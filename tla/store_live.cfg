SPECIFICATION FairSpec
CONSTANTS
  w1 = w1
  w2 = w2
  q1 = q1
  Workers <- TwoWorkers
  Queries <- OneQuery
  Shape <- HarmlessShape
  Blockedlist <- NoPatterns
  Allowedlist <- NoPatterns
  RuleOrder <- DatapointsRule
  OldDays = 1
  MaxDatapoints = 1
  MinFreq = 0
  Limit = 0
  Throttle = 1
  Adaptive = 0
  Intervals = {0}
  Minute = 3
  Starts <- Steadies
  Ends <- NoEnds
  Drifts <- AllDrifts
  DPs = {2}
  TTL = 1
  SafeMode = FALSE
  Faults = {"silent"}
  MaxList = 1
  Timeout = 0
  Longest = 0
  MaxAge = 0
PROPERTIES
  RefusalEndsUnlessTorn
  RequestsEnd
