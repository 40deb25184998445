SPECIFICATION Spec
CONSTANTS
  w1 = w1
  w2 = w2
  q1 = q1
  Workers <- TwoWorkers
  Queries <- OneQuery
  Shape <- HarmlessShape
  Blockedlist <- NoPatterns
  Allowedlist <- NoPatterns
  RuleOrder <- StatefulRules
  OldDays = 1
  MaxDatapoints = 1
  MinFreq = 1
  Limit = 1
  Throttle = 1
  Adaptive = 1
  Intervals = {0, 1}
  Minute = 3
  Starts <- Jitteries
  Ends <- NoEnds
  Drifts <- AllDrifts
  DPs = {2}
  TTL = 0
  SafeMode = FALSE
  Faults = {"unreachable", "silent", "error", "crash"}
  MaxList = 1
  Timeout = 1
  Longest = 1
  MaxAge = 2
SYMMETRY Symmetry
INVARIANTS
  CountersMatchList
  FirstOccurrenceKept
PROPERTY
  KeepsPromise
