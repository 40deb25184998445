SPECIFICATION Spec
CONSTANTS
  w1 = w1
  w2 = w2
  q1 = q1
  Workers <- TwoWorkers
  Queries <- OneQuery
  Shape <- HarmlessShape
  Blockedlist <- NoPatterns
  Allowedlist <- NoPatterns
  RuleOrder <- StatefulRules
  OldDays = 1
  MaxDatapoints = 1
  MinFreq = 0
  Limit = 1
  Throttle = 1
  Adaptive = 0
  Intervals = {0}
  Minute = 3
  Starts <- Steadies
  Ends <- NoEnds
  Drifts <- AllDrifts
  DPs = {0, 2}
  TTL = 1
  SafeMode = FALSE
  Faults = {"unreachable"}
  MaxList = 1
  Timeout = 1
  Longest = 1
  MaxAge = 1
SYMMETRY Symmetry
INVARIANTS
  TypeOK
  RecordsWillExpire
PROPERTIES
  KeepsPromise
  AdmittedOnCurrentRecord
