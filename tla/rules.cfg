SPECIFICATION Spec
CONSTANTS
  Blockedlist <- MCBlockedlist
  Allowedlist <- MCAllowedlist
  RuleOrder <- MCRuleOrder
  OldDays = 12
  MaxDatapoints = 1
  MinFreq = 1
  Limit = 2
  Throttle = 4
  Adaptive = 2
  Minute = 3
  Metrics = {"cpu.bad", "cpu.e2e", "disk"}
  Starts <- MCStarts
  Ends <- MCEnds
  Durations = {0, 2}
  DataPoints = {1, 2}
INVARIANTS
  RecordIsFound
  KeyMoves
PROPERTIES
  TimeOnlyLifts
  ThrottlingEnds
CHECK_DEADLOCK FALSE
