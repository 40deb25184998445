SPECIFICATION Spec
CONSTANTS
  Blockedlist <- MCBlockedlist
  Allowedlist <- MCAllowedlist
  RuleOrder <- MCRuleOrder
  OldDays = 12
  MaxDatapoints = 1
  MinFreq = 1
  Limit = 2
  Throttle = 4
  Adaptive = 0
  Minute = 3
  Metrics = {"cpu.bad", "cpu.e2e", "disk"}
  Starts <- MCStarts
  Ends <- MCEnds
  Durations = {1, 2}
  DataPoints = {1, 2}
INVARIANT
  AllowedlistSkipsFilters
CHECK_DEADLOCK FALSE
