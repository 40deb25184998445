SPECIFICATION Spec
INVARIANTS
  TypeOK
  Gatekeeping
  CountedStatusIsTheLast
  OneRecordPerRun
  SilenceIsExplained
PROPERTY
  Terminates
CHECK_DEADLOCK FALSE
