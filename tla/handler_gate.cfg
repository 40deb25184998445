SPECIFICATION Spec
INVARIANT
  DocumentedGate
CHECK_DEADLOCK FALSE
