SPECIFICATION Spec
INVARIANT
  TestPost
CHECK_DEADLOCK FALSE
