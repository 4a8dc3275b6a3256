CONSTANTS
  Partitions = {0, 1}
  MayIdle = FALSE
  MaxRebalance = 2
  MaxErrors = 0
SPECIFICATION Spec
CHECK_DEADLOCK FALSE
INVARIANT IndexAssertion
