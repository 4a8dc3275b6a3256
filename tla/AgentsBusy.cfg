CONSTANTS
  Partitions = {0, 1}
  MayIdle = FALSE
  MaxRebalance = 2
  MaxErrors = 1
SPECIFICATION Spec
CHECK_DEADLOCK FALSE
INVARIANT RevokedStopped
