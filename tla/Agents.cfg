CONSTANTS
  Partitions = {0, 1, 2}
  MayIdle = FALSE
  MaxRebalance = 4
  MaxErrors = 2
SPECIFICATION FairSpec
CHECK_DEADLOCK FALSE
INVARIANT OneActor
PROPERTY StoppedForGood
PROPERTY EventuallyRead
