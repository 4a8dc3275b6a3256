CONSTANTS
  Events = 7
  Filtered = {3}
  MaxBatch = 2
  MaxErrors = 2
SPECIFICATION FairSpec
CHECK_DEADLOCK FALSE
INVARIANT TypeOK
INVARIANT InOrder
INVARIANT AckedAfterDone
PROPERTY EventuallyAcked
