CONSTANTS
  N = 4
  QueueMax = 4
  MaxDup = 0
  EarlyReply = FALSE
SPECIFICATION FairAskSpec
CHECK_DEADLOCK FALSE
PROPERTY EventuallyReturned
