CONSTANTS
  N = 4
  QueueMax = 5
  MaxDup = 0
  EarlyReply = FALSE
SPECIFICATION FairAskSpec
CHECK_DEADLOCK FALSE
INVARIANT Answered
PROPERTY EventuallyReturned
