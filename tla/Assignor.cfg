CONSTANTS
  w1 = w1
  w2 = w2
  w3 = w3
  Clients = {w1, w2, w3}
  NumPartitions = 3
  Replicas = 1
  GlobalTable = TRUE
  MaxRounds = 2
  MaxMissed = 1
SPECIFICATION FairSpec
CHECK_DEADLOCK FALSE
INVARIANT TypeOK
INVARIANT NeverFails
INVARIANT Balanced
INVARIANT Sticky
INVARIANT PromotesStandby
PROPERTY Terminates
