CONSTANTS
  t1 = t1
  t2 = t2
  c1 = c1
  c2 = c2
  TP = {t1, t2}
  Channels = {c1, c2}
  Log <- TwoLogs
  BadFor <- OneBad
  MaxSize = 2
  High = 1
  Low = 0
  MaxPoll = 2
  MaxGen = 2
SPECIFICATION FairSpec
CHECK_DEADLOCK FALSE
INVARIANT TypeOK
INVARIANT AckedAfterAll
INVARIANT ReferencePerHolder
PROPERTY EventuallyAcked
PROPERTY FetchedAgain
