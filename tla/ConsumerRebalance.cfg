CONSTANTS
  t1 = t1
  t2 = t2
  w1 = w1
  w2 = w2
  LastOffset = 4
  TP = {t1}
  Workers = {w1}
  Log <- HoleLog
  Cython = TRUE
  StreamWaitEmpty = TRUE
  RebalanceAgain = FALSE
  SlowFetcher = FALSE
  MayIdle = FALSE
  MaxQueue = 2
  MaxPoll = 2
  MaxGen = 3
  MaxCrash = 1
SPECIFICATION FairSpec
CHECK_DEADLOCK FALSE
INVARIANT TypeOK
INVARIANT AtLeastOnce
INVARIANT DrainedBeforeJoin
INVARIANT IndexMirrorsAcked
PROPERTY EventuallyProcessed
