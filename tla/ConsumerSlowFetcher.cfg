CONSTANTS
  t1 = t1
  t2 = t2
  w1 = w1
  w2 = w2
  LastOffset = 9
  TP = {t1}
  Workers = {w1}
  Log <- SeekLog
  Cython = TRUE
  StreamWaitEmpty = TRUE
  RebalanceAgain = FALSE
  SlowFetcher = TRUE
  MayIdle = FALSE
  MaxQueue = 2
  MaxPoll = 4
  MaxGen = 3
  MaxCrash = 0
SPECIFICATION Spec
CHECK_DEADLOCK FALSE
INVARIANT AtLeastOnce
