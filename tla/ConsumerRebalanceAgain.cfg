CONSTANTS
  t1 = t1
  t2 = t2
  w1 = w1
  w2 = w2
  LastOffset = 2
  TP = {t1}
  Workers = {w1}
  Log <- DenseLog
  Cython = TRUE
  StreamWaitEmpty = TRUE
  RebalanceAgain = TRUE
  SlowFetcher = FALSE
  MayIdle = FALSE
  MaxQueue = 2
  MaxPoll = 2
  MaxGen = 2
  MaxCrash = 0
SPECIFICATION Spec
CHECK_DEADLOCK FALSE
INVARIANT AtLeastOnce
