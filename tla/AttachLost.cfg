CONSTANTS
  t1 = t1
  t2 = t2
  w1 = w1
  LastOffset = 2
  TP = {t1}
  Workers = {w1}
  Log <- DenseLog
  Cython = TRUE
  StreamWaitEmpty = TRUE
  RebalanceAgain = FALSE
  SlowFetcher = FALSE
  MayIdle = FALSE
  MaxQueue = 2
  MaxPoll = 2
  MaxGen = 1
  MaxCrash = 0
SPECIFICATION AttachSpec
CHECK_DEADLOCK FALSE
INVARIANT WrittenBeforeCommitted
