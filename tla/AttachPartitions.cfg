CONSTANTS
  t1 = t1
  t2 = t2
  w1 = w1
  LastOffset = 1
  TP = {t1, t2}
  Workers = {w1}
  Log <- TwoLogs
  Cython = TRUE
  StreamWaitEmpty = TRUE
  RebalanceAgain = FALSE
  SlowFetcher = FALSE
  MayIdle = FALSE
  MaxQueue = 2
  MaxPoll = 2
  MaxGen = 2
  MaxCrash = 1
SPECIFICATION AttachSpec
CHECK_DEADLOCK FALSE
INVARIANT AtLeastOnce
INVARIANT ReportedBeforeCommitted
