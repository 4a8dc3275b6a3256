CONSTANTS
  t1 = t1
  t2 = t2
  TP = {t1, t2}
  MaxEnd = 2
  BufferSize = 2
  StandbySize = 1
  Assignments <- Stays
  ClearOnResume = TRUE
  MaxQueue = 2
  MaxGen = 3
  MaxCrash = 1
  MaxTimeouts = 1
  Prompt = TRUE
  LateResume = TRUE
SPECIFICATION FairSpec
CHECK_DEADLOCK FALSE
INVARIANT TypeOK
INVARIANT ServedComplete
INVARIANT PersistedCovered
PROPERTY EventuallyServed
