CONSTANTS
  t1 = t1
  t2 = t2
  TP = {t1, t2}
  MaxEnd = 2
  BufferSize = 2
  StandbySize = 1
  Assignments <- SomeActive
  ClearOnResume = TRUE
  MaxQueue = 3
  MaxGen = 3
  MaxCrash = 0
  MaxTimeouts = 0
  Prompt = TRUE
  LateResume = TRUE
SPECIFICATION Spec
CHECK_DEADLOCK FALSE
INVARIANT PersistedCovered
