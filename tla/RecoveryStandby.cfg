CONSTANTS
  t1 = t1
  t2 = t2
  TP = {t1}
  MaxEnd = 2
  BufferSize = 2
  StandbySize = 1
  Assignments <- StandbyOnly
  ClearOnResume = TRUE
  MaxQueue = 2
  MaxGen = 1
  MaxCrash = 0
  MaxTimeouts = 0
  Prompt = TRUE
  LateResume = TRUE
SPECIFICATION Spec
CHECK_DEADLOCK FALSE
INVARIANT StandbyExact
