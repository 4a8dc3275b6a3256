CONSTANTS
  size = 2
  step = 1
  expires = 1
  Stores = {"memory", "rocksdb"}
  Falsy = FALSE
  SlowSend = TRUE
  BatchMax = 2
  MaxEvents = 2
  MaxTime = 2
  MaxFaults = 0
SPECIFICATION Spec
CHECK_DEADLOCK FALSE




INVARIANT CommittedLogged
