CONSTANTS
  Events = 3
  Filtered = {}
  MaxBatch = 2
  MaxErrors = 1
SPECIFICATION Spec
CHECK_DEADLOCK FALSE
INVARIANT OnlyAfterConsumed
