CONSTANTS
  Workers = {w1, w2}
  Partitions = {p1}
  Events = 2
  TableEvents = {1, 2}
  Leftovers = FALSE
  MaxFaults = 0
SPECIFICATION Spec
CHECK_DEADLOCK FALSE
INVARIANT CountsConsistent
