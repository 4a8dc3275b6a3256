CONSTANTS
  Workers = {w1, w2}
  Partitions = {p1, p2}
  Events = 1
  TableEvents = {}
  Leftovers = TRUE
  MaxFaults = 1
SPECIFICATION Spec
CHECK_DEADLOCK FALSE
PROPERTY CommitsAtomically
