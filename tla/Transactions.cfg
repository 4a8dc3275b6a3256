CONSTANTS
  Workers = {w1, w2}
  Partitions = {p1}
  Events = 2
  TableEvents = {2}
  Leftovers = FALSE
  MaxFaults = 1
SPECIFICATION FairSpec
CHECK_DEADLOCK FALSE
INVARIANT TypeOK
INVARIANT OwnerKnows
PROPERTY CommitsAtomically
PROPERTY EventuallyCommitted
