\* Docs: an entry with a recording offers its replay.
SPECIFICATION Spec
CONSTANTS
  Removals = {r1, r2}
  Sockets = {k1}
  MaxStops = 1
INVARIANT ReplayOffered
CHECK_DEADLOCK FALSE
