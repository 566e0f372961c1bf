\* Two removals, two closing sockets, two stops of the process.
SPECIFICATION LiveSpec
CONSTANTS
  Removals = {r1, r2}
  Sockets = {k1, k2}
  MaxStops = 2
INVARIANTS
  TypeOK
  TerminalKept
  MarkedCopied
PROPERTIES
  SourceKept
  FinalisationEnds
  ExpiredGoes
CHECK_DEADLOCK FALSE
