\* Two sessions and two links that could be mixed up; sockets play no part
\* in the share index and are left out.
SPECIFICATION Spec
CONSTANTS
  Sessions = {s1, s2}
  Sockets = {}
  Links = {l1, l2}
  MaxPolls = 1
  NoSession = NoSession
  NoSocket = NoSocket
  NoLink = NoLink
SYMMETRY Symmetry
INVARIANTS
  ShareSound
PROPERTY ImplementsLifecycle
CHECK_DEADLOCK FALSE
