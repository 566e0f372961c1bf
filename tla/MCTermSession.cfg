\* Two sockets on one session, two links one after the other.
SPECIFICATION Spec
CONSTANTS
  Sessions = {s1}
  Sockets = {k1, k2}
  Links = {l1, l2}
  MaxPolls = 2
  NoSession = NoSession
  NoSocket = NoSocket
  NoLink = NoLink
SYMMETRY Symmetry
INVARIANTS
  TypeOK
  AttachedRegistered
  ActiveAttached
  NoZombieSession
  ConnectionUsable
  InstalledReleased
CHECK_DEADLOCK FALSE
