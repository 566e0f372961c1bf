\* Liveness of one session with one socket; no symmetry.
SPECIFICATION LiveSpec
CONSTANTS
  Sessions = {s1}
  Sockets = {k1}
  Links = {l1}
  MaxPolls = 2
  NoSession = NoSession
  NoSocket = NoSocket
  NoLink = NoLink
PROPERTIES
  LoginEnds
  WaiterServed
  RemovalCompletes
  IdleReaped
CHECK_DEADLOCK FALSE
