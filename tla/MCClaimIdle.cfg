SPECIFICATION ClaimSpec
CONSTANTS
  Sessions = {s1}
  Sockets = {k1}
  Links = {l1}
  MaxPolls = 1
  NoSession = NoSession
  NoSocket = NoSocket
  NoLink = NoLink
PROPERTY OnlyInactiveCleaned
CHECK_DEADLOCK FALSE
