\* Three sockets: owners and viewers in any mixture.
SPECIFICATION Spec
CONSTANTS
  Sockets = {k1, k2, k3}
  MaxAttempts = 2
  NoSocket = NoSocket
SYMMETRY Symmetry
INVARIANTS
  TypeOK
  OneMaster
  JoinsHeld
  OpenRegistered
  ActiveAttached
PROPERTY LeavingSparesOthers
CHECK_DEADLOCK FALSE
