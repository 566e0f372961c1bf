\* Two sockets, with fairness and without symmetry.
SPECIFICATION LiveSpec
CONSTANTS
  Sockets = {k1, k2}
  MaxAttempts = 2
  NoSocket = NoSocket
PROPERTIES
  OwnerServed
  DeadSocketLeaves
  RemovalCompletes
CHECK_DEADLOCK FALSE
