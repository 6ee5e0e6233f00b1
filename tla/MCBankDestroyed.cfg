CONSTANTS
  Clients = {k1, k2}
  MaxClients = 2
  Requests <- LiveRequests
  IntMax = 4
  Main = Main
  None = None
  Destroyed = Destroyed
SPECIFICATION Spec
SYMMETRY Symmetry
INVARIANT NothingEverLost
CHECK_DEADLOCK FALSE
