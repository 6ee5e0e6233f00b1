CONSTANTS
  Clients = {k1}
  MaxClients = 1
  Requests <- LiveRequests
  IntMax = 4
  Main = Main
  None = None
  Destroyed = Destroyed
SPECIFICATION Spec
SYMMETRY Symmetry
INVARIANT ShutdownWaits
CHECK_DEADLOCK FALSE
