CONSTANTS
  Clients = {k1, k2}
  MaxClients = 1
  Requests <- LiveRequests
  IntMax = 4
  Main = Main
  None = None
  Destroyed = Destroyed
SPECIFICATION Spec
PROPERTY RejectedOnlyWhenFull
CHECK_DEADLOCK FALSE
