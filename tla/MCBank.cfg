CONSTANTS
  Clients = {k1, k2, k3}
  MaxClients = 2
  Requests <- MCRequests
  IntMax = 2
  Main = Main
  None = None
  Destroyed = Destroyed
SPECIFICATION FairSpec
INVARIANT NothingLost
INVARIANT NeverOverdrawn
INVARIANT SocketIsOwn
PROPERTY RefinesAccount
PROPERTY EveryClientEnds
CHECK_DEADLOCK FALSE
