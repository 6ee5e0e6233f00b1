CONSTANTS
  Clients = {c1, c2, c3}
  Server = Server
  None = None
SPECIFICATION FairSpec
INVARIANT NoZombieForgotten
INVARIANT HeldByItsTrain
PROPERTY EveryClientEnds
CHECK_DEADLOCK FALSE
