CONSTANTS
  Customers = {c1, c2, c3}
  Free = {c2, c3}
  Commands = {"order"}
  MaxTyped = 2
  None = None
SPECIFICATION HelloFairSpec
PROPERTY LockStepHoldsServer
PROPERTY EveryoneInTurn
CHECK_DEADLOCK FALSE
