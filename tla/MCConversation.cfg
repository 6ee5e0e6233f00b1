CONSTANTS
  Customers = {c1, c2}
  Free = {c2}
  Commands <- MCCommands
  MaxTyped = 2
  None = None
SPECIFICATION FairSpec
INVARIANT OnlySilenceDeadlocks
INVARIANT DiesOfAbandonedRide
INVARIANT ReplyIsToTheQuestion
PROPERTY ArrivalIsShown
CHECK_DEADLOCK FALSE
