CONSTANTS
  Customers = {c1, c2}
  Free = {c2}
  Commands <- MCCommands
  MaxTyped = 2
  None = None
SPECIFICATION Spec
CHECK_DEADLOCK FALSE
INVARIANT ServerLives
