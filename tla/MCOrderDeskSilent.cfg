CONSTANTS
  Customers = {c1}
  Orders <- MCOrders
  MaxOrders = 2
  IntMax = 199
  Torn = Torn
  Nothing = Nothing
SPECIFICATION Spec
SYMMETRY Symmetry
INVARIANT EveryCommandAnswered
CHECK_DEADLOCK FALSE
