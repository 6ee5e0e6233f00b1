CONSTANTS
  Customers = {c1, c2}
  Orders <- MCOrders
  MaxOrders = 2
  IntMax = 199
  Torn = Torn
  Nothing = Nothing
SPECIFICATION Spec
SYMMETRY Symmetry
INVARIANT RestaurantIsOwn
CHECK_DEADLOCK FALSE
