CONSTANTS
  Customers = {c1, c2}
  Orders <- MCOrders
  MaxOrders = 2
  IntMax = 199
  Torn = Torn
  Nothing = Nothing
SPECIFICATION Spec
INVARIANT MismatchHasCulprit
INVARIANT PaysTheList
PROPERTY RestaurantIsFinal
CHECK_DEADLOCK FALSE
