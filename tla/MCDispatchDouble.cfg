CONSTANTS
  Customers = {c1, c2, c3}
  None = None
  Limit = 2
  Distances = {1, 2}
  Answers = {"Yes", "No", "Other"}
SPECIFICATION Spec
SYMMETRY Symmetry
INVARIANT PersonMutexExclusive
CHECK_DEADLOCK FALSE
