CONSTANTS
  Customers = {c1, c2}
  None = None
  Limit = 2
  Distances = {1, 2}
  Answers = {"No"}
SPECIFICATION Spec
SYMMETRY Symmetry
INVARIANT FirstAvailableChosen
