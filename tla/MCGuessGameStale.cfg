CONSTANTS
  Truths <- LiveTruths
  Uppers = {7}
  IntMax = 15
  Torn = Torn
SPECIFICATION Spec
INVARIANT GuessRight
CHECK_DEADLOCK FALSE
