CONSTANTS
  Truths = {7}
  Uppers = {7}
  IntMax = 15
  Torn = Torn
SPECIFICATION FairSpec
PROPERTY UpperBoundFound
CHECK_DEADLOCK FALSE
