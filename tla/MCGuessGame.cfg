CONSTANTS
  Truths <- MCTruths
  Uppers <- MCUppers
  IntMax = 15
  Torn = Torn
SPECIFICATION FairSpec
INVARIANT NoGuessForgotten
PROPERTY StaysInBracket
PROPERTY RefinesBisection
PROPERTY NumberFound
CHECK_DEADLOCK FALSE
