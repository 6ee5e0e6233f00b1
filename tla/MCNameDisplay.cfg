CONSTANTS
  Length = 3
  Width = 3
  Buffer = 6
SPECIFICATION DisplayFairSpec
INVARIANT ShownIsWhole
INVARIANT StoppedByEarlyRead
PROPERTY NeverGoesBack
PROPERTY LastLetterStays
CHECK_DEADLOCK FALSE
