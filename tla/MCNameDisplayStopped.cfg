CONSTANTS
  Length = 3
  Width = 3
  Buffer = 6
SPECIFICATION DisplaySpec
CHECK_DEADLOCK FALSE
INVARIANT DisplayPolls
