CONSTANTS
  High = 9
  Low = 3
  AckSize = 3
  ReadSize = 4
  MaxReplays = 0
SPECIFICATION FairSpec
INVARIANTS
  NeverStranded
CHECK_DEADLOCK FALSE
