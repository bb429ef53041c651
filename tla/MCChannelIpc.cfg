SPECIFICATION FairSpec
CONSTANTS
  MaxCycle = 2
  MaxListener = 2
  MaxEvent = 3
  Refusing = TRUE
INVARIANTS
  TypeOK
  FiredInOrder
  NoOrphan
PROPERTIES
  CyclesServed
CHECK_DEADLOCK FALSE
