SPECIFICATION Spec
CONSTANTS
  Roots = {r1}
  Mutations = {m1}
  Discoveries = {1, 2}
  MaxWrites = 2
  None = None
  Failed = Failed
INVARIANTS TypeOK RestIsCurrent
PROPERTIES StaleIsAMiss ViewCatchesUp
CHECK_DEADLOCK FALSE
