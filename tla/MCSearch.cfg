SPECIFICATION Spec
CONSTANTS
  many = many
  one = one
  slow = slow
  none = none
  last = last
  None = None
  Walkers = {w1, w2, w3}
  Folders <- QueryFolders
  Matches <- FileMatches
  Slow <- SlowFiles
  Limits = {2, 6}
  StartBatchAfter = 1
  MaxBatch = 2
INVARIANTS TypeOK SuccessIsWhole OverrunBounded
PROPERTIES FoundArrives SearchEnds
CHECK_DEADLOCK FALSE
