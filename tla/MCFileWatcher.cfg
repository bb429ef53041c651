SPECIFICATION WatcherSpec
CONSTANTS
  dir = dir
  inside = inside
  lower = lower
  upper = upper
  Cancelled = Cancelled
  Paths <- TreePaths
  Key <- TreeKey
  Above <- TreeAbove
  Into <- TreeInto
  Debounce = 1
  MaxDebounce = 2
  MaxChanges = 3
  MaxRaw = 2
INVARIANTS WatcherTypeOK 
PROPERTIES  WritesAreRead
CHECK_DEADLOCK FALSE
