SPECIFICATION Spec
CONSTANTS
  s1 = s1
  s2 = s2
  r1 = r1
  r2 = r2
  None = None
  Session = {s1, s2}
  Request = {r1, r2}
  Owner <- RequestOwner
INVARIANTS
  NoWatcherLeaks
PROPERTIES
  KeepsWantedWatchers
  WatchesAreArmed
CHECK_DEADLOCK FALSE
