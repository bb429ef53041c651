CONSTANTS
  Caller = {c1, c2, c3}
  Key = {k1, k2, k3}
  Mutex = {m1, m2, m3, m4}
  None = None
  MinSweep = 1
SPECIFICATION FairSpec
INVARIANTS
  MutualExclusion
PROPERTIES
  ImplementsLockService
  EventuallyOwns
