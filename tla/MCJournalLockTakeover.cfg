\* One process crashes, one other recovers.
SPECIFICATION FairSpec
CONSTANTS
  Pid = {p1, p2}
  StaleAge = 1
  MaxAge = 2
  MaxCrash = 1
INVARIANTS
  MutualExclusion
PROPERTIES
  StampedLockRecovered
  CallsAtomic
\* Every process may have finished or crashed.
CHECK_DEADLOCK FALSE
