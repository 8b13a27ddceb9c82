\* One process crashes, two others find its lock stale.
SPECIFICATION Spec
CONSTANTS
  Pid = {p1, p2, p3}
  StaleAge = 1
  MaxAge = 2
  MaxCrash = 1
SYMMETRY PidSymmetry
INVARIANTS
  MutualExclusion
\* Every process may have finished or crashed.
CHECK_DEADLOCK FALSE
