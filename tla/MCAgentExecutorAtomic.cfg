\* The chain does not move between the reads of one reconciliation.
SPECIFICATION Spec
CONSTANTS
  Proc = {p1, p2}
  Entry = {e1, e2}
  NoEntry = NoEntry
  Gone = Gone
  Actions = {"buy"}
  Limit = 2
  MaxSpend = 3
  MaxPosition = 2
  MaxPending = 2
  DeadlineAfter = 0
  FreshPlan = 1
  MaxTime = 1
  MaxForeign = 1
  MaxReorg = 0
  MaxCrash = 1
  AtomicReads = TRUE
SYMMETRY ExecutorSymmetry
INVARIANTS
  ReservationsWithinPolicy
  SpendWithinLimit
  ReplacedNeverLands
