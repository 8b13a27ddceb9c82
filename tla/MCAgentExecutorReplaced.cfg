\* The lookup of a transaction and the count of used nonces are two reads.
SPECIFICATION Spec
CONSTANTS
  Proc = {p1}
  Entry = {e1}
  NoEntry = NoEntry
  Gone = Gone
  Actions = {"buy", "approve"}
  Limit = 2
  MaxSpend = 3
  MaxPosition = 2
  MaxPending = 2
  DeadlineAfter = 0
  FreshPlan = 1
  MaxTime = 1
  MaxForeign = 0
  MaxReorg = 0
  MaxCrash = 0
  AtomicReads = FALSE
SYMMETRY ExecutorSymmetry
INVARIANTS
  ReplacedNeverLands
