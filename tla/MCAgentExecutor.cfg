\* Two processes share the journal and the wallet; all plans are made at time 0,
\* and both purchases fit the limits.
SPECIFICATION Spec
CONSTANTS
  Proc = {p1, p2}
  Entry = {e1, e2}
  NoEntry = NoEntry
  Gone = Gone
  Actions = {"buy"}
  Limit = 1
  MaxSpend = 2
  MaxPosition = 2
  MaxPending = 2
  DeadlineAfter = 0
  FreshPlan = 1
  MaxTime = 1
  MaxForeign = 0
  MaxReorg = 1
  MaxCrash = 0
  AtomicReads = FALSE
SYMMETRY ExecutorSymmetry
INVARIANTS
  JournalledFirst
  
  NoncesDistinct
PROPERTIES
  FinalIsFinal
