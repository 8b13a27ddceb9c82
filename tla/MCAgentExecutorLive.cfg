\* One open transaction at a time; every trade settles.
SPECIFICATION FairSpec
CONSTANTS
  Proc = {p1}
  Entry = {e1, e2}
  NoEntry = NoEntry
  Gone = Gone
  Actions = {"buy", "approve"}
  Limit = 2
  MaxSpend = 3
  MaxPosition = 2
  MaxPending = 1
  DeadlineAfter = 0
  FreshPlan = 1
  MaxTime = 1
  MaxForeign = 0
  MaxReorg = 0
  MaxCrash = 1
  AtomicReads = FALSE
PROPERTIES
  EveryTradeSettles
