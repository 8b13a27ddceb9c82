SPECIFICATION ServerSpec
CONSTANTS
  robot = robot
  runtime = runtime
  ap = ap
  buy = buy
  Server = {s1, s2}
  Agent = {robot, runtime}
  Assisted = {robot}
  Decision = {d}
  Review = {ap, buy}
  Purchase = {buy}
  Hash = {h1, h2}
  NoServer = NoServer
  NoReview = NoReview
  NoTx = NoTx
  NoOwner = NoOwner
  MaxProposals = 2
  FullProposals = 0
  FinalKept = 1
  MaxExpiry = 1
  MaxCrash = 1
  Process = {s1, s2}
  Account = {l1, l2}
  Wallet = {h1, h2}
  Free = Free
  DailyLimit = 1
  MaxPayment = 2
  MaxLost = 1
  MaxDeath = 1
  MaxSpend = 1
  Request = {r1, r2, r3, r4}
  Concurrency = 2
  MaxQueued = 1
  Worker = {s1, s2}
  Robot = {l1, l2}
  Purse = {h1, h2}
  Nobody = Nobody
  MaxTorn = 1
  Scanner = {s1}
  Confirmations = 1
  ScanSize = 2
  WindowSize = 1
  MaxHeight = 3
  MaxFork = 1
  Job = {s1, s2}
  NoJobHere = NoJobHere
  QueueLimit = 1
  PerRun = 1
  MaxReport = 2
  MaxMail = 2
  MaxUpset = 1
SYMMETRY ServerSymmetry
CONSTRAINT Bounds
CHECK_DEADLOCK FALSE
 
 
INVARIANT SlotsConserved
INVARIANT WalletsExclusive
INVARIANT IndexFaithful
 
 
