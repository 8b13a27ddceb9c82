\* Windows of one time unit, two runners of the tick, one fault and one loss.
CONSTANTS
  e1 = e1
  r1 = r1
  r2 = r2
  r3 = r3
  ann = ann
  bot = bot
  Event = {e1}
  Reviewer = {r1, r2, r3}
  Account = {ann, bot, r1, r2, r3}
  NoAccount = NoAccount
  ClosesAt = 1
  ObservationEnd <- ObservationEnds
  AssertionPeriod = 1
  ChallengePeriod = 1
  VotingPeriod = 1
  InitialWallet = 1
  MaxTime = 3
  Runner = {w1, w2}
  NoRunner = NoRunner
  Bot = bot
  NoTx = NoTx
  Contested = {"No"}
  Evidence = {"Yes"}
  Defer = 1
  MaxAttempts = 2
  MaxNonce = 4
  MaxFault = 1
  MaxLoss = 2
SPECIFICATION FairWorker
CHECK_DEADLOCK FALSE
INVARIANT OneDurableTransaction
INVARIANT ResendBounded
PROPERTY FinalizesOwnClaims
PROPERTY WorkerSettles
