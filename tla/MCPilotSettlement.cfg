SPECIFICATION Spec
CONSTANTS
  ea = ea
  eb = eb
  r1 = r1
  r2 = r2
  r3 = r3
  ann = ann
  bob = bob
  Event = {ea, eb}
  Reviewer = {r1, r2, r3}
  Account = {ann, bob, r1, r2, r3}
  NoAccount = NoAccount
  Trader = {ann, bob}
  Claim <- Claims
  Receipt <- Claims
  ClosesAt = 1
  ObservationEnd <- ObservationEnds
  AssertionPeriod = 1
  ChallengePeriod = 1
  VotingPeriod = 1
  InitialWallet = 1
  MaxTime = 6
  Liquidity = 1
  MaxExposure = 2
  Scale = 1
  CostLower <- WorstPayout
  CostUpper <- WorstPayout
  TradeQuantity = {1}
  MoveQuantity = {1}
  MaxCollateral = 2
SYMMETRY AccountSymmetry
CHECK_DEADLOCK FALSE
INVARIANTS
  
  ClaimsPayRuling
