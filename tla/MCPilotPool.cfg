CONSTANTS
  ea = ea
  eb = eb
  ann = ann
  bob = bob
  Event = {ea, eb}
  Trader = {ann, bob}
  Claim <- Claims
  Receipt <- Receipts
  ClosesAt = 4
  Liquidity = 3
  MaxExposure = 9
  Scale = 2
  CostLower <- HalfAtomLower
  CostUpper <- HalfAtomUpper
  TradeQuantity = {3}
  MoveQuantity = {1, 3}
  MaxCollateral = 13
  MaxTime = 4
  Biases <- Leans
  MaxBiasMovement = 3
  EpochFundingLimit = 2
  EpochSeconds = 2
  MinUpdateInterval = 1
  NoProposal = NoProposal
  MaxRevision = 3
SPECIFICATION PoolSpec
CONSTRAINT OneTrader
SYMMETRY TraderSymmetry
CHECK_DEADLOCK FALSE
INVARIANT TablesMatchHoldings
INVARIANT PricingCovers
INVARIANT AlwaysCovered
INVARIANT AllRedeemable
INVARIANT ReceiptsBacked
INVARIANT UpdatesBounded
INVARIANT LearningQuotesHonoured
