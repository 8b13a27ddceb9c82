CONSTANTS
  e1 = e1
  e2 = e2
  r1 = r1
  r2 = r2
  r3 = r3
  ann = ann
  bob = bob
  Event = {e1, e2}
  Reviewer = {r1, r2, r3}
  Account = {ann, bob, r1, r2, r3}
  NoAccount = NoAccount
  ClosesAt = 1
  ObservationEnd <- ObservationEnds
  AssertionPeriod = 1
  ChallengePeriod = 1
  VotingPeriod = 1
  InitialWallet = 1
  MaxTime = 6
SPECIFICATION Spec
SYMMETRY AccountSymmetry
CHECK_DEADLOCK FALSE
INVARIANT BondsBacked
INVARIANT BondLostOnlyByRuling
INVARIANT ResultJustified
INVARIANT BallotsCounted
INVARIANT SettlementMatches
INVARIANT DeliveryNotRefused
INVARIANT WithinHorizon
PROPERTY ResultIsFinal
PROPERTY ImplementsSettlement
