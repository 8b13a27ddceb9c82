----------------------------- MODULE FundedPool -----------------------------
(***************************************************************************)
(* The learning pool: contracts/src/FundedFactoredPool.sol with its pricing  *)
(* engine, on the book, the funding and the receipts it shares with the      *)
(* pilot pool.  Trades are priced by the cost of the payouts plus a bias an  *)
(* updater may move; the updater pays what the reserve of the new bias lacks, *)
(* up to a limit for each epoch.  Results are single states, never void.     *)
(*                                                                          *)
(* An update is computed from the pool at one moment and sent at a later one; *)
(* proposal keeps it in between, with the book it was computed from.         *)
(***************************************************************************)
EXTENDS PilotPool

CONSTANTS
  Biases,              \* bias tables the updater may choose, NoBias among them
  MaxBiasMovement, EpochFundingLimit, EpochSeconds, MinUpdateInterval,
  NoProposal,
  MaxRevision          \* bound: trades and updates of one behaviour

NoBias == EmptyTables

\* The constructor's checks, and canonical: tables of one sign that touch zero.
ASSUME PolicyAssumption ==
  /\ MaxBiasMovement \in 1..Liquidity /\ EpochFundingLimit \in Nat \ {0}
  /\ EpochSeconds \in Nat \ {0} /\ MinUpdateInterval \in 1..EpochSeconds
  /\ NoBias \in Biases /\ MaxRevision \in Nat
  /\ \A a \in Biases, sc \in Scope :
       a[sc] \in [SUBSET sc -> Nat] /\ \E l \in SUBSET sc : a[sc][l] = 0

VARIABLES
  bias,                \* storedBias
  pricingReserve, revision, lastUpdateAt, updateCount,
  fundingEpoch, epochFundingSpent,
  proposal,            \* the update the updater is about to send
  paidIn               \* history: what the updater paid in each epoch

policyVars == <<lastUpdateAt, updateCount, fundingEpoch, epochFundingSpent, paidIn>>
fundedVars == <<bias, pricingReserve, revision, policyVars, proposal>>

Epochs == 0..(MaxTime \div EpochSeconds)

FundedInit ==
  /\ Init
  /\ bias = NoBias /\ pricingReserve = RequiredFunding /\ revision = 0
  /\ lastUpdateAt = 0 /\ updateCount = 0 /\ fundingEpoch = 0 /\ epochFundingSpent = 0
  /\ proposal = NoProposal /\ paidIn = [n \in Epochs |-> 0]

-----------------------------------------------------------------------------
(* The pricing engine.                                                      *)

Joined(tables, a) == [s \in State |-> Exposure(tables)[s] + Exposure(a)[s]]
LowestBias(a) == Min({Exposure(a)[s] : s \in State})

JoinedInDomain(tables, a) ==
  Sum([sc \in Scope |-> Max({tables[sc][l] : l \in SUBSET sc})
                          + Max({a[sc][l] : l \in SUBSET sc})], Scope) <= MaxExposure

\* reserveFromCost: the bound of the cost above what the bias alone promises.
ReserveOf(tables, a) ==
  CeilDiv(CostUpper(Joined(tables, a)) - Scale * LowestBias(a), Scale)

\* movement: the sum over the tables of the range of their change.
Movement(a, b) ==
  LET Moves(sc) == {b[sc][l] - a[sc][l] : l \in SUBSET sc}
  IN Sum([sc \in Scope |-> Max(Moves(sc)) - Min(Moves(sc))], Scope)

BiasedCost(tables, after) ==
  CeilDiv(CostUpper(Joined(after, bias)) - CostLower(Joined(tables, bias)), Scale)
BiasedProceeds(tables, after) ==
  (CostLower(Joined(tables, bias)) - CostUpper(Joined(after, bias))) \div Scale

\* requiredCollateral before the result.
Required(reserve, liability) == Max({reserve, liability})
FundedCovered ==
  balance >= IF resolved THEN remainingPayout ELSE Required(pricingReserve, maximumLiability)

-----------------------------------------------------------------------------
(* Trades.                                                                  *)

\* Mutant: a trade leaves the reserve of the book before it.
ReserveAfter_Stale(tables) == pricingReserve

ReserveAfter(tables) == ReserveOf(tables, bias)

\* Mutant: only updates advance the revision.
RevisionAfterTrade_Kept == revision

RevisionAfterTrade == revision + 1

\* afterTrade.
AfterTrade(tables) ==
  /\ revision < MaxRevision
  /\ pricingReserve' = ReserveAfter(tables) /\ revision' = RevisionAfterTrade
  /\ UNCHANGED <<bias, policyVars, proposal>>

\* priceTrade: what the engine quotes, before limits and transfers.
Quotable(c, q, delta) ==
  LET after == Shifted(c, delta) IN
  /\ q <= Liquidity
  /\ \A l \in c.mask : after[c.scope][l] >= 0
  /\ JoinedInDomain(after, bias)

QuotedBuy(c, q) == BiasedCost(factors, Shifted(c, q))
QuotedSale(c, q) == BiasedProceeds(factors, Shifted(c, -q))

FundedBuy(a, c, q) ==
  LET after == Shifted(c, q)  paid == QuotedBuy(c, q) IN
  /\ funded /\ now < ClosesAt /\ FundedCovered
  /\ Quotable(c, q, q) /\ paid > 0 /\ paid <= q
  /\ balance + paid <= MaxCollateral
  /\ holdings' = [holdings EXCEPT ![a][c] = @ + q]
  /\ factors' = after
  /\ maximumLiability' = MaxPayout(Exposure(after))
  /\ AfterTrade(after)
  /\ balance' = balance + paid
  /\ balance' >= Required(pricingReserve', maximumLiability')
  /\ UNCHANGED <<now, funded, outcomeVars, escrow, receipts, created>>

FundedSell(a, c, q) ==
  LET after == Shifted(c, -q)  received == QuotedSale(c, q) IN
  /\ funded /\ now < ClosesAt /\ FundedCovered
  /\ HasShares(a, c, q) /\ Quotable(c, q, -q) /\ received > 0 /\ received <= balance
  /\ holdings' = [holdings EXCEPT ![a][c] = @ - q]
  /\ factors' = after
  /\ maximumLiability' = MaxPayout(Exposure(after))
  /\ AfterTrade(after)
  /\ balance' = balance - received
  /\ balance' >= Required(pricingReserve', maximumLiability')
  /\ UNCHANGED <<now, funded, outcomeVars, escrow, receipts, created>>

-----------------------------------------------------------------------------
(* Updates.                                                                 *)

\* The updater, off chain: a new bias for the pool as it is now.
ProposeBias(a) ==
  /\ funded /\ ~resolved /\ a # bias
  /\ proposal' = [revision |-> revision, bias |-> a, factors |-> factors, was |-> bias]
  /\ UNCHANGED <<vars, bias, pricingReserve, revision, policyVars>>

\* Mutant: the sum of the epoch is forgotten by every update.
SpentSoFar_Reset(epoch) == 0

SpentSoFar(epoch) == IF epoch = fundingEpoch THEN epochFundingSpent ELSE 0

Shortfall(reserve) == IF reserve > balance THEN reserve - balance ELSE 0

UpdateBias ==
  LET p == proposal
      epoch == now \div EpochSeconds
      reserve == ReserveOf(factors, p.bias)
      added == Shortfall(reserve)
  IN /\ p # NoProposal
     /\ funded /\ now < ClosesAt /\ FundedCovered
     /\ p.revision = revision
     /\ updateCount # 0 => now >= lastUpdateAt + MinUpdateInterval
     /\ JoinedInDomain(factors, p.bias)
     /\ Movement(bias, p.bias) <= MaxBiasMovement
     /\ SpentSoFar(epoch) + added <= EpochFundingLimit
     /\ revision < MaxRevision
     /\ bias' = p.bias /\ pricingReserve' = reserve
     /\ revision' = revision + 1 /\ updateCount' = updateCount + 1 /\ lastUpdateAt' = now
     /\ fundingEpoch' = epoch /\ epochFundingSpent' = SpentSoFar(epoch) + added
     /\ balance' = balance + added
     /\ balance' >= Required(pricingReserve', maximumLiability)
     /\ paidIn' = [paidIn EXCEPT ![epoch] = @ + added]
     /\ proposal' = NoProposal
     /\ UNCHANGED <<now, funded, outcomeVars, positionVars, factors, maximumLiability, created>>

-----------------------------------------------------------------------------
(* The rest of the pool.                                                    *)

FundedFund == Fund /\ balance' >= Required(pricingReserve, maximumLiability)

FundedNext ==
  \/ /\ \/ Tick \/ FundedFund
        \/ \E c \in Receipt : CreateBaseToken(c)
        \/ \E a \in Trader, c \in Claim, q \in MoveQuantity : Redeem(a, c, q)
        \/ \E a \in Trader, c \in Receipt, q \in MoveQuantity :
             \/ WrapBase(a, c, q) \/ UnwrapBase(a, c, q)
             \/ \E b \in Trader : TransferReceipt(a, b, c, q)
        \/ \E yes \in State : Resolve(yes, {})
     /\ UNCHANGED fundedVars
  \/ \E a \in Trader, c \in Claim, q \in TradeQuantity : FundedBuy(a, c, q) \/ FundedSell(a, c, q)
  \/ \E a \in Biases : ProposeBias(a)
  \/ UpdateBias

FundedSpec == FundedInit /\ [][FundedNext]_<<vars, fundedVars>>
-----------------------------------------------------------------------------
(* Properties.                                                              *)

\* The updater pays at most the limit in any epoch, however updates, trades and
\* the boundary of the epoch interleave (FundedFactoredPool.sol:111-113), and an
\* update that can still be applied meets the book and the bias it was computed
\* from (line 98), whatever was traded in between.
UpdatesBounded ==
  /\ \A n \in Epochs : paidIn[n] <= EpochFundingLimit
  /\ proposal # NoProposal /\ proposal.revision = revision /\ ~resolved
       => proposal.factors = factors /\ proposal.was = bias

\* The reserve is that of the current book and bias, it is at least the worst
\* payout and the pool owns it; so no trade the engine quotes is refused for lack
\* of cover, whatever the updater did before (FundedFactoredPool.sol:75-79).
QuotesHonoured ==
  funded /\ ~resolved =>
    /\ pricingReserve = ReserveOf(factors, bias)
    /\ pricingReserve >= maximumLiability /\ FundedCovered
    /\ \A c \in Claim, q \in TradeQuantity :
         /\ Quotable(c, q, q) =>
              balance + QuotedBuy(c, q) >= Required(ReserveOf(Shifted(c, q), bias),
                                                    MaxPayout(Exposure(Shifted(c, q))))
         /\ Quotable(c, q, -q) /\ QuotedSale(c, q) > 0 =>
              balance - QuotedSale(c, q) >= Required(ReserveOf(Shifted(c, -q), bias),
                                                     MaxPayout(Exposure(Shifted(c, -q))))
=============================================================================
