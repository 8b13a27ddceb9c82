--------------------------- MODULE PilotSettlement ---------------------------
(***************************************************************************)
(* A pilot pool settled by its resolver: PilotPool and PilotResolver run    *)
(* together, sharing the clock and the pool's result.  The resolver is the  *)
(* one for account holders (contracts/src/AccountPilotResolver.sol), whose  *)
(* transactions are those of PilotResolver except that only a caller who is *)
(* attested to hold shares at stake in the event may dispute it.  The       *)
(* attestation is signed off chain for one caller, event and alternative,   *)
(* names the holder and the claim, and lives at most two minutes: the       *)
(* holding itself is checked in the dispute.                                *)
(***************************************************************************)
EXTENDS Integers, FiniteSets

CONSTANTS
  Event, ClosesAt, MaxTime,                               \* shared
  Account, Reviewer, NoAccount, ObservationEnd,           \* PilotResolver
  AssertionPeriod, ChallengePeriod, VotingPeriod, InitialWallet,
  Trader, Claim, Receipt, Liquidity, MaxExposure, Scale,  \* PilotPool
  CostLower(_), CostUpper(_), TradeQuantity, MoveQuantity, MaxCollateral

VARIABLES
  now, funded, resolved, resolvedState, voidMask,         \* shared
  cases, votes, voted, wallet, held, lockedBonds, credits, totalCredits,
  bound, delivered, custody,
  remainingPayout, holdings, escrow, factors, maximumLiability, balance,
  created, receipts

R == INSTANCE PilotResolver
P == INSTANCE PilotPool

\* The assumptions of the two, about the same constants.
ASSUME ResolverAssumption ==
  /\ R!EventAssumption /\ R!PanelAssumption /\ R!AccountAssumption
  /\ R!TimeAssumption /\ R!WalletAssumption
ASSUME PoolAssumption ==
  /\ P!TraderAssumption /\ P!ClaimAssumption /\ P!ReceiptAssumption
  /\ P!NumberAssumption /\ P!CostAssumption

resolverOnly == <<cases, votes, voted, wallet, held, lockedBonds, credits,
                  totalCredits, bound, delivered, custody>>
poolOnly == <<remainingPayout, holdings, escrow, factors, maximumLiability,
              balance, created, receipts>>
vars == <<now, funded, resolved, resolvedState, voidMask, resolverOnly, poolOnly>>

Init == R!Init /\ P!Init

-----------------------------------------------------------------------------
(* Who may dispute.                                                         *)

\* A claim depends on an event if flipping the event changes what it pays in
\* some state.
Depends(c, e) ==
  /\ e \in c.scope
  /\ \E l \in SUBSET (c.scope \ {e}) : (l \in c.mask) # (l \cup {e} \in c.mask)

\* Mutant: shares wrapped into receipts do not qualify.
HasQualifyingShares_Unwrapped(a, e, c) == Depends(c, e) /\ holdings[a][c] > 0

\* hasQualifyingShares: the holder owns shares of c, or receipts of it if c is
\* a base claim of e.  The receipt token's own position (escrow) does not count.
HasQualifyingShares(a, e, c) ==
  /\ Depends(c, e)
  /\ \/ holdings[a][c] > 0
     \/ c \in created /\ c.scope = {e} /\ receipts[a][c] > 0

Eligible(e) == \E a \in Trader, c \in Claim : HasQualifyingShares(a, e, c)

-----------------------------------------------------------------------------
Tick == R!Tick /\ P!Tick

Fund == R!Fund /\ P!Fund

BindPool == R!BindPool /\ UNCHANGED poolOnly

AssertOutcome(e, a, o) == R!AssertOutcome(e, a, o) /\ UNCHANGED poolOnly

Dispute(e, a, o) == Eligible(e) /\ R!Dispute(e, a, o) /\ UNCHANGED poolOnly

Vote(e, a, o) == R!Vote(e, a, o) /\ UNCHANGED poolOnly

Finalize(e) == R!Finalize(e) /\ UNCHANGED poolOnly

WithdrawBond(a) == R!WithdrawBond(a) /\ UNCHANGED poolOnly

\* deliver calls pool.resolve in the same transaction.
Deliver == R!Deliver /\ P!Resolve(R!Results("Yes"), R!Results("Void"))

Trade ==
  /\ \E a \in Trader, c \in Claim, q \in TradeQuantity : P!Buy(a, c, q) \/ P!Sell(a, c, q)
  /\ UNCHANGED resolverOnly

\* Receipts are created, wrapped, unwrapped and handed over at any time.
MoveShares ==
  /\ \E c \in Receipt :
       \/ P!CreateBaseToken(c)
       \/ \E a \in Trader, q \in MoveQuantity :
            \/ P!WrapBase(a, c, q) \/ P!UnwrapBase(a, c, q)
            \/ \E b \in Trader : P!TransferReceipt(a, b, c, q)
  /\ UNCHANGED resolverOnly

Redeem ==
  /\ \E a \in Trader, c \in Claim, q \in MoveQuantity : P!Redeem(a, c, q)
  /\ UNCHANGED resolverOnly

Next ==
  \/ Tick \/ Fund \/ BindPool \/ Deliver \/ Trade \/ MoveShares \/ Redeem
  \/ \E e \in Event : Finalize(e)
  \/ \E e \in Event, a \in Account, o \in R!Outcome :
       AssertOutcome(e, a, o) \/ Dispute(e, a, o) \/ Vote(e, a, o)
  \/ \E a \in Account : WithdrawBond(a)

Spec == Init /\ [][Next]_vars
-----------------------------------------------------------------------------
(* Properties of the two together.                                          *)

\* A claim whose shares exist can be defended: while an assertion can be
\* challenged, somebody qualifies, wherever the shares went and whether or not
\* they were wrapped (AccountPilotResolver.sol:188-212).
ChallengePossible ==
  \A e \in Event :
    /\ R!ChallengeOpen(e)
    /\ \E c \in Claim : Depends(c, e) /\ P!Outstanding(c) > 0
    => Eligible(e)

\* YES shares of an event pay in full, nothing or half, as the case was ruled
\* Yes, No or Void; NO shares the complement.  The ruling goes through the
\* masks of deliver and the fractions of payoutFraction.
ClaimsPayRuling ==
  resolved =>
    \A e \in Event :
      LET yes == P!Numerator(P!Base(e, TRUE))
          no == P!Numerator(P!Base(e, FALSE))
      IN CASE cases[e].result = "Yes" -> yes = P!Denominator /\ no = 0
           [] cases[e].result = "No" -> yes = 0 /\ no = P!Denominator
           [] cases[e].result = "Void" -> yes = no /\ 2 * yes = P!Denominator
           [] OTHER -> FALSE
=============================================================================
