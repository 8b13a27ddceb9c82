------------------------------ MODULE PilotPool ------------------------------
(***************************************************************************)
(* A pilot pool: contracts/src/PilotPool.sol on top of FactoredTrading,     *)
(* FactoredFunding and FactoredPositions.  A state of the world is the set  *)
(* of events that end YES; a claim pays one unit of collateral per share in *)
(* the states its mask selects among the events of its scope.  The pool     *)
(* keeps one payout table per scope and prices trades by the LMSR cost of   *)
(* the summed tables.                                                       *)
(*                                                                          *)
(* The cost function is known to the contract only through interval bounds  *)
(* (FactoredCost.bounds), so it is a parameter: any pair of bounds that     *)
(* encloses something no smaller than the worst payout.  Each transaction   *)
(* is one action, a reverting call is a disabled one, and the caller's own  *)
(* price limit and deadline only decide whether the call reverts.           *)
(***************************************************************************)
EXTENDS Sums

CONSTANTS
  Event,
  Trader,
  Claim,            \* records [scope, mask] that are traded
  Receipt,          \* the base claims among them whose ERC-20 receipt may be created
  ClosesAt,
  Liquidity,        \* b, in collateral atoms; also the largest single trade
  MaxExposure,      \* 100 * b: the domain of the cost library
  Scale,            \* internal (WAD) units per collateral atom
  CostLower(_), CostUpper(_),   \* bounds of the LMSR cost of an exposure, in WAD
  TradeQuantity,    \* bound: quantities of buy and sell calls
  MoveQuantity,     \* bound: quantities of redeem, wrap, unwrap and transfers
  MaxCollateral,    \* bound: no trade takes the pool's collateral beyond this
  MaxTime           \* bound: the clock stops here

State == SUBSET Event
Scope == {c.scope : c \in Claim}
Base(e, yes) == [scope |-> {e}, mask |-> IF yes THEN {{e}} ELSE {{}}]

ASSUME EventAssumption == IsFiniteSet(Event) /\ Event # {}
ASSUME TraderAssumption == IsFiniteSet(Trader)
\* FactoredPositions.key: one to three events, and a mask that is not constant.
ASSUME ClaimAssumption ==
  /\ IsFiniteSet(Claim)
  /\ \A c \in Claim :
       /\ c.scope \subseteq Event /\ Cardinality(c.scope) \in 1..3
       /\ c.mask \subseteq SUBSET c.scope /\ c.mask \notin {{}, SUBSET c.scope}
ASSUME ReceiptAssumption ==
  Receipt \subseteq Claim /\ Receipt \subseteq {Base(e, yes) : e \in Event, yes \in BOOLEAN}
ASSUME NumberAssumption ==
  /\ ClosesAt \in Nat \ {0} /\ MaxTime \in Nat /\ MaxCollateral \in Nat
  /\ Liquidity \in Nat \ {0} /\ MaxExposure \in Nat /\ Scale \in Nat \ {0}
  /\ TradeQuantity \subseteq Nat \ {0} /\ MoveQuantity \subseteq Nat \ {0}
\* LMSR: the cost is at least the payout of every state.
ASSUME CostAssumption ==
  \A q \in [State -> 0..MaxExposure] :
    /\ CostLower(q) \in Nat /\ CostUpper(q) \in Nat
    /\ CostLower(q) <= CostUpper(q)
    /\ \A s \in State : Scale * q[s] <= CostUpper(q)

VARIABLES
  now, funded, resolved, resolvedState, voidMask, remainingPayout,
  holdings,          \* holdings[a][c]: positions of the traders
  escrow,            \* escrow[c]: position of the receipt token's address
  factors,           \* factors[scope][local state]: storedFactors
  maximumLiability,
  balance,           \* collateral the pool owns, in atoms
  created,           \* receipts whose token exists
  receipts           \* receipts[a][c]: ERC-20 balances of the receipt tokens

positionVars == <<holdings, escrow, receipts>>
outcomeVars == <<resolved, resolvedState, voidMask, remainingPayout>>
vars == <<now, funded, outcomeVars, positionVars, factors, maximumLiability,
          balance, created>>

TypeOK ==
  /\ now \in Nat
  /\ funded \in BOOLEAN /\ resolved \in BOOLEAN
  /\ resolvedState \in State /\ voidMask \in State
  /\ remainingPayout \in Nat /\ maximumLiability \in Nat /\ balance \in Nat
  /\ holdings \in [Trader -> [Claim -> Nat]]
  /\ escrow \in [Receipt -> Nat]
  /\ receipts \in [Trader -> [Receipt -> Nat]]
  /\ created \in SUBSET Receipt
  /\ factors = [sc \in Scope |-> factors[sc]]
  /\ \A sc \in Scope : factors[sc] \in [SUBSET sc -> Nat]

\* Ceiling division, as the rounding-up conversions compute it.
CeilDiv(n, d) == (n + d - 1) \div d

Exposure(tables) == [s \in State |-> Sum([sc \in Scope |-> tables[sc][s \cap sc]], Scope)]
EmptyTables == [sc \in Scope |-> [l \in SUBSET sc |-> 0]]
MaxPayout(q) == Max({q[s] : s \in State})

RequiredFunding == CeilDiv(CostUpper(Exposure(EmptyTables)), Scale)

Init ==
  /\ now = 0 /\ funded = FALSE
  /\ resolved = FALSE /\ resolvedState = {} /\ voidMask = {} /\ remainingPayout = 0
  /\ holdings = [a \in Trader |-> [c \in Claim |-> 0]]
  /\ escrow = [c \in Receipt |-> 0]
  /\ receipts = [a \in Trader |-> [c \in Receipt |-> 0]]
  /\ factors = EmptyTables
  /\ maximumLiability = 0 /\ balance = 0 /\ created = {}

-----------------------------------------------------------------------------
Tick ==
  /\ now < MaxTime
  /\ now' = now + 1
  /\ UNCHANGED <<funded, outcomeVars, positionVars, factors, maximumLiability,
                 balance, created>>

RequiredCollateral == IF resolved THEN remainingPayout ELSE maximumLiability
Covered == balance >= RequiredCollateral

Fund ==
  /\ ~funded /\ now < ClosesAt
  /\ funded' = TRUE
  /\ balance' = balance + RequiredFunding
  /\ balance' >= RequiredCollateral
  /\ UNCHANGED <<now, outcomeVars, positionVars, factors, maximumLiability, created>>

-----------------------------------------------------------------------------
(* Trading.                                                                 *)

RequireTrading == funded /\ now < ClosesAt /\ Covered

HasShares_Unchecked(a, c, q) == TRUE    \* Mutant: the debit is not checked.

HasShares(a, c, q) == holdings[a][c] >= q

\* Mutant: the mask is ignored and the whole table moves.
Shifted_WholeTable(c, delta) ==
  [factors EXCEPT ![c.scope] = [l \in SUBSET c.scope |-> @[l] + delta]]

\* The tables after delta shares of c enter or leave the book.
Shifted(c, delta) ==
  [factors EXCEPT ![c.scope] = [l \in SUBSET c.scope |->
                                  IF l \in c.mask THEN @[l] + delta ELSE @[l]]]

\* FactoredCost.validate: the sum of the tables' maxima stays in the domain.
InDomain(tables) ==
  Sum([sc \in Scope |-> Max({tables[sc][l] : l \in SUBSET sc})], Scope) <= MaxExposure

\* Mutant: the bounds are swapped and the trader gains the rounding.
Cost_Swapped(tables, tablesAfter) ==
  (CostLower(Exposure(tablesAfter)) - CostUpper(Exposure(tables))) \div Scale

Cost(tables, tablesAfter) ==
  CeilDiv(CostUpper(Exposure(tablesAfter)) - CostLower(Exposure(tables)), Scale)

Proceeds(tables, tablesAfter) ==
  (CostLower(Exposure(tables)) - CostUpper(Exposure(tablesAfter))) \div Scale

Buy(a, c, q) ==
  LET after == Shifted(c, q)
      paid == Cost(factors, after)
  IN /\ RequireTrading
     /\ q <= Liquidity /\ InDomain(after)
     /\ paid > 0 /\ paid <= q
     /\ balance + paid <= MaxCollateral
     /\ holdings' = [holdings EXCEPT ![a][c] = @ + q]
     /\ factors' = after
     /\ maximumLiability' = MaxPayout(Exposure(after))
     /\ balance' = balance + paid
     /\ balance' >= maximumLiability'
     /\ UNCHANGED <<now, funded, outcomeVars, escrow, receipts, created>>

Sell(a, c, q) ==
  LET after == Shifted(c, -q)
      received == Proceeds(factors, after)
  IN /\ RequireTrading
     /\ q <= Liquidity
     /\ HasShares(a, c, q)
     /\ \A l \in c.mask : factors[c.scope][l] >= q
     /\ received > 0 /\ received <= balance
     /\ holdings' = [holdings EXCEPT ![a][c] = @ - q]
     /\ factors' = after
     /\ maximumLiability' = MaxPayout(Exposure(after))
     /\ balance' = balance - received
     /\ balance' >= maximumLiability'
     /\ UNCHANGED <<now, funded, outcomeVars, escrow, receipts, created>>

-----------------------------------------------------------------------------
(* Receipts: an ERC-20 token stands for a base claim held by its address.   *)

CreateBaseToken(c) ==
  /\ c \notin created
  /\ created' = created \cup {c}
  /\ UNCHANGED <<now, funded, outcomeVars, positionVars, factors,
                 maximumLiability, balance>>

Escrowed_Forgotten(c, q) == escrow    \* Mutant: shares are wrapped without escrow.

Escrowed(c, q) == [escrow EXCEPT ![c] = @ + q]

WrapBase(a, c, q) ==
  /\ c \in created /\ HasShares(a, c, q)
  /\ holdings' = [holdings EXCEPT ![a][c] = @ - q]
  /\ escrow' = Escrowed(c, q)
  /\ receipts' = [receipts EXCEPT ![a][c] = @ + q]
  /\ UNCHANGED <<now, funded, outcomeVars, factors, maximumLiability, balance, created>>

UnwrapBase(a, c, q) ==
  /\ c \in created /\ receipts[a][c] >= q /\ escrow[c] >= q
  /\ receipts' = [receipts EXCEPT ![a][c] = @ - q]
  /\ escrow' = [escrow EXCEPT ![c] = @ - q]
  /\ holdings' = [holdings EXCEPT ![a][c] = @ + q]
  /\ UNCHANGED <<now, funded, outcomeVars, factors, maximumLiability, balance, created>>

\* ERC-20 transfer of receipts (OpenZeppelin), the only way a claim changes owner.
TransferReceipt(a, b, c, q) ==
  /\ a # b /\ receipts[a][c] >= q
  /\ receipts' = [receipts EXCEPT ![a][c] = @ - q, ![b][c] = @ + q]
  /\ UNCHANGED <<now, funded, outcomeVars, holdings, escrow, factors,
                 maximumLiability, balance, created>>

-----------------------------------------------------------------------------
(* Resolution and redemption.                                               *)

\* Mutant: a void event counts as NO.
Consistent_VoidIsNo(yes, void) == {s \in State : s = yes}

\* The states that agree with the result on every event that is not void.
Consistent(yes, void) == {s \in State : s \ void = yes}

\* Mutant: the reserve rounds down like the payouts.
Reserve_Down(yes, void) ==
  LET possible == Consistent(yes, void)
  IN Sum(Exposure(factors), possible) \div Cardinality(possible)

\* Mutant: the total over the possible states is reserved instead of its mean.
Reserve_Total(yes, void) ==
  Sum(Exposure(factors), Consistent(yes, void))

\* The mean payout of the book over the consistent states, rounded up.
Reserve(yes, void) ==
  LET possible == Consistent(yes, void)
      total == Sum(Exposure(factors), possible)
  IN CeilDiv(total, Cardinality(possible))

Resolve(yes, void) ==
  /\ funded /\ ~resolved /\ now >= ClosesAt
  /\ yes \cap void = {}
  /\ remainingPayout' = Reserve(yes, void)
  /\ resolvedState' = yes /\ voidMask' = void /\ resolved' = TRUE
  /\ UNCHANGED <<now, funded, positionVars, factors, maximumLiability, balance, created>>

\* payoutFraction: a claim pays the share of the consistent states it covers.
Denominator == Cardinality(Consistent(resolvedState, voidMask))
Numerator(c) ==
  Cardinality({s \in Consistent(resolvedState, voidMask) : s \cap c.scope \in c.mask})

Payout(c, q) == (q * Numerator(c)) \div Denominator

Redeem(a, c, q) ==
  /\ resolved /\ Covered
  /\ HasShares(a, c, q)
  /\ \A l \in c.mask : factors[c.scope][l] >= q       \* checked subtraction
  /\ remainingPayout >= Payout(c, q)                   \* checked subtraction
  /\ balance >= Payout(c, q)
  /\ holdings' = [holdings EXCEPT ![a][c] = @ - q]
  /\ factors' = Shifted(c, -q)
  /\ remainingPayout' = remainingPayout - Payout(c, q)
  /\ balance' = balance - Payout(c, q)
  /\ balance' >= remainingPayout'
  /\ UNCHANGED <<now, funded, resolved, resolvedState, voidMask, escrow, receipts,
                 maximumLiability, created>>

Next ==
  \/ Tick \/ Fund
  \/ \E c \in Receipt : CreateBaseToken(c)
  \/ \E a \in Trader, c \in Claim :
       \/ \E q \in TradeQuantity : Buy(a, c, q) \/ Sell(a, c, q)
       \/ \E q \in MoveQuantity : Redeem(a, c, q)
  \/ \E a \in Trader, c \in Receipt, q \in MoveQuantity :
       \/ WrapBase(a, c, q) \/ UnwrapBase(a, c, q)
       \/ \E b \in Trader : TransferReceipt(a, b, c, q)
  \/ \E yes, void \in State : Resolve(yes, void)

Spec == Init /\ [][Next]_vars

-----------------------------------------------------------------------------
(* Properties.                                                              *)

Wrapped(c) == IF c \in Receipt THEN escrow[c] ELSE 0
Outstanding(c) == Sum([a \in Trader |-> holdings[a][c]], Trader) + Wrapped(c)

\* The payout tables are exactly the shares that exist: every cell counts the
\* holdings and escrowed shares that pay there, before and after resolution.
\* So no sale and no redemption of shares somebody holds can fail on a table
\* (FactoredQuote.sol:135, PilotPool.sol:88), and no counter leaves its type.
TablesMatchHoldings ==
  /\ TypeOK
  /\ \A sc \in Scope : \A l \in SUBSET sc :
       factors[sc][l] =
         Sum([c \in Claim |-> Outstanding(c)], {c \in Claim : c.scope = sc /\ l \in c.mask})

\* While the pool trades its collateral is at least the upper bound of the
\* cost of its book, so the funding computed from the empty book covers every
\* sequence of trades and requireCovered never refuses one
\* (FactoredFunding.sol:39-41, QuoteMath.sol:41-64).
PricingCovers ==
  funded /\ ~resolved => Scale * balance >= CostUpper(Exposure(factors))

\* The pool owns what it requires in every funded state; resolve itself does
\* not check it (PilotPool.sol:45-67).
AlwaysCovered == funded => balance >= RequiredCollateral

\* After resolution everything that is still outstanding, held or wrapped, can
\* be redeemed in any order and any split: the exact sum of all claims' shares
\* never exceeds the reserve, although payouts round down and the reserve up
\* (PilotPool.sol:61-62, 92-94).
AllRedeemable ==
  resolved =>
    Sum([c \in Claim |-> Outstanding(c) * Numerator(c)], Claim)
      <= remainingPayout * Denominator

\* Receipts in circulation are backed one to one by the escrowed position of
\* their token (PilotPool.sol:114-133).
ReceiptsBacked ==
  \A c \in Receipt : Sum([a \in Trader |-> receipts[a][c]], Trader) = escrow[c]
=============================================================================
