----------------------------- MODULE MCPilotPool -----------------------------
(***************************************************************************)
(* A small instance of the pilot pool and the learning pool.                 *)
(*                                                                          *)
(* Two events, three claims (YES and NO of one event and the parlay of      *)
(* both), two traders.  The cost is the LMSR cost with liquidity            *)
(* b = Lot / ln 2, so the cost of an exposure q is Lot * log2(sum of        *)
(* 2^(q/Lot)); its bounds are the integers around it in half atoms.  Trades *)
(* are whole lots; redemptions and receipts move single atoms too, so that  *)
(* payouts round.  The bias tables lean one lot towards YES of the first    *)
(* event, NO of it, the parlay, or YES and the parlay.                       *)
(***************************************************************************)
EXTENDS Pools, TLC

CONSTANTS ea, eb, ann, bob

Lot == 3
YesA == Base(ea, TRUE)
NoA == Base(ea, FALSE)
Parlay == [scope |-> {ea, eb}, mask |-> {{ea, eb}}]

Claims == {YesA, NoA, Parlay}
Receipts == {YesA}

\* 2^(Lot * Scale * log2 n): the argument whose integer logarithm is a bound.
Weight(q) == MapThenSumSet(LAMBDA s : 2^(q[s] \div Lot), State) ^ (Lot * Scale)
LogDown(n) == CHOOSE k \in 0..30 : n \div 2^k = 1
LogUp(n) == IF 2^LogDown(n) = n THEN LogDown(n) ELSE LogDown(n) + 1

HalfAtomLower(q) == LogDown(Weight(q))
HalfAtomUpper(q) == LogUp(Weight(q))

Lean(cs) == [sc \in Scope |-> [l \in SUBSET sc |->
               IF \E c \in cs : c.scope = sc /\ l \in c.mask THEN Lot ELSE 0]]
Leans == {NoBias, Lean({YesA}), Lean({NoA}), Lean({Parlay}), Lean({YesA, Parlay})}

TraderSymmetry == Permutations({ann, bob})

\* The learning pool is explored with one trader and without receipts, which
\* are the pilot pool's own.
OneTrader ==
  pool = "learning" => created = {} /\ \A c \in Claim : holdings[bob][c] = 0
=============================================================================
