--------------------------- MODULE PilotPoolProofs ---------------------------
(***************************************************************************)
(* The pools keep their promises for every set of events, traders and        *)
(* claims, every cost function within CostAssumption and every bound.  Book  *)
(* is what the two pools share: the payout tables are the shares that exist, *)
(* receipts are escrowed, the reserve of the result pays every share.  IInv  *)
(* adds the collateral of the pilot pool, LInv the reserve and the updates   *)
(* of the learning pool.  A book of claims is turned into payouts per state, *)
(* and back, by exchanging sums (TotalIsPayout).                             *)
(***************************************************************************)
EXTENDS Pools, SumProofs

\* Rounding up by CeilDiv (QuoteMath.sol) loses less than one divisor.
LEMMA CeilDivAtLeast ==
  ASSUME NEW n \in Int, NEW d \in Nat \ {0}
  PROVE  CeilDiv(n, d) \in Int /\ d * CeilDiv(n, d) >= n /\ d * CeilDiv(n, d) < n + d
BY DEF CeilDiv

\* CeilDiv is the least number that is enough.
LEMMA CeilDivLeast ==
  ASSUME NEW n \in Int, NEW d \in Nat \ {0}, NEW m \in Int, d * m >= n
  PROVE  CeilDiv(n, d) <= m
<1> DEFINE k == CeilDiv(n, d)
<1>1. k \in Int /\ d * k < n + d
  BY CeilDivAtLeast
<1> HIDE DEF k
<1>2. SUFFICES ASSUME k >= m + 1 PROVE FALSE
  BY <1>1 DEF k
<1>3. d * k >= d * (m + 1)
  BY <1>1, <1>2
<1>4. d * (m + 1) = d * m + d
  OBVIOUS
<1>5. QED
  BY <1>1, <1>3, <1>4

\* Rounding down never pays more than the exact amount.
LEMMA DivAtMost ==
  ASSUME NEW n \in Int, NEW d \in Nat \ {0}
  PROVE  n \div d \in Int /\ d * (n \div d) <= n
OBVIOUS

\* The finite sets of a pool.
LEMMA Finite ==
  /\ IsFiniteSet(Scope) /\ IsFiniteSet(State) /\ IsFiniteSet(Claim) /\ IsFiniteSet(Trader)
  /\ \A sc \in Scope : sc \subseteq Event /\ IsFiniteSet(SUBSET sc)
  /\ \A c \in Claim : c.scope \in Scope /\ c.mask \subseteq SUBSET c.scope
  /\ \A c \in Receipt : c \in Claim
<1>1. IsFiniteSet(Scope)
  <2> DEFINE f == [c \in Claim |-> c.scope]
  <2>1. Scope = {f[c] : c \in Claim}
    BY DEF Scope
  <2> HIDE DEF f
  <2>2. QED
    BY <2>1, ClaimAssumption, ImageFinite
<1>2. IsFiniteSet(State)
  BY EventAssumption, FS_SUBSET DEF State
<1>3. ASSUME NEW sc \in Scope PROVE sc \subseteq Event /\ IsFiniteSet(SUBSET sc)
  <2>1. sc \subseteq Event
    BY ClaimAssumption DEF Scope
  <2>2. QED
    BY <2>1, EventAssumption, FS_Subset, FS_SUBSET
<1>4. QED
  BY <1>1, <1>2, <1>3, ClaimAssumption, TraderAssumption, ReceiptAssumption DEF Scope

\* A trade moves the cells of its mask by its quantity and no other.
LEMMA ShiftedAt ==
  ASSUME NEW c \in Claim, NEW d \in Int, TypeOK
  PROVE  /\ Shifted(c, d) = [sc \in Scope |-> Shifted(c, d)[sc]]
         /\ \A sc \in Scope : \A l \in SUBSET sc :
              Shifted(c, d)[sc][l] =
                factors[sc][l] + (IF sc = c.scope /\ l \in c.mask THEN d ELSE 0)
         /\ \A sc \in Scope : (\A l \in SUBSET sc : Shifted(c, d)[sc][l] >= 0)
                                => Shifted(c, d)[sc] \in [SUBSET sc -> Nat]
<1> DEFINE T == [l \in SUBSET c.scope |-> IF l \in c.mask THEN factors[c.scope][l] + d
                                          ELSE factors[c.scope][l]]
<1>1. c.scope \in Scope
  BY Finite
<1>2. factors = [sc \in Scope |-> factors[sc]]
  BY DEF TypeOK
<1>3. Shifted(c, d) = [factors EXCEPT ![c.scope] = T]
  BY DEF Shifted
<1>4. \A sc \in Scope : Shifted(c, d)[sc] = IF sc = c.scope THEN T ELSE factors[sc]
  BY <1>1, <1>2, <1>3
<1>5. \A sc \in Scope : factors[sc] \in [SUBSET sc -> Nat]
  BY DEF TypeOK
<1>6. Shifted(c, d) = [sc \in Scope |-> Shifted(c, d)[sc]]
  BY <1>1, <1>2, <1>3
<1>7. ASSUME NEW sc \in Scope, NEW l \in SUBSET sc
      PROVE /\ factors[sc][l] \in Nat
            /\ Shifted(c, d)[sc][l] =
                 factors[sc][l] + (IF sc = c.scope /\ l \in c.mask THEN d ELSE 0)
            /\ Shifted(c, d)[sc][l] \in Int
  <2>1. factors[sc][l] \in Nat
    BY <1>5
  <2>2. CASE sc = c.scope
    <3>1. Shifted(c, d)[sc][l] = T[l]
      BY <1>4, <2>2
    <3>2. QED
      BY <2>1, <2>2, <3>1
  <2>3. CASE sc # c.scope
    <3> HIDE DEF T
    <3>1. Shifted(c, d)[sc] = factors[sc]
      BY <1>4, <2>3
    <3>2. QED
      BY <2>1, <2>3, <3>1
  <2>4. QED
    BY <2>2, <2>3
<1>8. ASSUME NEW sc \in Scope, \A l \in SUBSET sc : Shifted(c, d)[sc][l] >= 0
      PROVE  Shifted(c, d)[sc] \in [SUBSET sc -> Nat]
  <2>1. \A l \in SUBSET sc : Shifted(c, d)[sc][l] \in Nat
    <3> HIDE DEF T
    <3> QED BY <1>7, <1>8
  <2>2. Shifted(c, d)[sc] = [l \in SUBSET sc |-> Shifted(c, d)[sc][l]]
    BY <1>4, <1>5
  <2>3. QED
    BY <2>1, <2>2
<1> HIDE DEF T
<1>9. QED
  BY <1>6, <1>7, <1>8

-----------------------------------------------------------------------------
\* Payout tables: one natural for each cell.
Tables(t) == \A sc \in Scope : t[sc] \in [SUBSET sc -> Nat]

\* A state selects one cell of every table.
LEMMA CellType ==
  ASSUME NEW t, Tables(t)
  PROVE  /\ \A sc \in Scope : \A l \in SUBSET sc : t[sc][l] \in Nat
         /\ \A s \in State : \A sc \in Scope : s \cap sc \in SUBSET sc /\ t[sc][s \cap sc] \in Nat
BY DEF Tables

\* Payouts of tables are naturals.
LEMMA ExposureType ==
  ASSUME NEW t, Tables(t)
  PROVE  Exposure(t) \in [State -> Nat]
<1>1. ASSUME NEW s \in State PROVE Sum([sc \in Scope |-> t[sc][s \cap sc]], Scope) \in Nat
  <2>1. \A sc \in Scope : [k \in Scope |-> t[k][s \cap k]][sc] \in Nat
    BY DEF Tables
  <2>2. QED
    BY <2>1, Finite, SumNat
<1>2. QED
  BY <1>1 DEF Exposure

\* The largest cell of a table.
LEMMA CellMax ==
  ASSUME NEW t, Tables(t), NEW sc \in Scope
  PROVE  /\ Max({t[sc][l] : l \in SUBSET sc}) \in Int
         /\ \A l \in SUBSET sc : t[sc][l] <= Max({t[sc][l2] : l2 \in SUBSET sc})
<1> DEFINE g == t[sc]
           V == {g[l] : l \in SUBSET sc}
<1>1. \A l \in SUBSET sc : g[l] \in Int /\ g[l] \in V
  BY CellType
<1>2. V \in SUBSET Int /\ V # {}
  BY <1>1, {} \in SUBSET sc
<1>3. IsFiniteSet(V)
  <2> HIDE DEF g
  <2> QED BY Finite, ImageFinite
<1> HIDE DEF V
<1>4. Max(V) \in Int /\ \A l \in SUBSET sc : g[l] <= Max(V)
  BY <1>1, <1>2, <1>3, MaxOfFinite
<1>5. QED
  BY <1>4 DEF V

\* Tables whose maxima pass the domain check have payouts in the domain of the cost
\* library (FactoredCost.validate).
LEMMA ExposureInDomain ==
  ASSUME NEW t, Tables(t), InDomain(t)
  PROVE  Exposure(t) \in [State -> 0..MaxExposure]
<1> DEFINE top == [sc \in Scope |-> Max({t[sc][l] : l \in SUBSET sc})]
<1>1. ASSUME NEW sc \in Scope
      PROVE top[sc] \in Int /\ \A l \in SUBSET sc : t[sc][l] <= top[sc]
  BY CellMax
<1>2. ASSUME NEW s \in State PROVE Exposure(t)[s] \in 0..MaxExposure
  <2> DEFINE f == [sc \in Scope |-> t[sc][s \cap sc]]
  <2>1. Exposure(t)[s] = Sum(f, Scope) /\ Exposure(t)[s] \in Nat
    BY ExposureType DEF Exposure
  <2>2. \A sc \in Scope : f[sc] \in Int /\ top[sc] \in Int /\ f[sc] <= top[sc]
    <3> HIDE DEF top
    <3> QED BY <1>1, CellType
  <2>3. Sum(top, Scope) <= MaxExposure
    BY DEF InDomain
  <2> HIDE DEF f, top
  <2>4. Sum(f, Scope) <= Sum(top, Scope) /\ Sum(top, Scope) \in Int
    BY <2>2, Finite, SumAtMost, SumInt
  <2>5. QED
    BY <2>1, <2>3, <2>4, NumberAssumption
<1>3. QED
  BY <1>2, ExposureType

\* Fewer shares, smaller payouts.
LEMMA ExposureMonotone ==
  ASSUME NEW t, NEW r, Tables(t), Tables(r),
         \A sc \in Scope : \A l \in SUBSET sc : r[sc][l] <= t[sc][l]
  PROVE  \A s \in State : Exposure(r)[s] <= Exposure(t)[s]
<1>1. SUFFICES ASSUME NEW s \in State PROVE Exposure(r)[s] <= Exposure(t)[s]
  OBVIOUS
<1> DEFINE f == [sc \in Scope |-> r[sc][s \cap sc]]
           g == [sc \in Scope |-> t[sc][s \cap sc]]
<1>2. \A sc \in Scope : f[sc] \in Int /\ g[sc] \in Int /\ f[sc] <= g[sc]
  <2>1. \A sc \in Scope : s \cap sc \in SUBSET sc
    OBVIOUS
  <2>2. ASSUME NEW sc \in Scope PROVE f[sc] \in Int /\ g[sc] \in Int /\ f[sc] <= g[sc]
    <3>1. f[sc] = r[sc][s \cap sc] /\ g[sc] = t[sc][s \cap sc]
      OBVIOUS
    <3>2. /\ r[sc][s \cap sc] \in Nat /\ t[sc][s \cap sc] \in Nat
          /\ r[sc][s \cap sc] <= t[sc][s \cap sc]
      BY <2>1, CellType
    <3> HIDE DEF f, g
    <3>3. QED
      BY <3>1, <3>2
  <2>3. QED
    BY <2>2
<1>3. Exposure(r)[s] = Sum(f, Scope) /\ Exposure(t)[s] = Sum(g, Scope)
  BY DEF Exposure
<1> HIDE DEF f, g
<1>4. QED
  BY <1>2, <1>3, Finite, SumAtMost

\* The empty book pays nothing.
LEMMA ExposureEmpty ==
  /\ Tables(EmptyTables)
  /\ \A s \in State : Exposure(EmptyTables)[s] = 0
<1>1. Tables(EmptyTables)
  BY DEF Tables, EmptyTables
<1>2. ASSUME NEW s \in State PROVE Exposure(EmptyTables)[s] = 0
  <2> DEFINE f == [sc \in Scope |-> EmptyTables[sc][s \cap sc]]
  <2>1. \A sc \in Scope : f[sc] = 0
    BY DEF EmptyTables
  <2>2. Exposure(EmptyTables)[s] = Sum(f, Scope)
    BY DEF Exposure
  <2> HIDE DEF f
  <2>3. QED
    BY <2>1, <2>2, Finite, SumZero
<1>3. QED
  BY <1>1, <1>2

\* The worst payout is the payout of some state.
LEMMA MaxPayoutBounds ==
  ASSUME NEW q \in [State -> Nat]
  PROVE  /\ MaxPayout(q) \in Nat
         /\ \A s \in State : q[s] <= MaxPayout(q)
         /\ \E s \in State : q[s] = MaxPayout(q)
<1> DEFINE V == {q[s] : s \in State}
<1>1. V \in SUBSET Int /\ V # {} /\ \A v \in V : v \in Nat /\ \E s \in State : q[s] = v
  BY DEF State
<1>2. IsFiniteSet(V)
  BY Finite, ImageFinite
<1>3. \A s \in State : q[s] \in V
  OBVIOUS
<1>4. MaxPayout(q) = Max(V)
  BY DEF MaxPayout
<1> HIDE DEF V
<1>5. Max(V) \in V /\ \A v \in V : v <= Max(V)
  BY <1>1, <1>2, MaxOfFinite
<1>6. QED
  BY <1>1, <1>3, <1>4, <1>5

-----------------------------------------------------------------------------
\* Outstanding shares move with holdings and escrow.
LEMMA OutstandingMoved ==
  ASSUME TypeOK, TypeOK', NEW a \in Trader, NEW c \in Claim, NEW d \in Int, NEW e \in Int,
         \A b \in Trader : \A k \in Claim :
            holdings'[b][k] = holdings[b][k] + (IF b = a /\ k = c THEN d ELSE 0),
         \A k \in Receipt : escrow'[k] = escrow[k] + (IF k = c THEN e ELSE 0),
         c \notin Receipt => e = 0
  PROVE  \A k \in Claim :
            /\ Outstanding(k) \in Nat
            /\ Outstanding(k)' = Outstanding(k) + (IF k = c THEN d + e ELSE 0)
<1> SUFFICES ASSUME NEW k \in Claim
             PROVE  /\ Outstanding(k) \in Nat
                    /\ Outstanding(k)' = Outstanding(k) + (IF k = c THEN d + e ELSE 0)
  OBVIOUS
<1> DEFINE f == [b \in Trader |-> holdings[b][k]]
           g == [b \in Trader |-> holdings'[b][k]]
<1>1. \A b \in Trader : f[b] \in Nat /\ g[b] \in Nat
                        /\ g[b] = f[b] + (IF b = a /\ k = c THEN d ELSE 0)
  BY DEF TypeOK
<1>2. Wrapped(k) \in Nat /\ Wrapped(k)' = Wrapped(k) + (IF k = c THEN e ELSE 0)
  BY DEF TypeOK, Wrapped
<1>3. Outstanding(k) = Sum(f, Trader) + Wrapped(k)
  BY DEF Outstanding
<1>4. Outstanding(k)' = Sum(g, Trader) + Wrapped(k)'
  BY DEF Outstanding
<1> HIDE DEF f, g
<1>5. Sum(f, Trader) \in Nat
  BY <1>1, Finite, SumNat
<1>6. Sum(g, Trader) = Sum(f, Trader) + (IF k = c THEN d ELSE 0)
  <2>1. Sum(g, Trader) = Sum(f, Trader) + (g[a] - f[a])
    <3>1. \A b \in Trader \ {a} : g[b] = f[b]
      BY <1>1
    <3>2. \A b \in Trader : f[b] \in Int /\ g[b] \in Int
      BY <1>1
    <3>3. QED
      BY <3>1, <3>2, Finite, SumChange
  <2>2. g[a] - f[a] = IF k = c THEN d ELSE 0
    BY <1>1
  <2>3. QED
    BY <2>1, <2>2
<1>7. QED
  BY <1>2, <1>3, <1>4, <1>5, <1>6

\* The tables count the outstanding shares.
Match ==
  \A sc \in Scope : \A l \in SUBSET sc :
    factors[sc][l] =
      Sum([c \in Claim |-> Outstanding(c)], {c \in Claim : c.scope = sc /\ l \in c.mask})

\* Tables and shares that move together keep matching.
LEMMA BookMoved ==
  ASSUME TypeOK, Match, NEW c \in Claim, NEW d \in Int,
         \A k \in Claim : /\ Outstanding(k) \in Nat
                          /\ Outstanding(k)' = Outstanding(k) + (IF k = c THEN d ELSE 0),
         \A sc \in Scope : \A l \in SUBSET sc :
            factors'[sc][l] = factors[sc][l] + (IF sc = c.scope /\ l \in c.mask THEN d ELSE 0)
  PROVE  Match'
<1> SUFFICES ASSUME NEW sc \in Scope, NEW l \in SUBSET sc
             PROVE  factors'[sc][l] =
                      Sum([k \in Claim |-> Outstanding(k)'],
                          {k \in Claim : k.scope = sc /\ l \in k.mask})
  BY DEF Match
<1> DEFINE R == {k \in Claim : k.scope = sc /\ l \in k.mask}
           f == [k \in Claim |-> Outstanding(k)]
           g == [k \in Claim |-> Outstanding(k)']
<1>1. factors[sc][l] = Sum(f, R) /\ factors[sc][l] \in Int
  <2>1. factors[sc][l] \in Nat
    BY DEF TypeOK
  <2>2. factors[sc][l] = Sum(f, R)
    BY DEF Match
  <2>3. QED
    BY <2>1, <2>2
<1>2. R \subseteq Claim /\ IsFiniteSet(R) /\ (c \in R <=> sc = c.scope /\ l \in c.mask)
  BY Finite, FS_Subset
<1>3. \A k \in Claim : f[k] \in Int /\ g[k] \in Int /\ g[k] = f[k] + (IF k = c THEN d ELSE 0)
  OBVIOUS
<1> HIDE DEF R, f, g
<1>4. CASE c \in R
  <2>1. Sum(g, R) = Sum(f, R) + (g[c] - f[c])
    BY <1>2, <1>3, <1>4, SumChange
  <2>2. g[c] - f[c] = d
    BY <1>3
  <2>3. QED
    BY <1>1, <1>2, <1>4, <2>1, <2>2 DEF R, g
<1>5. CASE c \notin R
  <2>1. \A k \in R : g[k] = f[k]
    BY <1>2, <1>3, <1>5
  <2>2. Sum(g, R) = Sum(f, R)
    BY <1>2, <2>1, SumSame
  <2>3. QED
    BY <1>1, <1>2, <1>5, <2>2 DEF R, g
<1>6. QED
  BY <1>4, <1>5

-----------------------------------------------------------------------------
\* d shares of c enter or leave the holdings of a.
HoldingsMove(a, c, d) ==
  /\ holdings' \in [Trader -> [Claim -> Nat]]
  /\ \A b \in Trader : \A k \in Claim :
       holdings'[b][k] = holdings[b][k] + (IF b = a /\ k = c THEN d ELSE 0)

\* A credit is such a move.
LEMMA Credited ==
  ASSUME TypeOK, NEW a \in Trader, NEW c \in Claim, NEW q \in Nat,
         holdings' = [holdings EXCEPT ![a][c] = @ + q]
  PROVE  HoldingsMove(a, c, q)
<1>1. ASSUME NEW b \in Trader, NEW k \in Claim
      PROVE /\ holdings'[b][k] = holdings[b][k] + (IF b = a /\ k = c THEN q ELSE 0)
            /\ holdings[b][k] \in Nat
  BY DEF TypeOK
<1>2. holdings' \in [Trader -> [Claim -> Nat]]
  BY DEF TypeOK
<1>3. QED
  BY <1>1, <1>2 DEF HoldingsMove

\* A checked debit is such a move.
LEMMA Debited ==
  ASSUME TypeOK, NEW a \in Trader, NEW c \in Claim, NEW q \in Nat, HasShares(a, c, q),
         holdings' = [holdings EXCEPT ![a][c] = @ - q]
  PROVE  HoldingsMove(a, c, -q)
<1>1. ASSUME NEW b \in Trader, NEW k \in Claim
      PROVE /\ holdings'[b][k] = holdings[b][k] + (IF b = a /\ k = c THEN -q ELSE 0)
            /\ holdings[b][k] \in Nat
  BY DEF TypeOK
<1>2. holdings[a][c] - q \in Nat
  BY DEF TypeOK, HasShares
<1>3. holdings' \in [Trader -> [Claim -> Nat]]
  BY <1>2 DEF TypeOK
<1>4. QED
  BY <1>1, <1>3 DEF HoldingsMove

\* The tables after a step that moves d shares of c.
TablesMove(c, d) ==
  /\ factors' = Shifted(c, d)
  /\ \A l \in SUBSET c.scope : factors[c.scope][l] + (IF l \in c.mask THEN d ELSE 0) >= 0

\* A move of the tables leads to tables.
LEMMA TablesMoved ==
  ASSUME TypeOK, NEW c \in Claim, NEW d \in Int, TablesMove(c, d)
  PROVE  /\ factors' = [sc \in Scope |-> factors'[sc]]
         /\ Tables(factors')
         /\ \A sc \in Scope : \A l \in SUBSET sc :
              factors'[sc][l] = factors[sc][l] + (IF sc = c.scope /\ l \in c.mask THEN d ELSE 0)
<1>1. /\ factors' = [sc \in Scope |-> factors'[sc]]
      /\ \A sc \in Scope : \A l \in SUBSET sc :
              factors'[sc][l] = factors[sc][l] + (IF sc = c.scope /\ l \in c.mask THEN d ELSE 0)
  BY ShiftedAt DEF TablesMove
<1>2. \A sc \in Scope : \A l \in SUBSET sc : factors[sc][l] \in Nat
  BY DEF TypeOK
<1>3. ASSUME NEW sc \in Scope, NEW l \in SUBSET sc PROVE factors'[sc][l] >= 0
  BY <1>1, <1>2 DEF TablesMove
<1>4. \A sc \in Scope : factors'[sc] \in [SUBSET sc -> Nat]
  BY <1>3, ShiftedAt DEF TablesMove
<1>5. QED
  BY <1>1, <1>4 DEF Tables

TablesOK == factors = [sc \in Scope |-> factors[sc]] /\ Tables(factors)

\* The type invariant has the tables.
LEMMA TypeTables == TypeOK => TablesOK
BY DEF TypeOK, TablesOK, Tables

\* A trade or a redemption keeps the tables matching.
LEMMA SharesMoved ==
  ASSUME TypeOK, TypeOK', Match, NEW a \in Trader, NEW c \in Claim, NEW d \in Int,
         HoldingsMove(a, c, d), escrow' = escrow, TablesMove(c, d)
  PROVE  /\ Match'
         /\ \A k \in Claim : /\ Outstanding(k) \in Nat
                             /\ Outstanding(k)' = Outstanding(k) + (IF k = c THEN d ELSE 0)
<1>1. \A b \in Trader : \A k \in Claim :
         holdings'[b][k] = holdings[b][k] + (IF b = a /\ k = c THEN d ELSE 0)
  BY DEF HoldingsMove
<1>2. \A k \in Receipt : escrow'[k] = escrow[k] + (IF k = c THEN 0 ELSE 0)
  BY DEF TypeOK
<1>3. \A k \in Claim : /\ Outstanding(k) \in Nat
                       /\ Outstanding(k)' = Outstanding(k) + (IF k = c THEN d + 0 ELSE 0)
  BY <1>1, <1>2, OutstandingMoved
<1>4. \A k \in Claim : /\ Outstanding(k) \in Nat
                       /\ Outstanding(k)' = Outstanding(k) + (IF k = c THEN d ELSE 0)
  BY <1>3
<1>5. \A sc \in Scope : \A l \in SUBSET sc :
         factors'[sc][l] = factors[sc][l] + (IF sc = c.scope /\ l \in c.mask THEN d ELSE 0)
  BY TablesMoved
<1>6. QED
  BY <1>4, <1>5, BookMoved

-----------------------------------------------------------------------------
\* Outstanding shares are naturals.
LEMMA OutstandingType ==
  ASSUME TypeOK
  PROVE  \A k \in Claim : Outstanding(k) \in Nat
<1> SUFFICES ASSUME NEW k \in Claim PROVE Outstanding(k) \in Nat
  OBVIOUS
<1> DEFINE f == [b \in Trader |-> holdings[b][k]]
<1>1. \A b \in Trader : f[b] \in Nat
  BY DEF TypeOK
<1>2. Wrapped(k) \in Nat
  BY DEF TypeOK, Wrapped
<1>3. Outstanding(k) = Sum(f, Trader) + Wrapped(k)
  BY DEF Outstanding
<1> HIDE DEF f
<1>4. Sum(f, Trader) \in Nat
  BY <1>1, Finite, SumNat
<1>5. QED
  BY <1>2, <1>3, <1>4

\* What the outstanding shares of c pay in state s.
Pays(s, c) == IF s \cap c.scope \in c.mask THEN Outstanding(c) ELSE 0

\* The payout of a state is what the outstanding shares pay in it.
LEMMA ExposureIsPayout ==
  ASSUME TypeOK, Match, NEW s \in State
  PROVE  Exposure(factors)[s] = Sum([c \in Claim |-> Pays(s, c)], Claim)
<1> DEFINE Out == [c \in Claim |-> Outstanding(c)]
           m == [sc \in Scope |-> [c \in Claim |->
                   IF c.scope = sc /\ s \cap sc \in c.mask THEN Out[c] ELSE 0]]
           w == [c \in Claim |-> [sc \in Scope |-> m[sc][c]]]
           rows == [sc \in Scope |-> factors[sc][s \cap sc]]
           cols == [c \in Claim |-> Pays(s, c)]
<1>1. \A c \in Claim : Out[c] = Outstanding(c) /\ Out[c] \in Nat
  BY OutstandingType
<1> HIDE DEF Out
<1>2. \A sc \in Scope : \A c \in Claim :
         /\ m[sc][c] = IF c.scope = sc /\ s \cap sc \in c.mask THEN Out[c] ELSE 0
         /\ m[sc][c] \in Int
  BY <1>1
<1>3. ASSUME NEW sc \in Scope PROVE rows[sc] = Sum(m[sc], Claim)
  <2> DEFINE R == {c \in Claim : c.scope = sc /\ s \cap sc \in c.mask}
  <2>1. rows[sc] = Sum(Out, R)
    BY s \cap sc \in SUBSET sc DEF Match, Out
  <2>2. \A c \in Claim : Out[c] \in Int /\ m[sc][c] = IF c \in R THEN Out[c] ELSE 0
    BY <1>1, <1>2
  <2>3. R \in SUBSET Claim
    OBVIOUS
  <2> HIDE DEF R, m
  <2>4. Sum(Out, R) = Sum(m[sc], Claim)
    BY <2>2, <2>3, Finite, SumRestrict
  <2>5. QED
    BY <2>1, <2>4
<1>4. ASSUME NEW c \in Claim PROVE cols[c] = Sum(w[c], Scope)
  <2> DEFINE f == w[c]
  <2>1. c.scope \in Scope
    BY Finite
  <2>2. \A sc \in Scope : f[sc] = m[sc][c]
    OBVIOUS
  <2> HIDE DEF f, m
  <2>3. f[c.scope] \in Int /\ \A sc \in Scope \ {c.scope} : f[sc] = 0
    BY <1>2, <2>1, <2>2
  <2>4. Sum(f, Scope) = f[c.scope]
    BY <2>1, <2>3, Finite, SumSingle
  <2>5. f[c.scope] = Pays(s, c)
    BY <1>1, <1>2, <2>1, <2>2 DEF Pays
  <2>6. QED
    BY <2>4, <2>5 DEF f
<1>5. \A sc \in Scope : \A c \in Claim : m[sc][c] \in Int /\ w[c][sc] = m[sc][c]
  <2>1. \A sc \in Scope : \A c \in Claim : w[c][sc] = m[sc][c]
    <3> HIDE DEF m
    <3> QED OBVIOUS
  <2> HIDE DEF m, w
  <2>2. QED
    BY <1>2, <2>1
<1>6. Sum(rows, Scope) = Sum(cols, Claim)
  <2> HIDE DEF rows, cols, m, w
  <2>1. RowsAndColumns(Scope, Claim, m, w, rows, cols)
    BY <1>3, <1>4, <1>5 DEF RowsAndColumns
  <2>2. QED
    BY <2>1, Finite, SumExchange
<1>7. Exposure(factors)[s] = Sum(rows, Scope)
  BY DEF Exposure
<1>8. QED
  BY <1>6, <1>7

\* How many of the states in P the claim c pays in.
Wins(c, P) == Cardinality({s \in P : s \cap c.scope \in c.mask})

\* The payouts of the states of P add up to the shares times the states they win.
LEMMA TotalIsPayout ==
  ASSUME TypeOK, Match, NEW P \in SUBSET State
  PROVE  /\ Sum(Exposure(factors), P) = Sum([c \in Claim |-> Outstanding(c) * Wins(c, P)], Claim)
         /\ \A c \in Claim : Wins(c, P) \in Nat
<1> DEFINE m == [s \in P |-> [c \in Claim |-> Pays(s, c)]]
           w == [c \in Claim |-> [s \in P |-> m[s][c]]]
           rows == Exposure(factors)
           cols == [c \in Claim |-> Outstanding(c) * Wins(c, P)]
<1>1. IsFiniteSet(P)
  BY Finite, FS_Subset
<1>2. \A s \in P : \A c \in Claim : m[s][c] = Pays(s, c) /\ m[s][c] \in Int
  BY OutstandingType DEF Pays
<1>3. \A s \in P : rows[s] = Sum(m[s], Claim)
  BY ExposureIsPayout
<1>4. ASSUME NEW c \in Claim
      PROVE cols[c] = Sum(w[c], P) /\ Wins(c, P) \in Nat
  <2> DEFINE R == {s \in P : s \cap c.scope \in c.mask}
             one == [s \in P |-> IF s \in R THEN 1 ELSE 0]
             f == w[c]
  <2>1. Sum(one, P) = Cardinality(R)
    <3>1. R \in SUBSET P /\ \A s \in P : one[s] = IF s \in R THEN 1 ELSE 0
      OBVIOUS
    <3> HIDE DEF one, R
    <3>2. QED
      BY <1>1, <3>1, SumCount
  <2>2. IsFiniteSet(R) /\ Cardinality(R) \in Nat
    BY <1>1, FS_Subset, FS_CardinalityType
  <2>3. \A s \in P : one[s] \in Int /\ f[s] = Outstanding(c) * one[s]
    <3>1. ASSUME NEW s \in P PROVE one[s] \in Int /\ f[s] = Outstanding(c) * one[s]
      <4>1. one[s] = IF s \in R THEN 1 ELSE 0
        OBVIOUS
      <4>2. f[s] = IF s \in R THEN Outstanding(c) ELSE 0
        BY DEF Pays
      <4>3. Outstanding(c) \in Nat
        BY OutstandingType
      <4> HIDE DEF one, f, R
      <4>4. QED
        BY <4>1, <4>2, <4>3
    <3>2. QED
      BY <3>1
  <2>4. Outstanding(c) \in Int
    BY OutstandingType
  <2> HIDE DEF one, f
  <2>5. Sum(f, P) = Outstanding(c) * Sum(one, P)
    BY <1>1, <2>3, <2>4, SumTimes
  <2>6. QED
    BY <2>1, <2>2, <2>5 DEF f, Wins
<1>5. \A s \in P : \A c \in Claim : m[s][c] \in Int /\ w[c][s] = m[s][c]
  <2>1. \A s \in P : \A c \in Claim : w[c][s] = m[s][c]
    <3> HIDE DEF m
    <3> QED OBVIOUS
  <2> HIDE DEF m, w
  <2>2. QED
    BY <1>2, <2>1
<1>6. Sum(rows, P) = Sum(cols, Claim)
  <2> HIDE DEF rows, cols, m, w
  <2>1. RowsAndColumns(P, Claim, m, w, rows, cols)
    BY <1>3, <1>4, <1>5 DEF RowsAndColumns
  <2>2. QED
    BY <1>1, <2>1, Finite, SumExchange
<1>7. QED
  BY <1>4, <1>6
-----------------------------------------------------------------------------
\* What the outstanding shares are owed, times the denominator of the result.
Due == Sum([c \in Claim |-> Outstanding(c) * Numerator(c)], Claim)

\* A result leaves at least one state.
LEMMA ConsistentStates ==
  ASSUME NEW yes \in State, NEW void \in State, yes \cap void = {}
  PROVE  /\ Consistent(yes, void) \in SUBSET State
         /\ Cardinality(Consistent(yes, void)) \in Nat \ {0}
<1>1. Consistent(yes, void) \in SUBSET State /\ yes \in Consistent(yes, void)
  BY DEF Consistent
<1>2. IsFiniteSet(Consistent(yes, void))
  BY <1>1, Finite, FS_Subset
<1>3. Cardinality(Consistent(yes, void)) \in Nat /\ Cardinality(Consistent(yes, void)) # 0
  BY <1>1, <1>2, FS_CardinalityType, FS_EmptySet
<1>4. QED
  BY <1>1, <1>3

\* The numerator of a payout is a natural.
LEMMA NumeratorType ==
  ASSUME TypeOK
  PROVE  \A c \in Claim : Numerator(c) \in Nat
<1>1. SUFFICES ASSUME NEW c \in Claim PROVE Numerator(c) \in Nat
  OBVIOUS
<1>2. {s \in Consistent(resolvedState, voidMask) : s \cap c.scope \in c.mask} \subseteq State
  BY DEF Consistent
<1>3. QED
  BY <1>2, Finite, FS_Subset, FS_CardinalityType DEF Numerator

\* What is owed moves with the shares.
LEMMA DueMoved ==
  ASSUME TypeOK, NEW c \in Claim, NEW d \in Int,
         \A k \in Claim : /\ Outstanding(k) \in Nat
                          /\ Outstanding(k)' = Outstanding(k) + (IF k = c THEN d ELSE 0),
         UNCHANGED <<resolvedState, voidMask>>
  PROVE  Due \in Int /\ Due' = Due + d * Numerator(c) /\ Denominator' = Denominator
<1> DEFINE f == [k \in Claim |-> Outstanding(k) * Numerator(k)]
           g == [k \in Claim |-> Outstanding(k)' * Numerator(k)']
<1>1. \A k \in Claim : Numerator(k)' = Numerator(k) /\ Numerator(k) \in Nat
  BY NumeratorType DEF Numerator
<1>2. ASSUME NEW k \in Claim
      PROVE  /\ f[k] \in Int /\ g[k] \in Int
             /\ k = c => g[k] - f[k] = d * Numerator(c)
             /\ k # c => g[k] = f[k]
  <2> DEFINE o == Outstanding(k)  n == Numerator(k)
  <2>1. o \in Nat /\ n \in Nat /\ f[k] = o * n
    BY <1>1
  <2>2. g[k] = (o + (IF k = c THEN d ELSE 0)) * n
    BY <1>1
  <2>3. k = c => n = Numerator(c)
    OBVIOUS
  <2> HIDE DEF o, n, f, g
  <2>4. (o + d) * n = o * n + d * n /\ (o + 0) * n = o * n
    BY <2>1
  <2>5. QED
    BY <2>1, <2>2, <2>3, <2>4
<1>3. Due = Sum(f, Claim) /\ Due' = Sum(g, Claim)
  BY DEF Due
<1>4. Denominator' = Denominator
  BY DEF Denominator
<1> HIDE DEF f, g
<1>5. Sum(f, Claim) \in Int
  BY <1>2, Finite, SumInt
<1>6. Sum(g, Claim) = Sum(f, Claim) + (g[c] - f[c])
  BY <1>2, Finite, SumChange
<1>7. QED
  BY <1>2, <1>3, <1>4, <1>5, <1>6

\* Steps that move no shares.
LEMMA SameShares ==
  ASSUME TypeOK, UNCHANGED <<holdings, escrow>>
  PROVE  \A k \in Claim : Outstanding(k) \in Nat /\ Outstanding(k)' = Outstanding(k)
<1>1. SUFFICES ASSUME NEW k \in Claim PROVE Outstanding(k)' = Outstanding(k)
  BY OutstandingType
<1>2. QED
  BY DEF Outstanding, Wrapped

\* What the results and the funding of a pool tell of its book.
Result ==
  /\ resolvedState \cap voidMask = {}
  /\ resolved => now >= ClosesAt
  /\ ~funded => factors = EmptyTables /\ ~resolved

Book == TypeOK /\ Match /\ ReceiptsBacked /\ AllRedeemable /\ Result

\* Steps that leave positions, tables and the result keep the book.
LEMMA BookKept ==
  ASSUME Book, TypeOK', Result',
         UNCHANGED <<positionVars, factors, outcomeVars>>
  PROVE  Book'
<1>1. \A k \in Claim : Outstanding(k) \in Nat /\ Outstanding(k)' = Outstanding(k)
  BY SameShares DEF Book, positionVars
<1>2. ReceiptsBacked'
  BY DEF Book, ReceiptsBacked, positionVars
<1>3. Match'
  BY <1>1 DEF Book, Match
<1>4. CASE Claim # {}
  <2>1. PICK c \in Claim : TRUE
    BY <1>4
  <2>2. Due \in Int /\ Due' = Due + 0 * Numerator(c) /\ Denominator' = Denominator
    BY <1>1, DueMoved DEF Book, outcomeVars
  <2>3. Due' = Due
    BY <2>2, NumeratorType DEF Book
  <2>4. AllRedeemable'
    BY <2>2, <2>3 DEF Book, AllRedeemable, Due, outcomeVars
  <2>5. QED
    BY <1>2, <1>3, <2>4 DEF Book
<1>5. CASE Claim = {}
  <2>1. AllRedeemable'
    BY <1>1, <1>5 DEF Book, AllRedeemable, Denominator, outcomeVars
  <2>2. QED
    BY <1>2, <1>3, <2>1 DEF Book
<1>6. QED
  BY <1>4, <1>5

\* A trade keeps the book (FactoredTrading.sol).
LEMMA TradeBook ==
  ASSUME Book, funded, ~resolved, NEW a \in Trader, NEW c \in Claim, NEW d \in Int,
         HoldingsMove(a, c, d), TablesMove(c, d),
         UNCHANGED <<now, funded, outcomeVars, escrow, receipts, created>>,
         maximumLiability' = MaxPayout(Exposure(factors')), balance' \in Nat
  PROVE  Book'
<1>1. Tables(factors') /\ factors' = [sc \in Scope |-> factors'[sc]]
  BY TablesMoved DEF Book
<1>2. maximumLiability' \in Nat
  BY <1>1, ExposureType, MaxPayoutBounds
<1>3. TypeOK'
  BY <1>1, <1>2 DEF Book, TypeOK, Tables, HoldingsMove, outcomeVars
<1>4. Match'
  BY <1>3, SharesMoved DEF Book
<1>5. ReceiptsBacked'
  BY DEF Book, ReceiptsBacked
<1>6. Result' /\ AllRedeemable'
  BY DEF Book, Result, AllRedeemable, outcomeVars
<1>7. QED
  BY <1>3, <1>4, <1>5, <1>6 DEF Book

\* d receipts of c enter or leave the balance of a.
ReceiptsMove(a, c, d) ==
  /\ receipts' \in [Trader -> [Receipt -> Nat]]
  /\ \A b \in Trader : \A k \in Receipt :
       receipts'[b][k] = receipts[b][k] + (IF b = a /\ k = c THEN d ELSE 0)

\* The receipts of k that the balances r put into circulation.
Circulating(r, k) == Sum([b \in Trader |-> r[b][k]], Trader)

\* The balances t are those of r with d more receipts of c for a.
Adjusted(r, t, a, c, d) ==
  /\ a \in Trader /\ c \in Receipt /\ d \in Int
  /\ r \in [Trader -> [Receipt -> Int]] /\ t \in [Trader -> [Receipt -> Int]]
  /\ \A b \in Trader : \A k \in Receipt :
       t[b][k] = r[b][k] + (IF b = a /\ k = c THEN d ELSE 0)

\* Circulating receipts change by what one balance changes.
LEMMA CirculatingAdjusted ==
  ASSUME NEW r, NEW t, NEW a, NEW c, NEW d, Adjusted(r, t, a, c, d)
  PROVE  \A k \in Receipt :
            /\ Circulating(r, k) \in Int
            /\ Circulating(t, k) = Circulating(r, k) + (IF k = c THEN d ELSE 0)
<1> SUFFICES ASSUME NEW k \in Receipt
             PROVE /\ Circulating(r, k) \in Int
                   /\ Circulating(t, k) = Circulating(r, k) + (IF k = c THEN d ELSE 0)
  OBVIOUS
<1> DEFINE f == [b \in Trader |-> r[b][k]]
           g == [b \in Trader |-> t[b][k]]
<1>0. a \in Trader /\ d \in Int
  BY DEF Adjusted
<1>1. ASSUME NEW b \in Trader
      PROVE f[b] \in Int /\ g[b] \in Int /\ g[b] = f[b] + (IF b = a /\ k = c THEN d ELSE 0)
  BY DEF Adjusted
<1>2. Circulating(r, k) = Sum(f, Trader) /\ Circulating(t, k) = Sum(g, Trader)
  BY DEF Circulating
<1> HIDE DEF f, g
<1>3. Sum(f, Trader) \in Int
  BY <1>1, Finite, SumInt
<1>4. \A b \in Trader \ {a} : g[b] = f[b]
  BY <1>1
<1>5. Sum(g, Trader) = Sum(f, Trader) + (g[a] - f[a])
  BY <1>0, <1>1, <1>4, Finite, SumChange
<1>6. QED
  BY <1>0, <1>1, <1>2, <1>3, <1>5

\* The same of a step.
LEMMA CirculatingMoved ==
  ASSUME TypeOK, NEW a \in Trader, NEW c \in Receipt, NEW d \in Int, ReceiptsMove(a, c, d)
  PROVE  \A k \in Receipt :
            Circulating(receipts', k) = Circulating(receipts, k) + (IF k = c THEN d ELSE 0)
<1>1. Adjusted(receipts, receipts', a, c, d)
  BY DEF TypeOK, ReceiptsMove, Adjusted
<1>2. QED
  BY <1>1, CirculatingAdjusted

\* Moving shares between a holder and the escrow keeps the book.
LEMMA EscrowBook ==
  ASSUME Book, NEW a \in Trader, NEW c \in Receipt, NEW d \in Int,
         HoldingsMove(a, c, -d), ReceiptsMove(a, c, d),
         escrow' \in [Receipt -> Nat],
         \A k \in Receipt : escrow'[k] = escrow[k] + (IF k = c THEN d ELSE 0),
         UNCHANGED <<now, funded, outcomeVars, factors, maximumLiability, balance, created>>
  PROVE  Book'
<1>1. TypeOK'
  BY DEF Book, TypeOK, HoldingsMove, ReceiptsMove, outcomeVars
<1>2. c \in Claim
  BY Finite
<1>3. \A k \in Claim : /\ Outstanding(k) \in Nat
                       /\ Outstanding(k)' = Outstanding(k) + (IF k = c THEN -d + d ELSE 0)
  BY <1>1, <1>2, OutstandingMoved DEF Book, HoldingsMove
<1>4. \A k \in Claim : /\ Outstanding(k) \in Nat
                       /\ Outstanding(k)' = Outstanding(k) + (IF k = c THEN 0 ELSE 0)
  BY <1>3
<1>5. Match'
  <2>1. \A sc \in Scope : \A l \in SUBSET sc :
           factors'[sc][l] = factors[sc][l] + (IF sc = c.scope /\ l \in c.mask THEN 0 ELSE 0)
    <3>1. \A sc \in Scope : \A l \in SUBSET sc : factors[sc][l] \in Nat
      BY CellType, TypeTables DEF Book, TablesOK
    <3>2. QED
      BY <3>1
  <2>2. QED
    <3>1. TypeOK /\ Match /\ c \in Claim /\ 0 \in Int
      BY <1>2 DEF Book
    <3>2. QED
      BY <1>4, <2>1, <3>1, BookMoved
<1>6. AllRedeemable'
  <2>1. Due \in Int /\ Due' = Due + 0 * Numerator(c) /\ Denominator' = Denominator
    BY <1>2, <1>4, DueMoved DEF Book, outcomeVars
  <2>2. Due' = Due
    BY <1>2, <2>1, NumeratorType DEF Book
  <2>3. QED
    BY <2>1, <2>2 DEF Book, AllRedeemable, Due, outcomeVars
<1>7. ReceiptsBacked'
  <2>2. \A k \in Receipt :
            Circulating(receipts', k) = Circulating(receipts, k) + (IF k = c THEN d ELSE 0)
    BY CirculatingMoved DEF Book
  <2>3. \A k \in Receipt : Circulating(receipts, k) = escrow[k]
    BY DEF Book, ReceiptsBacked, Circulating
  <2>4. \A k \in Receipt : Circulating(receipts', k) = escrow'[k]
    BY <2>2, <2>3
  <2>5. QED
    BY <2>4 DEF ReceiptsBacked, Circulating
<1>8. Result'
  BY DEF Book, Result, outcomeVars
<1>9. QED
  BY <1>1, <1>5, <1>6, <1>7, <1>8 DEF Book

\* Wrapping keeps the book (PilotPool.sol:114-124).
LEMMA WrapBook ==
  ASSUME Book, NEW a \in Trader, NEW c \in Receipt, NEW q \in MoveQuantity, WrapBase(a, c, q)
  PROVE  Book'
<1>1. c \in Claim /\ q \in Nat
  BY Finite, NumberAssumption
<1>2. HoldingsMove(a, c, -q)
  BY <1>1, Debited DEF Book, WrapBase
<1>3. ReceiptsMove(a, c, q)
  BY <1>1 DEF Book, TypeOK, WrapBase, ReceiptsMove
<1>4. escrow' \in [Receipt -> Nat] /\ \A k \in Receipt : escrow'[k] = escrow[k] + (IF k = c THEN q ELSE 0)
  BY <1>1 DEF Book, TypeOK, WrapBase, Escrowed
<1>5. QED
  BY <1>1, <1>2, <1>3, <1>4, EscrowBook DEF WrapBase

\* Unwrapping keeps the book (PilotPool.sol:125-133).
LEMMA UnwrapBook ==
  ASSUME Book, NEW a \in Trader, NEW c \in Receipt, NEW q \in MoveQuantity, UnwrapBase(a, c, q)
  PROVE  Book'
<1> DEFINE d == -q
<1>1. c \in Claim /\ q \in Nat /\ d \in Int /\ -d = q
  BY Finite, NumberAssumption
<1>2. HoldingsMove(a, c, -d)
  BY <1>1, Credited DEF Book, UnwrapBase
<1>3. ReceiptsMove(a, c, d)
  BY <1>1 DEF Book, TypeOK, UnwrapBase, ReceiptsMove
<1>4. escrow' \in [Receipt -> Nat] /\ \A k \in Receipt : escrow'[k] = escrow[k] + (IF k = c THEN d ELSE 0)
  BY <1>1 DEF Book, TypeOK, UnwrapBase
<1> HIDE DEF d
<1>5. QED
  BY <1>1, <1>2, <1>3, <1>4, EscrowBook DEF UnwrapBase

\* A transfer of receipts keeps the book.
LEMMA TransferBook ==
  ASSUME Book, NEW a \in Trader, NEW b \in Trader, NEW c \in Receipt, NEW q \in MoveQuantity,
         TransferReceipt(a, b, c, q)
  PROVE  Book'
<1> DEFINE r == [receipts EXCEPT ![a][c] = @ - q]
           d == -q
<1>1. q \in Nat /\ d \in Int /\ d + q = 0 /\ q + d = 0
  BY NumberAssumption
<1>2. receipts \in [Trader -> [Receipt -> Nat]] /\ receipts[a][c] - q \in Nat
  BY <1>1 DEF Book, TypeOK, TransferReceipt
<1>3. r \in [Trader -> [Receipt -> Nat]] /\ r[b][c] \in Nat
  BY <1>2
<1>4. receipts' = [r EXCEPT ![b][c] = @ + q]
  BY <1>2 DEF TransferReceipt
<1>5. receipts' \in [Trader -> [Receipt -> Nat]]
  <2> HIDE DEF r
  <2>1. r[b][c] + q \in Nat
    BY <1>1, <1>3
  <2>2. QED
    BY <1>3, <1>4, <2>1
<1>6. Adjusted(receipts, r, a, c, d)
  BY <1>1, <1>2, <1>3 DEF Adjusted
<1>7. Adjusted(r, receipts', b, c, q)
  <2> HIDE DEF r
  <2> QED BY <1>1, <1>3, <1>4, <1>5 DEF Adjusted
<1>8. TypeOK' /\ Result' /\ ReceiptsBacked'
  <2>1. \A k \in Receipt :
           /\ Circulating(receipts, k) \in Int
           /\ Circulating(r, k) = Circulating(receipts, k) + (IF k = c THEN d ELSE 0)
    BY <1>1, <1>6, CirculatingAdjusted
  <2>2. \A k \in Receipt :
           Circulating(receipts', k) = Circulating(r, k) + (IF k = c THEN q ELSE 0)
    BY <1>1, <1>7, CirculatingAdjusted
  <2> HIDE DEF r, d
  <2>3. \A k \in Receipt : Circulating(receipts', k) = Circulating(receipts, k)
    BY <1>1, <2>1, <2>2
  <2>4. ReceiptsBacked'
    BY <2>3 DEF Book, ReceiptsBacked, Circulating, TransferReceipt
  <2>5. TypeOK' /\ Result'
    BY <1>5 DEF Book, TypeOK, Result, TransferReceipt, outcomeVars
  <2>6. QED
    BY <2>4, <2>5
<1>9. \A k \in Claim : Outstanding(k)' = Outstanding(k)
  BY SameShares DEF Book, TransferReceipt
<1>10. Match'
  BY <1>9 DEF Book, Match, TransferReceipt
<1>11. AllRedeemable'
  <2>1. c \in Claim
    BY Finite
  <2>2. Due \in Int /\ Due' = Due + 0 * Numerator(c) /\ Denominator' = Denominator
    <3>1. \A k \in Claim : /\ Outstanding(k) \in Nat
                           /\ Outstanding(k)' = Outstanding(k) + (IF k = c THEN 0 ELSE 0)
      BY <1>9, OutstandingType DEF Book
    <3>2. QED
      BY <2>1, <3>1, DueMoved DEF Book, TransferReceipt, outcomeVars
  <2>3. Due' = Due
    BY <2>1, <2>2, NumeratorType DEF Book
  <2>4. QED
    BY <2>2, <2>3 DEF Book, AllRedeemable, Due, TransferReceipt, outcomeVars
<1>12. QED
  BY <1>8, <1>10, <1>11 DEF Book

\* A redemption keeps the book: it pays no more than its exact share (PilotPool.sol:79-99).
LEMMA RedeemBook ==
  ASSUME Book, NEW a \in Trader, NEW c \in Claim, NEW q \in MoveQuantity, Redeem(a, c, q)
  PROVE  Book'
<1> DEFINE d == -q
           n == Numerator(c)
           D == Denominator
           pay == Payout(c, q)
<1>1. q \in Nat /\ d \in Int
  BY NumberAssumption
<1>2. /\ n \in Nat /\ D \in Nat \ {0} /\ pay = (q * n) \div D
      /\ remainingPayout \in Nat /\ balance \in Nat
  BY ConsistentStates, NumeratorType DEF Book, TypeOK, Result, Denominator, Payout
<1>3. /\ remainingPayout >= pay /\ balance >= pay
      /\ remainingPayout' = remainingPayout - pay /\ balance' = balance - pay
      /\ factors' = Shifted(c, d)
  BY DEF Redeem
<1>4. HoldingsMove(a, c, d)
  BY <1>1, Debited DEF Book, Redeem
<1>5. TablesMove(c, d)
  <2>1. \A l \in SUBSET c.scope : factors[c.scope][l] \in Nat
    BY Finite, CellType, TypeTables DEF Book, TablesOK
  <2>2. \A l \in c.mask : l \in SUBSET c.scope /\ factors[c.scope][l] >= q
    BY Finite DEF Redeem
  <2>3. \A l \in SUBSET c.scope : factors[c.scope][l] + (IF l \in c.mask THEN d ELSE 0) >= 0
    BY <1>1, <2>1, <2>2
  <2>4. QED
    BY <1>3, <2>3 DEF TablesMove
<1>6. Tables(factors') /\ factors' = [sc \in Scope |-> factors'[sc]]
  BY <1>1, <1>5, TablesMoved DEF Book
<1> HIDE DEF n, D, pay, d
<1>7. pay \in Int /\ D * pay <= q * n /\ q * n \in Int
  BY <1>1, <1>2, DivAtMost
<1>8. remainingPayout' \in Nat /\ balance' \in Nat
  BY <1>2, <1>3, <1>7
<1>9. TypeOK'
  BY <1>4, <1>6, <1>8 DEF Book, TypeOK, Tables, HoldingsMove, Redeem
<1>10. /\ Match'
       /\ \A k \in Claim : /\ Outstanding(k) \in Nat
                           /\ Outstanding(k)' = Outstanding(k) + (IF k = c THEN d ELSE 0)
  BY <1>1, <1>4, <1>5, <1>9, SharesMoved DEF Book, Redeem
<1>11. AllRedeemable'
  <2>1. Due \in Int /\ Due' = Due + d * n /\ Denominator' = D
    BY <1>1, <1>10, DueMoved DEF Book, Redeem, n, D
  <2>2. Due <= remainingPayout * D
    BY DEF Book, AllRedeemable, Redeem, Due, D
  <2>3. d * n = -(q * n)
    BY <1>1, <1>2 DEF d
  <2>4. (remainingPayout - pay) * D = remainingPayout * D - D * pay
    BY <1>2, <1>7
  <2>5. remainingPayout * D \in Int /\ D * pay \in Int
    BY <1>2, <1>7
  <2>6. Due' <= remainingPayout' * D
    BY <1>3, <1>7, <2>1, <2>2, <2>3, <2>4, <2>5
  <2>7. QED
    BY <2>1, <2>6 DEF AllRedeemable, Due
<1>12. ReceiptsBacked' /\ Result'
  BY DEF Book, ReceiptsBacked, Result, Redeem
<1>13. QED
  BY <1>9, <1>10, <1>11, <1>12 DEF Book

\* The reserve of a result is at least what the shares are owed (PilotPool.sol:54-63).
LEMMA ReserveIsEnough ==
  ASSUME TypeOK, Match, NEW yes \in State, NEW void \in State, yes \cap void = {}
  PROVE  LET P == Consistent(yes, void)
             total == Sum(Exposure(factors), P) IN
         /\ total \in Nat /\ Reserve(yes, void) \in Nat
         /\ total <= Reserve(yes, void) * Cardinality(P)
         /\ \A m \in Nat : (\A s \in State : Exposure(factors)[s] <= m) => Reserve(yes, void) <= m
<1> DEFINE P == Consistent(yes, void)
           f == Exposure(factors)
           total == Sum(f, P)
           N == Cardinality(P)
           r == Reserve(yes, void)
<1>1. P \in SUBSET State /\ N \in Nat \ {0} /\ IsFiniteSet(P)
  BY ConsistentStates, Finite, FS_Subset
<1>2. f \in [State -> Nat]
  BY TypeTables, ExposureType DEF TablesOK
<1>3. r = CeilDiv(total, N)
  BY DEF Reserve
<1> HIDE DEF P, f, r
<1>4. total \in Nat
  BY <1>1, <1>2, SumNat
<1> HIDE DEF total, N
<1>5. r \in Int /\ N * r >= total
  BY <1>1, <1>3, <1>4, CeilDivAtLeast
<1>6. r \in Nat
  <2>1. SUFFICES ASSUME r <= -1 PROVE FALSE
    BY <1>5
  <2>2. N * r <= -N
    BY <1>1, <1>5, <2>1
  <2>3. QED
    BY <1>1, <1>4, <1>5, <2>2
<1>7. N * r = r * N
  BY <1>1, <1>5
<1>8. ASSUME NEW m \in Nat, \A s \in State : f[s] <= m PROVE r <= m
  <2> DEFINE g == [s \in P |-> m]
             one == [s \in P |-> 1]
  <2>1. Sum(one, P) = N
    <3>1. P \in SUBSET P /\ \A s \in P : one[s] = IF s \in P THEN 1 ELSE 0
      OBVIOUS
    <3> HIDE DEF one
    <3>2. QED
      BY <1>1, <3>1, SumCount DEF N
  <2>2. \A s \in P : one[s] \in Int /\ g[s] = m * one[s]
    OBVIOUS
  <2>3. \A s \in P : f[s] \in Int /\ g[s] \in Int /\ f[s] <= g[s]
    BY <1>1, <1>2, <1>8
  <2> HIDE DEF g, one
  <2>4. Sum(g, P) = m * Sum(one, P)
    BY <1>1, <2>2, SumTimes
  <2>5. total <= Sum(g, P)
    BY <1>1, <2>3, SumAtMost DEF total
  <2>6. m * N = N * m
    BY <1>1
  <2>7. N * m >= total
    BY <2>1, <2>4, <2>5, <2>6
  <2>8. QED
    BY <1>1, <1>3, <1>4, <2>7, CeilDivLeast
<1>9. QED
  BY <1>4, <1>5, <1>6, <1>7, <1>8 DEF total, N, P, f, r

\* The result keeps the book.
LEMMA ResolveBook ==
  ASSUME Book, NEW yes \in State, NEW void \in State, Resolve(yes, void)
  PROVE  Book'
<1> DEFINE P == Consistent(yes, void)
           total == Sum(Exposure(factors), P)
<1>1. yes \cap void = {} /\ resolvedState' = yes /\ voidMask' = void
      /\ remainingPayout' = Reserve(yes, void)
  BY DEF Resolve
<1>2. total <= Reserve(yes, void) * Cardinality(P) /\ Reserve(yes, void) \in Nat
  BY <1>1, ReserveIsEnough DEF Book
<1>3. TypeOK'
  BY <1>1, <1>2 DEF Book, TypeOK, Resolve, positionVars
<1>4. \A k \in Claim : Outstanding(k)' = Outstanding(k)
  BY SameShares DEF Book, Resolve, positionVars
<1>5. Match' /\ ReceiptsBacked'
  <2>1. Match'
    <3>1. factors' = factors
      BY DEF Resolve
    <3>2. QED
      BY <1>4, <3>1 DEF Book, Match
  <2>2. ReceiptsBacked'
    BY DEF Book, ReceiptsBacked, Resolve, positionVars
  <2>3. QED
    BY <2>1, <2>2
<1>6. AllRedeemable'
  <2>1. P \in SUBSET State
    BY <1>1, ConsistentStates
  <2>2. total = Sum([c \in Claim |-> Outstanding(c) * Wins(c, P)], Claim)
    BY <2>1, TotalIsPayout DEF Book
  <2>3. \A c \in Claim : Numerator(c)' = Wins(c, P)
    BY <1>1 DEF Numerator, Wins
  <2>4. Due' = total
    BY <1>4, <2>2, <2>3 DEF Due
  <2>5. Denominator' = Cardinality(P)
    BY <1>1 DEF Denominator
  <2>6. QED
    BY <1>1, <1>2, <2>4, <2>5 DEF AllRedeemable, Due
<1>7. Result'
  BY <1>1 DEF Book, Result, Resolve
<1>8. QED
  BY <1>3, <1>5, <1>6, <1>7 DEF Book
-----------------------------------------------------------------------------
(* The pilot pool.                                                          *)

\* The payouts stay in the domain of the cost library.
Exposed == Exposure(factors) \in [State -> 0..MaxExposure]

\* The inductive invariant of the pilot pool.
IInv == Book /\ Exposed /\ PricingCovers /\ AlwaysCovered

\* The bounds of the cost, at one exposure.
LEMMA CostOf ==
  ASSUME NEW q \in [State -> 0..MaxExposure]
  PROVE  /\ CostLower(q) \in Nat /\ CostUpper(q) \in Nat /\ CostLower(q) <= CostUpper(q)
         /\ \A s \in State : Scale * q[s] <= CostUpper(q)
BY CostAssumption

\* A purchase rounds its cost up, so the collateral keeps covering the cost of the book.
LEMMA BuyStep ==
  ASSUME IInv, NEW a \in Trader, NEW c \in Claim, NEW q \in TradeQuantity, Buy(a, c, q)
  PROVE  IInv'
<1> DEFINE after == Shifted(c, q)
           paid == Cost(factors, after)
           E == Exposure(factors)
           F == Exposure(after)
<1>1. /\ q \in Nat /\ Scale \in Nat \ {0} /\ MaxExposure \in Nat
      /\ Book /\ TypeOK /\ balance \in Nat
  BY NumberAssumption DEF IInv, Book, TypeOK
<1>2. /\ funded /\ InDomain(after) /\ paid > 0
      /\ factors' = after /\ balance' = balance + paid
      /\ maximumLiability' = MaxPayout(F) /\ balance' >= maximumLiability'
      /\ now < ClosesAt /\ funded' = funded /\ resolved' = resolved
  BY DEF Buy, RequireTrading, outcomeVars
<1> ~resolved
  BY <1>1, <1>2, NumberAssumption DEF Book, TypeOK, Result
<1>3. HoldingsMove(a, c, q)
  BY <1>1, Credited DEF Buy
<1>4. TablesMove(c, q)
  <2>1. \A l \in SUBSET c.scope : factors[c.scope][l] \in Nat
    BY <1>1, Finite, CellType, TypeTables DEF TablesOK
  <2>2. QED
    BY <1>1, <1>2, <2>1 DEF TablesMove
<1>5. Tables(after) /\ Tables(factors)
  BY <1>1, <1>2, <1>4, TablesMoved, TypeTables DEF TablesOK
<1>6. F \in [State -> 0..MaxExposure] /\ E \in [State -> 0..MaxExposure]
  BY <1>2, <1>5, ExposureInDomain DEF IInv, Exposed
<1>7. paid = CeilDiv(CostUpper(F) - CostLower(E), Scale)
  BY DEF Cost
<1>8. Exposed'
  BY <1>2, <1>6 DEF Exposed
<1> HIDE DEF paid, E, F, after
<1>9. /\ CostUpper(F) \in Nat /\ CostUpper(E) \in Nat /\ CostLower(E) \in Nat
      /\ CostLower(E) <= CostUpper(E)
  BY <1>6, CostOf
<1>10. paid \in Int /\ Scale * paid >= CostUpper(F) - CostLower(E)
  BY <1>1, <1>7, <1>9, CeilDivAtLeast
<1>11. balance' \in Nat
  BY <1>1, <1>2, <1>10
<1>12. Book'
  BY <1>1, <1>2, <1>3, <1>4, <1>11, TradeBook DEF Buy, F, after
<1>13. PricingCovers'
  <2>1. Scale * balance >= CostUpper(E)
    BY <1>2 DEF IInv, PricingCovers, E
  <2>2. Scale * (balance + paid) = Scale * balance + Scale * paid
    BY <1>1, <1>10
  <2>3. Scale * balance \in Int /\ Scale * paid \in Int
    BY <1>1, <1>10
  <2>4. Scale * balance' >= CostUpper(F)
    BY <1>2, <1>9, <1>10, <2>1, <2>2, <2>3
  <2>5. QED
    BY <1>2, <2>4 DEF PricingCovers, F
<1>14. AlwaysCovered'
  BY <1>2 DEF AlwaysCovered, RequiredCollateral
<1>15. QED
  BY <1>8, <1>12, <1>13, <1>14 DEF IInv

\* Shares leave the tables: payouts shrink.
LEMMA SoldTables ==
  ASSUME TypeOK, NEW c \in Claim, NEW q \in Nat, \A l \in c.mask : factors[c.scope][l] >= q,
         factors' = Shifted(c, -q), Exposed
  PROVE  TablesMove(c, -q) /\ Tables(factors') /\ Exposed'
<1> DEFINE d == -q
<1>0. d \in Int /\ d <= 0
  OBVIOUS
<1>1. TablesMove(c, d)
  <2>1. \A l \in SUBSET c.scope : factors[c.scope][l] \in Nat
    BY Finite, CellType, TypeTables DEF TablesOK
  <2>2. \A l \in SUBSET c.scope : factors[c.scope][l] + (IF l \in c.mask THEN d ELSE 0) >= 0
    BY <2>1
  <2>3. QED
    BY <2>2 DEF TablesMove
<1> HIDE DEF d
<1>2. /\ Tables(factors')
      /\ \A sc \in Scope : \A l \in SUBSET sc :
            factors'[sc][l] = factors[sc][l] + (IF sc = c.scope /\ l \in c.mask THEN d ELSE 0)
  BY <1>0, <1>1, TablesMoved
<1>3. Tables(factors)
  BY TypeTables DEF TablesOK
<1>4. \A sc \in Scope : \A l \in SUBSET sc : factors'[sc][l] <= factors[sc][l]
  <2>1. \A sc \in Scope : \A l \in SUBSET sc : factors[sc][l] \in Nat
    BY <1>3, CellType
  <2>2. QED
    BY <1>0, <1>2, <2>1
<1>5. \A s \in State : Exposure(factors')[s] <= Exposure(factors)[s]
  BY <1>2, <1>3, <1>4, ExposureMonotone
<1>6. Exposure(factors') \in [State -> Nat]
  BY <1>2, ExposureType
<1>7. ASSUME NEW s \in State PROVE Exposure(factors')[s] \in 0..MaxExposure
  <2>1. Exposure(factors)[s] \in 0..MaxExposure /\ Exposure(factors')[s] \in Nat
    BY <1>6 DEF Exposed
  <2>2. QED
    BY <1>5, <2>1, NumberAssumption
<1>8. Exposure(factors') \in [State -> 0..MaxExposure]
  BY <1>6, <1>7
<1>9. QED
  BY <1>1, <1>2, <1>8 DEF Exposed, d

\* A sale rounds its proceeds down, so the collateral keeps covering the cost of the book.
LEMMA SellStep ==
  ASSUME IInv, NEW a \in Trader, NEW c \in Claim, NEW q \in TradeQuantity, Sell(a, c, q)
  PROVE  IInv'
<1> DEFINE d == -q
           after == Shifted(c, d)
           received == Proceeds(factors, after)
           E == Exposure(factors)
           F == Exposure(after)
<1>0. q \in Nat
  BY NumberAssumption
<1>1. /\ q \in Nat /\ d \in Int /\ Scale \in Nat \ {0} /\ MaxExposure \in Nat
      /\ Book /\ TypeOK /\ balance \in Nat
  <2>1. d \in Int
    BY <1>0
  <2>2. Book /\ TypeOK /\ balance \in Nat
    BY DEF IInv, Book, TypeOK
  <2> HIDE DEF d, after, received, E, F
  <2>3. QED
    BY <1>0, <2>1, <2>2, NumberAssumption
<1>2. /\ funded /\ received > 0 /\ received <= balance
      /\ factors' = after /\ balance' = balance - received
      /\ maximumLiability' = MaxPayout(F) /\ balance' >= maximumLiability'
      /\ now < ClosesAt /\ funded' = funded /\ resolved' = resolved
  BY DEF Sell, RequireTrading, outcomeVars
<1> ~resolved
  BY <1>1, <1>2, NumberAssumption DEF Book, TypeOK, Result
<1>3. HoldingsMove(a, c, d)
  BY <1>1, Debited DEF Sell
<1>4. TablesMove(c, d) /\ Exposed'
  BY <1>1, <1>2, SoldTables DEF Sell, IInv
<1>5. F \in [State -> 0..MaxExposure] /\ E \in [State -> 0..MaxExposure]
  BY <1>2, <1>4 DEF IInv, Exposed
<1>6. received = (CostLower(E) - CostUpper(F)) \div Scale
  BY DEF Proceeds
<1> HIDE DEF received, E, F, after, d
<1>7. /\ CostUpper(F) \in Nat /\ CostUpper(E) \in Nat /\ CostLower(E) \in Nat
      /\ CostLower(E) <= CostUpper(E)
  BY <1>5, CostOf
<1>8. received \in Int /\ Scale * received <= CostLower(E) - CostUpper(F)
  <2> DEFINE n == CostLower(E) - CostUpper(F)
  <2>1. n \in Int /\ received = n \div Scale
    BY <1>6, <1>7
  <2> HIDE DEF n
  <2>2. received \in Int /\ Scale * received <= n
    BY <1>1, <2>1, DivAtMost
  <2>3. QED
    BY <2>2 DEF n
<1>9. balance' \in Nat
  BY <1>1, <1>2, <1>8
<1>10. Book'
  BY <1>1, <1>2, <1>3, <1>4, <1>9, TradeBook DEF Sell, F, after, d
<1>11. PricingCovers'
  <2>1. Scale * balance >= CostUpper(E)
    BY <1>2 DEF IInv, PricingCovers, E
  <2>2. Scale * (balance - received) = Scale * balance - Scale * received
    BY <1>1, <1>8
  <2>3. Scale * balance \in Int /\ Scale * received \in Int
    BY <1>1, <1>8
  <2>4. Scale * balance' >= CostUpper(F)
    BY <1>2, <1>7, <1>8, <2>1, <2>2, <2>3
  <2>5. QED
    BY <1>2, <2>4 DEF PricingCovers, F
<1>12. AlwaysCovered'
  BY <1>2 DEF AlwaysCovered, RequiredCollateral
<1>13. QED
  BY <1>4, <1>10, <1>11, <1>12 DEF IInv

\* A redemption keeps the invariant of the pilot pool.
LEMMA RedeemStep ==
  ASSUME IInv, NEW a \in Trader, NEW c \in Claim, NEW q \in MoveQuantity, Redeem(a, c, q)
  PROVE  IInv'
<1>1. q \in Nat
  BY NumberAssumption
<1>2. Book'
  BY RedeemBook DEF IInv
<1>3. Exposed'
  BY <1>1, SoldTables DEF IInv, Book, Redeem
<1>4. PricingCovers' /\ AlwaysCovered'
  BY DEF Redeem, PricingCovers, AlwaysCovered, RequiredCollateral
<1>5. QED
  BY <1>2, <1>3, <1>4 DEF IInv

\* The reserve of a result is at most the worst payout, which the collateral covers.
LEMMA ResolveStep ==
  ASSUME IInv, NEW yes \in State, NEW void \in State, Resolve(yes, void)
  PROVE  IInv'
<1>1. Book'
  BY ResolveBook DEF IInv
<1>2. Exposed' /\ PricingCovers'
  BY DEF IInv, Exposed, Resolve, PricingCovers
<1>3. \A s \in State : Exposure(factors)[s] <= balance
  <2>1. SUFFICES ASSUME NEW s \in State PROVE Exposure(factors)[s] <= balance
    OBVIOUS
  <2>2. Exposure(factors) \in [State -> 0..MaxExposure]
    BY DEF IInv, Exposed
  <2> DEFINE q == Exposure(factors)
  <2> HIDE DEF q
  <2>3. Scale * q[s] <= CostUpper(q) /\ CostUpper(q) \in Nat /\ q[s] \in Nat
    BY <2>2, CostOf, NumberAssumption DEF q
  <2>4. Scale * balance >= CostUpper(q)
    BY DEF IInv, PricingCovers, Resolve, q
  <2>5. Scale \in Nat \ {0} /\ balance \in Nat
    BY NumberAssumption DEF IInv, Book, TypeOK
  <2>6. q[s] <= balance
    <3>1. SUFFICES ASSUME q[s] >= balance + 1 PROVE FALSE
      BY <2>3, <2>5
    <3>2. Scale * q[s] >= Scale * (balance + 1)
      BY <2>3, <2>5, <3>1
    <3>3. Scale * (balance + 1) = Scale * balance + Scale
      BY <2>5
    <3>4. Scale * q[s] \in Int /\ Scale * balance \in Int
      BY <2>3, <2>5
    <3>5. QED
      BY <2>3, <2>4, <2>5, <3>2, <3>3, <3>4
  <2>7. QED
    BY <2>6 DEF q
<1>4. Reserve(yes, void) <= balance
  BY <1>3, ReserveIsEnough DEF IInv, Book, TypeOK, Resolve
<1>5. AlwaysCovered'
  BY <1>4 DEF IInv, AlwaysCovered, RequiredCollateral, Resolve
<1>6. QED
  BY <1>1, <1>2, <1>5 DEF IInv

\* Funding keeps the book.
LEMMA FundBook ==
  ASSUME Book, Fund
  PROVE  Book' /\ RequiredFunding \in Nat /\ Scale * RequiredFunding >= CostUpper(Exposure(EmptyTables))
<1> DEFINE q == Exposure(EmptyTables)
<1>1. q \in [State -> 0..MaxExposure]
  BY ExposureEmpty, ExposureType, NumberAssumption
<1>2. CostUpper(q) \in Nat /\ Scale \in Nat \ {0}
  BY <1>1, CostOf, NumberAssumption
<1>3. RequiredFunding = CeilDiv(CostUpper(q), Scale)
  BY DEF RequiredFunding
<1> HIDE DEF q
<1>4. RequiredFunding \in Int /\ Scale * RequiredFunding >= CostUpper(q)
  BY <1>2, <1>3, CeilDivAtLeast
<1>5. RequiredFunding \in Nat
  <2>1. SUFFICES ASSUME RequiredFunding <= -1 PROVE FALSE
    BY <1>4
  <2>2. Scale * RequiredFunding <= -Scale
    BY <1>2, <1>4, <2>1
  <2>3. QED
    BY <1>2, <1>4, <2>2
<1>6. TypeOK' /\ Result'
  <2>1. balance' \in Nat
    BY <1>5 DEF Book, TypeOK, Fund
  <2>2. TypeOK'
    BY <2>1 DEF Book, TypeOK, Fund, outcomeVars, positionVars
  <2>3. Result'
    BY DEF Book, TypeOK, Result, Fund, outcomeVars
  <2>4. QED
    BY <2>2, <2>3
<1>7. Book'
  BY <1>6, BookKept DEF Fund
<1>8. QED
  BY <1>4, <1>5, <1>7 DEF q

\* The funding covers the cost of the empty book.
LEMMA FundStep ==
  ASSUME IInv, Fund
  PROVE  IInv'
<1>1. Book' /\ RequiredFunding \in Nat /\ Scale * RequiredFunding >= CostUpper(Exposure(EmptyTables))
  BY FundBook DEF IInv
<1>2. Exposed'
  BY DEF IInv, Exposed, Fund
<1>3. AlwaysCovered'
  BY DEF Fund, AlwaysCovered, RequiredCollateral, outcomeVars
<1>4. PricingCovers'
  <2>1. factors' = EmptyTables /\ balance' = balance + RequiredFunding
    BY DEF IInv, Book, Result, Fund
  <2>2. balance \in Nat /\ Scale \in Nat
    BY NumberAssumption DEF IInv, Book, TypeOK
  <2>3. Scale * (balance + RequiredFunding) = Scale * balance + Scale * RequiredFunding
        /\ Scale * balance \in Nat /\ Scale * RequiredFunding \in Int
    BY <1>1, <2>2
  <2>4. CostUpper(Exposure(EmptyTables)) \in Nat
    <3>1. Exposure(EmptyTables) \in [State -> 0..MaxExposure]
      BY ExposureEmpty, ExposureType, NumberAssumption
    <3>2. QED
      BY <3>1, CostOf
  <2>5. Scale * balance' >= CostUpper(Exposure(factors'))
    BY <1>1, <2>1, <2>3, <2>4
  <2>6. QED
    BY <2>5 DEF PricingCovers
<1>5. QED
  BY <1>1, <1>2, <1>3, <1>4 DEF IInv

\* Time keeps the book.
LEMMA TickBook == ASSUME Book, Tick PROVE Book'
<1>0. now' \in Nat
  BY DEF Book, TypeOK, Tick
<1>1. TypeOK'
  BY <1>0 DEF Book, TypeOK, Tick, outcomeVars, positionVars
<1>2. Result'
  BY NumberAssumption DEF Book, TypeOK, Result, Tick, outcomeVars
<1>3. QED
  BY <1>1, <1>2, BookKept DEF Tick

\* Creating a receipt token keeps the book.
LEMMA CreateBook == ASSUME Book, NEW c \in Receipt, CreateBaseToken(c) PROVE Book'
<1>1. TypeOK' /\ Result'
  BY DEF Book, TypeOK, Result, CreateBaseToken, outcomeVars, positionVars
<1>2. QED
  BY <1>1, BookKept DEF CreateBaseToken

\* The steps that leave prices and collateral alone.
LEMMA QuietStep ==
  ASSUME IInv, Book', UNCHANGED <<funded, outcomeVars, factors, maximumLiability, balance>>
  PROVE  IInv'
<1>1. Exposed' /\ PricingCovers' /\ AlwaysCovered'
  BY DEF IInv, Exposed, PricingCovers, AlwaysCovered, RequiredCollateral, outcomeVars
<1>2. QED
  BY <1>1 DEF IInv

\* A pool that was just deployed.
LEMMA InitBook == Init => Book
<1> SUFFICES ASSUME Init PROVE Book
  OBVIOUS
<1>1. TypeOK
  BY DEF Init, TypeOK, EmptyTables, State
<1>2. Result
  BY DEF Init, Result
<1>3. \A k \in Claim : Outstanding(k) = 0
  <2>1. SUFFICES ASSUME NEW k \in Claim PROVE Outstanding(k) = 0
    OBVIOUS
  <2> DEFINE f == [a \in Trader |-> holdings[a][k]]
  <2>2. (\A a \in Trader : f[a] = 0) /\ Wrapped(k) = 0
    BY DEF Init, Wrapped
  <2>3. Outstanding(k) = Sum(f, Trader) + Wrapped(k)
    BY DEF Outstanding
  <2> HIDE DEF f
  <2>4. QED
    BY <2>2, <2>3, Finite, SumZero
<1>4. Match
  <2>1. SUFFICES ASSUME NEW sc \in Scope, NEW l \in SUBSET sc
        PROVE factors[sc][l] = Sum([c \in Claim |-> Outstanding(c)],
                                   {c \in Claim : c.scope = sc /\ l \in c.mask})
    BY DEF Match
  <2> DEFINE f == [c \in Claim |-> Outstanding(c)]
             R == {c \in Claim : c.scope = sc /\ l \in c.mask}
  <2>2. IsFiniteSet(R) /\ \A c \in R : f[c] = 0
    BY <1>3, Finite, FS_Subset
  <2> HIDE DEF f, R
  <2>3. Sum(f, R) = 0
    BY <2>2, SumZero
  <2>4. QED
    BY <2>3 DEF f, R, Init, EmptyTables
<1>5. ReceiptsBacked
  <2>1. SUFFICES ASSUME NEW c \in Receipt
        PROVE Sum([a \in Trader |-> receipts[a][c]], Trader) = escrow[c]
    BY DEF ReceiptsBacked
  <2> DEFINE f == [a \in Trader |-> receipts[a][c]]
  <2>2. (\A a \in Trader : f[a] = 0) /\ escrow[c] = 0
    BY DEF Init
  <2> HIDE DEF f
  <2>3. Sum(f, Trader) = 0
    BY <2>2, Finite, SumZero
  <2>4. QED
    BY <2>2, <2>3 DEF f
<1>6. QED
  BY <1>1, <1>2, <1>4, <1>5 DEF Book, AllRedeemable, Init

\* The same, with its collateral.
LEMMA InitIInv == Init => IInv
<1> SUFFICES ASSUME Init PROVE IInv
  OBVIOUS
<1>1. Exposed
  BY ExposureEmpty, ExposureType, NumberAssumption DEF Init, Exposed
<1>2. PricingCovers /\ AlwaysCovered
  BY DEF Init, PricingCovers, AlwaysCovered
<1>3. QED
  BY <1>1, <1>2, InitBook DEF IInv

\* Every transaction of the pilot pool keeps its invariant.
THEOREM PoolInductive == IInv /\ [Next]_vars => IInv'
<1> SUFFICES ASSUME IInv, [Next]_vars PROVE IInv'
  OBVIOUS
<1> USE DEF IInv
<1>1. CASE Tick
  BY <1>1, TickBook, QuietStep DEF Tick
<1>2. CASE Fund
  BY <1>2, FundStep
<1>3. ASSUME NEW c \in Receipt, CreateBaseToken(c) PROVE IInv'
  BY <1>3, CreateBook, QuietStep DEF CreateBaseToken
<1>4. ASSUME NEW a \in Trader, NEW c \in Claim, NEW q \in TradeQuantity, Buy(a, c, q)
      PROVE IInv'
  BY <1>4, BuyStep
<1>5. ASSUME NEW a \in Trader, NEW c \in Claim, NEW q \in TradeQuantity, Sell(a, c, q)
      PROVE IInv'
  BY <1>5, SellStep
<1>6. ASSUME NEW a \in Trader, NEW c \in Claim, NEW q \in MoveQuantity, Redeem(a, c, q)
      PROVE IInv'
  BY <1>6, RedeemStep
<1>7. ASSUME NEW a \in Trader, NEW c \in Receipt, NEW q \in MoveQuantity, WrapBase(a, c, q)
      PROVE IInv'
  BY <1>7, WrapBook, QuietStep DEF WrapBase
<1>8. ASSUME NEW a \in Trader, NEW c \in Receipt, NEW q \in MoveQuantity, UnwrapBase(a, c, q)
      PROVE IInv'
  BY <1>8, UnwrapBook, QuietStep DEF UnwrapBase
<1>9. ASSUME NEW a \in Trader, NEW b \in Trader, NEW c \in Receipt, NEW q \in MoveQuantity,
             TransferReceipt(a, b, c, q)
      PROVE IInv'
  BY <1>9, TransferBook, QuietStep DEF TransferReceipt
<1>10. ASSUME NEW yes \in State, NEW void \in State, Resolve(yes, void) PROVE IInv'
  BY <1>10, ResolveStep
<1>11. CASE UNCHANGED vars
  <2>1. TypeOK' /\ Result'
    BY <1>11 DEF Book, TypeOK, Result, vars, outcomeVars, positionVars
  <2>2. Book'
    BY <1>11, <2>1, BookKept DEF vars
  <2>3. QED
    BY <1>11, <2>2, QuietStep DEF vars
<1>12. QED
  BY <1>1, <1>2, <1>3, <1>4, <1>5, <1>6, <1>7, <1>8, <1>9, <1>10, <1>11 DEF Next

\* The invariant of the pilot pool holds always (PilotPool.sol).
THEOREM PoolInvariant == Spec => []IInv
<1>1. Init => IInv
  BY InitIInv
<1>2. IInv /\ [Next]_vars => IInv'
  BY PoolInductive
<1>3. QED
  BY <1>1, <1>2, PTL DEF Spec
-----------------------------------------------------------------------------
(* The learning pool.                                                       *)

\* The requirement is the larger of the reserve and the worst payout.
LEMMA RequiredBounds ==
  ASSUME NEW r \in Int, NEW l \in Int
  PROVE  Required(r, l) \in {r, l} /\ Required(r, l) >= r /\ Required(r, l) >= l
<1>1. \E x \in {r, l} : \A y \in {r, l} : x >= y
  OBVIOUS
<1>2. QED
  BY <1>1 DEF Required, Max

\* A bias is a set of tables, with a lowest promise that is a natural.
LEMMA BiasTables ==
  ASSUME NEW a \in Biases
  PROVE  Tables(a) /\ Exposure(a) \in [State -> Nat]
         /\ LowestBias(a) \in Nat /\ \A s \in State : LowestBias(a) <= Exposure(a)[s]
<1>1. Tables(a) /\ Exposure(a) \in [State -> Nat]
  BY PolicyAssumption, ExposureType DEF Tables
<1> DEFINE f == Exposure(a)
           V == {f[s] : s \in State}
<1>2. V \in SUBSET Int /\ V # {} /\ \A v \in V : v \in Nat
  <2>1. \A s \in State : f[s] \in Nat
    BY <1>1
  <2>2. {} \in State
    BY DEF State
  <2> HIDE DEF f
  <2>3. QED
    BY <2>1, <2>2
<1>3. IsFiniteSet(V)
  BY Finite, ImageFinite
<1>4. LowestBias(a) = Min(V) /\ \A s \in State : f[s] \in V
  BY DEF LowestBias
<1> HIDE DEF V, f
<1>5. Min(V) \in V /\ \A v \in V : Min(V) <= v
  BY <1>2, <1>3, MinOfFinite
<1>6. LowestBias(a) \in Nat /\ \A s \in State : LowestBias(a) <= f[s]
  BY <1>2, <1>4, <1>5
<1>7. QED
  BY <1>1, <1>6 DEF f

\* A book and a bias that pass the domain check have their sum in the domain.
LEMMA JoinedDomain ==
  ASSUME NEW t, Tables(t), NEW a \in Biases, JoinedInDomain(t, a)
  PROVE  Joined(t, a) \in [State -> 0..MaxExposure]
<1> DEFINE topT == [sc \in Scope |-> Max({t[sc][l] : l \in SUBSET sc})]
           topA == [sc \in Scope |-> Max({a[sc][l] : l \in SUBSET sc})]
           top == [sc \in Scope |-> Max({t[sc][l] : l \in SUBSET sc})
                                      + Max({a[sc][l] : l \in SUBSET sc})]
<1>1. \A sc \in Scope : top[sc] = topT[sc] + topA[sc]
  OBVIOUS
<1>3. Tables(a)
  BY BiasTables
<1>4. ASSUME NEW sc \in Scope
      PROVE  /\ topT[sc] \in Int /\ \A l \in SUBSET sc : t[sc][l] <= topT[sc]
             /\ topA[sc] \in Int /\ \A l \in SUBSET sc : a[sc][l] <= topA[sc]
  BY <1>3, CellMax
<1>5. Sum(top, Scope) <= MaxExposure
  BY DEF JoinedInDomain
<1>6. ASSUME NEW s \in State PROVE Exposure(t)[s] + Exposure(a)[s] \in 0..MaxExposure
  <2> DEFINE f == [sc \in Scope |-> t[sc][s \cap sc]]
             g == [sc \in Scope |-> a[sc][s \cap sc]]
             h == [sc \in Scope |-> f[sc] + g[sc]]
  <2>1. ASSUME NEW sc \in Scope
        PROVE  /\ f[sc] \in Nat /\ g[sc] \in Nat /\ h[sc] = f[sc] + g[sc]
               /\ top[sc] \in Int /\ h[sc] \in Int /\ h[sc] <= top[sc]
    <3>1. s \cap sc \in SUBSET sc /\ f[sc] = t[sc][s \cap sc] /\ g[sc] = a[sc][s \cap sc]
      OBVIOUS
    <3>2. f[sc] \in Nat /\ g[sc] \in Nat
      BY <1>3, <3>1, CellType
    <3>3. f[sc] <= topT[sc] /\ g[sc] <= topA[sc] /\ topT[sc] \in Int /\ topA[sc] \in Int
      <4> HIDE DEF topT, topA, f, g
      <4> QED BY <1>4, <3>1
    <3>4. h[sc] = f[sc] + g[sc]
      OBVIOUS
    <3> HIDE DEF topT, topA, top, f, g, h
    <3>5. QED
      BY <1>1, <3>2, <3>3, <3>4
  <2>2. Exposure(t)[s] = Sum(f, Scope) /\ Exposure(a)[s] = Sum(g, Scope)
    BY DEF Exposure
  <2> HIDE DEF f, g, h, top
  <2>3. Sum(h, Scope) = Sum(f, Scope) + Sum(g, Scope)
    <3>1. AddUp(h, f, g, Scope)
      BY <2>1 DEF AddUp
    <3>2. QED
      BY <3>1, Finite, SumPlus
  <2>4. Sum(h, Scope) <= Sum(top, Scope) /\ Sum(top, Scope) \in Int
    BY <2>1, Finite, SumAtMost, SumInt
  <2>5. Sum(f, Scope) \in Nat /\ Sum(g, Scope) \in Nat
    BY <2>1, Finite, SumNat
  <2>6. QED
    BY <1>5, <2>2, <2>3, <2>4, <2>5, NumberAssumption
<1>7. QED
  BY <1>6 DEF Joined

\* The reserve of a book and a bias is at least the worst payout of the book.
LEMMA ReserveIsCover ==
  ASSUME NEW t, Tables(t), NEW a \in Biases, Joined(t, a) \in [State -> 0..MaxExposure]
  PROVE  /\ CostUpper(Joined(t, a)) \in Nat /\ CostLower(Joined(t, a)) \in Nat
         /\ CostLower(Joined(t, a)) <= CostUpper(Joined(t, a))
         /\ ReserveOf(t, a) \in Int
         /\ Scale * ReserveOf(t, a) >= CostUpper(Joined(t, a)) - Scale * LowestBias(a)
         /\ \A m \in Int : Scale * m >= CostUpper(Joined(t, a)) - Scale * LowestBias(a)
                             => m >= ReserveOf(t, a)
         /\ MaxPayout(Exposure(t)) \in Nat /\ ReserveOf(t, a) >= MaxPayout(Exposure(t))
<1> DEFINE J == Joined(t, a)
           low == LowestBias(a)
           E == Exposure(t)
           B == Exposure(a)
           n == CostUpper(J) - Scale * low
           r == ReserveOf(t, a)
<1>1. /\ CostUpper(J) \in Nat /\ CostLower(J) \in Nat /\ CostLower(J) <= CostUpper(J)
      /\ \A s \in State : Scale * J[s] <= CostUpper(J)
  BY CostOf
<1>2. low \in Nat /\ B \in [State -> Nat] /\ \A s \in State : low <= B[s]
  BY BiasTables
<1>3. E \in [State -> Nat]
  BY ExposureType
<1>4. Scale \in Nat \ {0} /\ \A s \in State : J[s] = E[s] + B[s]
  BY NumberAssumption DEF Joined
<1>5. r = CeilDiv(n, Scale)
  BY DEF ReserveOf
<1>6. MaxPayout(E) \in Nat /\ \E s \in State : E[s] = MaxPayout(E)
  BY <1>3, MaxPayoutBounds
<1> HIDE DEF J, low, E, B, r
<1>7. n \in Int
  BY <1>1, <1>2, <1>4
<1> HIDE DEF n
<1>8. r \in Int /\ Scale * r >= n
  BY <1>4, <1>5, <1>7, CeilDivAtLeast
<1>9. \A m \in Int : Scale * m >= n => m >= r
  <2>1. \A m \in Int : Scale * m >= n => CeilDiv(n, Scale) <= m
    BY <1>4, <1>7, CeilDivLeast
  <2>2. QED
    BY <1>5, <1>8, <2>1
<1>10. r >= MaxPayout(E)
  <2>1. PICK s \in State : E[s] = MaxPayout(E)
    BY <1>6
  <2> DEFINE e == E[s]  b == B[s]
  <2>2. e \in Nat /\ b \in Nat /\ low <= b /\ Scale * (e + b) <= CostUpper(J)
    BY <1>1, <1>2, <1>3, <1>4
  <2> HIDE DEF e, b
  <2>3. Scale * (e + b) = Scale * e + Scale * b /\ Scale * b >= Scale * low
    BY <1>2, <1>4, <2>2
  <2>4. Scale * e \in Int /\ Scale * b \in Int /\ Scale * low \in Int /\ Scale * r \in Int
    BY <1>2, <1>4, <1>8, <2>2
  <2>5. Scale * e <= Scale * r
    <3>1. Scale * r >= CostUpper(J) - Scale * low
      BY <1>8 DEF n
    <3>2. QED
      BY <1>1, <2>2, <2>3, <2>4, <3>1
  <2>6. e <= r
    <3>1. SUFFICES ASSUME r + 1 <= e PROVE FALSE
      BY <1>8, <2>2
    <3>2. Scale * (r + 1) <= Scale * e
      BY <1>4, <1>8, <2>2, <3>1
    <3>3. Scale * (r + 1) = Scale * r + Scale /\ Scale * r \in Int
      BY <1>4, <1>8
    <3>4. QED
      BY <1>4, <2>4, <2>5, <3>2, <3>3
  <2>7. QED
    BY <2>1, <2>6 DEF e
<1>11. QED
  BY <1>1, <1>6, <1>8, <1>9, <1>10 DEF n, J, E, r, low

\* The epoch that is being spent is accounted for, and later ones are untouched.
Budget ==
  /\ now \in 0..MaxTime
  /\ epochFundingSpent \in Nat /\ paidIn \in [Epochs -> Nat]
  /\ fundingEpoch \in Epochs /\ fundingEpoch <= now \div EpochSeconds
  /\ paidIn[fundingEpoch] = epochFundingSpent
  /\ \A n \in Epochs : /\ paidIn[n] <= EpochFundingLimit
                       /\ n > fundingEpoch => paidIn[n] = 0

\* An update that may still be sent was computed from the pool as it is now.
Fresh ==
  /\ revision \in Nat
  /\ proposal # NoProposal =>
       /\ proposal.bias \in Biases
       /\ proposal.revision \in Nat /\ proposal.revision <= revision
       /\ proposal.revision = revision /\ ~resolved
            => proposal.factors = factors /\ proposal.was = bias

\* The reserve is that of the book and the bias, and the pool owns it.
Priced ==
  /\ bias \in Biases /\ pricingReserve \in Int
  /\ ~funded => bias = NoBias /\ pricingReserve = RequiredFunding /\ maximumLiability = 0
  /\ funded /\ ~resolved =>
       /\ Joined(factors, bias) \in [State -> 0..MaxExposure]
       /\ pricingReserve = ReserveOf(factors, bias)
       /\ maximumLiability = MaxPayout(Exposure(factors))
       /\ balance >= pricingReserve
  /\ resolved => balance >= remainingPayout

\* The inductive invariant of the learning pool.
LInv == Book /\ Budget /\ Fresh /\ Priced

\* A moment lies in an epoch.
LEMMA EpochOf ==
  ASSUME NEW t \in 0..MaxTime
  PROVE  t \div EpochSeconds \in Epochs
<1>1. t \in Nat /\ MaxTime \in Nat /\ EpochSeconds \in Nat \ {0} /\ t <= MaxTime
  BY NumberAssumption, PolicyAssumption
<1> DEFINE m == t \div EpochSeconds
           M == MaxTime \div EpochSeconds
<1>2. /\ m \in Int /\ EpochSeconds * m <= t /\ t < EpochSeconds * m + EpochSeconds
      /\ M \in Int /\ MaxTime < EpochSeconds * M + EpochSeconds
  BY <1>1
<1> HIDE DEF m, M
<1>3. m >= 0
  <2>1. SUFFICES ASSUME m <= -1 PROVE FALSE
    BY <1>2
  <2>2. EpochSeconds * m <= -EpochSeconds
    BY <1>1, <1>2, <2>1
  <2>3. QED
    BY <1>1, <1>2, <2>2
<1>4. m <= M
  <2>1. SUFFICES ASSUME M + 1 <= m PROVE FALSE
    BY <1>2
  <2>2. EpochSeconds * (M + 1) <= EpochSeconds * m
    BY <1>1, <1>2, <2>1
  <2>3. EpochSeconds * (M + 1) = EpochSeconds * M + EpochSeconds
        /\ EpochSeconds * M \in Int /\ EpochSeconds * m \in Int
    BY <1>1, <1>2
  <2>4. QED
    BY <1>1, <1>2, <2>2, <2>3
<1>5. m \in 0..M
  BY <1>2, <1>3, <1>4
<1>6. QED
  BY <1>5 DEF Epochs, m, M

\* Epochs do not go back.
LEMMA DivMonotone ==
  ASSUME NEW t \in Nat
  PROVE  (t \div EpochSeconds) <= ((t + 1) \div EpochSeconds)
         /\ t \div EpochSeconds \in Int /\ (t + 1) \div EpochSeconds \in Int
<1>1. EpochSeconds \in Nat \ {0}
  BY PolicyAssumption
<1> DEFINE m == t \div EpochSeconds
           M == (t + 1) \div EpochSeconds
<1>2. /\ m \in Int /\ EpochSeconds * m <= t
      /\ M \in Int /\ t + 1 < EpochSeconds * M + EpochSeconds
  BY <1>1
<1> HIDE DEF m, M
<1>3. m <= M
  <2>1. SUFFICES ASSUME M + 1 <= m PROVE FALSE
    BY <1>2
  <2>2. EpochSeconds * (M + 1) <= EpochSeconds * m
    BY <1>1, <1>2, <2>1
  <2>3. EpochSeconds * (M + 1) = EpochSeconds * M + EpochSeconds
        /\ EpochSeconds * M \in Int /\ EpochSeconds * m \in Int
    BY <1>1, <1>2
  <2>4. QED
    BY <1>1, <1>2, <2>2, <2>3
<1>4. QED
  BY <1>2, <1>3 DEF m, M

\* Steps without an update keep the budget.
LEMMA BudgetKept ==
  ASSUME Budget, UNCHANGED <<now, fundingEpoch, epochFundingSpent, paidIn>>
  PROVE  Budget'
BY DEF Budget

\* Steps that leave the book and the bias keep a proposal fresh.
LEMMA FreshKept ==
  ASSUME Fresh, UNCHANGED <<proposal, revision, bias>>,
         resolved => resolved', ~resolved' => factors' = factors
  PROVE  Fresh'
BY DEF Fresh

\* A trade: from one priced book to another.
LEMMA FundedTrade ==
  ASSUME LInv, funded, ~resolved,
         NEW a \in Trader, NEW c \in Claim, NEW d \in Int,
         HoldingsMove(a, c, d), TablesMove(c, d),
         JoinedInDomain(factors', bias), AfterTrade(factors'),
         UNCHANGED <<now, funded, outcomeVars, escrow, receipts, created>>,
         maximumLiability' = MaxPayout(Exposure(factors')), balance' \in Int,
         balance' >= Required(pricingReserve', maximumLiability')
  PROVE  LInv'
<1>1. Tables(factors') /\ bias \in Biases /\ revision \in Nat
  BY TablesMoved DEF LInv, Book, Priced, Fresh
<1>2. Joined(factors', bias) \in [State -> 0..MaxExposure]
  BY <1>1, JoinedDomain
<1>3. /\ ReserveOf(factors', bias) \in Int /\ MaxPayout(Exposure(factors')) \in Nat
      /\ pricingReserve' = ReserveOf(factors', bias) /\ bias' = bias
      /\ revision' = revision + 1
      /\ UNCHANGED <<policyVars, proposal>>
  BY <1>1, <1>2, ReserveIsCover DEF AfterTrade, ReserveAfter, RevisionAfterTrade
<1>4. balance' >= pricingReserve' /\ balance' \in Nat
  <2>1. /\ Required(pricingReserve', maximumLiability') >= pricingReserve'
        /\ Required(pricingReserve', maximumLiability') >= maximumLiability'
        /\ Required(pricingReserve', maximumLiability') \in Int
    BY <1>3, RequiredBounds
  <2>2. QED
    BY <1>3, <2>1
<1>5. Book'
  BY <1>4, TradeBook DEF LInv
<1>6. Budget'
  BY <1>3, BudgetKept DEF LInv, policyVars
<1>7. Fresh'
  BY <1>1, <1>3 DEF LInv, Fresh
<1>8. Priced'
  BY <1>1, <1>2, <1>3, <1>4 DEF Priced, outcomeVars
<1>9. QED
  BY <1>5, <1>6, <1>7, <1>8 DEF LInv

\* A pool that trades has no result.
LEMMA StillTrading ==
  ASSUME Book, funded, now < ClosesAt
  PROVE  ~resolved /\ balance \in Nat
BY NumberAssumption DEF Book, TypeOK, Result

\* The two quotes, against the reserve of the book they lead to.
LEMMA QuotesPay ==
  ASSUME LInv, funded, ~resolved, NEW after, Tables(after), JoinedInDomain(after, bias)
  PROVE  /\ BiasedCost(factors, after) \in Int /\ BiasedProceeds(factors, after) \in Int
         /\ balance + BiasedCost(factors, after) >= ReserveOf(after, bias)
         /\ balance - BiasedProceeds(factors, after) >= ReserveOf(after, bias)
         /\ ReserveOf(after, bias) \in Int /\ MaxPayout(Exposure(after)) \in Nat
         /\ ReserveOf(after, bias) >= MaxPayout(Exposure(after))
<1> DEFINE K == Joined(after, bias)
           J == Joined(factors, bias)
           low == LowestBias(bias)
           paid == BiasedCost(factors, after)
           got == BiasedProceeds(factors, after)
           r == ReserveOf(after, bias)
<1>1. bias \in Biases /\ Tables(factors) /\ balance \in Nat /\ low \in Nat /\ Scale \in Nat \ {0}
  BY TypeTables, BiasTables, NumberAssumption DEF LInv, Book, TypeOK, TablesOK, Priced
<1>2. K \in [State -> 0..MaxExposure] /\ J \in [State -> 0..MaxExposure]
  BY <1>1, JoinedDomain DEF LInv, Priced
<1>3. /\ CostUpper(K) \in Nat
      /\ r \in Int /\ \A m \in Int : Scale * m >= CostUpper(K) - Scale * low => m >= r
      /\ MaxPayout(Exposure(after)) \in Nat /\ r >= MaxPayout(Exposure(after))
  BY <1>1, <1>2, ReserveIsCover
<1>4. /\ CostUpper(J) \in Nat /\ CostLower(J) \in Nat /\ CostLower(J) <= CostUpper(J)
      /\ ReserveOf(factors, bias) \in Int
      /\ Scale * ReserveOf(factors, bias) >= CostUpper(J) - Scale * low
  BY <1>1, <1>2, ReserveIsCover
<1>5. ReserveOf(factors, bias) <= balance
  BY DEF LInv, Priced
<1>6. paid = CeilDiv(CostUpper(K) - CostLower(J), Scale)
      /\ got = (CostLower(J) - CostUpper(K)) \div Scale
  BY DEF BiasedCost, BiasedProceeds
<1> DEFINE old == ReserveOf(factors, bias)
           p == CostUpper(K) - CostLower(J)
           n == CostLower(J) - CostUpper(K)
<1>7. p \in Int /\ n \in Int
  BY <1>3, <1>4
<1> HIDE DEF K, J, low, paid, got, r, old
<1>8. paid \in Int /\ Scale * paid >= CostUpper(K) - CostLower(J)
  <2> HIDE DEF p
  <2>1. paid \in Int /\ Scale * paid >= p
    BY <1>1, <1>6, <1>7, CeilDivAtLeast DEF p
  <2>2. QED
    BY <2>1 DEF p
<1>9. got \in Int /\ Scale * got <= CostLower(J) - CostUpper(K)
  <2> HIDE DEF n
  <2>1. got \in Int /\ Scale * got <= n
    BY <1>1, <1>6, <1>7, DivAtMost DEF n
  <2>2. QED
    BY <2>1 DEF n
<1>10. Scale * balance >= CostUpper(J) - Scale * low
  <2>1. Scale * old <= Scale * balance
    BY <1>1, <1>4, <1>5 DEF old
  <2>2. Scale * old \in Int /\ Scale * balance \in Int /\ Scale * low \in Int
    BY <1>1, <1>4 DEF old
  <2>3. QED
    BY <1>4, <2>1, <2>2 DEF old
<1>11. /\ Scale * (balance + paid) = Scale * balance + Scale * paid
       /\ Scale * (balance - got) = Scale * balance - Scale * got
       /\ Scale * balance \in Int /\ Scale * paid \in Int /\ Scale * got \in Int
       /\ Scale * low \in Int
  BY <1>1, <1>8, <1>9
<1>12. balance + paid >= r
  <2>1. Scale * (balance + paid) >= CostUpper(K) - Scale * low
    BY <1>3, <1>4, <1>8, <1>10, <1>11
  <2>2. balance + paid \in Int
    BY <1>1, <1>8
  <2>3. QED
    BY <1>3, <2>1, <2>2
<1>13. balance - got >= r
  <2>1. Scale * (balance - got) >= CostUpper(K) - Scale * low
    BY <1>3, <1>4, <1>9, <1>10, <1>11
  <2>2. balance - got \in Int
    BY <1>1, <1>9
  <2>3. QED
    BY <1>3, <2>1, <2>2
<1>14. QED
  BY <1>3, <1>8, <1>9, <1>12, <1>13 DEF paid, got, r

\* A purchase keeps the invariant of the learning pool.
LEMMA FundedBuyStep ==
  ASSUME LInv, NEW a \in Trader, NEW c \in Claim, NEW q \in TradeQuantity, FundedBuy(a, c, q)
  PROVE  LInv'
<1> DEFINE after == Shifted(c, q)
           paid == QuotedBuy(c, q)
<1>1. q \in Nat /\ Book /\ TypeOK
  BY NumberAssumption DEF LInv, Book
<1>2. /\ funded /\ now < ClosesAt /\ Quotable(c, q, q)
      /\ holdings' = [holdings EXCEPT ![a][c] = @ + q]
      /\ factors' = after /\ maximumLiability' = MaxPayout(Exposure(after))
      /\ AfterTrade(after) /\ balance' = balance + paid
      /\ balance' >= Required(pricingReserve', maximumLiability')
      /\ UNCHANGED <<now, funded, outcomeVars, escrow, receipts, created>>
  BY DEF FundedBuy
<1>3. ~resolved /\ balance \in Nat
  BY <1>1, <1>2, StillTrading
<1>4. HoldingsMove(a, c, q)
  BY <1>1, <1>2, Credited
<1>5. TablesMove(c, q)
  <2>1. \A l \in SUBSET c.scope : factors[c.scope][l] \in Nat
    BY <1>1, Finite, CellType, TypeTables DEF TablesOK
  <2>2. QED
    BY <1>1, <1>2, <2>1 DEF TablesMove
<1>6. JoinedInDomain(after, bias)
  BY <1>2 DEF Quotable
<1>7. Tables(after)
  BY <1>1, <1>2, <1>5, TablesMoved
<1>8. balance' \in Int
  <2>1. paid = BiasedCost(factors, after)
    BY DEF QuotedBuy
  <2>2. BiasedCost(factors, after) \in Int
    BY <1>2, <1>3, <1>6, <1>7, QuotesPay
  <2> HIDE DEF paid, after
  <2>3. QED
    BY <1>2, <1>3, <2>1, <2>2
<1>9. QED
  BY <1>1, <1>2, <1>3, <1>4, <1>5, <1>6, <1>8, FundedTrade

\* A sale keeps the invariant of the learning pool.
LEMMA FundedSellStep ==
  ASSUME LInv, NEW a \in Trader, NEW c \in Claim, NEW q \in TradeQuantity, FundedSell(a, c, q)
  PROVE  LInv'
<1> DEFINE d == -q
           after == Shifted(c, d)
           received == QuotedSale(c, q)
<1>1. q \in Nat /\ Book /\ TypeOK
  BY NumberAssumption DEF LInv, Book
<1>0. d \in Int
  BY <1>1
<1>2. /\ funded /\ now < ClosesAt /\ Quotable(c, q, d) /\ HasShares(a, c, q)
      /\ holdings' = [holdings EXCEPT ![a][c] = @ - q]
      /\ factors' = after /\ maximumLiability' = MaxPayout(Exposure(after))
      /\ AfterTrade(after) /\ balance' = balance - received
      /\ balance' >= Required(pricingReserve', maximumLiability')
      /\ UNCHANGED <<now, funded, outcomeVars, escrow, receipts, created>>
  BY DEF FundedSell
<1>3. ~resolved /\ balance \in Nat
  BY <1>1, <1>2, StillTrading
<1>4. HoldingsMove(a, c, d)
  BY <1>1, <1>2, Debited
<1>5. TablesMove(c, d)
  <2>1. c.scope \in Scope /\ \A l \in SUBSET c.scope : factors[c.scope][l] \in Nat
    BY <1>1, Finite, CellType, TypeTables DEF TablesOK
  <2>2. \A l \in SUBSET c.scope :
           after[c.scope][l] = factors[c.scope][l] + (IF l \in c.mask THEN d ELSE 0)
    <3> HIDE DEF d
    <3> QED BY <1>0, <1>1, <2>1, ShiftedAt
  <2>3. \A l \in c.mask : after[c.scope][l] >= 0
    BY <1>2 DEF Quotable
  <2> HIDE DEF after, d
  <2>4. \A l \in SUBSET c.scope : factors[c.scope][l] + (IF l \in c.mask THEN d ELSE 0) >= 0
    BY <2>1, <2>2, <2>3
  <2>5. QED
    BY <1>2, <2>4 DEF TablesMove, after
<1>6. JoinedInDomain(after, bias)
  BY <1>2 DEF Quotable
<1>7. Tables(after)
  <2> HIDE DEF d
  <2> QED BY <1>0, <1>1, <1>2, <1>5, TablesMoved
<1>8. balance' \in Int
  <2>1. received = BiasedProceeds(factors, after)
    BY DEF QuotedSale
  <2>2. BiasedProceeds(factors, after) \in Int
    BY <1>2, <1>3, <1>6, <1>7, QuotesPay
  <2> HIDE DEF received, after
  <2>3. QED
    BY <1>2, <1>3, <2>1, <2>2
<1> HIDE DEF d
<1>9. QED
  BY <1>0, <1>1, <1>2, <1>3, <1>4, <1>5, <1>6, <1>8, FundedTrade

\* A proposal is computed from the pool as it is.
LEMMA ProposeStep ==
  ASSUME LInv, NEW a \in Biases, ProposeBias(a)
  PROVE  LInv'
<1> DEFINE p == [revision |-> revision, bias |-> a, factors |-> factors, was |-> bias]
<1>1. /\ proposal' = p /\ UNCHANGED <<vars, bias, pricingReserve, revision, policyVars>>
  BY DEF ProposeBias
<1>2. Book'
  <2>1. TypeOK' /\ Result'
    BY <1>1 DEF LInv, Book, TypeOK, Result, vars, outcomeVars, positionVars
  <2>2. QED
    BY <1>1, <2>1, BookKept DEF LInv, vars
<1>3. Budget'
  BY <1>1, BudgetKept DEF LInv, vars, policyVars
<1>4. Fresh'
  <2>1. p.revision = revision /\ p.bias = a /\ p.factors = factors /\ p.was = bias
    OBVIOUS
  <2>2. revision \in Nat /\ revision' = revision /\ factors' = factors /\ bias' = bias
    BY <1>1 DEF LInv, Fresh, vars
  <2> HIDE DEF p
  <2>3. QED
    BY <1>1, <2>1, <2>2 DEF Fresh
<1>5. Priced'
  BY <1>1 DEF LInv, Priced, vars, outcomeVars
<1>6. QED
  BY <1>2, <1>3, <1>4, <1>5 DEF LInv

\* An update pays its shortfall within the epoch's limit (FundedFactoredPool.sol:95-115).
LEMMA UpdateStep ==
  ASSUME LInv, UpdateBias
  PROVE  LInv'
<1> DEFINE p == proposal
           epoch == now \div EpochSeconds
           reserve == ReserveOf(factors, p.bias)
           added == Shortfall(reserve)
           spent == SpentSoFar(epoch)
<1>1. /\ p # NoProposal /\ funded /\ now < ClosesAt
      /\ JoinedInDomain(factors, p.bias)
      /\ spent + added <= EpochFundingLimit
      /\ bias' = p.bias /\ pricingReserve' = reserve
      /\ revision' = revision + 1
      /\ fundingEpoch' = epoch /\ epochFundingSpent' = spent + added
      /\ balance' = balance + added
      /\ paidIn' = [paidIn EXCEPT ![epoch] = @ + added]
      /\ proposal' = NoProposal
      /\ UNCHANGED <<now, funded, outcomeVars, positionVars, factors, maximumLiability, created>>
  BY DEF UpdateBias
<1>2. Book /\ ~resolved /\ balance \in Nat
  BY <1>1, StillTrading DEF LInv
<1>3. p.bias \in Biases /\ Tables(factors)
  BY <1>1, <1>2, TypeTables DEF LInv, Fresh, Book, TablesOK
<1>4. Joined(factors, p.bias) \in [State -> 0..MaxExposure]
  BY <1>1, <1>3, JoinedDomain
<1>5. reserve \in Int
  BY <1>3, <1>4, ReserveIsCover
<1>6. epoch \in Epochs /\ epoch \in Nat /\ fundingEpoch \in Nat /\ fundingEpoch <= epoch
  BY EpochOf, NumberAssumption DEF LInv, Budget, Epochs
<1>7. spent \in Nat /\ spent = paidIn[epoch]
  <2>1. CASE epoch = fundingEpoch
    BY <2>1 DEF LInv, Budget, SpentSoFar
  <2>2. CASE epoch # fundingEpoch
    <3>1. epoch > fundingEpoch
      BY <1>6, <2>2
    <3>2. paidIn[epoch] = 0
      BY <1>6, <3>1 DEF LInv, Budget
    <3>3. QED
      BY <2>2, <3>2 DEF SpentSoFar
  <2>3. QED
    BY <2>1, <2>2
<1> HIDE DEF reserve, epoch, spent
<1>8. added \in Nat /\ balance + added >= reserve
  BY <1>2, <1>5 DEF Shortfall
<1> HIDE DEF added
<1>9. balance' \in Nat /\ balance' >= reserve
  BY <1>1, <1>2, <1>8
<1>10. Book'
  <2>1. TypeOK' /\ Result'
    BY <1>1, <1>2, <1>9 DEF Book, TypeOK, Result, outcomeVars, positionVars
  <2>2. QED
    BY <1>1, <1>2, <2>1, BookKept
<1>11. Budget'
  <2>1. /\ paidIn \in [Epochs -> Nat] /\ EpochFundingLimit \in Nat
        /\ \A n \in Epochs : /\ paidIn[n] <= EpochFundingLimit
                             /\ n > fundingEpoch => paidIn[n] = 0
    BY PolicyAssumption DEF LInv, Budget
  <2>2. Epochs \subseteq Nat
    BY DEF Epochs
  <2>3. paidIn' \in [Epochs -> Nat] /\ paidIn'[epoch] = spent + added
        /\ \A n \in Epochs \ {epoch} : paidIn'[n] = paidIn[n]
    BY <1>1, <1>6, <1>7, <1>8, <2>1
  <2>4. ASSUME NEW n \in Epochs
        PROVE  paidIn'[n] <= EpochFundingLimit /\ (n > epoch => paidIn'[n] = 0)
    BY <1>1, <1>6, <2>1, <2>2, <2>3
  <2>5. now' \in 0..MaxTime /\ epochFundingSpent' \in Nat /\ fundingEpoch' = epoch
        /\ epochFundingSpent' = spent + added /\ epoch = now' \div EpochSeconds
    BY <1>1, <1>7, <1>8 DEF LInv, Budget, epoch
  <2>6. QED
    BY <1>6, <2>3, <2>4, <2>5 DEF Budget
<1>12. Fresh'
  BY <1>1 DEF LInv, Fresh
<1>13. Priced'
  <2>1. maximumLiability = MaxPayout(Exposure(factors))
    BY <1>1, <1>2 DEF LInv, Priced
  <2>2. QED
    BY <1>1, <1>2, <1>3, <1>4, <1>5, <1>9, <2>1 DEF Priced, outcomeVars, reserve
<1>14. QED
  BY <1>10, <1>11, <1>12, <1>13 DEF LInv

\* The reserve of the empty book without a bias is the funding.
LEMMA EmptyReserve ==
  /\ NoBias \in Biases /\ Tables(EmptyTables)
  /\ Joined(EmptyTables, NoBias) \in [State -> 0..MaxExposure]
  /\ ReserveOf(EmptyTables, NoBias) = RequiredFunding
<1>1. NoBias \in Biases /\ NoBias = EmptyTables /\ Tables(EmptyTables)
  BY PolicyAssumption, ExposureEmpty DEF NoBias
<1> DEFINE E == Exposure(EmptyTables)
<1>2. E = [s \in State |-> E[s]] /\ \A s \in State : E[s] = 0
  BY ExposureEmpty DEF Exposure
<1>3. Joined(EmptyTables, NoBias) = [s \in State |-> E[s] + E[s]]
  BY <1>1 DEF Joined
<1>4. LowestBias(NoBias) \in Nat /\ \A s \in State : LowestBias(NoBias) <= E[s]
  BY <1>1, BiasTables
<1>5. Scale \in Nat /\ MaxExposure \in Nat
  BY NumberAssumption
<1> HIDE DEF E
<1>6. Joined(EmptyTables, NoBias) = E
  BY <1>2, <1>3
<1>7. LowestBias(NoBias) = 0
  <2>1. {} \in State
    BY DEF State
  <2>2. E[{}] = 0 /\ LowestBias(NoBias) <= E[{}]
    BY <1>2, <1>4, <2>1
  <2>3. QED
    BY <1>4, <2>2
<1>8. E \in [State -> 0..MaxExposure]
  BY <1>2, <1>5
<1>9. CostUpper(E) \in Nat
  BY <1>8, CostOf
<1>10. CostUpper(E) - Scale * 0 = CostUpper(E)
  BY <1>5, <1>9
<1>11. ReserveOf(EmptyTables, NoBias) = RequiredFunding
  BY <1>6, <1>7, <1>10 DEF ReserveOf, RequiredFunding, E
<1>12. QED
  BY <1>1, <1>6, <1>8, <1>11

\* Funding keeps the invariant of the learning pool.
LEMMA FundedFundStep ==
  ASSUME LInv, FundedFund, UNCHANGED fundedVars
  PROVE  LInv'
<1>1. Fund /\ Book' /\ RequiredFunding \in Nat
  BY FundBook DEF LInv, FundedFund
<1>2. Budget' /\ Fresh'
  BY <1>1, BudgetKept, FreshKept DEF LInv, Fund, fundedVars, policyVars, outcomeVars
<1>3. /\ factors' = EmptyTables /\ bias' = NoBias /\ pricingReserve' = RequiredFunding
      /\ maximumLiability' = 0 /\ funded' /\ ~resolved' /\ balance' = balance + RequiredFunding
      /\ balance \in Nat
  BY <1>1 DEF LInv, Book, TypeOK, Result, Priced, Fund, fundedVars, outcomeVars
<1>4. MaxPayout(Exposure(EmptyTables)) = 0
  <2>1. Exposure(EmptyTables) \in [State -> Nat] /\ \A s \in State : Exposure(EmptyTables)[s] = 0
    BY ExposureEmpty, ExposureType
  <2>2. QED
    BY <2>1, MaxPayoutBounds
<1>5. Priced'
  <2>1. balance' >= pricingReserve'
    BY <1>1, <1>3
  <2>2. QED
    BY <1>1, <1>3, <1>4, <2>1, EmptyReserve DEF Priced
<1>6. QED
  BY <1>1, <1>2, <1>5 DEF LInv

\* The steps shared with the pilot pool that leave prices and collateral alone.
LEMMA FundedQuiet ==
  ASSUME LInv, Book', UNCHANGED fundedVars, Budget',
         UNCHANGED <<funded, outcomeVars, factors, maximumLiability, balance>>
  PROVE  LInv'
<1>1. Fresh'
  BY FreshKept DEF LInv, fundedVars, outcomeVars
<1>2. Priced'
  BY DEF LInv, Priced, fundedVars, outcomeVars
<1>3. QED
  BY <1>1, <1>2 DEF LInv

\* A redemption keeps the invariant of the learning pool.
LEMMA FundedRedeemStep ==
  ASSUME LInv, NEW a \in Trader, NEW c \in Claim, NEW q \in MoveQuantity, Redeem(a, c, q),
         UNCHANGED fundedVars
  PROVE  LInv'
<1>1. Book'
  BY RedeemBook DEF LInv
<1>2. Budget' /\ Fresh'
  BY BudgetKept, FreshKept DEF LInv, Redeem, fundedVars, policyVars
<1>3. Priced'
  <2>1. funded
    BY DEF LInv, Book, Result, Redeem
  <2>2. QED
    BY <2>1 DEF LInv, Priced, Redeem, fundedVars
<1>4. QED
  BY <1>1, <1>2, <1>3 DEF LInv

\* A result keeps the invariant of the learning pool.
LEMMA FundedResolveStep ==
  ASSUME LInv, NEW yes \in State, Resolve(yes, {}), UNCHANGED fundedVars
  PROVE  LInv'
<1>1. {} \in State /\ Book
  BY DEF State, LInv
<1>2. Book'
  BY <1>1, ResolveBook
<1>3. Budget' /\ Fresh'
  BY BudgetKept, FreshKept DEF LInv, Resolve, fundedVars, policyVars
<1>4. /\ balance \in Nat /\ Tables(factors) /\ funded /\ ~resolved /\ yes \cap {} = {}
      /\ remainingPayout' = Reserve(yes, {})
  BY <1>1, TypeTables DEF Book, TypeOK, TablesOK, Resolve
<1>5. /\ pricingReserve = ReserveOf(factors, bias) /\ balance >= pricingReserve
      /\ Joined(factors, bias) \in [State -> 0..MaxExposure] /\ bias \in Biases
      /\ pricingReserve \in Int
  BY <1>4 DEF LInv, Priced
<1>6. MaxPayout(Exposure(factors)) \in Nat /\ pricingReserve >= MaxPayout(Exposure(factors))
  BY <1>4, <1>5, ReserveIsCover
<1>7. Exposure(factors) \in [State -> Nat]
  BY <1>4, ExposureType
<1>8. \A s \in State : Exposure(factors)[s] <= MaxPayout(Exposure(factors))
  BY <1>7, MaxPayoutBounds
<1>9. Reserve(yes, {}) <= MaxPayout(Exposure(factors)) /\ Reserve(yes, {}) \in Nat
  BY <1>1, <1>4, <1>6, <1>8, ReserveIsEnough DEF Book
<1>10. Priced'
  BY <1>4, <1>5, <1>6, <1>9 DEF LInv, Priced, Resolve, fundedVars
<1>11. QED
  BY <1>2, <1>3, <1>10 DEF LInv

\* A learning pool that was just deployed.
LEMMA InitLInv == FundedInit => LInv
<1> SUFFICES ASSUME FundedInit PROVE LInv
  OBVIOUS
<1>1. Init /\ Book
  BY InitBook DEF FundedInit
<1>2. 0 \in 0..MaxTime /\ 0 \div EpochSeconds = 0 /\ 0 \in Epochs
  <2>1. 0 \in 0..MaxTime /\ 0 \div EpochSeconds = 0
    BY NumberAssumption, PolicyAssumption
  <2>2. QED
    BY <2>1, EpochOf
<1>3. Budget
  <2>1. /\ now = 0 /\ fundingEpoch = 0 /\ epochFundingSpent = 0 /\ paidIn = [n \in Epochs |-> 0]
        /\ EpochFundingLimit \in Nat
    BY <1>1, PolicyAssumption DEF FundedInit, Init
  <2>2. QED
    BY <1>2, <2>1 DEF Budget
<1>4. Fresh
  BY DEF FundedInit, Fresh
<1>5. Priced
  <2>1. RequiredFunding \in Int
    <3>1. Joined(EmptyTables, NoBias) \in [State -> 0..MaxExposure]
      BY EmptyReserve
    <3>2. QED
      BY <3>1, EmptyReserve, ReserveIsCover
  <2>2. QED
    BY <1>1, <2>1, EmptyReserve DEF FundedInit, Init, Priced
<1>6. QED
  BY <1>1, <1>3, <1>4, <1>5 DEF LInv

\* Time keeps the budget.
LEMMA TickBudget ==
  ASSUME Budget, Tick, UNCHANGED fundedVars
  PROVE  Budget'
<1>1. now \in Nat /\ now < MaxTime /\ now' = now + 1 /\ MaxTime \in Nat
  BY NumberAssumption DEF Budget, Tick
<1>2. UNCHANGED <<fundingEpoch, epochFundingSpent, paidIn>>
  BY DEF fundedVars, policyVars
<1>3. now \div EpochSeconds <= now' \div EpochSeconds
      /\ now \div EpochSeconds \in Int /\ now' \div EpochSeconds \in Int
  BY <1>1, DivMonotone
<1>4. fundingEpoch \in Nat
  BY NumberAssumption, PolicyAssumption DEF Budget, Epochs
<1>5. fundingEpoch <= now' \div EpochSeconds /\ now' \in 0..MaxTime
  BY <1>1, <1>3, <1>4 DEF Budget
<1>6. QED
  BY <1>2, <1>5 DEF Budget

\* Every transaction of the learning pool and its updater keeps its invariant.
THEOREM LearningInductive == LInv /\ [FundedNext]_<<vars, fundedVars>> => LInv'
<1> SUFFICES ASSUME LInv, [FundedNext]_<<vars, fundedVars>> PROVE LInv'
  OBVIOUS
<1>0. Book /\ Budget
  BY DEF LInv
<1>1. CASE Tick /\ UNCHANGED fundedVars
  <2>1. Book' /\ Budget'
    BY <1>0, <1>1, TickBook, TickBudget
  <2>2. QED
    BY <1>1, <2>1, FundedQuiet DEF Tick
<1>2. CASE FundedFund /\ UNCHANGED fundedVars
  BY <1>2, FundedFundStep
<1>3. ASSUME NEW c \in Receipt, CreateBaseToken(c), UNCHANGED fundedVars PROVE LInv'
  <2>1. Book' /\ Budget'
    BY <1>0, <1>3, CreateBook, BudgetKept DEF CreateBaseToken, fundedVars, policyVars
  <2>2. QED
    BY <1>3, <2>1, FundedQuiet DEF CreateBaseToken
<1>4. ASSUME NEW a \in Trader, NEW c \in Claim, NEW q \in MoveQuantity, Redeem(a, c, q),
             UNCHANGED fundedVars
      PROVE LInv'
  BY <1>4, FundedRedeemStep
<1>5. ASSUME NEW a \in Trader, NEW c \in Receipt, NEW q \in MoveQuantity, WrapBase(a, c, q),
             UNCHANGED fundedVars
      PROVE LInv'
  <2>1. Book' /\ Budget'
    BY <1>0, <1>5, WrapBook, BudgetKept DEF WrapBase, fundedVars, policyVars
  <2>2. QED
    BY <1>5, <2>1, FundedQuiet DEF WrapBase
<1>6. ASSUME NEW a \in Trader, NEW c \in Receipt, NEW q \in MoveQuantity, UnwrapBase(a, c, q),
             UNCHANGED fundedVars
      PROVE LInv'
  <2>1. Book' /\ Budget'
    BY <1>0, <1>6, UnwrapBook, BudgetKept DEF UnwrapBase, fundedVars, policyVars
  <2>2. QED
    BY <1>6, <2>1, FundedQuiet DEF UnwrapBase
<1>7. ASSUME NEW a \in Trader, NEW b \in Trader, NEW c \in Receipt, NEW q \in MoveQuantity,
             TransferReceipt(a, b, c, q), UNCHANGED fundedVars
      PROVE LInv'
  <2>1. Book' /\ Budget'
    BY <1>0, <1>7, TransferBook, BudgetKept DEF TransferReceipt, fundedVars, policyVars
  <2>2. QED
    BY <1>7, <2>1, FundedQuiet DEF TransferReceipt
<1>8. ASSUME NEW yes \in State, Resolve(yes, {}), UNCHANGED fundedVars PROVE LInv'
  BY <1>8, FundedResolveStep
<1>9. ASSUME NEW a \in Trader, NEW c \in Claim, NEW q \in TradeQuantity, FundedBuy(a, c, q)
      PROVE LInv'
  BY <1>9, FundedBuyStep
<1>10. ASSUME NEW a \in Trader, NEW c \in Claim, NEW q \in TradeQuantity, FundedSell(a, c, q)
      PROVE LInv'
  BY <1>10, FundedSellStep
<1>11. ASSUME NEW a \in Biases, ProposeBias(a) PROVE LInv'
  BY <1>11, ProposeStep
<1>12. CASE UpdateBias
  BY <1>12, UpdateStep
<1>13. CASE UNCHANGED <<vars, fundedVars>>
  <2>1. TypeOK' /\ Result'
    BY <1>0, <1>13 DEF Book, TypeOK, Result, vars, outcomeVars, positionVars
  <2>2. Book' /\ Budget'
    BY <1>0, <1>13, <2>1, BookKept, BudgetKept DEF vars, fundedVars, policyVars
  <2>3. QED
    BY <1>13, <2>2, FundedQuiet DEF vars
<1>14. QED
  BY <1>1, <1>2, <1>3, <1>4, <1>5, <1>6, <1>7, <1>8, <1>9, <1>10, <1>11, <1>12, <1>13
  DEF FundedNext

\* The invariant of the learning pool holds always (FundedFactoredPool.sol).
THEOREM LearningInvariant == FundedSpec => []LInv
<1>1. FundedInit => LInv
  BY InitLInv
<1>2. LInv /\ [FundedNext]_<<vars, fundedVars>> => LInv'
  BY LearningInductive
<1>3. QED
  BY <1>1, <1>2, PTL DEF FundedSpec
-----------------------------------------------------------------------------
(* What the two invariants say of each pool.                                *)

\* One of the summands is at most the sum.
LEMMA SumAtLeast ==
  ASSUME NEW S, IsFiniteSet(S), NEW f, \A x \in S : f[x] \in Nat, NEW x \in S
  PROVE  f[x] <= Sum(f, S)
<1>1. Sum(f, S) = f[x] + Sum(f, S \ {x})
  BY SumTake
<1>2. Sum(f, S \ {x}) \in Nat
  BY FS_Subset, SumNat
<1>3. QED
  BY <1>1, <1>2

\* Whoever holds shares finds them in every cell of the table they pay in.
LEMMA HeldInTables ==
  ASSUME TypeOK, Match, NEW a \in Trader, NEW c \in Claim, NEW l \in c.mask
  PROVE  /\ holdings[a][c] \in Nat /\ factors[c.scope][l] \in Nat
         /\ holdings[a][c] <= Outstanding(c)
         /\ Outstanding(c) <= factors[c.scope][l]
<1> DEFINE h == [b \in Trader |-> holdings[b][c]]
           S == {k \in Claim : k.scope = c.scope /\ l \in k.mask}
           f == [k \in Claim |-> Outstanding(k)]
<1>1. \A b \in Trader : h[b] \in Nat
  BY DEF TypeOK
<1>2. Wrapped(c) \in Nat /\ Outstanding(c) = Sum(h, Trader) + Wrapped(c)
  BY DEF TypeOK, Wrapped, Outstanding
<1>3. \A k \in S : f[k] \in Nat
  BY OutstandingType
<1>4. IsFiniteSet(S) /\ c \in S
  BY Finite, FS_Subset
<1>5. c.scope \in Scope /\ l \in SUBSET c.scope
  BY Finite
<1>6. factors[c.scope][l] = Sum(f, S)
  BY <1>5 DEF Match
<1>7. h[a] = holdings[a][c] /\ f[c] = Outstanding(c)
  OBVIOUS
<1> HIDE DEF h, S, f
<1>8. h[a] <= Sum(h, Trader) /\ Sum(h, Trader) \in Nat
  BY <1>1, Finite, SumAtLeast, SumNat
<1>9. f[c] <= Sum(f, S) /\ Sum(f, S) \in Nat
  BY <1>3, <1>4, SumAtLeast, SumNat
<1>10. QED
  BY <1>1, <1>2, <1>6, <1>7, <1>8, <1>9

\* A redemption of shares somebody holds is never refused, in whichever order
\* and split the holders come (PilotPool.sol:79-99): each checked subtraction of
\* it has what it takes.
RedeemHonoured ==
  resolved =>
    \A a \in Trader, c \in Claim, q \in MoveQuantity :
      HasShares(a, c, q) =>
        /\ \A l \in c.mask : factors[c.scope][l] >= q
        /\ remainingPayout >= Payout(c, q)
        /\ balance >= Payout(c, q)
        /\ balance - Payout(c, q) >= remainingPayout - Payout(c, q)

\* A redemption has what its checked subtractions take.
LEMMA RedeemPays ==
  ASSUME Book, AlwaysCovered
  PROVE  RedeemHonoured
<1> SUFFICES ASSUME resolved, NEW a \in Trader, NEW c \in Claim, NEW q \in MoveQuantity,
                    HasShares(a, c, q)
             PROVE  /\ \A l \in c.mask : factors[c.scope][l] >= q
                    /\ remainingPayout >= Payout(c, q)
                    /\ balance >= Payout(c, q)
                    /\ balance - Payout(c, q) >= remainingPayout - Payout(c, q)
  BY DEF RedeemHonoured
<1> DEFINE n == Numerator(c)
           D == Denominator
           o == Outstanding(c)
           f == [k \in Claim |-> Outstanding(k) * Numerator(k)]
           pay == Payout(c, q)
<1>1. q \in Nat /\ q <= holdings[a][c]
  BY NumberAssumption DEF HasShares, Book, TypeOK
<1>2. c.mask # {}
  BY ClaimAssumption
<1>3. /\ \A l \in c.mask : factors[c.scope][l] >= q
      /\ q <= o
  BY <1>1, <1>2, HeldInTables, OutstandingType DEF Book
<1>4. /\ n \in Nat /\ D \in Nat \ {0} /\ pay = (q * n) \div D /\ o \in Nat
      /\ remainingPayout \in Nat /\ balance \in Nat
  BY ConsistentStates, NumeratorType, OutstandingType
  DEF Book, TypeOK, Result, Denominator, Payout
<1>5. balance >= remainingPayout
  BY DEF AlwaysCovered, RequiredCollateral, Book, Result
<1>6. \A k \in Claim : f[k] \in Nat
  BY NumeratorType, OutstandingType DEF Book
<1>7. Due = Sum(f, Claim) /\ f[c] = o * n /\ Due <= remainingPayout * D
  BY DEF Due, Book, AllRedeemable
<1> HIDE DEF n, D, o, f, pay
<1>8. f[c] <= Sum(f, Claim) /\ Sum(f, Claim) \in Nat
  BY <1>6, Finite, SumAtLeast, SumNat
<1>9. pay \in Nat /\ D * pay <= q * n /\ q * n \in Int
  BY <1>1, <1>4
<1>10. q * n <= o * n /\ o * n \in Int
  BY <1>1, <1>3, <1>4
<1>11. D * pay <= D * remainingPayout
  <2>1. remainingPayout * D = D * remainingPayout /\ D * remainingPayout \in Int /\ D * pay \in Int
    BY <1>4, <1>9
  <2>2. QED
    BY <1>7, <1>8, <1>9, <1>10, <2>1
<1>12. pay <= remainingPayout
  <2>1. SUFFICES ASSUME remainingPayout + 1 <= pay PROVE FALSE
    BY <1>4, <1>9
  <2>2. D * (remainingPayout + 1) <= D * pay
    BY <1>4, <1>9, <2>1
  <2>3. D * (remainingPayout + 1) = D * remainingPayout + D /\ D * remainingPayout \in Int
    BY <1>4
  <2>4. D * pay \in Int
    BY <1>4, <1>9
  <2>5. QED
    BY <1>4, <1>11, <2>2, <2>3, <2>4
<1>13. QED
  BY <1>3, <1>4, <1>5, <1>9, <1>12 DEF pay

-----------------------------------------------------------------------------
(* The pool that was deployed, whichever it is.                             *)

\* The pilot pool has no updater.
Idle == proposal = NoProposal /\ \A n \in Epochs : paidIn[n] = 0

\* The inductive invariant of the pool that was deployed.
PoolInv ==
  \/ pool = "pilot" /\ IInv /\ Idle
  \/ pool = "learning" /\ LInv

\* What holds of both pools.
Common ==
  /\ TablesMatchHoldings /\ AlwaysCovered /\ AllRedeemable /\ ReceiptsBacked
  /\ UpdatesBounded

\* What the invariant of the pilot pool gives.
LEMMA IInvCommon == IInv /\ Idle => Common
<1> SUFFICES ASSUME IInv, Idle PROVE Common
  OBVIOUS
<1>1. UpdatesBounded
  BY PolicyAssumption DEF Idle, UpdatesBounded
<1>2. QED
  BY <1>1 DEF IInv, Book, Match, TablesMatchHoldings, Common

\* A learning pool that was funded owns what it requires.
LEMMA LInvCovered == LInv /\ funded => FundedCovered /\ AlwaysCovered
<1> SUFFICES ASSUME LInv, funded PROVE FundedCovered /\ AlwaysCovered
  OBVIOUS
<1>1. CASE resolved
  BY <1>1 DEF LInv, Priced, FundedCovered, AlwaysCovered, RequiredCollateral
<1>2. CASE ~resolved
  <2>1. /\ bias \in Biases /\ Tables(factors) /\ Joined(factors, bias) \in [State -> 0..MaxExposure]
        /\ pricingReserve = ReserveOf(factors, bias)
        /\ maximumLiability = MaxPayout(Exposure(factors))
        /\ balance >= pricingReserve /\ balance \in Nat
    BY <1>2, TypeTables DEF LInv, Book, TypeOK, TablesOK, Priced
  <2>2. /\ pricingReserve \in Int /\ maximumLiability \in Nat
        /\ pricingReserve >= maximumLiability
    BY <2>1, ReserveIsCover
  <2>3. Required(pricingReserve, maximumLiability) \in {pricingReserve, maximumLiability}
    BY <2>2, RequiredBounds
  <2>4. balance >= maximumLiability
    BY <2>1, <2>2
  <2>5. QED
    BY <1>2, <2>1, <2>3, <2>4 DEF FundedCovered, AlwaysCovered, RequiredCollateral
<1>3. QED
  BY <1>1, <1>2

\* What the invariant of the learning pool gives.
LEMMA LInvCommon == LInv => Common
<1> SUFFICES ASSUME LInv PROVE Common
  OBVIOUS
<1>1. AlwaysCovered
  BY LInvCovered DEF AlwaysCovered
<1>2. UpdatesBounded
  BY DEF LInv, Budget, Fresh, UpdatesBounded
<1>3. QED
  BY <1>1, <1>2 DEF LInv, Book, Match, TablesMatchHoldings, Common

\* A trade that leaves no cell of its table negative leads to payout tables.
LEMMA QuotedTables ==
  ASSUME TypeOK, NEW c \in Claim, NEW d \in Int,
         \A l \in c.mask : Shifted(c, d)[c.scope][l] >= 0
  PROVE  Tables(Shifted(c, d))
<1>1. ASSUME NEW sc \in Scope, NEW l \in SUBSET sc PROVE Shifted(c, d)[sc][l] >= 0
  <2>1. factors[sc][l] \in Nat
    BY CellType, TypeTables DEF TablesOK
  <2>2. CASE sc = c.scope /\ l \in c.mask
    BY <2>2
  <2>3. CASE ~(sc = c.scope /\ l \in c.mask)
    <3>1. Shifted(c, d)[sc][l] = factors[sc][l] + 0
      BY <2>3, ShiftedAt
    <3>2. QED
      BY <2>1, <3>1
  <2>4. QED
    BY <2>2, <2>3
<1>2. QED
  BY <1>1, ShiftedAt DEF Tables

\* What it gives of quotes.
LEMMA LInvQuotes == LInv => QuotesHonoured
<1> SUFFICES ASSUME LInv, funded, ~resolved PROVE QuotesHonoured
  BY DEF QuotesHonoured
<1>1. /\ bias \in Biases /\ Tables(factors) /\ Joined(factors, bias) \in [State -> 0..MaxExposure]
      /\ pricingReserve = ReserveOf(factors, bias)
      /\ maximumLiability = MaxPayout(Exposure(factors)) /\ TypeOK
  BY TypeTables DEF LInv, Book, TypeOK, TablesOK, Priced
<1>2. pricingReserve >= maximumLiability
  BY <1>1, ReserveIsCover
<1>3. FundedCovered
  BY LInvCovered
<1>4. ASSUME NEW c \in Claim, NEW q \in TradeQuantity, Quotable(c, q, q)
      PROVE  balance + QuotedBuy(c, q) >= Required(ReserveOf(Shifted(c, q), bias),
                                                   MaxPayout(Exposure(Shifted(c, q))))
  <2> DEFINE after == Shifted(c, q)
  <2>1. q \in Int
    BY NumberAssumption
  <2>2. Tables(after) /\ JoinedInDomain(after, bias)
    BY <1>1, <1>4, <2>1, QuotedTables DEF Quotable
  <2>3. QuotedBuy(c, q) = BiasedCost(factors, after)
    BY DEF QuotedBuy
  <2> HIDE DEF after
  <2>4. /\ balance + BiasedCost(factors, after) >= ReserveOf(after, bias)
        /\ ReserveOf(after, bias) \in Int /\ MaxPayout(Exposure(after)) \in Nat
        /\ ReserveOf(after, bias) >= MaxPayout(Exposure(after))
        /\ BiasedCost(factors, after) \in Int
    BY <2>2, QuotesPay
  <2>5. Required(ReserveOf(after, bias), MaxPayout(Exposure(after)))
          \in {ReserveOf(after, bias), MaxPayout(Exposure(after))}
    BY <2>4, RequiredBounds
  <2>6. balance \in Int
    BY <1>1 DEF TypeOK
  <2>7. QED
    BY <2>3, <2>4, <2>5, <2>6 DEF after
<1>5. ASSUME NEW c \in Claim, NEW q \in TradeQuantity, Quotable(c, q, -q)
      PROVE  balance - QuotedSale(c, q) >= Required(ReserveOf(Shifted(c, -q), bias),
                                                    MaxPayout(Exposure(Shifted(c, -q))))
  <2> DEFINE after == Shifted(c, -q)
  <2>1. -q \in Int
    BY NumberAssumption
  <2>2. Tables(after) /\ JoinedInDomain(after, bias)
    BY <1>1, <1>5, <2>1, QuotedTables DEF Quotable
  <2>3. QuotedSale(c, q) = BiasedProceeds(factors, after)
    BY DEF QuotedSale
  <2> HIDE DEF after
  <2>4. /\ balance - BiasedProceeds(factors, after) >= ReserveOf(after, bias)
        /\ ReserveOf(after, bias) \in Int /\ MaxPayout(Exposure(after)) \in Nat
        /\ ReserveOf(after, bias) >= MaxPayout(Exposure(after))
        /\ BiasedProceeds(factors, after) \in Int
    BY <2>2, QuotesPay
  <2>5. Required(ReserveOf(after, bias), MaxPayout(Exposure(after)))
          \in {ReserveOf(after, bias), MaxPayout(Exposure(after))}
    BY <2>4, RequiredBounds
  <2>6. balance \in Int
    BY <1>1 DEF TypeOK
  <2>7. QED
    BY <2>3, <2>4, <2>5, <2>6 DEF after
<1>6. QED
  BY <1>1, <1>2, <1>3, <1>4, <1>5 DEF QuotesHonoured

\* Deployment.
LEMMA PoolInvInit == PoolInit => PoolInv
<1> SUFFICES ASSUME PoolInit PROVE PoolInv
  OBVIOUS
<1>1. IInv /\ LInv
  BY InitIInv, InitLInv DEF PoolInit, FundedInit
<1>2. Idle
  BY DEF PoolInit, FundedInit, Idle
<1>3. QED
  BY <1>1, <1>2 DEF PoolInit, PoolInv

\* Every step of the pool that was deployed.
LEMMA PoolInvStep == PoolInv /\ [PoolNext]_<<pool, vars, fundedVars>> => PoolInv'
<1> SUFFICES ASSUME PoolInv, [PoolNext]_<<pool, vars, fundedVars>> PROVE PoolInv'
  OBVIOUS
<1>1. CASE pool = "pilot"
  <2>1. IInv /\ Idle /\ pool' = "pilot"
    BY <1>1 DEF PoolInv, PoolNext
  <2>2. [Next]_vars /\ UNCHANGED fundedVars
    BY <1>1 DEF PoolNext
  <2>3. IInv'
    BY <2>1, <2>2, PoolInductive
  <2>4. Idle'
    BY <2>1, <2>2 DEF Idle, fundedVars, policyVars
  <2>5. QED
    BY <2>1, <2>3, <2>4 DEF PoolInv
<1>2. CASE pool = "learning"
  <2>1. LInv /\ pool' = "learning"
    BY <1>2 DEF PoolInv, PoolNext
  <2>2. [FundedNext]_<<vars, fundedVars>>
    BY <1>2 DEF PoolNext
  <2>3. QED
    BY <2>1, <2>2, LearningInductive DEF PoolInv
<1>3. QED
  BY <1>1, <1>2 DEF PoolInv

\* The invariant of the pool that was deployed.
THEOREM PoolSafe == PoolSpec => []PoolInv
<1>1. QED
  BY PoolInvInit, PoolInvStep, PTL DEF PoolSpec

\* Of the two pools.  The tables are exactly the shares that exist, held or wrapped
\* (FactoredPositions.sol, PilotPool.sol:79-133).
THEOREM PoolTables == PoolSpec => []TablesMatchHoldings
<1>1. PoolInv => TablesMatchHoldings
  BY IInvCommon, LInvCommon DEF PoolInv, Common
<1>2. QED
  BY <1>1, PoolSafe, PTL

\* The pool owns what it requires from its funding to the last redemption, although
\* resolve does not check it (PilotPool.sol:45-67).
THEOREM PoolCovered == PoolSpec => []AlwaysCovered
<1>1. PoolInv => AlwaysCovered
  BY IInvCommon, LInvCommon DEF PoolInv, Common
<1>2. QED
  BY <1>1, PoolSafe, PTL

\* The reserve of the result is enough for every outstanding share, in any order
\* and split of the redemptions (PilotPool.sol:61-62, 92-94).
THEOREM PoolRedeemable == PoolSpec => []AllRedeemable
<1>1. PoolInv => AllRedeemable
  BY IInvCommon, LInvCommon DEF PoolInv, Common
<1>2. QED
  BY <1>1, PoolSafe, PTL

\* Receipts stay backed one to one by the escrowed position of their token
\* (PilotPool.sol:114-133).
THEOREM PoolReceipts == PoolSpec => []ReceiptsBacked
<1>1. PoolInv => ReceiptsBacked
  BY IInvCommon, LInvCommon DEF PoolInv, Common
<1>2. QED
  BY <1>1, PoolSafe, PTL

\* The updater pays at most the limit in any epoch, and an update that can be applied
\* meets the book and the bias it was computed from (FundedFactoredPool.sol:95-115).
THEOREM PoolUpdates == PoolSpec => []UpdatesBounded
<1>1. PoolInv => UpdatesBounded
  BY IInvCommon, LInvCommon DEF PoolInv, Common
<1>2. QED
  BY <1>1, PoolSafe, PTL

\* No trade the learning pool's engine quotes is refused for lack of cover, whatever
\* the updater did before (FundedFactoredPool.sol:75-79).
THEOREM PoolQuotes == PoolSpec => []LearningQuotesHonoured
<1>1. PoolInv => LearningQuotesHonoured
  BY LInvQuotes DEF PoolInv, LearningQuotesHonoured
<1>2. QED
  BY <1>1, PoolSafe, PTL

\* While the pilot pool trades, its collateral is at least the upper bound of the
\* cost of its book (FactoredFunding.sol:39-41, QuoteMath.sol:41-64).
THEOREM PilotPricing == Spec => []PricingCovers
<1>1. IInv => PricingCovers
  BY DEF IInv
<1>2. QED
  BY <1>1, PoolInvariant, PTL

\* No holder's redemption is ever refused, in either pool (PilotPool.sol:79-99).
THEOREM RedemptionsHonoured == PoolSpec => []RedeemHonoured
<1>1. PoolInv => RedeemHonoured
  BY IInvCommon, LInvCommon, RedeemPays DEF PoolInv, IInv, LInv, Common
<1>2. QED
  BY <1>1, PoolSafe, PTL
=============================================================================
