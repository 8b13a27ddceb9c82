------------------------------ MODULE SumProofs ------------------------------
(***************************************************************************)
(* What sums, maxima and minima over finite sets are.  The library defines a *)
(* sum by CHOOSE of a recursive function, and its induction theorems take an *)
(* operator; so the facts are proved here from the existence of minimal      *)
(* elements among the finite subsets of a set (a smallest counterexample),   *)
(* which needs no induction principle.                                       *)
(***************************************************************************)
EXTENDS Sums, FiniteSetTheorems, TLAPS

\* A nonempty family of subsets of a finite set has a minimal member.
LEMMA MinimalSubset ==
  ASSUME NEW S, IsFiniteSet(S), NEW B \in SUBSET SUBSET S, B # {}
  PROVE  \E T \in B : \A U \in B : U \subseteq T => U = T
<1>1. B \subseteq FiniteSubsetsOf(S)
  BY FS_FiniteSubsetsOfFinite
<1>2. PICK T \in B : \A U \in B : <<U, T>> \notin StrictSubsetOrdering(S)
  BY <1>1, FS_StrictSubsetOrderingWellFounded, WFMin
<1>3. QED
  BY <1>2 DEF StrictSubsetOrdering

\* Induction over the subsets of a finite set, as a fact about a family of them.
LEMMA SetInduction ==
  ASSUME NEW S, IsFiniteSet(S), NEW G \in SUBSET SUBSET S, {} \in G,
         \A T \in G : \A x \in S \ T : T \cup {x} \in G
  PROVE  S \in G
<1> SUFFICES ASSUME S \notin G PROVE FALSE
  OBVIOUS
<1> DEFINE B == (SUBSET S) \ G
<1>1. B \in SUBSET SUBSET S /\ B # {}
  OBVIOUS
<1> HIDE DEF B
<1>2. PICK T \in B : \A U \in B : U \subseteq T => U = T
  BY <1>1, MinimalSubset
<1>3. T \subseteq S /\ T \notin G
  BY <1>2 DEF B
<1>4. PICK x \in T : TRUE
  BY <1>3
<1>5. T \ {x} \in G
  BY <1>2, <1>3, <1>4 DEF B
<1>6. (T \ {x}) \cup {x} = T /\ x \in S \ (T \ {x})
  BY <1>3, <1>4
<1>7. QED
  BY <1>3, <1>5, <1>6

\* The recursive definition behind a sum, written with plain functions.
Pick(s) == CHOOSE x \in s : TRUE
Step(f, g, s) == IF s = {} THEN 0 ELSE f[Pick(s)] + g[s \ {Pick(s)}]
Adds(f, g, S) == g = [s \in SUBSET S |-> Step(f, g, s)]

\* A sum is the value of a chosen function that adds up.
LEMMA SumIsChosen ==
  ASSUME NEW f, NEW S
  PROVE  Sum(f, S) = (CHOOSE g : Adds(f, g, S))[S]
BY DEF Sum, MapThenSumSet, MapThenFoldSet, Adds, Step, Pick

\* What such a function is at one subset.
LEMMA AddsAt ==
  ASSUME NEW f, NEW g, NEW S, Adds(f, g, S), NEW s \in SUBSET S
  PROVE  g[s] = IF s = {} THEN 0 ELSE f[Pick(s)] + g[s \ {Pick(s)}]
BY DEF Adds, Step

\* Two functions that add up agree where both are defined.
LEMMA AddsAgree ==
  ASSUME NEW f, NEW S, IsFiniteSet(S), NEW T \in SUBSET S,
         NEW g, NEW h, Adds(f, g, S), Adds(f, h, T)
  PROVE  \A s \in SUBSET T : g[s] = h[s]
<1> DEFINE B == {s \in SUBSET T : g[s] # h[s]}
<1>1. SUFFICES ASSUME B # {} PROVE FALSE
  OBVIOUS
<1>2. IsFiniteSet(T) /\ B \in SUBSET SUBSET T
  BY FS_Subset
<1> HIDE DEF B
<1>3. PICK s \in B : \A z \in B : z \subseteq s => z = s
  BY <1>1, <1>2, MinimalSubset
<1>4. s \in SUBSET T /\ s \in SUBSET S /\ g[s] # h[s]
  BY <1>3 DEF B
<1>5. /\ g[s] = IF s = {} THEN 0 ELSE f[Pick(s)] + g[s \ {Pick(s)}]
      /\ h[s] = IF s = {} THEN 0 ELSE f[Pick(s)] + h[s \ {Pick(s)}]
  BY <1>4, AddsAt
<1>6. s # {} /\ Pick(s) \in s
  BY <1>4, <1>5 DEF Pick
<1>7. g[s \ {Pick(s)}] = h[s \ {Pick(s)}]
  BY <1>3, <1>4, <1>6 DEF B
<1>8. QED
  BY <1>4, <1>5, <1>6, <1>7

\* There is a function that adds up.
LEMMA AddsExists ==
  ASSUME NEW f, NEW S, IsFiniteSet(S)
  PROVE  \E g : Adds(f, g, S)
<1> DEFINE G == {T \in SUBSET S : \E g : Adds(f, g, T)}
           B == (SUBSET S) \ G
<1>1. SUFFICES ASSUME B # {} PROVE FALSE
  BY S \in SUBSET S
<1>2. B \in SUBSET SUBSET S
  OBVIOUS
<1> HIDE DEF B
<1>3. PICK T \in B : \A z \in B : z \subseteq T => z = T
  BY <1>1, <1>2, MinimalSubset
<1>4. T \in SUBSET S /\ ~\E g : Adds(f, g, T)
  BY <1>3 DEF B
<1> DEFINE g(s) == CHOOSE k : Adds(f, k, s)
<1>5. ASSUME NEW s \in SUBSET T, s # T PROVE Adds(f, g(s), s)
  <2>1. \E k : Adds(f, k, s)
    BY <1>3, <1>4, <1>5 DEF B
  <2>2. QED
    BY <2>1
<1> DEFINE h0 == [s \in SUBSET T |-> g(s)[s]]
           h == [s \in SUBSET T |-> IF s = T THEN Step(f, h0, T) ELSE g(s)[s]]
<1> HIDE DEF g
<1>6. ASSUME NEW s \in SUBSET T PROVE h[s] = Step(f, h, s)
  <2>1. CASE s = {}
    <3>1. Step(f, h, s) = 0 /\ Step(f, h0, s) = 0
      BY <2>1 DEF Step
    <3>2. s # T => g(s)[s] = 0
      BY <1>5, <2>1, AddsAt, s \in SUBSET s
    <3>3. QED
      BY <3>1, <3>2
  <2>2. CASE s # {}
    <3> DEFINE r == s \ {Pick(s)}
    <3>1. Pick(s) \in s /\ r \in SUBSET T /\ r # T /\ r # s /\ r \in SUBSET s
      BY <2>2 DEF Pick
    <3>2. Step(f, h, s) = f[Pick(s)] + g(r)[r]
      BY <3>1, <2>2 DEF Step
    <3>3. CASE s = T
      <4>1. h[s] = f[Pick(s)] + g(r)[r]
        BY <3>1, <3>3, <2>2 DEF Step
      <4>2. QED
        BY <3>2, <4>1
    <3>4. CASE s # T
      <4>1. Adds(f, g(s), s) /\ Adds(f, g(r), r) /\ IsFiniteSet(s)
        BY <1>4, <1>5, <3>1, <3>4, FS_Subset
      <4>2. g(s)[r] = g(r)[r]
        BY <4>1, <3>1, AddsAgree
      <4>3. g(s)[s] = f[Pick(s)] + g(s)[r]
        BY <4>1, <2>2, AddsAt
      <4>4. h[s] = g(s)[s]
        BY <3>4
      <4>5. QED
        BY <4>2, <4>3, <4>4, <3>2
    <3>5. QED
      BY <3>3, <3>4
  <2>3. QED
    BY <2>1, <2>2
<1>7. h = [s \in SUBSET T |-> Step(f, h, s)]
  <2> DEFINE k == [s \in SUBSET T |-> Step(f, h, s)]
  <2>1. \A s \in SUBSET T : h[s] = k[s]
    BY <1>6
  <2>2. QED
    BY <2>1
<1>8. Adds(f, h, T)
  BY <1>7 DEF Adds
<1>9. QED
  BY <1>4, <1>8

\* The sum over no elements.
LEMMA SumEmpty ==
  ASSUME NEW f
  PROVE  Sum(f, {}) = 0
<1>1. PICK g : Adds(f, g, {})
  BY AddsExists, FS_EmptySet
<1>2. Adds(f, CHOOSE k : Adds(f, k, {}), {})
  BY <1>1
<1>3. QED
  BY <1>2, AddsAt, SumIsChosen

\* A sum is one summand and the sum of the rest, for the element the library takes.
LEMMA SumPick ==
  ASSUME NEW f, NEW S, IsFiniteSet(S), S # {}
  PROVE  Pick(S) \in S /\ Sum(f, S) = f[Pick(S)] + Sum(f, S \ {Pick(S)})
<1> DEFINE R == S \ {Pick(S)}
           g == CHOOSE k : Adds(f, k, S)
           h == CHOOSE k : Adds(f, k, R)
<1>1. Pick(S) \in S /\ IsFiniteSet(R) /\ R \in SUBSET S /\ R \in SUBSET R
  BY FS_Subset DEF Pick
<1>2. (\E k : Adds(f, k, S)) /\ (\E k : Adds(f, k, R))
  BY <1>1, AddsExists
<1>3. Adds(f, g, S) /\ Adds(f, h, R)
  BY <1>2
<1>4. Sum(f, S) = g[S] /\ Sum(f, R) = h[R]
  BY SumIsChosen
<1> HIDE DEF g, h, R
<1>5. g[R] = h[R]
  BY <1>1, <1>3, AddsAgree
<1>6. g[S] = f[Pick(S)] + g[R]
  BY <1>3, AddsAt, S \in SUBSET S DEF R
<1>7. QED
  BY <1>1, <1>4, <1>5, <1>6 DEF R

\* A sum of integers is an integer.
LEMMA SumInt ==
  ASSUME NEW S, IsFiniteSet(S), NEW f, \A x \in S : f[x] \in Int
  PROVE  Sum(f, S) \in Int
<1> DEFINE B == {T \in SUBSET S : Sum(f, T) \notin Int}
<1>1. SUFFICES ASSUME B # {} PROVE FALSE
  BY S \in SUBSET S
<1>2. B \in SUBSET SUBSET S
  OBVIOUS
<1> HIDE DEF B
<1>3. PICK T \in B : \A z \in B : z \subseteq T => z = T
  BY <1>1, <1>2, MinimalSubset
<1>4. T \in SUBSET S /\ Sum(f, T) \notin Int /\ IsFiniteSet(T)
  BY <1>3, FS_Subset DEF B
<1>5. T # {}
  BY <1>4, SumEmpty
<1>6. Pick(T) \in T /\ Sum(f, T) = f[Pick(T)] + Sum(f, T \ {Pick(T)})
  BY <1>4, <1>5, SumPick
<1>7. Sum(f, T \ {Pick(T)}) \in Int
  BY <1>3, <1>4, <1>6 DEF B
<1>8. QED
  BY <1>4, <1>6, <1>7

\* A sum is one summand and the sum of the rest, for every element.
LEMMA SumTake ==
  ASSUME NEW S, IsFiniteSet(S), NEW f, \A x \in S : f[x] \in Int, NEW x \in S
  PROVE  Sum(f, S) = f[x] + Sum(f, S \ {x})
<1> DEFINE B == {T \in SUBSET S : \E y \in T : Sum(f, T) # f[y] + Sum(f, T \ {y})}
<1>1. SUFFICES ASSUME B # {} PROVE FALSE
  BY S \in SUBSET S
<1>2. B \in SUBSET SUBSET S
  OBVIOUS
<1> HIDE DEF B
<1>3. PICK T \in B : \A z \in B : z \subseteq T => z = T
  BY <1>1, <1>2, MinimalSubset
<1>4. T \in SUBSET S /\ IsFiniteSet(T)
  BY <1>3, FS_Subset DEF B
<1>5. PICK y \in T : Sum(f, T) # f[y] + Sum(f, T \ {y})
  BY <1>3 DEF B
<1> DEFINE p == Pick(T)
<1>6. p \in T /\ Sum(f, T) = f[p] + Sum(f, T \ {p})
  BY <1>4, <1>5, SumPick
<1> HIDE DEF p
<1>7. p # y
  BY <1>5, <1>6
<1>8. \A r \in SUBSET T : r # T => \A z \in r : Sum(f, r) = f[z] + Sum(f, r \ {z})
  BY <1>3, <1>4 DEF B
<1> DEFINE R == (T \ {p}) \ {y}
<1>9. (T \ {y}) \ {p} = R
  OBVIOUS
<1>10. IsFiniteSet(R) /\ R \subseteq S
  BY <1>4, FS_Subset
<1>11. /\ Sum(f, T \ {p}) = f[y] + Sum(f, R)
       /\ Sum(f, T \ {y}) = f[p] + Sum(f, R)
  BY <1>5, <1>6, <1>7, <1>8, <1>9
<1> HIDE DEF R
<1>12. Sum(f, R) \in Int /\ f[p] \in Int /\ f[y] \in Int
  BY <1>4, <1>5, <1>6, <1>10, SumInt
<1>13. f[p] + (f[y] + Sum(f, R)) = f[y] + (f[p] + Sum(f, R))
  BY <1>12
<1>14. QED
  BY <1>5, <1>6, <1>11, <1>13

\* The sum over one more element.
LEMMA SumAdd ==
  ASSUME NEW S, IsFiniteSet(S), NEW f, NEW x, x \notin S,
         f[x] \in Int, \A y \in S : f[y] \in Int
  PROVE  IsFiniteSet(S \cup {x}) /\ Sum(f, S \cup {x}) = f[x] + Sum(f, S)
<1>1. IsFiniteSet(S \cup {x}) /\ (S \cup {x}) \ {x} = S
  BY FS_AddElement
<1>2. QED
  BY <1>1, SumTake, \A y \in S \cup {x} : f[y] \in Int

\* Induction over a finite set, one element at a time.
LEMMA SumInduction ==
  ASSUME NEW S, IsFiniteSet(S), NEW G, {} \in G,
         \A T \in SUBSET S : \A x \in S \ T :
            IsFiniteSet(T) /\ T \in G => T \cup {x} \in G
  PROVE  S \in G
<1> DEFINE H == {T \in SUBSET S : T \in G}
<1>1. \A T \in H : \A x \in S \ T : T \cup {x} \in H
  BY FS_Subset
<1>2. H \in SUBSET SUBSET S /\ {} \in H
  OBVIOUS
<1> HIDE DEF H
<1>3. S \in H
  BY <1>1, <1>2, SetInduction
<1>4. QED
  BY <1>3 DEF H

\* A sum of naturals is a natural.
LEMMA SumNat ==
  ASSUME NEW S, IsFiniteSet(S), NEW f, \A x \in S : f[x] \in Nat
  PROVE  Sum(f, S) \in Nat
<1> DEFINE G == {T \in SUBSET S : Sum(f, T) \in Nat}
<1>1. {} \in G
  BY SumEmpty
<1>2. ASSUME NEW T \in SUBSET S, NEW x \in S \ T, IsFiniteSet(T), T \in G
      PROVE  T \cup {x} \in G
  <2>1. Sum(f, T \cup {x}) = f[x] + Sum(f, T)
    BY <1>2, SumAdd, \A y \in S : f[y] \in Int
  <2>2. f[x] \in Nat /\ Sum(f, T) \in Nat /\ T \cup {x} \in SUBSET S
    BY <1>2
  <2>3. QED
    BY <2>1, <2>2
<1> HIDE DEF G
<1>3. S \in G
  BY <1>1, <1>2, SumInduction
<1>4. QED
  BY <1>3 DEF G

\* A sum of smaller summands is smaller.
LEMMA SumAtMost ==
  ASSUME NEW S, IsFiniteSet(S), NEW f, NEW g,
         \A x \in S : f[x] \in Int /\ g[x] \in Int /\ f[x] <= g[x]
  PROVE  Sum(f, S) <= Sum(g, S)
<1> DEFINE G == {T \in SUBSET S : Sum(f, T) <= Sum(g, T)}
<1>1. {} \in G
  BY SumEmpty
<1>2. ASSUME NEW T \in SUBSET S, NEW x \in S \ T, IsFiniteSet(T), T \in G
      PROVE  T \cup {x} \in G
  <2>1. Sum(f, T \cup {x}) = f[x] + Sum(f, T)
    BY <1>2, SumAdd
  <2>2. Sum(g, T \cup {x}) = g[x] + Sum(g, T)
    BY <1>2, SumAdd
  <2>3. Sum(f, T) \in Int /\ Sum(g, T) \in Int
    BY <1>2, SumInt
  <2>4. f[x] \in Int /\ g[x] \in Int /\ f[x] <= g[x] /\ T \cup {x} \in SUBSET S
    BY <1>2
  <2>5. QED
    BY <1>2, <2>1, <2>2, <2>3, <2>4
<1> HIDE DEF G
<1>3. S \in G
  BY <1>1, <1>2, SumInduction
<1>4. QED
  BY <1>3 DEF G

\* A sum depends on its summands alone.
LEMMA SumSame ==
  ASSUME NEW S, IsFiniteSet(S), NEW f, NEW g, \A x \in S : f[x] = g[x]
  PROVE  Sum(f, S) = Sum(g, S)
<1> DEFINE B == {T \in SUBSET S : Sum(f, T) # Sum(g, T)}
<1>1. SUFFICES ASSUME B # {} PROVE FALSE
  BY S \in SUBSET S
<1>2. B \in SUBSET SUBSET S
  OBVIOUS
<1> HIDE DEF B
<1>3. PICK T \in B : \A z \in B : z \subseteq T => z = T
  BY <1>1, <1>2, MinimalSubset
<1>4. T \in SUBSET S /\ Sum(f, T) # Sum(g, T) /\ IsFiniteSet(T)
  BY <1>3, FS_Subset DEF B
<1>5. T # {}
  BY <1>4, SumEmpty
<1>6. /\ Pick(T) \in T
      /\ Sum(f, T) = f[Pick(T)] + Sum(f, T \ {Pick(T)})
      /\ Sum(g, T) = g[Pick(T)] + Sum(g, T \ {Pick(T)})
  BY <1>4, <1>5, SumPick
<1>7. Sum(f, T \ {Pick(T)}) = Sum(g, T \ {Pick(T)})
  BY <1>3, <1>4, <1>6 DEF B
<1>8. QED
  BY <1>4, <1>6, <1>7

\* On S the function h is the sum of f and g.
AddUp(h, f, g, S) ==
  \A x \in S : f[x] \in Int /\ g[x] \in Int /\ h[x] = f[x] + g[x]

\* The sum of sums.
LEMMA SumPlus ==
  ASSUME NEW S, IsFiniteSet(S), NEW f, NEW g, NEW h, AddUp(h, f, g, S)
  PROVE  Sum(h, S) = Sum(f, S) + Sum(g, S)
<1> USE DEF AddUp
<1> DEFINE G == {T \in SUBSET S : Sum(h, T) = Sum(f, T) + Sum(g, T)}
<1>1. {} \in G
  BY SumEmpty
<1>2. ASSUME NEW T \in SUBSET S, NEW x \in S \ T, IsFiniteSet(T), T \in G
      PROVE  T \cup {x} \in G
  <2>1. Sum(f, T \cup {x}) = f[x] + Sum(f, T) /\ Sum(g, T \cup {x}) = g[x] + Sum(g, T)
    BY <1>2, SumAdd
  <2>2. Sum(h, T \cup {x}) = h[x] + Sum(h, T)
    BY <1>2, SumAdd, \A y \in S : h[y] \in Int
  <2>3. Sum(f, T) \in Int /\ Sum(g, T) \in Int
    BY <1>2, SumInt
  <2>4. f[x] \in Int /\ g[x] \in Int /\ h[x] = f[x] + g[x] /\ T \cup {x} \in SUBSET S
    BY <1>2
  <2>5. QED
    BY <1>2, <2>1, <2>2, <2>3, <2>4
<1> HIDE DEF G
<1>3. S \in G
  BY <1>1, <1>2, SumInduction
<1>4. QED
  BY <1>3 DEF G

\* A common factor.
LEMMA SumTimes ==
  ASSUME NEW S, IsFiniteSet(S), NEW k \in Int, NEW f, NEW h,
         \A x \in S : f[x] \in Int /\ h[x] = k * f[x]
  PROVE  Sum(h, S) = k * Sum(f, S)
<1> DEFINE G == {T \in SUBSET S : Sum(h, T) = k * Sum(f, T)}
<1>1. {} \in G
  BY SumEmpty
<1>2. ASSUME NEW T \in SUBSET S, NEW x \in S \ T, IsFiniteSet(T), T \in G
      PROVE  T \cup {x} \in G
  <2>1. Sum(f, T \cup {x}) = f[x] + Sum(f, T)
    BY <1>2, SumAdd
  <2>2. Sum(h, T \cup {x}) = h[x] + Sum(h, T)
    BY <1>2, SumAdd, \A y \in S : h[y] \in Int
  <2>3. Sum(f, T) \in Int
    BY <1>2, SumInt
  <2>4. f[x] \in Int /\ h[x] = k * f[x] /\ T \cup {x} \in SUBSET S
    BY <1>2
  <2>5. k * (f[x] + Sum(f, T)) = k * f[x] + k * Sum(f, T)
    BY <2>3, <2>4
  <2>6. QED
    BY <1>2, <2>1, <2>2, <2>3, <2>4, <2>5
<1> HIDE DEF G
<1>3. S \in G
  BY <1>1, <1>2, SumInduction
<1>4. QED
  BY <1>3 DEF G

\* One summand changes: the sum changes by as much.
LEMMA SumChange ==
  ASSUME NEW S, IsFiniteSet(S), NEW f, NEW g, NEW x \in S,
         \A y \in S : f[y] \in Int /\ g[y] \in Int,
         \A y \in S \ {x} : g[y] = f[y]
  PROVE  Sum(g, S) = Sum(f, S) + (g[x] - f[x])
<1>1. IsFiniteSet(S \ {x})
  BY FS_Subset
<1>2. Sum(f, S \ {x}) = Sum(g, S \ {x})
  BY <1>1, SumSame
<1>3. Sum(f, S \ {x}) \in Int
  BY <1>1, SumInt
<1>4. Sum(f, S) = f[x] + Sum(f, S \ {x})
  BY SumTake
<1>5. Sum(g, S) = g[x] + Sum(g, S \ {x})
  BY SumTake
<1>6. QED
  BY <1>2, <1>3, <1>4, <1>5

\* A sum of zeros.
LEMMA SumZero ==
  ASSUME NEW S, IsFiniteSet(S), NEW f, \A x \in S : f[x] = 0
  PROVE  Sum(f, S) = 0
<1>1. \A x \in S : f[x] \in Int /\ f[x] = 0 * f[x]
  OBVIOUS
<1>2. Sum(f, S) = 0 * Sum(f, S)
  BY <1>1, SumTimes
<1>3. Sum(f, S) \in Int
  BY <1>1, SumInt
<1>4. QED
  BY <1>2, <1>3

\* A sum with one summand that is not zero.
LEMMA SumSingle ==
  ASSUME NEW S, IsFiniteSet(S), NEW f, NEW x \in S, f[x] \in Int, \A y \in S \ {x} : f[y] = 0
  PROVE  Sum(f, S) = f[x]
<1>1. \A y \in S : f[y] \in Int
  OBVIOUS
<1>2. Sum(f, S) = f[x] + Sum(f, S \ {x})
  BY <1>1, SumTake
<1>3. IsFiniteSet(S \ {x})
  BY FS_Subset
<1>4. Sum(f, S \ {x}) = 0
  BY <1>3, SumZero
<1>5. QED
  BY <1>2, <1>4

\* A sum over a subset is a sum over the set with zeros outside it.
LEMMA SumRestrict ==
  ASSUME NEW S, IsFiniteSet(S), NEW R \in SUBSET S, NEW f, NEW g,
         \A x \in S : f[x] \in Int /\ g[x] = IF x \in R THEN f[x] ELSE 0
  PROVE  Sum(f, R) = Sum(g, S)
<1> DEFINE G == {T \in SUBSET S : Sum(f, T \cap R) = Sum(g, T)}
<1>1. {} \in G
  BY SumEmpty, {} \cap R = {}
<1>2. ASSUME NEW T \in SUBSET S, NEW x \in S \ T, IsFiniteSet(T), T \in G
      PROVE  T \cup {x} \in G
  <2>1. Sum(g, T \cup {x}) = g[x] + Sum(g, T)
    BY <1>2, SumAdd, \A y \in S : g[y] \in Int
  <2>2. Sum(g, T) \in Int
    BY <1>2, SumInt, \A y \in S : g[y] \in Int
  <2>3. CASE x \in R
    <3>1. (T \cup {x}) \cap R = (T \cap R) \cup {x} /\ IsFiniteSet(T \cap R) /\ x \notin T \cap R
      BY <2>3, <1>2, FS_Subset
    <3>2. Sum(f, (T \cap R) \cup {x}) = f[x] + Sum(f, T \cap R)
      BY <3>1, SumAdd
    <3>3. QED
      BY <1>2, <2>1, <2>3, <3>1, <3>2
  <2>4. CASE x \notin R
    <3>1. (T \cup {x}) \cap R = T \cap R
      BY <2>4
    <3>2. QED
      BY <1>2, <2>1, <2>2, <2>4, <3>1
  <2>5. QED
    BY <2>3, <2>4
<1> HIDE DEF G
<1>3. S \in G
  BY <1>1, <1>2, SumInduction
<1>4. S \cap R = R
  OBVIOUS
<1>5. QED
  BY <1>3, <1>4 DEF G

\* Counting is adding ones.
LEMMA SumCount ==
  ASSUME NEW S, IsFiniteSet(S), NEW R \in SUBSET S, NEW f,
         \A x \in S : f[x] = IF x \in R THEN 1 ELSE 0
  PROVE  Sum(f, S) = Cardinality(R)
<1> DEFINE G == {T \in SUBSET S : Sum(f, T) = Cardinality(T \cap R)}
<1>1. {} \in G
  BY SumEmpty, {} \cap R = {}, FS_EmptySet
<1>2. ASSUME NEW T \in SUBSET S, NEW x \in S \ T, IsFiniteSet(T), T \in G
      PROVE  T \cup {x} \in G
  <2>1. Sum(f, T \cup {x}) = f[x] + Sum(f, T)
    BY <1>2, SumAdd, \A y \in S : f[y] \in Int
  <2>2. IsFiniteSet(T \cap R) /\ Cardinality(T \cap R) \in Nat /\ x \notin T \cap R
    BY <1>2, FS_Subset, FS_CardinalityType
  <2>3. CASE x \in R
    <3>1. (T \cup {x}) \cap R = (T \cap R) \cup {x}
      BY <2>3
    <3>2. Cardinality((T \cap R) \cup {x}) = Cardinality(T \cap R) + 1
      BY <2>2, FS_AddElement
    <3>3. f[x] = 1 /\ Sum(f, T) = Cardinality(T \cap R) /\ T \cup {x} \in SUBSET S
      BY <1>2, <2>3
    <3>4. Sum(f, T \cup {x}) = Cardinality((T \cup {x}) \cap R)
      BY <2>1, <2>2, <3>1, <3>2, <3>3
    <3>5. QED
      BY <3>3, <3>4
  <2>4. CASE x \notin R
    <3>1. (T \cup {x}) \cap R = T \cap R
      BY <2>4
    <3>2. QED
      BY <1>2, <2>1, <2>2, <2>4, <3>1
  <2>5. QED
    BY <2>3, <2>4
<1> HIDE DEF G
<1>3. S \in G
  BY <1>1, <1>2, SumInduction
<1>4. S \cap R = R
  OBVIOUS
<1>5. QED
  BY <1>3, <1>4 DEF G

\* The entries of m, transposed in w, have the sums rows over T and cols over S.
RowsAndColumns(S, T, m, w, rows, cols) ==
  /\ \A x \in S : \A y \in T : m[x][y] \in Int /\ w[y][x] = m[x][y]
  /\ \A x \in S : rows[x] = Sum(m[x], T)
  /\ \A y \in T : cols[y] = Sum(w[y], S)

\* A matrix has one total, by rows and by columns.
LEMMA SumExchange ==
  ASSUME NEW S, IsFiniteSet(S), NEW T, IsFiniteSet(T), NEW m, NEW w, NEW rows, NEW cols,
         RowsAndColumns(S, T, m, w, rows, cols)
  PROVE  Sum(rows, S) = Sum(cols, T)
<1>0. /\ \A x \in S : \A y \in T : m[x][y] \in Int /\ w[y][x] = m[x][y]
      /\ \A x \in S : rows[x] = Sum(m[x], T)
      /\ \A y \in T : cols[y] = Sum(w[y], S)
  BY DEF RowsAndColumns
<1> DEFINE C(R) == [y \in T |-> Sum(w[y], R)]
           G == {R \in SUBSET S : Sum(rows, R) = Sum(C(R), T)}
<1>1. {} \in G
  <2>1. \A y \in T : C({})[y] = 0
    BY SumEmpty
  <2>2. Sum(C({}), T) = 0
    BY <2>1, SumZero
  <2>3. QED
    BY <2>2, SumEmpty
<1>2. ASSUME NEW R \in SUBSET S, NEW x \in S \ R, IsFiniteSet(R), R \in G
      PROVE  R \cup {x} \in G
  <2>1. ASSUME NEW y \in T
        PROVE  /\ m[x][y] \in Int /\ C(R)[y] \in Int
               /\ C(R \cup {x})[y] = m[x][y] + C(R)[y]
    <3>1. \A z \in S : w[y][z] \in Int /\ w[y][x] = m[x][y]
      BY <1>0
    <3>2. Sum(w[y], R \cup {x}) = w[y][x] + Sum(w[y], R)
      BY <1>2, <3>1, SumAdd
    <3>3. Sum(w[y], R) \in Int
      BY <1>2, <3>1, SumInt
    <3>4. QED
      BY <3>1, <3>2, <3>3
  <2>2. Sum(C(R \cup {x}), T) = Sum(m[x], T) + Sum(C(R), T)
    <3> DEFINE f == m[x]  g == C(R)  h == C(R \cup {x})
    <3>1. AddUp(h, f, g, T)
      BY <2>1 DEF AddUp
    <3> HIDE DEF f, g, h
    <3>2. Sum(h, T) = Sum(f, T) + Sum(g, T)
      BY <3>1, SumPlus
    <3>3. QED
      BY <3>2 DEF f, g, h
  <2>3. \A z \in S : rows[z] \in Int
    BY <1>0, SumInt
  <2>4. Sum(rows, R \cup {x}) = rows[x] + Sum(rows, R)
    BY <1>2, <2>3, SumAdd
  <2>5. Sum(rows, R) = Sum(C(R), T) /\ R \cup {x} \in SUBSET S /\ rows[x] = Sum(m[x], T)
    BY <1>0, <1>2
  <2>6. Sum(rows, R \cup {x}) = Sum(C(R \cup {x}), T)
    BY <2>2, <2>4, <2>5
  <2>7. QED
    BY <2>5, <2>6
<1>3. Sum(rows, S) = Sum(C(S), T)
  <2> HIDE DEF G
  <2>1. S \in G
    BY <1>1, <1>2, SumInduction
  <2>2. QED
    BY <2>1 DEF G
<1>4. Sum(C(S), T) = Sum(cols, T)
  BY <1>0, SumSame
<1>5. QED
  BY <1>3, <1>4

\* A nonempty finite set of integers has its maximum, which is in it.
LEMMA MaxOfFinite ==
  ASSUME NEW S \in SUBSET Int, IsFiniteSet(S), S # {}
  PROVE  Max(S) \in S /\ \A y \in S : y <= Max(S)
<1> DEFINE G == {T \in SUBSET S : T = {} \/ \E x \in T : \A y \in T : x >= y}
<1>1. {} \in G
  OBVIOUS
<1>2. ASSUME NEW T \in SUBSET S, NEW x \in S \ T, IsFiniteSet(T), T \in G
      PROVE  T \cup {x} \in G
  <2>1. \E z \in T \cup {x} : \A y \in T \cup {x} : z >= y
    <3>1. CASE T = {}
      BY <3>1
    <3>2. CASE T # {}
      <4>1. PICK z \in T : \A y \in T : z >= y
        BY <1>2, <3>2
      <4>2. QED
        BY <4>1
    <3>3. QED
      BY <3>1, <3>2
  <2>2. QED
    BY <2>1
<1> HIDE DEF G
<1>3. S \in G
  BY <1>1, <1>2, SumInduction
<1>4. \E x \in S : \A y \in S : x >= y
  BY <1>3 DEF G
<1>5. QED
  BY <1>4 DEF Max

\* The same of the minimum.
LEMMA MinOfFinite ==
  ASSUME NEW S \in SUBSET Int, IsFiniteSet(S), S # {}
  PROVE  Min(S) \in S /\ \A y \in S : Min(S) <= y
<1> DEFINE G == {T \in SUBSET S : T = {} \/ \E x \in T : \A y \in T : x <= y}
<1>1. {} \in G
  OBVIOUS
<1>2. ASSUME NEW T \in SUBSET S, NEW x \in S \ T, IsFiniteSet(T), T \in G
      PROVE  T \cup {x} \in G
  <2>1. \E z \in T \cup {x} : \A y \in T \cup {x} : z <= y
    <3>1. CASE T = {}
      BY <3>1
    <3>2. CASE T # {}
      <4>1. PICK z \in T : \A y \in T : z <= y
        BY <1>2, <3>2
      <4>2. QED
        BY <4>1
    <3>3. QED
      BY <3>1, <3>2
  <2>2. QED
    BY <2>1
<1> HIDE DEF G
<1>3. S \in G
  BY <1>1, <1>2, SumInduction
<1>4. \E x \in S : \A y \in S : x <= y
  BY <1>3 DEF G
<1>5. QED
  BY <1>4 DEF Min

\* The image of a finite set under a function is finite.
LEMMA ImageFinite ==
  ASSUME NEW S, IsFiniteSet(S), NEW f
  PROVE  IsFiniteSet({f[x] : x \in S})
<1> DEFINE G == {T \in SUBSET S : IsFiniteSet({f[x] : x \in T})}
<1>1. {} \in G
  <2>1. {f[x] : x \in {}} = {}
    OBVIOUS
  <2>2. QED
    BY <2>1, FS_EmptySet
<1>2. ASSUME NEW T \in SUBSET S, NEW x \in S \ T, IsFiniteSet(T), T \in G
      PROVE  T \cup {x} \in G
  <2>1. {f[y] : y \in T \cup {x}} = {f[y] : y \in T} \cup {f[x]}
    OBVIOUS
  <2>2. IsFiniteSet({f[y] : y \in T} \cup {f[x]})
    BY <1>2, FS_AddElement
  <2>3. QED
    BY <2>1, <2>2
<1> HIDE DEF G
<1>3. S \in G
  BY <1>1, <1>2, SumInduction
<1>4. QED
  BY <1>3 DEF G
=============================================================================
