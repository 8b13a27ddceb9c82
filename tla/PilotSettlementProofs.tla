------------------------ MODULE PilotSettlementProofs ------------------------
(***************************************************************************)
(* A pool and its resolver together, for any events, accounts, claims and    *)
(* windows and any panel.  The composition adds no behaviour to either: a    *)
(* behaviour of PilotSettlement is one of PilotResolver and one of PilotPool, *)
(* so what ResolutionProofs and PilotPoolProofs prove holds here too.        *)
(* What only the two together promise is proved below: claims pay what was   *)
(* ruled, and whoever holds what an event decides can defend it.             *)
(***************************************************************************)
EXTENDS PilotSettlement, SumProofs

-----------------------------------------------------------------------------
(* The components.                                                          *)

\* The events are finitely many (the pool's assumption and the resolver's).
LEMMA EventFinite == IsFiniteSet(Event)
<1>1. \A S : R!IsFiniteSet(S) <=> IsFiniteSet(S)
  BY DEF R!IsFiniteSet, IsFiniteSet
<1>2. QED
  BY <1>1, ResolverAssumption DEF R!EventAssumption

\* The actions of the two that a step of the composition takes.
LEMMA Together ==
  ASSUME Next
  PROVE  /\ R!Next \/ UNCHANGED R!vars
         /\ P!Next \/ UNCHANGED P!vars
<1>1. CASE Tick \/ Fund
  BY <1>1 DEF Tick, Fund, R!Next, P!Next
<1>2. CASE BindPool
  BY <1>2 DEF BindPool, poolOnly, R!Next, R!BindPool, R!poolVars,
              P!vars, P!outcomeVars, P!positionVars
<1>3. CASE Deliver
  <2>1. R!Results("Yes") \in P!State /\ R!Results("Void") \in P!State
    BY DEF R!Results, P!State
  <2>2. P!Next
    BY <1>3, <2>1 DEF Deliver, P!Next
  <2>3. QED
    BY <1>3, <2>2 DEF Deliver, R!Next
<1>4. CASE Trade
  <2>1. P!Next
    BY <1>4 DEF Trade, P!Next
  <2>2. UNCHANGED R!vars
    BY <1>4 DEF Trade, P!Buy, P!Sell, P!outcomeVars, resolverOnly,
                R!vars, R!caseVars, R!bondVars, R!poolVars
  <2>3. QED
    BY <2>1, <2>2
<1>5. CASE MoveShares
  <2>1. P!Next
    BY <1>5 DEF MoveShares, P!Next
  <2>2. UNCHANGED <<now, funded, P!outcomeVars>>
    <3>1. \A c : P!CreateBaseToken(c) => UNCHANGED <<now, funded, P!outcomeVars>>
      BY DEF P!CreateBaseToken
    <3>2. \A a, c, q : P!WrapBase(a, c, q) \/ P!UnwrapBase(a, c, q)
                        => UNCHANGED <<now, funded, P!outcomeVars>>
      BY DEF P!WrapBase, P!UnwrapBase
    <3>3. \A a, b, c, q : P!TransferReceipt(a, b, c, q)
                           => UNCHANGED <<now, funded, P!outcomeVars>>
      BY DEF P!TransferReceipt
    <3>4. QED
      BY <1>5, <3>1, <3>2, <3>3, Zenon DEF MoveShares
  <2>3. UNCHANGED resolverOnly
    BY <1>5 DEF MoveShares
  <2>4. UNCHANGED R!vars
    BY <2>2, <2>3 DEF P!outcomeVars, resolverOnly, R!vars, R!caseVars, R!bondVars, R!poolVars
  <2>5. QED
    BY <2>1, <2>4
<1>6. CASE Redeem
  <2>1. P!Next
    BY <1>6 DEF Redeem, P!Next
  <2>2. UNCHANGED R!vars
    BY <1>6 DEF Redeem, P!Redeem, resolverOnly, R!vars, R!caseVars, R!bondVars, R!poolVars
  <2>3. QED
    BY <2>1, <2>2
<1>7. ASSUME NEW e \in Event, Finalize(e)
      PROVE  R!Next /\ UNCHANGED P!vars
  BY <1>7 DEF Finalize, R!Next, R!Finalize, R!poolVars, poolOnly,
              P!vars, P!outcomeVars, P!positionVars
<1>8. ASSUME NEW e \in Event, NEW a \in Account, NEW o \in R!Outcome,
             AssertOutcome(e, a, o) \/ Dispute(e, a, o) \/ Vote(e, a, o)
      PROVE  R!Next /\ UNCHANGED P!vars
  BY <1>8 DEF AssertOutcome, Dispute, Vote, R!Next, R!AssertOutcome, R!Dispute, R!Vote,
              R!poolVars, poolOnly, P!vars, P!outcomeVars, P!positionVars
<1>9. ASSUME NEW a \in Account, WithdrawBond(a)
      PROVE  R!Next /\ UNCHANGED P!vars
  BY <1>9 DEF WithdrawBond, R!Next, R!WithdrawBond, R!poolVars, poolOnly,
              P!vars, P!outcomeVars, P!positionVars
<1>10. QED
  BY <1>1, <1>2, <1>3, <1>4, <1>5, <1>6, <1>7, <1>8, <1>9 DEF Next

\* A step that changes nothing changes nothing of either.
LEMMA BothStutter ==
  ASSUME UNCHANGED vars
  PROVE  UNCHANGED R!vars /\ UNCHANGED P!vars
BY DEF vars, resolverOnly, poolOnly, R!vars, R!caseVars, R!bondVars, R!poolVars,
       P!vars, P!outcomeVars, P!positionVars

\* The resolver of a pool behaves as PilotResolver says: restricting disputes to
\* attested holders (AccountPilotResolver.sol) and sharing clock, funding and
\* result with the pool adds no behaviour, so bonds, rulings and finality are as
\* proved of PilotResolver.
THEOREM SettlementIsResolver == Spec => R!Spec
<1>1. Init => R!Init
  BY DEF Init
<1>2. [Next]_vars => [R!Next]_(R!vars)
  BY Together, BothStutter
<1>3. QED
  BY <1>1, <1>2, PTL DEF Spec, R!Spec

\* The pool behaves as PilotPool says: the only result it is given is the one the
\* resolver delivers (deliver calls pool.resolve, PilotResolver.sol), so coverage,
\* tables and redemptions are as proved of PilotPool.
THEOREM SettlementIsPool == Spec => P!Spec
<1>1. Init => P!Init
  BY DEF Init
<1>2. [Next]_vars => [P!Next]_(P!vars)
  BY Together, BothStutter
<1>3. QED
  BY <1>1, <1>2, PTL DEF Spec, P!Spec

-----------------------------------------------------------------------------
(* What was ruled is what is paid.                                          *)

\* A case says what its phase says, and a delivered result is the results.
RuledInv ==
  /\ cases = [e \in Event |-> cases[e]]
  /\ \A e \in Event :
       /\ cases[e] = [f \in DOMAIN R!NewCase |-> cases[e][f]]
       /\ cases[e].phase \in {"Pending", "Asserted", "Disputed", "Finalized"}
       /\ cases[e].phase = "Asserted" => cases[e].proposal \in R!Outcome
       /\ cases[e].phase = "Finalized" => cases[e].result \in R!Outcome
  /\ resolved => /\ \A e \in Event : cases[e].phase = "Finalized"
                 /\ resolvedState = R!Results("Yes") /\ voidMask = R!Results("Void")

\* One case moves on.
MovesOn(e) ==
  \E c : /\ cases[e].phase # "Finalized"
         /\ cases' = [cases EXCEPT ![e] = c]
         /\ c = [f \in DOMAIN R!NewCase |-> c[f]]
         /\ c.phase \in {"Asserted", "Disputed", "Finalized"}
         /\ c.phase = "Asserted" => c.proposal \in R!Outcome
         /\ c.phase = "Finalized" => c.result \in R!Outcome

LEMMA RuledMoves ==
  ASSUME RuledInv, NEW e \in Event, MovesOn(e),
         UNCHANGED <<resolved, resolvedState, voidMask>>
  PROVE  RuledInv'
<1>1. ~resolved
  BY DEF RuledInv, MovesOn
<1>2. PICK c :
         /\ cases' = [cases EXCEPT ![e] = c]
         /\ c = [f \in DOMAIN R!NewCase |-> c[f]]
         /\ c.phase \in {"Asserted", "Disputed", "Finalized"}
         /\ c.phase = "Asserted" => c.proposal \in R!Outcome
         /\ c.phase = "Finalized" => c.result \in R!Outcome
  BY DEF MovesOn
<1>3. \A d \in Event : cases'[d] = IF d = e THEN c ELSE cases[d]
  BY <1>2 DEF RuledInv
<1>4. cases' = [d \in Event |-> cases'[d]]
  BY <1>2 DEF RuledInv
<1>5. ASSUME NEW d \in Event
      PROVE  /\ cases'[d] = [f \in DOMAIN R!NewCase |-> cases'[d][f]]
             /\ cases'[d].phase \in {"Pending", "Asserted", "Disputed", "Finalized"}
             /\ cases'[d].phase = "Asserted" => cases'[d].proposal \in R!Outcome
             /\ cases'[d].phase = "Finalized" => cases'[d].result \in R!Outcome
  BY <1>2, <1>3 DEF RuledInv
<1>6. QED
  BY <1>1, <1>4, <1>5 DEF RuledInv

\* finish ends a case with an outcome.
LEMMA FinishMoves ==
  ASSUME RuledInv, NEW e \in Event, NEW o \in R!Outcome, NEW t, R!Finish(e, o, t),
         cases[e].phase # "Finalized"
  PROVE  MovesOn(e)
<1> DEFINE c == [cases[e] EXCEPT !.phase = "Finalized", !.result = o]
<1>1. cases' = [cases EXCEPT ![e] = c]
  BY DEF R!Finish
<1>2. cases[e] = [f \in DOMAIN R!NewCase |-> cases[e][f]]
  BY DEF RuledInv
<1>3. /\ c = [f \in DOMAIN R!NewCase |-> c[f]]
      /\ c.phase = "Finalized" /\ c.result = o
  BY <1>2 DEF R!NewCase
<1> HIDE DEF c
<1>4. QED
  BY <1>1, <1>3 DEF MovesOn

LEMMA AssertMoves ==
  ASSUME RuledInv, NEW e \in Event, NEW a, NEW o \in R!Outcome, R!AssertOutcome(e, a, o)
  PROVE  MovesOn(e)
<1> DEFINE c == [cases[e] EXCEPT !.phase = "Asserted", !.proposal = o, !.asserter = a,
                                 !.challengeUntil = now + ChallengePeriod]
<1>1. cases' = [cases EXCEPT ![e] = c] /\ cases[e].phase = "Pending"
  BY DEF R!AssertOutcome
<1>2. cases[e] = [f \in DOMAIN R!NewCase |-> cases[e][f]]
  BY DEF RuledInv
<1>3. /\ c = [f \in DOMAIN R!NewCase |-> c[f]]
      /\ c.phase = "Asserted" /\ c.proposal = o
  BY <1>2 DEF R!NewCase
<1> HIDE DEF c
<1>4. QED
  BY <1>1, <1>3 DEF MovesOn

LEMMA DisputeMoves ==
  ASSUME RuledInv, NEW e \in Event, NEW a, NEW o \in R!Outcome, R!Dispute(e, a, o)
  PROVE  MovesOn(e)
<1> DEFINE c == [cases[e] EXCEPT !.phase = "Disputed", !.counter = o, !.disputer = a,
                                 !.voteUntil = now + VotingPeriod]
<1>1. cases' = [cases EXCEPT ![e] = c] /\ cases[e].phase = "Asserted"
  BY DEF R!Dispute, R!ChallengeOpen
<1>2. cases[e] = [f \in DOMAIN R!NewCase |-> cases[e][f]]
  BY DEF RuledInv
<1>3. /\ c = [f \in DOMAIN R!NewCase |-> c[f]]
      /\ c.phase = "Disputed"
  BY <1>2 DEF R!NewCase
<1> HIDE DEF c
<1>4. QED
  BY <1>1, <1>3 DEF MovesOn

LEMMA FinalizeMoves ==
  ASSUME RuledInv, NEW e \in Event, R!Finalize(e)
  PROVE  MovesOn(e)
<1>1. /\ "Void" \in R!Outcome
      /\ cases[e].phase = "Asserted" => cases[e].proposal \in R!Outcome
  BY DEF R!Outcome, RuledInv
<1>2. \/ cases[e].phase \in {"Pending", "Disputed"} /\ R!Finish(e, "Void", TRUE)
      \/ cases[e].phase = "Asserted" /\ R!Finish(e, cases[e].proposal, FALSE)
  BY DEF R!Finalize
<1>3. QED
  BY <1>1, <1>2, FinishMoves

\* A vote that reaches no quorum moves no case.
LEMMA VoteMoves ==
  ASSUME RuledInv, NEW e \in Event, NEW a, NEW o \in R!Outcome, R!Vote(e, a, o)
  PROVE  MovesOn(e) \/ UNCHANGED cases
<1>1. cases[e].phase = "Disputed"
  BY DEF R!Vote, R!VotingOpen
<1>2. R!Finish(e, o, FALSE) \/ UNCHANGED cases
  BY DEF R!Vote
<1>3. QED
  BY <1>1, <1>2, FinishMoves

LEMMA RuledSame ==
  ASSUME RuledInv, UNCHANGED <<cases, resolved, resolvedState, voidMask>>
  PROVE  RuledInv'
BY DEF RuledInv, R!Results

LEMMA RuledStep == RuledInv /\ [R!Next]_(R!vars) => RuledInv'
<1> SUFFICES ASSUME RuledInv, R!Next \/ UNCHANGED R!vars PROVE RuledInv'
  OBVIOUS
<1>1. CASE UNCHANGED R!vars
  BY <1>1, RuledSame DEF R!vars, R!caseVars, R!poolVars
<1>2. CASE R!Tick \/ R!Fund \/ R!BindPool
  BY <1>2, RuledSame DEF R!Tick, R!Fund, R!BindPool, R!caseVars, R!poolVars
<1>3. CASE R!Deliver
  BY <1>3 DEF R!Deliver, R!AllFinal, R!caseVars, RuledInv, R!Results
<1>4. ASSUME NEW a \in Account, R!WithdrawBond(a) PROVE RuledInv'
  BY <1>4, RuledSame DEF R!WithdrawBond, R!caseVars, R!poolVars
<1>5. ASSUME NEW e \in Event, R!Finalize(e) PROVE RuledInv'
  <2>1. UNCHANGED <<resolved, resolvedState, voidMask>>
    BY <1>5 DEF R!Finalize, R!poolVars
  <2>2. QED
    BY <1>5, <2>1, FinalizeMoves, RuledMoves
<1>6. ASSUME NEW e \in Event, NEW a \in Account, NEW o \in R!Outcome,
             R!AssertOutcome(e, a, o) \/ R!Dispute(e, a, o) \/ R!Vote(e, a, o)
      PROVE  RuledInv'
  <2>1. UNCHANGED <<resolved, resolvedState, voidMask>>
    BY <1>6 DEF R!AssertOutcome, R!Dispute, R!Vote, R!poolVars
  <2>2. MovesOn(e) \/ UNCHANGED cases
    BY <1>6, AssertMoves, DisputeMoves, VoteMoves
  <2>3. QED
    BY <2>1, <2>2, RuledMoves, RuledSame
<1>7. QED
  BY <1>1, <1>2, <1>3, <1>4, <1>5, <1>6 DEF R!Next

LEMMA RuledInit == R!Init => RuledInv
<1> SUFFICES ASSUME R!Init PROVE RuledInv
  OBVIOUS
<1>1. cases = [e \in Event |-> R!NewCase] /\ resolved = FALSE
  BY DEF R!Init
<1>2. /\ R!NewCase = [f \in DOMAIN R!NewCase |-> R!NewCase[f]]
      /\ R!NewCase.phase = "Pending"
  BY DEF R!NewCase
<1>3. QED
  BY <1>1, <1>2 DEF RuledInv

-----------------------------------------------------------------------------
\* The states that agree with a result.
Agree(yes, void) == {s \in SUBSET Event : s \ void = yes}
With(e, yes, void) == {s \in Agree(yes, void) : e \in s}
Without(e, yes, void) == {s \in Agree(yes, void) : e \notin s}

\* The pool counts the states that agree, those with the event for its YES claim
\* and those without it for its NO claim.
LEMMA Counted ==
  ASSUME NEW e \in Event
  PROVE  /\ P!Denominator = Cardinality(Agree(resolvedState, voidMask))
         /\ P!Numerator(P!Base(e, TRUE)) = Cardinality(With(e, resolvedState, voidMask))
         /\ P!Numerator(P!Base(e, FALSE)) = Cardinality(Without(e, resolvedState, voidMask))
<1>1. \A S : P!Cardinality(S) = Cardinality(S)
  BY DEF P!Cardinality, Cardinality
<1>2. P!Consistent(resolvedState, voidMask) = Agree(resolvedState, voidMask)
  BY DEF P!Consistent, P!State, Agree
<1>3. /\ P!Base(e, TRUE).scope = {e} /\ P!Base(e, TRUE).mask = {{e}}
      /\ P!Base(e, FALSE).scope = {e} /\ P!Base(e, FALSE).mask = {{}}
  BY DEF P!Base
<1>4. P!Denominator = Cardinality(Agree(resolvedState, voidMask))
  BY <1>1, <1>2 DEF P!Denominator
<1>5. \A c : P!Numerator(c) =
               Cardinality({s \in Agree(resolvedState, voidMask) : s \cap c.scope \in c.mask})
  BY <1>1, <1>2 DEF P!Numerator
<1>6. {s \in Agree(resolvedState, voidMask) :
         s \cap P!Base(e, TRUE).scope \in P!Base(e, TRUE).mask}
        = With(e, resolvedState, voidMask)
  <2>1. \A s : s \cap P!Base(e, TRUE).scope \in P!Base(e, TRUE).mask <=> e \in s
    <3>1. \A s : s \cap {e} \in {{e}} <=> e \in s
      OBVIOUS
    <3>2. QED
      BY <1>3, <3>1, Zenon
  <2>2. QED
    BY <2>1, Zenon DEF With
<1>7. {s \in Agree(resolvedState, voidMask) :
         s \cap P!Base(e, FALSE).scope \in P!Base(e, FALSE).mask}
        = Without(e, resolvedState, voidMask)
  <2>1. \A s : s \cap P!Base(e, FALSE).scope \in P!Base(e, FALSE).mask <=> e \notin s
    BY <1>3, Zenon
  <2>2. QED
    BY <2>1, Zenon DEF Without
<1>8. QED
  BY <1>4, <1>5, <1>6, <1>7

\* An event that is not void is the same in every state that agrees; a void event
\* happens in exactly half of them.
LEMMA Halves ==
  ASSUME NEW e \in Event, NEW yes \in SUBSET Event, NEW void \in SUBSET Event
  PROVE  /\ e \in yes => /\ With(e, yes, void) = Agree(yes, void)
                         /\ Without(e, yes, void) = {}
         /\ e \notin yes /\ e \notin void =>
              /\ With(e, yes, void) = {}
              /\ Without(e, yes, void) = Agree(yes, void)
         /\ e \in void /\ e \notin yes =>
              /\ Cardinality(With(e, yes, void)) = Cardinality(Without(e, yes, void))
              /\ 2 * Cardinality(With(e, yes, void)) = Cardinality(Agree(yes, void))
<1> DEFINE A == Agree(yes, void)
           B == With(e, yes, void)
           C == Without(e, yes, void)
<1>1. ASSUME e \in yes PROVE B = A /\ C = {}
  BY <1>1 DEF Agree, With, Without
<1>2. ASSUME e \notin yes, e \notin void PROVE B = {} /\ C = A
  BY <1>2 DEF Agree, With, Without
<1>3. ASSUME e \in void, e \notin yes
      PROVE  Cardinality(B) = Cardinality(C) /\ 2 * Cardinality(B) = Cardinality(A)
  <2> DEFINE g == [s \in C |-> s \cup {e}]
  <2>1. \A s \in C : s \cup {e} \in B
    BY <1>3 DEF Agree, With, Without
  <2>2. \A s, t \in C : s \cup {e} = t \cup {e} => s = t
    BY DEF Without
  <2>3. \A t \in B : t \ {e} \in C /\ t = (t \ {e}) \cup {e}
    BY <1>3 DEF Agree, With, Without
  <2>4. g \in Bijection(C, B)
    BY <2>1, <2>2, <2>3, Zenon DEF Bijection, Injection, Surjection, IsInjective
  <2>5. ExistsBijection(C, B)
    BY <2>4 DEF ExistsBijection
  <2>6. /\ B \cup C = A /\ B \cap C = {}
        /\ B \subseteq SUBSET Event /\ C \subseteq SUBSET Event
    BY DEF Agree, With, Without
  <2>7. IsFiniteSet(SUBSET Event)
    BY EventFinite, FS_SUBSET
  <2> HIDE DEF A, B, C
  <2>8. IsFiniteSet(B) /\ IsFiniteSet(C)
    BY <2>6, <2>7, FS_Subset
  <2>9. Cardinality(B) = Cardinality(C)
    BY <2>5, <2>8, FS_Bijection
  <2>10. Cardinality(A) = Cardinality(B) + Cardinality(C) - 0
    BY <2>6, <2>8, FS_Union, FS_EmptySet
  <2>11. Cardinality(B) \in Nat
    BY <2>8, FS_CardinalityType
  <2>12. QED
    BY <2>9, <2>10, <2>11
<1>4. QED
  BY <1>1, <1>2, <1>3

\* YES and NO shares pay what was ruled, whatever else was ruled and however many
\* events are void: the masks deliver builds (PilotResolver.sol) and the fractions
\* of payoutFraction (PilotPool.sol) agree on every event.
THEOREM RulingsPaid == Spec => []ClaimsPayRuling
<1>1. RuledInv => ClaimsPayRuling
  <2> SUFFICES ASSUME RuledInv, resolved, NEW e \in Event
               PROVE  LET yes == P!Numerator(P!Base(e, TRUE))
                          no == P!Numerator(P!Base(e, FALSE))
                      IN CASE cases[e].result = "Yes" -> yes = P!Denominator /\ no = 0
                           [] cases[e].result = "No" -> yes = 0 /\ no = P!Denominator
                           [] cases[e].result = "Void" -> yes = no /\ 2 * yes = P!Denominator
                           [] OTHER -> FALSE
    BY DEF ClaimsPayRuling
  <2> DEFINE A == Cardinality(Agree(resolvedState, voidMask))
             B == Cardinality(With(e, resolvedState, voidMask))
             C == Cardinality(Without(e, resolvedState, voidMask))
  <2>1. /\ resolvedState = {d \in Event : cases[d].result = "Yes"}
        /\ voidMask = {d \in Event : cases[d].result = "Void"}
        /\ cases[e].result \in {"No", "Yes", "Void"}
    BY DEF RuledInv, R!Results, R!Outcome
  <2>2. resolvedState \in SUBSET Event /\ voidMask \in SUBSET Event
    BY <2>1
  <2>3. Cardinality({}) = 0
    BY FS_EmptySet
  <2>4. CASE cases[e].result = "Yes"
    <3>1. /\ With(e, resolvedState, voidMask) = Agree(resolvedState, voidMask)
          /\ Without(e, resolvedState, voidMask) = {}
      BY <2>1, <2>2, <2>4, Halves
    <3>2. B = A /\ C = 0
      BY <2>3, <3>1
    <3>3. QED
      BY <2>4, <3>2, Counted
  <2>5. CASE cases[e].result = "No"
    <3>1. /\ With(e, resolvedState, voidMask) = {}
          /\ Without(e, resolvedState, voidMask) = Agree(resolvedState, voidMask)
      BY <2>1, <2>2, <2>5, Halves
    <3>2. B = 0 /\ C = A
      BY <2>3, <3>1
    <3>3. QED
      BY <2>5, <3>2, Counted
  <2>6. CASE cases[e].result = "Void"
    <3>1. B = C /\ 2 * B = A
      BY <2>1, <2>2, <2>6, Halves
    <3>2. QED
      BY <2>6, <3>1, Counted
  <2>7. QED
    BY <2>1, <2>4, <2>5, <2>6
<1>2. R!Spec => []RuledInv
  BY RuledInit, RuledStep, PTL DEF R!Spec
<1>3. QED
  BY <1>1, <1>2, SettlementIsResolver, PTL

-----------------------------------------------------------------------------
(* What can be lost can be defended.                                        *)

\* Balances are naturals, and shares are escrowed only for receipts that exist,
\* one for one.
Circulating(c) == Sum([a \in Trader |-> receipts[a][c]], Trader)
BackedInv ==
  /\ holdings \in [Trader -> [Claim -> Nat]]
  /\ escrow \in [Receipt -> Nat]
  /\ receipts \in [Trader -> [Receipt -> Nat]]
  /\ \A c \in Receipt : escrow[c] = Circulating(c) /\ (escrow[c] > 0 => c \in created)

LEMMA PoolFinite ==
  /\ IsFiniteSet(Trader)
  /\ TradeQuantity \subseteq Nat \ {0} /\ MoveQuantity \subseteq Nat \ {0}
  /\ Receipt \subseteq Claim
  /\ \A c \in Receipt : \E e \in Event : c.scope = {e}
<1>1. \A S : P!IsFiniteSet(S) <=> IsFiniteSet(S)
  BY DEF P!IsFiniteSet, IsFiniteSet
<1>2. IsFiniteSet(Trader)
  BY <1>1, PoolAssumption DEF P!TraderAssumption
<1>3. TradeQuantity \subseteq Nat \ {0} /\ MoveQuantity \subseteq Nat \ {0}
  BY PoolAssumption DEF P!NumberAssumption
<1>4. Receipt \subseteq Claim /\ \A c \in Receipt : \E e \in Event : c.scope = {e}
  BY PoolAssumption DEF P!ReceiptAssumption, P!Base
<1>5. QED
  BY <1>2, <1>3, <1>4

\* A balance of one trader changes.
LEMMA BalanceType ==
  ASSUME NEW S, NEW b \in [Trader -> [S -> Nat]], NEW a \in Trader, NEW c \in S, NEW n \in Nat
  PROVE  [b EXCEPT ![a][c] = n] \in [Trader -> [S -> Nat]]
OBVIOUS

\* Receipts in circulation after one trader's balance of c changed.
LEMMA CirculatingChanged ==
  ASSUME BackedInv, NEW a \in Trader, NEW c \in Receipt, NEW n \in Nat,
         receipts' = [receipts EXCEPT ![a][c] = n]
  PROVE  /\ receipts' \in [Trader -> [Receipt -> Nat]]
         /\ Circulating(c)' = Circulating(c) + (n - receipts[a][c])
         /\ \A d \in Receipt \ {c} : Circulating(d)' = Circulating(d)
<1>1. receipts \in [Trader -> [Receipt -> Nat]]
  BY DEF BackedInv
<1>2. receipts' \in [Trader -> [Receipt -> Nat]]
  BY <1>1, BalanceType
<1>3. \A b \in Trader, d \in Receipt :
        receipts'[b][d] = IF b = a /\ d = c THEN n ELSE receipts[b][d]
  BY <1>1
<1>4. Circulating(c)' = Circulating(c) + (n - receipts[a][c])
  <2> DEFINE f == [b \in Trader |-> receipts[b][c]]
             g == [b \in Trader |-> receipts'[b][c]]
  <2>1. \A b \in Trader : f[b] \in Int /\ g[b] \in Int
    BY <1>1, <1>2
  <2>2. /\ \A b \in Trader \ {a} : g[b] = f[b]
        /\ g[a] = n /\ f[a] = receipts[a][c]
    BY <1>3
  <2>3. Circulating(c) = Sum(f, Trader) /\ Circulating(c)' = Sum(g, Trader)
    BY DEF Circulating
  <2> HIDE DEF f, g
  <2>4. Sum(g, Trader) = Sum(f, Trader) + (g[a] - f[a])
    BY <2>1, <2>2, PoolFinite, SumChange
  <2>5. QED
    BY <2>2, <2>3, <2>4
<1>5. ASSUME NEW d \in Receipt \ {c} PROVE Circulating(d)' = Circulating(d)
  <2>1. [b \in Trader |-> receipts'[b][d]] = [b \in Trader |-> receipts[b][d]]
    BY <1>3
  <2>2. QED
    BY <2>1 DEF Circulating
<1>6. QED
  BY <1>2, <1>4, <1>5

\* A trade or a redemption changes one position.
LEMMA HoldingsChange ==
  ASSUME BackedInv, NEW a \in Trader, NEW c \in Claim, NEW n \in Nat,
         holdings' = [holdings EXCEPT ![a][c] = n], UNCHANGED <<escrow, receipts, created>>
  PROVE  BackedInv'
<1>1. holdings' \in [Trader -> [Claim -> Nat]]
  BY BalanceType DEF BackedInv
<1>2. \A c1 \in Receipt : Circulating(c1)' = Circulating(c1)
  BY DEF Circulating
<1>3. QED
  BY <1>1, <1>2 DEF BackedInv

LEMMA WrapKeeps ==
  ASSUME BackedInv, NEW a \in Trader, NEW c \in Receipt, NEW q \in MoveQuantity,
         P!WrapBase(a, c, q) \/ P!UnwrapBase(a, c, q)
  PROVE  BackedInv'
<1>1. /\ q \in Nat /\ c \in Claim
      /\ holdings[a][c] \in Nat /\ receipts[a][c] \in Nat /\ escrow[c] \in Nat
      /\ escrow[c] = Circulating(c)
  BY PoolFinite DEF BackedInv
<1>2. PICK h \in Nat, r \in Nat, x \in Nat :
        /\ holdings' = [holdings EXCEPT ![a][c] = h]
        /\ receipts' = [receipts EXCEPT ![a][c] = r]
        /\ escrow' = [escrow EXCEPT ![c] = x]
        /\ x - escrow[c] = r - receipts[a][c]
  <2>1. CASE P!WrapBase(a, c, q)
    <3>1. /\ holdings[a][c] >= q
          /\ holdings' = [holdings EXCEPT ![a][c] = holdings[a][c] - q]
          /\ receipts' = [receipts EXCEPT ![a][c] = receipts[a][c] + q]
          /\ escrow' = [escrow EXCEPT ![c] = escrow[c] + q]
      BY <2>1 DEF P!WrapBase, P!HasShares, P!Escrowed
    <3>2. holdings[a][c] - q \in Nat /\ receipts[a][c] + q \in Nat /\ escrow[c] + q \in Nat
      BY <1>1, <3>1
    <3>3. (escrow[c] + q) - escrow[c] = (receipts[a][c] + q) - receipts[a][c]
      BY <1>1
    <3>4. QED
      BY <3>1, <3>2, <3>3
  <2>2. CASE P!UnwrapBase(a, c, q)
    <3>1. /\ receipts[a][c] >= q /\ escrow[c] >= q
          /\ holdings' = [holdings EXCEPT ![a][c] = holdings[a][c] + q]
          /\ receipts' = [receipts EXCEPT ![a][c] = receipts[a][c] - q]
          /\ escrow' = [escrow EXCEPT ![c] = escrow[c] - q]
      BY <2>2 DEF P!UnwrapBase
    <3>2. holdings[a][c] + q \in Nat /\ receipts[a][c] - q \in Nat /\ escrow[c] - q \in Nat
      BY <1>1, <3>1
    <3>3. (escrow[c] - q) - escrow[c] = (receipts[a][c] - q) - receipts[a][c]
      BY <1>1
    <3>4. QED
      BY <3>1, <3>2, <3>3
  <2>3. QED
    BY <2>1, <2>2
<1>3. /\ receipts' \in [Trader -> [Receipt -> Nat]]
      /\ Circulating(c)' = Circulating(c) + (r - receipts[a][c])
      /\ \A d \in Receipt \ {c} : Circulating(d)' = Circulating(d)
  BY <1>2, CirculatingChanged
<1>4. holdings' \in [Trader -> [Claim -> Nat]]
  BY <1>1, <1>2, BalanceType DEF BackedInv
<1>5. /\ escrow' \in [Receipt -> Nat] /\ escrow'[c] = x
      /\ \A d \in Receipt \ {c} : escrow'[d] = escrow[d]
  BY <1>2 DEF BackedInv
<1>6. c \in created /\ created' = created
  BY DEF P!WrapBase, P!UnwrapBase
<1>7. escrow'[c] = Circulating(c)'
  BY <1>1, <1>2, <1>3, <1>5
<1>8. \A d \in Receipt : escrow'[d] = Circulating(d)' /\ (escrow'[d] > 0 => d \in created')
  BY <1>3, <1>5, <1>6, <1>7 DEF BackedInv
<1>9. QED
  BY <1>3, <1>4, <1>5, <1>8 DEF BackedInv

LEMMA TransferKeeps ==
  ASSUME BackedInv, NEW a \in Trader, NEW b \in Trader, NEW c \in Receipt, NEW q \in MoveQuantity,
         P!TransferReceipt(a, b, c, q)
  PROVE  BackedInv'
<1>1. /\ q \in Nat /\ a # b /\ receipts[a][c] >= q
      /\ UNCHANGED <<holdings, escrow, created>>
      /\ receipts' = [receipts EXCEPT ![a][c] = @ - q, ![b][c] = @ + q]
  BY PoolFinite DEF P!TransferReceipt
<1>2. receipts \in [Trader -> [Receipt -> Nat]]
  BY DEF BackedInv
<1> DEFINE ra == receipts[a][c]
           rb == receipts[b][c]
           mid == [receipts EXCEPT ![a][c] = ra - q]
<1>3. ra \in Nat /\ rb \in Nat /\ ra - q \in Nat /\ rb + q \in Nat
  BY <1>1, <1>2
<1>4. mid \in [Trader -> [Receipt -> Nat]]
  BY <1>2, <1>3, BalanceType
<1>5. receipts' = [mid EXCEPT ![b][c] = rb + q]
  BY <1>1, <1>2
<1>6. receipts' \in [Trader -> [Receipt -> Nat]]
  BY <1>3, <1>4, <1>5, BalanceType
<1>7. /\ \A t \in Trader, d \in Receipt :
           /\ mid[t][d] = IF t = a /\ d = c THEN ra - q ELSE receipts[t][d]
           /\ receipts'[t][d] = IF t = b /\ d = c THEN rb + q ELSE mid[t][d]
  BY <1>2, <1>4, <1>5
<1> HIDE DEF mid
<1>8. ASSUME NEW d \in Receipt PROVE Circulating(d)' = Circulating(d)
  <2> DEFINE f == [t \in Trader |-> receipts[t][d]]
             g == [t \in Trader |-> mid[t][d]]
             h == [t \in Trader |-> receipts'[t][d]]
  <2>1. Circulating(d) = Sum(f, Trader) /\ Circulating(d)' = Sum(h, Trader)
    BY DEF Circulating
  <2>2. /\ \A t \in Trader : f[t] \in Int /\ g[t] \in Int /\ h[t] \in Int
        /\ \A t \in Trader \ {a} : g[t] = f[t]
        /\ \A t \in Trader \ {b} : h[t] = g[t]
    BY <1>2, <1>4, <1>6, <1>7
  <2>3. /\ d = c => g[a] - f[a] = -q /\ h[b] - g[b] = q
        /\ d # c => g[a] - f[a] = 0 /\ h[b] - g[b] = 0
    BY <1>1, <1>2, <1>3, <1>7
  <2> HIDE DEF f, g, h
  <2>4. Sum(g, Trader) = Sum(f, Trader) + (g[a] - f[a])
    <3>1. \A t \in Trader : f[t] \in Int /\ g[t] \in Int
      BY <2>2
    <3>2. \A t \in Trader \ {a} : g[t] = f[t]
      BY <2>2
    <3>3. QED
      BY <3>1, <3>2, PoolFinite, SumChange
  <2>5. Sum(h, Trader) = Sum(g, Trader) + (h[b] - g[b])
    BY <2>2, PoolFinite, SumChange
  <2>6. Sum(f, Trader) \in Int
    BY <2>2, PoolFinite, SumInt
  <2>7. Sum(h, Trader) = Sum(f, Trader)
    BY <1>1, <2>3, <2>4, <2>5, <2>6
  <2>8. QED
    BY <2>1, <2>7
<1>9. QED
  BY <1>1, <1>6, <1>8 DEF BackedInv

\* Steps that move no share.
LEMMA BackedSame ==
  ASSUME BackedInv, UNCHANGED <<holdings, escrow, receipts>>, created \subseteq created'
  PROVE  BackedInv'
<1>1. \A c \in Receipt : Circulating(c)' = Circulating(c)
  BY DEF Circulating
<1>2. QED
  BY <1>1 DEF BackedInv

LEMMA BackedStep == BackedInv /\ [P!Next]_(P!vars) => BackedInv'
<1> SUFFICES ASSUME BackedInv, P!Next \/ UNCHANGED P!vars PROVE BackedInv'
  OBVIOUS
<1>1. CASE UNCHANGED P!vars
  BY <1>1, BackedSame DEF P!vars, P!positionVars
<1>2. CASE P!Tick \/ P!Fund
  BY <1>2, BackedSame DEF P!Tick, P!Fund, P!positionVars
<1>3. ASSUME NEW c \in Receipt, P!CreateBaseToken(c) PROVE BackedInv'
  BY <1>3, BackedSame DEF P!CreateBaseToken, P!positionVars
<1>4. ASSUME NEW yes, NEW void, P!Resolve(yes, void) PROVE BackedInv'
  BY <1>4, BackedSame DEF P!Resolve, P!positionVars
<1>5. ASSUME NEW a \in Trader, NEW c \in Claim, NEW q \in TradeQuantity, P!Buy(a, c, q)
      PROVE  BackedInv'
  <2>1. /\ holdings' = [holdings EXCEPT ![a][c] = holdings[a][c] + q]
        /\ UNCHANGED <<escrow, receipts, created>>
    BY <1>5 DEF P!Buy
  <2>2. holdings[a][c] + q \in Nat
    BY PoolFinite DEF BackedInv
  <2>3. QED
    BY <2>1, <2>2, HoldingsChange
<1>6. ASSUME NEW a \in Trader, NEW c \in Claim, NEW q \in TradeQuantity \cup MoveQuantity,
             P!Sell(a, c, q) \/ P!Redeem(a, c, q)
      PROVE  BackedInv'
  <2>1. /\ holdings' = [holdings EXCEPT ![a][c] = holdings[a][c] - q]
        /\ holdings[a][c] >= q
        /\ UNCHANGED <<escrow, receipts, created>>
    BY <1>6 DEF P!Sell, P!Redeem, P!HasShares
  <2>2. holdings[a][c] - q \in Nat
    <3>1. q \in Nat
      BY PoolFinite
    <3>2. holdings[a][c] \in Nat
      BY DEF BackedInv
    <3>3. QED
      BY <2>1, <3>1, <3>2
  <2>3. QED
    BY <2>1, <2>2, HoldingsChange
<1>7. ASSUME NEW a \in Trader, NEW c \in Receipt, NEW q \in MoveQuantity,
             \/ P!WrapBase(a, c, q) \/ P!UnwrapBase(a, c, q)
             \/ \E b \in Trader : P!TransferReceipt(a, b, c, q)
      PROVE  BackedInv'
  BY <1>7, WrapKeeps, TransferKeeps
<1>8. QED
  BY <1>1, <1>2, <1>3, <1>4, <1>5, <1>6, <1>7 DEF P!Next

LEMMA BackedInit == P!Init => BackedInv
<1> SUFFICES ASSUME P!Init PROVE BackedInv
  OBVIOUS
<1>1. /\ holdings = [a \in Trader |-> [c \in Claim |-> 0]]
      /\ escrow = [c \in Receipt |-> 0]
      /\ receipts = [a \in Trader |-> [c \in Receipt |-> 0]]
  BY DEF P!Init
<1>2. ASSUME NEW c \in Receipt PROVE Circulating(c) = 0
  <2> DEFINE f == [a \in Trader |-> receipts[a][c]]
  <2>1. \A a \in Trader : f[a] = 0
    BY <1>1
  <2> HIDE DEF f
  <2>2. Sum(f, Trader) = 0
    BY <2>1, PoolFinite, SumZero
  <2>3. QED
    BY <2>2 DEF Circulating, f
<1>3. QED
  BY <1>1, <1>2 DEF BackedInv

\* A claim with shares outstanding has an owner that holds them or their receipts.
LEMMA SomebodyHolds ==
  ASSUME BackedInv, NEW c \in Claim, P!Outstanding(c) > 0
  PROVE  \E a \in Trader : \/ holdings[a][c] > 0
                           \/ c \in Receipt /\ c \in created /\ receipts[a][c] > 0
<1> DEFINE f == [a \in Trader |-> holdings[a][c]]
<1>1. \A a \in Trader : f[a] = holdings[a][c] /\ holdings[a][c] \in Nat
  BY DEF BackedInv
<1>2. P!Outstanding(c) = Sum(f, Trader) + (IF c \in Receipt THEN escrow[c] ELSE 0)
  BY DEF P!Outstanding, P!Wrapped, P!Sum, Sum, P!MapThenSumSet, MapThenSumSet,
         P!MapThenFoldSet, MapThenFoldSet
<1> HIDE DEF f
<1>3. SUFFICES ASSUME \A a \in Trader :
                        ~(holdings[a][c] > 0) /\ ~(c \in Receipt /\ c \in created /\ receipts[a][c] > 0)
               PROVE  FALSE
  OBVIOUS
<1>4. Sum(f, Trader) = 0
  <2>1. \A a \in Trader : f[a] = 0
    BY <1>1, <1>3
  <2>2. QED
    BY <2>1, PoolFinite, SumZero
<1>5. c \in Receipt /\ escrow[c] > 0
  <2>1. ASSUME c \notin Receipt PROVE FALSE
    BY <1>2, <1>4, <2>1
  <2>2. P!Outstanding(c) = 0 + escrow[c] /\ escrow[c] \in Nat
    BY <1>2, <1>4, <2>1 DEF BackedInv
  <2>3. QED
    BY <2>1, <2>2
<1>6. c \in created /\ escrow[c] = Circulating(c)
  BY <1>5 DEF BackedInv
<1>7. Circulating(c) = 0
  <2> DEFINE g == [a \in Trader |-> receipts[a][c]]
  <2>1. \A a \in Trader : receipts[a][c] \in Nat
    BY <1>5 DEF BackedInv
  <2>2. \A a \in Trader : g[a] = 0
    BY <1>3, <1>5, <1>6, <2>1
  <2> HIDE DEF g
  <2>3. Sum(g, Trader) = 0
    BY <2>2, PoolFinite, SumZero
  <2>4. QED
    BY <2>3 DEF Circulating, g
<1>8. QED
  BY <1>5, <1>6, <1>7

\* While an assertion about an event can be challenged and anybody owns what the
\* event decides, some holder qualifies to dispute it, however often the shares
\* were traded, wrapped and handed over (hasQualifyingShares,
\* AccountPilotResolver.sol): wrapping never takes the right to challenge away.
THEOREM ShareholdersCanDispute == Spec => []ChallengePossible
<1>1. BackedInv => ChallengePossible
  <2> SUFFICES ASSUME BackedInv, NEW e \in Event, NEW c \in Claim,
                      Depends(c, e), P!Outstanding(c) > 0
               PROVE  Eligible(e)
    BY DEF ChallengePossible
  <2>1. PICK a \in Trader : \/ holdings[a][c] > 0
                            \/ c \in Receipt /\ c \in created /\ receipts[a][c] > 0
    BY SomebodyHolds
  <2>2. c \in Receipt => c.scope = {e}
    BY PoolFinite DEF Depends
  <2>3. HasQualifyingShares(a, e, c)
    BY <2>1, <2>2 DEF HasQualifyingShares
  <2>4. QED
    BY <2>3 DEF Eligible
<1>2. P!Spec => []BackedInv
  BY BackedInit, BackedStep, PTL DEF P!Spec
<1>3. QED
  BY <1>1, <1>2, SettlementIsPool, PTL
=============================================================================
