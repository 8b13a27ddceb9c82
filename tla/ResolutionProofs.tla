-------------------------- MODULE ResolutionProofs --------------------------
(***************************************************************************)
(* Theorems about PilotResolver and about the ResolutionWorker that drives *)
(* it, for any events, accounts, panel of three or five and any windows.   *)
(*                                                                         *)
(* PilotResolver.  First the types; then how cases end, from an invariant  *)
(* that relates the phase of a case to its parties, its ballots and the    *)
(* clock (it concerns one event at a time, and every step touches at most  *)
(* one); then that PilotResolver implements EventSettlement: asserting,    *)
(* disputing, finalizing (or the vote that does) and delivering are the    *)
(* abstract MakeClaim, Counter, Decide and Publish, and every other step   *)
(* changes nothing the abstract specification sees.  Last, no bond is lost:*)
(* the contract keeps counters (lockedBonds, credits, totalCredits), the   *)
(* history variable custody follows each bond, and the invariant says that *)
(* every counter is the number of the bonds it stands for and ties a bond's*)
(* custody to the phase of its case.                                       *)
(*                                                                         *)
(* ResolutionWorker, for any number of runners, crashes, refusals, expired *)
(* leases and lost broadcasts.  A runner is let go on with what it holds in*)
(* memory after its lease expired; the invariant says that only the        *)
(* holder's copy of the journal is the stored one, that only the pending   *)
(* transaction can still be mined, and that the broadcasts made and about  *)
(* to be made (Savers) are within the attempts counted.  A call is planned *)
(* long before it is mined: Endable is what no step of the contract takes  *)
(* from it in between.                                                     *)
(***************************************************************************)
EXTENDS ResolutionWorker, FiniteSetTheorems, TLAPS

-----------------------------------------------------------------------------
(* Type correctness.                                                        *)

LEMMA QuorumIsNat == Quorum \in Nat /\ 2 * Quorum > Cardinality(Reviewer)
  <1>1. Cardinality(Reviewer) \in {3, 5}
    BY PanelAssumption
  <1>2. QED
    BY <1>1 DEF Quorum

\* finish pays each bond to an account of the case.
LEMMA BeneficiaryType ==
  ASSUME NEW c \in Case, NEW role, NEW o, NEW timedOut
  PROVE  Beneficiary(c, role, o, timedOut) \in Account \cup {NoAccount}
  BY DEF Beneficiary, Case

LEMMA StakeType == \A p : Stake(p) \in {0, 1, 2}
  BY DEF Stake

LEMMA FinishType ==
  ASSUME TypeOK, NEW e \in Event, NEW o \in Outcome \cup {Unset}, NEW t \in BOOLEAN,
         Finish(e, o, t)
  PROVE  /\ cases' \in [Event -> Case]
         /\ lockedBonds' \in Nat /\ totalCredits' \in Nat
         /\ credits' \in [Account -> Nat]
         /\ custody' \in [Unit -> [state : {"none", "locked", "credited", "paid"},
                                   owner : Account \cup {NoAccount}]]
         /\ wallet' \in [Account -> Nat] /\ held' \in Nat
  <1> DEFINE c == cases[e]
  <1>1. c \in Case /\ Stake(c.phase) \in {0, 1, 2}
    BY StakeType DEF TypeOK
  <1>2. cases' \in [Event -> Case]
    BY <1>1 DEF Finish, TypeOK, Case
  <1>3. lockedBonds' \in Nat /\ totalCredits' \in Nat
    BY <1>1 DEF Finish, TypeOK
  <1>4. credits' \in [Account -> Nat]
    BY <1>1 DEF Finish, CreditStake, TypeOK
  <1>5. \A role : Beneficiary(c, role, o, t) \in Account \cup {NoAccount}
    BY <1>1, BeneficiaryType
  <1>6. custody' \in [Unit -> [state : {"none", "locked", "credited", "paid"},
                               owner : Account \cup {NoAccount}]]
    BY <1>5 DEF Finish, TypeOK
  <1>7. QED
    BY <1>2, <1>3, <1>4, <1>6 DEF Finish, TypeOK

LEMMA InitType == Init => TypeOK
  <1>1. NewCase \in Case
    BY DEF NewCase, Case, Unset
  <1>2. [state |-> "none", owner |-> NoAccount]
          \in [state : {"none", "locked", "credited", "paid"},
               owner : Account \cup {NoAccount}]
    OBVIOUS
  <1>3. SUFFICES ASSUME Init PROVE TypeOK
    OBVIOUS
  <1>4. cases \in [Event -> Case]
    BY <1>1, <1>3 DEF Init
  <1>5. custody \in [Unit -> [state : {"none", "locked", "credited", "paid"},
                              owner : Account \cup {NoAccount}]]
    BY <1>2, <1>3 DEF Init
  <1>6. QED
    BY <1>3, <1>4, <1>5, WalletAssumption DEF Init, TypeOK

LEMMA TypeStep == TypeOK /\ [Next]_vars => TypeOK'
  <1> SUFFICES ASSUME TypeOK, [Next]_vars PROVE TypeOK'
    OBVIOUS
  <1> USE TimeAssumption
  <1>1. CASE Tick
    BY <1>1 DEF Tick, TypeOK, caseVars, bondVars, poolVars
  <1>2. CASE Fund
    BY <1>2 DEF Fund, TypeOK, caseVars, bondVars
  <1>3. CASE BindPool
    BY <1>3 DEF BindPool, TypeOK, caseVars, bondVars, poolVars
  <1>4. CASE Deliver
    BY <1>4 DEF Deliver, Results, TypeOK, caseVars, bondVars
  <1>5. ASSUME NEW e \in Event, Finalize(e) PROVE TypeOK'
    <2>1. PICK o \in Outcome \cup {Unset}, t \in BOOLEAN : Finish(e, o, t)
      <3>1. cases[e] \in Case
        BY DEF TypeOK
      <3>2. cases[e].proposal \in Outcome \cup {Unset}
        BY <3>1 DEF Case
      <3>3. QED
        BY <1>5, <3>2 DEF Finalize, Outcome
    <2>2. UNCHANGED <<now, votes, voted, bound, delivered, poolVars>>
      BY <1>5 DEF Finalize
    <2>3. /\ cases' \in [Event -> Case]
          /\ lockedBonds' \in Nat /\ totalCredits' \in Nat
          /\ credits' \in [Account -> Nat]
          /\ custody' \in [Unit -> [state : {"none", "locked", "credited", "paid"},
                                    owner : Account \cup {NoAccount}]]
          /\ wallet' \in [Account -> Nat] /\ held' \in Nat
      BY <2>1, FinishType
    <2>4. QED
      BY <2>2, <2>3 DEF TypeOK, poolVars
  <1>6. ASSUME NEW e \in Event, NEW a \in Account, NEW o \in Outcome,
               AssertOutcome(e, a, o)
        PROVE  TypeOK'
    <2>1. cases' \in [Event -> Case]
      <3>1. cases[e] \in Case /\ now + ChallengePeriod \in Nat
        BY DEF TypeOK
      <3>2. [cases[e] EXCEPT !.phase = "Asserted", !.proposal = o, !.asserter = a,
                         !.challengeUntil = now + ChallengePeriod] \in Case
        BY <3>1 DEF Case
      <3>3. QED
        BY <1>6, <3>2 DEF AssertOutcome, TypeOK
    <2>2. custody' \in [Unit -> [state : {"none", "locked", "credited", "paid"},
                                 owner : Account \cup {NoAccount}]]
      BY <1>6 DEF AssertOutcome, TakeBond, TypeOK, Unit, Role
    <2>3. QED
      BY <1>6, <2>1, <2>2 DEF AssertOutcome, TakeBond, TypeOK, poolVars
  <1>7. ASSUME NEW e \in Event, NEW a \in Account, NEW o \in Outcome,
               Dispute(e, a, o)
        PROVE  TypeOK'
    <2>1. cases' \in [Event -> Case]
      <3>1. cases[e] \in Case /\ now + VotingPeriod \in Nat
        BY DEF TypeOK
      <3>2. [cases[e] EXCEPT !.phase = "Disputed", !.counter = o, !.disputer = a,
                         !.voteUntil = now + VotingPeriod] \in Case
        BY <3>1 DEF Case
      <3>3. QED
        BY <1>7, <3>2 DEF Dispute, TypeOK
    <2>2. custody' \in [Unit -> [state : {"none", "locked", "credited", "paid"},
                                 owner : Account \cup {NoAccount}]]
      BY <1>7 DEF Dispute, TakeBond, TypeOK, Unit, Role
    <2>3. QED
      BY <1>7, <2>1, <2>2 DEF Dispute, TakeBond, TypeOK, poolVars
  <1>8. ASSUME NEW e \in Event, NEW a \in Account, NEW o \in Outcome,
               Vote(e, a, o)
        PROVE  TypeOK'
    <2>1. /\ votes' \in [Event -> [Outcome -> Nat]]
          /\ voted' \in [Event -> SUBSET Reviewer]
      BY <1>8 DEF Vote, MayVote, TypeOK
    <2>2. CASE Finish(e, o, FALSE)
      BY <1>8, <2>1, <2>2, FinishType DEF Vote, TypeOK, poolVars
    <2>3. CASE UNCHANGED <<cases, bondVars>>
      BY <1>8, <2>1, <2>3 DEF Vote, TypeOK, bondVars, poolVars
    <2>4. QED
      BY <1>8, <2>2, <2>3 DEF Vote
  <1>9. ASSUME NEW a \in Account, WithdrawBond(a) PROVE TypeOK'
    <2>1. custody' \in [Unit -> [state : {"none", "locked", "credited", "paid"},
                                 owner : Account \cup {NoAccount}]]
      BY <1>9 DEF WithdrawBond, TypeOK
    <2>2. QED
      BY <1>9, <2>1 DEF WithdrawBond, TypeOK, caseVars, poolVars
  <1>10. CASE UNCHANGED vars
    BY <1>10 DEF vars, TypeOK, caseVars, bondVars, poolVars
  <1>11. QED
    BY <1>1, <1>2, <1>3, <1>4, <1>5, <1>6, <1>7, <1>8, <1>9, <1>10 DEF Next

\* Every variable keeps its type: in particular no checked subtraction of the
\* contract goes below zero without the call being refused.
THEOREM TypeCorrect == Spec => []TypeOK
  BY InitType, TypeStep, PTL DEF Spec

-----------------------------------------------------------------------------
(* The inductive invariant.                                                 *)

\* What has happened to the case of e before it is in its phase.
PhaseShape(e) ==
  LET c == cases[e] IN
  /\ c.phase = "Pending" =>
       /\ c.asserter = NoAccount /\ c.disputer = NoAccount
       /\ c.proposal = Unset /\ c.counter = Unset
  /\ c.phase = "Asserted" =>
       /\ c.asserter \in Account /\ c.disputer = NoAccount
       /\ c.proposal \in Outcome /\ c.counter = Unset
       /\ c.challengeUntil < AssertionDeadline(e) + ChallengePeriod
  /\ c.phase = "Disputed" =>
       /\ c.asserter \in Account /\ c.disputer \in Account /\ c.counter \in Outcome
       /\ c.voteUntil < AssertionDeadline(e) + ChallengePeriod + VotingPeriod
  /\ c.phase \in {"Pending", "Asserted"} => \A o \in Outcome : votes[e][o] = 0
  /\ c.phase # "Pending" => ObservationEnd[e] <= now
  /\ IF c.phase = "Finalized" THEN c.result \in Outcome ELSE c.result = Unset

\* The quorum is reached only by the vote that finalizes, for its outcome.
QuorumDecides(e) ==
  \A o \in Outcome : votes[e][o] >= Quorum
    => cases[e].phase = "Finalized" /\ cases[e].result = o

\* The four ways in which a case becomes final.
Unclaimed(e) ==
  LET c == cases[e] IN
  c.asserter = NoAccount /\ c.result = "Void" /\ now >= AssertionDeadline(e)
Unchallenged(e) ==
  LET c == cases[e] IN
  /\ c.asserter # NoAccount /\ c.disputer = NoAccount
  /\ c.result = c.proposal /\ now >= c.challengeUntil
Ruled(e) == cases[e].disputer # NoAccount /\ votes[e][cases[e].result] >= Quorum
Undecided(e) ==
  LET c == cases[e] IN
  /\ c.disputer # NoAccount /\ c.result = "Void" /\ now >= c.voteUntil
  /\ \A o \in Outcome : votes[e][o] < Quorum

Reason(e) ==
  cases[e].phase = "Finalized" => Unclaimed(e) \/ Unchallenged(e) \/ Ruled(e) \/ Undecided(e)

Counted(e) ==
  votes[e]["No"] + votes[e]["Yes"] + votes[e]["Void"] = Cardinality(voted[e])

CaseInv(e) == PhaseShape(e) /\ QuorumDecides(e) /\ Reason(e) /\ Counted(e)

IInv == TypeOK /\ resolved = delivered /\ \A e \in Event : CaseInv(e)

-----------------------------------------------------------------------------
(* Steps, seen from one case.                                               *)

\* A case that a step leaves alone keeps its invariant while time goes on.
CaseUnchanged(e) == cases'[e] = cases[e] /\ votes'[e] = votes[e] /\ voted'[e] = voted[e]

LEMMA Frame ==
  ASSUME TypeOK, TypeOK', NEW e \in Event, CaseInv(e), CaseUnchanged(e), now' >= now
  PROVE  CaseInv(e)'
  <1>1. /\ now \in Nat /\ now' \in Nat /\ ObservationEnd[e] \in Nat
        /\ AssertionDeadline(e) \in Nat
        /\ cases[e].challengeUntil \in Nat /\ cases[e].voteUntil \in Nat
    <2>1. cases[e] \in Case
      BY DEF TypeOK
    <2>2. QED
      BY <2>1, TimeAssumption DEF TypeOK, Case, AssertionDeadline
  <1>2. PhaseShape(e)'
    BY <1>1 DEF CaseInv, PhaseShape, CaseUnchanged, AssertionDeadline
  <1>3. QuorumDecides(e)'
    BY DEF CaseInv, QuorumDecides, CaseUnchanged, Quorum
  <1>4. Reason(e)'
    BY <1>1 DEF CaseInv, Reason, Unclaimed, Unchallenged, Ruled, Undecided, CaseUnchanged,
                AssertionDeadline, Quorum
  <1>5. Counted(e)'
    BY DEF CaseInv, Counted, CaseUnchanged
  <1>6. QED
    BY <1>2, <1>3, <1>4, <1>5 DEF CaseInv

\* A final case is left alone by every step.
LEMMA FinalFrame ==
  ASSUME TypeOK, [Next]_vars, NEW f \in Event, cases[f].phase = "Finalized"
  PROVE  CaseUnchanged(f)
  <1> USE DEF CaseUnchanged
  <1>1. CASE Tick \/ Fund \/ BindPool \/ Deliver
    BY <1>1 DEF Tick, Fund, BindPool, Deliver, caseVars
  <1>2. ASSUME NEW e \in Event, Finalize(e) PROVE CaseUnchanged(f)
    <2>1. cases[e].phase # "Finalized" /\ UNCHANGED <<votes, voted>>
      BY <1>2 DEF Finalize
    <2>2. PICK c : cases' = [cases EXCEPT ![e] = c]
      BY <1>2 DEF Finalize, Finish
    <2>3. QED
      BY <2>1, <2>2 DEF TypeOK
  <1>3. ASSUME NEW e \in Event, NEW a \in Account, NEW o \in Outcome,
               AssertOutcome(e, a, o) \/ Dispute(e, a, o)
        PROVE  CaseUnchanged(f)
    <2>1. cases[e].phase # "Finalized" /\ UNCHANGED <<votes, voted>>
      BY <1>3 DEF AssertOutcome, Dispute, ChallengeOpen
    <2>2. PICK c : cases' = [cases EXCEPT ![e] = c]
      BY <1>3 DEF AssertOutcome, Dispute
    <2>3. QED
      BY <2>1, <2>2 DEF TypeOK
  <1>4. ASSUME NEW e \in Event, NEW a \in Account, NEW o \in Outcome, Vote(e, a, o)
        PROVE  CaseUnchanged(f)
    <2>1. e # f
      BY <1>4 DEF Vote, VotingOpen
    <2>2. cases'[f] = cases[f]
      BY <1>4, <2>1 DEF Vote, Finish, TypeOK
    <2>3. votes'[f] = votes[f] /\ voted'[f] = voted[f]
      BY <1>4, <2>1 DEF Vote, TypeOK
    <2>4. QED
      BY <2>2, <2>3
  <1>5. ASSUME NEW a \in Account, WithdrawBond(a) PROVE CaseUnchanged(f)
    BY <1>5 DEF WithdrawBond, caseVars
  <1>6. CASE UNCHANGED vars
    BY <1>6 DEF vars, caseVars
  <1>7. QED
    BY <1>1, <1>2, <1>3, <1>4, <1>5, <1>6 DEF Next

\* Reaching the quorum is the same as having a majority of the panel.
LEMMA QuorumIsMajority ==
  ASSUME TypeOK, NEW e \in Event, NEW o \in Outcome
  PROVE  Majority(e, o) <=> votes[e][o] >= Quorum
  <1>1. votes[e][o] \in Nat
    BY DEF TypeOK
  <1>2. Cardinality(Reviewer) \in {3, 5}
    BY PanelAssumption
  <1>3. QED
    BY <1>1, <1>2 DEF Majority, Quorum

-----------------------------------------------------------------------------
(* Steps that move a case.                                                  *)

LEMMA QuorumPositive == Quorum \in Nat /\ Quorum > 0
  BY PanelAssumption DEF Quorum

LEMMA CaseNumbers ==
  ASSUME TypeOK, NEW e \in Event
  PROVE  /\ cases[e] \in Case /\ now \in Nat
         /\ ObservationEnd[e] \in Nat /\ AssertionDeadline(e) \in Nat
         /\ AssertionDeadline(e) > ObservationEnd[e]
         /\ cases[e].challengeUntil \in Nat /\ cases[e].voteUntil \in Nat
         /\ \A o \in Outcome : votes[e][o] \in Nat
         /\ IsFiniteSet(voted[e])
  <1>1. cases[e] \in Case
    BY DEF TypeOK
  <1>2. voted[e] \subseteq Reviewer
    BY DEF TypeOK
  <1>3. IsFiniteSet(voted[e])
    BY <1>2, FS_Subset, PanelAssumption
  <1>4. QED
    BY <1>1, <1>3, TimeAssumption DEF TypeOK, Case, AssertionDeadline

LEMMA AssertStep ==
  ASSUME TypeOK, NEW e \in Event, NEW a \in Account, NEW o \in Outcome,
         CaseInv(e), AssertOutcome(e, a, o)
  PROVE  CaseInv(e)' /\ \A f \in Event \ {e} : CaseUnchanged(f)
  <1>1. cases'[e] = [cases[e] EXCEPT !.phase = "Asserted", !.proposal = o, !.asserter = a,
                                     !.challengeUntil = now + ChallengePeriod]
    BY DEF AssertOutcome, TypeOK
  <1>2. /\ cases'[e].phase = "Asserted" /\ cases'[e].asserter = a
        /\ cases'[e].proposal = o /\ cases'[e].disputer = cases[e].disputer
        /\ cases'[e].counter = cases[e].counter /\ cases'[e].result = cases[e].result
        /\ cases'[e].challengeUntil = now + ChallengePeriod
    BY <1>1, CaseNumbers DEF Case
  <1>3. /\ cases[e].phase = "Pending" /\ ObservationEnd[e] <= now
        /\ now < AssertionDeadline(e) /\ UNCHANGED <<now, votes, voted>>
    BY DEF AssertOutcome, AssertionOpen
  <1>4. PhaseShape(e)'
    BY <1>2, <1>3, CaseNumbers, TimeAssumption
    DEF CaseInv, PhaseShape, AssertionDeadline
  <1>5. QuorumDecides(e)'
    BY <1>2, <1>3, QuorumPositive DEF CaseInv, PhaseShape, QuorumDecides, Quorum
  <1>6. Reason(e)' /\ Counted(e)'
    BY <1>2, <1>3 DEF CaseInv, Reason, Counted
  <1>7. \A f \in Event \ {e} : CaseUnchanged(f)
    BY DEF AssertOutcome, CaseUnchanged, TypeOK
  <1>8. QED
    BY <1>4, <1>5, <1>6, <1>7 DEF CaseInv

LEMMA DisputeStep ==
  ASSUME TypeOK, NEW e \in Event, NEW a \in Account, NEW o \in Outcome,
         CaseInv(e), Dispute(e, a, o)
  PROVE  CaseInv(e)' /\ \A f \in Event \ {e} : CaseUnchanged(f)
  <1>1. cases'[e] = [cases[e] EXCEPT !.phase = "Disputed", !.counter = o, !.disputer = a,
                                     !.voteUntil = now + VotingPeriod]
    BY DEF Dispute, TypeOK
  <1>2. /\ cases'[e].phase = "Disputed" /\ cases'[e].disputer = a
        /\ cases'[e].counter = o /\ cases'[e].result = cases[e].result
        /\ cases'[e].asserter = cases[e].asserter
        /\ cases'[e].voteUntil = now + VotingPeriod
    BY <1>1, CaseNumbers DEF Case
  <1>3. /\ cases[e].phase = "Asserted" /\ now < cases[e].challengeUntil
        /\ UNCHANGED <<now, votes, voted>>
    BY DEF Dispute, ChallengeOpen
  <1>4. PhaseShape(e)'
    BY <1>2, <1>3, CaseNumbers, TimeAssumption
    DEF CaseInv, PhaseShape, AssertionDeadline
  <1>5. QuorumDecides(e)'
    BY <1>2, <1>3, QuorumPositive DEF CaseInv, PhaseShape, QuorumDecides, Quorum
  <1>6. Reason(e)' /\ Counted(e)'
    BY <1>2, <1>3 DEF CaseInv, Reason, Counted
  <1>7. \A f \in Event \ {e} : CaseUnchanged(f)
    BY DEF Dispute, CaseUnchanged, TypeOK
  <1>8. QED
    BY <1>4, <1>5, <1>6, <1>7 DEF CaseInv

\* finish sets the phase and the result of its case and nothing else in it.
LEMMA FinishCase ==
  ASSUME TypeOK, NEW e \in Event, NEW o, NEW t, Finish(e, o, t)
  PROVE  /\ cases'[e].phase = "Finalized" /\ cases'[e].result = o
         /\ cases'[e].asserter = cases[e].asserter
         /\ cases'[e].disputer = cases[e].disputer
         /\ cases'[e].proposal = cases[e].proposal /\ cases'[e].counter = cases[e].counter
         /\ cases'[e].challengeUntil = cases[e].challengeUntil
         /\ cases'[e].voteUntil = cases[e].voteUntil
         /\ \A f \in Event \ {e} : cases'[f] = cases[f]
  <1>1. cases'[e] = [cases[e] EXCEPT !.phase = "Finalized", !.result = o]
    BY DEF Finish, TypeOK
  <1>2. \A f \in Event \ {e} : cases'[f] = cases[f]
    BY DEF Finish, TypeOK
  <1>3. QED
    BY <1>1, <1>2, CaseNumbers DEF Case

LEMMA FinalizeStep ==
  ASSUME TypeOK, NEW e \in Event, CaseInv(e), Finalize(e)
  PROVE  CaseInv(e)' /\ \A f \in Event \ {e} : CaseUnchanged(f)
  <1> DEFINE c == cases[e]
  <1>1. UNCHANGED <<now, votes, voted>>
    BY DEF Finalize
  <1>2. PICK o \in Outcome, t \in BOOLEAN :
          /\ Finish(e, o, t)
          /\ \/ c.phase = "Pending" /\ now >= AssertionDeadline(e) /\ o = "Void"
             \/ c.phase = "Asserted" /\ now >= c.challengeUntil /\ o = c.proposal
             \/ c.phase = "Disputed" /\ now >= c.voteUntil /\ o = "Void"
    BY DEF Finalize, Outcome, CaseInv, PhaseShape
  <1>3. c.phase # "Finalized" /\ \A p \in Outcome : votes[e][p] < Quorum
    <2>1. c.phase # "Finalized"
      BY <1>2
    <2>2. QED
      BY <2>1, QuorumPositive, CaseNumbers DEF CaseInv, QuorumDecides
  <1>4. PhaseShape(e)'
    <2>1. ObservationEnd[e] <= now
      BY <1>2, CaseNumbers DEF CaseInv, PhaseShape
    <2>2. QED
      BY <1>1, <1>2, <2>1, FinishCase DEF PhaseShape
  <1>5. QuorumDecides(e)'
    BY <1>1, <1>3, CaseNumbers, QuorumPositive DEF QuorumDecides, Quorum
  <1>6. Reason(e)'
    <2>1. CASE c.phase = "Pending"
      <3>1. Unclaimed(e)'
        BY <1>1, <1>2, <2>1, FinishCase
        DEF CaseInv, PhaseShape, Unclaimed, AssertionDeadline
      <3>2. QED
        BY <3>1 DEF Reason
    <2>2. CASE c.phase = "Asserted"
      <3>1. Unchallenged(e)'
        BY <1>1, <1>2, <2>2, FinishCase, AccountAssumption
        DEF CaseInv, PhaseShape, Unchallenged
      <3>2. QED
        BY <3>1 DEF Reason
    <2>3. CASE c.phase = "Disputed"
      <3>1. Undecided(e)'
        BY <1>1, <1>2, <1>3, <2>3, FinishCase, AccountAssumption
        DEF CaseInv, PhaseShape, Undecided, Quorum
      <3>2. QED
        BY <3>1 DEF Reason
    <2>4. QED
      BY <1>2, <2>1, <2>2, <2>3
  <1>7. Counted(e)'
    BY <1>1 DEF CaseInv, Counted
  <1>8. \A f \in Event \ {e} : CaseUnchanged(f)
    BY <1>1, <1>2, FinishCase DEF CaseUnchanged
  <1>9. QED
    BY <1>4, <1>5, <1>6, <1>7, <1>8 DEF CaseInv

LEMMA VoteStep ==
  ASSUME TypeOK, NEW e \in Event, NEW a \in Account, NEW o \in Outcome,
         CaseInv(e), Vote(e, a, o)
  PROVE  CaseInv(e)' /\ \A f \in Event \ {e} : CaseUnchanged(f)
  <1> DEFINE c == cases[e]
  <1>1. c.phase = "Disputed" /\ now' = now
    BY DEF Vote, VotingOpen
  <1>2. /\ votes'[e][o] = votes[e][o] + 1
        /\ \A p \in Outcome \ {o} : votes'[e][p] = votes[e][p]
        /\ voted'[e] = voted[e] \cup {a} /\ a \notin voted[e]
        /\ \A f \in Event \ {e} : votes'[f] = votes[f] /\ voted'[f] = voted[f]
    BY DEF Vote, MayVote, TypeOK
  <1>3. \A p \in Outcome : votes[e][p] < Quorum
    BY <1>1, QuorumPositive, CaseNumbers DEF CaseInv, QuorumDecides
  <1>4. Counted(e)'
    <2>1. Cardinality(voted'[e]) = Cardinality(voted[e]) + 1
      BY <1>2, CaseNumbers, FS_AddElement
    <2>2. Cardinality(voted[e]) \in Nat
      BY CaseNumbers, FS_CardinalityType
    <2>3. votes[e]["No"] + votes[e]["Yes"] + votes[e]["Void"] = Cardinality(voted[e])
      BY DEF CaseInv, Counted
    <2>4. votes[e]["No"] \in Nat /\ votes[e]["Yes"] \in Nat /\ votes[e]["Void"] \in Nat
      BY CaseNumbers DEF Outcome
    <2>5. o \in {"No", "Yes", "Void"}
      BY DEF Outcome
    <2>6. votes'[e]["No"] + votes'[e]["Yes"] + votes'[e]["Void"]
            = votes[e]["No"] + votes[e]["Yes"] + votes[e]["Void"] + 1
      BY <1>2, <2>4, <2>5 DEF Outcome
    <2>7. QED
      BY <2>1, <2>3, <2>6 DEF Counted
  <1>5. CASE votes[e][o] + 1 = Quorum
    <2>1. PICK t \in BOOLEAN : Finish(e, o, t)
      BY <1>5 DEF Vote
    <2>2. PhaseShape(e)'
      BY <1>1, <2>1, FinishCase DEF CaseInv, PhaseShape
    <2>3. QuorumDecides(e)'
      BY <1>2, <1>3, <2>1, FinishCase, CaseNumbers, QuorumPositive DEF QuorumDecides, Quorum
    <2>4. Reason(e)'
      <3>1. Ruled(e)'
        BY <1>1, <1>2, <1>5, <2>1, FinishCase, QuorumPositive, AccountAssumption
        DEF CaseInv, PhaseShape, Ruled, Quorum
      <3>2. QED
        BY <3>1 DEF Reason
    <2>5. \A f \in Event \ {e} : CaseUnchanged(f)
      BY <1>2, <2>1, FinishCase DEF CaseUnchanged
    <2>6. QED
      BY <1>4, <2>2, <2>3, <2>4, <2>5 DEF CaseInv
  <1>6. CASE votes[e][o] + 1 # Quorum
    <2>1. cases' = cases
      BY <1>6 DEF Vote
    <2>2. PhaseShape(e)'
      BY <1>1, <2>1 DEF CaseInv, PhaseShape, AssertionDeadline
    <2>3. QuorumDecides(e)'
      BY <1>2, <1>3, <1>6, CaseNumbers, QuorumPositive DEF QuorumDecides, Quorum
    <2>4. Reason(e)'
      BY <1>1, <2>1 DEF Reason
    <2>5. \A f \in Event \ {e} : CaseUnchanged(f)
      BY <1>2, <2>1 DEF CaseUnchanged
    <2>6. QED
      BY <1>4, <2>2, <2>3, <2>4, <2>5 DEF CaseInv
  <1>7. QED
    BY <1>5, <1>6

-----------------------------------------------------------------------------
(* The invariant, and what follows from it.                                 *)

LEMMA InvInit == Init => IInv
  <1> SUFFICES ASSUME Init PROVE IInv
    OBVIOUS
  <1>1. TypeOK
    BY InitType
  <1>2. ASSUME NEW e \in Event PROVE CaseInv(e)
    <2>1. cases[e] = NewCase
      BY <1>2 DEF Init
    <2>2. /\ cases[e].phase = "Pending" /\ cases[e].result = Unset
          /\ cases[e].asserter = NoAccount /\ cases[e].disputer = NoAccount
          /\ cases[e].proposal = Unset /\ cases[e].counter = Unset
      BY <2>1 DEF NewCase
    <2>3. (\A o \in Outcome : votes[e][o] = 0) /\ voted[e] = {}
      BY DEF Init
    <2>4. PhaseShape(e)
      BY <2>2, <2>3 DEF PhaseShape
    <2>5. QuorumDecides(e)
      BY <2>3, QuorumPositive DEF QuorumDecides
    <2>6. Reason(e)
      BY <2>2 DEF Reason
    <2>7. Counted(e)
      BY <2>3, FS_EmptySet DEF Counted, Outcome
    <2>8. QED
      BY <2>4, <2>5, <2>6, <2>7 DEF CaseInv
  <1>3. QED
    BY <1>1, <1>2 DEF IInv, Init

LEMMA InvStep == IInv /\ [Next]_vars => IInv'
  <1> SUFFICES ASSUME IInv, [Next]_vars PROVE IInv'
    OBVIOUS
  <1>1. TypeOK /\ TypeOK'
    BY TypeStep DEF IInv
  <1>2. \A e \in Event : CaseInv(e)
    BY DEF IInv
  <1>3. now' >= now
    <2>1. now \in Nat /\ (now' = now \/ now' = now + 1)
      BY <1>1 DEF TypeOK, Next, Tick, Fund, BindPool, Deliver, Finalize, AssertOutcome,
                  Dispute, Vote, WithdrawBond, vars
    <2>2. QED
      BY <2>1
  <1>4. (resolved = delivered)'
    BY DEF IInv, Next, Tick, Fund, BindPool, Deliver, Finalize, AssertOutcome, Dispute,
           Vote, WithdrawBond, vars, poolVars
  <1>5. ASSUME \A f \in Event : CaseUnchanged(f) PROVE \A f \in Event : CaseInv(f)'
    BY <1>1, <1>2, <1>3, <1>5, Frame
  <1>6. ASSUME NEW e \in Event, CaseInv(e)', \A f \in Event \ {e} : CaseUnchanged(f)
        PROVE  \A f \in Event : CaseInv(f)'
    BY <1>1, <1>2, <1>3, <1>6, Frame
  <1>7. \A f \in Event : CaseInv(f)'
    <2>1. CASE Tick \/ Fund \/ BindPool \/ Deliver \/ UNCHANGED vars
      BY <2>1, <1>5 DEF Tick, Fund, BindPool, Deliver, caseVars, vars, CaseUnchanged
    <2>2. ASSUME NEW e \in Event, Finalize(e) PROVE \A f \in Event : CaseInv(f)'
      BY <1>1, <1>2, <1>6, <2>2, FinalizeStep
    <2>3. ASSUME NEW e \in Event, NEW a \in Account, NEW o \in Outcome,
                 AssertOutcome(e, a, o)
          PROVE  \A f \in Event : CaseInv(f)'
      BY <1>1, <1>2, <1>6, <2>3, AssertStep
    <2>4. ASSUME NEW e \in Event, NEW a \in Account, NEW o \in Outcome, Dispute(e, a, o)
          PROVE  \A f \in Event : CaseInv(f)'
      BY <1>1, <1>2, <1>6, <2>4, DisputeStep
    <2>5. ASSUME NEW e \in Event, NEW a \in Account, NEW o \in Outcome, Vote(e, a, o)
          PROVE  \A f \in Event : CaseInv(f)'
      BY <1>1, <1>2, <1>6, <2>5, VoteStep
    <2>6. ASSUME NEW a \in Account, WithdrawBond(a) PROVE \A f \in Event : CaseInv(f)'
      BY <1>5, <2>6 DEF WithdrawBond, caseVars, CaseUnchanged
    <2>7. QED
      BY <2>1, <2>2, <2>3, <2>4, <2>5, <2>6 DEF Next
  <1>8. QED
    BY <1>1, <1>4, <1>7 DEF IInv

LEMMA Invariance == Spec => []IInv
  BY InvInit, InvStep, PTL DEF Spec

\* A final case keeps its result, its parties and its ballots (finalize, vote
\* and deliver refuse it).
THEOREM FinalResultKept == Spec => ResultIsFinal
  <1>1. TypeOK /\ [Next]_vars
          => [\A e \in Event : cases[e].phase = "Finalized"
                => cases'[e] = cases[e] /\ votes'[e] = votes[e] /\ voted'[e] = voted[e]]_vars
    BY FinalFrame DEF CaseUnchanged
  <1>2. QED
    BY <1>1, TypeCorrect, PTL DEF Spec, ResultIsFinal

\* Every result is the unclaimed event's Void, an unchallenged claim, the
\* ruling of a majority of the panel, or Void for want of one; and a majority
\* is decisive at once (vote, finalize: PilotResolver.sol:147-175).
THEOREM EveryResultJustified == Spec => []ResultJustified
  <1>1. IInv => ResultJustified
    <2> SUFFICES ASSUME IInv, NEW e \in Event
                 PROVE  LET c == cases[e] IN
                        /\ c.phase = "Finalized" =>
                             \/ /\ c.asserter = NoAccount /\ c.result = "Void"
                                /\ now >= AssertionDeadline(e)
                             \/ /\ c.asserter # NoAccount /\ c.disputer = NoAccount
                                /\ c.result = c.proposal /\ now >= c.challengeUntil
                             \/ c.disputer # NoAccount /\ Majority(e, c.result)
                             \/ /\ c.disputer # NoAccount /\ c.result = "Void"
                                /\ now >= c.voteUntil
                                /\ \A o \in Outcome : ~Majority(e, o)
                        /\ \A o \in Outcome :
                             Majority(e, o) => c.phase = "Finalized" /\ c.result = o
      BY DEF ResultJustified
    <2>1. TypeOK /\ CaseInv(e)
      BY DEF IInv
    <2>2. \A o \in Outcome : Majority(e, o) => cases[e].phase = "Finalized" /\ cases[e].result = o
      BY <2>1, QuorumIsMajority DEF CaseInv, QuorumDecides
    <2>3. ASSUME cases[e].phase = "Finalized", Ruled(e) PROVE Majority(e, cases[e].result)
      BY <2>1, <2>3, QuorumIsMajority DEF CaseInv, PhaseShape, Ruled
    <2>4. ASSUME Undecided(e) PROVE \A o \in Outcome : ~Majority(e, o)
      BY <2>1, <2>4, QuorumIsMajority, QuorumPositive, CaseNumbers DEF Undecided
    <2>5. QED
      BY <2>1, <2>2, <2>3, <2>4
      DEF CaseInv, Reason, Unclaimed, Unchallenged, Ruled, Undecided
  <1>2. QED
    BY <1>1, Invariance, PTL

\* The ballots of a case are its voters, each once.
THEOREM OneBallotEach == Spec => []BallotsCounted
  <1>1. IInv => BallotsCounted
    BY DEF IInv, CaseInv, Counted, BallotsCounted
  <1>2. QED
    BY <1>1, Invariance, PTL

\* No deadline of a case leaves the horizon checked by the constructor.
THEOREM DeadlinesBounded == Spec => []WithinHorizon
  <1>1. IInv => WithinHorizon
    BY DEF IInv, CaseInv, PhaseShape, WithinHorizon
  <1>2. QED
    BY <1>1, Invariance, PTL

\* When every case is final the pool accepts the delivery: it is funded and
\* unresolved, it closed before any outcome could be asserted, and no event is
\* both YES and void.
THEOREM DeliveryAccepted == Spec => []DeliveryNotRefused
  <1>1. IInv => DeliveryNotRefused
    <2> SUFFICES ASSUME IInv, RequireActive, \A e \in Event : cases[e].phase = "Finalized"
                 PROVE  PoolAccepts(Results("Yes"), Results("Void"))
      BY DEF DeliveryNotRefused
    <2>1. funded /\ ~resolved
      BY DEF IInv, RequireActive
    <2>2. PICK e \in Event : TRUE
      BY EventAssumption
    <2>3. ObservationEnd[e] <= now /\ ObservationEnd[e] > ClosesAt
      BY TimeAssumption DEF IInv, CaseInv, PhaseShape
    <2>4. now >= ClosesAt
      BY <2>3, CaseNumbers, TimeAssumption DEF IInv
    <2>5. Results("Yes") \cap Results("Void") = {}
      BY DEF Results
    <2>6. QED
      BY <2>1, <2>4, <2>5 DEF PoolAccepts
  <1>2. QED
    BY <1>1, Invariance, PTL

-----------------------------------------------------------------------------
(* The refinement of EventSettlement.                                        *)

LEMMA RefineInit == Init => Settlement!Init
  <1> SUFFICES ASSUME Init PROVE Settlement!Init
    OBVIOUS
  <1>1. \A e \in Event : /\ cases[e].proposal = Unset /\ cases[e].counter = Unset
                         /\ cases[e].result = Unset
    BY DEF Init, NewCase
  <1>2. Unset = Settlement!Unset
    BY DEF Unset, Settlement!Unset
  <1>3. QED
    BY <1>1, <1>2 DEF Init, Settlement!Init

LEMMA SameOutcomes == Outcome = Settlement!Outcome /\ Unset = Settlement!Unset
                      /\ \A o \in Outcome : o # Unset
  BY DEF Outcome, Unset, Settlement!Outcome, Settlement!Unset

LEMMA RefineAssert ==
  ASSUME IInv, NEW e \in Event, NEW a \in Account, NEW o \in Outcome, AssertOutcome(e, a, o)
  PROVE  Settlement!MakeClaim(e, o)
  <1>1. /\ cases[e] \in Case /\ cases[e].phase = "Pending"
        /\ cases[e].proposal = Unset /\ cases[e].result = Unset
    BY CaseNumbers DEF IInv, CaseInv, PhaseShape, AssertOutcome
  <1>2. /\ cases'[e].proposal = o /\ cases'[e].counter = cases[e].counter
        /\ cases'[e].result = cases[e].result
    BY <1>1 DEF AssertOutcome, IInv, TypeOK, Case
  <1>3. \A f \in Event \ {e} : cases'[f] = cases[f]
    BY DEF AssertOutcome, IInv, TypeOK
  <1>4. UNCHANGED <<resolved, resolvedState, voidMask>>
    BY DEF AssertOutcome, poolVars
  <1>5. QED
    BY <1>1, <1>2, <1>3, <1>4, SameOutcomes DEF Settlement!MakeClaim

LEMMA RefineDispute ==
  ASSUME IInv, NEW e \in Event, NEW a \in Account, NEW o \in Outcome, Dispute(e, a, o)
  PROVE  Settlement!Counter(e, o)
  <1>1. /\ cases[e] \in Case /\ cases[e].phase = "Asserted"
        /\ cases[e].proposal \in Outcome /\ cases[e].proposal # o
        /\ cases[e].counter = Unset /\ cases[e].result = Unset
    BY CaseNumbers DEF IInv, CaseInv, PhaseShape, Dispute, ChallengeOpen
  <1>2. /\ cases'[e].proposal = cases[e].proposal /\ cases'[e].counter = o
        /\ cases'[e].result = cases[e].result
    BY <1>1 DEF Dispute, IInv, TypeOK, Case
  <1>3. \A f \in Event \ {e} : cases'[f] = cases[f]
    BY DEF Dispute, IInv, TypeOK
  <1>4. UNCHANGED <<resolved, resolvedState, voidMask>>
    BY DEF Dispute, poolVars
  <1>5. QED
    BY <1>1, <1>2, <1>3, <1>4, SameOutcomes DEF Settlement!Counter

\* finish decides: by silence, by consent, or once the claim was countered.
LEMMA RefineFinish ==
  ASSUME IInv, NEW e \in Event, NEW o \in Outcome, NEW t \in BOOLEAN, Finish(e, o, t),
         UNCHANGED <<resolved, resolvedState, voidMask>>,
         \/ cases[e].phase = "Pending" /\ o = "Void"
         \/ cases[e].phase = "Asserted" /\ o = cases[e].proposal
         \/ cases[e].phase = "Disputed"
  PROVE  Settlement!Decide(e, o)
  <1>1. TypeOK
    BY DEF IInv
  <1>2. /\ cases[e].result = Unset
        /\ \/ cases[e].proposal = Unset /\ o = "Void"
           \/ cases[e].proposal = o /\ cases[e].counter = Unset
           \/ cases[e].counter # Unset
    BY SameOutcomes DEF IInv, CaseInv, PhaseShape
  <1>3. /\ cases'[e].result = o
        /\ cases'[e].proposal = cases[e].proposal /\ cases'[e].counter = cases[e].counter
        /\ \A f \in Event \ {e} : cases'[f] = cases[f]
    BY <1>1, FinishCase
  <1>4. QED
    BY <1>2, <1>3, SameOutcomes DEF Settlement!Decide

LEMMA RefineDeliver ==
  ASSUME IInv, Deliver
  PROVE  Settlement!Publish
  <1>1. ~resolved /\ \A e \in Event : cases[e].result \in Outcome
    BY DEF IInv, CaseInv, PhaseShape, Deliver, AllFinal, RequireActive
  <1>2. cases' = cases
    BY DEF Deliver, caseVars
  <1>3. QED
    BY <1>1, <1>2, SameOutcomes DEF Deliver, Results, Settlement!Publish

LEMMA RefineStep == IInv /\ [Next]_vars => [Settlement!Next]_(Settlement!vars)
  <1> SUFFICES ASSUME IInv, [Next]_vars PROVE Settlement!Next \/ UNCHANGED Settlement!vars
    OBVIOUS
  <1> USE SameOutcomes
  <1>1. CASE Deliver
    BY <1>1, RefineDeliver DEF Settlement!Next
  <1>2. ASSUME NEW e \in Event, Finalize(e) PROVE Settlement!Next
    <2>1. PICK o \in Outcome, t \in BOOLEAN :
            /\ Finish(e, o, t)
            /\ \/ cases[e].phase = "Pending" /\ o = "Void"
               \/ cases[e].phase = "Asserted" /\ o = cases[e].proposal
               \/ cases[e].phase = "Disputed"
      BY <1>2 DEF Finalize, Outcome, IInv, CaseInv, PhaseShape
    <2>2. UNCHANGED <<resolved, resolvedState, voidMask>>
      BY <1>2 DEF Finalize, poolVars
    <2>3. QED
      BY <2>1, <2>2, RefineFinish DEF Settlement!Next
  <1>3. ASSUME NEW e \in Event, NEW a \in Account, NEW o \in Outcome, AssertOutcome(e, a, o)
        PROVE  Settlement!Next
    BY <1>3, RefineAssert DEF Settlement!Next
  <1>4. ASSUME NEW e \in Event, NEW a \in Account, NEW o \in Outcome, Dispute(e, a, o)
        PROVE  Settlement!Next
    BY <1>4, RefineDispute DEF Settlement!Next
  <1>5. ASSUME NEW e \in Event, NEW a \in Account, NEW o \in Outcome, Vote(e, a, o)
        PROVE  Settlement!Next \/ UNCHANGED Settlement!vars
    <2>1. cases[e].phase = "Disputed" /\ UNCHANGED <<resolved, resolvedState, voidMask>>
      BY <1>5 DEF Vote, VotingOpen, poolVars
    <2>2. CASE votes[e][o] + 1 = Quorum
      <3>1. PICK t \in BOOLEAN : Finish(e, o, t)
        BY <1>5, <2>2 DEF Vote
      <3>2. QED
        BY <2>1, <3>1, RefineFinish DEF Settlement!Next
    <2>3. CASE votes[e][o] + 1 # Quorum
      BY <1>5, <2>1, <2>3 DEF Vote, Settlement!vars
    <2>4. QED
      BY <2>2, <2>3
  <1>6. CASE Tick \/ Fund \/ BindPool \/ (\E a \in Account : WithdrawBond(a)) \/ UNCHANGED vars
    BY <1>6 DEF Tick, Fund, BindPool, WithdrawBond, vars, caseVars, poolVars, Settlement!vars
  <1>7. QED
    BY <1>1, <1>2, <1>3, <1>4, <1>5, <1>6 DEF Next

\* The resolver's transactions carry out the abstract settlement: an event is
\* claimed and countered at most once, decided once, and the decided vector is
\* published once (assertOutcome, dispute, finish, deliver).
THEOREM ResolverImplementsSettlement == Spec => ImplementsSettlement
  BY RefineInit, RefineStep, Invariance, PTL DEF Spec, ImplementsSettlement, Settlement!Spec

-----------------------------------------------------------------------------
(* The bonds.                                                                *)

-----------------------------------------------------------------------------
(* The inductive invariant.                                                 *)

\* A role's bond exists once the role is taken, and is locked until the case
\* is final; until then it is its poster's.
UnitShape(e) ==
  LET phase == cases[e].phase IN
  /\ phase = "Pending" => custody[<<e, "asserter">>].state = "none"
  /\ phase \in {"Pending", "Asserted"} => custody[<<e, "disputer">>].state = "none"
  /\ custody[<<e, "asserter">>].state = "locked" <=> phase \in {"Asserted", "Disputed"}
  /\ custody[<<e, "disputer">>].state = "locked" <=> phase = "Disputed"

Counters ==
  /\ lockedBonds = Cardinality(UnitsIn("locked"))
  /\ totalCredits = Cardinality(UnitsIn("credited"))
  /\ \A a \in Account : credits[a] = Cardinality(CreditedTo(a))

Books ==
  /\ held = lockedBonds + totalCredits
  /\ Counters
  /\ \A e \in Event : UnitShape(e)

BondInv == IInv /\ Books

-----------------------------------------------------------------------------
(* Sets of bonds.                                                           *)

LEMMA UnitFinite == IsFiniteSet(Unit)
  <1>1. IsFiniteSet(Role)
    <2>1. Role = {"asserter"} \cup {"disputer"}
      BY DEF Role
    <2>2. IsFiniteSet({"asserter"}) /\ IsFiniteSet({"disputer"})
      BY FS_Singleton
    <2>3. QED
      BY <2>1, <2>2, FS_Union
  <1>2. QED
    BY <1>1, EventAssumption, FS_Product DEF Unit

LEMMA UnitSetsFinite ==
  /\ \A s : IsFiniteSet(UnitsIn(s)) /\ UnitsIn(s) \subseteq Unit
  /\ \A a : IsFiniteSet(CreditedTo(a)) /\ CreditedTo(a) \subseteq UnitsIn("credited")
  <1>1. \A s : UnitsIn(s) \subseteq Unit
    BY DEF UnitsIn
  <1>2. \A a : CreditedTo(a) \subseteq UnitsIn("credited")
    BY DEF CreditedTo
  <1>3. \A s : IsFiniteSet(UnitsIn(s))
    BY <1>1, UnitFinite, FS_Subset
  <1>4. \A a : IsFiniteSet(CreditedTo(a))
    BY <1>2, <1>3, FS_Subset
  <1>5. QED
    BY <1>1, <1>2, <1>3, <1>4

\* How many elements a set has after k of its own left or k others came.
LEMMA CardinalityUnion ==
  ASSUME NEW S, NEW T, IsFiniteSet(S), IsFiniteSet(T), S \cap T = {}
  PROVE  IsFiniteSet(S \cup T) /\ Cardinality(S \cup T) = Cardinality(S) + Cardinality(T)
  <1>1. /\ Cardinality(S) \in Nat /\ Cardinality(T) \in Nat
        /\ Cardinality(S \cap T) = 0
    BY FS_CardinalityType, FS_EmptySet
  <1>2. /\ IsFiniteSet(S \cup T)
        /\ Cardinality(S \cup T) = Cardinality(S) + Cardinality(T) - Cardinality(S \cap T)
    BY FS_Union
  <1>3. QED
    BY <1>1, <1>2

LEMMA CardinalityDifference ==
  ASSUME NEW S, NEW T \in SUBSET S, IsFiniteSet(S)
  PROVE  Cardinality(S \ T) = Cardinality(S) - Cardinality(T)
  <1>1. S \cap T = T
    OBVIOUS
  <1>2. QED
    BY <1>1, FS_Difference

LEMMA CardinalityPair ==
  ASSUME NEW x, NEW y, x # y
  PROVE  IsFiniteSet({x, y}) /\ Cardinality({x, y}) = 2
  <1>1. {x} \cap {y} = {} /\ {x, y} = {x} \cup {y}
    OBVIOUS
  <1>2. /\ IsFiniteSet({x}) /\ Cardinality({x}) = 1
        /\ IsFiniteSet({y}) /\ Cardinality({y}) = 1
    BY FS_Singleton
  <1>3. /\ IsFiniteSet({x} \cup {y})
        /\ Cardinality({x} \cup {y}) = Cardinality({x}) + Cardinality({y})
    BY <1>1, <1>2, CardinalityUnion
  <1>4. QED
    BY <1>1, <1>2, <1>3

-----------------------------------------------------------------------------
(* Taking a bond.                                                           *)

LEMMA TakeCounters ==
  ASSUME TypeOK, Counters, held = lockedBonds + totalCredits,
         NEW e \in Event, NEW a \in Account, NEW role \in Role,
         custody[<<e, role>>].state = "none", TakeBond(a, e, role)
  PROVE  Counters' /\ (held = lockedBonds + totalCredits)'
  <1> DEFINE u == <<e, role>>
  <1>1. /\ u \in Unit /\ custody'[u] = [state |-> "locked", owner |-> a]
        /\ \A v \in Unit \ {u} : custody'[v] = custody[v]
    BY DEF TakeBond, TypeOK, Unit
  <1>2. UnitsIn("locked")' = UnitsIn("locked") \cup {u} /\ u \notin UnitsIn("locked")
    BY <1>1 DEF UnitsIn
  <1>3. UnitsIn("credited")' = UnitsIn("credited")
    BY <1>1 DEF UnitsIn
  <1>4. \A b : CreditedTo(b)' = CreditedTo(b)
    BY <1>1 DEF CreditedTo, UnitsIn
  <1>5. Cardinality(UnitsIn("locked")') = Cardinality(UnitsIn("locked")) + 1
    BY <1>2, UnitSetsFinite, FS_AddElement
  <1>6. QED
    BY <1>3, <1>4, <1>5 DEF Counters, TakeBond, TypeOK

-----------------------------------------------------------------------------
(* Finishing a case.                                                        *)

LockedOf(e) == {u \in UnitsIn("locked") : u[1] = e}

LEMMA LockedUnits ==
  ASSUME TypeOK, NEW e \in Event, UnitShape(e)
  PROVE  /\ LockedOf(e) = {u \in {<<e, "asserter">>} : cases[e].phase \in {"Asserted", "Disputed"}}
                          \cup {u \in {<<e, "disputer">>} : cases[e].phase = "Disputed"}
         /\ IsFiniteSet(LockedOf(e)) /\ Cardinality(LockedOf(e)) = Stake(cases[e].phase)
  <1> DEFINE x == <<e, "asserter">>
             y == <<e, "disputer">>
  <1>1. x # y /\ x \in Unit /\ y \in Unit /\ \A u \in Unit : u[1] = e => u \in {x, y}
    BY DEF Unit, Role
  <1>2. x[1] = e /\ y[1] = e
    OBVIOUS
  <1>3. LockedOf(e) = {u \in {x} : cases[e].phase \in {"Asserted", "Disputed"}}
                      \cup {u \in {y} : cases[e].phase = "Disputed"}
    BY <1>1, <1>2 DEF LockedOf, UnitsIn, UnitShape
  <1>4. CASE cases[e].phase = "Disputed"
    <2>1. LockedOf(e) = {x, y}
      BY <1>3, <1>4
    <2>2. IsFiniteSet({x, y}) /\ Cardinality({x, y}) = 2
      BY <1>1, CardinalityPair
    <2>3. QED
      BY <1>3, <1>4, <2>1, <2>2 DEF Stake
  <1>5. CASE cases[e].phase = "Asserted"
    <2>1. LockedOf(e) = {x}
      BY <1>3, <1>5
    <2>2. QED
      BY <1>3, <1>5, <2>1, FS_Singleton DEF Stake
  <1>6. CASE cases[e].phase \notin {"Asserted", "Disputed"}
    <2>1. LockedOf(e) = {}
      BY <1>3, <1>6
    <2>2. QED
      BY <1>3, <1>6, <2>1, FS_EmptySet DEF Stake
  <1>7. QED
    BY <1>4, <1>5, <1>6

\* The bonds of a finished case that go to a.
WonBy(a, e, o, t) == {u \in LockedOf(e) : Beneficiary(cases[e], u[2], o, t) = a}

LEMMA FinishCustody ==
  ASSUME TypeOK, NEW e \in Event, NEW o \in Outcome, NEW t \in BOOLEAN, Finish(e, o, t)
  PROVE  /\ UnitsIn("locked")' = UnitsIn("locked") \ LockedOf(e)
         /\ UnitsIn("credited")' = UnitsIn("credited") \cup LockedOf(e)
         /\ \A a : CreditedTo(a)' = CreditedTo(a) \cup WonBy(a, e, o, t)
  <1> DEFINE B(role) == Beneficiary(cases[e], role, o, t)
  <1>1. \A u \in Unit :
          IF u \in LockedOf(e) THEN custody'[u] = [state |-> "credited", owner |-> B(u[2])]
          ELSE custody'[u] = custody[u]
    BY DEF Finish, LockedOf, UnitsIn
  <1>2. LockedOf(e) \subseteq UnitsIn("locked")
    BY DEF LockedOf
  <1> HIDE DEF B
  <1>3. /\ \A u \in LockedOf(e) : custody'[u].state = "credited" /\ custody'[u].owner = B(u[2])
        /\ \A u \in Unit \ LockedOf(e) : custody'[u] = custody[u]
    <2>1. LockedOf(e) \subseteq Unit
      BY <1>2 DEF UnitsIn
    <2>2. ASSUME NEW u \in LockedOf(e)
          PROVE  custody'[u].state = "credited" /\ custody'[u].owner = B(u[2])
      <3>1. custody'[u] = [state |-> "credited", owner |-> B(u[2])]
        BY <1>1, <2>1
      <3>2. QED
        BY <3>1
    <2>3. QED
      BY <1>1, <2>2
  <1>4. UnitsIn("locked")' = UnitsIn("locked") \ LockedOf(e)
    <2>1. \A u \in Unit : custody'[u].state = "locked"
                           <=> custody[u].state = "locked" /\ u \notin LockedOf(e)
      BY <1>3
    <2>2. QED
      BY <2>1 DEF UnitsIn
  <1>5. UnitsIn("credited")' = UnitsIn("credited") \cup LockedOf(e)
    BY <1>2, <1>3 DEF UnitsIn
  <1>6. ASSUME NEW a PROVE CreditedTo(a)' = CreditedTo(a) \cup {u \in LockedOf(e) : B(u[2]) = a}
    BY <1>2, <1>3 DEF CreditedTo, UnitsIn
  <1>7. QED
    BY <1>4, <1>5, <1>6 DEF WonBy, B

\* finish credits a with as many bonds as it wins.
Gain(a, e, o, t) ==
  LET c == cases[e] IN
  (IF Beneficiary(c, "asserter", o, t) = a THEN 1 ELSE 0)
  + (IF c.phase = "Disputed" /\ Beneficiary(c, "disputer", o, t) = a THEN 1 ELSE 0)

LEMMA GainCounts ==
  ASSUME TypeOK, NEW e \in Event, UnitShape(e), PhaseShape(e), cases[e].phase # "Finalized",
         NEW o \in Outcome, NEW t \in BOOLEAN, NEW a \in Account
  PROVE  /\ IsFiniteSet(WonBy(a, e, o, t))
         /\ Cardinality(WonBy(a, e, o, t)) = Gain(a, e, o, t)
  <1> DEFINE x == <<e, "asserter">>
             y == <<e, "disputer">>
             BA == Beneficiary(cases[e], "asserter", o, t)
             BD == Beneficiary(cases[e], "disputer", o, t)
             phase == cases[e].phase
  <1>0. phase \in {"Pending", "Asserted", "Disputed"}
    BY CaseNumbers DEF Case
  <1>1. x # y /\ x[2] = "asserter" /\ y[2] = "disputer"
    OBVIOUS
  <1>2. phase = "Pending" => BA # a
    BY AccountAssumption DEF PhaseShape, Beneficiary, Outcome, Unset
  <1>3. LockedOf(e) = {u \in {x} : phase \in {"Asserted", "Disputed"}}
                      \cup {u \in {y} : phase = "Disputed"}
    BY LockedUnits
  <1>4. WonBy(a, e, o, t) = {u \in {x} : phase \in {"Asserted", "Disputed"} /\ BA = a}
                            \cup {u \in {y} : phase = "Disputed" /\ BD = a}
    BY <1>1, <1>3 DEF WonBy
  <1>5. Gain(a, e, o, t) = (IF BA = a THEN 1 ELSE 0)
                           + (IF phase = "Disputed" /\ BD = a THEN 1 ELSE 0)
    BY DEF Gain
  <1>6. /\ IsFiniteSet({}) /\ Cardinality({}) = 0
        /\ IsFiniteSet({x}) /\ Cardinality({x}) = 1
        /\ IsFiniteSet({y}) /\ Cardinality({y}) = 1
        /\ IsFiniteSet({x, y}) /\ Cardinality({x, y}) = 2
    BY <1>1, FS_EmptySet, FS_Singleton, CardinalityPair
  <1> HIDE DEF x, y, BA, BD, phase
  <1>7. CASE BA = a /\ phase = "Disputed" /\ BD = a
    <2>1. WonBy(a, e, o, t) = {x, y}
      BY <1>4, <1>7
    <2>2. QED
      BY <1>5, <1>6, <1>7, <2>1
  <1>8. CASE BA = a /\ ~(phase = "Disputed" /\ BD = a)
    <2>1. WonBy(a, e, o, t) = {x}
      BY <1>0, <1>2, <1>4, <1>8
    <2>2. QED
      BY <1>5, <1>6, <1>8, <2>1
  <1>9. CASE BA # a /\ phase = "Disputed" /\ BD = a
    <2>1. WonBy(a, e, o, t) = {y}
      BY <1>4, <1>9
    <2>2. QED
      BY <1>5, <1>6, <1>9, <2>1
  <1>10. CASE BA # a /\ ~(phase = "Disputed" /\ BD = a)
    <2>1. WonBy(a, e, o, t) = {}
      BY <1>4, <1>10
    <2>2. QED
      BY <1>5, <1>6, <1>10, <2>1
  <1>11. QED
    BY <1>7, <1>8, <1>9, <1>10

LEMMA FinishCounters ==
  ASSUME TypeOK, Counters, held = lockedBonds + totalCredits,
         NEW e \in Event, UnitShape(e), PhaseShape(e), cases[e].phase # "Finalized",
         NEW o \in Outcome, NEW t \in BOOLEAN, Finish(e, o, t)
  PROVE  Counters' /\ (held = lockedBonds + totalCredits)'
  <1> DEFINE k == Stake(cases[e].phase)
  <1>1. LockedOf(e) \subseteq UnitsIn("locked")
    BY DEF LockedOf
  <1>2. IsFiniteSet(LockedOf(e)) /\ Cardinality(LockedOf(e)) = k
    BY LockedUnits
  <1>3. k \in Nat
    BY DEF Stake
  <1>4. /\ lockedBonds' = lockedBonds - k /\ totalCredits' = totalCredits + k /\ held' = held
        /\ \A a \in Account : credits'[a] = credits[a] + Gain(a, e, o, t)
    BY DEF Finish, CreditStake, Gain
  <1> HIDE DEF k
  <1>5. lockedBonds' = Cardinality(UnitsIn("locked")')
    <2>1. Cardinality(UnitsIn("locked") \ LockedOf(e)) = Cardinality(UnitsIn("locked")) - k
      BY <1>1, <1>2, CardinalityDifference, UnitSetsFinite
    <2>2. QED
      BY <1>4, <2>1, FinishCustody DEF Counters
  <1>6. totalCredits' = Cardinality(UnitsIn("credited")')
    <2>1. UnitsIn("credited") \cap LockedOf(e) = {}
      BY <1>1 DEF UnitsIn
    <2>2. Cardinality(UnitsIn("credited") \cup LockedOf(e)) = Cardinality(UnitsIn("credited")) + k
      BY <1>2, <2>1, CardinalityUnion, UnitSetsFinite
    <2>3. QED
      BY <1>4, <2>2, FinishCustody DEF Counters
  <1>7. ASSUME NEW a \in Account PROVE credits'[a] = Cardinality(CreditedTo(a)')
    <2>1. CreditedTo(a) \cap WonBy(a, e, o, t) = {}
      BY <1>1 DEF CreditedTo, WonBy, UnitsIn
    <2>2. /\ IsFiniteSet(WonBy(a, e, o, t))
          /\ Cardinality(WonBy(a, e, o, t)) = Gain(a, e, o, t)
      BY GainCounts
    <2>3. Cardinality(CreditedTo(a) \cup WonBy(a, e, o, t))
            = Cardinality(CreditedTo(a)) + Cardinality(WonBy(a, e, o, t))
      BY <2>1, <2>2, CardinalityUnion, UnitSetsFinite
    <2>4. CreditedTo(a)' = CreditedTo(a) \cup WonBy(a, e, o, t)
      BY FinishCustody
    <2>5. QED
      BY <1>4, <2>2, <2>3, <2>4 DEF Counters
  <1>8. (held = lockedBonds + totalCredits)'
    BY <1>3, <1>4 DEF TypeOK
  <1>9. QED
    BY <1>5, <1>6, <1>7, <1>8 DEF Counters

-----------------------------------------------------------------------------
(* Withdrawing.                                                             *)

LEMMA WithdrawCounters ==
  ASSUME TypeOK, Counters, held = lockedBonds + totalCredits,
         NEW a \in Account, WithdrawBond(a)
  PROVE  Counters' /\ (held = lockedBonds + totalCredits)'
  <1>1. \A u \in Unit :
          IF custody[u].state = "credited" /\ custody[u].owner = a
          THEN custody'[u] = [custody[u] EXCEPT !.state = "paid"] ELSE custody'[u] = custody[u]
    BY DEF WithdrawBond
  <1>2. \A u \in Unit : custody[u] \in [state : {"none", "locked", "credited", "paid"},
                                        owner : Account \cup {NoAccount}]
    BY DEF TypeOK
  <1>3. /\ \A u \in CreditedTo(a) : custody'[u].state = "paid"
        /\ \A u \in Unit \ CreditedTo(a) : custody'[u] = custody[u]
    BY <1>1, <1>2 DEF CreditedTo, UnitsIn
  <1>4. /\ CreditedTo(a) \subseteq UnitsIn("credited")
        /\ \A u \in CreditedTo(a) : custody[u].owner = a
        /\ \A s : UnitsIn(s) \subseteq Unit
    BY DEF CreditedTo, UnitsIn
  <1>5. UnitsIn("locked")' = UnitsIn("locked")
    BY <1>3, <1>4 DEF UnitsIn
  <1>6. UnitsIn("credited")' = UnitsIn("credited") \ CreditedTo(a)
    BY <1>3, <1>4 DEF UnitsIn
  <1>7. CreditedTo(a)' = {}
    BY <1>3, <1>4, <1>6 DEF CreditedTo
  <1>8. \A b \in Account \ {a} : CreditedTo(b)' = CreditedTo(b)
    BY <1>3, <1>4, <1>6 DEF CreditedTo
  <1>9. Cardinality(UnitsIn("credited")') = Cardinality(UnitsIn("credited")) - credits[a]
    BY <1>4, <1>6, CardinalityDifference, UnitSetsFinite DEF Counters
  <1>10. /\ lockedBonds' = lockedBonds /\ totalCredits' = totalCredits - credits[a]
         /\ held' = held - credits[a]
         /\ credits'[a] = 0 /\ \A b \in Account \ {a} : credits'[b] = credits[b]
    BY DEF WithdrawBond, TypeOK
  <1>11. Counters'
    <2>1. \A b \in Account : credits'[b] = Cardinality(CreditedTo(b)')
      BY <1>7, <1>8, <1>10, FS_EmptySet DEF Counters
    <2>2. QED
      BY <1>5, <1>9, <1>10, <2>1 DEF Counters
  <1>12. (held = lockedBonds + totalCredits)'
    BY <1>10 DEF TypeOK
  <1>13. QED
    BY <1>11, <1>12

-----------------------------------------------------------------------------
(* The invariant.                                                           *)

LEMMA BondInit == Init => BondInv
  <1> SUFFICES ASSUME Init PROVE BondInv
    OBVIOUS
  <1>1. \A u \in Unit : custody[u].state = "none"
    BY DEF Init
  <1>2. UnitsIn("locked") = {} /\ UnitsIn("credited") = {} /\ \A a : CreditedTo(a) = {}
    BY <1>1 DEF UnitsIn, CreditedTo
  <1>3. Counters
    BY <1>2, FS_EmptySet DEF Init, Counters
  <1>4. \A e \in Event : UnitShape(e)
    BY <1>1 DEF Init, NewCase, UnitShape, Unit, Role
  <1>5. QED
    BY <1>3, <1>4, InvInit DEF Init, Books, BondInv

LEMMA CustodyFrame ==
  ASSUME NEW f \in Event, UnitShape(f), cases'[f].phase = cases[f].phase,
         \A role \in Role :
           \/ custody'[<<f, role>>] = custody[<<f, role>>]
           \/ custody[<<f, role>>].state = "credited" /\ custody'[<<f, role>>].state = "paid"
  PROVE  UnitShape(f)'
  BY DEF UnitShape, Role

LEMMA FinishShape ==
  ASSUME TypeOK, \A f \in Event : UnitShape(f),
         NEW e \in Event, NEW o \in Outcome, NEW t \in BOOLEAN, Finish(e, o, t)
  PROVE  \A f \in Event : UnitShape(f)'
  <1>1. \A u \in Unit :
          /\ u[1] # e => custody'[u] = custody[u]
          /\ u[1] = e => custody'[u].state # "locked"
    <2> SUFFICES ASSUME NEW u \in Unit
                 PROVE  /\ u[1] # e => custody'[u] = custody[u]
                        /\ u[1] = e => custody'[u].state # "locked"
      OBVIOUS
    <2>1. CASE u[1] = e /\ custody[u].state = "locked"
      <3>1. PICK b : custody'[u] = [state |-> "credited", owner |-> b]
        BY <2>1 DEF Finish
      <3>2. QED
        BY <2>1, <3>1
    <2>2. CASE ~(u[1] = e /\ custody[u].state = "locked")
      BY <2>2 DEF Finish
    <2>3. QED
      BY <2>1, <2>2
  <1>2. \A f \in Event, role \in Role : <<f, role>> \in Unit /\ <<f, role>>[1] = f
    BY DEF Unit
  <1>3. UnitShape(e)'
    <2>1. /\ cases'[e].phase = "Finalized"
          /\ custody'[<<e, "asserter">>].state # "locked"
          /\ custody'[<<e, "disputer">>].state # "locked"
      BY <1>1, <1>2, FinishCase DEF Role
    <2>2. QED
      BY <2>1 DEF UnitShape
  <1>4. ASSUME NEW f \in Event \ {e} PROVE UnitShape(f)'
    BY <1>1, <1>2, FinishCase, CustodyFrame
  <1>5. QED
    BY <1>3, <1>4

LEMMA BondStep == BondInv /\ [Next]_vars => BondInv'
  <1> SUFFICES ASSUME BondInv, [Next]_vars PROVE BondInv'
    OBVIOUS
  <1>1. /\ IInv /\ IInv' /\ TypeOK /\ TypeOK'
        /\ Counters /\ held = lockedBonds + totalCredits
        /\ \A e \in Event : UnitShape(e)
    BY InvStep DEF BondInv, IInv, Books
  <1>2. \A e \in Event, role \in Role : <<e, role>> \in Unit
    BY DEF Unit
  <1>3. ASSUME UNCHANGED <<cases, bondVars>> PROVE Books'
    BY <1>1, <1>3 DEF Books, bondVars, Counters, UnitsIn, CreditedTo, UnitShape
  <1>4. ASSUME NEW e \in Event, NEW o \in Outcome, NEW t \in BOOLEAN, Finish(e, o, t),
               cases[e].phase # "Finalized"
        PROVE  Books'
    <2>1. PhaseShape(e)
      BY <1>1 DEF IInv, CaseInv
    <2>2. Counters' /\ (held = lockedBonds + totalCredits)'
      BY <1>1, <1>4, <2>1, FinishCounters
    <2>3. \A f \in Event : UnitShape(f)'
      BY <1>1, <1>4, FinishShape
    <2>4. QED
      BY <2>2, <2>3 DEF Books
  <1>5. ASSUME Tick \/ Fund \/ BindPool \/ Deliver \/ UNCHANGED vars PROVE Books'
    BY <1>3, <1>5 DEF Tick, Fund, BindPool, Deliver, vars, caseVars
  <1>6. ASSUME NEW e \in Event, Finalize(e) PROVE Books'
    <2>1. PICK o \in Outcome, t \in BOOLEAN : Finish(e, o, t)
      BY <1>1, <1>6 DEF Finalize, Outcome, IInv, CaseInv, PhaseShape
    <2>2. cases[e].phase # "Finalized"
      BY <1>6 DEF Finalize
    <2>3. QED
      BY <1>4, <2>1, <2>2
  <1>7. ASSUME NEW e \in Event, NEW a \in Account, NEW o \in Outcome, AssertOutcome(e, a, o)
        PROVE  Books'
    <2>1. cases[e].phase = "Pending" /\ TakeBond(a, e, "asserter")
      BY <1>7 DEF AssertOutcome
    <2>2. cases'[e].phase = "Asserted" /\ \A f \in Event \ {e} : cases'[f] = cases[f]
      BY <1>1, <1>7, CaseNumbers DEF AssertOutcome, TypeOK, Case
    <2>3. /\ custody'[<<e, "asserter">>].state = "locked"
          /\ \A u \in Unit \ {<<e, "asserter">>} : custody'[u] = custody[u]
      BY <1>1, <1>2, <2>1 DEF TakeBond, TypeOK, Role
    <2>4. UnitShape(e)'
      BY <1>1, <1>2, <2>1, <2>2, <2>3 DEF UnitShape, Role
    <2>5. ASSUME NEW f \in Event \ {e} PROVE UnitShape(f)'
      BY <1>1, <1>2, <2>2, <2>3, CustodyFrame
    <2>6. custody[<<e, "asserter">>].state = "none"
      BY <1>1, <2>1 DEF UnitShape
    <2>7. QED
      BY <1>1, <2>1, <2>4, <2>5, <2>6, TakeCounters DEF Role, Books
  <1>8. ASSUME NEW e \in Event, NEW a \in Account, NEW o \in Outcome, Dispute(e, a, o)
        PROVE  Books'
    <2>1. cases[e].phase = "Asserted" /\ TakeBond(a, e, "disputer")
      BY <1>8 DEF Dispute, ChallengeOpen
    <2>2. cases'[e].phase = "Disputed" /\ \A f \in Event \ {e} : cases'[f] = cases[f]
      BY <1>1, <1>8, CaseNumbers DEF Dispute, TypeOK, Case
    <2>3. /\ custody'[<<e, "disputer">>].state = "locked"
          /\ \A u \in Unit \ {<<e, "disputer">>} : custody'[u] = custody[u]
      BY <1>1, <1>2, <2>1 DEF TakeBond, TypeOK, Role
    <2>4. UnitShape(e)'
      BY <1>1, <1>2, <2>1, <2>2, <2>3 DEF UnitShape, Role
    <2>5. ASSUME NEW f \in Event \ {e} PROVE UnitShape(f)'
      BY <1>1, <1>2, <2>2, <2>3, CustodyFrame
    <2>6. custody[<<e, "disputer">>].state = "none"
      BY <1>1, <2>1 DEF UnitShape
    <2>7. QED
      BY <1>1, <2>1, <2>4, <2>5, <2>6, TakeCounters DEF Role, Books
  <1>9. ASSUME NEW e \in Event, NEW a \in Account, NEW o \in Outcome, Vote(e, a, o)
        PROVE  Books'
    <2>1. CASE votes[e][o] + 1 = Quorum
      <3>1. PICK t \in BOOLEAN : Finish(e, o, t)
        BY <1>9, <2>1 DEF Vote
      <3>2. cases[e].phase # "Finalized"
        BY <1>9 DEF Vote, VotingOpen
      <3>3. QED
        BY <1>4, <3>1, <3>2
    <2>2. CASE votes[e][o] + 1 # Quorum
      BY <1>3, <1>9, <2>2 DEF Vote
    <2>3. QED
      BY <2>1, <2>2
  <1>10. ASSUME NEW a \in Account, WithdrawBond(a) PROVE Books'
    <2>1. ASSUME NEW f \in Event PROVE UnitShape(f)'
      <3>1. \A role \in Role :
              \/ custody'[<<f, role>>] = custody[<<f, role>>]
              \/ custody[<<f, role>>].state = "credited" /\ custody'[<<f, role>>].state = "paid"
        BY <1>1, <1>2, <1>10 DEF WithdrawBond, TypeOK
      <3>2. cases' = cases
        BY <1>10 DEF WithdrawBond, caseVars
      <3>3. QED
        BY <1>1, <3>1, <3>2, CustodyFrame
    <2>2. QED
      BY <1>1, <1>10, <2>1, WithdrawCounters DEF Books
  <1>11. Books'
    BY <1>5, <1>6, <1>7, <1>8, <1>9, <1>10 DEF Next
  <1>12. QED
    BY <1>1, <1>11 DEF BondInv

LEMMA BondInvariance == Spec => []BondInv
  BY BondInit, BondStep, PTL DEF Spec

\* What the resolver holds is what it owes: the bonds locked in open cases and
\* those credited, counted per account, so no withdrawal and no finish can find
\* its counter too small (takeBond, finish, withdrawBond: PilotResolver.sol:191-221).
THEOREM BondsAccounted == Spec => []BondsBacked
  <1>1. BondInv => BondsBacked
    BY DEF BondInv, Books, Counters, BondsBacked
  <1>2. QED
    BY <1>1, BondInvariance, PTL

\* After the delivery nothing is left behind: every case is final, no bond is
\* locked, and the pool keeps the results it was given (deliver, lines 177-189,
\* after which finalize refuses every call).
THEOREM NothingLeftBehind == Spec => []SettlementMatches
  <1> DEFINE Matches ==
        resolved => AllFinal /\ resolvedState = Results("Yes") /\ voidMask = Results("Void")
  <1>1. Init => Matches
    BY DEF Init
  <1>2. BondInv /\ Matches /\ [Next]_vars => Matches'
    <2> SUFFICES ASSUME BondInv, Matches, [Next]_vars, resolved' PROVE Matches'
      OBVIOUS
    <2>1. CASE resolved
      <3>1. AllFinal /\ TypeOK /\ delivered
        BY <2>1 DEF BondInv, IInv
      <3>2. \A e \in Event : cases'[e] = cases[e]
        BY <3>1, FinalFrame DEF AllFinal, CaseUnchanged
      <3>3. UNCHANGED <<resolvedState, voidMask>>
        BY <3>1 DEF Next, Tick, Fund, BindPool, Deliver, Finalize, AssertOutcome, Dispute,
                    Vote, WithdrawBond, RequireActive, vars, poolVars
      <3>4. QED
        BY <2>1, <3>1, <3>2, <3>3 DEF AllFinal, Results
    <2>2. CASE ~resolved
      <3>1. Deliver
        BY <2>2 DEF Next, Tick, Fund, BindPool, Finalize, AssertOutcome, Dispute, Vote,
                    WithdrawBond, vars, poolVars
      <3>2. QED
        BY <3>1 DEF Deliver, AllFinal, Results, caseVars
    <2>3. QED
      BY <2>1, <2>2
  <1>3. BondInv /\ Matches => SettlementMatches
    <2> SUFFICES ASSUME BondInv, Matches PROVE SettlementMatches
      OBVIOUS
    <2>1. resolved = delivered
      BY DEF BondInv, IInv
    <2>2. ASSUME resolved PROVE lockedBonds = 0 /\ \A e \in Event : cases[e].result \in Outcome
      <3>1. \A e \in Event : cases[e].phase = "Finalized"
        BY <2>2 DEF AllFinal
      <3>2. \A e \in Event : cases[e].result \in Outcome
        BY <3>1 DEF BondInv, IInv, CaseInv, PhaseShape
      <3>3. \A u \in Unit : custody[u].state # "locked"
        <4>1. \A e \in Event, role \in Role : custody[<<e, role>>].state # "locked"
          BY <3>1 DEF BondInv, Books, UnitShape, Role
        <4>2. QED
          BY <4>1 DEF Unit
      <3>4. UnitsIn("locked") = {}
        BY <3>3 DEF UnitsIn
      <3>5. QED
        BY <3>2, <3>4, FS_EmptySet DEF BondInv, Books, Counters
    <2>3. QED
      BY <2>1, <2>2 DEF SettlementMatches
  <1>4. QED
    BY <1>1, <1>2, <1>3, BondInvariance, PTL DEF Spec

-----------------------------------------------------------------------------
(* Whose bond it is.                                                        *)

RuledAgainst(e, role) ==
  /\ Opposite(e, role) \in Outcome
  /\ votes[e][Opposite(e, role)] >= Quorum

\* Until its case is final a bond is its poster's, and it is another's only
\* after a ruling for the other side.
OwnerShape(e) ==
  \A role \in Role :
    custody[<<e, role>>].owner # Poster(e, role)
      => cases[e].phase = "Finalized" /\ RuledAgainst(e, role)

OwnerInv == BondInv /\ \A e \in Event : OwnerShape(e)

LEMMA OwnerFrame ==
  ASSUME NEW f \in Event, OwnerShape(f), CaseUnchanged(f),
         \A role \in Role : custody'[<<f, role>>].owner = custody[<<f, role>>].owner
  PROVE  OwnerShape(f)'
  BY DEF OwnerShape, CaseUnchanged, Poster, Opposite, RuledAgainst, Quorum

LEMMA OwnerFinish ==
  ASSUME IInv, NEW e \in Event, UnitShape(e), OwnerShape(e), cases[e].phase # "Finalized",
         NEW o \in Outcome, NEW t \in BOOLEAN, Finish(e, o, t),
         cases[e].phase = "Disputed" => t \/ votes'[e][o] >= Quorum
  PROVE  OwnerShape(e)'
  <1> DEFINE c == cases[e]
  <1>0. TypeOK /\ c \in Case
    BY CaseNumbers DEF IInv
  <1>1. ASSUME NEW role \in Role
        PROVE  custody'[<<e, role>>].owner =
                 IF custody[<<e, role>>].state = "locked" THEN Beneficiary(c, role, o, t)
                 ELSE custody[<<e, role>>].owner
    <2>1. <<e, role>> \in Unit /\ <<e, role>>[1] = e /\ <<e, role>>[2] = role
      BY DEF Unit
    <2>2. CASE custody[<<e, role>>].state = "locked"
      <3>1. custody'[<<e, role>>] = [state |-> "credited", owner |-> Beneficiary(c, role, o, t)]
        BY <2>1, <2>2 DEF Finish
      <3>2. QED
        BY <2>2, <3>1
    <2>3. CASE custody[<<e, role>>].state # "locked"
      BY <2>1, <2>3 DEF Finish
    <2>4. QED
      BY <2>2, <2>3
  <1>2. \A role \in Role : custody[<<e, role>>].owner = Poster(e, role)
    BY DEF OwnerShape
  <1>3. \A role \in Role : /\ Poster(e, role)' = Poster(e, role)
                           /\ Opposite(e, role)' = Opposite(e, role)
    <2>1. cases'[e] = [c EXCEPT !.phase = "Finalized", !.result = o]
      BY <1>0 DEF Finish, TypeOK
    <2>2. QED
      BY <1>0, <2>1 DEF Poster, Opposite, Case
  <1>4. ASSUME NEW role \in Role, custody[<<e, role>>].state = "locked",
               Beneficiary(c, role, o, t) # Poster(e, role)
        PROVE  Opposite(e, role) = o /\ votes'[e][o] >= Quorum
    <2>1. (c.phase = "Asserted" /\ role = "asserter") \/ c.phase = "Disputed"
      BY <1>4 DEF UnitShape, Role
    <2>2. c.phase = "Disputed" /\ ~t
      BY <1>4, <2>1 DEF Beneficiary, Poster, Role
    <2>3. Opposite(e, role) = o
      BY <1>4, <2>2 DEF Beneficiary, Poster, Opposite, Role
    <2>4. QED
      BY <2>2, <2>3
  <1>5. cases'[e].phase = "Finalized"
    BY <1>0, FinishCase
  <1>6. QED
    BY <1>1, <1>2, <1>3, <1>4, <1>5 DEF OwnerShape, RuledAgainst, Quorum

LEMMA OwnerStep == OwnerInv /\ [Next]_vars => OwnerInv'
  <1> SUFFICES ASSUME OwnerInv, [Next]_vars PROVE OwnerInv'
    OBVIOUS
  <1>1. /\ BondInv /\ BondInv' /\ IInv /\ TypeOK
        /\ \A e \in Event : UnitShape(e) /\ OwnerShape(e)
    BY BondStep DEF OwnerInv, BondInv, Books, IInv
  <1>2. \A e \in Event, role \in Role : <<e, role>> \in Unit /\ <<e, role>>[1] = e
    BY DEF Unit
  <1>3. ASSUME UNCHANGED <<cases, votes, voted>>,
               \A u \in Unit : custody'[u].owner = custody[u].owner
        PROVE  \A f \in Event : OwnerShape(f)'
    BY <1>1, <1>2, <1>3, OwnerFrame DEF CaseUnchanged
  <1>4. ASSUME NEW e \in Event, OwnerShape(e)', \A f \in Event \ {e} : CaseUnchanged(f),
               \A u \in Unit : u[1] # e => custody'[u].owner = custody[u].owner
        PROVE  \A f \in Event : OwnerShape(f)'
    BY <1>1, <1>2, <1>4, OwnerFrame
  <1>5. ASSUME Tick \/ Fund \/ BindPool \/ Deliver \/ UNCHANGED vars
        PROVE  \A f \in Event : OwnerShape(f)'
    BY <1>3, <1>5 DEF Tick, Fund, BindPool, Deliver, vars, caseVars, bondVars
  <1>6. ASSUME NEW e \in Event, Finalize(e) PROVE \A f \in Event : OwnerShape(f)'
    <2>1. PICK o \in Outcome, t \in BOOLEAN :
            Finish(e, o, t) /\ (cases[e].phase = "Disputed" => t)
      BY <1>1, <1>6 DEF Finalize, Outcome, IInv, CaseInv, PhaseShape
    <2>2. cases[e].phase # "Finalized"
      BY <1>6 DEF Finalize
    <2>3. OwnerShape(e)'
      BY <1>1, <2>1, <2>2, OwnerFinish
    <2>4. \A f \in Event \ {e} : CaseUnchanged(f)
      BY <1>1, <1>6, FinalizeStep DEF IInv
    <2>5. \A u \in Unit : u[1] # e => custody'[u].owner = custody[u].owner
      BY <2>1 DEF Finish
    <2>6. QED
      BY <1>4, <2>3, <2>4, <2>5
  <1>7. ASSUME NEW e \in Event, NEW a \in Account, NEW o \in Outcome, AssertOutcome(e, a, o)
        PROVE  \A f \in Event : OwnerShape(f)'
    <2>1. cases[e].phase = "Pending" /\ TakeBond(a, e, "asserter")
      BY <1>7 DEF AssertOutcome
    <2>2. /\ cases'[e].asserter = a /\ cases'[e].disputer = cases[e].disputer
          /\ cases'[e].phase = "Asserted"
      BY <1>1, <1>7, CaseNumbers DEF AssertOutcome, TypeOK, Case
    <2>3. /\ custody'[<<e, "asserter">>].owner = a
          /\ \A u \in Unit \ {<<e, "asserter">>} : custody'[u] = custody[u]
      BY <1>1, <1>2, <2>1 DEF TakeBond, TypeOK, Role
    <2>4. OwnerShape(e)'
      BY <1>1, <1>2, <2>1, <2>2, <2>3 DEF OwnerShape, Poster, Role
    <2>5. \A f \in Event \ {e} : CaseUnchanged(f)
      BY <1>1, <1>7, AssertStep DEF IInv
    <2>6. QED
      BY <1>4, <2>3, <2>4, <2>5
  <1>8. ASSUME NEW e \in Event, NEW a \in Account, NEW o \in Outcome, Dispute(e, a, o)
        PROVE  \A f \in Event : OwnerShape(f)'
    <2>1. cases[e].phase = "Asserted" /\ TakeBond(a, e, "disputer")
      BY <1>8 DEF Dispute, ChallengeOpen
    <2>2. /\ cases'[e].disputer = a /\ cases'[e].asserter = cases[e].asserter
          /\ cases'[e].phase = "Disputed"
      BY <1>1, <1>8, CaseNumbers DEF Dispute, TypeOK, Case
    <2>3. /\ custody'[<<e, "disputer">>].owner = a
          /\ \A u \in Unit \ {<<e, "disputer">>} : custody'[u] = custody[u]
      BY <1>1, <1>2, <2>1 DEF TakeBond, TypeOK, Role
    <2>4. OwnerShape(e)'
      BY <1>1, <1>2, <2>1, <2>2, <2>3 DEF OwnerShape, Poster, Role
    <2>5. \A f \in Event \ {e} : CaseUnchanged(f)
      BY <1>1, <1>8, DisputeStep DEF IInv
    <2>6. QED
      BY <1>4, <2>3, <2>4, <2>5
  <1>9. ASSUME NEW e \in Event, NEW a \in Account, NEW o \in Outcome, Vote(e, a, o)
        PROVE  \A f \in Event : OwnerShape(f)'
    <2>1. \A f \in Event \ {e} : CaseUnchanged(f)
      BY <1>1, <1>9, VoteStep DEF IInv
    <2>2. cases[e].phase = "Disputed"
      BY <1>9 DEF Vote, VotingOpen
    <2>3. CASE votes[e][o] + 1 = Quorum
      <3>1. PICK t \in BOOLEAN : Finish(e, o, t)
        BY <1>9, <2>3 DEF Vote
      <3>2. votes'[e][o] >= Quorum
        BY <1>1, <1>9, <2>3, QuorumPositive DEF Vote, TypeOK
      <3>3. OwnerShape(e)'
        BY <1>1, <2>2, <3>1, <3>2, OwnerFinish
      <3>4. \A u \in Unit : u[1] # e => custody'[u].owner = custody[u].owner
        BY <3>1 DEF Finish
      <3>5. QED
        BY <1>4, <2>1, <3>3, <3>4
    <2>4. CASE votes[e][o] + 1 # Quorum
      <3>1. UNCHANGED <<cases, custody>>
        BY <1>9, <2>4 DEF Vote, bondVars
      <3>2. OwnerShape(e)'
        BY <1>1, <2>2, <3>1 DEF OwnerShape, Poster
      <3>3. QED
        BY <1>4, <2>1, <3>1, <3>2
    <2>5. QED
      BY <2>3, <2>4
  <1>10. ASSUME NEW a \in Account, WithdrawBond(a) PROVE \A f \in Event : OwnerShape(f)'
    <2>1. \A u \in Unit : custody'[u].owner = custody[u].owner
      BY <1>1, <1>10 DEF WithdrawBond, TypeOK
    <2>2. UNCHANGED <<cases, votes, voted>>
      BY <1>10 DEF WithdrawBond, caseVars
    <2>3. QED
      BY <1>3, <2>1, <2>2
  <1>11. \A f \in Event : OwnerShape(f)'
    BY <1>5, <1>6, <1>7, <1>8, <1>9, <1>10 DEF Next
  <1>12. QED
    BY <1>1, <1>11 DEF OwnerInv

\* A bond changes hands only by a ruling: a majority of the panel voted for
\* exactly what the other side of the dispute stood for (finish, lines 191-216).
THEOREM BondsLostOnlyByRuling == Spec => []BondLostOnlyByRuling
  <1>1. Init => OwnerInv
    <2> SUFFICES ASSUME Init PROVE OwnerInv
      OBVIOUS
    <2>1. \A u \in Unit : custody[u].owner = NoAccount
      BY DEF Init
    <2>2. \A e \in Event : cases[e].asserter = NoAccount /\ cases[e].disputer = NoAccount
      BY DEF Init, NewCase
    <2>3. \A e \in Event : OwnerShape(e)
      BY <2>1, <2>2 DEF OwnerShape, Poster, Unit
    <2>4. QED
      BY <2>3, BondInit DEF OwnerInv
  <1>2. OwnerInv => BondLostOnlyByRuling
    <2> SUFFICES ASSUME OwnerInv, NEW e \in Event, NEW role \in Role,
                        custody[<<e, role>>].owner # Poster(e, role)
                 PROVE  Opposite(e, role) # Unset /\ Majority(e, Opposite(e, role))
      BY DEF BondLostOnlyByRuling
    <2>1. RuledAgainst(e, role) /\ TypeOK
      BY DEF OwnerInv, OwnerShape, BondInv, IInv
    <2>2. QED
      BY <2>1, QuorumIsMajority DEF RuledAgainst, Outcome, Unset
  <1>3. QED
    BY <1>1, <1>2, OwnerStep, PTL DEF Spec

-----------------------------------------------------------------------------
(* The calls of the worker and the cases they are about.                    *)

\* No open claim of somebody else is or can come about for e.
Endable(e) ==
  /\ cases[e].phase = "Pending" => now >= AssertionDeadline(e)
  /\ cases[e].phase = "Asserted" => cases[e].asserter = Bot

\* A call names the event and the outcome it needs, and ends only such a case.
CallOk(t) ==
  /\ t.action \in {"assertOutcome", "finalize"} => t.event \in Event
  /\ t.action = "assertOutcome" => t.outcome \in Outcome
  /\ t.action = "finalize" => Endable(t.event)

LEMMA EndableKept ==
  ASSUME TypeOK, [Next]_vars, NEW f \in Event, Endable(f)
  PROVE  Endable(f)'
<1>1. now \in Nat /\ AssertionDeadline(f) \in Nat
  BY TimeAssumption DEF TypeOK, AssertionDeadline
<1>2. CASE Fund \/ BindPool \/ Deliver \/ UNCHANGED vars
  BY <1>2 DEF Fund, BindPool, Deliver, vars, caseVars, Endable, AssertionDeadline
<1>3. CASE Tick
  BY <1>1, <1>3 DEF Tick, caseVars, Endable, AssertionDeadline
<1>4. ASSUME NEW a \in Account, WithdrawBond(a) PROVE Endable(f)'
  BY <1>4 DEF WithdrawBond, caseVars, Endable, AssertionDeadline
<1>5. ASSUME NEW e \in Event, NEW c, cases' = [cases EXCEPT ![e] = c], now' = now,
             \/ c.phase \in {"Disputed", "Finalized"}
             \/ cases[e].phase = "Pending" /\ now < AssertionDeadline(e)
      PROVE  Endable(f)'
  <2>1. cases'[f] = IF f = e THEN c ELSE cases[f]
    BY <1>5 DEF TypeOK
  <2>2. CASE f = e
    <3>1. c.phase \in {"Disputed", "Finalized"}
      BY <1>1, <1>5, <2>2 DEF Endable
    <3>2. QED
      BY <2>1, <2>2, <3>1 DEF Endable
  <2>3. CASE f # e
    BY <1>5, <2>1, <2>3 DEF Endable, AssertionDeadline
  <2>4. QED
    BY <2>2, <2>3
<1>6. ASSUME NEW e \in Event, NEW o, NEW t, Finish(e, o, t), now' = now PROVE Endable(f)'
  <2> DEFINE c == [cases[e] EXCEPT !.phase = "Finalized", !.result = o]
  <2>1. cases' = [cases EXCEPT ![e] = c]
    BY <1>6 DEF Finish
  <2>2. c.phase = "Finalized"
    BY DEF TypeOK, Case
  <2> HIDE DEF c
  <2>3. QED
    BY <1>5, <1>6, <2>1, <2>2
<1>7. ASSUME NEW e \in Event, Finalize(e) PROVE Endable(f)'
  BY <1>6, <1>7 DEF Finalize
<1>8. ASSUME NEW e \in Event, NEW a \in Account, NEW o \in Outcome, AssertOutcome(e, a, o)
      PROVE  Endable(f)'
  <2>1. cases[e].phase = "Pending" /\ now < AssertionDeadline(e) /\ now' = now
    BY <1>8 DEF AssertOutcome, AssertionOpen
  <2>2. PICK c : cases' = [cases EXCEPT ![e] = c]
    BY <1>8 DEF AssertOutcome
  <2>3. QED
    BY <1>5, <2>1, <2>2
<1>9. ASSUME NEW e \in Event, NEW a \in Account, NEW o \in Outcome, Dispute(e, a, o)
      PROVE  Endable(f)'
  <2> DEFINE c == [cases[e] EXCEPT !.phase = "Disputed", !.counter = o, !.disputer = a,
                                   !.voteUntil = now + VotingPeriod]
  <2>1. cases' = [cases EXCEPT ![e] = c] /\ now' = now
    BY <1>9 DEF Dispute
  <2>2. c.phase = "Disputed"
    BY DEF TypeOK, Case
  <2> HIDE DEF c
  <2>3. QED
    BY <1>5, <2>1, <2>2
<1>10. ASSUME NEW e \in Event, NEW a \in Account, NEW o \in Outcome, Vote(e, a, o)
       PROVE  Endable(f)'
  <2>1. now' = now /\ (Finish(e, o, FALSE) \/ UNCHANGED cases)
    BY <1>10 DEF Vote
  <2>2. QED
    BY <1>6, <2>1 DEF Endable, AssertionDeadline
<1>11. QED
  BY <1>2, <1>3, <1>4, <1>7, <1>8, <1>9, <1>10 DEF Next

LEMMA CallKept ==
  ASSUME TypeOK, [Next]_vars, NEW t, CallOk(t)
  PROVE  CallOk(t)'
BY EndableKept DEF CallOk

\* What a plan leads to is sound when it is planned.
LEMMA PlannedOk ==
  ASSUME TypeOK, NEW b \in Journal, NEW p \in Plans(b), NEW t \in Calls(p), MaxNonce > 0
  PROVE  t \in Tx /\ CallOk(t)
<1>1. Evidence \subseteq Outcome /\ 0 \in 0..MaxNonce - 1
  BY WorkerAssumption DEF Outcome
<1>2. CASE p.kind \in {"wait", "complete"}
  BY <1>2 DEF Calls
<1>3. CASE p.kind = "deliver"
  <2>1. p = [kind |-> "deliver", event |-> NoTx]
    BY <1>3 DEF Plans, Waiting
  <2>2. t = [action |-> "deliver", event |-> NoTx, outcome |-> Unset, nonce |-> 0]
    BY <2>1 DEF Calls
  <2>3. QED
    BY <1>1, <2>2 DEF Tx, CallOk
<1>4. CASE p.kind = "finalize"
  <2>1. p.event \in Event /\ Finishable(p.event, b.owned)
    BY <1>4 DEF Plans, Waiting
  <2>2. t = [action |-> "finalize", event |-> p.event, outcome |-> Unset, nonce |-> 0]
    BY <1>4 DEF Calls
  <2>3. Endable(p.event)
    BY <2>1 DEF Finishable, Endable, Own
  <2>4. QED
    BY <1>1, <2>1, <2>2, <2>3 DEF Tx, CallOk
<1>5. CASE p.kind = "evidence"
  <2>1. p.event \in Event
    BY <1>5 DEF Plans, Waiting
  <2>2. /\ t \in [action : {"assertOutcome", "approve"}, event : {p.event},
                  outcome : Evidence, nonce : {0}]
    BY <1>5 DEF Calls
  <2>3. QED
    BY <1>1, <2>1, <2>2 DEF Tx, CallOk
<1>6. p.kind \in {"wait", "complete", "deliver", "finalize", "evidence"}
  BY DEF Plans, Waiting
<1>7. QED
  BY <1>2, <1>3, <1>4, <1>5, <1>6

-----------------------------------------------------------------------------
(* What the runners, the journal and the chain know of a transaction.       *)

TypesOk ==
  /\ TypeOK /\ WorkerTypeOK
  /\ \A t \in DOMAIN sends : sends[t] \in Nat

\* A runner that holds the lease works on the journal as it is stored; a planned
\* transaction has no other before it; a signed one has the next nonce while the
\* lease holds; and a saved one is where every later runner finds it.
RunnerOk(r) ==
  LET l == runner[r] IN
  /\ l.pc \in {"held", "prepared", "signed"} /\ lease = r => l.book = book
  /\ l.pc \in {"prepared", "signed"} => l.book.pending = NoTx /\ l.tx \in Tx
  /\ l.pc = "signed" /\ lease = r => l.tx.nonce = nonce
  /\ l.pc = "saved" => l.tx \in Tx /\ (l.tx = book.pending \/ l.tx \in DOMAIN mined)

\* Only the pending transaction can still be mined, and nothing mined shares a nonce.
ChainOk ==
  /\ \A t \in DOMAIN sends : t = book.pending \/ t \in DOMAIN mined
  /\ \A t \in DOMAIN mined : t.nonce < nonce
  /\ \A t, u \in DOMAIN mined : t.nonce = u.nonce => t = u
  /\ book.pending # NoTx /\ book.pending \notin DOMAIN mined => book.pending.nonce = nonce
  /\ \A t \in mempool : t = book.pending /\ t \notin DOMAIN mined

\* The broadcasts made and about to be made are the attempts counted.
Savers(t) == {r \in Runner : runner[r].pc = "saved" /\ runner[r].tx = t}
Sent(t) == IF t \in DOMAIN sends THEN sends[t] ELSE 0
Attempts(t) == IF t = book.pending THEN book.attempts ELSE MaxAttempts
CountOk == \A t \in Tx : Sent(t) + Cardinality(Savers(t)) <= Attempts(t)

CallsOk ==
  /\ \A r \in Runner : runner[r].tx # NoTx => CallOk(runner[r].tx)
  /\ book.pending # NoTx => CallOk(book.pending)

RunnersOk == \A r \in Runner : RunnerOk(r)
WorkerInv == TypesOk /\ RunnersOk /\ ChainOk /\ CountOk /\ CallsOk

LEMMA SaversFinite ==
  ASSUME NEW t
  PROVE  IsFiniteSet(Savers(t)) /\ Cardinality(Savers(t)) \in Nat
BY WorkerAssumption, FS_Subset, FS_CardinalityType DEF Savers

\* Fewer savers, the same broadcasts.
LEMMA FewerSavers ==
  ASSUME TypesOk, CountOk, UNCHANGED <<sends, book>>,
         \A t \in Tx : Savers(t)' \subseteq Savers(t)
  PROVE  CountOk'
<1>1. ASSUME NEW t \in Tx PROVE (Sent(t) + Cardinality(Savers(t)) <= Attempts(t))'
  <2>1. /\ Cardinality(Savers(t)') <= Cardinality(Savers(t))
        /\ Cardinality(Savers(t)') \in Nat /\ Cardinality(Savers(t)) \in Nat
    BY SaversFinite, FS_Subset, FS_CardinalityType
  <2>2. Sent(t) \in Nat /\ Sent(t)' = Sent(t)
    BY DEF Sent, TypesOk
  <2>3. Attempts(t) \in Nat /\ Attempts(t)' = Attempts(t)
    BY WorkerAssumption DEF Attempts, TypesOk, WorkerTypeOK, Journal
  <2>4. Sent(t) + Cardinality(Savers(t)) <= Attempts(t)
    BY DEF CountOk
  <2>5. QED
    BY <2>1, <2>2, <2>3, <2>4
<1>2. QED
  BY <1>1 DEF CountOk

\* One runner goes on to l, not to a send.
LEMMA SaversLeave ==
  ASSUME TypesOk, NEW r \in Runner, NEW l, runner' = [runner EXCEPT ![r] = l], l.pc # "saved"
  PROVE  \A t \in Tx : Savers(t)' = Savers(t) \ {r}
<1>1. \A s \in Runner : runner'[s] = IF s = r THEN l ELSE runner[s]
  BY DEF TypesOk, WorkerTypeOK
<1>2. QED
  BY <1>1 DEF Savers

\* A tick that only moves its runner, keeps or gives up the lease or takes a free one.
RunnerMoves(r, l) ==
  /\ runner' = [runner EXCEPT ![r] = l]
  /\ UNCHANGED <<vars, book, nonce, approved, mempool, mined, sends, losses>>
  /\ faults' \in 0..MaxFault
  /\ l \in Local /\ l.pc # "saved"
  /\ l.tx # NoTx => CallOk(l.tx)
  /\ lease' \in Runner \cup {NoRunner}
  /\ \A s \in Runner \ {r} : lease' = s => lease = s
  /\ l.pc \in {"held", "prepared", "signed"} /\ lease' = r => l.book = book
  /\ l.pc \in {"prepared", "signed"} => l.book.pending = NoTx /\ l.tx \in Tx
  /\ l.pc = "signed" /\ lease' = r => l.tx.nonce = nonce

LEMMA RunnerMoved ==
  ASSUME WorkerInv, NEW r \in Runner, NEW l, RunnerMoves(r, l)
  PROVE  WorkerInv'
<1>1. /\ TypesOk /\ RunnersOk /\ ChainOk /\ CountOk /\ CallsOk
      /\ runner \in [Runner -> Local]
  BY DEF WorkerInv, TypesOk, WorkerTypeOK
<1>2. /\ runner' = [runner EXCEPT ![r] = l]
      /\ UNCHANGED <<vars, book, nonce, approved, mempool, mined, sends, losses>>
      /\ faults' \in 0..MaxFault /\ l \in Local /\ l.pc # "saved"
      /\ lease' \in Runner \cup {NoRunner}
  BY DEF RunnerMoves
<1>3. \A s \in Runner : runner'[s] = IF s = r THEN l ELSE runner[s]
  BY <1>1, <1>2
<1>4. TypesOk'
  <2>1. TypeOK'
    BY <1>1, <1>2, TypeStep DEF TypesOk
  <2>2. WorkerTypeOK'
    BY <1>1, <1>2 DEF TypesOk, WorkerTypeOK
  <2>3. QED
    BY <1>1, <1>2, <2>1, <2>2 DEF TypesOk
<1>5. ASSUME NEW s \in Runner PROVE RunnerOk(s)'
  <2>1. CASE s = r
    BY <1>2, <1>3, <2>1 DEF RunnerMoves, RunnerOk
  <2>2. CASE s # r
    <3>1. runner'[s] = runner[s] /\ (lease' = s => lease = s)
      BY <1>3, <2>2 DEF RunnerMoves
    <3>2. RunnerOk(s)
      BY <1>1 DEF RunnersOk
    <3>3. QED
      BY <1>2, <3>1, <3>2 DEF RunnerOk
  <2>3. QED
    BY <2>1, <2>2
<1>6. ChainOk'
  BY <1>1, <1>2 DEF ChainOk
<1>7. CountOk'
  BY <1>1, <1>2, SaversLeave, FewerSavers
<1>8. CallsOk'
  <2>1. \A t : CallOk(t) => CallOk(t)'
    BY <1>1, <1>2, CallKept DEF TypesOk
  <2>2. \A s \in Runner : (runner[s].tx # NoTx => CallOk(runner[s].tx))'
    <3>1. TAKE s \in Runner
    <3>2. SUFFICES ASSUME runner'[s].tx # NoTx PROVE CallOk(runner[s].tx)'
      OBVIOUS
    <3>3. PICK x : x = runner'[s].tx
      OBVIOUS
    <3>4. CallOk(x)
      BY <1>1, <1>3, <3>2, <3>3 DEF CallsOk, RunnerMoves
    <3>5. CallOk(x)'
      BY <2>1, <3>4
    <3>6. QED
      BY <3>3, <3>5 DEF CallOk
  <2>3. (book.pending # NoTx => CallOk(book.pending))'
    <3>1. PICK x : x = book.pending
      OBVIOUS
    <3>2. book'.pending = x
      BY <1>2, <3>1
    <3>3. x # NoTx => CallOk(x)'
      BY <1>1, <2>1, <3>1 DEF CallsOk
    <3>4. QED
      BY <3>2, <3>3 DEF CallOk
  <2>4. QED
    BY <2>2, <2>3 DEF CallsOk
<1>9. QED
  BY <1>4, <1>5, <1>6, <1>7, <1>8 DEF WorkerInv, RunnersOk

-----------------------------------------------------------------------------
(* Steps of a tick that save nothing and send nothing.                      *)

LEMMA LocalTypes ==
  ASSUME TypesOk
  PROVE  /\ NewBook \in Journal /\ Idle(NewBook) \in Local /\ Idle(book) \in Local
         /\ \A r \in Runner : runner[r] \in Local /\ runner[r].book \in Journal
         /\ book \in Journal
         /\ NoTx \notin Tx
<1>1. NewBook \in Journal
  BY WorkerAssumption DEF NewBook, Journal
<1>2. book \in Journal /\ \A r \in Runner : runner[r] \in Local
  BY DEF TypesOk, WorkerTypeOK
<1>3. \A b \in Journal : Idle(b) \in Local
  BY DEF Idle, Local, Waiting, Plan
<1>4. QED
  BY <1>1, <1>2, <1>3, NoTxAssumption DEF Local

\* The tick ends, or its process dies.
LEMMA TickEnds ==
  ASSUME WorkerInv, NEW r \in Runner, runner' = [runner EXCEPT ![r] = Idle(NewBook)],
         lease' = Released(r) \/ lease' = lease,
         UNCHANGED <<vars, book, nonce, approved, mempool, mined, sends, losses>>,
         faults' \in 0..MaxFault
  PROVE  WorkerInv'
<1>1. TypesOk /\ lease \in Runner \cup {NoRunner} /\ NoRunner \notin Runner
  BY WorkerAssumption DEF WorkerInv, TypesOk, WorkerTypeOK
<1>2. /\ Idle(NewBook) \in Local /\ Idle(NewBook).pc = "idle" /\ Idle(NewBook).tx = NoTx
  BY <1>1, LocalTypes DEF Idle
<1>3. lease' \in Runner \cup {NoRunner} /\ \A s \in Runner : lease' = s => lease = s
  BY <1>1 DEF Released
<1> DEFINE l == Idle(NewBook)
<1>4. l \in Local /\ l.pc = "idle" /\ l.tx = NoTx
  BY <1>2
<1>5. runner' = [runner EXCEPT ![r] = l]
  OBVIOUS
<1> HIDE DEF l
<1>6. RunnerMoves(r, l)
  BY <1>3, <1>4, <1>5 DEF RunnerMoves
<1>7. QED
  BY <1>6, RunnerMoved

LEMMA QuietTick ==
  ASSUME WorkerInv, NEW r \in Runner,
         \/ LeaseLost(r) \/ LeavePending(r) \/ Rest(r) \/ Unprepared(r) \/ PlanChanged(r)
         \/ Refuse(r) \/ Crash(r)
  PROVE  WorkerInv'
<1>1. faults \in 0..MaxFault /\ MaxFault \in Nat
  BY WorkerAssumption DEF WorkerInv, TypesOk, WorkerTypeOK
<1>2. CASE LeaseLost(r) \/ LeavePending(r) \/ Rest(r)
  BY <1>1, <1>2, TickEnds DEF LeaseLost, LeavePending, Rest, End
<1>3. CASE Unprepared(r) \/ PlanChanged(r)
  BY <1>1, <1>3, TickEnds DEF Unprepared, PlanChanged, End
<1>4. CASE Refuse(r)
  <2>1. /\ faults < MaxFault /\ faults' = faults + 1 /\ End(r)
        /\ UNCHANGED <<vars, book, nonce, approved, mempool, mined, sends, losses>>
    BY <1>4 DEF Refuse
  <2>2. faults' \in 0..MaxFault
    BY <1>1, <2>1
  <2>3. QED
    BY <2>1, <2>2, TickEnds DEF End
<1>5. CASE Crash(r)
  <2>1. /\ faults < MaxFault /\ faults' = faults + 1 /\ lease' = lease
        /\ runner' = [runner EXCEPT ![r] = Idle(NewBook)]
        /\ UNCHANGED <<vars, book, nonce, approved, mempool, mined, sends, losses>>
    BY <1>5 DEF Crash
  <2>2. faults' \in 0..MaxFault
    BY <1>1, <2>1
  <2>3. QED
    BY <2>1, <2>2, TickEnds
<1>6. QED
  BY <1>2, <1>3, <1>4, <1>5

LEMMA AcquireStep ==
  ASSUME WorkerInv, NEW r \in Runner, Acquire(r)
  PROVE  WorkerInv'
<1>1. TypesOk /\ NoRunner \notin Runner /\ faults \in 0..MaxFault
  BY WorkerAssumption DEF WorkerInv, TypesOk, WorkerTypeOK
<1> DEFINE l == [Idle(book) EXCEPT !.pc = "held"]
<1>2. l \in Local /\ l.pc = "held" /\ l.tx = NoTx /\ l.book = book
  BY <1>1, LocalTypes DEF Idle, Local
<1>3. runner' = [runner EXCEPT ![r] = l]
  BY DEF Acquire
<1> HIDE DEF l
<1>4. RunnerMoves(r, l)
  BY <1>1, <1>2, <1>3 DEF RunnerMoves, Acquire
<1>5. QED
  BY <1>4, RunnerMoved

LEMMA PrepareStep ==
  ASSUME WorkerInv, NEW r \in Runner, Prepare(r)
  PROVE  WorkerInv'
<1>1. /\ TypesOk /\ runner \in [Runner -> Local] /\ lease \in Runner \cup {NoRunner}
      /\ faults \in 0..MaxFault /\ nonce \in 0..MaxNonce /\ MaxNonce \in Nat
      /\ RunnerOk(r)
  BY WorkerAssumption DEF WorkerInv, TypesOk, WorkerTypeOK, RunnersOk
<1>2. /\ runner[r].pc = "held" /\ runner[r].book.pending = NoTx /\ nonce < MaxNonce
      /\ UNCHANGED <<vars, lease, book, nonce, approved, mempool, mined, sends, faults, losses>>
  BY DEF Prepare, Pending
<1>3. PICK p \in Plans(runner[r].book) : \E t \in Calls(p) :
        runner' = [runner EXCEPT ![r].pc = "prepared", ![r].plan = p, ![r].tx = t]
  BY DEF Prepare
<1>4. PICK t \in Calls(p) :
        runner' = [runner EXCEPT ![r].pc = "prepared", ![r].plan = p, ![r].tx = t]
  BY <1>3
<1>5. runner[r] \in Local /\ runner[r].book \in Journal
  BY <1>1, LocalTypes
<1>6. t \in Tx /\ CallOk(t)
  BY <1>1, <1>2, <1>3, <1>4, <1>5, PlannedOk DEF TypesOk
<1>7. p \in Plan
  BY DEF Plans, Plan, Waiting
<1> DEFINE l == [runner[r] EXCEPT !.pc = "prepared", !.plan = p, !.tx = t]
<1>8. l \in Local /\ l.pc = "prepared" /\ l.tx = t /\ l.book = runner[r].book
  BY <1>5, <1>6, <1>7 DEF Local
<1>9. runner' = [runner EXCEPT ![r] = l]
  BY <1>1, <1>4
<1> HIDE DEF l
<1>10. lease = r => l.book = book
  BY <1>1, <1>2, <1>8 DEF RunnerOk
<1>11. RunnerMoves(r, l)
  BY <1>1, <1>2, <1>6, <1>8, <1>9, <1>10 DEF RunnerMoves
<1>12. QED
  BY <1>11, RunnerMoved

LEMMA SignStep ==
  ASSUME WorkerInv, NEW r \in Runner, Sign(r)
  PROVE  WorkerInv'
<1>1. /\ TypesOk /\ runner \in [Runner -> Local] /\ lease \in Runner \cup {NoRunner}
      /\ faults \in 0..MaxFault /\ nonce \in 0..MaxNonce /\ MaxNonce \in Nat
      /\ RunnerOk(r) /\ CallsOk /\ NoTx \notin Tx
  BY WorkerAssumption, NoTxAssumption DEF WorkerInv, TypesOk, WorkerTypeOK, RunnersOk
<1>2. /\ runner[r].pc = "prepared" /\ lease = r /\ nonce < MaxNonce
      /\ UNCHANGED <<vars, lease, book, nonce, approved, mempool, mined, sends, faults, losses>>
      /\ runner' = [runner EXCEPT ![r].pc = "signed", ![r].tx.nonce = nonce]
  BY DEF Sign, Holds
<1>3. runner[r] \in Local /\ runner[r].tx \in Tx /\ runner[r].book.pending = NoTx
      /\ runner[r].book = book
  BY <1>1, <1>2 DEF RunnerOk
<1> DEFINE t == [runner[r].tx EXCEPT !.nonce = nonce]
           l == [runner[r] EXCEPT !.pc = "signed", !.tx = t]
<1>4. /\ t \in Tx /\ t.nonce = nonce /\ t.action = runner[r].tx.action
      /\ t.event = runner[r].tx.event /\ t.outcome = runner[r].tx.outcome
  BY <1>1, <1>2, <1>3 DEF Tx
<1>5. CallOk(t)
  <2>1. CallOk(runner[r].tx)
    BY <1>1, <1>3 DEF CallsOk
  <2> HIDE DEF t
  <2>2. QED
    BY <1>4, <2>1 DEF CallOk
<1>6. runner' = [runner EXCEPT ![r] = l]
  BY <1>1, <1>2
<1>7. l \in Local /\ l.pc = "signed" /\ l.tx = t /\ l.book = runner[r].book
  BY <1>3, <1>4 DEF Local
<1> HIDE DEF t, l
<1>8. RunnerMoves(r, l)
  BY <1>1, <1>2, <1>3, <1>4, <1>5, <1>6, <1>7 DEF RunnerMoves
<1>9. QED
  BY <1>8, RunnerMoved

-----------------------------------------------------------------------------
(* Steps that write the journal.                                            *)

\* Whatever journal is stored, the types stay.
LEMMA BookTypes ==
  ASSUME TypesOk, NEW b \in Journal, book' = b,
         runner' \in [Runner -> Local], lease' \in Runner \cup {NoRunner},
         UNCHANGED <<vars, nonce, approved, mempool, mined, sends, faults, losses>>
  PROVE  TypesOk'
<1>1. TypeOK'
  BY TypeStep DEF TypesOk
<1>2. WorkerTypeOK'
  BY DEF TypesOk, WorkerTypeOK
<1>3. QED
  BY <1>1, <1>2 DEF TypesOk

\* Calls stay sound when the contract moves, wherever they are kept.
LEMMA CallsKept ==
  ASSUME TypeOK, [Next]_vars, CallsOk,
         \A r \in Runner : runner'[r].tx # NoTx => CallOk(runner'[r].tx),
         book'.pending # NoTx => CallOk(book'.pending)
  PROVE  CallsOk'
<1>1. \A t : CallOk(t) => CallOk(t)'
  BY CallKept
<1>2. ASSUME NEW r \in Runner, runner'[r].tx # NoTx PROVE CallOk(runner[r].tx)'
  <2>1. PICK x : x = runner'[r].tx
    OBVIOUS
  <2>2. CallOk(x)'
    BY <1>1, <1>2, <2>1
  <2>3. QED
    BY <2>1, <2>2 DEF CallOk
<1>3. ASSUME book'.pending # NoTx PROVE CallOk(book.pending)'
  <2>1. PICK x : x = book'.pending
    OBVIOUS
  <2>2. CallOk(x)'
    BY <1>1, <1>3, <2>1
  <2>3. QED
    BY <2>1, <2>2 DEF CallOk
<1>4. QED
  BY <1>2, <1>3 DEF CallsOk

\* The holder stores b, with the same pending transaction and attempts or with
\* none once its receipt is there, and its tick ends.
LEMMA SavedAndEnded ==
  ASSUME WorkerInv, NEW r \in Runner, NEW b \in Journal, lease = r, book' = b,
         \/ b.pending = book.pending /\ b.attempts = book.attempts
         \/ b.pending = NoTx /\ book.pending \in DOMAIN mined,
         runner' = [runner EXCEPT ![r] = Idle(NewBook)], lease' = Released(r),
         UNCHANGED <<vars, nonce, approved, mempool, mined, sends, faults, losses>>
  PROVE  WorkerInv'
<1>1. /\ TypesOk /\ RunnersOk /\ ChainOk /\ CountOk /\ CallsOk
      /\ runner \in [Runner -> Local] /\ book \in Journal /\ NoRunner \notin Runner
      /\ MaxAttempts \in Nat /\ NoTx \notin Tx
  BY WorkerAssumption, NoTxAssumption DEF WorkerInv, TypesOk, WorkerTypeOK
<1>2. lease' = NoRunner /\ Idle(NewBook) \in Local /\ Idle(NewBook).pc = "idle"
      /\ Idle(NewBook).tx = NoTx
  BY <1>1, LocalTypes DEF Released, Idle
<1>3. /\ runner' \in [Runner -> Local]
      /\ \A s \in Runner : runner'[s] = IF s = r THEN Idle(NewBook) ELSE runner[s]
  BY <1>1, <1>2
<1>4. TypesOk'
  BY <1>1, <1>2, <1>3, BookTypes
<1>5. ASSUME NEW s \in Runner PROVE RunnerOk(s)'
  <2>1. CASE s = r
    BY <1>1, <1>2, <1>3, <2>1 DEF RunnerOk
  <2>2. CASE s # r
    <3>1. RunnerOk(s) /\ runner'[s] = runner[s] /\ lease' # s
      BY <1>1, <1>2, <1>3, <2>2 DEF RunnersOk
    <3>2. QED
      BY <3>1 DEF RunnerOk
  <2>3. QED
    BY <2>1, <2>2
<1>6. ChainOk'
  BY <1>1 DEF ChainOk
<1>7. CountOk'
  <2>1. \A t \in Tx : Savers(t)' = Savers(t) \ {r}
    BY <1>1, <1>2, SaversLeave
  <2>2. ASSUME NEW t \in Tx PROVE (Sent(t) + Cardinality(Savers(t)) <= Attempts(t))'
    <3>1. /\ Cardinality(Savers(t)') <= Cardinality(Savers(t))
          /\ Cardinality(Savers(t)') \in Nat /\ Cardinality(Savers(t)) \in Nat
      BY <2>1, SaversFinite, FS_Subset, FS_CardinalityType
    <3>2. Sent(t) \in Nat /\ Sent(t)' = Sent(t)
      BY <1>1 DEF Sent, TypesOk
    <3>3. /\ Attempts(t) \in Nat /\ Attempts(t)' \in Nat
          /\ Attempts(t) <= Attempts(t)'
      BY <1>1 DEF Attempts, Journal
    <3>4. Sent(t) + Cardinality(Savers(t)) <= Attempts(t)
      BY <1>1 DEF CountOk
    <3>5. QED
      BY <3>1, <3>2, <3>3, <3>4
  <2>3. QED
    BY <2>2 DEF CountOk
<1>8. CallsOk'
  <2>1. \A s \in Runner : runner'[s].tx # NoTx => CallOk(runner'[s].tx)
    BY <1>1, <1>2, <1>3 DEF CallsOk
  <2>2. book'.pending # NoTx => CallOk(book'.pending)
    BY <1>1 DEF CallsOk
  <2>3. QED
    BY <1>1, <2>1, <2>2, CallsKept DEF TypesOk
<1>9. QED
  BY <1>4, <1>5, <1>6, <1>7, <1>8 DEF WorkerInv, RunnersOk

LEMMA ConfirmStep ==
  ASSUME WorkerInv, NEW r \in Runner, Confirm(r)
  PROVE  WorkerInv'
<1>1. /\ book \in Journal /\ RunnerOk(r) /\ DOMAIN mined \subseteq Tx
  BY DEF WorkerInv, TypesOk, WorkerTypeOK, RunnersOk
<1>2. runner[r].pc = "held" /\ lease = r /\ book.pending \in DOMAIN mined
      /\ runner[r].book = book
  BY <1>1 DEF Confirm, Save, Holds, RunnerOk
<1> DEFINE t == book.pending
           o == IF mined[t] = "ok" /\ t.action = "assertOutcome"
                THEN [book.owned EXCEPT ![t.event] = t.outcome] ELSE book.owned
           b == [book EXCEPT !.pending = NoTx, !.attempts = 0, !.owned = o]
<1>3. book' = b
  BY <1>2 DEF Confirm, Save
<1>4. o \in [Event -> Outcome \cup {Unset}]
  <2>1. t \in Tx
    BY <1>1, <1>2
  <2>2. t.outcome \in Outcome \cup {Unset}
    BY <2>1 DEF Tx
  <2>3. book.owned \in [Event -> Outcome \cup {Unset}]
    BY <1>1 DEF Journal
  <2>4. QED
    BY <2>2, <2>3
<1>5. b \in Journal /\ b.pending = NoTx
  <2> HIDE DEF o
  <2>1. 0 \in 0..MaxAttempts
    BY WorkerAssumption
  <2>2. QED
    BY <1>1, <1>4, <2>1 DEF Journal
<1>6. /\ runner' = [runner EXCEPT ![r] = Idle(NewBook)] /\ lease' = Released(r)
      /\ UNCHANGED <<vars, nonce, approved, mempool, mined, sends, faults, losses>>
  BY DEF Confirm, End
<1> HIDE DEF b
<1>7. QED
  BY <1>2, <1>3, <1>5, <1>6, SavedAndEnded

LEMMA DeferStep ==
  ASSUME WorkerInv, NEW r \in Runner, NoEvidenceYet(r)
  PROVE  WorkerInv'
<1>1. /\ book \in Journal /\ RunnerOk(r) /\ now + Defer \in Nat
  BY WorkerAssumption DEF WorkerInv, TypesOk, WorkerTypeOK, RunnersOk, TypeOK
<1>2. runner[r].pc = "held" /\ lease = r /\ runner[r].book = book
  BY <1>1 DEF NoEvidenceYet, Save, Holds, RunnerOk
<1>3. PICK p \in Plans(book) : book' = [book EXCEPT !.deferred[p.event] = now + Defer]
  BY <1>2 DEF NoEvidenceYet, Save
<1> DEFINE d == [book.deferred EXCEPT ![p.event] = now + Defer]
           b == [book EXCEPT !.deferred = d]
<1>4. book' = b
  BY <1>3
<1>5. d \in [Event -> Nat]
  BY <1>1 DEF Journal
<1>6. b \in Journal /\ b.pending = book.pending /\ b.attempts = book.attempts
  <2> HIDE DEF d
  <2>1. QED
    BY <1>1, <1>5 DEF Journal
<1>7. /\ runner' = [runner EXCEPT ![r] = Idle(NewBook)] /\ lease' = Released(r)
      /\ UNCHANGED <<vars, nonce, approved, mempool, mined, sends, faults, losses>>
  BY DEF NoEvidenceYet, End
<1> HIDE DEF b
<1>8. QED
  BY <1>2, <1>4, <1>6, <1>7, SavedAndEnded

LEMMA ResendStep ==
  ASSUME WorkerInv, NEW r \in Runner, Resend(r)
  PROVE  WorkerInv'
<1>1. /\ TypesOk /\ RunnersOk /\ ChainOk /\ CountOk /\ CallsOk
      /\ runner \in [Runner -> Local] /\ book \in Journal /\ lease \in Runner \cup {NoRunner}
      /\ MaxAttempts \in Nat /\ NoTx \notin Tx /\ RunnerOk(r) /\ book.attempts \in Nat
  BY WorkerAssumption, NoTxAssumption DEF WorkerInv, TypesOk, WorkerTypeOK, RunnersOk, Journal
<1>2. runner[r].pc = "held" /\ lease = r /\ runner[r].book = book
  BY <1>1 DEF Resend, Save, Holds, RunnerOk
<1> DEFINE t == book.pending
           b == [book EXCEPT !.attempts = book.attempts + 1]
           l == [runner[r] EXCEPT !.pc = "saved", !.tx = t]
<1>3. /\ t # NoTx /\ book.attempts < MaxAttempts /\ t \notin DOMAIN mined
      /\ book' = b /\ runner' = [runner EXCEPT ![r].pc = "saved", ![r].tx = t]
      /\ UNCHANGED <<vars, lease, nonce, approved, mempool, mined, sends, faults, losses>>
  BY <1>2 DEF Resend, Save, Resendable
<1>4. t \in Tx
  BY <1>1, <1>3 DEF Journal
<1>5. b \in Journal /\ b.pending = t /\ b.attempts = book.attempts + 1
  <2>1. book.attempts + 1 \in 0..MaxAttempts
    BY <1>1, <1>3
  <2>2. QED
    BY <1>1, <2>1 DEF Journal
<1>6. l \in Local /\ l.pc = "saved" /\ l.tx = t
  BY <1>1, <1>4 DEF Local
<1>7. runner' = [runner EXCEPT ![r] = l]
  BY <1>1, <1>3
<1> HIDE DEF b, l
<1>8. /\ runner' \in [Runner -> Local]
      /\ \A s \in Runner : runner'[s] = IF s = r THEN l ELSE runner[s]
  BY <1>1, <1>6, <1>7
<1>9. TypesOk'
  BY <1>1, <1>3, <1>5, <1>8, BookTypes
<1>10. ASSUME NEW s \in Runner PROVE RunnerOk(s)'
  <2>1. CASE s = r
    BY <1>3, <1>4, <1>5, <1>6, <1>8, <2>1 DEF RunnerOk
  <2>2. CASE s # r
    <3>1. RunnerOk(s) /\ runner'[s] = runner[s] /\ lease' # s
      BY <1>1, <1>2, <1>3, <1>8, <2>2 DEF RunnersOk
    <3>2. QED
      BY <1>3, <1>5, <3>1 DEF RunnerOk
  <2>3. QED
    BY <2>1, <2>2
<1>11. ChainOk'
  BY <1>1, <1>3, <1>5 DEF ChainOk
<1>12. CountOk'
  <2>1. ASSUME NEW u \in Tx PROVE (Sent(u) + Cardinality(Savers(u)) <= Attempts(u))'
    <3>1. Sent(u) \in Nat /\ Sent(u)' = Sent(u)
      BY <1>1, <1>3 DEF Sent, TypesOk
    <3>2. Sent(u) + Cardinality(Savers(u)) <= Attempts(u)
      BY <1>1 DEF CountOk
    <3>3. CASE u = t
      <4>1. Savers(u)' = Savers(u) \cup {r} /\ r \notin Savers(u)
        BY <1>2, <1>6, <1>8, <3>3 DEF Savers
      <4>2. /\ Cardinality(Savers(u)') = Cardinality(Savers(u)) + 1
            /\ Cardinality(Savers(u)) \in Nat
        BY <4>1, SaversFinite, FS_AddElement
      <4>3. Attempts(u) = book.attempts /\ Attempts(u)' = book.attempts + 1
        BY <1>3, <1>5, <3>3 DEF Attempts
      <4>4. QED
        BY <1>1, <3>1, <3>2, <4>2, <4>3
    <3>4. CASE u # t
      <4>1. Savers(u)' = Savers(u)
        BY <1>2, <1>6, <1>8, <3>4 DEF Savers
      <4>2. Attempts(u)' = Attempts(u)
        BY <1>3, <1>5, <3>4 DEF Attempts
      <4>3. QED
        BY <3>1, <3>2, <4>1, <4>2
    <3>5. QED
      BY <3>3, <3>4
  <2>2. QED
    BY <2>1 DEF CountOk
<1>13. CallsOk'
  <2>1. CallOk(t)
    BY <1>1, <1>3 DEF CallsOk
  <2>2. \A s \in Runner : runner'[s].tx # NoTx => CallOk(runner'[s].tx)
    BY <1>1, <1>6, <1>8, <2>1 DEF CallsOk
  <2>3. book'.pending # NoTx => CallOk(book'.pending)
    BY <1>3, <1>5, <2>1
  <2>4. QED
    BY <1>1, <1>3, <2>2, <2>3, CallsKept DEF TypesOk
<1>14. QED
  BY <1>9, <1>10, <1>11, <1>12, <1>13 DEF WorkerInv, RunnersOk

LEMMA PersistStep ==
  ASSUME WorkerInv, NEW r \in Runner, Persist(r)
  PROVE  WorkerInv'
<1>1. /\ TypesOk /\ RunnersOk /\ ChainOk /\ CountOk /\ CallsOk
      /\ runner \in [Runner -> Local] /\ book \in Journal /\ lease \in Runner \cup {NoRunner}
      /\ MaxAttempts \in Nat \ {0} /\ NoTx \notin Tx /\ RunnerOk(r)
      /\ mempool \subseteq Tx /\ nonce \in Nat /\ DOMAIN mined \subseteq Tx
      /\ DOMAIN sends \subseteq Tx
  BY WorkerAssumption, NoTxAssumption DEF WorkerInv, TypesOk, WorkerTypeOK, RunnersOk
<1> DEFINE t == runner[r].tx
           b == [book EXCEPT !.pending = t, !.attempts = 1]
           l == [runner[r] EXCEPT !.pc = "saved"]
<1>2. /\ runner[r].pc = "signed" /\ lease = r /\ runner[r].book = book
      /\ book.pending = NoTx /\ t \in Tx /\ t.nonce = nonce
  BY <1>1 DEF Persist, Save, Holds, RunnerOk
<1>3. /\ book' = b /\ runner' = [runner EXCEPT ![r].pc = "saved"]
      /\ UNCHANGED <<vars, lease, nonce, approved, mempool, mined, sends, faults, losses>>
  BY <1>2 DEF Persist, Save
<1>4. b \in Journal /\ b.pending = t /\ b.attempts = 1
  <2>1. 1 \in 0..MaxAttempts
    BY <1>1
  <2>2. QED
    BY <1>1, <1>2, <2>1 DEF Journal
<1>5. l \in Local /\ l.pc = "saved" /\ l.tx = t
  BY <1>1 DEF Local
<1>6. runner' = [runner EXCEPT ![r] = l]
  BY <1>1, <1>3
<1>7. t \notin DOMAIN mined /\ t # NoTx
  BY <1>1, <1>2 DEF ChainOk
<1>8. t \notin DOMAIN sends /\ mempool = {}
  BY <1>1, <1>2, <1>7 DEF ChainOk
<1> HIDE DEF b, l
<1>9. /\ runner' \in [Runner -> Local]
      /\ \A s \in Runner : runner'[s] = IF s = r THEN l ELSE runner[s]
  BY <1>1, <1>5, <1>6
<1>10. TypesOk'
  BY <1>1, <1>3, <1>4, <1>9, BookTypes
<1>11. ASSUME NEW s \in Runner PROVE RunnerOk(s)'
  <2>1. CASE s = r
    BY <1>2, <1>3, <1>4, <1>5, <1>9, <2>1 DEF RunnerOk
  <2>2. CASE s # r
    <3>1. RunnerOk(s) /\ runner'[s] = runner[s] /\ lease' # s
      BY <1>1, <1>2, <1>3, <1>9, <2>2 DEF RunnersOk
    <3>2. QED
      BY <1>1, <1>2, <1>3, <3>1 DEF RunnerOk
  <2>3. QED
    BY <2>1, <2>2
<1>12. ChainOk'
  BY <1>1, <1>2, <1>3, <1>4, <1>7, <1>8 DEF ChainOk
<1>13. CountOk'
  <2>1. ASSUME NEW u \in Tx PROVE (Sent(u) + Cardinality(Savers(u)) <= Attempts(u))'
    <3>1. Sent(u) \in Nat /\ Sent(u)' = Sent(u)
      BY <1>1, <1>3 DEF Sent, TypesOk
    <3>2. Sent(u) + Cardinality(Savers(u)) <= Attempts(u)
      BY <1>1 DEF CountOk
    <3>3. CASE u = t
      <4>1. Sent(u) = 0
        BY <1>8, <3>3 DEF Sent
      <4>2. \A s \in Runner : ~(runner[s].pc = "saved" /\ runner[s].tx = t)
        BY <1>1, <1>2, <1>7 DEF RunnersOk, RunnerOk
      <4>3. Savers(u)' = {r}
        BY <1>5, <1>9, <3>3, <4>2 DEF Savers
      <4>4. Cardinality(Savers(u)') = 1
        BY <4>3, FS_Singleton
      <4>5. Attempts(u)' = 1
        BY <1>3, <1>4, <3>3 DEF Attempts
      <4>6. QED
        BY <3>1, <4>1, <4>4, <4>5
    <3>4. CASE u # t
      <4>1. Savers(u)' = Savers(u)
        BY <1>2, <1>5, <1>9, <3>4 DEF Savers
      <4>2. Attempts(u)' = Attempts(u)
        BY <1>1, <1>2, <1>3, <1>4, <3>4 DEF Attempts
      <4>3. QED
        BY <3>1, <3>2, <4>1, <4>2
    <3>5. QED
      BY <3>3, <3>4
  <2>2. QED
    BY <2>1 DEF CountOk
<1>14. CallsOk'
  <2>1. CallOk(t)
    BY <1>1, <1>7 DEF CallsOk
  <2>2. \A s \in Runner : runner'[s].tx # NoTx => CallOk(runner'[s].tx)
    BY <1>1, <1>5, <1>9, <2>1 DEF CallsOk
  <2>3. book'.pending # NoTx => CallOk(book'.pending)
    BY <1>3, <1>4, <2>1
  <2>4. QED
    BY <1>1, <1>3, <2>2, <2>3, CallsKept DEF TypesOk
<1>15. QED
  BY <1>10, <1>11, <1>12, <1>13, <1>14 DEF WorkerInv, RunnersOk

LEMMA BroadcastStep ==
  ASSUME WorkerInv, NEW r \in Runner, Broadcast(r)
  PROVE  WorkerInv'
<1>1. /\ TypesOk /\ RunnersOk /\ ChainOk /\ CountOk /\ CallsOk
      /\ runner \in [Runner -> Local] /\ lease \in Runner \cup {NoRunner}
      /\ NoRunner \notin Runner /\ RunnerOk(r) /\ nonce \in Nat
      /\ DOMAIN mined \subseteq Tx /\ DOMAIN sends \subseteq Tx /\ mempool \subseteq Tx
      /\ MaxLoss \in Nat /\ losses \in 0..MaxLoss
  BY WorkerAssumption DEF WorkerInv, TypesOk, WorkerTypeOK, RunnersOk
<1> DEFINE t == runner[r].tx
           l == Idle(NewBook)
<1>2. /\ runner[r].pc = "saved" /\ t \in Tx /\ (t = book.pending \/ t \in DOMAIN mined)
      /\ runner' = [runner EXCEPT ![r] = l] /\ lease' = Released(r)
      /\ UNCHANGED <<vars, book, nonce, approved, mined, faults>>
  BY <1>1 DEF Broadcast, End, RunnerOk
<1>3. /\ DOMAIN sends' = DOMAIN sends \cup {t}
      /\ \A u \in Tx : Sent(u)' = Sent(u) + IF u = t THEN 1 ELSE 0
      /\ \A u \in DOMAIN sends' : sends'[u] = Sent(u)'
  <2>1. sends' = [u \in DOMAIN sends \cup {t} |->
                    (IF u \in DOMAIN sends THEN sends[u] ELSE 0) + IF u = t THEN 1 ELSE 0]
    BY DEF Broadcast
  <2>2. \A u \in Tx : Sent(u) \in Nat
    BY <1>1 DEF Sent, TypesOk
  <2>3. QED
    BY <2>1, <2>2 DEF Sent
<1>4. mempool' \subseteq mempool \cup {t} /\ (t \in mempool' \ mempool => t.nonce >= nonce)
  BY DEF Broadcast
<1>5. losses' \in 0..MaxLoss
  <2>1. losses' = losses \/ (losses < MaxLoss /\ losses' = losses + 1)
    BY DEF Broadcast
  <2>2. QED
    BY <1>1, <2>1
<1>6. l \in Local /\ l.pc = "idle" /\ l.tx = NoTx
  BY <1>1, LocalTypes DEF Idle
<1> HIDE DEF l
<1>7. /\ runner' \in [Runner -> Local]
      /\ \A s \in Runner : runner'[s] = IF s = r THEN l ELSE runner[s]
  BY <1>1, <1>2, <1>6
<1>8. lease' \in Runner \cup {NoRunner} /\ \A s \in Runner : lease' = s => lease = s
  BY <1>1, <1>2 DEF Released
<1>9. TypesOk'
  <2>1. TypeOK'
    BY <1>1, <1>2, TypeStep DEF TypesOk
  <2>2. mempool' \subseteq Tx /\ DOMAIN sends' \subseteq Tx
    BY <1>1, <1>2, <1>3, <1>4
  <2>3. WorkerTypeOK'
    BY <1>1, <1>2, <1>5, <1>7, <1>8, <2>2 DEF TypesOk, WorkerTypeOK
  <2>4. \A u \in DOMAIN sends' : sends'[u] \in Nat
    <3>1. \A u \in Tx : Sent(u) \in Nat
      BY <1>1 DEF Sent, TypesOk
    <3>2. \A u \in Tx : Sent(u)' \in Nat
      BY <1>3, <3>1
    <3>3. QED
      BY <1>3, <2>2, <3>2
  <2>5. QED
    BY <2>1, <2>3, <2>4 DEF TypesOk
<1>10. ASSUME NEW s \in Runner PROVE RunnerOk(s)'
  <2>1. CASE s = r
    BY <1>6, <1>7, <2>1 DEF RunnerOk
  <2>2. CASE s # r
    <3>1. RunnerOk(s) /\ runner'[s] = runner[s] /\ (lease' = s => lease = s)
      BY <1>1, <1>7, <1>8, <2>2 DEF RunnersOk
    <3>2. QED
      BY <1>2, <3>1 DEF RunnerOk
  <2>3. QED
    BY <2>1, <2>2
<1>11. ChainOk'
  <2>1. ASSUME t \in mempool' \ mempool PROVE t = book.pending /\ t \notin DOMAIN mined
    BY <1>1, <1>2, <1>4, <2>1 DEF ChainOk, Tx
  <2>2. \A u \in mempool' : u = book.pending /\ u \notin DOMAIN mined
    BY <1>1, <1>4, <2>1 DEF ChainOk
  <2>3. \A u \in DOMAIN sends' : u = book.pending \/ u \in DOMAIN mined
    BY <1>1, <1>2, <1>3 DEF ChainOk
  <2>4. QED
    BY <1>1, <1>2, <2>2, <2>3 DEF ChainOk
<1>12. CountOk'
  <2>1. ASSUME NEW u \in Tx PROVE (Sent(u) + Cardinality(Savers(u)) <= Attempts(u))'
    <3>1. Sent(u) \in Nat /\ Sent(u)' = Sent(u) + IF u = t THEN 1 ELSE 0
      BY <1>1, <1>3 DEF Sent, TypesOk
    <3>2. Sent(u) + Cardinality(Savers(u)) <= Attempts(u)
      BY <1>1 DEF CountOk
    <3>3. Attempts(u)' = Attempts(u)
      BY <1>2 DEF Attempts
    <3>4. Savers(u)' = Savers(u) \ {r} /\ (r \in Savers(u) <=> u = t)
      BY <1>1, <1>2, <1>6, SaversLeave DEF Savers
    <3>5. /\ Cardinality(Savers(u)') = Cardinality(Savers(u)) - IF u = t THEN 1 ELSE 0
          /\ Cardinality(Savers(u)) \in Nat
      <4>1. CASE u = t
        BY <3>4, <4>1, SaversFinite, FS_RemoveElement
      <4>2. CASE u # t
        <5>1. Savers(u)' = Savers(u)
          BY <3>4, <4>2
        <5>2. QED
          BY <4>2, <5>1, SaversFinite
      <4>3. QED
        BY <4>1, <4>2
    <3>6. Attempts(u) \in Nat
      BY <1>1, WorkerAssumption DEF Attempts, TypesOk, WorkerTypeOK, Journal
    <3>7. QED
      BY <3>1, <3>2, <3>3, <3>5, <3>6
  <2>2. QED
    BY <2>1 DEF CountOk
<1>13. CallsOk'
  <2>1. \A s \in Runner : runner'[s].tx # NoTx => CallOk(runner'[s].tx)
    BY <1>1, <1>6, <1>7 DEF CallsOk
  <2>2. book'.pending # NoTx => CallOk(book'.pending)
    BY <1>1, <1>2 DEF CallsOk
  <2>3. QED
    BY <1>1, <1>2, <2>1, <2>2, CallsKept DEF TypesOk
<1>14. QED
  BY <1>9, <1>10, <1>11, <1>12, <1>13 DEF WorkerInv, RunnersOk

-----------------------------------------------------------------------------
(* Steps of the chain and of everybody else.                                *)

\* No runner moves and the journal stays; the chain may move.
LEMMA RunnersStand ==
  ASSUME WorkerInv, [Next]_vars, UNCHANGED <<book, runner, sends>>,
         WorkerTypeOK', ChainOk',
         \A r \in Runner : lease' = r => lease = r,
         nonce' = nonce \/ \A r \in Runner : lease' = r => runner[r].pc # "signed",
         DOMAIN mined \subseteq DOMAIN mined'
  PROVE  WorkerInv'
<1>1. TypesOk /\ RunnersOk /\ CountOk /\ CallsOk
  BY DEF WorkerInv
<1>2. TypesOk'
  BY <1>1, TypeStep DEF TypesOk
<1>3. ASSUME NEW r \in Runner PROVE RunnerOk(r)'
  <2>1. RunnerOk(r) /\ (lease' = r => lease = r)
    BY <1>1 DEF RunnersOk
  <2>2. QED
    BY <2>1 DEF RunnerOk
<1>4. CountOk'
  BY <1>1, FewerSavers DEF Savers
<1>5. CallsOk'
  BY <1>1, CallsKept DEF CallsOk, TypesOk
<1>6. QED
  BY <1>2, <1>3, <1>4, <1>5 DEF WorkerInv, RunnersOk

LEMMA ExpireStep ==
  ASSUME WorkerInv, Expire
  PROVE  WorkerInv'
<1>1. /\ TypesOk /\ ChainOk /\ WorkerTypeOK /\ NoRunner \notin Runner
      /\ MaxFault \in Nat /\ faults \in 0..MaxFault
  BY WorkerAssumption DEF WorkerInv, TypesOk, WorkerTypeOK
<1>2. /\ lease' = NoRunner
      /\ faults' = faults \/ (faults < MaxFault /\ faults' = faults + 1)
      /\ UNCHANGED <<vars, book, runner, nonce, approved, mempool, mined, sends, losses>>
  BY DEF Expire
<1>3. faults' \in 0..MaxFault
  BY <1>1, <1>2
<1>4. WorkerTypeOK'
  BY <1>1, <1>2, <1>3 DEF WorkerTypeOK
<1>5. ChainOk'
  BY <1>1, <1>2 DEF ChainOk
<1>6. QED
  BY <1>1, <1>2, <1>4, <1>5, RunnersStand

LEMMA EvictStep ==
  ASSUME WorkerInv, Evict
  PROVE  WorkerInv'
<1>1. /\ TypesOk /\ ChainOk /\ WorkerTypeOK /\ MaxLoss \in Nat /\ losses \in 0..MaxLoss
  BY WorkerAssumption DEF WorkerInv, TypesOk, WorkerTypeOK
<1>2. /\ losses < MaxLoss /\ losses' = losses + 1 /\ mempool' \subseteq mempool
      /\ UNCHANGED <<vars, lease, book, runner, nonce, approved, mined, sends, faults>>
  BY DEF Evict
<1>3. losses' \in 0..MaxLoss
  BY <1>1, <1>2
<1>4. WorkerTypeOK'
  BY <1>1, <1>2, <1>3 DEF WorkerTypeOK
<1>5. ChainOk'
  BY <1>1, <1>2 DEF ChainOk
<1>6. QED
  BY <1>1, <1>2, <1>4, <1>5, RunnersStand

\* Only the pending transaction is ever mined.
LEMMA MinesPending ==
  ASSUME WorkerInv, Mine
  PROVE  /\ mempool = {book.pending} /\ book.pending \in Tx \ DOMAIN mined
         /\ book.pending.nonce = nonce /\ nonce' = nonce + 1
         /\ mempool' = {} /\ DOMAIN mined' = DOMAIN mined \cup {book.pending}
         /\ Executes(book.pending) \/ UNCHANGED <<vars, approved>>
<1>1. /\ ChainOk /\ mempool \subseteq Tx /\ nonce \in Nat
  BY WorkerAssumption DEF WorkerInv, TypesOk, WorkerTypeOK
<1>2. PICK t \in mempool :
       /\ t.nonce = nonce /\ nonce' = nonce + 1
       /\ mempool' = {u \in mempool : u.nonce > nonce}
       /\ DOMAIN mined' = DOMAIN mined \cup {t}
       /\ Executes(t) \/ UNCHANGED <<vars, approved>>
  BY DEF Mine
<1>3. t = book.pending /\ t \notin DOMAIN mined /\ \A u \in mempool : u = t
  BY <1>1, <1>2 DEF ChainOk
<1>4. mempool' = {}
  BY <1>1, <1>2, <1>3
<1>5. QED
  BY <1>1, <1>2, <1>3, <1>4

\* What is mined is a step of the contract.
LEMMA MineIsNext ==
  ASSUME WorkerInv, Mine
  PROVE  [Next]_vars /\ approved' \in BOOLEAN
<1>1. /\ Executes(book.pending) \/ UNCHANGED <<vars, approved>>
      /\ book.pending \in Tx /\ CallOk(book.pending) /\ Bot \in Account
      /\ approved \in BOOLEAN
  BY MinesPending, NoTxAssumption, WorkerAssumption
    DEF WorkerInv, CallsOk, TypesOk, WorkerTypeOK
<1> DEFINE t == book.pending
<1>2. CASE UNCHANGED <<vars, approved>>
  BY <1>1, <1>2
<1>3. CASE t.action = "approve" /\ approved' = TRUE /\ UNCHANGED vars
  BY <1>3
<1>4. CASE t.action = "assertOutcome" /\ approved' = FALSE
             /\ AssertOutcome(t.event, Bot, t.outcome)
  BY <1>1, <1>4 DEF CallOk, Next
<1>5. CASE t.action = "finalize" /\ Finalize(t.event) /\ UNCHANGED approved
  BY <1>1, <1>5 DEF CallOk, Next
<1>6. CASE t.action = "deliver" /\ Deliver /\ UNCHANGED approved
  BY <1>1, <1>6 DEF Next
<1>7. QED
  BY <1>1, <1>2, <1>3, <1>4, <1>5, <1>6 DEF Executes

LEMMA MineStep ==
  ASSUME WorkerInv, Mine
  PROVE  WorkerInv'
<1>1. /\ TypesOk /\ ChainOk /\ WorkerTypeOK /\ RunnersOk /\ NoTx \notin Tx
      /\ nonce \in Nat /\ MaxNonce \in Nat /\ DOMAIN mined \subseteq Tx
  BY WorkerAssumption, NoTxAssumption DEF WorkerInv, TypesOk, WorkerTypeOK
<1>2. /\ book.pending \in Tx \ DOMAIN mined /\ book.pending.nonce = nonce
      /\ nonce' = nonce + 1 /\ mempool' = {}
      /\ DOMAIN mined' = DOMAIN mined \cup {book.pending}
      /\ UNCHANGED <<lease, book, runner, sends, faults, losses>>
  BY MinesPending DEF Mine
<1>3. [Next]_vars /\ approved' \in BOOLEAN
  BY MineIsNext
<1>4. WorkerTypeOK'
  <2>1. nonce' \in 0..MaxNonce
    BY <1>1, <1>2 DEF Tx
  <2>2. QED
    BY <1>1, <1>2, <1>3, <2>1 DEF WorkerTypeOK
<1>5. ChainOk'
  <2>1. \A u \in DOMAIN mined : u.nonce \in Nat /\ u.nonce < nonce
    BY <1>1 DEF ChainOk, Tx
  <2>2. QED
    BY <1>1, <1>2, <2>1 DEF ChainOk
<1>6. \A r \in Runner : lease = r => runner[r].pc # "signed"
  BY <1>1, <1>2 DEF RunnersOk, RunnerOk
<1>7. QED
  BY <1>2, <1>3, <1>4, <1>5, <1>6, RunnersStand

\* The public, the panel and the clock are steps of the contract.
LEMMA OthersAreNext ==
  ASSUME Others
  PROVE  [Next]_vars
BY WorkerAssumption DEF Others, Next

LEMMA OthersStep ==
  ASSUME WorkerInv, Others
  PROVE  WorkerInv'
<1>1. WorkerTypeOK /\ ChainOk /\ UNCHANGED workerVars /\ [Next]_vars
  BY OthersAreNext DEF WorkerInv, TypesOk, Others
<1>2. WorkerTypeOK' /\ ChainOk'
  BY <1>1 DEF WorkerTypeOK, ChainOk, workerVars
<1>3. QED
  BY <1>1, <1>2, RunnersStand DEF workerVars

-----------------------------------------------------------------------------
(* The invariant and what follows from it.                                  *)

LEMMA WorkerStarts ==
  ASSUME WorkerInit
  PROVE  WorkerInv
<1>1. /\ Init /\ lease = NoRunner /\ book = NewBook
      /\ runner = [r \in Runner |-> Idle(NewBook)]
      /\ nonce = 0 /\ approved = FALSE /\ mempool = {}
      /\ DOMAIN mined = {} /\ DOMAIN sends = {} /\ faults = 0 /\ losses = 0
  BY DEF WorkerInit
<1>2. NewBook \in Journal /\ NewBook.pending = NoTx /\ NewBook.attempts = 0
  BY WorkerAssumption DEF NewBook, Journal
<1>3. /\ Idle(NewBook) \in Local /\ Idle(NewBook).pc = "idle" /\ Idle(NewBook).tx = NoTx
  BY <1>2 DEF Idle, Local, Waiting, Plan
<1>4. TypesOk
  <2>1. TypeOK
    BY <1>1, InitType
  <2>2. {0} \subseteq 0..MaxNonce \cap 0..MaxFault \cap 0..MaxLoss
    BY WorkerAssumption
  <2>3. QED
    BY <1>1, <1>2, <1>3, <2>1, <2>2 DEF TypesOk, WorkerTypeOK
<1>5. RunnersOk
  BY <1>1, <1>3 DEF RunnersOk, RunnerOk
<1>6. ChainOk
  BY <1>1, <1>2 DEF ChainOk
<1>7. CountOk
  <2>1. ASSUME NEW t \in Tx PROVE Sent(t) + Cardinality(Savers(t)) <= Attempts(t)
    <3>1. Sent(t) = 0
      BY <1>1 DEF Sent
    <3>2. Savers(t) = {}
      BY <1>1, <1>3 DEF Savers
    <3>3. Cardinality(Savers(t)) = 0
      BY <3>2, FS_EmptySet
    <3>4. Attempts(t) = MaxAttempts
      BY <1>1, <1>2, NoTxAssumption DEF Attempts
    <3>5. QED
      BY <3>1, <3>3, <3>4, WorkerAssumption
  <2>2. QED
    BY <2>1 DEF CountOk
<1>8. CallsOk
  BY <1>1, <1>2, <1>3 DEF CallsOk
<1>9. QED
  BY <1>4, <1>5, <1>6, <1>7, <1>8 DEF WorkerInv

LEMMA WorkerSteps ==
  ASSUME WorkerInv, [WorkerNext]_allVars
  PROVE  WorkerInv'
<1>1. CASE UNCHANGED allVars
  <2>1. WorkerTypeOK /\ ChainOk /\ UNCHANGED vars /\ UNCHANGED workerVars
    BY <1>1 DEF WorkerInv, TypesOk, allVars
  <2>2. WorkerTypeOK' /\ ChainOk'
    BY <2>1 DEF WorkerTypeOK, ChainOk, workerVars
  <2>3. QED
    BY <2>1, <2>2, RunnersStand DEF workerVars
<1>2. CASE Others \/ Expire \/ Evict \/ Mine
  BY <1>2, OthersStep, ExpireStep, EvictStep, MineStep
<1>3. ASSUME NEW r \in Runner, Acquire(r) \/ TickOf(r) \/ NoEvidenceYet(r) \/ Refuse(r) \/ Crash(r)
      PROVE  WorkerInv'
  BY <1>3, AcquireStep, QuietTick, ConfirmStep, ResendStep, PrepareStep, SignStep, PersistStep,
     BroadcastStep, DeferStep DEF TickOf
<1>4. QED
  BY <1>1, <1>2, <1>3 DEF WorkerNext

\* The journal, the chain and the runners agree in every state.
LEMMA WorkerInvariance == WorkerSpec => []WorkerInv
BY WorkerStarts, WorkerSteps, PTL DEF WorkerSpec

\* Whatever the worker signed and sent is its pending journal entry or already
\* mined, and no two transactions compete for a nonce, for any number of
\* runners, crashes, refusals and lost broadcasts: the transaction is saved
\* under the lease before it is sent (resolution-worker.mjs:164-173).
THEOREM OneTransaction == WorkerSpec => []OneDurableTransaction
<1>1. WorkerInv => OneDurableTransaction
  <2>1. SUFFICES ASSUME WorkerInv PROVE OneDurableTransaction
    OBVIOUS
  <2>2. WorkerTypeOK /\ ChainOk /\ nonce \in Nat
    BY <2>1, WorkerAssumption DEF WorkerInv, TypesOk, WorkerTypeOK
  <2>3. \A t, u \in DOMAIN sends : t.nonce = u.nonce => t = u
    BY <2>2, NoTxAssumption DEF ChainOk, WorkerTypeOK
  <2>4. QED
    BY <2>2, <2>3 DEF OneDurableTransaction, ChainOk
<1>2. QED
  BY <1>1, WorkerInvariance, PTL

\* The same bytes are never broadcast more than MaxAttempts times, for any
\* number of runners and faults: the attempt is counted in the journal before
\* it is made (resolution-worker.mjs:109 and 120).
THEOREM BroadcastsBounded == WorkerSpec => []ResendBounded
<1>1. WorkerInv => ResendBounded
  <2>1. SUFFICES ASSUME WorkerInv, NEW t \in DOMAIN sends PROVE sends[t] <= MaxAttempts
    BY DEF ResendBounded
  <2>2. t \in Tx /\ sends[t] \in Nat /\ book \in Journal /\ MaxAttempts \in Nat
    BY <2>1, WorkerAssumption DEF WorkerInv, TypesOk, WorkerTypeOK
  <2>3. sends[t] + Cardinality(Savers(t)) <= Attempts(t)
    BY <2>1, <2>2 DEF WorkerInv, CountOk, Sent
  <2>4. Cardinality(Savers(t)) \in Nat
    BY SaversFinite
  <2>5. Attempts(t) \in Nat /\ Attempts(t) <= MaxAttempts
    BY <2>2 DEF Attempts, Journal
  <2>6. QED
    BY <2>2, <2>3, <2>4, <2>5
<1>2. QED
  BY <1>1, WorkerInvariance, PTL

\* When a transaction of the worker ends an open claim, the claim is the
\* signer's own, even though the plan was made long before the transaction is
\* mined and everybody else may have acted since (resolution-worker.mjs:21-22).
THEOREM EndsOwnClaims == WorkerSpec => FinalizesOwnClaims
<1>1. ASSUME WorkerInv, [WorkerNext]_allVars, NEW t \in mempool,
             t.action = "finalize", t \notin DOMAIN mined, t \in DOMAIN mined',
             cases[t.event].phase = "Asserted"
      PROVE  cases[t.event].asserter = Bot
  <2>1. t = book.pending /\ t \in Tx
    BY <1>1 DEF WorkerInv, ChainOk, TypesOk, WorkerTypeOK
  <2>2. CallOk(t)
    BY <1>1, <2>1, NoTxAssumption DEF WorkerInv, CallsOk
  <2>3. QED
    BY <1>1, <2>2 DEF CallOk, Endable
<1>2. WorkerInv /\ [WorkerNext]_allVars =>
        [\A t \in mempool :
           (/\ t.action = "finalize" /\ t \notin DOMAIN mined /\ t \in DOMAIN mined'
            /\ cases[t.event].phase = "Asserted")
             => cases[t.event].asserter = Bot]_allVars
  BY <1>1
<1>3. QED
  BY <1>2, WorkerInvariance, PTL DEF WorkerSpec, FinalizesOwnClaims

\* The worker can do nothing to the resolver that the contract does not let
\* anybody do: every step of the runners, the journal, the nodes and the chain
\* is a step of PilotResolver or leaves it alone, so what is proved about the
\* contract holds with the worker running.
THEOREM WorkerIsResolver == WorkerSpec => Spec
<1>1. WorkerInit => Init
  BY DEF WorkerInit
<1>2. ASSUME WorkerInv, [WorkerNext]_allVars PROVE [Next]_vars
  <2>1. CASE UNCHANGED allVars
    BY <2>1 DEF allVars
  <2>2. CASE Others
    BY <2>2, OthersAreNext
  <2>3. CASE Mine
    BY <1>2, <2>3, MineIsNext
  <2>4. CASE Expire \/ Evict
    BY <2>4 DEF Expire, Evict
  <2>5. ASSUME NEW r \in Runner,
               Acquire(r) \/ TickOf(r) \/ NoEvidenceYet(r) \/ Refuse(r) \/ Crash(r)
        PROVE  UNCHANGED vars
    BY <2>5 DEF Acquire, TickOf, NoEvidenceYet, Refuse, Crash, LeaseLost, Confirm, Resend,
      LeavePending, Rest, Prepare, Unprepared, Sign, PlanChanged, Persist, Broadcast
  <2>6. QED
    BY <1>2, <2>1, <2>2, <2>3, <2>4, <2>5 DEF WorkerNext
<1>3. QED
  BY <1>1, <1>2, WorkerInvariance, PTL DEF WorkerSpec, Spec
=============================================================================
