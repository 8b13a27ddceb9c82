---------------------------- MODULE PilotResolver ----------------------------
(***************************************************************************)
(* The optimistic resolver of a pilot pool: contracts/src/PilotResolver.sol *)
(* (AccountPilotResolver.sol differs only in who may dispute; see           *)
(* PilotSettlement).  Each event has a case: anybody outside the panel may  *)
(* assert an outcome against a bond, anybody else may counter it against an *)
(* equal bond, a fixed panel of reviewers then votes, and every phase has a *)
(* deadline after which any caller finalizes the case.  When every case is  *)
(* final the result is delivered, once, to the pool.                        *)
(*                                                                          *)
(* Every transaction is one action; block.timestamp is the variable now,    *)
(* and any number of transactions may share a timestamp.  A call that       *)
(* reverts changes nothing and is a disabled action.  Every amount the      *)
(* contract moves is a multiple of its immutable bond, so balances are      *)
(* counted in bonds.  Evidence hashes and URIs are not modelled.            *)
(***************************************************************************)
EXTENDS Integers, FiniteSets

CONSTANTS
  Event,            \* the event indexes of the pool
  Account,          \* every address that calls the resolver, the panel included
  Reviewer,         \* the immutable panel
  NoAccount,        \* address(0)
  ClosesAt,         \* trading close of the pool
  ObservationEnd,   \* per event: the time from which an outcome can be asserted
  AssertionPeriod, ChallengePeriod, VotingPeriod,
  InitialWallet,    \* bonds each account owns at the start
  MaxTime           \* bound: the clock stops here

Outcome == {"No", "Yes", "Void"}
Unset == "Unset"
Role == {"asserter", "disputer"}
Unit == Event \X Role      \* the bonds that can ever be posted: two per case

ASSUME EventAssumption == IsFiniteSet(Event) /\ Event # {}
ASSUME PanelAssumption ==
  /\ Reviewer \subseteq Account
  /\ IsFiniteSet(Reviewer) /\ Cardinality(Reviewer) \in {3, 5}
ASSUME AccountAssumption == NoAccount \notin Account
ASSUME TimeAssumption ==
  /\ ClosesAt \in Nat /\ MaxTime \in Nat
  /\ ObservationEnd \in [Event -> Nat]
  /\ \A e \in Event : ObservationEnd[e] > ClosesAt
  /\ AssertionPeriod \in Nat \ {0}
  /\ ChallengePeriod \in Nat \ {0}
  /\ VotingPeriod \in Nat \ {0}
ASSUME WalletAssumption == InitialWallet \in Nat

\* Mutant: half of the panel is enough.
Quorum_Half == Cardinality(Reviewer) \div 2

Quorum == Cardinality(Reviewer) \div 2 + 1

AssertionDeadline(e) == ObservationEnd[e] + AssertionPeriod

VARIABLES
  now,            \* block.timestamp
  cases,          \* cases[e]: the Case struct without its vote counters
  votes,          \* votes[e][o]: Case.votes
  voted,          \* voted[e]: the reviewers that voted
  wallet, held,   \* collateral of each account, and of the resolver, in bonds
  lockedBonds, credits, totalCredits,
  bound,          \* pool # address(0)
  delivered,
  funded, resolved, resolvedState, voidMask,  \* the pool's own variables
  custody         \* history variable: where each posted bond is, and whose

caseVars == <<cases, votes, voted>>
bondVars == <<wallet, held, lockedBonds, credits, totalCredits, custody>>
poolVars == <<funded, resolved, resolvedState, voidMask>>
vars == <<now, caseVars, bondVars, bound, delivered, poolVars>>

Case == [phase : {"Pending", "Asserted", "Disputed", "Finalized"},
         proposal : Outcome \cup {Unset}, counter : Outcome \cup {Unset},
         result : Outcome \cup {Unset},
         asserter : Account \cup {NoAccount}, disputer : Account \cup {NoAccount},
         challengeUntil : Nat, voteUntil : Nat]

TypeOK ==
  /\ now \in Nat
  /\ cases \in [Event -> Case]
  /\ votes \in [Event -> [Outcome -> Nat]]
  /\ voted \in [Event -> SUBSET Reviewer]
  /\ wallet \in [Account -> Nat] /\ held \in Nat
  /\ lockedBonds \in Nat /\ totalCredits \in Nat
  /\ credits \in [Account -> Nat]
  /\ bound \in BOOLEAN /\ delivered \in BOOLEAN
  /\ funded \in BOOLEAN /\ resolved \in BOOLEAN
  /\ resolvedState \in SUBSET Event /\ voidMask \in SUBSET Event
  /\ custody \in [Unit -> [state : {"none", "locked", "credited", "paid"},
                           owner : Account \cup {NoAccount}]]

NewCase == [phase |-> "Pending", proposal |-> Unset, counter |-> Unset,
            result |-> Unset, asserter |-> NoAccount, disputer |-> NoAccount,
            challengeUntil |-> 0, voteUntil |-> 0]

Init ==
  /\ now = 0
  /\ cases = [e \in Event |-> NewCase]
  /\ votes = [e \in Event |-> [o \in Outcome |-> 0]]
  /\ voted = [e \in Event |-> {}]
  /\ wallet = [a \in Account |-> InitialWallet] /\ held = 0
  /\ lockedBonds = 0 /\ totalCredits = 0
  /\ credits = [a \in Account |-> 0]
  /\ bound = FALSE /\ delivered = FALSE
  /\ funded = FALSE /\ resolved = FALSE
  /\ resolvedState = {} /\ voidMask = {}
  /\ custody = [u \in Unit |-> [state |-> "none", owner |-> NoAccount]]

-----------------------------------------------------------------------------
(* The environment: block time, and the pool being funded before it closes. *)

Tick ==
  /\ now < MaxTime
  /\ now' = now + 1
  /\ UNCHANGED <<caseVars, bondVars, bound, delivered, poolVars>>

Fund ==
  /\ ~funded /\ now < ClosesAt
  /\ funded' = TRUE
  /\ UNCHANGED <<now, caseVars, bondVars, bound, delivered,
                 resolved, resolvedState, voidMask>>

-----------------------------------------------------------------------------
(* The resolver's transactions.                                             *)

RequireActive == bound /\ funded /\ ~delivered

\* The creator binds the pool that names this resolver and its rules, once.
BindPool ==
  /\ ~bound
  /\ bound' = TRUE
  /\ UNCHANGED <<now, caseVars, bondVars, delivered, poolVars>>

\* takeBond: one bond moves from the caller to the resolver and is locked
\* for the caller's role in the case of e.
TakeBond(a, e, role) ==
  /\ wallet[a] >= 1
  /\ wallet' = [wallet EXCEPT ![a] = @ - 1]
  /\ held' = held + 1
  /\ lockedBonds' = lockedBonds + 1
  /\ custody' = [custody EXCEPT ![<<e, role>>] = [state |-> "locked", owner |-> a]]
  /\ UNCHANGED <<credits, totalCredits>>

\* Mutant: outcomes can be asserted before they are observable.
AssertionOpen_Early(e) == now < AssertionDeadline(e)

AssertionOpen(e) == ObservationEnd[e] <= now /\ now < AssertionDeadline(e)

AssertOutcome(e, a, o) ==
  /\ RequireActive
  /\ a \notin Reviewer
  /\ cases[e].phase = "Pending"
  /\ AssertionOpen(e)
  /\ TakeBond(a, e, "asserter")
  /\ cases' = [cases EXCEPT ![e] =
                 [@ EXCEPT !.phase = "Asserted", !.proposal = o, !.asserter = a,
                           !.challengeUntil = now + ChallengePeriod]]
  /\ UNCHANGED <<now, votes, voted, bound, delivered, poolVars>>

\* Mutant: an assertion stays open to challenge until somebody finalizes it.
ChallengeOpen_Late(e) == cases[e].phase = "Asserted"

ChallengeOpen(e) == cases[e].phase = "Asserted" /\ now < cases[e].challengeUntil

Dispute(e, a, o) ==
  /\ RequireActive
  /\ a \notin Reviewer /\ a # cases[e].asserter
  /\ ChallengeOpen(e)
  /\ o # cases[e].proposal
  /\ TakeBond(a, e, "disputer")
  /\ cases' = [cases EXCEPT ![e] =
                 [@ EXCEPT !.phase = "Disputed", !.counter = o, !.disputer = a,
                           !.voteUntil = now + VotingPeriod]]
  /\ UNCHANGED <<now, votes, voted, bound, delivered, poolVars>>

\* Mutant: the disputer's bond is forgotten.
Stake_OneBond(p) == IF p \in {"Disputed", "Asserted"} THEN 1 ELSE 0

\* The bonds a case holds while it is in phase p.
Stake(p) == CASE p = "Disputed" -> 2 [] p = "Asserted" -> 1 [] OTHER -> 0

\* Mutant: a timed-out dispute of a Void proposal counts as won by the asserter.
Beneficiary_TimeoutWins(c, role, o, timedOut) ==
  IF c.phase = "Asserted" \/ o = c.proposal THEN c.asserter
  ELSE IF o = c.counter THEN c.disputer
  ELSE IF role = "asserter" THEN c.asserter ELSE c.disputer

\* finish: who receives the bond posted in a role.  An unchallenged or upheld
\* asserter takes the stake, an upheld disputer takes it, and otherwise (a
\* timeout, or a ruling for a third outcome) each bond returns to its poster.
Beneficiary(c, role, o, timedOut) ==
  IF c.phase = "Asserted" \/ (~timedOut /\ o = c.proposal) THEN c.asserter
  ELSE IF ~timedOut /\ o = c.counter THEN c.disputer
  ELSE IF role = "asserter" THEN c.asserter ELSE c.disputer

CreditStake(c, o, timedOut) ==
  LET Gain(a) == (IF Beneficiary(c, "asserter", o, timedOut) = a THEN 1 ELSE 0)
                 + (IF c.phase = "Disputed" /\ Beneficiary(c, "disputer", o, timedOut) = a
                    THEN 1 ELSE 0)
  IN  [a \in Account |-> credits[a] + Gain(a)]

Finish(e, o, timedOut) ==
  LET c == cases[e] IN
  /\ lockedBonds >= Stake(c.phase)     \* checked subtraction
  /\ lockedBonds' = lockedBonds - Stake(c.phase)
  /\ totalCredits' = totalCredits + Stake(c.phase)
  /\ credits' = CreditStake(c, o, timedOut)
  /\ custody' = [u \in Unit |->
                   IF u[1] = e /\ custody[u].state = "locked"
                   THEN [state |-> "credited", owner |-> Beneficiary(c, u[2], o, timedOut)]
                   ELSE custody[u]]
  /\ cases' = [cases EXCEPT ![e] = [@ EXCEPT !.phase = "Finalized", !.result = o]]
  /\ UNCHANGED <<wallet, held>>

\* Mutant: a reviewer may vote again.
MayVote_Again(e, a) == a \in Reviewer

MayVote(e, a) == a \in Reviewer /\ a \notin voted[e]

\* Mutant: only the clock ends the voting.
VotingOpen_Clock(e) == now < cases[e].voteUntil

VotingOpen(e) == cases[e].phase = "Disputed" /\ now < cases[e].voteUntil

\* The vote that reaches the quorum finalizes the case in the same transaction.
Vote(e, a, o) ==
  /\ MayVote(e, a) /\ VotingOpen(e)
  /\ voted' = [voted EXCEPT ![e] = @ \cup {a}]
  /\ votes' = [votes EXCEPT ![e][o] = @ + 1]
  /\ IF votes[e][o] + 1 = Quorum
     THEN Finish(e, o, FALSE)
     ELSE UNCHANGED <<cases, bondVars>>
  /\ UNCHANGED <<now, bound, delivered, poolVars>>

Finalize(e) ==
  /\ RequireActive
  /\ \/ /\ cases[e].phase = "Pending" /\ now >= AssertionDeadline(e)
        /\ Finish(e, "Void", TRUE)
     \/ /\ cases[e].phase = "Asserted" /\ now >= cases[e].challengeUntil
        /\ Finish(e, cases[e].proposal, FALSE)
     \/ /\ cases[e].phase = "Disputed" /\ now >= cases[e].voteUntil
        /\ Finish(e, "Void", TRUE)
  /\ UNCHANGED <<now, votes, voted, bound, delivered, poolVars>>

\* pool.resolve as the resolver calls it: it reverts unless the pool is
\* funded, unresolved and closed, and the masks are disjoint.
PoolAccepts(yes, void) ==
  funded /\ ~resolved /\ now >= ClosesAt /\ yes \cap void = {}

Results(o) == {e \in Event : cases[e].result = o}

\* Mutant: an unchallenged assertion is taken for final.
AllFinal_Asserted == \A e \in Event : cases[e].phase \in {"Asserted", "Finalized"}

AllFinal == \A e \in Event : cases[e].phase = "Finalized"

Deliver ==
  /\ RequireActive
  /\ AllFinal
  /\ PoolAccepts(Results("Yes"), Results("Void"))
  /\ delivered' = TRUE
  /\ resolved' = TRUE
  /\ resolvedState' = Results("Yes")
  /\ voidMask' = Results("Void")
  /\ UNCHANGED <<now, caseVars, bondVars, bound, funded>>

WithdrawBond(a) ==
  /\ credits[a] > 0
  /\ totalCredits >= credits[a] /\ held >= credits[a]    \* or the call reverts
  /\ credits' = [credits EXCEPT ![a] = 0]
  /\ totalCredits' = totalCredits - credits[a]
  /\ held' = held - credits[a]
  /\ wallet' = [wallet EXCEPT ![a] = @ + credits[a]]
  /\ custody' = [u \in Unit |->
                   IF custody[u].state = "credited" /\ custody[u].owner = a
                   THEN [custody[u] EXCEPT !.state = "paid"] ELSE custody[u]]
  /\ UNCHANGED <<now, caseVars, lockedBonds, bound, delivered, poolVars>>

Next ==
  \/ Tick \/ Fund \/ BindPool \/ Deliver
  \/ \E e \in Event : Finalize(e)
  \/ \E e \in Event, a \in Account, o \in Outcome :
       AssertOutcome(e, a, o) \/ Dispute(e, a, o) \/ Vote(e, a, o)
  \/ \E a \in Account : WithdrawBond(a)

Spec == Init /\ [][Next]_vars

-----------------------------------------------------------------------------
(* Properties.                                                              *)

UnitsIn(s) == {u \in Unit : custody[u].state = s}
CreditedTo(a) == {u \in UnitsIn("credited") : custody[u].owner = a}

\* The resolver holds exactly the bonds it owes: those locked in open cases
\* plus those credited, and each account's credit counts the bonds that ended
\* with it.  So no checked subtraction in finish or withdrawBond can revert
\* and strand a case or a credit (PilotResolver.sol:191-216).
BondsBacked ==
  /\ held = lockedBonds + totalCredits
  /\ lockedBonds = Cardinality(UnitsIn("locked"))
  /\ totalCredits = Cardinality(UnitsIn("credited"))
  /\ \A a \in Account : credits[a] = Cardinality(CreditedTo(a))

\* The account that posted the bond of a role, and the outcome the other
\* side of the dispute stood for.
Poster(e, role) == IF role = "asserter" THEN cases[e].asserter ELSE cases[e].disputer
Opposite(e, role) == IF role = "asserter" THEN cases[e].counter ELSE cases[e].proposal

Majority(e, o) == 2 * votes[e][o] > Cardinality(Reviewer)

\* A bond leaves its poster only by a ruling: it belongs to somebody else
\* only when a majority of the panel voted for exactly what the other side
\* claimed.  Timeouts and third outcomes return it (finish, lines 207-212).
BondLostOnlyByRuling ==
  \A e \in Event, role \in Role :
    custody[<<e, role>>].owner # Poster(e, role)
      => /\ Opposite(e, role) # Unset
         /\ Majority(e, Opposite(e, role))

\* Every result has its reason: an unclaimed event is Void, an unchallenged
\* claim stands, and a dispute ends with the panel's majority or, when there
\* is none by the voting deadline, as Void.  Conversely a majority is decisive:
\* the case is final with that result in the same transaction (vote, finalize).
ResultJustified ==
  \A e \in Event :
    LET c == cases[e] IN
    /\ c.phase = "Finalized" =>
         \/ c.asserter = NoAccount /\ c.result = "Void" /\ now >= AssertionDeadline(e)
         \/ /\ c.asserter # NoAccount /\ c.disputer = NoAccount
            /\ c.result = c.proposal /\ now >= c.challengeUntil
         \/ c.disputer # NoAccount /\ Majority(e, c.result)
         \/ /\ c.disputer # NoAccount /\ c.result = "Void" /\ now >= c.voteUntil
            /\ \A o \in Outcome : ~Majority(e, o)
    /\ \A o \in Outcome : Majority(e, o) => c.phase = "Finalized" /\ c.result = o

\* Each reviewer counts once per event: the three counters sum to the number
\* of reviewers that voted (vote, lines 159-165).
BallotsCounted ==
  \A e \in Event :
    votes[e]["No"] + votes[e]["Yes"] + votes[e]["Void"] = Cardinality(voted[e])

\* The pool is resolved exactly when the resolver delivered, with the final
\* results and with no bond left locked: finalize refuses to run afterwards,
\* so a bond still locked then could never be released (deliver, lines 177-189).
SettlementMatches ==
  /\ resolved = delivered
  /\ resolved => /\ AllFinal /\ lockedBonds = 0
                 /\ \A e \in Event : cases[e].result \in Outcome
                 /\ resolvedState = Results("Yes") /\ voidMask = Results("Void")

\* Once every case is final the pool's own checks cannot refuse the result:
\* the observation windows start after the trading close, and no event is in
\* both masks (PilotPool.sol:49-52 called from deliver).
DeliveryNotRefused ==
  RequireActive /\ (\A e \in Event : cases[e].phase = "Finalized")
    => PoolAccepts(Results("Yes"), Results("Void"))

\* No sequence of calls moves a deadline past the horizon the constructor
\* checks for 64-bit overflow (PilotResolver.sol:87), so every case
\* can be finalized from that time on.
WithinHorizon ==
  \A e \in Event :
    LET c == cases[e] IN
    /\ c.phase = "Asserted" => c.challengeUntil < AssertionDeadline(e) + ChallengePeriod
    /\ c.phase = "Disputed" =>
         c.voteUntil < AssertionDeadline(e) + ChallengePeriod + VotingPeriod

\* A final case never changes: neither a late vote, nor a second finalize, nor
\* the delivery touches its result, its parties or its ballots.
ResultIsFinal ==
  [][\A e \in Event : cases[e].phase = "Finalized"
       => cases'[e] = cases[e] /\ votes'[e] = votes[e] /\ voted'[e] = voted[e]]_vars

\* The resolver implements the abstract settlement.
Settlement == INSTANCE EventSettlement WITH
  claim <- [e \in Event |-> cases[e].proposal],
  counter <- [e \in Event |-> cases[e].counter],
  outcome <- [e \in Event |-> cases[e].result],
  published <- resolved, yes <- resolvedState, void <- voidMask

\* Every step of the contract is a step of EventSettlement or changes nothing
\* it can see.
ImplementsSettlement == Settlement!Spec
=============================================================================
