----------------------------- MODULE AgentRecords -----------------------------
(***************************************************************************)
(* What the server records of an agent's trades: proposals a person approves *)
(* in a wallet (agents/agent-api.mjs), executions a runtime reports           *)
(* (agents/runtime-api.mjs), and the store both write (agents/agent-store.mjs).*)
(*                                                                          *)
(* Every change is one mutate: take the account's lock, read the agent, edit *)
(* the copy, and write it with the SAVE script, which compares the agent's    *)
(* revision and the owners of the transactions it claims.  The lock expires   *)
(* under a slow holder.  Requests run on several servers; the slow part of a  *)
(* request (preparing a review) happens outside the lock.                     *)
(*                                                                          *)
(* Only equality of revisions and versions is ever tested, so a staged write  *)
(* carries the flag fresh and a request the flag same in their place: a save  *)
(* clears them where the code's counters would differ.  A review stands for   *)
(* the digest of the transaction it prepared; two proposals may prepare the   *)
(* same one.  Quote expiry, rate limits, the paper book, decision details and *)
(* the v1 migration are not modelled.                                         *)
(***************************************************************************)
EXTENDS Integers, FiniteSets, Sequences

CONSTANTS
  Server, Agent, Decision, Review, Hash,
  Assisted,        \* agents whose trades a person approves; the others are runtimes
  Purchase,        \* the reviews that buy; the others approve an allowance
  NoServer, NoReview, NoTx, NoOwner,
  MaxProposals,    \* bound: proposals an agent ever makes
  FullProposals,   \* resolved proposals kept without a review (50)
  FinalKept,       \* verified executions kept (500)
  MaxExpiry,       \* bound: locks that expire under a live holder
  MaxCrash         \* bound: servers that die in a request

Id == 1..MaxProposals
Execution == 0     \* the record name of a reported execution

ASSUME RecordsAssumption ==
  /\ Purchase \subseteq Review /\ Assisted \subseteq Agent /\ NoReview \notin Review
  /\ NoServer \notin Server /\ Decision # {}
  /\ NoOwner \notin [agent : Agent, record : Id \cup {Execution}, tx : Review]
  /\ MaxProposals \in Nat /\ FullProposals \in Nat /\ FinalKept \in Nat

VARIABLES
  agents,          \* agents[a]: the stored state of the agent
  profile,         \* "active" or "archived"
  owner,           \* owner[h]: the ownership record of a transaction
  chain,           \* chain[h]: the transaction behind the hash, once it is mined
  lapsed,          \* proposals whose reservation time is over
  lock,            \* lock[a]: holder of the account's lock; an account per agent
  job,             \* job[s]: the request a server is working on
  expiries, crashes

recordVars == <<agents, profile, owner, chain, lapsed, lock, job, expiries, crashes>>

Status == {"absent", "dropped", "preparing", "awaiting-approval", "submitted", "rejected",
           "confirmed", "approval-confirmed", "failed", "preparation-failed",
           "preparation-expired"}

Sent == [state : {"none", "submitted", "confirmed", "reverted", "mismatch"},
         review : Review \cup {NoReview}, before : Status \cup {""},
         elsewhere : BOOLEAN, accounted : BOOLEAN]
Unsent == [state |-> "none", review |-> NoReview, before |-> "",
           elsewhere |-> FALSE, accounted |-> FALSE]
Absent == [status |-> "absent", decision |-> NoReview, reviews |-> {},
           sent |-> [h \in Hash |-> Unsent]]
NewAgent == [proposals |-> [i \in Id |-> Absent], decisions |-> Decision,
             purchases |-> 0, totals |-> 0, executions |-> <<>>]
NoJob == [step |-> "none"]

RecordsTypeOK ==
  /\ \A a \in Agent :
       /\ DOMAIN agents[a].proposals = Id
       /\ agents[a].purchases \in Nat /\ agents[a].totals \in Nat
       /\ \A i \in Id : LET p == agents[a].proposals[i] IN
            /\ p.status \in Status /\ p.reviews \subseteq Review /\ p.sent \in [Hash -> Sent]
            /\ Cardinality({h \in Hash : p.sent[h].state = "submitted"}) <= 1
  /\ profile \in [Agent -> {"active", "archived"}]
  /\ lock \in [Agent -> Server \cup {NoServer}]
  /\ lapsed \subseteq Agent \X Id

RecordsInit ==
  /\ agents = [a \in Agent |-> NewAgent]
  /\ profile = [a \in Agent |-> "active"]
  /\ owner = [h \in Hash |-> NoOwner] /\ chain = [h \in Hash |-> NoTx]
  /\ lapsed = {} /\ lock = [a \in Agent |-> NoServer]
  /\ job = [s \in Server |-> NoJob] /\ expiries = 0 /\ crashes = 0

-----------------------------------------------------------------------------
(* mutate: the lock, the staged write and the SAVE script.                  *)

HasSubmitted(p) == \E h \in Hash : p.sent[h].state = "submitted"
Reserving(a, i) == agents[a].proposals[i].status = "preparing" /\ <<a, i>> \notin lapsed
OwnsPurchase(p) ==
  \E h \in Hash : /\ p.sent[h].state = "confirmed" /\ p.sent[h].review \in Purchase
                  /\ ~p.sent[h].elsewhere

\* Never trimmed: what is being prepared, tracked or still waits for the person.
Unresolved(a, i, p) ==
  \/ p.status = "preparing" /\ <<a, i>> \notin lapsed
  \/ HasSubmitted(p) \/ p.status \in {"awaiting-approval", "approval-confirmed"}

\* Mutant: an old proposal is dropped although its review may have been sent.
Droppable_Any(p) == TRUE

Droppable(p) == p.reviews = {}

FinalStatus == {"confirmed", "reverted", "mismatch", "attributed-elsewhere"}

\* retain: the newest FullProposals resolved proposals and FinalKept verified
\* executions stay; older ones go, proposals only if they never had a review.
Retain(a, st) ==
  LET Resolved(i) == st.proposals[i].status \notin {"absent", "dropped"}
                       /\ ~Unresolved(a, i, st.proposals[i])
      Newer(i) == {j \in Id : j > i /\ Resolved(j)}
      Finals(k) == {m \in 1..k : st.executions[m].status \in FinalStatus}
      keep == {k \in DOMAIN st.executions :
                 st.executions[k].status \in FinalStatus => Cardinality(Finals(k)) <= FinalKept}
  IN [st EXCEPT
        !.proposals = [i \in Id |->
           IF Resolved(i) /\ Cardinality(Newer(i)) >= FullProposals /\ Droppable(@[i])
           THEN [Absent EXCEPT !.status = "dropped"] ELSE @[i]],
        !.executions = [n \in 1..Cardinality(keep) |->
           @[CHOOSE k \in keep : Cardinality({m \in keep : m <= k}) = n]]]

\* A request inside the lock, its edited copy staged for SAVE.  touched is the
\* proposal whose version the edit bumps, next what the request does afterwards.
Stage(s, a, st, claims, touched, next) ==
  /\ lock[a] = NoServer
  /\ lock' = [lock EXCEPT ![a] = s]
  /\ job' = [job EXCEPT ![s] = [step |-> "save", agent |-> a, state |-> Retain(a, st),
               claims |-> claims, touched |-> touched, next |-> next, fresh |-> TRUE]]
  /\ UNCHANGED <<agents, profile, owner, chain, lapsed, expiries, crashes>>

Claim(h, a, record, r) == [hash |-> h, by |-> [agent |-> a, record |-> record, tx |-> r]]

Release(s) == [a \in Agent |-> IF lock[a] = s THEN NoServer ELSE lock[a]]

Fresh(w) == w.fresh

\* Mutant: ownership is taken from whoever has it.
Unowned_Assumed(w) == TRUE

Unowned(w) == \A c \in w.claims : owner[c.hash] \in {NoOwner, c.by}

Claimed(h, by) == IF owner[h] = NoOwner THEN by ELSE owner[h]

\* What other requests learn of a save when they compare counters.
Outdated(t, w) ==
  IF job[t].step = "save" /\ job[t].agent = w.agent THEN [job[t] EXCEPT !.fresh = FALSE]
  ELSE IF job[t].step \in {"prepare", "refresh"} /\ job[t].agent = w.agent /\ job[t].id = w.touched
       THEN [job[t] EXCEPT !.same = FALSE]
  ELSE job[t]

Save(s) ==
  LET w == job[s] IN
  /\ w.step = "save"
  /\ lock' = Release(s)
  /\ IF Fresh(w) /\ Unowned(w)
     THEN /\ agents' = [agents EXCEPT ![w.agent] = w.state]
          /\ owner' = [h \in Hash |-> IF \E c \in w.claims : c.hash = h
                                      THEN Claimed(h, (CHOOSE c \in w.claims : c.hash = h).by)
                                      ELSE owner[h]]
          /\ job' = [t \in Server |-> IF t = s THEN w.next ELSE Outdated(t, w)]
     ELSE /\ job' = [job EXCEPT ![s] = NoJob]       \* BUSY or OWNERSHIP_RACE
          /\ UNCHANGED <<agents, owner>>
  /\ UNCHANGED <<profile, chain, lapsed, expiries, crashes>>

-----------------------------------------------------------------------------
(* Proposals.                                                               *)

Live == {"awaiting-approval", "submitted", "approval-confirmed", "confirmed"}

Blocks(a, i) == Reserving(a, i) \/ agents[a].proposals[i].status \in Live

Expired(a, i) ==
  LET p == agents[a].proposals[i] IN
  IF p.status = "preparing" /\ ~Reserving(a, i)
  THEN [p EXCEPT !.status = "preparation-expired"] ELSE p

\* propose, first half: reserve the decision.
Reserve(s, a, d) ==
  LET st == agents[a] IN
  /\ job[s] = NoJob /\ profile[a] = "active" /\ d \in st.decisions
  /\ \A i \in Id : st.proposals[i].decision = d => ~Blocks(a, i)
  /\ \E i \in Id :
       /\ st.proposals[i].status = "absent" /\ \A j \in 1..i - 1 : st.proposals[j].status # "absent"
       /\ Stage(s, a, [st EXCEPT !.proposals = [j \in Id |->
                  IF j = i THEN [Absent EXCEPT !.status = "preparing", !.decision = d]
                  ELSE Expired(a, j)]], {}, 0,
                [step |-> "prepare", agent |-> a, id |-> i, same |-> TRUE])

\* Mutant: a review prepared before the agent was archived is still issued.
Issuable_Anyway(a, r) == r # NoReview

Issuable(a, r) == r # NoReview /\ profile[a] # "archived"

\* propose, second half: issue the review if the reservation is still ours.
Activate(s, r) ==
  LET a == job[s].agent  i == job[s].id  p == agents[a].proposals[i]
      new == IF p.status # "preparing" \/ ~job[s].same THEN p
             ELSE IF ~Issuable(a, r) THEN [p EXCEPT !.status = "preparation-failed"]
             ELSE IF <<a, i>> \in lapsed THEN [p EXCEPT !.status = "preparation-expired"]
             ELSE [p EXCEPT !.status = "awaiting-approval", !.reviews = {r}]
  IN /\ job[s].step = "prepare"
     /\ Stage(s, a, [agents[a] EXCEPT !.proposals[i] = new], {}, i, NoJob)

Waiting(p) == ~HasSubmitted(p) /\ p.status \in {"awaiting-approval", "approval-confirmed"}

LoadRefresh(s, a, i) ==
  /\ job[s] = NoJob /\ profile[a] = "active" /\ Waiting(agents[a].proposals[i])
  /\ job' = [job EXCEPT ![s] = [step |-> "refresh", agent |-> a, id |-> i, same |-> TRUE]]
  /\ UNCHANGED <<agents, profile, owner, chain, lapsed, lock, expiries, crashes>>

\* Mutant: the proposal is not compared with the one the review was made for.
Unchanged_Assumed(j) == TRUE

Unchanged(j) == j.same

Refresh(s, r) ==
  LET a == job[s].agent  i == job[s].id  p == agents[a].proposals[i] IN
  /\ job[s].step = "refresh" /\ Unchanged(job[s]) /\ profile[a] # "archived"
  /\ p.status # "dropped"
  /\ Stage(s, a, [agents[a] EXCEPT !.proposals[i] =
             [p EXCEPT !.status = "awaiting-approval", !.reviews = p.reviews \cup {r}]], {}, i, NoJob)

\* The change throws, or the preparation failed: nothing is written.
GiveUp(s) ==
  /\ job[s].step = "refresh"
  /\ job' = [job EXCEPT ![s] = NoJob]
  /\ UNCHANGED <<agents, profile, owner, chain, lapsed, lock, expiries, crashes>>

\* Any proposal that issued the review may record the hash, whatever became of it.
Submit(s, a, i, h, r) ==
  LET p == agents[a].proposals[i] IN
  /\ job[s] = NoJob
  /\ owner[h] \in {NoOwner, Claim(h, a, i, r).by}
  /\ p.sent[h].state = "none" /\ ~HasSubmitted(p) /\ r \in p.reviews
  /\ Stage(s, a, [agents[a] EXCEPT !.proposals[i] =
             [p EXCEPT !.status = "submitted",
                       !.sent[h] = [Unsent EXCEPT !.state = "submitted", !.review = r,
                                                  !.before = p.status]]], {}, i, NoJob)

Reject(s, a, i) ==
  /\ job[s] = NoJob /\ profile[a] = "active" /\ Waiting(agents[a].proposals[i])
  /\ Stage(s, a, [agents[a] EXCEPT !.proposals[i].status = "rejected"], {}, i, NoJob)

-----------------------------------------------------------------------------
(* Receipts: attribution and accounting in one write.                       *)

\* A receipt two blocks deep; chain is what every server reads from then on.
Verdict(h, r) == IF chain[h].tx # r THEN "mismatch"
                 ELSE IF chain[h].ok THEN "confirmed" ELSE "reverted"

Elsewhere(h, by) == owner[h] \notin {NoOwner, by}

Settled(p, x) ==
  IF OwnsPurchase(p) THEN "confirmed"
  ELSE IF x.elsewhere THEN x.before
  ELSE IF x.state = "confirmed" THEN "approval-confirmed" ELSE "failed"

Check(s, a, i, h) ==
  LET p == agents[a].proposals[i]  x == p.sent[h]
      v == Verdict(h, x.review)  c == Claim(h, a, i, x.review)
      verified == v \in {"confirmed", "reverted"}
      other == verified /\ Elsewhere(h, c.by)
      counts == v = "confirmed" /\ x.review \in Purchase /\ ~other
      done == [x EXCEPT !.state = v, !.elsewhere = other, !.accounted = counts]
      q == [p EXCEPT !.sent[h] = done]
  IN /\ job[s] = NoJob /\ x.state = "submitted" /\ chain[h] # NoTx
     /\ Stage(s, a, [agents[a] EXCEPT
                !.proposals[i] = [q EXCEPT !.status = Settled(q, done)],
                !.purchases = IF counts THEN @ + 1 ELSE @],
              IF verified /\ ~other THEN {c} ELSE {}, i, NoJob)

Reported(a, h) == \E k \in DOMAIN agents[a].executions : agents[a].executions[k].hash = h

Report(s, a, h, r) ==
  /\ job[s] = NoJob /\ ~Reported(a, h)
  /\ owner[h] # NoOwner => owner[h].agent = a /\ owner[h].record = Execution
  /\ Stage(s, a, [agents[a] EXCEPT !.executions =
             <<[hash |-> h, intent |-> r, status |-> "recorded"]>> \o @], {}, 0, NoJob)

\* Mutant: an execution that is already verified is counted again.
Countable_Always(e) == TRUE

Countable(e) == e.status \notin FinalStatus

CheckExecution(s, a, k) ==
  LET e == agents[a].executions[k]  h == e.hash
      v == IF chain[h].wallet # a THEN "mismatch" ELSE Verdict(h, e.intent)
      c == Claim(h, a, Execution, e.intent)
      verified == v \in {"confirmed", "reverted"}
      status == IF verified /\ Elsewhere(h, c.by) THEN "attributed-elsewhere" ELSE v
  IN /\ job[s] = NoJob /\ Countable(e) /\ chain[h] # NoTx
     /\ Stage(s, a, [agents[a] EXCEPT
                !.executions[k].status = status,
                !.totals = IF status \in {"confirmed", "reverted"} THEN @ + 1 ELSE @],
              IF status \in {"confirmed", "reverted"} THEN {c} ELSE {}, 0, NoJob)

-----------------------------------------------------------------------------
(* Archiving: the profile first, in the lock, and the feed in a later change. *)

Archive(s, a) ==
  /\ job[s] = NoJob /\ profile[a] = "active" /\ lock[a] = NoServer
  /\ profile' = [profile EXCEPT ![a] = "archived"]
  /\ job' = [job EXCEPT ![s] = [step |-> "clear", agent |-> a]]
  /\ UNCHANGED <<agents, owner, chain, lapsed, lock, expiries, crashes>>

ClearFeed(s) ==
  /\ job[s].step = "clear"
  /\ Stage(s, job[s].agent, [agents[job[s].agent] EXCEPT !.decisions = {}], {}, 0, NoJob)

-----------------------------------------------------------------------------
(* Time, faults and the chain.                                              *)

Lapse ==
  /\ \E a \in Agent, i \in Id : Reserving(a, i) /\ lapsed' = lapsed \cup {<<a, i>>}
  /\ UNCHANGED <<agents, profile, owner, chain, lock, job, expiries, crashes>>

HoldsFor(a) == lock[a] # NoServer /\ job[lock[a]].step = "save"
                 /\ job[lock[a]].agent = a

\* Ten seconds: the holder died, or is slow and will go on without the lock.
LockExpires(a) ==
  /\ lock[a] # NoServer
  /\ IF HoldsFor(a) THEN expiries < MaxExpiry /\ expiries' = expiries + 1
     ELSE UNCHANGED expiries
  /\ lock' = [lock EXCEPT ![a] = NoServer]
  /\ UNCHANGED <<agents, profile, owner, chain, lapsed, job, crashes>>

Crash(s) ==
  /\ job[s] # NoJob /\ crashes < MaxCrash /\ crashes' = crashes + 1
  /\ job' = [job EXCEPT ![s] = NoJob]
  /\ UNCHANGED <<agents, profile, owner, chain, lapsed, lock, expiries>>

\* A transaction some proposal prepared, or one a runtime signed with the wallet
\* that is associated with it at the time of the block.
Mined(h) ==
  /\ chain[h] = NoTx
  /\ \E r \in Review, ok \in BOOLEAN, w \in (Agent \ Assisted) \cup {NoOwner} :
       chain' = [chain EXCEPT ![h] = [tx |-> r, ok |-> ok, wallet |-> w]]
  /\ UNCHANGED <<agents, profile, owner, lapsed, lock, job, expiries, crashes>>

Propose(s, a) == \E d \in Decision : Reserve(s, a, d)
Track(s, a) ==
  \E i \in Id : \/ LoadRefresh(s, a, i) \/ Reject(s, a, i)
               \/ \E h \in Hash : \/ Check(s, a, i, h)
                                  \/ \E r \in Review : Submit(s, a, i, h, r)
Runtime(s, a) ==
  \/ \E h \in Hash, r \in Review : Report(s, a, h, r)
  \/ \E k \in DOMAIN agents[a].executions : CheckExecution(s, a, k)

RecordsNext ==
  \/ \E s \in Server : \/ Save(s) \/ GiveUp(s) \/ ClearFeed(s) \/ Crash(s)
                       \/ \E r \in Review \cup {NoReview} : Activate(s, r)
                       \/ \E r \in Review : Refresh(s, r)
                       \/ \E a \in Assisted : Propose(s, a) \/ Track(s, a)
                       \/ \E a \in Agent \ Assisted : Runtime(s, a)
                       \/ \E a \in Agent : Archive(s, a)
  \/ Lapse \/ \E a \in Agent : LockExpires(a)
  \/ \E h \in Hash : Mined(h)

RecordsSpec == RecordsInit /\ [][RecordsNext]_recordVars
-----------------------------------------------------------------------------
(* Properties.                                                              *)

Counted(a) ==
  {z \in Id \X Hash : agents[a].proposals[z[1]].sent[z[2]].accounted}

\* A purchase is counted by the one record that owns its transaction, only if
\* the chain executed exactly the review it was sent for, and the agent's total
\* is the number of those; whatever servers raced, retried, lost their lock or
\* died (agent-store.mjs:260-265, agent-api.mjs:325-334).
PurchasesAttributed ==
  \A a \in Agent :
    /\ agents[a].purchases = Cardinality(Counted(a))
    /\ \A i \in Id, h \in Hash :
         LET x == agents[a].proposals[i].sent[h] IN
         x.accounted => /\ owner[h] = Claim(h, a, i, x.review).by
                        /\ chain[h] # NoTx /\ chain[h].ok /\ chain[h].tx = x.review

\* The totals of a runtime agent count each transaction it owns, and count it
\* once while no more transactions exist than verified executions are kept: a
\* dropped one is forgotten, and when it is reported again its owner may count it
\* again (agent-store.mjs:219-222, runtime-api.mjs:90-116).
ExecutionsCountedOnce ==
  \A a \in Agent :
    LET owned == {h \in Hash : /\ owner[h] # NoOwner /\ owner[h].agent = a
                              /\ owner[h].record = Execution}
    IN /\ agents[a].totals >= Cardinality(owned)
       /\ Cardinality({h \in Hash : chain[h] # NoTx}) <= FinalKept
            => agents[a].totals = Cardinality(owned)

\* A tracked transaction decides the status of its proposal: while one is
\* tracked the proposal is submitted, so no new review replaces it, and a
\* proposal that owns a purchase reads confirmed otherwise (agent-api.mjs:59-64).
TrackedIsSubmitted ==
  \A a \in Agent, i \in Id :
    LET p == agents[a].proposals[i] IN
    /\ HasSubmitted(p) <=> p.status = "submitted"
    /\ OwnsPurchase(p) /\ ~HasSubmitted(p) => p.status = "confirmed"

\* Both accounts hold in every reachable state, statuses follow the tracked
\* transactions, and every record keeps its type.
AccountedOnce ==
  /\ RecordsTypeOK /\ PurchasesAttributed /\ ExecutionsCountedOnce
  /\ TrackedIsSubmitted

\* A review that was issued can be sent at any time, so it stays recoverable: no
\* later save drops the proposal or any of its reviews (agent-store.mjs:17-18).
\* And once the feed of an archived agent is cleared nothing new is issued for
\* it, not even by a request that began before and lost its lock
\* (agent-store.mjs:337-355).
IssuedReviews ==
  [][\A a \in Agent, i \in Id :
       LET old == agents[a].proposals[i].reviews
           new == agents'[a].proposals[i].reviews
       IN /\ old \subseteq new
          /\ profile[a] = "archived" /\ agents[a].decisions = {} => new = old]_recordVars
=============================================================================
