---------------------------- MODULE AgentExecutor ----------------------------
(***************************************************************************)
(* Live execution by the agent runtime: packages/sdk/src/node/executor.ts   *)
(* with recovery.ts, effects.ts, policy.ts and the journal those processes  *)
(* share (node/journal.ts).  Several processes may use one state directory  *)
(* and one wallet.  A process plans a transaction (policy check and spend   *)
(* reservation), signs it, sends it, and reconciles open entries with what  *)
(* the chain shows, one RPC call at a time.                                 *)
(*                                                                          *)
(* A body that runs under the journal lock is one action: a crash inside it *)
(* leaves the old journal, because the file is renamed at the end.  What a  *)
(* process reads outside the lock (chain, journal snapshot) is kept in      *)
(* view[p] and may be stale when it is used.  The network may lose, delay   *)
(* or evict a transaction and answer or not.  Each buy or sell is of one    *)
(* share of one claim; all buys have the same limit.                        *)
(***************************************************************************)
EXTENDS Sums

CONSTANTS
  Proc,             \* processes that share the state directory
  Entry,            \* journal entries that can ever be made (bound)
  NoEntry,
  Gone,             \* the pid of a process that is no longer running
  Actions,          \* which of buy, sell, redeem and approve are attempted
  Limit,            \* maxCost of a buy
  MaxSpend, MaxPosition, MaxPending,     \* the policy
  DeadlineAfter,    \* a trade's deadline: so long after the block of its quote
  FreshPlan,        \* a plan younger than this is left to its live owner
  MaxTime,          \* the clock saturates here; plans are made early enough
  MaxForeign, MaxReorg, MaxCrash,        \* bounds on environment events
  AtomicReads       \* TRUE: the chain does not move between two of the reads
                    \* of one reconciliation (FALSE is the code)

ASSUME ExecutorAssumption ==
  /\ IsFiniteSet(Entry) /\ NoEntry \notin Entry /\ Gone \notin Proc
  /\ Actions \subseteq {"buy", "sell", "redeem", "approve"}
  /\ Limit \in Nat \ {0} /\ MaxSpend \in Nat /\ MaxPosition \in Nat
  /\ MaxPending \in Nat /\ MaxTime \in Nat
  /\ DeadlineAfter \in Nat /\ FreshPlan \in Nat
  /\ MaxForeign \in Nat /\ MaxReorg \in Nat /\ MaxCrash \in Nat
  /\ AtomicReads \in BOOLEAN

NoNonce == -1
Unfinished == {"planned", "signed", "broadcast"}
Final == {"confirmed", "reverted", "mismatch", "replaced", "expired", "abandoned"}

VARIABLES
  journal,      \* the journal file; "free" entries do not exist yet
  pc, cur, view,            \* each process: its step, its entry, what it read
  now,                      \* time of the head block, and of every clock
  used,                     \* nonces of the wallet used on the chain
  mined, cost,              \* mined[e]: its effect on the chain; cost of a buy
  recent,                   \* the transaction in the head block, if it is one of ours
  mempool, inflight,        \* known to the node; sent but not arrived
  foreign, reorgs, crashes  \* counters for the bounds

procVars == <<pc, cur, view>>
chainVars == <<now, used, mined, cost, recent, mempool>>
vars == <<journal, procVars, chainVars, inflight, foreign, reorgs, crashes>>

Effects == {"ok", "odd", "reverted"}   \* odd: mined, without the expected effect

\* An entry has a nonce exactly when it has been signed.
JournalEntry ==
  {j \in [status : {"free"} \cup Unfinished \cup Final, action : Actions \cup {"none"},
          nonce : 0..Cardinality(Entry) + MaxForeign \cup {NoNonce},
          deadline : -1..MaxTime, cost : 0..Limit, plannedAt : 0..MaxTime,
          owner : Proc \cup {Gone}] :
     j.nonce = NoNonce <=> j.status \in {"free", "planned", "abandoned"}}

NoView == [status |-> "none", held |-> 0, overdue |-> FALSE, deep |-> FALSE,
           found |-> FALSE, receipt |-> "none", becomes |-> "none"]

TypeOK ==
  /\ journal \in [Entry -> JournalEntry]
  /\ pc \in [Proc -> {"idle", "plan", "sign", "send", "mark", "lookup",
                      "count", "apply", "resend"}]
  /\ cur \in [Proc -> Entry \cup {NoEntry}]
  /\ view \in [Proc -> [status : {"none"} \cup Unfinished, held : Nat,
                        overdue : BOOLEAN, deep : BOOLEAN, found : BOOLEAN,
                        receipt : {"none"} \cup Effects,
                        becomes : {"none", "broadcast"} \cup Final]]
  /\ now \in 0..MaxTime /\ used \in Nat
  /\ mined \in [Entry -> {"no"} \cup Effects] /\ cost \in [Entry -> 0..Limit]
  /\ recent \subseteq Entry /\ mempool \subseteq Entry /\ inflight \subseteq Entry
  /\ foreign \in 0..MaxForeign /\ reorgs \in 0..MaxReorg /\ crashes \in 0..MaxCrash

Init ==
  /\ journal = [e \in Entry |-> [status |-> "free", action |-> "none", nonce |-> NoNonce,
                                 deadline |-> -1, cost |-> 0, plannedAt |-> 0,
                                 owner |-> Gone]]
  /\ pc = [p \in Proc |-> "idle"] /\ cur = [p \in Proc |-> NoEntry]
  /\ view = [p \in Proc |-> NoView]
  /\ now = 0 /\ used = 0
  /\ mined = [e \in Entry |-> "no"] /\ cost = [e \in Entry |-> 0]
  /\ recent = {} /\ mempool = {} /\ inflight = {}
  /\ foreign = 0 /\ reorgs = 0 /\ crashes = 0

-----------------------------------------------------------------------------
(* The journal as policy sees it.                                           *)

Status(e) == journal[e].status
Open == {e \in Entry : Status(e) \in Unfinished}
OpenBuys == {e \in Open : journal[e].action = "buy"}

\* Mutant: an unfinished buy reserves nothing.
SpendOf_ConfirmedOnly(e) ==
  IF journal[e].action = "buy" /\ Status(e) = "confirmed" THEN journal[e].cost ELSE 0

SpendOf(e) ==
  IF journal[e].action # "buy" THEN 0
  ELSE IF Status(e) = "confirmed" THEN journal[e].cost
  ELSE IF Status(e) \in Unfinished \cup {"mismatch"} THEN Limit
  ELSE 0

Spent == Sum([e \in Entry |-> SpendOf(e)], Entry)

\* Shares of the claim the wallet holds on the chain.
Traded(a) == Cardinality({e \in Entry : mined[e] = "ok" /\ journal[e].action = a})
Holdings == Traded("buy") - Traded("sell") - Traded("redeem")

\* Mutant: the candidate is not counted.
PolicyOk_WithoutCandidate(a, held) ==
  /\ Cardinality(Open) < MaxPending
  /\ a = "buy" => Spent <= MaxSpend /\ held + Cardinality(OpenBuys) + 1 <= MaxPosition
  /\ a \in {"sell", "redeem"} => held >= 1

\* evaluatePolicy, for the limits that relate entries to each other: `held`
\* was read before the lock was taken, the rest is the journal under the lock.
PolicyOk(a, held) ==
  /\ Cardinality(Open) < MaxPending
  /\ a = "buy" => /\ Spent + Limit <= MaxSpend
                  /\ held + Cardinality(OpenBuys) + 1 <= MaxPosition
  /\ a \in {"sell", "redeem"} => held >= 1

-----------------------------------------------------------------------------
(* The chain and the network.                                               *)

Undisturbed == AtomicReads => \A p \in Proc : pc[p] # "count"

Later(t) == IF t < MaxTime THEN t + 1 ELSE t

\* A transaction whose nonce has been used is forgotten, or refused on arrival.
Purged(s, n) == {e \in s : journal[e].nonce >= n}

\* A new head: later than its parent, or in the same second.
NextHead == now' \in {now, Later(now)}

NewBlock ==
  /\ Undisturbed
  /\ NextHead /\ recent' = {}
  /\ UNCHANGED <<journal, procVars, used, mined, cost, mempool, inflight,
                 foreign, reorgs, crashes>>

\* The effects a transaction can have: a trade past its deadline reverts, and so
\* does the sale or redemption of a share the wallet no longer has.
PossibleEffects(e, time) ==
  LET a == journal[e].action IN
  {"reverted"}
  \cup (IF a = "approve" THEN {"ok", "odd"} ELSE {})
  \cup (IF /\ a # "approve"
           /\ a \in {"buy", "sell"} => time <= journal[e].deadline
           /\ a \in {"sell", "redeem"} => Holdings >= 1
        THEN {"ok"} ELSE {})

\* The next block contains the transaction of e.
Mine(e) ==
  /\ Undisturbed
  /\ e \in mempool /\ journal[e].nonce = used
  /\ NextHead
  /\ \E eff \in PossibleEffects(e, now') :
       /\ mined' = [mined EXCEPT ![e] = eff]
       /\ \E c \in IF eff = "ok" /\ journal[e].action = "buy" THEN 1..Limit ELSE {0} :
            cost' = [cost EXCEPT ![e] = c]
  /\ used' = used + 1
  /\ mempool' = Purged(mempool, used + 1) /\ inflight' = Purged(inflight, used + 1)
  /\ recent' = {e}
  /\ UNCHANGED <<journal, procVars, foreign, reorgs, crashes>>

\* The operator sends something else from the wallet.
Foreign ==
  /\ Undisturbed
  /\ foreign < MaxForeign /\ foreign' = foreign + 1
  /\ used' = used + 1
  /\ mempool' = Purged(mempool, used + 1) /\ inflight' = Purged(inflight, used + 1)
  /\ NextHead /\ recent' = {}
  /\ UNCHANGED <<journal, procVars, mined, cost, reorgs, crashes>>

\* The head block is replaced by one without the transaction.
Reorg(e) ==
  /\ Undisturbed
  /\ e \in recent
  /\ reorgs < MaxReorg /\ reorgs' = reorgs + 1
  /\ mined' = [mined EXCEPT ![e] = "no"] /\ cost' = [cost EXCEPT ![e] = 0]
  /\ used' = used - 1 /\ recent' = {}
  /\ mempool' = mempool \cup {e}
  /\ UNCHANGED <<journal, procVars, now, inflight, foreign, crashes>>

\* A delayed send arrives at last: accepted, or refused because its nonce is used.
Arrive(e) ==
  /\ Undisturbed
  /\ e \in inflight /\ inflight' = inflight \ {e}
  /\ mempool' = IF journal[e].nonce >= used THEN mempool \cup {e} ELSE mempool
  /\ UNCHANGED <<journal, procVars, now, used, mined, cost, recent, foreign, reorgs, crashes>>

\* The node evicts a transaction it has not mined.
Evict(e) ==
  /\ Undisturbed
  /\ e \in mempool /\ mempool' = mempool \ {e}
  /\ UNCHANGED <<journal, procVars, now, used, mined, cost, recent, inflight,
                 foreign, reorgs, crashes>>

\* eth_getTransactionCount(wallet, "pending"): used nonces, and those of the
\* transactions in the node's pool that can follow them without a gap.
PendingCount ==
  LET Known == {journal[e].nonce : e \in mempool}
  IN  used + Cardinality({n \in Known : \A m \in used..n : m \in Known})

-----------------------------------------------------------------------------
(* The processes: plan, sign, broadcast.                                    *)

env == <<chainVars, inflight, foreign, reorgs, crashes>>

Goto(p, step) == pc' = [pc EXCEPT ![p] = step]

Idle(p) ==
  /\ Goto(p, "idle")
  /\ cur' = [cur EXCEPT ![p] = NoEntry]
  /\ view' = [view EXCEPT ![p] = NoView]

\* Bound: entries are left, and time for a plan to age and a trade to expire.
MayPlan ==
  /\ \E e \in Entry : Status(e) = "free"
  /\ now + DeadlineAfter < MaxTime /\ now + FreshPlan <= MaxTime

\* plan, before the lock: a candidate simulates well and the holdings are read.
ReadForPlan(p) ==
  /\ pc[p] = "idle" /\ MayPlan
  /\ Goto(p, "plan")
  /\ view' = [view EXCEPT ![p].held = Holdings]
  /\ UNCHANGED <<journal, cur, env>>

\* plan, under the lock: the policy check and the reservation in one step.
Plan(p, e, a) ==
  /\ pc[p] = "plan" /\ Status(e) = "free" /\ MayPlan
  /\ PolicyOk(a, view[p].held)
  /\ journal' = [journal EXCEPT ![e] =
       [@ EXCEPT !.status = "planned", !.action = a, !.plannedAt = now, !.owner = p,
                 !.deadline = IF a \in {"buy", "sell"} THEN now + DeadlineAfter ELSE -1]]
  /\ Goto(p, "sign")
  /\ cur' = [cur EXCEPT ![p] = e] /\ view' = [view EXCEPT ![p] = NoView]
  /\ UNCHANGED env

\* The candidate violates the policy (in some other respect, perhaps).
PlanRejected(p) ==
  /\ pc[p] = "plan"
  /\ Idle(p)
  /\ UNCHANGED <<journal, env>>

\* Mutant: the nonce is the node's pending count alone.
NextNonce_PendingOnly == PendingCount

NextNonce == Max({PendingCount} \cup {journal[e].nonce + 1 : e \in {x \in Open : journal[x].nonce # NoNonce}})

\* Mutant: sign trusts the plan it made and does not look at the entry again.
StillPlanned_Trusted(e) == Status(e) # "free"

StillPlanned(e) == Status(e) = "planned"

\* sign, under the lock.
Sign(p) ==
  /\ pc[p] = "sign" /\ StillPlanned(cur[p])
  /\ journal' = [journal EXCEPT ![cur[p]] = [@ EXCEPT !.status = "signed", !.nonce = NextNonce]]
  /\ Goto(p, "send")
  /\ UNCHANGED <<cur, view, env>>

\* Live execution is no longer allowed, or the semantic check of the claim fails.
SignRefused(p) ==
  /\ pc[p] = "sign" /\ StillPlanned(cur[p])
  /\ journal' = [journal EXCEPT ![cur[p]].status = "abandoned"]
  /\ Idle(p)
  /\ UNCHANGED env

\* Another process abandoned the plan, or a call made under the lock threw.
SignSkipped(p) ==
  /\ pc[p] = "sign"
  /\ Idle(p)
  /\ UNCHANGED <<journal, env>>

Accepts(e) == journal[e].nonce >= used

\* broadcast: the node accepts the bytes.
Send(p) ==
  /\ pc[p] = "send" /\ Accepts(cur[p])
  /\ mempool' = mempool \cup {cur[p]}
  /\ Goto(p, "mark")
  /\ UNCHANGED <<journal, cur, view, now, used, mined, cost, recent, inflight,
                 foreign, reorgs, crashes>>

\* broadcast fails or times out: the bytes may still arrive, now or never.
SendUncertain(p) ==
  /\ pc[p] = "send"
  /\ inflight' = inflight \cup {cur[p]}
  /\ Idle(p)
  /\ UNCHANGED <<journal, chainVars, foreign, reorgs, crashes>>

\* Mutant: the answer of a send overwrites whatever recovery recorded meanwhile.
Marked_Always(e) == "broadcast"

Marked(e) == IF Status(e) = "signed" THEN "broadcast" ELSE Status(e)

Mark(p) ==
  /\ pc[p] = "mark"
  /\ journal' = [journal EXCEPT ![cur[p]].status = Marked(cur[p])]
  /\ Idle(p)
  /\ UNCHANGED env

-----------------------------------------------------------------------------
(* Reconciliation of one entry: RPC reads, then one change.                 *)

\* A fresh plan of another live process is its own business.
LeftAlone(p, e) ==
  Status(e) = "planned" /\ now - journal[e].plannedAt < FreshPlan /\ journal[e].owner # p

\* Mutant: a receipt in the head block counts.
Deep_Head(e) == TRUE

\* One more block is built on the transaction's, as of the head that was read.
Deep(e) == mined[e] # "no" /\ e \notin recent

\* Mutant: an entry without a receipt is sent again for ever.
Overdue_Never(e) == FALSE

\* Mutant: a trade expires in its last second.
Overdue_Early(e) == journal[e].deadline >= 0 /\ now >= journal[e].deadline

\* The deadline, if there is one, is before the head block.
Overdue(e) == journal[e].deadline >= 0 /\ now > journal[e].deadline

\* The journal snapshot, then the head block.
ReadEntry(p, e) ==
  /\ pc[p] = "idle" /\ e \in Open /\ ~LeftAlone(p, e)
  /\ Goto(p, "lookup")
  /\ cur' = [cur EXCEPT ![p] = e]
  /\ view' = [view EXCEPT ![p] = [@ EXCEPT !.status = Status(e), !.overdue = Overdue(e),
                                         !.deep = Deep(e)]]
  /\ UNCHANGED <<journal, env>>

\* The receipt, then the transaction, both by hash; an entry that was read as
\* planned has no hash.
Lookup(p) ==
  /\ pc[p] = "lookup"
  /\ Goto(p, "count")
  /\ LET e == cur[p]
         known == view[p].status # "planned"
         found == known /\ (mined[e] # "no" \/ e \in mempool)
     IN  view' = [view EXCEPT ![p] = [NoView EXCEPT
           !.status = view[p].status, !.found = found,
           !.overdue = ~found /\ view[p].overdue,
           !.receipt = IF found /\ view[p].deep /\ mined[e] # "no" THEN mined[e] ELSE "none"]]
  /\ UNCHANGED <<journal, cur, env>>

\* Mutant: a nonce not used yet counts as used by another transaction.
NonceTaken_OffByOne(e, latest) == latest >= journal[e].nonce

NonceTaken(e, latest) == latest > journal[e].nonce

\* recoveryStep and verifyEffect: what becomes of an unfinished entry, from the
\* status, receipt, lookup and deadline in view v and the count `latest`.
RecoveryStep(e, v, latest) ==
  CASE v.status = "planned" -> "abandoned"
    [] v.receipt = "ok" -> "confirmed"
    [] v.receipt = "odd" -> "mismatch"
    [] v.receipt = "reverted" -> "reverted"
    [] OTHER -> IF v.found THEN "broadcast"
                ELSE IF NonceTaken(e, latest) THEN "replaced"
                ELSE IF v.overdue THEN "expired" ELSE "resend"

\* The count of used nonces is read last, and the step decided.  A poll of an
\* entry already known to be broadcast changes nothing.
ReadCount(p) ==
  /\ pc[p] = "count"
  /\ LET step == RecoveryStep(cur[p], view[p], used) IN
     \/ /\ step = "resend"
        /\ Goto(p, "resend") /\ view' = [view EXCEPT ![p] = NoView]
        /\ UNCHANGED cur
     \/ /\ step = "broadcast" /\ view[p].status # "signed"
        /\ Idle(p)
     \/ /\ step # "resend" /\ ~(step = "broadcast" /\ view[p].status # "signed")
        /\ Goto(p, "apply")
        /\ view' = [view EXCEPT ![p] = [NoView EXCEPT !.status = view[p].status, !.becomes = step]]
        /\ UNCHANGED cur
  /\ UNCHANGED <<journal, env>>

\* The same bytes again: accepted, or refused or unanswered.
Resend(p) ==
  /\ pc[p] = "resend"
  /\ \/ /\ Accepts(cur[p]) /\ mempool' = mempool \cup {cur[p]}
        /\ UNCHANGED inflight
     \/ inflight' = inflight \cup {cur[p]} /\ UNCHANGED mempool
  /\ Idle(p)
  /\ UNCHANGED <<journal, now, used, mined, cost, recent, foreign, reorgs, crashes>>

\* Mutant: the result is written whatever the entry has become.
Unmoved_Unchecked(p) == TRUE

Unmoved(p) == Status(cur[p]) = view[p].status

\* The change, under the lock, if the entry still has the status that was read.
Apply(p) ==
  /\ pc[p] = "apply"
  /\ journal' = IF Unmoved(p)
                THEN [journal EXCEPT
                        ![cur[p]].status = view[p].becomes,
                        ![cur[p]].cost = IF view[p].becomes = "confirmed" THEN cost[cur[p]] ELSE @]
                ELSE journal
  /\ Idle(p)
  /\ UNCHANGED env

\* A crash loses what the process knows; its successor has another pid.
Crash(p) ==
  /\ crashes < MaxCrash /\ crashes' = crashes + 1
  /\ Idle(p)
  /\ journal' = [e \in Entry |-> IF journal[e].owner = p
                                 THEN [journal[e] EXCEPT !.owner = Gone] ELSE journal[e]]
  /\ UNCHANGED <<chainVars, inflight, foreign, reorgs>>

Chain == NewBlock \/ Foreign \/ \E e \in Entry : Mine(e) \/ Reorg(e) \/ Arrive(e) \/ Evict(e)

Execute(p) ==
  \/ ReadForPlan(p) \/ PlanRejected(p)
  \/ \E e \in Entry, a \in Actions : Plan(p, e, a)
  \/ Sign(p) \/ SignRefused(p) \/ SignSkipped(p)
  \/ Send(p) \/ SendUncertain(p) \/ Mark(p)

Reconcile(p) ==
  \/ \E e \in Entry : ReadEntry(p, e)
  \/ Lookup(p) \/ ReadCount(p) \/ Resend(p) \/ Apply(p)

Next == Chain \/ \E p \in Proc : Execute(p) \/ Reconcile(p) \/ Crash(p)

Spec == Init /\ [][Next]_vars

\* A process that has begun a step goes on (its calls return or time out), its
\* loop reconciles every open entry again and again, blocks are produced, and
\* the node does not keep a transaction for ever.
Fairness ==
  /\ WF_vars(NewBlock /\ now' = Later(now))
  /\ \A e \in Entry : WF_vars(Mine(e) \/ Evict(e))
  /\ \A p \in Proc :
       /\ WF_vars(pc[p] # "idle" /\ (Execute(p) \/ Reconcile(p)))
       /\ \A e \in Entry : SF_vars(ReadEntry(p, e))

FairSpec == Spec /\ Fairness
-----------------------------------------------------------------------------
(* Properties.                                                              *)

Sent == mempool \cup inflight \cup {e \in Entry : mined[e] # "no"}

\* Nothing reaches the network before the journal holds its nonce and bytes,
\* and an entry that recovery gave up as unsigned was indeed never sent, in
\* whatever order two processes plan, sign, reconcile and crash.  Every variable
\* keeps its type.
JournalledFirst ==
  /\ TypeOK
  /\ \A e \in Sent : Status(e) \notin {"free", "planned", "abandoned"} /\ journal[e].nonce >= 0

\* What a final status says of the chain is true for ever: also after a block
\* is reorganised away, a delayed send arrives or another process sends the
\* bytes again.  An expired trade may still be mined, but never with an effect.
FinalTellsTruth ==
  \A e \in Entry :
    /\ Status(e) = "confirmed" => mined[e] = "ok" /\ journal[e].cost = cost[e]
    /\ Status(e) = "mismatch" => mined[e] = "odd"
    /\ Status(e) = "reverted" => mined[e] = "reverted"
    /\ Status(e) = "expired" => mined[e] \in {"no", "reverted"}

\* Two processes cannot both pass a limit that only one fits: confirmed costs
\* and the reservations of open buys stay within the policy at all times.
ReservationsWithinPolicy == Spent <= MaxSpend

\* Two open entries never compete for a nonce.
NoncesDistinct ==
  \A e, f \in Open : e # f /\ journal[e].nonce # NoNonce => journal[e].nonce # journal[f].nonce

\* A final entry never changes, whatever a late answer or a slower process says.
FinalIsFinal ==
  [][\A e \in Entry : Status(e) \in Final
       => journal'[e].status = Status(e) /\ journal'[e].nonce = journal[e].nonce]_vars

\* What the wallet really spent on buys stays within the policy.
SpendWithinLimit == Sum(cost, Entry) <= MaxSpend

\* `replaced`: "its nonce was used by a different transaction; this hash can no
\* longer be mined" (protocol/specs/transactions.md).
ReplacedNeverLands == \A e \in Entry : Status(e) = "replaced" => mined[e] = "no"

\* Every signed trade is eventually final: mined, replaced or expired.  (An
\* approval or a redemption has no deadline and may be sent again for ever.)
EveryTradeSettles ==
  \A e \in Entry : Status(e) = "signed" /\ journal[e].deadline >= 0 ~> Status(e) \in Final
=============================================================================
