--------------------------- MODULE ResolutionWorker ---------------------------
(***************************************************************************)
(* The worker that drives the resolver of a pool with one signing key:      *)
(* resolutionTick of apps/web/server/resolution-worker.mjs over the lease   *)
(* of settlement-store.mjs and the transport of scripts/run-resolution.mjs, *)
(* composed with the contract (PilotResolver) it calls.                     *)
(*                                                                          *)
(* Several runners (the in-process bot, a scheduled job, an operator) share *)
(* the key, a Redis lease and a journal.  A runner keeps the journal it     *)
(* loaded and writes it back whole.  Time is the resolver's clock; the      *)
(* five-minute lease, the sixty seconds between two broadcasts and the      *)
(* two-block confirmation depth are shorter than one of its units, so a     *)
(* lease expires by an action of its own and a receipt is deep once mined.  *)
(* One pool; the monitor's health, the proposer guard and RPC failures are  *)
(* reasons to refuse, and Refuse stands for all of them.                    *)
(***************************************************************************)
EXTENDS PilotResolver

CONSTANTS
  Runner,        \* processes running resolutionTick
  NoRunner,      \* nobody holds the lease
  Bot,           \* the signer's address, never a reviewer
  NoTx,
  Contested,     \* outcomes the public claims and the panel votes for
  Evidence,      \* outcomes the evidence function can support
  Defer,         \* how long a question without evidence is left alone
  MaxAttempts,   \* broadcasts of one transaction (eight in the code)
  MaxNonce,      \* bound: transactions of the signer
  MaxFault,      \* bound: crashes, refusals and leases lost by a live holder
  MaxLoss        \* bound: broadcasts lost or evicted

ASSUME WorkerAssumption ==
  /\ Bot \in Account \ Reviewer /\ NoRunner \notin Runner
  /\ Evidence \subseteq {"No", "Yes"} /\ Contested \subseteq Outcome
  /\ Defer \in Nat /\ MaxAttempts \in Nat \ {0}
  /\ IsFiniteSet(Runner) /\ {MaxNonce, MaxFault, MaxLoss} \subseteq Nat

VARIABLES
  lease,         \* holder of the lock key
  book,          \* the stored journal of the pool
  runner,        \* runner[r]: where its tick is and what it holds in memory
  nonce,         \* transactions of the signer mined so far
  approved,      \* the exact bond allowance is set
  mempool,       \* signed transactions some node holds
  mined,         \* receipts: mined[t] is "ok" or "reverted"
  sends,         \* history: broadcasts of each transaction
  faults, losses

workerVars == <<lease, book, runner, nonce, approved, mempool, mined, sends,
                faults, losses>>
allVars == <<vars, workerVars>>

Tx == [action : {"approve", "assertOutcome", "finalize", "deliver"},
       event : Event \cup {NoTx}, outcome : Outcome \cup {Unset},
       nonce : 0..MaxNonce - 1]
ASSUME NoTxAssumption == NoTx \notin Tx

Plan == [kind : {"wait", "complete", "evidence", "finalize", "deliver"},
         event : Event \cup {NoTx}]
Journal == [pending : Tx \cup {NoTx}, attempts : 0..MaxAttempts,
            owned : [Event -> Outcome \cup {Unset}], deferred : [Event -> Nat]]
Local == [pc : {"idle", "held", "prepared", "signed", "saved"},
          book : Journal, plan : Plan, tx : Tx \cup {NoTx}]

Waiting == [kind |-> "wait", event |-> NoTx]
NewBook == [pending |-> NoTx, attempts |-> 0, owned |-> [e \in Event |-> Unset],
            deferred |-> [e \in Event |-> 0]]
Idle(b) == [pc |-> "idle", book |-> b, plan |-> Waiting, tx |-> NoTx]

WorkerTypeOK ==
  /\ lease \in Runner \cup {NoRunner} /\ book \in Journal
  /\ runner \in [Runner -> Local]
  /\ nonce \in 0..MaxNonce /\ approved \in BOOLEAN
  /\ mempool \subseteq Tx /\ DOMAIN mined \subseteq Tx /\ DOMAIN sends \subseteq Tx
  /\ faults \in 0..MaxFault /\ losses \in 0..MaxLoss

WorkerInit ==
  /\ Init
  /\ lease = NoRunner /\ book = NewBook
  /\ runner = [r \in Runner |-> Idle(NewBook)]
  /\ nonce = 0 /\ approved = FALSE /\ mempool = {}
  /\ mined = [t \in {} |-> "ok"] /\ sends = [t \in {} |-> 0]
  /\ faults = 0 /\ losses = 0

-----------------------------------------------------------------------------
(* The plan: what the worker may do in the present state of the chain.      *)

\* Mutant: any assertion of the signer's address counts as the worker's own.
Own_Unjournaled(e, owned) == TRUE

\* The assertion on the chain is the one the journal confirms.
Own(e, owned) == cases[e].asserter = Bot /\ owned[e] = cases[e].proposal

Finishable(e, owned) ==
  LET c == cases[e] IN
  \/ c.phase = "Pending" /\ now >= AssertionDeadline(e)
  \/ c.phase = "Disputed" /\ now >= c.voteUntil
  \/ c.phase = "Asserted" /\ now >= c.challengeUntil /\ Own(e, owned)

Provable(e, deferred) ==
  cases[e].phase = "Pending" /\ now >= ObservationEnd[e] /\ deferred[e] <= now

\* nextResolutionAction visits the events in order; which event comes first is
\* not fixed here, so any of those with something to do may be chosen.
Plans(b) ==
  IF delivered THEN {[kind |-> "complete", event |-> NoTx]}
  ELSE IF AllFinal THEN {[kind |-> "deliver", event |-> NoTx]}
  ELSE LET finish == {e \in Event : Finishable(e, b.owned)}
           prove == {e \in Event : Provable(e, b.deferred)} \ finish
           todo == [kind : {"finalize"}, event : finish]
                     \cup [kind : {"evidence"}, event : prove]
       IN  IF todo = {} THEN {Waiting} ELSE todo

\* The calls a plan may lead to: for evidence the exact bond allowance comes
\* before the assertion it is for.
Calls(p) ==
  CASE p.kind \in {"wait", "complete"} -> {}
    [] p.kind = "evidence" ->
         [action : {IF approved THEN "assertOutcome" ELSE "approve"},
          event : {p.event}, outcome : Evidence, nonce : {0}]
    [] OTHER -> {[action |-> p.kind, event |-> p.event, outcome |-> Unset, nonce |-> 0]}

\* What a transaction of the worker does when it is mined.
Executes(t) ==
  \/ t.action = "approve" /\ approved' = TRUE /\ UNCHANGED vars
  \/ t.action = "assertOutcome" /\ approved /\ approved' = FALSE
       /\ AssertOutcome(t.event, Bot, t.outcome)
  \/ t.action = "finalize" /\ Finalize(t.event) /\ UNCHANGED approved
  \/ t.action = "deliver" /\ Deliver /\ UNCHANGED approved

\* The contract would refuse it.
Reverts(t) == ~ENABLED Executes(t)

-----------------------------------------------------------------------------
(* The lease and the journal.                                               *)

Holds(r) == lease = r

Released(r) == IF lease = r THEN NoRunner ELSE lease

\* The tick ends; `finally` releases the lease if it is still this runner's.
End(r) ==
  /\ runner' = [runner EXCEPT ![r] = Idle(NewBook)]
  /\ lease' = Released(r)

Acquire(r) ==
  /\ runner[r].pc = "idle" /\ lease = NoRunner
  /\ lease' = r
  /\ runner' = [runner EXCEPT ![r] = [Idle(book) EXCEPT !.pc = "held"]]
  /\ UNCHANGED <<vars, book, nonce, approved, mempool, mined, sends, faults, losses>>

\* Renew and save throw once the token is gone: the tick ends without a write.
LeaseLost(r) ==
  /\ runner[r].pc \in {"held", "prepared", "signed"} /\ ~Holds(r)
  /\ End(r)
  /\ UNCHANGED <<vars, book, nonce, approved, mempool, mined, sends, faults, losses>>

Save(r, b) == Holds(r) /\ book' = b

-----------------------------------------------------------------------------
(* A tick that finds a pending transaction.                                 *)

Pending(r) == runner[r].book.pending

\* Its receipt is deep: an assertion that succeeded becomes the worker's own.
Confirm(r) ==
  LET b == runner[r].book  t == b.pending IN
  /\ runner[r].pc = "held" /\ t \in DOMAIN mined
  /\ Save(r, [b EXCEPT !.pending = NoTx, !.attempts = 0,
                       !.owned = IF mined[t] = "ok" /\ t.action = "assertOutcome"
                                 THEN [@ EXCEPT ![t.event] = t.outcome] ELSE @])
  /\ End(r)
  /\ UNCHANGED <<vars, nonce, approved, mempool, mined, sends, faults, losses>>

\* Mutant: a restart starts the count of broadcasts again.
Resendable_Forever(b) == b.pending # NoTx

\* Mutant: an attempt too few.
Resendable_Never(b) == b.pending # NoTx /\ b.attempts < MaxAttempts - 1

Resendable(b) == b.pending # NoTx /\ b.attempts < MaxAttempts

\* No node knows it and its nonce is free: the same bytes again, counted
\* before they are sent.
Resend(r) ==
  LET b == runner[r].book IN
  /\ runner[r].pc = "held" /\ Resendable(b)
  /\ b.pending \notin DOMAIN mined /\ mempool = {} /\ nonce = b.pending.nonce
  /\ Save(r, [b EXCEPT !.attempts = @ + 1])
  /\ runner' = [runner EXCEPT ![r].pc = "saved", ![r].tx = b.pending]
  /\ UNCHANGED <<vars, lease, nonce, approved, mempool, mined, sends, faults, losses>>

\* Known to a node, or beyond recovery without a person: nothing to do.
LeavePending(r) ==
  LET b == runner[r].book IN
  /\ runner[r].pc = "held" /\ b.pending # NoTx /\ b.pending \notin DOMAIN mined
  /\ b.pending \in mempool \/ nonce # b.pending.nonce \/ ~Resendable(b)
  /\ End(r)
  /\ UNCHANGED <<vars, book, nonce, approved, mempool, mined, sends, faults, losses>>

-----------------------------------------------------------------------------
(* A tick that finds none.                                                  *)

Rest(r) ==
  /\ runner[r].pc = "held" /\ Pending(r) = NoTx
  /\ \E p \in Plans(runner[r].book) : p.kind \in {"wait", "complete"}
  /\ End(r)
  /\ UNCHANGED <<vars, book, nonce, approved, mempool, mined, sends, faults, losses>>

NoEvidenceYet(r) ==
  LET b == runner[r].book IN
  /\ runner[r].pc = "held" /\ Pending(r) = NoTx
  /\ \E p \in Plans(b) : p.kind = "evidence"
        /\ Save(r, [b EXCEPT !.deferred[p.event] = now + Defer])
  /\ End(r)
  /\ UNCHANGED <<vars, nonce, approved, mempool, mined, sends, faults, losses>>

\* service.prepare checks the binding and the balance and simulates the call;
\* the nonce is chosen at signing.
Prepares(t) ==
  /\ bound /\ ~Reverts(t)
  /\ t.action = "approve" => wallet[Bot] >= 1

Prepare(r) ==
  /\ runner[r].pc = "held" /\ Pending(r) = NoTx /\ nonce < MaxNonce
  /\ \E p \in Plans(runner[r].book) : \E t \in Calls(p) :
       /\ Prepares(t)
       /\ runner' = [runner EXCEPT ![r].pc = "prepared", ![r].plan = p, ![r].tx = t]
  /\ UNCHANGED <<vars, lease, book, nonce, approved, mempool, mined, sends, faults, losses>>

Unprepared(r) ==
  /\ runner[r].pc = "held" /\ Pending(r) = NoTx
  /\ \E p \in Plans(runner[r].book) : \E t \in Calls(p) : ~Prepares(t)
  /\ End(r)
  /\ UNCHANGED <<vars, book, nonce, approved, mempool, mined, sends, faults, losses>>

\* The second read must give the same plan, the lease is renewed, and the
\* signer must have nothing else pending; the nonce is read here.
Sign(r) ==
  LET l == runner[r] IN
  /\ l.pc = "prepared" /\ l.plan \in Plans(l.book) /\ Holds(r)
  /\ mempool = {} /\ nonce < MaxNonce
  /\ runner' = [runner EXCEPT ![r].pc = "signed", ![r].tx.nonce = nonce]
  /\ UNCHANGED <<vars, lease, book, nonce, approved, mempool, mined, sends, faults, losses>>

PlanChanged(r) ==
  /\ runner[r].pc = "prepared"
  /\ runner[r].plan \notin Plans(runner[r].book) \/ mempool # {}
  /\ End(r)
  /\ UNCHANGED <<vars, book, nonce, approved, mempool, mined, sends, faults, losses>>

\* Mutant: the transaction is broadcast first and saved by the next tick.
Persist_Skipped(r) ==
  /\ runner[r].pc = "signed" /\ Holds(r)
  /\ runner' = [runner EXCEPT ![r].pc = "saved"]
  /\ UNCHANGED <<vars, lease, book, nonce, approved, mempool, mined, sends, faults, losses>>

\* Persist before broadcast.
Persist(r) ==
  /\ runner[r].pc = "signed"
  /\ Save(r, [runner[r].book EXCEPT !.pending = runner[r].tx, !.attempts = 1])
  /\ runner' = [runner EXCEPT ![r].pc = "saved"]
  /\ UNCHANGED <<vars, lease, nonce, approved, mempool, mined, sends, faults, losses>>

\* sendRawTransaction: the nodes take the bytes or lose them.  Nothing checks
\* the lease any more.
Broadcast(r) ==
  LET t == runner[r].tx IN
  /\ runner[r].pc = "saved"
  /\ sends' = [u \in DOMAIN sends \cup {t} |->
                 (IF u \in DOMAIN sends THEN sends[u] ELSE 0) + IF u = t THEN 1 ELSE 0]
  /\ \/ mempool' = (IF t.nonce >= nonce THEN mempool \cup {t} ELSE mempool) /\ UNCHANGED losses
     \/ losses < MaxLoss /\ losses' = losses + 1 /\ UNCHANGED mempool
  /\ End(r)
  /\ UNCHANGED <<vars, book, nonce, approved, mined, faults>>

-----------------------------------------------------------------------------
(* What can go wrong, and the chain.                                        *)

\* A refused check, an RPC or Redis failure: the tick throws and releases.
Refuse(r) ==
  /\ runner[r].pc \notin {"idle", "saved"} /\ faults < MaxFault
  /\ faults' = faults + 1
  /\ End(r)
  /\ UNCHANGED <<vars, book, nonce, approved, mempool, mined, sends, losses>>

\* The process dies; its lease stays until it expires.
Crash(r) ==
  /\ runner[r].pc # "idle" /\ faults < MaxFault
  /\ faults' = faults + 1
  /\ runner' = [runner EXCEPT ![r] = Idle(NewBook)]
  /\ UNCHANGED <<vars, lease, book, nonce, approved, mempool, mined, sends, losses>>

\* Five minutes without a renewal: the holder died, or is alive and slow.
Expire ==
  /\ lease # NoRunner
  /\ \/ runner[lease].pc = "idle" /\ UNCHANGED faults
     \/ runner[lease].pc # "idle" /\ faults < MaxFault /\ faults' = faults + 1
  /\ lease' = NoRunner
  /\ UNCHANGED <<vars, book, runner, nonce, approved, mempool, mined, sends, losses>>

Evict ==
  /\ losses < MaxLoss /\ losses' = losses + 1
  /\ \E t \in mempool : mempool' = mempool \ {t}
  /\ UNCHANGED <<vars, lease, book, runner, nonce, approved, mined, sends, faults>>

Mine ==
  /\ \E t \in mempool :
       /\ t.nonce = nonce /\ nonce' = nonce + 1
       /\ mempool' = {u \in mempool : u.nonce > nonce}
       /\ \/ Executes(t) /\ mined' = [u \in DOMAIN mined \cup {t} |->
                                        IF u = t THEN "ok" ELSE mined[u]]
          \/ /\ Reverts(t)
             /\ mined' = [u \in DOMAIN mined \cup {t} |-> IF u = t THEN "reverted" ELSE mined[u]]
             /\ UNCHANGED <<vars, approved>>
  /\ UNCHANGED <<lease, book, runner, sends, faults, losses>>

\* Everybody else: the public, the panel and the clock.
Others ==
  /\ \/ Tick \/ Fund \/ BindPool \/ Deliver
     \/ \E e \in Event : Finalize(e)
     \/ \E e \in Event, a \in Account \ {Bot}, o \in Contested :
          AssertOutcome(e, a, o) \/ Dispute(e, a, o) \/ Vote(e, a, o)
  /\ UNCHANGED workerVars

TickOf(r) ==
  \/ LeaseLost(r) \/ Confirm(r) \/ Resend(r) \/ LeavePending(r) \/ Rest(r)
  \/ Prepare(r) \/ Unprepared(r) \/ Sign(r) \/ PlanChanged(r) \/ Persist(r) \/ Broadcast(r)

WorkerNext ==
  \/ Others \/ Expire \/ Evict \/ Mine
  \/ \E r \in Runner : Acquire(r) \/ TickOf(r) \/ NoEvidenceYet(r) \/ Refuse(r) \/ Crash(r)

WorkerSpec == WorkerInit /\ [][WorkerNext]_allVars

\* The bot starts a cycle every two to ten minutes (settlement-bot.mjs), a
\* started tick goes on, a dead holder's lease expires, and the chain advances
\* and mines what its nodes hold.  Nobody else is trusted to act.
WorkerFairness ==
  /\ WF_allVars(Tick /\ UNCHANGED workerVars)
  /\ WF_allVars(Mine) /\ WF_allVars(Expire)
  /\ SF_allVars(\E r \in Runner : Acquire(r))
  /\ WF_allVars(\E r \in Runner : TickOf(r))

FairWorker == WorkerSpec /\ WorkerFairness
-----------------------------------------------------------------------------
(* Properties.                                                              *)

\* One durable transaction at a time: whatever was signed and sent is either
\* the pending entry of the journal, where every later runner finds it, or
\* already mined; and no two transactions ever compete for one nonce.  It must
\* survive crashes, lost broadcasts and a lease that expires under a live
\* runner between the save and the broadcast (resolution-worker.mjs:164-173).
\* Every variable keeps its type.
OneDurableTransaction ==
  /\ WorkerTypeOK
  /\ \A t \in DOMAIN sends : t = book.pending \/ t \in DOMAIN mined
  /\ \A t, u \in DOMAIN sends : t.nonce = u.nonce => t = u

\* Identical bytes go out at most MaxAttempts times however many runners,
\* restarts and lost replies there are, because the attempt is saved before it
\* is made (resolution-worker.mjs:109 and 120).
ResendBounded == \A t \in DOMAIN sends : sends[t] <= MaxAttempts

\* The worker ends an open claim only for a claim it made itself and found
\* confirmed: a foreign assertion past its window is left to people, who may
\* have a reason not to let it stand (resolution-worker.mjs:21-22).
FinalizesOwnClaims ==
  [][\A t \in mempool :
       (/\ t.action = "finalize" /\ t \notin DOMAIN mined /\ t \in DOMAIN mined'
        /\ cases[t.event].phase = "Asserted")
         => cases[t.event].asserter = Bot]_allVars

\* What the code leaves to a person: somebody else's claim that nobody
\* challenged, and a transaction that every permitted broadcast failed to land.
ForeignOpen == \E e \in Event : cases[e].phase = "Asserted" /\ cases[e].asserter # Bot
RetriesSpent == book.pending # NoTx /\ book.attempts = MaxAttempts

\* With only the worker trusted to act, a bound and funded pool is resolved or
\* waits for a person; crashes, expired leases, refusals and lost broadcasts
\* delay it and never leave a saved transaction, or the lease, behind
\* (resolution-worker.mjs:101-129).
WorkerSettles == (bound /\ funded) ~> (resolved \/ []ForeignOpen \/ []RetriesSpent)
=============================================================================
