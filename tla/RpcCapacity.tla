----------------------------- MODULE RpcCapacity -----------------------------
(***************************************************************************)
(* The hosted web process shares a few RPC slots among its requests           *)
(* (src/apps/web/server/rpc-capacity.mjs).  A slot that is given up is handed *)
(* to the first waiting request without passing through the free ones; the    *)
(* request continues later, when its promise runs, and may be aborted in      *)
(* between.  Request limits and the size of a response only make it fail.     *)
(***************************************************************************)
EXTENDS Integers, Sequences, FiniteSets

CONSTANTS Request,
  Concurrency,     \* requests under way at once
  MaxQueued        \* requests that wait

ASSUME CapacityAssumption == Concurrency \in Nat \ {0} /\ MaxQueued \in Nat

VARIABLES
  active,          \* the slots in use
  waiting,         \* the queue of requests without a slot
  phase,           \* phase[r]: where the request is
  aborted,         \* requests whose signal fired
  cooling          \* the provider asked to wait

capacityVars == <<active, waiting, phase, aborted, cooling>>

CapacityInit ==
  /\ active = 0 /\ waiting = <<>> /\ phase = [r \in Request |-> "new"]
  /\ aborted = {} /\ cooling = FALSE

\* acquire: a free slot, a place in the queue, or a refusal.
Enter(r) ==
  /\ phase[r] = "new" /\ ~cooling /\ r \notin aborted
  /\ \/ /\ active < Concurrency
        /\ active' = active + 1 /\ phase' = [phase EXCEPT ![r] = "granted"]
        /\ UNCHANGED waiting
     \/ /\ active >= Concurrency /\ Len(waiting) < MaxQueued
        /\ waiting' = Append(waiting, r) /\ phase' = [phase EXCEPT ![r] = "queued"]
        /\ UNCHANGED active
  /\ UNCHANGED <<aborted, cooling>>

Refused(r) ==
  /\ phase[r] = "new"
  /\ cooling \/ r \in aborted \/ (active >= Concurrency /\ Len(waiting) >= MaxQueued)
  /\ phase' = [phase EXCEPT ![r] = "done"]
  /\ UNCHANGED <<active, waiting, aborted, cooling>>

\* Mutant: the slot is counted free although it was handed over.
Freed_Always == active - 1

Freed == IF waiting = <<>> THEN active - 1 ELSE active

\* release, in the finally of the request r.
GiveSlot(r) ==
  /\ active' = Freed
  /\ IF waiting = <<>>
     THEN phase' = [phase EXCEPT ![r] = "done"] /\ UNCHANGED waiting
     ELSE /\ phase' = [phase EXCEPT ![r] = "done", ![Head(waiting)] = "granted"]
          /\ waiting' = Tail(waiting)

\* The promise of acquire runs: the signal and the cooldown are read again.
Proceed(r) ==
  /\ phase[r] = "granted"
  /\ IF r \in aborted \/ cooling THEN GiveSlot(r)
     ELSE phase' = [phase EXCEPT ![r] = "running"] /\ UNCHANGED <<active, waiting>>
  /\ UNCHANGED <<aborted, cooling>>

\* The body was read, or the request failed; a 429 starts the cooldown.
Complete(r) ==
  /\ phase[r] = "running" /\ GiveSlot(r)
  /\ cooling' \in {cooling, TRUE}
  /\ UNCHANGED aborted

\* indexOf and splice.
Without(q, r) ==
  LET i == CHOOSE j \in DOMAIN q : q[j] = r
  IN [k \in 1..Len(q) - 1 |-> IF k < i THEN q[k] ELSE q[k + 1]]

\* The abort event: a waiting request leaves the queue, another one finds out.
Abort(r) ==
  /\ phase[r] # "done" /\ r \notin aborted
  /\ aborted' = aborted \cup {r}
  /\ IF phase[r] = "queued"
     THEN waiting' = Without(waiting, r) /\ phase' = [phase EXCEPT ![r] = "done"]
     ELSE UNCHANGED <<waiting, phase>>
  /\ UNCHANGED <<active, cooling>>

CooledDown == cooling /\ cooling' = FALSE /\ UNCHANGED <<active, waiting, phase, aborted>>

NextRequest(r) ==
  /\ phase[r] = "done" /\ phase' = [phase EXCEPT ![r] = "new"]
  /\ aborted' = aborted \ {r} /\ UNCHANGED <<active, waiting, cooling>>

CapacityNext ==
  \/ \E r \in Request : \/ Enter(r) \/ Refused(r) \/ Proceed(r) \/ Complete(r)
                        \/ Abort(r) \/ NextRequest(r)
  \/ CooledDown

CapacitySpec == CapacityInit /\ [][CapacityNext]_capacityVars
-----------------------------------------------------------------------------
Holders == {r \in Request : phase[r] \in {"granted", "running"}}
Queued == {r \in Request : phase[r] = "queued"}

\* No slot is lost and none is used twice, however requests are aborted between
\* the hand-over of a slot and the moment they run: the counter is the number of
\* requests that hold one, and nobody waits while a slot is free
\* (rpc-capacity.mjs:12-23, 25-41).
SlotsConserved ==
  /\ active = Cardinality(Holders) /\ active <= Concurrency
  /\ waiting # <<>> => active = Concurrency
  /\ Queued = {waiting[i] : i \in DOMAIN waiting}
  /\ \A i, j \in DOMAIN waiting : waiting[i] = waiting[j] => i = j
=============================================================================
