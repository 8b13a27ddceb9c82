---------------------------- MODULE ServerProofs -----------------------------
(***************************************************************************)
(* Components of the web server, for any sets of requests, workers, agents,  *)
(* wallets and scanners.  They share no state, so each has its own invariant *)
(* and theorem: no slot of the RPC capacity is lost or used twice; a wallet  *)
(* is an agent's or a person's and never both, and the profile of an agent   *)
(* shows the wallet it holds; the index of pilot trades is, whatever the     *)
(* chain reorganised and wherever a refresh died, what the chain it names    *)
(* logged; the settlement monitor delivers its mails once and in order, and  *)
(* every report it counts as told is delivered or waits; and every starter   *)
(* payment is accounted for, whatever broadcasts fail and servers die.       *)
(***************************************************************************)
EXTENDS RpcCapacity, AgentWallets, PilotIndex, SettlementMail, StarterFunds,
        FiniteSetTheorems, SequenceTheorems, WellFoundedInduction, TLAPS

-----------------------------------------------------------------------------
(* RPC capacity.                                                             *)

\* The types of the RPC capacity.
CapacityTypeOK ==
  /\ active \in Nat /\ cooling \in BOOLEAN
  /\ waiting \in Seq(Request)
  /\ phase \in [Request -> {"new", "queued", "granted", "running", "done"}]
  /\ aborted \in SUBSET Request

\* The requests may be infinitely many; those that hold a slot are not.
CapacityInv ==
  /\ CapacityTypeOK
  /\ IsFiniteSet(Holders)
  /\ SlotsConserved
-----------------------------------------------------------------------------
\* A request that takes a slot makes one more holder.
LEMMA HolderAdded ==
  ASSUME CapacityInv, NEW r \in Request, r \notin Holders,
         Holders' = Holders \cup {r}
  PROVE  IsFiniteSet(Holders') /\ Cardinality(Holders') = Cardinality(Holders) + 1
BY FS_AddElement DEF CapacityInv

\* A request that gives up its slot to nobody makes one holder less.
LEMMA HolderGone ==
  ASSUME CapacityInv, NEW r \in Request, r \in Holders,
         Holders' = Holders \ {r}
  PROVE  IsFiniteSet(Holders') /\ Cardinality(Holders') = Cardinality(Holders) - 1
BY FS_RemoveElement DEF CapacityInv

\* A hand-over keeps the number of holders.
LEMMA HolderReplaced ==
  ASSUME CapacityInv, NEW r \in Request, NEW q \in Request, r \in Holders, q \notin Holders,
         Holders' = (Holders \ {r}) \cup {q}
  PROVE  IsFiniteSet(Holders') /\ Cardinality(Holders') = Cardinality(Holders)
<1>1. IsFiniteSet(Holders \ {r}) /\ Cardinality(Holders \ {r}) = Cardinality(Holders) - 1
  BY FS_RemoveElement DEF CapacityInv
<1>2. Cardinality(Holders) \in Nat
  BY FS_CardinalityType DEF CapacityInv
<1>3. q \notin Holders \ {r}
  OBVIOUS
<1>4. /\ IsFiniteSet((Holders \ {r}) \cup {q})
      /\ Cardinality((Holders \ {r}) \cup {q}) = Cardinality(Holders \ {r}) + 1
  BY <1>1, <1>3, FS_AddElement
<1> QED BY <1>1, <1>2, <1>4

\* Removing a waiting request keeps the order of the others.
LEMMA RemovedFromQueue ==
  ASSUME NEW q \in Seq(Request), NEW r \in Request,
         NEW i \in DOMAIN q, q[i] = r,
         \A m, n \in DOMAIN q : q[m] = q[n] => m = n
  PROVE  /\ Without(q, r) \in Seq(Request)
         /\ Len(Without(q, r)) = Len(q) - 1
         /\ {Without(q, r)[k] : k \in DOMAIN Without(q, r)} = {q[k] : k \in DOMAIN q} \ {r}
         /\ \A m, n \in DOMAIN Without(q, r) : Without(q, r)[m] = Without(q, r)[n] => m = n
<1> DEFINE w == [k \in 1..Len(q) - 1 |-> IF k < i THEN q[k] ELSE q[k + 1]]
<1>0. DOMAIN q = 1..Len(q) /\ Len(q) \in Nat /\ \A k \in 1..Len(q) : q[k] \in Request
  OBVIOUS
<1>1. i = CHOOSE j \in DOMAIN q : q[j] = r
  OBVIOUS
<1>2. Without(q, r) = w
  BY <1>1 DEF Without
<1>3. w \in Seq(Request) /\ Len(w) = Len(q) - 1 /\ DOMAIN w = 1..Len(q) - 1
  BY <1>0
<1>4. \A m, n \in DOMAIN w : w[m] = w[n] => m = n
  <2> SUFFICES ASSUME NEW m \in DOMAIN w, NEW n \in DOMAIN w, w[m] = w[n] PROVE m = n
    OBVIOUS
  <2> DEFINE at(k) == IF k < i THEN k ELSE k + 1
  <2>1. w[m] = q[at(m)] /\ w[n] = q[at(n)] /\ at(m) \in DOMAIN q /\ at(n) \in DOMAIN q
    BY <1>0, <1>3
  <2>2. at(m) = at(n)
    BY <2>1
  <2> QED BY <2>2, <1>0, <1>3
<1>5. \A k \in DOMAIN w : w[k] \in {q[j] : j \in DOMAIN q} \ {r}
  <2> SUFFICES ASSUME NEW k \in DOMAIN w PROVE w[k] \in {q[j] : j \in DOMAIN q} \ {r}
    OBVIOUS
  <2>1. CASE k < i
    <3>1. w[k] = q[k] /\ k \in DOMAIN q /\ k # i
      BY <2>1, <1>0, <1>3
    <3> QED BY <3>1
  <2>2. CASE ~(k < i)
    <3>1. w[k] = q[k + 1] /\ k + 1 \in DOMAIN q /\ k + 1 # i
      BY <2>2, <1>0, <1>3
    <3> QED BY <3>1
  <2> QED BY <2>1, <2>2
<1>6. \A j \in DOMAIN q : q[j] # r => \E k \in DOMAIN w : w[k] = q[j]
  <2> SUFFICES ASSUME NEW j \in DOMAIN q, q[j] # r PROVE \E k \in DOMAIN w : w[k] = q[j]
    OBVIOUS
  <2>1. CASE j < i
    <3>1. j \in DOMAIN w /\ w[j] = q[j]
      BY <2>1, <1>0, <1>3
    <3> QED BY <3>1
  <2>2. CASE j > i
    <3>1. j - 1 \in DOMAIN w /\ ~(j - 1 < i) /\ (j - 1) + 1 = j
      BY <2>2, <1>0, <1>3
    <3>2. w[j - 1] = q[(j - 1) + 1]
      BY <3>1, <1>3
    <3> QED BY <3>1, <3>2
  <2>3. j # i
    OBVIOUS
  <2> QED BY <2>1, <2>2, <2>3, <1>0
<1>7. {w[k] : k \in DOMAIN w} = {q[k] : k \in DOMAIN q} \ {r}
  BY <1>5, <1>6
<1> HIDE DEF w
<1> QED BY <1>2, <1>3, <1>4, <1>7
-----------------------------------------------------------------------------
\* What GiveSlot keeps: both users of it, Proceed and Complete, hold a slot.
LEMMA SlotHandedOver ==
  ASSUME CapacityInv, NEW r \in Request, r \in Holders, GiveSlot(r),
         cooling' \in BOOLEAN, aborted' \in SUBSET Request
  PROVE  CapacityInv'
<1> USE DEF CapacityInv, CapacityTypeOK, SlotsConserved, GiveSlot, Freed
<1>0. active > 0
  <2>1. Cardinality(Holders) # 0
    BY FS_EmptySet
  <2> QED BY <2>1
<1>1. CASE waiting = <<>>
  <2>1. Holders' = Holders \ {r} /\ Queued' = Queued
    BY <1>1 DEF Holders, Queued
  <2>2. IsFiniteSet(Holders') /\ Cardinality(Holders') = Cardinality(Holders) - 1
    BY <2>1, HolderGone
  <2> QED BY <1>0, <1>1, <2>1, <2>2, CapacityAssumption
<1>2. CASE waiting # <<>>
  <2> DEFINE q == Head(waiting)
  <2>1. /\ Len(waiting) \in Nat \ {0} /\ DOMAIN waiting = 1..Len(waiting)
        /\ q = waiting[1] /\ q \in Request
        /\ waiting' = Tail(waiting) /\ waiting' \in Seq(Request)
        /\ DOMAIN waiting' = 1..Len(waiting) - 1
        /\ \A i \in 1..Len(waiting) - 1 : waiting'[i] = waiting[i + 1]
    <3>1. waiting \in Seq(Request) /\ waiting # <<>> /\ waiting' = Tail(waiting)
      BY <1>2
    <3> HIDE DEF CapacityInv, CapacityTypeOK, SlotsConserved, GiveSlot
    <3>2. Len(waiting) \in Nat \ {0} /\ DOMAIN waiting = 1..Len(waiting)
      BY <3>1
    <3>3. q = waiting[1] /\ q \in Request
      BY <3>1, <3>2
    <3>4. Tail(waiting) \in Seq(Request) /\ Len(Tail(waiting)) = Len(waiting) - 1
      BY <3>1, <3>2
    <3>5. \A i \in 1..Len(waiting) - 1 : Tail(waiting)[i] = waiting[i + 1]
      BY <3>1, <3>2
    <3>6. DOMAIN Tail(waiting) = 1..Len(waiting) - 1
      BY <3>4
    <3> QED BY <3>1, <3>2, <3>3, <3>4, <3>5, <3>6
  <2>2. q \in Queued
    BY <2>1
  <2>3. phase[q] = "queued" /\ q # r /\ q \notin Holders
    BY <2>2 DEF Queued, Holders
  <2> HIDE DEF q
  <2>4. phase' = [phase EXCEPT ![r] = "done", ![q] = "granted"]
    BY <1>2 DEF q
  <2>5. Holders' = (Holders \ {r}) \cup {q}
    BY <2>1, <2>3, <2>4 DEF Holders
  <2>6. IsFiniteSet(Holders') /\ Cardinality(Holders') = Cardinality(Holders)
    BY <2>1, <2>3, <2>5, HolderReplaced
  <2>7. Queued' = Queued \ {q}
    <3>1. phase[r] # "queued"
      BY DEF Holders
    <3> QED BY <2>1, <2>3, <2>4, <3>1 DEF Queued
  <2>8. {waiting'[i] : i \in DOMAIN waiting'} = {waiting[i] : i \in DOMAIN waiting} \ {q}
    <3>1. \A i \in DOMAIN waiting' : waiting'[i] # q /\ waiting'[i] \in {waiting[j] : j \in DOMAIN waiting}
      <4> SUFFICES ASSUME NEW i \in DOMAIN waiting'
                   PROVE waiting'[i] # q /\ waiting'[i] \in {waiting[j] : j \in DOMAIN waiting}
        OBVIOUS
      <4>1. i + 1 \in DOMAIN waiting /\ i + 1 # 1 /\ waiting'[i] = waiting[i + 1] /\ 1 \in DOMAIN waiting
        BY <2>1
      <4> QED BY <4>1, <2>1
    <3>2. \A j \in DOMAIN waiting : waiting[j] # q => \E i \in DOMAIN waiting' : waiting'[i] = waiting[j]
      <4> SUFFICES ASSUME NEW j \in DOMAIN waiting, waiting[j] # q
                   PROVE \E i \in DOMAIN waiting' : waiting'[i] = waiting[j]
        OBVIOUS
      <4>1. j # 1
        BY <2>1
      <4>2. j - 1 \in DOMAIN waiting' /\ waiting'[j - 1] = waiting[j]
        BY <2>1, <4>1
      <4> QED BY <4>2
    <3> QED BY <3>1, <3>2
  <2>9. \A i, j \in DOMAIN waiting' : waiting'[i] = waiting'[j] => i = j
    <3> SUFFICES ASSUME NEW i \in DOMAIN waiting', NEW j \in DOMAIN waiting', waiting'[i] = waiting'[j]
                 PROVE i = j
      OBVIOUS
    <3>1. i + 1 \in DOMAIN waiting /\ j + 1 \in DOMAIN waiting /\ waiting[i + 1] = waiting[j + 1]
      BY <2>1
    <3>2. i + 1 = j + 1
      BY <3>1
    <3> QED BY <2>1, <3>2
  <2>10. active' = active /\ active = Concurrency
    BY <1>2
  <2>11. phase' \in [Request -> {"new", "queued", "granted", "running", "done"}]
    BY <2>1, <2>4
  <2> QED BY <2>1, <2>6, <2>7, <2>8, <2>9, <2>10, <2>11
<1> QED BY <1>1, <1>2

\* Every step keeps the accounting of the slots.
LEMMA CapacityStep == CapacityInv /\ [CapacityNext]_capacityVars => CapacityInv'
<1> SUFFICES ASSUME CapacityInv, [CapacityNext]_capacityVars PROVE CapacityInv'
  OBVIOUS
<1> USE DEF CapacityInv, CapacityTypeOK, SlotsConserved
<1>1. ASSUME NEW r \in Request, Enter(r) PROVE CapacityInv'
  <2>1. phase[r] = "new" /\ r \notin Holders /\ r \notin Queued
    BY <1>1 DEF Enter, Holders, Queued
  <2>2. CASE active < Concurrency
    <3>1. /\ active' = active + 1 /\ waiting' = waiting /\ aborted' = aborted /\ cooling' = cooling
          /\ phase' = [phase EXCEPT ![r] = "granted"]
      BY <1>1, <2>2, CapacityAssumption DEF Enter
    <3>2. Holders' = Holders \cup {r} /\ Queued' = Queued
      BY <2>1, <3>1 DEF Holders, Queued
    <3>3. IsFiniteSet(Holders') /\ Cardinality(Holders') = Cardinality(Holders) + 1
      BY <2>1, <3>2, HolderAdded
    <3>4. waiting = <<>>
      BY <2>2, CapacityAssumption
    <3> QED BY <2>2, <3>1, <3>2, <3>3, <3>4, CapacityAssumption
  <2>3. CASE ~(active < Concurrency)
    <3>1. /\ active' = active /\ waiting' = Append(waiting, r)
          /\ aborted' = aborted /\ cooling' = cooling
          /\ phase' = [phase EXCEPT ![r] = "queued"]
      BY <1>1, <2>3, CapacityAssumption DEF Enter
    <3>2. Holders' = Holders /\ Queued' = Queued \cup {r}
      BY <2>1, <3>1 DEF Holders, Queued
    <3>3. /\ waiting' \in Seq(Request) /\ Len(waiting) \in Nat /\ DOMAIN waiting = 1..Len(waiting)
          /\ DOMAIN waiting' = 1..Len(waiting) + 1 /\ waiting'[Len(waiting) + 1] = r
          /\ \A i \in 1..Len(waiting) : waiting'[i] = waiting[i]
      BY <3>1
    <3>4. {waiting'[i] : i \in DOMAIN waiting'} = {waiting[i] : i \in DOMAIN waiting} \cup {r}
      <4>1. \A i \in DOMAIN waiting' : waiting'[i] \in {waiting[j] : j \in DOMAIN waiting} \cup {r}
        BY <3>3
      <4>2. \A i \in DOMAIN waiting : i \in DOMAIN waiting' /\ waiting'[i] = waiting[i]
        BY <3>3
      <4>3. Len(waiting) + 1 \in DOMAIN waiting'
        BY <3>3
      <4> QED BY <4>1, <4>2, <4>3, <3>3
    <3>5. \A i \in DOMAIN waiting : waiting[i] # r
      BY <2>1
    <3>6. \A i, j \in DOMAIN waiting' : waiting'[i] = waiting'[j] => i = j
      BY <3>3, <3>5
    <3>7. active = Concurrency
      BY <2>3, CapacityAssumption
    <3> QED BY <3>1, <3>2, <3>3, <3>4, <3>6, <3>7
  <2> QED BY <2>2, <2>3
<1>2. ASSUME NEW r \in Request, Refused(r) PROVE CapacityInv'
  <2>1. Holders' = Holders /\ Queued' = Queued
    BY <1>2 DEF Refused, Holders, Queued
  <2> QED BY <1>2, <2>1 DEF Refused
<1>3. ASSUME NEW r \in Request, Proceed(r) PROVE CapacityInv'
  <2>1. r \in Holders /\ aborted' = aborted /\ cooling' = cooling
    BY <1>3 DEF Proceed, Holders
  <2>2. CASE r \in aborted \/ cooling
    BY <1>3, <2>1, <2>2, SlotHandedOver DEF Proceed
  <2>3. CASE ~(r \in aborted \/ cooling)
    <3>1. phase' = [phase EXCEPT ![r] = "running"] /\ active' = active /\ waiting' = waiting
      BY <1>3, <2>3 DEF Proceed
    <3>2. Holders' = Holders /\ Queued' = Queued
      BY <1>3, <2>1, <3>1 DEF Proceed, Holders, Queued
    <3> QED BY <2>1, <3>1, <3>2
  <2> QED BY <2>2, <2>3
<1>4. ASSUME NEW r \in Request, Complete(r) PROVE CapacityInv'
  <2>1. r \in Holders /\ aborted' = aborted /\ cooling' \in BOOLEAN /\ GiveSlot(r)
    BY <1>4 DEF Complete, Holders
  <2> QED BY <2>1, SlotHandedOver
<1>5. ASSUME NEW r \in Request, Abort(r) PROVE CapacityInv'
  <2>1. CASE phase[r] = "queued"
    <3>1. /\ waiting' = Without(waiting, r) /\ phase' = [phase EXCEPT ![r] = "done"]
          /\ active' = active /\ cooling' = cooling /\ aborted' \in SUBSET Request
      BY <1>5, <2>1 DEF Abort
    <3>2. r \in Queued
      BY <2>1 DEF Queued
    <3>3. PICK i \in DOMAIN waiting : waiting[i] = r
      BY <3>2
    <3>4. /\ waiting' \in Seq(Request)
          /\ {waiting'[k] : k \in DOMAIN waiting'} = {waiting[k] : k \in DOMAIN waiting} \ {r}
          /\ \A m, n \in DOMAIN waiting' : waiting'[m] = waiting'[n] => m = n
      <4>1. \A m, n \in DOMAIN waiting : waiting[m] = waiting[n] => m = n
        OBVIOUS
      <4>2. waiting \in Seq(Request) /\ waiting' = Without(waiting, r)
        BY <3>1
      <4> HIDE DEF CapacityInv, CapacityTypeOK, SlotsConserved
      <4>3. /\ Without(waiting, r) \in Seq(Request)
            /\ {Without(waiting, r)[k] : k \in DOMAIN Without(waiting, r)}
                 = {waiting[k] : k \in DOMAIN waiting} \ {r}
            /\ \A m, n \in DOMAIN Without(waiting, r) :
                 Without(waiting, r)[m] = Without(waiting, r)[n] => m = n
        BY <3>3, <4>1, <4>2, RemovedFromQueue
      <4> QED BY <4>2, <4>3
    <3>5. Holders' = Holders /\ Queued' = Queued \ {r}
      BY <2>1, <3>1 DEF Holders, Queued
    <3>6. waiting # <<>>
      BY <3>3
    <3> QED BY <3>1, <3>4, <3>5, <3>6
  <2>2. CASE phase[r] # "queued"
    <3>1. Holders' = Holders /\ Queued' = Queued
      BY <1>5, <2>2 DEF Abort, Holders, Queued
    <3> QED BY <1>5, <2>2, <3>1 DEF Abort
  <2> QED BY <2>1, <2>2
<1>6. CASE CooledDown
  <2>1. Holders' = Holders /\ Queued' = Queued
    BY <1>6 DEF CooledDown, Holders, Queued
  <2> QED BY <1>6, <2>1 DEF CooledDown
<1>7. ASSUME NEW r \in Request, NextRequest(r) PROVE CapacityInv'
  <2>1. Holders' = Holders /\ Queued' = Queued
    BY <1>7 DEF NextRequest, Holders, Queued
  <2> QED BY <1>7, <2>1 DEF NextRequest
<1>8. CASE UNCHANGED capacityVars
  <2>1. Holders' = Holders /\ Queued' = Queued
    BY <1>8 DEF capacityVars, Holders, Queued
  <2> QED BY <1>8, <2>1 DEF capacityVars
<1> QED BY <1>1, <1>2, <1>3, <1>4, <1>5, <1>6, <1>7, <1>8 DEF CapacityNext

\* Nobody holds a slot at the start.
LEMMA CapacityStart == CapacityInit => CapacityInv
<1> SUFFICES ASSUME CapacityInit PROVE CapacityInv
  OBVIOUS
<1>1. Holders = {} /\ Queued = {}
  BY DEF CapacityInit, Holders, Queued
<1>2. IsFiniteSet(Holders) /\ Cardinality(Holders) = 0
  BY <1>1, FS_EmptySet
<1>3. CapacityTypeOK
  <2>1. <<>> \in Seq(Request)
    OBVIOUS
  <2>2. phase \in [Request -> {"new", "queued", "granted", "running", "done"}]
    BY DEF CapacityInit
  <2>3. active \in Nat /\ cooling \in BOOLEAN /\ aborted \in SUBSET Request
    BY DEF CapacityInit
  <2>4. waiting = <<>>
    BY DEF CapacityInit
  <2> QED BY <2>1, <2>2, <2>3, <2>4 DEF CapacityTypeOK
<1>4. waiting = <<>> /\ DOMAIN waiting = {} /\ active = 0
  BY DEF CapacityInit
<1>5. {waiting[i] : i \in DOMAIN waiting} = {}
  BY <1>4
<1>6. SlotsConserved
  BY <1>1, <1>2, <1>4, <1>5, CapacityAssumption DEF SlotsConserved
<1> QED BY <1>2, <1>3, <1>6 DEF CapacityInv

\* No slot is lost or used twice, for any requests, slots and queue: the hosted
\* process never runs out of RPC capacity by accident and never exceeds it
\* (rpc-capacity.mjs:12-23).
THEOREM SlotsNeverLost == CapacitySpec => []SlotsConserved
<1>1. CapacityInv => SlotsConserved
  BY DEF CapacityInv
<1> QED BY CapacityStart, CapacityStep, <1>1, PTL DEF CapacitySpec

-----------------------------------------------------------------------------
(* Wallets of agents.                                                        *)

\* The types of wallets, agents and profiles.
WalletsTypeOK ==
  /\ record \in [Robot -> Profile]
  /\ agentWallet \in [Purse -> Robot \cup {Nobody}]
  /\ linked \in SUBSET Purse /\ torn \in SUBSET Robot
  /\ accountLock \in [Robot -> Worker \cup {Nobody}]
  /\ change \in [Worker -> Change \cup {NoChange}]
  /\ tears \in Nat

\* A change that was never torn is the only one of its agent and holds the lock.
SoleChange ==
  \A s \in Worker : change[s] # NoChange /\ change[s].agent \notin torn
    => accountLock[change[s].agent] = s

\* It was made from the profile that is still stored, and what it will store is
\* held already, or is about to be claimed.
ChangeKnown ==
  \A s \in Worker : change[s] # NoChange /\ change[s].agent \notin torn =>
    LET c == change[s] IN
    /\ c.old = record[c.agent]
    /\ c.at = "claim" => c.new.wallet # Nobody
    /\ c.at \in {"claim", "free"} /\ c.new.wallet # Nobody => c.new.wallet # c.old.wallet
    /\ c.at \in {"free", "store"} /\ c.new.wallet # Nobody => agentWallet[c.new.wallet] = c.agent

\* What a wallet change in progress knows, and the exclusiveness it keeps.
WalletsInv == WalletsTypeOK /\ SoleChange /\ ChangeKnown /\ WalletsExclusive
-----------------------------------------------------------------------------
\* Two changes of one agent that was never torn are the same.
LEMMA OneChange ==
  ASSUME WalletsInv, NEW s \in Worker, NEW t \in Worker,
         change[s] # NoChange, change[t] # NoChange,
         change[s].agent = change[t].agent, change[s].agent \notin torn
  PROVE  s = t
BY DEF WalletsInv, SoleChange

\* A change is one of the kind the code makes.
LEMMA ChangeTyped ==
  ASSUME WalletsTypeOK, NEW s \in Worker, change[s] # NoChange
  PROVE  /\ change[s] \in Change /\ change[s].agent \in Robot /\ change[s].at \in Step
         /\ change[s].old \in Profile /\ change[s].new \in Profile
         /\ change[s].old.wallet \in Purse \cup {Nobody}
         /\ change[s].new.wallet \in Purse \cup {Nobody}
<1>1. change[s] \in Change
  BY DEF WalletsTypeOK
<1> QED BY <1>1 DEF Change, Profile

\* A step beginning with "claim", "free" or "store" belongs to a change.
LEMMA StepOfChange ==
  ASSUME WalletsTypeOK, NEW s \in Worker, change[s].at \in Step
  PROVE  change[s] # NoChange
BY DEF NoChange, Step
-----------------------------------------------------------------------------
\* A new change of an agent takes the lock, so nobody else is changing it unless
\* it was torn.
LEMMA ChangeOpened ==
  ASSUME WalletsInv, NEW s \in Worker, NEW a \in Robot, NEW first \in Step, NEW next \in Profile,
         Open(s, a, first, next),
         first = "claim" => next.wallet # Nobody,
         first \in {"claim", "free"} /\ next.wallet # Nobody => next.wallet # record[a].wallet,
         first \in {"free", "store"} /\ next.wallet # Nobody => next.wallet = record[a].wallet
  PROVE  WalletsInv'
<1> DEFINE c == [at |-> first, agent |-> a, old |-> record[a], new |-> next]
<1>1. /\ change' = [change EXCEPT ![s] = c] /\ change[s] = NoChange
      /\ accountLock' = [accountLock EXCEPT ![a] = s] /\ accountLock[a] = Nobody
      /\ record' = record /\ agentWallet' = agentWallet /\ linked' = linked
      /\ torn' = torn /\ tears' = tears
  BY DEF Open
<1>2. record[a] \in Profile /\ c \in Change
  BY DEF WalletsInv, WalletsTypeOK, Change
<1>3. c # NoChange /\ c.at = first /\ c.agent = a /\ c.old = record[a] /\ c.new = next
  BY DEF NoChange, Step
<1> HIDE DEF c
<1>4. WalletsTypeOK'
  BY <1>1, <1>2 DEF WalletsInv, WalletsTypeOK
<1>5. change'[s] = c /\ \A t \in Worker : t # s => change'[t] = change[t]
  BY <1>1 DEF WalletsInv, WalletsTypeOK
<1>6. a \notin torn => \A t \in Worker : change[t] # NoChange => change[t].agent # a
  BY <1>1, WalletsAssumption DEF WalletsInv, SoleChange
<1>7. SoleChange'
  <2> SUFFICES ASSUME NEW t \in Worker, change'[t] # NoChange, change'[t].agent \notin torn'
               PROVE accountLock'[change'[t].agent] = t
    BY DEF SoleChange
  <2>1. CASE t = s
    BY <2>1, <1>1, <1>3, <1>5 DEF WalletsInv, WalletsTypeOK
  <2>2. CASE t # s
    <3>1. change'[t] = change[t] /\ change[t].agent # a /\ change[t].agent \in Robot
      BY <2>2, <1>1, <1>5, <1>6, ChangeTyped DEF WalletsInv
    <3> QED BY <3>1, <1>1 DEF WalletsInv, WalletsTypeOK, SoleChange
  <2> QED BY <2>1, <2>2
<1>8. a \notin torn => \/ record[a].wallet = Nobody \/ agentWallet[record[a].wallet] = a
  BY <1>6 DEF WalletsInv, WalletsExclusive, Releasing, NoChange
<1>9. ChangeKnown'
  <2> SUFFICES ASSUME NEW t \in Worker, change'[t] # NoChange, change'[t].agent \notin torn'
               PROVE LET d == change'[t] IN
                     /\ d.old = record'[d.agent]
                     /\ d.at = "claim" => d.new.wallet # Nobody
                     /\ d.at \in {"claim", "free"} /\ d.new.wallet # Nobody => d.new.wallet # d.old.wallet
                     /\ d.at \in {"free", "store"} /\ d.new.wallet # Nobody => agentWallet'[d.new.wallet] = d.agent
    BY DEF ChangeKnown
  <2>1. CASE t = s
    BY <2>1, <1>1, <1>3, <1>5, <1>8
  <2>2. CASE t # s
    BY <2>2, <1>1, <1>5 DEF WalletsInv, ChangeKnown
  <2> QED BY <2>1, <2>2
<1>10. WalletsExclusive'
  <2>1. \A b \in Robot : Releasing(b) => Releasing(b)'
    <3> SUFFICES ASSUME NEW b \in Robot, NEW t \in Worker, change[t].at = "store", change[t].agent = b
                 PROVE change'[t].at = "store" /\ change'[t].agent = b
      BY DEF Releasing
    <3>1. t # s
      BY <1>1 DEF NoChange
    <3> QED BY <3>1, <1>5
  <2> QED BY <2>1, <1>1 DEF WalletsInv, WalletsExclusive
<1> QED BY <1>4, <1>7, <1>9, <1>10 DEF WalletsInv

\* A change ends, or goes on after its lock ran out: no other agent notices.
LEMMA OthersUnlocked ==
  ASSUME WalletsInv, NEW s \in Worker, accountLock' = Unlocked(s),
         NEW t \in Worker, t # s, change[t] # NoChange, change[t].agent \notin torn
  PROVE  accountLock'[change[t].agent] = t
<1>1. change[t].agent \in Robot /\ accountLock[change[t].agent] = t
  BY ChangeTyped DEF WalletsInv, SoleChange
<1> QED BY <1>1 DEF Unlocked

\* The lock that is given up keeps its type.
LEMMA UnlockedTyped ==
  ASSUME WalletsTypeOK, NEW s \in Worker
  PROVE  Unlocked(s) \in [Robot -> Worker \cup {Nobody}]
BY DEF WalletsTypeOK, Unlocked

\* The claim: taken only from nobody, or refused.
LEMMA ClaimStep ==
  ASSUME WalletsInv, NEW s \in Worker, ClaimWallet(s)
  PROVE  WalletsInv'
<1> DEFINE c == change[s]
           w == c.new.wallet
<1>1. /\ c.at = "claim" /\ c # NoChange /\ c \in Change /\ c.agent \in Robot /\ w \in Purse \cup {Nobody}
      /\ c.old \in Profile /\ c.new \in Profile
  BY StepOfChange, ChangeTyped DEF ClaimWallet, WalletsInv, Step
<1>2. record' = record /\ linked' = linked /\ torn' = torn /\ tears' = tears
  BY DEF ClaimWallet
<1>3. CASE ~Claimable(c.agent, w)
  <2>1. /\ change' = [change EXCEPT ![s] = NoChange]
        /\ accountLock' = Unlocked(s) /\ agentWallet' = agentWallet
    BY <1>3 DEF ClaimWallet
  <2>2. change'[s] = NoChange /\ \A t \in Worker : t # s => change'[t] = change[t]
    BY <2>1 DEF WalletsInv, WalletsTypeOK
  <2>3. WalletsTypeOK'
    BY <1>2, <2>1, UnlockedTyped DEF WalletsInv, WalletsTypeOK
  <2>4. SoleChange'
    BY <1>2, <2>1, <2>2, OthersUnlocked DEF SoleChange
  <2>5. ChangeKnown'
    BY <1>2, <2>1, <2>2 DEF WalletsInv, ChangeKnown
  <2>6. \A b \in Robot : Releasing(b) => Releasing(b)'
    BY <1>1, <2>2 DEF Releasing
  <2>7. WalletsExclusive'
    BY <1>2, <2>1, <2>6 DEF WalletsInv, WalletsExclusive
  <2> QED BY <2>3, <2>4, <2>5, <2>7 DEF WalletsInv
<1>4. CASE Claimable(c.agent, w)
  <2> DEFINE d == [c EXCEPT !.at = "free"]
  <2>1. /\ change' = [change EXCEPT ![s] = d] /\ accountLock' = accountLock
        /\ agentWallet' = [agentWallet EXCEPT ![w] = c.agent]
    BY <1>4 DEF ClaimWallet, WalletsInv, WalletsTypeOK
  <2>2. /\ d \in Change /\ d # NoChange /\ d.at = "free"
        /\ d.agent = c.agent /\ d.old = c.old /\ d.new = c.new
    BY <1>1 DEF Change, NoChange, Step
  <2>3. w \notin linked /\ agentWallet[w] \in {Nobody, c.agent}
    BY <1>4 DEF Claimable
  <2> HIDE DEF c, w, d
  <2>4. change'[s] = d /\ \A t \in Worker : t # s => change'[t] = change[t]
    BY <2>1 DEF WalletsInv, WalletsTypeOK
  <2>5. WalletsTypeOK'
    <3>1. agentWallet' \in [Purse -> Robot \cup {Nobody}]
      BY <2>1, <1>1 DEF WalletsInv, WalletsTypeOK
    <3>2. change' \in [Worker -> Change \cup {NoChange}]
      BY <2>1, <2>2 DEF WalletsInv, WalletsTypeOK
    <3> QED BY <1>2, <2>1, <3>1, <3>2 DEF WalletsInv, WalletsTypeOK
  <2>6. SoleChange'
    BY <1>1, <1>2, <2>1, <2>2, <2>4 DEF WalletsInv, SoleChange, c
  <2>7. \A v \in Purse : /\ v # w => agentWallet'[v] = agentWallet[v]
                         /\ v = w => agentWallet'[v] = c.agent
    BY <2>1 DEF WalletsInv, WalletsTypeOK
  <2>8. \A b \in Robot, v \in Purse : agentWallet[v] = b => agentWallet'[v] = b
    BY <2>3, <2>7, WalletsAssumption DEF WalletsInv, WalletsTypeOK
  <2>9. ChangeKnown'
    <3> SUFFICES ASSUME NEW t \in Worker, change'[t] # NoChange, change'[t].agent \notin torn'
                 PROVE LET e == change'[t] IN
                       /\ e.old = record'[e.agent]
                       /\ e.at = "claim" => e.new.wallet # Nobody
                       /\ e.at \in {"claim", "free"} /\ e.new.wallet # Nobody => e.new.wallet # e.old.wallet
                       /\ e.at \in {"free", "store"} /\ e.new.wallet # Nobody => agentWallet'[e.new.wallet] = e.agent
      BY DEF ChangeKnown
    <3>1. CASE t = s
      <4>1. c.old = record[c.agent] /\ w # Nobody /\ w # c.old.wallet
        BY <3>1, <1>1, <1>2, <2>2, <2>4 DEF WalletsInv, ChangeKnown, c, w
      <4>2. w \in Purse /\ agentWallet'[w] = c.agent
        BY <4>1, <1>1, <2>7
      <4> QED BY <3>1, <4>1, <4>2, <1>2, <2>2, <2>4 DEF w
    <3>2. CASE t # s
      <4>1. change'[t] = change[t] /\ change[t].agent \in Robot /\ change[t].new.wallet \in Purse \cup {Nobody}
        BY <3>2, <2>4, ChangeTyped DEF WalletsInv
      <4> QED BY <4>1, <1>2, <2>8 DEF WalletsInv, ChangeKnown
    <3> QED BY <3>1, <3>2
  <2>10. \A b \in Robot : Releasing(b) => Releasing(b)'
    BY <1>1, <2>4 DEF Releasing, c
  <2>11. WalletsExclusive'
    <3>1. \A v \in Purse : v \in linked' => agentWallet'[v] = Nobody
      BY <1>2, <2>3, <2>7 DEF WalletsInv, WalletsExclusive
    <3>2. \A b \in Robot : record[b].wallet \in Purse \cup {Nobody}
      BY DEF WalletsInv, WalletsTypeOK, Profile
    <3> QED BY <1>2, <2>8, <2>10, <3>1, <3>2 DEF WalletsInv, WalletsExclusive
  <2> QED BY <2>5, <2>6, <2>9, <2>11 DEF WalletsInv
<1> QED BY <1>3, <1>4

\* The release of the wallet the agent had before: nobody else's goes.
LEMMA FreeStep ==
  ASSUME WalletsInv, NEW s \in Worker, FreeWallet(s)
  PROVE  WalletsInv'
<1> DEFINE c == change[s]
           d == [c EXCEPT !.at = "store"]
<1>1. /\ c.at = "free" /\ c # NoChange /\ c \in Change /\ c.agent \in Robot
      /\ c.old \in Profile /\ c.new \in Profile /\ c.old.wallet \in Purse \cup {Nobody}
      /\ c.new.wallet \in Purse \cup {Nobody}
  BY StepOfChange, ChangeTyped DEF FreeWallet, WalletsInv, Step
<1>2. /\ record' = record /\ linked' = linked /\ torn' = torn /\ tears' = tears
      /\ accountLock' = accountLock /\ change' = [change EXCEPT ![s] = d]
  BY DEF FreeWallet, WalletsInv, WalletsTypeOK
<1>3. \A v \in Purse : \/ agentWallet'[v] = agentWallet[v]
                       \/ v = c.old.wallet /\ agentWallet[v] = c.agent /\ agentWallet'[v] = Nobody
  BY <1>1 DEF FreeWallet, HoldsWallet, WalletsInv, WalletsTypeOK
<1>4. agentWallet' \in [Purse -> Robot \cup {Nobody}]
  BY <1>1 DEF FreeWallet, WalletsInv, WalletsTypeOK
<1>5. /\ d \in Change /\ d # NoChange /\ d.at = "store"
      /\ d.agent = c.agent /\ d.old = c.old /\ d.new = c.new
  BY <1>1 DEF Change, NoChange, Step
<1> HIDE DEF c, d
<1>6. change'[s] = d /\ \A t \in Worker : t # s => change'[t] = change[t]
  BY <1>2 DEF WalletsInv, WalletsTypeOK
<1>7. WalletsTypeOK'
  <2>1. change' \in [Worker -> Change \cup {NoChange}]
    BY <1>2, <1>5 DEF WalletsInv, WalletsTypeOK
  <2> QED BY <2>1, <1>2, <1>4 DEF WalletsInv, WalletsTypeOK
<1>8. SoleChange'
  BY <1>1, <1>2, <1>5, <1>6 DEF WalletsInv, SoleChange, c
<1>9. \A b \in Robot, v \in Purse : b # c.agent /\ agentWallet[v] = b => agentWallet'[v] = b
  BY <1>3
<1>10. ChangeKnown'
  <2> SUFFICES ASSUME NEW t \in Worker, change'[t] # NoChange, change'[t].agent \notin torn'
               PROVE LET e == change'[t] IN
                     /\ e.old = record'[e.agent]
                     /\ e.at = "claim" => e.new.wallet # Nobody
                     /\ e.at \in {"claim", "free"} /\ e.new.wallet # Nobody => e.new.wallet # e.old.wallet
                     /\ e.at \in {"free", "store"} /\ e.new.wallet # Nobody => agentWallet'[e.new.wallet] = e.agent
    BY DEF ChangeKnown
  <2>1. CASE t = s
    <3>1. /\ c.old = record[c.agent]
          /\ c.new.wallet # Nobody => c.new.wallet # c.old.wallet /\ agentWallet[c.new.wallet] = c.agent
      BY <2>1, <1>1, <1>2, <1>5, <1>6 DEF WalletsInv, ChangeKnown, c
    <3>2. c.new.wallet # Nobody => agentWallet'[c.new.wallet] = c.agent
      BY <3>1, <1>1, <1>3
    <3> QED BY <2>1, <3>1, <3>2, <1>2, <1>5, <1>6
  <2>2. CASE t # s
    <3>1. change'[t] = change[t] /\ change[t].agent \in Robot /\ change[t].new.wallet \in Purse \cup {Nobody}
      BY <2>2, <1>6, ChangeTyped DEF WalletsInv
    <3>2. change[t].agent # c.agent
      BY <2>2, <3>1, <1>1, <1>2, OneChange DEF c
    <3> QED BY <3>1, <3>2, <1>2, <1>9 DEF WalletsInv, ChangeKnown
  <2> QED BY <2>1, <2>2
<1>11. WalletsExclusive'
  <2>1. \A v \in Purse : v \in linked' => agentWallet'[v] = Nobody
    BY <1>2, <1>3 DEF WalletsInv, WalletsExclusive
  <2>2. \A b \in Robot : Releasing(b) => Releasing(b)'
    BY <1>1, <1>6 DEF Releasing, c
  <2>3. \A b \in Robot : b = c.agent => Releasing(b)'
    BY <1>5, <1>6 DEF Releasing
  <2>4. \A b \in Robot : record[b].wallet \in Purse \cup {Nobody}
    BY DEF WalletsInv, WalletsTypeOK, Profile
  <2> QED BY <1>2, <1>9, <2>1, <2>2, <2>3, <2>4 DEF WalletsInv, WalletsExclusive
<1> QED BY <1>7, <1>8, <1>10, <1>11 DEF WalletsInv

\* The profile is written last: by then the agent holds the wallet it shows.
LEMMA StoreStep ==
  ASSUME WalletsInv, NEW s \in Worker, StoreProfile(s)
  PROVE  WalletsInv'
<1> DEFINE c == change[s]
<1>1. /\ c.at = "store" /\ c # NoChange /\ c.agent \in Robot /\ c.new \in Profile
      /\ c.new.wallet \in Purse \cup {Nobody}
  BY StepOfChange, ChangeTyped DEF StoreProfile, WalletsInv, Step
<1>2. /\ agentWallet' = agentWallet /\ linked' = linked /\ torn' = torn /\ tears' = tears
      /\ accountLock' = Unlocked(s) /\ change' = [change EXCEPT ![s] = NoChange]
      /\ record' = [record EXCEPT ![c.agent] = c.new]
  BY DEF StoreProfile
<1> HIDE DEF c
<1>3. change'[s] = NoChange /\ \A t \in Worker : t # s => change'[t] = change[t]
  BY <1>2 DEF WalletsInv, WalletsTypeOK
<1>4. /\ record'[c.agent] = c.new
      /\ \A b \in Robot : b # c.agent => record'[b] = record[b]
  BY <1>1, <1>2 DEF WalletsInv, WalletsTypeOK
<1>5. WalletsTypeOK'
  BY <1>1, <1>2, UnlockedTyped DEF WalletsInv, WalletsTypeOK
<1>6. SoleChange'
  BY <1>2, <1>3, OthersUnlocked DEF SoleChange
<1>7. ChangeKnown'
  <2> SUFFICES ASSUME NEW t \in Worker, t # s, change[t] # NoChange, change[t].agent \notin torn
               PROVE record'[change[t].agent] = record[change[t].agent]
    BY <1>2, <1>3 DEF WalletsInv, ChangeKnown
  <2>1. change[t].agent \in Robot /\ change[t].agent # c.agent
    BY <1>1, OneChange, ChangeTyped DEF WalletsInv, c
  <2> QED BY <2>1, <1>4
<1>8. WalletsExclusive'
  <2> SUFFICES ASSUME NEW b \in Robot, b \notin torn
               PROVE \/ record'[b].wallet = Nobody \/ agentWallet[record'[b].wallet] = b
                     \/ Releasing(b)'
    BY <1>2 DEF WalletsInv, WalletsExclusive
  <2>1. CASE b = c.agent
    <3>1. c.new.wallet # Nobody => agentWallet[c.new.wallet] = b
      BY <2>1, <1>1 DEF WalletsInv, ChangeKnown, c
    <3> QED BY <2>1, <3>1, <1>4
  <2>2. CASE b # c.agent
    <3>1. Releasing(b) => Releasing(b)'
      BY <2>2, <1>3 DEF Releasing, c
    <3> QED BY <2>2, <3>1, <1>4 DEF WalletsInv, WalletsExclusive
  <2> QED BY <2>1, <2>2
<1> QED BY <1>5, <1>6, <1>7, <1>8 DEF WalletsInv

\* A lock that runs out, or a worker that dies: the agent counts as torn.
LEMMA TearStep ==
  ASSUME WalletsInv, NEW s \in Worker, NEW dies \in BOOLEAN, Tear(s, dies)
  PROVE  WalletsInv'
<1> DEFINE c == change[s]
<1>1. c # NoChange /\ c.agent \in Robot
  BY ChangeTyped DEF Tear, WalletsInv
<1>2. /\ agentWallet' = agentWallet /\ linked' = linked /\ record' = record /\ tears' \in Nat
      /\ torn' = torn \cup {c.agent} /\ accountLock' = Unlocked(s)
      /\ change' = IF dies THEN [change EXCEPT ![s] = NoChange] ELSE change
  BY DEF Tear, WalletsInv, WalletsTypeOK
<1> HIDE DEF c
<1>3. /\ \A t \in Worker : t # s => change'[t] = change[t]
      /\ change'[s] \in {c, NoChange}
  BY <1>2 DEF WalletsInv, WalletsTypeOK, c
<1>4. WalletsTypeOK'
  <2>1. change' \in [Worker -> Change \cup {NoChange}]
    BY <1>2 DEF WalletsInv, WalletsTypeOK
  <2> QED BY <2>1, <1>1, <1>2, UnlockedTyped DEF WalletsInv, WalletsTypeOK
<1>5. SoleChange'
  BY <1>2, <1>3, OthersUnlocked DEF SoleChange
<1>6. ChangeKnown'
  BY <1>2, <1>3 DEF WalletsInv, ChangeKnown
<1>7. WalletsExclusive'
  <2>1. \A b \in Robot : b # c.agent /\ Releasing(b) => Releasing(b)'
    BY <1>3 DEF Releasing, c
  <2> QED BY <2>1, <1>2 DEF WalletsInv, WalletsExclusive
<1> QED BY <1>4, <1>5, <1>6, <1>7 DEF WalletsInv
-----------------------------------------------------------------------------
\* Nothing is changing at the start.
LEMMA WalletsStart == WalletsInit => WalletsInv
<1> SUFFICES ASSUME WalletsInit PROVE WalletsInv
  OBVIOUS
<1>1. WalletsTypeOK
  BY DEF WalletsInit, WalletsTypeOK, Profile
<1>2. SoleChange /\ ChangeKnown /\ WalletsExclusive
  BY DEF WalletsInit, SoleChange, ChangeKnown, WalletsExclusive, Profile
<1> QED BY <1>1, <1>2 DEF WalletsInv

\* Every step of the server keeps the wallets apart.
LEMMA WalletsStep == WalletsInv /\ [WalletsNext]_walletVars => WalletsInv'
<1> SUFFICES ASSUME WalletsInv, [WalletsNext]_walletVars PROVE WalletsInv'
  OBVIOUS
<1>1. ASSUME NEW s \in Worker, NEW a \in Robot, ArchiveAgent(s, a) PROVE WalletsInv'
  <2> DEFINE next == [status |-> "archived", wallet |-> Nobody]
  <2>1. next \in Profile /\ next.wallet = Nobody
    BY DEF Profile
  <2> HIDE DEF next
  <2>2. Open(s, a, "free", next) /\ "free" \in Step
    BY <1>1 DEF ArchiveAgent, Step, next
  <2> QED BY <2>1, <2>2, ChangeOpened
<1>2. ASSUME NEW s \in Worker, NEW a \in Robot, UpdateProfile(s, a) PROVE WalletsInv'
  <2> DEFINE next == [record[a] EXCEPT !.status = IF @ = "active" THEN "paused" ELSE "active"]
  <2>0. record[a] \in Profile
    BY DEF WalletsInv, WalletsTypeOK
  <2>1. next \in Profile /\ next.wallet = record[a].wallet
    BY <2>0 DEF Profile
  <2> HIDE DEF next
  <2>2. Open(s, a, "store", next) /\ "store" \in Step
    BY <1>2 DEF UpdateProfile, Step, next
  <2> QED BY <2>1, <2>2, ChangeOpened
<1>3. ASSUME NEW s \in Worker, NEW a \in Robot, NEW w \in Purse, Associate(s, a, w) PROVE WalletsInv'
  <2> DEFINE next == [record[a] EXCEPT !.wallet = w]
  <2>0. record[a] \in Profile
    BY DEF WalletsInv, WalletsTypeOK
  <2>1. next \in Profile /\ next.wallet = w
    BY <2>0 DEF Profile
  <2> HIDE DEF next
  <2>2. Open(s, a, "claim", next) /\ "claim" \in Step /\ record[a].wallet # w
    BY <1>3 DEF Associate, Step, next
  <2>3. w # Nobody
    BY WalletsAssumption
  <2> QED BY <2>1, <2>2, <2>3, ChangeOpened
<1>4. ASSUME NEW w \in Purse, LinkWallet(w) PROVE WalletsInv'
  <2>1. /\ agentWallet[w] = Nobody /\ linked' = linked \cup {w}
        /\ UNCHANGED <<record, agentWallet, accountLock, change, torn, tears>>
    BY <1>4 DEF LinkWallet
  <2>2. WalletsTypeOK' /\ SoleChange' /\ ChangeKnown'
    BY <2>1 DEF WalletsInv, WalletsTypeOK, SoleChange, ChangeKnown
  <2>3. WalletsExclusive'
    BY <2>1 DEF WalletsInv, WalletsExclusive, Releasing
  <2> QED BY <2>2, <2>3 DEF WalletsInv
<1>5. CASE UNCHANGED walletVars
  <2>1. UNCHANGED <<record, agentWallet, linked, accountLock, change, torn, tears>>
    BY <1>5 DEF walletVars
  <2>2. WalletsTypeOK' /\ SoleChange' /\ ChangeKnown'
    BY <2>1 DEF WalletsInv, WalletsTypeOK, SoleChange, ChangeKnown
  <2>3. WalletsExclusive'
    BY <2>1 DEF WalletsInv, WalletsExclusive, Releasing
  <2> QED BY <2>2, <2>3 DEF WalletsInv
<1> QED BY <1>1, <1>2, <1>3, <1>4, <1>5, ClaimStep, FreeStep, StoreStep, TearStep DEF WalletsNext

\* No wallet is ever both linked by a person and held by an agent, and a profile
\* whose changes were not torn shows the wallet the agent holds, so no two of
\* them show the same one (agent-store.mjs:337-355, 395-415).
THEOREM WalletsKeptApart == WalletsSpec => []WalletsExclusive
<1>1. WalletsInv => WalletsExclusive
  BY DEF WalletsInv
<1> QED BY WalletsStart, WalletsStep, <1>1, PTL DEF WalletsSpec

-----------------------------------------------------------------------------
(* The pilot index.                                                          *)

\* A block of any fork.
AnyBlock == [fork : Nat, log : BOOLEAN]

\* No block of B is of a later fork.
Forks(B, limit) == \A i \in 1..Len(B) : B[i].fork <= limit

\* B was once the canonical chain, up to its last block.
Remembered(B) == B \in Seq(AnyBlock) /\ Len(B) <= Len(ledger) /\ Forks(B, fork)

\* The logs of the chain B between two heights.
LogsOf(B, from, to) ==
  {[block |-> n, hash |-> SubSeq(B, 1, n)] : n \in {m \in from..to : B[m].log}}

\* A record of the store: the logs of one chain that once was.
Stored(i) ==
  /\ Remembered(i.hash) /\ i.target \in Int
  /\ i.logs = LogsOf(i.hash, 1, Len(i.hash))

\* The fields of a running scan.
ScanFields == {"at", "prior", "saved", "target", "goal", "boundary", "end", "before", "logs",
               "window", "next"}

\* What a scan read is of the chain its boundary names.
WasRead(c) ==
  /\ c.logs = LogsOf(c.boundary, Len(c.saved.hash) + 1, c.end)
  /\ c.end > Len(c.saved.hash) => c.before = SubSeq(c.boundary, 1, c.end)

\* The points of a scan past the choice of its goal.
Ahead == {"boundary", "batch", "logs", "canonical", "end", "limit", "old", "store"}

\* The points of the checks after the last window.
Checking == {"canonical", "end", "limit"}

\* The heights a scan covers.
Ranges(c) ==
  /\ c.goal \in Nat /\ c.end \in Nat /\ c.target \in Int
  /\ Len(c.saved.hash) < c.goal /\ c.goal <= Len(ledger)
  /\ Len(c.saved.hash) <= c.end /\ c.end <= c.goal

\* The boundary is a chain of the height of the goal.
Bounded(c) == Remembered(c.boundary) /\ Len(c.boundary) = c.goal

\* The checkpoint is on the chain of the boundary.
Joined(c) == c.saved.hash = SubSeq(c.boundary, 1, Len(c.saved.hash))

\* What a scan knows at each point.  Until the boundary is checked again, what it
\* read is of the chain of the boundary only if that chain is still canonical.
ScanOk(c) ==
  \/ c = NoScan
  \/ /\ c = [f \in ScanFields |-> c[f]]
     /\ c.at \in Ahead \cup {"checkpoint", "head"}
     /\ Stored(c.saved) /\ Stored(c.prior)
     /\ c.at \in {"checkpoint", "head", "boundary"} => c.logs = {}
     /\ c.at \in Ahead => Ranges(c)
     /\ c.at = "boundary" => c.end = Len(c.saved.hash)
     /\ c.at \in Ahead \ {"boundary"} => Bounded(c)
     /\ c.at \in {"batch", "logs"} \cup Checking => (Known(c.boundary) => WasRead(c))
     /\ c.at = "logs" =>
          /\ c.window \in Nat /\ c.end < c.window /\ c.window <= c.goal
          /\ Known(c.boundary) => c.next = SubSeq(c.boundary, 1, c.window)
     /\ c.at \in Checking \cup {"old", "store"} => c.end > Len(c.saved.hash)
     /\ c.at \in {"old", "store"} => WasRead(c)
     /\ c.at = "old" => (Known(c.saved.hash) => Joined(c))
     /\ c.at = "store" => Joined(c)

\* The store and every scan.
IndexInv ==
  /\ fork \in Nat /\ ledger \in Seq(AnyBlock) /\ Forks(ledger, fork)
  /\ Stored(index)
  /\ scan = [s \in Scanner |-> scan[s]]
  /\ \A s \in Scanner : ScanOk(scan[s])
-----------------------------------------------------------------------------
\* A prefix of a sequence.
LEMMA PrefixIs ==
  ASSUME NEW S, NEW B \in Seq(S), NEW n \in 0..Len(B)
  PROVE /\ SubSeq(B, 1, n) \in Seq(S) /\ Len(SubSeq(B, 1, n)) = n
        /\ \A i \in 1..n : SubSeq(B, 1, n)[i] = B[i]
  BY SubSeqProperties

\* A prefix of a prefix.
LEMMA PrefixOfPrefix ==
  ASSUME NEW S, NEW B \in Seq(S), NEW n \in 0..Len(B), NEW m \in 0..n
  PROVE SubSeq(SubSeq(B, 1, n), 1, m) = SubSeq(B, 1, m)
<1>1. /\ SubSeq(B, 1, n) \in Seq(S) /\ Len(SubSeq(B, 1, n)) = n
      /\ \A i \in 1..n : SubSeq(B, 1, n)[i] = B[i]
  BY PrefixIs
<1>2. /\ SubSeq(B, 1, m) \in Seq(S) /\ Len(SubSeq(B, 1, m)) = m
      /\ \A i \in 1..m : SubSeq(B, 1, m)[i] = B[i]
  BY PrefixIs
<1>3. /\ SubSeq(SubSeq(B, 1, n), 1, m) \in Seq(S) /\ Len(SubSeq(SubSeq(B, 1, n), 1, m)) = m
      /\ \A i \in 1..m : SubSeq(SubSeq(B, 1, n), 1, m)[i] = SubSeq(B, 1, n)[i]
  BY <1>1, PrefixIs
<1> QED BY <1>1, <1>2, <1>3, SeqEqual

\* Two chains that agree up to a height have the same logs up to it.
LEMMA LogsSame ==
  ASSUME NEW S, NEW B \in Seq(S), NEW C \in Seq(S), NEW from \in Nat \ {0}, NEW to \in Nat,
         to <= Len(B), to <= Len(C), SubSeq(B, 1, to) = SubSeq(C, 1, to)
  PROVE LogsOf(B, from, to) = LogsOf(C, from, to)
<1>1. ASSUME NEW n \in from..to
      PROVE B[n] = C[n] /\ SubSeq(B, 1, n) = SubSeq(C, 1, n)
  <2>1. B[n] = SubSeq(B, 1, to)[n] /\ C[n] = SubSeq(C, 1, to)[n] BY PrefixIs
  <2>2. SubSeq(B, 1, n) = SubSeq(SubSeq(B, 1, to), 1, n) BY PrefixOfPrefix
  <2>3. SubSeq(C, 1, n) = SubSeq(SubSeq(C, 1, to), 1, n) BY PrefixOfPrefix
  <2> QED BY <2>1, <2>2, <2>3
<1> QED BY <1>1 DEF LogsOf

\* A prefix of a chain that was canonical was canonical.
LEMMA RememberedPrefix ==
  ASSUME NEW B, Remembered(B), NEW n \in 0..Len(B), ledger \in Seq(AnyBlock), fork \in Nat
  PROVE Remembered(SubSeq(B, 1, n)) /\ Len(SubSeq(B, 1, n)) = n
<1>1. /\ SubSeq(B, 1, n) \in Seq(AnyBlock) /\ Len(SubSeq(B, 1, n)) = n
      /\ \A i \in 1..n : SubSeq(B, 1, n)[i] = B[i]
  BY PrefixIs DEF Remembered
<1> QED BY <1>1 DEF Remembered, Forks

\* What the chain does to what is remembered of it.
ChainStep ==
  /\ \A B : Remembered(B) => Remembered(B)'
  /\ \A B : Remembered(B) /\ Known(B)' => Known(B)
  /\ fork' \in Nat /\ ledger' \in Seq(AnyBlock) /\ Forks(ledger, fork)'
  /\ Len(ledger) <= Len(ledger')
  /\ UNCHANGED <<index, scan>>

\* A new block forgets nothing, and makes nothing canonical that was.
LEMMA GrowSteps ==
  ASSUME IndexInv, Grow PROVE ChainStep
<1>1. PICK b \in BOOLEAN : ledger' = Append(ledger, [fork |-> fork, log |-> b]) BY DEF Grow
<1>2. /\ fork \in Nat /\ ledger \in Seq(AnyBlock) /\ Forks(ledger, fork) BY DEF IndexInv
<1> DEFINE x == [fork |-> fork, log |-> b]
<1>3. x \in AnyBlock /\ x.fork = fork BY <1>2 DEF AnyBlock
<1>4. /\ ledger' \in Seq(AnyBlock) /\ Len(ledger') = Len(ledger) + 1
      /\ \A i \in 1..Len(ledger) : ledger'[i] = ledger[i]
      /\ ledger'[Len(ledger) + 1] = x
  BY <1>1, <1>2, <1>3, AppendProperties
<1>5. fork' = fork /\ UNCHANGED <<index, scan>> BY DEF Grow
<1>6. ASSUME NEW n \in 0..Len(ledger) PROVE SubSeq(ledger', 1, n) = SubSeq(ledger, 1, n)
  <2>1. n \in 0..Len(ledger') BY <1>2, <1>4
  <2>2. /\ SubSeq(ledger, 1, n) \in Seq(AnyBlock) /\ Len(SubSeq(ledger, 1, n)) = n
        /\ \A i \in 1..n : SubSeq(ledger, 1, n)[i] = ledger[i]
    BY <1>2, PrefixIs
  <2>3. /\ SubSeq(ledger', 1, n) \in Seq(AnyBlock) /\ Len(SubSeq(ledger', 1, n)) = n
        /\ \A i \in 1..n : SubSeq(ledger', 1, n)[i] = ledger'[i]
    BY <1>4, <2>1, PrefixIs
  <2> QED BY <1>2, <1>4, <2>2, <2>3, SeqEqual
<1> HIDE DEF x
<1>7. ASSUME NEW B, Remembered(B) PROVE Remembered(B)'
  BY <1>7, <1>2, <1>4, <1>5 DEF Remembered, Forks
<1>8. ASSUME NEW B, Remembered(B), Known(B)' PROVE Known(B)
  BY <1>8, <1>2, <1>6 DEF Remembered, Known, HashAt
<1>9. Forks(ledger, fork)'
  <2>1. ASSUME NEW i \in 1..Len(ledger') PROVE ledger'[i].fork <= fork
    <3>1. CASE i \in 1..Len(ledger) BY <3>1, <1>2, <1>4 DEF Forks
    <3>2. CASE i = Len(ledger) + 1 BY <3>2, <1>2, <1>3, <1>4
    <3> QED BY <3>1, <3>2, <1>2, <1>4
  <2> QED BY <2>1, <1>5 DEF Forks
<1>11. fork' \in Nat /\ Len(ledger) <= Len(ledger') BY <1>2, <1>4, <1>5
<1> QED BY <1>4, <1>5, <1>7, <1>8, <1>9, <1>11, Zenon DEF ChainStep

\* A reorganisation neither: the forks it drops do not come back.
LEMMA ReorganiseSteps ==
  ASSUME IndexInv, Reorganise PROVE ChainStep
<1>2. /\ fork \in Nat /\ ledger \in Seq(AnyBlock) /\ Forks(ledger, fork) BY DEF IndexInv
<1>5. fork' = fork + 1 /\ UNCHANGED <<index, scan>> BY DEF Reorganise
<1>1. PICK n \in 0..Len(ledger) - 1 : \E b \in [n + 1..Len(ledger) -> BOOLEAN] :
        ledger' = HashAt(n) \o [i \in 1..Len(ledger) - n |-> [fork |-> fork + 1, log |-> b[n + i]]]
  BY DEF Reorganise
<1>3. PICK b \in [n + 1..Len(ledger) -> BOOLEAN] :
        ledger' = HashAt(n) \o [i \in 1..Len(ledger) - n |-> [fork |-> fork + 1, log |-> b[n + i]]]
  BY <1>1
<1> DEFINE tail == [i \in 1..Len(ledger) - n |-> [fork |-> fork + 1, log |-> b[n + i]]]
<1>4. /\ SubSeq(ledger, 1, n) \in Seq(AnyBlock) /\ Len(SubSeq(ledger, 1, n)) = n
      /\ \A i \in 1..n : SubSeq(ledger, 1, n)[i] = ledger[i]
  BY <1>2, PrefixIs
<1>6. /\ tail \in Seq(AnyBlock) /\ Len(tail) = Len(ledger) - n
      /\ \A i \in 1..Len(ledger) - n : tail[i].fork = fork + 1
  <2>1. Len(ledger) \in Nat /\ n \in Nat /\ Len(ledger) - n \in Nat BY <1>2
  <2>2. ASSUME NEW i \in 1..Len(ledger) - n
        PROVE [fork |-> fork + 1, log |-> b[n + i]] \in AnyBlock
    <3>1. n + i \in n + 1..Len(ledger) BY <2>1
    <3>2. b[n + i] \in BOOLEAN BY <3>1
    <3>3. fork + 1 \in Nat BY <1>2
    <3> QED BY <3>2, <3>3 DEF AnyBlock
  <2>3. tail \in [1..Len(ledger) - n -> AnyBlock] BY <2>2
  <2>4. tail \in Seq(AnyBlock) BY <2>1, <2>3, SeqDef
  <2>5. Len(tail) = Len(ledger) - n BY <2>1, <2>3, <2>4, LenProperties
  <2> QED BY <2>4, <2>5
<1>7. /\ ledger' \in Seq(AnyBlock) /\ Len(ledger') = Len(ledger)
      /\ \A i \in 1..n : ledger'[i] = ledger[i]
      /\ \A i \in n + 1..Len(ledger) : ledger'[i].fork = fork + 1
  <2> HIDE DEF tail
  <2>0. ledger' = SubSeq(ledger, 1, n) \o tail BY <1>3 DEF HashAt, tail
  <2>1. n \in Nat /\ n <= Len(ledger) /\ Len(ledger) \in Nat BY <1>2
  <2>2. /\ ledger' \in Seq(AnyBlock) /\ Len(ledger') = n + Len(tail)
        /\ \A i \in 1..n + Len(tail) : ledger'[i] =
             IF i <= n THEN SubSeq(ledger, 1, n)[i] ELSE tail[i - n]
    BY <2>0, <1>4, <1>6, ConcatProperties
  <2>3. Len(ledger') = Len(ledger) BY <2>1, <2>2, <1>6
  <2>4. ASSUME NEW i \in 1..n PROVE ledger'[i] = ledger[i]
    BY <2>1, <2>2, <1>6, <1>4
  <2>5. ASSUME NEW i \in n + 1..Len(ledger) PROVE ledger'[i].fork = fork + 1
    <3>1. i - n \in 1..Len(ledger) - n /\ i \in 1..n + Len(tail) /\ ~(i <= n) BY <2>1, <1>6
    <3>2. ledger'[i] = tail[i - n] BY <3>1, <2>2
    <3> QED BY <3>1, <3>2, <1>6
  <2> QED BY <2>2, <2>3, <2>4, <2>5
<1> HIDE DEF tail
<1>8. ASSUME NEW B, Remembered(B) PROVE Remembered(B)'
  <2>1. \A i \in 1..Len(B) : B[i].fork \in Nat
    <3>1. B \in Seq(AnyBlock) BY <1>8 DEF Remembered
    <3>2. \A i \in 1..Len(B) : B[i] \in AnyBlock BY <3>1
    <3> QED BY <3>2 DEF AnyBlock
  <2> QED BY <1>2, <1>5, <1>7, <1>8, <2>1 DEF Remembered, Forks
<1>9. ASSUME NEW B, Remembered(B), Known(B)' PROVE Known(B)
  <2>1. B \in Seq(AnyBlock) /\ Len(B) <= Len(ledger) /\ Forks(B, fork) BY <1>9 DEF Remembered
  <2>2. Len(B) \in 0..Len(ledger') /\ Len(B) \in Nat /\ Len(ledger) \in Nat BY <1>2, <2>1, <1>7
  <2>3. /\ Len(SubSeq(ledger', 1, Len(B))) = Len(B)
        /\ \A i \in 1..Len(B) : SubSeq(ledger', 1, Len(B))[i] = ledger'[i]
    BY <1>7, <2>2, PrefixIs
  <2>4. SubSeq(ledger', 1, Len(B)) = B BY <1>9 DEF Known, HashAt
  <2>5. \A i \in 1..Len(B) : B[i] = ledger'[i] BY <2>3, <2>4
  <2>6. Len(B) <= n
    <3>1. SUFFICES ASSUME Len(B) > n PROVE FALSE BY <2>2
    <3>2. n + 1 \in 1..Len(B) /\ n + 1 \in n + 1..Len(ledger) BY <3>1, <2>1, <2>2
    <3>3. B[n + 1].fork = fork + 1 BY <3>2, <2>5, <1>7
    <3>4. B[n + 1].fork <= fork BY <3>2, <2>1 DEF Forks
    <3> QED BY <3>3, <3>4, <1>2
  <2>7. \A i \in 1..Len(B) : B[i] = ledger[i] BY <2>2, <2>5, <2>6, <1>7
  <2>8. /\ SubSeq(ledger, 1, Len(B)) \in Seq(AnyBlock) /\ Len(SubSeq(ledger, 1, Len(B))) = Len(B)
        /\ \A i \in 1..Len(B) : SubSeq(ledger, 1, Len(B))[i] = ledger[i]
    BY <1>2, <2>1, <2>2, PrefixIs
  <2>9. SubSeq(ledger, 1, Len(B)) = B BY <2>1, <2>7, <2>8, SeqEqual
  <2> QED BY <2>1, <2>9 DEF Known, HashAt
<1>10. Forks(ledger, fork)'
  <2>1. ASSUME NEW i \in 1..Len(ledger') PROVE ledger'[i].fork <= fork + 1
    <3>1. CASE i \in 1..n
      <4>1. ledger[i] \in AnyBlock BY <3>1, <1>2
      <4>2. ledger[i].fork \in Nat BY <4>1 DEF AnyBlock
      <4>3. ledger[i].fork <= fork BY <3>1, <1>2 DEF Forks
      <4> QED BY <3>1, <4>2, <4>3, <1>2, <1>7
    <3>2. CASE i \in n + 1..Len(ledger) BY <3>2, <1>2, <1>7
    <3> QED BY <3>1, <3>2, <1>2, <1>7
  <2> QED BY <2>1, <1>5 DEF Forks
<1>11. fork' \in Nat /\ Len(ledger) <= Len(ledger') BY <1>2, <1>5, <1>7
<1> QED BY <1>2, <1>5, <1>7, <1>8, <1>9, <1>10, <1>11, Zenon DEF ChainStep

\* A scan knows no less after a step of the chain.
LEMMA ScanSteadyOne ==
  ASSUME NEW c, ScanOk(c), ChainStep, ledger \in Seq(AnyBlock)
  PROVE ScanOk(c)'
<1>1. /\ \A B : Remembered(B) => Remembered(B)'
      /\ \A B : Remembered(B) /\ Known(B)' => Known(B)
      /\ Len(ledger) <= Len(ledger') /\ Len(ledger) \in Nat /\ Len(ledger') \in Nat
  BY DEF ChainStep
<1>2. CASE c = NoScan BY <1>2, Zenon DEF ScanOk, NoScan
<1>3. CASE c # NoScan
  <2>1. \A i : Stored(i) => Stored(i)' BY <1>1, Zenon DEF Stored, LogsOf
  <2>2. Ranges(c) => Ranges(c)' BY <1>1 DEF Ranges
  <2>3. Bounded(c) => Bounded(c)' BY <1>1, Zenon DEF Bounded
  <2>4. c.at \in Ahead \ {"boundary"} => Remembered(c.boundary)
    BY <1>3, Zenon DEF ScanOk, Bounded
  <2>5. Remembered(c.saved.hash) BY <1>3, Zenon DEF ScanOk, Stored
  <2>6. c.at \in Ahead \ {"boundary"} => (Known(c.boundary)' => Known(c.boundary))
    BY <1>1, <2>4, Zenon
  <2>7. Known(c.saved.hash)' => Known(c.saved.hash) BY <1>1, <2>5, Zenon
  <2>8. /\ {"batch", "logs"} \cup Checking \subseteq Ahead \ {"boundary"}
        /\ "logs" \in Ahead \ {"boundary"}
    BY DEF Checking, Ahead
  <2>9. WasRead(c)' = WasRead(c) /\ Joined(c)' = Joined(c) BY Zenon DEF WasRead, Joined, LogsOf
  <2>10. c.at \in {"batch", "logs"} \cup Checking => (Known(c.boundary)' => WasRead(c)')
    <3>1. c.at \in {"batch", "logs"} \cup Checking => (Known(c.boundary) => WasRead(c))
      BY <1>3, Zenon DEF ScanOk
    <3> QED BY <3>1, <2>6, <2>8, <2>9, Zenon
  <2>11. c.at = "logs" =>
          /\ c.window \in Nat /\ c.end < c.window /\ c.window <= c.goal
          /\ Known(c.boundary)' => c.next = SubSeq(c.boundary, 1, c.window)
    <3>1. c.at = "logs" =>
          /\ c.window \in Nat /\ c.end < c.window /\ c.window <= c.goal
          /\ Known(c.boundary) => c.next = SubSeq(c.boundary, 1, c.window)
      BY <1>3, Zenon DEF ScanOk
    <3> QED BY <3>1, <2>6, <2>8, Zenon
  <2>12. c.at = "old" => (Known(c.saved.hash)' => Joined(c)')
    <3>1. c.at = "old" => (Known(c.saved.hash) => Joined(c)) BY <1>3, Zenon DEF ScanOk
    <3> QED BY <3>1, <2>7, <2>9, Zenon
  <2>13. /\ c = [f \in ScanFields |-> c[f]]
         /\ c.at \in Ahead \cup {"checkpoint", "head"}
         /\ Stored(c.saved) /\ Stored(c.prior)
         /\ c.at \in {"checkpoint", "head", "boundary"} => c.logs = {}
         /\ c.at \in Ahead => Ranges(c)
         /\ c.at = "boundary" => c.end = Len(c.saved.hash)
         /\ c.at \in Ahead \ {"boundary"} => Bounded(c)
         /\ c.at \in Checking \cup {"old", "store"} => c.end > Len(c.saved.hash)
         /\ c.at \in {"old", "store"} => WasRead(c)
         /\ c.at = "store" => Joined(c)
    BY <1>3, Zenon DEF ScanOk
  <2> QED BY <2>1, <2>2, <2>3, <2>9, <2>10, <2>11, <2>12, <2>13, Zenon DEF ScanOk
<1> QED BY <1>2, <1>3

\* So does the store.
LEMMA StoredSteady ==
  ASSUME NEW i, Stored(i), ChainStep PROVE Stored(i)'
  BY Zenon DEF Stored, LogsOf, ChainStep

\* A record whose chain is the canonical one now.
LEMMA ChainsSteady ==
  ASSUME IndexInv, ChainStep PROVE IndexInv'
<1>1. ledger \in Seq(AnyBlock) /\ Stored(index) /\ scan = [s \in Scanner |-> scan[s]]
      /\ \A s \in Scanner : ScanOk(scan[s])
  BY DEF IndexInv
<1>2. index' = index /\ scan' = scan BY DEF ChainStep
<1>3. Stored(index)'
  <2> DEFINE i == index
  <2>1. \A j : Stored(j) => Stored(j)' BY StoredSteady
  <2>2. PICK j : j = index OBVIOUS
  <2>3. Stored(j)' BY <2>1, <2>2, <1>1
  <2> QED BY <2>2, <2>3, <1>2 DEF Stored
<1>4. ASSUME NEW s \in Scanner PROVE ScanOk(scan[s])'
  <2>1. \A c : ScanOk(c) => ScanOk(c)' BY ScanSteadyOne, <1>1
  <2>2. PICK c : c = scan[s] OBVIOUS
  <2>3. ScanOk(c)' BY <2>1, <2>2, <1>1
  <2> QED BY <2>2, <2>3, <1>2 DEF ScanOk
<1> QED BY <1>1, <1>2, <1>3, <1>4, Zenon DEF IndexInv, ChainStep

\* A step of one scan.
LEMMA ScanMoves ==
  ASSUME IndexInv, NEW s \in Scanner, NEW d, ScanOk(d), Unread, scan' = [scan EXCEPT ![s] = d]
  PROVE IndexInv'
<1>1. /\ fork \in Nat /\ ledger \in Seq(AnyBlock) /\ Forks(ledger, fork)
      /\ Stored(index)
      /\ scan = [t \in Scanner |-> scan[t]]
      /\ \A t \in Scanner : ScanOk(scan[t])
  BY DEF IndexInv
<1>2. ledger' = ledger /\ fork' = fork /\ index' = index BY DEF Unread
<1>3. scan' = [t \in Scanner |-> scan'[t]] /\ \A t \in Scanner : scan'[t] = IF t = s THEN d ELSE scan[t]
  BY <1>1
<1>4. \A t \in Scanner : ScanOk(scan'[t]) BY <1>1, <1>3, Zenon
<1>5. ASSUME NEW t \in Scanner PROVE ScanOk(scan[t])'
  BY <1>4, <1>2, Zenon DEF ScanOk, Stored, Remembered, Ranges, Bounded, Known, HashAt
<1> QED BY <1>1, <1>2, <1>3, <1>5, Zenon DEF IndexInv, Stored, Remembered

\* GET of the stored index.
LEMMA LoadSteps ==
  ASSUME IndexInv, NEW s \in Scanner, LoadIndex(s) PROVE IndexInv'
<1> DEFINE d == [at |-> "checkpoint", prior |-> index, saved |-> index,
               target |-> 0, goal |-> 0, boundary |-> <<>>, end |-> 0, before |-> <<>>,
               logs |-> {}, window |-> 0, next |-> <<>>]
<1>1. scan' = [scan EXCEPT ![s] = d] /\ Unread BY DEF LoadIndex
<1>2. Stored(index) BY DEF IndexInv
<1>3. d = [f \in ScanFields |-> d[f]] BY DEF ScanFields
<1>4. d.at = "checkpoint" /\ d.prior = index /\ d.saved = index /\ d.logs = {} OBVIOUS
<1> HIDE DEF d
<1>5. ScanOk(d) BY <1>2, <1>3, <1>4 DEF ScanOk, Ahead, Checking
<1> QED BY <1>1, <1>5, ScanMoves

\* A running scan as a record, and what it knows.
LEMMA ScanRecord ==
  ASSUME IndexInv, NEW s \in Scanner, scan[s] # NoScan
  PROVE LET c == scan[s] IN
     /\ c = [f \in ScanFields |-> c[f]]
     /\ c.at \in Ahead \cup {"checkpoint", "head"}
     /\ Stored(c.saved) /\ Stored(c.prior)
     /\ c.at \in {"checkpoint", "head", "boundary"} => c.logs = {}
     /\ c.at \in Ahead => Ranges(c)
     /\ c.at = "boundary" => c.end = Len(c.saved.hash)
     /\ c.at \in Ahead \ {"boundary"} => Bounded(c)
     /\ c.at \in {"batch", "logs"} \cup Checking => (Known(c.boundary) => WasRead(c))
     /\ c.at = "logs" =>
          /\ c.window \in Nat /\ c.end < c.window /\ c.window <= c.goal
          /\ Known(c.boundary) => c.next = SubSeq(c.boundary, 1, c.window)
     /\ c.at \in Checking \cup {"old", "store"} => c.end > Len(c.saved.hash)
     /\ c.at \in {"old", "store"} => WasRead(c)
     /\ c.at = "old" => (Known(c.saved.hash) => Joined(c))
     /\ c.at = "store" => Joined(c)
BY Zenon DEF IndexInv, ScanOk

\* The anchor is a record that holds nothing.
LEMMA AnchorStored ==
  ASSUME ledger \in Seq(AnyBlock) PROVE Stored(Anchor)
<1>1. Anchor.hash = <<>> /\ Anchor.logs = {} /\ Anchor.target = 0 BY DEF Anchor
<1>2. <<>> \in Seq(AnyBlock) /\ Len(<<>>) = 0 BY EmptySeq
<1>3. 1..0 = {} OBVIOUS
<1>4. LogsOf(<<>>, 1, 0) = {} BY <1>3 DEF LogsOf
<1>5. Len(ledger) \in Nat BY LenProperties
<1> QED BY <1>1, <1>2, <1>4, <1>5 DEF Stored, Remembered, Forks

\* The checkpoint is kept, or the scan starts at the anchor.
LEMMA CheckpointSteps ==
  ASSUME IndexInv, NEW s \in Scanner, ReadCheckpoint(s) PROVE IndexInv'
<1> DEFINE c == scan[s]
           d == [c EXCEPT !.saved = Continued(c.saved), !.at = "head"]
<1>0. scan = [t \in Scanner |-> scan[t]] BY DEF IndexInv
<1>1. c.at = "checkpoint" /\ Unread BY DEF ReadCheckpoint
<1>2. scan' = [scan EXCEPT ![s] = d] BY <1>0 DEF ReadCheckpoint
<1>3. c # NoScan BY <1>1 DEF NoScan
<1>4. /\ c = [f \in ScanFields |-> c[f]] /\ Stored(c.saved) /\ Stored(c.prior) /\ c.logs = {}
  BY <1>1, <1>3, ScanRecord
<1> HIDE DEF c
<1>5. Stored(Continued(c.saved)) BY <1>4, AnchorStored DEF IndexInv, Continued
<1>6. d = [f \in ScanFields |-> d[f]] /\ d.at = "head" /\ d.prior = c.prior /\ d.logs = c.logs
      /\ d.saved = Continued(c.saved)
  BY <1>4 DEF ScanFields
<1> HIDE DEF d
<1>7. ScanOk(d) BY <1>4, <1>5, <1>6 DEF ScanOk, Ahead, Checking
<1> QED BY <1>1, <1>2, <1>7, ScanMoves

\* A scan that ends leaves nothing behind.
LEMMA LostSteps ==
  ASSUME IndexInv, NEW s \in Scanner, Unread, scan' = [scan EXCEPT ![s] = NoScan] PROVE IndexInv'
  BY ScanMoves DEF ScanOk

\* The goal is above the checkpoint and below the head.
LEMMA HeadSteps ==
  ASSUME IndexInv, NEW s \in Scanner, ReadHead(s) PROVE IndexInv'
<1> DEFINE c == scan[s]
           tip == Len(ledger) - Confirmations
           target == IF c.saved.target > Through(c.saved) THEN Least(c.saved.target, tip) ELSE tip
           goal == Least(target, Through(c.saved) + ScanSize)
           d == [c EXCEPT !.at = "boundary", !.target = target, !.goal = goal,
                          !.end = Through(c.saved)]
<1>1. c.at = "head" /\ Unread BY DEF ReadHead
<1>2. scan' = [scan EXCEPT ![s] = IF goal <= Through(c.saved) THEN NoScan ELSE d] BY Zenon DEF ReadHead
<1>3. c # NoScan BY <1>1 DEF NoScan
<1>4. /\ c = [f \in ScanFields |-> c[f]] /\ Stored(c.saved) /\ Stored(c.prior) /\ c.logs = {}
  BY <1>1, <1>3, ScanRecord
<1>5. CASE goal <= Through(c.saved) BY <1>1, <1>2, <1>5, LostSteps
<1>6. CASE ~(goal <= Through(c.saved))
  <2> HIDE DEF c
  <2>1. d = [f \in ScanFields |-> d[f]] /\ d.at = "boundary" /\ d.prior = c.prior /\ d.logs = c.logs
        /\ d.saved = c.saved /\ d.target = target /\ d.goal = goal /\ d.end = Through(c.saved)
    BY <1>4 DEF ScanFields
  <2>2. Len(c.saved.hash) \in Nat /\ c.saved.target \in Int BY <1>4, LenProperties DEF Stored, Remembered
  <2>3. Len(ledger) \in Nat BY LenProperties DEF IndexInv
  <2>4. tip \in Int /\ tip <= Len(ledger) BY <2>3, IndexAssumption
  <2>5. target \in Int /\ target <= tip BY <2>2, <2>4 DEF Least, Through
  <2> HIDE DEF target, tip, d
  <2>6. goal \in Int /\ goal <= target BY <2>2, <2>5, IndexAssumption DEF Least, Through
  <2>7. goal \in Nat /\ Len(c.saved.hash) < goal /\ goal <= Len(ledger)
    BY <1>6, <2>2, <2>3, <2>4, <2>5, <2>6 DEF Through
  <2> HIDE DEF goal
  <2>8. Ranges(d) BY <2>1, <2>2, <2>5, <2>7 DEF Ranges, Through
  <2>9. ScanOk(d) BY <1>4, <2>1, <2>8 DEF ScanOk, Ahead, Checking, Through
  <2>10. scan' = [scan EXCEPT ![s] = d] BY <1>2, <1>6
  <2> QED BY <1>1, <2>10, <2>9, ScanMoves
<1> QED BY <1>5, <1>6

\* The smaller of two heights.
LEMMA LeastIs ==
  ASSUME NEW a \in Nat, NEW b \in Nat, a <= b PROVE Least(a, b) = a
  BY DEF Least

\* What the node answers is the canonical chain.
LEMMA HeldNow ==
  ASSUME IndexInv, NEW n \in 0..Len(ledger)
  PROVE Remembered(HashAt(n)) /\ Len(HashAt(n)) = n /\ Known(HashAt(n))
<1>1. fork \in Nat /\ ledger \in Seq(AnyBlock) /\ Forks(ledger, fork) BY DEF IndexInv
<1>2. Len(ledger) \in Nat BY <1>1
<1>3. Remembered(ledger) BY <1>1, <1>2 DEF Remembered
<1>4. Remembered(SubSeq(ledger, 1, n)) /\ Len(SubSeq(ledger, 1, n)) = n
  BY <1>1, <1>3, RememberedPrefix
<1> QED BY <1>2, <1>4 DEF HashAt, Known

\* Before the first window there is nothing to be wrong about.
LEMMA NothingRead ==
  ASSUME NEW c, c.logs = {}, c.end = Len(c.saved.hash), c.end \in Nat PROVE WasRead(c)
<1>1. (c.end + 1)..c.end = {} BY SMT
<1>2. LogsOf(c.boundary, Len(c.saved.hash) + 1, c.end) = {} BY <1>1, Zenon DEF LogsOf
<1> QED BY <1>2 DEF WasRead

\* The boundary is read.
LEMMA BoundarySteps ==
  ASSUME IndexInv, NEW s \in Scanner, ReadBoundary(s) PROVE IndexInv'
<1> DEFINE c == scan[s]
           d == [c EXCEPT !.boundary = HashAt(Least(c.goal, Len(ledger))), !.at = "batch"]
<1>0. scan = [t \in Scanner |-> scan[t]] BY DEF IndexInv
<1>1. c.at = "boundary" /\ Unread BY DEF ReadBoundary
<1>2. scan' = [scan EXCEPT ![s] = d] BY <1>0 DEF ReadBoundary
<1>3. c # NoScan BY <1>1 DEF NoScan
<1>4. /\ c = [f \in ScanFields |-> c[f]] /\ Stored(c.saved) /\ Stored(c.prior) /\ c.logs = {}
      /\ Ranges(c) /\ c.end = Len(c.saved.hash)
  BY <1>1, <1>3, ScanRecord DEF Ahead
<1> HIDE DEF c
<1>5. Len(ledger) \in Nat BY LenProperties DEF IndexInv
<1>6. c.goal \in 0..Len(ledger) /\ Least(c.goal, Len(ledger)) = c.goal
  BY <1>4, <1>5, LeastIs DEF Ranges
<1>7. d = [f \in ScanFields |-> d[f]] /\ d.at = "batch" /\ d.prior = c.prior /\ d.logs = c.logs
      /\ d.saved = c.saved /\ d.goal = c.goal /\ d.target = c.target /\ d.end = c.end
      /\ d.boundary = HashAt(c.goal)
  BY <1>4, <1>6 DEF ScanFields
<1> HIDE DEF d
<1>8. Bounded(d) BY <1>6, <1>7, HeldNow DEF Bounded
<1>9. WasRead(d) BY <1>4, <1>7, NothingRead DEF Ranges
<1>10. Ranges(d) BY <1>4, <1>7 DEF Ranges
<1>11. ScanOk(d) BY <1>4, <1>7, <1>8, <1>9, <1>10 DEF ScanOk, Ahead, Checking
<1> QED BY <1>1, <1>2, <1>11, ScanMoves

\* A window is chosen and its last block read.
LEMMA BeforeSteps ==
  ASSUME IndexInv, NEW s \in Scanner, ReadBefore(s) PROVE IndexInv'
<1> DEFINE c == scan[s]
<1>0. scan = [t \in Scanner |-> scan[t]] BY DEF IndexInv
<1>1. c.at = "batch" /\ c.end < c.goal /\ Unread BY DEF ReadBefore
<1>2. PICK to \in c.end + 1..Least(c.goal, c.end + WindowSize) :
        scan' = [scan EXCEPT ![s].at = "logs", ![s].window = to,
                             ![s].next = HashAt(Least(to, Len(ledger)))]
  BY DEF ReadBefore
<1> DEFINE d == [c EXCEPT !.at = "logs", !.window = to, !.next = HashAt(Least(to, Len(ledger)))]
<1>2a. scan' = [scan EXCEPT ![s] = d] BY <1>0, <1>2
<1>3. c # NoScan BY <1>1 DEF NoScan
<1>4. /\ c = [f \in ScanFields |-> c[f]] /\ Stored(c.saved) /\ Stored(c.prior)
      /\ Ranges(c) /\ Bounded(c) /\ (Known(c.boundary) => WasRead(c))
  BY <1>1, <1>3, ScanRecord DEF Ahead
<1> HIDE DEF c
<1>5. Len(ledger) \in Nat BY LenProperties DEF IndexInv
<1>6. /\ to \in Nat /\ c.end < to /\ to <= c.goal /\ to <= Len(ledger)
  BY <1>2, <1>4, <1>5, IndexAssumption DEF Ranges, Least
<1>6a. Least(to, Len(ledger)) = to BY <1>5, <1>6, LeastIs
<1>7. d = [f \in ScanFields |-> d[f]] /\ d.at = "logs" /\ d.prior = c.prior /\ d.logs = c.logs
      /\ d.saved = c.saved /\ d.goal = c.goal /\ d.target = c.target /\ d.end = c.end
      /\ d.boundary = c.boundary /\ d.before = c.before /\ d.window = to /\ d.next = HashAt(to)
  BY <1>4, <1>6a DEF ScanFields
<1> HIDE DEF d
<1>8. Bounded(d) /\ Ranges(d) /\ (Known(d.boundary) => WasRead(d))
  BY <1>4, <1>7 DEF Bounded, Ranges, WasRead
<1>9. ASSUME Known(c.boundary) PROVE HashAt(to) = SubSeq(c.boundary, 1, to)
  <2>1. c.boundary = SubSeq(ledger, 1, c.goal) BY <1>9, <1>4 DEF Known, HashAt, Bounded
  <2>2. ledger \in Seq(AnyBlock) /\ c.goal \in 0..Len(ledger) /\ to \in 0..c.goal
    BY <1>4, <1>5, <1>6 DEF IndexInv, Ranges
  <2> QED BY <2>1, <2>2, PrefixOfPrefix DEF HashAt
<1>11. ScanOk(d) BY <1>4, <1>6, <1>7, <1>8, <1>9 DEF ScanOk, Ahead, Checking
<1> QED BY <1>1, <1>2a, <1>11, ScanMoves

\* The logs of a window: if the boundary is still canonical, they are of its chain.
LEMMA LogsSteps ==
  ASSUME IndexInv, NEW s \in Scanner, ReadLogs(s) PROVE IndexInv'
<1> DEFINE c == scan[s]
           d == [c EXCEPT !.logs = c.logs \cup LogsIn(c.end + 1, c.window), !.end = c.window,
                          !.before = c.next, !.at = "batch"]
<1>0. scan = [t \in Scanner |-> scan[t]] BY DEF IndexInv
<1>1. c.at = "logs" /\ Unread BY DEF ReadLogs
<1>2. scan' = [scan EXCEPT ![s] = d] BY <1>0 DEF ReadLogs
<1>3. c # NoScan BY <1>1 DEF NoScan
<1>4. /\ c = [f \in ScanFields |-> c[f]] /\ Stored(c.saved) /\ Stored(c.prior)
      /\ Ranges(c) /\ Bounded(c) /\ (Known(c.boundary) => WasRead(c))
      /\ c.window \in Nat /\ c.end < c.window /\ c.window <= c.goal
      /\ Known(c.boundary) => c.next = SubSeq(c.boundary, 1, c.window)
  BY <1>1, <1>3, ScanRecord DEF Ahead
<1> HIDE DEF c
<1>5. Len(ledger) \in Nat /\ ledger \in Seq(AnyBlock) BY LenProperties DEF IndexInv
<1>6. c.window <= Len(ledger) /\ Least(c.window, Len(ledger)) = c.window
  BY <1>4, <1>5, LeastIs DEF Ranges
<1>7. d = [f \in ScanFields |-> d[f]] /\ d.at = "batch" /\ d.prior = c.prior
      /\ d.logs = c.logs \cup LogsIn(c.end + 1, c.window)
      /\ d.saved = c.saved /\ d.goal = c.goal /\ d.target = c.target /\ d.end = c.window
      /\ d.boundary = c.boundary /\ d.before = c.next
  BY <1>4 DEF ScanFields
<1> HIDE DEF d
<1>8. Bounded(d) /\ Ranges(d) BY <1>4, <1>7 DEF Bounded, Ranges
<1>9. ASSUME Known(c.boundary) PROVE WasRead(d)
  <2>1. c.boundary = SubSeq(ledger, 1, c.goal) BY <1>9, <1>4 DEF Known, HashAt, Bounded
  <2>2. c.goal \in 0..Len(ledger) /\ c.window \in 0..c.goal /\ Len(c.saved.hash) \in Nat
        /\ c.end \in Nat
    BY <1>4, <1>5, LenProperties DEF Ranges, Stored, Remembered
  <2>3. SubSeq(c.boundary, 1, c.window) = SubSeq(ledger, 1, c.window)
    BY <1>5, <2>1, <2>2, PrefixOfPrefix
  <2>4. c.boundary \in Seq(AnyBlock) /\ Len(c.boundary) = c.goal BY <1>4 DEF Bounded, Remembered
  <2>5. LogsOf(ledger, c.end + 1, c.window) = LogsOf(c.boundary, c.end + 1, c.window)
    <3>1. c.end + 1 \in Nat \ {0} /\ c.window \in Nat /\ c.window <= Len(ledger)
          /\ c.window <= Len(c.boundary)
      BY <1>4, <1>6, <2>2, <2>4
    <3> QED BY <3>1, <1>5, <2>3, <2>4, LogsSame, Zenon
  <2>6. LogsIn(c.end + 1, c.window) = LogsOf(ledger, c.end + 1, c.window)
    BY <1>6 DEF LogsIn, LogsOf, HashAt
  <2>7. c.logs = LogsOf(c.boundary, Len(c.saved.hash) + 1, c.end) BY <1>4, <1>9 DEF WasRead
  <2>8. Len(c.saved.hash) <= c.end BY <1>4 DEF Ranges
  <2>9. LogsOf(c.boundary, Len(c.saved.hash) + 1, c.end) \cup LogsOf(c.boundary, c.end + 1, c.window)
          = LogsOf(c.boundary, Len(c.saved.hash) + 1, c.window)
    <3>1. (Len(c.saved.hash) + 1)..c.end \cup (c.end + 1)..c.window
            = (Len(c.saved.hash) + 1)..c.window
      BY <2>2, <2>8, <1>4
    <3> QED BY <3>1, Zenon DEF LogsOf
  <2>10. d.logs = LogsOf(c.boundary, Len(c.saved.hash) + 1, c.window)
    BY <1>7, <2>5, <2>6, <2>7, <2>9
  <2> QED BY <1>4, <1>7, <1>9, <2>10 DEF WasRead
<1>11. ScanOk(d) BY <1>4, <1>7, <1>8, <1>9 DEF ScanOk, Ahead, Checking
<1> QED BY <1>1, <1>2, <1>11, ScanMoves

\* A scan that only goes on to the next point.
LEMMA SameScan ==
  ASSUME NEW c, NEW d, NEW at, c = [f \in ScanFields |-> c[f]], d = [c EXCEPT !.at = at]
  PROVE /\ d = [f \in ScanFields |-> d[f]] /\ d.at = at /\ d.prior = c.prior /\ d.logs = c.logs
        /\ d.saved = c.saved /\ d.goal = c.goal /\ d.target = c.target /\ d.end = c.end
        /\ d.boundary = c.boundary /\ d.before = c.before
        /\ (Ranges(d) <=> Ranges(c)) /\ (Bounded(d) <=> Bounded(c))
        /\ (WasRead(d) <=> WasRead(c)) /\ (Joined(d) <=> Joined(c))
<1>1. /\ d = [f \in ScanFields |-> d[f]] /\ d.at = at /\ d.prior = c.prior /\ d.logs = c.logs
      /\ d.saved = c.saved /\ d.goal = c.goal /\ d.target = c.target /\ d.end = c.end
      /\ d.boundary = c.boundary /\ d.before = c.before
  BY DEF ScanFields
<1> QED BY <1>1, Zenon DEF Ranges, Bounded, WasRead, Joined

\* Reading stops after a window.
LEMMA StopSteps ==
  ASSUME IndexInv, NEW s \in Scanner, StopReading(s) PROVE IndexInv'
<1> DEFINE c == scan[s]  d == [c EXCEPT !.at = "canonical"]
<1>0. scan = [t \in Scanner |-> scan[t]] BY DEF IndexInv
<1>1. c.at = "batch" /\ Unread /\ c.end > Len(c.saved.hash) BY DEF StopReading, Through
<1>2. scan' = [scan EXCEPT ![s] = d] BY <1>0 DEF StopReading, Moves
<1>3. c # NoScan BY <1>1 DEF NoScan
<1>4. /\ c = [f \in ScanFields |-> c[f]] /\ Stored(c.saved) /\ Stored(c.prior)
      /\ Ranges(c) /\ Bounded(c) /\ (Known(c.boundary) => WasRead(c))
  BY <1>1, <1>3, ScanRecord DEF Ahead
<1> HIDE DEF c
<1>7. /\ d = [f \in ScanFields |-> d[f]] /\ d.at = "canonical" /\ d.prior = c.prior /\ d.logs = c.logs
      /\ d.saved = c.saved /\ d.goal = c.goal /\ d.target = c.target /\ d.end = c.end
      /\ d.boundary = c.boundary /\ d.before = c.before
      /\ (Ranges(d) <=> Ranges(c)) /\ (Bounded(d) <=> Bounded(c))
      /\ (WasRead(d) <=> WasRead(c)) /\ (Joined(d) <=> Joined(c))
  BY <1>4, SameScan
<1> HIDE DEF d
<1>11. ScanOk(d) BY <1>1, <1>4, <1>7 DEF ScanOk, Ahead, Checking
<1> QED BY <1>1, <1>2, <1>11, ScanMoves

\* The checks that give up or go on.
LEMMA LogCheckSteps ==
  ASSUME IndexInv, NEW s \in Scanner, CheckLogs(s) \/ CheckEnd(s) PROVE IndexInv'
<1> DEFINE c == scan[s]
<1>0. scan = [t \in Scanner |-> scan[t]] BY DEF IndexInv
<1>1. c.at \in {"canonical", "end"} /\ Unread BY DEF CheckLogs, CheckEnd
<1>2. PICK next \in {"end", "limit"} :
        scan' = [scan EXCEPT ![s] = [c EXCEPT !.at = next]] \/ scan' = [scan EXCEPT ![s] = NoScan]
  BY <1>0 DEF CheckLogs, CheckEnd, Passes
<1>3. c # NoScan BY <1>1 DEF NoScan
<1>4. /\ c = [f \in ScanFields |-> c[f]] /\ Stored(c.saved) /\ Stored(c.prior)
      /\ Ranges(c) /\ Bounded(c) /\ (Known(c.boundary) => WasRead(c)) /\ c.end > Len(c.saved.hash)
  BY <1>1, <1>3, ScanRecord DEF Ahead, Checking
<1> HIDE DEF c
<1> DEFINE d == [c EXCEPT !.at = next]
<1>7. /\ d = [f \in ScanFields |-> d[f]] /\ d.at = next /\ d.prior = c.prior /\ d.logs = c.logs
      /\ d.saved = c.saved /\ d.goal = c.goal /\ d.target = c.target /\ d.end = c.end
      /\ d.boundary = c.boundary /\ d.before = c.before
      /\ (Ranges(d) <=> Ranges(c)) /\ (Bounded(d) <=> Bounded(c))
      /\ (WasRead(d) <=> WasRead(c)) /\ (Joined(d) <=> Joined(c))
  BY <1>4, SameScan
<1> HIDE DEF d
<1>11. ScanOk(d) BY <1>1, <1>2, <1>4, <1>7 DEF ScanOk, Ahead, Checking
<1>12. CASE scan' = [scan EXCEPT ![s] = d] BY <1>1, <1>12, <1>11, ScanMoves
<1>13. CASE scan' = [scan EXCEPT ![s] = NoScan] BY <1>1, <1>13, LostSteps
<1> QED BY <1>2, <1>12, <1>13 DEF d

\* The boundary is still there: what was read is of its chain, and if the
\* checkpoint is on the chain too, the boundary continues it.
LEMMA BoundaryCheckSteps ==
  ASSUME IndexInv, NEW s \in Scanner, CheckBoundary(s) PROVE IndexInv'
<1> DEFINE c == scan[s]  d == [c EXCEPT !.at = "old"]
<1>0. scan = [t \in Scanner |-> scan[t]] BY DEF IndexInv
<1>1. c.at = "limit" /\ Unread BY DEF CheckBoundary
<1>2. scan' = [scan EXCEPT ![s] = IF BoundaryUnmoved(c) THEN d ELSE NoScan]
  BY <1>0 DEF CheckBoundary, Passes
<1>3. c # NoScan BY <1>1 DEF NoScan
<1>4. /\ c = [f \in ScanFields |-> c[f]] /\ Stored(c.saved) /\ Stored(c.prior)
      /\ Ranges(c) /\ Bounded(c) /\ (Known(c.boundary) => WasRead(c)) /\ c.end > Len(c.saved.hash)
  BY <1>1, <1>3, ScanRecord DEF Ahead, Checking
<1>5. CASE ~BoundaryUnmoved(c)
  <2>1. scan' = [scan EXCEPT ![s] = NoScan] BY <1>2, <1>5
  <2> QED BY <2>1, <1>1, LostSteps
<1>6. CASE BoundaryUnmoved(c)
  <2> HIDE DEF c
  <2>0. Len(ledger) \in Nat /\ ledger \in Seq(AnyBlock) BY LenProperties DEF IndexInv
  <2>1. c.goal \in 0..Len(ledger) /\ Least(c.goal, Len(ledger)) = c.goal
    BY <1>4, <2>0, LeastIs DEF Ranges
  <2>2. SubSeq(ledger, 1, c.goal) = c.boundary BY <1>6, <2>1 DEF BoundaryUnmoved, HashAt
  <2>3. Known(c.boundary)
    <3>1. Len(c.boundary) = c.goal /\ c.goal <= Len(ledger) BY <1>4, <2>1 DEF Bounded, Ranges
    <3> QED BY <3>1, <2>2 DEF Known, HashAt
  <2>4. ASSUME Known(c.saved.hash) PROVE Joined(c)
    <3>1. Len(c.saved.hash) \in 0..c.goal
      BY <1>4, LenProperties DEF Ranges, Stored, Remembered
    <3>2. SubSeq(ledger, 1, Len(c.saved.hash)) = c.saved.hash BY <2>4 DEF Known, HashAt
    <3>3. SubSeq(SubSeq(ledger, 1, c.goal), 1, Len(c.saved.hash)) = SubSeq(ledger, 1, Len(c.saved.hash))
      BY <2>0, <2>1, <3>1, PrefixOfPrefix
    <3> QED BY <2>2, <3>2, <3>3 DEF Joined
  <2>7. /\ d = [f \in ScanFields |-> d[f]] /\ d.at = "old" /\ d.prior = c.prior /\ d.logs = c.logs
        /\ d.saved = c.saved /\ d.goal = c.goal /\ d.target = c.target /\ d.end = c.end
        /\ d.boundary = c.boundary /\ d.before = c.before
        /\ (Ranges(d) <=> Ranges(c)) /\ (Bounded(d) <=> Bounded(c))
        /\ (WasRead(d) <=> WasRead(c)) /\ (Joined(d) <=> Joined(c))
    BY <1>4, SameScan
  <2> HIDE DEF d
  <2>11. ScanOk(d) BY <2>3, <2>4, <1>4, <2>7 DEF ScanOk, Ahead, Checking
  <2>12. scan' = [scan EXCEPT ![s] = d] BY <1>2, <1>6
  <2> QED BY <1>1, <2>12, <2>11, ScanMoves
<1> QED BY <1>5, <1>6

\* The checkpoint is still there: it is on the chain of the boundary.
LEMMA CheckpointCheckSteps ==
  ASSUME IndexInv, NEW s \in Scanner, CheckCheckpoint(s) PROVE IndexInv'
<1> DEFINE c == scan[s]  d == [c EXCEPT !.at = "store"]
<1>0. scan = [t \in Scanner |-> scan[t]] BY DEF IndexInv
<1>1. c.at = "old" /\ Unread BY DEF CheckCheckpoint
<1>2. scan' = [scan EXCEPT ![s] = IF Known(c.saved.hash) THEN d ELSE NoScan]
  BY <1>0 DEF CheckCheckpoint, Passes
<1>3. c # NoScan BY <1>1 DEF NoScan
<1>4. /\ c = [f \in ScanFields |-> c[f]] /\ Stored(c.saved) /\ Stored(c.prior)
      /\ Ranges(c) /\ Bounded(c) /\ WasRead(c) /\ c.end > Len(c.saved.hash)
      /\ Known(c.saved.hash) => Joined(c)
  BY <1>1, <1>3, ScanRecord DEF Ahead, Checking
<1>5. CASE ~Known(c.saved.hash)
  <2>1. scan' = [scan EXCEPT ![s] = NoScan] BY <1>2, <1>5
  <2> QED BY <2>1, <1>1, LostSteps
<1>6. CASE Known(c.saved.hash)
  <2> HIDE DEF c
  <2>7. /\ d = [f \in ScanFields |-> d[f]] /\ d.at = "store" /\ d.prior = c.prior /\ d.logs = c.logs
        /\ d.saved = c.saved /\ d.goal = c.goal /\ d.target = c.target /\ d.end = c.end
        /\ d.boundary = c.boundary /\ d.before = c.before
        /\ (Ranges(d) <=> Ranges(c)) /\ (Bounded(d) <=> Bounded(c))
        /\ (WasRead(d) <=> WasRead(c)) /\ (Joined(d) <=> Joined(c))
    BY <1>4, SameScan
  <2> HIDE DEF d
  <2>11. ScanOk(d) BY <1>6, <1>4, <2>7 DEF ScanOk, Ahead, Checking
  <2>12. scan' = [scan EXCEPT ![s] = d] BY <1>2, <1>6
  <2> QED BY <1>1, <2>12, <2>11, ScanMoves
<1> QED BY <1>5, <1>6

\* The compare-and-swap stores the logs of one chain.
LEMMA StoreSteps ==
  ASSUME IndexInv, NEW s \in Scanner, StoreIndex(s) PROVE IndexInv'
<1> DEFINE c == scan[s]
           i == [hash |-> c.before, logs |-> c.saved.logs \cup c.logs, target |-> c.target]
<1>0. scan = [t \in Scanner |-> scan[t]] BY DEF IndexInv
<1>1. c.at = "store" BY DEF StoreIndex
<1>2. /\ index' = i \/ index' = index
      /\ scan' = [scan EXCEPT ![s] = NoScan] /\ ledger' = ledger /\ fork' = fork
  BY DEF StoreIndex
<1>3. c # NoScan BY <1>1 DEF NoScan
<1>4. /\ c = [f \in ScanFields |-> c[f]] /\ Stored(c.saved) /\ Stored(c.prior)
      /\ Ranges(c) /\ Bounded(c) /\ WasRead(c) /\ c.end > Len(c.saved.hash)
      /\ Joined(c)
  BY <1>1, <1>3, ScanRecord DEF Ahead, Checking
<1>5. i.hash = c.before /\ i.logs = c.saved.logs \cup c.logs /\ i.target = c.target OBVIOUS
<1> HIDE DEF c, i
<1> DEFINE p == Len(c.saved.hash)
<1>6. /\ p \in Nat /\ c.end \in Nat /\ p <= c.end /\ c.end <= c.goal /\ c.goal \in Nat
      /\ c.saved.hash \in Seq(AnyBlock) /\ p = Len(c.saved.hash)
  BY <1>4, LenProperties DEF Ranges, Stored, Remembered
<1> HIDE DEF p
<1>7. c.boundary \in Seq(AnyBlock) /\ Len(c.boundary) = c.goal BY <1>4 DEF Bounded, Remembered
<1>8. c.before = SubSeq(c.boundary, 1, c.end) BY <1>4 DEF WasRead
<1>9. c.saved.hash = SubSeq(c.boundary, 1, p) BY <1>4 DEF Joined, p
<1>10. ledger \in Seq(AnyBlock) /\ fork \in Nat BY DEF IndexInv
<1>11. Remembered(c.before) /\ Len(c.before) = c.end
  <2>1. Remembered(c.boundary) BY <1>4 DEF Bounded
  <2>2. c.end \in 0..Len(c.boundary) BY <1>6, <1>7
  <2>3. Remembered(SubSeq(c.boundary, 1, c.end)) /\ Len(SubSeq(c.boundary, 1, c.end)) = c.end
    BY <1>10, <2>1, <2>2, RememberedPrefix
  <2> QED BY <2>3, <1>8
<1>12. c.before \in Seq(AnyBlock) BY <1>11 DEF Remembered
<1>13. SubSeq(c.before, 1, p) = SubSeq(c.boundary, 1, p) BY <1>6, <1>7, <1>8, PrefixOfPrefix
<1>14. SubSeq(c.before, 1, c.end) = SubSeq(c.boundary, 1, c.end)
  BY <1>6, <1>7, <1>8, PrefixOfPrefix
<1>15. SubSeq(c.saved.hash, 1, p) = SubSeq(c.boundary, 1, p)
  <2>1. SubSeq(SubSeq(c.boundary, 1, p), 1, p) = SubSeq(c.boundary, 1, p)
    BY <1>6, <1>7, PrefixOfPrefix
  <2> QED BY <2>1, <1>9
<1>16. LogsOf(c.saved.hash, 1, p) = LogsOf(c.before, 1, p)
  <2>1. p <= Len(c.before) /\ p <= Len(c.saved.hash) /\ 1 \in Nat \ {0} BY <1>6, <1>11
  <2>2. SubSeq(c.saved.hash, 1, p) = SubSeq(c.before, 1, p) BY <1>13, <1>15
  <2> QED BY <2>1, <2>2, <1>6, <1>12, LogsSame, Zenon
<1>17. LogsOf(c.boundary, p + 1, c.end) = LogsOf(c.before, p + 1, c.end)
  <2>1. p + 1 \in Nat \ {0} /\ c.end <= Len(c.boundary) /\ c.end <= Len(c.before) BY <1>6, <1>7, <1>11
  <2> QED BY <2>1, <1>6, <1>7, <1>12, <1>14, LogsSame, Zenon
<1>18. LogsOf(c.before, 1, p) \cup LogsOf(c.before, p + 1, c.end) = LogsOf(c.before, 1, c.end)
  <2>1. 1..p \cup (p + 1)..c.end = 1..c.end BY <1>6
  <2> QED BY <2>1, Zenon DEF LogsOf
<1>19. i.logs = LogsOf(c.before, 1, c.end)
  <2>1. c.saved.logs = LogsOf(c.saved.hash, 1, p) BY <1>4, <1>6 DEF Stored
  <2>2. c.logs = LogsOf(c.boundary, p + 1, c.end) BY <1>4, <1>6 DEF WasRead
  <2> QED BY <2>1, <2>2, <1>5, <1>16, <1>17, <1>18, Zenon
<1>20. c.target \in Int BY <1>4 DEF Ranges
<1>21. Stored(i) BY <1>5, <1>11, <1>19, <1>20 DEF Stored
<1>22. Stored(index) BY DEF IndexInv
<1>23. Stored(index)' BY <1>2, <1>21, <1>22 DEF Stored, Remembered
<1>24. scan' = [t \in Scanner |-> scan'[t]] /\ \A t \in Scanner : scan'[t] \in {NoScan, scan[t]}
  BY <1>0, <1>2
<1>25. ASSUME NEW t \in Scanner PROVE ScanOk(scan[t])'
  <2>1. ScanOk(scan[t]) BY DEF IndexInv
  <2>2. ScanOk(scan'[t]) BY <1>24, <2>1, Zenon DEF ScanOk
  <2> QED BY <2>2, <1>2, Zenon DEF ScanOk, Stored, Remembered, Ranges, Bounded, Known, HashAt
<1>26. Forks(ledger, fork) BY DEF IndexInv
<1> QED BY <1>2, <1>10, <1>23, <1>24, <1>25, <1>26, Zenon DEF IndexInv

\* Every scan knows what it read, whatever the chain does between two of its calls
\* (pilot-index.mjs:26-73).
THEOREM IndexInvariant == IndexSpec => []IndexInv
<1>1. IndexInit => IndexInv
  <2> SUFFICES ASSUME IndexInit PROVE IndexInv OBVIOUS
  <2>1. ledger = <<>> /\ fork = 0 /\ index = Anchor /\ scan = [s \in Scanner |-> NoScan]
    BY DEF IndexInit
  <2>2. ledger \in Seq(AnyBlock) /\ Len(ledger) = 0 BY <2>1, EmptySeq
  <2>3. Stored(index) BY <2>1, <2>2, AnchorStored
  <2>4. Forks(ledger, fork) BY <2>2 DEF Forks
  <2>5. scan = [s \in Scanner |-> scan[s]] /\ \A s \in Scanner : ScanOk(scan[s])
    BY <2>1 DEF ScanOk
  <2> QED BY <2>1, <2>2, <2>3, <2>4, <2>5 DEF IndexInv
<1>2. ASSUME IndexInv, [IndexNext]_indexVars PROVE IndexInv'
  <2>1. ASSUME UNCHANGED indexVars PROVE IndexInv'
    <3>1. ledger' = ledger /\ fork' = fork /\ index' = index /\ scan' = scan BY <2>1 DEF indexVars
    <3>2. ASSUME NEW s \in Scanner PROVE ScanOk(scan[s])'
      <4>1. ScanOk(scan[s]) BY <1>2 DEF IndexInv
      <4> QED BY <3>1, <4>1, Zenon DEF ScanOk, Stored, Remembered, Ranges, Bounded, Known, HashAt
    <3> QED BY <1>2, <3>1, <3>2, Zenon DEF IndexInv, Stored, Remembered
  <2>2. ASSUME NEW s \in Scanner, LoseScan(s) PROVE IndexInv'
    BY <1>2, <2>2, LostSteps DEF LoseScan
  <2>3. ASSUME Grow \/ Reorganise PROVE IndexInv'
    BY <1>2, <2>3, GrowSteps, ReorganiseSteps, ChainsSteady
  <2> QED BY <1>2, <2>1, <2>2, <2>3, LoadSteps, CheckpointSteps, HeadSteps, BoundarySteps,
       BeforeSteps, LogsSteps, StopSteps, LogCheckSteps, BoundaryCheckSteps,
       CheckpointCheckSteps, StoreSteps DEF IndexNext
<1> QED BY <1>1, <1>2, PTL DEF IndexSpec

\* What is stored is the truth about one chain: none of its logs is missing and none
\* is of another (pilot-index.mjs:26-73), with any number of servers scanning and any
\* number of reorganisations.
THEOREM IndexHonest == IndexSpec => []IndexFaithful
<1>1. IndexInv => IndexFaithful BY Zenon DEF IndexInv, Stored, LogsOf, IndexFaithful, Through
<1> QED BY <1>1, IndexInvariant, PTL

-----------------------------------------------------------------------------
(* Mails of the settlement monitor.  A run that lost its lease may still     *)
(* send: the invariant says of every run at its send, owner or not, that its *)
(* mail waits in the outbox or was delivered, and that no earlier one is     *)
(* missing.                                                                  *)

\* A mail: its key and the report it tells of.
Mail == [key : Nat, report : Nat]

\* The mails of a queue.
Elems(q) == {q[i] : i \in DOMAIN q}

\* Later in the queue, later key.
InOrder(q) == \A i, k \in DOMAIN q : i < k => q[i].key < q[k].key

\* A queue of mails with keys up to last.
Queue(q, last) == q \in Seq(Mail) /\ InOrder(q) /\ \A m \in Elems(q) : m.key <= last

\* m was delivered.
Arrived(m) == m \in Elems(inbox)

\* The key of m is later than those of ms.
Above(m, ms) == \A n \in ms : n.key < m.key

\* The reports mails tell of.
ReportsIn(ms) == {m.report : m \in ms}

\* The mails saved in the outbox.
Waiting == Elems(outbox.queue)

\* A key names one mail.
OneMailPerKey(ms) == \A m, n \in ms : m.key = n.key => m = n

\* The saved state.
MailRecord(st) == st = [signature |-> st.signature, queue |-> st.queue]

\* The outbox, the inbox and the keys.  A mail that waits was delivered or is later
\* than all that were; the report of the saved signature waits or was delivered.
OutboxOk ==
  /\ onchain \in Nat /\ lastKey \in Nat
  /\ MailRecord(outbox) /\ Queue(outbox.queue, lastKey) /\ Queue(inbox, lastKey)
  /\ OneMailPerKey(Elems(inbox) \cup Waiting)
  /\ \A m \in Waiting : Arrived(m) \/ Above(m, Elems(inbox))
  /\ outbox.signature \in {0} \cup ReportsIn(Elems(inbox) \cup Waiting)
  /\ \A key \in remembered : \E m \in Elems(inbox) : m.key = key
  /\ \A m \in Elems(inbox) : m.key \in remembered \cup aged
  /\ aged \subseteq 1..lastKey

\* A job that is about to send, with its lease or without.
Sending(w) ==
  /\ Queue(w.state.queue, lastKey) /\ w.state.queue # <<>> /\ Head(w.state.queue).key \notin aged
  /\ \A m \in Elems(w.state.queue) : m \in Waiting \/ Arrived(m)
  /\ \A m \in Waiting : \/ m \in Elems(w.state.queue) \/ Arrived(m)
                         \/ Above(m, Elems(w.state.queue))

\* The run j is at its send.
IsSending(j) == work[j].at = "send"

\* m is later than everything known.
Fresh(m) ==
  /\ Above(m, Elems(inbox)) /\ Above(m, Waiting)
  /\ \A j \in Job : IsSending(j) => Above(m, Elems(work[j].state.queue))

\* What the owner of the lease may save.
Saving(st, last) ==
  /\ MailRecord(st) /\ Queue(st.queue, last)
  /\ \A m \in Elems(st.queue) : m \in Waiting \/ Fresh(m)
  /\ \A m \in Waiting : m \in Elems(st.queue) \/ Arrived(m)
  /\ st.signature \in {0} \cup ReportsIn(Elems(inbox) \cup Elems(st.queue))

\* What the owner of the lease holds in memory.
Holds(w, last) ==
  /\ w.at \in {"read", "drain", "send", "accepted"} => w.state = outbox
  /\ w.at = "accepted" => outbox.queue # <<>> /\ Arrived(Head(outbox.queue))
  /\ w.at = "save" => Saving(w.state, last)

\* The run of a job.
WorkShape(w) ==
  \/ w = NoWork
  \/ w = [f \in {"at", "state", "left"} |-> w[f]]
     /\ w.at \in {"read", "drain", "send", "accepted", "save", "end"}

\* The owner of the lease knows the outbox; whoever sends, also after losing the
\* lease, sends a mail that waits or was delivered, before the later ones.
MailInv ==
  /\ OutboxOk
  /\ work = [j \in Job |-> work[j]]
  /\ \A j \in Job : WorkShape(work[j])
  /\ \A j \in Job : IsSending(j) => Sending(work[j])
  /\ \A j \in Job : Owns(j) => Holds(work[j], lastKey)
-----------------------------------------------------------------------------
\* One more mail at the end.
LEMMA ElemsAppend ==
  ASSUME NEW S, NEW q \in Seq(S), NEW m \in S
  PROVE /\ Elems(Append(q, m)) = Elems(q) \cup {m}
        /\ Append(q, m) \in Seq(S) /\ Len(Append(q, m)) = Len(q) + 1 /\ Len(q) \in Nat
        /\ DOMAIN q = 1..Len(q) /\ DOMAIN Append(q, m) = 1..Len(q) + 1
        /\ \A i \in 1..Len(q) : Append(q, m)[i] = q[i]
        /\ Append(q, m)[Len(q) + 1] = m
<1>1. /\ Append(q, m) \in Seq(S) /\ Len(Append(q, m)) = Len(q) + 1 /\ Len(q) \in Nat
      /\ \A i \in 1..Len(q) : Append(q, m)[i] = q[i]
      /\ Append(q, m)[Len(q) + 1] = m
  BY AppendProperties, LenProperties
<1>2. DOMAIN q = 1..Len(q) /\ DOMAIN Append(q, m) = 1..Len(q) + 1 BY <1>1, LenProperties
<1>3. 1..Len(q) + 1 = 1..Len(q) \cup {Len(q) + 1} BY <1>1
<1> DEFINE r == Append(q, m)
<1> HIDE DEF r
<1>4. Elems(r) = Elems(q) \cup {m}
  <2>1. DOMAIN r = DOMAIN q \cup {Len(q) + 1} BY <1>2, <1>3 DEF r
  <2>2. \A i \in DOMAIN q : r[i] = q[i] BY <1>1, <1>2 DEF r
  <2>3. r[Len(q) + 1] = m BY <1>1 DEF r
  <2> QED BY <2>1, <2>2, <2>3 DEF Elems
<1> QED BY <1>1, <1>2, <1>4 DEF r

\* The first mail goes.
LEMMA ElemsTail ==
  ASSUME NEW S, NEW q \in Seq(S), q # <<>>
  PROVE /\ Tail(q) \in Seq(S) /\ Len(Tail(q)) = Len(q) - 1 /\ Len(q) \in Nat \ {0}
        /\ DOMAIN q = 1..Len(q) /\ DOMAIN Tail(q) = 1..Len(q) - 1
        /\ Head(q) = q[1] /\ Head(q) \in Elems(q)
        /\ \A i \in 1..Len(q) - 1 : Tail(q)[i] = q[i + 1]
        /\ Elems(Tail(q)) \subseteq Elems(q)
        /\ \A m \in Elems(q) : m = Head(q) \/ m \in Elems(Tail(q))
<1>1. /\ Tail(q) \in Seq(S) /\ Len(Tail(q)) = Len(q) - 1 /\ Len(q) \in Nat \ {0}
      /\ \A i \in 1..Len(q) - 1 : Tail(q)[i] = q[i + 1]
  BY HeadTailProperties, LenProperties, EmptySeq
<1>2. DOMAIN q = 1..Len(q) /\ DOMAIN Tail(q) = 1..Len(q) - 1 BY <1>1, LenProperties
<1>3. Head(q) = q[1] BY <1>1
<1> DEFINE r == Tail(q)
<1> HIDE DEF r
<1>4. Elems(r) \subseteq Elems(q)
  <2>1. \A i \in DOMAIN r : i + 1 \in DOMAIN q /\ r[i] = q[i + 1] BY <1>1, <1>2 DEF r
  <2> QED BY <2>1 DEF Elems
<1>5. \A m \in Elems(q) : m = Head(q) \/ m \in Elems(r)
  <2>1. \A i \in DOMAIN q : i = 1 \/ (i - 1 \in DOMAIN r /\ r[i - 1] = q[i])
    BY <1>1, <1>2 DEF r
  <2> QED BY <2>1, <1>3 DEF Elems
<1>6. Head(q) \in Elems(q)
  <2>1. 1 \in DOMAIN q BY <1>1, <1>2
  <2> QED BY <2>1, <1>3 DEF Elems
<1> QED BY <1>1, <1>2, <1>3, <1>4, <1>5, <1>6 DEF r

\* The mails of a queue are mails.
LEMMA ElemsMail ==
  ASSUME NEW q \in Seq(Mail)
  PROVE \A m \in Elems(q) : m \in Mail /\ m.key \in Nat /\ m.report \in Nat
<1>1. \A i \in DOMAIN q : q[i] \in Mail BY ElementOfSeq, LenProperties
<1> QED BY <1>1 DEF Elems, Mail


\* A later mail at the end keeps the order.
LEMMA InOrderAppend ==
  ASSUME NEW q \in Seq(Mail), InOrder(q), NEW m \in Mail, Above(m, Elems(q))
  PROVE InOrder(Append(q, m))
<1>1. /\ Append(q, m) \in Seq(Mail) /\ Len(q) \in Nat
      /\ DOMAIN q = 1..Len(q) /\ DOMAIN Append(q, m) = 1..Len(q) + 1
      /\ \A i \in 1..Len(q) : Append(q, m)[i] = q[i]
      /\ Append(q, m)[Len(q) + 1] = m
  BY ElemsAppend
<1> DEFINE r == Append(q, m)  n == Len(q)
<1> HIDE DEF r
<1>2. ASSUME NEW i \in 1..n + 1, NEW k \in 1..n + 1, i < k PROVE r[i].key < r[k].key
  <2>1. CASE k \in 1..n
    <3>1. i \in 1..n BY <2>1, <1>1, <1>2
    <3> QED BY <3>1, <2>1, <1>1, <1>2 DEF InOrder, r
  <2>2. CASE k = n + 1
    <3>1. i \in 1..n BY <2>2, <1>1, <1>2
    <3>2. q[i] \in Elems(q) BY <3>1, <1>1 DEF Elems
    <3> QED BY <3>1, <3>2, <2>2, <1>1 DEF Above, r
  <2> QED BY <2>1, <2>2, <1>1
<1> QED BY <1>1, <1>2 DEF InOrder, r

\* So does taking the first.
LEMMA InOrderTail ==
  ASSUME NEW q \in Seq(Mail), q # <<>>, InOrder(q)
  PROVE InOrder(Tail(q)) /\ \A m \in Elems(Tail(q)) : Head(q).key < m.key
<1>1. /\ Len(q) \in Nat \ {0}
      /\ DOMAIN q = 1..Len(q) /\ DOMAIN Tail(q) = 1..Len(q) - 1
      /\ Head(q) = q[1]
      /\ \A i \in 1..Len(q) - 1 : Tail(q)[i] = q[i + 1]
  BY ElemsTail
<1> DEFINE r == Tail(q)  n == Len(q)
<1> HIDE DEF r, n
<1>2. /\ n \in Nat \ {0} /\ DOMAIN q = 1..n /\ DOMAIN r = 1..n - 1
      /\ \A i \in 1..n - 1 : r[i] = q[i + 1]
  BY <1>1 DEF r, n
<1>3. ASSUME NEW i \in 1..n - 1, NEW k \in 1..n - 1, i < k PROVE r[i].key < r[k].key
  <2>1. i + 1 \in 1..n /\ k + 1 \in 1..n /\ i + 1 < k + 1 BY <1>2, <1>3
  <2>2. q[i + 1].key < q[k + 1].key BY <2>1, <1>2 DEF InOrder
  <2> QED BY <2>2, <1>2
<1>4. ASSUME NEW m \in Elems(r) PROVE Head(q).key < m.key
  <2>1. PICK i \in 1..n - 1 : m = r[i] BY <1>2 DEF Elems
  <2>2. 1 \in 1..n /\ i + 1 \in 1..n /\ 1 < i + 1 BY <1>2
  <2>3. q[1].key < q[i + 1].key BY <2>2, <1>2 DEF InOrder
  <2> QED BY <2>1, <2>3, <1>1, <1>2
<1> QED BY <1>2, <1>3, <1>4 DEF InOrder, r

\* A queue stays one when more keys are given out.
LEMMA QueueGrows ==
  ASSUME NEW q, NEW a \in Nat, NEW b \in Nat, Queue(q, a), a <= b PROVE Queue(q, b)
<1>1. \A m \in Elems(q) : m.key \in Nat BY ElemsMail DEF Queue
<1> QED BY <1>1 DEF Queue

\* A step of one run.
LEMMA WorkMoves ==
  ASSUME MailInv, NEW j \in Job, NEW w,
         UNCHANGED <<outbox, inbox, remembered, aged>>,
         onchain' \in Nat, lastKey' \in Nat, lastKey <= lastKey',
         work' = [work EXCEPT ![j] = w], WorkShape(w),
         w.at = "send" => Sending(w) /\ Owns(j),
         monitorLease' = j => Holds(w, lastKey'),
         monitorLease' \in {monitorLease, j, NoJobHere}
  PROVE MailInv'
<1>1. /\ OutboxOk /\ work = [i \in Job |-> work[i]] /\ \A i \in Job : WorkShape(work[i])
      /\ \A i \in Job : IsSending(i) => Sending(work[i])
      /\ \A i \in Job : Owns(i) => Holds(work[i], lastKey)
  BY DEF MailInv
<1>2. /\ work' = [i \in Job |-> work'[i]] /\ work'[j] = w
      /\ \A i \in Job : i # j => work'[i] = work[i]
  BY <1>1
<1>3. /\ outbox' = outbox /\ inbox' = inbox /\ remembered' = remembered /\ aged' = aged
      /\ lastKey \in Nat
  BY <1>1 DEF OutboxOk
<1>4. \A q : Queue(q, lastKey) => Queue(q, lastKey') BY <1>3, QueueGrows
<1>5. OutboxOk'
  <2>1. /\ MailRecord(outbox) /\ Queue(outbox.queue, lastKey') /\ Queue(inbox, lastKey')
        /\ aged \subseteq 1..lastKey'
    BY <1>1, <1>3, <1>4 DEF OutboxOk
  <2> QED BY <1>1, <1>3, <2>1, Zenon DEF OutboxOk, Waiting, Arrived, Queue, MailRecord
<1>6. \A i \in Job : WorkShape(work[i])'
  BY <1>1, <1>2, Zenon DEF WorkShape
<1>7. \A v : Sending(v) => Sending(v)'
  BY <1>3, <1>4, Zenon DEF Sending, Waiting, Arrived, Queue
<1>8. ASSUME NEW i \in Job, IsSending(i)' PROVE Sending(work[i])'
  <2>1. PICK v : v = work'[i] OBVIOUS
  <2>2. Sending(v)
    <3>1. CASE i = j BY <3>1, <1>2, <1>8, <2>1 DEF IsSending
    <3>2. CASE i # j BY <3>2, <1>1, <1>2, <1>8, <2>1 DEF IsSending
    <3> QED BY <3>1, <3>2
  <2>3. Sending(v)' BY <2>2, <1>7
  <2> QED BY <2>1, <2>3 DEF Sending
<1>9. ASSUME NEW i \in Job, Owns(i)' PROVE Holds(work[i], lastKey)'
  <2>1. PICK v : v = work'[i] OBVIOUS
  <2>2. Holds(v, lastKey')
    <3>1. CASE i = j BY <3>1, <1>2, <1>9, <2>1 DEF Owns
    <3>2. CASE i # j
      <4>1. Owns(i) BY <3>2, <1>9, MailAssumption DEF Owns
      <4>2. Holds(v, lastKey) BY <4>1, <3>2, <1>1, <1>2, <2>1
      <4>3. \A q : Queue(q, lastKey) => Queue(q, lastKey') BY <1>4
      <4> QED BY <4>2, <4>3, Zenon DEF Holds, Saving
    <3> QED BY <3>1, <3>2
  <2>3. ASSUME NEW m, Fresh(m), v.at = "save" PROVE Fresh(m)'
    <3>1. ASSUME NEW k \in Job, IsSending(k)' PROVE Above(m, Elems(work'[k].state.queue))
      <4>1. CASE k = j
        <5>1. w.at = "send" BY <4>1, <3>1, <1>2 DEF IsSending
        <5>2. Owns(j) BY <5>1
        <5>3. i # j BY <5>1, <1>2, <2>1, <2>3
        <5>4. Owns(i) BY <5>3, <1>9, MailAssumption DEF Owns
        <5> QED BY <5>2, <5>3, <5>4 DEF Owns
      <4>2. CASE k # j BY <4>2, <3>1, <2>3, <1>2 DEF Fresh, IsSending
      <4> QED BY <4>1, <4>2
    <3> QED BY <3>1, <2>3, <1>3, Zenon DEF Fresh, Waiting
  <2>4. (v.at = "save" => Saving(v.state, lastKey)')
    <3>1. SUFFICES ASSUME v.at = "save" PROVE Saving(v.state, lastKey)' OBVIOUS
    <3>2. Saving(v.state, lastKey') BY <3>1, <2>2 DEF Holds
    <3>3. \A m : Fresh(m) => Fresh(m)' BY <3>1, <2>3
    <3> QED BY <3>2, <3>3, <1>3, Zenon DEF Saving, Waiting, Arrived, Queue, MailRecord
  <2>5. Holds(v, lastKey)' BY <2>2, <2>4, <1>3, Zenon DEF Holds, Arrived
  <2> QED BY <2>1, <2>5, Zenon DEF Holds
<1> QED BY <1>2, <1>5, <1>6, <1>8, <1>9, Zenon DEF MailInv

\* The fields of a run.
WorkFields == {"at", "state", "left"}

\* A run as a record.
LEMMA Working ==
  ASSUME MailInv, NEW j \in Job, work[j] # NoWork
  PROVE /\ work[j] = [f \in WorkFields |-> work[j][f]]
        /\ work[j].at \in {"read", "drain", "send", "accepted", "save", "end"}
        /\ onchain \in Nat /\ lastKey \in Nat
        /\ work = [i \in Job |-> work[i]]
  BY DEF MailInv, WorkShape, WorkFields, OutboxOk

\* A run that only goes on.
LEMMA GoesTo ==
  ASSUME NEW w, NEW at, w = [f \in WorkFields |-> w[f]],
         at \in {"read", "drain", "send", "accepted", "save", "end"}
  PROVE LET v == [w EXCEPT !.at = at] IN
        /\ v.at = at /\ v.state = w.state /\ v.left = w.left /\ WorkShape(v)
  BY DEF WorkFields, WorkShape

\* A run that ends.
LEMMA NoWorkMoves ==
  ASSUME MailInv, NEW j \in Job,
         UNCHANGED <<onchain, outbox, inbox, remembered, aged, lastKey>>,
         work' = [work EXCEPT ![j] = NoWork], monitorLease' \in {monitorLease, j, NoJobHere}
  PROVE MailInv'
<1>1. NoWork.at = "idle" /\ WorkShape(NoWork) BY DEF NoWork, WorkShape
<1>2. Holds(NoWork, lastKey) BY <1>1 DEF Holds
<1>3. onchain \in Nat /\ lastKey \in Nat BY DEF MailInv, OutboxOk
<1>4. onchain' \in Nat /\ lastKey' \in Nat /\ lastKey <= lastKey' BY <1>3
<1>5. Holds(NoWork, lastKey') BY <1>2
<1>6. NoWork.at = "send" => Sending(NoWork) /\ Owns(j) BY <1>1
<1> QED BY <1>1, <1>4, <1>5, <1>6, WorkMoves

\* A run takes the lease and loads the outbox.
LEMMA MailStart ==
  ASSUME MailInv, NEW j \in Job, StartRun(j) PROVE MailInv'
<1> DEFINE w == [at |-> "read", state |-> outbox, left |-> PerRun]
<1>1. w.at = "read" /\ w.state = outbox /\ WorkShape(w) BY DEF WorkShape
<1>2. work' = [work EXCEPT ![j] = w] /\ monitorLease' = j
      /\ UNCHANGED <<onchain, outbox, inbox, remembered, aged, lastKey>>
  BY DEF StartRun
<1> HIDE DEF w
<1>3. Holds(w, lastKey) BY <1>1 DEF Holds
<1>4. onchain \in Nat /\ lastKey \in Nat BY DEF MailInv, OutboxOk
<1>5. onchain' \in Nat /\ lastKey' \in Nat /\ lastKey <= lastKey' /\ Holds(w, lastKey')
  BY <1>2, <1>3, <1>4
<1>6. w.at = "send" => Sending(w) /\ Owns(j) BY <1>1
<1>7. monitorLease' \in {monitorLease, j, NoJobHere} BY <1>2
<1> QED BY <1>1, <1>2, <1>5, <1>6, <1>7, WorkMoves

\* What a job may save that has changed nothing.
LEMMA SavesUnchanged ==
  ASSUME MailInv PROVE Saving(outbox, lastKey)
<1> DEFINE st == outbox
<1>1. OutboxOk BY DEF MailInv
<1> QED BY <1>1, Zenon DEF OutboxOk, Saving, Waiting

\* An observation owes one new mail.
LEMMA MailObserved ==
  ASSUME MailInv, NEW j \in Job, Owns(j), work[j].state = outbox,
         NEW st, st = [signature |-> onchain,
                       queue |-> Append(outbox.queue, [key |-> lastKey + 1, report |-> onchain])]
  PROVE Saving(st, lastKey + 1)
<1>1. OutboxOk BY DEF MailInv
<1> DEFINE m == [key |-> lastKey + 1, report |-> onchain]
<1>2. m \in Mail /\ m.key = lastKey + 1 /\ m.report = onchain /\ lastKey \in Nat
  BY <1>1 DEF Mail, OutboxOk
<1>3. st.signature = onchain /\ st.queue = Append(outbox.queue, m) /\ MailRecord(st)
  BY DEF MailRecord
<1> HIDE DEF m
<1>4. outbox.queue \in Seq(Mail) /\ InOrder(outbox.queue) /\ inbox \in Seq(Mail)
  BY <1>1 DEF OutboxOk, Queue
<1>5. Above(m, Waiting) /\ Above(m, Elems(inbox))
  <2>1. \A n \in Waiting \cup Elems(inbox) : n.key \in Nat /\ n.key <= lastKey
    BY <1>1, <1>4, ElemsMail DEF OutboxOk, Queue, Waiting
  <2> QED BY <2>1, <1>2 DEF Above
<1>6. Elems(st.queue) = Waiting \cup {m} /\ st.queue \in Seq(Mail)
  BY <1>2, <1>3, <1>4, ElemsAppend DEF Waiting
<1>7. InOrder(st.queue) BY <1>2, <1>3, <1>4, <1>5, InOrderAppend DEF Waiting
<1>8. \A n \in Elems(st.queue) : n.key <= lastKey + 1
  <2>1. \A n \in Waiting : n.key \in Nat /\ n.key <= lastKey
    BY <1>1, <1>4, ElemsMail DEF OutboxOk, Queue, Waiting
  <2> QED BY <2>1, <1>2, <1>6
<1>9. Fresh(m)
  <2>1. ASSUME NEW i \in Job, IsSending(i) PROVE Above(m, Elems(work[i].state.queue))
    <3>1. Queue(work[i].state.queue, lastKey) BY <2>1 DEF MailInv, Sending
    <3>2. \A n \in Elems(work[i].state.queue) : n.key \in Nat /\ n.key <= lastKey
      BY <3>1, ElemsMail DEF Queue
    <3> QED BY <3>2, <1>2 DEF Above
  <2> QED BY <2>1, <1>5 DEF Fresh
<1>10. onchain \in ReportsIn(Elems(st.queue)) BY <1>2, <1>6 DEF ReportsIn
<1>11. ReportsIn(Elems(st.queue)) \subseteq {0} \cup ReportsIn(Elems(inbox) \cup Elems(st.queue))
  BY DEF ReportsIn
<1> QED BY <1>3, <1>6, <1>7, <1>8, <1>9, <1>10, <1>11 DEF Saving, Queue

\* A step of a run within its memory.
LEMMA MailGoes ==
  ASSUME MailInv, NEW j \in Job, work[j] # NoWork, NEW at,
         at \in {"drain", "send", "accepted", "save", "end"}, Goes(j, at),
         UNCHANGED <<onchain, outbox, monitorLease, inbox, remembered, aged, lastKey>>,
         at = "send" => Sending(work[j]) /\ Owns(j),
         at \in {"drain", "send", "accepted", "save"} /\ Owns(j) => work[j].state = outbox,
         at # "accepted"
  PROVE MailInv'
<1>1. /\ work[j] = [f \in WorkFields |-> work[j][f]]
      /\ onchain \in Nat /\ lastKey \in Nat /\ work = [i \in Job |-> work[i]]
  BY Working
<1> DEFINE w == work[j]  v == [w EXCEPT !.at = at]
<1>2. work' = [work EXCEPT ![j] = v] BY <1>1 DEF Goes
<1> HIDE DEF w
<1>3. v.at = at /\ v.state = w.state /\ WorkShape(v) BY <1>1, GoesTo DEF w
<1> HIDE DEF v
<1>4. at = "send" => Sending(v) /\ Owns(j)
  BY <1>3 DEF Sending, w
<1>5. ASSUME Owns(j) PROVE Holds(v, lastKey)
  <2>1. at \in {"drain", "send", "save"} => v.state = outbox BY <1>3, <1>5 DEF w
  <2>2. at = "save" => Saving(v.state, lastKey) BY <2>1, SavesUnchanged
  <2> QED BY <2>1, <2>2, <1>3 DEF Holds
<1>6. monitorLease' = j => Holds(v, lastKey') BY <1>5 DEF Owns
<1> QED BY <1>1, <1>2, <1>3, <1>4, <1>6, WorkMoves

\* queueReport.
LEMMA MailObserves ==
  ASSUME MailInv, NEW j \in Job, Observe(j) PROVE MailInv'
<1>1. work[j].at = "read" /\ UNCHANGED <<onchain, outbox, monitorLease, inbox, remembered, aged>>
  BY DEF Observe
<1>2. work[j] # NoWork BY <1>1 DEF NoWork
<1>3. Owns(j) => work[j].state = outbox BY <1>1 DEF MailInv, Holds
<1>4. CASE \E at \in {"end", "save", "drain"} : Goes(j, at) /\ UNCHANGED lastKey
  <2>1. PICK at \in {"end", "save", "drain"} : Goes(j, at) /\ UNCHANGED lastKey BY <1>4
  <2> QED BY <2>1, <1>1, <1>2, <1>3, MailGoes
<1> DEFINE state == work[j].state
           next == [signature |-> onchain,
                    queue |-> Append(state.queue, [key |-> lastKey + 1, report |-> onchain])]
<1>5. CASE lastKey' = lastKey + 1 /\ work' = [work EXCEPT ![j].state = next, ![j].at = "save"]
  <2>1. /\ work[j] = [f \in WorkFields |-> work[j][f]]
        /\ onchain \in Nat /\ lastKey \in Nat /\ work = [i \in Job |-> work[i]]
    BY <1>2, Working
  <2> DEFINE v == [work[j] EXCEPT !.state = next, !.at = "save"]
  <2>2. work' = [work EXCEPT ![j] = v] BY <1>5, <2>1
  <2>3. v.at = "save" /\ v.state = next /\ WorkShape(v)
    <3> HIDE DEF next
    <3> QED BY <2>1 DEF WorkFields, WorkShape
  <2> HIDE DEF v
  <2>4. ASSUME Owns(j) PROVE Holds(v, lastKey')
    <3>1. Saving(next, lastKey + 1) BY <2>4, <1>3, MailObserved
    <3> QED BY <3>1, <1>5, <2>3 DEF Holds
  <2>5. monitorLease' = j => Holds(v, lastKey') BY <2>4, <1>1 DEF Owns
  <2>6. lastKey' \in Nat /\ lastKey <= lastKey' /\ onchain' \in Nat
    <3> HIDE DEF next, state
    <3>1. lastKey' = lastKey + 1 /\ onchain' = onchain BY <1>1, <1>5
    <3> QED BY <3>1, <2>1
  <2>7. v.at # "send" BY <2>3
  <2> HIDE DEF next
  <2> QED BY <1>1, <2>2, <2>3, <2>5, <2>6, <2>7, WorkMoves
<1> QED BY <1>4, <1>5, Zenon DEF Observe

\* The read fails: nothing is owed.
LEMMA MailReadFails ==
  ASSUME MailInv, NEW j \in Job, ReadFails(j) PROVE MailInv'
<1>1. work[j].at = "read" /\ Goes(j, "save")
      /\ UNCHANGED <<onchain, outbox, monitorLease, inbox, remembered, aged, lastKey>>
  BY DEF ReadFails
<1>2. work[j] # NoWork BY <1>1 DEF NoWork
<1>3. Owns(j) => work[j].state = outbox BY <1>1 DEF MailInv, Holds
<1> QED BY <1>1, <1>2, <1>3, MailGoes

\* The first mail is sent unless its key is too old.
LEMMA MailPicks ==
  ASSUME MailInv, NEW j \in Job, PickMail(j) PROVE MailInv'
<1> DEFINE queue == work[j].state.queue
           stops == queue = <<>> \/ work[j].left = 0 \/ ~Owns(j) \/ TooOld(Head(queue).key)
<1>1. work[j].at = "drain" /\ Goes(j, IF stops THEN "end" ELSE "send")
      /\ UNCHANGED <<onchain, outbox, monitorLease, inbox, remembered, aged, lastKey>>
  BY DEF PickMail
<1>2. work[j] # NoWork BY <1>1 DEF NoWork
<1>3. Owns(j) => work[j].state = outbox BY <1>1 DEF MailInv, Holds
<1>4. CASE stops
  <2>1. Goes(j, "end") BY <1>1, <1>4
  <2> QED BY <2>1, <1>1, <1>2, MailGoes
<1>5. CASE ~stops
  <2>1. Goes(j, "send") BY <1>1, <1>5
  <2>2. Owns(j) /\ queue # <<>> /\ Head(queue).key \notin aged BY <1>5 DEF TooOld
  <2>3. Queue(outbox.queue, lastKey) BY DEF MailInv, OutboxOk
  <2>4. Sending(work[j]) BY <2>2, <2>3, <1>3 DEF Sending, Waiting
  <2> QED BY <2>1, <2>2, <2>4, <1>1, <1>2, <1>3, MailGoes
<1> QED BY <1>4, <1>5

\* A send fails: the mail waits on.
LEMMA MailSendFails ==
  ASSUME MailInv, NEW j \in Job, SendFails(j) PROVE MailInv'
<1>1. work[j].at = "send" /\ Goes(j, "end")
      /\ UNCHANGED <<onchain, outbox, monitorLease, inbox, remembered, aged, lastKey>>
  BY DEF SendFails
<1>2. work[j] # NoWork BY <1>1 DEF NoWork
<1> QED BY <1>1, <1>2, MailGoes

\* A mail that arrived leaves the queue.
LEMMA MailAcknowledges ==
  ASSUME MailInv, NEW j \in Job, Acknowledge(j) PROVE MailInv'
<1>1. work[j].at = "accepted" 
      /\ UNCHANGED <<onchain, outbox, monitorLease, inbox, remembered, aged, lastKey>>
  BY DEF Acknowledge
<1>2. work[j] # NoWork BY <1>1 DEF NoWork
<1>3. /\ work[j] = [f \in WorkFields |-> work[j][f]]
      /\ onchain \in Nat /\ lastKey \in Nat /\ work = [i \in Job |-> work[i]]
  BY <1>2, Working
<1> DEFINE w == work[j]
           v == [w EXCEPT !.state.queue = Tail(w.state.queue), !.left = w.left - 1, !.at = "save"]
<1>4. work' = [work EXCEPT ![j] = v] BY <1>3 DEF Acknowledge
<1>5. v.at = "save" /\ v.state = [w.state EXCEPT !.queue = Tail(w.state.queue)] /\ WorkShape(v)
  <2> HIDE DEF w
  <2>1. w = [f \in WorkFields |-> w[f]] BY <1>3 DEF w
  <2> QED BY <2>1 DEF WorkFields, WorkShape
<1>6. ASSUME Owns(j) PROVE Holds(v, lastKey)
  <2>1. w.state = outbox /\ outbox.queue # <<>> /\ Arrived(Head(outbox.queue))
    BY <1>1, <1>6 DEF MailInv, Holds
  <2>2. OutboxOk BY DEF MailInv
  <2>3. MailRecord(outbox) /\ outbox.queue \in Seq(Mail) /\ InOrder(outbox.queue)
        /\ \A m \in Waiting : m.key <= lastKey
    BY <2>2 DEF OutboxOk, Queue, Waiting
  <2> DEFINE st == v.state
  <2>4. st.queue = Tail(outbox.queue) /\ st.signature = outbox.signature /\ MailRecord(st)
    <3>1. st = [outbox EXCEPT !.queue = Tail(outbox.queue)] BY <1>5, <2>1
    <3> HIDE DEF st
    <3> QED BY <3>1, <2>3 DEF MailRecord
  <2> HIDE DEF v, w
  <2>5. /\ st.queue \in Seq(Mail) /\ Elems(st.queue) \subseteq Waiting
        /\ \A m \in Waiting : m = Head(outbox.queue) \/ m \in Elems(st.queue)
    BY <2>1, <2>3, <2>4, ElemsTail DEF Waiting
  <2>6. InOrder(st.queue) BY <2>1, <2>3, <2>4, InOrderTail
  <2>7. \A m \in Waiting : m \in Elems(st.queue) \/ Arrived(m) BY <2>1, <2>5
  <2>8. st.signature \in {0} \cup ReportsIn(Elems(inbox) \cup Elems(st.queue))
    <3>1. outbox.signature \in {0} \cup ReportsIn(Elems(inbox) \cup Waiting) BY <2>2 DEF OutboxOk
    <3>2. Elems(inbox) \cup Waiting = Elems(inbox) \cup Elems(st.queue)
      BY <2>5, <2>7 DEF Arrived
    <3> QED BY <3>1, <3>2, <2>4
  <2>9. Saving(st, lastKey) BY <2>3, <2>4, <2>5, <2>6, <2>7, <2>8 DEF Saving, Queue
  <2> QED BY <2>9, <1>5 DEF Holds
<1> HIDE DEF v
<1>7. monitorLease' = j => Holds(v, lastKey') BY <1>1, <1>6 DEF Owns
<1>8. v.at # "send" BY <1>5
<1> QED BY <1>1, <1>3, <1>4, <1>5, <1>7, <1>8, WorkMoves

\* A save by the owner replaces the outbox.
LEMMA MailSaves ==
  ASSUME MailInv, NEW j \in Job, SaveOutbox(j) PROVE MailInv'
<1>1. work[j].at = "save"
      /\ UNCHANGED <<onchain, monitorLease, inbox, remembered, aged, lastKey>>
  BY DEF SaveOutbox
<1>2. work[j] # NoWork BY <1>1 DEF NoWork
<1>3. CASE ~Owns(j)
  <2>1. UNCHANGED outbox /\ Goes(j, "end") BY <1>3 DEF SaveOutbox
  <2> QED BY <2>1, <1>1, <1>2, MailGoes
<1>4. CASE Owns(j)
  <2>0. /\ work[j] = [f \in WorkFields |-> work[j][f]]
        /\ onchain \in Nat /\ lastKey \in Nat /\ work = [i \in Job |-> work[i]]
    BY <1>2, Working
  <2> DEFINE w == work[j]  v == [w EXCEPT !.at = "drain"]
  <2>1. outbox' = w.state /\ work' = [work EXCEPT ![j] = v] BY <1>4, <2>0 DEF SaveOutbox, Goes
  <2> HIDE DEF w
  <2>2. v.at = "drain" /\ v.state = w.state /\ WorkShape(v) BY <2>0, GoesTo DEF w
  <2> HIDE DEF v
  <2>3. Saving(w.state, lastKey) BY <1>1, <1>4 DEF MailInv, Holds, w
  <2>4. PICK st : st = w.state OBVIOUS
  <2>5. /\ MailRecord(st) /\ Queue(st.queue, lastKey)
        /\ \A m \in Elems(st.queue) : m \in Waiting \/ Fresh(m)
        /\ \A m \in Waiting : m \in Elems(st.queue) \/ Arrived(m)
        /\ st.signature \in {0} \cup ReportsIn(Elems(inbox) \cup Elems(st.queue))
    BY <2>3, <2>4 DEF Saving
  <2>6. outbox' = st /\ Waiting' = Elems(st.queue) BY <2>1, <2>4 DEF Waiting
  <2>7. inbox' = inbox /\ lastKey' = lastKey /\ onchain' = onchain /\ aged' = aged
        /\ remembered' = remembered /\ monitorLease' = monitorLease
    BY <1>1
  <2>8. /\ work' = [i \in Job |-> work'[i]] /\ work'[j] = v
        /\ \A i \in Job : i # j => work'[i] = work[i]
    BY <2>0, <2>1
  <2>9. OutboxOk BY DEF MailInv
  <2>10. OneMailPerKey(Elems(inbox) \cup Elems(st.queue))
    <3>1. SUFFICES ASSUME NEW m \in Elems(inbox) \cup Elems(st.queue),
                          NEW n \in Elems(inbox) \cup Elems(st.queue), m.key = n.key
                   PROVE m = n
      BY DEF OneMailPerKey
    <3>2. \A x \in Elems(inbox) \cup Waiting \cup Elems(st.queue) : x.key \in Nat
      BY <2>5, <2>9, ElemsMail DEF OutboxOk, Queue, Waiting
    <3>3. \A x \in Elems(st.queue) : x \in Waiting \/
            \A y \in Elems(inbox) \cup Waiting : y.key < x.key
      BY <2>5 DEF Fresh, Above
    <3>4. \A x \in Elems(inbox) \cup Waiting, y \in Elems(inbox) \cup Waiting : x.key = y.key => x = y
      BY <2>9 DEF OutboxOk, OneMailPerKey
    <3>5. \A x \in Elems(st.queue), y \in Elems(st.queue) : x.key = y.key => x = y
      <4>1. SUFFICES ASSUME NEW i \in DOMAIN st.queue, NEW k \in DOMAIN st.queue,
                            st.queue[i].key = st.queue[k].key
                     PROVE st.queue[i] = st.queue[k]
        BY Zenon DEF Elems
      <4>2. i \in Nat /\ k \in Nat
        <5>1. DOMAIN st.queue = 1..Len(st.queue) BY <2>5, LenProperties DEF Queue
        <5> QED BY <5>1
      <4>3. st.queue[i].key \in Nat /\ st.queue[k].key \in Nat
        <5>1. st.queue[i] \in Elems(st.queue) /\ st.queue[k] \in Elems(st.queue) BY DEF Elems
        <5> QED BY <5>1, <3>2
      <4>4. (i < k => st.queue[i].key < st.queue[k].key) /\ (k < i => st.queue[k].key < st.queue[i].key)
        BY <2>5 DEF Queue, InOrder
      <4>5. i = k BY <4>1, <4>2, <4>3, <4>4
      <4> QED BY <4>5
    <3> QED BY <3>1, <3>2, <3>3, <3>4, <3>5
  <2>11. OutboxOk'
    <3>1. \A m \in Elems(st.queue) : Arrived(m) \/ Above(m, Elems(inbox))
      BY <2>5, <2>9 DEF OutboxOk, Fresh
    <3> QED BY <3>1, <2>5, <2>6, <2>7, <2>9, <2>10, Zenon DEF OutboxOk, Arrived, Queue, MailRecord
  <2>12. \A i \in Job : WorkShape(work[i])'
    <3>1. \A i \in Job : WorkShape(work[i]) BY DEF MailInv
    <3> QED BY <3>1, <2>2, <2>8, Zenon DEF WorkShape
  <2>13. ASSUME NEW i \in Job, IsSending(i)' PROVE Sending(work[i])'
    <3>1. i # j /\ work'[i] = work[i] /\ IsSending(i) BY <2>13, <2>2, <2>8 DEF IsSending
    <3>2. PICK u : u = work[i] OBVIOUS
    <3>3. /\ Queue(u.state.queue, lastKey) /\ u.state.queue # <<>>
          /\ Head(u.state.queue).key \notin aged
          /\ \A m \in Elems(u.state.queue) : m \in Waiting \/ Arrived(m)
          /\ \A m \in Waiting : \/ m \in Elems(u.state.queue) \/ Arrived(m)
                                \/ Above(m, Elems(u.state.queue))
      BY <3>1, <3>2 DEF MailInv, Sending
    <3>4. \A m \in Elems(u.state.queue) : m \in Elems(st.queue) \/ Arrived(m) BY <3>3, <2>5
    <3>5. \A m \in Elems(st.queue) : \/ m \in Elems(u.state.queue) \/ Arrived(m)
                                     \/ Above(m, Elems(u.state.queue))
      <4>1. \A m : Fresh(m) => Above(m, Elems(u.state.queue)) BY <3>1, <3>2 DEF Fresh
      <4> QED BY <4>1, <3>3, <2>5
    <3>6. Sending(u)'
      BY <3>3, <3>4, <3>5, <2>6, <2>7, Zenon DEF Sending, Arrived, Queue
    <3> QED BY <3>1, <3>2, <3>6, Zenon DEF Sending
  <2>14. ASSUME NEW i \in Job, Owns(i)' PROVE Holds(work[i], lastKey)'
    <3>1. i = j BY <2>14, <1>4, <2>7 DEF Owns
    <3>2. PICK u : u = v OBVIOUS
    <3>3. u.at = "drain" /\ u.state = outbox' /\ work'[i] = u BY <3>1, <3>2, <2>2, <2>4, <2>6, <2>8
    <3>4. Holds(u, lastKey)' BY <3>3 DEF Holds
    <3> QED BY <3>3, <3>4, Zenon DEF Holds
  <2> QED BY <2>8, <2>11, <2>12, <2>13, <2>14, Zenon DEF MailInv
<1> QED BY <1>3, <1>4

\* A change on chain, and a lease that expires.
LEMMA MailWaits ==
  ASSUME MailInv, UNCHANGED <<outbox, work, inbox, remembered, aged, lastKey>>, onchain' \in Nat,
         monitorLease' \in {monitorLease, NoJobHere}
  PROVE MailInv'
<1>1. /\ OutboxOk /\ work = [i \in Job |-> work[i]] /\ \A i \in Job : WorkShape(work[i])
      /\ \A i \in Job : IsSending(i) => Sending(work[i])
      /\ \A i \in Job : Owns(i) => Holds(work[i], lastKey)
  BY DEF MailInv
<1>2. /\ outbox' = outbox /\ inbox' = inbox /\ remembered' = remembered /\ aged' = aged
      /\ lastKey' = lastKey /\ work' = work
  OBVIOUS
<1>3. OutboxOk' BY <1>1, <1>2, Zenon DEF OutboxOk, Waiting, Arrived, Queue, MailRecord
<1>4. \A i \in Job : WorkShape(work[i])' BY <1>1, <1>2, Zenon DEF WorkShape
<1>5. \A i \in Job : (IsSending(i) => Sending(work[i]))'
  BY <1>1, <1>2, Zenon DEF IsSending, Sending, Waiting, Arrived, Queue
<1>6. ASSUME NEW i \in Job, Owns(i)' PROVE Holds(work[i], lastKey)'
  <2>1. Owns(i) BY <1>6, MailAssumption DEF Owns
  <2>2. Holds(work[i], lastKey) BY <1>1, <2>1
  <2>3. \A m : Fresh(m) => Fresh(m)' BY <1>2, Zenon DEF Fresh, IsSending, Waiting
  <2> QED BY <2>2, <2>3, <1>2, Zenon DEF Holds, Saving, Waiting, Arrived, Queue, MailRecord
<1> QED BY <1>1, <1>2, <1>3, <1>4, <1>5, <1>6, Zenon DEF MailInv

\* A day later the provider forgets keys, and the jobs refuse them.
LEMMA MailForgets ==
  ASSUME MailInv, Quiet, UNCHANGED <<onchain, outbox, monitorLease, work, inbox, lastKey>>,
         \/ aged' = 1..lastKey /\ remembered' = remembered
         \/ remembered' = remembered \ aged /\ aged' = aged
  PROVE MailInv'
<1>1. /\ OutboxOk /\ work = [i \in Job |-> work[i]] /\ \A i \in Job : WorkShape(work[i])
      /\ \A i \in Job : Owns(i) => Holds(work[i], lastKey)
  BY DEF MailInv
<1>2. /\ outbox' = outbox /\ inbox' = inbox /\ onchain' = onchain
      /\ lastKey' = lastKey /\ work' = work /\ monitorLease' = monitorLease
  OBVIOUS
<1>3. /\ \A key \in remembered : \E m \in Elems(inbox) : m.key = key
      /\ \A m \in Elems(inbox) : m.key \in remembered \cup aged
      /\ aged \subseteq 1..lastKey
  BY <1>1 DEF OutboxOk
<1>4. /\ \A key \in remembered' : \E m \in Elems(inbox) : m.key = key
      /\ \A m \in Elems(inbox) : m.key \in remembered' \cup aged'
      /\ aged' \subseteq 1..lastKey
  BY <1>3
<1>5. OutboxOk' BY <1>1, <1>2, <1>4, Zenon DEF OutboxOk, Waiting, Arrived, Queue, MailRecord
<1>6. \A i \in Job : WorkShape(work[i])' BY <1>1, <1>2, Zenon DEF WorkShape
<1>7. \A i \in Job : ~IsSending(i)' BY <1>2 DEF Quiet, IsSending
<1>8. ASSUME NEW i \in Job, Owns(i)' PROVE Holds(work[i], lastKey)'
  <2>1. Owns(i) BY <1>8, <1>2 DEF Owns
  <2>2. Holds(work[i], lastKey) BY <1>1, <2>1
  <2>3. \A m : Fresh(m) => Fresh(m)' BY <1>2, Zenon DEF Fresh, IsSending, Waiting
  <2> QED BY <2>2, <2>3, <1>2, Zenon DEF Holds, Saving, Waiting, Arrived, Queue, MailRecord
<1> QED BY <1>1, <1>2, <1>5, <1>6, <1>7, <1>8, Zenon DEF MailInv

\* A send: the provider delivers the mail unless it knows its key.
LEMMA SendDelivers ==
  ASSUME MailInv, NEW j \in Job, IsSending(j),
         NEW m, m = Current(j), inbox' = Delivered(m), remembered' = remembered \cup {m.key}
  PROVE /\ m \in Mail
        /\ inbox' \in Seq(Mail) /\ Elems(inbox') = Elems(inbox) \cup {m}
        /\ InOrder(inbox') /\ m.key <= lastKey
        /\ \A key \in remembered' : \E n \in Elems(inbox') : n.key = key
        /\ \A n \in Elems(inbox') : n.key \in remembered' \cup aged
        /\ m \in Elems(inbox) \/ (m \in Waiting /\ Above(m, Elems(inbox)))
        /\ \A n \in Elems(work[j].state.queue) : n = m \/ m.key < n.key
        /\ OneMailPerKey(Elems(inbox) \cup Waiting)
        /\ m \in Elems(work[j].state.queue)
<1>1. OutboxOk /\ Sending(work[j]) BY DEF MailInv
<1> DEFINE q == work[j].state.queue
<1>2. /\ q \in Seq(Mail) /\ InOrder(q) /\ q # <<>> /\ m = Head(q) /\ m.key \notin aged
      /\ \A n \in Elems(q) : n.key <= lastKey
      /\ \A n \in Elems(q) : n \in Waiting \/ n \in Elems(inbox)
  BY <1>1 DEF Sending, Queue, Current, Arrived
<1> HIDE DEF q
<1>3. m \in Elems(q) /\ \A n \in Elems(q) : n = m \/ n \in Elems(Tail(q)) BY <1>2, ElemsTail
<1>4. \A n \in Elems(q) : n = m \/ m.key < n.key BY <1>2, <1>3, InOrderTail
<1>5. m \in Mail BY <1>2, <1>3, ElemsMail
<1>6. /\ inbox \in Seq(Mail) /\ InOrder(inbox) /\ OneMailPerKey(Elems(inbox) \cup Waiting)
      /\ \A n \in Waiting : n \in Elems(inbox) \/ Above(n, Elems(inbox))
      /\ \A key \in remembered : \E n \in Elems(inbox) : n.key = key
      /\ \A n \in Elems(inbox) : n.key \in remembered \cup aged
  BY <1>1 DEF OutboxOk, Queue, Arrived
<1>7. m \in Waiting \/ m \in Elems(inbox) BY <1>2, <1>3
<1>8. CASE m.key \in remembered
  <2>1. PICK n \in Elems(inbox) : n.key = m.key BY <1>6, <1>8
  <2>2. m = n BY <2>1, <1>6, <1>7 DEF OneMailPerKey
  <2>3. inbox' = inbox /\ Elems(inbox') = Elems(inbox) /\ remembered' = remembered
    BY <1>8 DEF Delivered
  <2>4. /\ inbox' \in Seq(Mail) /\ InOrder(inbox') /\ Elems(inbox') = Elems(inbox) \cup {m}
        /\ m \in Elems(inbox)
    BY <2>1, <2>2, <2>3, <1>6
  <2>5. /\ \A key \in remembered' : \E y \in Elems(inbox') : y.key = key
        /\ \A y \in Elems(inbox') : y.key \in remembered' \cup aged
    BY <2>3, <1>6
  <2> QED BY <2>4, <2>5, <1>2, <1>3, <1>4, <1>5, <1>6 DEF q
<1>9. CASE m.key \notin remembered
  <2>1. m \notin Elems(inbox) BY <1>2, <1>6, <1>9
  <2>2. m \in Waiting /\ Above(m, Elems(inbox)) BY <2>1, <1>6, <1>7
  <2>3. inbox' = Append(inbox, m) BY <1>9 DEF Delivered
  <2>4. inbox' \in Seq(Mail) /\ Elems(inbox') = Elems(inbox) \cup {m}
    BY <2>3, <1>5, <1>6, ElemsAppend
  <2>5. InOrder(inbox') BY <2>2, <2>3, <1>5, <1>6, InOrderAppend
  <2>6. \A key \in remembered' : \E n \in Elems(inbox') : n.key = key BY <2>4, <1>6
  <2>7. \A n \in Elems(inbox') : n.key \in remembered' \cup aged BY <2>4, <1>6
  <2> QED BY <2>2, <2>4, <2>5, <2>6, <2>7, <1>2, <1>3, <1>4, <1>5, <1>6 DEF q
<1> QED BY <1>8, <1>9

\* A send keeps the invariant.
LEMMA MailSends ==
  ASSUME MailInv, NEW j \in Job, SendMail(j) PROVE MailInv'
<1>1. /\ work[j].at = "send" /\ inbox' = Delivered(Current(j))
      /\ remembered' = remembered \cup {Current(j).key}
      /\ Goes(j, "accepted") \/ Goes(j, "end")
      /\ onchain' = onchain /\ outbox' = outbox /\ monitorLease' = monitorLease
      /\ aged' = aged /\ lastKey' = lastKey
  BY DEF SendMail
<1>2. work[j] # NoWork BY <1>1 DEF NoWork
<1>3. /\ work[j] = [f \in WorkFields |-> work[j][f]] /\ work = [i \in Job |-> work[i]]
      /\ lastKey \in Nat
  BY <1>2, Working
<1>4. PICK at \in {"accepted", "end"} : Goes(j, at) BY <1>1
<1> DEFINE w == work[j]  v == [w EXCEPT !.at = at]
<1>5. work' = [work EXCEPT ![j] = v] BY <1>3, <1>4 DEF Goes
<1> HIDE DEF w
<1>6. v.at = at /\ v.state = w.state /\ WorkShape(v) BY <1>3, GoesTo DEF w
<1> HIDE DEF v
<1>7. /\ work' = [i \in Job |-> work'[i]] /\ work'[j] = v
      /\ \A i \in Job : i # j => work'[i] = work[i]
  BY <1>3, <1>5
<1>8. PICK m : m = Current(j) OBVIOUS
<1>9. /\ m \in Mail
      /\ inbox' \in Seq(Mail) /\ Elems(inbox') = Elems(inbox) \cup {m}
      /\ InOrder(inbox') /\ m.key <= lastKey
      /\ \A key \in remembered' : \E n \in Elems(inbox') : n.key = key
      /\ \A n \in Elems(inbox') : n.key \in remembered' \cup aged
      /\ m \in Elems(inbox) \/ (m \in Waiting /\ Above(m, Elems(inbox)))
      /\ \A n \in Elems(w.state.queue) : n = m \/ m.key < n.key
      /\ OneMailPerKey(Elems(inbox) \cup Waiting)
      /\ m \in Elems(w.state.queue)
  <2>1. IsSending(j) /\ inbox' = Delivered(m) /\ remembered' = remembered \cup {m.key}
    BY <1>1, <1>8 DEF IsSending, Delivered
  <2> QED BY <2>1, <1>8, SendDelivers DEF w
<1>10. OutboxOk /\ Sending(w) BY <1>1 DEF MailInv, IsSending, w
<1>11. Waiting' = Waiting BY <1>1 DEF Waiting
<1>12. \A n \in Waiting : n \in Elems(inbox') \/ Above(n, Elems(inbox'))
  <2>1. SUFFICES ASSUME NEW n \in Waiting PROVE n \in Elems(inbox') \/ Above(n, Elems(inbox'))
    OBVIOUS
  <2>2. n \in Elems(inbox) \/ Above(n, Elems(inbox)) BY <1>10 DEF OutboxOk, Arrived
  <2>3. n \in Elems(w.state.queue) \/ n \in Elems(inbox) \/ Above(n, Elems(w.state.queue))
    BY <1>10 DEF Sending, Arrived
  <2> QED BY <2>2, <2>3, <1>9 DEF Above
<1>13. OutboxOk'
  <2>1. /\ onchain \in Nat /\ MailRecord(outbox) /\ Queue(outbox.queue, lastKey)
        /\ aged \subseteq 1..lastKey /\ \A n \in Elems(inbox) : n.key <= lastKey
        /\ outbox.signature \in {0} \cup ReportsIn(Elems(inbox) \cup Waiting)
    BY <1>10 DEF OutboxOk, Queue
  <2>2. Queue(inbox', lastKey) BY <2>1, <1>9 DEF Queue
  <2>3. outbox.signature \in {0} \cup ReportsIn(Elems(inbox') \cup Waiting)
    BY <2>1, <1>9 DEF ReportsIn
  <2>4. Elems(inbox') \cup Waiting = Elems(inbox) \cup Waiting BY <1>9
  <2>5. OneMailPerKey(Elems(inbox') \cup Waiting) BY <2>4, <1>9
  <2> QED BY <2>1, <2>2, <2>3, <2>5, <1>1, <1>3, <1>9, <1>11, <1>12, Zenon
      DEF OutboxOk, Arrived, Queue, MailRecord
<1>14. \A i \in Job : WorkShape(work[i])'
  <2>1. \A i \in Job : WorkShape(work[i]) BY DEF MailInv
  <2> QED BY <2>1, <1>6, <1>7, Zenon DEF WorkShape
<1>15. ASSUME NEW i \in Job, IsSending(i)' PROVE Sending(work[i])'
  <2>1. i # j /\ work'[i] = work[i] /\ IsSending(i) BY <1>15, <1>6, <1>7 DEF IsSending
  <2>2. PICK u : u = work[i] OBVIOUS
  <2>3. Sending(u) BY <2>1, <2>2 DEF MailInv
  <2>4. \A n : Arrived(n) => Arrived(n)' BY <1>9 DEF Arrived
  <2>5. Sending(u)' BY <2>3, <2>4, <1>1, <1>11, Zenon DEF Sending, Queue
  <2> QED BY <2>1, <2>2, <2>5, Zenon DEF Sending
<1>16. ASSUME NEW i \in Job, Owns(i)' PROVE Holds(work[i], lastKey)'
  <2>1. Owns(i) BY <1>16, <1>1 DEF Owns
  <2>2. Holds(work[i], lastKey) BY <2>1 DEF MailInv
  <2>3. \A n : Arrived(n) => Arrived(n)' BY <1>9 DEF Arrived
  <2>4. CASE i = j
    <3>1. v.state = outbox BY <2>2, <2>4, <1>1, <1>6 DEF Holds, w
    <3>2. outbox.queue # <<>> /\ Head(outbox.queue) = m
      BY <2>2, <2>4, <1>1, <1>8, <1>10, <3>1, <1>6 DEF Sending, Current, w
    <3>3. PICK u : u = v OBVIOUS
    <3>4. u.at \in {"accepted", "end"} /\ u.state = outbox' /\ work'[i] = u
      BY <3>1, <3>3, <2>4, <1>1, <1>6, <1>7
    <3>5. outbox'.queue # <<>> /\ Arrived(Head(outbox.queue))' BY <3>2, <1>1, <1>9 DEF Arrived
    <3>6. Holds(u, lastKey)' BY <3>4, <3>5 DEF Holds
    <3> QED BY <3>4, <3>6, Zenon DEF Holds
  <2>5. CASE i # j
    <3>1. PICK u : u = work[i] OBVIOUS
    <3>2. Holds(u, lastKey) /\ work'[i] = u BY <3>1, <2>2, <2>5, <1>7
    <3>3. ASSUME NEW n, Fresh(n) PROVE Fresh(n)'
      <4>1. Above(n, Elems(inbox)) /\ Above(n, Waiting) /\ Above(n, Elems(w.state.queue))
        BY <3>3, <1>1 DEF Fresh, IsSending, w
      <4>2. Above(n, Elems(inbox')) BY <4>1, <1>9 DEF Above
      <4>3. ASSUME NEW k \in Job, IsSending(k)' PROVE Above(n, Elems(work'[k].state.queue))
        <5>1. k # j BY <4>3, <1>6, <1>7 DEF IsSending
        <5> QED BY <5>1, <4>3, <3>3, <1>7 DEF Fresh, IsSending
      <4> QED BY <4>1, <4>2, <4>3, <1>11, Zenon DEF Fresh
    <3>4. u.at = "save" => Saving(u.state, lastKey)'
      <4>1. SUFFICES ASSUME u.at = "save" PROVE Saving(u.state, lastKey)' OBVIOUS
      <4>2. PICK st : st = u.state OBVIOUS
      <4>3. Saving(st, lastKey) BY <4>1, <4>2, <3>2 DEF Holds
      <4>4. st.signature \in {0} \cup ReportsIn(Elems(inbox') \cup Elems(st.queue))
        BY <4>3, <1>9 DEF Saving, ReportsIn
      <4>5. Saving(st, lastKey)'
        BY <4>3, <4>4, <3>3, <2>3, <1>1, <1>11, Zenon DEF Saving, Queue, MailRecord
      <4> QED BY <4>2, <4>5
    <3>5. Holds(u, lastKey)' BY <3>2, <3>4, <2>3, <1>1, Zenon DEF Holds
    <3> QED BY <3>2, <3>5, Zenon DEF Holds
  <2> QED BY <2>4, <2>5
<1> QED BY <1>7, <1>13, <1>14, <1>15, <1>16, Zenon DEF MailInv

\* The outbox, the inbox and the runs agree at all times.
THEOREM MailInvariant == MailSpec => []MailInv
<1>1. MailInit => MailInv
  <2> SUFFICES ASSUME MailInit PROVE MailInv OBVIOUS
  <2>1. /\ onchain = 0 /\ outbox = [signature |-> 0, queue |-> <<>>]
        /\ monitorLease = NoJobHere /\ work = [j \in Job |-> NoWork]
        /\ inbox = <<>> /\ remembered = {} /\ aged = {} /\ lastKey = 0
    BY DEF MailInit
  <2>2. /\ <<>> \in Seq(Mail) /\ DOMAIN <<>> = {} BY EmptySeq
  <2>3. Elems(<<>>) = {} /\ Queue(<<>>, 0) BY <2>2 DEF Elems, Queue, InOrder
  <2>4. outbox.queue = <<>> /\ outbox.signature = 0 /\ MailRecord(outbox)
    BY <2>1 DEF MailRecord
  <2>5. OutboxOk BY <2>1, <2>3, <2>4 DEF OutboxOk, Waiting, OneMailPerKey
  <2>6. \A j \in Job : work[j] = NoWork /\ ~IsSending(j) /\ ~Owns(j) /\ WorkShape(work[j])
    BY <2>1, MailAssumption DEF IsSending, NoWork, Owns, WorkShape
  <2> QED BY <2>1, <2>5, <2>6 DEF MailInv
<1>2. ASSUME MailInv, [MailNext]_mailVars PROVE MailInv'
  <2>0. onchain \in Nat BY <1>2 DEF MailInv, OutboxOk
  <2>1. ASSUME UNCHANGED mailVars PROVE MailInv'
    BY <1>2, <2>0, <2>1, MailWaits DEF mailVars
  <2>2. ASSUME NEW j \in Job, EndRun(j) \/ DieRun(j) PROVE MailInv'
    BY <1>2, <2>2, NoWorkMoves DEF EndRun, DieRun
  <2>3. ASSUME LeaseRunsOut PROVE MailInv'
    BY <1>2, <2>0, <2>3, MailWaits DEF LeaseRunsOut
  <2>4. ASSUME ChainChanges PROVE MailInv'
    <3>1. onchain' \in Nat BY <2>0, <2>4 DEF ChainChanges
    <3> QED BY <1>2, <2>4, <3>1, MailWaits DEF ChainChanges
  <2>5. ASSUME Ages PROVE MailInv' BY <1>2, <2>5, MailForgets DEF Ages
  <2>6. ASSUME Forgets PROVE MailInv' BY <1>2, <2>6, MailForgets DEF Forgets
  <2> QED BY <1>2, <2>1, <2>2, <2>3, <2>4, <2>5, <2>6, MailStart, MailObserves, MailReadFails,
       MailSaves, MailPicks, MailSends, MailSendFails, MailAcknowledges DEF MailNext
<1> QED BY <1>1, <1>2, PTL DEF MailSpec

\* A report the monitor saved as told was delivered or is still owed, and mails are
\* delivered once and in order, whatever leases, runs and answers are lost
\* (notify-settlement.mjs, settlement-email.mjs): for any number of jobs and mails.
THEOREM MailKept == MailSpec => []MailTold
<1>1. MailInv => MailTold
  <2> SUFFICES ASSUME MailInv PROVE MailTold OBVIOUS
  <2>1. outbox.signature \in {0} \cup ReportsIn(Elems(inbox) \cup Waiting) /\ InOrder(inbox)
    BY DEF MailInv, OutboxOk, Queue
  <2>2. ReportsIn(Elems(inbox) \cup Waiting) \subseteq Told
    BY DEF ReportsIn, Elems, Waiting, Told
  <2> QED BY <2>1, <2>2 DEF MailTold, InOrder
<1> QED BY <1>1, MailInvariant, PTL
-----------------------------------------------------------------------------
(* Starter funds.  A payment can still land while the node holds it, or     *)
(* while it is on its way to the node with a nonce the chain has not used   *)
(* (Live).  The invariant says that at most one payment to a wallet is      *)
(* mined or can still be, and what a request at each point knows of it;     *)
(* steps of a request disturb no other wallet, because a request that acts  *)
(* on a wallet holds it (OnlyHolder), and steps of the chain only take      *)
(* possibilities away (PaymentChainStep).                                   *)

\* The fields of a request.
CallFields == {"at", "login", "target", "tx"}

\* A request that runs, or none.
CallShape(c) ==
  \/ c = Idle
  \/ /\ c = [f \in CallFields |-> c[f]]
     /\ c.at \in Point \ {"idle"} /\ c.login \in Account /\ c.target \in Wallet

\* The points at which a request holds its wallet.
Exclusive == Holding \ {"return"}

\* The points at which it holds its account.
Reserving == {"wallet"} \cup Exclusive

\* Reservations: an account is reserved by one running request, the wallet of a
\* request by its account.  A server that died leaves a reservation nobody holds.
KeysHeld ==
  /\ accountKey \in [Account -> {Free, "reserved", "sent"}]
  /\ walletKey \in [Wallet -> Account \cup {Free}]
  /\ call = [s \in Process |-> call[s]]
  /\ \A s \in Process : CallShape(call[s])
  /\ \A s \in Process : call[s].at \in Reserving => accountKey[call[s].login] = "reserved"
  /\ \A s \in Process : call[s].at \in Exclusive => walletKey[call[s].target] = call[s].login
  /\ \A s, t \in Process : /\ call[s].at \in Reserving /\ call[t].at \in Reserving
                           /\ call[s].login = call[t].login
                           => s = t

\* The payments to a wallet that are mined or can still be.
Live(w) ==
  {tx \in mempool \cup {x \in flight : x.nonce >= Taken} \cup {paid[n] : n \in DOMAIN paid} : tx.to = w}

\* One payment, to w.
One(w, txs) == \E tx \in Payment : txs = {tx} /\ tx.to = w

\* The types, the chain of payments, and at most one kept payment for each wallet.
Ledger ==
  /\ mempool \subseteq Payment /\ flight \subseteq Payment
  /\ funded \subseteq Wallet /\ slipped \subseteq Wallet
  /\ unsent = [w \in Wallet |-> unsent[w]]
  /\ \A w \in Wallet : unsent[w] = {} \/ One(w, unsent[w])
  /\ DOMAIN paid = 0..Taken - 1 /\ Taken \in 0..MaxPayment
  /\ \A n \in DOMAIN paid : paid[n] \in Payment /\ paid[n].nonce = n

\* The points before a payment is chosen.
Before == {"count", "kept", "nonce", "uncount", "release", "drop"}

\* The points at which a request carries its payment.
After == {"send", "failed", "keep", "forget", "record"}

\* What a request knows of its wallet: before it has chosen, only the kept payment can
\* still land; when it signs, nothing can; after, only the payment it carries.
Stage(c) ==
  /\ c.at \in Before /\ c.target \notin slipped => Live(c.target) \subseteq unsent[c.target]
  /\ c.at = "sign" /\ c.target \notin slipped => Live(c.target) = {}
  /\ c.at \in After => One(c.target, c.tx)
  /\ c.at \in After /\ c.target \notin slipped => Live(c.target) \subseteq c.tx
  /\ c.at \in {"forget", "record"} => \E tx \in c.tx : Seen(tx)

\* No two payments.
AtMostOne(txs) == \A x, y \in txs : x = y

\* At most one payment to a wallet is mined or can still be, unless the kept one
\* slipped.  While nobody has the wallet reserved it is the kept one.
Paying ==
  /\ \A w \in Wallet : w \notin slipped => AtMostOne(Live(w))
  /\ \A w \in Wallet : w \notin slipped /\ walletKey[w] = Free => Live(w) \subseteq unsent[w]
  /\ \A s \in Process : Stage(call[s])

\* The points at which a request is in the counter of the cap.
CountedAt == Holding \ {"count", "release"}

\* The points at which it found room under the cap.
PassedAt == CountedAt \ {"uncount"}

\* The requests in the counter.
Counted == {s \in Process : call[s].at \in CountedAt}

\* The requests that may send.
Passed == {s \in Process : call[s].at \in PassedAt}

\* The accounts that were told.
SentTo == {l \in Account : accountKey[l] = "sent"}

\* The counter covers what was sent and what may be, and so does the limit.
CapKept ==
  /\ today \in Nat
  /\ Cardinality(SentTo) + Cardinality(Counted) <= today
  /\ Cardinality(SentTo) + Cardinality(Passed) <= DailyLimit

\* The reservations, the payments and the cap.
StarterInv == KeysHeld /\ Ledger /\ Paying /\ SentIsPaid /\ CapKept
-----------------------------------------------------------------------------
\* How a step of a server moves its request.
Others(s) ==
  /\ call' = [t \in Process |-> call'[t]]
  /\ \A t \in Process : t # s => call'[t] = call[t]

\* A request goes on.
Moved(s, p, tx) ==
  /\ Others(s) /\ CallShape(call'[s])
  /\ call'[s].at = p /\ call'[s].tx = tx
  /\ call'[s].login = call[s].login /\ call'[s].target = call[s].target

\* A request ends.
Ended(s) == Others(s) /\ CallShape(call'[s]) /\ call'[s].at = "idle"

\* A running request as a record.
LEMMA CallIs ==
  ASSUME KeysHeld, NEW s \in Process, call[s].at # "idle"
  PROVE /\ call[s] = [f \in CallFields |-> call[s][f]]
        /\ call[s].at \in Point \ {"idle"} /\ call[s].login \in Account
        /\ call[s].target \in Wallet
  BY DEF KeysHeld, CallShape, Idle

\* A request that only goes on.
LEMMA CallGoes ==
  ASSUME KeysHeld, NEW s \in Process, call[s].at # "idle", NEW p \in Point \ {"idle"}, Goto(s, p)
  PROVE Moved(s, p, call[s].tx)
<1>1. /\ call[s] = [f \in CallFields |-> call[s][f]] /\ call[s].login \in Account
      /\ call[s].target \in Wallet /\ call = [t \in Process |-> call[t]]
  BY CallIs DEF KeysHeld
<1> DEFINE c == call[s]  d == [c EXCEPT !.at = p]
<1>2. call' = [call EXCEPT ![s] = d] BY <1>1 DEF Goto
<1> HIDE DEF c
<1>3. d = [f \in CallFields |-> d[f]] /\ d.at = p /\ d.tx = c.tx /\ d.login = c.login
      /\ d.target = c.target
  BY <1>1 DEF CallFields, c
<1> HIDE DEF d
<1>4. call'[s] = d /\ Others(s) BY <1>1, <1>2 DEF Others
<1> QED BY <1>1, <1>3, <1>4 DEF Moved, CallShape, c

\* A request that takes up a payment.
LEMMA CallCarries ==
  ASSUME KeysHeld, NEW s \in Process, call[s].at # "idle", NEW p \in Point \ {"idle"}, NEW tx,
         call' = [call EXCEPT ![s].at = p, ![s].tx = tx]
  PROVE Moved(s, p, tx)
<1>1. /\ call[s] = [f \in CallFields |-> call[s][f]] /\ call[s].login \in Account
      /\ call[s].target \in Wallet /\ call = [t \in Process |-> call[t]]
  BY CallIs DEF KeysHeld
<1> DEFINE c == call[s]  d == [c EXCEPT !.at = p, !.tx = tx]
<1>2. call' = [call EXCEPT ![s] = d] BY <1>1
<1> HIDE DEF c
<1>3. d = [f \in CallFields |-> d[f]] /\ d.at = p /\ d.tx = tx /\ d.login = c.login
      /\ d.target = c.target
  BY <1>1 DEF CallFields, c
<1> HIDE DEF d
<1>4. call'[s] = d /\ Others(s) BY <1>1, <1>2 DEF Others
<1> QED BY <1>1, <1>3, <1>4 DEF Moved, CallShape, c

\* A request that ends.
LEMMA CallEnds ==
  ASSUME KeysHeld, NEW s \in Process, Ends(s)
  PROVE Ended(s)
<1>1. call = [t \in Process |-> call[t]] BY DEF KeysHeld
<1> QED BY <1>1 DEF Ends, Ended, Others, CallShape, Idle
-----------------------------------------------------------------------------
(* The reservations.                                                        *)

\* No two requests hold one wallet.
LEMMA OnlyHolder ==
  ASSUME KeysHeld, NEW s \in Process, NEW t \in Process, call[s].at \in Exclusive,
         call[t].at \in Exclusive, call[s].target = call[t].target
  PROVE s = t
<1>1. walletKey[call[s].target] = call[s].login /\ walletKey[call[t].target] = call[t].login
  BY DEF KeysHeld
<1>2. call[s].login = call[t].login BY <1>1
<1> QED BY <1>2 DEF KeysHeld, Reserving

\* A step that leaves the reservations alone and takes none.
KeepsKeys(s) ==
  /\ UNCHANGED keys /\ Others(s) /\ CallShape(call'[s])
  /\ call'[s].at \in Reserving => call[s].at \in Reserving /\ call'[s].login = call[s].login
  /\ call'[s].at \in Exclusive => call[s].at \in Exclusive /\ call'[s].target = call[s].target

\* Such a step keeps the reservations.
LEMMA KeysKept ==
  ASSUME KeysHeld, NEW s \in Process, KeepsKeys(s) PROVE KeysHeld'
<1>1. /\ accountKey' = accountKey /\ walletKey' = walletKey
      /\ call' = [t \in Process |-> call'[t]]
      /\ \A t \in Process : t # s => call'[t] = call[t]
      /\ CallShape(call'[s])
  BY DEF KeepsKeys, keys, Others
<1>2. \A t \in Process : CallShape(call'[t]) BY <1>1, Zenon DEF KeysHeld
<1>3. \A t \in Process : /\ call'[t].at \in Reserving => call[t].at \in Reserving /\ call'[t].login = call[t].login
                         /\ call'[t].at \in Exclusive => call[t].at \in Exclusive /\ call'[t].target = call[t].target
                                                          /\ call'[t].login = call[t].login
  BY <1>1, Zenon DEF KeepsKeys, Reserving
<1>4. \A t \in Process : CallShape(call[t])' BY <1>2, Zenon DEF CallShape
<1> QED BY <1>1, <1>3, <1>4, Zenon DEF KeysHeld

\* SET NX of the account.
LEMMA AccountReserved ==
  ASSUME KeysHeld, NEW s \in Process, call[s].at = "account",
         accountKey[call[s].login] = Free, accountKey' = [accountKey EXCEPT ![call[s].login] = "reserved"],
         walletKey' = walletKey, Moved(s, "wallet", call[s].tx)
  PROVE KeysHeld'
<1> DEFINE l == call[s].login
<1>0. l \in Account BY CallIs
<1>1. /\ call' = [t \in Process |-> call'[t]] /\ \A t \in Process : t # s => call'[t] = call[t]
      /\ CallShape(call'[s]) /\ call'[s].at = "wallet" /\ call'[s].login = l
  BY DEF Moved, Others
<1>2. \A t \in Process : CallShape(call'[t]) BY <1>1, Zenon DEF KeysHeld
<1>4. \A t \in Process : CallShape(call[t])' BY <1>2, Zenon DEF CallShape
<1>5. Free # "reserved" BY StarterAssumption
<1>6. \A t \in Process : call[t].at \in Reserving => call[t].login # l BY <1>5 DEF KeysHeld
<1> HIDE DEF l
<1>7. /\ accountKey' = [accountKey EXCEPT ![l] = "reserved"]
      /\ accountKey' \in [Account -> {Free, "reserved", "sent"}]
      /\ accountKey'[l] = "reserved"
  BY <1>0 DEF KeysHeld, l
<1>8. call'[s].at \notin Exclusive /\ call'[s].at \in Reserving
  BY <1>1 DEF Exclusive, Holding, Point, Reserving
<1>9. \A t \in Process : call'[t].at \in Reserving => accountKey'[call'[t].login] = "reserved"
  <2>1. ASSUME NEW t \in Process, t # s, call'[t].at \in Reserving
        PROVE accountKey'[call'[t].login] = "reserved"
    <3>1. call'[t] = call[t] BY <2>1, <1>1
    <3>2. call[t].login # l /\ accountKey[call[t].login] = "reserved" BY <2>1, <3>1, <1>6 DEF KeysHeld
    <3>3. call[t].login \in Account BY <2>1, <3>1, CallIs DEF Reserving, Exclusive, Holding, Point
    <3> QED BY <3>1, <3>2, <3>3, <1>7 DEF KeysHeld
  <2> QED BY <2>1, <1>1, <1>7
<1>10. \A t \in Process : call'[t].at \in Exclusive => walletKey'[call'[t].target] = call'[t].login
  BY <1>1, <1>8 DEF KeysHeld
<1>11. \A t, u \in Process : /\ call'[t].at \in Reserving /\ call'[u].at \in Reserving
                             /\ call'[t].login = call'[u].login
                             => t = u
  BY <1>1, <1>6 DEF KeysHeld
<1> QED BY <1>1, <1>4, <1>7, <1>9, <1>10, <1>11, Zenon DEF KeysHeld

\* A server lets its reservations go, or makes them final.
LEMMA KeysLeft ==
  ASSUME KeysHeld, NEW s \in Process, call[s].at \in Reserving, NEW a \in {Free, "sent"}, NEW k,
         k \in {Free, walletKey[call[s].target]},
         k # walletKey[call[s].target] => call[s].at \in Exclusive,
         accountKey' = [accountKey EXCEPT ![call[s].login] = a],
         walletKey' = [walletKey EXCEPT ![call[s].target] = k],
         Others(s), CallShape(call'[s]), call'[s].at \notin Reserving
  PROVE KeysHeld'
<1>1. PICK l, w : l = call[s].login /\ w = call[s].target OBVIOUS
<1>2. l \in Account /\ w \in Wallet BY <1>1, CallIs DEF Reserving, Exclusive, Holding, Point
<1>3. /\ call' = [t \in Process |-> call'[t]] /\ \A t \in Process : t # s => call'[t] = call[t]
  BY DEF Others
<1>4. \A t \in Process : CallShape(call[t])'
  <2>1. \A t \in Process : CallShape(call'[t]) BY <1>3, Zenon DEF KeysHeld
  <2> QED BY <2>1, Zenon DEF CallShape
<1>5. /\ accountKey' \in [Account -> {Free, "reserved", "sent"}]
      /\ \A m \in Account : m # l => accountKey'[m] = accountKey[m]
  BY <1>1, <1>2 DEF KeysHeld
<1>6. /\ walletKey' \in [Wallet -> Account \cup {Free}]
      /\ walletKey'[w] = k
      /\ \A v \in Wallet : v # w => walletKey'[v] = walletKey[v]
  <2>1. walletKey \in [Wallet -> Account \cup {Free}] BY DEF KeysHeld
  <2>2. k \in Account \cup {Free} BY <1>1, <1>2, <2>1
  <2> QED BY <1>1, <1>2, <2>1, <2>2
<1>7. ASSUME NEW t \in Process, call'[t].at \in Reserving
      PROVE /\ t # s /\ call'[t] = call[t] /\ call[t].at \in Reserving /\ call[t].login # l
            /\ call[t].login \in Account /\ call[t].target \in Wallet
            /\ call[t].at \in Exclusive => (call[t].target # w \/ k = walletKey[w])
  <2>1. t # s /\ call'[t] = call[t] /\ call[t].at \in Reserving BY <1>3, <1>7
  <2>2. call[t].login # l BY <2>1, <1>1 DEF KeysHeld
  <2>3. call[t].login \in Account /\ call[t].target \in Wallet
    BY <2>1, CallIs DEF Reserving, Exclusive, Holding, Point
  <2>4. ASSUME call[t].at \in Exclusive, call[t].target = w PROVE k = walletKey[w]
    <3>1. CASE call[s].at \in Exclusive
      BY <3>1, <2>1, <2>4, <1>1, OnlyHolder
    <3>2. CASE call[s].at \notin Exclusive BY <3>2, <1>1
    <3> QED BY <3>1, <3>2
  <2> QED BY <2>1, <2>2, <2>3, <2>4
<1>8. \A t \in Process : call'[t].at \in Reserving => accountKey'[call'[t].login] = "reserved"
  BY <1>5, <1>7 DEF KeysHeld
<1>9. \A t \in Process : call'[t].at \in Exclusive => walletKey'[call'[t].target] = call'[t].login
  <2>1. ASSUME NEW t \in Process, call'[t].at \in Exclusive
        PROVE walletKey'[call'[t].target] = call'[t].login
    <3>1. call'[t].at \in Reserving BY <2>1 DEF Reserving
    <3>2. walletKey[call[t].target] = call[t].login BY <2>1, <3>1, <1>7 DEF KeysHeld
    <3> QED BY <2>1, <3>1, <3>2, <1>6, <1>7
  <2> QED BY <2>1
<1>10. \A t, u \in Process : /\ call'[t].at \in Reserving /\ call'[u].at \in Reserving
                             /\ call'[t].login = call'[u].login
                             => t = u
  BY <1>7 DEF KeysHeld
<1> QED BY <1>3, <1>4, <1>5, <1>6, <1>8, <1>9, <1>10, Zenon DEF KeysHeld

\* SET NX of the wallet.
LEMMA WalletReserved ==
  ASSUME KeysHeld, NEW s \in Process, call[s].at = "wallet",
         walletKey[call[s].target] = Free, accountKey' = accountKey,
         walletKey' = [walletKey EXCEPT ![call[s].target] = call[s].login],
         Moved(s, "count", call[s].tx)
  PROVE KeysHeld'
<1>1. PICK l, w : l = call[s].login /\ w = call[s].target OBVIOUS
<1>2. l \in Account /\ w \in Wallet /\ call[s].at \in Reserving
  BY <1>1, CallIs DEF Reserving, Exclusive, Holding, Point
<1>3. /\ call' = [t \in Process |-> call'[t]] /\ \A t \in Process : t # s => call'[t] = call[t]
      /\ call'[s].at = "count" /\ call'[s].login = l /\ call'[s].target = w
  BY <1>1 DEF Others, Moved
<1>4. \A t \in Process : CallShape(call[t])'
  <2>1. \A t \in Process : CallShape(call'[t]) BY <1>3, Zenon DEF KeysHeld, Moved
  <2> QED BY <2>1, Zenon DEF CallShape
<1>6. /\ walletKey' \in [Wallet -> Account \cup {Free}]
      /\ walletKey'[w] = l
      /\ \A v \in Wallet : v # w => walletKey'[v] = walletKey[v]
  BY <1>1, <1>2 DEF KeysHeld
<1>7. \A t \in Process : call'[t].at \in Reserving => call[t].at \in Reserving /\ call'[t].login = call[t].login
  BY <1>1, <1>2, <1>3
<1>8. \A t \in Process : call'[t].at \in Reserving => accountKey'[call'[t].login] = "reserved"
  BY <1>7 DEF KeysHeld
<1>9. ASSUME NEW t \in Process, call'[t].at \in Exclusive
      PROVE walletKey'[call'[t].target] = call'[t].login
  <2>1. CASE t = s BY <2>1, <1>3, <1>6
  <2>2. CASE t # s
    <3>1. call'[t] = call[t] /\ call[t].at \in Exclusive BY <2>2, <1>3, <1>9
    <3>2. walletKey[call[t].target] = call[t].login BY <3>1 DEF KeysHeld
    <3>3. call[t].login \in Account /\ call[t].target \in Wallet
      BY <3>1, CallIs DEF Exclusive, Holding, Point
    <3>4. walletKey[w] = Free /\ Free \notin Account BY <1>1, StarterAssumption
    <3>5. call[t].target # w BY <3>2, <3>3, <3>4
    <3> QED BY <3>1, <3>2, <3>3, <3>5, <1>6
  <2> QED BY <2>1, <2>2
<1>10. \A t, u \in Process : /\ call'[t].at \in Reserving /\ call'[u].at \in Reserving
                             /\ call'[t].login = call'[u].login
                             => t = u
  BY <1>7 DEF KeysHeld
<1> QED BY <1>3, <1>4, <1>6, <1>8, <1>9, <1>10, Zenon DEF KeysHeld
-----------------------------------------------------------------------------
(* What the node holds.                                                     *)

\* When a payment can still land.
LEMMA LiveIs ==
  ASSUME NEW w, NEW tx
  PROVE tx \in Live(w) <=> /\ tx.to = w
                           /\ \/ tx \in mempool
                              \/ tx \in flight /\ tx.nonce >= Taken
                              \/ \E n \in DOMAIN paid : tx = paid[n]
BY Zenon DEF Live

\* What can land depends on the node, the chain and what is under way.
LEMMA LiveSame ==
  ASSUME mempool' = mempool, flight' = flight, paid' = paid
  PROVE /\ \A w : Live(w)' = Live(w)
        /\ \A tx : Seen(tx)' <=> Seen(tx)
BY DEF Live, Seen, Taken

\* A step of a server that holds a wallet disturbs no other wallet.
LEMMA PayingSteps ==
  ASSUME KeysHeld, Paying, NEW s \in Process, Others(s),
         call[s].at \in Exclusive, NEW w, w = call[s].target,
         \A v \in Wallet : v # w => Live(v)' \subseteq Live(v) /\ unsent'[v] = unsent[v]
                                                 /\ walletKey'[v] = walletKey[v],
         slipped \subseteq slipped',
         \A tx : Seen(tx) => Seen(tx)',
         w \notin slipped' => AtMostOne(Live(w))',
         w \notin slipped' /\ walletKey'[w] = Free => Live(w)' \subseteq unsent'[w],
         Stage(call[s])'
  PROVE Paying'
<1>1. w = call[s].target OBVIOUS
<1>2. ASSUME NEW v \in Wallet, v \notin slipped' PROVE AtMostOne(Live(v))'
  <2>1. CASE v = w BY <2>1, <1>1, <1>2
  <2>2. CASE v # w
    <3>1. Live(v)' \subseteq Live(v) /\ v \notin slipped BY <2>2, <1>1, <1>2
    <3> QED BY <3>1 DEF Paying, AtMostOne
  <2> QED BY <2>1, <2>2
<1>3. ASSUME NEW v \in Wallet, v \notin slipped', walletKey'[v] = Free
      PROVE Live(v)' \subseteq unsent'[v]
  <2>1. CASE v = w BY <2>1, <1>1, <1>3
  <2>2. CASE v # w
    <3>1. Live(v)' \subseteq Live(v) /\ unsent'[v] = unsent[v] /\ v \notin slipped /\ walletKey[v] = Free
      BY <2>2, <1>1, <1>3
    <3> QED BY <3>1 DEF Paying
  <2> QED BY <2>1, <2>2
<1>4. ASSUME NEW t \in Process, t # s PROVE Stage(call[t])'
  <2>1. PICK c : c = call[t] OBVIOUS
  <2>2. c = call'[t] BY <2>1, <1>4 DEF Others
  <2>3. Stage(c) BY <2>1 DEF Paying
  <2>4. CASE c.at \in Exclusive
    <3>1. c.target # w BY <2>1, <2>4, <1>1, <1>4, OnlyHolder
    <3>2. c.target \in Wallet BY <2>1, <2>4, CallIs DEF Exclusive, Holding, Point
    <3>3. Live(c.target)' \subseteq Live(c.target) /\ unsent'[c.target] = unsent[c.target]
      BY <3>1, <3>2, <1>1
    <3>4. c.target \notin slipped' => c.target \notin slipped OBVIOUS
    <3>5. Stage(c)' BY <2>3, <3>3, <3>4, Zenon DEF Stage
    <3> QED BY <2>2, <3>5, Zenon DEF Stage
  <2>5. CASE c.at \notin Exclusive
    <3>1. c.at \notin Before \cup After \cup {"sign", "forget", "record"}
      BY <2>5 DEF Before, After, Exclusive, Holding, Point
    <3>2. Stage(c)' BY <3>1, Zenon DEF Stage
    <3> QED BY <2>2, <3>2, Zenon DEF Stage
  <2> QED BY <2>4, <2>5
<1> QED BY <1>2, <1>3, <1>4, Zenon DEF Paying

\* A step of a server that holds no wallet and reaches no stage of a payment.
LEMMA PayingRests ==
  ASSUME Paying, NEW s \in Process, Others(s),
         UNCHANGED <<unsent, mempool, flight, paid, slipped>>,
         \A v \in Wallet : v \notin slipped /\ walletKey'[v] = Free => Live(v) \subseteq unsent[v],
         Stage(call[s])'
  PROVE Paying'
<1>1. /\ \A w : Live(w)' = Live(w)
      /\ \A tx : Seen(tx)' <=> Seen(tx)
  BY LiveSame
<1>2. unsent' = unsent /\ slipped' = slipped OBVIOUS
<1>4. ASSUME NEW t \in Process, t # s PROVE Stage(call[t])'
  <2>1. PICK c : c = call[t] OBVIOUS
  <2>2. c = call'[t] BY <2>1, <1>4 DEF Others
  <2>3. Stage(c) BY <2>1 DEF Paying
  <2>4. Stage(c)' BY <1>1, <1>2, <2>3, Zenon DEF Stage
  <2> QED BY <2>2, <2>4, Zenon DEF Stage
<1>5. \A w \in Wallet : w \notin slipped' => AtMostOne(Live(w))' BY <1>1, <1>2, Zenon DEF Paying, AtMostOne
<1> QED BY <1>1, <1>2, <1>4, <1>5, Zenon DEF Paying

\* A kept payment is replaced or forgotten.
LEMMA LedgerKeeps ==
  ASSUME Ledger, UNCHANGED network, slipped' \subseteq Wallet,
         NEW w, NEW u, u = {} \/ One(w, u), unsent' = [unsent EXCEPT ![w] = u]
  PROVE Ledger'
<1>1. /\ mempool' = mempool /\ flight' = flight /\ paid' = paid /\ funded' = funded BY DEF network
<1>2. /\ unsent' = [v \in Wallet |-> unsent'[v]]
      /\ \A v \in Wallet : unsent'[v] = IF v = w THEN u ELSE unsent[v]
  BY DEF Ledger
<1>3. \A v \in Wallet : unsent'[v] = {} \/ One(v, unsent'[v]) BY <1>2, Zenon DEF Ledger
<1>4. Taken' = Taken BY <1>1 DEF Taken
<1> QED BY <1>1, <1>2, <1>3, <1>4, Zenon DEF Ledger, One

\* Nothing is sent and nothing kept.
LEMMA LedgerRests ==
  ASSUME Ledger, UNCHANGED network, unsent' = unsent, slipped' \subseteq Wallet
  PROVE Ledger'
<1>1. /\ mempool' = mempool /\ flight' = flight /\ paid' = paid /\ funded' = funded BY DEF network
<1>4. Taken' = Taken BY <1>1 DEF Taken
<1> QED BY <1>1, <1>4, Zenon DEF Ledger, One
-----------------------------------------------------------------------------
\* What an account was told stays true while no payment disappears.
LEMMA SentRests ==
  ASSUME SentIsPaid,
         \A l \in Account : accountKey'[l] = "sent" => accountKey[l] = "sent",
         \A w \in Wallet : walletKey[w] \in Account /\ accountKey[walletKey[w]] = "sent" => walletKey'[w] = walletKey[w],
         \A tx : Seen(tx) => Seen(tx)'
  PROVE SentIsPaid'
<1> SUFFICES ASSUME NEW l \in Account, accountKey'[l] = "sent"
             PROVE \E w \in Wallet : /\ walletKey'[w] = l
                     /\ \E tx \in mempool' \cup {paid'[n] : n \in DOMAIN paid'} : tx.to = w
  BY DEF SentIsPaid
<1>1. PICK w \in Wallet : /\ walletKey[w] = l
                     /\ \E tx \in mempool \cup {paid[n] : n \in DOMAIN paid} : tx.to = w
  BY DEF SentIsPaid
<1>2. PICK tx \in mempool \cup {paid[n] : n \in DOMAIN paid} : tx.to = w BY <1>1
<1>3. Seen(tx) BY <1>2, Zenon DEF Seen
<1>4. Seen(tx)' BY <1>3
<1>5. tx \in mempool' \cup {paid'[n] : n \in DOMAIN paid'} BY <1>4, Zenon DEF Seen
<1>6. walletKey'[w] = l BY <1>1
<1> QED BY <1>2, <1>5, <1>6
-----------------------------------------------------------------------------
\* The finite sets that are counted.
LEMMA CapFinite ==
  ASSUME TRUE
  PROVE /\ IsFiniteSet(Counted) /\ IsFiniteSet(Passed) /\ IsFiniteSet(SentTo)
        /\ Cardinality(Counted) \in Nat /\ Cardinality(Passed) \in Nat /\ Cardinality(SentTo) \in Nat
<1>1. Counted \in SUBSET Process /\ Passed \in SUBSET Process /\ SentTo \in SUBSET Account
  BY DEF Counted, Passed, SentTo
<1> QED BY <1>1, StarterAssumption, FS_Subset, FS_CardinalityType

\* A subset has no more members.
LEMMA Fewer ==
  ASSUME NEW S, NEW T, IsFiniteSet(S), T \subseteq S
  PROVE Cardinality(T) \in Nat /\ Cardinality(S) \in Nat /\ Cardinality(T) <= Cardinality(S)
BY FS_Subset, FS_CardinalityType

\* One more member adds at most one.
LEMMA OneMore ==
  ASSUME NEW S, IsFiniteSet(S), NEW x
  PROVE /\ IsFiniteSet(S \cup {x}) /\ Cardinality(S \cup {x}) \in Nat
        /\ Cardinality(S) \in Nat /\ Cardinality(S \cup {x}) <= Cardinality(S) + 1
<1>1. Cardinality(S) \in Nat BY FS_CardinalityType
<1>2. PICK n : n = Cardinality(S) OBVIOUS
<1>3. IsFiniteSet(S \cup {x}) /\ Cardinality(S \cup {x}) = IF x \in S THEN n ELSE n + 1
  BY <1>2, FS_AddElement
<1> QED BY <1>1, <1>2, <1>3

\* A step that counts nobody.
LEMMA CapRests ==
  ASSUME CapKept, NEW s \in Process, Others(s), today' = today,
         \A l \in Account : accountKey'[l] = "sent" => accountKey[l] = "sent",
         call'[s].at \in CountedAt => call[s].at \in CountedAt,
         call'[s].at \in PassedAt => call[s].at \in PassedAt
  PROVE CapKept'
<1>1. Counted' \subseteq Counted /\ Passed' \subseteq Passed BY DEF Counted, Passed, Others
<1>2. SentTo' \subseteq SentTo BY DEF SentTo
<1> DEFINE a == Cardinality(Counted)  b == Cardinality(Passed)  c == Cardinality(SentTo)
           d == Cardinality(Counted')  e == Cardinality(Passed')  f == Cardinality(SentTo')
<1>3. d <= a /\ e <= b /\ f <= c /\ a \in Nat /\ b \in Nat /\ c \in Nat /\ d \in Nat /\ e \in Nat /\ f \in Nat
  BY <1>1, <1>2, CapFinite, Fewer
<1>4. today \in Nat /\ c + a <= today /\ c + b <= DailyLimit BY DEF CapKept
<1>5. DailyLimit \in Nat BY StarterAssumption
<1> HIDE DEF a, b, c, d, e, f
<1>6. f + d <= today /\ f + e <= DailyLimit BY <1>3, <1>4, <1>5
<1> QED BY <1>4, <1>6 DEF CapKept, d, e, f

\* INCR: the answer decides.
LEMMA CapCounts ==
  ASSUME CapKept, NEW s \in Process, Others(s), today' = today + 1, accountKey' = accountKey,
         call[s].at = "count",
         call'[s].at = IF today + 1 <= DailyLimit THEN "kept" ELSE "uncount"
  PROVE CapKept'
<1>1. s \notin Counted BY DEF Counted, CountedAt
<1>2. Counted' = Counted \cup {s}
  BY DEF Counted, Others, CountedAt, Holding, Point
<1>3. Passed \subseteq Counted BY DEF Passed, Counted, PassedAt
<1>4. Passed' \subseteq IF today + 1 <= DailyLimit THEN Passed \cup {s} ELSE Passed
  BY DEF Passed, Others, PassedAt, CountedAt, Holding, Point
<1>5. SentTo' = SentTo BY DEF SentTo
<1> DEFINE a == Cardinality(Counted)  b == Cardinality(Passed)  c == Cardinality(SentTo)
           d == Cardinality(Counted')  e == Cardinality(Passed')
<1>6. a \in Nat /\ b \in Nat /\ c \in Nat /\ d = a + 1 /\ b <= a
  BY <1>1, <1>2, <1>3, CapFinite, FS_AddElement, Fewer
<1>7. e \in Nat /\ e <= IF today + 1 <= DailyLimit THEN b + 1 ELSE b
  <2>1. CASE today + 1 <= DailyLimit
    <3>1. Passed' \subseteq Passed \cup {s} BY <2>1, <1>4
    <3>2. IsFiniteSet(Passed \cup {s}) /\ Cardinality(Passed \cup {s}) <= b + 1
      BY CapFinite, OneMore
    <3>3. e \in Nat /\ e <= Cardinality(Passed \cup {s}) /\ Cardinality(Passed \cup {s}) \in Nat
      BY <3>1, <3>2, Fewer
    <3> HIDE DEF e, b
    <3>4. e <= b + 1 BY <3>2, <3>3, <1>6
    <3> QED BY <3>3, <3>4, <2>1
  <2>2. CASE ~(today + 1 <= DailyLimit)
    <3>1. Passed' \subseteq Passed BY <2>2, <1>4
    <3> QED BY <3>1, <2>2, CapFinite, Fewer
  <2> QED BY <2>1, <2>2
<1>8. today \in Nat /\ c + a <= today /\ c + b <= DailyLimit BY DEF CapKept
<1>9. DailyLimit \in Nat BY StarterAssumption
<1> HIDE DEF a, b, c, d, e
<1>10. today + 1 \in Nat /\ c + d <= today + 1 /\ c + e <= DailyLimit BY <1>6, <1>7, <1>8, <1>9
<1> QED BY <1>5, <1>10 DEF CapKept, c, d, e

\* DECR: a request takes back what it counted.
LEMMA CapReturns ==
  ASSUME CapKept, NEW s \in Process, Others(s), today' = today - 1, accountKey' = accountKey,
         call[s].at \in CountedAt, call'[s].at \notin CountedAt
  PROVE CapKept'
<1>1. s \in Counted /\ Counted' = Counted \ {s} BY DEF Counted, Others
<1>2. Passed' \subseteq Passed BY DEF Passed, Others, PassedAt
<1>5. SentTo' = SentTo BY DEF SentTo
<1> DEFINE a == Cardinality(Counted)  b == Cardinality(Passed)  c == Cardinality(SentTo)
           d == Cardinality(Counted')  e == Cardinality(Passed')
<1>6. a \in Nat /\ b \in Nat /\ c \in Nat /\ d = a - 1 /\ e <= b /\ e \in Nat /\ d \in Nat
  BY <1>1, <1>2, CapFinite, FS_RemoveElement, FS_CardinalityType, Fewer
<1>8. today \in Nat /\ c + a <= today /\ c + b <= DailyLimit BY DEF CapKept
<1>9. DailyLimit \in Nat BY StarterAssumption
<1> HIDE DEF a, b, c, d, e
<1>10. today - 1 \in Nat /\ c + d <= today - 1 /\ c + e <= DailyLimit BY <1>6, <1>8, <1>9
<1> QED BY <1>5, <1>10 DEF CapKept, c, d, e

\* A request that was counted becomes an account that was told.
LEMMA CapSends ==
  ASSUME CapKept, NEW s \in Process, Others(s), today' = today, NEW l \in Account,
         \A m \in Account : accountKey'[m] = "sent" => m = l \/ accountKey[m] = "sent",
         call[s].at = "record", call'[s].at = "idle"
  PROVE CapKept'
<1>1. s \in Counted /\ Counted' = Counted \ {s}
  BY DEF Counted, Others, CountedAt, Holding, Point
<1>2. s \in Passed /\ Passed' = Passed \ {s}
  BY DEF Passed, Others, PassedAt, CountedAt, Holding, Point
<1>5. SentTo' \subseteq SentTo \cup {l} BY DEF SentTo
<1> DEFINE a == Cardinality(Counted)  b == Cardinality(Passed)  c == Cardinality(SentTo)
           d == Cardinality(Counted')  e == Cardinality(Passed')  f == Cardinality(SentTo')
<1>6. a \in Nat /\ b \in Nat /\ c \in Nat /\ d = a - 1 /\ e = b - 1 /\ e \in Nat /\ d \in Nat
  BY <1>1, <1>2, CapFinite, FS_RemoveElement, FS_CardinalityType
<1>7. f \in Nat /\ f <= c + 1
  <2>1. IsFiniteSet(SentTo \cup {l}) /\ Cardinality(SentTo \cup {l}) <= c + 1
    BY CapFinite, OneMore
  <2>2. f \in Nat /\ f <= Cardinality(SentTo \cup {l}) /\ Cardinality(SentTo \cup {l}) \in Nat
    BY <1>5, <2>1, Fewer
  <2> HIDE DEF f, c
  <2> QED BY <2>1, <2>2, <1>6
<1>8. today \in Nat /\ c + a <= today /\ c + b <= DailyLimit BY DEF CapKept
<1>9. DailyLimit \in Nat BY StarterAssumption
<1> HIDE DEF a, b, c, d, e, f
<1>10. f + d <= today /\ f + e <= DailyLimit BY <1>6, <1>7, <1>8, <1>9
<1> QED BY <1>8, <1>10 DEF CapKept, d, e, f

\* A step of a server that sends nothing and keeps nothing.
LEMMA QuietStep ==
  ASSUME StarterInv, NEW s \in Process, Others(s), UNCHANGED <<unsent, network, slipped>>,
         KeysHeld', CapKept',
         \A l \in Account : accountKey'[l] = "sent" => accountKey[l] = "sent",
         \A w \in Wallet : walletKey[w] \in Account /\ accountKey[walletKey[w]] = "sent" => walletKey'[w] = walletKey[w],
         \A v \in Wallet : v \notin slipped /\ walletKey'[v] = Free => Live(v) \subseteq unsent[v],
         Stage(call[s])'
  PROVE StarterInv'
<1>1. Ledger' BY LedgerRests DEF StarterInv, Ledger
<1>2. mempool' = mempool /\ flight' = flight /\ paid' = paid BY DEF network
<1>3. \A tx : Seen(tx) => Seen(tx)' BY <1>2, LiveSame
<1>4. SentIsPaid' BY <1>3, SentRests DEF StarterInv
<1>5. Paying' BY <1>2, PayingRests DEF StarterInv
<1> QED BY <1>1, <1>4, <1>5 DEF StarterInv

\* What a step that goes to another point keeps of the facts about its stage.
LEMMA StageIdle ==
  ASSUME NEW c, c.at \in {"idle", "account", "wallet", "return"} PROVE Stage(c)
BY DEF Stage, Before, After

\* What a request knows stays, when nothing it knows of changes.
LEMMA StageNext ==
  ASSUME NEW s, Stage(call'[s]), mempool' = mempool, flight' = flight, paid' = paid,
         unsent' = unsent, slipped' = slipped
  PROVE Stage(call[s])'
<1>1. (\A w : Live(w)' = Live(w)) /\ \A tx : Seen(tx)' <=> Seen(tx) BY LiveSame
<1> QED BY <1>1, Zenon DEF Stage

\* Reservations that are left alone.
LEMMA NoneSlips ==
  ASSUME UNCHANGED keys
  PROVE /\ \A l \in Account : accountKey'[l] = "sent" => accountKey[l] = "sent"
        /\ \A w \in Wallet : walletKey[w] \in Account /\ accountKey[walletKey[w]] = "sent" => walletKey'[w] = walletKey[w]
BY DEF keys

\* The step of a server that changes neither the reservations nor what is sent.
LEMMA StillStep ==
  ASSUME StarterInv, NEW s \in Process, UNCHANGED <<keys, unsent, network, slipped>>,
         KeepsKeys(s), CapKept', Stage(call'[s])
  PROVE StarterInv'
<1>1. KeysHeld' BY KeysKept DEF StarterInv
<1>2. mempool' = mempool /\ flight' = flight /\ paid' = paid BY DEF network
<1>3. Stage(call[s])' BY <1>2, StageNext
<1>4. walletKey' = walletKey BY DEF keys
<1>5. \A v \in Wallet : v \notin slipped /\ walletKey'[v] = Free => Live(v) \subseteq unsent[v]
  BY <1>4 DEF StarterInv, Paying
<1>6. Others(s) BY DEF KeepsKeys
<1> QED BY <1>1, <1>3, <1>5, <1>6, NoneSlips, QuietStep

\* A request begins.
LEMMA BeginSteps ==
  ASSUME StarterInv, NEW s \in Process, NEW l \in Account, NEW w \in Wallet, Begin(s, l, w)
  PROVE StarterInv'
<1>1. call[s].at = "idle" /\ UNCHANGED <<keys, today, unsent, network, slipped>>
  BY DEF Begin, At, faults
<1> DEFINE c == [at |-> "account", login |-> l, target |-> w, tx |-> {}]
<1>2. call' = [call EXCEPT ![s] = c] BY DEF Begin
<1>3. call = [t \in Process |-> call[t]] BY DEF StarterInv, KeysHeld
<1>4. CallShape(c) /\ c.at = "account" BY DEF CallShape, CallFields, Point
<1> HIDE DEF c
<1>5. Others(s) /\ call'[s] = c BY <1>2, <1>3 DEF Others
<1>6. KeepsKeys(s) BY <1>1, <1>4, <1>5 DEF KeepsKeys, Reserving, Exclusive, Holding
<1>7. accountKey' = accountKey /\ today' = today BY <1>1 DEF keys
<1>8. CapKept' BY <1>4, <1>5, <1>7, CapRests DEF StarterInv, CountedAt, PassedAt, Holding
<1>9. Stage(call'[s]) BY <1>4, <1>5, StageIdle
<1> QED BY <1>1, <1>6, <1>8, <1>9, StillStep

\* A request ends: it returns its share of the cap, or the server dies.
LEMMA EndSteps ==
  ASSUME StarterInv, NEW s \in Process, Ends(s), UNCHANGED <<keys, unsent, network, slipped>>,
         today' = today \/ (call[s].at = "return" /\ today' = today - 1)
  PROVE StarterInv'
<1>1. Ended(s) BY CallEnds DEF StarterInv
<1>2. Others(s) /\ CallShape(call'[s]) /\ call'[s].at = "idle" BY <1>1 DEF Ended
<1>3. KeepsKeys(s) BY <1>2 DEF KeepsKeys, Reserving, Exclusive, Holding
<1>4. Stage(call'[s]) BY <1>2, StageIdle
<1>5. accountKey' = accountKey BY DEF keys
<1>6. call'[s].at \notin CountedAt /\ call'[s].at \notin PassedAt
  BY <1>2 DEF CountedAt, PassedAt, Holding
<1>7. CASE today' = today
  <2>1. CapKept' BY <1>2, <1>5, <1>6, <1>7, CapRests DEF StarterInv
  <2> QED BY <2>1, <1>3, <1>4, StillStep
<1>8. CASE call[s].at = "return" /\ today' = today - 1
  <2>1. call[s].at \in CountedAt BY <1>8 DEF CountedAt, Holding, Point
  <2>2. CapKept' BY <2>1, <1>2, <1>5, <1>6, <1>8, CapReturns DEF StarterInv
  <2> QED BY <2>2, <1>3, <1>4, StillStep
<1> QED BY <1>7, <1>8

\* The account.
LEMMA ReserveAccountSteps ==
  ASSUME StarterInv, NEW s \in Process, ReserveAccount(s) PROVE StarterInv'
<1> DEFINE l == call[s].login
<1>1. call[s].at = "account" /\ UNCHANGED <<walletKey, today, unsent, network, slipped>>
  BY DEF ReserveAccount, At, faults
<1>2. CASE accountKey[l] = Free
  <2>1. accountKey' = [accountKey EXCEPT ![l] = "reserved"] /\ Goto(s, "wallet")
    BY <1>2 DEF ReserveAccount
  <2>2. Moved(s, "wallet", call[s].tx) BY <1>1, <2>1, CallGoes DEF StarterInv, Point
  <2>3. KeysHeld' BY <1>1, <1>2, <2>1, <2>2, AccountReserved DEF StarterInv
  <2>4. Others(s) /\ call'[s].at = "wallet" BY <2>2 DEF Moved
  <2>5. l \in Account /\ accountKey \in [Account -> {Free, "reserved", "sent"}]
    BY <1>1, CallIs DEF StarterInv, KeysHeld
  <2>6. \A m \in Account : accountKey'[m] = "sent" => accountKey[m] = "sent" BY <2>1, <2>5
  <2>7. CapKept' BY <2>4, <2>6, <1>1, CapRests DEF StarterInv, CountedAt, PassedAt, Holding
  <2>8. Stage(call[s])'
    <3>1. Stage(call'[s]) BY <2>4, StageIdle
    <3> QED BY <3>1, <1>1, StageNext DEF network
  <2>9. \A v \in Wallet : v \notin slipped /\ walletKey'[v] = Free => Live(v) \subseteq unsent[v]
    BY <1>1 DEF StarterInv, Paying
  <2> QED BY <1>1, <2>3, <2>4, <2>6, <2>7, <2>8, <2>9, QuietStep
<1>3. CASE accountKey[l] # Free
  <2>1. Ends(s) /\ UNCHANGED keys BY <1>1, <1>3 DEF ReserveAccount, keys
  <2> QED BY <1>1, <2>1, EndSteps
<1> QED BY <1>2, <1>3

\* The wallet, or the account goes back.
LEMMA ReserveWalletSteps ==
  ASSUME StarterInv, NEW s \in Process, ReserveWallet(s) PROVE StarterInv'
<1>0. PICK l, w : l = call[s].login /\ w = call[s].target OBVIOUS
<1>1. call[s].at = "wallet" /\ UNCHANGED <<today, unsent, network, slipped>>
  BY DEF ReserveWallet, At, faults
<1>2. KeysHeld /\ l \in Account /\ w \in Wallet /\ call[s].at \in Reserving
      /\ accountKey[l] = "reserved"
      /\ accountKey \in [Account -> {Free, "reserved", "sent"}]
      /\ walletKey \in [Wallet -> Account \cup {Free}]
  BY <1>0, <1>1, CallIs DEF StarterInv, KeysHeld, Reserving
<1>3. CASE walletKey[w] = Free
  <2>1. walletKey' = [walletKey EXCEPT ![w] = l] /\ Goto(s, "count") /\ accountKey' = accountKey
    BY <1>0, <1>3 DEF ReserveWallet, WalletFree
  <2>2. Moved(s, "count", call[s].tx) BY <1>1, <1>2, <2>1, CallGoes DEF Point
  <2>3. KeysHeld' BY <1>0, <1>1, <1>2, <1>3, <2>1, <2>2, WalletReserved
  <2>4. Others(s) /\ call'[s].at = "count" /\ call'[s].target = w BY <1>0, <2>2 DEF Moved
  <2>5. CapKept'
    BY <2>4, <2>1, <1>1, CapRests DEF StarterInv, CountedAt, PassedAt, Holding
  <2>6. w \notin slipped => Live(w) \subseteq unsent[w] BY <1>2, <1>3 DEF StarterInv, Paying
  <2>7. Stage(call[s])'
    <3>1. Stage(call'[s]) BY <2>4, <2>6 DEF Stage, Before, After
    <3> QED BY <3>1, <1>1, StageNext DEF network
  <2>8. \A v \in Wallet : v \notin slipped /\ walletKey'[v] = Free => Live(v) \subseteq unsent[v]
    BY <2>1, <2>6, <1>2 DEF StarterInv, Paying
  <2>9. \A v \in Wallet : walletKey[v] \in Account /\ accountKey[walletKey[v]] = "sent" => walletKey'[v] = walletKey[v]
    <3> SUFFICES ASSUME NEW v \in Wallet, walletKey[v] \in Account, accountKey[walletKey[v]] = "sent"
                 PROVE walletKey'[v] = walletKey[v] OBVIOUS
    <3>2. CASE v # w BY <3>2, <2>1, <1>2
    <3>3. CASE v = w BY <3>3, <1>3, StarterAssumption
    <3> QED BY <3>2, <3>3
  <2> QED BY <1>1, <2>1, <2>3, <2>4, <2>5, <2>7, <2>8, <2>9, QuietStep
<1>4. CASE walletKey[w] # Free
  <2>1. accountKey' = [accountKey EXCEPT ![l] = Free] /\ Ends(s) /\ walletKey' = walletKey
    BY <1>0, <1>4 DEF ReserveWallet, WalletFree
  <2>2. Others(s) /\ CallShape(call'[s]) /\ call'[s].at = "idle" BY <1>2, <2>1, CallEnds DEF Ended
  <2>3. KeysHeld'
    <3>1. walletKey' = [walletKey EXCEPT ![call[s].target] = walletKey[w]] BY <2>1, <1>0, <1>2
    <3>2. call'[s].at \notin Reserving BY <2>2 DEF Reserving, Exclusive, Holding
    <3> QED BY <3>1, <3>2, <1>0, <1>2, <2>1, <2>2, KeysLeft
  <2>4. \A m \in Account : accountKey'[m] = "sent" => accountKey[m] = "sent"
    <3>1. Free # "sent" BY StarterAssumption
    <3> QED BY <3>1, <2>1, <1>2
  <2>5. CapKept' BY <2>2, <2>4, <1>1, CapRests DEF StarterInv, CountedAt, PassedAt, Holding
  <2>6. Stage(call[s])'
    <3>1. Stage(call'[s]) BY <2>2, StageIdle
    <3> QED BY <3>1, <1>1, StageNext DEF network
  <2>7. \A v \in Wallet : v \notin slipped /\ walletKey'[v] = Free => Live(v) \subseteq unsent[v]
    BY <2>1 DEF StarterInv, Paying
  <2> QED BY <1>1, <2>1, <2>2, <2>3, <2>4, <2>5, <2>6, <2>7, QuietStep
<1> QED BY <1>3, <1>4

\* What a request knows while it holds its wallet.
LEMMA HolderFacts ==
  ASSUME StarterInv, NEW s \in Process, call[s].at \in Exclusive
  PROVE /\ KeysHeld /\ Stage(call[s]) /\ call[s].at # "idle" /\ call[s].at \in Reserving
        /\ call[s].login \in Account /\ call[s].target \in Wallet
        /\ accountKey[call[s].login] = "reserved"
        /\ walletKey[call[s].target] = call[s].login /\ walletKey[call[s].target] # Free
        /\ accountKey \in [Account -> {Free, "reserved", "sent"}]
        /\ walletKey \in [Wallet -> Account \cup {Free}]
<1>1. KeysHeld /\ Stage(call[s]) BY DEF StarterInv, Paying
<1>2. call[s].at # "idle" /\ call[s].at \in Reserving BY DEF Exclusive, Holding, Reserving
<1>3. call[s].login \in Account /\ call[s].target \in Wallet BY <1>1, <1>2, CallIs
<1> QED BY <1>1, <1>2, <1>3, StarterAssumption DEF KeysHeld

\* A holder that goes on holds what it held.
LEMMA HolderGoes ==
  ASSUME NEW s \in Process, call[s].at \in Exclusive, NEW p, NEW tx, Moved(s, p, tx), UNCHANGED keys
  PROVE KeepsKeys(s)
BY DEF KeepsKeys, Moved, Exclusive, Reserving

\* The cap.
LEMMA CountSteps ==
  ASSUME StarterInv, NEW s \in Process, Count(s) PROVE StarterInv'
<1>1. /\ call[s].at = "count" /\ today' = today + 1 /\ UNCHANGED <<keys, unsent, network, slipped>>
      /\ Goto(s, IF UnderCap THEN "kept" ELSE "uncount")
  BY DEF Count, At, faults
<1>2. call[s].at \in Exclusive BY <1>1 DEF Exclusive, Holding, Point
<1>3. PICK p \in {"kept", "uncount"} : p = IF UnderCap THEN "kept" ELSE "uncount" OBVIOUS
<1>4. Moved(s, p, call[s].tx) BY <1>1, <1>2, <1>3, HolderFacts, CallGoes DEF Point
<1>5. KeepsKeys(s) BY <1>1, <1>2, <1>4, HolderGoes
<1>6. Others(s) /\ call'[s].at = p /\ call'[s].target = call[s].target BY <1>4 DEF Moved
<1>7. CapKept' BY <1>1, <1>3, <1>6, CapCounts DEF StarterInv, UnderCap, keys
<1>8. Stage(call'[s]) BY <1>1, <1>2, <1>6, HolderFacts DEF Stage, Before, After
<1> QED BY <1>1, <1>5, <1>7, <1>8, StillStep

\* Over the cap: the count goes back.
LEMMA UncountSteps ==
  ASSUME StarterInv, NEW s \in Process, Uncount(s) PROVE StarterInv'
<1>1. /\ call[s].at = "uncount" /\ today' = today - 1 /\ UNCHANGED <<keys, unsent, network, slipped>>
      /\ Goto(s, "release")
  BY DEF Uncount, At, faults
<1>2. call[s].at \in Exclusive BY <1>1 DEF Exclusive, Holding, Point
<1>4. Moved(s, "release", call[s].tx) BY <1>1, <1>2, HolderFacts, CallGoes DEF Point
<1>5. KeepsKeys(s) BY <1>1, <1>2, <1>4, HolderGoes
<1>6. Others(s) /\ call'[s].at = "release" /\ call'[s].target = call[s].target BY <1>4 DEF Moved
<1>7. CapKept' BY <1>1, <1>6, CapReturns DEF StarterInv, keys, CountedAt, Holding, Point
<1>8. Stage(call'[s]) BY <1>1, <1>2, <1>6, HolderFacts DEF Stage, Before, After
<1> QED BY <1>1, <1>5, <1>7, <1>8, StillStep

\* The reservations of both go back.
LEMMA FreeSteps ==
  ASSUME StarterInv, NEW s \in Process, call[s].at \in {"release", "drop"},
         accountKey' = [accountKey EXCEPT ![call[s].login] = Free],
         walletKey' = [walletKey EXCEPT ![call[s].target] = Free],
         UNCHANGED <<today, unsent, network, slipped>>,
         Others(s), CallShape(call'[s]), call'[s].at \in {"idle", "return"},
         call[s].at = "release" => call'[s].at = "idle"
  PROVE StarterInv'
<1>0. PICK l, w : l = call[s].login /\ w = call[s].target OBVIOUS
<1>1. call[s].at \in Exclusive BY DEF Exclusive, Holding, Point
<1>2. /\ KeysHeld /\ Stage(call[s]) /\ call[s].at \in Reserving /\ l \in Account /\ w \in Wallet
      /\ walletKey[w] = l
      /\ accountKey[l] = "reserved"
      /\ accountKey \in [Account -> {Free, "reserved", "sent"}]
      /\ walletKey \in [Wallet -> Account \cup {Free}]
  BY <1>0, <1>1, HolderFacts
<1>3. KeysHeld'
  <2>1. call'[s].at \notin Reserving BY DEF Reserving, Exclusive, Holding
  <2> QED BY <2>1, <1>0, <1>1, <1>2, KeysLeft
<1>4. \A m \in Account : accountKey'[m] = "sent" => accountKey[m] = "sent"
  <2>1. Free # "sent" BY StarterAssumption
  <2> QED BY <2>1, <1>0, <1>2
<1>5. \A v \in Wallet : walletKey[v] \in Account /\ accountKey[walletKey[v]] = "sent" => walletKey'[v] = walletKey[v]
  BY <1>0, <1>2
<1>6. CapKept'
  <2>1. call'[s].at \in CountedAt => call[s].at \in CountedAt BY DEF CountedAt, Holding, Point
  <2>2. call'[s].at \in PassedAt => call[s].at \in PassedAt BY DEF CountedAt, PassedAt, Holding, Point
  <2> QED BY <2>1, <2>2, <1>4, CapRests DEF StarterInv
<1>7. Stage(call[s])'
  <2>1. Stage(call'[s]) BY StageIdle
  <2> QED BY <2>1, StageNext DEF network
<1>8. w \notin slipped => Live(w) \subseteq unsent[w] BY <1>0, <1>2 DEF Stage, Before
<1>9. \A v \in Wallet : v \notin slipped /\ walletKey'[v] = Free => Live(v) \subseteq unsent[v]
  BY <1>0, <1>2, <1>8 DEF StarterInv, Paying
<1> QED BY <1>3, <1>4, <1>5, <1>6, <1>7, <1>9, QuietStep

\* Over the cap: the reservations go back.
LEMMA ReleaseSteps ==
  ASSUME StarterInv, NEW s \in Process, ReleaseBoth(s) PROVE StarterInv'
<1>1. call[s].at = "release" /\ Ends(s) BY DEF ReleaseBoth, At
<1>2. Others(s) /\ CallShape(call'[s]) /\ call'[s].at = "idle"
  BY <1>1, CallEnds DEF StarterInv, Ended
<1> QED BY <1>1, <1>2, FreeSteps DEF ReleaseBoth, faults

\* After a failure: the reservations go back before the cap.
LEMMA DropSteps ==
  ASSUME StarterInv, NEW s \in Process, DropKeys(s) PROVE StarterInv'
<1>1. call[s].at = "drop" /\ Goto(s, "return") BY DEF DropKeys, At
<1>2. Others(s) /\ CallShape(call'[s]) /\ call'[s].at = "return"
  BY <1>1, CallGoes DEF StarterInv, Point, Moved
<1> QED BY <1>1, <1>2, FreeSteps DEF DropKeys, faults

\* A holder goes on to another point, and nothing else happens.
LEMMA HolderStep ==
  ASSUME StarterInv, NEW s \in Process, call[s].at \in Exclusive, call[s].at \in PassedAt,
         NEW p, NEW tx, Moved(s, p, tx), UNCHANGED <<keys, today, unsent, network, slipped>>,
         Stage(call'[s])
  PROVE StarterInv'
<1>1. KeepsKeys(s) BY HolderGoes
<1>2. call[s].at \in CountedAt BY DEF PassedAt
<1>3. Others(s) /\ accountKey' = accountKey /\ today' = today BY DEF Moved, keys
<1>4. CapKept' BY <1>2, <1>3, CapRests DEF StarterInv
<1> QED BY <1>1, <1>4, StillStep

\* The kept payment is seen, tried again, or there is none.
LEMMA LoadPaymentSteps ==
  ASSUME StarterInv, NEW s \in Process, LoadUnsent(s) PROVE StarterInv'
<1>0. PICK w : w = call[s].target OBVIOUS
<1>1. call[s].at = "kept" /\ UNCHANGED <<keys, today, network, slipped>> BY DEF LoadUnsent, At, faults
<1>2. call[s].at \in Exclusive /\ call[s].at \in PassedAt
  BY <1>1 DEF Exclusive, PassedAt, CountedAt, Holding, Point
<1>3. /\ KeysHeld /\ call[s].at # "idle" /\ w \in Wallet
      /\ w \notin slipped => Live(w) \subseteq unsent[w]
  BY <1>0, <1>1, <1>2, HolderFacts DEF Stage, Before
<1>4. Ledger BY DEF StarterInv
<1>5. unsent' = unsent BY DEF LoadUnsent
<1>6. CASE unsent[w] = {} /\ Goto(s, "sign")
  <2>1. Moved(s, "sign", call[s].tx) BY <1>3, <1>6, CallGoes DEF Point
  <2>2. call'[s].at = "sign" /\ call'[s].target = w BY <2>1, <1>0 DEF Moved
  <2>3. Stage(call'[s]) BY <2>2, <1>3, <1>6 DEF Stage, Before, After
  <2> QED BY <1>1, <1>2, <1>5, <2>1, <2>3, HolderStep
<1>7. CASE \E tx \in unsent[w] : IF Seen(tx)
                         THEN call' = [call EXCEPT ![s].at = "forget", ![s].tx = {tx}]
                         ELSE Goto(s, "nonce")
  <2>1. PICK tx \in unsent[w] : IF Seen(tx)
                         THEN call' = [call EXCEPT ![s].at = "forget", ![s].tx = {tx}]
                         ELSE Goto(s, "nonce")
    BY <1>7
  <2>2. One(w, unsent[w]) BY <1>3, <1>4 DEF Ledger
  <2>3. unsent[w] = {tx} /\ One(w, {tx}) BY <2>2 DEF One
  <2>4. CASE Seen(tx)
    <3>1. Moved(s, "forget", {tx}) BY <1>3, <2>1, <2>4, CallCarries DEF Point
    <3>2. call'[s].at = "forget" /\ call'[s].target = w /\ call'[s].tx = {tx} BY <3>1, <1>0 DEF Moved
    <3>3. Stage(call'[s]) BY <3>2, <2>3, <2>4, <1>3 DEF Stage, Before, After
    <3> QED BY <1>1, <1>2, <1>5, <3>1, <3>3, HolderStep
  <2>5. CASE ~Seen(tx)
    <3>1. Moved(s, "nonce", call[s].tx) BY <1>3, <2>1, <2>5, CallGoes DEF Point
    <3>2. call'[s].at = "nonce" /\ call'[s].target = w BY <3>1, <1>0 DEF Moved
    <3>3. Stage(call'[s]) BY <3>2, <1>3 DEF Stage, Before, After
    <3> QED BY <1>1, <1>2, <1>5, <3>1, <3>3, HolderStep
  <2> QED BY <2>4, <2>5
<1> QED BY <1>0, <1>6, <1>7 DEF LoadUnsent

\* A holder keeps or forgets a payment, and nothing is sent.
LEMMA HolderKeeps ==
  ASSUME StarterInv, NEW s \in Process, call[s].at \in Exclusive, call[s].at \in PassedAt,
         NEW p, NEW tx, Moved(s, p, tx), NEW w, w = call[s].target,
         NEW u, u = {} \/ One(w, u), unsent' = [unsent EXCEPT ![w] = u],
         UNCHANGED <<keys, today, network>>, slipped \subseteq slipped', slipped' \subseteq Wallet,
         Stage(call[s])'
  PROVE StarterInv'
<1>1. KeepsKeys(s) BY HolderGoes
<1>2. Others(s) /\ accountKey' = accountKey /\ walletKey' = walletKey /\ today' = today
  BY DEF Moved, keys
<1>3. KeysHeld' BY <1>1, KeysKept DEF StarterInv
<1>4. CapKept'
  <2>1. call[s].at \in CountedAt BY DEF PassedAt
  <2> QED BY <2>1, <1>2, CapRests DEF StarterInv
<1>5. Ledger' BY LedgerKeeps DEF StarterInv
<1>6. mempool' = mempool /\ flight' = flight /\ paid' = paid BY DEF network
<1>7. (\A v : Live(v)' = Live(v)) /\ \A x : Seen(x) => Seen(x)' BY <1>6, LiveSame
<1>8. SentIsPaid' BY <1>7, NoneSlips, SentRests DEF StarterInv
<1>9. Paying'
  <2>1. w \in Wallet /\ walletKey[w] # Free /\ KeysHeld BY HolderFacts
  <2>2. w \notin slipped' => AtMostOne(Live(w))' BY <1>7, <2>1, Zenon DEF StarterInv, Paying, AtMostOne
  <2>3. \A v \in Wallet : v # w => Live(v)' \subseteq Live(v) /\ unsent'[v] = unsent[v]
                                   /\ walletKey'[v] = walletKey[v]
    BY <1>2, <1>7 DEF StarterInv, Ledger
  <2>4. w \notin slipped' /\ walletKey'[w] = Free => Live(w)' \subseteq unsent'[w] BY <1>2, <2>1
  <2> QED BY <1>2, <1>7, <2>1, <2>2, <2>3, <2>4, PayingSteps DEF StarterInv
<1> QED BY <1>3, <1>4, <1>5, <1>8, <1>9 DEF StarterInv

\* The kept payment cannot land any more, or it is sent again.
LEMMA ReadNonceSteps ==
  ASSUME StarterInv, NEW s \in Process, ReadNonce(s) PROVE StarterInv'
<1>0. PICK w : w = call[s].target OBVIOUS
<1>1. call[s].at = "nonce" /\ UNCHANGED <<keys, today, network>> BY DEF ReadNonce, At
<1>2. call[s].at \in Exclusive /\ call[s].at \in PassedAt
  BY <1>1 DEF Exclusive, PassedAt, CountedAt, Holding, Point
<1>3. /\ KeysHeld /\ call[s].at # "idle" /\ w \in Wallet
      /\ w \notin slipped => Live(w) \subseteq unsent[w]
  BY <1>0, <1>1, <1>2, HolderFacts DEF Stage, Before
<1>4. Ledger BY DEF StarterInv
<1>5. PICK tx \in unsent[w] :
       IF Superseded(tx)
       THEN /\ unsent' = [unsent EXCEPT ![w] = {}] /\ Goto(s, "sign")
            /\ slipped' = IF Seen(tx) THEN slipped \cup {w} ELSE slipped
       ELSE /\ call' = [call EXCEPT ![s].at = "send", ![s].tx = {tx}]
            /\ UNCHANGED <<unsent, slipped>>
  BY <1>0 DEF ReadNonce
<1>6. unsent[w] = {tx} /\ One(w, {tx}) /\ tx \in Payment
  <2>1. One(w, unsent[w]) BY <1>3, <1>4, <1>5 DEF Ledger
  <2> QED BY <2>1, <1>5 DEF One
<1>7. CASE Superseded(tx)
  <2>1. Moved(s, "sign", call[s].tx) BY <1>3, <1>5, <1>7, CallGoes DEF Point
  <2>2. call'[s].at = "sign" /\ call'[s].target = w BY <2>1, <1>0 DEF Moved
  <2>3. slipped \subseteq slipped' /\ slipped' \subseteq Wallet
    BY <1>3, <1>4, <1>5, <1>7 DEF Ledger
  <2>4. mempool' = mempool /\ flight' = flight /\ paid' = paid BY <1>1 DEF network
  <2>5. \A v : Live(v)' = Live(v) BY <2>4, LiveSame
  <2>6. w \notin slipped' => Live(w) = {}
    <3>1. SUFFICES ASSUME w \notin slipped', NEW x \in Live(w) PROVE FALSE OBVIOUS
    <3>2. ~Seen(tx) /\ w \notin slipped BY <3>1, <1>5, <1>7
    <3>3. tx \in Live(w) BY <3>1, <3>2, <1>3, <1>6
    <3>4. tx \in flight /\ tx.nonce >= Taken BY <3>2, <3>3, LiveIs, Zenon DEF Seen
    <3>5. Taken \in 0..MaxPayment /\ MaxPayment \in Nat /\ tx.nonce \in 0..MaxPayment - 1
      BY <1>4, <1>6, StarterAssumption DEF Ledger, Payment
    <3> QED BY <3>4, <3>5, <1>7 DEF Superseded
  <2>7. Stage(call[s])' BY <2>2, <2>5, <2>6, Zenon DEF Stage, Before, After
  <2> QED BY <1>0, <1>1, <1>2, <1>5, <1>7, <2>1, <2>3, <2>7, HolderKeeps
<1>8. CASE ~Superseded(tx)
  <2>1. Moved(s, "send", {tx}) BY <1>3, <1>5, <1>8, CallCarries DEF Point
  <2>2. call'[s].at = "send" /\ call'[s].target = w /\ call'[s].tx = {tx} BY <2>1, <1>0 DEF Moved
  <2>3. Stage(call'[s]) BY <2>2, <1>3, <1>6 DEF Stage, Before, After
  <2> QED BY <1>1, <1>2, <1>5, <1>8, <2>1, <2>3, HolderStep
<1> QED BY <1>7, <1>8

\* The node has a nonce free, or the bound on nonces is reached.
LEMMA NextFreeIs ==
  ASSUME Ledger PROVE NextFree \in Taken..MaxPayment /\ \A tx \in mempool : tx.nonce # NextFree
<1>1. Taken \in 0..MaxPayment /\ MaxPayment \in Nat BY StarterAssumption DEF Ledger
<1>2. PICK k : k = Taken OBVIOUS
<1> DEFINE B == {n \in k..MaxPayment : \A tx \in mempool : tx.nonce # n}
<1>3. MaxPayment \in B BY <1>1, <1>2 DEF Ledger, Payment
<1>4. B \subseteq Nat BY <1>1, <1>2
<1> HIDE DEF B
<1>5. PICK n \in B : \A m \in B : <<m, n>> \notin OpToRel(<, Nat)
  BY <1>3, <1>4, NatLessThanWellFounded, WFMin
<1>6. \A m \in B : ~(m < n) BY <1>4, <1>5 DEF OpToRel
<1>7. n \in k..MaxPayment /\ \A tx \in mempool : tx.nonce # n BY DEF B
<1>8. \A m \in k..n - 1 : \E tx \in mempool : tx.nonce = m
  <2>1. SUFFICES ASSUME NEW m \in k..n - 1, \A tx \in mempool : tx.nonce # m PROVE FALSE OBVIOUS
  <2>2. m \in k..MaxPayment /\ m < n BY <2>1, <1>1, <1>2, <1>7
  <2> QED BY <2>1, <2>2, <1>6 DEF B
<1> DEFINE LeastFree(x) == /\ \A tx \in mempool : tx.nonce # x
                       /\ \A m \in k..x - 1 : \E tx \in mempool : tx.nonce = m
<1>9. LeastFree(n) BY <1>7, <1>8
<1>10. NextFree = CHOOSE x \in k..MaxPayment : LeastFree(x) BY <1>2 DEF NextFree
<1> HIDE DEF LeastFree
<1>11. NextFree \in k..MaxPayment /\ LeastFree(NextFree) BY <1>7, <1>9, <1>10
<1> QED BY <1>2, <1>11 DEF LeastFree

\* A new payment, or the node cannot prepare one.
LEMMA SignSteps ==
  ASSUME StarterInv, NEW s \in Process, SignPayment(s) \/ SignFails(s) PROVE StarterInv'
<1>0. PICK w : w = call[s].target OBVIOUS
<1>1. call[s].at = "sign" /\ UNCHANGED <<keys, today, unsent, network, slipped>>
  BY DEF SignPayment, SignFails, At, faults
<1>2. call[s].at \in Exclusive /\ call[s].at \in PassedAt
  BY <1>1 DEF Exclusive, PassedAt, CountedAt, Holding, Point
<1>3. KeysHeld /\ call[s].at # "idle" /\ w \in Wallet /\ (w \notin slipped => Live(w) = {})
  BY <1>0, <1>1, <1>2, HolderFacts DEF Stage
<1>4. CASE SignPayment(s)
  <2>1. PICK tx : tx = [to |-> w, nonce |-> NextFree] OBVIOUS
  <2>2. NextFree < MaxPayment /\ call' = [call EXCEPT ![s].at = "send", ![s].tx = {tx}]
    BY <1>0, <1>4, <2>1 DEF SignPayment
  <2>3. NextFree \in Taken..MaxPayment /\ Taken \in 0..MaxPayment /\ MaxPayment \in Nat
    BY NextFreeIs, StarterAssumption DEF StarterInv, Ledger
  <2>4. NextFree \in 0..MaxPayment - 1 BY <2>2, <2>3
  <2>5. One(w, {tx}) BY <1>3, <2>1, <2>4 DEF One, Payment
  <2>6. Moved(s, "send", {tx}) BY <1>3, <2>2, CallCarries DEF Point
  <2>7. call'[s].at = "send" /\ call'[s].target = w /\ call'[s].tx = {tx} BY <2>6, <1>0 DEF Moved
  <2>8. Stage(call'[s]) BY <2>5, <2>7, <1>3 DEF Stage, Before, After
  <2> QED BY <1>1, <1>2, <2>6, <2>8, HolderStep
<1>5. CASE SignFails(s)
  <2>1. Moved(s, "drop", call[s].tx) BY <1>3, <1>5, CallGoes DEF Point, SignFails
  <2>2. call'[s].at = "drop" /\ call'[s].target = w BY <2>1, <1>0 DEF Moved
  <2>3. Stage(call'[s]) BY <2>2, <1>3 DEF Stage, Before, After
  <2> QED BY <1>1, <1>2, <2>1, <2>3, HolderStep
<1> QED BY <1>4, <1>5

\* What a request knows of the payment it carries.
SendFacts(s, w, tx) ==
  /\ KeysHeld /\ call[s].at # "idle" /\ w \in Wallet /\ walletKey[w] # Free
  /\ call[s].tx = {tx} /\ tx \in Payment /\ tx.to = w
  /\ w \notin slipped => Live(w) \subseteq {tx}

\* It knows it from sending to recording.
LEMMA HolderPays ==
  ASSUME StarterInv, NEW s \in Process, call[s].at \in {"send", "failed", "keep", "forget", "record"}
  PROVE /\ call[s].at \in Exclusive /\ call[s].at \in PassedAt
        /\ \E tx \in call[s].tx : SendFacts(s, call[s].target, tx)
<1>1. call[s].at \in Exclusive /\ call[s].at \in PassedAt /\ call[s].at \in After
  BY DEF Exclusive, PassedAt, CountedAt, Holding, Point, After
<1>2. PICK w : w = call[s].target OBVIOUS
<1>3. KeysHeld /\ Stage(call[s]) /\ call[s].at # "idle" /\ w \in Wallet /\ walletKey[w] # Free
  BY <1>1, <1>2, HolderFacts
<1>4. One(w, call[s].tx) /\ (w \notin slipped => Live(w) \subseteq call[s].tx)
  BY <1>1, <1>2, <1>3 DEF Stage
<1>5. PICK tx \in Payment : call[s].tx = {tx} /\ tx.to = w BY <1>4 DEF One
<1> QED BY <1>1, <1>2, <1>3, <1>4, <1>5 DEF SendFacts

\* A payment reaches the node, or is on its way to it.
LEMMA HolderSends ==
  ASSUME StarterInv, NEW s \in Process, call[s].at = "send", NEW w, w = call[s].target, NEW tx,
         SendFacts(s, w, tx), NEW p \in {"forget", "failed"}, Moved(s, p, {tx}),
         UNCHANGED <<keys, today, unsent, paid, funded, slipped>>,
         mempool' \in {mempool, mempool \cup {tx}}, flight' \in {flight, flight \cup {tx}},
         p = "forget" => tx \in mempool'
  PROVE StarterInv'
<1>0. call[s].at \in Exclusive /\ call[s].at \in PassedAt /\ call[s].at \in CountedAt
  BY DEF Exclusive, PassedAt, CountedAt, Holding, Point
<1>1. /\ KeysHeld /\ w \in Wallet /\ walletKey[w] # Free /\ tx \in Payment /\ tx.to = w
      /\ w \notin slipped => Live(w) \subseteq {tx}
  BY DEF SendFacts
<1>2. /\ Others(s) /\ accountKey' = accountKey /\ walletKey' = walletKey /\ today' = today
      /\ call'[s].at = p /\ call'[s].target = w /\ call'[s].tx = {tx}
  BY DEF Moved, keys
<1>3. KeysHeld' BY <1>0, HolderGoes, KeysKept DEF StarterInv
<1>4. CapKept' BY <1>0, <1>2, CapRests DEF StarterInv
<1>5. paid' = paid /\ Taken' = Taken BY DEF Taken
<1>6. Ledger'
  <2>1. mempool' \subseteq Payment /\ flight' \subseteq Payment BY <1>1 DEF StarterInv, Ledger
  <2> QED BY <2>1, <1>5, Zenon DEF StarterInv, Ledger, One
<1>7. \A v : Live(v)' \subseteq IF v = w THEN Live(v) \cup {tx} ELSE Live(v)
  BY <1>1, <1>5 DEF Live
<1>8. \A x : Seen(x) => Seen(x)' BY <1>5 DEF Seen
<1>9. SentIsPaid' BY <1>8, NoneSlips, SentRests DEF StarterInv
<1>10. w \notin slipped' => Live(w)' \subseteq {tx} BY <1>1, <1>7
<1>11. w \notin slipped' => AtMostOne(Live(w))' BY <1>10 DEF AtMostOne
<1>12. p = "forget" => Seen(tx)' BY DEF Seen
<1>13. Stage(call[s])'
  <2>1. One(w, {tx})' BY <1>1 DEF One
  <2> QED BY <1>2, <1>10, <1>12, <2>1 DEF Stage, Before, After
<1>14. Paying'
  <2>1. \A v \in Wallet : v # w => Live(v)' \subseteq Live(v) /\ unsent'[v] = unsent[v]
                                   /\ walletKey'[v] = walletKey[v]
    BY <1>2, <1>7
  <2>2. w \notin slipped' /\ walletKey'[w] = Free => Live(w)' \subseteq unsent'[w] BY <1>1, <1>2
  <2> QED BY <2>1, <2>2, <1>0, <1>1, <1>2, <1>8, <1>11, <1>13, PayingSteps DEF StarterInv
<1> QED BY <1>3, <1>4, <1>6, <1>9, <1>14 DEF StarterInv

\* A broadcast: taken, refused, or its answer lost.
LEMMA SendSteps ==
  ASSUME StarterInv, NEW s \in Process, SendPayment(s) PROVE StarterInv'
<1>0. PICK w : w = call[s].target OBVIOUS
<1>1. call[s].at = "send" /\ UNCHANGED <<keys, today, unsent, paid, funded, slipped>>
  BY DEF SendPayment, At
<1>2. PICK tx \in call[s].tx : SendFacts(s, w, tx) BY <1>0, <1>1, HolderPays
<1>3. call[s].tx = {tx} /\ KeysHeld /\ call[s].at # "idle" BY <1>2 DEF SendFacts
<1>4. PICK p \in {"forget", "failed"} :
        /\ Goto(s, p)
        /\ mempool' \in {mempool, mempool \cup {tx}} /\ flight' \in {flight, flight \cup {tx}}
        /\ p = "forget" => tx \in mempool'
  BY <1>3 DEF SendPayment
<1>5. Moved(s, p, {tx}) BY <1>3, <1>4, CallGoes DEF Point
<1> QED BY <1>0, <1>1, <1>2, <1>4, <1>5, HolderSends

\* The node is asked after a failed broadcast.
LEMMA FailedSteps ==
  ASSUME StarterInv, NEW s \in Process, Failed(s) PROVE StarterInv'
<1>0. PICK w : w = call[s].target OBVIOUS
<1>1. call[s].at = "failed" /\ UNCHANGED <<keys, today, unsent, network, slipped>>
  BY DEF Failed, At, faults
<1>2. /\ call[s].at \in Exclusive /\ call[s].at \in PassedAt
  BY <1>1, HolderPays
<1>3. PICK tx \in call[s].tx : SendFacts(s, w, tx) BY <1>0, <1>1, HolderPays
<1>4. call[s].tx = {tx} /\ KeysHeld /\ call[s].at # "idle" /\ w \in Wallet /\ One(w, {tx})
      /\ (w \notin slipped => Live(w) \subseteq {tx})
  BY <1>3 DEF SendFacts, One
<1>5. PICK p \in {"forget", "keep"} : Goto(s, p) /\ (p = "forget" => Seen(tx))
  BY <1>4 DEF Failed
<1>6. Moved(s, p, {tx}) BY <1>4, <1>5, CallGoes DEF Point
<1>7. call'[s].at = p /\ call'[s].target = w /\ call'[s].tx = {tx} BY <1>6, <1>0 DEF Moved
<1>8. Stage(call'[s]) BY <1>4, <1>5, <1>7 DEF Stage, Before, After
<1> QED BY <1>1, <1>2, <1>6, <1>8, HolderStep

\* The payment is kept for the next request.
LEMMA KeepSteps ==
  ASSUME StarterInv, NEW s \in Process, Keep(s) PROVE StarterInv'
<1>0. PICK w : w = call[s].target OBVIOUS
<1>1. call[s].at = "keep" /\ UNCHANGED <<keys, today, network, slipped>> BY DEF Keep, At, faults
<1>2. call[s].at \in Exclusive /\ call[s].at \in PassedAt BY <1>1, HolderPays
<1>3. PICK tx \in call[s].tx : SendFacts(s, w, tx) BY <1>0, <1>1, HolderPays
<1>4. call[s].tx = {tx} /\ KeysHeld /\ call[s].at # "idle" /\ w \in Wallet /\ One(w, {tx})
      /\ (w \notin slipped => Live(w) \subseteq {tx})
  BY <1>3 DEF SendFacts, One
<1>5. unsent' = [unsent EXCEPT ![w] = {tx}] /\ Goto(s, "drop") BY <1>0, <1>4 DEF Keep, Kept
<1>6. Moved(s, "drop", {tx}) BY <1>4, <1>5, CallGoes DEF Point
<1>7. call'[s].at = "drop" /\ call'[s].target = w BY <1>6, <1>0 DEF Moved
<1>8. mempool' = mempool /\ flight' = flight /\ paid' = paid BY <1>1 DEF network
<1>9. Live(w)' = Live(w) /\ unsent'[w] = {tx} BY <1>4, <1>5, <1>8, LiveSame DEF StarterInv, Ledger
<1>10. Stage(call[s])' BY <1>1, <1>4, <1>7, <1>9 DEF Stage, Before, After
<1>11. slipped' \subseteq Wallet BY <1>1 DEF StarterInv, Ledger
<1> QED BY <1>0, <1>1, <1>2, <1>4, <1>5, <1>6, <1>10, <1>11, HolderKeeps

\* A payment that is with the node needs no keeping.
LEMMA ForgetSteps ==
  ASSUME StarterInv, NEW s \in Process, Forget(s) PROVE StarterInv'
<1>0. PICK w : w = call[s].target OBVIOUS
<1>1. call[s].at = "forget" /\ UNCHANGED <<keys, today, network, slipped>> BY DEF Forget, At, faults
<1>2. call[s].at \in Exclusive /\ call[s].at \in PassedAt BY <1>1, HolderPays
<1>3. PICK tx \in call[s].tx : SendFacts(s, w, tx) BY <1>0, <1>1, HolderPays
<1>4. call[s].tx = {tx} /\ KeysHeld /\ call[s].at # "idle" /\ w \in Wallet /\ One(w, {tx})
      /\ (w \notin slipped => Live(w) \subseteq {tx})
  BY <1>3 DEF SendFacts, One
<1>5. unsent' = [unsent EXCEPT ![w] = {}] /\ Goto(s, "record") BY <1>0 DEF Forget
<1>6. Moved(s, "record", {tx}) BY <1>4, <1>5, CallGoes DEF Point
<1>7. call'[s].at = "record" /\ call'[s].target = w /\ call'[s].tx = {tx} BY <1>6, <1>0 DEF Moved
<1>8. mempool' = mempool /\ flight' = flight /\ paid' = paid BY <1>1 DEF network
<1>9. Live(w)' = Live(w) /\ (Seen(tx)' <=> Seen(tx)) BY <1>8, LiveSame
<1>10. Seen(tx) BY <1>1, <1>2, <1>4, HolderFacts DEF Stage
<1>11. One(w, {tx})' BY <1>4 DEF One
<1>12. Stage(call[s])' BY <1>1, <1>4, <1>7, <1>9, <1>10, <1>11 DEF Stage, Before, After
<1>13. slipped' \subseteq Wallet BY <1>1 DEF StarterInv, Ledger
<1> QED BY <1>0, <1>1, <1>2, <1>5, <1>6, <1>12, <1>13, HolderKeeps

\* The account is told.
LEMMA RecordSteps ==
  ASSUME StarterInv, NEW s \in Process, RecordSent(s) PROVE StarterInv'
<1>0. PICK l, w : l = call[s].login /\ w = call[s].target OBVIOUS
<1>1. call[s].at = "record" /\ UNCHANGED <<walletKey, today, unsent, network, slipped>>
  BY DEF RecordSent, At, faults
<1>2. call[s].at \in Exclusive BY <1>1, HolderPays
<1>3. /\ KeysHeld /\ Stage(call[s]) /\ call[s].at \in Reserving /\ l \in Account /\ w \in Wallet
      /\ walletKey[w] = l /\ walletKey[w] # Free
      /\ accountKey \in [Account -> {Free, "reserved", "sent"}]
      /\ walletKey \in [Wallet -> Account \cup {Free}]
  BY <1>0, <1>2, HolderFacts
<1>4. PICK tx \in call[s].tx : tx.to = w /\ Seen(tx)
  <2>1. PICK x \in call[s].tx : SendFacts(s, w, x) BY <1>0, <1>1, HolderPays
  <2>2. call[s].tx = {x} /\ x.to = w BY <2>1 DEF SendFacts
  <2> QED BY <2>2, <1>1, <1>3 DEF Stage
<1>5. accountKey' = [accountKey EXCEPT ![l] = "sent"] /\ Ends(s) BY <1>0 DEF RecordSent
<1>6. Others(s) /\ CallShape(call'[s]) /\ call'[s].at = "idle" BY <1>3, <1>5, CallEnds DEF Ended
<1>7. KeysHeld'
  <2>1. walletKey' = [walletKey EXCEPT ![call[s].target] = l] BY <1>0, <1>1, <1>3
  <2>2. call'[s].at \notin Reserving BY <1>6 DEF Reserving, Exclusive, Holding
  <2> QED BY <2>1, <2>2, <1>0, <1>2, <1>3, <1>5, <1>6, KeysLeft
<1>8. CapKept'
  <2>1. \A m \in Account : accountKey'[m] = "sent" => m = l \/ accountKey[m] = "sent"
    BY <1>3, <1>5
  <2> QED BY <2>1, <1>1, <1>3, <1>6, CapSends DEF StarterInv
<1>9. Ledger' BY <1>1, LedgerRests DEF StarterInv, Ledger
<1>10. mempool' = mempool /\ flight' = flight /\ paid' = paid BY <1>1 DEF network
<1>11. Paying'
  <2>1. Stage(call'[s]) BY <1>6, StageIdle
  <2>2. Stage(call[s])' BY <2>1, <1>1, <1>10, StageNext
  <2>3. \A v \in Wallet : v \notin slipped /\ walletKey'[v] = Free => Live(v) \subseteq unsent[v]
    BY <1>1 DEF StarterInv, Paying
  <2> QED BY <2>2, <2>3, <1>1, <1>6, <1>10, PayingRests DEF StarterInv
<1>12. SentIsPaid'
  <2> SUFFICES ASSUME NEW m \in Account, accountKey'[m] = "sent"
               PROVE \E v \in Wallet : /\ walletKey'[v] = m
                       /\ \E x \in mempool' \cup {paid'[n] : n \in DOMAIN paid'} : x.to = v
    BY DEF SentIsPaid
  <2>1. CASE m = l
    <3>1. tx \in mempool' \cup {paid'[n] : n \in DOMAIN paid'} BY <1>4, <1>10 DEF Seen
    <3> QED BY <3>1, <2>1, <1>1, <1>3, <1>4
  <2>2. CASE m # l
    <3>1. accountKey[m] = "sent" BY <2>2, <1>3, <1>5
    <3>2. PICK v \in Wallet : /\ walletKey[v] = m
                       /\ \E x \in mempool \cup {paid[n] : n \in DOMAIN paid} : x.to = v
      BY <3>1 DEF StarterInv, SentIsPaid
    <3> QED BY <3>2, <1>1, <1>10
  <2> QED BY <2>1, <2>2
<1> QED BY <1>7, <1>8, <1>9, <1>11, <1>12 DEF StarterInv

\* A step of the node, the chain or the clock: what can still land shrinks.
LEMMA PaymentChainStep ==
  ASSUME StarterInv, UNCHANGED <<keys, today, call>>, Ledger',
         \A v : Live(v)' \subseteq Live(v), \A x : Seen(x) => Seen(x)', slipped \subseteq slipped',
         \A v : v \notin slipped' => unsent'[v] = unsent[v]
  PROVE StarterInv'
<1>1. accountKey' = accountKey /\ walletKey' = walletKey /\ call' = call /\ today' = today BY DEF keys
<1>2. KeysHeld' BY <1>1, Zenon DEF StarterInv, KeysHeld, CallShape
<1>3. CapKept' BY <1>1, Zenon DEF StarterInv, CapKept, SentTo, Counted, Passed
<1>4. SentIsPaid' BY NoneSlips, SentRests DEF StarterInv
<1>5. ASSUME NEW s \in Process PROVE Stage(call[s])'
  <2>1. PICK c : c = call[s] OBVIOUS
  <2>2. Stage(c) BY <2>1 DEF StarterInv, Paying
  <2>3. Stage(c)' BY <2>2, Zenon DEF Stage, One
  <2> QED BY <2>1, <2>3, <1>1, Zenon DEF Stage
<1>6. ASSUME NEW v \in Wallet, v \notin slipped' PROVE AtMostOne(Live(v))'
  <2>1. AtMostOne(Live(v)) BY <1>6 DEF StarterInv, Paying
  <2> QED BY <2>1 DEF AtMostOne
<1>7. \A v \in Wallet : v \notin slipped' /\ walletKey'[v] = Free => Live(v)' \subseteq unsent'[v]
  BY <1>1 DEF StarterInv, Paying
<1>8. Paying' BY <1>5, <1>6, <1>7, Zenon DEF Paying
<1> QED BY <1>2, <1>3, <1>4, <1>8 DEF StarterInv

\* A payment is mined.
LEMMA LandSteps ==
  ASSUME StarterInv, NEW tx \in mempool, Land(tx) PROVE StarterInv'
<1>1. /\ UNCHANGED <<keys, today, unsent, flight, call, slipped>> /\ tx.nonce = Taken
      /\ mempool' = mempool \ {tx} /\ funded' = funded \cup {tx.to}
      /\ paid' = [n \in DOMAIN paid \cup {tx.nonce} |-> IF n = tx.nonce THEN tx ELSE paid[n]]
  BY DEF Land, faults
<1>2. PICK k : k = Taken OBVIOUS
<1>3. /\ k \in 0..MaxPayment /\ MaxPayment \in Nat /\ tx \in Payment /\ tx.to \in Wallet
      /\ k \in 0..MaxPayment - 1 /\ DOMAIN paid = 0..k - 1
  BY <1>1, <1>2, StarterAssumption DEF StarterInv, Ledger, Payment
<1>4. DOMAIN paid' = 0..k BY <1>1, <1>2, <1>3
<1>5. Taken' = k + 1
  <2>1. Cardinality(0..k) = k + 1 BY <1>3, FS_Interval
  <2> QED BY <2>1, <1>4 DEF Taken
<1>6. paid'[k] = tx /\ \A n \in DOMAIN paid : n \in DOMAIN paid' /\ paid'[n] = paid[n] /\ n # k
  BY <1>1, <1>2, <1>3
<1>7. Ledger'
  <2>1. mempool' \subseteq Payment /\ flight' \subseteq Payment /\ funded' \subseteq Wallet
        /\ slipped' \subseteq Wallet
    BY <1>1, <1>3 DEF StarterInv, Ledger
  <2>2. DOMAIN paid' = 0..Taken' - 1 /\ Taken' \in 0..MaxPayment BY <1>3, <1>4, <1>5
  <2>3. \A n \in DOMAIN paid' : paid'[n] \in Payment /\ paid'[n].nonce = n
    <3>1. SUFFICES ASSUME NEW n \in DOMAIN paid' PROVE paid'[n] \in Payment /\ paid'[n].nonce = n
      OBVIOUS
    <3>2. CASE n = k BY <3>2, <1>1, <1>2, <1>3, <1>6
    <3>3. CASE n # k
      <4>1. n \in DOMAIN paid BY <3>1, <3>3, <1>3, <1>4
      <4> QED BY <4>1, <1>6 DEF StarterInv, Ledger
    <3> QED BY <3>2, <3>3
  <2>4. unsent' = unsent BY <1>1
  <2> QED BY <2>1, <2>2, <2>3, <2>4, Zenon DEF StarterInv, Ledger, One
<1>8. \A v : Live(v)' \subseteq Live(v)
  <2>1. SUFFICES ASSUME NEW v, NEW x \in Live(v)' PROVE x \in Live(v) OBVIOUS
  <2>2. /\ x.to = v
        /\ x \in mempool' \/ (x \in flight' /\ x.nonce >= Taken') \/ \E n \in DOMAIN paid' : x = paid'[n]
    BY <2>1, Zenon DEF Live
  <2>3. CASE x \in mempool' BY <2>2, <2>3, <1>1, LiveIs
  <2>4. CASE x \in flight' /\ x.nonce >= Taken'
    <3>1. x \in flight /\ x.nonce \in Int BY <2>4, <1>1 DEF StarterInv, Ledger, Payment
    <3>2. x.nonce >= k BY <3>1, <2>4, <1>3, <1>5
    <3> QED BY <3>1, <3>2, <2>2, <1>2, LiveIs
  <2>5. CASE \E n \in DOMAIN paid' : x = paid'[n]
    <3>1. PICK n \in DOMAIN paid' : x = paid'[n] BY <2>5
    <3>2. n \in DOMAIN paid \/ n = k BY <3>1, <1>3, <1>4
    <3> QED BY <3>1, <3>2, <2>2, <1>6, LiveIs
  <2> QED BY <2>2, <2>3, <2>4, <2>5
<1>9. \A x : Seen(x) => Seen(x)'
  <2>1. SUFFICES ASSUME NEW x, Seen(x) PROVE x \in mempool' \/ \E n \in DOMAIN paid' : paid'[n] = x
    BY DEF Seen
  <2>2. k \in DOMAIN paid' BY <1>3, <1>4
  <2>3. CASE x \in mempool BY <2>2, <2>3, <1>1, <1>6
  <2>4. CASE \E n \in DOMAIN paid : paid[n] = x BY <2>4, <1>6
  <2> QED BY <2>1, <2>3, <2>4 DEF Seen
<1> QED BY <1>1, <1>7, <1>8, <1>9, PaymentChainStep

\* A broadcast arrives late.
LEMMA LateSteps ==
  ASSUME StarterInv, NEW tx \in flight, LateArrival(tx) PROVE StarterInv'
<1>1. /\ UNCHANGED <<keys, today, unsent, paid, funded, call, slipped>>
      /\ flight' = flight \ {tx}
      /\ mempool' = IF Takes(tx) THEN mempool \cup {tx} ELSE mempool
  BY DEF LateArrival, faults
<1>2. paid' = paid /\ Taken' = Taken BY <1>1 DEF Taken
<1>3. Ledger'
  <2>1. mempool' \subseteq Payment /\ flight' \subseteq Payment BY <1>1 DEF StarterInv, Ledger
  <2>2. unsent' = unsent /\ funded' = funded /\ slipped' = slipped BY <1>1
  <2> QED BY <2>1, <2>2, <1>2, Zenon DEF StarterInv, Ledger, One
<1>4. \A v : Live(v)' \subseteq Live(v) BY <1>1, <1>2 DEF Live, Takes
<1>5. \A x : Seen(x) => Seen(x)' BY <1>1, <1>2 DEF Seen
<1> QED BY <1>1, <1>3, <1>4, <1>5, PaymentChainStep

\* The kept payment expires: the wallet slips.
LEMMA ExpireSteps ==
  ASSUME StarterInv, NEW w \in Wallet, UnsentExpires(w) PROVE StarterInv'
<1>1. /\ UNCHANGED <<keys, today, network, call>>
      /\ unsent' = [unsent EXCEPT ![w] = {}] /\ slipped' = slipped \cup {w}
  BY DEF UnsentExpires
<1>2. mempool' = mempool /\ flight' = flight /\ paid' = paid BY <1>1 DEF network
<1>3. slipped' \subseteq Wallet BY <1>1 DEF StarterInv, Ledger
<1>4. Ledger' BY <1>1, <1>3, LedgerKeeps DEF StarterInv
<1>5. (\A v : Live(v)' \subseteq Live(v)) /\ \A x : Seen(x) => Seen(x)' BY <1>2, LiveSame
<1>6. \A v : v \notin slipped' => unsent'[v] = unsent[v]
  <2>1. unsent = [v \in Wallet |-> unsent[v]] BY DEF StarterInv, Ledger
  <2> QED BY <2>1, <1>1
<1> QED BY <1>1, <1>4, <1>5, <1>6, PaymentChainStep

\* A wallet spends.
LEMMA SpendSteps ==
  ASSUME StarterInv, NEW w \in Wallet, Spend(w) PROVE StarterInv'
<1>1. /\ UNCHANGED <<keys, today, unsent, mempool, flight, paid, slipped, call>>
      /\ funded' = funded \ {w}
  BY DEF Spend
<1>2. (\A v : Live(v)' = Live(v)) /\ \A x : Seen(x) <=> Seen(x)' BY <1>1, LiveSame
<1>3. Ledger'
  <2>1. Taken' = Taken /\ funded' \subseteq Wallet BY <1>1 DEF Taken, StarterInv, Ledger
  <2> QED BY <2>1, <1>1, Zenon DEF StarterInv, Ledger, One
<1> QED BY <1>1, <1>2, <1>3, PaymentChainStep

\* Every step of a server.
LEMMA GrantSteps ==
  ASSUME StarterInv, NEW s \in Process, Grant(s) \/ Die(s) PROVE StarterInv'
<1>1. CASE ReturnCap(s) BY <1>1, EndSteps DEF ReturnCap, At, faults
<1>2. CASE Die(s) BY <1>2, EndSteps DEF Die
<1> QED BY <1>1, <1>2, ReserveAccountSteps, ReserveWalletSteps, CountSteps, UncountSteps,
           ReleaseSteps, LoadPaymentSteps, ReadNonceSteps, SignSteps, SendSteps, FailedSteps, KeepSteps,
           DropSteps, ForgetSteps, RecordSteps
        DEF Grant

\* The initial states.
LEMMA StarterStarts == StarterInit => StarterInv
<1> SUFFICES ASSUME StarterInit PROVE StarterInv OBVIOUS
<1>0. Free # "sent" /\ Free # "reserved" BY StarterAssumption
<1>1. \A s \in Process : call[s] = Idle /\ call[s].at = "idle" BY DEF StarterInit, Idle
<1>2. KeysHeld BY <1>1 DEF StarterInit, KeysHeld, CallShape, Reserving, Exclusive, Holding, Point
<1>3. DOMAIN paid = {} /\ Taken = 0 BY FS_EmptySet DEF StarterInit, Taken
<1>4. Ledger BY <1>3, StarterAssumption DEF StarterInit, Ledger
<1>5. \A w : Live(w) = {} BY <1>3 DEF StarterInit, Live
<1>6. \A s \in Process : Stage(call[s]) BY <1>1, StageIdle
<1>7. Paying BY <1>5, <1>6 DEF Paying, AtMostOne
<1>8. SentTo = {} /\ Counted = {} /\ Passed = {}
  BY <1>0, <1>1 DEF StarterInit, SentTo, Counted, Passed, CountedAt, PassedAt, Holding
<1>9. CapKept BY <1>8, FS_EmptySet, StarterAssumption DEF CapKept, StarterInit
<1>10. SentIsPaid BY <1>0 DEF StarterInit, SentIsPaid
<1> QED BY <1>2, <1>4, <1>7, <1>9, <1>10 DEF StarterInv

\* Reservations, payments and cap agree at all times (starter-funds.mjs:60-101).
THEOREM StarterInvariant == StarterSpec => []StarterInv
<1>1. StarterInv /\ [StarterNext]_starterVars => StarterInv'
  <2> SUFFICES ASSUME StarterInv, [StarterNext]_starterVars PROVE StarterInv' OBVIOUS
  <2>1. CASE UNCHANGED starterVars
    <3>1. UNCHANGED <<keys, today, unsent, mempool, flight, paid, funded, slipped, call>>
      BY <2>1 DEF starterVars, keys
    <3>2. (\A v : Live(v)' = Live(v)) /\ \A x : Seen(x) <=> Seen(x)' BY <3>1, LiveSame
    <3>3. Ledger' BY <3>1, LedgerRests DEF StarterInv, Ledger, network
    <3> QED BY <3>1, <3>2, <3>3, PaymentChainStep
  <2>2. CASE StarterNext
    BY <2>2, GrantSteps, BeginSteps, LandSteps, LateSteps, ExpireSteps, SpendSteps DEF StarterNext
  <2> QED BY <2>1, <2>2
<1> QED BY <1>1, StarterStarts, PTL DEF StarterSpec

\* The invariant is enough.
LEMMA StarterHolds == StarterInv => GrantsAccounted
<1> SUFFICES ASSUME StarterInv PROVE GrantsAccounted OBVIOUS
<1>1. StarterTypeOK
  <2>1. \A w \in Wallet : unsent[w] \subseteq Payment /\ Cardinality(unsent[w]) <= 1
    <3>1. SUFFICES ASSUME NEW w \in Wallet PROVE unsent[w] \subseteq Payment /\ Cardinality(unsent[w]) <= 1
      OBVIOUS
    <3>2. CASE unsent[w] = {} BY <3>2, FS_EmptySet
    <3>3. CASE unsent[w] # {}
      <4>1. PICK tx \in Payment : unsent[w] = {tx} BY <3>3 DEF StarterInv, Ledger, One
      <4> QED BY <4>1, FS_Singleton
    <3> QED BY <3>2, <3>3
  <2>2. \A s \in Process : call[s].at \in Point BY DEF StarterInv, KeysHeld, CallShape, Idle, Point
  <2>3. \A s \in Process : call[s].at \in Exclusive =>
           accountKey[call[s].login] = "reserved" /\ walletKey[call[s].target] = call[s].login
    BY DEF StarterInv, KeysHeld, Reserving
  <2> QED BY <2>1, <2>2, <2>3 DEF StarterTypeOK, StarterInv, KeysHeld, Ledger, CapKept, Exclusive
<1>2. PaidOnce
  <2>1. SUFFICES ASSUME NEW w \in Wallet, w \notin slipped, NEW m \in DOMAIN paid, NEW n \in DOMAIN paid,
                        paid[m].to = w, paid[n].to = w
                 PROVE m = n
    BY DEF PaidOnce, Twice
  <2>2. paid[m] \in Live(w) /\ paid[n] \in Live(w) BY <2>1, LiveIs
  <2>3. paid[m] = paid[n] BY <2>1, <2>2 DEF StarterInv, Paying, AtMostOne
  <2> QED BY <2>3 DEF StarterInv, Ledger
<1>3. CapRespected
  <2>1. Cardinality(SentTo) \in Nat /\ Cardinality(Counted) \in Nat /\ Cardinality(Passed) \in Nat
    BY CapFinite
  <2>2. today \in Nat /\ Cardinality(SentTo) + Cardinality(Counted) <= today
        /\ Cardinality(SentTo) + Cardinality(Passed) <= DailyLimit
    BY DEF StarterInv, CapKept
  <2>3. Cardinality(SentTo) <= today /\ Cardinality(SentTo) <= DailyLimit
    BY <2>1, <2>2, StarterAssumption
  <2> QED BY <2>3 DEF CapRespected, SentTo
<1> QED BY <1>1, <1>2, <1>3 DEF GrantsAccounted, StarterInv

\* No wallet is paid twice unless its kept payment slipped, an account is told the
\* truth, and the daily cap holds (starter-funds.mjs:66-101): for any number of servers,
\* accounts, wallets, failed broadcasts and crashes.
THEOREM StarterAccounted == StarterSpec => []GrantsAccounted
BY StarterInvariant, StarterHolds, PTL
=============================================================================
