------------------------- MODULE AgentExecutorProofs -------------------------
(***************************************************************************)
(* What AgentExecutor keeps, for any number of processes and entries, any    *)
(* policy, and a network, reorganisations and crashes without bound.         *)
(* FinalIsFinal needs only which statuses a process may hold in its view     *)
(* while another one writes (JournalInv).  The rest relates the journal to   *)
(* the chain: IInv says that what a process has read is still so however old *)
(* its view is, because the steps of the others and of the chain are Stable, *)
(* and that the nonces of the entries leave no gap above the used ones, so   *)
(* that the next nonce is free.  What holds only when the chain stands still *)
(* during a reconciliation comes last (ReplacedInv).                         *)
(***************************************************************************)
EXTENDS AgentExecutor, SumProofs

-----------------------------------------------------------------------------
(* The inductive invariant.                                                 *)

Fields == {"status", "action", "nonce", "deadline", "cost", "plannedAt", "owner"}
ViewFields == {"status", "held", "overdue", "deep", "found", "receipt", "becomes"}

\* Every entry has a status, and every process its records.
JournalShape ==
  /\ journal = [e \in Entry |-> journal[e]]
  /\ \A e \in Entry : /\ journal[e] = [f \in Fields |-> journal[e][f]]
                      /\ Status(e) \in {"free"} \cup Unfinished \cup Final
ProcShape ==
  /\ pc = [p \in Proc |-> pc[p]] /\ cur = [p \in Proc |-> cur[p]]
  /\ view = [p \in Proc |-> view[p]]
  /\ \A p \in Proc : view[p] = [f \in ViewFields |-> view[p][f]]
Shape == JournalShape /\ ProcShape

\* A process that is about something works on an entry; while it reconciles,
\* the status it read was not final.
Working(p) ==
  /\ pc[p] \notin {"idle", "plan"} => cur[p] \in Entry
  /\ pc[p] \in {"lookup", "count", "apply"} => view[p].status \in Unfinished
  /\ pc[p] = "apply" => view[p].becomes \in {"broadcast"} \cup Final

JournalInv == Shape /\ \A p \in Proc : Working(p)

\* What a step may do to an entry that is final.
Kept(e) == journal'[e].status = Status(e) /\ journal'[e].nonce = journal[e].nonce

-----------------------------------------------------------------------------
\* An empty journal and idle processes.
LEMMA InvInit == Init => JournalInv
  <1> SUFFICES ASSUME Init PROVE JournalInv
    OBVIOUS
  <1>1. \A e \in Entry : /\ journal[e] = [f \in Fields |-> journal[e][f]]
                         /\ journal[e].status = "free"
    BY DEF Init, Fields
  <1>2. \A p \in Proc : view[p] = [f \in ViewFields |-> view[p][f]] /\ pc[p] = "idle"
    BY DEF Init, NoView, ViewFields
  <1>3. Shape
    BY <1>1, <1>2 DEF Init, Shape, JournalShape, ProcShape, Status
  <1>4. QED
    BY <1>2, <1>3 DEF JournalInv, Working

\* The chain and the network touch neither the journal nor a process.
LEMMA ChainFrame ==
  ASSUME Chain PROVE UNCHANGED <<journal, procVars>>
  BY DEF Chain, NewBlock, Foreign, Mine, Reorg, Arrive, Evict

\* Steps that touch neither keep the invariant.
LEMMA UnchangedInv ==
  ASSUME JournalInv, UNCHANGED <<journal, procVars>>
  PROVE  JournalInv' /\ \A e \in Entry : Kept(e)
  BY DEF JournalInv, Shape, JournalShape, ProcShape, Working, Status, procVars, Kept

\* One entry is replaced.
LEMMA SetEntry ==
  ASSUME JournalShape, NEW e \in Entry, NEW r, journal' = [journal EXCEPT ![e] = r],
         r = [f \in Fields |-> r[f]], r.status \in {"free"} \cup Unfinished \cup Final
  PROVE  /\ JournalShape' /\ journal'[e] = r
         /\ \A x \in Entry \ {e} : journal'[x] = journal[x]
  BY DEF JournalShape, Status

\* The status of one entry changes; it was not final.
LEMMA SetStatus ==
  ASSUME JournalShape, NEW e \in Entry, NEW r,
         journal' = [journal EXCEPT ![e] = r], r = [f \in Fields |-> r[f]],
         r.status \in {"free"} \cup Unfinished \cup Final, Status(e) \notin Final
  PROVE  JournalShape' /\ \A x \in Entry : Status(x) \in Final => Kept(x)
  BY SetEntry DEF Kept, Status

\* One process moves.
OthersUnmoved(p) ==
  /\ pc' = [q \in Proc |-> pc'[q]] /\ cur' = [q \in Proc |-> cur'[q]]
  /\ view' = [q \in Proc |-> view'[q]]
  /\ \A q \in Proc \ {p} : pc'[q] = pc[q] /\ cur'[q] = cur[q] /\ view'[q] = view[q]

\* What is left to show of a step of process p.
LEMMA ProcFrame ==
  ASSUME JournalInv, NEW p \in Proc, JournalShape', OthersUnmoved(p), Working(p)',
         view'[p] = [f \in ViewFields |-> view'[p][f]]
  PROVE  JournalInv'
  BY DEF JournalInv, Shape, ProcShape, OthersUnmoved, Working

\* Steps that leave the journal alone.
LEMMA JournalUntouched ==
  ASSUME JournalShape, UNCHANGED journal
  PROVE  JournalShape' /\ \A x \in Entry : Status(x) \in Final => Kept(x)
  BY DEF JournalShape, Kept, Status

\* A process that gives up.
LEMMA IdleFrame ==
  ASSUME JournalInv, NEW p \in Proc, JournalShape', Idle(p)
  PROVE  JournalInv'
  <1>1. OthersUnmoved(p) /\ pc'[p] = "idle" /\ view'[p] = NoView
    BY DEF Idle, Goto, JournalInv, Shape, ProcShape, OthersUnmoved
  <1>2. Working(p)' /\ view'[p] = [f \in ViewFields |-> view'[p][f]]
    BY <1>1 DEF Working, NoView, ViewFields
  <1>3. QED
    BY <1>1, <1>2, ProcFrame

-----------------------------------------------------------------------------
(* The steps of a process.                                                  *)

FinalKept == \A x \in Entry : Status(x) \in Final => Kept(x)

\* Planning, signing and sending keep the invariant and every final entry.
LEMMA ExecuteStep ==
  ASSUME JournalInv, NEW p \in Proc, Execute(p)
  PROVE  JournalInv' /\ FinalKept
  <1> USE DEF FinalKept
  <1>0. JournalShape /\ ProcShape /\ Working(p)
    BY DEF JournalInv, Shape
  <1>1. CASE ReadForPlan(p)
    <2>1. JournalShape' /\ FinalKept
      BY <1>0, <1>1, JournalUntouched DEF ReadForPlan
    <2>2. OthersUnmoved(p) /\ pc'[p] = "plan"
      BY <1>0, <1>1 DEF ReadForPlan, Goto, ProcShape, OthersUnmoved
    <2>3. view'[p] = [view[p] EXCEPT !.held = Holdings]
      BY <1>0, <1>1 DEF ReadForPlan, ProcShape
    <2>4. view'[p] = [f \in ViewFields |-> view'[p][f]]
      BY <1>0, <2>3 DEF ProcShape, ViewFields
    <2>5. Working(p)'
      BY <2>2 DEF Working
    <2>6. QED
      BY <2>1, <2>2, <2>4, <2>5, ProcFrame
  <1>2. ASSUME NEW e \in Entry, NEW a \in Actions, Plan(p, e, a)
        PROVE  JournalInv' /\ FinalKept
    <2> DEFINE r == [journal[e] EXCEPT !.status = "planned", !.action = a, !.plannedAt = now,
                       !.owner = p,
                       !.deadline = IF a \in {"buy", "sell"} THEN now + DeadlineAfter ELSE -1]
    <2>1. journal' = [journal EXCEPT ![e] = r] /\ Status(e) = "free"
      BY <1>2 DEF Plan
    <2>2. r = [f \in Fields |-> r[f]] /\ r.status = "planned"
      BY <1>0 DEF JournalShape, Fields
    <2> HIDE DEF r
    <2>3. JournalShape' /\ FinalKept
      BY <1>0, <2>1, <2>2, SetStatus DEF Unfinished, Final
    <2>4. OthersUnmoved(p) /\ pc'[p] = "sign" /\ cur'[p] = e /\ view'[p] = NoView
      BY <1>0, <1>2 DEF Plan, Goto, ProcShape, OthersUnmoved
    <2>5. Working(p)' /\ view'[p] = [f \in ViewFields |-> view'[p][f]]
      BY <2>4 DEF Working, NoView, ViewFields
    <2>6. QED
      BY <2>3, <2>4, <2>5, ProcFrame
  <1>3. CASE PlanRejected(p) \/ SignSkipped(p) \/ SendUncertain(p)
    <2>1. UNCHANGED journal /\ Idle(p)
      BY <1>3 DEF PlanRejected, SignSkipped, SendUncertain
    <2>2. QED
      BY <1>0, <2>1, JournalUntouched, IdleFrame
  <1>4. CASE Sign(p)
    <2> DEFINE r == [journal[cur[p]] EXCEPT !.status = "signed", !.nonce = NextNonce]
    <2>1. /\ cur[p] \in Entry /\ Status(cur[p]) = "planned"
          /\ journal' = [journal EXCEPT ![cur[p]] = r]
      BY <1>0, <1>4 DEF Sign, StillPlanned, Working
    <2>2. r = [f \in Fields |-> r[f]] /\ r.status = "signed"
      BY <1>0, <2>1 DEF JournalShape, Fields
    <2> HIDE DEF r
    <2>3. JournalShape' /\ FinalKept
      BY <1>0, <2>1, <2>2, SetStatus DEF Unfinished, Final
    <2>4. OthersUnmoved(p) /\ pc'[p] = "send" /\ UNCHANGED <<cur, view>>
      BY <1>0, <1>4 DEF Sign, Goto, ProcShape, OthersUnmoved
    <2>5. Working(p)' /\ view'[p] = [f \in ViewFields |-> view'[p][f]]
      BY <1>0, <2>1, <2>4 DEF Working, ProcShape
    <2>6. QED
      BY <2>3, <2>4, <2>5, ProcFrame
  <1>5. CASE SignRefused(p)
    <2> DEFINE r == [journal[cur[p]] EXCEPT !.status = "abandoned"]
    <2>1. /\ cur[p] \in Entry /\ Status(cur[p]) = "planned"
          /\ journal' = [journal EXCEPT ![cur[p]] = r] /\ Idle(p)
      BY <1>0, <1>5 DEF SignRefused, StillPlanned, Working
    <2>2. r = [f \in Fields |-> r[f]] /\ r.status = "abandoned"
      BY <1>0, <2>1 DEF JournalShape, Fields
    <2> HIDE DEF r
    <2>3. JournalShape' /\ FinalKept
      BY <1>0, <2>1, <2>2, SetStatus DEF Unfinished, Final
    <2>4. QED
      BY <2>1, <2>3, IdleFrame
  <1>6. CASE Send(p)
    <2>1. JournalShape' /\ FinalKept
      BY <1>0, <1>6, JournalUntouched DEF Send
    <2>2. /\ OthersUnmoved(p) /\ pc[p] = "send" /\ pc'[p] = "mark" /\ UNCHANGED <<cur, view>>
      BY <1>0, <1>6 DEF Send, Goto, ProcShape, OthersUnmoved
    <2>3. Working(p)' /\ view'[p] = [f \in ViewFields |-> view'[p][f]]
      BY <1>0, <2>2 DEF Working, ProcShape
    <2>4. QED
      BY <2>1, <2>2, <2>3, ProcFrame
  <1>7. CASE Mark(p)
    <2> DEFINE r == [journal[cur[p]] EXCEPT !.status = Marked(cur[p])]
    <2>1. cur[p] \in Entry /\ journal' = [journal EXCEPT ![cur[p]] = r] /\ Idle(p)
      BY <1>0, <1>7 DEF Mark, Working
    <2>2. /\ r = [f \in Fields |-> r[f]] /\ r.status = Marked(cur[p])
          /\ r.nonce = journal[cur[p]].nonce
      BY <1>0, <2>1 DEF JournalShape, Fields
    <2>3. /\ Marked(cur[p]) \in {"free"} \cup Unfinished \cup Final
          /\ Status(cur[p]) \in Final => Marked(cur[p]) = Status(cur[p])
      BY <1>0, <2>1 DEF JournalShape, Marked, Unfinished, Final
    <2> HIDE DEF r
    <2>4. /\ JournalShape' /\ journal'[cur[p]] = r
          /\ \A x \in Entry \ {cur[p]} : journal'[x] = journal[x]
      BY <1>0, <2>1, <2>2, <2>3, SetEntry
    <2>5. FinalKept
      BY <2>1, <2>2, <2>3, <2>4 DEF Kept, Status
    <2>6. QED
      BY <2>1, <2>4, <2>5, IdleFrame
  <1>8. QED
    BY <1>1, <1>2, <1>3, <1>4, <1>5, <1>6, <1>7 DEF Execute

\* What recovery decides is a journal status, or to send again.
LEMMA RecoveryType ==
  ASSUME NEW e, NEW v, NEW latest
  PROVE  RecoveryStep(e, v, latest) \in {"broadcast", "resend"} \cup Final
  BY DEF RecoveryStep, Final

\* Reconciliation keeps the invariant and every final entry.
LEMMA ReconcileStep ==
  ASSUME JournalInv, NEW p \in Proc, Reconcile(p)
  PROVE  JournalInv' /\ FinalKept
  <1> USE DEF FinalKept
  <1>0. JournalShape /\ ProcShape /\ Working(p)
    BY DEF JournalInv, Shape
  <1>1. ASSUME NEW e \in Entry, ReadEntry(p, e) PROVE JournalInv' /\ FinalKept
    <2>1. JournalShape' /\ FinalKept
      BY <1>0, <1>1, JournalUntouched DEF ReadEntry
    <2>2. OthersUnmoved(p) /\ pc'[p] = "lookup" /\ cur'[p] = e
      BY <1>0, <1>1 DEF ReadEntry, Goto, ProcShape, OthersUnmoved
    <2>3. /\ view'[p] = [view[p] EXCEPT !.status = Status(e), !.overdue = Overdue(e),
                                        !.deep = Deep(e)]
          /\ Status(e) \in Unfinished
      BY <1>0, <1>1 DEF ReadEntry, ProcShape, Open
    <2>4. view'[p] = [f \in ViewFields |-> view'[p][f]] /\ view'[p].status \in Unfinished
      BY <1>0, <2>3 DEF ProcShape, ViewFields
    <2>5. Working(p)'
      BY <2>2, <2>4 DEF Working
    <2>6. QED
      BY <2>1, <2>2, <2>4, <2>5, ProcFrame
  <1>2. CASE Lookup(p)
    <2>1. JournalShape' /\ FinalKept
      BY <1>0, <1>2, JournalUntouched DEF Lookup
    <2>2. OthersUnmoved(p) /\ pc[p] = "lookup" /\ pc'[p] = "count" /\ UNCHANGED cur
      BY <1>0, <1>2 DEF Lookup, Goto, ProcShape, OthersUnmoved
    <2>3. PICK o, f, r : view'[p] = [NoView EXCEPT !.status = view[p].status, !.found = f,
                                                  !.overdue = o, !.receipt = r]
      BY <1>0, <1>2 DEF Lookup, ProcShape
    <2>4. /\ view'[p] = [g \in ViewFields |-> view'[p][g]]
          /\ view'[p].status = view[p].status
      BY <2>3 DEF NoView, ViewFields
    <2>5. Working(p)'
      BY <1>0, <2>2, <2>4 DEF Working
    <2>6. QED
      BY <2>1, <2>2, <2>4, <2>5, ProcFrame
  <1>3. CASE ReadCount(p)
    <2> DEFINE step == RecoveryStep(cur[p], view[p], used)
    <2>1. JournalShape' /\ FinalKept
      BY <1>0, <1>3, JournalUntouched DEF ReadCount
    <2>2. /\ cur[p] \in Entry /\ view[p].status \in Unfinished
          /\ step \in {"broadcast", "resend"} \cup Final
      BY <1>0, <1>3, RecoveryType DEF ReadCount, Working
    <2> HIDE DEF step
    <2>3. CASE Idle(p)
      BY <2>1, <2>3, IdleFrame
    <2>4. CASE Goto(p, "resend") /\ view' = [view EXCEPT ![p] = NoView] /\ UNCHANGED cur
      <3>1. OthersUnmoved(p) /\ pc'[p] = "resend" /\ view'[p] = NoView /\ UNCHANGED cur
        BY <1>0, <2>4 DEF Goto, ProcShape, OthersUnmoved
      <3>2. Working(p)' /\ view'[p] = [f \in ViewFields |-> view'[p][f]]
        BY <2>2, <3>1 DEF Working, NoView, ViewFields
      <3>3. QED
        BY <2>1, <3>1, <3>2, ProcFrame
    <2>5. CASE /\ step # "resend" /\ Goto(p, "apply") /\ UNCHANGED cur
               /\ view' = [view EXCEPT ![p] = [NoView EXCEPT !.status = view[p].status,
                                                             !.becomes = step]]
      <3>1. /\ OthersUnmoved(p) /\ pc'[p] = "apply" /\ UNCHANGED cur
            /\ view'[p] = [NoView EXCEPT !.status = view[p].status, !.becomes = step]
        BY <1>0, <2>5 DEF Goto, ProcShape, OthersUnmoved
      <3>2. /\ view'[p].status = view[p].status /\ view'[p].becomes = step
            /\ view'[p] = [f \in ViewFields |-> view'[p][f]]
        BY <3>1 DEF NoView, ViewFields
      <3>3. Working(p)'
        BY <2>2, <2>5, <3>1, <3>2 DEF Working
      <3>4. QED
        BY <2>1, <3>1, <3>2, <3>3, ProcFrame
    <2>6. QED
      BY <1>3, <2>3, <2>4, <2>5 DEF ReadCount, step
  <1>4. CASE Resend(p)
    <2>1. UNCHANGED journal /\ Idle(p)
      BY <1>4 DEF Resend
    <2>2. QED
      BY <1>0, <2>1, JournalUntouched, IdleFrame
  <1>5. CASE Apply(p)
    <2>1. /\ cur[p] \in Entry /\ view[p].status \in Unfinished
          /\ view[p].becomes \in {"broadcast"} \cup Final /\ Idle(p)
      BY <1>0, <1>5 DEF Apply, Working
    <2>2. CASE Unmoved(p)
      <3>1. PICK c : journal' = [journal EXCEPT ![cur[p]] =
                       [journal[cur[p]] EXCEPT !.status = view[p].becomes, !.cost = c]]
        BY <1>5, <2>2 DEF Apply
      <3> DEFINE r == [journal[cur[p]] EXCEPT !.status = view[p].becomes, !.cost = c]
      <3>2. r = [f \in Fields |-> r[f]] /\ r.status = view[p].becomes
        BY <1>0, <2>1 DEF JournalShape, Fields
      <3>3. journal' = [journal EXCEPT ![cur[p]] = r]
        BY <3>1
      <3> HIDE DEF r
      <3>4. Status(cur[p]) \notin Final
        BY <2>1, <2>2 DEF Unmoved, Unfinished, Final
      <3>5. JournalShape' /\ FinalKept
        BY <1>0, <2>1, <3>2, <3>3, <3>4, SetStatus DEF Unfinished
      <3>6. QED
        BY <2>1, <3>5, IdleFrame
    <2>3. CASE ~Unmoved(p)
      BY <1>0, <1>5, <2>1, <2>3, JournalUntouched, IdleFrame DEF Apply
    <2>4. QED
      BY <2>2, <2>3
  <1>6. QED
    BY <1>1, <1>2, <1>3, <1>4, <1>5 DEF Reconcile

\* A crash hands the entries of the process over and touches nothing else in them.
LEMMA CrashStep ==
  ASSUME JournalInv, NEW p \in Proc, Crash(p)
  PROVE  JournalInv' /\ FinalKept
  <1>1. ASSUME NEW e \in Entry
        PROVE  /\ journal'[e] = [f \in Fields |-> journal'[e][f]]
               /\ journal'[e].status = Status(e) /\ journal'[e].nonce = journal[e].nonce
    <2>1. journal[e] = [f \in Fields |-> journal[e][f]]
      BY DEF JournalInv, Shape, JournalShape
    <2>2. journal'[e] = journal[e] \/ journal'[e] = [journal[e] EXCEPT !.owner = Gone]
      BY DEF Crash
    <2>3. QED
      BY <2>1, <2>2 DEF Fields, Status
  <1>2. JournalShape' /\ FinalKept
    BY <1>1 DEF Crash, JournalInv, Shape, JournalShape, Status, FinalKept, Kept
  <1>3. QED
    BY <1>2, IdleFrame DEF Crash

\* Every step does.
LEMMA InvStep == JournalInv /\ [Next]_vars => JournalInv' /\ FinalKept
  <1> SUFFICES ASSUME JournalInv, [Next]_vars PROVE JournalInv' /\ FinalKept
    OBVIOUS
  <1>1. CASE Chain \/ UNCHANGED vars
    BY <1>1, ChainFrame, UnchangedInv DEF vars, FinalKept
  <1>2. ASSUME NEW p \in Proc, Execute(p) \/ Reconcile(p) \/ Crash(p)
        PROVE  JournalInv' /\ FinalKept
    BY <1>2, ExecuteStep, ReconcileStep, CrashStep
  <1>3. QED
    BY <1>1, <1>2 DEF Next

\* A final entry never changes again: a slower process that read it earlier
\* finds that its status moved (executor.ts:164), the answer of a send is only
\* recorded on an entry that is still signed (line 130), and sign looks at the
\* entry again under the lock (lines 110-111).
THEOREM FinalEntriesKept == Spec => FinalIsFinal
  <1>1. FinalKept => [\A e \in Entry : Status(e) \in Final
          => journal'[e].status = Status(e) /\ journal'[e].nonce = journal[e].nonce]_vars
    BY DEF FinalKept, Kept
  <1>2. QED
    BY <1>1, InvInit, InvStep, PTL DEF Spec, FinalIsFinal

-----------------------------------------------------------------------------
(* What every entry and every process keeps to.                             *)

\* The journal holds the nonce and the bytes of e.
Signed(e) == journal[e].nonce # NoNonce

\* The transaction of e is on the chain and no longer in the head block.
Settled(e) == mined[e] # "no" /\ e \notin recent

Late(e) == journal[e].deadline >= 0 /\ now > journal[e].deadline

\* The transaction of e has no effect, and can have none any more.
Ineffective(e) == Late(e) /\ mined[e] \in {"no", "reverted"}

\* The chain bears out status s of e, and will go on doing so.
Justified(e, s) ==
  /\ s = "confirmed" => Settled(e) /\ mined[e] = "ok"
  /\ s = "mismatch" => Settled(e) /\ mined[e] = "odd"
  /\ s = "reverted" => Settled(e) /\ mined[e] = "reverted"
  /\ s = "expired" => Ineffective(e)

EntryOk(e) ==
  /\ journal[e].deadline >= 0 => journal[e].action \in {"buy", "sell"}
  /\ Justified(e, Status(e))
  /\ Status(e) = "confirmed" => journal[e].cost = cost[e]

\* What a process has read is still so, however old its view.
Sees(p) ==
  LET e == cur[p]  v == view[p] IN
  /\ pc[p] \notin {"idle", "plan"} => e \in Entry /\ Status(e) # "free"
  /\ pc[p] \in {"send", "mark", "resend"} => Signed(e)
  /\ pc[p] \in {"lookup", "count", "apply"} =>
       v.status \in Unfinished /\ (v.status # "planned" => Signed(e))
  /\ pc[p] = "lookup" => /\ v.deep => Settled(e)
                         /\ v.overdue => Late(e)
  /\ pc[p] = "count" /\ v.status = "planned" => v.receipt = "none"
  /\ pc[p] = "count" /\ v.status # "planned" =>
       /\ v.receipt # "none" => Settled(e) /\ mined[e] = v.receipt
       /\ v.overdue => Ineffective(e)
  /\ pc[p] = "apply" =>
       /\ v.becomes \in {"broadcast"} \cup Final
       /\ v.becomes = "abandoned" <=> v.status = "planned"
       /\ Justified(e, v.becomes)

Mined == {e \in Entry : mined[e] # "no"}
RecentBuys == {e \in recent : mined[e] = "ok" /\ journal[e].action = "buy"}

\* The chain: every used nonce is ours or foreign, the transaction in the head
\* block has the last one, and the wallet sells no share it does not hold.
ChainOk ==
  /\ used = Cardinality(Mined) + foreign
  /\ \A e \in Mined : Signed(e) /\ journal[e].nonce < used
  /\ \A e \in mempool : Signed(e) /\ journal[e].nonce >= used
  /\ \A e \in inflight : Signed(e)
  /\ \A e \in recent : /\ e \in Mined /\ journal[e].nonce = used - 1
                       /\ \A f \in Mined \ {e} : journal[f].nonce < used - 1
  /\ \A e \in Entry : cost[e] # 0 => mined[e] = "ok" /\ journal[e].action = "buy"
  /\ Holdings >= 0 /\ (RecentBuys # {} => Holdings >= 1)

\* From the used nonces to that of any entry there is no gap.
NoGaps ==
  \A e \in Entry : Signed(e) =>
    \A m \in used..journal[e].nonce : \E f \in Entry : journal[f].nonce = m

IInv ==
  /\ TypeOK /\ (\A e \in Entry : EntryOk(e)) /\ NoncesDistinct /\ NoGaps
  /\ ChainOk /\ ReservationsWithinPolicy /\ \A p \in Proc : Sees(p)

-----------------------------------------------------------------------------
(* Types.                                                                   *)

TopNonce == Cardinality(Entry) + MaxForeign

\* Named sets of types.
Statuses == {"free"} \cup Unfinished \cup Final
Unsigned == {"free", "planned", "abandoned"}

\* The fields of an entry.
LEMMA EntryFields ==
  ASSUME TypeOK, NEW e \in Entry
  PROVE  /\ journal[e] = [f \in Fields |-> journal[e][f]]
         /\ Status(e) \in Statuses /\ journal[e].action \in Actions \cup {"none"}
         /\ journal[e].nonce \in 0..TopNonce \cup {NoNonce}
         /\ journal[e].deadline \in -1..MaxTime /\ journal[e].cost \in 0..Limit
         /\ journal[e].plannedAt \in 0..MaxTime /\ journal[e].owner \in Proc \cup {Gone}
         /\ Signed(e) <=> Status(e) \notin Unsigned
BY DEF TypeOK, JournalEntry, Fields, Status, Statuses, Unsigned, Signed, TopNonce

\* A record with those fields is an entry.
LEMMA MakeEntry ==
  ASSUME NEW r, r = [f \in Fields |-> r[f]],
         r.status \in Statuses, r.action \in Actions \cup {"none"},
         r.nonce \in 0..TopNonce \cup {NoNonce},
         r.deadline \in -1..MaxTime, r.cost \in 0..Limit, r.plannedAt \in 0..MaxTime,
         r.owner \in Proc \cup {Gone}, r.nonce = NoNonce <=> r.status \in Unsigned
  PROVE  r \in JournalEntry
<1> DEFINE t == [status |-> r.status, action |-> r.action, nonce |-> r.nonce,
                 deadline |-> r.deadline, cost |-> r.cost, plannedAt |-> r.plannedAt,
                 owner |-> r.owner]
<1>1. r = t
  BY DEF Fields
<1>2. t \in JournalEntry
  BY DEF JournalEntry, Statuses, Unsigned, TopNonce
<1> HIDE DEF t
<1>3. QED
  BY <1>1, <1>2

\* The steps a process can be at, and what it can have read.
Steps == {"idle", "plan", "sign", "send", "mark", "lookup", "count", "apply", "resend"}
Views == [status : {"none"} \cup Unfinished, held : Nat, overdue : BOOLEAN, deep : BOOLEAN,
          found : BOOLEAN, receipt : {"none"} \cup Effects,
          becomes : {"none", "broadcast"} \cup Final]

\* Process p goes to a step with an entry and a view.
Goes(p, step, e, v) ==
  /\ pc' = [pc EXCEPT ![p] = step]
  /\ cur' = [cur EXCEPT ![p] = e]
  /\ view' = [view EXCEPT ![p] = v]

\* The types of the state of a process.
LEMMA ProcTypes ==
  ASSUME TypeOK, NEW p \in Proc
  PROVE  pc[p] \in Steps /\ cur[p] \in Entry \cup {NoEntry} /\ view[p] \in Views
BY DEF TypeOK, Steps, Views

\* The process is there, and the others have not moved.
LEMMA Went ==
  ASSUME TypeOK, NEW p \in Proc, NEW step \in Steps, NEW e \in Entry \cup {NoEntry},
         NEW v \in Views, Goes(p, step, e, v)
  PROVE  /\ pc' \in [Proc -> Steps] /\ cur' \in [Proc -> Entry \cup {NoEntry}]
         /\ view' \in [Proc -> Views]
         /\ pc'[p] = step /\ cur'[p] = e /\ view'[p] = v
         /\ \A q \in Proc \ {p} : pc'[q] = pc[q] /\ cur'[q] = cur[q] /\ view'[q] = view[q]
BY DEF TypeOK, Steps, Views, Goes

\* The empty view is a view.
LEMMA NoViewType == NoView \in Views
BY DEF NoView, Views

-----------------------------------------------------------------------------
(* What no step undoes.                                                     *)

\* An entry that exists keeps its action and deadline, and a nonce it has.
Moves(e) ==
  /\ Status(e) # "free" => /\ Status(e)' # "free"
                           /\ journal'[e].action = journal[e].action
                           /\ journal'[e].deadline = journal[e].deadline
  /\ Signed(e) => Signed(e)' /\ journal'[e].nonce = journal[e].nonce

\* What the chain has settled for e stays, and what is too late stays so.
Stable(e) ==
  /\ Moves(e)
  /\ Settled(e) => Settled(e)' /\ mined'[e] = mined[e] /\ cost'[e] = cost[e]
  /\ Status(e) # "free" /\ Late(e) => Late(e)'
  /\ Status(e) # "free" /\ Ineffective(e) => Ineffective(e)'

\* A justified status stays justified.
LEMMA JustifiedKept ==
  ASSUME NEW e, Stable(e), Status(e) # "free", NEW s, Justified(e, s)
  PROVE  Justified(e, s)'
BY DEF Stable, Justified

\* What another process has read stays true.
LEMMA SeesKept ==
  ASSUME NEW p \in Proc, Sees(p), \A e \in Entry : Stable(e),
         pc'[p] = pc[p], cur'[p] = cur[p], view'[p] = view[p]
  PROVE  Sees(p)'
<1> DEFINE e == cur[p]  v == view[p]
<1>1. CASE pc[p] \in {"idle", "plan"}
  BY <1>1 DEF Sees
<1>2. CASE pc[p] \notin {"idle", "plan"}
  <2>1. e \in Entry /\ Status(e) # "free" /\ Stable(e)
    BY <1>2 DEF Sees
  <2>2. Status(e)' # "free" /\ (Signed(e) => Signed(e)')
    BY <2>1 DEF Stable, Moves
  <2>3. (Justified(e, v.becomes) => Justified(e, v.becomes)')
    BY <2>1, JustifiedKept
  <2>4. /\ Settled(e) => Settled(e)' /\ mined'[e] = mined[e]
        /\ Late(e) => Late(e)'
        /\ Ineffective(e) => Ineffective(e)'
    BY <2>1 DEF Stable
  <2>5. QED
    BY <2>1, <2>2, <2>3, <2>4 DEF Sees
<1>3. QED
  BY <1>1, <1>2

\* An entry that is left alone stays in order.
LEMMA EntryKept ==
  ASSUME NEW e, EntryOk(e), Stable(e), journal'[e] = journal[e]
  PROVE  EntryOk(e)'
<1>1. CASE Status(e) = "free"
  BY <1>1 DEF EntryOk, Justified, Status
<1>2. CASE Status(e) # "free"
  <2>1. Justified(e, Status(e))'
    BY <1>2, JustifiedKept DEF EntryOk, Status
  <2>2. QED
    BY <2>1 DEF EntryOk, Justified, Stable, Status
<1>3. QED
  BY <1>1, <1>2

\* No open entry gets a nonce: the nonces stay distinct.
LEMMA NoncesKept ==
  ASSUME NoncesDistinct,
         \A e \in Entry : Status(e)' \in Unfinished /\ journal'[e].nonce # NoNonce
           => Status(e) \in Unfinished /\ journal'[e].nonce = journal[e].nonce
  PROVE  NoncesDistinct'
<1> SUFFICES ASSUME NEW e \in Entry, NEW f \in Entry, Status(e)' \in Unfinished,
                    Status(f)' \in Unfinished, e # f, journal'[e].nonce # NoNonce,
                    journal'[e].nonce = journal'[f].nonce
             PROVE  FALSE
  BY DEF NoncesDistinct, Open
<1>1. e \in Open /\ f \in Open /\ journal[e].nonce # NoNonce /\ journal[e].nonce = journal[f].nonce
  BY DEF Open
<1>2. QED
  BY <1>1 DEF NoncesDistinct

\* No entry gets a nonce and none is used: no gap appears.
LEMMA GapsKept ==
  ASSUME NoGaps, \A e \in Entry : journal'[e].nonce = journal[e].nonce, used' = used
  PROVE  NoGaps'
BY DEF NoGaps, Signed

\* What an entry reserves is at most the limit of a buy.
LEMMA SpendType == TypeOK => \A e \in Entry : SpendOf(e) \in 0..Limit
<1> SUFFICES ASSUME TypeOK, NEW e \in Entry PROVE SpendOf(e) \in 0..Limit
  OBVIOUS
<1>1. journal[e].cost \in 0..Limit
  BY EntryFields
<1>2. Limit \in Nat /\ 0 \in 0..Limit /\ Limit \in 0..Limit
  BY ExecutorAssumption
<1>3. QED
  BY <1>1, <1>2 DEF SpendOf

\* No entry reserves more: the reservations stay within the policy.
LEMMA SpendKept ==
  ASSUME TypeOK, TypeOK', ReservationsWithinPolicy,
         \A e \in Entry : SpendOf(e)' <= SpendOf(e)
  PROVE  ReservationsWithinPolicy'
<1> DEFINE f == [e \in Entry |-> SpendOf(e)]
           g == [e \in Entry |-> SpendOf(e)']
<1>1. \A e \in Entry : SpendOf(e) \in 0..Limit
  BY SpendType
<1>2. \A e \in Entry : SpendOf(e)' \in 0..Limit
  <2>1. TypeOK' => (\A e \in Entry : SpendOf(e) \in 0..Limit)'
    BY SpendType, PTL
  <2>2. QED
    BY <2>1
<1>3. \A e \in Entry : f[e] \in Int /\ g[e] \in Int /\ g[e] <= f[e]
  BY <1>1, <1>2
<1>4. Spent = Sum(f, Entry) /\ Spent' = Sum(g, Entry)
  BY DEF Spent
<1> HIDE DEF f, g
<1>5. Sum(g, Entry) <= Sum(f, Entry) /\ Sum(g, Entry) \in Int /\ Sum(f, Entry) \in Int
  BY <1>3, ExecutorAssumption, SumAtMost, SumInt
<1>6. QED
  BY <1>4, <1>5, ExecutorAssumption DEF ReservationsWithinPolicy

-----------------------------------------------------------------------------
(* A step of a process, as the chain sees it.                               *)

\* The chain stands still; only journalled transactions are sent.
Sends ==
  /\ UNCHANGED <<now, used, mined, cost, recent, foreign>>
  /\ \A e \in mempool' : e \in mempool \/ (e \in Entry /\ Signed(e) /\ journal[e].nonce >= used)
  /\ \A e \in inflight' : e \in inflight \/ (e \in Entry /\ Signed(e))

\* A transaction that was mined was signed and is an entry that exists.
LEMMA MinedSigned ==
  ASSUME TypeOK, ChainOk, NEW e \in Entry, mined[e] # "no"
  PROVE  Signed(e) /\ Status(e) # "free" /\ journal[e].nonce \in Nat /\ journal[e].nonce < used
<1>1. e \in Mined
  BY DEF Mined
<1>2. Signed(e) /\ journal[e].nonce < used
  BY <1>1 DEF ChainOk
<1>3. TopNonce \in Nat
  BY ExecutorAssumption, FS_CardinalityType DEF TopNonce
<1>4. Status(e) \notin Unsigned /\ journal[e].nonce \in 0..TopNonce \cup {NoNonce}
  BY <1>2, EntryFields
<1>5. QED
  BY <1>2, <1>3, <1>4 DEF Signed, Unsigned

\* Sending changes nothing that is settled.
LEMMA SendsStable ==
  ASSUME TypeOK, ChainOk, \A e \in Entry : Moves(e), Sends
  PROVE  \A e \in Entry : Stable(e)
BY DEF Moves, Stable, Settled, Late, Ineffective, Sends

\* Sending journalled transactions keeps the chain in order.
LEMMA SendsChain ==
  ASSUME TypeOK, ChainOk, \A e \in Entry : Moves(e), Sends
  PROVE  ChainOk'
<1>1. \A e \in Entry : mined[e] # "no" =>
        Signed(e) /\ Status(e) # "free" /\ journal[e].nonce < used
  BY MinedSigned
<1>2. Mined' = Mined
  BY DEF Mined, Sends
<1>3. \A e \in Entry : mined[e] # "no" =>
        Signed(e)' /\ journal'[e].nonce = journal[e].nonce /\ journal'[e].action = journal[e].action
  BY <1>1 DEF Moves
<1>4. \A a : Traded(a)' = Traded(a)
  BY <1>3 DEF Traded, Sends
<1>5. Holdings' = Holdings
  BY <1>4 DEF Holdings
<1>6. recent \subseteq Entry /\ mempool \subseteq Entry /\ inflight \subseteq Entry
  BY DEF TypeOK
<1>7. RecentBuys' = RecentBuys
  BY <1>3, <1>6 DEF RecentBuys, Sends
<1>8. used' = Cardinality(Mined') + foreign'
  BY <1>2 DEF ChainOk, Sends
<1>9. \A e \in Mined' : Signed(e)' /\ journal'[e].nonce < used'
  BY <1>1, <1>2, <1>3 DEF Mined, Sends
<1>10. \A e \in mempool' : Signed(e)' /\ journal'[e].nonce >= used'
  BY <1>6 DEF ChainOk, Sends, Moves
<1>11. \A e \in inflight' : Signed(e)'
  BY <1>6 DEF ChainOk, Sends, Moves
<1>12. \A e \in recent' : /\ e \in Mined' /\ journal'[e].nonce = used' - 1
                          /\ \A f \in Mined' \ {e} : journal'[f].nonce < used' - 1
  <2>1. \A e \in Mined : journal'[e].nonce = journal[e].nonce
    BY <1>3 DEF Mined
  <2>2. QED
    BY <1>2, <2>1 DEF ChainOk, Sends
<1>13. \A e \in Entry : cost'[e] # 0 => mined'[e] = "ok" /\ journal'[e].action = "buy"
  BY <1>3 DEF ChainOk, Sends
<1>14. QED
  BY <1>5, <1>7, <1>8, <1>9, <1>10, <1>11, <1>12, <1>13 DEF ChainOk

\* The types of a step of a process.
StepTypes ==
  /\ journal' \in [Entry -> JournalEntry]
  /\ mempool' \subseteq Entry /\ inflight' \subseteq Entry
  /\ reorgs' = reorgs /\ crashes' \in 0..MaxCrash

\* Such a step keeps the types.
LEMMA StepTypeOK ==
  ASSUME TypeOK, NEW p \in Proc, NEW step \in Steps, NEW e \in Entry \cup {NoEntry},
         NEW v \in Views, Goes(p, step, e, v), StepTypes, Sends
  PROVE  TypeOK'
<1>1. pc' \in [Proc -> Steps] /\ cur' \in [Proc -> Entry \cup {NoEntry}] /\ view' \in [Proc -> Views]
  BY Went
<1>2. QED
  BY <1>1 DEF TypeOK, StepTypes, Sends, Steps, Views

\* What is left to show of a step of process p.
LEMMA ProcStep ==
  ASSUME IInv, NEW p \in Proc, NEW step \in Steps, NEW e \in Entry \cup {NoEntry},
         NEW v \in Views, Goes(p, step, e, v), StepTypes, Sends,
         \A x \in Entry : Moves(x), \A x \in Entry : EntryOk(x)',
         NoncesDistinct', NoGaps', ReservationsWithinPolicy', Sees(p)'
  PROVE  IInv'
<1>1. TypeOK'
  BY StepTypeOK DEF IInv
<1>2. ChainOk' /\ \A x \in Entry : Stable(x)
  BY SendsChain, SendsStable DEF IInv
<1>3. ASSUME NEW q \in Proc PROVE Sees(q)'
  <2>1. CASE q # p
    <3>1. pc'[q] = pc[q] /\ cur'[q] = cur[q] /\ view'[q] = view[q]
      BY <2>1, Went DEF IInv
    <3>2. QED
      BY <1>2, <3>1, SeesKept DEF IInv
  <2>2. QED
    BY <2>1
<1>4. QED
  BY <1>1, <1>2, <1>3 DEF IInv

\* A step that leaves the journal alone.
LEMMA QuietStep ==
  ASSUME IInv, NEW p \in Proc, NEW step \in Steps, NEW e \in Entry \cup {NoEntry},
         NEW v \in Views, Goes(p, step, e, v), StepTypes, Sends, UNCHANGED journal, Sees(p)'
  PROVE  IInv'
<1>1. \A x \in Entry : Moves(x)
  BY DEF Moves, Status, Signed
<1>2. \A x \in Entry : Stable(x)
  BY <1>1, SendsStable DEF IInv
<1>3. \A x \in Entry : EntryOk(x)'
  BY <1>2, EntryKept DEF IInv
<1>4. NoncesDistinct'
  BY NoncesKept DEF IInv, Status
<1>5. NoGaps'
  BY GapsKept DEF IInv, Sends
<1>6. ReservationsWithinPolicy'
  BY DEF IInv, ReservationsWithinPolicy, Spent, SpendOf, Status
<1>7. QED
  BY <1>1, <1>3, <1>4, <1>5, <1>6, ProcStep

\* A step that changes one entry that exists, and not its nonce.
LEMMA EntryStep ==
  ASSUME IInv, NEW p \in Proc, NEW step \in Steps, NEW e \in Entry \cup {NoEntry},
         NEW v \in Views, Goes(p, step, e, v), Sends,
         mempool' \subseteq Entry, inflight' \subseteq Entry,
         UNCHANGED <<reorgs, crashes>>, Sees(p)',
         NEW x \in Entry, NEW r \in JournalEntry, journal' = [journal EXCEPT ![x] = r],
         Status(x) # "free", r.action = journal[x].action, r.deadline = journal[x].deadline,
         r.nonce = journal[x].nonce, r.status # "free",
         r.status \in Unfinished => Status(x) \in Unfinished,
         Justified(x, r.status), r.status = "confirmed" => r.cost = cost[x],
         SpendOf(x)' <= SpendOf(x)
  PROVE  IInv'
<1>1. /\ journal' \in [Entry -> JournalEntry] /\ journal'[x] = r
      /\ \A y \in Entry \ {x} : journal'[y] = journal[y]
  BY DEF IInv, TypeOK
<1>2. StepTypes
  BY <1>1 DEF StepTypes, IInv, TypeOK
<1>3. \A y \in Entry : Moves(y)
  BY <1>1 DEF Moves, Status, Signed
<1>4. \A y \in Entry : Stable(y)
  BY <1>3, SendsStable DEF IInv
<1>5. ASSUME NEW y \in Entry PROVE EntryOk(y)'
  <2>1. CASE y = x
    <3>1. Justified(x, r.status)'
      BY <1>4, JustifiedKept
    <3>2. Status(x)' = r.status
      BY <1>1 DEF Status
    <3>3. Justified(x, Status(x))'
      BY <3>1, <3>2 DEF Justified
    <3>4. journal[x].deadline >= 0 => journal[x].action \in {"buy", "sell"}
      BY DEF IInv, EntryOk
    <3>5. QED
      BY <1>1, <2>1, <3>2, <3>3, <3>4 DEF EntryOk, Sends
  <2>2. CASE y # x
    BY <1>1, <1>4, <2>2, EntryKept DEF IInv
  <2>3. QED
    BY <2>1, <2>2
<1>6. \A y \in Entry : /\ journal'[y].nonce = journal[y].nonce
                       /\ Status(y)' \in Unfinished => Status(y) \in Unfinished
  BY <1>1 DEF Status
<1>7. NoncesDistinct' /\ NoGaps'
  BY <1>6, NoncesKept, GapsKept DEF IInv, Sends
<1>8. ReservationsWithinPolicy'
  <2>1. TypeOK'
    BY <1>2, StepTypeOK DEF IInv
  <2>2. ASSUME NEW y \in Entry PROVE SpendOf(y)' <= SpendOf(y)
    <3>1. CASE y # x
      <4>1. SpendOf(y) \in 0..Limit
        BY SpendType DEF IInv
      <4>2. SpendOf(y)' = SpendOf(y)
        BY <1>1, <3>1 DEF SpendOf, Status
      <4>3. QED
        BY <4>1, <4>2, ExecutorAssumption
    <3>2. QED
      BY <3>1
  <2>3. QED
    BY <2>1, <2>2, SpendKept DEF IInv
<1>9. QED
  BY <1>2, <1>3, <1>5, <1>7, <1>8, ProcStep

-----------------------------------------------------------------------------
(* The steps of a process that leave the journal alone.                     *)

\* A process that does nothing has read nothing.
LEMMA IdleSees ==
  ASSUME NEW p \in Proc, pc'[p] \in {"idle", "plan"}
  PROVE  Sees(p)'
BY DEF Sees

\* The wallet holds a natural number of shares.
LEMMA HoldingsType ==
  ASSUME TypeOK, ChainOk
  PROVE  Holdings \in Nat
<1>1. ASSUME NEW a PROVE Traded(a) \in Nat
  <2>1. {e \in Entry : mined[e] = "ok" /\ journal[e].action = a} \in SUBSET Entry
    OBVIOUS
  <2>2. QED
    BY <2>1, ExecutorAssumption, FS_Subset, FS_CardinalityType DEF Traded
<1>2. Traded("buy") \in Nat /\ Traded("sell") \in Nat /\ Traded("redeem") \in Nat
  BY <1>1
<1>3. QED
  BY <1>2 DEF Holdings, ChainOk

\* A process that gives up and leaves everything as it is, but what it sent.
LEMMA IdleStep ==
  ASSUME IInv, NEW p \in Proc, Idle(p), UNCHANGED journal, Sends,
         mempool' \subseteq Entry, inflight' \subseteq Entry,
         UNCHANGED <<reorgs, crashes>>
  PROVE  IInv'
<1>1. Goes(p, "idle", NoEntry, NoView) /\ NoView \in Views /\ "idle" \in Steps
  BY NoViewType DEF Idle, Goto, Goes, Steps
<1>2. StepTypes
  BY DEF IInv, TypeOK, StepTypes
<1>3. Sees(p)'
  BY <1>1, Went, IdleSees DEF IInv
<1>4. QED
  BY <1>1, <1>2, <1>3, QuietStep

\* Steps that leave journal, chain and network alone.
LEMMA Quiet ==
  ASSUME IInv, UNCHANGED <<journal, env>>
  PROVE  StepTypes /\ Sends /\ \A x \in Entry : Stable(x)
BY DEF IInv, TypeOK, StepTypes, Sends, env, chainVars, Stable, Moves, Status, Signed, Settled,
       Late, Ineffective

\* Reading the holdings before the lock (executor.ts, plan).
LEMMA ReadForPlanStep ==
  ASSUME IInv, NEW p \in Proc, ReadForPlan(p)
  PROVE  IInv'
<1> DEFINE v == [view[p] EXCEPT !.held = Holdings]
<1>1. view[p] \in Views /\ Holdings \in Nat /\ cur[p] \in Entry \cup {NoEntry}
  BY ProcTypes, HoldingsType DEF IInv
<1>2. v \in Views
  BY <1>1 DEF Views
<1>3. Goes(p, "plan", cur[p], v)
  BY DEF ReadForPlan, Goto, Goes, IInv, TypeOK
<1> HIDE DEF v
<1>4. pc'[p] = "plan"
  BY <1>1, <1>2, <1>3, Went DEF Steps, IInv
<1>5. QED
  BY <1>1, <1>2, <1>3, <1>4, Quiet, IdleSees, QuietStep DEF ReadForPlan, Steps

\* A rejected or skipped plan.
LEMMA GiveUpStep ==
  ASSUME IInv, NEW p \in Proc, PlanRejected(p) \/ SignSkipped(p)
  PROVE  IInv'
BY Quiet, IdleStep DEF PlanRejected, SignSkipped, StepTypes, env, chainVars

\* The node accepts a transaction whose bytes the journal holds.
LEMMA SendStep ==
  ASSUME IInv, NEW p \in Proc, Send(p)
  PROVE  IInv'
<1>1. pc[p] = "send" /\ Accepts(cur[p]) /\ mempool' = mempool \cup {cur[p]} /\ UNCHANGED journal
  BY DEF Send
<1>2. cur[p] \in Entry /\ Status(cur[p]) # "free" /\ Signed(cur[p])
  BY <1>1 DEF IInv, Sees
<1>3. Sends /\ StepTypes
  BY <1>1, <1>2 DEF Sends, StepTypes, Send, Accepts, IInv, TypeOK
<1>4. Goes(p, "mark", cur[p], view[p]) /\ "mark" \in Steps /\ view[p] \in Views
  BY ProcTypes DEF Send, Goto, Goes, IInv, TypeOK, Steps
<1>5. pc'[p] = "mark" /\ cur'[p] = cur[p]
  BY <1>2, <1>4, Went DEF IInv
<1>6. Sees(p)'
  BY <1>1, <1>2, <1>5 DEF Sees, Signed, Status
<1>7. QED
  BY <1>1, <1>2, <1>3, <1>4, <1>6, QuietStep

\* A send without an answer.
LEMMA SendUncertainStep ==
  ASSUME IInv, NEW p \in Proc, SendUncertain(p)
  PROVE  IInv'
<1>1. pc[p] = "send" /\ inflight' = inflight \cup {cur[p]} /\ UNCHANGED journal /\ Idle(p)
      /\ UNCHANGED <<chainVars, foreign, reorgs, crashes>>
  BY DEF SendUncertain
<1>2. cur[p] \in Entry /\ Signed(cur[p])
  BY <1>1 DEF IInv, Sees
<1>3. Sends /\ mempool' \subseteq Entry /\ inflight' \subseteq Entry
  BY <1>1, <1>2 DEF Sends, chainVars, IInv, TypeOK
<1>4. QED
  BY <1>1, <1>3, IdleStep

\* The same bytes again.
LEMMA ResendStep ==
  ASSUME IInv, NEW p \in Proc, Resend(p)
  PROVE  IInv'
<1>1. pc[p] = "resend" /\ UNCHANGED journal /\ Idle(p)
      /\ UNCHANGED <<now, used, mined, cost, recent, foreign, reorgs, crashes>>
  BY DEF Resend
<1>2. cur[p] \in Entry /\ Signed(cur[p])
  BY <1>1 DEF IInv, Sees
<1>3. CASE Accepts(cur[p]) /\ mempool' = mempool \cup {cur[p]} /\ UNCHANGED inflight
  <2>1. Sends /\ mempool' \subseteq Entry /\ inflight' \subseteq Entry
    BY <1>1, <1>2, <1>3 DEF Sends, Accepts, IInv, TypeOK
  <2>2. QED
    BY <1>1, <2>1, IdleStep
<1>4. CASE inflight' = inflight \cup {cur[p]} /\ UNCHANGED mempool
  <2>1. Sends /\ mempool' \subseteq Entry /\ inflight' \subseteq Entry
    BY <1>1, <1>2, <1>4 DEF Sends, IInv, TypeOK
  <2>2. QED
    BY <1>1, <2>1, IdleStep
<1>5. QED
  BY <1>3, <1>4 DEF Resend

\* The journal snapshot and the head block, which settle what is deep or late.
LEMMA ReadEntryStep ==
  ASSUME IInv, NEW p \in Proc, NEW e \in Entry, ReadEntry(p, e)
  PROVE  IInv'
<1> DEFINE v == [view[p] EXCEPT !.status = Status(e), !.overdue = Overdue(e), !.deep = Deep(e)]
<1>1. Status(e) \in Unfinished /\ pc[p] = "idle" /\ UNCHANGED <<journal, env>>
  BY DEF ReadEntry, Open
<1>2. view[p] \in Views
  BY ProcTypes DEF IInv
<1>3. Overdue(e) \in BOOLEAN /\ Deep(e) \in BOOLEAN
  BY DEF Overdue, Deep
<1>4. v \in Views /\ v.status = Status(e) /\ v.overdue = Overdue(e) /\ v.deep = Deep(e)
  BY <1>1, <1>2, <1>3 DEF Views
<1>5. Goes(p, "lookup", e, v) /\ "lookup" \in Steps
  BY DEF ReadEntry, Goto, Goes, Steps
<1> HIDE DEF v
<1>6. pc'[p] = "lookup" /\ cur'[p] = e /\ view'[p] = v
  BY <1>4, <1>5, Went DEF IInv
<1>7. Status(e) # "free" /\ (Status(e) # "planned" => Signed(e))
  BY <1>1, EntryFields DEF IInv, Unfinished, Unsigned
<1>8. /\ Deep(e) = Settled(e) /\ Overdue(e) = Late(e)
  BY DEF Deep, Settled, Overdue, Late
<1>9. Status(e)' = Status(e) /\ Signed(e)' = Signed(e) /\ Settled(e)' = Settled(e) /\ Late(e)' = Late(e)
  BY <1>1 DEF Status, Signed, Settled, Late, env, chainVars
<1>10. Sees(p)'
  BY <1>1, <1>4, <1>6, <1>7, <1>8, <1>9 DEF Sees
<1>11. QED
  BY <1>1, <1>4, <1>5, <1>10, Quiet, QuietStep

\* The receipt and the transaction: what was deep is settled, what is not found is ineffective when late.
LEMMA LookupStep ==
  ASSUME IInv, NEW p \in Proc, Lookup(p)
  PROVE  IInv'
<1>0. PICK e \in Entry : e = cur[p]
  BY DEF IInv, Sees, Lookup
<1> DEFINE found == view[p].status # "planned" /\ (mined[e] # "no" \/ e \in mempool)
           receipt == IF found /\ view[p].deep /\ mined[e] # "no" THEN mined[e] ELSE "none"
           overdue == ~found /\ view[p].overdue
           v == [NoView EXCEPT !.status = view[p].status, !.found = found,
                               !.overdue = overdue, !.receipt = receipt]
<1>1. pc[p] = "lookup" /\ UNCHANGED <<journal, env>>
  BY DEF Lookup
<1>2. /\ e \in Entry /\ Status(e) # "free" /\ view[p].status \in Unfinished
      /\ view[p].status # "planned" => Signed(e)
      /\ view[p].deep => Settled(e)
      /\ view[p].overdue => Late(e)
  BY <1>0, <1>1 DEF IInv, Sees
<1>3. view[p] \in Views /\ mined[e] \in {"no"} \cup Effects
  BY <1>2, ProcTypes DEF IInv, TypeOK
<1>4. /\ v \in Views /\ v.status = view[p].status /\ v.receipt = receipt /\ v.overdue = overdue
  BY <1>3 DEF Views, NoView
<1>5. Goes(p, "count", e, v) /\ "count" \in Steps
  BY <1>0 DEF Lookup, Goto, Goes, Steps, IInv, TypeOK
<1>6. /\ receipt # "none" => Settled(e) /\ mined[e] = receipt
      /\ view[p].status = "planned" => receipt = "none"
  BY <1>2, <1>3
<1>7. view[p].status # "planned" /\ overdue => Ineffective(e)
  BY <1>2 DEF Ineffective
<1> HIDE DEF v, found, receipt, overdue
<1>8. pc'[p] = "count" /\ cur'[p] = e /\ view'[p] = v
  BY <1>2, <1>4, <1>5, Went DEF IInv
<1>9. /\ Status(e)' = Status(e) /\ Signed(e)' = Signed(e) /\ Settled(e)' = Settled(e)
      /\ Ineffective(e)' = Ineffective(e) /\ mined' = mined
  BY <1>1 DEF Status, Signed, Settled, Ineffective, Late, env, chainVars
<1>10. Sees(p)'
  BY <1>1, <1>2, <1>4, <1>6, <1>7, <1>8, <1>9 DEF Sees
<1>11. QED
  BY <1>1, <1>2, <1>4, <1>5, <1>10, Quiet, QuietStep

\* What recovery decides from its view is borne out by the chain.
LEMMA RecoveryJustified ==
  ASSUME NEW e, NEW v, NEW latest, v.status \in Unfinished,
         v.receipt \in {"none"} \cup Effects,
         v.status = "planned" => v.receipt = "none",
         v.status # "planned" =>
           /\ v.receipt # "none" => Settled(e) /\ mined[e] = v.receipt
           /\ v.overdue => Ineffective(e)
  PROVE  LET step == RecoveryStep(e, v, latest) IN
         step # "resend" =>
           /\ step \in {"broadcast"} \cup Final
           /\ step = "abandoned" <=> v.status = "planned"
           /\ Justified(e, step)
<1>1. CASE v.status = "planned"
  <2>1. RecoveryStep(e, v, latest) = "abandoned"
    BY <1>1 DEF RecoveryStep
  <2>2. QED
    BY <1>1, <2>1 DEF Justified, Final
<1>2. CASE v.status # "planned" /\ v.receipt # "none"
  BY <1>2 DEF RecoveryStep, Justified, Final, Effects
<1>3. CASE v.status # "planned" /\ v.receipt = "none"
  <2>1. RecoveryStep(e, v, latest) = IF v.found THEN "broadcast"
                ELSE IF NonceTaken(e, latest) THEN "replaced"
                ELSE IF v.overdue THEN "expired" ELSE "resend"
    BY <1>3 DEF RecoveryStep
  <2>2. QED
    BY <1>3, <2>1 DEF Justified, Final
<1>4. QED
  BY <1>1, <1>2, <1>3

\* The decision of recoveryStep is justified when it is made (recovery.ts).
LEMMA ReadCountStep ==
  ASSUME IInv, NEW p \in Proc, ReadCount(p)
  PROVE  IInv'
<1>0. PICK e \in Entry : e = cur[p]
  BY DEF IInv, Sees, ReadCount
<1>1. pc[p] = "count" /\ UNCHANGED <<journal, env>>
  BY DEF ReadCount
<1>2. PICK w \in Views : w = view[p]
  BY ProcTypes DEF IInv
<1>10. PICK step : step = RecoveryStep(e, w, used)
  OBVIOUS
<1> DEFINE s == w.status
<1>3. /\ Status(e) # "free" /\ s \in Unfinished /\ (s # "planned" => Signed(e))
      /\ s = "planned" => w.receipt = "none"
      /\ s # "planned" => /\ w.receipt # "none" => Settled(e) /\ mined[e] = w.receipt
                          /\ w.overdue => Ineffective(e)
  BY <1>0, <1>1, <1>2 DEF IInv, Sees
<1>4. step # "resend" => /\ step \in {"broadcast"} \cup Final
                         /\ step = "abandoned" <=> s = "planned"
                         /\ Justified(e, step)
  <2>1. w.receipt \in {"none"} \cup Effects
    BY <1>2 DEF Views
  <2>2. QED
    BY <1>3, <1>10, <2>1, RecoveryJustified
<1>5. StepTypes /\ Sends /\ \A x \in Entry : Stable(x)
  BY <1>1, Quiet
<1>6. CASE Idle(p)
  BY <1>1, <1>5, <1>6, IdleStep DEF StepTypes, env
<1>7. CASE step = "resend" /\ Goto(p, "resend") /\ view' = [view EXCEPT ![p] = NoView] /\ UNCHANGED cur
  <2>1. Goes(p, "resend", e, NoView) /\ NoView \in Views /\ "resend" \in Steps
    BY <1>0, <1>7, NoViewType DEF Goto, Goes, Steps, IInv, TypeOK
  <2>2. pc'[p] = "resend" /\ cur'[p] = e
    BY <2>1, Went DEF IInv
  <2>3. s # "planned"
    BY <1>7, <1>10 DEF RecoveryStep
  <2>4. Status(e)' # "free" /\ Signed(e)'
    BY <1>1, <1>3, <2>3 DEF Status, Signed
  <2>5. Sees(p)'
    BY <2>2, <2>4 DEF Sees
  <2>6. QED
    BY <1>1, <1>5, <2>1, <2>5, QuietStep
<1>8. CASE /\ step # "resend" /\ Goto(p, "apply") /\ UNCHANGED cur
           /\ view' = [view EXCEPT ![p] = [NoView EXCEPT !.status = s, !.becomes = step]]
  <2> DEFINE v == [NoView EXCEPT !.status = s, !.becomes = step]
  <2>1. v \in Views /\ v.status = s /\ v.becomes = step
    BY <1>3, <1>4, <1>8 DEF NoView, Views
  <2>2. Goes(p, "apply", e, v) /\ "apply" \in Steps
    BY <1>0, <1>8 DEF Goto, Goes, Steps, IInv, TypeOK
  <2> HIDE DEF v
  <2>3. pc'[p] = "apply" /\ cur'[p] = e /\ view'[p] = v
    BY <2>1, <2>2, Went DEF IInv
  <2>4. Status(e)' # "free" /\ (s # "planned" => Signed(e)')
    BY <1>1, <1>3 DEF Status, Signed
  <2>5. v.becomes \in {"broadcast"} \cup Final /\ (v.becomes = "abandoned" <=> v.status = "planned")
    BY <1>4, <1>8, <2>1
  <2>6. Justified(e, v.becomes)'
    BY <1>3, <1>4, <1>5, <1>8, <2>1, JustifiedKept
  <2>7. QED
    <3>1. Sees(p)'
      BY <1>3, <2>1, <2>3, <2>4, <2>5, <2>6 DEF Sees
    <3>2. QED
      BY <1>1, <1>5, <2>1, <2>2, <3>1, QuietStep
<1>9. QED
  BY <1>0, <1>2, <1>6, <1>7, <1>8, <1>10 DEF ReadCount

-----------------------------------------------------------------------------
(* The steps of a process that change an entry.                             *)

\* An open entry that changes reserves no more than it did.
LEMMA SpendLess ==
  ASSUME TypeOK, NEW x \in Entry, NEW r \in JournalEntry, journal' = [journal EXCEPT ![x] = r],
         r.action = journal[x].action, Status(x) \in Unfinished
  PROVE  SpendOf(x)' <= SpendOf(x)
<1>1. journal'[x] = r /\ r.cost \in 0..Limit
  BY DEF TypeOK, JournalEntry
<1>2. SpendOf(x)' = IF r.action # "buy" THEN 0 ELSE IF r.status = "confirmed" THEN r.cost
                    ELSE IF r.status \in Unfinished \cup {"mismatch"} THEN Limit ELSE 0
  BY <1>1 DEF SpendOf, Status
<1>3. SpendOf(x) = IF r.action # "buy" THEN 0 ELSE Limit
  BY DEF SpendOf, Unfinished
<1>4. Limit \in Nat
  BY ExecutorAssumption
<1>5. QED
  BY <1>1, <1>2, <1>3, <1>4

\* r is entry x with status s and cost c; it has a nonce if x had one.
Rewrites(r, x, s, c) ==
  /\ s \in Statuses /\ c \in 0..Limit
  /\ s \in Unsigned <=> Status(x) \in Unsigned
  /\ r = [journal[x] EXCEPT !.status = s, !.cost = c]

\* Such a record is an entry and keeps everything else.
LEMMA StatusChange ==
  ASSUME TypeOK, NEW x \in Entry, NEW r, NEW s, NEW c, Rewrites(r, x, s, c)
  PROVE  /\ r \in JournalEntry /\ r.status = s /\ r.cost = c /\ r.action = journal[x].action
         /\ r.deadline = journal[x].deadline /\ r.nonce = journal[x].nonce
<1>1. /\ journal[x] = [f \in Fields |-> journal[x][f]]
      /\ journal[x].action \in Actions \cup {"none"}
      /\ journal[x].nonce \in 0..TopNonce \cup {NoNonce}
      /\ journal[x].deadline \in -1..MaxTime
      /\ journal[x].plannedAt \in 0..MaxTime /\ journal[x].owner \in Proc \cup {Gone}
      /\ Signed(x) <=> Status(x) \notin Unsigned
  BY EntryFields
<1>2. /\ r = [f \in Fields |-> r[f]] /\ r.status = s /\ r.cost = c
      /\ r.action = journal[x].action /\ r.deadline = journal[x].deadline
      /\ r.nonce = journal[x].nonce /\ r.plannedAt = journal[x].plannedAt
      /\ r.owner = journal[x].owner
  BY <1>1 DEF Fields, Rewrites
<1>3. r \in JournalEntry
  BY <1>1, <1>2, MakeEntry DEF Signed, Rewrites
<1>4. QED
  BY <1>2, <1>3

\* The same with the cost it had.
LEMMA SameCost ==
  ASSUME TypeOK, NEW x \in Entry, NEW s
  PROVE  /\ journal[x].cost \in 0..Limit
         /\ [journal[x] EXCEPT !.status = s]
              = [journal[x] EXCEPT !.status = s, !.cost = journal[x].cost]
<1>1. journal[x] = [f \in Fields |-> journal[x][f]] /\ journal[x].cost \in 0..Limit
  BY EntryFields
<1>2. QED
  BY <1>1 DEF Fields

\* A plan that may not be signed is abandoned.
LEMMA SignRefusedStep ==
  ASSUME IInv, NEW p \in Proc, SignRefused(p)
  PROVE  IInv'
<1>0. PICK x \in Entry : x = cur[p]
  BY DEF IInv, Sees, SignRefused
<1> DEFINE r == [journal[x] EXCEPT !.status = "abandoned"]
<1>1. Status(x) = "planned" /\ journal' = [journal EXCEPT ![x] = r] /\ Idle(p) /\ UNCHANGED env
  BY <1>0 DEF SignRefused, StillPlanned
<1>2. /\ r \in JournalEntry /\ r.status = "abandoned" /\ r.action = journal[x].action
      /\ r.deadline = journal[x].deadline /\ r.nonce = journal[x].nonce
  <2>1. /\ journal[x].cost \in 0..Limit /\ "abandoned" \in Statuses
        /\ "abandoned" \in Unsigned <=> Status(x) \in Unsigned
    BY <1>1, SameCost DEF IInv, Statuses, Final, Unsigned
  <2>2. r = [journal[x] EXCEPT !.status = "abandoned", !.cost = journal[x].cost]
    BY SameCost DEF IInv
  <2> HIDE DEF r
  <2>3. Rewrites(r, x, "abandoned", journal[x].cost)
    BY <2>1, <2>2 DEF Rewrites
  <2>4. QED
    BY <2>3, StatusChange DEF IInv
<1> HIDE DEF r
<1>3. Justified(x, r.status) /\ r.status \notin Unfinished \cup {"free", "confirmed"}
  BY <1>2 DEF Justified, Unfinished
<1>4. SpendOf(x)' <= SpendOf(x)
  BY <1>1, <1>2, SpendLess DEF IInv, Unfinished
<1>5. Goes(p, "idle", NoEntry, NoView) /\ NoView \in Views /\ "idle" \in Steps
  BY <1>1, NoViewType DEF Idle, Goto, Goes, Steps
<1>6. Sees(p)' /\ Sends /\ mempool' \subseteq Entry /\ inflight' \subseteq Entry
      /\ UNCHANGED <<reorgs, crashes>>
  <2>1. pc'[p] = "idle"
    BY <1>5, Went DEF IInv
  <2>2. QED
    BY <1>1, <2>1, IdleSees DEF Sends, env, chainVars, IInv, TypeOK
<1>7. QED
  BY <1>1, <1>2, <1>3, <1>4, <1>5, <1>6, EntryStep

\* The answer of a send is recorded on an entry that is still signed (executor.ts:130).
LEMMA MarkStep ==
  ASSUME IInv, NEW p \in Proc, Mark(p)
  PROVE  IInv'
<1>0. PICK x \in Entry : x = cur[p]
  BY DEF IInv, Sees, Mark
<1> DEFINE s == Marked(x)
           r == [journal[x] EXCEPT !.status = s]
<1>1. Signed(x) /\ journal' = [journal EXCEPT ![x] = r] /\ Idle(p) /\ UNCHANGED env
  BY <1>0 DEF Mark, IInv, Sees
<1>2. Status(x) \in Statuses /\ Status(x) \notin Unsigned
  BY <1>1, EntryFields DEF IInv
<1>3. s \in Statuses /\ s \notin Unsigned /\ (s # Status(x) => Status(x) = "signed" /\ s = "broadcast")
  BY <1>2 DEF Marked, Statuses, Unfinished, Unsigned
<1> HIDE DEF s
<1>4. /\ r \in JournalEntry /\ r.status = s /\ r.action = journal[x].action
      /\ r.deadline = journal[x].deadline /\ r.nonce = journal[x].nonce
      /\ r.cost = journal[x].cost
  <2>1. journal[x].cost \in 0..Limit
        /\ r = [journal[x] EXCEPT !.status = s, !.cost = journal[x].cost]
    BY SameCost DEF IInv
  <2> HIDE DEF r
  <2>2. Rewrites(r, x, s, journal[x].cost)
    BY <1>2, <1>3, <2>1 DEF Rewrites
  <2>3. QED
    BY <2>2, StatusChange DEF IInv
<1> HIDE DEF r
<1>5. /\ Justified(x, r.status) /\ r.status # "free"
      /\ r.status \in Unfinished => Status(x) \in Unfinished
      /\ r.status = "confirmed" => r.cost = cost[x]
  BY <1>3, <1>4 DEF IInv, EntryOk, Justified, Unfinished, Unsigned
<1>6. SpendOf(x)' <= SpendOf(x)
  <2>1. CASE Status(x) \in Unfinished
    BY <1>1, <1>4, <2>1, SpendLess DEF IInv
  <2>2. CASE Status(x) \notin Unfinished
    <3>1. s = Status(x)
      BY <1>3, <2>2 DEF Unfinished
    <3>2. journal'[x] = r
      BY <1>1 DEF IInv, TypeOK
    <3>3. SpendOf(x)' = SpendOf(x)
      BY <1>4, <3>1, <3>2 DEF SpendOf, Status
    <3>4. SpendOf(x) \in 0..Limit
      BY SpendType DEF IInv
    <3>5. QED
      BY <3>3, <3>4, ExecutorAssumption
  <2>3. QED
    BY <2>1, <2>2
<1>7. Goes(p, "idle", NoEntry, NoView) /\ NoView \in Views /\ "idle" \in Steps
  BY <1>1, NoViewType DEF Idle, Goto, Goes, Steps
<1>8. Sees(p)' /\ Sends /\ mempool' \subseteq Entry /\ inflight' \subseteq Entry
      /\ UNCHANGED <<reorgs, crashes>> /\ Status(x) # "free"
  <2>1. pc'[p] = "idle"
    BY <1>7, Went DEF IInv
  <2>2. QED
    BY <1>1, <1>2, <2>1, IdleSees DEF Sends, env, chainVars, IInv, TypeOK, Unsigned
<1>9. QED
  BY <1>1, <1>4, <1>5, <1>6, <1>7, <1>8, EntryStep

\* What was decided is applied, and still justified, if the status is the one that was read
\* (executor.ts:164).
LEMMA ApplyStep ==
  ASSUME IInv, NEW p \in Proc, Apply(p)
  PROVE  IInv'
<1>0. PICK x \in Entry : x = cur[p]
  BY DEF IInv, Sees, Apply
<1>9. PICK b, s : b = view[p].becomes /\ s = view[p].status
  OBVIOUS
<1>1. /\ Idle(p) /\ UNCHANGED env /\ Status(x) # "free"
      /\ s \in Unfinished /\ (s # "planned" => Signed(x))
      /\ b \in {"broadcast"} \cup Final /\ (b = "abandoned" <=> s = "planned")
      /\ Justified(x, b)
  BY <1>0, <1>9 DEF Apply, IInv, Sees
<1>2. Goes(p, "idle", NoEntry, NoView) /\ NoView \in Views /\ "idle" \in Steps
  BY <1>1, NoViewType DEF Idle, Goto, Goes, Steps
<1>3. Sees(p)' /\ Sends /\ mempool' \subseteq Entry /\ inflight' \subseteq Entry
      /\ UNCHANGED <<reorgs, crashes>>
  <2>1. pc'[p] = "idle"
    BY <1>2, Went DEF IInv
  <2>2. QED
    BY <1>1, <2>1, IdleSees DEF Sends, env, chainVars, IInv, TypeOK
<1>4. CASE ~Unmoved(p)
  BY <1>1, <1>3, <1>4, IdleStep DEF Apply
<1>5. CASE Unmoved(p)
  <2> DEFINE c == IF b = "confirmed" THEN cost[x] ELSE journal[x].cost
             r == [journal[x] EXCEPT !.status = b, !.cost = c]
  <2>1. Status(x) = s /\ journal' = [journal EXCEPT ![x] = r]
    <3>1. Status(x) = s
      BY <1>0, <1>5, <1>9 DEF Unmoved
    <3>2. journal' = [journal EXCEPT
             ![x].status = b, ![x].cost = IF b = "confirmed" THEN cost[x] ELSE @]
      BY <1>0, <1>5, <1>9 DEF Apply
    <3>3. journal[x] = [f \in Fields |-> journal[x][f]] /\ journal = [e \in Entry |-> journal[e]]
      BY EntryFields DEF IInv, TypeOK
    <3>4. journal' = [journal EXCEPT ![x] = r]
      BY <3>2, <3>3 DEF Fields
    <3>5. QED
      BY <3>1, <3>4
  <2>2. c \in 0..Limit
    <3>1. cost[x] \in 0..Limit
      BY DEF IInv, TypeOK
    <3>2. QED
      BY <3>1, SameCost DEF IInv
  <2>3. b \in Statuses /\ (b \in Unsigned <=> Status(x) \in Unsigned)
    <3>1. CASE s = "planned"
      BY <1>1, <2>1, <3>1 DEF Statuses, Final, Unsigned
    <3>2. CASE s # "planned"
      <4>1. Status(x) \notin Unsigned
        BY <1>1, <3>2, EntryFields DEF IInv
      <4>2. QED
        BY <1>1, <3>2, <4>1 DEF Statuses, Final, Unsigned, Unfinished
    <3>3. QED
      BY <3>1, <3>2
  <2>4. /\ r \in JournalEntry /\ r.status = b /\ r.cost = c /\ r.action = journal[x].action
        /\ r.deadline = journal[x].deadline /\ r.nonce = journal[x].nonce
    <3>1. r = [journal[x] EXCEPT !.status = b, !.cost = c]
      OBVIOUS
    <3> HIDE DEF c, r
    <3>2. Rewrites(r, x, b, c)
      BY <2>2, <2>3, <3>1 DEF Rewrites
    <3>3. QED
      BY <3>2, StatusChange DEF IInv
  <2>5. r.status = "confirmed" => r.cost = cost[x]
    BY <2>4
  <2> HIDE DEF r, c
  <2>6. SpendOf(x)' <= SpendOf(x)
    BY <1>1, <2>1, <2>4, SpendLess DEF IInv
  <2>7. Justified(x, r.status) /\ r.status # "free" /\ Status(x) \in Unfinished
    BY <1>1, <2>1, <2>4 DEF Final
  <2>8. QED
    BY <1>1, <1>2, <1>3, <2>1, <2>4, <2>5, <2>6, <2>7, EntryStep
<1>6. QED
  BY <1>4, <1>5

-----------------------------------------------------------------------------
(* Plans, nonces and crashes.                                               *)

\* A plan reserves its limit under the lock, when the policy leaves room for it.
LEMMA PlanStep ==
  ASSUME IInv, NEW p \in Proc, NEW e \in Entry, NEW a \in Actions, Plan(p, e, a)
  PROVE  IInv'
<1> DEFINE d == IF a \in {"buy", "sell"} THEN now + DeadlineAfter ELSE -1
           r == [journal[e] EXCEPT !.status = "planned", !.action = a, !.plannedAt = now,
                   !.owner = p, !.deadline = d]
<1>1. /\ Status(e) = "free" /\ journal' = [journal EXCEPT ![e] = r] /\ UNCHANGED env
      /\ now + DeadlineAfter < MaxTime
      /\ a = "buy" => Spent + Limit <= MaxSpend
  BY DEF Plan, PolicyOk, MayPlan
<1>2. now \in 0..MaxTime /\ d \in -1..MaxTime /\ (d >= 0 => a \in {"buy", "sell"})
  BY <1>1, ExecutorAssumption DEF IInv, TypeOK
<1> HIDE DEF d
<1>3. /\ journal[e] = [f \in Fields |-> journal[e][f]]
      /\ journal[e].cost \in 0..Limit /\ journal[e].nonce = NoNonce
  BY <1>1, EntryFields DEF IInv, Signed, Unsigned
<1>4. /\ r = [f \in Fields |-> r[f]] /\ r.status = "planned" /\ r.action = a
      /\ r.plannedAt = now /\ r.owner = p /\ r.deadline = d
      /\ r.nonce = NoNonce /\ r.cost = journal[e].cost
  BY <1>3 DEF Fields
<1> HIDE DEF r
<1>5. r \in JournalEntry
  <2>1. "planned" \in Statuses /\ "planned" \in Unsigned
    BY DEF Statuses, Unfinished, Unsigned
  <2>2. QED
    BY <1>2, <1>3, <1>4, <2>1, MakeEntry
<1>6. /\ journal' \in [Entry -> JournalEntry] /\ journal'[e] = r
      /\ \A x \in Entry \ {e} : journal'[x] = journal[x]
  BY <1>1, <1>5 DEF IInv, TypeOK
<1>7. StepTypes /\ Sends
  BY <1>1, <1>6 DEF StepTypes, Sends, env, chainVars, IInv, TypeOK
<1>8. \A x \in Entry : Moves(x)
  BY <1>1, <1>3, <1>6 DEF Moves, Status, Signed
<1>9. ASSUME NEW x \in Entry PROVE EntryOk(x)'
  <2>1. CASE x = e
    BY <1>2, <1>4, <1>6, <2>1 DEF EntryOk, Justified, Status
  <2>2. CASE x # e
    BY <1>6, <1>7, <1>8, <2>2, SendsStable, EntryKept DEF IInv
  <2>3. QED
    BY <2>1, <2>2
<1>10. NoncesDistinct' /\ NoGaps'
  <2>1. \A x \in Entry : /\ journal'[x].nonce = journal[x].nonce
                         /\ Status(x)' \in Unfinished /\ journal'[x].nonce # NoNonce
                              => Status(x) \in Unfinished
    BY <1>3, <1>4, <1>6 DEF Status
  <2>2. QED
    BY <1>7, <2>1, NoncesKept, GapsKept DEF IInv, Sends
<1>11. Goes(p, "sign", e, NoView) /\ NoView \in Views /\ "sign" \in Steps
  BY NoViewType DEF Plan, Goto, Goes, Steps
<1>12. ReservationsWithinPolicy'
  <2>1. TypeOK'
    BY <1>7, <1>11, StepTypeOK DEF IInv
  <2>2. \A x \in Entry : SpendOf(x) \in 0..Limit
    BY SpendType DEF IInv
  <2>3. \A x \in Entry \ {e} : SpendOf(x)' = SpendOf(x)
    BY <1>6 DEF SpendOf, Status
  <2>4. SpendOf(e) = 0 /\ SpendOf(e)' = IF a = "buy" THEN Limit ELSE 0
    BY <1>1, <1>4, <1>6 DEF SpendOf, Status, Unfinished
  <2>5. CASE a # "buy"
    <3>1. \A x \in Entry : SpendOf(x)' <= SpendOf(x)
      BY <2>2, <2>3, <2>4, <2>5, ExecutorAssumption
    <3>2. QED
      BY <2>1, <3>1, SpendKept DEF IInv
  <2>6. CASE a = "buy"
    <3> DEFINE f == [x \in Entry |-> SpendOf(x)]
               g == [x \in Entry |-> SpendOf(x)']
    <3>1. \A x \in Entry : f[x] \in Int /\ g[x] \in Int
      BY <2>2, <2>3, <2>4, <2>6, ExecutorAssumption
    <3>2. \A x \in Entry \ {e} : g[x] = f[x]
      BY <2>3
    <3>3. g[e] - f[e] = Limit
      BY <2>4, <2>6, ExecutorAssumption
    <3>4. Spent = Sum(f, Entry) /\ Spent' = Sum(g, Entry)
      BY DEF Spent
    <3> HIDE DEF f, g
    <3>5. Sum(g, Entry) = Sum(f, Entry) + (g[e] - f[e]) /\ Sum(f, Entry) \in Int
      BY <3>1, <3>2, ExecutorAssumption, SumChange, SumInt
    <3>6. QED
      BY <1>1, <2>6, <3>3, <3>4, <3>5 DEF ReservationsWithinPolicy
  <2>7. QED
    BY <2>5, <2>6
<1>13. Sees(p)'
  <2>1. pc'[p] = "sign" /\ cur'[p] = e
    BY <1>11, Went DEF IInv
  <2>2. QED
    BY <1>4, <1>6, <2>1 DEF Sees, Status
<1>14. QED
  BY <1>7, <1>8, <1>9, <1>10, <1>11, <1>12, <1>13, ProcStep

\* A finite set of numbers from u on without a gap.
LEMMA RunOfNumbers ==
  ASSUME NEW u, u \in Nat, NEW S \in SUBSET Nat, IsFiniteSet(S),
         \A n \in S : n >= u /\ u..n \subseteq S
  PROVE  Cardinality(S) \in Nat /\ S = u..(u + Cardinality(S) - 1)
<1>1. CASE S = {}
  BY <1>1, FS_EmptySet
<1>2. CASE S # {}
  <2>1. S \in SUBSET Int
    OBVIOUS
  <2> DEFINE m == Max(S)
  <2>2. m \in S /\ \A n \in S : n <= m
    BY <1>2, <2>1, MaxOfFinite
  <2> HIDE DEF m
  <2>3. m \in Nat /\ m >= u /\ u..m \subseteq S
    BY <2>2
  <2>6. \A n \in S : n \in u..m
    BY <2>2, <2>3
  <2>7. S = u..m
    BY <2>3, <2>6
  <2>4. Cardinality(S) = m - u + 1
    BY <2>3, <2>7, FS_Interval
  <2>5. QED
    BY <2>3, <2>4, <2>7
<1>3. QED
  BY <1>1, <1>2

\* The pending count is the first number after the used ones that no transaction
\* of the node's pool has.
LEMMA PendingCountIs ==
  ASSUME TypeOK, ChainOk
  PROVE  /\ PendingCount \in Nat /\ PendingCount >= used
         /\ \A m \in used..(PendingCount - 1) : \E f \in Entry : journal[f].nonce = m
<1> DEFINE h == [e \in mempool |-> journal[e].nonce]
           Known == {journal[e].nonce : e \in mempool}
           S == {n \in Known : \A m \in used..n : m \in Known}
<1>1. used \in Nat /\ mempool \in SUBSET Entry
  BY DEF TypeOK
<1>2. IsFiniteSet(mempool)
  BY <1>1, ExecutorAssumption, FS_Subset
<1>3. Known = {h[e] : e \in mempool}
  OBVIOUS
<1>4. IsFiniteSet(Known)
  <2> HIDE DEF h
  <2>1. QED
    BY <1>2, <1>3, ImageFinite
<1>5. ASSUME NEW e \in mempool PROVE journal[e].nonce \in Nat /\ journal[e].nonce >= used
  <2>1. TopNonce \in Nat
    BY ExecutorAssumption, FS_CardinalityType DEF TopNonce
  <2>2. journal[e].nonce \in 0..TopNonce \cup {NoNonce}
    BY <1>1, EntryFields
  <2>3. QED
    BY <2>1, <2>2 DEF ChainOk, Signed
<1>6. \A n \in Known : n \in Nat /\ n >= used
  BY <1>5
<1>7. PendingCount = used + Cardinality(S)
  BY DEF PendingCount
<1>8. \A m \in Known : \E f \in Entry : journal[f].nonce = m
  BY <1>1
<1> HIDE DEF Known
<1>9. S \in SUBSET Nat /\ IsFiniteSet(S)
  BY <1>4, <1>6, FS_Subset
<1>10. \A n \in S : n >= used /\ used..n \subseteq S
  <2>1. SUFFICES ASSUME NEW n \in S, NEW m \in used..n
                 PROVE  n >= used /\ m \in Known /\ \A k \in used..m : k \in Known
    BY <1>6
  <2>2. n \in Nat /\ m \in Int /\ m <= n
    BY <1>1, <1>6
  <2>3. \A k \in used..m : k \in used..n
    BY <1>1, <2>2
  <2>4. QED
    BY <1>6, <2>3
<1>11. S \subseteq Known
  OBVIOUS
<1> HIDE DEF S
<1>12. Cardinality(S) \in Nat /\ S = used..(used + Cardinality(S) - 1)
  BY <1>1, <1>9, <1>10, RunOfNumbers
<1>13. PendingCount \in Nat /\ PendingCount >= used /\ used..(PendingCount - 1) \subseteq S
  BY <1>1, <1>7, <1>12
<1>14. QED
  BY <1>8, <1>11, <1>13

\* Nonces are numbers.
LEMMA NonceType ==
  ASSUME TypeOK, NEW e \in Entry
  PROVE  /\ journal[e].nonce \in Int /\ (Signed(e) => journal[e].nonce \in Nat)
         /\ Signed(e) <=> journal[e].nonce # NoNonce
<1>1. TopNonce \in Nat
  BY ExecutorAssumption, FS_CardinalityType DEF TopNonce
<1>2. journal[e].nonce \in 0..TopNonce \cup {NoNonce}
  BY EntryFields
<1>3. QED
  BY <1>1, <1>2 DEF Signed, NoNonce

\* The next nonce is past those of all open entries, and leaves no gap.
LEMMA NextNonceIs ==
  ASSUME TypeOK, ChainOk, NoGaps
  PROVE  /\ NextNonce \in Nat /\ NextNonce >= used
         /\ \A e \in Open : Signed(e) => journal[e].nonce < NextNonce
         /\ \A m \in used..(NextNonce - 1) : \E f \in Entry : journal[f].nonce = m
<1> DEFINE O == {x \in Open : journal[x].nonce # NoNonce}
           h == [e \in O |-> journal[e].nonce + 1]
           N == {journal[e].nonce + 1 : e \in O}
           S == {PendingCount} \cup N
           n == Max(S)
<1>1. /\ PendingCount \in Nat /\ PendingCount >= used /\ used \in Nat
      /\ \A m \in used..(PendingCount - 1) : \E f \in Entry : journal[f].nonce = m
  BY PendingCountIs DEF TypeOK
<1>2. NextNonce = n
  BY DEF NextNonce
<1>3. O \subseteq Open /\ Open \subseteq Entry /\ O \in SUBSET Entry
  BY DEF Open
<1>4. IsFiniteSet(N)
  <2>1. N = {h[e] : e \in O}
    OBVIOUS
  <2>2. IsFiniteSet(O)
    BY <1>3, ExecutorAssumption, FS_Subset
  <2> HIDE DEF N, O, h
  <2>3. QED
    BY <2>1, <2>2, ImageFinite
<1>5. \A e \in O : Signed(e) /\ journal[e].nonce \in Nat
  BY <1>3, NonceType
<1>6. S \in SUBSET Int /\ IsFiniteSet(S) /\ S # {}
  BY <1>1, <1>4, <1>5, FS_AddElement
<1>7. \A e \in Open : Signed(e) => e \in O /\ journal[e].nonce + 1 \in S
  BY DEF Signed
<1>8. \A k \in S : k = PendingCount \/ \E e \in O : k = journal[e].nonce + 1
  OBVIOUS
<1>9. PendingCount \in S
  OBVIOUS
<1> HIDE DEF S
<1>10. n \in S /\ \A k \in S : k <= n
  BY <1>6, MaxOfFinite
<1> HIDE DEF n, O
<1>11. n \in Nat /\ n >= used
  BY <1>1, <1>6, <1>9, <1>10
<1>12. \A e \in Open : Signed(e) => journal[e].nonce < n
  BY <1>5, <1>7, <1>10, <1>11
<1>13. \A m \in used..(n - 1) : \E f \in Entry : journal[f].nonce = m
  <2>1. CASE n = PendingCount
    BY <1>1, <2>1
  <2>2. ASSUME NEW e \in O, n = journal[e].nonce + 1
        PROVE  \A m \in used..(n - 1) : \E f \in Entry : journal[f].nonce = m
    <3>1. n - 1 = journal[e].nonce /\ e \in Entry /\ Signed(e)
      BY <1>3, <1>5, <2>2
    <3>2. QED
      BY <3>1 DEF NoGaps
  <2>3. QED
    BY <1>8, <1>10, <2>1, <2>2
<1>14. QED
  BY <1>2, <1>11, <1>12, <1>13

\* Numbers that are nonces of entries that were not mined: at most one for each.
LEMMA NonceBound ==
  ASSUME TypeOK, ChainOk, NEW x \in Entry, ~Signed(x), NEW n, n \in Nat, n >= used,
         \A m \in used..(n - 1) : \E f \in Entry : journal[f].nonce = m
  PROVE  n <= TopNonce
<1> DEFINE R == used..(n - 1)
           T == Entry \ (Mined \cup {x})
           g == [m \in R |-> CHOOSE f \in Entry : journal[f].nonce = m]
<1>1. used \in Nat /\ foreign \in 0..MaxForeign /\ MaxForeign \in Nat /\ IsFiniteSet(Entry)
  BY ExecutorAssumption DEF TypeOK
<1>2. ASSUME NEW m \in R PROVE g[m] \in T /\ journal[g[m]].nonce = m
  <2>1. g[m] \in Entry /\ journal[g[m]].nonce = m
    OBVIOUS
  <2>2. m \in Nat /\ m >= used
    BY <1>1
  <2>3. g[m] \notin Mined
    BY <1>1, <2>1, <2>2 DEF ChainOk
  <2>4. g[m] # x
    BY <2>1, <2>2 DEF Signed, NoNonce
  <2>5. QED
    BY <2>1, <2>3, <2>4
<1>3. g \in Injection(R, T)
  <2>1. g \in [R -> T] /\ DOMAIN g = R
    BY <1>2
  <2>2. \A a, b \in R : g[a] = g[b] => a = b
    BY <1>2
  <2> HIDE DEF g, R, T
  <2>3. QED
    BY <2>1, <2>2 DEF Injection, IsInjective
<1>4. x \notin Mined /\ Mined \in SUBSET Entry
  BY DEF ChainOk, Mined
<1>5. IsFiniteSet(Mined) /\ Cardinality(Mined) \in Nat /\ IsFiniteSet(Mined \cup {x})
      /\ Cardinality(Mined \cup {x}) = Cardinality(Mined) + 1
  BY <1>1, <1>4, FS_Subset, FS_AddElement, FS_CardinalityType
<1>6. IsFiniteSet(T) /\ Cardinality(T) = Cardinality(Entry) - (Cardinality(Mined) + 1)
  <2> DEFINE M == Mined \cup {x}
  <2>1. M \subseteq Entry /\ IsFiniteSet(M) /\ Cardinality(M) = Cardinality(Mined) + 1
    BY <1>4, <1>5
  <2>2. T = Entry \ M
    OBVIOUS
  <2> HIDE DEF M, T
  <2>3. Entry \cap M = M
    BY <2>1
  <2>4. IsFiniteSet(T) /\ Cardinality(T) = Cardinality(Entry) - Cardinality(Entry \cap M)
    BY <1>1, <2>1, <2>2, FS_Difference
  <2>5. QED
    BY <2>1, <2>3, <2>4
<1>7. Cardinality(R) <= Cardinality(T)
  <2> HIDE DEF R, T, g
  <2>1. QED
    BY <1>3, <1>6, FS_Injection
<1>8. Cardinality(R) = n - used
  BY <1>1, FS_Interval
<1>9. used = Cardinality(Mined) + foreign /\ Cardinality(Entry) \in Nat
  BY <1>1, FS_CardinalityType DEF ChainOk
<1> HIDE DEF R, T, g
<1>10. QED
  BY <1>1, <1>5, <1>6, <1>7, <1>8, <1>9 DEF TopNonce

\* The new nonce is past those of open entries, and next to one that is known.
LEMMA SignStep ==
  ASSUME IInv, NEW p \in Proc, Sign(p)
  PROVE  IInv'
<1>0. PICK x \in Entry : x = cur[p]
  BY DEF IInv, Sees, Sign
<1>00. PICK n : n = NextNonce
  OBVIOUS
<1> DEFINE r == [journal[x] EXCEPT !.status = "signed", !.nonce = n]
<1>1. Status(x) = "planned" /\ journal' = [journal EXCEPT ![x] = r] /\ UNCHANGED env
  BY <1>0, <1>00 DEF Sign, StillPlanned
<1>2. ~Signed(x) /\ journal[x].nonce = NoNonce
  BY <1>1, EntryFields DEF IInv, Unsigned, Signed
<1>3. /\ n \in Nat /\ n >= used
      /\ \A e \in Open : Signed(e) => journal[e].nonce < n
      /\ \A m \in used..(n - 1) : \E f \in Entry : journal[f].nonce = m
  BY <1>00, NextNonceIs DEF IInv
<1>4. n <= TopNonce /\ TopNonce \in Nat
  BY <1>2, <1>3, NonceBound, ExecutorAssumption, FS_CardinalityType DEF IInv, TopNonce
<1>5. /\ journal[x] = [f \in Fields |-> journal[x][f]]
      /\ journal[x].action \in Actions \cup {"none"}
      /\ journal[x].deadline \in -1..MaxTime /\ journal[x].cost \in 0..Limit
      /\ journal[x].plannedAt \in 0..MaxTime /\ journal[x].owner \in Proc \cup {Gone}
  BY EntryFields DEF IInv
<1>6. /\ r = [f \in Fields |-> r[f]] /\ r.status = "signed" /\ r.nonce = n
      /\ r.action = journal[x].action /\ r.deadline = journal[x].deadline
      /\ r.cost = journal[x].cost
      /\ r.plannedAt = journal[x].plannedAt /\ r.owner = journal[x].owner
  BY <1>5 DEF Fields
<1> HIDE DEF r
<1>7. r \in JournalEntry
  <2>1. "signed" \in Statuses /\ "signed" \notin Unsigned /\ n # NoNonce /\ n \in 0..TopNonce
    BY <1>3, <1>4 DEF Statuses, Unfinished, Unsigned, NoNonce
  <2>2. QED
    BY <1>5, <1>6, <2>1, MakeEntry
<1>8. /\ journal' \in [Entry -> JournalEntry] /\ journal'[x] = r
      /\ \A y \in Entry \ {x} : journal'[y] = journal[y]
  BY <1>1, <1>7 DEF IInv, TypeOK
<1>9. StepTypes /\ Sends /\ used' = used
  BY <1>1, <1>8 DEF StepTypes, Sends, env, chainVars, IInv, TypeOK
<1>10. \A y \in Entry : Moves(y)
  BY <1>1, <1>2, <1>6, <1>8 DEF Moves, Status, Signed
<1>11. ASSUME NEW y \in Entry PROVE EntryOk(y)'
  <2>1. CASE y = x
    BY <1>6, <1>8, <2>1 DEF EntryOk, Justified, Status, IInv
  <2>2. CASE y # x
    BY <1>8, <1>9, <1>10, <2>2, SendsStable, EntryKept DEF IInv
  <2>3. QED
    BY <2>1, <2>2
<1>12. NoncesDistinct'
  <2>1. SUFFICES ASSUME NEW e \in Entry, NEW f \in Entry, Status(e)' \in Unfinished,
                        Status(f)' \in Unfinished, e # f, journal'[e].nonce # NoNonce,
                        journal'[e].nonce = journal'[f].nonce
                 PROVE  FALSE
    BY DEF NoncesDistinct, Open
  <2>2. ASSUME NEW y \in Entry, y # x, Status(y)' \in Unfinished, journal'[y].nonce = n
        PROVE  FALSE
    <3>1. y \in Open /\ journal[y].nonce = n /\ Signed(y)
      BY <1>3, <1>8, <2>2 DEF Open, Status, Signed, NoNonce
    <3>2. QED
      BY <1>3, <3>1
  <2>3. CASE e = x \/ f = x
    BY <1>6, <1>8, <2>1, <2>2, <2>3
  <2>4. CASE e # x /\ f # x
    <3>1. e \in Open /\ f \in Open /\ journal[e].nonce # NoNonce
          /\ journal[e].nonce = journal[f].nonce
      BY <1>8, <2>1, <2>4 DEF Open, Status
    <3>2. QED
      BY <2>1, <3>1 DEF IInv, NoncesDistinct
  <2>5. QED
    BY <2>3, <2>4
<1>13. NoGaps'
  <2>1. SUFFICES ASSUME NEW e \in Entry, Signed(e)', NEW m \in used..journal'[e].nonce
                 PROVE  \E f \in Entry : journal'[f].nonce = m
    BY <1>9 DEF NoGaps
  <2>2. used \in Nat
    BY DEF IInv, TypeOK
  <2>3. ASSUME NEW f \in Entry, journal[f].nonce = m PROVE \E y \in Entry : journal'[y].nonce = m
    <3>1. f # x
      BY <1>2, <2>2, <2>3 DEF NoNonce
    <3>2. QED
      BY <1>8, <2>3, <3>1
  <2>4. CASE e = x
    <3>1. m = n \/ m \in used..(n - 1)
      BY <1>3, <1>6, <1>8, <2>2, <2>4
    <3>2. QED
      BY <1>3, <1>6, <1>8, <2>3, <3>1
  <2>5. CASE e # x
    <3>1. journal'[e] = journal[e] /\ Signed(e)
      BY <1>8, <2>1, <2>5 DEF Signed
    <3>2. QED
      BY <2>3, <3>1 DEF IInv, NoGaps
  <2>6. QED
    BY <2>4, <2>5
<1>14. Goes(p, "send", x, view[p]) /\ view[p] \in Views /\ "send" \in Steps
  BY <1>0, ProcTypes DEF Sign, Goto, Goes, Steps, IInv, TypeOK
<1>15. ReservationsWithinPolicy'
  <2>1. TypeOK'
    BY <1>9, <1>14, StepTypeOK DEF IInv
  <2>2. ASSUME NEW y \in Entry PROVE SpendOf(y)' <= SpendOf(y)
    <3>1. CASE y = x
      BY <1>1, <1>6, <1>7, <3>1, SpendLess DEF IInv, Unfinished
    <3>2. CASE y # x
      <4>1. SpendOf(y) \in 0..Limit
        BY SpendType DEF IInv
      <4>2. SpendOf(y)' = SpendOf(y)
        BY <1>8, <3>2 DEF SpendOf, Status
      <4>3. QED
        BY <4>1, <4>2, ExecutorAssumption
    <3>3. QED
      BY <3>1, <3>2
  <2>3. QED
    BY <2>1, <2>2, SpendKept DEF IInv
<1>16. Sees(p)'
  <2>1. pc'[p] = "send" /\ cur'[p] = x
    BY <1>14, Went DEF IInv
  <2>2. QED
    BY <1>3, <1>6, <1>8, <2>1 DEF Sees, Status, Signed, NoNonce
<1>17. QED
  BY <1>9, <1>10, <1>11, <1>12, <1>13, <1>14, <1>15, <1>16, ProcStep

\* A crash hands over the entries of the process, and nothing else.
LEMMA CrashKeeps ==
  ASSUME IInv, NEW p \in Proc, Crash(p)
  PROVE  IInv'
<1>1. ASSUME NEW e \in Entry
      PROVE  /\ journal'[e] \in JournalEntry /\ journal'[e].status = journal[e].status
             /\ journal'[e].nonce = journal[e].nonce /\ journal'[e].action = journal[e].action
             /\ journal'[e].deadline = journal[e].deadline /\ journal'[e].cost = journal[e].cost
  <2>1. CASE journal'[e] = journal[e]
    BY <2>1 DEF IInv, TypeOK
  <2>2. CASE journal'[e] = [journal[e] EXCEPT !.owner = Gone]
    <3> DEFINE r == [journal[e] EXCEPT !.owner = Gone]
    <3>1. /\ journal[e] = [f \in Fields |-> journal[e][f]]
          /\ Status(e) \in Statuses /\ journal[e].action \in Actions \cup {"none"}
          /\ journal[e].nonce \in 0..TopNonce \cup {NoNonce}
          /\ journal[e].deadline \in -1..MaxTime /\ journal[e].cost \in 0..Limit
          /\ journal[e].plannedAt \in 0..MaxTime
          /\ Signed(e) <=> Status(e) \notin Unsigned
      BY EntryFields DEF IInv
    <3>2. /\ r = [f \in Fields |-> r[f]] /\ r.status = journal[e].status
          /\ r.nonce = journal[e].nonce /\ r.action = journal[e].action
          /\ r.deadline = journal[e].deadline /\ r.cost = journal[e].cost
          /\ r.plannedAt = journal[e].plannedAt /\ r.owner = Gone
      BY <3>1 DEF Fields
    <3> HIDE DEF r
    <3>3. r \in JournalEntry
      BY <3>1, <3>2, MakeEntry DEF Status, Signed
    <3>4. QED
      BY <2>2, <3>2, <3>3 DEF r
  <2>3. QED
    BY <2>1, <2>2 DEF Crash
<1>2. journal' \in [Entry -> JournalEntry]
  BY <1>1 DEF Crash
<1>3. StepTypes /\ Sends
  <2>1. crashes' \in 0..MaxCrash
    BY ExecutorAssumption DEF Crash, IInv, TypeOK
  <2>2. UNCHANGED <<now, used, mined, cost, recent, mempool, inflight, foreign, reorgs>>
    BY DEF Crash, chainVars
  <2>3. StepTypes
    BY <1>2, <2>1, <2>2 DEF StepTypes, IInv, TypeOK
  <2>4. Sends
    BY <2>2 DEF Sends, IInv, TypeOK
  <2>5. QED
    BY <2>3, <2>4
<1>4. \A x \in Entry : Moves(x)
  BY <1>1 DEF Moves, Status, Signed
<1>5. ASSUME NEW x \in Entry PROVE EntryOk(x)'
  <2>1. Stable(x)
    BY <1>3, <1>4, SendsStable DEF IInv
  <2>2. Status(x)' = Status(x)
    BY <1>1 DEF Status
  <2>3. Justified(x, Status(x))'
    <3>1. CASE Status(x) = "free"
      BY <2>2, <3>1 DEF Justified
    <3>2. CASE Status(x) # "free"
      <4>1. PICK s : s = Status(x)
        OBVIOUS
      <4>2. Justified(x, s)'
        BY <2>1, <3>2, <4>1, JustifiedKept DEF IInv, EntryOk
      <4>3. QED
        BY <2>2, <4>1, <4>2 DEF Justified
    <3>3. QED
      BY <3>1, <3>2
  <2>4. QED
    BY <1>1, <1>3, <2>2, <2>3 DEF EntryOk, IInv, Sends
<1>6. NoncesDistinct' /\ NoGaps'
  <2>1. \A x \in Entry : journal'[x].nonce = journal[x].nonce /\ Status(x)' = Status(x)
    BY <1>1 DEF Status
  <2>2. QED
    BY <1>3, <2>1, NoncesKept, GapsKept DEF IInv, Sends
<1>7. Goes(p, "idle", NoEntry, NoView) /\ NoView \in Views /\ "idle" \in Steps
  BY NoViewType DEF Crash, Idle, Goto, Goes, Steps
<1>8. ReservationsWithinPolicy'
  <2>1. TypeOK'
    BY <1>3, <1>7, StepTypeOK DEF IInv
  <2>2. ASSUME NEW y \in Entry PROVE SpendOf(y)' <= SpendOf(y)
    <3>1. SpendOf(y) \in 0..Limit
      BY SpendType DEF IInv
    <3>2. SpendOf(y)' = SpendOf(y)
      BY <1>1 DEF SpendOf, Status
    <3>3. QED
      BY <3>1, <3>2, ExecutorAssumption
  <2>3. QED
    BY <2>1, <2>2, SpendKept DEF IInv
<1>9. Sees(p)'
  BY <1>7, Went, IdleSees DEF IInv
<1>10. QED
  BY <1>3, <1>4, <1>5, <1>6, <1>7, <1>8, <1>9, ProcStep

-----------------------------------------------------------------------------
(* The steps of the chain and the network.                                  *)

\* What is left to show of a step that no process takes.
LEMMA ChainStep ==
  ASSUME IInv, UNCHANGED <<journal, procVars>>, TypeOK', ChainOk', NoGaps',
         \A e \in Entry : Stable(e)
  PROVE  IInv'
<1>1. journal' = journal /\ pc' = pc /\ cur' = cur /\ view' = view
  BY DEF procVars
<1>2. \A e \in Entry : EntryOk(e)'
  BY <1>1, EntryKept DEF IInv
<1>3. NoncesDistinct'
  BY <1>1, NoncesKept DEF IInv, Status
<1>4. ReservationsWithinPolicy'
  BY <1>1 DEF IInv, ReservationsWithinPolicy, Spent, SpendOf, Status
<1>5. \A p \in Proc : Sees(p)'
  BY <1>1, SeesKept DEF IInv
<1>6. QED
  BY <1>2, <1>3, <1>4, <1>5 DEF IInv

\* Time does not go back, and the head stays within the bound.
LEMMA Heads ==
  ASSUME TypeOK, NextHead
  PROVE  now' \in 0..MaxTime /\ now' >= now /\ now \in Nat
BY ExecutorAssumption DEF TypeOK, NextHead, Later

\* A step of the chain that mines nothing.
LEMMA StillStable ==
  ASSUME TypeOK, UNCHANGED <<journal, mined, cost>>, now' \in Int, now' >= now,
         recent' \subseteq recent
  PROVE  \A e \in Entry : Stable(e)
<1> SUFFICES ASSUME NEW e \in Entry PROVE Stable(e)
  OBVIOUS
<1>1. now \in Int /\ journal[e].deadline \in Int
  <2>1. MaxTime \in Nat /\ journal[e].deadline \in -1..MaxTime
    BY EntryFields, ExecutorAssumption
  <2>2. QED
    BY <2>1 DEF TypeOK
<1>2. Late(e) => Late(e)'
  BY <1>1 DEF Late
<1>3. QED
  BY <1>2 DEF Stable, Moves, Status, Signed, Settled, Ineffective

\* A block without our transactions.
LEMMA NewBlockStep ==
  ASSUME IInv, NewBlock
  PROVE  IInv'
<1>1. /\ UNCHANGED <<journal, pc, cur, view, used, mined, cost, mempool, inflight,
                     foreign, reorgs, crashes>>
      /\ recent' = {} /\ NextHead /\ TypeOK
  BY DEF NewBlock, procVars, IInv
<1>2. now' \in 0..MaxTime /\ now' >= now /\ MaxTime \in Nat
  BY <1>1, Heads, ExecutorAssumption
<1>3. TypeOK'
  BY <1>1, <1>2 DEF TypeOK
<1>4. \A e \in Entry : Stable(e)
  BY <1>1, <1>2, StillStable
<1>5. Holdings' = Holdings /\ Mined' = Mined
  BY <1>1 DEF Holdings, Traded, Mined
<1>6. ChainOk'
  BY <1>1, <1>5 DEF ChainOk, IInv, RecentBuys, Signed
<1>7. NoGaps'
  BY <1>1, GapsKept DEF IInv
<1>8. QED
  BY <1>1, <1>3, <1>4, <1>6, <1>7, ChainStep DEF procVars

\* A delayed send arrives, or the node forgets a transaction.
LEMMA ArriveStep ==
  ASSUME IInv, NEW x \in Entry, Arrive(x) \/ Evict(x)
  PROVE  IInv'
<1>1. /\ UNCHANGED <<journal, pc, cur, view, now, used, mined, cost, recent,
                     foreign, reorgs, crashes>>
      /\ inflight' \subseteq inflight
      /\ mempool' \subseteq mempool \/
           (x \in inflight /\ journal[x].nonce >= used /\ mempool' = mempool \cup {x})
      /\ TypeOK
  BY DEF Arrive, Evict, procVars, IInv
<1>2. TypeOK'
  BY <1>1 DEF TypeOK
<1>3. \A e \in Entry : Stable(e)
  <2>1. now \in Int
    BY <1>1, ExecutorAssumption DEF TypeOK
  <2>2. QED
    BY <1>1, <2>1, StillStable
<1>4. Holdings' = Holdings /\ Mined' = Mined /\ RecentBuys' = RecentBuys
  BY <1>1 DEF Holdings, Traded, Mined, RecentBuys
<1>5. \A e \in mempool' : e \in mempool \/ (e \in inflight /\ journal[e].nonce >= used)
  BY <1>1
<1>6. ChainOk'
  BY <1>1, <1>4, <1>5 DEF ChainOk, IInv, Signed
<1>7. NoGaps'
  BY <1>1, GapsKept DEF IInv
<1>8. QED
  BY <1>1, <1>2, <1>3, <1>6, <1>7, ChainStep DEF procVars

\* The number of a used nonce is past that of any gap.
LEMMA GapsUsed ==
  ASSUME TypeOK, NoGaps, UNCHANGED journal, used' = used + 1
  PROVE  NoGaps'
<1>1. used \in Nat
  BY DEF TypeOK
<1>2. ASSUME NEW e \in Entry, Signed(e), NEW m \in used'..journal[e].nonce
      PROVE  \E f \in Entry : journal[f].nonce = m
  <2>1. journal[e].nonce \in Int
    BY NonceType
  <2>2. m \in used..journal[e].nonce
    BY <1>1, <2>1
  <2>3. QED
    BY <1>2, <2>2 DEF NoGaps
<1>3. QED
  BY <1>2 DEF NoGaps, Signed

\* The operator uses a nonce for something else.
LEMMA ForeignStep ==
  ASSUME IInv, Foreign
  PROVE  IInv'
<1>1. /\ UNCHANGED <<journal, pc, cur, view, mined, cost, reorgs, crashes>>
      /\ recent' = {} /\ NextHead /\ TypeOK /\ used' = used + 1
      /\ foreign < MaxForeign /\ foreign' = foreign + 1
      /\ mempool' = Purged(mempool, used + 1) /\ inflight' = Purged(inflight, used + 1)
  BY DEF Foreign, procVars, IInv
<1>2. now' \in 0..MaxTime /\ now' >= now /\ MaxTime \in Nat
  BY <1>1, Heads, ExecutorAssumption
<1>3. used \in Nat /\ foreign \in 0..MaxForeign /\ MaxForeign \in Nat
  BY <1>1, ExecutorAssumption DEF TypeOK
<1>4. TypeOK'
  BY <1>1, <1>2, <1>3 DEF TypeOK, Purged
<1>5. \A e \in Entry : Stable(e)
  BY <1>1, <1>2, StillStable
<1>6. Holdings' = Holdings /\ Mined' = Mined
  BY <1>1 DEF Holdings, Traded, Mined
<1>7. Cardinality(Mined) \in Nat
  BY ExecutorAssumption, FS_Subset, FS_CardinalityType DEF Mined
<1>8. used' = Cardinality(Mined') + foreign'
  BY <1>1, <1>3, <1>6, <1>7 DEF ChainOk, IInv
<1>9. \A e \in Mined' : Signed(e)' /\ journal'[e].nonce < used'
  <2>1. \A e \in Mined : journal[e].nonce \in Int
    BY <1>1, NonceType DEF Mined
  <2>2. QED
    BY <1>1, <1>3, <1>6, <2>1 DEF ChainOk, IInv, Signed
<1>10. ChainOk'
  BY <1>1, <1>6, <1>8, <1>9 DEF ChainOk, IInv, Signed, RecentBuys, Purged
<1>11. NoGaps'
  BY <1>1, GapsUsed DEF IInv
<1>12. QED
  BY <1>1, <1>4, <1>5, <1>10, <1>11, ChainStep DEF procVars

\* What was traded changes with the effect of one transaction.
LEMMA TradedChange ==
  ASSUME TypeOK, NEW x \in Entry, NEW v, UNCHANGED journal,
         mined' = [mined EXCEPT ![x] = v], NEW a
  PROVE  /\ Traded(a) \in Nat /\ Traded(a)' \in Nat
         /\ a # journal[x].action => Traded(a)' = Traded(a)
         /\ a = journal[x].action /\ mined[x] # "ok" /\ v = "ok" => Traded(a)' = Traded(a) + 1
         /\ a = journal[x].action /\ mined[x] = "ok" /\ v # "ok" => Traded(a)' = Traded(a) - 1
         /\ mined[x] # "ok" /\ v # "ok" => Traded(a)' = Traded(a)
<1> DEFINE S == {e \in Entry : mined[e] = "ok" /\ journal[e].action = a}
           T == {e \in Entry : mined'[e] = "ok" /\ journal[e].action = a}
<1>1. Traded(a) = Cardinality(S) /\ Traded(a)' = Cardinality(T)
  BY DEF Traded
<1>2. mined'[x] = v /\ \A e \in Entry \ {x} : mined'[e] = mined[e]
  BY DEF TypeOK
<1>3. S \in SUBSET Entry /\ T \in SUBSET Entry /\ IsFiniteSet(S) /\ IsFiniteSet(T)
  BY ExecutorAssumption, FS_Subset
<1>4. a # journal[x].action => T = S
  BY <1>2
<1>5. a = journal[x].action /\ mined[x] # "ok" /\ v = "ok" => x \notin S /\ T = S \cup {x}
  BY <1>2
<1>6. a = journal[x].action /\ mined[x] = "ok" /\ v # "ok" => x \notin T /\ S = T \cup {x}
  BY <1>2
<1>7. mined[x] # "ok" /\ v # "ok" => T = S
  BY <1>2
<1> HIDE DEF S, T
<1>8. Cardinality(S) \in Nat /\ Cardinality(T) \in Nat
  BY <1>3, FS_CardinalityType
<1>9. x \notin S => Cardinality(S \cup {x}) = Cardinality(S) + 1
  BY <1>3, FS_AddElement
<1>10. x \notin T => Cardinality(T \cup {x}) = Cardinality(T) + 1
  BY <1>3, FS_AddElement
<1> HIDE DEF S, T
<1>11. PICK i \in Nat, j \in Nat : i = Cardinality(S) /\ j = Cardinality(T)
  BY <1>8
<1>12. a = journal[x].action /\ mined[x] # "ok" /\ v = "ok" => j = i + 1
  BY <1>5, <1>9, <1>11
<1>13. a = journal[x].action /\ mined[x] = "ok" /\ v # "ok" => j = i - 1
  <2>1. SUFFICES ASSUME a = journal[x].action, mined[x] = "ok", v # "ok" PROVE j = i - 1
    OBVIOUS
  <2>2. x \notin T /\ S = T \cup {x}
    BY <1>6, <2>1
  <2>3. Cardinality(S) = Cardinality(T) + 1
    BY <1>10, <2>2
  <2>4. QED
    BY <1>11, <2>3
<1>14. Traded(a) = i /\ Traded(a)' = j
  BY <1>1, <1>11
<1>15. (a # journal[x].action => j = i) /\ (mined[x] # "ok" /\ v # "ok" => j = i)
  BY <1>4, <1>7, <1>11
<1>16. QED
  BY <1>11, <1>12, <1>13, <1>14, <1>15

\* A transaction is mined: its nonce was the next, and a late trade reverts.
LEMMA MineStep ==
  ASSUME IInv, NEW x \in Entry, Mine(x)
  PROVE  IInv'
<1>1. /\ UNCHANGED <<journal, pc, cur, view, foreign, reorgs, crashes>>
      /\ x \in mempool /\ journal[x].nonce = used
      /\ recent' = {x} /\ NextHead /\ TypeOK /\ ChainOk /\ used' = used + 1
      /\ mempool' = Purged(mempool, used + 1) /\ inflight' = Purged(inflight, used + 1)
  BY DEF Mine, procVars, IInv
<1>2. PICK eff \in PossibleEffects(x, now') :
        /\ mined' = [mined EXCEPT ![x] = eff]
        /\ \E c \in IF eff = "ok" /\ journal[x].action = "buy" THEN 1..Limit ELSE {0} :
             cost' = [cost EXCEPT ![x] = c]
  BY DEF Mine
<1>3. PICK c : /\ c \in IF eff = "ok" /\ journal[x].action = "buy" THEN 1..Limit ELSE {0}
               /\ cost' = [cost EXCEPT ![x] = c]
  BY <1>2
<1>4. PICK t : t = now'
  OBVIOUS
<1>5. t \in 0..MaxTime /\ t >= now /\ now \in Nat /\ MaxTime \in Nat
  BY <1>1, <1>4, Heads, ExecutorAssumption
<1>6. /\ eff \in Effects
      /\ eff = "odd" => journal[x].action = "approve"
      /\ journal[x].action \in {"buy", "sell"} /\ t > journal[x].deadline => eff = "reverted"
      /\ eff = "ok" /\ journal[x].action \in {"sell", "redeem"} => Holdings >= 1
  <2>1. eff \in PossibleEffects(x, t)
    BY <1>2, <1>4
  <2>2. journal[x].deadline \in -1..MaxTime
    BY <1>1, EntryFields
  <2>3. journal[x].action \in {"buy", "sell"} /\ t > journal[x].deadline => ~(t <= journal[x].deadline)
    BY <1>5, <2>2
  <2>4. QED
    BY <2>1, <2>3 DEF PossibleEffects, Effects
<1>7. /\ mined' \in [Entry -> {"no"} \cup Effects] /\ mined'[x] = eff /\ eff # "no"
      /\ \A e \in Entry \ {x} : mined'[e] = mined[e] /\ cost'[e] = cost[e]
      /\ cost' \in [Entry -> 0..Limit] /\ cost'[x] = c
  <2>1. c \in 0..Limit
    BY <1>3, ExecutorAssumption
  <2>2. QED
    BY <1>1, <1>2, <1>3, <1>6, <2>1 DEF TypeOK, Effects
<1>8. used \in Nat /\ x \notin Mined /\ Signed(x) /\ mined[x] = "no"
  <2>1. used \in Nat
    BY <1>1 DEF TypeOK
  <2>2. QED
    BY <1>1, <2>1 DEF ChainOk, Mined
<1>9. TypeOK'
  BY <1>1, <1>4, <1>5, <1>7, <1>8 DEF TypeOK, Purged
<1>10. ASSUME NEW e \in Entry PROVE Stable(e)
  <2>1. Moves(e)
    BY <1>1 DEF Moves, Status, Signed
  <2>2. Settled(e) => Settled(e)' /\ mined'[e] = mined[e] /\ cost'[e] = cost[e]
    BY <1>1, <1>7, <1>8 DEF Settled
  <2>3. Late(e) => Late(e)'
    <3>1. journal[e].deadline \in -1..MaxTime
      BY <1>1, EntryFields
    <3>2. QED
      BY <1>1, <1>4, <1>5, <3>1 DEF Late
  <2>4. Late(e) /\ e = x => eff = "reverted"
    <3>1. journal[e].deadline \in -1..MaxTime
      BY <1>1, EntryFields
    <3>2. Late(e) => journal[e].action \in {"buy", "sell"} /\ t > journal[e].deadline
      BY <1>4, <1>5, <3>1 DEF Late, IInv, EntryOk
    <3>3. QED
      BY <1>6, <3>2
  <2>5. Ineffective(e) => Ineffective(e)'
    BY <1>7, <2>3, <2>4 DEF Ineffective
  <2>6. QED
    BY <2>1, <2>2, <2>3, <2>5 DEF Stable
<1>11. Mined' = Mined \cup {x} /\ Cardinality(Mined') = Cardinality(Mined) + 1
  <2>1. Mined' = Mined \cup {x}
    BY <1>7 DEF Mined
  <2>2. Mined \in SUBSET Entry
    BY DEF Mined
  <2>3. QED
    BY <1>8, <2>1, <2>2, ExecutorAssumption, FS_Subset, FS_AddElement
<1>12. Cardinality(Mined) \in Nat /\ foreign \in Nat
  BY <1>1, ExecutorAssumption, FS_Subset, FS_CardinalityType DEF Mined, TypeOK
<1>13. used' = Cardinality(Mined') + foreign'
  BY <1>1, <1>11, <1>12 DEF ChainOk
<1>14. \A e \in Mined : Signed(e) /\ journal[e].nonce \in Int /\ journal[e].nonce < used
  BY <1>1, NonceType DEF Mined, ChainOk
<1>15. \A e \in Mined' : Signed(e)' /\ journal'[e].nonce < used'
  BY <1>1, <1>8, <1>11, <1>14 DEF Signed
<1>16. \A e \in recent' : /\ e \in Mined' /\ journal'[e].nonce = used' - 1
                          /\ \A f \in Mined' \ {e} : journal'[f].nonce < used' - 1
  BY <1>1, <1>8, <1>11, <1>14
<1>17. \A e \in Entry : cost'[e] # 0 => mined'[e] = "ok" /\ journal'[e].action = "buy"
  BY <1>1, <1>3, <1>7 DEF ChainOk
<1>18. /\ \A e \in mempool' : Signed(e)' /\ journal'[e].nonce >= used'
       /\ \A e \in inflight' : Signed(e)'
  BY <1>1 DEF ChainOk, Purged, Signed
<1>19. Holdings' >= 0 /\ (RecentBuys' # {} => Holdings' >= 1)
  <2>1. RecentBuys' # {} => eff = "ok" /\ journal[x].action = "buy"
    BY <1>1, <1>7 DEF RecentBuys
  <2>2. PICK b : b = journal[x].action
    OBVIOUS
  <2>3. \A a : /\ Traded(a) \in Nat /\ Traded(a)' \in Nat
               /\ a # b => Traded(a)' = Traded(a)
               /\ a = b /\ eff = "ok" => Traded(a)' = Traded(a) + 1
               /\ eff # "ok" => Traded(a)' = Traded(a)
    BY <1>1, <1>2, <1>8, <2>2, TradedChange
  <2>4. PICK B, S, R : B = Traded("buy") /\ S = Traded("sell") /\ R = Traded("redeem")
    OBVIOUS
  <2>5. PICK BB, SS, RR : BB = Traded("buy")' /\ SS = Traded("sell")' /\ RR = Traded("redeem")'
    OBVIOUS
  <2>6. /\ B \in Nat /\ S \in Nat /\ R \in Nat /\ BB \in Nat /\ SS \in Nat /\ RR \in Nat
        /\ BB = IF eff = "ok" /\ b = "buy" THEN B + 1 ELSE B
        /\ SS = IF eff = "ok" /\ b = "sell" THEN S + 1 ELSE S
        /\ RR = IF eff = "ok" /\ b = "redeem" THEN R + 1 ELSE R
    BY <2>3, <2>4, <2>5
  <2>7. Holdings = B - S - R /\ Holdings' = BB - SS - RR
    BY <2>4, <2>5 DEF Holdings
  <2>8. B - S - R >= 0 /\ (eff = "ok" /\ b \in {"sell", "redeem"} => B - S - R >= 1)
    BY <1>1, <1>6, <2>2, <2>7 DEF ChainOk
  <2>9. BB - SS - RR >= 0 /\ (eff = "ok" /\ b = "buy" => BB - SS - RR >= 1)
    BY <2>6, <2>8
  <2>10. QED
    BY <2>1, <2>2, <2>7, <2>9
<1>20. ChainOk'
  BY <1>13, <1>15, <1>16, <1>17, <1>18, <1>19 DEF ChainOk
<1>21. NoGaps'
  BY <1>1, GapsUsed DEF IInv
<1>22. QED
  BY <1>1, <1>9, <1>10, <1>20, <1>21, ChainStep DEF procVars

\* The head block is replaced: its transaction was settled for nobody.
LEMMA ReorgStep ==
  ASSUME IInv, NEW x \in Entry, Reorg(x)
  PROVE  IInv'
<1>1. /\ UNCHANGED <<journal, pc, cur, view, now, inflight, foreign, crashes>>
      /\ x \in recent /\ TypeOK /\ ChainOk
      /\ reorgs < MaxReorg /\ reorgs' = reorgs + 1
      /\ mined' = [mined EXCEPT ![x] = "no"] /\ cost' = [cost EXCEPT ![x] = 0]
      /\ used' = used - 1 /\ recent' = {}
      /\ mempool' = mempool \cup {x}
  BY DEF Reorg, procVars, IInv
<1>2. x \in Mined /\ Signed(x) /\ journal[x].nonce = used - 1
      /\ \A f \in Mined \ {x} : journal[f].nonce < used - 1
  BY <1>1 DEF ChainOk
<1>3. used \in Nat /\ used - 1 \in Nat /\ now \in Int
  <2>1. journal[x].nonce \in Nat
    BY <1>1, <1>2, NonceType
  <2>2. QED
    BY <1>1, <1>2, <2>1, ExecutorAssumption DEF TypeOK
<1>4. /\ mined' \in [Entry -> {"no"} \cup Effects] /\ mined'[x] = "no"
      /\ \A e \in Entry \ {x} : mined'[e] = mined[e] /\ cost'[e] = cost[e]
      /\ cost' \in [Entry -> 0..Limit] /\ cost'[x] = 0
  BY <1>1, ExecutorAssumption DEF TypeOK
<1>5. TypeOK'
  <2>1. reorgs' \in 0..MaxReorg
    BY <1>1, ExecutorAssumption DEF TypeOK
  <2>2. QED
    BY <1>1, <1>3, <1>4, <2>1 DEF TypeOK
<1>6. ASSUME NEW e \in Entry PROVE Stable(e)
  <2>1. Moves(e) /\ (Late(e) => Late(e)')
    BY <1>1 DEF Moves, Status, Signed, Late
  <2>2. Settled(e) => Settled(e)' /\ mined'[e] = mined[e] /\ cost'[e] = cost[e]
    BY <1>1, <1>4 DEF Settled
  <2>3. Ineffective(e) => Ineffective(e)'
    BY <1>4, <2>1 DEF Ineffective
  <2>4. QED
    BY <2>1, <2>2, <2>3 DEF Stable
<1>7. Mined' = Mined \ {x} /\ Cardinality(Mined) = Cardinality(Mined') + 1
      /\ Cardinality(Mined') \in Nat
  <2> DEFINE M == Mined \ {x}
  <2>1. Mined' = M
    BY <1>4 DEF Mined
  <2>2. M \in SUBSET Entry /\ Mined = M \cup {x} /\ x \notin M
    BY <1>2 DEF Mined
  <2> HIDE DEF M
  <2>3. Cardinality(Mined) = Cardinality(M) + 1 /\ Cardinality(M) \in Nat
    BY <2>2, ExecutorAssumption, FS_Subset, FS_AddElement, FS_CardinalityType
  <2>4. QED
    BY <2>1, <2>3 DEF M
<1>8. used' = Cardinality(Mined') + foreign'
  <2>1. foreign \in Nat /\ foreign' = foreign
    BY <1>1, ExecutorAssumption DEF TypeOK
  <2>2. used = Cardinality(Mined) + foreign /\ used' = used - 1
    BY <1>1 DEF ChainOk
  <2>3. QED
    BY <1>7, <2>1, <2>2
<1>9. \A e \in Mined' : Signed(e)' /\ journal'[e].nonce < used'
  BY <1>1, <1>2, <1>7 DEF ChainOk, Signed
<1>10. \A e \in mempool' : Signed(e)' /\ journal'[e].nonce >= used'
  <2>1. ASSUME NEW e \in mempool PROVE Signed(e) /\ journal[e].nonce >= used - 1
    <3>1. e \in Entry /\ Signed(e) /\ journal[e].nonce >= used
      BY <1>1 DEF TypeOK, ChainOk
    <3>2. journal[e].nonce \in Int
      BY <1>1, <3>1, NonceType
    <3>3. QED
      BY <1>3, <3>1, <3>2
  <2>2. used - 1 >= used - 1
    BY <1>3
  <2>3. QED
    BY <1>1, <1>2, <2>1, <2>2 DEF Signed
<1>11. /\ \A e \in inflight' : Signed(e)'
       /\ \A e \in Entry : cost'[e] # 0 => mined'[e] = "ok" /\ journal'[e].action = "buy"
  BY <1>1, <1>4 DEF ChainOk, Signed
<1>12. Holdings' >= 0
  <2>1. x \in RecentBuys <=> mined[x] = "ok" /\ journal[x].action = "buy"
    BY <1>1 DEF RecentBuys
  <2>2. PICK b : b = journal[x].action
    OBVIOUS
  <2>3. \A a : /\ Traded(a) \in Nat /\ Traded(a)' \in Nat
               /\ a # b => Traded(a)' = Traded(a)
               /\ a = b /\ mined[x] = "ok" => Traded(a)' = Traded(a) - 1
               /\ mined[x] # "ok" => Traded(a)' = Traded(a)
    <3>1. PICK v : v = "no"
      OBVIOUS
    <3>2. TypeOK /\ journal' = journal /\ mined' = [mined EXCEPT ![x] = v] /\ v # "ok"
      BY <1>1, <3>1
    <3>3. TAKE a
    <3>4. /\ Traded(a) \in Nat /\ Traded(a)' \in Nat
          /\ a # journal[x].action => Traded(a)' = Traded(a)
          /\ a = journal[x].action /\ mined[x] # "ok" /\ v = "ok" => Traded(a)' = Traded(a) + 1
          /\ a = journal[x].action /\ mined[x] = "ok" /\ v # "ok" => Traded(a)' = Traded(a) - 1
          /\ mined[x] # "ok" /\ v # "ok" => Traded(a)' = Traded(a)
      BY <3>2, TradedChange, Zenon
    <3>5. QED
      BY <2>2, <3>2, <3>4
  <2>4. PICK B, S, R : B = Traded("buy") /\ S = Traded("sell") /\ R = Traded("redeem")
    OBVIOUS
  <2>5. PICK BB, SS, RR : BB = Traded("buy")' /\ SS = Traded("sell")' /\ RR = Traded("redeem")'
    OBVIOUS
  <2>6. /\ B \in Nat /\ S \in Nat /\ R \in Nat /\ BB \in Nat /\ SS \in Nat /\ RR \in Nat
        /\ BB = IF mined[x] = "ok" /\ b = "buy" THEN B - 1 ELSE B
        /\ SS = IF mined[x] = "ok" /\ b = "sell" THEN S - 1 ELSE S
        /\ RR = IF mined[x] = "ok" /\ b = "redeem" THEN R - 1 ELSE R
    BY <2>3, <2>4, <2>5
  <2>7. Holdings = B - S - R /\ Holdings' = BB - SS - RR
    BY <2>4, <2>5 DEF Holdings
  <2>8. B - S - R >= 0 /\ (mined[x] = "ok" /\ b = "buy" => B - S - R >= 1)
    BY <1>1, <2>1, <2>2, <2>7 DEF ChainOk
  <2>9. BB - SS - RR >= 0
    BY <2>6, <2>8
  <2>10. QED
    BY <2>7, <2>9
<1>13. ChainOk'
  BY <1>1, <1>8, <1>9, <1>10, <1>11, <1>12 DEF ChainOk, RecentBuys
<1>14. NoGaps'
  <2>1. ASSUME NEW e \in Entry, Signed(e), NEW m \in used'..journal[e].nonce
        PROVE  \E f \in Entry : journal[f].nonce = m
    <3>1. journal[e].nonce \in Int
      BY <1>1, NonceType
    <3>2. m = used - 1 \/ m \in used..journal[e].nonce
      BY <1>1, <1>3, <3>1
    <3>3. QED
      BY <1>2, <2>1, <3>2 DEF NoGaps, IInv
  <2>2. QED
    BY <1>1, <2>1 DEF NoGaps, Signed
<1>15. QED
  BY <1>1, <1>5, <1>6, <1>13, <1>14, ChainStep DEF procVars

\* An empty journal and a new wallet.
LEMMA IInvInit == Init => IInv
<1> SUFFICES ASSUME Init PROVE IInv
  OBVIOUS
<1>1. MaxTime \in Nat /\ MaxForeign \in Nat /\ MaxReorg \in Nat /\ MaxCrash \in Nat
      /\ Limit \in Nat /\ MaxSpend \in Nat
  BY ExecutorAssumption
<1>2. \A e \in Entry : /\ journal[e].status = "free" /\ journal[e].nonce = NoNonce
                       /\ journal[e].deadline = -1 /\ journal[e].action = "none"
                       /\ mined[e] = "no" /\ cost[e] = 0
  BY DEF Init
<1>3. TypeOK
  <2>1. [status |-> "free", action |-> "none", nonce |-> NoNonce, deadline |-> -1,
         cost |-> 0, plannedAt |-> 0, owner |-> Gone] \in JournalEntry
    BY <1>1 DEF JournalEntry
  <2>2. journal \in [Entry -> JournalEntry]
    BY <2>1 DEF Init
  <2>3. view \in [Proc -> Views]
    BY NoViewType DEF Init
  <2>4. QED
    BY <1>1, <2>2, <2>3 DEF Init, TypeOK, Views
<1>4. \A e \in Entry : EntryOk(e)
  BY <1>2 DEF EntryOk, Justified, Status
<1>5. NoncesDistinct /\ NoGaps
  BY <1>2 DEF NoncesDistinct, NoGaps, Signed, Open, Status
<1>6. Mined = {} /\ \A a : Traded(a) = 0
  <2>1. Mined = {} /\ \A a : {e \in Entry : mined[e] = "ok" /\ journal[e].action = a} = {}
    BY <1>2 DEF Mined
  <2>2. Cardinality({}) = 0
    BY FS_EmptySet
  <2>3. QED
    BY <2>1, <2>2 DEF Traded
<1>7. ChainOk
  <2>1. Holdings = 0 /\ RecentBuys = {}
    BY <1>6 DEF Holdings, RecentBuys, Init
  <2>2. used = Cardinality(Mined) + foreign
    BY <1>6, FS_EmptySet DEF Init
  <2>3. QED
    BY <1>2, <1>6, <2>1, <2>2 DEF ChainOk, Init
<1>8. ReservationsWithinPolicy
  <2> DEFINE f == [e \in Entry |-> SpendOf(e)]
  <2>1. \A e \in Entry : f[e] = 0
    BY <1>2 DEF SpendOf
  <2> HIDE DEF f
  <2>2. Sum(f, Entry) = 0
    BY <2>1, ExecutorAssumption, SumZero
  <2>3. QED
    BY <1>1, <2>2 DEF ReservationsWithinPolicy, Spent, f
<1>9. \A p \in Proc : Sees(p)
  BY DEF Sees, Init
<1>10. QED
  BY <1>3, <1>4, <1>5, <1>7, <1>8, <1>9 DEF IInv

\* Every step keeps the invariant.
LEMMA IInvStep == IInv /\ [Next]_vars => IInv'
<1> SUFFICES ASSUME IInv, [Next]_vars PROVE IInv'
  OBVIOUS
<1>1. CASE UNCHANGED vars
  <2>1. UNCHANGED <<journal, pc, cur, view, now, used, mined, cost, recent, mempool, inflight,
                    foreign, reorgs, crashes>>
    BY <1>1 DEF vars, procVars, chainVars
  <2>2. QED
    BY <2>1 DEF IInv, TypeOK, EntryOk, Justified, Status, Settled, Ineffective, Late, Signed,
       NoncesDistinct, Open, NoGaps, ChainOk, Mined, RecentBuys, Holdings, Traded,
       ReservationsWithinPolicy, Spent, SpendOf, Sees
<1>2. CASE Chain
  BY <1>2, NewBlockStep, ForeignStep, MineStep, ReorgStep, ArriveStep DEF Chain
<1>3. ASSUME NEW p \in Proc, Execute(p) PROVE IInv'
  BY <1>3, ReadForPlanStep, GiveUpStep, PlanStep, SignStep, SignRefusedStep, SendStep,
     SendUncertainStep, MarkStep DEF Execute
<1>4. ASSUME NEW p \in Proc, Reconcile(p) PROVE IInv'
  BY <1>4, ReadEntryStep, LookupStep, ReadCountStep, ResendStep, ApplyStep DEF Reconcile
<1>5. ASSUME NEW p \in Proc, Crash(p) PROVE IInv'
  BY <1>5, CrashKeeps
<1>6. QED
  BY <1>1, <1>2, <1>3, <1>4, <1>5 DEF Next

\* Every step of the processes, the chain and the network keeps the journal in line
\* with the chain (executor.ts, recovery.ts, effects.ts).
THEOREM ExecutorInvariant == Spec => []IInv
BY IInvInit, IInvStep, PTL DEF Spec

\* What is on the network or the chain is in the journal with its nonce, and was never
\* given up as unsigned: sign stores nonce and bytes under the lock before broadcast sends
\* them (executor.ts, sign and broadcast), whatever other processes do meanwhile.
THEOREM ExecutorJournal == Spec => []JournalledFirst
<1>1. IInv => JournalledFirst
  <2> SUFFICES ASSUME IInv PROVE JournalledFirst
    OBVIOUS
  <2>1. TypeOK
    BY DEF IInv
  <2>2. ASSUME NEW e \in Sent PROVE Status(e) \notin Unsigned /\ journal[e].nonce >= 0
    <3>1. e \in Entry /\ Signed(e)
      BY DEF Sent, IInv, ChainOk, Mined, TypeOK
    <3>2. Status(e) \notin Unsigned
      BY <2>1, <3>1, EntryFields
    <3>3. journal[e].nonce \in Nat
      BY <2>1, <3>1, NonceType
    <3>4. QED
      BY <3>2, <3>3
  <2>3. QED
    BY <2>1, <2>2 DEF JournalledFirst, Unsigned
<1>2. QED
  BY <1>1, ExecutorInvariant, PTL

\* A final status is true of the chain for ever: confirmed, mismatch and reverted need a
\* block on top of the receipt, expired a deadline before the head (recovery.ts, effects.ts),
\* and the decision is applied later without being looked at again (executor.ts:164).
THEOREM ExecutorTruth == Spec => []FinalTellsTruth
<1>1. IInv => FinalTellsTruth
  BY DEF IInv, FinalTellsTruth, EntryOk, Justified, Ineffective
<1>2. QED
  BY <1>1, ExecutorInvariant, PTL

\* Open entries never compete for a nonce: sign takes the larger of the pending count and
\* the numbers after the open entries, under the lock (executor.ts, sign).
THEOREM ExecutorNonces == Spec => []NoncesDistinct
<1>1. IInv => NoncesDistinct
  BY DEF IInv
<1>2. QED
  BY <1>1, ExecutorInvariant, PTL

\* Confirmed costs and the reservations of open buys stay within maxSpend: plan checks
\* and reserves under one lock (executor.ts, plan; policy.ts, evaluatePolicy).
THEOREM ExecutorPolicy == Spec => []ReservationsWithinPolicy
<1>1. IInv => ReservationsWithinPolicy
  BY DEF IInv
<1>2. QED
  BY <1>1, ExecutorInvariant, PTL

-----------------------------------------------------------------------------
(* Reads of one reconciliation that see one chain, and no reorganisation.   *)

\* The nonce of e was used, and not by e.
Dead(e) == Signed(e) /\ mined[e] = "no" /\ journal[e].nonce < used

\* What process p did not find is not mined, and what it takes for replaced is.
Judges(p) ==
  /\ pc[p] = "count" /\ view[p].status # "planned" /\ ~view[p].found => mined[cur[p]] = "no"
  /\ pc[p] = "apply" /\ view[p].becomes = "replaced" => Dead(cur[p])

ReplacedInv ==
  /\ \A e \in Entry : Status(e) = "replaced" => Dead(e)
  /\ \A p \in Proc : Judges(p)

\* A nonce stays, and an entry becomes replaced when it is.
Rules(e) ==
  /\ Signed(e) => journal'[e].nonce = journal[e].nonce
  /\ Status(e)' = "replaced" => Status(e) = "replaced" \/ Dead(e)

\* A nonce stays used, and an entry that lost it stays unmined.
LEMMA DeadKept ==
  ASSUME NEW e, Dead(e), Rules(e), used' >= used, used \in Int, used' \in Int,
         journal[e].nonce \in Int, mined'[e] = mined[e]
  PROVE  Dead(e)'
BY DEF Dead, Rules, Signed

\* A step of process p, as the other processes see it.
LEMMA JudgeStep ==
  ASSUME IInv, ReplacedInv, NEW p \in Proc, NEW step \in Steps, NEW x \in Entry \cup {NoEntry},
         NEW v \in Views, Goes(p, step, x, v), UNCHANGED <<used, mined>>,
         \A e \in Entry : Rules(e), Judges(p)'
  PROVE  ReplacedInv'
<1>1. ASSUME NEW e \in Entry, Dead(e) PROVE Dead(e)'
  <2>1. journal[e].nonce \in Int /\ used \in Int
    BY NonceType DEF IInv, TypeOK
  <2>2. QED
    BY <1>1, <2>1, DeadKept
<1>2. \A e \in Entry : Status(e)' = "replaced" => Dead(e)'
  BY <1>1 DEF ReplacedInv, Rules
<1>3. ASSUME NEW q \in Proc PROVE Judges(q)'
  <2>1. CASE q # p
    <3>1. pc'[q] = pc[q] /\ cur'[q] = cur[q] /\ view'[q] = view[q]
      BY <2>1, Went DEF IInv
    <3>2. pc[q] = "apply" => cur[q] \in Entry
      BY DEF IInv, Sees
    <3>3. QED
      BY <1>1, <3>1, <3>2 DEF ReplacedInv, Judges
  <2>2. QED
    BY <2>1
<1>4. QED
  BY <1>2, <1>3 DEF ReplacedInv

\* Steps that leave the journal alone.
LEMMA SameJournal ==
  ASSUME UNCHANGED journal
  PROVE  \A e \in Entry : Rules(e)
BY DEF Rules, Status

\* Steps that write one entry.
LEMMA OneEntry ==
  ASSUME TypeOK, NEW x \in Entry, NEW r, journal' = [journal EXCEPT ![x] = r],
         Signed(x) => r.nonce = journal[x].nonce,
         r.status = "replaced" => Status(x) = "replaced" \/ Dead(x)
  PROVE  \A e \in Entry : Rules(e)
BY DEF Rules, Status, TypeOK

\* A process that does not judge afterwards.
LEMMA OtherStep ==
  ASSUME IInv, ReplacedInv, NEW p \in Proc, NEW step \in Steps, NEW x \in Entry \cup {NoEntry},
         NEW v \in Views, Goes(p, step, x, v), step \notin {"count", "apply"},
         UNCHANGED <<used, mined>>, \A e \in Entry : Rules(e)
  PROVE  ReplacedInv'
<1>1. pc'[p] = step
  BY Went DEF IInv
<1>2. QED
  BY <1>1, JudgeStep DEF Judges

\* A process that gives up.
LEMMA IdleKeeps ==
  ASSUME IInv, ReplacedInv, NEW p \in Proc, Idle(p), UNCHANGED <<used, mined>>,
         \A e \in Entry : Rules(e)
  PROVE  ReplacedInv'
<1>1. Goes(p, "idle", NoEntry, NoView) /\ NoView \in Views /\ "idle" \in Steps
  BY NoViewType DEF Idle, Goto, Goes, Steps
<1>2. QED
  BY <1>1, OtherStep

\* Planning, signing and sending make no entry replaced.
LEMMA ExecuteKeeps ==
  ASSUME IInv, ReplacedInv, NEW p \in Proc, Execute(p)
  PROVE  ReplacedInv'
<1>0. UNCHANGED <<used, mined>> /\ TypeOK
  BY DEF IInv, Execute, ReadForPlan, PlanRejected, Plan, Sign, SignRefused, SignSkipped, Send,
         SendUncertain, Mark, env, chainVars
<1>1. view[p] \in Views /\ cur[p] \in Entry \cup {NoEntry}
  BY <1>0, ProcTypes
<1>2. CASE PlanRejected(p) \/ SignSkipped(p) \/ SendUncertain(p)
  BY <1>0, <1>2, SameJournal, IdleKeeps DEF PlanRejected, SignSkipped, SendUncertain
<1>3. CASE ReadForPlan(p)
  <2> DEFINE v == [view[p] EXCEPT !.held = Holdings]
  <2>1. v \in Views /\ "plan" \in Steps
    BY <1>1, HoldingsType DEF Views, Steps, IInv
  <2>2. Goes(p, "plan", cur[p], v)
    BY <1>0, <1>3 DEF ReadForPlan, Goto, Goes, TypeOK
  <2> HIDE DEF v
  <2>3. QED
    BY <1>0, <1>1, <1>3, <2>1, <2>2, SameJournal, OtherStep DEF ReadForPlan
<1>4. CASE Send(p)
  <2>1. Goes(p, "mark", cur[p], view[p]) /\ "mark" \in Steps /\ UNCHANGED journal
    BY <1>0, <1>4 DEF Send, Goto, Goes, TypeOK, Steps
  <2>2. QED
    BY <1>0, <1>1, <2>1, SameJournal, OtherStep
<1>5. ASSUME NEW e \in Entry, NEW a \in Actions, Plan(p, e, a) PROVE ReplacedInv'
  <2> DEFINE r == [journal[e] EXCEPT !.status = "planned", !.action = a, !.plannedAt = now,
                     !.owner = p,
                     !.deadline = IF a \in {"buy", "sell"} THEN now + DeadlineAfter ELSE -1]
  <2>1. Status(e) = "free" /\ journal' = [journal EXCEPT ![e] = r]
    BY <1>5 DEF Plan
  <2>2. r.status = "planned" /\ r.nonce = journal[e].nonce
    <3>1. journal[e] = [f \in Fields |-> journal[e][f]]
      BY <1>0, EntryFields
    <3>2. QED
      BY <3>1 DEF Fields
  <2> HIDE DEF r
  <2>3. \A y \in Entry : Rules(y)
    BY <1>0, <2>1, <2>2, OneEntry
  <2>4. Goes(p, "sign", e, NoView) /\ NoView \in Views /\ "sign" \in Steps
    BY <1>5, NoViewType DEF Plan, Goto, Goes, Steps
  <2>5. QED
    BY <1>0, <2>3, <2>4, OtherStep
<1>6. ASSUME NEW x \in Entry, x = cur[p], Sign(p) \/ SignRefused(p) \/ Mark(p)
      PROVE  ReplacedInv'
  <2>1. journal[x] = [f \in Fields |-> journal[x][f]] /\ (Signed(x) <=> Status(x) \notin Unsigned)
    BY <1>0, EntryFields
  <2>2. CASE Sign(p)
    <3>1. PICK n : n = NextNonce
      OBVIOUS
    <3> DEFINE r == [journal[x] EXCEPT !.status = "signed", !.nonce = n]
    <3>2. Status(x) = "planned" /\ journal' = [journal EXCEPT ![x] = r]
      BY <1>6, <2>2, <3>1 DEF Sign, StillPlanned
    <3>3. r.status = "signed" /\ ~Signed(x)
      BY <2>1, <3>2 DEF Fields, Unsigned
    <3> HIDE DEF r
    <3>4. \A y \in Entry : Rules(y)
      BY <1>0, <3>2, <3>3, OneEntry
    <3>5. Goes(p, "send", cur[p], view[p]) /\ "send" \in Steps
      BY <1>0, <2>2 DEF Sign, Goto, Goes, TypeOK, Steps
    <3>6. QED
      BY <1>0, <1>1, <3>4, <3>5, OtherStep
  <2>3. CASE SignRefused(p)
    <3> DEFINE r == [journal[x] EXCEPT !.status = "abandoned"]
    <3>1. journal' = [journal EXCEPT ![x] = r] /\ Idle(p)
      BY <1>6, <2>3 DEF SignRefused
    <3>2. r.status = "abandoned" /\ r.nonce = journal[x].nonce
      BY <2>1 DEF Fields
    <3> HIDE DEF r
    <3>3. QED
      BY <1>0, <3>1, <3>2, OneEntry, IdleKeeps
  <2>4. CASE Mark(p)
    <3>1. PICK s : s = Marked(x)
      OBVIOUS
    <3> DEFINE r == [journal[x] EXCEPT !.status = s]
    <3>2. journal' = [journal EXCEPT ![x] = r] /\ Idle(p)
      BY <1>6, <2>4, <3>1 DEF Mark
    <3>3. r.status = s /\ r.nonce = journal[x].nonce /\ (s = "replaced" => Status(x) = "replaced")
      BY <2>1, <3>1 DEF Fields, Marked
    <3> HIDE DEF r
    <3>4. QED
      BY <1>0, <3>2, <3>3, OneEntry, IdleKeeps
  <2>5. QED
    BY <1>6, <2>2, <2>3, <2>4
<1>7. pc[p] \notin {"idle", "plan"} => cur[p] \in Entry
  BY DEF IInv, Sees
<1>8. CASE Sign(p) \/ SignRefused(p) \/ Mark(p)
  BY <1>6, <1>7, <1>8 DEF Sign, SignRefused, Mark
<1>9. QED
  BY <1>2, <1>3, <1>4, <1>5, <1>8 DEF Execute

\* An entry becomes replaced when its nonce was used and it was not found.
LEMMA ReconcileKeeps ==
  ASSUME IInv, ReplacedInv, NEW p \in Proc, Reconcile(p)
  PROVE  ReplacedInv'
<1>0. UNCHANGED <<used, mined>> /\ TypeOK
  BY DEF IInv, Reconcile, ReadEntry, Lookup, ReadCount, Resend, Apply, env, chainVars
<1>1. view[p] \in Views /\ cur[p] \in Entry \cup {NoEntry}
  BY <1>0, ProcTypes
<1>2. CASE Resend(p)
  BY <1>0, <1>2, SameJournal, IdleKeeps DEF Resend
<1>3. ASSUME NEW e \in Entry, ReadEntry(p, e) PROVE ReplacedInv'
  <2> DEFINE v == [view[p] EXCEPT !.status = Status(e), !.overdue = Overdue(e), !.deep = Deep(e)]
  <2>1. Status(e) \in Unfinished /\ Overdue(e) \in BOOLEAN /\ Deep(e) \in BOOLEAN
    BY <1>3 DEF ReadEntry, Open, Overdue, Deep
  <2>2. v \in Views
    BY <1>1, <2>1 DEF Views
  <2>3. Goes(p, "lookup", e, v) /\ "lookup" \in Steps /\ UNCHANGED journal
    BY <1>0, <1>3 DEF ReadEntry, Goto, Goes, TypeOK, Steps
  <2> HIDE DEF v
  <2>4. QED
    BY <1>0, <2>2, <2>3, SameJournal, OtherStep
<1>4. ASSUME NEW x \in Entry, x = cur[p], Lookup(p) PROVE ReplacedInv'
  <2> DEFINE found == view[p].status # "planned" /\ (mined[x] # "no" \/ x \in mempool)
             overdue == ~found /\ view[p].overdue
             receipt == IF found /\ view[p].deep /\ mined[x] # "no" THEN mined[x] ELSE "none"
             v == [NoView EXCEPT !.status = view[p].status, !.found = found,
                                 !.overdue = overdue, !.receipt = receipt]
  <2>1. mined[x] \in {"no"} \cup Effects
    BY <1>0 DEF TypeOK
  <2>2. v \in Views /\ v.status = view[p].status /\ v.found = found
    BY <1>1, <2>1 DEF Views, NoView
  <2>3. Goes(p, "count", x, v) /\ "count" \in Steps /\ UNCHANGED journal
    BY <1>0, <1>4 DEF Lookup, Goto, Goes, TypeOK, Steps
  <2>4. v.status # "planned" /\ ~v.found => mined[x] = "no"
    BY <2>2
  <2> HIDE DEF v, found, overdue, receipt
  <2>5. pc'[p] = "count" /\ cur'[p] = x /\ view'[p] = v
    BY <1>0, <2>2, <2>3, Went
  <2>6. Judges(p)'
    BY <1>0, <2>4, <2>5 DEF Judges
  <2>7. QED
    BY <1>0, <2>2, <2>3, <2>6, SameJournal, JudgeStep
<1>5. ASSUME NEW x \in Entry, x = cur[p], ReadCount(p) PROVE ReplacedInv'
  <2>1. PICK step : step = RecoveryStep(x, view[p], used)
    OBVIOUS
  <2>2. pc[p] = "count" /\ UNCHANGED journal
    BY <1>5 DEF ReadCount
  <2>3. CASE Idle(p)
    BY <1>0, <2>2, <2>3, SameJournal, IdleKeeps
  <2>4. CASE Goto(p, "resend") /\ view' = [view EXCEPT ![p] = NoView] /\ UNCHANGED cur
    <3>1. Goes(p, "resend", x, NoView) /\ NoView \in Views /\ "resend" \in Steps
      BY <1>0, <1>5, <2>4, NoViewType DEF Goto, Goes, Steps, TypeOK
    <3>2. QED
      BY <1>0, <2>2, <3>1, SameJournal, OtherStep
  <2>5. CASE /\ step # "resend" /\ Goto(p, "apply") /\ UNCHANGED cur
             /\ view' = [view EXCEPT ![p] = [NoView EXCEPT !.status = view[p].status,
                                                           !.becomes = step]]
    <3> DEFINE v == [NoView EXCEPT !.status = view[p].status, !.becomes = step]
    <3>1. v \in Views /\ v.becomes = step
      BY <1>1, <2>1, <2>5, RecoveryType DEF NoView, Views
    <3>2. Goes(p, "apply", x, v) /\ "apply" \in Steps
      BY <1>0, <1>5, <2>5 DEF Goto, Goes, Steps, TypeOK
    <3> HIDE DEF v
    <3>3. pc'[p] = "apply" /\ cur'[p] = x /\ view'[p] = v
      BY <1>0, <3>1, <3>2, Went
    <3>4. step = "replaced" => Dead(x)
      <4>1. SUFFICES ASSUME step = "replaced" PROVE Dead(x)
        OBVIOUS
      <4>2. view[p].status # "planned" /\ ~view[p].found /\ NonceTaken(x, used)
        <5>1. view[p].status # "planned"
          BY <2>1, <4>1 DEF RecoveryStep
        <5>2. view[p].receipt \in {"none"} \cup Effects
          BY <1>1 DEF Views
        <5>3. view[p].receipt = "none"
          BY <2>1, <4>1, <5>1, <5>2 DEF RecoveryStep, Effects
        <5>4. QED
          BY <2>1, <4>1, <5>1, <5>3 DEF RecoveryStep
      <4>3. Signed(x)
        BY <1>5, <2>2, <4>2 DEF IInv, Sees
      <4>4. mined[x] = "no"
        BY <1>5, <2>2, <4>2 DEF ReplacedInv, Judges
      <4>5. journal[x].nonce \in Int /\ used \in Int
        BY <1>0, NonceType DEF TypeOK
      <4>6. QED
        BY <4>2, <4>3, <4>4, <4>5 DEF Dead, NonceTaken
    <3>5. step = "replaced" => Dead(x)'
      BY <1>0, <2>2, <3>4 DEF Dead, Signed
    <3>6. Judges(p)'
      BY <3>1, <3>3, <3>5 DEF Judges
    <3>7. QED
      BY <1>0, <2>2, <3>1, <3>2, <3>6, SameJournal, JudgeStep
  <2>6. QED
    BY <1>5, <2>1, <2>3, <2>4, <2>5 DEF ReadCount
<1>6. ASSUME NEW x \in Entry, x = cur[p], Apply(p) PROVE ReplacedInv'
  <2>1. pc[p] = "apply" /\ Idle(p)
    BY <1>6 DEF Apply
  <2>2. CASE ~Unmoved(p)
    BY <1>0, <1>6, <2>1, <2>2, SameJournal, IdleKeeps DEF Apply
  <2>3. CASE Unmoved(p)
    <3>1. PICK b, c : /\ b = view[p].becomes
                      /\ c = IF b = "confirmed" THEN cost[x] ELSE journal[x].cost
      OBVIOUS
    <3> DEFINE r == [journal[x] EXCEPT !.status = b, !.cost = c]
    <3>2. journal[x] = [f \in Fields |-> journal[x][f]] /\ journal = [e \in Entry |-> journal[e]]
      BY <1>0, EntryFields DEF TypeOK
    <3>3. journal' = [journal EXCEPT
             ![x].status = b, ![x].cost = IF b = "confirmed" THEN cost[x] ELSE @]
      BY <1>6, <2>3, <3>1 DEF Apply
    <3>4. journal' = [journal EXCEPT ![x] = r]
      BY <3>1, <3>2, <3>3 DEF Fields
    <3>5. r.status = b /\ r.nonce = journal[x].nonce
      BY <3>2 DEF Fields
    <3> HIDE DEF r
    <3>6. b = "replaced" => Dead(x)
      BY <1>6, <2>1, <3>1 DEF ReplacedInv, Judges
    <3>7. \A y \in Entry : Rules(y)
      BY <1>0, <3>4, <3>5, <3>6, OneEntry
    <3>8. QED
      BY <1>0, <2>1, <3>7, IdleKeeps
  <2>4. QED
    BY <2>2, <2>3
<1>7. pc[p] \notin {"idle", "plan"} => cur[p] \in Entry
  BY DEF IInv, Sees
<1>8. CASE Lookup(p)
  BY <1>4, <1>7, <1>8 DEF Lookup
<1>9. CASE ReadCount(p)
  BY <1>5, <1>7, <1>9 DEF ReadCount
<1>10. CASE Apply(p)
  BY <1>6, <1>7, <1>10 DEF Apply
<1>11. QED
  BY <1>2, <1>3, <1>8, <1>9, <1>10 DEF Reconcile

\* Crashes change owners only.
LEMMA CrashKeepsReplaced ==
  ASSUME IInv, ReplacedInv, NEW p \in Proc, Crash(p)
  PROVE  ReplacedInv'
<1>1. ASSUME NEW e \in Entry PROVE Rules(e)
  <2>1. journal[e] = [f \in Fields |-> journal[e][f]]
    BY EntryFields DEF IInv
  <2>2. journal'[e] = journal[e] \/ journal'[e] = [journal[e] EXCEPT !.owner = Gone]
    BY DEF Crash
  <2>3. journal'[e].status = journal[e].status /\ journal'[e].nonce = journal[e].nonce
    BY <2>1, <2>2 DEF Fields
  <2>4. QED
    BY <2>3 DEF Rules, Status
<1>2. QED
  BY <1>1, IdleKeeps DEF Crash, chainVars

\* Without a reorganisation, and while no process is between its reads, the chain revives nothing.
LEMMA ChainKeepsReplaced ==
  ASSUME IInv, ReplacedInv, AtomicReads, MaxReorg = 0, Chain
  PROVE  ReplacedInv'
<1>1. journal' = journal /\ pc' = pc /\ cur' = cur /\ view' = view
  BY ChainFrame DEF procVars
<1>2. \A p \in Proc : pc[p] # "count"
  BY DEF Chain, NewBlock, Foreign, Mine, Reorg, Arrive, Evict, Undisturbed
<1>3. used \in Int /\ used' \in Int /\ used' >= used
  <2>1. used \in Nat /\ reorgs \in 0..0
    BY DEF IInv, TypeOK
  <2>2. \A e \in Entry : ~Reorg(e)
    BY <2>1 DEF Reorg
  <2>3. used' = used \/ used' = used + 1
    BY <2>2 DEF Chain, NewBlock, Foreign, Mine, Arrive, Evict
  <2>4. QED
    BY <2>1, <2>3
<1>4. ASSUME NEW e \in Entry, Dead(e) PROVE Dead(e)'
  <2>1. journal[e].nonce \in Int
    BY NonceType DEF IInv
  <2>2. mined'[e] = mined[e]
    <3>1. ASSUME NEW x \in Entry, Mine(x) PROVE mined'[e] = mined[e]
      <4>1. x # e
        BY <1>3, <1>4, <2>1, <3>1 DEF Mine, Dead
      <4>2. QED
        BY <3>1, <4>1 DEF Mine, IInv, TypeOK
    <3>2. \A x \in Entry : ~Reorg(x)
      BY DEF Reorg, IInv, TypeOK
    <3>3. QED
      BY <3>1, <3>2 DEF Chain, NewBlock, Foreign, Arrive, Evict
  <2>3. QED
    BY <1>1, <1>3, <1>4, <2>1, <2>2 DEF Dead, Signed
<1>5. \A p \in Proc : Judges(p)'
  <2>1. \A p \in Proc : pc[p] = "apply" => cur[p] \in Entry
    BY DEF IInv, Sees
  <2>2. QED
    BY <1>1, <1>2, <1>4, <2>1 DEF ReplacedInv, Judges
<1>6. QED
  BY <1>1, <1>4, <1>5 DEF ReplacedInv, Status

\* Every step keeps what is dead dead.
LEMMA ReplacedStep ==
  ASSUME AtomicReads, MaxReorg = 0
  PROVE  IInv /\ ReplacedInv /\ [Next]_vars => ReplacedInv'
<1> SUFFICES ASSUME IInv, ReplacedInv, [Next]_vars PROVE ReplacedInv'
  OBVIOUS
<1>1. CASE UNCHANGED vars
  BY <1>1 DEF vars, procVars, chainVars, ReplacedInv, Judges, Dead, Signed, Status
<1>2. CASE Chain
  BY <1>2, ChainKeepsReplaced
<1>3. ASSUME NEW p \in Proc, Execute(p) \/ Reconcile(p) \/ Crash(p) PROVE ReplacedInv'
  BY <1>3, ExecuteKeeps, ReconcileKeeps, CrashKeepsReplaced
<1>4. QED
  BY <1>1, <1>2, <1>3 DEF Next

\* Initially nothing is replaced.
LEMMA ReplacedInit == Init => ReplacedInv
BY DEF Init, ReplacedInv, Judges, Status

\* What was spent on the chain is reserved or recorded in the journal.
LEMMA SpentIsReserved ==
  ASSUME IInv, ReplacedInv
  PROVE  SpendWithinLimit
<1> DEFINE g == [e \in Entry |-> SpendOf(e)]
<1>1. \A e \in Entry : SpendOf(e) \in 0..Limit /\ cost[e] \in 0..Limit
  BY SpendType DEF IInv, TypeOK
<1>2. Limit \in Nat /\ MaxSpend \in Nat /\ IsFiniteSet(Entry)
  BY ExecutorAssumption
<1>3. ASSUME NEW e \in Entry PROVE cost[e] <= SpendOf(e)
  <2>1. CASE cost[e] = 0
    BY <1>1, <1>2, <2>1
  <2>2. CASE cost[e] # 0
    <3>1. mined[e] = "ok" /\ journal[e].action = "buy"
      BY <2>2 DEF IInv, ChainOk
    <3>2. Status(e) \in Statuses /\ Status(e) \notin Unsigned
      BY <3>1, EntryFields DEF IInv, ChainOk, Mined
    <3>3. Status(e) \notin {"reverted", "expired", "replaced", "mismatch"}
      BY <3>1 DEF IInv, EntryOk, Justified, Ineffective, ReplacedInv, Dead
    <3>4. Status(e) = "confirmed" => journal[e].cost = cost[e]
      BY DEF IInv, EntryOk
    <3>5. Status(e) = "confirmed" \/ Status(e) \in Unfinished
      BY <3>2, <3>3 DEF Statuses, Unsigned, Unfinished, Final
    <3>6. SpendOf(e) = cost[e] \/ SpendOf(e) = Limit
      BY <3>1, <3>4, <3>5 DEF SpendOf, Unfinished
    <3>7. QED
      BY <1>1, <1>2, <3>6
  <2>3. QED
    BY <2>1, <2>2
<1>4. \A e \in Entry : cost[e] \in Int /\ g[e] \in Int /\ cost[e] <= g[e]
  BY <1>1, <1>3
<1>5. Spent = Sum(g, Entry)
  BY DEF Spent
<1> HIDE DEF g
<1>6. Sum(cost, Entry) <= Sum(g, Entry) /\ Sum(cost, Entry) \in Int /\ Sum(g, Entry) \in Int
  BY <1>2, <1>4, SumAtMost, SumInt
<1>7. QED
  BY <1>2, <1>5, <1>6 DEF SpendWithinLimit, IInv, ReservationsWithinPolicy

\* When the chain stands still during a reconciliation and is never reorganised, a replaced
\* entry never lands (recovery.ts, recoveryStep; protocol/specs/transactions.md).  Without
\* the first hypothesis the race of executor_replaced_race violates it, and without the
\* second a transaction with the same nonce that expired, was mined and is reorganised away
\* lets the replaced one in.
THEOREM ReplacedTransactions ==
  ASSUME AtomicReads, MaxReorg = 0
  PROVE  Spec => []ReplacedNeverLands
<1>1. ReplacedInv => ReplacedNeverLands
  BY DEF ReplacedInv, ReplacedNeverLands, Dead
<1>2. QED
  BY <1>1, ReplacedInit, ReplacedStep, ExecutorInvariant, PTL DEF Spec

\* Under the same hypotheses the wallet never spends more on buys than maxSpend: what
\* was mined is recorded or still reserved (policy.ts, spendOf; executor.ts, reconcile).
THEOREM SpendingBounded ==
  ASSUME AtomicReads, MaxReorg = 0
  PROVE  Spec => []SpendWithinLimit
BY SpentIsReserved, ReplacedInit, ReplacedStep, ExecutorInvariant, PTL DEF Spec
==============================================================================
