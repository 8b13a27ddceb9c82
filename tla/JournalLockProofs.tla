-------------------------- MODULE JournalLockProofs --------------------------
(***************************************************************************)
(* When the takeover of JournalLock is safe.  The lock is judged in one     *)
(* file operation and removed in another, so two processes that both find   *)
(* an orphaned lock can remove each other's.  That needs a crash and two    *)
(* survivors, or a call that outlives four times staleMs: without both, for *)
(* any number of processes and any ages, the lock excludes and no update is *)
(* lost.                                                                    *)
(***************************************************************************)
EXTENDS JournalLock, FiniteSetTheorems, TLAPS

\* No process keeps the lock so long that it is taken from it alive.
HeldBriefly == MaxAge <= 4 * StaleAge

\* Nobody crashes, or a single process is left to find the lock orphaned.
LoneSurvivor ==
  \/ MaxCrash = 0
  \/ \A p, q, r \in Pid : p = q \/ q = r \/ p = r

-----------------------------------------------------------------------------
(* The inductive invariant.                                                 *)

\* A process about to remove the lock file judged the one that is still there,
\* and its creator is dead.
JudgedStillThere ==
  \A p \in Pid : At(p, "unlink") => lock.exists /\ lock.creator \in dead

\* From the creation of the file to its removal a live process owns it.
OwnsLock(p) == lock.exists /\ lock.creator = p
HoldersOwnLock ==
  \A p \in Pid : p \notin dead /\ pc[p] \in {"stamp", "read", "work", "release"} => OwnsLock(p)

\* Nothing was written since a live process read the journal.
CopyIsFresh == \A p \in Pid : At(p, "work") => copy[p] = journal

NobodyCrashes == MaxCrash = 0 => dead = {}

IInv ==
  /\ TypeOK /\ NobodyCrashes
  /\ JudgedStillThere /\ HoldersOwnLock /\ CopyIsFresh /\ NoLostUpdate

-----------------------------------------------------------------------------
LEMMA LockType ==
  ASSUME TypeOK
  PROVE  \/ lock = NoFile /\ ~lock.exists
         \/ lock # NoFile /\ lock.exists /\ lock.creator \in Pid /\ lock.age \in 0..MaxAge
  <1>1. CASE lock = NoFile
    BY <1>1 DEF NoFile
  <1>2. CASE lock \in [exists : {TRUE}, creator : Pid, stamped : BOOLEAN, age : 0..MaxAge]
    <2>1. lock.exists = TRUE /\ lock.creator \in Pid /\ lock.age \in 0..MaxAge
      BY <1>2
    <2>2. NoFile.exists = FALSE
      BY DEF NoFile
    <2>3. QED
      BY <2>1, <2>2
  <1>3. QED
    BY <1>1, <1>2 DEF TypeOK

\* Type correctness: in particular a file is judged and stamped only with a
\* creator and an age, and none is removed twice into a state without a file.
LEMMA TypeStep == TypeOK /\ [Next]_vars => TypeOK'
  <1> SUFFICES ASSUME TypeOK, [Next]_vars PROVE TypeOK'
    OBVIOUS
  <1> USE LockAssumption
  <1> DEFINE File0 == [exists : {TRUE}, creator : Pid, stamped : BOOLEAN, age : 0..MaxAge]
  <1>1. CASE Tick
    <2>1. lock \in File0
      BY <1>1, LockType DEF Tick, TypeOK
    <2>2. lock.age + 1 \in 0..MaxAge
      BY <1>1, <2>1 DEF Tick
    <2>3. lock' \in File0
      BY <1>1, <2>1, <2>2 DEF Tick
    <2>4. QED
      BY <1>1, <2>3 DEF Tick, TypeOK
  <1>2. ASSUME NEW p \in Pid, Step(p) PROVE TypeOK'
    <2>1. File(p, FALSE, 0) \in File0 /\ File(p, TRUE, 0) \in File0
      BY DEF File
    <2>2. CASE Call(p) \/ Exists(p) \/ Inspect(p) \/ Unlink(p)
      BY <2>2 DEF Call, Exists, Inspect, Unlink, Goto, TypeOK
    <2>3. CASE Create(p)
      BY <2>1, <2>3 DEF Create, Goto, TypeOK
    <2>4. CASE Stamp(p)
      BY <2>1, <2>4 DEF Stamp, Goto, TypeOK
    <2>5. CASE Read(p) \/ Abort(p)
      BY <2>5 DEF Read, Abort, Goto, TypeOK
    <2>6. CASE Write(p)
      BY <2>6 DEF Write, Goto, TypeOK
    <2>7. CASE Release(p)
      BY <2>7 DEF Release, Goto, TypeOK
    <2>8. QED
      BY <1>2, <2>2, <2>3, <2>4, <2>5, <2>6, <2>7 DEF Step
  <1>3. ASSUME NEW p \in Pid, Crash(p) PROVE TypeOK'
    BY <1>3 DEF Crash, TypeOK
  <1>4. CASE UNCHANGED vars
    BY <1>4 DEF vars, TypeOK
  <1>5. QED
    BY <1>1, <1>2, <1>3, <1>4 DEF Next

\* A lock in its age is found stale only when its creator is dead.
LEMMA StaleIsOrphaned ==
  ASSUME TypeOK, HeldBriefly, lock.exists, Stale
  PROVE  lock.creator \in dead
  BY LockType, LockAssumption DEF Stale, HeldBriefly

LEMMA Exclusion == TypeOK /\ HoldersOwnLock => MutualExclusion
  BY DEF HoldersOwnLock, OwnsLock, MutualExclusion, Holding

-----------------------------------------------------------------------------
(* Each step preserves the invariant.                                       *)

LEMMA InvStep ==
  ASSUME HeldBriefly, LoneSurvivor, IInv, [Next]_vars
  PROVE  IInv'
  <1> USE DEF IInv, At, Goto
  <1>1. TypeOK'
    BY TypeStep
  <1>2. NobodyCrashes'
    <2>1. CASE \E p \in Pid : Crash(p)
      BY <2>1, FS_EmptySet DEF NobodyCrashes, Crash
    <2>2. CASE ~ \E p \in Pid : Crash(p)
      BY <2>2 DEF NobodyCrashes, Next, Step, Tick, Call, Create, Stamp, Exists, Inspect,
                  Unlink, Read, Write, Abort, Release, vars
    <2>3. QED
      BY <2>1, <2>2
  <1>3. JudgedStillThere' /\ HoldersOwnLock' /\ CopyIsFresh' /\ NoLostUpdate'
    <2> DEFINE Rest == JudgedStillThere /\ HoldersOwnLock /\ CopyIsFresh /\ NoLostUpdate
    <2>1. CASE Tick
      <3>1. /\ lock'.exists = lock.exists /\ lock'.creator = lock.creator
            /\ UNCHANGED <<pc, journal, copy, committed, dead>>
        BY <2>1, LockType DEF Tick, TypeOK, File
      <3>2. QED
        BY <3>1 DEF JudgedStillThere, HoldersOwnLock, OwnsLock, CopyIsFresh, NoLostUpdate
    <2>2. ASSUME NEW p \in Pid, Step(p) PROVE Rest'
      <3>0. pc \in [Pid -> {"idle", "try", "stamp", "inspect", "unlink",
                            "read", "work", "release", "done"}]
        BY DEF TypeOK
      <3>1. CASE Call(p)
        BY <3>0, <3>1 DEF Call, JudgedStillThere, HoldersOwnLock, OwnsLock, CopyIsFresh, NoLostUpdate
      <3>2. CASE Create(p)
        BY <3>0, <3>2 DEF Create, Creatable, File, JudgedStillThere, HoldersOwnLock,
                          OwnsLock, CopyIsFresh, NoLostUpdate
      <3>3. CASE Stamp(p)
        <4>1. lock' = File(p, TRUE, 0) /\ lock.creator = p /\ lock.exists /\ p \notin dead
          BY <3>3 DEF Stamp, HoldersOwnLock, OwnsLock
        <4>2. QED
          BY <3>0, <3>3, <4>1 DEF Stamp, File, JudgedStillThere, HoldersOwnLock, OwnsLock,
                                  CopyIsFresh, NoLostUpdate
      <3>4. CASE Exists(p)
        BY <3>0, <3>4 DEF Exists, JudgedStillThere, HoldersOwnLock, OwnsLock, CopyIsFresh, NoLostUpdate
      <3>5. CASE Inspect(p)
        <4>1. pc'[p] = "unlink" => lock.exists /\ lock.creator \in dead
          BY <3>0, <3>5, StaleIsOrphaned DEF Inspect
        <4>2. pc'[p] \in {"unlink", "try", "idle"} /\ \A q \in Pid \ {p} : pc'[q] = pc[q]
          BY <3>0, <3>5 DEF Inspect
        <4>3. UNCHANGED <<lock, journal, copy, committed, dead>>
          BY <3>5 DEF Inspect
        <4>4. QED
          BY <4>1, <4>2, <4>3 DEF JudgedStillThere, HoldersOwnLock, OwnsLock, CopyIsFresh, NoLostUpdate
      <3>6. CASE Unlink(p)
        <4>1. lock.exists /\ lock.creator \in dead /\ p \notin dead
          BY <3>6 DEF Unlink, JudgedStillThere
        <4>2. lock.creator \in Pid /\ MaxCrash # 0
          BY <4>1, LockType DEF NobodyCrashes
        <4>3. \A q \in Pid \ {p} : q \in dead
          BY <4>1, <4>2 DEF LoneSurvivor
        <4>4. QED
          BY <3>0, <3>6, <4>3 DEF Unlink, JudgedStillThere, HoldersOwnLock, OwnsLock,
                                  CopyIsFresh, NoLostUpdate
      <3>7. CASE Read(p)
        <4>1. copy' = [copy EXCEPT ![p] = journal] /\ copy \in [Pid -> SUBSET Pid]
          BY <3>7 DEF Read, TypeOK
        <4>2. QED
          BY <3>0, <3>7, <4>1 DEF Read, JudgedStillThere, HoldersOwnLock, OwnsLock,
                                  CopyIsFresh, NoLostUpdate
      <3>8. CASE Write(p)
        <4>1. \A q \in Pid \ {p} : ~At(q, "work")
          BY <3>8 DEF Write, HoldersOwnLock, OwnsLock
        <4>2. journal' = journal \cup {p} /\ committed' = committed \cup {p}
          BY <3>8 DEF Write, CopyIsFresh
        <4>3. QED
          BY <3>0, <3>8, <4>1, <4>2 DEF Write, JudgedStillThere, HoldersOwnLock, OwnsLock,
                                        CopyIsFresh, NoLostUpdate
      <3>9. CASE Abort(p)
        BY <3>0, <3>9 DEF Abort, JudgedStillThere, HoldersOwnLock, OwnsLock, CopyIsFresh, NoLostUpdate
      <3>10. CASE Release(p)
        <4>1. lock.exists /\ lock.creator = p /\ p \notin dead
          BY <3>10 DEF Release, HoldersOwnLock, OwnsLock
        <4>2. \A q \in Pid \ {p} : q \notin dead =>
                pc[q] \notin {"stamp", "read", "work", "release", "unlink"}
          BY <4>1 DEF HoldersOwnLock, OwnsLock, JudgedStillThere
        <4>3. QED
          BY <3>0, <3>10, <4>1, <4>2 DEF Release, JudgedStillThere, HoldersOwnLock, OwnsLock,
                                         CopyIsFresh, NoLostUpdate
      <3>11. QED
        BY <2>2, <3>1, <3>2, <3>3, <3>4, <3>5, <3>6, <3>7, <3>8, <3>9, <3>10 DEF Step
    <2>3. ASSUME NEW p \in Pid, Crash(p) PROVE Rest'
      BY <2>3 DEF Crash, JudgedStillThere, HoldersOwnLock, OwnsLock, CopyIsFresh, NoLostUpdate
    <2>4. CASE UNCHANGED vars
      BY <2>4 DEF vars, JudgedStillThere, HoldersOwnLock, OwnsLock, CopyIsFresh, NoLostUpdate
    <2>5. QED
      BY <2>1, <2>2, <2>3, <2>4 DEF Next
  <1>4. QED
    BY <1>1, <1>2, <1>3

LEMMA InvInit == Init => IInv
  BY DEF Init, IInv, TypeOK, NobodyCrashes, JudgedStillThere, HoldersOwnLock, CopyIsFresh,
         NoLostUpdate, At

-----------------------------------------------------------------------------
\* Every variable keeps its type, whatever crashes and whatever is taken over.
THEOREM LockTypeCorrect == Spec => []TypeOK
  <1>1. Init => TypeOK
    BY DEF Init, TypeOK
  <1>2. QED
    BY <1>1, TypeStep, PTL DEF Spec

\* "Every change happens under an exclusive lock file" (journal.ts:9) is true of
\* acquire and release, for any number of processes, as long as no call lasts
\* longer than four times staleMs and a dead process leaves at most one other
\* to take its lock over.
THEOREM SafeTakeover ==
  ASSUME HeldBriefly, LoneSurvivor
  PROVE  Spec => []MutualExclusion
  <1>1. IInv /\ [Next]_vars => IInv'
    BY InvStep
  <1>2. IInv => MutualExclusion
    BY Exclusion DEF IInv
  <1>3. QED
    BY InvInit, <1>1, <1>2, PTL DEF Spec

\* Under the same conditions the update of every call that returned stays in the
\* journal (read, write: journal.ts:79-104).
THEOREM UpdatesKept ==
  ASSUME HeldBriefly, LoneSurvivor
  PROVE  Spec => []NoLostUpdate
  <1>1. IInv /\ [Next]_vars => IInv'
    BY InvStep
  <1>2. IInv => NoLostUpdate
    BY DEF IInv
  <1>3. QED
    BY InvInit, <1>1, <1>2, PTL DEF Spec

-----------------------------------------------------------------------------
(* Refinement.                                                               *)

\* A call that returned is over.
ReturnedOnce == \A p \in committed : pc[p] \in {"release", "done"}

LEMMA ReturnedStep == TypeOK /\ ReturnedOnce /\ [Next]_vars => ReturnedOnce'
  <1> SUFFICES ASSUME TypeOK, ReturnedOnce, [Next]_vars PROVE ReturnedOnce'
    OBVIOUS
  <1> USE DEF ReturnedOnce, TypeOK, At, Goto
  <1>1. CASE Tick
    BY <1>1 DEF Tick
  <1>2. ASSUME NEW p \in Pid, Step(p) PROVE ReturnedOnce'
    <2>1. CASE Write(p)
      BY <2>1 DEF Write
    <2>2. CASE Call(p) \/ Create(p) \/ Exists(p) \/ Inspect(p) \/ Unlink(p)
      BY <2>2 DEF Call, Create, Exists, Inspect, Unlink
    <2>3. CASE Stamp(p) \/ Read(p) \/ Abort(p) \/ Release(p)
      BY <2>3 DEF Stamp, Read, Abort, Release
    <2>4. QED
      BY <1>2, <2>1, <2>2, <2>3 DEF Step
  <1>3. ASSUME NEW p \in Pid, Crash(p) PROVE ReturnedOnce'
    BY <1>3 DEF Crash
  <1>4. CASE UNCHANGED vars
    BY <1>4 DEF vars
  <1>5. QED
    BY <1>1, <1>2, <1>3, <1>4 DEF Next

\* The write of a call is the abstract call; every other file operation leaves
\* the journal and who returned as they are.
LEMMA CallStep ==
  ASSUME IInv, ReturnedOnce, [Next]_vars
  PROVE  [Atomic!Next]_<<journal, committed>>
  <1>1. ASSUME NEW p \in Pid, Write(p) PROVE Atomic!LockedCall(p)
    <2>1. copy[p] = journal /\ p \notin committed
      BY <1>1 DEF Write, At, IInv, CopyIsFresh, ReturnedOnce
    <2>2. QED
      BY <1>1, <2>1 DEF Write, Atomic!LockedCall
  <1>2. CASE \E p \in Pid : Write(p)
    BY <1>1, <1>2 DEF Atomic!Next
  <1>3. CASE ~ \E p \in Pid : Write(p)
    <2>1. UNCHANGED <<journal, committed>>
      BY <1>3 DEF Next, Step, Tick, Call, Create, Stamp, Exists, Inspect, Unlink, Read, Abort,
                  Release, Crash, vars
    <2>2. QED
      BY <2>1
  <1>4. QED
    BY <1>2, <1>3

\* Under the same conditions as above a locked call is one atomic step, which is
\* how the executor uses it (journal.ts:79-104).
THEOREM LockedCallsAtomic ==
  ASSUME HeldBriefly, LoneSurvivor
  PROVE  Spec => CallsAtomic
  <1>1. Init => IInv /\ ReturnedOnce /\ Atomic!Init
    BY InvInit DEF Init, ReturnedOnce, Atomic!Init
  <1>2. IInv /\ ReturnedOnce /\ [Next]_vars => IInv' /\ ReturnedOnce'
    BY InvStep, ReturnedStep DEF IInv
  <1>3. IInv /\ ReturnedOnce /\ [Next]_vars => [Atomic!Next]_<<journal, committed>>
    BY CallStep
  <1>4. QED
    BY <1>1, <1>2, <1>3, PTL DEF Spec, CallsAtomic, Atomic!Spec
=============================================================================
