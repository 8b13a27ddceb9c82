----------------------------- MODULE JournalLock -----------------------------
(***************************************************************************)
(* The lock file that serialises changes of the agent journal, and what a   *)
(* locked call does to the journal: acquire, release, read, write and       *)
(* locked of packages/sdk/src/node/journal.ts.  AgentExecutor takes one     *)
(* locked call for one step; here each file operation is a step, processes  *)
(* crash, and a lock left behind is taken over.                             *)
(*                                                                          *)
(* The lock file is created empty and stamped with pid and time by a second *)
(* call.  A process is its pid: it makes one locked call, which adds its    *)
(* own update to the journal, and never returns after a crash.  All         *)
(* processes run on one host.  The lock's age stands for the clock.         *)
(***************************************************************************)
EXTENDS Integers, FiniteSets

CONSTANTS
  Pid,
  StaleAge,      \* staleMs
  MaxAge,        \* bound: the age of a lock saturates here
  MaxCrash       \* bound on crashes

ASSUME LockAssumption ==
  StaleAge \in Nat \ {0} /\ MaxAge \in Nat /\ MaxCrash \in Nat

VARIABLES
  lock,          \* the lock file: NoFile, or who created it and its contents
  pc,
  journal,       \* the updates the journal file holds
  copy,          \* copy[p]: the journal as p read it under the lock
  committed,     \* history variable: the processes whose call returned normally
  dead           \* processes that crashed

vars == <<lock, pc, journal, copy, committed, dead>>

NoFile == [exists |-> FALSE]
File(p, stamped, age) == [exists |-> TRUE, creator |-> p, stamped |-> stamped, age |-> age]

TypeOK ==
  /\ \/ lock = NoFile
     \/ lock \in [exists : {TRUE}, creator : Pid, stamped : BOOLEAN, age : 0..MaxAge]
  /\ pc \in [Pid -> {"idle", "try", "stamp", "inspect", "unlink",
                     "read", "work", "release", "done"}]
  /\ journal \subseteq Pid /\ copy \in [Pid -> SUBSET Pid]
  /\ committed \subseteq Pid /\ dead \subseteq Pid

Init ==
  /\ lock = NoFile
  /\ pc = [p \in Pid |-> "idle"]
  /\ journal = {} /\ copy = [p \in Pid |-> {}]
  /\ committed = {} /\ dead = {}

At(p, here) == p \notin dead /\ pc[p] = here
Goto(p, there) == pc' = [pc EXCEPT ![p] = there]

-----------------------------------------------------------------------------
(* acquire.                                                                 *)

Call(p) ==
  /\ At(p, "idle") /\ Goto(p, "try")
  /\ UNCHANGED <<lock, journal, copy, committed, dead>>

\* Mutant: the lock file is opened for writing whether or not it exists.
Creatable_Always == TRUE

\* openSync(lockFile, 'wx') fails when the file exists.
Creatable == ~lock.exists

Create(p) ==
  /\ At(p, "try") /\ Creatable
  /\ lock' = File(p, FALSE, 0)
  /\ Goto(p, "stamp")
  /\ UNCHANGED <<journal, copy, committed, dead>>

\* pid and time are written through the descriptor: into the void, if the file
\* has been unlinked meanwhile.
Stamp(p) ==
  /\ At(p, "stamp")
  /\ lock' = IF lock.exists /\ lock.creator = p THEN File(p, TRUE, 0) ELSE lock
  /\ Goto(p, "read")
  /\ UNCHANGED <<journal, copy, committed, dead>>

Exists(p) ==
  /\ At(p, "try") /\ lock.exists
  /\ Goto(p, "inspect")
  /\ UNCHANGED <<lock, journal, copy, committed, dead>>

\* Mutant: the owner of an old lock is not looked for.
Stale_AgeOnly == lock.age > StaleAge

\* Mutant: an orphaned lock is only taken over at four times the age.
Stale_Late == lock.age > 4 * StaleAge

\* An old lock whose owner is gone is stale, and so is a much older one.
Stale ==
  \/ lock.age > StaleAge /\ lock.creator \in dead
  \/ lock.age > 4 * StaleAge

\* The file is read and judged; if it is gone or empty the contents do not
\* parse, which counts as held.  After the deadline the call fails.
Inspect(p) ==
  /\ At(p, "inspect")
  /\ IF lock.exists /\ lock.stamped /\ Stale
     THEN Goto(p, "unlink")
     ELSE \E next \in {"try", "idle"} : Goto(p, next)
  /\ UNCHANGED <<lock, journal, copy, committed, dead>>

\* Whatever file has the name now is removed.
Unlink(p) ==
  /\ At(p, "unlink")
  /\ lock' = NoFile
  /\ Goto(p, "try")
  /\ UNCHANGED <<journal, copy, committed, dead>>

-----------------------------------------------------------------------------
(* locked, release.                                                         *)

Read(p) ==
  /\ At(p, "read")
  /\ copy' = [copy EXCEPT ![p] = journal]
  /\ Goto(p, "work")
  /\ UNCHANGED <<lock, journal, committed, dead>>

\* fn returned: the whole file is replaced by one rename.
Write(p) ==
  /\ At(p, "work")
  /\ journal' = copy[p] \cup {p}
  /\ committed' = committed \cup {p}
  /\ Goto(p, "release")
  /\ UNCHANGED <<lock, copy, dead>>

\* fn threw: nothing is written.
Abort(p) ==
  /\ At(p, "work")
  /\ Goto(p, "release")
  /\ UNCHANGED <<lock, journal, copy, committed, dead>>

Release(p) ==
  /\ At(p, "release")
  /\ lock' = NoFile
  /\ copy' = [copy EXCEPT ![p] = {}]
  /\ Goto(p, "done")
  /\ UNCHANGED <<journal, committed, dead>>

-----------------------------------------------------------------------------
Crash(p) ==
  /\ p \notin dead /\ Cardinality(dead) < MaxCrash
  /\ dead' = dead \cup {p}
  /\ UNCHANGED <<lock, pc, journal, copy, committed>>

Tick ==
  /\ lock.exists /\ lock.stamped /\ lock.age < MaxAge
  /\ lock' = [lock EXCEPT !.age = @ + 1]
  /\ UNCHANGED <<pc, journal, copy, committed, dead>>

Step(p) ==
  \/ Call(p) \/ Create(p) \/ Stamp(p) \/ Exists(p) \/ Inspect(p) \/ Unlink(p)
  \/ Read(p) \/ Write(p) \/ Abort(p) \/ Release(p)

Next == Tick \/ \E p \in Pid : Step(p) \/ Crash(p)

Spec == Init /\ [][Next]_vars

\* A live process goes on, and calls again after a conflict; time passes.
FairSpec == Spec /\ WF_vars(Tick) /\ \A p \in Pid : WF_vars(Step(p))
-----------------------------------------------------------------------------
(* Properties.                                                              *)

Holding(p) == p \notin dead /\ pc[p] \in {"read", "work", "release"}

\* "Every change happens under an exclusive lock file" (journal.ts:9): no two
\* live processes are between acquire and release.
MutualExclusion == \A p, q \in Pid : Holding(p) /\ Holding(q) => p = q

\* The update of a call that returned normally is in the journal for ever: no
\* other call writes back a copy that was read before it.
NoLostUpdate == committed \subseteq journal

Atomic == INSTANCE AtomicJournal WITH returned <- committed

\* However many file operations the calls of several processes interleave, a
\* call that returns was one atomic update of the journal as it was at that
\* moment, made once (journal.ts:79-104).
CallsAtomic == Atomic!Spec

Orphaned(p) == lock.exists /\ lock.creator = p /\ p \in dead
Contended == \E p \in Pid \ dead : pc[p] # "done"

\* A stamped lock of a crashed process is taken over as long as some process
\* still wants the journal (the rule of journal.ts:55).  A lock whose creator
\* crashed before stamping it never is: its contents do not parse (line 70).
StampedLockRecovered ==
  \A p \in Pid : Orphaned(p) /\ lock.stamped /\ Contended ~> ~Orphaned(p)
=============================================================================
