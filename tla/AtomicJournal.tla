---------------------------- MODULE AtomicJournal ----------------------------
(***************************************************************************)
(* What locked promises its caller: a call that returns has read the journal *)
(* and written its update in one step, once.  AgentExecutor takes its locked *)
(* calls for such steps.                                                     *)
(***************************************************************************)
CONSTANT Pid

VARIABLES journal, returned

Init == journal = {} /\ returned = {}

LockedCall(p) ==
  /\ p \notin returned
  /\ journal' = journal \cup {p} /\ returned' = returned \cup {p}

Next == \E p \in Pid : LockedCall(p)

Spec == Init /\ [][Next]_<<journal, returned>>
=============================================================================
