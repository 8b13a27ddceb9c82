---------------------------- MODULE MCJournalLock ----------------------------
(* Small instances of JournalLock; processes are alike.                      *)
EXTENDS JournalLock, TLC

PidSymmetry == Permutations(Pid)
=============================================================================
