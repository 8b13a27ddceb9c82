--------------------------- MODULE MCAgentExecutor ---------------------------
(* Small instances of AgentExecutor.  Processes are alike, and so are the    *)
(* journal entries that have not been made yet.                              *)
EXTENDS AgentExecutor, TLC

ExecutorSymmetry == Permutations(Proc) \cup Permutations(Entry)
=============================================================================
