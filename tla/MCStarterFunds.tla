---------------------------- MODULE MCStarterFunds ----------------------------
(* StarterFunds on a small instance: a slow payment and a patient account.    *)
EXTENDS StarterFunds, TLC

StarterSymmetry == Permutations(Process) \cup Permutations(Account) \cup Permutations(Wallet)
=============================================================================
