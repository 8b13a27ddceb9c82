-------------------------------- MODULE Sums --------------------------------
(***************************************************************************)
(* Sums of integer functions over finite sets: the shares of all traders,   *)
(* the payout of all tables, the cost of all reservations.                  *)
(***************************************************************************)
EXTENDS Integers, FiniteSets, FiniteSetsExt

Sum(f, S) == MapThenSumSet(LAMBDA x : f[x], S)
=============================================================================
