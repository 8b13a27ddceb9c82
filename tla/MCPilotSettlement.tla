-------------------------- MODULE MCPilotSettlement --------------------------
(***************************************************************************)
(* Two events and one claim, NO of the first, of which one share can be     *)
(* bought, so that one event can be disputed and the other cannot; two      *)
(* accounts that trade, assert and dispute, and a panel of three.  Prices   *)
(* do not matter here: a trade costs its worst payout.                      *)
(***************************************************************************)
EXTENDS PilotSettlement, FiniteSetsExt, TLC

CONSTANTS ea, eb, r1, r2, r3, ann, bob

Claims == {[scope |-> {ea}, mask |-> {{}}]}
ObservationEnds == [e \in Event |-> 2]
WorstPayout(q) == Max({q[s] : s \in DOMAIN q}) + 1

AccountSymmetry == Permutations(Reviewer) \cup Permutations({ann, bob})
=============================================================================
