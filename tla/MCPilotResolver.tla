--------------------------- MODULE MCPilotResolver ---------------------------
(* Two events whose windows overlap, two public accounts and a panel of three. *)
EXTENDS PilotResolver, TLC

CONSTANTS e1, e2, r1, r2, r3, ann, bob

ObservationEnds == [e \in Event |-> IF e = e2 THEN 3 ELSE 2]

\* Reviewers are interchangeable, and so are the public accounts: no
\* definition of the specification tells one from another.
AccountSymmetry == Permutations(Reviewer) \cup Permutations({ann, bob})
=============================================================================
