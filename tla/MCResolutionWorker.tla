-------------------------- MODULE MCResolutionWorker --------------------------
(* One event, two runners of the worker, one member of the public and the    *)
(* panel of three.                                                           *)
EXTENDS ResolutionWorker

CONSTANTS e1, r1, r2, r3, ann, bot

ObservationEnds == [e \in Event |-> 2]
=============================================================================
