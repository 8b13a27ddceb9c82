--------------------------- MODULE EventSettlement ---------------------------
(***************************************************************************)
(* What the resolver promises, without bonds, ballots or clocks: an event  *)
(* may be claimed once and countered once by a different outcome; it is    *)
(* then decided once, by silence, by consent or by ruling; and when every  *)
(* event is decided the vector of outcomes is published once.              *)
(***************************************************************************)
CONSTANT Event

Outcome == {"No", "Yes", "Void"}
Unset == "Unset"

VARIABLES claim, counter, outcome, published, yes, void

vars == <<claim, counter, outcome, published, yes, void>>

Init ==
  /\ claim = [e \in Event |-> Unset]
  /\ counter = [e \in Event |-> Unset]
  /\ outcome = [e \in Event |-> Unset]
  /\ published = FALSE /\ yes = {} /\ void = {}

MakeClaim(e, o) ==
  /\ claim[e] = Unset /\ outcome[e] = Unset
  /\ claim' = [claim EXCEPT ![e] = o]
  /\ UNCHANGED <<counter, outcome, published, yes, void>>

Counter(e, o) ==
  /\ claim[e] \notin {Unset, o} /\ counter[e] = Unset /\ outcome[e] = Unset
  /\ counter' = [counter EXCEPT ![e] = o]
  /\ UNCHANGED <<claim, outcome, published, yes, void>>

Decide(e, o) ==
  /\ outcome[e] = Unset
  /\ \/ claim[e] = Unset /\ o = "Void"
     \/ claim[e] = o /\ counter[e] = Unset
     \/ counter[e] # Unset
  /\ outcome' = [outcome EXCEPT ![e] = o]
  /\ UNCHANGED <<claim, counter, published, yes, void>>

Publish ==
  /\ ~published
  /\ \A e \in Event : outcome[e] # Unset
  /\ published' = TRUE
  /\ yes' = {e \in Event : outcome[e] = "Yes"}
  /\ void' = {e \in Event : outcome[e] = "Void"}
  /\ UNCHANGED <<claim, counter, outcome>>

Next ==
  \/ \E e \in Event, o \in Outcome : MakeClaim(e, o) \/ Counter(e, o) \/ Decide(e, o)
  \/ Publish

Spec == Init /\ [][Next]_vars
=============================================================================
