---------------------------- MODULE ExactlyOnce ----------------------------
(***************************************************************************)
(* What the event pipeline promises one consumer group: an event that was  *)
(* committed together with a business change is either applied once, or    *)
(* set aside in failed_events from where it may still be applied, and an   *)
(* applied event is never applied again, withdrawn or set aside.           *)
(***************************************************************************)
CONSTANT Events       \* the events the group acts upon

VARIABLE outcome      \* outcome[e]: what has become of event e

Outcomes == {"none", "due", "aside", "applied"}

TypeOK == outcome \in [Events -> Outcomes]

Init == outcome = [e \in Events |-> "none"]

Become(e, from, to) ==
  /\ outcome[e] \in from
  /\ outcome' = [outcome EXCEPT ![e] = to]

(* A business transaction commits with the event in its outbox.            *)
Emit(e) == Become(e, {"none"}, "due")

(* The handler's transaction commits, on delivery or on an operator's replay. *)
Apply(e) == Become(e, {"due", "aside"}, "applied")

(* The consumer gives up on the event and records that it did.             *)
SetAside(e) == Become(e, {"due"}, "aside")

Next == \E e \in Events : Emit(e) \/ Apply(e) \/ SetAside(e)

Spec == Init /\ [][Next]_outcome

(* A due event does not stay due.                                          *)
Settles == \A e \in Events : outcome[e] = "due" ~> outcome[e] \in {"aside", "applied"}
=============================================================================
