-------------------------- MODULE MCEventDelivery --------------------------
(* Small instances of EventDelivery for TLC.                               *)
EXTENDS EventDelivery, TLC

(* Relays are interchangeable, and so are the members of the group.        *)
Interchangeable == Permutations(Relays) \union Permutations(Consumers)
=============================================================================
