-------------------------- MODULE MCNotifications --------------------------
(* Notifications with model values for users and workers. *)
EXTENDS Notifications

CONSTANTS u1, u2, u3, w1, w2

(* u3 does not want to hear of rumours. *)
SomeOptOuts == [t \in Types |-> IF t = "rumour" THEN {u3} ELSE {}]
=============================================================================
