---------------------------- MODULE AtLeastOnce ----------------------------
(***************************************************************************)
(* What the outbox promises its callers (src/messaging): an event handed   *)
(* over is kept, its handler's effect is committed some number of times,   *)
(* and it is acknowledged (processedAtUtc) only after the effect has been  *)
(* committed at least once.  An acknowledgement is never withdrawn.        *)
(* Nothing is said of how often the effect is committed: Outbox refines    *)
(* this specification and states its own bound.                            *)
(***************************************************************************)
EXTENDS Naturals

CONSTANT Messages       \* the events that may be handed over

VARIABLES
  submitted,            \* events handed over
  effects,              \* how often each event's effect was committed
  acknowledged          \* events marked as done

vars == <<submitted, effects, acknowledged>>

Init ==
  /\ submitted = {}
  /\ effects = [m \in Messages |-> 0]
  /\ acknowledged = {}

Submit(m) ==
  /\ m \notin submitted
  /\ submitted' = submitted \cup {m}
  /\ UNCHANGED <<effects, acknowledged>>

Effect(m) ==
  /\ m \in submitted
  /\ effects' = [effects EXCEPT ![m] = @ + 1]
  /\ UNCHANGED <<submitted, acknowledged>>

Acknowledge(m) ==
  /\ effects[m] > 0
  /\ acknowledged' = acknowledged \cup {m}
  /\ UNCHANGED <<submitted, effects>>

Next == \E m \in Messages : Submit(m) \/ Effect(m) \/ Acknowledge(m)

Spec == Init /\ [][Next]_vars
=============================================================================
