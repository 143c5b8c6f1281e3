--------------------------- MODULE FinalizerProtocol ---------------------------
(***************************************************************************)
(* What the routing controller promises to one custom resource, whatever   *)
(* calls it takes: the resources made for an object live elsewhere and do  *)
(* not go with it, so the object is held by a finalizer from before the    *)
(* first of them is made until those it still wants have been removed.     *)
(***************************************************************************)
CONSTANT RouteModes

VARIABLES
  phase,      \* "absent", "live" or "terminating"
  finalizer,  \* the object carries the finalizer
  wanted,     \* modes enabled on the object, or enabled when it went
  owned       \* modes of which the object has resources

vars == <<phase, finalizer, wanted, owned>>

Init ==
  /\ phase = "absent"
  /\ finalizer = FALSE
  /\ wanted = {}
  /\ owned = {}

(* What earlier objects of the name left behind is not the new one's.      *)
Create ==
  /\ phase = "absent"
  /\ phase' = "live"
  /\ finalizer' = FALSE
  /\ wanted' \in SUBSET RouteModes
  /\ owned' = {}

Want ==
  /\ phase # "absent"
  /\ wanted' \in SUBSET RouteModes
  /\ UNCHANGED <<phase, finalizer, owned>>

Hold ==
  /\ phase = "live"
  /\ finalizer' = TRUE
  /\ UNCHANGED <<phase, wanted, owned>>

Acquire ==
  /\ finalizer
  /\ \E m \in RouteModes : owned' = owned \cup {m}
  /\ UNCHANGED <<phase, finalizer, wanted>>

(* Also what is left of an object that is gone, once it is another's.       *)
Discard ==
  /\ owned' \in SUBSET owned
  /\ UNCHANGED <<phase, finalizer, wanted>>

Delete ==
  /\ phase = "live"
  /\ phase' = IF finalizer THEN "terminating" ELSE "absent"
  /\ UNCHANGED <<finalizer, wanted, owned>>

Release ==
  /\ phase = "terminating"
  /\ owned \cap wanted = {}
  /\ phase' = "absent"
  /\ finalizer' = FALSE
  /\ UNCHANGED <<wanted, owned>>

Next == Create \/ Want \/ Hold \/ Acquire \/ Discard \/ Delete \/ Release

Spec == Init /\ [][Next]_vars
===============================================================================
