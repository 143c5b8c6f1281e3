---------------------------- MODULE MCRoutingDrift ----------------------------
(***************************************************************************)
(* A small instance of RoutingDrift.                                       *)
(***************************************************************************)
EXTENDS RoutingDrift

CONSTANTS c1, c2, s1, p1, w1

OneWorker       == [w \in Workers |-> Components]
NamedByEndpoint == [e \in Endpoint |-> e]

(* The services of c2 are not there: all that it does to c1 is to take     *)
(* away its resources.                                                     *)
OnlyOneExports  == [c \in Components |-> IF c = c1 THEN Services ELSE {}]

(* The services are there before any CR is, and stay as they are.          *)
StableDriftSpec ==
  DriftInit /\ [][DriftNext /\ (svcPorts' # svcPorts =>
                                  \A c \in Components : cr[c].inc = 0)]_driftVars
===============================================================================
