-------------------------- MODULE MCRoutingController --------------------------
(***************************************************************************)
(* Small instances of RoutingController.                                   *)
(***************************************************************************)
EXTENDS RoutingController

CONSTANTS c1, c2, s1, s2, p1, w1, w2

(* Every worker reconciles everything: one worker is one manager with one  *)
(* watched kind, two are two managers that overlap.                        *)
Everything == [w \in Workers |-> Components]

(* svc-port-ns as the name: endpoints are named injectively here.          *)
NamedByEndpoint == [e \in Endpoint |-> e]

SelectsAll == [c \in Components |-> Services]

(* The services are there before any CR is, and stay as they are.          *)
StableSpec ==
  Init /\ [][Next /\ (svcPorts' # svcPorts => \A c \in Components : cr[c].inc = 0)]_vars

(* Two managers at work, while users and the owners of services write as   *)
(* long as one of the two has nothing in hand.  With one component, a      *)
(* worker that goes on also takes its requests: the strong fairness of     *)
(* Fairness, which is about turns among several, is not needed.            *)
TwoManagers ==
  /\ Init
  /\ [][\/ \E w \in Workers : Step(w)
        \/ /\ \E w \in Workers : rc[w].pc = "idle"
           /\ \/ \E c \in Components : User(c)
              \/ \E s \in Services : ServiceOwner(s)]_vars
  /\ \A w \in Workers : WF_vars(Step(w))
===============================================================================
