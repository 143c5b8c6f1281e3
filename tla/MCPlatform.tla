------------------------------ MODULE MCPlatform ------------------------------
(***************************************************************************)
(* A small instance of Platform: one CR of a kind that is both exported    *)
(* and protected, one service, one host of its own and one by routing.     *)
(***************************************************************************)
EXTENDS Platform

CONSTANTS c1, k1, s1, p1, n1, path1, own, routed

OneKind         == [c \in Components |-> k1]
OneName         == [c \in Components |-> n1]
NamedByEndpoint == [e \in [svc : Services, port : Ports] |-> e]
SelectsAll      == [c \in Components |-> Services]
PlainHosts      == [t \in Texts |-> t]
RoutedHost      == [m \in R!AllRouteTypes |-> [e \in R!Endpoint |-> {routed}]]

(* The host of the CR's own is there, or not yet.                          *)
OwnHostComesLate ==
  {[auth |-> TRUE, path |-> f, fields |-> <<>>, labels |-> <<>>] :
     f \in {<<>>, [p \in HostPaths |-> {own}]}}

Nameless     == {<<>>}
DefaultLabel == [key |-> "authorization-group", value |-> "default"]

(* The service is there before the CR is.                                  *)
StableServices == svcPorts' = svcPorts \/ \A c \in Components : cr[c].inc = 0

(* Users write to the CR while routing is not at work on it: what their    *)
(* writes do to a routing reconcile under way is for MCRoutingController.  *)
UsersWait ==
  (\E c \in Components : User(c)) => \A w \in RoutingTargets : rrc[w].pc = "idle"

(* A host that was found stays: a status does not lose its URL.            *)
HostsStay == \A c \in Components : spec[c].path # <<>> => spec'[c] = spec[c]

SmallSpec == Init /\ [][Next /\ StableServices /\ UsersWait /\ HostsStay]_platformVars

(* With one CR, a worker that goes on also takes its requests: the strong  *)
(* fairness of Platform, which is about turns among several, is not needed.*)
WeakFairness ==
  /\ \A w \in RoutingTargets : WF_platformVars(RoutingStep(w))
  /\ \A w \in ProtectedResources :
       /\ WF_platformVars(AuthzStep(w))
       /\ WF_platformVars(\E k \in A!ChildKinds, n \in A!Names : Deliver(w, k, n))
  /\ WF_platformVars(\E k \in A!ChildKinds, n \in A!Names : Collect(k, n))

SmallFairSpec == SmallSpec /\ WeakFairness
===============================================================================
