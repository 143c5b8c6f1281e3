------------------------------- MODULE Platform -------------------------------
(***************************************************************************)
(* Both controllers over one API server, as main.go starts them: routing   *)
(* for the kinds in one configuration file, authorization for those in     *)
(* another.  They meet in the custom resources only.  What routing writes  *)
(* there (finalizer, addresses) is to authorization a write by somebody    *)
(* else, and the addresses are hosts to be protected.  Failures, crashes   *)
(* and other writers of children are left to the two modules.              *)
(***************************************************************************)
EXTENDS AuthTemplates, Naturals

CONSTANTS
  Components,          \* names of custom resources
  KindOf,              \* KindOf[c]: the kind of c
  RoutingTargets,      \* kinds with a routing controller
  ProtectedResources,  \* kinds with an authorization controller
  Services, Ports, Selects, PublicServiceName, ExportKeys,       \* see RoutingController
  HostPaths, Texts, Hosts, HostOf,                               \* see HostExtraction
  AddressesOf,         \* AddressesOf[m][e]: host texts of endpoint e in mode m
  ChildName, Specs,    \* Specs: what users put into CRs besides export modes
  Edited, NoSpec, NoOwner, NoComponent,
  MaxIncarnations

VARIABLES
  cr, svcPorts, res, rqueue, rrc, rfaults,         \* of RoutingController
  spec,                                            \* spec[c]: the rest of the CR
  child, seen, lag, fresh, aqueue, arc, afaults    \* of AuthzController

(* One controller per configured kind; it watches all objects of the kind. *)
Watching(kinds) == [k \in kinds |-> {c \in Components : KindOf[c] = k}]

R == INSTANCE RoutingController WITH
  Workers <- RoutingTargets, Handles <- Watching(RoutingTargets),
  MaxFaults <- 0, queue <- rqueue, rc <- rrc, faults <- rfaults

(* The addresses annotations, read as host texts.                          *)
Addresses(obj) ==
  UNION {UNION {AddressesOf[m][e] : e \in obj.addr[m]} : m \in R!AllRouteTypes}

Content(obj, s) ==
  [auth |-> s.auth, target |-> [path |-> s.path, addr |-> Addresses(obj)],
   fields |-> s.fields, labels |-> s.labels]

(* The CR as the authorization controller reads it.                        *)
Nothing == [auth |-> FALSE, target |-> [path |-> <<>>, addr |-> {}],
            fields |-> <<>>, labels |-> <<>>]

Protected(c) ==
  [phase   |-> cr[c].phase,
   inc     |-> cr[c].inc,
   content |-> IF cr[c].phase = "absent" THEN Nothing ELSE Content(cr[c], spec[c])]

Contents ==
  {Content([addr |-> a], s) : a \in [R!AllRouteTypes -> SUBSET R!Endpoint], s \in Specs}

A == INSTANCE AuthzController WITH
  Workers <- ProtectedResources, Handles <- Watching(ProtectedResources),
  MaxFaults <- 0, Edits <- {}, cr <- [c \in Components |-> Protected(c)],
  queue <- aqueue, rc <- arc, faults <- afaults

ASSUME PlatformAssumption ==
  /\ Selects \in [Components -> SUBSET Services]
  /\ DOMAIN PublicServiceName = R!Endpoint
  /\ AddressesOf \in [R!AllRouteTypes -> [R!Endpoint -> SUBSET Texts]]
  /\ HostOf \in [Texts -> Hosts]
  /\ DOMAIN ChildName = Components
  /\ Specs \subseteq [auth : BOOLEAN, path : UNION {[P -> SUBSET Texts] : P \in SUBSET HostPaths},
                      fields : Fields, labels : Labellings]
  /\ NoComponent \notin Components
  /\ NoOwner \notin [comp : Components, inc : Nat]
  /\ MaxIncarnations \in Nat

routingVars  == <<cr, svcPorts, res, rqueue, rrc, rfaults, spec>>
authzVars    == <<child, seen, lag, fresh, arc, afaults>>
restVars     == <<spec, authzVars>>
platformVars == <<routingVars, authzVars, aqueue>>

Init ==
  /\ R!Init
  /\ A!Init
  /\ spec \in [Components -> Specs]

(* The API server tells the watches of both controllers of every write.    *)
HearsUsersOnly(C) == aqueue                                         \* mutant
Hears(C)          == A!Notified(C)

Told == aqueue' = Hears({c \in Components : cr'[c] # cr[c]})

RoutingStep(w)     == UNCHANGED restVars /\ R!Step(w) /\ Told
RoutingFetch(w, c) == UNCHANGED restVars /\ R!Fetch(w, c) /\ Told

AuthzStep(w)     == UNCHANGED routingVars /\ A!Step(w)
AuthzFetch(w, c) == UNCHANGED routingVars /\ A!Fetch(w, c)
Deliver(w, k, n) == UNCHANGED routingVars /\ A!Sync(w, k, n)
Collect(k, n)    == UNCHANGED routingVars /\ A!Collect(k, n)

User(c) ==
  /\ UNCHANGED authzVars
  /\ \/ R!User(c)                /\ UNCHANGED spec
     \/ \E x \in Specs \ {spec[c]} :
          R!TouchCR(c)           /\ spec' = [spec EXCEPT ![c] = x]
  /\ aqueue' = A!Notified({c})

Next ==
  \/ \E w \in RoutingTargets : RoutingStep(w)
  \/ \E s \in Services : UNCHANGED restVars /\ R!ServiceOwner(s) /\ Told
  \/ \E w \in ProtectedResources : AuthzStep(w)
  \/ \E w \in ProtectedResources, k \in A!ChildKinds, n \in A!Names : Deliver(w, k, n)
  \/ \E k \in A!ChildKinds, n \in A!Names : Collect(k, n)
  \/ \E c \in Components : User(c)

Spec == Init /\ [][Next]_platformVars

(* As in the two modules.                                                  *)
Fairness ==
  /\ \A w \in RoutingTargets :
       /\ WF_platformVars(RoutingStep(w))
       /\ \A c \in Components : SF_platformVars(RoutingFetch(w, c))
  /\ \A w \in ProtectedResources :
       /\ WF_platformVars(AuthzStep(w))
       /\ \A c \in Components : SF_platformVars(AuthzFetch(w, c))
       /\ \A k \in A!ChildKinds, n \in A!Names : WF_platformVars(Deliver(w, k, n))
  /\ \A k \in A!ChildKinds, n \in A!Names : WF_platformVars(Collect(k, n))

FairSpec == Spec /\ Fairness

-------------------------------------------------------------------------------
HostsOf(m, E) == {HostOf[t] : t \in UNION {AddressesOf[m][e] : e \in E}}

(* Nobody else writes AuthConfigs here: one that is there has hosts.        *)
GuardedHosts(c) ==
  LET x == A!ChildOf("AuthConfig", c)
  IN IF x.present THEN {x.spec.hosts[i] : i \in DOMAIN x.spec.hosts} ELSE {}

(* What the authorization controller does in this company is what it does  *)
(* among users: every write of the routing controller is one that          *)
(* AuthzController foresees, and its watch is told.  The properties        *)
(* checked and proved there hold here.                                     *)
AuthzAmongUsers == A!Spec

(* When both controllers are done with a live CR of a protected kind,      *)
(* every route that leads to it is protected: the hosts of all its routing *)
(* resources are in its AuthConfig.                                        *)
RoutesGuarded ==
  \A c \in Components :
    /\ cr[c].phase = "live"
    /\ KindOf[c] \in ProtectedResources
    /\ R!Settled(c) /\ A!Settled(c)
    => \A r \in R!Owned(c) : HostsOf(r.type, {r.backend}) \subseteq GuardedHosts(c)

(* When both controllers are done with a live CR, every address that is    *)
(* written on it leads somewhere, and its host is in the AuthConfig:       *)
(* routing made the resources before it wrote the address                  *)
(* (reconcile_resources.go:100), and its write is what tells authorization *)
(* to read the addresses (authzctrl/controller.go:43).                     *)
AddressesGuarded ==
  \A c \in Components :
    /\ cr[c].phase = "live"
    /\ KindOf[c] \in ProtectedResources
    /\ R!Settled(c) /\ A!Settled(c)
    => /\ R!Served(c)
       /\ \A m \in R!AllRouteTypes : HostsOf(m, cr[c].addr[m]) \subseteq GuardedHosts(c)

(* Switching on an export mode ends, through both controllers, with an     *)
(* AuthConfig that lists the new hosts, unless users keep writing or the   *)
(* hosts that the CR itself names cannot be found.                         *)
EventuallyGuarded ==
  \A c \in Components :
    \/ []<><<User(c)>>_platformVars
    \/ []<>(cr[c].phase # "live" \/ R!Exported(c) = {}
              \/ ~A!Extractable(Protected(c).content))
    \/ <>[](\A m \in R!EnabledModes(c) : HostsOf(m, R!Exported(c)) \subseteq GuardedHosts(c))

(* Deleting a CR with an enabled mode ends with the CR, the routes of its  *)
(* modes and its AuthConfig and policy all gone: routing lets it go, and   *)
(* then the garbage collector takes what authorization made.               *)
EventuallyGone ==
  \A c \in Components :
    \/ []<><<User(c)>>_platformVars
    \/ []<>(cr[c].phase = "live" \/ R!EnabledModes(c) = {})
    \/ <>[](/\ cr[c].phase = "absent"
            /\ \A r \in R!Owned(c) : r.type \notin R!EnabledModes(c)
            /\ \A k \in A!ChildKinds : ~A!ChildOf(k, c).present)
===============================================================================
