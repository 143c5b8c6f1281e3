--------------------------- MODULE RoutingController ---------------------------
(***************************************************************************)
(* The routing controller (controllers/routingctrl): every call that       *)
(* Reconcile makes to the API server is one action, so that users, other   *)
(* controllers, a second manager and crashes interleave between the calls. *)
(*                                                                         *)
(* A component is the namespaced name of a watched custom resource (CR).   *)
(* Its incarnations (the objects that had this name, one UID each) are     *)
(* numbered.  A routing resource lives in the gateway namespace and is     *)
(* tied to its CR by labels only.  resourceVersion is abstracted to one    *)
(* bit per reconcile in flight, "fresh": the CR has not been written since *)
(* this reconcile got its copy.                                            *)
(***************************************************************************)
EXTENDS RouteTypes, Naturals

CONSTANTS
  Components,        \* names of watched CRs
  Workers,           \* running reconcile loops (one per manager and watched kind)
  Handles,           \* Handles[w]: the components worker w reconciles
  Services, Ports,   \* services that may be exported, and port names
  Selects,           \* Selects[c]: services matching the rendered ServiceSelector of c
  PublicServiceName, \* name given to an endpoint in the gateway namespace
  ExportKeys,        \* export-mode annotation keys that users set
  NoComponent,       \* the component of an idle worker
  MaxIncarnations,   \* bound: objects created per name
  MaxFaults          \* bound: failed API calls and crashes

Endpoint == [svc : Services, port : Ports]
Service  == [name : Services, ports : SUBSET Ports]
Uid      == [comp : Components, inc : Nat]

ASSUME ConstantsAssumption ==
  /\ Handles \in [Workers -> SUBSET Components]
  /\ Selects \in [Components -> SUBSET Services]
  /\ DOMAIN PublicServiceName = Endpoint
  /\ NoComponent \notin Components
  /\ MaxIncarnations \in Nat
  /\ MaxFaults \in Nat

VARIABLES
  cr,        \* the CR stored under each name
  svcPorts,  \* ports of each service that the service cache shows, possibly none
  res,       \* routing resources in the gateway namespace
  queue,     \* queue[w]: the workqueue of worker w
  rc,        \* rc[w]: the reconcile worker w is executing
  faults     \* failed calls and crashes so far

vars == <<cr, svcPorts, res, queue, rc, faults>>

Phases == {"absent", "live", "terminating"}

NoAddresses == [m \in AllRouteTypes |-> {}]

Object == [phase : Phases, inc : Nat, exports : SUBSET ExportKeys,
           finalizer : BOOLEAN, addr : [AllRouteTypes -> SUBSET Endpoint]]

NoObject == [phase |-> "absent", inc |-> 0, exports |-> {},
             finalizer |-> FALSE, addr |-> NoAddresses]

ServiceCache == UNION {[S -> SUBSET Ports] : S \in SUBSET Services}

(* mode: the template the resource comes from; with kind and name it       *)
(* identifies the resource (the templates suffix the names per mode).      *)
(* owner and type are its labels, backend is where its spec routes to.     *)
Resource == [mode : AllRouteTypes, kind : Kinds,
             name : {PublicServiceName[e] : e \in Endpoint},
             owner : Uid, type : AllRouteTypes, backend : Endpoint]

Item  == [mode : AllRouteTypes, kind : Kinds, backend : Endpoint]
Batch == [mode : AllRouteTypes, backend : Endpoint]

PCs == {"idle", "finalizer", "finalizerSend", "prune", "create", "services",
        "batches", "applyGet", "applyWrite", "patch", "patchSend",
        "cleanup", "unfinalize"}

Idle == [pc |-> "idle", comp |-> NoComponent, tgt |-> NoObject,
         fresh |-> FALSE, err |-> FALSE, kinds |-> {}, pending |-> {},
         exporting |-> {}, batches |-> {}, items |-> <<>>, found |-> FALSE,
         diff |-> {}]

Reconcile ==
  [pc : PCs,
   comp : Components \cup {NoComponent}, \* req.NamespacedName
   tgt : Object,                         \* sourceRes, the local copy of the CR
   fresh : BOOLEAN,                      \* tgt has the resourceVersion of the CR
   err : BOOLEAN,                        \* errs holds an error
   kinds : SUBSET Kinds,                 \* kinds DeleteAllOf is still to be sent for
   pending : SUBSET Service,             \* listed services not yet exported
   exporting : SUBSET Endpoint,          \* the service being exported
   batches : SUBSET Batch,               \* its (port, mode) pairs not yet applied
   items : Seq(Item),                    \* rendered resources not yet applied
   found : BOOLEAN,                      \* Apply's Get found the resource
   diff : SUBSET AllRouteTypes]          \* address annotations in the merge patch

Init ==
  /\ cr = [c \in Components |-> NoObject]
  /\ svcPorts = [s \in {} |-> {}]
  /\ res = {}
  /\ queue = [w \in Workers |-> {}]
  /\ rc = [w \in Workers |-> Idle]
  /\ faults = 0

-------------------------------------------------------------------------------
(* Watches, the workqueue and the ends of a reconcile.                     *)

Modes(t)   == extractExportModes(t.tgt.exports)
UidOf(t)   == [comp |-> t.comp, inc |-> t.tgt.inc]
Identity(r) == [mode |-> r.mode, kind |-> r.kind, name |-> r.name]

(* The watch on c fires; a workqueue holds a name at most once.            *)
Notified(c) ==
  [w \in Workers |-> IF c \in Handles[w] THEN queue[w] \cup {c} ELSE queue[w]]

(* c gets a new resourceVersion: the copies held in flight become stale.   *)
Invalidated(c) ==
  [w \in Workers |-> IF rc[w].comp = c THEN [rc[w] EXCEPT !.fresh = FALSE]
                                       ELSE rc[w]]

Advance(w, t) == rc' = [rc EXCEPT ![w] = t]

(* An error returned by Reconcile puts the request back, rate limited.     *)
DropsRequest(w) == Advance(w, Idle) /\ UNCHANGED queue              \* mutant
ResetsFirst(w) ==                                                   \* mutant
  Advance(w, Idle) /\ queue' = [queue EXCEPT ![w] = @ \cup {rc'[w].comp}]
ReturnError(w) ==
  /\ Advance(w, Idle)
  /\ queue' = [queue EXCEPT ![w] = @ \cup {rc[w].comp}]

(* errs = append(errs, err): Reconcile goes on and returns the error last. *)
ForgetsError(t) == t                                               \* mutant
RecordError(t)  == [t EXCEPT !.err = TRUE]

(* What the code does when the call it is waiting for fails.               *)
OnError(w) ==
  LET t == rc[w] IN
  \/ /\ t.pc \in {"finalizer", "finalizerSend", "cleanup", "unfinalize",
                  "patch", "patchSend"}
     /\ ReturnError(w)
  \/ /\ t.pc = "prune"
     /\ Advance(w, RecordError([t EXCEPT !.pc = "create", !.kinds = {}]))
     /\ UNCHANGED queue
  \/ /\ t.pc = "create"
     /\ Advance(w, RecordError([t EXCEPT !.pc = "patch"]))
     /\ UNCHANGED queue
  \/ /\ t.pc \in {"applyGet", "applyWrite"}
     /\ Advance(w, RecordError([t EXCEPT !.pc = "services", !.exporting = {},
                                         !.batches = {}, !.items = <<>>,
                                         !.found = FALSE]))
     /\ UNCHANGED queue

Fault == faults < MaxFaults /\ faults' = faults + 1

(* A write took effect: its reply arrives and the code goes on with t, or  *)
(* the reply is lost and the code sees an error.                           *)
Reply(w, t) ==
  \/ Advance(w, t) /\ UNCHANGED <<queue, faults>>
  \/ Fault /\ OnError(w)

(* A call fails without effect.                                            *)
ApiError(w) ==
  /\ Fault
  /\ OnError(w)
  /\ UNCHANGED <<cr, svcPorts, res>>

(* The manager restarts: the initial list enqueues every existing CR.      *)
Crash(w) ==
  /\ Fault
  /\ Advance(w, Idle)
  /\ queue' = [queue EXCEPT ![w] = {c \in Handles[w] : cr[c].phase # "absent"}]
  /\ UNCHANGED <<cr, svcPorts, res>>

(* Worker w writes obj to its CR and goes on with t; if the reply is lost  *)
(* Reconcile returns the error.  retry: it returns an error either way.    *)
WriteCR(w, obj, t, retry) ==
  LET c == rc[w].comp
      changed == obj # cr[c]
      notified == IF changed THEN Notified(c) ELSE queue
      stale == IF changed THEN Invalidated(c) ELSE rc
  IN /\ cr' = [cr EXCEPT ![c] = obj]
     /\ \E lost \in BOOLEAN :
          /\ IF lost THEN Fault ELSE UNCHANGED faults
          /\ rc' = [stale EXCEPT ![w] = IF lost THEN Idle ELSE t]
          /\ queue' = [notified EXCEPT ![w] = IF lost \/ retry THEN @ \cup {c} ELSE @]

-------------------------------------------------------------------------------
(* Reconcile and its two sub-reconcilers.                                  *)

EnterPrune(t) ==
  LET kinds == routingResourceGVKs(UnusedRouteTypes(Modes(t)))
  IN [t EXCEPT !.pc = IF kinds = {} THEN "create" ELSE "prune", !.kinds = kinds]

(* The finalizer is added to the local copy first.                         *)
NoFinalizer(t) == EnterPrune(t)                                    \* mutant
ensureResourceHasFinalizer(t) ==
  IF t.tgt.finalizer THEN EnterPrune(t)
  ELSE [t EXCEPT !.pc = "finalizer", !.tgt.finalizer = TRUE]

NeverMarked(obj)         == FALSE                                  \* mutant
IsMarkedForDeletion(obj) == obj.phase = "terminating"

(* Reconcile takes a request and gets the CR.                              *)
Fetch(w, c) ==
  LET t == [Idle EXCEPT !.comp = c, !.tgt = cr[c], !.fresh = TRUE] IN
  /\ rc[w].pc = "idle"
  /\ c \in queue[w]
  /\ queue' = [queue EXCEPT ![w] = @ \ {c}]
  /\ \/ /\ cr[c].phase = "absent"
        /\ UNCHANGED rc
     \/ /\ IsMarkedForDeletion(cr[c])
        /\ Modes(t) = {}              \* "skipping deletion logic"
        /\ UNCHANGED rc
     \/ /\ IsMarkedForDeletion(cr[c])
        /\ Modes(t) # {}
        /\ Advance(w, [t EXCEPT !.pc = "cleanup",
                                !.kinds = routingResourceGVKs(Modes(t))])
     \/ /\ cr[c].phase # "absent"
        /\ ~IsMarkedForDeletion(cr[c])
        /\ Advance(w, ensureResourceHasFinalizer(t))
  /\ UNCHANGED <<cr, svcPorts, res, faults>>

(* The server refuses a write that carries an outdated resourceVersion.    *)
Conflict(t) == ~t.fresh

(* unstruct.Patch reads the CR again and diffs it with the local copy.  If *)
(* the CR was written since, the diff carries the old resourceVersion and  *)
(* the server answers Conflict; the local copy stays as it is, so every    *)
(* attempt of RetryOnConflict ends the same way and Patch fails.           *)
PatchGet(w) ==
  LET t == rc[w]
      stored == cr[t.comp]
  IN /\ t.pc \in {"finalizer", "patch"}
     /\ \/ /\ Conflict(t)
           /\ ReturnError(w)
        \/ /\ ~Conflict(t)
           /\ Advance(w, [t EXCEPT
                !.pc = IF t.pc = "finalizer" THEN "finalizerSend" ELSE "patchSend",
                !.diff = {m \in AllRouteTypes : t.tgt.addr[m] # stored.addr[m]}])
           /\ UNCHANGED queue
     /\ UNCHANGED <<cr, svcPorts, res, faults>>

(* The merge patch names no resourceVersion: it is applied to whatever has *)
(* the name now, and the reply replaces the local copy.                    *)
PatchSend(w) ==
  LET t == rc[w]
      stored == cr[t.comp]
      obj == [stored EXCEPT
                !.finalizer = IF t.pc = "finalizerSend" THEN TRUE ELSE @,
                !.addr = [m \in AllRouteTypes |->
                            IF m \in t.diff THEN t.tgt.addr[m] ELSE @[m]]]
  IN /\ t.pc \in {"finalizerSend", "patchSend"}
     /\ \/ /\ stored.phase = "absent"
           /\ ReturnError(w)
           /\ UNCHANGED <<cr, faults>>
        \/ /\ stored.phase # "absent"
           /\ t.pc = "finalizerSend"
           /\ WriteCR(w, obj, EnterPrune([t EXCEPT !.tgt = obj, !.fresh = TRUE,
                                                   !.diff = {}]), FALSE)
        \/ /\ stored.phase # "absent"
           /\ t.pc = "patchSend"
           /\ WriteCR(w, obj, Idle, t.err)
     /\ UNCHANGED <<svcPorts, res>>

(* DeleteAllOf gets the labels of the owner as MatchingLabels and then the *)
(* export types, the unused ones when pruning, the enabled ones when the   *)
(* CR is deleted, as MatchingLabelsSelector.  In controller-runtime        *)
(* v0.17.5 (go.mod) the latter replaces what earlier options have selected,*)
(* so that the owner does not count.                                       *)
EnabledTypes(t)     == Modes(t)                                    \* mutant
SelectedTypes(t)    ==
  IF t.pc = "prune" THEN UnusedRouteTypes(Modes(t)) ELSE Modes(t)

Selected(t, kind) == {r \in res : r.kind = kind /\ r.type \in SelectedTypes(t)}

(* One DeleteAllOf per kind, in map order.                                 *)
DeleteAllOf(w, kind, selected) ==
  LET t == rc[w]
      done == IF t.pc = "prune" THEN "create" ELSE "unfinalize"
  IN /\ t.pc \in {"prune", "cleanup"}
     /\ kind \in t.kinds
     /\ res' = res \ selected
     /\ Reply(w, [t EXCEPT !.pc = IF t.kinds = {kind} THEN done ELSE @,
                           !.kinds = @ \ {kind}])
     /\ UNCHANGED <<cr, svcPorts>>

deleteOwnedResources(w, kind) == DeleteAllOf(w, kind, Selected(rc[w], kind))

(* Update carries the resourceVersion.  Without its last finalizer the     *)
(* object goes; inc and exports of what was stored last are kept so that   *)
(* properties can speak of it.                                             *)
Gone(obj) == [NoObject EXCEPT !.inc = obj.inc, !.exports = obj.exports]

removeFinalizer(w) ==
  LET t == rc[w] IN
  /\ t.pc = "unfinalize"
  /\ \/ /\ Conflict(t)
        /\ ReturnError(w)
        /\ UNCHANGED <<cr, faults>>
     \/ /\ ~Conflict(t)
        /\ WriteCR(w, Gone(cr[t.comp]), Idle, FALSE)
  /\ UNCHANGED <<svcPorts, res>>

Endpoints(s) == {[svc |-> s.name, port |-> p] : p \in s.ports}

(* What List finds for c: a service counts, whether it has ports or not.   *)
Listed(c) == {[name |-> s, ports |-> svcPorts[s]] : s \in Selects[c] \cap DOMAIN svcPorts}

Exported(c) == UNION {Endpoints(s) : s \in Listed(c)}

(* No export mode: all addresses leave the local copy.                     *)
KeepsAddresses(t) == [t EXCEPT !.pc = "patch"]                      \* mutant
NoneExported(t)   == [t EXCEPT !.pc = "patch", !.tgt.addr = NoAddresses]

(* createRoutingResources up to the loop over the services.  A missing     *)
(* service is an error like any other: errors.Is compares pointers here,   *)
(* so neither the retries nor "return nil" are ever taken.                 *)
ListServices(w) ==
  LET t == rc[w] IN
  /\ t.pc = "create"
  /\ \/ /\ Modes(t) = {}
        /\ Advance(w, NoneExported(t))
     \/ /\ Modes(t) # {}
        /\ Listed(t.comp) = {}
        /\ Advance(w, RecordError([t EXCEPT !.pc = "patch"]))
     \/ /\ Modes(t) # {}
        /\ Listed(t.comp) # {}
        /\ Advance(w, [t EXCEPT !.pc = "services", !.pending = Listed(t.comp)])
  /\ UNCHANGED <<cr, svcPorts, res, queue, faults>>

(* exportService: every enabled mode for every port of one service.  (The  *)
(* code takes the ports one after the other; the names differ, so that the *)
(* order does not matter.)  A service without ports is through at once.     *)
Exporting(t, s) ==
  [t EXCEPT !.pc = "batches", !.pending = @ \ {s}, !.exporting = Endpoints(s),
            !.batches = {[mode |-> m, backend |-> e] : m \in Modes(t), e \in Endpoints(s)}]

(* The loop over the services, in the order of the cached list (any).      *)
ExportNext(w) ==
  LET t == rc[w] IN
  /\ t.pc = "services"
  /\ \/ /\ t.pending = {}
        /\ Advance(w, [t EXCEPT !.pc = "patch"])
     \/ \E s \in t.pending : Advance(w, Exporting(t, s))
  /\ UNCHANGED <<cr, svcPorts, res, queue, faults>>

(* exportService loads the template of one mode for one port.              *)
LoadBatch(w, b) ==
  LET t == rc[w]
      kinds == Load(b.mode)
  IN /\ t.pc = "batches"
     /\ b \in t.batches
     /\ Advance(w, [t EXCEPT
          !.pc = "applyGet", !.batches = @ \ {b},
          !.items = [i \in DOMAIN kinds |->
                       [mode |-> b.mode, kind |-> kinds[i], backend |-> b.backend]]])
     /\ UNCHANGED <<cr, svcPorts, res, queue, faults>>

(* labels.ExportType is appended anew for every mode.                      *)
ExportType(t, item)         == item.mode

Rendered(t) ==
  LET item == Head(t.items)
  IN [mode |-> item.mode, kind |-> item.kind, name |-> PublicServiceName[item.backend],
      owner |-> UidOf(t), type |-> ExportType(t, item), backend |-> item.backend]

Occupants(t) == {r \in res : Identity(r) = Identity(Rendered(t))}

(* Create found the name taken, and AlreadyExists is no error; or else the *)
(* resource is created or applied with force: the server takes every field *)
(* and creates what has gone since the Get.                                *)
OnlyCreates(t) == Occupants(t) = {}                                 \* mutant
Writes(t)      == t.found \/ Occupants(t) = {}

(* unstruct.Apply looks each rendered resource up ...                      *)
ApplyGet(w) ==
  LET t == rc[w] IN
  /\ t.pc = "applyGet"
  /\ Advance(w, [t EXCEPT !.pc = "applyWrite", !.found = Occupants(t) # {}])
  /\ UNCHANGED <<cr, svcPorts, res, queue, faults>>

(* ... and creates or patches it.                                          *)
ApplyWrite(w) ==
  LET t == rc[w] IN
  /\ t.pc = "applyWrite"
  /\ \/ /\ ~Writes(t)
        /\ UNCHANGED res
     \/ /\ Writes(t)
        /\ res' = (res \ Occupants(t)) \cup {Rendered(t)}
  /\ Reply(w, [t EXCEPT !.pc = IF Len(t.items) = 1 THEN "batches" ELSE "applyGet",
                        !.items = Tail(@), !.found = FALSE])
  /\ UNCHANGED <<cr, svcPorts>>

KeepsDisabled(t) == [m \in AllRouteTypes |->                        \* mutant
  IF m \in Modes(t) THEN t.exporting ELSE t.tgt.addr[m]]
Addresses(t) == [m \in AllRouteTypes |-> IF m \in Modes(t) THEN t.exporting ELSE {}]

(* Every port and mode applied: the addresses in the local copy become     *)
(* those of this service, whatever an earlier service put there, and none  *)
(* if it has no ports.                                                     *)
propagateHostsToWatchedCR(w) ==
  LET t == rc[w] IN
  /\ t.pc = "batches"
  /\ t.batches = {}
  /\ Advance(w, [t EXCEPT !.pc = "services", !.exporting = {},
                          !.tgt.addr = Addresses(t)])
  /\ UNCHANGED <<cr, svcPorts, res, queue, faults>>

-------------------------------------------------------------------------------
(* Users and other controllers.                                            *)

UserWrite(c, obj) ==
  /\ cr' = [cr EXCEPT ![c] = obj]
  /\ rc' = Invalidated(c)
  /\ queue' = Notified(c)
  /\ UNCHANGED <<svcPorts, res, faults>>

CreateCR(c, exports) ==
  /\ cr[c].phase = "absent"
  /\ cr[c].inc < MaxIncarnations
  /\ UserWrite(c, [NoObject EXCEPT !.phase = "live", !.inc = cr[c].inc + 1,
                                   !.exports = exports])

SetExportModes(c, exports) ==
  /\ cr[c].phase # "absent"
  /\ exports # cr[c].exports
  /\ UserWrite(c, [cr[c] EXCEPT !.exports = exports])

(* Any write that the routing controller does not look at (status, spec).  *)
TouchCR(c) ==
  /\ cr[c].phase # "absent"
  /\ UserWrite(c, cr[c])

DeleteCR(c) ==
  /\ cr[c].phase = "live"
  /\ UserWrite(c, IF cr[c].finalizer THEN [cr[c] EXCEPT !.phase = "terminating"]
                                     ELSE Gone(cr[c]))

(* Nothing watches services: the queue does not change.                    *)
ChangeService(s, ports) ==
  /\ s \in DOMAIN svcPorts => ports # svcPorts[s]
  /\ svcPorts' = [t \in DOMAIN svcPorts \cup {s} |-> IF t = s THEN ports ELSE svcPorts[t]]
  /\ UNCHANGED <<cr, res, queue, rc, faults>>

RemoveService(s) ==
  /\ s \in DOMAIN svcPorts
  /\ svcPorts' = [t \in DOMAIN svcPorts \ {s} |-> svcPorts[t]]
  /\ UNCHANGED <<cr, res, queue, rc, faults>>

-------------------------------------------------------------------------------
Step(w) ==
  \/ \E c \in Components : Fetch(w, c)
  \/ PatchGet(w)
  \/ PatchSend(w)
  \/ \E k \in Kinds : deleteOwnedResources(w, k)
  \/ removeFinalizer(w)
  \/ ListServices(w)
  \/ ExportNext(w)
  \/ \E b \in rc[w].batches : LoadBatch(w, b)
  \/ ApplyGet(w)
  \/ ApplyWrite(w)
  \/ propagateHostsToWatchedCR(w)

User(c) ==
  \/ \E E \in SUBSET ExportKeys : CreateCR(c, E)
  \/ \E E \in SUBSET ExportKeys : SetExportModes(c, E)
  \/ TouchCR(c)
  \/ DeleteCR(c)

ServiceOwner(s) == (\E P \in SUBSET Ports : ChangeService(s, P)) \/ RemoveService(s)

Next ==
  \/ \E w \in Workers : Step(w) \/ ApiError(w) \/ Crash(w)
  \/ \E c \in Components : User(c)
  \/ \E s \in Services : ServiceOwner(s)

Spec == Init /\ [][Next]_vars

(* A reconcile in flight is run to its end, and the workqueue, being FIFO, *)
(* hands out every name it holds.                                          *)
Fairness ==
  \A w \in Workers : /\ WF_vars(Step(w))
                     /\ \A c \in Components : SF_vars(Fetch(w, c))

FairSpec == Spec /\ Fairness

-------------------------------------------------------------------------------
TypeOK ==
  /\ cr \in [Components -> Object]
  /\ svcPorts \in ServiceCache
  /\ res \subseteq Resource
  /\ queue \in [Workers -> SUBSET Components]
  /\ rc \in [Workers -> Reconcile]
  /\ \A w \in Workers : rc[w].pc # "idle" => rc[w].comp \in Components
  /\ faults \in 0..MaxFaults

Owned(c) == {r \in res : r.owner = [comp |-> c, inc |-> cr[c].inc]}

EnabledModes(c) == extractExportModes(cr[c].exports)

(* No worker has c to do or in hand: nothing more will happen by itself.   *)
Settled(c) == \A w \in Workers : c \notin queue[w] /\ rc[w].comp # c

UnusedGone(c)   == \A r \in Owned(c) : r.type \in EnabledModes(c)

(* Addresses of the enabled modes, the same for all of them, and of one    *)
(* service.  (They may be none: see Exporting.)                            *)
AddressesFit(c) ==
  /\ \A m \in AllRouteTypes \ EnabledModes(c) : cr[c].addr[m] = {}
  /\ \A m, n \in EnabledModes(c) : cr[c].addr[m] = cr[c].addr[n]
  /\ \A m \in EnabledModes(c) : \A e, f \in cr[c].addr[m] : e.svc = f.svc

(* The hosts of each enabled mode are those of all ports of one service.   *)
AdvertisesService(c) ==
  EnabledModes(c) # {} =>
    \E s \in Listed(c) : \A m \in EnabledModes(c) : cr[c].addr[m] = Endpoints(s)

Served(c) ==
  \A m \in AllRouteTypes : \A e \in cr[c].addr[m] : \A i \in DOMAIN Load(m) :
    [mode |-> m, kind |-> Load(m)[i], name |-> PublicServiceName[e],
     owner |-> [comp |-> c, inc |-> cr[c].inc], type |-> m, backend |-> e] \in res

(* Whatever was created for an object that still exists is covered by the  *)
(* finalizer on that object, so that it cannot go without a cleanup: the   *)
(* finalizer is ensured before anything is created (controller.go:93), and *)
(* no lost reply, conflict, crash or deletion and re-creation in between   *)
(* loses it.                                                               *)
FinalizerBeforeResources ==
  \A c \in Components : cr[c].phase # "absent" /\ Owned(c) # {} => cr[c].finalizer

(* When an object is gone, nothing it owned is left of the modes enabled   *)
(* when it went: the resourceVersion in the Update of removeFinalizer      *)
(* (delete_resources.go:93) refuses a cleanup made with outdated modes.    *)
CleanupComplete ==
  \A c \in Components :
    cr[c].phase = "absent" => \A r \in Owned(c) : r.type \notin EnabledModes(c)

(* When the controller is done with a live object, the object owns nothing *)
(* of a disabled mode: removeUnusedRoutingResources, retried until no      *)
(* error or conflict is left, catches up with every edit of the annotations*)
NoUnusedWhenSettled ==
  \A c \in Components : cr[c].phase = "live" /\ Settled(c) => UnusedGone(c)

(* The controller is never done with an object in deletion that has an     *)
(* enabled mode: a failed or conflicting call of the cleanup keeps the     *)
(* request in the queue (delete_resources.go:43-53), since nothing else    *)
(* would bring it back.                                                    *)
DeletionNotAbandoned ==
  \A c \in Components :
    cr[c].phase = "terminating" /\ Settled(c) => EnabledModes(c) = {}

(* When the controller is done with a live object, its address annotations *)
(* name nothing of a disabled mode, and for all enabled modes the hosts of *)
(* the same ports of one service (reconcile_resources.go:24-31, 91-121),   *)
(* although they are written by a patch that checks no version.            *)
AddressesFollowModes ==
  \A c \in Components : cr[c].phase = "live" /\ Settled(c) => AddressesFit(c)

(* When the controller is done with a live object, every advertised host   *)
(* is served: all resources of its template exist, route to the advertised *)
(* service and are labelled for the object's own cleanup.                  *)
AdvertisedIsServed ==
  \A c \in Components : cr[c].phase = "live" /\ Settled(c) => Served(c)

(* Call by call, the controller keeps to FinalizerProtocol with each of    *)
(* its components: nothing is made for an object before the finalizer is   *)
(* stored (controller.go:93), and the finalizer goes only from an object   *)
(* in deletion that has none of its wanted resources left.                 *)
Protocol(c) == INSTANCE FinalizerProtocol WITH
  RouteModes <- AllRouteTypes,
  phase      <- cr[c].phase,
  finalizer  <- cr[c].finalizer,
  wanted     <- EnabledModes(c),
  owned      <- {r.type : r \in Owned(c)}

FollowsProtocol ==
  /\ \A c \in Components : Protocol(c)!Init
  /\ [][\A c \in Components : UNCHANGED Protocol(c)!vars \/ Protocol(c)!Next]_vars

(* Whatever an object loses to its own reconciles, it does not want any    *)
(* more, or it is about to be reconciled again, which puts it back: a      *)
(* deletion with outdated modes (delete_resources.go:17-29), by any number *)
(* of managers, is always followed by another reconcile.  What the         *)
(* reconciles of other components take is not so (DeletesOnlyOwned).       *)
RemovesOnlyUnwanted ==
  [][\A r \in res :
       LET c == r.owner.comp IN
       \/ \E x \in res' : Identity(x) = Identity(r)
       \/ cr[c].inc # r.owner.inc \/ cr[c].phase # "live"
       \/ r.type \notin EnabledModes(c)
       \/ \E w \in Workers : c \in queue[w]
       \/ \E w \in Workers, k \in Kinds : rc[w].comp # c /\ deleteOwnedResources(w, k)]_vars

(* A live object with an enabled mode and a service to export ends up with *)
(* addresses for its modes, unless users keep writing to it or a service   *)
(* has no ports for a while (nobody waits for those): the requests that    *)
(* failed because the service was not there yet are retried.               *)
EventuallyAdvertised ==
  \A c \in Components :
    \/ []<><<User(c)>>_vars
    \/ <>(\E s \in Listed(c) : s.ports = {})
    \/ []<>(cr[c].phase # "live" \/ EnabledModes(c) = {} \/ Exported(c) = {})
    \/ <>[](\A m \in EnabledModes(c) : cr[c].addr[m] # {})

(* An object being deleted with an enabled mode goes, unless users keep    *)
(* writing to it: conflicts and failed deletions are retried.              *)
DeletionFinishes ==
  \A c \in Components :
    \/ []<><<User(c)>>_vars
    \/ []<>(cr[c].phase # "terminating" \/ EnabledModes(c) = {})

(* What delete_resources.go:88 takes for granted: every object being       *)
(* deleted gets its cleanup, and its finalizer removed after it.           *)
DeletionNeverStuck ==
  \A c \in Components : []<><<User(c)>>_vars \/ []<>(cr[c].phase # "terminating")

(* labels/funcs.go:10: the owner labels "can be used to find all related   *)
(* resources across the cluster which are owned by the source object"; the *)
(* deletion by them (delete_resources.go:66-72) removes nothing else.      *)
DeletesOnlyOwned ==
  [][\A w \in Workers, k \in Kinds :
       deleteOwnedResources(w, k) => \A r \in res \ res' : r.owner = UidOf(rc[w])]_vars

(* controller_test.go:273, "component is deleted all routing resources     *)
(* should be removed".                                                     *)
NothingLeftBehind ==
  \A c \in Components : cr[c].phase = "absent" => Owned(c) = {}

(* annotations/types.go:79: the annotation "exposes the public addresses   *)
(* set by Platform's routing capability"; every exported host is in it.    *)
AllHostsAdvertised ==
  \A c \in Components : cr[c].phase = "live" /\ Settled(c) =>
    \A r \in Owned(c) : r.backend \in cr[c].addr[r.type]
===============================================================================
