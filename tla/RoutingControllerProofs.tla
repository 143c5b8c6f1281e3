------------------------ MODULE RoutingControllerProofs ------------------------
(***************************************************************************)
(* Proofs about RoutingController, for every set of components, workers    *)
(* and services and for every bound.                                       *)
(***************************************************************************)
EXTENDS RoutingController, SequenceTheorems, TLAPS

-------------------------------------------------------------------------------
(* Types.  The type invariant needs to know that a resource is pending     *)
(* whenever the code is about to look it up or write it.                   *)

WellFormed(t) ==
  /\ t \in Reconcile
  /\ t.pc # "idle" => t.comp \in Components
  /\ t.pc \in {"applyGet", "applyWrite"} => t.items # <<>>

TypeInv == TypeOK /\ \A w \in Workers : WellFormed(rc[w])

LEMMA NoObjectType == NoObject \in Object
  BY DEF NoObject, Object, NoAddresses, Phases

LEMMA IdleWellFormed == WellFormed(Idle) /\ Idle.pc = "idle"
  BY NoObjectType DEF WellFormed, Idle, Reconcile, PCs

LEMMA ModesType ==
  ASSUME NEW t
  PROVE  Modes(t) \subseteq AllRouteTypes
  BY DEF Modes, extractExportModes, IsValidRouteType

LEMMA KindsType ==
  ASSUME NEW M
  PROVE  routingResourceGVKs(M) \subseteq Kinds
  BY DEF routingResourceGVKs, GVKs, externalGVKs, publicGVKs, Kinds

LEMMA EnterPruneType ==
  ASSUME NEW t, WellFormed(t), t.comp \in Components
  PROVE  WellFormed(EnterPrune(t))
  BY KindsType DEF EnterPrune, WellFormed, Reconcile, PCs

LEMMA RecordErrorType ==
  ASSUME NEW t, WellFormed(t)
  PROVE  WellFormed(RecordError(t))
  BY DEF RecordError, WellFormed, Reconcile

(* Advancing one reconcile to a well-formed record keeps them well-formed. *)
LEMMA AdvanceType ==
  ASSUME TypeInv, NEW w \in Workers, NEW t, WellFormed(t), Advance(w, t)
  PROVE  /\ rc' \in [Workers -> Reconcile]
         /\ \A v \in Workers : WellFormed(rc'[v])
  BY DEF Advance, TypeInv, TypeOK, WellFormed

LEMMA StaleType ==
  ASSUME NEW t, WellFormed(t)
  PROVE  WellFormed([t EXCEPT !.fresh = FALSE])
  BY DEF WellFormed, Reconcile

LEMMA InvalidatedType ==
  ASSUME TypeInv, NEW c
  PROVE  /\ Invalidated(c) \in [Workers -> Reconcile]
         /\ \A v \in Workers : WellFormed(Invalidated(c)[v])
<1>1. \A v \in Workers : WellFormed(rc[v]) /\ WellFormed([rc[v] EXCEPT !.fresh = FALSE])
  BY StaleType DEF TypeInv
<1>2. \A v \in Workers : WellFormed(Invalidated(c)[v])
  BY <1>1 DEF Invalidated
<1>3. Invalidated(c) = [v \in Workers |-> Invalidated(c)[v]]
  BY DEF Invalidated
<1> QED  BY <1>2, <1>3 DEF WellFormed

LEMMA NotifiedType ==
  ASSUME TypeInv, NEW c \in Components
  PROVE  Notified(c) \in [Workers -> SUBSET Components]
  BY DEF Notified, TypeInv, TypeOK

(* An error leaves the worker idle, or at its next call with what it holds *)
(* of the failed one forgotten.                                            *)
LEMMA OnErrorType ==
  ASSUME TypeInv, NEW w \in Workers, OnError(w)
  PROVE  /\ rc' \in [Workers -> Reconcile]
         /\ \A v \in Workers : WellFormed(rc'[v])
         /\ queue' \in [Workers -> SUBSET Components]
<1> DEFINE t == rc[w]
<1>1. WellFormed(t)  BY DEF TypeInv
<1>2. queue \in [Workers -> SUBSET Components]  BY DEF TypeInv, TypeOK
<1>3. CASE /\ t.pc \in {"finalizer", "finalizerSend", "cleanup", "unfinalize",
                        "patch", "patchSend"}
           /\ ReturnError(w)
  <2>1. Advance(w, Idle)  BY <1>3 DEF ReturnError
  <2>2. t.comp \in Components  BY <1>1, <1>3 DEF WellFormed
  <2>3. queue' = [queue EXCEPT ![w] = @ \cup {t.comp}]  BY <1>3 DEF ReturnError
  <2>4. queue' \in [Workers -> SUBSET Components]  BY <1>2, <2>2, <2>3
  <2> QED  BY <2>1, <2>4, AdvanceType, IdleWellFormed
<1>4. CASE /\ t.pc = "prune"
           /\ Advance(w, RecordError([t EXCEPT !.pc = "create", !.kinds = {}]))
           /\ UNCHANGED queue
  <2>1. WellFormed([t EXCEPT !.pc = "create", !.kinds = {}])
    BY <1>1, <1>4 DEF WellFormed, Reconcile, PCs
  <2> QED  BY <1>2, <1>4, <2>1, RecordErrorType, AdvanceType
<1>5. CASE /\ t.pc = "create"
           /\ Advance(w, RecordError([t EXCEPT !.pc = "patch"]))
           /\ UNCHANGED queue
  <2>1. WellFormed([t EXCEPT !.pc = "patch"])
    BY <1>1, <1>5 DEF WellFormed, Reconcile, PCs
  <2> QED  BY <1>2, <1>5, <2>1, RecordErrorType, AdvanceType
<1>6. CASE /\ t.pc \in {"applyGet", "applyWrite"}
           /\ Advance(w, RecordError([t EXCEPT !.pc = "services", !.exporting = {},
                                               !.batches = {}, !.items = <<>>,
                                               !.found = FALSE]))
           /\ UNCHANGED queue
  <2>1. WellFormed([t EXCEPT !.pc = "services", !.exporting = {}, !.batches = {},
                             !.items = <<>>, !.found = FALSE])
    <3>1. <<>> \in Seq(Item)  OBVIOUS
    <3>2. t \in Reconcile /\ t.comp \in Components  BY <1>1, <1>6 DEF WellFormed
    <3> QED  BY <3>1, <3>2 DEF WellFormed, Reconcile, PCs
  <2> QED  BY <1>2, <1>6, <2>1, RecordErrorType, AdvanceType
<1> QED  BY <1>3, <1>4, <1>5, <1>6 DEF OnError

LEMMA FaultType ==
  ASSUME TypeInv, Fault
  PROVE  faults' \in 0..MaxFaults
  BY ConstantsAssumption DEF Fault, TypeInv, TypeOK

LEMMA ReplyType ==
  ASSUME TypeInv, NEW w \in Workers, NEW t, WellFormed(t), Reply(w, t)
  PROVE  /\ rc' \in [Workers -> Reconcile]
         /\ \A v \in Workers : WellFormed(rc'[v])
         /\ queue' \in [Workers -> SUBSET Components]
         /\ faults' \in 0..MaxFaults
<1>1. CASE Advance(w, t) /\ UNCHANGED <<queue, faults>>
  BY <1>1, AdvanceType DEF TypeInv, TypeOK
<1>2. CASE Fault /\ OnError(w)
  BY <1>2, FaultType, OnErrorType
<1> QED  BY <1>1, <1>2 DEF Reply

LEMMA WriteCRType ==
  ASSUME TypeInv, NEW w \in Workers, rc[w].comp \in Components,
         NEW obj \in Object, NEW t, WellFormed(t), NEW retry \in BOOLEAN,
         WriteCR(w, obj, t, retry)
  PROVE  /\ cr' \in [Components -> Object]
         /\ rc' \in [Workers -> Reconcile]
         /\ \A v \in Workers : WellFormed(rc'[v])
         /\ queue' \in [Workers -> SUBSET Components]
         /\ faults' \in 0..MaxFaults
<1> DEFINE c == rc[w].comp
           notified == IF obj # cr[c] THEN Notified(c) ELSE queue
           stale == IF obj # cr[c] THEN Invalidated(c) ELSE rc
<1>1. PICK lost \in BOOLEAN :
        /\ IF lost THEN Fault ELSE UNCHANGED faults
        /\ rc' = [stale EXCEPT ![w] = IF lost THEN Idle ELSE t]
        /\ queue' = [notified EXCEPT ![w] = IF lost \/ retry THEN @ \cup {c} ELSE @]
  BY DEF WriteCR
<1>2. cr' \in [Components -> Object]
  BY DEF WriteCR, TypeInv, TypeOK
<1>3. /\ stale \in [Workers -> Reconcile]
      /\ \A v \in Workers : WellFormed(stale[v])
  BY InvalidatedType DEF TypeInv, TypeOK
<1>4. notified \in [Workers -> SUBSET Components]
  BY NotifiedType DEF TypeInv, TypeOK
<1> HIDE DEF notified, stale
<1>5. /\ rc' \in [Workers -> Reconcile]
      /\ \A v \in Workers : WellFormed(rc'[v])
  <2> DEFINE new == IF lost THEN Idle ELSE t
  <2>1. WellFormed(new)  BY IdleWellFormed
  <2>2. new \in Reconcile  BY <2>1 DEF WellFormed
  <2> HIDE DEF new
  <2> QED  BY <1>1, <1>3, <2>1, <2>2 DEF new
<1>6. queue' \in [Workers -> SUBSET Components]
  BY <1>1, <1>4
<1>7. faults' \in 0..MaxFaults
  BY <1>1, FaultType DEF TypeInv, TypeOK
<1> QED  BY <1>2, <1>5, <1>6, <1>7

-------------------------------------------------------------------------------
(* What each action writes is of its type.                                 *)

TypedWorkers ==
  /\ rc \in [Workers -> Reconcile]
  /\ \A w \in Workers : WellFormed(rc[w])
  /\ queue \in [Workers -> SUBSET Components]

LEMMA TypeFromParts ==
  ASSUME cr' \in [Components -> Object], svcPorts' \in ServiceCache,
         res' \subseteq Resource, TypedWorkers', faults' \in 0..MaxFaults
  PROVE  TypeInv'
  BY DEF TypedWorkers, TypeInv, TypeOK, WellFormed

LEMMA InitType == Init => TypeInv
<1> SUFFICES ASSUME Init PROVE TypeInv  OBVIOUS
<1>1. cr \in [Components -> Object]  BY NoObjectType DEF Init
<1>2. \A w \in Workers : WellFormed(rc[w])  BY IdleWellFormed DEF Init
<1>3. rc \in [Workers -> Reconcile]  BY IdleWellFormed DEF Init, WellFormed
<1>4. faults \in 0..MaxFaults  BY ConstantsAssumption DEF Init
<1>5. queue \in [Workers -> SUBSET Components]  BY DEF Init
<1>6. svcPorts \in ServiceCache
  <2>1. svcPorts \in [{} -> SUBSET Ports]  BY DEF Init
  <2>2. {} \in SUBSET Services  OBVIOUS
  <2> QED  BY <2>1, <2>2 DEF ServiceCache
<1>7. res \subseteq Resource  BY DEF Init
<1> QED  BY <1>1, <1>2, <1>3, <1>4, <1>5, <1>6, <1>7 DEF TypeInv, TypeOK, WellFormed

LEMMA FetchType ==
  ASSUME TypeInv, NEW w \in Workers, NEW c \in Components, Fetch(w, c)
  PROVE  TypeInv'
<1> DEFINE t == [Idle EXCEPT !.comp = c, !.tgt = cr[c], !.fresh = TRUE]
<1>1. WellFormed(t) /\ t.comp \in Components
  <2>1. cr[c] \in Object  BY DEF TypeInv, TypeOK
  <2> QED  BY <2>1, IdleWellFormed DEF WellFormed, Reconcile
<1>2. queue' \in [Workers -> SUBSET Components]
  BY DEF Fetch, TypeInv, TypeOK
<1>3. /\ rc' \in [Workers -> Reconcile]
      /\ \A v \in Workers : WellFormed(rc'[v])
  <2>1. CASE UNCHANGED rc
    BY <2>1 DEF TypeInv, TypeOK
  <2>2. CASE Advance(w, [t EXCEPT !.pc = "cleanup",
                                  !.kinds = routingResourceGVKs(Modes(t))])
    <3>1. WellFormed([t EXCEPT !.pc = "cleanup", !.kinds = routingResourceGVKs(Modes(t))])
      BY <1>1, KindsType DEF WellFormed, Reconcile, PCs
    <3> QED  BY <2>2, <3>1, AdvanceType
  <2>3. CASE Advance(w, ensureResourceHasFinalizer(t))
    <3>1. WellFormed([t EXCEPT !.pc = "finalizer", !.tgt.finalizer = TRUE])
      BY <1>1 DEF WellFormed, Reconcile, PCs, Object
    <3>2. WellFormed(ensureResourceHasFinalizer(t))
      BY <1>1, <3>1, EnterPruneType DEF ensureResourceHasFinalizer
    <3> QED  BY <2>3, <3>2, AdvanceType
  <2> QED  BY <2>1, <2>2, <2>3 DEF Fetch
<1> QED  BY <1>2, <1>3, TypeFromParts DEF Fetch, TypedWorkers, TypeInv, TypeOK

LEMMA ReturnErrorType ==
  ASSUME TypeInv, NEW w \in Workers, rc[w].pc # "idle", ReturnError(w)
  PROVE  TypedWorkers'
<1>1. rc[w].comp \in Components  BY DEF TypeInv, TypeOK
<1>2. queue' \in [Workers -> SUBSET Components]
  BY <1>1 DEF ReturnError, TypeInv, TypeOK
<1> QED  BY <1>2, AdvanceType, IdleWellFormed DEF ReturnError, TypedWorkers

LEMMA PatchGetType ==
  ASSUME TypeInv, NEW w \in Workers, PatchGet(w)
  PROVE  TypeInv'
<1> DEFINE t == rc[w]
           u == [t EXCEPT
                  !.pc = IF t.pc = "finalizer" THEN "finalizerSend" ELSE "patchSend",
                  !.diff = {m \in AllRouteTypes : t.tgt.addr[m] # cr[t.comp].addr[m]}]
<1>1. t.pc # "idle"  BY DEF PatchGet
<1>2. WellFormed(u)
  BY <1>1 DEF PatchGet, TypeInv, WellFormed, Reconcile, PCs
<1>3. TypedWorkers'
  <2>1. CASE ReturnError(w)
    BY <1>1, <2>1, ReturnErrorType
  <2>2. CASE Advance(w, u) /\ UNCHANGED queue
    BY <1>2, <2>2, AdvanceType DEF TypedWorkers, TypeInv, TypeOK
  <2> QED  BY <2>1, <2>2 DEF PatchGet
<1> QED  BY <1>3, TypeFromParts DEF PatchGet, TypeInv, TypeOK

LEMMA PatchSendType ==
  ASSUME TypeInv, NEW w \in Workers, PatchSend(w)
  PROVE  TypeInv'
<1> DEFINE t == rc[w]
           stored == cr[t.comp]
           obj == [stored EXCEPT
                     !.finalizer = IF t.pc = "finalizerSend" THEN TRUE ELSE @,
                     !.addr = [m \in AllRouteTypes |->
                                 IF m \in t.diff THEN t.tgt.addr[m] ELSE @[m]]]
           u == [t EXCEPT !.tgt = obj, !.fresh = TRUE, !.diff = {}]
<1>1. t.pc \in {"finalizerSend", "patchSend"}  BY DEF PatchSend
<1>2. WellFormed(t) /\ t \in Reconcile  BY DEF TypeInv, WellFormed
<1>3. t.comp \in Components  BY <1>1, <1>2 DEF WellFormed
<1>4. stored \in Object /\ t.tgt \in Object
  BY <1>2, <1>3 DEF TypeInv, TypeOK, Reconcile
<1>5. obj \in Object
  <2>1. [m \in AllRouteTypes |-> IF m \in t.diff THEN t.tgt.addr[m] ELSE stored.addr[m]]
          \in [AllRouteTypes -> SUBSET Endpoint]
    BY <1>4 DEF Object
  <2> QED  BY <1>4, <2>1 DEF Object
<1>6. WellFormed(EnterPrune(u))
  <2> HIDE DEF obj
  <2>1. WellFormed(u) /\ u.comp \in Components
    BY <1>1, <1>2, <1>3, <1>5 DEF WellFormed, Reconcile
  <2> QED  BY <2>1, EnterPruneType
<1>7. t.err \in BOOLEAN  BY <1>2 DEF Reconcile
<1> HIDE DEF obj, u
<1>8. cr' \in [Components -> Object] /\ TypedWorkers' /\ faults' \in 0..MaxFaults
  <2>1. CASE ReturnError(w) /\ UNCHANGED <<cr, faults>>
    BY <1>1, <2>1, ReturnErrorType DEF TypeInv, TypeOK
  <2>2. CASE WriteCR(w, obj, EnterPrune(u), FALSE)
    BY <1>3, <1>5, <1>6, <2>2, WriteCRType DEF TypedWorkers
  <2>3. CASE WriteCR(w, obj, Idle, t.err)
    BY <1>3, <1>5, <1>7, <2>3, IdleWellFormed, WriteCRType DEF TypedWorkers
  <2> QED  BY <2>1, <2>2, <2>3 DEF PatchSend, obj, u
<1> QED  BY <1>8, TypeFromParts DEF PatchSend, TypeInv, TypeOK

LEMMA deleteOwnedResourcesType ==
  ASSUME TypeInv, NEW w \in Workers, NEW kind, deleteOwnedResources(w, kind)
  PROVE  TypeInv'
<1> DEFINE t == rc[w]
           done == IF t.pc = "prune" THEN "create" ELSE "unfinalize"
           u == [t EXCEPT !.pc = IF t.kinds = {kind} THEN done ELSE @,
                          !.kinds = @ \ {kind}]
<1>1. WellFormed(u)
  BY DEF deleteOwnedResources, DeleteAllOf, TypeInv, WellFormed, Reconcile, PCs
<1>2. Reply(w, u)  BY DEF deleteOwnedResources, DeleteAllOf
<1>3. TypedWorkers' /\ faults' \in 0..MaxFaults
  BY <1>1, <1>2, ReplyType DEF TypedWorkers
<1> QED  BY <1>3, TypeFromParts DEF deleteOwnedResources, DeleteAllOf, TypeInv, TypeOK

LEMMA GoneType ==
  ASSUME NEW obj \in Object
  PROVE  Gone(obj) \in Object
  BY NoObjectType DEF Gone, Object, NoObject, Phases

LEMMA removeFinalizerType ==
  ASSUME TypeInv, NEW w \in Workers, removeFinalizer(w)
  PROVE  TypeInv'
<1> DEFINE t == rc[w]
<1>1. t.pc # "idle" /\ t.comp \in Components
  BY DEF removeFinalizer, TypeInv, TypeOK
<1>2. Gone(cr[t.comp]) \in Object  BY <1>1, GoneType DEF TypeInv, TypeOK
<1>3. cr' \in [Components -> Object] /\ TypedWorkers' /\ faults' \in 0..MaxFaults
  <2>1. CASE ReturnError(w) /\ UNCHANGED <<cr, faults>>
    BY <1>1, <2>1, ReturnErrorType DEF TypeInv, TypeOK
  <2>2. CASE WriteCR(w, Gone(cr[t.comp]), Idle, FALSE)
    BY <1>1, <1>2, <2>2, IdleWellFormed, WriteCRType DEF TypedWorkers
  <2> QED  BY <2>1, <2>2 DEF removeFinalizer
<1> QED  BY <1>3, TypeFromParts DEF removeFinalizer, TypeInv, TypeOK

(* An action of worker w that only moves its own record on.                *)
LEMMA LocalStepType ==
  ASSUME TypeInv, NEW w \in Workers, NEW t, WellFormed(t), Advance(w, t),
         UNCHANGED <<cr, svcPorts, res, queue, faults>>
  PROVE  TypeInv'
  BY AdvanceType, TypeFromParts DEF TypeInv, TypeOK, TypedWorkers

LEMMA ListedType ==
  ASSUME TypeInv, NEW c \in Components
  PROVE  Listed(c) \subseteq Service
<1>1. PICK S \in SUBSET Services : svcPorts \in [S -> SUBSET Ports]
  BY DEF TypeInv, TypeOK, ServiceCache
<1>2. \A s \in Selects[c] \cap DOMAIN svcPorts : s \in Services /\ svcPorts[s] \in SUBSET Ports
  BY <1>1
<1> QED  BY <1>2 DEF Listed, Service

LEMMA EndpointsType ==
  ASSUME NEW s \in Service
  PROVE  Endpoints(s) \subseteq Endpoint
  BY DEF Endpoints, Service, Endpoint

LEMMA ListServicesType ==
  ASSUME TypeInv, NEW w \in Workers, ListServices(w)
  PROVE  TypeInv'
<1> DEFINE t == rc[w]
<1>1. WellFormed(t) /\ t.comp \in Components /\ t.pc = "create"
  BY DEF ListServices, TypeInv, TypeOK
<1>2. WellFormed(NoneExported(t))
  BY <1>1 DEF WellFormed, Reconcile, PCs, Object, NoAddresses, NoneExported
<1>3. WellFormed(RecordError([t EXCEPT !.pc = "patch"]))
  <2>1. WellFormed([t EXCEPT !.pc = "patch"])
    BY <1>1 DEF WellFormed, Reconcile, PCs
  <2> QED  BY <2>1, RecordErrorType
<1>4. WellFormed([t EXCEPT !.pc = "services", !.pending = Listed(t.comp)])
  BY <1>1, ListedType DEF WellFormed, Reconcile, PCs
<1> QED  BY <1>2, <1>3, <1>4, LocalStepType DEF ListServices

LEMMA ExportNextType ==
  ASSUME TypeInv, NEW w \in Workers, ExportNext(w)
  PROVE  TypeInv'
<1> DEFINE t == rc[w]
<1>1. WellFormed(t) /\ t.comp \in Components /\ t.pc = "services"
  BY DEF ExportNext, TypeInv, TypeOK
<1>2. CASE Advance(w, [t EXCEPT !.pc = "patch"])
  <2>1. WellFormed([t EXCEPT !.pc = "patch"])
    BY <1>1 DEF WellFormed, Reconcile, PCs
  <2> QED  BY <1>2, <2>1, LocalStepType DEF ExportNext
<1>3. ASSUME NEW s \in t.pending, Advance(w, Exporting(t, s))
      PROVE  TypeInv'
  <2> DEFINE ports == Endpoints(s)
             batches == {[mode |-> m, backend |-> e] : m \in Modes(t), e \in ports}
  <2>1. ports \subseteq Endpoint
    BY <1>1, EndpointsType DEF WellFormed, Reconcile
  <2> HIDE DEF ports
  <2>2. batches \subseteq Batch  BY <2>1, ModesType DEF Batch
  <2> HIDE DEF batches
  <2>3. WellFormed([t EXCEPT !.pc = "batches", !.pending = @ \ {s},
                             !.exporting = ports, !.batches = batches])
    BY <1>1, <2>1, <2>2 DEF WellFormed, Reconcile, PCs
  <2>4. WellFormed(Exporting(t, s))
    BY <2>3 DEF Exporting, batches, ports
  <2> QED  BY <1>3, <2>4, LocalStepType DEF ExportNext
<1> QED  BY <1>2, <1>3 DEF ExportNext

LEMMA LoadBatchType ==
  ASSUME TypeInv, NEW w \in Workers, NEW b \in rc[w].batches, LoadBatch(w, b)
  PROVE  TypeInv'
<1> DEFINE t == rc[w]
           kinds == Load(b.mode)
           items == [i \in DOMAIN kinds |->
                       [mode |-> b.mode, kind |-> kinds[i], backend |-> b.backend]]
<1>1. WellFormed(t) /\ t.comp \in Components /\ t.pc = "batches"
  BY DEF LoadBatch, TypeInv, TypeOK
<1>2. b \in Batch  BY <1>1 DEF WellFormed, Reconcile
<1>3. kinds \in Seq(Kinds) /\ kinds # <<>>
  <2>1. externalRouteTemplate \in Seq(Kinds) /\ externalRouteTemplate # <<>>
    BY DEF externalRouteTemplate, Kinds
  <2>2. publicRouteTemplate \in Seq(Kinds) /\ publicRouteTemplate # <<>>
    BY DEF publicRouteTemplate, Kinds
  <2> QED  BY <2>1, <2>2 DEF Load
<1> HIDE DEF kinds
<1>4. items \in Seq(Item) /\ items # <<>>
  <2>1. Len(kinds) \in Nat \ {0} /\ DOMAIN kinds = 1..Len(kinds)
    BY <1>3, EmptySeq
  <2>2. \A i \in 1..Len(kinds) :
          [mode |-> b.mode, kind |-> kinds[i], backend |-> b.backend] \in Item
    BY <1>2, <1>3, <2>1 DEF Batch, Item
  <2>3. items = [i \in 1..Len(kinds) |->
                   [mode |-> b.mode, kind |-> kinds[i], backend |-> b.backend]]
    BY <2>1
  <2>4. items \in [1..Len(kinds) -> Item]  BY <2>2, <2>3
  <2>5. items \in Seq(Item)  BY <2>1, <2>4, SeqDef
  <2>6. 1 \in DOMAIN items /\ DOMAIN <<>> = {}  BY <2>1
  <2> QED  BY <2>5, <2>6
<1> HIDE DEF items
<1>5. WellFormed([t EXCEPT !.pc = "applyGet", !.batches = @ \ {b}, !.items = items])
  BY <1>1, <1>4 DEF WellFormed, Reconcile, PCs
<1> QED  BY <1>5, LocalStepType DEF LoadBatch, items, kinds

LEMMA ApplyGetType ==
  ASSUME TypeInv, NEW w \in Workers, ApplyGet(w)
  PROVE  TypeInv'
<1> DEFINE t == rc[w]
           found == Occupants(t) # {}
<1>1. WellFormed(t) /\ t.pc = "applyGet"  BY DEF ApplyGet, TypeInv
<1>2. found \in BOOLEAN  OBVIOUS
<1> HIDE DEF found
<1>3. WellFormed([t EXCEPT !.pc = "applyWrite", !.found = found])
  BY <1>1, <1>2 DEF WellFormed, Reconcile, PCs
<1> QED  BY <1>3, LocalStepType DEF ApplyGet, found

LEMMA TailNotEmpty ==
  ASSUME NEW S, NEW s \in Seq(S), s # <<>>, Len(s) # 1
  PROVE  Tail(s) # <<>>
<1>1. Len(Tail(s)) = Len(s) - 1 /\ Len(s) \in Nat \ {0}
  BY HeadTailProperties, EmptySeq
<1>2. Len(<<>>) = 0
  BY EmptySeq
<1>3. Len(Tail(s)) # 0
  BY <1>1
<1> QED  BY <1>2, <1>3

LEMMA RenderedType ==
  ASSUME NEW t, WellFormed(t), t.comp \in Components, t.items # <<>>
  PROVE  Rendered(t) \in Resource
<1> DEFINE item == Head(t.items)
<1>1. t.items \in Seq(Item)  BY DEF WellFormed, Reconcile
<1>2. item \in Item  BY <1>1, HeadTailProperties
<1>3. t.tgt.inc \in Nat  BY DEF WellFormed, Reconcile, Object
<1>4. UidOf(t) \in Uid  BY <1>3 DEF UidOf, Uid
<1>5. PublicServiceName[item.backend] \in {PublicServiceName[e] : e \in Endpoint}
  BY <1>2 DEF Item
<1> QED  BY <1>2, <1>4, <1>5 DEF Rendered, ExportType, Item, Resource

LEMMA ApplyWriteType ==
  ASSUME TypeInv, NEW w \in Workers, ApplyWrite(w)
  PROVE  TypeInv'
<1> DEFINE t == rc[w]
           u == [t EXCEPT !.pc = IF Len(t.items) = 1 THEN "batches" ELSE "applyGet",
                          !.items = Tail(@), !.found = FALSE]
<1>1. /\ WellFormed(t) /\ t.comp \in Components /\ t.pc = "applyWrite"
      /\ t.items # <<>> /\ t.items \in Seq(Item)
  BY DEF ApplyWrite, TypeInv, TypeOK, WellFormed, Reconcile
<1>2. WellFormed(u)
  <2>1. Tail(t.items) \in Seq(Item)  BY <1>1, HeadTailProperties
  <2>2. Len(t.items) # 1 => Tail(t.items) # <<>>
    BY <1>1, TailNotEmpty
  <2> QED  BY <1>1, <2>1, <2>2 DEF WellFormed, Reconcile, PCs
<1>3. TypedWorkers' /\ faults' \in 0..MaxFaults
  BY <1>2, ReplyType DEF ApplyWrite, TypedWorkers
<1>4. res' \subseteq Resource
  BY <1>1, RenderedType DEF ApplyWrite, TypeInv, TypeOK
<1> QED  BY <1>3, <1>4, TypeFromParts DEF ApplyWrite, TypeInv, TypeOK

LEMMA propagateType ==
  ASSUME TypeInv, NEW w \in Workers, propagateHostsToWatchedCR(w)
  PROVE  TypeInv'
<1> DEFINE t == rc[w]
<1>1. WellFormed(t) /\ t.comp \in Components
  BY DEF propagateHostsToWatchedCR, TypeInv, TypeOK
<1>2. Addresses(t) \in [AllRouteTypes -> SUBSET Endpoint]
  BY <1>1 DEF Addresses, WellFormed, Reconcile
<1>3. WellFormed([t EXCEPT !.pc = "services", !.exporting = {},
                           !.tgt.addr = Addresses(t)])
  BY <1>1, <1>2 DEF WellFormed, Reconcile, PCs, Object
<1> QED  BY <1>3, LocalStepType DEF propagateHostsToWatchedCR

LEMMA UserWriteType ==
  ASSUME TypeInv, NEW c \in Components, NEW obj \in Object, UserWrite(c, obj)
  PROVE  TypeInv'
<1>1. cr' \in [Components -> Object]  BY DEF UserWrite, TypeInv, TypeOK
<1>2. TypedWorkers'
  BY InvalidatedType, NotifiedType DEF UserWrite, TypedWorkers
<1> QED  BY <1>1, <1>2, TypeFromParts DEF UserWrite, TypeInv, TypeOK

(* The object a user's action stores.                                      *)
LEMMA UserType ==
  ASSUME TypeInv, NEW c \in Components, User(c)
  PROVE  TypeInv'
<1>1. cr[c] \in Object  BY DEF TypeInv, TypeOK
<1>2. ASSUME NEW E \in SUBSET ExportKeys, CreateCR(c, E)  PROVE TypeInv'
  <2>1. [NoObject EXCEPT !.phase = "live", !.inc = cr[c].inc + 1, !.exports = E] \in Object
    <3>1. cr[c].inc + 1 \in Nat /\ "live" \in Phases  BY <1>1 DEF Object, Phases
    <3> QED  BY <3>1, NoObjectType DEF Object
  <2> QED  BY <1>2, <2>1, UserWriteType DEF CreateCR
<1>3. ASSUME NEW E \in SUBSET ExportKeys, SetExportModes(c, E)  PROVE TypeInv'
  <2>1. [cr[c] EXCEPT !.exports = E] \in Object  BY <1>1, <1>3 DEF Object
  <2> QED  BY <1>3, <2>1, UserWriteType DEF SetExportModes
<1>4. CASE TouchCR(c)
  BY <1>1, <1>4, UserWriteType DEF TouchCR
<1>5. CASE DeleteCR(c)
  <2>1. [cr[c] EXCEPT !.phase = "terminating"] \in Object  BY <1>1 DEF Object, Phases
  <2> QED  BY <1>1, <1>5, <2>1, GoneType, UserWriteType DEF DeleteCR
<1> QED  BY <1>2, <1>3, <1>4, <1>5 DEF User

LEMMA StepType ==
  ASSUME TypeInv, NEW w \in Workers, Step(w)
  PROVE  TypeInv'
  BY FetchType, PatchGetType, PatchSendType, deleteOwnedResourcesType,
     removeFinalizerType, ListServicesType, ExportNextType, LoadBatchType,
     ApplyGetType, ApplyWriteType, propagateType
  DEF Step

LEMMA ApiErrorType ==
  ASSUME TypeInv, NEW w \in Workers, ApiError(w)
  PROVE  TypeInv'
<1>1. TypedWorkers' /\ faults' \in 0..MaxFaults
  BY OnErrorType, FaultType DEF ApiError, TypedWorkers
<1> QED  BY <1>1, TypeFromParts DEF ApiError, TypeInv, TypeOK

LEMMA CrashType ==
  ASSUME TypeInv, NEW w \in Workers, Crash(w)
  PROVE  TypeInv'
<1>1. {c \in Handles[w] : cr[c].phase # "absent"} \subseteq Components
  BY ConstantsAssumption
<1>2. queue' \in [Workers -> SUBSET Components]
  BY <1>1 DEF Crash, TypeInv, TypeOK
<1>3. TypedWorkers' /\ faults' \in 0..MaxFaults
  BY <1>2, AdvanceType, IdleWellFormed, FaultType DEF Crash, TypedWorkers
<1> QED  BY <1>3, TypeFromParts DEF Crash, TypeInv, TypeOK

LEMMA ServiceOwnerType ==
  ASSUME TypeInv, NEW s \in Services, ServiceOwner(s)
  PROVE  TypeInv'
<1>1. PICK S \in SUBSET Services : svcPorts \in [S -> SUBSET Ports]
  BY DEF TypeInv, TypeOK, ServiceCache
<1>2. ASSUME NEW P \in SUBSET Ports, ChangeService(s, P)  PROVE svcPorts' \in ServiceCache
  <2>1. DOMAIN svcPorts \cup {s} \in SUBSET Services  BY <1>1
  <2>2. svcPorts' \in [DOMAIN svcPorts \cup {s} -> SUBSET Ports]
    BY <1>1, <1>2 DEF ChangeService
  <2> QED  BY <2>1, <2>2 DEF ServiceCache
<1>3. CASE RemoveService(s)
  <2>1. DOMAIN svcPorts \ {s} \in SUBSET Services  BY <1>1
  <2>2. svcPorts' \in [DOMAIN svcPorts \ {s} -> SUBSET Ports]
    BY <1>1, <1>3 DEF RemoveService
  <2>3. svcPorts' \in ServiceCache  BY <2>1, <2>2 DEF ServiceCache
  <2> QED  BY <1>3, <2>3, TypeFromParts DEF RemoveService, TypeInv, TypeOK, TypedWorkers
<1> QED  BY <1>2, <1>3, TypeFromParts DEF ServiceOwner, ChangeService, TypeInv, TypeOK, TypedWorkers

LEMMA NextType == TypeInv /\ [Next]_vars => TypeInv'
<1> SUFFICES ASSUME TypeInv, [Next]_vars PROVE TypeInv'  OBVIOUS
<1>1. ASSUME NEW w \in Workers, Step(w) \/ ApiError(w) \/ Crash(w)  PROVE TypeInv'
  BY <1>1, StepType, ApiErrorType, CrashType
<1>2. ASSUME NEW c \in Components, User(c)  PROVE TypeInv'
  BY <1>2, UserType
<1>3. ASSUME NEW s \in Services, ServiceOwner(s)  PROVE TypeInv'
  BY <1>3, ServiceOwnerType
<1>4. CASE UNCHANGED vars
  BY <1>4 DEF vars, TypeInv, TypeOK, WellFormed
<1> QED  BY <1>1, <1>2, <1>3, <1>4 DEF Next

LEMMA TypeInvHolds == Spec => []TypeInv
  BY InitType, NextType, PTL DEF Spec

(* Every variable keeps its type.                                          *)
THEOREM TypesHold == Spec => []TypeOK
<1>1. TypeInv => TypeOK  BY DEF TypeInv
<1> QED  BY <1>1, TypeInvHolds, PTL

-------------------------------------------------------------------------------
(* The finalizer covers every resource.  By itself the invariant does not  *)
(* tell why the resource about to be written is covered: a reconcile past  *)
(* the finalizer step works on an object that has it, unless the name has  *)
(* been taken by a later object, to which its resources do not belong.     *)

Working == {"prune", "create", "services", "batches", "applyGet", "applyWrite",
            "patch", "patchSend"}

NoFutureWork == \A w \in Workers :
  rc[w].pc # "idle" => rc[w].tgt.inc <= cr[rc[w].comp].inc

NoFutureOwners == \A r \in res : r.owner.inc <= cr[r.owner.comp].inc

WorkIsCovered == \A w \in Workers :
  /\ rc[w].pc \in Working
  /\ cr[rc[w].comp].inc = rc[w].tgt.inc
  /\ cr[rc[w].comp].phase # "absent"
  => cr[rc[w].comp].finalizer

FinalizerInv ==
  /\ TypeInv
  /\ NoFutureWork
  /\ NoFutureOwners
  /\ WorkIsCovered
  /\ FinalizerBeforeResources

(* What a step may do to the objects: an object that stays keeps its       *)
(* finalizer, a new one has a new incarnation.                             *)
ObjectsStep == \A c \in Components :
  /\ cr[c].inc <= cr'[c].inc
  /\ cr'[c].inc = cr[c].inc /\ cr'[c].phase # "absent" =>
       /\ cr[c].phase # "absent"
       /\ cr[c].finalizer => cr'[c].finalizer

(* To a reconcile: it goes on with the same object, ends, or has just got  *)
(* the stored object, with the finalizer on it if the work starts.         *)
Continues(t, u) ==
  /\ u.comp = t.comp
  /\ u.tgt.inc = t.tgt.inc
  /\ t.pc # "idle"
  /\ u.pc \in Working => t.pc \in Working

Starts(u) ==
  /\ u.tgt.inc = cr'[u.comp].inc
  /\ u.pc \in Working => cr'[u.comp].finalizer

ReconcilesStep == \A v \in Workers :
  \/ rc'[v].pc = "idle"
  \/ Continues(rc[v], rc'[v])
  \/ Starts(rc'[v])

(* To the resources: what is new is owned by the object worked on.         *)
ResourcesStep == \A r \in res' :
  \/ r \in res
  \/ \E v \in Workers : rc[v].pc \in Working /\ r.owner = UidOf(rc[v])

LEMMA FinalizerInvKept ==
  ASSUME FinalizerInv, TypeInv', ObjectsStep, ReconcilesStep, ResourcesStep
  PROVE  FinalizerInv'
<1>1. \A v \in Workers : /\ rc[v].pc # "idle" => rc[v].comp \in Components
                         /\ rc'[v].pc # "idle" => rc'[v].comp \in Components
                         /\ rc[v].tgt.inc \in Nat /\ rc'[v].tgt.inc \in Nat
  BY DEF FinalizerInv, TypeInv, TypeOK, Reconcile, Object
<1>2. \A c \in Components : cr[c].inc \in Nat /\ cr'[c].inc \in Nat
  BY DEF FinalizerInv, TypeInv, TypeOK, Object
<1>3. \A r \in res \cup res' : r.owner.comp \in Components /\ r.owner.inc \in Nat
  BY DEF FinalizerInv, TypeInv, TypeOK, Resource, Uid
<1>4. \A v \in Workers : rc[v].pc \in Working => rc[v].pc # "idle"
  BY DEF Working
<1>5. NoFutureWork'
  <2> SUFFICES ASSUME NEW v \in Workers, rc'[v].pc # "idle"
               PROVE  rc'[v].tgt.inc <= cr'[rc'[v].comp].inc
    BY DEF NoFutureWork
  <2>1. CASE Continues(rc[v], rc'[v])
    <3>1. /\ rc[v].tgt.inc <= cr[rc[v].comp].inc
          /\ cr[rc[v].comp].inc <= cr'[rc[v].comp].inc
      BY <1>1, <2>1 DEF Continues, FinalizerInv, NoFutureWork, ObjectsStep
    <3> QED  BY <1>1, <1>2, <2>1, <3>1 DEF Continues
  <2>2. CASE Starts(rc'[v])
    BY <1>1, <1>2, <2>2 DEF Starts
  <2> QED  BY <2>1, <2>2 DEF ReconcilesStep
<1>6. WorkIsCovered'
  <2> SUFFICES ASSUME NEW v \in Workers, rc'[v].pc \in Working,
                      cr'[rc'[v].comp].inc = rc'[v].tgt.inc,
                      cr'[rc'[v].comp].phase # "absent"
               PROVE  cr'[rc'[v].comp].finalizer
    BY DEF WorkIsCovered
  <2>1. rc'[v].pc # "idle"  BY DEF Working
  <2>2. CASE Continues(rc[v], rc'[v])
    <3> DEFINE c == rc[v].comp
    <3>1. c \in Components /\ c = rc'[v].comp /\ rc[v].pc \in Working
      BY <1>1, <2>2 DEF Continues
    <3>2. rc[v].tgt.inc <= cr[c].inc /\ cr[c].inc <= cr'[c].inc
      BY <1>4, <3>1 DEF FinalizerInv, NoFutureWork, ObjectsStep
    <3>3. cr[c].inc = rc[v].tgt.inc /\ cr'[c].inc = cr[c].inc
      BY <1>1, <1>2, <2>2, <3>1, <3>2 DEF Continues
    <3>4. cr[c].phase # "absent"
      BY <3>1, <3>3 DEF ObjectsStep
    <3>5. cr[c].finalizer
      BY <3>1, <3>3, <3>4 DEF FinalizerInv, WorkIsCovered
    <3> QED  BY <3>1, <3>3, <3>5 DEF ObjectsStep
  <2>3. CASE Starts(rc'[v])
    BY <2>3 DEF Starts
  <2> QED  BY <2>1, <2>2, <2>3 DEF ReconcilesStep
<1>7. ASSUME NEW r \in res' \ res
      PROVE  /\ r.owner.inc <= cr[r.owner.comp].inc
             /\ LET c == r.owner.comp IN
                cr[c].inc = r.owner.inc /\ cr[c].phase # "absent" => cr[c].finalizer
  <2>1. PICK v \in Workers : rc[v].pc \in Working /\ r.owner = UidOf(rc[v])
    BY <1>7 DEF ResourcesStep
  <2>2. r.owner.comp = rc[v].comp /\ r.owner.inc = rc[v].tgt.inc
    BY <2>1 DEF UidOf
  <2> QED  BY <1>4, <2>1, <2>2 DEF FinalizerInv, NoFutureWork, WorkIsCovered
<1>8. ASSUME NEW r \in res
      PROVE  /\ r.owner.inc <= cr[r.owner.comp].inc
             /\ LET c == r.owner.comp IN
                cr[c].inc = r.owner.inc /\ cr[c].phase # "absent" => cr[c].finalizer
  <2>1. r.owner = [comp |-> r.owner.comp, inc |-> r.owner.inc]
    BY DEF FinalizerInv, TypeInv, TypeOK, Resource, Uid
  <2> QED  BY <1>3, <2>1 DEF FinalizerInv, NoFutureOwners, FinalizerBeforeResources, Owned
<1>9. \A r \in res' :
        /\ r.owner.inc <= cr[r.owner.comp].inc
        /\ LET c == r.owner.comp IN
           cr[c].inc = r.owner.inc /\ cr[c].phase # "absent" => cr[c].finalizer
  BY <1>7, <1>8
<1>10. NoFutureOwners'
  <2> SUFFICES ASSUME NEW r \in res' PROVE r.owner.inc <= cr'[r.owner.comp].inc
    BY DEF NoFutureOwners
  <2>1. cr[r.owner.comp].inc <= cr'[r.owner.comp].inc
    BY <1>3 DEF ObjectsStep
  <2> QED  BY <1>2, <1>3, <1>9, <2>1
<1>11. FinalizerBeforeResources'
  <2> SUFFICES ASSUME NEW c \in Components, cr'[c].phase # "absent", NEW r \in res',
                      r.owner = [comp |-> c, inc |-> cr'[c].inc]
               PROVE  cr'[c].finalizer
    BY DEF FinalizerBeforeResources, Owned
  <2>1. r.owner.comp = c /\ r.owner.inc = cr'[c].inc  OBVIOUS
  <2>2. cr[c].inc <= cr'[c].inc /\ r.owner.inc <= cr[c].inc
    BY <1>9, <2>1 DEF ObjectsStep
  <2>3. cr[c].inc = cr'[c].inc  BY <1>2, <2>1, <2>2
  <2>4. cr[c].phase # "absent"  BY <2>3 DEF ObjectsStep
  <2>5. cr[c].finalizer  BY <1>9, <2>1, <2>3, <2>4
  <2> QED  BY <2>3, <2>5 DEF ObjectsStep
<1> QED  BY <1>5, <1>6, <1>10, <1>11 DEF FinalizerInv

LEMMA SameObjects ==
  ASSUME TypeInv, UNCHANGED cr
  PROVE  ObjectsStep
<1>1. \A c \in Components : cr[c].inc \in Nat  BY DEF TypeInv, TypeOK, Object
<1> QED  BY <1>1 DEF ObjectsStep

LEMMA SameResources ==
  ASSUME res' \subseteq res
  PROVE  ResourcesStep
  BY DEF ResourcesStep

LEMMA Unmoved ==
  ASSUME NEW v \in Workers, rc'[v] = rc[v]
  PROVE  rc'[v].pc = "idle" \/ Continues(rc[v], rc'[v])
  BY DEF Continues

(* Worker w alone moves, to u.                                             *)
LEMMA AdvanceStep ==
  ASSUME TypeInv, NEW w \in Workers, NEW u, Advance(w, u),
         u.pc = "idle" \/ Continues(rc[w], u) \/ Starts(u)
  PROVE  ReconcilesStep
<1>1. rc'[w] = u /\ \A v \in Workers \ {w} : rc'[v] = rc[v]
  BY DEF Advance, TypeInv, TypeOK
<1> QED  BY <1>1, Unmoved DEF ReconcilesStep

LEMMA OnErrorStep ==
  ASSUME TypeInv, NEW w \in Workers, OnError(w)
  PROVE  ReconcilesStep
<1> DEFINE t == rc[w]
<1>1. t \in Reconcile  BY DEF TypeInv, TypeOK
<1>2. CASE ReturnError(w)
  BY <1>2, AdvanceStep, IdleWellFormed DEF ReturnError
<1>3. ASSUME NEW u, Advance(w, RecordError(u)), u \in Reconcile,
             u.comp = t.comp, u.tgt = t.tgt, t.pc \in Working
      PROVE  ReconcilesStep
  <2>1. /\ RecordError(u).comp = u.comp /\ RecordError(u).tgt = u.tgt
    BY <1>3 DEF RecordError, Reconcile
  <2>2. Continues(t, RecordError(u))
    BY <1>3, <2>1 DEF Continues, Working
  <2> QED  BY <1>3, <2>2, AdvanceStep
<1>4. CASE /\ t.pc = "prune"
           /\ Advance(w, RecordError([t EXCEPT !.pc = "create", !.kinds = {}]))
  <2>1. [t EXCEPT !.pc = "create", !.kinds = {}] \in Reconcile
    BY <1>1 DEF Reconcile, PCs
  <2> QED  BY <1>1, <1>3, <1>4, <2>1 DEF Working, Reconcile
<1>5. CASE /\ t.pc = "create"
           /\ Advance(w, RecordError([t EXCEPT !.pc = "patch"]))
  <2>1. [t EXCEPT !.pc = "patch"] \in Reconcile
    BY <1>1 DEF Reconcile, PCs
  <2> QED  BY <1>1, <1>3, <1>5, <2>1 DEF Working, Reconcile
<1>6. CASE /\ t.pc \in {"applyGet", "applyWrite"}
           /\ Advance(w, RecordError([t EXCEPT !.pc = "services", !.exporting = {},
                                               !.batches = {}, !.items = <<>>,
                                               !.found = FALSE]))
  <2>1. <<>> \in Seq(Item)  OBVIOUS
  <2>2. [t EXCEPT !.pc = "services", !.exporting = {}, !.batches = {},
                  !.items = <<>>, !.found = FALSE] \in Reconcile
    BY <1>1, <2>1 DEF Reconcile, PCs
  <2> QED  BY <1>1, <1>3, <1>6, <2>2 DEF Working, Reconcile
<1> QED  BY <1>2, <1>4, <1>5, <1>6 DEF OnError

LEMMA ReplyStep ==
  ASSUME TypeInv, NEW w \in Workers, NEW u, Continues(rc[w], u), Reply(w, u)
  PROVE  ReconcilesStep
  BY AdvanceStep, OnErrorStep DEF Reply

LEMMA InvalidatedStep ==
  ASSUME TypeInv, NEW c, NEW v \in Workers
  PROVE  Invalidated(c)[v].pc = "idle" \/ Continues(rc[v], Invalidated(c)[v])
<1>1. rc[v] \in Reconcile  BY DEF TypeInv, TypeOK
<1> QED  BY <1>1 DEF Invalidated, Continues, Reconcile

(* Writing a CR: the others go on, stale or not.                           *)
LEMMA WriteCRStep ==
  ASSUME TypeInv, NEW w \in Workers, NEW obj, NEW u, NEW retry,
         WriteCR(w, obj, u, retry),
         u.pc = "idle" \/ Continues(rc[w], u) \/ Starts(u)
  PROVE  ReconcilesStep
<1> DEFINE c == rc[w].comp
           stale == IF obj # cr[c] THEN Invalidated(c) ELSE rc
<1>1. PICK lost \in BOOLEAN : rc' = [stale EXCEPT ![w] = IF lost THEN Idle ELSE u]
  BY DEF WriteCR
<1>2. \A v \in Workers : stale[v].pc = "idle" \/ Continues(rc[v], stale[v])
  BY InvalidatedStep, Unmoved DEF Continues
<1>3. DOMAIN stale = Workers
  BY DEF Invalidated, TypeInv, TypeOK
<1> HIDE DEF stale
<1>4. \A v \in Workers \ {w} : rc'[v] = stale[v]
  BY <1>1, <1>3
<1>5. rc'[w] = IF lost THEN Idle ELSE u
  BY <1>1, <1>3
<1> QED  BY <1>2, <1>4, <1>5, IdleWellFormed DEF ReconcilesStep

-------------------------------------------------------------------------------
(* Each action is such a step.                                             *)

LEMMA EnterPruneFields ==
  ASSUME NEW t, WellFormed(t)
  PROVE  /\ EnterPrune(t).comp = t.comp
         /\ EnterPrune(t).tgt = t.tgt
         /\ EnterPrune(t).pc # "idle"
  BY DEF EnterPrune, WellFormed, Reconcile

LEMMA FetchStep ==
  ASSUME TypeInv, NEW w \in Workers, NEW c \in Components, Fetch(w, c)
  PROVE  ObjectsStep /\ ReconcilesStep /\ ResourcesStep
<1> DEFINE t == [Idle EXCEPT !.comp = c, !.tgt = cr[c], !.fresh = TRUE]
<1>1. cr[c] \in Object  BY DEF TypeInv, TypeOK
<1>2. WellFormed(t)
  BY <1>1, IdleWellFormed DEF WellFormed, Reconcile
<1>3. t \in Reconcile /\ t.comp = c /\ t.tgt = cr[c]
  BY <1>2, IdleWellFormed DEF WellFormed, Reconcile
<1>4. UNCHANGED <<cr, res>>  BY DEF Fetch
<1>5. ReconcilesStep
  <2>1. CASE UNCHANGED rc
    BY <2>1, Unmoved DEF ReconcilesStep
  <2>2. CASE Advance(w, [t EXCEPT !.pc = "cleanup",
                                  !.kinds = routingResourceGVKs(Modes(t))])
    <3> DEFINE u == [t EXCEPT !.pc = "cleanup", !.kinds = routingResourceGVKs(Modes(t))]
    <3>1. u.comp = c /\ u.tgt = cr[c] /\ u.pc = "cleanup"
      BY <1>3 DEF Reconcile
    <3>2. Starts(u)  BY <1>4, <3>1 DEF Starts, Working
    <3> QED  BY <2>2, <3>2, AdvanceStep
  <2>3. CASE Advance(w, ensureResourceHasFinalizer(t))
    <3> DEFINE f == [t EXCEPT !.pc = "finalizer", !.tgt.finalizer = TRUE]
    <3>1. CASE t.tgt.finalizer
      <4>1. Starts(EnterPrune(t))
        BY <1>2, <1>3, <1>4, <3>1, EnterPruneFields DEF Starts
      <4> QED  BY <2>3, <3>1, <4>1, AdvanceStep DEF ensureResourceHasFinalizer
    <3>2. CASE ~t.tgt.finalizer
      <4>1. f.comp = c /\ f.tgt.inc = cr[c].inc /\ f.pc = "finalizer"
        BY <1>1, <1>3 DEF Reconcile, Object
      <4>2. Starts(f)  BY <1>4, <4>1 DEF Starts, Working
      <4> QED  BY <2>3, <3>2, <4>2, AdvanceStep DEF ensureResourceHasFinalizer
    <3> QED  BY <3>1, <3>2
  <2> QED  BY <2>1, <2>2, <2>3 DEF Fetch
<1> QED  BY <1>4, <1>5, SameObjects, SameResources

LEMMA PatchGetStep ==
  ASSUME TypeInv, NEW w \in Workers, PatchGet(w)
  PROVE  ObjectsStep /\ ReconcilesStep /\ ResourcesStep
<1> DEFINE t == rc[w]
           u == [t EXCEPT
                  !.pc = IF t.pc = "finalizer" THEN "finalizerSend" ELSE "patchSend",
                  !.diff = {m \in AllRouteTypes : t.tgt.addr[m] # cr[t.comp].addr[m]}]
<1>1. t \in Reconcile /\ t.pc \in {"finalizer", "patch"}
  BY DEF PatchGet, TypeInv, TypeOK
<1>2. u.comp = t.comp /\ u.tgt = t.tgt /\ (u.pc \in Working => t.pc \in Working)
  BY <1>1 DEF Reconcile, Working
<1>3. Continues(t, u)  BY <1>1, <1>2 DEF Continues
<1>4. ReconcilesStep
  BY <1>3, AdvanceStep, IdleWellFormed DEF PatchGet, ReturnError
<1> QED  BY <1>4, SameObjects, SameResources DEF PatchGet

LEMMA PatchSendStep ==
  ASSUME TypeInv, NEW w \in Workers, PatchSend(w)
  PROVE  ObjectsStep /\ ReconcilesStep /\ ResourcesStep
<1> DEFINE t == rc[w]
           stored == cr[t.comp]
           obj == [stored EXCEPT
                     !.finalizer = IF t.pc = "finalizerSend" THEN TRUE ELSE @,
                     !.addr = [m \in AllRouteTypes |->
                                 IF m \in t.diff THEN t.tgt.addr[m] ELSE @[m]]]
           u == [t EXCEPT !.tgt = obj, !.fresh = TRUE, !.diff = {}]
<1>1. /\ t \in Reconcile /\ WellFormed(t) /\ t.comp \in Components
      /\ t.pc \in {"finalizerSend", "patchSend"}
      /\ stored \in Object /\ stored.inc \in Nat
  BY DEF PatchSend, TypeInv, TypeOK, Object
<1>2. /\ obj.inc = stored.inc /\ obj.phase = stored.phase
      /\ stored.finalizer => obj.finalizer
      /\ t.pc = "finalizerSend" => obj.finalizer
  BY <1>1 DEF Object
<1>3. obj \in Object
  <2>1. [m \in AllRouteTypes |-> IF m \in t.diff THEN t.tgt.addr[m] ELSE stored.addr[m]]
          \in [AllRouteTypes -> SUBSET Endpoint]
    BY <1>1 DEF Reconcile, Object
  <2> QED  BY <1>1, <2>1 DEF Object
<1> HIDE DEF obj
<1>4. /\ EnterPrune(u).comp = t.comp /\ EnterPrune(u).tgt = obj
      /\ EnterPrune(u).pc # "idle"
  <2>1. WellFormed(u) /\ u.comp = t.comp /\ u.tgt = obj
    BY <1>1, <1>3 DEF WellFormed, Reconcile
  <2> QED  BY <2>1, EnterPruneFields
<1> HIDE DEF u
<1>5. CASE ReturnError(w) /\ UNCHANGED <<cr, faults>>
  BY <1>5, SameObjects, SameResources, AdvanceStep, IdleWellFormed
  DEF PatchSend, ReturnError
<1>6. ASSUME NEW x, NEW retry, WriteCR(w, obj, x, retry)
      PROVE  ObjectsStep /\ cr'[t.comp] = obj
  <2>1. cr' = [cr EXCEPT ![t.comp] = obj]  BY <1>6 DEF WriteCR
  <2>2. cr'[t.comp] = obj /\ \A c \in Components \ {t.comp} : cr'[c] = cr[c]
    BY <1>1, <2>1 DEF TypeInv, TypeOK
  <2>3. \A c \in Components : cr[c].inc \in Nat
    BY DEF TypeInv, TypeOK, Object
  <2> QED  BY <1>2, <2>2, <2>3 DEF ObjectsStep
<1>7. CASE t.pc = "finalizerSend" /\ WriteCR(w, obj, EnterPrune(u), FALSE)
  <2>1. Starts(EnterPrune(u))
    BY <1>2, <1>4, <1>6, <1>7 DEF Starts
  <2> QED  BY <1>6, <1>7, <2>1, WriteCRStep, SameResources DEF PatchSend
<1>8. CASE WriteCR(w, obj, Idle, t.err)
  BY <1>6, <1>8, WriteCRStep, IdleWellFormed, SameResources DEF PatchSend
<1> QED  BY <1>5, <1>7, <1>8 DEF PatchSend, obj, u

LEMMA deleteOwnedResourcesStep ==
  ASSUME TypeInv, NEW w \in Workers, NEW kind, deleteOwnedResources(w, kind)
  PROVE  ObjectsStep /\ ReconcilesStep /\ ResourcesStep
<1> DEFINE t == rc[w]
           done == IF t.pc = "prune" THEN "create" ELSE "unfinalize"
           u == [t EXCEPT !.pc = IF t.kinds = {kind} THEN done ELSE @,
                          !.kinds = @ \ {kind}]
<1>1. t \in Reconcile /\ t.pc \in {"prune", "cleanup"}
  BY DEF deleteOwnedResources, DeleteAllOf, TypeInv, TypeOK
<1>2. u.comp = t.comp /\ u.tgt = t.tgt /\ (u.pc \in Working => t.pc \in Working)
  BY <1>1 DEF Reconcile, Working
<1>3. Continues(t, u)  BY <1>1, <1>2 DEF Continues
<1>4. ReconcilesStep  BY <1>3, ReplyStep DEF deleteOwnedResources, DeleteAllOf
<1>5. res' \subseteq res /\ UNCHANGED cr  BY DEF deleteOwnedResources, DeleteAllOf
<1> QED  BY <1>4, <1>5, SameObjects, SameResources

(* An object that goes keeps its incarnation number.                       *)
LEMMA GoneFields ==
  ASSUME NEW obj
  PROVE  Gone(obj).inc = obj.inc /\ Gone(obj).phase = "absent"
  BY DEF Gone, NoObject

LEMMA removeFinalizerStep ==
  ASSUME TypeInv, NEW w \in Workers, removeFinalizer(w)
  PROVE  ObjectsStep /\ ReconcilesStep /\ ResourcesStep
<1> DEFINE t == rc[w]
<1>1. t.comp \in Components  BY DEF removeFinalizer, TypeInv, TypeOK
<1>2. CASE ReturnError(w) /\ UNCHANGED <<cr, faults>>
  BY <1>2, SameObjects, SameResources, AdvanceStep, IdleWellFormed
  DEF removeFinalizer, ReturnError
<1>3. CASE WriteCR(w, Gone(cr[t.comp]), Idle, FALSE)
  <2>1. cr' = [cr EXCEPT ![t.comp] = Gone(cr[t.comp])]  BY <1>3 DEF WriteCR
  <2>2. /\ cr'[t.comp] = Gone(cr[t.comp])
        /\ \A c \in Components \ {t.comp} : cr'[c] = cr[c]
    BY <1>1, <2>1 DEF TypeInv, TypeOK
  <2>3. \A c \in Components : cr[c].inc \in Nat
    BY DEF TypeInv, TypeOK, Object
  <2>4. ObjectsStep  BY <2>2, <2>3, GoneFields DEF ObjectsStep
  <2> QED  BY <1>3, <2>4, WriteCRStep, IdleWellFormed, SameResources DEF removeFinalizer
<1> QED  BY <1>2, <1>3 DEF removeFinalizer

(* Steps that only move the worker's own record on, within the work.       *)
LEMMA LocalStep ==
  ASSUME TypeInv, NEW w \in Workers, NEW u, Advance(w, u), UNCHANGED <<cr, res>>,
         u.comp = rc[w].comp, u.tgt.inc = rc[w].tgt.inc, rc[w].pc \in Working
  PROVE  ObjectsStep /\ ReconcilesStep /\ ResourcesStep
<1>1. Continues(rc[w], u)  BY DEF Continues, Working
<1> QED  BY <1>1, AdvanceStep, SameObjects, SameResources

LEMMA ListServicesStep ==
  ASSUME TypeInv, NEW w \in Workers, ListServices(w)
  PROVE  ObjectsStep /\ ReconcilesStep /\ ResourcesStep
<1> DEFINE t == rc[w]
           u1 == NoneExported(t)
           u2 == RecordError([t EXCEPT !.pc = "patch"])
           u3 == [t EXCEPT !.pc = "services", !.pending = Listed(t.comp)]
<1>1. t \in Reconcile /\ t.pc \in Working  BY DEF ListServices, TypeInv, TypeOK, Working
<1>2. u1.comp = t.comp /\ u1.tgt.inc = t.tgt.inc  BY <1>1 DEF Reconcile, Object, NoneExported
<1>3. u2.comp = t.comp /\ u2.tgt.inc = t.tgt.inc  BY <1>1 DEF Reconcile, RecordError
<1>4. u3.comp = t.comp /\ u3.tgt.inc = t.tgt.inc  BY <1>1 DEF Reconcile
<1>5. Advance(w, u1) \/ Advance(w, u2) \/ Advance(w, u3)  BY DEF ListServices
<1>6. UNCHANGED <<cr, res>>  BY DEF ListServices
<1> HIDE DEF u1, u2, u3
<1> QED  BY <1>1, <1>2, <1>3, <1>4, <1>5, <1>6, LocalStep

LEMMA ExportNextStep ==
  ASSUME TypeInv, NEW w \in Workers, ExportNext(w)
  PROVE  ObjectsStep /\ ReconcilesStep /\ ResourcesStep
<1> DEFINE t == rc[w]
           u1 == [t EXCEPT !.pc = "patch"]
<1>1. t \in Reconcile /\ t.pc \in Working  BY DEF ExportNext, TypeInv, TypeOK, Working
<1>2. u1.comp = t.comp /\ u1.tgt.inc = t.tgt.inc  BY <1>1 DEF Reconcile
<1>3. \A s : /\ Exporting(t, s).comp = t.comp
             /\ Exporting(t, s).tgt.inc = t.tgt.inc
  BY <1>1 DEF Reconcile, Exporting
<1>4. Advance(w, u1) \/ \E s : Advance(w, Exporting(t, s))  BY DEF ExportNext
<1>5. UNCHANGED <<cr, res>>  BY DEF ExportNext
<1> HIDE DEF u1
<1> QED  BY <1>1, <1>2, <1>3, <1>4, <1>5, LocalStep

LEMMA LoadBatchStep ==
  ASSUME TypeInv, NEW w \in Workers, NEW b, LoadBatch(w, b)
  PROVE  ObjectsStep /\ ReconcilesStep /\ ResourcesStep
<1> DEFINE t == rc[w]
           kinds == Load(b.mode)
           u == [t EXCEPT
                  !.pc = "applyGet", !.batches = @ \ {b},
                  !.items = [i \in DOMAIN kinds |->
                    [mode |-> b.mode, kind |-> kinds[i], backend |-> b.backend]]]
<1>1. t \in Reconcile /\ t.pc \in Working  BY DEF LoadBatch, TypeInv, TypeOK, Working
<1>2. u.comp = t.comp /\ u.tgt.inc = t.tgt.inc  BY <1>1 DEF Reconcile
<1>3. Advance(w, u) /\ UNCHANGED <<cr, res>>  BY DEF LoadBatch
<1> HIDE DEF u
<1> QED  BY <1>1, <1>2, <1>3, LocalStep

LEMMA ApplyGetStep ==
  ASSUME TypeInv, NEW w \in Workers, ApplyGet(w)
  PROVE  ObjectsStep /\ ReconcilesStep /\ ResourcesStep
<1> DEFINE t == rc[w]
           u == [t EXCEPT !.pc = "applyWrite", !.found = Occupants(t) # {}]
<1>1. t \in Reconcile /\ t.pc \in Working  BY DEF ApplyGet, TypeInv, TypeOK, Working
<1>2. u.comp = t.comp /\ u.tgt.inc = t.tgt.inc  BY <1>1 DEF Reconcile
<1>3. Advance(w, u) /\ UNCHANGED <<cr, res>>  BY DEF ApplyGet
<1> HIDE DEF u
<1> QED  BY <1>1, <1>2, <1>3, LocalStep

LEMMA ApplyWriteStep ==
  ASSUME TypeInv, NEW w \in Workers, ApplyWrite(w)
  PROVE  ObjectsStep /\ ReconcilesStep /\ ResourcesStep
<1> DEFINE t == rc[w]
           u == [t EXCEPT !.pc = IF Len(t.items) = 1 THEN "batches" ELSE "applyGet",
                          !.items = Tail(@), !.found = FALSE]
<1>1. t \in Reconcile /\ t.pc = "applyWrite" /\ t.pc \in Working
  BY DEF ApplyWrite, TypeInv, TypeOK, Working
<1>2. u.comp = t.comp /\ u.tgt = t.tgt  BY <1>1 DEF Reconcile
<1>3. Continues(t, u)  BY <1>1, <1>2 DEF Continues
<1>4. ReconcilesStep  BY <1>3, ReplyStep DEF ApplyWrite
<1>5. ResourcesStep
  <2>1. \A r \in res' : r \in res \/ r = Rendered(t)  BY DEF ApplyWrite
  <2>2. Rendered(t).owner = UidOf(t)  BY DEF Rendered
  <2> QED  BY <1>1, <2>1, <2>2 DEF ResourcesStep
<1>6. UNCHANGED cr  BY DEF ApplyWrite
<1> QED  BY <1>4, <1>5, <1>6, SameObjects

LEMMA propagateStep ==
  ASSUME TypeInv, NEW w \in Workers, propagateHostsToWatchedCR(w)
  PROVE  ObjectsStep /\ ReconcilesStep /\ ResourcesStep
<1> DEFINE t == rc[w]
           u == [t EXCEPT !.pc = "services", !.exporting = {},
                          !.tgt.addr = Addresses(t)]
<1>1. t \in Reconcile /\ t.pc \in Working
  BY DEF propagateHostsToWatchedCR, TypeInv, TypeOK, Working
<1>2. u.comp = t.comp /\ u.tgt.inc = t.tgt.inc  BY <1>1 DEF Reconcile, Object
<1>3. Advance(w, u) /\ UNCHANGED <<cr, res>>  BY DEF propagateHostsToWatchedCR
<1> HIDE DEF u
<1> QED  BY <1>1, <1>2, <1>3, LocalStep

(* A user's write: nothing loses the finalizer, and a new object is a new  *)
(* incarnation.                                                            *)
LEMMA UserStep ==
  ASSUME TypeInv, NEW c \in Components, User(c)
  PROVE  ObjectsStep /\ ReconcilesStep /\ ResourcesStep
<1>1. cr[c] \in Object /\ cr[c].inc \in Nat  BY DEF TypeInv, TypeOK, Object
<1>2. ASSUME NEW obj, UserWrite(c, obj), cr[c].inc <= obj.inc,
             obj.inc = cr[c].inc /\ obj.phase # "absent" =>
               cr[c].phase # "absent" /\ obj.finalizer = cr[c].finalizer
      PROVE  ObjectsStep /\ ReconcilesStep /\ ResourcesStep
  <2>1. cr'[c] = obj /\ \A d \in Components \ {c} : cr'[d] = cr[d]
    BY <1>2 DEF UserWrite, TypeInv, TypeOK
  <2>2. \A d \in Components : cr[d].inc \in Nat  BY DEF TypeInv, TypeOK, Object
  <2>3. ObjectsStep  BY <1>2, <2>1, <2>2 DEF ObjectsStep
  <2>4. rc' = Invalidated(c)  BY <1>2 DEF UserWrite
  <2>5. ReconcilesStep  BY <2>4, InvalidatedStep DEF ReconcilesStep
  <2> QED  BY <1>2, <2>3, <2>5, SameResources DEF UserWrite
<1>3. ASSUME NEW E, CreateCR(c, E)
      PROVE  ObjectsStep /\ ReconcilesStep /\ ResourcesStep
  <2> DEFINE obj == [NoObject EXCEPT !.phase = "live", !.inc = cr[c].inc + 1,
                                     !.exports = E]
  <2>1. obj.inc = cr[c].inc + 1  BY NoObjectType DEF Object
  <2>2. UserWrite(c, obj)  BY <1>3 DEF CreateCR
  <2> HIDE DEF obj
  <2> QED  BY <1>1, <1>2, <2>1, <2>2
<1>4. ASSUME NEW E, SetExportModes(c, E)
      PROVE  ObjectsStep /\ ReconcilesStep /\ ResourcesStep
  <2> DEFINE obj == [cr[c] EXCEPT !.exports = E]
  <2>1. obj.inc = cr[c].inc /\ obj.finalizer = cr[c].finalizer  BY <1>1 DEF Object
  <2>2. UserWrite(c, obj) /\ cr[c].phase # "absent"  BY <1>4 DEF SetExportModes
  <2> HIDE DEF obj
  <2> QED  BY <1>1, <1>2, <2>1, <2>2
<1>5. CASE TouchCR(c)
  BY <1>1, <1>2, <1>5 DEF TouchCR
<1>6. CASE DeleteCR(c)
  <2> DEFINE obj == [cr[c] EXCEPT !.phase = "terminating"]
  <2>1. obj.inc = cr[c].inc /\ obj.finalizer = cr[c].finalizer  BY <1>1 DEF Object
  <2>2. UserWrite(c, obj) \/ UserWrite(c, Gone(cr[c]))  BY <1>6 DEF DeleteCR
  <2>3. cr[c].phase # "absent"  BY <1>6 DEF DeleteCR
  <2> HIDE DEF obj
  <2> QED  BY <1>1, <1>2, <2>1, <2>2, <2>3, GoneFields
<1> QED  BY <1>3, <1>4, <1>5, <1>6 DEF User

LEMMA InitFinalizerInv == Init => FinalizerInv
<1> SUFFICES ASSUME Init PROVE FinalizerInv  OBVIOUS
<1>1. \A w \in Workers : rc[w].pc = "idle"  BY IdleWellFormed DEF Init
<1>2. NoFutureWork /\ WorkIsCovered
  BY <1>1 DEF NoFutureWork, WorkIsCovered, Working
<1>3. NoFutureOwners /\ FinalizerBeforeResources
  BY DEF Init, NoFutureOwners, FinalizerBeforeResources, Owned
<1> QED  BY <1>2, <1>3, InitType DEF FinalizerInv

LEMMA NextSteps == TypeInv /\ [Next]_vars => ObjectsStep /\ ReconcilesStep /\ ResourcesStep
<1> SUFFICES ASSUME TypeInv, [Next]_vars
             PROVE  ObjectsStep /\ ReconcilesStep /\ ResourcesStep
  OBVIOUS
<1>1. ASSUME NEW w \in Workers, Step(w)
      PROVE  ObjectsStep /\ ReconcilesStep /\ ResourcesStep
  BY <1>1, FetchStep, PatchGetStep, PatchSendStep, deleteOwnedResourcesStep,
     removeFinalizerStep, ListServicesStep, ExportNextStep, LoadBatchStep,
     ApplyGetStep, ApplyWriteStep, propagateStep
  DEF Step
<1>2. ASSUME NEW w \in Workers, ApiError(w)
      PROVE  ObjectsStep /\ ReconcilesStep /\ ResourcesStep
  BY <1>2, OnErrorStep, SameObjects, SameResources DEF ApiError
<1>3. ASSUME NEW w \in Workers, Crash(w)
      PROVE  ObjectsStep /\ ReconcilesStep /\ ResourcesStep
  BY <1>3, AdvanceStep, IdleWellFormed, SameObjects, SameResources DEF Crash
<1>4. ASSUME NEW c \in Components, User(c)
      PROVE  ObjectsStep /\ ReconcilesStep /\ ResourcesStep
  BY <1>4, UserStep
<1>5. ASSUME UNCHANGED <<cr, rc, res>>
      PROVE  ObjectsStep /\ ReconcilesStep /\ ResourcesStep
  BY <1>5, Unmoved, SameObjects, SameResources DEF ReconcilesStep
<1> QED  BY <1>1, <1>2, <1>3, <1>4, <1>5 DEF Next, ServiceOwner, ChangeService, RemoveService, vars

LEMMA NextFinalizerInv == FinalizerInv /\ [Next]_vars => FinalizerInv'
  BY NextType, NextSteps, FinalizerInvKept DEF FinalizerInv

(* Whatever was created for an object that still exists is covered by the  *)
(* finalizer on it: for any number of managers that reconcile the same     *)
(* objects at the same time, through conflicts, lost replies and crashes.  *)
THEOREM FinalizerFirst == Spec => []FinalizerBeforeResources
<1>1. FinalizerInv => FinalizerBeforeResources  BY DEF FinalizerInv
<1> QED  BY <1>1, InitFinalizerInv, NextFinalizerInv, PTL DEF Spec


-------------------------------------------------------------------------------
(* What a worker's step does to the other workers.                         *)

(* v does not move; its copy of the object may become outdated, and it may *)
(* be given more to do.                                                    *)
OnlyAges(v) == rc'[v] = rc[v] \/ rc'[v] = [rc[v] EXCEPT !.fresh = FALSE]
Waits(v)    == OnlyAges(v) /\ queue[v] \subseteq queue'[v]

LEMMA AdvanceWait ==
  ASSUME TypeInv, NEW w \in Workers, NEW u, Advance(w, u),
         \A v \in Workers \ {w} : queue'[v] = queue[v]
  PROVE  rc'[w] = u /\ \A v \in Workers \ {w} : Waits(v)
  BY DEF Advance, OnlyAges, Waits, TypeInv, TypeOK

LEMMA ReturnErrorWait ==
  ASSUME TypeInv, NEW w \in Workers, ReturnError(w)
  PROVE  /\ rc'[w] = Idle /\ queue'[w] = queue[w] \cup {rc[w].comp}
         /\ \A v \in Workers \ {w} : Waits(v)
<1>1. /\ queue'[w] = queue[w] \cup {rc[w].comp}
      /\ \A v \in Workers \ {w} : queue'[v] = queue[v]
  BY DEF ReturnError, TypeInv, TypeOK
<1> QED  BY <1>1, AdvanceWait DEF ReturnError

LEMMA OnErrorWait ==
  ASSUME TypeInv, NEW w \in Workers, OnError(w)
  PROVE  \A v \in Workers \ {w} : Waits(v)
<1>1. CASE ReturnError(w)  BY <1>1, ReturnErrorWait
<1>2. CASE UNCHANGED queue /\ \E u : Advance(w, u)  BY <1>2, AdvanceWait
<1> QED  BY <1>1, <1>2 DEF OnError

LEMMA WriteCRWait ==
  ASSUME TypeInv, NEW w \in Workers, NEW obj, NEW u, NEW retry, WriteCR(w, obj, u, retry)
  PROVE  /\ rc'[w] = u \/ rc'[w] = Idle
         /\ \A v \in Workers \ {w} : Waits(v)
<1> DEFINE c == rc[w].comp
           stale == IF obj # cr[c] THEN Invalidated(c) ELSE rc
           notified == IF obj # cr[c] THEN Notified(c) ELSE queue
<1>1. PICK lost \in BOOLEAN :
        /\ rc' = [stale EXCEPT ![w] = IF lost THEN Idle ELSE u]
        /\ queue' = [notified EXCEPT ![w] = IF lost \/ retry THEN @ \cup {c} ELSE @]
  BY DEF WriteCR
<1>2. DOMAIN stale = Workers /\ DOMAIN notified = Workers
  BY DEF Invalidated, Notified, TypeInv, TypeOK
<1>3. \A v \in Workers : /\ stale[v] = rc[v] \/ stale[v] = [rc[v] EXCEPT !.fresh = FALSE]
                         /\ queue[v] \subseteq notified[v]
  BY DEF Invalidated, Notified
<1> HIDE DEF stale, notified
<1> QED  BY <1>1, <1>2, <1>3 DEF OnlyAges, Waits

LEMMA OthersWait ==
  ASSUME TypeInv, NEW w \in Workers, Step(w) \/ ApiError(w) \/ Crash(w)
  PROVE  \A v \in Workers \ {w} : Waits(v)
<1> DEFINE Goal == \A v \in Workers \ {w} : Waits(v)
<1>1. CASE \E u : Advance(w, u) /\ UNCHANGED queue  BY <1>1, AdvanceWait
<1>2. CASE \E c \in Components : Fetch(w, c)
  <2>1. \A v \in Workers \ {w} : queue'[v] = queue[v]
    BY <1>2 DEF Fetch, TypeInv, TypeOK
  <2>2. CASE UNCHANGED rc  BY <2>1, <2>2 DEF Waits, OnlyAges
  <2>3. CASE \E u : Advance(w, u)  BY <2>1, <2>3, AdvanceWait
  <2> QED  BY <1>2, <2>2, <2>3 DEF Fetch
<1>3. CASE PatchGet(w)  BY <1>1, <1>3, ReturnErrorWait DEF PatchGet
<1>4. CASE PatchSend(w)  BY <1>4, ReturnErrorWait, WriteCRWait DEF PatchSend
<1>5. CASE \E k \in Kinds : deleteOwnedResources(w, k)
  BY <1>1, <1>5, OnErrorWait DEF deleteOwnedResources, DeleteAllOf, Reply
<1>6. CASE removeFinalizer(w)  BY <1>6, ReturnErrorWait, WriteCRWait DEF removeFinalizer
<1>7. CASE ListServices(w)  BY <1>1, <1>7 DEF ListServices
<1>8. CASE ExportNext(w)  BY <1>1, <1>8 DEF ExportNext
<1>9. CASE \E b \in rc[w].batches : LoadBatch(w, b)  BY <1>1, <1>9 DEF LoadBatch
<1>10. CASE ApplyGet(w)  BY <1>1, <1>10 DEF ApplyGet
<1>11. CASE ApplyWrite(w)  BY <1>1, <1>11, OnErrorWait DEF ApplyWrite, Reply
<1>12. CASE propagateHostsToWatchedCR(w)  BY <1>1, <1>12 DEF propagateHostsToWatchedCR
<1>13. CASE ApiError(w)  BY <1>13, OnErrorWait DEF ApiError
<1>14. CASE Crash(w)
  <2>1. \A v \in Workers \ {w} : queue'[v] = queue[v]
    BY <1>14 DEF Crash, TypeInv, TypeOK
  <2> QED  BY <1>14, <2>1, AdvanceWait DEF Crash
<1> QED
  BY <1>2, <1>3, <1>4, <1>5, <1>6, <1>7, <1>8, <1>9, <1>10, <1>11, <1>12, <1>13, <1>14
  DEF Step
===============================================================================
