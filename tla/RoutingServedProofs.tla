-------------------------- MODULE RoutingServedProofs --------------------------
(***************************************************************************)
(* What the routing controller advertises is served, and what it serves is *)
(* advertised: for every set of components, workers and services and for   *)
(* every bound.                                                            *)
(*                                                                         *)
(* The first needs more than RoutingSettledProofs: every watched kind has  *)
(* one worker (Apart), and no two endpoints share a name in the gateway    *)
(* namespace (OwnNames).  Then nobody else makes, replaces or deletes a    *)
(* resource that a reconcile has made for an address, and what has been    *)
(* made since the reconcile started is still there when it ends.           *)
(*                                                                         *)
(* The second needs neither: what may get lost is not the resource but its *)
(* address, when a component has a second service (OneService) or a        *)
(* service loses a port (PortsStay).                                       *)
(***************************************************************************)
EXTENDS RoutingSettledProofs

(* A name in the gateway namespace belongs to one endpoint of one          *)
(* component.                                                              *)
OwnNames ==
  \A c, d \in Components, e, f \in Endpoint :
    /\ e.svc \in Selects[c] /\ f.svc \in Selects[d]
    /\ PublicServiceName[e] = PublicServiceName[f]
    => c = d /\ e = f

-------------------------------------------------------------------------------
(* How far a reconcile has come.  R is the set of resources there are.     *)

Needed(uid, m, e, k) ==
  [mode |-> m, kind |-> k, name |-> PublicServiceName[e],
   owner |-> uid, type |-> m, backend |-> e]

ServedIn(R, uid, m, e) == \A i \in DOMAIN Load(m) : Needed(uid, m, e, Load(m)[i]) \in R

AddressesServed(R, t) ==
  \A m \in AllRouteTypes : \A e \in t.tgt.addr[m] : ServedIn(R, UidOf(t), m, e)

(* What is not served yet is still to be rendered or applied.              *)
Awaits(t, m, e, k) ==
  \E j \in DOMAIN t.items :
    t.items[j].mode = m /\ t.items[j].kind = k /\ t.items[j].backend = e

Underway(R, t, m, e) ==
  \/ \E b \in t.batches : b.mode = m /\ b.backend = e
  \/ \A i \in DOMAIN Load(m) :
       Needed(UidOf(t), m, e, Load(m)[i]) \in R \/ Awaits(t, m, e, Load(m)[i])

Free(R, t) == \A r \in R : Identity(r) # Identity(Rendered(t))

Progress(R, t) ==
  ~t.err =>
    /\ t.pc = "services" /\ t.pending = {} => AddressesServed(R, t)
    /\ t.pc \in {"patch", "patchSend"} => AddressesServed(R, t)
    /\ t.pc \in {"batches", "applyGet", "applyWrite"} =>
         \A m \in Modes(t), e \in t.exporting : Underway(R, t, m, e)
    /\ t.pc = "applyWrite" => t.found \/ Free(R, t)

(* A reconcile has to do with endpoints of its own component only.         *)
Owns(t) ==
  /\ \A m \in AllRouteTypes : \A e \in t.tgt.addr[m] : e.svc \in Selects[t.comp]
  /\ \A s \in t.pending : s.name \in Selects[t.comp]
  /\ \A e \in t.exporting : e.svc \in Selects[t.comp]
  /\ \A b \in t.batches : b.backend.svc \in Selects[t.comp]
  /\ \A i \in DOMAIN t.items : t.items[i].backend.svc \in Selects[t.comp]
  /\ t.pc \notin {"applyGet", "applyWrite"} => t.items = <<>>

OwnAddresses(c) == \A m \in AllRouteTypes : \A e \in cr[c].addr[m] : e.svc \in Selects[c]

OwnInv == /\ \A c \in Components : OwnAddresses(c)
          /\ \A w \in Workers : Owns(rc[w])

ServedInv ==
  /\ KnownInv
  /\ OwnInv
  /\ \A w \in Workers : Progress(res, rc[w])
  /\ AdvertisedIsServed

-------------------------------------------------------------------------------
(* What the others do to the resources of a component.                     *)

Named(c, n) == \E e \in Endpoint : e.svc \in Selects[c] /\ n = PublicServiceName[e]

(* All that is made, and all that is taken from c, has a name of d.        *)
Touches(d, c) ==
  /\ \A r \in res \ res' : r.owner.comp # c \/ Named(d, r.name)
  /\ \A r \in res' \ res : Named(d, r.name)

(* A deletion by w, which is by route type, takes nothing of c.            *)
Spares(w, c) == \A k \in Kinds :
  deleteOwnedResources(w, k) => \A r \in res \ res' : r.owner.comp # c

(* Nothing is taken of another component: part of what DeletesOnlyOwned    *)
(* promises, and the code does not see to.  It is assumed where several    *)
(* components share the gateway namespace.                                 *)
NothingTaken == \A w \in Workers, c \in Components : rc[w].comp # c => Spares(w, c)

(* What is there for component c stays, what is free stays free.           *)
Safe(c) ==
  \A m \in AllRouteTypes, e \in Endpoint, k \in Kinds : e.svc \in Selects[c] =>
    /\ \A n \in Nat : LET r == Needed([comp |-> c, inc |-> n], m, e, k)
                      IN r \in res => r \in res'
    /\ LET i == [mode |-> m, kind |-> k, name |-> PublicServiceName[e]]
       IN (\A r \in res : Identity(r) # i) => (\A r \in res' : Identity(r) # i)

LEMMA NeededFields ==
  ASSUME NEW uid, NEW m, NEW e, NEW k
  PROVE  LET r == Needed(uid, m, e, k) IN
         /\ r.owner = uid /\ r.mode = m /\ r.kind = k /\ r.name = PublicServiceName[e]
         /\ r.type = m /\ r.backend = e
         /\ Identity(r) = [mode |-> m, kind |-> k, name |-> PublicServiceName[e]]
  BY DEF Needed, Identity

LEMMA TouchesSafe ==
  ASSUME OwnNames, NEW c \in Components, NEW d \in Components, c # d, Touches(d, c)
  PROVE  Safe(c)
<1> SUFFICES ASSUME NEW m \in AllRouteTypes, NEW e \in Endpoint, NEW k \in Kinds,
                    e.svc \in Selects[c]
             PROVE  /\ \A n \in Nat : LET r == Needed([comp |-> c, inc |-> n], m, e, k)
                                      IN r \in res => r \in res'
                    /\ LET i == [mode |-> m, kind |-> k, name |-> PublicServiceName[e]]
                       IN (\A r \in res : Identity(r) # i) => (\A r \in res' : Identity(r) # i)
  BY DEF Safe
<1>1. ~Named(d, PublicServiceName[e])  BY DEF OwnNames, Named
<1>2. ASSUME NEW n \in Nat, Needed([comp |-> c, inc |-> n], m, e, k) \in res
      PROVE  Needed([comp |-> c, inc |-> n], m, e, k) \in res'
  <2> DEFINE r == Needed([comp |-> c, inc |-> n], m, e, k)
  <2>1. r.owner.comp = c /\ r.name = PublicServiceName[e]  BY NeededFields
  <2> HIDE DEF r
  <2>2. r \in res  BY <1>2 DEF r
  <2>3. r \in res'  BY <1>1, <2>1, <2>2 DEF Touches
  <2> QED  BY <2>3 DEF r
<1>3. ASSUME NEW r \in res',
             Identity(r) = [mode |-> m, kind |-> k, name |-> PublicServiceName[e]]
      PROVE  r \in res
  <2>1. r.name = PublicServiceName[e]  BY <1>3 DEF Identity
  <2> QED  BY <1>1, <2>1 DEF Touches
<1> QED  BY <1>2, <1>3

LEMMA SameSafe ==
  ASSUME UNCHANGED res, NEW c
  PROVE  Safe(c)
  BY DEF Safe

LEMMA TemplateType ==
  ASSUME NEW m
  PROVE  \A i \in DOMAIN Load(m) : Load(m)[i] \in Kinds
  BY DEF Load, externalRouteTemplate, publicRouteTemplate, Kinds

LEMMA SafeServed ==
  ASSUME NEW c, Safe(c), NEW n \in Nat, NEW m \in AllRouteTypes,
         NEW e \in Endpoint, e.svc \in Selects[c],
         ServedIn(res, [comp |-> c, inc |-> n], m, e)
  PROVE  ServedIn(res', [comp |-> c, inc |-> n], m, e)
  BY TemplateType DEF Safe, ServedIn

(* A worker that waits keeps what it has achieved.                         *)
LEMMA WaitsServes ==
  ASSUME KnownInv, NEW v \in Workers, OnlyAges(v), Owns(rc[v])
  PROVE  /\ Owns(rc'[v])
         /\ Safe(rc[v].comp) /\ Progress(res, rc[v]) => Progress(res', rc'[v])
<1> DEFINE t == rc[v]
           u == rc'[v]
           c == t.comp
<1>1. t \in Reconcile  BY TypesKnown
<1>2. /\ u.pc = t.pc /\ u.comp = c /\ u.tgt = t.tgt /\ u.err = t.err
      /\ u.pending = t.pending /\ u.exporting = t.exporting
      /\ u.batches = t.batches /\ u.items = t.items /\ u.found = t.found
  BY <1>1 DEF OnlyAges, Reconcile
<1>3. Owns(u)  BY <1>2 DEF Owns
<1>4. ASSUME Safe(c), Progress(res, t)  PROVE Progress(res', u)
  <2>1. Modes(u) = Modes(t) /\ UidOf(u) = UidOf(t)  BY <1>2 DEF Modes, UidOf
  <2>2. UidOf(t) = [comp |-> c, inc |-> t.tgt.inc] /\ t.tgt.inc \in Nat
    BY <1>1 DEF UidOf, Reconcile, Object
  <2>3. \A m \in AllRouteTypes, e \in Endpoint : e.svc \in Selects[c] =>
          (ServedIn(res, UidOf(t), m, e) => ServedIn(res', UidOf(t), m, e))
    BY <1>4, <2>2, SafeServed
  <2>4. AddressesServed(res, t) => AddressesServed(res', u)
    BY <1>1, <1>2, <2>1, <2>3 DEF AddressesServed, Owns, Reconcile, Object
  <2>5. \A m, e, k : Awaits(u, m, e, k) <=> Awaits(t, m, e, k)  BY <1>2 DEF Awaits
  <2>6. \A m \in AllRouteTypes, e \in Endpoint, k \in Kinds : e.svc \in Selects[c] =>
          (Needed(UidOf(t), m, e, k) \in res => Needed(UidOf(t), m, e, k) \in res')
    BY <1>4, <2>2 DEF Safe
  <2>7. \A m \in Modes(t), e \in t.exporting : Underway(res, t, m, e) => Underway(res', u, m, e)
    <3> SUFFICES ASSUME NEW m \in Modes(t), NEW e \in t.exporting, Underway(res, t, m, e)
                 PROVE  Underway(res', u, m, e)
      OBVIOUS
    <3>1. m \in AllRouteTypes /\ e \in Endpoint /\ e.svc \in Selects[c]
      BY <1>1, ModesType DEF Owns, Reconcile
    <3> QED  BY <1>2, <2>1, <2>5, <2>6, <3>1, TemplateType DEF Underway
  <2>8. t.pc = "applyWrite" /\ Free(res, t) => Free(res', u)
    <3> SUFFICES ASSUME t.pc = "applyWrite", Free(res, t)  PROVE Free(res', u)
      OBVIOUS
    <3> DEFINE it == Head(t.items)
    <3>1. t.items \in Seq(Item) /\ t.items # <<>>
      BY TypesKnown DEF WellFormed, Reconcile
    <3>2. it \in Item /\ 1 \in DOMAIN t.items /\ it = t.items[1]
      BY <3>1, HeadTailProperties, EmptySeq
    <3>3. it.backend.svc \in Selects[c]  BY <3>2 DEF Owns
    <3>4. Identity(Rendered(t)) =
            [mode |-> it.mode, kind |-> it.kind, name |-> PublicServiceName[it.backend]]
      BY DEF Rendered, Identity
    <3>5. Identity(Rendered(u)) = Identity(Rendered(t))
      BY <1>2, <2>1 DEF Rendered, Identity
    <3> HIDE DEF it
    <3>6. it.mode \in AllRouteTypes /\ it.backend \in Endpoint /\ it.kind \in Kinds
      BY <3>2 DEF Item
    <3> QED  BY <1>4, <3>3, <3>4, <3>5, <3>6 DEF Free, Safe
  <2> QED  BY <1>2, <1>4, <2>1, <2>4, <2>7, <2>8 DEF Progress
<1> QED  BY <1>3, <1>4

-------------------------------------------------------------------------------
(* What the steps of the worker itself do.                                 *)

Serves(w) == /\ Owns(rc'[w])
             /\ Progress(res, rc[w]) => Progress(res', rc'[w])

LEMMA IdleServes ==
  Owns(Idle) /\ \A R : Progress(R, Idle)
<1>1. /\ Idle.pc = "idle" /\ Idle.items = <<>> /\ DOMAIN <<>> = {}
      /\ Idle.pending = {} /\ Idle.exporting = {} /\ Idle.batches = {}
      /\ \A m \in AllRouteTypes : Idle.tgt.addr[m] = {}
  BY DEF Idle, NoObject, NoAddresses
<1> QED  BY <1>1 DEF Owns, Progress

LEMMA AloneTo ==
  ASSUME KnownInv, NEW w \in Workers, NEW u, Advance(w, u)
  PROVE  rc'[w] = u
  BY TypesKnown DEF Advance, TypeInv, TypeOK

LEMMA ReturnErrorServes ==
  ASSUME KnownInv, NEW w \in Workers, ReturnError(w)
  PROVE  Serves(w)
  BY IdleServes, AloneTo DEF ReturnError, Serves

(* Before anything is exported, and after an error, there is nothing to    *)
(* show.                                                                   *)
LEMMA EarlyServes ==
  ASSUME KnownInv, NEW w \in Workers, NEW u, Advance(w, u), Owns(u),
         u.err \/ u.pc \in {"finalizer", "finalizerSend", "prune", "create", "cleanup",
                            "unfinalize"}
  PROVE  Serves(w)
<1>1. Progress(res', u)  BY DEF Progress
<1> QED  BY <1>1, AloneTo DEF Serves

LEMMA OnErrorServes ==
  ASSUME KnownInv, NEW w \in Workers, OnError(w), Owns(rc[w])
  PROVE  Serves(w)
<1> DEFINE t == rc[w]
<1>1. t \in Reconcile  BY TypesKnown
<1>2. CASE ReturnError(w)  BY <1>2, ReturnErrorServes
<1>3. ASSUME NEW u \in Reconcile, Owns(u), Advance(w, RecordError(u))
      PROVE  Serves(w)
  <2> DEFINE e == RecordError(u)
  <2>1. /\ e.comp = u.comp /\ e.tgt = u.tgt /\ e.pc = u.pc /\ e.items = u.items
        /\ e.batches = u.batches /\ e.pending = u.pending /\ e.exporting = u.exporting
        /\ e.err = TRUE
    BY DEF RecordError, Reconcile
  <2>2. Advance(w, e)  BY <1>3
  <2> HIDE DEF e
  <2>3. Owns(e)  BY <1>3, <2>1 DEF Owns
  <2> QED  BY <2>1, <2>2, <2>3, EarlyServes
<1>4. CASE /\ t.pc = "prune"
           /\ Advance(w, RecordError([t EXCEPT !.pc = "create", !.kinds = {}]))
  <2> DEFINE u == [t EXCEPT !.pc = "create", !.kinds = {}]
  <2>1. /\ u \in Reconcile /\ u.comp = t.comp /\ u.tgt = t.tgt /\ u.items = t.items
        /\ u.pending = t.pending /\ u.exporting = t.exporting
        /\ u.pc = "create" /\ u.batches = t.batches
    BY <1>1 DEF Reconcile, PCs
  <2>2. Advance(w, RecordError(u))  BY <1>4
  <2> HIDE DEF u
  <2>3. Owns(u)  BY <1>4, <2>1 DEF Owns
  <2> QED  BY <1>3, <2>1, <2>2, <2>3
<1>5. CASE /\ t.pc = "create"
           /\ Advance(w, RecordError([t EXCEPT !.pc = "patch"]))
  <2> DEFINE u == [t EXCEPT !.pc = "patch"]
  <2>1. /\ u \in Reconcile /\ u.comp = t.comp /\ u.tgt = t.tgt /\ u.items = t.items
        /\ u.pending = t.pending /\ u.exporting = t.exporting
        /\ u.pc = "patch" /\ u.batches = t.batches
    BY <1>1 DEF Reconcile, PCs
  <2>2. Advance(w, RecordError(u))  BY <1>5
  <2> HIDE DEF u
  <2>3. Owns(u)  BY <1>5, <2>1 DEF Owns
  <2> QED  BY <1>3, <2>1, <2>2, <2>3
<1>6. CASE /\ t.pc \in {"applyGet", "applyWrite"}
           /\ Advance(w, RecordError([t EXCEPT !.pc = "services", !.exporting = {},
                                               !.batches = {}, !.items = <<>>,
                                               !.found = FALSE]))
  <2> DEFINE u == [t EXCEPT !.pc = "services", !.exporting = {}, !.batches = {},
                            !.items = <<>>, !.found = FALSE]
  <2>1. <<>> \in Seq(Item) /\ DOMAIN <<>> = {}  OBVIOUS
  <2>2. /\ u \in Reconcile /\ u.comp = t.comp /\ u.tgt = t.tgt /\ u.items = <<>>
        /\ u.pending = t.pending /\ u.exporting = {} /\ u.batches = {}
    BY <1>1, <2>1 DEF Reconcile, PCs
  <2>3. Advance(w, RecordError(u))  BY <1>6
  <2> HIDE DEF u
  <2>4. Owns(u)  BY <2>1, <2>2 DEF Owns
  <2> QED  BY <1>3, <2>2, <2>3, <2>4
<1> QED  BY <1>2, <1>4, <1>5, <1>6 DEF OnError

LEMMA EnterPruneOwns ==
  ASSUME NEW t \in Reconcile, Owns(t), t.items = <<>>
  PROVE  Owns(EnterPrune(t)) /\ EnterPrune(t).pc \in {"prune", "create"}
<1> DEFINE u == EnterPrune(t)
<1>1. /\ u.comp = t.comp /\ u.tgt = t.tgt /\ u.items = t.items /\ u.batches = t.batches
      /\ u.pending = t.pending /\ u.exporting = t.exporting /\ u.pc \in {"prune", "create"}
  BY DEF EnterPrune, Reconcile
<1> HIDE DEF u
<1>2. Owns(u)  BY <1>1 DEF Owns
<1> QED  BY <1>1, <1>2 DEF u

LEMMA FetchServes ==
  ASSUME KnownInv, NEW w \in Workers, NEW c \in Components, Fetch(w, c), OwnAddresses(c),
         Owns(rc[w])
  PROVE  Serves(w)
<1> DEFINE t == [Idle EXCEPT !.comp = c, !.tgt = cr[c], !.fresh = TRUE]
<1>1. cr[c] \in Object  BY TypesKnown
<1>2. /\ t \in Reconcile /\ t.comp = c /\ t.tgt = cr[c] /\ t.items = <<>>
      /\ t.batches = {} /\ t.pending = {} /\ t.exporting = {}
  BY <1>1, IdleWellFormed DEF WellFormed, Reconcile, Idle
<1> HIDE DEF t
<1>3. Owns(t)
  <2>1. DOMAIN <<>> = {}  OBVIOUS
  <2> QED  BY <1>2, <2>1 DEF Owns, OwnAddresses
<1>4. CASE UNCHANGED rc
  BY <1>4 DEF Fetch, Serves
<1>5. CASE Advance(w, [t EXCEPT !.pc = "cleanup", !.kinds = routingResourceGVKs(Modes(t))])
  <2> DEFINE u == [t EXCEPT !.pc = "cleanup", !.kinds = routingResourceGVKs(Modes(t))]
  <2>1. /\ u.comp = t.comp /\ u.tgt = t.tgt /\ u.items = t.items /\ u.batches = t.batches
        /\ u.pending = t.pending /\ u.exporting = t.exporting /\ u.pc = "cleanup"
    BY <1>2 DEF Reconcile
  <2>2. Advance(w, u)  BY <1>5
  <2> HIDE DEF u
  <2>3. Owns(u)  BY <1>2, <1>3, <2>1 DEF Owns
  <2> QED  BY <2>1, <2>2, <2>3, EarlyServes
<1>6. CASE Advance(w, ensureResourceHasFinalizer(t))
  <2> DEFINE f == [t EXCEPT !.pc = "finalizer", !.tgt.finalizer = TRUE]
             e == EnterPrune(t)
             u == ensureResourceHasFinalizer(t)
  <2>1. /\ f.comp = t.comp /\ f.tgt.addr = t.tgt.addr /\ f.items = t.items
        /\ f.batches = t.batches /\ f.pending = t.pending /\ f.exporting = t.exporting
        /\ f.pc = "finalizer"
    BY <1>2 DEF Reconcile, Object
  <2>2. Owns(e) /\ e.pc \in {"prune", "create"}  BY <1>2, <1>3, EnterPruneOwns
  <2>3. u = f \/ u = e  BY DEF ensureResourceHasFinalizer
  <2> HIDE DEF f, e
  <2>4. Owns(f)  BY <1>2, <1>3, <2>1 DEF Owns
  <2>5. Advance(w, u)  BY <1>6
  <2> HIDE DEF u
  <2> QED  BY <2>1, <2>2, <2>3, <2>4, <2>5, EarlyServes
<1> QED  BY <1>4, <1>5, <1>6 DEF Fetch, t

LEMMA PatchGetServes ==
  ASSUME KnownInv, NEW w \in Workers, PatchGet(w), Owns(rc[w])
  PROVE  Serves(w)
<1> DEFINE t == rc[w]
           u == [t EXCEPT
                  !.pc = IF t.pc = "finalizer" THEN "finalizerSend" ELSE "patchSend",
                  !.diff = {m \in AllRouteTypes : t.tgt.addr[m] # cr[t.comp].addr[m]}]
<1>1. t \in Reconcile /\ t.pc \in {"finalizer", "patch"}  BY TypesKnown DEF PatchGet
<1>2. /\ u.comp = t.comp /\ u.tgt = t.tgt /\ u.items = t.items /\ u.batches = t.batches
      /\ u.pending = t.pending /\ u.exporting = t.exporting /\ u.err = t.err
      /\ u.pc = IF t.pc = "finalizer" THEN "finalizerSend" ELSE "patchSend"
  BY <1>1 DEF Reconcile
<1>3. CASE ReturnError(w)  BY <1>3, ReturnErrorServes
<1>4. CASE Advance(w, u)
  <2> HIDE DEF u
  <2>1. Owns(u)  BY <1>1, <1>2 DEF Owns
  <2>2. UidOf(u) = UidOf(t) /\ res' = res  BY <1>2 DEF UidOf, PatchGet
  <2>3. AddressesServed(res, t) => AddressesServed(res', u)
    BY <1>2, <2>2 DEF AddressesServed
  <2>4. Progress(res, t) => Progress(res', u)  BY <1>1, <1>2, <2>3 DEF Progress
  <2> QED  BY <1>4, <2>1, <2>4, AloneTo DEF Serves
<1> QED  BY <1>3, <1>4 DEF PatchGet

LEMMA PatchSendServes ==
  ASSUME KnownInv, NEW w \in Workers, PatchSend(w), Owns(rc[w]), OwnAddresses(rc[w].comp)
  PROVE  Serves(w) /\ \A c \in Components : OwnAddresses(c) => OwnAddresses(c)'
<1> DEFINE t == rc[w]
           c == t.comp
           stored == cr[c]
           obj == [stored EXCEPT
                     !.finalizer = IF t.pc = "finalizerSend" THEN TRUE ELSE @,
                     !.addr = [m \in AllRouteTypes |->
                                 IF m \in t.diff THEN t.tgt.addr[m] ELSE @[m]]]
           x == [t EXCEPT !.tgt = obj, !.fresh = TRUE, !.diff = {}]
<1>1. t \in Reconcile /\ t.pc \in {"finalizerSend", "patchSend"} /\ c \in Components
      /\ stored \in Object
  BY TypesKnown DEF PatchSend
<1>2. /\ obj \in Object
      /\ \A m \in AllRouteTypes :
           obj.addr[m] = IF m \in t.diff THEN t.tgt.addr[m] ELSE stored.addr[m]
  <2>1. t.tgt \in Object  BY <1>1 DEF Reconcile
  <2> QED  BY <1>1, <2>1 DEF Object
<1> HIDE DEF obj
<1>3. \A m \in AllRouteTypes : \A e \in obj.addr[m] : e.svc \in Selects[c]
  BY <1>2 DEF Owns, OwnAddresses
<1>4. /\ x \in Reconcile /\ x.comp = c /\ x.tgt = obj /\ x.items = t.items
      /\ x.batches = t.batches /\ x.pending = t.pending /\ x.exporting = t.exporting
  BY <1>1, <1>2 DEF Reconcile
<1> HIDE DEF x
<1>5. Owns(x) /\ x.items = <<>>  BY <1>1, <1>3, <1>4 DEF Owns
<1>6. ASSUME NEW u, NEW retry, WriteCR(w, obj, u, retry), u = Idle \/ u = EnterPrune(x)
      PROVE  Serves(w) /\ \A d \in Components : OwnAddresses(d) => OwnAddresses(d)'
  <2>1. rc'[w] = u \/ rc'[w] = Idle  BY <1>6, TypesKnown, WriteCRWait
  <2>2. Owns(EnterPrune(x)) /\ Progress(res', EnterPrune(x))
    BY <1>4, <1>5, EnterPruneOwns DEF Progress
  <2>3. Serves(w)  BY <1>6, <2>1, <2>2, IdleServes DEF Serves
  <2>4. cr'[c] = obj /\ \A d \in Components \ {c} : cr'[d] = cr[d]
    BY <1>1, <1>6, TypesKnown DEF WriteCR, TypeInv, TypeOK
  <2>5. \A d \in Components : OwnAddresses(d) => OwnAddresses(d)'
    BY <1>3, <2>4 DEF OwnAddresses
  <2> QED  BY <2>3, <2>5
<1>7. CASE ReturnError(w) /\ UNCHANGED cr
  BY <1>7, ReturnErrorServes DEF OwnAddresses
<1>8. \/ ReturnError(w) /\ UNCHANGED cr
      \/ WriteCR(w, obj, EnterPrune(x), FALSE)
      \/ WriteCR(w, obj, Idle, t.err)
  BY DEF PatchSend, obj, x
<1> QED  BY <1>6, <1>7, <1>8

LEMMA removeFinalizerServes ==
  ASSUME KnownInv, NEW w \in Workers, removeFinalizer(w)
  PROVE  Serves(w) /\ \A c \in Components : OwnAddresses(c) => OwnAddresses(c)'
<1> DEFINE c == rc[w].comp
           obj == Gone(cr[c])
<1>1. c \in Components  BY TypesKnown DEF removeFinalizer
<1>2. \A m \in AllRouteTypes : obj.addr[m] = {}  BY DEF Gone, NoObject, NoAddresses
<1> HIDE DEF obj
<1>3. CASE ReturnError(w) /\ UNCHANGED cr
  BY <1>3, ReturnErrorServes DEF OwnAddresses
<1>4. CASE WriteCR(w, obj, Idle, FALSE)
  <2>1. rc'[w] = Idle  BY <1>4, TypesKnown, WriteCRWait
  <2>2. cr'[c] = obj /\ \A d \in Components \ {c} : cr'[d] = cr[d]
    BY <1>1, <1>4, TypesKnown DEF WriteCR, TypeInv, TypeOK
  <2>3. \A d \in Components : OwnAddresses(d) => OwnAddresses(d)'
    BY <1>2, <2>2 DEF OwnAddresses
  <2> QED  BY <2>1, <2>3, IdleServes DEF Serves
<1> QED  BY <1>3, <1>4 DEF removeFinalizer, obj

LEMMA deleteOwnedResourcesServes ==
  ASSUME KnownInv, NEW w \in Workers, NEW kind \in Kinds, deleteOwnedResources(w, kind),
         Owns(rc[w])
  PROVE  Serves(w) /\ \A c : Spares(w, c) => Touches(rc[w].comp, c)
<1> DEFINE t == rc[w]
           done == IF t.pc = "prune" THEN "create" ELSE "unfinalize"
           u == [t EXCEPT !.pc = IF t.kinds = {kind} THEN done ELSE @,
                          !.kinds = @ \ {kind}]
<1>1. t \in Reconcile /\ t.pc \in {"prune", "cleanup"}
  BY TypesKnown DEF deleteOwnedResources, DeleteAllOf
<1>2. /\ u.comp = t.comp /\ u.tgt = t.tgt /\ u.items = t.items /\ u.batches = t.batches
      /\ u.pending = t.pending /\ u.exporting = t.exporting
      /\ u.pc \in {"prune", "cleanup", "create", "unfinalize"}
  BY <1>1 DEF Reconcile
<1>3. Reply(w, u)  BY DEF deleteOwnedResources, DeleteAllOf
<1> HIDE DEF u
<1>4. Owns(u)  BY <1>1, <1>2 DEF Owns
<1>5. Serves(w)  BY <1>2, <1>3, <1>4, EarlyServes, OnErrorServes DEF Reply
<1>6. \A c : Spares(w, c) => Touches(t.comp, c)
  <2>1. res' \subseteq res  BY DEF deleteOwnedResources, DeleteAllOf
  <2> QED  BY <2>1 DEF Spares, Touches
<1> QED  BY <1>5, <1>6

LEMMA ListServicesServes ==
  ASSUME KnownInv, NEW w \in Workers, ListServices(w), Owns(rc[w])
  PROVE  Serves(w)
<1> DEFINE t == rc[w]
           u1 == NoneExported(t)
           u2 == RecordError([t EXCEPT !.pc = "patch"])
           u3 == [t EXCEPT !.pc = "services", !.pending = Listed(t.comp)]
<1>1. t \in Reconcile /\ t.pc = "create"  BY TypesKnown DEF ListServices
<1>2. CASE Advance(w, u1)
  <2>1. /\ u1.comp = t.comp /\ u1.tgt.addr = NoAddresses /\ u1.items = t.items
        /\ u1.batches = t.batches /\ u1.pending = t.pending
        /\ u1.exporting = t.exporting /\ u1.pc = "patch"
    BY <1>1 DEF Reconcile, Object, NoneExported
  <2> HIDE DEF u1
  <2>2. \A m \in AllRouteTypes : u1.tgt.addr[m] = {}  BY <2>1 DEF NoAddresses
  <2>3. Owns(u1)  BY <1>1, <2>1, <2>2 DEF Owns
  <2>4. Progress(res', u1)  BY <2>1, <2>2 DEF Progress, AddressesServed
  <2> QED  BY <1>2, <2>3, <2>4, AloneTo DEF Serves
<1>3. CASE Advance(w, u2)
  <2>1. /\ u2.comp = t.comp /\ u2.tgt = t.tgt /\ u2.items = t.items
        /\ u2.batches = t.batches /\ u2.pending = t.pending
        /\ u2.exporting = t.exporting /\ u2.err = TRUE
    BY <1>1 DEF Reconcile, RecordError
  <2> HIDE DEF u2
  <2>2. Owns(u2)  BY <1>1, <2>1 DEF Owns
  <2> QED  BY <1>3, <2>1, <2>2, EarlyServes
<1>4. CASE Listed(t.comp) # {} /\ Advance(w, u3)
  <2>1. /\ u3.comp = t.comp /\ u3.tgt = t.tgt /\ u3.items = t.items
        /\ u3.batches = t.batches /\ u3.pending = Listed(t.comp)
        /\ u3.exporting = t.exporting /\ u3.pc = "services"
    BY <1>1 DEF Reconcile
  <2> HIDE DEF u3
  <2>2. Owns(u3)  BY <1>1, <2>1 DEF Owns, Listed
  <2>3. Progress(res', u3)  BY <1>4, <2>1 DEF Progress
  <2> QED  BY <1>4, <2>2, <2>3, AloneTo DEF Serves
<1> QED  BY <1>2, <1>3, <1>4 DEF ListServices

LEMMA ExportNextServes ==
  ASSUME KnownInv, NEW w \in Workers, ExportNext(w), Owns(rc[w])
  PROVE  Serves(w)
<1> DEFINE t == rc[w]
<1>1. t \in Reconcile /\ t.pc = "services" /\ res' = res
  BY TypesKnown DEF ExportNext
<1>2. CASE t.pending = {} /\ Advance(w, [t EXCEPT !.pc = "patch"])
  <2> DEFINE u == [t EXCEPT !.pc = "patch"]
  <2>1. /\ u.comp = t.comp /\ u.tgt = t.tgt /\ u.items = t.items
        /\ u.batches = t.batches /\ u.pending = t.pending
        /\ u.exporting = t.exporting /\ u.err = t.err /\ u.pc = "patch"
    BY <1>1 DEF Reconcile
  <2>2. Advance(w, u)  BY <1>2
  <2> HIDE DEF u
  <2>3. Owns(u)  BY <1>1, <2>1 DEF Owns
  <2>4. UidOf(u) = UidOf(t)  BY <2>1 DEF UidOf
  <2>5. AddressesServed(res, t) => AddressesServed(res', u)
    BY <1>1, <2>1, <2>4 DEF AddressesServed
  <2>6. Progress(res, t) => Progress(res', u)  BY <1>1, <1>2, <2>1, <2>5 DEF Progress
  <2> QED  BY <2>2, <2>3, <2>6, AloneTo DEF Serves
<1>3. ASSUME NEW s \in t.pending, Advance(w, Exporting(t, s))
      PROVE  Serves(w)
  <2> DEFINE u == Exporting(t, s)
             P == Endpoints(s)
  <2>1. /\ u.comp = t.comp /\ u.tgt = t.tgt /\ u.items = t.items /\ u.exporting = P
        /\ u.batches = {[mode |-> m, backend |-> e] : m \in Modes(t), e \in P}
        /\ u.pending = t.pending \ {s} /\ u.err = t.err /\ u.pc = "batches"
    BY <1>1 DEF Reconcile, Exporting
  <2>2. Advance(w, u)  BY <1>3
  <2>3. \A e \in P : e.svc \in Selects[t.comp]  BY <1>3 DEF Owns, Endpoints
  <2> HIDE DEF u, P
  <2>4. Modes(u) = Modes(t)  BY <2>1 DEF Modes
  <2>5. \A m \in Modes(t), e \in P :
          LET b == [mode |-> m, backend |-> e]
          IN b \in u.batches /\ b.mode = m /\ b.backend = e
    BY <2>1
  <2>6. \A m \in Modes(u), e \in u.exporting : Underway(res', u, m, e)
    <3> SUFFICES ASSUME NEW m \in Modes(u), NEW e \in u.exporting
                 PROVE  Underway(res', u, m, e)
      OBVIOUS
    <3> DEFINE b == [mode |-> m, backend |-> e]
    <3>1. b \in u.batches /\ b.mode = m /\ b.backend = e  BY <2>1, <2>4, <2>5
    <3> HIDE DEF b
    <3>2. \E x \in u.batches : x.mode = m /\ x.backend = e  BY <3>1
    <3> QED  BY <3>2 DEF Underway
  <2>7. \A b \in u.batches : b.backend \in P  BY <2>1
  <2>8. Owns(u)  BY <1>1, <2>1, <2>3, <2>7 DEF Owns
  <2>9. Progress(res', u)  BY <2>1, <2>6 DEF Progress
  <2> QED  BY <2>2, <2>8, <2>9, AloneTo DEF Serves
<1> QED  BY <1>2, <1>3 DEF ExportNext

LEMMA LoadBatchServes ==
  ASSUME KnownInv, NEW w \in Workers, NEW b \in rc[w].batches, LoadBatch(w, b),
         Owns(rc[w])
  PROVE  Serves(w)
<1> DEFINE t == rc[w]
           kinds == Load(b.mode)
           items == [i \in DOMAIN kinds |->
                       [mode |-> b.mode, kind |-> kinds[i], backend |-> b.backend]]
           u == [t EXCEPT !.pc = "applyGet", !.batches = @ \ {b}, !.items = items]
<1>1. t \in Reconcile /\ t.pc = "batches" /\ res' = res
  BY TypesKnown DEF LoadBatch
<1>2. /\ DOMAIN items = DOMAIN Load(b.mode)
      /\ \A i \in DOMAIN items : /\ items[i].mode = b.mode /\ items[i].kind = Load(b.mode)[i]
                                 /\ items[i].backend = b.backend
  OBVIOUS
<1> HIDE DEF items
<1>3. /\ u.comp = t.comp /\ u.tgt = t.tgt /\ u.items = items
      /\ u.exporting = t.exporting /\ u.batches = t.batches \ {b}
      /\ u.pending = t.pending /\ u.err = t.err /\ u.pc = "applyGet"
  BY <1>1 DEF Reconcile
<1>4. Advance(w, u)  BY DEF LoadBatch, items
<1> HIDE DEF u
<1>5. Modes(u) = Modes(t) /\ UidOf(u) = UidOf(t)  BY <1>3 DEF Modes, UidOf
<1>6. Owns(u)  BY <1>1, <1>2, <1>3 DEF Owns
<1>7. ASSUME NEW m \in Modes(t), NEW e \in t.exporting, Underway(res, t, m, e)
      PROVE  Underway(res', u, m, e)
  <2>1. t.items = <<>> /\ DOMAIN <<>> = {}  BY <1>1 DEF Owns
  <2>2. \A k : ~Awaits(t, m, e, k)  BY <2>1 DEF Awaits
  <2>3. CASE b.mode = m /\ b.backend = e
    <3>1. \A i \in DOMAIN Load(m) : Awaits(u, m, e, Load(m)[i])
      BY <1>2, <1>3, <2>3 DEF Awaits
    <3> QED  BY <3>1 DEF Underway
  <2>4. CASE ~(b.mode = m /\ b.backend = e)
    <3>1. CASE \E d \in t.batches : d.mode = m /\ d.backend = e
      BY <1>3, <2>4, <3>1 DEF Underway
    <3>2. CASE \A i \in DOMAIN Load(m) : Needed(UidOf(t), m, e, Load(m)[i]) \in res
      BY <1>1, <1>5, <3>2 DEF Underway
    <3> QED  BY <1>7, <2>2, <3>1, <3>2 DEF Underway
  <2> QED  BY <2>3, <2>4
<1>8. Progress(res, t) => Progress(res', u)  BY <1>1, <1>3, <1>5, <1>7 DEF Progress
<1> QED  BY <1>4, <1>6, <1>8, AloneTo DEF Serves

LEMMA ApplyGetServes ==
  ASSUME KnownInv, NEW w \in Workers, ApplyGet(w), Owns(rc[w])
  PROVE  Serves(w)
<1> DEFINE t == rc[w]
           u == [t EXCEPT !.pc = "applyWrite", !.found = Occupants(t) # {}]
<1>1. t \in Reconcile /\ t.pc = "applyGet" /\ res' = res
  BY TypesKnown DEF ApplyGet
<1>2. /\ u.comp = t.comp /\ u.tgt = t.tgt /\ u.items = t.items
      /\ u.exporting = t.exporting /\ u.batches = t.batches
      /\ u.pending = t.pending /\ u.err = t.err /\ u.pc = "applyWrite"
      /\ u.found = (Occupants(t) # {})
  BY <1>1 DEF Reconcile
<1>3. Advance(w, u)  BY DEF ApplyGet
<1> HIDE DEF u
<1>4. Modes(u) = Modes(t) /\ UidOf(u) = UidOf(t)  BY <1>2 DEF Modes, UidOf
<1>5. Owns(u)  BY <1>1, <1>2 DEF Owns
<1>6. \A m, e : Underway(res, t, m, e) => Underway(res', u, m, e)
  BY <1>1, <1>2, <1>4 DEF Underway, Awaits
<1>7. u.found \/ Free(res', u)
  <2>1. Identity(Rendered(u)) = Identity(Rendered(t))
    BY <1>2, <1>4 DEF Rendered, Identity
  <2> QED  BY <1>1, <1>2, <2>1 DEF Occupants, Free
<1>8. Progress(res, t) => Progress(res', u)  BY <1>1, <1>2, <1>4, <1>6, <1>7 DEF Progress
<1> QED  BY <1>3, <1>5, <1>8, AloneTo DEF Serves

(* The resource that was looked up is written, and replaces none of the    *)
(* others that this component needs.                                       *)
LEMMA ApplyWriteServes ==
  ASSUME KnownInv, OwnNames, NEW w \in Workers, ApplyWrite(w), Owns(rc[w])
  PROVE  Serves(w) /\ \A d : Touches(rc[w].comp, d)
<1> DEFINE t == rc[w]
           c == t.comp
           new == Rendered(t)
           it == Head(t.items)
           u == [t EXCEPT !.pc = IF Len(t.items) = 1 THEN "batches" ELSE "applyGet",
                          !.items = Tail(@), !.found = FALSE]
<1>1. /\ t \in Reconcile /\ t.pc = "applyWrite" /\ c \in Components
      /\ t.items \in Seq(Item) /\ t.items # <<>>
  BY TypesKnown DEF ApplyWrite, WellFormed, Reconcile
<1>2. /\ u.comp = c /\ u.tgt = t.tgt /\ u.items = Tail(t.items) /\ u.err = t.err
      /\ u.batches = t.batches /\ u.exporting = t.exporting /\ u.pending = t.pending
      /\ u.pc = IF Len(t.items) = 1 THEN "batches" ELSE "applyGet"
  BY <1>1 DEF Reconcile
<1>3. Reply(w, u)  BY DEF ApplyWrite
<1> HIDE DEF u
<1>4. /\ it \in Item /\ 1 \in DOMAIN t.items /\ it = t.items[1]
      /\ Tail(t.items) \in Seq(Item) /\ Len(t.items) \in Nat \ {0}
      /\ Len(t.items) = 1 => Tail(t.items) = <<>>
      /\ \A j \in DOMAIN t.items \ {1} :
           j - 1 \in DOMAIN Tail(t.items) /\ Tail(t.items)[j - 1] = t.items[j]
      /\ \A j \in DOMAIN Tail(t.items) :
           j + 1 \in DOMAIN t.items /\ Tail(t.items)[j] = t.items[j + 1]
  <2>1. /\ it \in Item /\ Tail(t.items) \in Seq(Item)
        /\ Len(Tail(t.items)) = Len(t.items) - 1 /\ Len(t.items) \in Nat \ {0}
        /\ DOMAIN t.items = 1 .. Len(t.items) /\ it = t.items[1]
        /\ \A j \in 1 .. Len(Tail(t.items)) : Tail(t.items)[j] = t.items[j + 1]
    BY <1>1, HeadTailProperties, EmptySeq
  <2>2. DOMAIN Tail(t.items) = 1 .. Len(Tail(t.items))  BY <2>1
  <2>3. ASSUME Len(t.items) = 1  PROVE Tail(t.items) = <<>>
    <3>1. Tail(t.items) \in Seq(Item) /\ Len(Tail(t.items)) = 0  BY <2>1, <2>3
    <3> QED  BY <3>1, EmptySeq
  <2>4. \A j \in DOMAIN t.items \ {1} : j - 1 \in 1 .. Len(Tail(t.items)) /\ (j - 1) + 1 = j
    BY <2>1
  <2> QED  BY <2>1, <2>2, <2>3, <2>4
<1>5. it.backend.svc \in Selects[c]  BY <1>4 DEF Owns
<1>6. Owns(u)
  <2>1. \A i \in DOMAIN u.items : u.items[i].backend.svc \in Selects[c]
    BY <1>2, <1>4 DEF Owns
  <2> QED  BY <1>2, <1>4, <2>1 DEF Owns
<1>7. /\ new = Needed(UidOf(t), it.mode, it.backend, it.kind)
      /\ new.name = PublicServiceName[it.backend]
  BY DEF Rendered, Needed, ExportType
<1>8. it.mode \in AllRouteTypes /\ it.backend \in Endpoint /\ it.kind \in Kinds
  BY <1>4 DEF Item
<1>9. /\ \A r \in res' : r \in res \/ r = new
      /\ \A r \in res : r \in res' \/ Identity(r) = Identity(new)
  BY DEF ApplyWrite, Occupants
<1>10. \A d : Touches(c, d)
  <2>1. Named(c, new.name)  BY <1>5, <1>7, <1>8 DEF Named
  <2>2. \A r : Identity(r) = Identity(new) => r.name = new.name  BY DEF Identity
  <2> QED  BY <1>9, <2>1, <2>2 DEF Touches
<1>11. ASSUME Progress(res, t), ~t.err  PROVE Progress(res', u)
  <2>1. Modes(u) = Modes(t) /\ UidOf(u) = UidOf(t)  BY <1>2 DEF Modes, UidOf
  <2>2. new \in res'
    <3>1. t.found \/ Free(res, t)  BY <1>1, <1>11 DEF Progress
    <3>2. Writes(t)  BY <3>1 DEF Writes, Occupants, Free
    <3> QED  BY <3>2 DEF ApplyWrite
  <2> HIDE DEF new, it
  <2>3. ASSUME NEW m \in AllRouteTypes, NEW e \in Endpoint, e.svc \in Selects[c],
               NEW k \in Kinds, Needed(UidOf(t), m, e, k) \in res
        PROVE  Needed(UidOf(t), m, e, k) \in res'
    <3> DEFINE r == Needed(UidOf(t), m, e, k)
    <3>1. CASE Identity(r) # Identity(new)
      BY <1>9, <2>3, <3>1
    <3>2. CASE Identity(r) = Identity(new)
      <4>1. /\ r.mode = new.mode /\ r.kind = new.kind /\ r.name = new.name
        BY <3>2 DEF Identity
      <4>2. m = it.mode /\ k = it.kind /\ PublicServiceName[e] = PublicServiceName[it.backend]
        BY <1>7, <4>1, NeededFields
      <4>3. e = it.backend  BY <1>1, <1>5, <1>8, <2>3, <4>2 DEF OwnNames
      <4> QED  BY <1>7, <2>2, <4>2, <4>3
    <3> QED  BY <3>1, <3>2
  <2>4. ASSUME NEW m, NEW e, NEW k, Awaits(t, m, e, k)
        PROVE  Awaits(u, m, e, k) \/ Needed(UidOf(t), m, e, k) \in res'
    <3>1. PICK j \in DOMAIN t.items :
            t.items[j].mode = m /\ t.items[j].kind = k /\ t.items[j].backend = e
      BY <2>4 DEF Awaits
    <3>2. CASE j = 1  BY <1>4, <1>7, <2>2, <3>1, <3>2
    <3>3. CASE j # 1  BY <1>2, <1>4, <3>1, <3>3 DEF Awaits
    <3> QED  BY <3>2, <3>3
  <2>5. \A m \in Modes(t), e \in t.exporting : Underway(res', u, m, e)
    <3> SUFFICES ASSUME NEW m \in Modes(t), NEW e \in t.exporting
                 PROVE  Underway(res', u, m, e)
      OBVIOUS
    <3>1. m \in AllRouteTypes /\ e \in Endpoint /\ e.svc \in Selects[c]
      BY <1>1, ModesType DEF Owns, Reconcile
    <3>2. Underway(res, t, m, e)  BY <1>1, <1>11 DEF Progress
    <3>3. CASE \E b \in t.batches : b.mode = m /\ b.backend = e
      BY <1>2, <3>3 DEF Underway
    <3>4. CASE \A i \in DOMAIN Load(m) :
                 Needed(UidOf(t), m, e, Load(m)[i]) \in res \/ Awaits(t, m, e, Load(m)[i])
      BY <2>1, <2>3, <2>4, <3>1, <3>4, TemplateType DEF Underway
    <3> QED  BY <3>2, <3>3, <3>4 DEF Underway
  <2> QED  BY <1>2, <2>1, <2>5 DEF Progress
<1>12. CASE OnError(w)  BY <1>10, <1>12, OnErrorServes DEF Serves
<1>13. CASE Advance(w, u)
  <2>1. rc'[w] = u  BY <1>13, AloneTo
  <2>2. Progress(res, t) => Progress(res', u)
    <3>1. t.err => Progress(res', u)  BY <1>2 DEF Progress
    <3> QED  BY <1>11, <3>1
  <2> QED  BY <1>6, <1>10, <2>1, <2>2 DEF Serves
<1> QED  BY <1>3, <1>12, <1>13 DEF Reply

LEMMA propagateServes ==
  ASSUME KnownInv, NEW w \in Workers, propagateHostsToWatchedCR(w), Owns(rc[w])
  PROVE  Serves(w)
<1> DEFINE t == rc[w]
           u == [t EXCEPT !.pc = "services", !.exporting = {},
                          !.tgt.addr = Addresses(t)]
<1>1. t \in Reconcile /\ t.pc = "batches" /\ t.batches = {} /\ res' = res
  BY TypesKnown DEF propagateHostsToWatchedCR
<1>2. /\ u.comp = t.comp /\ u.tgt.inc = t.tgt.inc /\ u.tgt.addr = Addresses(t)
      /\ u.items = t.items /\ u.batches = t.batches /\ u.exporting = {}
      /\ u.pending = t.pending /\ u.err = t.err /\ u.pc = "services"
  BY <1>1 DEF Reconcile, Object
<1>3. Advance(w, u)  BY DEF propagateHostsToWatchedCR
<1> HIDE DEF u
<1>4. \A m \in AllRouteTypes : u.tgt.addr[m] = IF m \in Modes(t) THEN t.exporting ELSE {}
  BY <1>2 DEF Addresses
<1>5. Owns(u)  BY <1>1, <1>2, <1>4 DEF Owns
<1>6. UidOf(u) = UidOf(t)  BY <1>2 DEF UidOf
<1>7. t.items = <<>> /\ DOMAIN <<>> = {}  BY <1>1 DEF Owns
<1>8. ASSUME Progress(res, t), ~t.err  PROVE AddressesServed(res', u)
  <2> SUFFICES ASSUME NEW m \in AllRouteTypes, NEW e \in u.tgt.addr[m]
               PROVE  ServedIn(res', UidOf(u), m, e)
    BY DEF AddressesServed
  <2>1. m \in Modes(t) /\ e \in t.exporting  BY <1>4
  <2>2. Underway(res, t, m, e)  BY <1>1, <1>8, <2>1 DEF Progress
  <2> QED  BY <1>1, <1>6, <1>7, <2>2 DEF Underway, Awaits, ServedIn
<1>9. Progress(res, t) => Progress(res', u)  BY <1>2, <1>8 DEF Progress
<1> QED  BY <1>3, <1>5, <1>9, AloneTo DEF Serves

-------------------------------------------------------------------------------
(* How a worker comes to be done with an object.                           *)

Works(w) == Step(w) \/ ApiError(w) \/ Crash(w)

(* Most steps of a worker go on with the same object, or put it back.      *)
Onward(w) ==
  \/ ReturnError(w)
  \/ UNCHANGED queue /\ \E u : Advance(w, u) /\ u.comp = rc[w].comp

LEMMA OnErrorOnward ==
  ASSUME KnownInv, NEW w \in Workers, OnError(w)
  PROVE  Onward(w)
<1> DEFINE t == rc[w]
           u1 == [t EXCEPT !.pc = "create", !.kinds = {}]
           u2 == [t EXCEPT !.pc = "patch"]
           u3 == [t EXCEPT !.pc = "services", !.exporting = {}, !.batches = {},
                           !.items = <<>>, !.found = FALSE]
<1>1. t \in Reconcile  BY TypesKnown
<1>2. /\ u1 \in Reconcile /\ u1.comp = t.comp
      /\ u2 \in Reconcile /\ u2.comp = t.comp
      /\ u3 \in Reconcile /\ u3.comp = t.comp
  <2>1. <<>> \in Seq(Item)  OBVIOUS
  <2> QED  BY <1>1, <2>1 DEF Reconcile, PCs
<1>3. \/ ReturnError(w)
      \/ /\ UNCHANGED queue
         /\ \/ Advance(w, RecordError(u1)) \/ Advance(w, RecordError(u2))
            \/ Advance(w, RecordError(u3))
  BY DEF OnError
<1> HIDE DEF u1, u2, u3
<1>4. \A u \in Reconcile : RecordError(u).comp = u.comp  BY DEF RecordError, Reconcile
<1> QED  BY <1>2, <1>3, <1>4 DEF Onward

LEMMA StepOnward ==
  ASSUME KnownInv, NEW w \in Workers, Works(w)
  PROVE  \/ Onward(w)
         \/ (\E c \in Components : Fetch(w, c)) \/ PatchSend(w) \/ removeFinalizer(w)
         \/ Crash(w)
<1> DEFINE t == rc[w]
<1>1. t \in Reconcile  BY TypesKnown
<1>2. ASSUME NEW u, u.comp = t.comp, Reply(w, u)  PROVE Onward(w)
  BY <1>2, OnErrorOnward DEF Reply, Onward
<1>3. CASE PatchGet(w)
  <2> DEFINE u == [t EXCEPT
                  !.pc = IF t.pc = "finalizer" THEN "finalizerSend" ELSE "patchSend",
                  !.diff = {m \in AllRouteTypes : t.tgt.addr[m] # cr[t.comp].addr[m]}]
  <2>1. u.comp = t.comp  BY <1>1 DEF Reconcile
  <2>2. ReturnError(w) \/ (Advance(w, u) /\ UNCHANGED queue)  BY <1>3 DEF PatchGet
  <2> HIDE DEF u
  <2> QED  BY <2>1, <2>2 DEF Onward
<1>4. ASSUME NEW kind \in Kinds, deleteOwnedResources(w, kind)  PROVE Onward(w)
  <2> DEFINE done == IF t.pc = "prune" THEN "create" ELSE "unfinalize"
             u == [t EXCEPT !.pc = IF t.kinds = {kind} THEN done ELSE @,
                            !.kinds = @ \ {kind}]
  <2>1. u.comp = t.comp  BY <1>1 DEF Reconcile
  <2>2. Reply(w, u)  BY <1>4 DEF deleteOwnedResources, DeleteAllOf
  <2> HIDE DEF u
  <2> QED  BY <1>2, <2>1, <2>2
<1>5. CASE ListServices(w)
  <2> DEFINE u1 == NoneExported(t)
             u2 == RecordError([t EXCEPT !.pc = "patch"])
             u3 == [t EXCEPT !.pc = "services", !.pending = Listed(t.comp)]
  <2>1. u1.comp = t.comp /\ u2.comp = t.comp /\ u3.comp = t.comp
    BY <1>1 DEF Reconcile, NoneExported, RecordError
  <2>2. UNCHANGED queue /\ (Advance(w, u1) \/ Advance(w, u2) \/ Advance(w, u3))
    BY <1>5 DEF ListServices
  <2> HIDE DEF u1, u2, u3
  <2> QED  BY <2>1, <2>2 DEF Onward
<1>6. CASE ExportNext(w)
  <2> DEFINE u == [t EXCEPT !.pc = "patch"]
  <2>1. u.comp = t.comp /\ \A s : Exporting(t, s).comp = t.comp
    BY <1>1 DEF Reconcile, Exporting
  <2>2. UNCHANGED queue /\ (Advance(w, u) \/ \E s : Advance(w, Exporting(t, s)))
    BY <1>6 DEF ExportNext
  <2> HIDE DEF u
  <2> QED  BY <2>1, <2>2 DEF Onward
<1>7. ASSUME NEW b \in t.batches, LoadBatch(w, b)  PROVE Onward(w)
  <2> DEFINE kinds == Load(b.mode)
             items == [i \in DOMAIN kinds |->
                         [mode |-> b.mode, kind |-> kinds[i], backend |-> b.backend]]
             u == [t EXCEPT !.pc = "applyGet", !.batches = @ \ {b}, !.items = items]
  <2>1. Advance(w, u) /\ UNCHANGED queue  BY <1>7 DEF LoadBatch
  <2> HIDE DEF items
  <2>2. u.comp = t.comp  BY <1>1 DEF Reconcile
  <2> HIDE DEF u
  <2> QED  BY <2>1, <2>2 DEF Onward
<1>8. CASE ApplyGet(w)
  <2> DEFINE u == [t EXCEPT !.pc = "applyWrite", !.found = Occupants(t) # {}]
  <2>1. u.comp = t.comp  BY <1>1 DEF Reconcile
  <2>2. Advance(w, u) /\ UNCHANGED queue  BY <1>8 DEF ApplyGet
  <2> HIDE DEF u
  <2> QED  BY <2>1, <2>2 DEF Onward
<1>9. CASE ApplyWrite(w)
  <2> DEFINE u == [t EXCEPT !.pc = IF Len(t.items) = 1 THEN "batches" ELSE "applyGet",
                            !.items = Tail(@), !.found = FALSE]
  <2>1. u.comp = t.comp  BY <1>1 DEF Reconcile
  <2>2. Reply(w, u)  BY <1>9 DEF ApplyWrite
  <2> HIDE DEF u
  <2> QED  BY <1>2, <2>1, <2>2
<1>10. CASE propagateHostsToWatchedCR(w)
  <2> DEFINE u == [t EXCEPT !.pc = "services", !.exporting = {}, !.tgt.addr = Addresses(t)]
  <2>1. u.comp = t.comp  BY <1>1 DEF Reconcile
  <2>2. Advance(w, u) /\ UNCHANGED queue  BY <1>10 DEF propagateHostsToWatchedCR
  <2> HIDE DEF u
  <2> QED  BY <2>1, <2>2 DEF Onward
<1>11. CASE ApiError(w)  BY <1>11, OnErrorOnward DEF ApiError
<1> QED
  BY <1>3, <1>4, <1>5, <1>6, <1>7, <1>8, <1>9, <1>10, <1>11 DEF Works, Step


(* What a merge patch leaves.                                              *)
LEMMA PatchSendWrites ==
  ASSUME KnownInv, NEW w \in Workers, PatchSend(w)
  PROVE  \/ ReturnError(w) /\ UNCHANGED cr
         \/ \E obj, u :
              /\ obj \in Object
              /\ \A m \in AllRouteTypes :
                   obj.addr[m] = IF m \in rc[w].diff THEN rc[w].tgt.addr[m]
                                                     ELSE cr[rc[w].comp].addr[m]
              /\ obj.phase = cr[rc[w].comp].phase /\ obj.phase # "absent"
              /\ obj.inc = cr[rc[w].comp].inc
              /\ \/ /\ rc[w].pc = "finalizerSend" /\ u.comp = rc[w].comp
                    /\ WriteCR(w, obj, u, FALSE)
                 \/ /\ rc[w].pc = "patchSend" /\ u = Idle
                    /\ WriteCR(w, obj, u, rc[w].err)
<1> DEFINE t == rc[w]
           stored == cr[t.comp]
           obj == [stored EXCEPT
                     !.finalizer = IF t.pc = "finalizerSend" THEN TRUE ELSE @,
                     !.addr = [m \in AllRouteTypes |->
                                 IF m \in t.diff THEN t.tgt.addr[m] ELSE @[m]]]
           x == [t EXCEPT !.tgt = obj, !.fresh = TRUE, !.diff = {}]
<1>1. t \in Reconcile /\ t.pc \in {"finalizerSend", "patchSend"} /\ stored \in Object
  BY TypesKnown DEF PatchSend
<1>2. /\ obj \in Object /\ obj.phase = stored.phase /\ obj.inc = stored.inc
      /\ \A m \in AllRouteTypes :
           obj.addr[m] = IF m \in t.diff THEN t.tgt.addr[m] ELSE stored.addr[m]
  <2>1. t.tgt \in Object  BY <1>1 DEF Reconcile
  <2> QED  BY <1>1, <2>1 DEF Object
<1>3. \/ ReturnError(w) /\ UNCHANGED cr
      \/ /\ stored.phase # "absent" /\ t.pc = "finalizerSend"
         /\ WriteCR(w, obj, EnterPrune(x), FALSE)
      \/ /\ stored.phase # "absent" /\ t.pc = "patchSend"
         /\ WriteCR(w, obj, Idle, t.err)
  BY DEF PatchSend
<1> HIDE DEF obj
<1>4. x \in Reconcile /\ x.comp = t.comp  BY <1>1, <1>2 DEF Reconcile
<1> HIDE DEF x
<1>5. EnterPrune(x).comp = t.comp  BY <1>4 DEF EnterPrune, Reconcile
<1>6. CASE /\ stored.phase # "absent" /\ t.pc = "finalizerSend"
           /\ WriteCR(w, obj, EnterPrune(x), FALSE)
  <2> DEFINE u == EnterPrune(x)
  <2>1. u.comp = t.comp /\ WriteCR(w, obj, u, FALSE)  BY <1>5, <1>6
  <2> HIDE DEF u
  <2> QED  BY <1>2, <1>6, <2>1
<1>7. CASE /\ stored.phase # "absent" /\ t.pc = "patchSend"
           /\ WriteCR(w, obj, Idle, t.err)
  BY <1>2, <1>7
<1> QED  BY <1>3, <1>6, <1>7

(* What a step of a worker leaves of the objects: it writes to one of them *)
(* what keeps its phase and its incarnation, or lets it go.                *)
LEMMA StepWrites ==
  ASSUME KnownInv, NEW w \in Workers, Step(w)
  PROVE  \/ UNCHANGED cr
         \/ \E c \in Components, obj \in Object :
              /\ cr' = [cr EXCEPT ![c] = obj]
              /\ \/ obj.phase = cr[c].phase /\ obj.phase # "absent" /\ obj.inc = cr[c].inc
                 \/ obj = Gone(cr[c])
<1> DEFINE c == rc[w].comp
<1>1. CASE PatchSend(w)
  <2>1. c \in Components  BY <1>1, TypesKnown DEF PatchSend
  <2> QED  BY <1>1, <2>1, PatchSendWrites DEF WriteCR
<1>2. CASE removeFinalizer(w)
  <2>1. c \in Components /\ cr[c] \in Object  BY <1>2, TypesKnown DEF removeFinalizer
  <2>2. Gone(cr[c]) \in Object  BY <2>1, GoneType
  <2> QED  BY <1>2, <2>1, <2>2 DEF removeFinalizer, WriteCR
<1>3. CASE UNCHANGED cr  BY <1>3
<1> QED
  BY <1>1, <1>2, <1>3 DEF Step, Fetch, PatchGet, deleteOwnedResources, DeleteAllOf, ListServices,
    ExportNext, LoadBatch, ApplyGet, ApplyWrite, propagateHostsToWatchedCR

(* A reconcile under way stays with its object to the end.                 *)
LEMMA StaysOn ==
  ASSUME KnownInv, NEW w \in Workers, Works(w), rc[w].pc # "idle"
  PROVE  rc'[w].comp = rc[w].comp \/ rc'[w] = Idle
<1>1. CASE ReturnError(w)  BY <1>1, AloneTo DEF ReturnError
<1>2. CASE Onward(w)  BY <1>1, <1>2, AloneTo DEF Onward
<1>3. CASE PatchSend(w)
  <2>1. CASE \E obj, u, retry :
               WriteCR(w, obj, u, retry) /\ (u = Idle \/ u.comp = rc[w].comp)
    <3>1. PICK obj, u, retry :
            WriteCR(w, obj, u, retry) /\ (u = Idle \/ u.comp = rc[w].comp)
      BY <2>1
    <3> QED  BY <3>1, TypesKnown, WriteCRWait
  <2> QED  BY <1>1, <1>3, <2>1, PatchSendWrites
<1>4. CASE removeFinalizer(w)
  BY <1>1, <1>4, TypesKnown, WriteCRWait DEF removeFinalizer
<1>5. CASE Crash(w)  BY <1>5, AloneTo DEF Crash
<1> QED  BY <1>2, <1>3, <1>4, <1>5, StepOnward DEF Fetch

LEMMA OnwardBusy ==
  ASSUME KnownInv, NEW w \in Workers, NEW c, Busy(w, c), Onward(w)
  PROVE  Busy(w, c)'
<1>1. CASE ReturnError(w)
  <2>1. rc'[w] = Idle /\ queue'[w] = queue[w] \cup {rc[w].comp}
    BY <1>1, TypesKnown, ReturnErrorWait
  <2> QED  BY <2>1 DEF Busy
<1>2. CASE UNCHANGED queue /\ \E u : Advance(w, u) /\ u.comp = rc[w].comp
  BY <1>2, AloneTo DEF Busy
<1> QED  BY <1>1, <1>2 DEF Onward

LEMMA WaitsBusy ==
  ASSUME KnownInv, NEW v \in Workers, NEW c, Waits(v), Busy(v, c)
  PROVE  Busy(v, c)'
<1>1. rc[v] \in Reconcile  BY TypesKnown
<1>2. rc'[v].comp = rc[v].comp  BY <1>1 DEF Waits, OnlyAges, Reconcile
<1> QED  BY <1>2 DEF Waits, Busy

(* A write that does not leave the object as it was, or is tried again,    *)
(* or is followed by another step, keeps the worker busy.                  *)
LEMMA WriteCRBusy ==
  ASSUME KnownInv, NEW w \in Workers, rc[w].pc # "idle", NEW c, Busy(w, c),
         NEW obj, NEW u, NEW retry, WriteCR(w, obj, u, retry)
  PROVE  \/ Busy(w, c)'
         \/ /\ rc[w].comp = c /\ c \notin queue[w] /\ ~retry /\ u.comp # c
            /\ cr'[c] = obj
<1> DEFINE d == rc[w].comp
           stale == IF obj # cr[d] THEN Invalidated(d) ELSE rc
           notified == IF obj # cr[d] THEN Notified(d) ELSE queue
<1>1. PICK lost \in BOOLEAN :
        /\ rc' = [stale EXCEPT ![w] = IF lost THEN Idle ELSE u]
        /\ queue' = [notified EXCEPT ![w] = IF lost \/ retry THEN @ \cup {d} ELSE @]
  BY DEF WriteCR
<1>2. DOMAIN stale = Workers /\ DOMAIN notified = Workers /\ d \in Components
  BY TypesKnown DEF Invalidated, Notified, TypeInv, TypeOK
<1>3. queue[w] \subseteq notified[w]  BY DEF Notified
<1> HIDE DEF stale, notified
<1>4. /\ queue[w] \subseteq queue'[w]
      /\ lost \/ retry => d \in queue'[w]
      /\ rc'[w] = IF lost THEN Idle ELSE u
  BY <1>1, <1>2, <1>3
<1>5. cr'[d] = obj
  BY <1>2, TypesKnown DEF WriteCR, TypeInv, TypeOK
<1> QED  BY <1>4, <1>5 DEF Busy

LEMMA FetchBusy ==
  ASSUME KnownInv, NEW w \in Workers, NEW d \in Components, Fetch(w, d),
         NEW c \in Components, Busy(w, c), cr[c].phase = "live"
  PROVE  Busy(w, c)'
<1> DEFINE t == [Idle EXCEPT !.comp = d, !.tgt = cr[d], !.fresh = TRUE]
<1>1. c \in queue[w] /\ queue'[w] = queue[w] \ {d}
  BY ConstantsAssumption, TypesKnown DEF Fetch, Busy, TypeInv, TypeOK
<1>2. CASE c # d  BY <1>1, <1>2 DEF Busy
<1>3. CASE c = d
  <2> DEFINE f == [t EXCEPT !.pc = "finalizer", !.tgt.finalizer = TRUE]
             e == EnterPrune(t)
             u == ensureResourceHasFinalizer(t)
  <2>1. t.comp = d  BY DEF Idle
  <2>2. f.comp = d /\ e.comp = d
    <3>1. cr[d] \in Object  BY TypesKnown
    <3>2. t \in Reconcile
      BY <3>1, IdleWellFormed DEF WellFormed, Reconcile, Idle
    <3> HIDE DEF t
    <3> QED  BY <2>1, <3>2 DEF EnterPrune, Reconcile
  <2>3. u.comp = d
    <3>1. u = f \/ u = e  BY DEF ensureResourceHasFinalizer
    <3> QED  BY <2>2, <3>1
  <2>4. Advance(w, u)  BY <1>3 DEF Fetch, IsMarkedForDeletion
  <2> HIDE DEF u
  <2> QED  BY <1>3, <2>3, <2>4, AloneTo DEF Busy
<1> QED  BY <1>2, <1>3

(* A worker is done with a live object only when the patch of its          *)
(* addresses, after a reconcile without an error, finds them in it.        *)
LEMMA Finishes ==
  ASSUME KnownInv, NEW w \in Workers, Works(w), NEW c \in Components,
         Busy(w, c), ~Busy(w, c)', cr[c].phase = "live", cr'[c] = cr[c]
  PROVE  /\ UNCHANGED res
         /\ rc[w].pc = "patchSend" /\ rc[w].comp = c /\ ~rc[w].err
         /\ c \notin queue[w]
         /\ \A m \in AllRouteTypes : cr[c].addr[m] = rc[w].tgt.addr[m]
<1> DEFINE t == rc[w]
<1>1. ~ \E d \in Components : Fetch(w, d)  BY FetchBusy
<1>2. ~ReturnError(w) /\ ~Onward(w)  BY OnwardBusy DEF Onward
<1>3. ~removeFinalizer(w)
  <2> SUFFICES ASSUME removeFinalizer(w)  PROVE FALSE  OBVIOUS
  <2>1. t.pc # "idle"  BY DEF removeFinalizer
  <2> DEFINE g == Gone(cr[t.comp])
  <2>2. WriteCR(w, g, Idle, FALSE)  BY <1>2 DEF removeFinalizer
  <2>3. g.phase = "absent"  BY DEF Gone, NoObject
  <2> HIDE DEF g
  <2>4. cr'[c] = g  BY <2>1, <2>2, WriteCRBusy
  <2> QED  BY <2>3, <2>4
<1>4. ~Crash(w)
  <2>1. c \in Handles[w]
    BY ConstantsAssumption, TypesKnown DEF Busy
  <2> QED  BY <2>1, TypesKnown DEF Crash, Busy, TypeInv, TypeOK
<1>5. PatchSend(w)  BY <1>1, <1>2, <1>3, <1>4, StepOnward
<1>6. PICK obj, u :
        /\ \A m \in AllRouteTypes :
             obj.addr[m] = IF m \in t.diff THEN t.tgt.addr[m] ELSE cr[t.comp].addr[m]
        /\ \/ t.pc = "finalizerSend" /\ u.comp = t.comp /\ WriteCR(w, obj, u, FALSE)
           \/ t.pc = "patchSend" /\ u = Idle /\ WriteCR(w, obj, u, t.err)
  BY <1>2, <1>5, PatchSendWrites
<1>7. ASSUME u.comp = t.comp, WriteCR(w, obj, u, FALSE)  PROVE FALSE
  <2>1. rc[w].pc # "idle"  BY <1>6
  <2>2. rc[w].comp = c /\ u.comp # c  BY <1>7, <2>1, WriteCRBusy
  <2> QED  BY <1>7, <2>2
<1>8. /\ t.pc = "patchSend" /\ t.comp = c /\ c \notin queue[w] /\ ~t.err /\ cr'[c] = obj
  <2>1. t.pc = "patchSend" /\ WriteCR(w, obj, u, t.err)  BY <1>6, <1>7
  <2> DEFINE retry == t.err
  <2>2. WriteCR(w, obj, u, retry) /\ t.pc # "idle"  BY <2>1
  <2> HIDE DEF retry
  <2>3. t.comp = c /\ c \notin queue[w] /\ ~retry /\ cr'[c] = obj
    BY <2>2, WriteCRBusy
  <2> QED  BY <2>1, <2>3 DEF retry
<1>9. \A m \in AllRouteTypes \ t.diff : t.tgt.addr[m] = cr[c].addr[m]
  BY <1>8, TypesKnown DEF Knows, Informed
<1>10. UNCHANGED res  BY <1>5 DEF PatchSend
<1> QED  BY <1>6, <1>8, <1>9, <1>10

-------------------------------------------------------------------------------
(* A step of a worker.                                                     *)

LEMMA WorksServes ==
  ASSUME KnownInv, OwnInv, OwnNames, NEW w \in Workers, Works(w)
  PROVE  /\ Serves(w)
         /\ \A c \in Components : OwnAddresses(c)'
         /\ \A c \in Components : c # rc[w].comp /\ Spares(w, c) => Safe(c)
<1> DEFINE Addr == \A c \in Components : OwnAddresses(c)'
           Others == \A c \in Components : c # rc[w].comp /\ Spares(w, c) => Safe(c)
<1> SUFFICES Serves(w) /\ Addr /\ Others  OBVIOUS
<1>1. Owns(rc[w]) /\ \A c \in Components : OwnAddresses(c)  BY DEF OwnInv
<1>2. UNCHANGED cr => Addr  BY <1>1 DEF OwnAddresses
<1>3. UNCHANGED res => Others  BY SameSafe
<1>4. ASSUME rc[w].comp \in Components,
             \A c : Spares(w, c) => Touches(rc[w].comp, c)
      PROVE  Others
  BY <1>4, TouchesSafe
<1>5. rc[w].pc # "idle" => rc[w].comp \in Components  BY TypesKnown
<1> HIDE DEF Others, Addr
<1>6. ASSUME NEW c \in Components, Fetch(w, c)  PROVE Serves(w) /\ Addr /\ Others
  BY <1>1, <1>2, <1>3, <1>6, FetchServes DEF Fetch
<1>7. CASE PatchGet(w)  BY <1>1, <1>2, <1>3, <1>7, PatchGetServes DEF PatchGet, Addr
<1>8. CASE PatchSend(w)
  <2>1. Serves(w) /\ Addr  BY <1>1, <1>5, <1>8, PatchSendServes DEF PatchSend, Addr
  <2> QED  BY <1>3, <1>8, <2>1 DEF PatchSend
<1>9. ASSUME NEW k \in Kinds, deleteOwnedResources(w, k)
      PROVE  Serves(w) /\ Addr /\ Others
  BY <1>1, <1>2, <1>4, <1>5, <1>9, deleteOwnedResourcesServes
  DEF deleteOwnedResources, DeleteAllOf
<1>10. CASE removeFinalizer(w)
  <2>1. Serves(w) /\ Addr  BY <1>1, <1>10, removeFinalizerServes DEF Addr
  <2> QED  BY <1>3, <1>10, <2>1 DEF removeFinalizer
<1>11. CASE ListServices(w)
  BY <1>1, <1>2, <1>3, <1>11, ListServicesServes DEF ListServices
<1>12. CASE ExportNext(w)
  BY <1>1, <1>2, <1>3, <1>12, ExportNextServes DEF ExportNext
<1>13. ASSUME NEW b \in rc[w].batches, LoadBatch(w, b)  PROVE Serves(w) /\ Addr /\ Others
  BY <1>1, <1>2, <1>3, <1>13, LoadBatchServes DEF LoadBatch
<1>14. CASE ApplyGet(w)  BY <1>1, <1>2, <1>3, <1>14, ApplyGetServes DEF ApplyGet
<1>15. CASE ApplyWrite(w)
  BY <1>1, <1>2, <1>4, <1>5, <1>15, ApplyWriteServes DEF ApplyWrite
<1>16. CASE propagateHostsToWatchedCR(w)
  BY <1>1, <1>2, <1>3, <1>16, propagateServes DEF propagateHostsToWatchedCR
<1>17. CASE ApiError(w)
  BY <1>1, <1>2, <1>3, <1>17, OnErrorServes DEF ApiError
<1>18. CASE Crash(w)
  <2>1. Serves(w)  BY <1>18, IdleServes, AloneTo DEF Crash, Serves
  <2> QED  BY <1>2, <1>3, <1>18, <2>1 DEF Crash
<1> QED
  BY <1>6, <1>7, <1>8, <1>9, <1>10, <1>11, <1>12, <1>13, <1>14, <1>15, <1>16, <1>17, <1>18
  DEF Works, Step

LEMMA ServedAsServedIn ==
  ASSUME NEW c
  PROVE  /\ Served(c) <=> \A m \in AllRouteTypes : \A e \in cr[c].addr[m] :
                            ServedIn(res, [comp |-> c, inc |-> cr[c].inc], m, e)
         /\ Served(c)' <=> \A m \in AllRouteTypes : \A e \in cr'[c].addr[m] :
                             ServedIn(res', [comp |-> c, inc |-> cr'[c].inc], m, e)
  BY DEF Served, ServedIn, Needed

LEMMA StaysServed ==
  ASSUME KnownInv, NEW c \in Components, OwnAddresses(c), cr'[c] = cr[c], Safe(c),
         Served(c)
  PROVE  Served(c)'
<1>1. cr[c] \in Object  BY TypesKnown
<1>2. \A m \in AllRouteTypes : \A e \in cr[c].addr[m] :
        e \in Endpoint /\ e.svc \in Selects[c]
  BY <1>1 DEF OwnAddresses, Object
<1>3. cr[c].inc \in Nat  BY <1>1 DEF Object
<1>4. \A m \in AllRouteTypes : \A e \in cr[c].addr[m] :
        ServedIn(res, [comp |-> c, inc |-> cr[c].inc], m, e)
          => ServedIn(res', [comp |-> c, inc |-> cr[c].inc], m, e)
  BY <1>2, <1>3, SafeServed
<1> QED  BY <1>4, ServedAsServedIn

(* An object is left to itself after the worker that had it has seen all   *)
(* of its addresses served.                                                *)
LEMMA WorksAdvertise ==
  ASSUME KnownInv, OwnInv, Watched, OwnNames, Sound, NEW w \in Workers, Works(w),
         NEW c \in Components, rc[w].comp # c => Spares(w, c),
         cr'[c].phase = "live", Settled(c)',
         Settled(c) => Served(c),
         rc[w].comp = c => Progress(res, rc[w])
  PROVE  Served(c)'
<1>1. OwnAddresses(c)  BY DEF OwnInv
<1>2. \A v \in Workers : ~Busy(v, c)'  BY DEF Settled, Busy
<1>3. cr'[c] = cr[c]  BY <1>2 DEF Sound, Told, Watched, Busy
<1>4. \A v \in Workers \ {w} : ~Busy(v, c)
  <2> SUFFICES ASSUME NEW v \in Workers \ {w}, Busy(v, c)  PROVE Busy(v, c)'
    BY <1>2
  <2>1. Waits(v)  BY TypesKnown, OthersWait DEF Works
  <2> QED  BY <2>1, WaitsBusy
<1>5. CASE Busy(w, c)
  <2> DEFINE t == rc[w]
  <2>1. /\ UNCHANGED res /\ t.pc = "patchSend" /\ t.comp = c /\ ~t.err
        /\ c \notin queue[w]
        /\ \A m \in AllRouteTypes : cr[c].addr[m] = t.tgt.addr[m]
    BY <1>2, <1>3, <1>5, Finishes
  <2>2. AddressesServed(res, t)  BY <2>1 DEF Progress
  <2>3. t.tgt.inc = cr[c].inc  BY <2>1, TypesKnown DEF Knows, Informed
  <2>4. Served(c)  BY <2>1, <2>2, <2>3, ServedAsServedIn DEF AddressesServed, UidOf
  <2> QED  BY <1>1, <1>3, <2>1, <2>4, StaysServed, SameSafe
<1>6. CASE ~Busy(w, c)
  <2>1. Settled(c) /\ c # rc[w].comp  BY <1>4, <1>6 DEF Settled, Busy
  <2>2. Safe(c)  BY <2>1, WorksServes
  <2> QED  BY <1>1, <1>3, <2>1, <2>2, StaysServed
<1> QED  BY <1>5, <1>6

(* Whose worker stands still keeps what it has achieved, as long as every  *)
(* kind has one worker.                                                    *)
LEMMA OthersServe ==
  ASSUME KnownInv, OwnInv, Apart, OwnNames, NEW w \in Workers, Works(w),
         NEW v \in Workers \ {w}
  PROVE  /\ Owns(rc'[v]) /\ rc'[v].comp = rc[v].comp
         /\ \/ Serves(v)
            \/ /\ rc[v].comp \in Components /\ rc[v].comp # rc[w].comp
               /\ ~Spares(w, rc[v].comp)
<1>1. Waits(v)  BY TypesKnown, OthersWait DEF Works
<1>2. rc[v] \in Reconcile /\ Owns(rc[v])  BY TypesKnown DEF OwnInv
<1>3. rc'[v].pc = rc[v].pc /\ rc'[v].comp = rc[v].comp
  BY <1>1, <1>2 DEF Waits, OnlyAges, Reconcile
<1>4. CASE rc[v].pc = "idle"
  BY <1>1, <1>2, <1>3, <1>4, WaitsServes DEF Waits, Serves, Progress
<1>5. CASE rc[v].pc # "idle"
  <2>1. rc[v].comp \in Handles[v] /\ rc[v].comp \in Components  BY <1>5, TypesKnown
  <2>2. rc[w].comp # rc[v].comp
    BY ConstantsAssumption, <2>1, TypesKnown DEF Apart
  <2>3. Spares(w, rc[v].comp) => Safe(rc[v].comp)  BY <2>1, <2>2, WorksServes
  <2>4. Spares(w, rc[v].comp) => Serves(v)
    BY <1>1, <1>2, <1>3, <2>3, WaitsServes DEF Waits, Serves
  <2>5. Owns(rc'[v])  BY <1>1, <1>2, WaitsServes DEF Waits
  <2> QED  BY <1>3, <2>1, <2>2, <2>4, <2>5
<1> QED  BY <1>3, <1>4, <1>5 DEF Serves

(* Nobody makes, replaces or deletes a resource.                           *)
LEMMA RestsAdvertise ==
  ASSUME KnownInv, OwnInv, Watched, Sound, UNCHANGED res, \A v \in Workers : Waits(v),
         NEW c \in Components, cr'[c].phase = "live", Settled(c)',
         Settled(c) => Served(c)
  PROVE  Served(c)'
<1>1. \A v \in Workers : ~Busy(v, c)'  BY DEF Settled, Busy
<1>2. cr'[c] = cr[c]  BY <1>1 DEF Sound, Told, Watched, Busy
<1>3. \A v \in Workers : ~Busy(v, c)  BY <1>1, WaitsBusy
<1>4. Settled(c)  BY <1>3 DEF Settled, Busy
<1> QED  BY <1>2, <1>4, StaysServed, SameSafe DEF OwnInv

LEMMA RestsServe ==
  ASSUME KnownInv, OwnInv, UNCHANGED res, \A v \in Workers : Waits(v)
  PROVE  \A v \in Workers : Serves(v) /\ rc'[v].comp = rc[v].comp
<1> SUFFICES ASSUME NEW v \in Workers  PROVE Serves(v) /\ rc'[v].comp = rc[v].comp
  OBVIOUS
<1>1. rc[v] \in Reconcile /\ Owns(rc[v]) /\ OnlyAges(v)
  BY TypesKnown DEF OwnInv, Waits
<1>2. rc'[v].comp = rc[v].comp  BY <1>1 DEF OnlyAges, Reconcile
<1> QED  BY <1>1, <1>2, WaitsServes, SameSafe DEF Serves

LEMMA UserWaits ==
  ASSUME KnownInv, OwnInv, NEW c \in Components, User(c)
  PROVE  /\ UNCHANGED res
         /\ \A v \in Workers : Waits(v)
         /\ \A d \in Components : OwnAddresses(d)'
<1>1. \A d \in Components : OwnAddresses(d)  BY DEF OwnInv
<1>2. cr[c] \in Object  BY TypesKnown
<1>3. PICK obj : /\ UserWrite(c, obj)
                 /\ obj.addr = cr[c].addr \/ obj.addr = NoAddresses
  <2>1. ASSUME NEW E, CreateCR(c, E)
        PROVE  \E obj : UserWrite(c, obj) /\ obj.addr = NoAddresses
    <3> DEFINE obj == [NoObject EXCEPT !.phase = "live", !.inc = cr[c].inc + 1,
                                       !.exports = E]
    <3>1. obj.addr = NoAddresses  BY DEF NoObject
    <3>2. UserWrite(c, obj)  BY <2>1 DEF CreateCR
    <3> QED  BY <3>1, <3>2
  <2>2. ASSUME NEW E, SetExportModes(c, E)
        PROVE  \E obj : UserWrite(c, obj) /\ obj.addr = cr[c].addr
    <3> DEFINE obj == [cr[c] EXCEPT !.exports = E]
    <3>1. obj.addr = cr[c].addr  BY <1>2 DEF Object
    <3>2. UserWrite(c, obj)  BY <2>2 DEF SetExportModes
    <3> QED  BY <3>1, <3>2
  <2>3. TouchCR(c) => \E obj : UserWrite(c, obj) /\ obj.addr = cr[c].addr
    BY DEF TouchCR
  <2>4. ASSUME DeleteCR(c)
        PROVE  \E obj : /\ UserWrite(c, obj)
                        /\ obj.addr = cr[c].addr \/ obj.addr = NoAddresses
    <3> DEFINE obj == IF cr[c].finalizer THEN [cr[c] EXCEPT !.phase = "terminating"]
                                         ELSE Gone(cr[c])
    <3>1. obj.addr = cr[c].addr \/ obj.addr = NoAddresses
      BY <1>2 DEF Object, Gone, NoObject
    <3>2. UserWrite(c, obj)  BY <2>4 DEF DeleteCR
    <3> QED  BY <3>1, <3>2
  <2> QED  BY <2>1, <2>2, <2>3, <2>4 DEF User
<1>4. cr'[c] = obj /\ \A d \in Components \ {c} : cr'[d] = cr[d]
  BY <1>3, TypesKnown DEF UserWrite, TypeInv, TypeOK
<1>5. \A d \in Components : OwnAddresses(d)'
  <2>1. \A m \in AllRouteTypes : NoAddresses[m] = {}  BY DEF NoAddresses
  <2> QED  BY <1>1, <1>3, <1>4, <2>1 DEF OwnAddresses
<1>6. \A v \in Workers : Waits(v)
  BY <1>3 DEF UserWrite, Invalidated, Notified, Waits, OnlyAges
<1> QED  BY <1>3, <1>5, <1>6 DEF UserWrite

LEMMA InitServed == Init => ServedInv
<1> SUFFICES ASSUME Init PROVE ServedInv  OBVIOUS
<1>1. KnownInv  BY InitKnown
<1>2. \A c \in Components : cr[c].phase = "absent"
                            /\ \A m \in AllRouteTypes : cr[c].addr[m] = {}
  BY DEF Init, NoObject, NoAddresses
<1>3. \A w \in Workers : rc[w] = Idle  BY DEF Init
<1>4. OwnInv  BY <1>2, <1>3, IdleServes DEF OwnInv, OwnAddresses
<1>5. \A w \in Workers : Progress(res, rc[w])  BY <1>3, IdleServes
<1>6. AdvertisedIsServed  BY <1>2 DEF AdvertisedIsServed
<1> QED  BY <1>1, <1>4, <1>5, <1>6 DEF ServedInv

(* When the controller is done with a live object, every address that is   *)
(* written on it is served: all resources of its template are there, with  *)
(* the labels of this object and of this mode, and route to the endpoint   *)
(* the address is for.  The patch that writes the addresses                *)
(* (reconcile_resources.go:103-121) is the last call of a reconcile, and   *)
(* it comes after an apply of every resource and of nothing less: a        *)
(* failed apply leaves an error that brings the object back, and no        *)
(* deletion, crash or edit undoes what was applied without queueing it -   *)
(* as long as the reconciles of other components take nothing, which the   *)
(* code does not see to (delete_resources.go:66-74).                       *)
THEOREM AdvertisedAreServed ==
  ASSUME Apart, Watched, OwnNames
  PROVE  Spec /\ [][NothingTaken]_vars => []AdvertisedIsServed
<1>1. ServedInv /\ [Next]_vars /\ [NothingTaken]_vars => ServedInv'
  <2> SUFFICES ASSUME ServedInv, [Next]_vars, [NothingTaken]_vars PROVE ServedInv'
    OBVIOUS
  <2>1. KnownInv /\ OwnInv /\ \A w \in Workers : Progress(res, rc[w])
    BY DEF ServedInv
  <2>2. Sound /\ KnownInv'  BY <2>1, NextSound, NextKnown
  <2>3. ASSUME \A c \in Components : OwnAddresses(c)', \A v \in Workers : Serves(v),
               \A c \in Components : cr'[c].phase = "live" /\ Settled(c)' => Served(c)'
        PROVE  ServedInv'
    BY <2>1, <2>2, <2>3 DEF ServedInv, OwnInv, Serves, AdvertisedIsServed
  <2>4. \A c \in Components : cr'[c] = cr[c] /\ cr'[c].phase = "live" =>
          (Settled(c) => Served(c))
    BY DEF ServedInv, AdvertisedIsServed
  <2>5. \A c \in Components : Settled(c)' => cr'[c] = cr[c]
    BY <2>2 DEF Settled, Sound, Told, Watched
  <2>6. ASSUME NothingTaken, NEW w \in Workers, Works(w)  PROVE ServedInv'
    <3>1. \A c \in Components : OwnAddresses(c)'  BY <2>1, <2>6, WorksServes
    <3>2. \A v \in Workers : Serves(v)  BY <2>1, <2>6, WorksServes, OthersServe DEF NothingTaken
    <3>3. \A c \in Components : cr'[c].phase = "live" /\ Settled(c)' => Served(c)'
      BY <2>1, <2>2, <2>4, <2>5, <2>6, WorksAdvertise DEF NothingTaken
    <3> QED  BY <2>3, <3>1, <3>2, <3>3
  <2>7. ASSUME UNCHANGED res, \A v \in Workers : Waits(v),
               \A c \in Components : OwnAddresses(c)'
        PROVE  ServedInv'
    <3>1. \A v \in Workers : Serves(v)  BY <2>1, <2>7, RestsServe
    <3>2. \A c \in Components : cr'[c].phase = "live" /\ Settled(c)' => Served(c)'
      BY <2>1, <2>2, <2>4, <2>5, <2>7, RestsAdvertise
    <3> QED  BY <2>3, <2>7, <3>1, <3>2
  <2>8. ASSUME NEW c \in Components, User(c)  PROVE ServedInv'
    BY <2>1, <2>7, <2>8, UserWaits
  <2>9. CASE UNCHANGED <<cr, res, queue, rc>>
    BY <2>1, <2>7, <2>9 DEF Waits, OnlyAges, OwnInv, OwnAddresses
  <2>10. NothingTaken \/ UNCHANGED <<cr, res, queue, rc>>  BY DEF vars
  <2> QED  BY <2>6, <2>8, <2>9, <2>10 DEF Next, Works, ServiceOwner, ChangeService, RemoveService, vars
<1>2. ServedInv => AdvertisedIsServed  BY DEF ServedInv
<1> QED  BY <1>1, <1>2, InitServed, PTL DEF Spec

(* A component that has the gateway namespace to itself: nobody is there   *)
(* to take anything, and what it advertises is served.                     *)
OneComponent == \A c, d \in Components : c = d

THEOREM AloneAdvertisedAreServed ==
  ASSUME Apart, Watched, OwnNames, OneComponent
  PROVE  Spec => []AdvertisedIsServed
<1>1. TypeInv => [NothingTaken]_vars
  <2> SUFFICES ASSUME TypeInv, NEW w \in Workers, NEW c \in Components, rc[w].comp # c,
                      NEW k \in Kinds, deleteOwnedResources(w, k)
               PROVE  FALSE
    BY DEF NothingTaken, Spares
  <2>1. rc[w].pc # "idle"  BY DEF deleteOwnedResources, DeleteAllOf
  <2>2. rc[w].comp \in Components  BY <2>1 DEF TypeInv, TypeOK
  <2> QED  BY <2>2 DEF OneComponent
<1>2. Spec => []TypeInv  BY TypeInvHolds
<1>3. Spec /\ [][NothingTaken]_vars => []AdvertisedIsServed  BY AdvertisedAreServed
<1> QED  BY <1>1, <1>2, <1>3, PTL

-------------------------------------------------------------------------------
(* The converse: what is exported is advertised.  This needs neither Apart *)
(* nor OwnNames, but one service per component, as each service replaces   *)
(* the addresses of the one before it, and services that keep their ports, *)
(* as nobody watches them.                                                 *)

(* The selector of a component finds one service.                          *)
OneService == \A c \in Components : \A s, t \in Selects[c] : s = t

(* A step on which the services of objects that exist lose no port.        *)
PortsStay == \A c \in Components :
  cr[c].phase = "absent" \/ Exported(c) \subseteq Exported(c)'

Alive(c, n) == cr[c].inc = n /\ cr[c].phase # "absent"

(* The address that r stands for is missing.                               *)
Omitted(r) ==
  LET c == r.owner.comp
  IN /\ cr[c].inc = r.owner.inc
     /\ cr[c].phase = "live"
     /\ r.type \in EnabledModes(c)
     /\ r.backend \notin cr[c].addr[r.type]

(* The endpoints that a reconcile has listed and is not through with.      *)
InHand(t) == t.exporting \cup UNION {Endpoints(s) : s \in t.pending}

(* t is going to write that address, or to come back.                      *)
Announces(t, r) ==
  \/ t.err
  \/ t.pc \in {"finalizer", "finalizerSend", "prune", "create"}
  \/ r.backend \in InHand(t)
  \/ /\ t.pc \in {"services", "patch", "patchSend"}
     /\ t.pending = {}
     /\ r.backend \in t.tgt.addr[r.type]

Promises(w, r) ==
  LET c == r.owner.comp
  IN \/ c \in queue[w]
     \/ rc[w].pc # "idle" /\ rc[w].comp = c /\ Announces(rc[w], r)

(* What a reconcile holds of what it has listed: services of the component *)
(* with distinct names, and what is applied is of the endpoints being      *)
(* exported.                                                               *)
Collects(t) ==
  /\ \A s \in t.pending : s.name \in Selects[t.comp]
  /\ \A s, x \in t.pending : s.name = x.name => s = x
  /\ t.pc # "services" => t.pending = {}
  /\ t.pc \notin {"batches", "applyGet", "applyWrite"} => t.exporting = {}
  /\ t.pc \notin {"applyGet", "applyWrite"} => t.items = <<>>
  /\ \A b \in t.batches : b.backend \in t.exporting
  /\ \A i \in DOMAIN t.items : t.items[i].backend \in t.exporting

AnnouncedInv ==
  /\ FinalizerInv
  /\ KnownInv
  /\ \A w \in Workers :
       /\ Collects(rc[w])
       /\ rc[w].pc # "idle" /\ Alive(rc[w].comp, rc[w].tgt.inc) =>
            InHand(rc[w]) \subseteq Exported(rc[w].comp)
  /\ \A r \in res : Alive(r.owner.comp, r.owner.inc) => r.backend \in Exported(r.owner.comp)
  /\ \A r \in res : Omitted(r) => \E w \in Workers : Promises(w, r)

(* What a step of w does to all that: it takes up no endpoint but what the *)
(* services have, makes resources of what it exports, and keeps promises   *)
(* about objects that stay as they are.                                    *)
Offers(t, u) ==
  \/ InHand(u) \subseteq Exported(u.comp)
  \/ /\ t.pc # "idle" /\ u.comp = t.comp /\ u.tgt.inc = t.tgt.inc
     /\ InHand(u) \subseteq InHand(t)

Makes(w) == \A r \in res' :
  \/ r \in res
  \/ /\ rc[w].pc = "applyWrite"
     /\ r.owner = UidOf(rc[w])
     /\ r.backend \in rc[w].exporting

Keeps(w) == \A r \in res' :
  LET c == r.owner.comp
  IN cr'[c] = cr[c] /\ Omitted(r) /\ (r \in res => Promises(w, r)) => Promises(w, r)'

Advances(w) == Collects(rc'[w]) /\ Offers(rc[w], rc'[w]) /\ Makes(w) /\ Keeps(w)

LEMMA IdleCollects == Collects(Idle) /\ InHand(Idle) = {}
<1>1. /\ Idle.pc = "idle" /\ Idle.items = <<>> /\ DOMAIN <<>> = {}
      /\ Idle.pending = {} /\ Idle.exporting = {} /\ Idle.batches = {}
  BY DEF Idle
<1> QED  BY <1>1 DEF Collects, InHand

LEMMA InHandOf ==
  ASSUME NEW t
  PROVE  /\ t.exporting \subseteq InHand(t)
         /\ t.pending = {} => InHand(t) = t.exporting
<1> DEFINE all == UNION {Endpoints(s) : s \in t.pending}
<1>1. ASSUME t.pending = {}  PROVE all = {}
  <2>1. \A e : e \notin all  BY <1>1
  <2> QED  BY <2>1
<1>2. InHand(t) = t.exporting \cup all  BY DEF InHand
<1> HIDE DEF all
<1> QED  BY <1>1, <1>2

LEMMA GivesUp ==
  ASSUME KnownInv, NEW w \in Workers, rc'[w] = Idle,
         queue[w] \subseteq queue'[w], rc[w].comp \in queue'[w], Makes(w)
  PROVE  Advances(w)
<1>1. Keeps(w)
  BY DEF Keeps, Promises, Makes, UidOf
<1> QED  BY <1>1, IdleCollects DEF Advances, Offers

LEMMA ReturnErrorAdvances ==
  ASSUME KnownInv, NEW w \in Workers, ReturnError(w), Makes(w)
  PROVE  Advances(w)
<1>1. rc'[w] = Idle /\ queue'[w] = queue[w] \cup {rc[w].comp}
  BY TypesKnown, ReturnErrorWait
<1> QED  BY <1>1, GivesUp

(* w goes on with its object, as u.                                        *)
LEMMA GoesOnAdvances ==
  ASSUME KnownInv, NEW w \in Workers, NEW u, rc'[w] = u, queue[w] \subseteq queue'[w],
         rc[w].pc # "idle", u.pc # "idle", u.comp = rc[w].comp,
         Collects(u), Offers(rc[w], u), Makes(w),
         \A r \in res' :
           /\ r.owner.comp = u.comp /\ u.comp \notin queue[w] /\ Omitted(r)
           /\ r \in res => Announces(rc[w], r)
           => Announces(u, r)
  PROVE  Advances(w)
<1>1. Keeps(w)
  <2> SUFFICES ASSUME NEW r \in res', Omitted(r), r \in res => Promises(w, r)
               PROVE  Promises(w, r)'
    BY DEF Keeps
  <2>1. CASE r.owner.comp \in queue[w]  BY <2>1 DEF Promises
  <2>2. CASE r.owner.comp \notin queue[w]
    <3>1. r.owner.comp = u.comp  BY <2>2 DEF Promises, Makes, UidOf
    <3>2. r \in res => Announces(rc[w], r)  BY <2>2 DEF Promises
    <3>3. Announces(u, r)  BY <2>2, <3>1, <3>2
    <3> QED  BY <3>1, <3>3 DEF Promises
  <2> QED  BY <2>1, <2>2
<1> QED  BY <1>1 DEF Advances

(* With an error, or before the services are listed, that is all.          *)
LEMMA EarlyAdvances ==
  ASSUME KnownInv, NEW w \in Workers, NEW u, Advance(w, u), UNCHANGED queue,
         rc[w].pc # "idle", u.pc # "idle", u.comp = rc[w].comp, u.tgt.inc = rc[w].tgt.inc,
         Collects(u), InHand(u) \subseteq InHand(rc[w]), Makes(w),
         u.err \/ u.pc \in {"finalizer", "finalizerSend", "prune", "create"}
  PROVE  Advances(w)
<1>1. Offers(rc[w], u)  BY DEF Offers
<1>2. \A r : Announces(u, r)  BY DEF Announces
<1> QED  BY <1>1, <1>2, AloneTo, GoesOnAdvances

LEMMA OnErrorAdvances ==
  ASSUME KnownInv, NEW w \in Workers, OnError(w), Collects(rc[w]), Makes(w)
  PROVE  Advances(w)
<1> DEFINE t == rc[w]
<1>1. t \in Reconcile  BY TypesKnown
<1>2. CASE ReturnError(w)  BY <1>2, ReturnErrorAdvances
<1>3. ASSUME NEW u \in Reconcile, Collects(u), Advance(w, RecordError(u)), UNCHANGED queue,
             t.pc # "idle", u.pc # "idle", u.comp = t.comp, u.tgt = t.tgt,
             InHand(u) \subseteq InHand(t)
      PROVE  Advances(w)
  <2> DEFINE e == RecordError(u)
  <2>1. /\ e.comp = u.comp /\ e.tgt = u.tgt /\ e.pc = u.pc /\ e.items = u.items
        /\ e.batches = u.batches /\ e.pending = u.pending /\ e.exporting = u.exporting
        /\ e.err = TRUE
    BY DEF RecordError, Reconcile
  <2>2. Advance(w, e)  BY <1>3
  <2> HIDE DEF e
  <2>3. Collects(e) /\ InHand(e) = InHand(u)  BY <1>3, <2>1 DEF Collects, InHand
  <2> QED  BY <1>3, <2>1, <2>2, <2>3, EarlyAdvances
<1>4. CASE /\ t.pc = "prune"
           /\ Advance(w, RecordError([t EXCEPT !.pc = "create", !.kinds = {}]))
           /\ UNCHANGED queue
  <2> DEFINE u == [t EXCEPT !.pc = "create", !.kinds = {}]
  <2>1. /\ u \in Reconcile /\ u.comp = t.comp /\ u.tgt = t.tgt /\ u.items = t.items
        /\ u.pending = t.pending /\ u.exporting = t.exporting
        /\ u.pc = "create" /\ u.batches = t.batches
    BY <1>1 DEF Reconcile, PCs
  <2>2. Advance(w, RecordError(u))  BY <1>4
  <2> HIDE DEF u
  <2>3. Collects(u) /\ InHand(u) = InHand(t)  BY <1>4, <2>1 DEF Collects, InHand
  <2> QED  BY <1>3, <1>4, <2>1, <2>2, <2>3
<1>5. CASE /\ t.pc = "create"
           /\ Advance(w, RecordError([t EXCEPT !.pc = "patch"]))
           /\ UNCHANGED queue
  <2> DEFINE u == [t EXCEPT !.pc = "patch"]
  <2>1. /\ u \in Reconcile /\ u.comp = t.comp /\ u.tgt = t.tgt /\ u.items = t.items
        /\ u.pending = t.pending /\ u.exporting = t.exporting
        /\ u.pc = "patch" /\ u.batches = t.batches
    BY <1>1 DEF Reconcile, PCs
  <2>2. Advance(w, RecordError(u))  BY <1>5
  <2> HIDE DEF u
  <2>3. Collects(u) /\ InHand(u) = InHand(t)  BY <1>5, <2>1 DEF Collects, InHand
  <2> QED  BY <1>3, <1>5, <2>1, <2>2, <2>3
<1>6. CASE /\ t.pc \in {"applyGet", "applyWrite"}
           /\ Advance(w, RecordError([t EXCEPT !.pc = "services", !.exporting = {},
                                               !.batches = {}, !.items = <<>>,
                                               !.found = FALSE]))
           /\ UNCHANGED queue
  <2> DEFINE u == [t EXCEPT !.pc = "services", !.exporting = {}, !.batches = {},
                            !.items = <<>>, !.found = FALSE]
  <2>1. <<>> \in Seq(Item) /\ DOMAIN <<>> = {}  OBVIOUS
  <2>2. /\ u \in Reconcile /\ u.comp = t.comp /\ u.tgt = t.tgt /\ u.items = <<>>
        /\ u.pc = "services" /\ u.pending = t.pending /\ u.exporting = {} /\ u.batches = {}
    BY <1>1, <2>1 DEF Reconcile, PCs
  <2>3. Advance(w, RecordError(u))  BY <1>6
  <2> HIDE DEF u
  <2>4. Collects(u) /\ InHand(u) \subseteq InHand(t)  BY <2>1, <2>2 DEF Collects, InHand
  <2> QED  BY <1>3, <1>6, <2>2, <2>3, <2>4
<1> QED  BY <1>2, <1>4, <1>5, <1>6 DEF OnError

(* Each action of a worker.                                                *)

LEMMA NothingMade ==
  ASSUME NEW w \in Workers, res' \subseteq res
  PROVE  Makes(w)
  BY DEF Makes

LEMMA PatchGetAdvances ==
  ASSUME KnownInv, NEW w \in Workers, PatchGet(w), Collects(rc[w])
  PROVE  Advances(w)
<1> DEFINE t == rc[w]
           u == [t EXCEPT
                  !.pc = IF t.pc = "finalizer" THEN "finalizerSend" ELSE "patchSend",
                  !.diff = {m \in AllRouteTypes : t.tgt.addr[m] # cr[t.comp].addr[m]}]
<1>1. t \in Reconcile /\ t.pc \in {"finalizer", "patch"}  BY TypesKnown DEF PatchGet
<1>2. /\ u.comp = t.comp /\ u.tgt = t.tgt /\ u.items = t.items /\ u.batches = t.batches
      /\ u.pending = t.pending /\ u.exporting = t.exporting /\ u.err = t.err
      /\ u.pc = IF t.pc = "finalizer" THEN "finalizerSend" ELSE "patchSend"
  BY <1>1 DEF Reconcile
<1>3. Makes(w)  BY NothingMade DEF PatchGet
<1>4. CASE ReturnError(w)  BY <1>3, <1>4, ReturnErrorAdvances
<1>5. CASE Advance(w, u) /\ UNCHANGED queue
  <2> HIDE DEF u
  <2>1. Collects(u) /\ InHand(u) = InHand(t)  BY <1>1, <1>2 DEF Collects, InHand
  <2>2. Offers(t, u)  BY <1>1, <1>2, <2>1 DEF Offers
  <2>3. \A r : Announces(t, r) => Announces(u, r)  BY <1>1, <1>2, <2>1 DEF Announces
  <2>4. res' = res  BY DEF PatchGet
  <2> QED  BY <1>1, <1>2, <1>3, <1>5, <2>1, <2>2, <2>3, <2>4, AloneTo, GoesOnAdvances
<1> QED  BY <1>4, <1>5 DEF PatchGet

LEMMA deleteOwnedResourcesAdvances ==
  ASSUME KnownInv, NEW w \in Workers, NEW kind, deleteOwnedResources(w, kind),
         Collects(rc[w])
  PROVE  Advances(w)
<1> DEFINE t == rc[w]
           done == IF t.pc = "prune" THEN "create" ELSE "unfinalize"
           u == [t EXCEPT !.pc = IF t.kinds = {kind} THEN done ELSE @,
                          !.kinds = @ \ {kind}]
<1>1. t \in Reconcile /\ t.pc \in {"prune", "cleanup"}
  BY TypesKnown DEF deleteOwnedResources, DeleteAllOf
<1>2. /\ u.comp = t.comp /\ u.tgt = t.tgt /\ u.items = t.items /\ u.batches = t.batches
      /\ u.pending = t.pending /\ u.exporting = t.exporting /\ u.err = t.err
      /\ u.pc \in IF t.pc = "prune" THEN {"prune", "create"} ELSE {"cleanup", "unfinalize"}
  BY <1>1 DEF Reconcile
<1>3. Reply(w, u)  BY DEF deleteOwnedResources, DeleteAllOf
<1> HIDE DEF u
<1>4. Collects(u) /\ InHand(u) = InHand(t) /\ InHand(t) = {}
  BY <1>1, <1>2 DEF Collects, InHand
<1>5. res' \subseteq res  BY DEF deleteOwnedResources, DeleteAllOf
<1>6. Makes(w)  BY <1>5, NothingMade
<1>7. CASE Advance(w, u) /\ UNCHANGED queue
  <2>1. Offers(t, u)  BY <1>1, <1>2, <1>4 DEF Offers
  <2>2. \A r : Announces(t, r) => Announces(u, r)
    BY <1>1, <1>2, <1>4 DEF Announces, InHand
  <2> QED  BY <1>1, <1>2, <1>4, <1>5, <1>6, <1>7, <2>1, <2>2, AloneTo, GoesOnAdvances
<1> QED  BY <1>3, <1>6, <1>7, OnErrorAdvances DEF Reply

(* What is listed has every endpoint of which there are resources.         *)
LEMMA ListServicesAdvances ==
  ASSUME KnownInv, NEW w \in Workers, ListServices(w), Collects(rc[w]),
         \A r \in res : Omitted(r) => r.backend \in Exported(r.owner.comp)
  PROVE  Advances(w)
<1> DEFINE t == rc[w]
           u1 == NoneExported(t)
           u2 == RecordError([t EXCEPT !.pc = "patch"])
           u3 == [t EXCEPT !.pc = "services", !.pending = Listed(t.comp)]
<1>1. t \in Reconcile /\ t.pc = "create" /\ t.comp \in Components /\ Informed(w)
  BY TypesKnown DEF ListServices, Knows
<1>2. Makes(w) /\ res' = res /\ UNCHANGED queue  BY NothingMade DEF ListServices
<1>3. t.exporting = {} /\ t.pending = {} /\ t.items = <<>>  BY <1>1 DEF Collects
<1>4. CASE Modes(t) = {} /\ Advance(w, u1)
  <2>1. /\ u1.comp = t.comp /\ u1.tgt.inc = t.tgt.inc /\ u1.items = t.items
        /\ u1.batches = t.batches /\ u1.pending = t.pending /\ u1.err = t.err
        /\ u1.exporting = t.exporting /\ u1.pc = "patch"
    BY <1>1 DEF Reconcile, Object, NoneExported
  <2> HIDE DEF u1
  <2>2. Collects(u1) /\ InHand(u1) = InHand(t)  BY <1>3, <2>1 DEF Collects, InHand
  <2>3. Offers(t, u1)  BY <1>1, <2>1, <2>2 DEF Offers
  <2>4. ASSUME NEW r \in res', r.owner.comp = t.comp, t.comp \notin queue[w], Omitted(r)
        PROVE  FALSE
    <3>1. t.tgt.exports = cr[t.comp].exports  BY <1>1, <2>4 DEF Informed
    <3>2. r.type \in Modes(t)  BY <2>4, <3>1 DEF Omitted, EnabledModes, Modes
    <3> QED  BY <1>4, <3>2
  <2> QED  BY <1>1, <1>2, <1>4, <2>1, <2>2, <2>3, <2>4, AloneTo, GoesOnAdvances
<1>5. CASE Advance(w, u2)
  <2>1. /\ u2.comp = t.comp /\ u2.tgt = t.tgt /\ u2.items = t.items
        /\ u2.batches = t.batches /\ u2.pending = t.pending /\ u2.pc = "patch"
        /\ u2.exporting = t.exporting /\ u2.err = TRUE
    BY <1>1 DEF Reconcile, RecordError
  <2> HIDE DEF u2
  <2>2. Collects(u2) /\ InHand(u2) = InHand(t)  BY <1>3, <2>1 DEF Collects, InHand
  <2> QED  BY <1>1, <1>2, <1>5, <2>1, <2>2, EarlyAdvances
<1>6. CASE Advance(w, u3)
  <2>1. /\ u3.comp = t.comp /\ u3.tgt = t.tgt /\ u3.items = t.items
        /\ u3.batches = t.batches /\ u3.pending = Listed(t.comp)
        /\ u3.exporting = t.exporting /\ u3.pc = "services"
    BY <1>1 DEF Reconcile
  <2> HIDE DEF u3
  <2>2. Collects(u3) /\ InHand(u3) = Exported(t.comp)
    <3>1. /\ \A s \in Listed(t.comp) : s.name \in Selects[t.comp]
          /\ \A s, x \in Listed(t.comp) : s.name = x.name => s = x
      BY DEF Listed
    <3> QED  BY <1>3, <2>1, <3>1 DEF Collects, InHand, Exported
  <2>3. Offers(t, u3)  BY <2>1, <2>2 DEF Offers
  <2>4. \A r \in res' : r.owner.comp = t.comp /\ Omitted(r) => Announces(u3, r)
    BY <1>2, <2>1, <2>2 DEF Announces, Omitted
  <2> QED  BY <1>1, <1>2, <1>6, <2>1, <2>2, <2>3, <2>4, AloneTo, GoesOnAdvances
<1> QED  BY <1>4, <1>5, <1>6 DEF ListServices

LEMMA ExportNextAdvances ==
  ASSUME KnownInv, OneService, NEW w \in Workers, ExportNext(w), Collects(rc[w])
  PROVE  Advances(w)
<1> DEFINE t == rc[w]
<1>1. t \in Reconcile /\ t.pc = "services" /\ t.comp \in Components
  BY TypesKnown DEF ExportNext
<1>2. Makes(w) /\ res' = res /\ UNCHANGED queue  BY NothingMade DEF ExportNext
<1>3. t.exporting = {} /\ t.items = <<>> /\ DOMAIN <<>> = {}  BY <1>1 DEF Collects
<1>4. CASE t.pending = {} /\ Advance(w, [t EXCEPT !.pc = "patch"])
  <2> DEFINE u == [t EXCEPT !.pc = "patch"]
  <2>1. /\ u.comp = t.comp /\ u.tgt = t.tgt /\ u.items = t.items
        /\ u.batches = t.batches /\ u.pending = t.pending
        /\ u.exporting = t.exporting /\ u.err = t.err /\ u.pc = "patch"
    BY <1>1 DEF Reconcile
  <2>2. Advance(w, u)  BY <1>4
  <2> HIDE DEF u
  <2>3. Collects(u) /\ InHand(u) = InHand(t)  BY <1>3, <1>4, <2>1 DEF Collects, InHand
  <2>4. Offers(t, u)  BY <1>1, <2>1, <2>3 DEF Offers
  <2>5. \A r : Announces(t, r) => Announces(u, r)
    BY <1>1, <1>3, <1>4, <2>1, <2>3, InHandOf DEF Announces
  <2> QED  BY <1>1, <1>2, <2>1, <2>2, <2>3, <2>4, <2>5, AloneTo, GoesOnAdvances
<1>5. ASSUME NEW s \in t.pending, Advance(w, Exporting(t, s))
      PROVE  Advances(w)
  <2> DEFINE P == Endpoints(s)
             u == Exporting(t, s)
  <2>1. t.pending = {s}
    <3>1. \A x \in t.pending : x.name = s.name
      BY <1>1, <1>5 DEF Collects, OneService
    <3> QED  BY <1>5, <3>1 DEF Collects
  <2>2. InHand(t) = P  BY <1>3, <2>1 DEF InHand
  <2> HIDE DEF P
  <2>3. /\ u.comp = t.comp /\ u.tgt = t.tgt /\ u.items = t.items /\ u.exporting = P
        /\ u.batches = {[mode |-> m, backend |-> e] : m \in Modes(t), e \in P}
        /\ u.pending = {} /\ u.err = t.err /\ u.pc = "batches"
    BY <1>1, <2>1 DEF Reconcile, Exporting, P
  <2>4. Advance(w, u)  BY <1>5
  <2> HIDE DEF u
  <2>5. \A b \in u.batches : b.backend \in u.exporting  BY <2>3
  <2>6. Collects(u) /\ InHand(u) = InHand(t)
    <3>1. InHand(u) = P  BY <2>3, InHandOf
    <3> QED  BY <1>3, <2>2, <2>3, <2>5, <3>1 DEF Collects
  <2>7. Offers(t, u)  BY <1>1, <2>3, <2>6 DEF Offers
  <2>8. ASSUME NEW r, Announces(t, r)  PROVE Announces(u, r)
    <3>1. r.backend \in InHand(t) \/ t.err  BY <1>1, <1>5, <2>8 DEF Announces
    <3> QED  BY <2>3, <2>6, <3>1 DEF Announces
  <2> QED  BY <1>1, <1>2, <2>3, <2>4, <2>6, <2>7, <2>8, AloneTo, GoesOnAdvances
<1> QED  BY <1>4, <1>5 DEF ExportNext

LEMMA LoadBatchAdvances ==
  ASSUME KnownInv, NEW w \in Workers, NEW b \in rc[w].batches, LoadBatch(w, b),
         Collects(rc[w])
  PROVE  Advances(w)
<1> DEFINE t == rc[w]
           kinds == Load(b.mode)
           items == [i \in DOMAIN kinds |->
                       [mode |-> b.mode, kind |-> kinds[i], backend |-> b.backend]]
           u == [t EXCEPT !.pc = "applyGet", !.batches = @ \ {b}, !.items = items]
<1>1. t \in Reconcile /\ t.pc = "batches"  BY TypesKnown DEF LoadBatch
<1>2. Makes(w) /\ res' = res /\ UNCHANGED queue  BY NothingMade DEF LoadBatch
<1>3. \A i \in DOMAIN items : items[i].backend = b.backend  OBVIOUS
<1>4. Advance(w, u)  BY DEF LoadBatch
<1> HIDE DEF items
<1>5. /\ u.comp = t.comp /\ u.tgt = t.tgt /\ u.items = items
      /\ u.exporting = t.exporting /\ u.batches = t.batches \ {b}
      /\ u.pending = t.pending /\ u.err = t.err /\ u.pc = "applyGet"
  BY <1>1 DEF Reconcile
<1> HIDE DEF u
<1>6. Collects(u) /\ InHand(u) = InHand(t)  BY <1>1, <1>3, <1>5 DEF Collects, InHand
<1>7. Offers(t, u)  BY <1>1, <1>5, <1>6 DEF Offers
<1>8. \A r : Announces(t, r) => Announces(u, r)  BY <1>1, <1>5, <1>6 DEF Announces
<1> QED  BY <1>1, <1>2, <1>4, <1>5, <1>6, <1>7, <1>8, AloneTo, GoesOnAdvances

LEMMA ApplyGetAdvances ==
  ASSUME KnownInv, NEW w \in Workers, ApplyGet(w), Collects(rc[w])
  PROVE  Advances(w)
<1> DEFINE t == rc[w]
           u == [t EXCEPT !.pc = "applyWrite", !.found = Occupants(t) # {}]
<1>1. t \in Reconcile /\ t.pc = "applyGet"  BY TypesKnown DEF ApplyGet
<1>2. Makes(w) /\ res' = res /\ UNCHANGED queue  BY NothingMade DEF ApplyGet
<1>3. /\ u.comp = t.comp /\ u.tgt = t.tgt /\ u.items = t.items
      /\ u.exporting = t.exporting /\ u.batches = t.batches
      /\ u.pending = t.pending /\ u.err = t.err /\ u.pc = "applyWrite"
  BY <1>1 DEF Reconcile
<1>4. Advance(w, u)  BY DEF ApplyGet
<1> HIDE DEF u
<1>5. Collects(u) /\ InHand(u) = InHand(t)  BY <1>1, <1>3 DEF Collects, InHand
<1>6. Offers(t, u)  BY <1>1, <1>3, <1>5 DEF Offers
<1>7. \A r : Announces(t, r) => Announces(u, r)  BY <1>1, <1>3, <1>5 DEF Announces
<1> QED  BY <1>1, <1>2, <1>3, <1>4, <1>5, <1>6, <1>7, AloneTo, GoesOnAdvances

(* What is made is of an endpoint whose address will be written.           *)
LEMMA ApplyWriteAdvances ==
  ASSUME KnownInv, NEW w \in Workers, ApplyWrite(w), Collects(rc[w])
  PROVE  Advances(w)
<1> DEFINE t == rc[w]
           it == Head(t.items)
           u == [t EXCEPT !.pc = IF Len(t.items) = 1 THEN "batches" ELSE "applyGet",
                          !.items = Tail(@), !.found = FALSE]
<1>1. /\ t \in Reconcile /\ t.pc = "applyWrite"
      /\ t.items \in Seq(Item) /\ t.items # <<>>
  BY TypesKnown DEF ApplyWrite, WellFormed, Reconcile
<1>2. /\ u.comp = t.comp /\ u.tgt = t.tgt /\ u.items = Tail(t.items) /\ u.err = t.err
      /\ u.batches = t.batches /\ u.exporting = t.exporting /\ u.pending = t.pending
      /\ u.pc = IF Len(t.items) = 1 THEN "batches" ELSE "applyGet"
  BY <1>1 DEF Reconcile
<1>3. Reply(w, u)  BY DEF ApplyWrite
<1> HIDE DEF u
<1>4. /\ 1 \in DOMAIN t.items /\ it = t.items[1]
      /\ Len(t.items) = 1 => Tail(t.items) = <<>>
      /\ \A j \in DOMAIN Tail(t.items) :
           j + 1 \in DOMAIN t.items /\ Tail(t.items)[j] = t.items[j + 1]
  <2>1. /\ it \in Item /\ Tail(t.items) \in Seq(Item)
        /\ Len(Tail(t.items)) = Len(t.items) - 1 /\ Len(t.items) \in Nat \ {0}
        /\ DOMAIN t.items = 1 .. Len(t.items) /\ it = t.items[1]
        /\ \A j \in 1 .. Len(Tail(t.items)) : Tail(t.items)[j] = t.items[j + 1]
    BY <1>1, HeadTailProperties, EmptySeq
  <2>2. DOMAIN Tail(t.items) = 1 .. Len(Tail(t.items))  BY <2>1
  <2>3. ASSUME Len(t.items) = 1  PROVE Tail(t.items) = <<>>
    <3>1. Tail(t.items) \in Seq(Item) /\ Len(Tail(t.items)) = 0  BY <2>1, <2>3
    <3> QED  BY <3>1, EmptySeq
  <2> QED  BY <2>1, <2>2, <2>3
<1>5. it.backend \in t.exporting  BY <1>4 DEF Collects
<1>6. /\ Rendered(t).owner = UidOf(t) /\ Rendered(t).backend = it.backend
      /\ \A r \in res' : r \in res \/ r = Rendered(t)
  BY DEF ApplyWrite, Rendered
<1>7. Makes(w)  BY <1>1, <1>5, <1>6 DEF Makes
<1>8. Collects(u) /\ InHand(u) = InHand(t)
  <2>1. \A j \in DOMAIN u.items : u.items[j].backend \in u.exporting
    BY <1>2, <1>4 DEF Collects
  <2> QED  BY <1>1, <1>2, <1>4, <2>1 DEF Collects, InHand
<1>9. CASE Advance(w, u) /\ UNCHANGED queue
  <2>1. Offers(t, u)  BY <1>1, <1>2, <1>8 DEF Offers
  <2>2. \A r : Announces(t, r) => Announces(u, r)  BY <1>1, <1>2, <1>8 DEF Announces
  <2>3. \A r \in res' : r \in res \/ Announces(u, r)
    BY <1>2, <1>7, InHandOf DEF Makes, Announces
  <2>4. u.pc # "idle"  BY <1>2
  <2> QED
    BY <1>1, <1>2, <1>7, <1>8, <1>9, <2>1, <2>2, <2>3, <2>4, AloneTo, GoesOnAdvances
<1> QED  BY <1>3, <1>7, <1>9, OnErrorAdvances DEF Reply

LEMMA propagateAdvances ==
  ASSUME KnownInv, NEW w \in Workers, propagateHostsToWatchedCR(w), Collects(rc[w])
  PROVE  Advances(w)
<1> DEFINE t == rc[w]
           u == [t EXCEPT !.pc = "services", !.exporting = {},
                          !.tgt.addr = Addresses(t)]
<1>1. /\ t \in Reconcile /\ t.pc = "batches" /\ t.batches = {} /\ Informed(w)
      /\ t.pending = {} /\ t.items = <<>> /\ DOMAIN <<>> = {}
  BY TypesKnown DEF propagateHostsToWatchedCR, Knows, Collects
<1>2. Makes(w) /\ res' = res /\ UNCHANGED queue
  BY NothingMade DEF propagateHostsToWatchedCR
<1>3. /\ u.comp = t.comp /\ u.tgt.inc = t.tgt.inc /\ u.tgt.addr = Addresses(t)
      /\ u.items = t.items /\ u.batches = t.batches /\ u.exporting = {}
      /\ u.pending = t.pending /\ u.err = t.err /\ u.pc = "services"
  BY <1>1 DEF Reconcile, Object
<1>4. Advance(w, u)  BY DEF propagateHostsToWatchedCR
<1> HIDE DEF u
<1>5. Collects(u) /\ InHand(u) \subseteq InHand(t)  BY <1>1, <1>3 DEF Collects, InHand
<1>6. Offers(t, u)  BY <1>1, <1>3, <1>5 DEF Offers
<1>7. ASSUME NEW r \in res', r.owner.comp = t.comp, t.comp \notin queue[w], Omitted(r),
             Announces(t, r)
      PROVE  Announces(u, r)
  <2>1. t.tgt.exports = cr[t.comp].exports  BY <1>1, <1>7 DEF Informed
  <2>2. r.type \in Modes(t)  BY <1>7, <2>1 DEF Omitted, EnabledModes, Modes
  <2>3. u.tgt.addr[r.type] = t.exporting
    BY <1>3, <2>2, ModesType DEF Addresses
  <2> QED  BY <1>1, <1>3, <1>7, <2>3, InHandOf DEF Announces
<1> QED  BY <1>1, <1>2, <1>3, <1>4, <1>5, <1>6, <1>7, AloneTo, GoesOnAdvances

LEMMA EnterPruneCollects ==
  ASSUME NEW t \in Reconcile, t.items = <<>>, t.batches = {}, t.pending = {},
         t.exporting = {}
  PROVE  LET u == EnterPrune(t) IN
         /\ Collects(u) /\ InHand(u) = {}
         /\ u.comp = t.comp /\ u.pc \in {"prune", "create"}
<1> DEFINE u == EnterPrune(t)
<1>1. /\ u.comp = t.comp /\ u.items = <<>> /\ u.batches = {} /\ u.pending = {}
      /\ u.exporting = {} /\ u.pc \in {"prune", "create"}
  BY DEF EnterPrune, Reconcile
<1>2. DOMAIN <<>> = {}  OBVIOUS
<1> HIDE DEF u
<1>3. Collects(u) /\ InHand(u) = {}  BY <1>1, <1>2 DEF Collects, InHand
<1> QED  BY <1>1, <1>3 DEF u

(* A live object that is taken up gets its addresses written.              *)
LEMMA FetchAdvances ==
  ASSUME KnownInv, NEW w \in Workers, NEW c \in Components, Fetch(w, c), Collects(rc[w])
  PROVE  Advances(w)
<1> DEFINE t == [Idle EXCEPT !.comp = c, !.tgt = cr[c], !.fresh = TRUE]
<1>1. cr[c] \in Object /\ rc[w].pc = "idle" /\ res' = res /\ cr' = cr
      /\ queue'[w] = queue[w] \ {c}
  BY TypesKnown DEF Fetch, TypeInv, TypeOK
<1>2. /\ t \in Reconcile /\ t.comp = c /\ t.tgt = cr[c] /\ t.items = <<>>
      /\ t.batches = {} /\ t.pending = {} /\ t.exporting = {}
  BY <1>1, IdleWellFormed DEF WellFormed, Reconcile, Idle
<1>3. DOMAIN <<>> = {}  OBVIOUS
<1> HIDE DEF t
<1>4. Makes(w)  BY <1>1, NothingMade
<1>5. ASSUME Collects(rc'[w]), Offers(rc[w], rc'[w]),
             cr[c].phase = "live" =>
               rc'[w].comp = c /\ rc'[w].pc \in {"finalizer", "prune", "create"}
      PROVE  Advances(w)
  <2>1. Keeps(w)
    <3> SUFFICES ASSUME NEW r \in res', Omitted(r), r \in res => Promises(w, r)
                 PROVE  Promises(w, r)'
      BY DEF Keeps
    <3>1. r.owner.comp \in queue[w] /\ cr[r.owner.comp].phase = "live"
      BY <1>1 DEF Promises, Omitted
    <3> QED  BY <1>1, <1>5, <3>1 DEF Promises, Announces
  <2> QED  BY <1>4, <1>5, <2>1 DEF Advances
<1>6. CASE /\ UNCHANGED rc
           /\ cr[c].phase # "live"
  <2>1. Offers(rc[w], rc'[w])
    BY <1>1, <1>6 DEF Offers, Collects, InHand
  <2> QED  BY <1>5, <1>6, <2>1
<1>7. CASE /\ Advance(w, [t EXCEPT !.pc = "cleanup",
                                   !.kinds = routingResourceGVKs(Modes(t))])
           /\ cr[c].phase # "live"
  <2> DEFINE u == [t EXCEPT !.pc = "cleanup", !.kinds = routingResourceGVKs(Modes(t))]
  <2>1. /\ u.items = <<>> /\ u.batches = {} /\ u.pending = {} /\ u.exporting = {}
    BY <1>2 DEF Reconcile
  <2>2. Advance(w, u)  BY <1>7
  <2> HIDE DEF u
  <2>3. Collects(u) /\ Offers(rc[w], u)  BY <2>1, <1>3 DEF Collects, InHand, Offers
  <2> QED  BY <1>5, <1>7, <2>2, <2>3, AloneTo
<1>8. CASE Advance(w, ensureResourceHasFinalizer(t))
  <2> DEFINE f == [t EXCEPT !.pc = "finalizer", !.tgt.finalizer = TRUE]
             e == EnterPrune(t)
             u == ensureResourceHasFinalizer(t)
  <2>1. /\ f.comp = c /\ f.items = <<>> /\ f.batches = {} /\ f.pending = {}
        /\ f.exporting = {} /\ f.pc = "finalizer"
    BY <1>2 DEF Reconcile, Object
  <2>2. Collects(e) /\ InHand(e) = {} /\ e.comp = c /\ e.pc \in {"prune", "create"}
    BY <1>2, EnterPruneCollects
  <2>3. u = f \/ u = e  BY DEF ensureResourceHasFinalizer
  <2> HIDE DEF f, e
  <2>4. Collects(f) /\ InHand(f) = {}  BY <1>3, <2>1 DEF Collects, InHand
  <2>5. Advance(w, u)  BY <1>8
  <2> HIDE DEF u
  <2>6. Offers(rc[w], u)  BY <2>2, <2>3, <2>4 DEF Offers
  <2> QED  BY <1>5, <2>1, <2>2, <2>3, <2>4, <2>5, <2>6, AloneTo
<1>9. IsMarkedForDeletion(cr[c]) => cr[c].phase # "live"  BY DEF IsMarkedForDeletion
<1> QED  BY <1>6, <1>7, <1>8, <1>9 DEF Fetch, t

(* A write of an object that stays as it was, and is not tried again.      *)
LEMMA WriteCRAdvances ==
  ASSUME KnownInv, NEW w \in Workers, rc[w].pc # "idle", NEW c, c = rc[w].comp,
         NEW obj, NEW u, NEW retry, WriteCR(w, obj, u, retry), UNCHANGED res,
         Collects(u), InHand(u) = {},
         obj = cr[c] /\ ~retry /\ c \notin queue[w] =>
           \A r \in res : /\ r.owner.comp = c /\ Omitted(r) /\ Announces(rc[w], r)
                          => u.pc # "idle" /\ u.comp = c /\ Announces(u, r)
  PROVE  Advances(w)
<1> DEFINE stale == IF obj # cr[c] THEN Invalidated(c) ELSE rc
           notified == IF obj # cr[c] THEN Notified(c) ELSE queue
<1>1. PICK lost \in BOOLEAN :
        /\ rc' = [stale EXCEPT ![w] = IF lost THEN Idle ELSE u]
        /\ queue' = [notified EXCEPT ![w] = IF lost \/ retry THEN @ \cup {c} ELSE @]
  BY DEF WriteCR
<1>2. DOMAIN stale = Workers /\ DOMAIN notified = Workers /\ c \in Components
  BY TypesKnown DEF Invalidated, Notified, TypeInv, TypeOK
<1>3. queue[w] \subseteq notified[w]  BY DEF Notified
<1> HIDE DEF stale, notified
<1>4. /\ queue[w] \subseteq queue'[w]
      /\ lost \/ retry => c \in queue'[w]
      /\ rc'[w] = IF lost THEN Idle ELSE u
  BY <1>1, <1>2, <1>3
<1>5. cr'[c] = obj
  BY <1>2, TypesKnown DEF WriteCR, TypeInv, TypeOK
<1>6. Makes(w)  BY NothingMade
<1>7. CASE lost \/ retry
  <2>1. Collects(rc'[w]) /\ Offers(rc[w], rc'[w])
    BY <1>4, IdleCollects DEF Offers
  <2>2. Keeps(w)  BY <1>4, <1>7 DEF Keeps, Promises
  <2> QED  BY <1>6, <2>1, <2>2 DEF Advances
<1>8. CASE ~lost /\ ~retry
  <2>1. Collects(rc'[w]) /\ Offers(rc[w], rc'[w])  BY <1>4, <1>8 DEF Offers
  <2>2. Keeps(w)
    <3> SUFFICES ASSUME NEW r \in res, cr'[r.owner.comp] = cr[r.owner.comp], Omitted(r),
                        Promises(w, r)
                 PROVE  Promises(w, r)'
      BY DEF Keeps
    <3>1. CASE r.owner.comp \in queue[w]  BY <1>4, <3>1 DEF Promises
    <3>2. CASE r.owner.comp \notin queue[w]
      <4>1. r.owner.comp = c /\ Announces(rc[w], r)  BY <3>2 DEF Promises
      <4>2. u.pc # "idle" /\ u.comp = c /\ Announces(u, r)
        BY <1>5, <1>8, <3>2, <4>1
      <4> QED  BY <1>4, <1>8, <4>1, <4>2 DEF Promises
    <3> QED  BY <3>1, <3>2
  <2> QED  BY <1>6, <2>1, <2>2 DEF Advances
<1> QED  BY <1>7, <1>8

LEMMA PatchSendAdvances ==
  ASSUME KnownInv, NEW w \in Workers, PatchSend(w), Collects(rc[w])
  PROVE  Advances(w)
<1> DEFINE t == rc[w]
           c == t.comp
           stored == cr[c]
           obj == [stored EXCEPT
                     !.finalizer = IF t.pc = "finalizerSend" THEN TRUE ELSE @,
                     !.addr = [m \in AllRouteTypes |->
                                 IF m \in t.diff THEN t.tgt.addr[m] ELSE @[m]]]
           x == [t EXCEPT !.tgt = obj, !.fresh = TRUE, !.diff = {}]
<1>1. /\ t \in Reconcile /\ t.pc \in {"finalizerSend", "patchSend"} /\ c \in Components
      /\ stored \in Object /\ Informed(w) /\ Shape(t) /\ res' = res
  BY TypesKnown DEF PatchSend, Knows
<1>2. t.exporting = {} /\ t.items = <<>> /\ t.pending = {} /\ t.batches = {}
  BY <1>1 DEF Collects
<1>3. /\ obj \in Object
      /\ \A m \in AllRouteTypes :
           obj.addr[m] = IF m \in t.diff THEN t.tgt.addr[m] ELSE stored.addr[m]
  <2>1. t.tgt \in Object  BY <1>1 DEF Reconcile
  <2> QED  BY <1>1, <2>1 DEF Object
<1>4. \/ ReturnError(w)
      \/ t.pc = "finalizerSend" /\ WriteCR(w, obj, EnterPrune(x), FALSE)
      \/ t.pc = "patchSend" /\ WriteCR(w, obj, Idle, t.err)
  BY DEF PatchSend
<1> HIDE DEF obj
<1>5. /\ x \in Reconcile /\ x.comp = c /\ x.items = t.items
      /\ x.batches = t.batches /\ x.pending = t.pending /\ x.exporting = t.exporting
  BY <1>1, <1>3 DEF Reconcile
<1> HIDE DEF x
<1>6. CASE ReturnError(w)
  <2>1. Makes(w)  BY <1>1, NothingMade
  <2> QED  BY <1>6, <2>1, ReturnErrorAdvances
<1>7. CASE t.pc = "finalizerSend" /\ WriteCR(w, obj, EnterPrune(x), FALSE)
  <2> DEFINE u == EnterPrune(x)
  <2>1. Collects(u) /\ InHand(u) = {} /\ u.comp = c /\ u.pc \in {"prune", "create"}
    BY <1>2, <1>5, EnterPruneCollects
  <2>2. WriteCR(w, obj, u, FALSE)  BY <1>7
  <2> HIDE DEF u
  <2>3. \A r : Announces(u, r)  BY <2>1 DEF Announces
  <2> QED  BY <1>1, <2>1, <2>2, <2>3, WriteCRAdvances
<1>8. CASE t.pc = "patchSend" /\ WriteCR(w, obj, Idle, t.err)
  <2> DEFINE retry == t.err
  <2>1. ASSUME obj = stored, ~retry, c \notin queue[w], NEW r \in res,
               r.owner.comp = c, Omitted(r), Announces(t, r)
        PROVE  FALSE
    <3>1. r.type \in AllRouteTypes
      BY <2>1, TypesKnown DEF Resource
    <3>2. r.backend \in t.tgt.addr[r.type]
      BY <1>2, <1>8, <2>1, InHandOf DEF Announces
    <3>3. t.tgt.addr[r.type] = stored.addr[r.type]
      BY <1>1, <1>3, <1>8, <2>1, <3>1 DEF Informed
    <3> QED  BY <2>1, <3>2, <3>3 DEF Omitted
  <2>2. WriteCR(w, obj, Idle, retry) /\ t.pc # "idle" /\ UNCHANGED res
    BY <1>1, <1>8
  <2> HIDE DEF retry
  <2> QED  BY <2>1, <2>2, IdleCollects, WriteCRAdvances
<1> QED  BY <1>4, <1>6, <1>7, <1>8

LEMMA removeFinalizerAdvances ==
  ASSUME KnownInv, NEW w \in Workers, removeFinalizer(w), Collects(rc[w])
  PROVE  Advances(w)
<1> DEFINE t == rc[w]
           obj == Gone(cr[t.comp])
<1>1. t.pc = "unfinalize" /\ res' = res  BY DEF removeFinalizer
<1>2. obj.phase = "absent"  BY GoneFields
<1>3. CASE ReturnError(w)
  <2>1. Makes(w)  BY <1>1, NothingMade
  <2> QED  BY <1>3, <2>1, ReturnErrorAdvances
<1>4. CASE WriteCR(w, obj, Idle, FALSE)
  <2> HIDE DEF obj
  <2>1. obj = cr[t.comp] => \A r \in res : r.owner.comp = t.comp => ~Omitted(r)
    BY <1>2 DEF Omitted
  <2> QED  BY <1>1, <1>4, <2>1, IdleCollects, WriteCRAdvances
<1> QED  BY <1>3, <1>4 DEF removeFinalizer

LEMMA CrashAdvances ==
  ASSUME KnownInv, NEW w \in Workers, Crash(w)
  PROVE  Advances(w)
<1>1. /\ rc'[w] = Idle /\ res' = res
      /\ queue'[w] = {c \in Handles[w] : cr[c].phase # "absent"}
  BY AloneTo, TypesKnown DEF Crash, TypeInv, TypeOK
<1>2. Makes(w)  BY <1>1, NothingMade
<1>3. Collects(rc'[w]) /\ Offers(rc[w], rc'[w])  BY <1>1, IdleCollects DEF Offers
<1>4. Keeps(w)
  <2> SUFFICES ASSUME NEW r \in res, Omitted(r), Promises(w, r)
               PROVE  Promises(w, r)'
    BY <1>1 DEF Keeps
  <2>1. r.owner.comp \in Handles[w]  BY TypesKnown DEF Promises
  <2> QED  BY <1>1, <2>1 DEF Promises, Omitted
<1> QED  BY <1>2, <1>3, <1>4 DEF Advances

LEMMA WorksAdvances ==
  ASSUME KnownInv, OneService, NEW w \in Workers, Works(w), Collects(rc[w]),
         \A r \in res : Omitted(r) => r.backend \in Exported(r.owner.comp)
  PROVE  Advances(w)
<1>1. CASE \E c \in Components : Fetch(w, c)  BY <1>1, FetchAdvances
<1>2. CASE \E k \in Kinds : deleteOwnedResources(w, k)
  BY <1>2, deleteOwnedResourcesAdvances
<1>3. CASE \E b \in rc[w].batches : LoadBatch(w, b)  BY <1>3, LoadBatchAdvances
<1>4. CASE ApiError(w)
  <2>1. Makes(w)  BY <1>4, NothingMade DEF ApiError
  <2> QED  BY <1>4, <2>1, OnErrorAdvances DEF ApiError
<1> QED
  BY <1>1, <1>2, <1>3, <1>4, PatchGetAdvances, PatchSendAdvances,
     removeFinalizerAdvances, ListServicesAdvances, ExportNextAdvances, ApplyGetAdvances,
     ApplyWriteAdvances, propagateAdvances, CrashAdvances
  DEF Works, Step

(* A worker that stands still: whatever it holds and promises stays.       *)
LEMMA WaitsAdvances ==
  ASSUME KnownInv, NEW v \in Workers, Waits(v), Collects(rc[v])
  PROVE  /\ Collects(rc'[v])
         /\ InHand(rc'[v]) = InHand(rc[v]) /\ rc'[v].comp = rc[v].comp
         /\ rc'[v].tgt.inc = rc[v].tgt.inc /\ rc'[v].pc = rc[v].pc
         /\ rc[v].pc = "idle" => InHand(rc[v]) = {}
         /\ \A r : Promises(v, r) => Promises(v, r)'
<1> DEFINE t == rc[v]
           u == rc'[v]
<1>1. t \in Reconcile  BY TypesKnown
<1>2. /\ u.pc = t.pc /\ u.comp = t.comp /\ u.tgt = t.tgt /\ u.items = t.items
      /\ u.batches = t.batches /\ u.pending = t.pending /\ u.exporting = t.exporting
      /\ u.err = t.err
  BY <1>1 DEF Waits, OnlyAges, Reconcile
<1> HIDE DEF u
<1>3. Collects(u) /\ InHand(u) = InHand(t)  BY <1>2 DEF Collects, InHand
<1>4. t.pc = "idle" => InHand(t) = {}  BY DEF Collects, InHand
<1>5. \A r : Announces(t, r) => Announces(u, r)  BY <1>2, <1>3 DEF Announces
<1>6. \A r : Promises(v, r) => Promises(v, r)'
  BY <1>2, <1>5 DEF Waits, Promises, u
<1> QED  BY <1>2, <1>3, <1>4, <1>6 DEF u

(* What the steps of the objects and of the services have in common.       *)
LEMMA AnnouncedKept ==
  ASSUME AnnouncedInv, Watched, Told, FinalizerInv', KnownInv', ObjectsStep,
         \A c \in Components : cr[c].phase # "absent" => Exported(c) \subseteq Exported(c)',
         \A v \in Workers :
           /\ Collects(rc'[v])
           /\ \/ InHand(rc'[v]) \subseteq Exported(rc[v].comp)'
              \/ /\ rc[v].pc # "idle" /\ rc'[v].comp = rc[v].comp
                 /\ rc'[v].tgt.inc = rc[v].tgt.inc /\ InHand(rc'[v]) \subseteq InHand(rc[v]),
         \A r \in res' : r \in res \/ \E v \in Workers :
           rc[v].pc = "applyWrite" /\ r.owner = UidOf(rc[v]) /\ r.backend \in rc[v].exporting,
         \A r \in res' :
           /\ cr'[r.owner.comp] = cr[r.owner.comp] /\ Omitted(r)
           /\ r \in res => \E v \in Workers : Promises(v, r)
           => \E v \in Workers : Promises(v, r)'
  PROVE  AnnouncedInv'
<1>1. /\ TypeInv /\ NoFutureWork /\ NoFutureOwners /\ KnownInv
      /\ \A c \in Components : cr[c].inc \in Nat
  BY TypesKnown DEF AnnouncedInv, FinalizerInv, Object
<1>2. ASSUME NEW c \in Components, NEW n \in Nat, n <= cr[c].inc, Alive(c, n)'
      PROVE  Alive(c, n) /\ Exported(c) \subseteq Exported(c)'
  <2>1. cr'[c].inc = n /\ cr'[c].phase # "absent" /\ cr[c].inc <= cr'[c].inc
    BY <1>2 DEF Alive, ObjectsStep
  <2>2. cr[c].inc = n  BY <1>1, <1>2, <2>1
  <2>3. cr[c].phase # "absent"  BY <2>1, <2>2 DEF ObjectsStep
  <2> QED  BY <2>2, <2>3 DEF Alive
<1>3. ASSUME NEW v \in Workers, rc[v].pc # "idle", NEW c, c = rc[v].comp,
             NEW n, n = rc[v].tgt.inc, Alive(c, n)'
      PROVE  InHand(rc[v]) \subseteq Exported(c)'
  <2>1. c \in Components /\ n \in Nat /\ n <= cr[c].inc
    BY <1>1, <1>3, TypesKnown DEF NoFutureWork, Reconcile, Object
  <2>2. Alive(c, n) /\ Exported(c) \subseteq Exported(c)'
    BY <1>2, <1>3, <2>1
  <2> QED  BY <1>3, <2>2 DEF AnnouncedInv
<1>4. ASSUME NEW v \in Workers, rc'[v].pc # "idle", Alive(rc[v].comp, rc[v].tgt.inc)'
      PROVE  InHand(rc'[v]) \subseteq Exported(rc[v].comp)'
  <2>1. CASE /\ rc[v].pc # "idle" /\ rc'[v].comp = rc[v].comp
             /\ rc'[v].tgt.inc = rc[v].tgt.inc /\ InHand(rc'[v]) \subseteq InHand(rc[v])
    BY <1>3, <1>4, <2>1 DEF Alive, Exported
  <2> QED  BY <2>1
<1>5. ASSUME NEW r \in res', Alive(r.owner.comp, r.owner.inc)'
      PROVE  r.backend \in Exported(r.owner.comp)'
  <2>1. CASE r \in res
    <3>1. /\ r.owner.comp \in Components /\ r.owner.inc \in Nat
          /\ r.owner.inc <= cr[r.owner.comp].inc
      BY <1>1, <2>1, TypesKnown DEF NoFutureOwners, Uid
    <3>2. /\ Alive(r.owner.comp, r.owner.inc)
          /\ Exported(r.owner.comp) \subseteq Exported(r.owner.comp)'
      BY <1>2, <1>5, <3>1
    <3> QED  BY <2>1, <3>2 DEF AnnouncedInv
  <2>2. CASE r \notin res
    <3>1. PICK v \in Workers :
            rc[v].pc = "applyWrite" /\ r.owner = UidOf(rc[v]) /\ r.backend \in rc[v].exporting
      BY <2>2
    <3>2. r.owner.comp = rc[v].comp /\ r.owner.inc = rc[v].tgt.inc  BY <3>1 DEF UidOf
    <3>3. InHand(rc[v]) \subseteq Exported(r.owner.comp)'  BY <1>3, <1>5, <3>1, <3>2
    <3> QED  BY <3>1, <3>3, InHandOf
  <2> QED  BY <2>1, <2>2
<1>6. ASSUME NEW r \in res', Omitted(r)'  PROVE \E v \in Workers : Promises(v, r)'
  <2> DEFINE c == r.owner.comp
  <2>1. c \in Components  BY TypesKnown, <1>1 DEF KnownInv, TypeInv, TypeOK, Resource, Uid
  <2>2. CASE cr'[c] # cr[c]
    <3>1. PICK v \in Workers : c \in Handles[v]  BY <2>1 DEF Watched
    <3>2. c \in queue'[v]  BY <2>1, <2>2, <3>1 DEF Told
    <3> QED  BY <3>2 DEF Promises
  <2>3. CASE cr'[c] = cr[c]
    <3>1. Omitted(r)  BY <1>6, <2>3 DEF Omitted, EnabledModes
    <3>2. r \in res => \E v \in Workers : Promises(v, r)  BY <3>1 DEF AnnouncedInv
    <3> QED  BY <2>3, <3>1, <3>2
  <2> QED  BY <2>2, <2>3
<1> QED  BY <1>4, <1>5, <1>6 DEF AnnouncedInv

LEMMA WorksPorts ==
  ASSUME NEW w \in Workers, Works(w)
  PROVE  UNCHANGED svcPorts
  BY DEF Works, Step, ApiError, Crash, Fetch, PatchGet, PatchSend, deleteOwnedResources,
         DeleteAllOf, removeFinalizer, ListServices, ExportNext, LoadBatch, ApplyGet,
         ApplyWrite, propagateHostsToWatchedCR

LEMMA WorksAnnounced ==
  ASSUME AnnouncedInv, Watched, OneService, Told, FinalizerInv', KnownInv', ObjectsStep,
         NEW w \in Workers, Works(w)
  PROVE  AnnouncedInv'
<1>1. KnownInv /\ \A v \in Workers : Collects(rc[v])  BY DEF AnnouncedInv
<1>2. \A r \in res : Omitted(r) => r.backend \in Exported(r.owner.comp)
  BY DEF AnnouncedInv, Omitted, Alive
<1>3. Advances(w)  BY <1>1, <1>2, WorksAdvances
<1>4. \A v \in Workers \ {w} : Waits(v)  BY <1>1, TypesKnown, OthersWait DEF Works
<1>5. \A c : Exported(c)' = Exported(c)  BY WorksPorts DEF Exported, Listed
<1>6. \A v \in Workers :
        /\ Collects(rc'[v])
        /\ \/ InHand(rc'[v]) \subseteq Exported(rc[v].comp)'
           \/ /\ rc[v].pc # "idle" /\ rc'[v].comp = rc[v].comp
              /\ rc'[v].tgt.inc = rc[v].tgt.inc /\ InHand(rc'[v]) \subseteq InHand(rc[v])
  <2> SUFFICES ASSUME NEW v \in Workers
               PROVE  /\ Collects(rc'[v])
                      /\ \/ InHand(rc'[v]) \subseteq Exported(rc[v].comp)'
                         \/ /\ rc[v].pc # "idle" /\ rc'[v].comp = rc[v].comp
                            /\ rc'[v].tgt.inc = rc[v].tgt.inc
                            /\ InHand(rc'[v]) \subseteq InHand(rc[v])
    OBVIOUS
  <2>1. CASE v = w
    <3>1. InHand(rc'[w]) \subseteq Exported(rc'[w].comp) =>
            InHand(rc'[w]) \subseteq Exported(rc[w].comp)'
      BY WorksPorts DEF Exported, Listed
    <3> QED  BY <1>3, <2>1, <3>1 DEF Advances, Offers
  <2>2. CASE v # w  BY <1>1, <1>4, <2>2, WaitsAdvances
  <2> QED  BY <2>1, <2>2
<1>7. \A r \in res' :
        /\ cr'[r.owner.comp] = cr[r.owner.comp] /\ Omitted(r)
        /\ r \in res => \E v \in Workers : Promises(v, r)
        => \E v \in Workers : Promises(v, r)'
  <2> SUFFICES ASSUME NEW r \in res', cr'[r.owner.comp] = cr[r.owner.comp], Omitted(r),
                      r \in res => \E v \in Workers : Promises(v, r)
               PROVE  \E v \in Workers : Promises(v, r)'
    OBVIOUS
  <2>1. CASE r \in res => Promises(w, r)  BY <1>3, <2>1 DEF Advances, Keeps
  <2>2. CASE \E v \in Workers \ {w} : Promises(v, r)
    BY <1>1, <1>4, <2>2, WaitsAdvances
  <2> QED  BY <2>1, <2>2
<1>8. \A r \in res' : r \in res \/ \E v \in Workers :
        rc[v].pc = "applyWrite" /\ r.owner = UidOf(rc[v]) /\ r.backend \in rc[v].exporting
  BY <1>3 DEF Advances, Makes
<1> QED  BY <1>5, <1>6, <1>7, <1>8, AnnouncedKept

LEMMA RestsAnnounced ==
  ASSUME AnnouncedInv, Watched, Told, FinalizerInv', KnownInv', ObjectsStep,
         UNCHANGED res, \A v \in Workers : Waits(v), PortsStay
  PROVE  AnnouncedInv'
<1>1. KnownInv /\ \A v \in Workers : Collects(rc[v])  BY DEF AnnouncedInv
<1>2. \A c \in Components : cr[c].phase # "absent" => Exported(c) \subseteq Exported(c)'
  BY DEF PortsStay
<1>3. \A v \in Workers :
        /\ Collects(rc'[v])
        /\ \/ InHand(rc'[v]) \subseteq Exported(rc[v].comp)'
           \/ /\ rc[v].pc # "idle" /\ rc'[v].comp = rc[v].comp
              /\ rc'[v].tgt.inc = rc[v].tgt.inc /\ InHand(rc'[v]) \subseteq InHand(rc[v])
  BY <1>1, WaitsAdvances
<1>4. \A r : (\E v \in Workers : Promises(v, r)) => \E v \in Workers : Promises(v, r)'
  BY <1>1, WaitsAdvances
<1> QED  BY <1>2, <1>3, <1>4, AnnouncedKept

LEMMA UserRests ==
  ASSUME NEW c \in Components, User(c)
  PROVE  UNCHANGED <<res, svcPorts>> /\ \A v \in Workers : Waits(v)
<1>1. PICK obj : UserWrite(c, obj)
  BY DEF User, CreateCR, SetExportModes, TouchCR, DeleteCR
<1> QED  BY <1>1 DEF UserWrite, Invalidated, Notified, Waits, OnlyAges

LEMMA InitAnnounced == Init => AnnouncedInv
<1> SUFFICES ASSUME Init PROVE AnnouncedInv  OBVIOUS
<1>1. FinalizerInv /\ KnownInv  BY InitFinalizerInv, InitKnown
<1>2. \A w \in Workers : rc[w] = Idle /\ Idle.pc = "idle"
  BY IdleWellFormed DEF Init
<1>3. res = {}  BY DEF Init
<1> QED  BY <1>1, <1>2, <1>3, IdleCollects DEF AnnouncedInv

(* When the controller is done with a live object, every host that it      *)
(* exports for it is in the address annotations: a resource is made only   *)
(* of an endpoint that the same reconcile goes on to write the address of  *)
(* (reconcile_resources.go:87, 100), or comes back for.                    *)
THEOREM ServedAreAdvertised ==
  ASSUME Watched, OneService
  PROVE  Spec /\ [][PortsStay]_vars => []AllHostsAdvertised
<1>1. AnnouncedInv /\ [Next]_vars /\ [PortsStay]_vars => AnnouncedInv'
  <2> SUFFICES ASSUME AnnouncedInv, [Next]_vars, [PortsStay]_vars PROVE AnnouncedInv'
    OBVIOUS
  <2>1. FinalizerInv /\ KnownInv /\ TypeInv  BY DEF AnnouncedInv, KnownInv
  <2>2. FinalizerInv' /\ KnownInv' /\ Told /\ ObjectsStep
    BY <2>1, NextFinalizerInv, NextKnown, NextSound, NextSteps DEF Sound
  <2>3. PortsStay \/ UNCHANGED vars  OBVIOUS
  <2>4. PortsStay  BY <2>3 DEF PortsStay, Exported, Listed, vars
  <2>5. ASSUME NEW w \in Workers, Works(w)  PROVE AnnouncedInv'
    BY <2>2, <2>5, WorksAnnounced
  <2>6. ASSUME NEW c \in Components, User(c)  PROVE AnnouncedInv'
    BY <2>2, <2>4, <2>6, UserRests, RestsAnnounced
  <2>7. CASE UNCHANGED <<cr, res, queue, rc>>
    <3>1. \A v \in Workers : Waits(v)  BY <2>7 DEF Waits, OnlyAges
    <3> QED  BY <2>2, <2>4, <2>7, <3>1, RestsAnnounced
  <2> QED  BY <2>5, <2>6, <2>7 DEF Next, Works, ServiceOwner, ChangeService, RemoveService, vars
<1>2. AnnouncedInv /\ SettledInv => AllHostsAdvertised
  <2> SUFFICES ASSUME AnnouncedInv, UnusedAttended, KnownInv,
                      NEW c \in Components, cr[c].phase = "live", Settled(c),
                      NEW r \in Owned(c), r.backend \notin cr[c].addr[r.type]
               PROVE  FALSE
    BY DEF SettledInv, AllHostsAdvertised
  <2>1. r \in res /\ r.owner.comp = c /\ r.owner.inc = cr[c].inc  BY DEF Owned
  <2>2. \A w \in Workers : ~Attends(w, r) /\ ~Promises(w, r)
    BY <2>1 DEF Settled, Attends, Promises
  <2>3. r.type \in EnabledModes(c)  BY <2>1, <2>2 DEF UnusedAttended, Unwanted
  <2>4. Omitted(r)  BY <2>1, <2>3 DEF Omitted
  <2> QED  BY <2>1, <2>2, <2>4 DEF AnnouncedInv
<1>3. Spec => []SettledInv  BY SettledInvHolds
<1> QED  BY <1>1, <1>2, <1>3, InitAnnounced, PTL DEF Spec
===============================================================================
