------------------------- MODULE RoutingProtocolProofs -------------------------
(***************************************************************************)
(* The routing controller implements FinalizerProtocol, and a cleanup that *)
(* removes the finalizer has removed all there was to remove, for every    *)
(* set of components, workers and services and for every bound.            *)
(*                                                                         *)
(* Both need what the workqueue of one manager gives: no object is in the  *)
(* hands of two workers.  With two managers a cleanup may be overtaken by  *)
(* an apply of the other.                                                  *)
(***************************************************************************)
EXTENDS RoutingControllerProofs

Apart == \A v, w \in Workers : v # w => Handles[v] \cap Handles[w] = {}

-------------------------------------------------------------------------------
(* The inductive invariant.                                                *)

Divided == \A w \in Workers :
  /\ queue[w] \subseteq Handles[w]
  /\ rc[w].pc # "idle" => rc[w].comp \in Handles[w]

Deleting == {"cleanup", "unfinalize"}
Engaged  == Working \cup Deleting

(* An object is kept in deletion by its finalizer only.                    *)
Held == \A c \in Components :
  /\ cr[c].phase = "terminating" => cr[c].finalizer
  /\ cr[c].phase = "absent" => ~cr[c].finalizer

(* What is deleted kind by kind was rendered with one of these kinds.      *)
Made == \A r \in res : r.mode = r.type /\ r.kind \in GVKs(r.type)

Rendering(v) == \A i \in DOMAIN rc[v].items :
  rc[v].items[i].kind \in GVKs(rc[v].items[i].mode)

(* The object that is worked on is still there, under the same UID.        *)
Present(v) == LET c == rc[v].comp IN
  rc[v].pc \in Engaged =>
    cr[c].inc = rc[v].tgt.inc /\ cr[c].phase # "absent" /\ cr[c].finalizer

(* A copy with the current resourceVersion is the object.                  *)
Current(v) == LET c == rc[v].comp IN
  rc[v].pc \in Deleting /\ rc[v].fresh =>
    rc[v].tgt = cr[c] /\ cr[c].phase = "terminating"

(* What is left to delete is of the kinds still to be deleted.             *)
Left(v) == rc[v].pc \in Deleting =>
  \A r \in res : r.owner = UidOf(rc[v]) /\ r.type \in Modes(rc[v]) =>
    rc[v].pc = "cleanup" /\ r.kind \in rc[v].kinds

WorkerInv(v) == Rendering(v) /\ Present(v) /\ Current(v) /\ Left(v)

WorkersInv == Divided /\ \A v \in Workers : WorkerInv(v)

ObjectsInv == Held /\ Made /\ CleanupComplete

ProtocolInv == FinalizerInv /\ WorkersInv /\ ObjectsInv

Follows == \A c \in Components : UNCHANGED Protocol(c)!vars \/ Protocol(c)!Next

-------------------------------------------------------------------------------
(* What a step that leaves the objects alone does to them.                 *)

LEMMA Discards ==
  ASSUME NEW c \in Components, cr'[c] = cr[c],
         \A r \in res' : r.owner.comp = c => r \in res
  PROVE  Protocol(c)!Next
<1>1. cr'[c].inc = cr[c].inc /\ cr'[c].phase = cr[c].phase /\ cr'[c].finalizer = cr[c].finalizer
  OBVIOUS
<1>2. EnabledModes(c)' = EnabledModes(c)  BY DEF EnabledModes
<1>3. Owned(c)' \subseteq Owned(c)  BY DEF Owned
<1>4. {r.type : r \in Owned(c)}' \subseteq {r.type : r \in Owned(c)}  BY <1>3
<1>5. Protocol(c)!Discard  BY <1>1, <1>2, <1>4 DEF Protocol!Discard
<1> QED  BY <1>5 DEF Protocol!Next

LEMMA Quiet ==
  ASSUME ObjectsInv, UNCHANGED cr, res' \subseteq res
  PROVE  ObjectsInv' /\ Follows
<1>1. Held'  BY DEF ObjectsInv, Held
<1>2. Made'  BY DEF ObjectsInv, Made
<1>3. CleanupComplete'
  BY DEF ObjectsInv, CleanupComplete, Owned, EnabledModes
<1>4. Follows  BY Discards DEF Follows
<1> QED  BY <1>1, <1>2, <1>3, <1>4 DEF ObjectsInv

-------------------------------------------------------------------------------
(* What a step does to the workers it does not move.                       *)

LEMMA Stays ==
  ASSUME NEW v \in Workers, rc[v] \in Reconcile, WorkerInv(v),
         \/ rc'[v] = rc[v]
         \/ rc'[v] = [rc[v] EXCEPT !.fresh = FALSE],
         rc[v].pc \in Engaged =>
           LET c == rc[v].comp IN
           /\ cr'[c].inc = cr[c].inc /\ cr'[c].phase # "absent" /\ cr'[c].finalizer
           /\ rc'[v].fresh => cr'[c] = cr[c]
           /\ \A r \in res' : r.owner.comp = c => r \in res
  PROVE  WorkerInv(v)'
<1> DEFINE t == rc[v]
           u == rc'[v]
<1>1. /\ u.pc = t.pc /\ u.comp = t.comp /\ u.tgt = t.tgt /\ u.kinds = t.kinds
      /\ u.items = t.items /\ (u.fresh => t.fresh)
  BY DEF Reconcile
<1>2. UidOf(u) = UidOf(t) /\ Modes(u) = Modes(t)
  BY <1>1 DEF UidOf, Modes
<1>3. Deleting \subseteq Engaged  BY DEF Engaged
<1>4. Rendering(v)'  BY <1>1 DEF WorkerInv, Rendering
<1>5. Present(v)'  BY <1>1 DEF WorkerInv, Present
<1>6. Current(v)'  BY <1>1, <1>3 DEF WorkerInv, Current
<1>7. Left(v)'
  <2> SUFFICES ASSUME u.pc \in Deleting, NEW r \in res',
                      r.owner = UidOf(u), r.type \in Modes(u)
               PROVE  u.pc = "cleanup" /\ r.kind \in u.kinds
    BY DEF Left
  <2>1. r.owner.comp = t.comp  BY <1>2 DEF UidOf
  <2>2. r \in res  BY <1>1, <1>3, <2>1
  <2> QED  BY <1>1, <1>2, <2>2 DEF WorkerInv, Left
<1> QED  BY <1>4, <1>5, <1>6, <1>7 DEF WorkerInv

LEMMA IdleInv ==
  ASSUME NEW v \in Workers, rc'[v] = Idle
  PROVE  WorkerInv(v)'
<1>1. Idle.items = <<>> /\ DOMAIN <<>> = {}  BY DEF Idle
<1>2. Idle.pc \notin Engaged  BY IdleWellFormed DEF Engaged, Working, Deleting
<1>3. Rendering(v)'  BY <1>1 DEF Rendering
<1>4. Present(v)' /\ Current(v)' /\ Left(v)'
  BY <1>2 DEF Present, Current, Left, Engaged
<1> QED  BY <1>3, <1>4 DEF WorkerInv

(* Worker w moves on with an object of its own: the others are elsewhere.  *)
LEMMA OthersStay ==
  ASSUME ProtocolInv, Apart, NEW w \in Workers, NEW d \in Handles[w],
         \A v \in Workers \ {w} :
           rc'[v] = rc[v] \/ rc'[v] = [rc[v] EXCEPT !.fresh = FALSE],
         \A c \in Components \ {d} : cr'[c] = cr[c],
         \A r \in res' : r.owner.comp # d => r \in res
  PROVE  \A v \in Workers \ {w} : WorkerInv(v)'
<1> SUFFICES ASSUME NEW v \in Workers \ {w} PROVE WorkerInv(v)'  OBVIOUS
<1>1. rc[v] \in Reconcile /\ WorkerInv(v)
  BY DEF ProtocolInv, WorkersInv, FinalizerInv, TypeInv, TypeOK
<1>2. ASSUME rc[v].pc \in Engaged
      PROVE  /\ rc[v].comp \in Components \ {d}
             /\ cr[rc[v].comp].phase # "absent" /\ cr[rc[v].comp].finalizer
  <2>1. rc[v].pc # "idle"  BY <1>2 DEF Engaged, Working, Deleting
  <2>2. rc[v].comp \in Handles[v] /\ rc[v].comp \in Components
    BY <2>1 DEF ProtocolInv, WorkersInv, Divided, FinalizerInv, TypeInv, TypeOK
  <2>3. rc[v].comp # d  BY <2>2 DEF Apart
  <2> QED  BY <1>1, <1>2, <2>2, <2>3 DEF WorkerInv, Present
<1> QED  BY <1>1, <1>2, Stays

LEMMA TypesOf ==
  ASSUME ProtocolInv
  PROVE  /\ TypeInv
         /\ \A v \in Workers : /\ WorkerInv(v) /\ rc[v] \in Reconcile
                               /\ queue[v] \subseteq Handles[v]
                               /\ rc[v].pc # "idle" => rc[v].comp \in Handles[v]
         /\ \A c \in Components : cr[c] \in Object
  BY DEF ProtocolInv, WorkersInv, Divided, FinalizerInv, TypeInv, TypeOK

LEMMA Moves ==
  ASSUME ProtocolInv, Apart, NEW w \in Workers, NEW u, Advance(w, u),
         u.pc # "idle" => u.comp \in Handles[w],
         \A v \in Workers : queue'[v] \subseteq queue[v] \cup Handles[v],
         NEW d \in Handles[w],
         \A c \in Components \ {d} : cr'[c] = cr[c],
         \A r \in res' : r.owner.comp # d => r \in res,
         WorkerInv(w)'
  PROVE  WorkersInv'
<1>1. rc'[w] = u /\ \A v \in Workers \ {w} : rc'[v] = rc[v]
  BY TypesOf DEF Advance, TypeInv, TypeOK
<1>2. \A v \in Workers : WorkerInv(v)'
  BY <1>1, OthersStay
<1>3. Divided'
  BY <1>1, TypesOf DEF Divided
<1> QED  BY <1>2, <1>3 DEF WorkersInv

(* The worker goes on with its object, and deletes nothing (more).         *)
LEMMA GoesOn ==
  ASSUME ProtocolInv, NEW w \in Workers, NEW u, rc'[w] = u,
         u.comp = rc[w].comp, u.tgt.inc = rc[w].tgt.inc,
         u.pc \in Working => rc[w].pc \in Working,
         u.pc \notin Deleting, UNCHANGED cr, Rendering(w)'
  PROVE  WorkerInv(w)'
<1>1. Present(w)  BY TypesOf DEF WorkerInv
<1>2. Present(w)'  BY <1>1 DEF Present, Engaged
<1>3. Current(w)' /\ Left(w)'  BY DEF Current, Left
<1> QED  BY <1>2, <1>3 DEF WorkerInv

LEMMA NoItems ==
  ASSUME NEW w \in Workers, rc'[w].items = <<>>
  PROVE  Rendering(w)'
<1>1. DOMAIN <<>> = {}  OBVIOUS
<1> QED  BY <1>1 DEF Rendering

LEMMA SameItems ==
  ASSUME ProtocolInv, NEW w \in Workers, rc'[w].items = rc[w].items
  PROVE  Rendering(w)'
<1>1. Rendering(w)  BY TypesOf DEF WorkerInv
<1> QED  BY <1>1 DEF Rendering

LEMMA ReturnErrorKept ==
  ASSUME ProtocolInv, Apart, NEW w \in Workers, rc[w].pc # "idle", ReturnError(w),
         UNCHANGED cr, \A r \in res' : r.owner.comp # rc[w].comp => r \in res
  PROVE  WorkersInv'
<1>1. Advance(w, Idle) /\ Idle.pc = "idle"  BY IdleWellFormed DEF ReturnError
<1>2. rc'[w] = Idle  BY <1>1, TypesOf DEF Advance, TypeInv, TypeOK
<1>3. rc[w].comp \in Handles[w]  BY TypesOf
<1>4. \A v \in Workers : queue'[v] \subseteq queue[v] \cup Handles[v]
  BY <1>3, TypesOf DEF ReturnError, TypeInv, TypeOK
<1>5. WorkerInv(w)'  BY <1>2, IdleInv
<1> QED  BY <1>1, <1>3, <1>4, <1>5, Moves

(* Steps within a reconcile that write nothing to the CR.                  *)
LEMMA WithinKept ==
  ASSUME ProtocolInv, Apart, NEW w \in Workers, NEW u, Advance(w, u),
         rc[w].pc # "idle", u.comp = rc[w].comp, UNCHANGED <<cr, queue>>,
         \A r \in res' : r.owner.comp # rc[w].comp => r \in res,
         rc'[w] = u => WorkerInv(w)'
  PROVE  WorkersInv'
<1>1. rc'[w] = u  BY TypesOf DEF Advance, TypeInv, TypeOK
<1>2. rc[w].comp \in Handles[w]  BY TypesOf
<1>3. \A v \in Workers : queue'[v] \subseteq queue[v] \cup Handles[v]  OBVIOUS
<1> QED  BY <1>1, <1>2, <1>3, Moves

LEMMA LocalKept ==
  ASSUME ProtocolInv, Apart, NEW w \in Workers, NEW u, Advance(w, u),
         rc[w].pc # "idle", u.comp = rc[w].comp, u.tgt.inc = rc[w].tgt.inc,
         u.pc \in Working => rc[w].pc \in Working, u.pc \notin Deleting,
         u.items \in {<<>>, rc[w].items},
         UNCHANGED <<cr, queue>>,
         \A r \in res' : r.owner.comp # rc[w].comp => r \in res
  PROVE  WorkersInv'
<1>1. ASSUME rc'[w] = u PROVE WorkerInv(w)'
  <2>1. Rendering(w)'  BY <1>1, NoItems, SameItems
  <2> QED  BY <1>1, <2>1, GoesOn
<1> QED  BY <1>1, WithinKept

LEMMA OnErrorKept ==
  ASSUME ProtocolInv, Apart, NEW w \in Workers, OnError(w), UNCHANGED cr,
         \A r \in res' : r.owner.comp # rc[w].comp => r \in res
  PROVE  WorkersInv'
<1> DEFINE t == rc[w]
<1>1. t \in Reconcile  BY TypesOf
<1>2. t.pc # "idle"  BY DEF OnError
<1>3. CASE ReturnError(w)
  BY <1>2, <1>3, ReturnErrorKept
<1>4. ASSUME NEW u \in Reconcile, Advance(w, RecordError(u)), UNCHANGED queue,
             u.comp = t.comp, u.tgt = t.tgt, t.pc \in Working,
             u.pc \notin Deleting, u.items \in {<<>>, t.items}
      PROVE  WorkersInv'
  <2> DEFINE e == RecordError(u)
  <2>1. e.comp = u.comp /\ e.tgt = u.tgt /\ e.pc = u.pc /\ e.items = u.items
    BY <1>4 DEF RecordError, Reconcile
  <2> HIDE DEF e
  <2> QED  BY <1>2, <1>4, <2>1, LocalKept DEF e
<1>5. CASE /\ t.pc = "prune"
           /\ Advance(w, RecordError([t EXCEPT !.pc = "create", !.kinds = {}]))
           /\ UNCHANGED queue
  <2> DEFINE u == [t EXCEPT !.pc = "create", !.kinds = {}]
  <2>1. /\ u \in Reconcile /\ u.comp = t.comp /\ u.tgt = t.tgt /\ u.items = t.items
        /\ u.pc = "create"
    BY <1>1 DEF Reconcile, PCs
  <2> HIDE DEF u
  <2> QED  BY <1>4, <1>5, <2>1 DEF Working, Deleting, u
<1>6. CASE /\ t.pc = "create"
           /\ Advance(w, RecordError([t EXCEPT !.pc = "patch"]))
           /\ UNCHANGED queue
  <2> DEFINE u == [t EXCEPT !.pc = "patch"]
  <2>1. /\ u \in Reconcile /\ u.comp = t.comp /\ u.tgt = t.tgt /\ u.items = t.items
        /\ u.pc = "patch"
    BY <1>1 DEF Reconcile, PCs
  <2> HIDE DEF u
  <2> QED  BY <1>4, <1>6, <2>1 DEF Working, Deleting, u
<1>7. CASE /\ t.pc \in {"applyGet", "applyWrite"}
           /\ Advance(w, RecordError([t EXCEPT !.pc = "services", !.exporting = {},
                                               !.batches = {}, !.items = <<>>,
                                               !.found = FALSE]))
           /\ UNCHANGED queue
  <2> DEFINE u == [t EXCEPT !.pc = "services", !.exporting = {}, !.batches = {},
                            !.items = <<>>, !.found = FALSE]
  <2>1. <<>> \in Seq(Item)  OBVIOUS
  <2>2. /\ u \in Reconcile /\ u.comp = t.comp /\ u.tgt = t.tgt /\ u.items = <<>>
        /\ u.pc = "services"
    BY <1>1, <2>1 DEF Reconcile, PCs
  <2> HIDE DEF u
  <2> QED  BY <1>4, <1>7, <2>2 DEF Working, Deleting, u
<1> QED  BY <1>3, <1>5, <1>6, <1>7 DEF OnError

-------------------------------------------------------------------------------
(* The actions, one by one.  First those that only move a worker on.       *)

Kept == WorkersInv' /\ ObjectsInv' /\ Follows

LEMMA QuietKept ==
  ASSUME ProtocolInv, UNCHANGED <<cr, res>>, WorkersInv'
  PROVE  Kept
  BY Quiet DEF Kept, ProtocolInv

LEMMA PatchGetKept ==
  ASSUME ProtocolInv, Apart, NEW w \in Workers, PatchGet(w)
  PROVE  Kept
<1> DEFINE t == rc[w]
           u == [t EXCEPT
                  !.pc = IF t.pc = "finalizer" THEN "finalizerSend" ELSE "patchSend",
                  !.diff = {m \in AllRouteTypes : t.tgt.addr[m] # cr[t.comp].addr[m]}]
<1>1. t \in Reconcile /\ t.pc \in {"finalizer", "patch"}
  BY TypesOf DEF PatchGet
<1>2. /\ u.comp = t.comp /\ u.tgt = t.tgt /\ (u.pc \in Working => t.pc \in Working)
      /\ u.pc \notin Deleting /\ u.items = t.items
  BY <1>1 DEF Reconcile, Working, Deleting
<1>3. UNCHANGED <<cr, res>>  BY DEF PatchGet
<1>4. WorkersInv'
  <2>1. CASE ReturnError(w)
    BY <1>1, <1>3, <2>1, ReturnErrorKept
  <2>2. CASE Advance(w, u) /\ UNCHANGED queue
    <3> HIDE DEF u
    <3> QED  BY <1>1, <1>2, <1>3, <2>2, LocalKept
  <2> QED  BY <2>1, <2>2 DEF PatchGet
<1> QED  BY <1>3, <1>4, QuietKept

LEMMA ListServicesKept ==
  ASSUME ProtocolInv, Apart, NEW w \in Workers, ListServices(w)
  PROVE  Kept
<1> DEFINE t == rc[w]
           u1 == NoneExported(t)
           u2 == RecordError([t EXCEPT !.pc = "patch"])
           u3 == [t EXCEPT !.pc = "services", !.pending = Listed(t.comp)]
<1>1. t \in Reconcile /\ t.pc = "create" /\ t.pc \in Working /\ t.pc # "idle"
  BY TypesOf DEF ListServices, Working
<1>2. /\ u1.comp = t.comp /\ u1.tgt.inc = t.tgt.inc /\ u1.items = t.items
      /\ u1.pc \notin Deleting
  BY <1>1 DEF Reconcile, Object, NoneExported, Deleting
<1>3. /\ u2.comp = t.comp /\ u2.tgt.inc = t.tgt.inc /\ u2.items = t.items
      /\ u2.pc \notin Deleting
  BY <1>1 DEF Reconcile, RecordError, Deleting
<1>4. /\ u3.comp = t.comp /\ u3.tgt.inc = t.tgt.inc /\ u3.items = t.items
      /\ u3.pc \notin Deleting
  BY <1>1 DEF Reconcile, Deleting
<1>5. Advance(w, u1) \/ Advance(w, u2) \/ Advance(w, u3)  BY DEF ListServices
<1>6. UNCHANGED <<cr, res, queue>>  BY DEF ListServices
<1> HIDE DEF u1, u2, u3
<1>7. WorkersInv'
  BY <1>1, <1>2, <1>3, <1>4, <1>5, <1>6, LocalKept
<1> QED  BY <1>6, <1>7, QuietKept

LEMMA ExportNextKept ==
  ASSUME ProtocolInv, Apart, NEW w \in Workers, ExportNext(w)
  PROVE  Kept
<1> DEFINE t == rc[w]
           u1 == [t EXCEPT !.pc = "patch"]
<1>1. t \in Reconcile /\ t.pc \in Working /\ t.pc # "idle"
  BY TypesOf DEF ExportNext, Working
<1>2. /\ u1.comp = t.comp /\ u1.tgt.inc = t.tgt.inc /\ u1.items = t.items
      /\ u1.pc \notin Deleting
  BY <1>1 DEF Reconcile, Deleting
<1>3. \A s : LET u == Exporting(t, s) IN
        /\ u.comp = t.comp /\ u.tgt.inc = t.tgt.inc /\ u.items = t.items
        /\ u.pc \notin Deleting
  BY <1>1 DEF Reconcile, Exporting, Deleting
<1>4. Advance(w, u1) \/ \E s : Advance(w, Exporting(t, s))  BY DEF ExportNext
<1>5. UNCHANGED <<cr, res, queue>>  BY DEF ExportNext
<1> HIDE DEF u1
<1>6. WorkersInv'
  BY <1>1, <1>2, <1>3, <1>4, <1>5, LocalKept
<1> QED  BY <1>5, <1>6, QuietKept

LEMMA ApplyGetKept ==
  ASSUME ProtocolInv, Apart, NEW w \in Workers, ApplyGet(w)
  PROVE  Kept
<1> DEFINE t == rc[w]
           u == [t EXCEPT !.pc = "applyWrite", !.found = Occupants(t) # {}]
<1>1. t \in Reconcile /\ t.pc \in Working /\ t.pc # "idle"
  BY TypesOf DEF ApplyGet, Working
<1>2. /\ u.comp = t.comp /\ u.tgt.inc = t.tgt.inc /\ u.items = t.items
      /\ u.pc \notin Deleting
  BY <1>1 DEF Reconcile, Deleting
<1>3. Advance(w, u) /\ UNCHANGED <<cr, res, queue>>  BY DEF ApplyGet
<1> HIDE DEF u
<1>4. WorkersInv'  BY <1>1, <1>2, <1>3, LocalKept
<1> QED  BY <1>3, <1>4, QuietKept

LEMMA propagateKept ==
  ASSUME ProtocolInv, Apart, NEW w \in Workers, propagateHostsToWatchedCR(w)
  PROVE  Kept
<1> DEFINE t == rc[w]
           u == [t EXCEPT !.pc = "services", !.exporting = {},
                          !.tgt.addr = Addresses(t)]
<1>1. t \in Reconcile /\ t.pc \in Working /\ t.pc # "idle"
  BY TypesOf DEF propagateHostsToWatchedCR, Working
<1>2. /\ u.comp = t.comp /\ u.tgt.inc = t.tgt.inc /\ u.items = t.items
      /\ u.pc \notin Deleting
  BY <1>1 DEF Reconcile, Object, Deleting
<1>3. Advance(w, u) /\ UNCHANGED <<cr, res, queue>>  BY DEF propagateHostsToWatchedCR
<1> HIDE DEF u
<1>4. WorkersInv'  BY <1>1, <1>2, <1>3, LocalKept
<1> QED  BY <1>3, <1>4, QuietKept

(* The templates render no kind that the deletions do not look at.         *)
LEMMA TemplateKinds ==
  ASSUME NEW m, NEW i \in DOMAIN Load(m)
  PROVE  Load(m)[i] \in GVKs(m)
<1>1. CASE m = ExternalRoute
  BY <1>1 DEF Load, GVKs, externalRouteTemplate, externalGVKs
<1>2. CASE m # ExternalRoute
  BY <1>2 DEF Load, GVKs, publicRouteTemplate, publicGVKs
<1> QED  BY <1>1, <1>2

LEMMA LoadBatchKept ==
  ASSUME ProtocolInv, Apart, NEW w \in Workers, NEW b, LoadBatch(w, b)
  PROVE  Kept
<1> DEFINE t == rc[w]
           kinds == Load(b.mode)
           items == [i \in DOMAIN kinds |->
                       [mode |-> b.mode, kind |-> kinds[i], backend |-> b.backend]]
           u == [t EXCEPT !.pc = "applyGet", !.batches = @ \ {b}, !.items = items]
<1>1. t \in Reconcile /\ t.pc \in Working /\ t.pc # "idle"
  BY TypesOf DEF LoadBatch, Working
<1>2. \A i \in DOMAIN items : items[i].kind \in GVKs(items[i].mode)
  BY TemplateKinds
<1> HIDE DEF items
<1>3. /\ u.comp = t.comp /\ u.tgt.inc = t.tgt.inc /\ u.items = items
      /\ u.pc = "applyGet"
  BY <1>1 DEF Reconcile
<1>4. Advance(w, u) /\ UNCHANGED <<cr, res, queue>>  BY DEF LoadBatch, items
<1> HIDE DEF u
<1>5. ASSUME rc'[w] = u PROVE WorkerInv(w)'
  <2>1. Rendering(w)'  BY <1>2, <1>3, <1>5 DEF Rendering
  <2> QED  BY <1>1, <1>3, <1>4, <1>5, <2>1, GoesOn DEF Deleting
<1>6. WorkersInv'  BY <1>1, <1>3, <1>4, <1>5, WithinKept
<1> QED  BY <1>4, <1>6, QuietKept

-------------------------------------------------------------------------------
(* A reconcile begins.                                                     *)

LEMMA FetchKept ==
  ASSUME ProtocolInv, Apart, NEW w \in Workers, NEW c \in Components, Fetch(w, c)
  PROVE  Kept
<1> DEFINE t == [Idle EXCEPT !.comp = c, !.tgt = cr[c], !.fresh = TRUE]
<1>1. cr[c] \in Object /\ c \in Handles[w]  BY TypesOf DEF Fetch
<1>2. WellFormed(t) /\ t \in Reconcile /\ t.comp = c /\ t.tgt = cr[c] /\ t.items = <<>>
  BY <1>1, IdleWellFormed DEF WellFormed, Reconcile, Idle
<1>3. UNCHANGED <<cr, res>>  BY DEF Fetch
<1>4. \A v \in Workers : queue'[v] \subseteq queue[v] \cup Handles[v]
  BY TypesOf DEF Fetch, TypeInv, TypeOK
<1>5. ASSUME NEW u, Advance(w, u), u.comp = c, rc'[w] = u => WorkerInv(w)'
      PROVE  WorkersInv'
  <2>1. rc'[w] = u  BY <1>5, TypesOf DEF Advance, TypeInv, TypeOK
  <2> QED  BY <1>1, <1>3, <1>4, <1>5, <2>1, Moves
<1>6. Held /\ Made  BY DEF ProtocolInv, ObjectsInv
<1>7. CASE UNCHANGED rc
  <2>1. rc[w].pc = "idle"  BY DEF Fetch
  <2>2. Advance(w, rc[w])
    BY <1>7, TypesOf DEF Advance, TypeInv, TypeOK
  <2>3. WorkerInv(w)'
    BY <1>3, <1>7, TypesOf DEF WorkerInv, Rendering, Present, Current, Left
  <2>4. WorkersInv'  BY <1>1, <1>3, <1>4, <2>1, <2>2, <2>3, Moves
  <2> QED  BY <1>3, <2>4, QuietKept
<1>8. CASE /\ IsMarkedForDeletion(cr[c])
           /\ Advance(w, [t EXCEPT !.pc = "cleanup",
                                   !.kinds = routingResourceGVKs(Modes(t))])
  <2> DEFINE u == [t EXCEPT !.pc = "cleanup", !.kinds = routingResourceGVKs(Modes(t))]
  <2>1. /\ u.comp = c /\ u.tgt = cr[c] /\ u.pc = "cleanup" /\ u.items = <<>>
        /\ u.kinds = routingResourceGVKs(Modes(t))
    BY <1>2 DEF Reconcile
  <2>2. Modes(u) = Modes(t)  BY <1>2, <2>1 DEF Modes
  <2> HIDE DEF u
  <2>3. cr[c].phase = "terminating" /\ cr[c].finalizer
    BY <1>6, <1>8 DEF IsMarkedForDeletion, Held
  <2>4. ASSUME rc'[w] = u PROVE WorkerInv(w)'
    <3>1. Rendering(w)'  BY <2>1, <2>4, NoItems
    <3>2. Present(w)' /\ Current(w)'
      BY <1>3, <2>1, <2>3, <2>4 DEF Present, Current
    <3>3. \A r \in res : r.type \in Modes(u) => r.kind \in u.kinds
      BY <1>6, <2>1, <2>2 DEF Made, routingResourceGVKs
    <3>4. Left(w)'  BY <1>3, <2>1, <2>4, <3>3 DEF Left
    <3> QED  BY <3>1, <3>2, <3>4 DEF WorkerInv
  <2>5. WorkersInv'  BY <1>5, <1>8, <2>1, <2>4 DEF u
  <2> QED  BY <1>3, <2>5, QuietKept
<1>9. CASE /\ cr[c].phase # "absent"
           /\ Advance(w, ensureResourceHasFinalizer(t))
  <2> DEFINE u == ensureResourceHasFinalizer(t)
             f == [t EXCEPT !.pc = "finalizer", !.tgt.finalizer = TRUE]
  <2>1. f.comp = c /\ f.tgt.inc = cr[c].inc /\ f.pc = "finalizer" /\ f.items = <<>>
    BY <1>1, <1>2 DEF Reconcile, Object
  <2>2. /\ EnterPrune(t).comp = c /\ EnterPrune(t).tgt = cr[c]
        /\ EnterPrune(t).items = <<>> /\ EnterPrune(t).pc \in Working
    BY <1>2 DEF EnterPrune, Reconcile, Working
  <2>3. /\ u.comp = c /\ u.tgt.inc = cr[c].inc /\ u.items = <<>>
        /\ u.pc \notin Deleting
        /\ u.pc \in Working => cr[c].finalizer
    <3>1. CASE t.tgt.finalizer
      BY <1>2, <2>2, <3>1 DEF ensureResourceHasFinalizer, Working, Deleting
    <3>2. CASE ~t.tgt.finalizer
      BY <2>1, <3>2 DEF ensureResourceHasFinalizer, Working, Deleting
    <3> QED  BY <3>1, <3>2
  <2> HIDE DEF u
  <2>4. ASSUME rc'[w] = u PROVE WorkerInv(w)'
    <3>1. Rendering(w)'  BY <2>3, <2>4, NoItems
    <3>2. Present(w)'  BY <1>3, <1>9, <2>3, <2>4 DEF Present, Engaged
    <3>3. Current(w)' /\ Left(w)'  BY <2>3, <2>4 DEF Current, Left
    <3> QED  BY <3>1, <3>2, <3>3 DEF WorkerInv
  <2>5. WorkersInv'  BY <1>5, <1>9, <2>3, <2>4 DEF u
  <2> QED  BY <1>3, <2>5, QuietKept
<1> QED  BY <1>7, <1>8, <1>9 DEF Fetch

-------------------------------------------------------------------------------
(* Resources are deleted ...                                               *)

LEMMA deleteOwnedResourcesKept ==
  ASSUME ProtocolInv, Apart, NEW w \in Workers, NEW kind,
         deleteOwnedResources(w, kind)
  PROVE  Kept
<1> DEFINE t == rc[w]
           done == IF t.pc = "prune" THEN "create" ELSE "unfinalize"
           u == [t EXCEPT !.pc = IF t.kinds = {kind} THEN done ELSE @,
                          !.kinds = @ \ {kind}]
<1>1. t \in Reconcile /\ t.pc \in {"prune", "cleanup"} /\ t.pc # "idle" /\ kind \in t.kinds
  BY TypesOf DEF deleteOwnedResources, DeleteAllOf
<1>2. /\ u.comp = t.comp /\ u.tgt = t.tgt /\ u.items = t.items /\ u.fresh = t.fresh
      /\ u.kinds = t.kinds \ {kind}
      /\ u.pc = IF t.kinds = {kind} THEN done ELSE t.pc
  BY <1>1 DEF Reconcile
<1>3. res' \subseteq res /\ UNCHANGED cr /\ Reply(w, u)
  BY DEF deleteOwnedResources, DeleteAllOf
<1>4. UidOf(u) = UidOf(t) /\ Modes(u) = Modes(t)  BY <1>2 DEF UidOf, Modes
<1> HIDE DEF u
<1>5. ASSUME t.pc = "cleanup", NEW r \in res', r.owner = UidOf(t), r.type \in Modes(t)
      PROVE  u.pc = "cleanup" /\ r.kind \in u.kinds
  <2>1. r.kind \in t.kinds
    BY <1>3, <1>5, TypesOf DEF WorkerInv, Left, Deleting
  <2>2. r.kind # kind
    BY <1>5 DEF deleteOwnedResources, DeleteAllOf, Selected, SelectedTypes
  <2> QED  BY <1>2, <1>5, <2>1, <2>2
<1>6. ASSUME rc'[w] = u PROVE WorkerInv(w)'
  <2>1. Rendering(w)'  BY <1>2, <1>6, SameItems
  <2>2. t.pc \in Engaged  BY <1>1 DEF Engaged, Working, Deleting
  <2>3. Present(w)'  BY <1>2, <1>3, <1>6, <2>2, TypesOf DEF WorkerInv, Present
  <2>4. CASE t.pc = "prune"
    <3>1. u.pc \notin Deleting  BY <1>2, <2>4 DEF Deleting
    <3> QED  BY <1>6, <2>1, <2>3, <3>1 DEF WorkerInv, Current, Left
  <2>5. CASE t.pc = "cleanup"
    <3>1. Current(w)'
      BY <1>2, <1>3, <1>6, <2>5, TypesOf DEF WorkerInv, Current, Deleting
    <3>2. Left(w)'  BY <1>4, <1>5, <1>6, <2>5 DEF Left
    <3> QED  BY <2>1, <2>3, <3>1, <3>2 DEF WorkerInv
  <2> QED  BY <1>1, <2>4, <2>5
<1>7. WorkersInv'
  <2>1. CASE Advance(w, u) /\ UNCHANGED queue
    BY <1>1, <1>2, <1>3, <1>6, <2>1, WithinKept
  <2>2. CASE OnError(w)
    BY <1>3, <2>2, OnErrorKept
  <2> QED  BY <1>3, <2>1, <2>2 DEF Reply
<1> QED  BY <1>3, <1>7, Quiet DEF Kept, ProtocolInv

(* ... and written, for the object in hand, which is held.                 *)
LEMMA Acquires ==
  ASSUME NEW c \in Components, cr[c].finalizer, UNCHANGED cr,
         NEW new, new.owner = [comp |-> c, inc |-> cr[c].inc], new.type \in AllRouteTypes,
         NEW gone, \A r \in gone : r.type = new.type,
         res' = (res \ gone) \cup {new}
  PROVE  Protocol(c)!Next
<1>1. Owned(c)' = (Owned(c) \ gone) \cup {new}  BY DEF Owned
<1>2. {r.type : r \in Owned(c)}' = {r.type : r \in Owned(c)} \cup {new.type}
  BY <1>1
<1>3. UNCHANGED <<cr[c].phase, cr[c].finalizer, EnabledModes(c)>>  BY DEF EnabledModes
<1>4. Protocol(c)!Acquire  BY <1>2, <1>3 DEF Protocol!Acquire
<1> QED  BY <1>4 DEF Protocol!Next

LEMMA ApplyWriteKept ==
  ASSUME ProtocolInv, Apart, NEW w \in Workers, ApplyWrite(w)
  PROVE  Kept
<1> DEFINE t == rc[w]
           c == t.comp
           new == Rendered(t)
           u == [t EXCEPT !.pc = IF Len(t.items) = 1 THEN "batches" ELSE "applyGet",
                          !.items = Tail(@), !.found = FALSE]
<1>1. /\ WellFormed(t) /\ t \in Reconcile /\ t.pc = "applyWrite" /\ t.pc # "idle"
      /\ c \in Components /\ t.items \in Seq(Item) /\ t.items # <<>>
  BY TypesOf DEF ApplyWrite, TypeInv, WellFormed, Reconcile
<1>2. /\ u.comp = c /\ u.tgt.inc = t.tgt.inc /\ u.items = Tail(t.items)
      /\ u.pc \in {"batches", "applyGet"}
  BY <1>1 DEF Reconcile
<1>3. UNCHANGED cr /\ Reply(w, u)  BY DEF ApplyWrite
<1> HIDE DEF u
<1>4. new \in Resource  BY <1>1, RenderedType
<1>5. Rendering(w) /\ Present(w)  BY TypesOf DEF WorkerInv
<1>6. new.mode = new.type /\ new.kind \in GVKs(new.type) /\ new.owner = UidOf(t)
  <2>1. 1 \in DOMAIN t.items /\ Head(t.items) = t.items[1]
    BY <1>1, HeadTailProperties, EmptySeq
  <2>2. t.items[1].kind \in GVKs(t.items[1].mode)  BY <1>5, <2>1 DEF Rendering
  <2> QED  BY <2>1, <2>2 DEF Rendered, ExportType
<1>7. /\ new.owner = [comp |-> c, inc |-> cr[c].inc]
      /\ cr[c].phase # "absent" /\ cr[c].finalizer
  BY <1>1, <1>5, <1>6 DEF Present, Engaged, Working, UidOf
<1>8. new.owner.comp = c  BY <1>7
<1>9. UNCHANGED res \/ res' = (res \ Occupants(t)) \cup {new}  BY DEF ApplyWrite
<1>10. \A r \in res' : r \in res \/ r = new  BY <1>9
<1>11. WorkersInv'
  <2>1. CASE Advance(w, u) /\ UNCHANGED queue
    <3>1. ASSUME rc'[w] = u PROVE WorkerInv(w)'
      <4>1. \A i \in DOMAIN Tail(t.items) :
              i + 1 \in DOMAIN t.items /\ Tail(t.items)[i] = t.items[i + 1]
        BY <1>1
      <4>2. Rendering(w)'  BY <1>2, <1>5, <3>1, <4>1 DEF Rendering
      <4>3. u.pc \notin Deleting /\ t.pc \in Working
        BY <1>1, <1>2 DEF Deleting, Working
      <4> QED  BY <1>2, <1>3, <3>1, <4>2, <4>3, GoesOn
    <3> QED  BY <1>1, <1>2, <1>3, <1>8, <1>10, <2>1, <3>1, WithinKept
  <2>2. CASE OnError(w)
    BY <1>3, <1>8, <1>10, <2>2, OnErrorKept
  <2> QED  BY <1>3, <2>1, <2>2 DEF Reply
<1> HIDE DEF new
<1>12. Held /\ Made /\ CleanupComplete  BY DEF ProtocolInv, ObjectsInv
<1>13. ObjectsInv'
  <2>1. Held'  BY <1>3, <1>12 DEF Held
  <2>2. Made'  BY <1>6, <1>10, <1>12 DEF Made
  <2>3. CleanupComplete'
    BY <1>3, <1>7, <1>8, <1>10, <1>12 DEF CleanupComplete, Owned, EnabledModes
  <2> QED  BY <2>1, <2>2, <2>3 DEF ObjectsInv
<1>14. Follows
  <2>1. ASSUME NEW d \in Components \ {c} PROVE Protocol(d)!Next
    BY <1>3, <1>8, <1>10, <2>1, Discards
  <2>2. CASE UNCHANGED res
    BY <1>3, <2>2, Discards DEF Follows
  <2>3. CASE res' = (res \ Occupants(t)) \cup {new}
    <3>1. \A r \in Occupants(t) : r \in res /\ r.type = new.type
      BY <1>6, <1>12 DEF Occupants, Identity, Made, new
    <3>2. new.type \in AllRouteTypes  BY <1>4 DEF Resource
    <3>3. ASSUME NEW d \in Components, d = c PROVE Protocol(d)!Next
      BY <1>3, <1>7, <2>3, <3>1, <3>2, <3>3, Acquires
    <3> QED  BY <2>1, <3>3 DEF Follows
  <2> QED  BY <1>9, <2>2, <2>3
<1> QED  BY <1>11, <1>13, <1>14 DEF Kept

-------------------------------------------------------------------------------
(* The object is written: by the worker that has it in hand, or by a user. *)

LEMMA ObjectWritten ==
  ASSUME ProtocolInv, NEW c \in Components, NEW obj, cr' = [cr EXCEPT ![c] = obj],
         UNCHANGED res,
         obj.phase = "terminating" => obj.finalizer,
         obj.phase = "absent" =>
           /\ ~obj.finalizer
           /\ \A r \in res : r.owner = [comp |-> c, inc |-> obj.inc] =>
                r.type \notin extractExportModes(obj.exports),
         UNCHANGED Protocol(c)!vars \/ Protocol(c)!Next
  PROVE  ObjectsInv' /\ Follows
<1>1. cr'[c] = obj /\ \A d \in Components \ {c} : cr'[d] = cr[d]
  BY TypesOf DEF TypeInv, TypeOK
<1>2. Held /\ Made /\ CleanupComplete  BY DEF ProtocolInv, ObjectsInv
<1>3. Held'  BY <1>1, <1>2 DEF Held
<1>4. Made'  BY <1>2 DEF Made
<1>5. CleanupComplete'
  BY <1>1, <1>2 DEF CleanupComplete, Owned, EnabledModes
<1>6. Follows  BY <1>1, Discards DEF Follows
<1> QED  BY <1>3, <1>4, <1>5, <1>6 DEF ObjectsInv

LEMMA WriteCRKept ==
  ASSUME ProtocolInv, Apart, NEW w \in Workers, rc[w].pc # "idle",
         NEW obj, NEW u, NEW retry, WriteCR(w, obj, u, retry), UNCHANGED res,
         u.pc # "idle" => u.comp = rc[w].comp,
         rc'[w] = u => WorkerInv(w)'
  PROVE  WorkersInv'
<1> DEFINE c == rc[w].comp
           changed == obj # cr[c]
           stale == IF changed THEN Invalidated(c) ELSE rc
           notified == IF changed THEN Notified(c) ELSE queue
<1>1. PICK lost \in BOOLEAN :
        /\ rc' = [stale EXCEPT ![w] = IF lost THEN Idle ELSE u]
        /\ queue' = [notified EXCEPT ![w] = IF lost \/ retry THEN @ \cup {c} ELSE @]
  BY DEF WriteCR
<1>2. c \in Handles[w] /\ c \in Components
  BY TypesOf DEF TypeInv, TypeOK
<1>3. DOMAIN stale = Workers /\ DOMAIN notified = Workers
  BY TypesOf DEF Invalidated, Notified, TypeInv, TypeOK
<1>4. \A v \in Workers :
        stale[v] = rc[v] \/ stale[v] = [rc[v] EXCEPT !.fresh = FALSE]
  BY DEF Invalidated
<1>5. \A v \in Workers : notified[v] \subseteq Handles[v]
  BY TypesOf DEF Notified
<1> HIDE DEF stale, notified
<1>6. \A v \in Workers \ {w} :
        rc'[v] = rc[v] \/ rc'[v] = [rc[v] EXCEPT !.fresh = FALSE]
  BY <1>1, <1>3, <1>4
<1>7. rc'[w] = IF lost THEN Idle ELSE u  BY <1>1, <1>3
<1>8. \A d \in Components \ {c} : cr'[d] = cr[d]
  BY TypesOf DEF WriteCR, TypeInv, TypeOK
<1>9. \A v \in Workers \ {w} : WorkerInv(v)'
  BY <1>2, <1>6, <1>8, OthersStay
<1>10. WorkerInv(w)'
  <2>1. CASE lost  BY <1>7, <2>1, IdleInv
  <2>2. CASE ~lost  BY <1>7, <2>2
  <2> QED  BY <2>1, <2>2
<1>11. Divided'
  <2>1. \A v \in Workers : queue'[v] \subseteq Handles[v]
    BY <1>1, <1>2, <1>3, <1>5
  <2>2. ASSUME NEW v \in Workers, rc'[v].pc # "idle"
        PROVE  rc'[v].comp \in Handles[v]
    <3>1. CASE v = w
      BY <1>2, <1>7, <2>2, <3>1, IdleWellFormed
    <3>2. CASE v # w
      <4>1. rc[v] \in Reconcile  BY TypesOf
      <4>2. rc'[v] = rc[v] \/ rc'[v] = [rc[v] EXCEPT !.fresh = FALSE]
        BY <1>6, <3>2
      <4>3. rc'[v].comp = rc[v].comp /\ rc'[v].pc = rc[v].pc
        BY <4>1, <4>2 DEF Reconcile
      <4> QED  BY <2>2, <4>3, TypesOf
    <3> QED  BY <3>1, <3>2
  <2> QED  BY <2>1, <2>2 DEF Divided
<1> QED  BY <1>9, <1>10, <1>11 DEF WorkersInv

LEMMA PatchSendKept ==
  ASSUME ProtocolInv, Apart, NEW w \in Workers, NEW c \in Components, c = rc[w].comp,
         PatchSend(w)
  PROVE  Kept
<1> DEFINE t == rc[w]
           stored == cr[c]
           obj == [stored EXCEPT
                     !.finalizer = IF t.pc = "finalizerSend" THEN TRUE ELSE @,
                     !.addr = [m \in AllRouteTypes |->
                                 IF m \in t.diff THEN t.tgt.addr[m] ELSE @[m]]]
           u == [t EXCEPT !.tgt = obj, !.fresh = TRUE, !.diff = {}]
<1>1. /\ t \in Reconcile /\ t.pc \in {"finalizerSend", "patchSend"} /\ t.pc # "idle"
      /\ stored \in Object /\ stored.phase \in Phases
      /\ UNCHANGED res
  BY TypesOf DEF PatchSend, Object
<1>2. /\ obj.inc = stored.inc /\ obj.phase = stored.phase /\ obj.exports = stored.exports
      /\ obj.finalizer = IF t.pc = "finalizerSend" THEN TRUE ELSE stored.finalizer
  BY <1>1 DEF Object
<1> HIDE DEF obj
<1>3. CASE ReturnError(w) /\ UNCHANGED <<cr, faults>>
  <2>1. WorkersInv'  BY <1>1, <1>3, ReturnErrorKept
  <2> QED  BY <1>1, <1>3, <2>1, QuietKept
<1>4. ASSUME NEW x, NEW retry, WriteCR(w, obj, x, retry), stored.phase # "absent"
      PROVE  ObjectsInv' /\ Follows /\ cr'[c] = obj
  <2>1. cr' = [cr EXCEPT ![c] = obj]  BY <1>4 DEF WriteCR
  <2>2. cr'[c] = obj  BY <2>1, TypesOf DEF TypeInv, TypeOK
  <2>3. Held  BY DEF ProtocolInv, ObjectsInv
  <2>4. obj.phase = "terminating" => obj.finalizer
    BY <1>2, <2>3 DEF Held
  <2>5. UNCHANGED <<Owned(c), EnabledModes(c), cr[c].phase>>
    BY <1>1, <1>2, <2>2 DEF Owned, EnabledModes
  <2>6. CASE obj.finalizer = stored.finalizer
    <3>1. UNCHANGED Protocol(c)!vars
      BY <2>2, <2>5, <2>6 DEF Protocol!vars
    <3> QED  BY <1>1, <1>2, <1>4, <2>1, <2>2, <2>4, <3>1, ObjectWritten
  <2>7. CASE obj.finalizer # stored.finalizer
    <3>1. t.pc = "finalizerSend" /\ obj.finalizer = TRUE  BY <1>2, <2>7
    <3>2. stored.phase = "live"
      BY <1>1, <1>4, <2>3, <2>7, <3>1 DEF Held, Phases
    <3>3. cr[c].finalizer' = TRUE  BY <2>2, <3>1
    <3>4. UNCHANGED <<cr[c].phase, EnabledModes(c), {r.type : r \in Owned(c)}>>
      BY <2>5
    <3>5. Protocol(c)!Hold  BY <3>2, <3>3, <3>4 DEF Protocol!Hold
    <3>6. Protocol(c)!Next  BY <3>5 DEF Protocol!Next
    <3> QED  BY <1>1, <1>2, <1>4, <2>1, <2>2, <2>4, <3>6, ObjectWritten
  <2> QED  BY <2>6, <2>7
<1>5. CASE /\ stored.phase # "absent"
           /\ t.pc = "finalizerSend"
           /\ WriteCR(w, obj, EnterPrune(u), FALSE)
  <2> DEFINE e == EnterPrune(u)
  <2>1. u.comp = c /\ u.tgt = obj /\ u.items = t.items
    BY <1>1 DEF Reconcile
  <2>2. e.comp = c /\ e.tgt = obj /\ e.items = t.items /\ e.pc \in Working
    BY <1>1, <2>1 DEF EnterPrune, Working, Reconcile
  <2> HIDE DEF e
  <2>3. cr'[c] = obj /\ ObjectsInv' /\ Follows  BY <1>4, <1>5
  <2>4. ASSUME rc'[w] = e PROVE WorkerInv(w)'
    <3>1. Rendering(w)'  BY <2>2, <2>4, SameItems
    <3>2. obj.finalizer /\ obj.phase # "absent"  BY <1>2, <1>5
    <3>3. Present(w)'  BY <2>2, <2>3, <2>4, <3>2 DEF Present
    <3>4. e.pc \notin Deleting  BY <2>2 DEF Working, Deleting
    <3>5. Current(w)' /\ Left(w)'  BY <2>4, <3>4 DEF Current, Left
    <3> QED  BY <3>1, <3>3, <3>5 DEF WorkerInv
  <2>5. WriteCR(w, obj, e, FALSE)  BY <1>5 DEF e
  <2>6. WorkersInv'  BY <1>1, <2>2, <2>4, <2>5, WriteCRKept
  <2> QED  BY <2>3, <2>6 DEF Kept
<1>6. CASE /\ stored.phase # "absent"
           /\ t.pc = "patchSend"
           /\ WriteCR(w, obj, Idle, t.err)
  <2>1. WorkersInv'  BY <1>1, <1>6, IdleInv, IdleWellFormed, WriteCRKept
  <2> QED  BY <1>4, <1>6, <2>1 DEF Kept
<1> QED  BY <1>3, <1>5, <1>6 DEF PatchSend, obj

LEMMA removeFinalizerKept ==
  ASSUME ProtocolInv, Apart, NEW w \in Workers, NEW c \in Components, c = rc[w].comp,
         removeFinalizer(w)
  PROVE  Kept
<1> DEFINE t == rc[w]
           obj == Gone(cr[c])
<1>1. t \in Reconcile /\ t.pc = "unfinalize" /\ t.pc # "idle" /\ UNCHANGED res
  BY TypesOf DEF removeFinalizer
<1>2. CASE ReturnError(w) /\ UNCHANGED <<cr, faults>>
  <2>1. WorkersInv'  BY <1>1, <1>2, ReturnErrorKept
  <2> QED  BY <1>1, <1>2, <2>1, QuietKept
<1>3. CASE ~Conflict(t) /\ WriteCR(w, obj, Idle, FALSE)
  <2>1. t.tgt = cr[c] /\ cr[c].phase = "terminating"
    BY <1>1, <1>3, TypesOf DEF WorkerInv, Current, Conflict, Deleting
  <2>2. UidOf(t) = [comp |-> c, inc |-> cr[c].inc] /\ Modes(t) = extractExportModes(cr[c].exports)
    BY <2>1 DEF UidOf, Modes
  <2>3. \A r \in res : r.owner = [comp |-> c, inc |-> cr[c].inc] =>
          r.type \notin extractExportModes(cr[c].exports)
    BY <1>1, <2>2, TypesOf DEF WorkerInv, Left, Deleting
  <2>4. /\ obj.inc = cr[c].inc /\ obj.exports = cr[c].exports
        /\ obj.phase = "absent" /\ obj.finalizer = FALSE
    BY DEF Gone, NoObject
  <2> HIDE DEF obj
  <2>5. cr' = [cr EXCEPT ![c] = obj]  BY <1>3 DEF WriteCR
  <2>6. cr'[c] = obj  BY <2>5, TypesOf DEF TypeInv, TypeOK
  <2>7. UNCHANGED <<Owned(c), EnabledModes(c)>>
    BY <1>1, <2>4, <2>6 DEF Owned, EnabledModes
  <2>8. {r.type : r \in Owned(c)} \cap EnabledModes(c) = {}
    BY <2>3 DEF Owned, EnabledModes
  <2>9. /\ cr[c].phase' = "absent" /\ cr[c].finalizer' = FALSE
        /\ UNCHANGED <<EnabledModes(c), {r.type : r \in Owned(c)}>>
    BY <2>4, <2>6, <2>7
  <2>10. Protocol(c)!Release  BY <2>1, <2>8, <2>9 DEF Protocol!Release
  <2>11. Protocol(c)!Next  BY <2>10 DEF Protocol!Next
  <2>12. ObjectsInv' /\ Follows
    BY <1>1, <2>3, <2>4, <2>5, <2>11, ObjectWritten
  <2>13. WorkersInv'
    BY <1>1, <1>3, IdleInv, IdleWellFormed, WriteCRKept
  <2> QED  BY <2>12, <2>13 DEF Kept
<1> QED  BY <1>2, <1>3 DEF removeFinalizer

LEMMA UserWriteKept ==
  ASSUME ProtocolInv, NEW c \in Components, NEW obj, UserWrite(c, obj),
         cr[c].phase # "absent" /\ cr[c].finalizer =>
           obj.inc = cr[c].inc /\ obj.phase # "absent" /\ obj.finalizer,
         obj.phase = "terminating" => obj.finalizer,
         obj.phase = "absent" =>
           /\ ~obj.finalizer
           /\ \A r \in res : r.owner = [comp |-> c, inc |-> obj.inc] =>
                r.type \notin extractExportModes(obj.exports),
         UNCHANGED Protocol(c)!vars \/ Protocol(c)!Next
  PROVE  Kept
<1>1. cr' = [cr EXCEPT ![c] = obj] /\ UNCHANGED res  BY DEF UserWrite
<1>2. cr'[c] = obj /\ \A d \in Components \ {c} : cr'[d] = cr[d]
  BY <1>1, TypesOf DEF TypeInv, TypeOK
<1>3. ObjectsInv' /\ Follows  BY <1>1, ObjectWritten
<1>4. \A v \in Workers :
        /\ rc[v].comp = c => rc'[v] = [rc[v] EXCEPT !.fresh = FALSE]
        /\ rc[v].comp # c => rc'[v] = rc[v]
  BY DEF UserWrite, Invalidated
<1>5. ASSUME NEW v \in Workers PROVE WorkerInv(v)'
  <2>1. rc[v] \in Reconcile /\ WorkerInv(v)  BY TypesOf
  <2>2. rc[v].comp = c => ~rc'[v].fresh  BY <1>4, <2>1 DEF Reconcile
  <2>3. ASSUME rc[v].pc \in Engaged
        PROVE  /\ rc[v].comp \in Components
               /\ cr[rc[v].comp].phase # "absent" /\ cr[rc[v].comp].finalizer
    <3>1. rc[v].pc # "idle"  BY <2>3 DEF Engaged, Working, Deleting
    <3> QED  BY <2>1, <2>3, <3>1, TypesOf DEF WorkerInv, Present, TypeInv, TypeOK
  <2> QED  BY <1>1, <1>2, <1>4, <2>1, <2>2, <2>3, Stays
<1>6. Divided'
  <2>1. ASSUME NEW v \in Workers
        PROVE  rc'[v].comp = rc[v].comp /\ rc'[v].pc = rc[v].pc
    <3>1. rc[v] \in Reconcile  BY TypesOf
    <3> QED  BY <1>4, <3>1 DEF Reconcile
  <2>2. \A v \in Workers : queue'[v] \subseteq Handles[v]
    BY TypesOf DEF UserWrite, Notified
  <2> QED  BY <2>1, <2>2, TypesOf DEF Divided
<1> QED  BY <1>3, <1>5, <1>6 DEF Kept, WorkersInv

LEMMA UserKept ==
  ASSUME ProtocolInv, NEW c \in Components, User(c)
  PROVE  Kept
<1>1. cr[c] \in Object /\ cr[c].inc \in Nat  BY TypesOf DEF Object
<1>2. Held /\ FinalizerBeforeResources /\ NoFutureOwners
  BY DEF ProtocolInv, ObjectsInv, FinalizerInv
<1>3. ASSUME NEW E \in SUBSET ExportKeys, CreateCR(c, E)  PROVE Kept
  <2> DEFINE obj == [NoObject EXCEPT !.phase = "live", !.inc = cr[c].inc + 1,
                                     !.exports = E]
  <2>1. /\ obj.inc = cr[c].inc + 1 /\ obj.phase = "live" /\ ~obj.finalizer
        /\ obj.exports = E
    BY NoObjectType DEF Object, NoObject
  <2>2. UserWrite(c, obj) /\ cr[c].phase = "absent"  BY <1>3 DEF CreateCR
  <2> HIDE DEF obj
  <2>3. cr'[c] = obj /\ UNCHANGED res
    BY <2>2, TypesOf DEF UserWrite, TypeInv, TypeOK
  <2>4. \A r \in res : r.owner # [comp |-> c, inc |-> cr[c].inc + 1]
    BY <1>1, <1>2 DEF NoFutureOwners
  <2>5. Owned(c)' = {}  BY <2>1, <2>3, <2>4 DEF Owned
  <2>6. {r.type : r \in Owned(c)}' = {}  BY <2>5
  <2>7. EnabledModes(c)' \in SUBSET AllRouteTypes
    BY DEF EnabledModes, extractExportModes, IsValidRouteType
  <2>8. cr[c].finalizer' = FALSE /\ cr[c].phase' = "live"
    <3>1. obj.finalizer = FALSE  BY NoObjectType DEF obj, Object, NoObject
    <3> QED  BY <2>1, <2>3, <3>1
  <2>9. Protocol(c)!Create
    BY <2>2, <2>6, <2>7, <2>8 DEF Protocol!Create
  <2>10. Protocol(c)!Next  BY <2>9 DEF Protocol!Next
  <2> QED  BY <2>1, <2>2, <2>10, UserWriteKept
<1>4. ASSUME NEW E \in SUBSET ExportKeys, SetExportModes(c, E)  PROVE Kept
  <2> DEFINE obj == [cr[c] EXCEPT !.exports = E]
  <2>1. /\ obj.inc = cr[c].inc /\ obj.phase = cr[c].phase
        /\ obj.finalizer = cr[c].finalizer
    BY <1>1 DEF Object
  <2>2. UserWrite(c, obj) /\ cr[c].phase # "absent"  BY <1>4 DEF SetExportModes
  <2> HIDE DEF obj
  <2>3. cr'[c] = obj /\ UNCHANGED res
    BY <2>2, TypesOf DEF UserWrite, TypeInv, TypeOK
  <2>4. UNCHANGED <<cr[c].phase, cr[c].finalizer, Owned(c)>>
    BY <2>1, <2>3 DEF Owned
  <2>5. EnabledModes(c)' \in SUBSET AllRouteTypes
    BY DEF EnabledModes, extractExportModes, IsValidRouteType
  <2>6. Protocol(c)!Want  BY <2>2, <2>4, <2>5 DEF Protocol!Want
  <2>7. Protocol(c)!Next  BY <2>6 DEF Protocol!Next
  <2> QED  BY <1>2, <2>1, <2>2, <2>7, UserWriteKept DEF Held
<1>5. CASE TouchCR(c)
  <2>1. UserWrite(c, cr[c]) /\ cr[c].phase # "absent"  BY <1>5 DEF TouchCR
  <2>2. UNCHANGED <<cr, res>>
    BY <2>1, TypesOf DEF UserWrite, TypeInv, TypeOK
  <2>3. Protocol(c)!Next  BY <2>2, Discards
  <2> QED  BY <1>2, <2>1, <2>3, UserWriteKept DEF Held
<1>6. CASE DeleteCR(c)
  <2>1. cr[c].phase = "live"  BY <1>6 DEF DeleteCR
  <2>2. CASE cr[c].finalizer
    <3> DEFINE obj == [cr[c] EXCEPT !.phase = "terminating"]
    <3>1. /\ obj.inc = cr[c].inc /\ obj.phase = "terminating"
          /\ obj.finalizer = cr[c].finalizer /\ obj.exports = cr[c].exports
      BY <1>1 DEF Object
    <3>2. UserWrite(c, obj)  BY <1>6, <2>2 DEF DeleteCR
    <3> HIDE DEF obj
    <3>3. cr'[c] = obj /\ UNCHANGED res
      BY <3>2, TypesOf DEF UserWrite, TypeInv, TypeOK
    <3>4. UNCHANGED <<cr[c].finalizer, Owned(c), EnabledModes(c)>>
      BY <3>1, <3>3 DEF Owned, EnabledModes
    <3>5. cr[c].phase' = "terminating"  BY <3>1, <3>3
    <3>6. Protocol(c)!Delete  BY <2>1, <2>2, <3>4, <3>5 DEF Protocol!Delete
    <3>7. Protocol(c)!Next  BY <3>6 DEF Protocol!Next
    <3> QED  BY <2>2, <3>1, <3>2, <3>7, UserWriteKept
  <2>3. CASE ~cr[c].finalizer
    <3> DEFINE obj == Gone(cr[c])
    <3>1. /\ obj.inc = cr[c].inc /\ obj.phase = "absent"
          /\ obj.finalizer = FALSE /\ obj.exports = cr[c].exports
      BY DEF Gone, NoObject
    <3>2. UserWrite(c, obj)  BY <1>6, <2>3 DEF DeleteCR
    <3> HIDE DEF obj
    <3>3. cr'[c] = obj /\ UNCHANGED res
      BY <3>2, TypesOf DEF UserWrite, TypeInv, TypeOK
    <3>4. cr[c].finalizer = FALSE  BY <1>1, <2>3 DEF Object
    <3>5. UNCHANGED <<cr[c].finalizer, Owned(c), EnabledModes(c)>>
      BY <3>1, <3>3, <3>4 DEF Owned, EnabledModes
    <3>6. cr[c].phase' = "absent"  BY <3>1, <3>3
    <3>7. Protocol(c)!Delete  BY <2>1, <2>3, <3>5, <3>6 DEF Protocol!Delete
    <3>8. Protocol(c)!Next  BY <3>7 DEF Protocol!Next
    <3>9. \A r \in res : r.owner # [comp |-> c, inc |-> cr[c].inc]
      BY <1>2, <2>1, <2>3 DEF FinalizerBeforeResources, Owned
    <3> QED  BY <2>3, <3>1, <3>2, <3>8, <3>9, UserWriteKept
  <2> QED  BY <2>2, <2>3
<1> QED  BY <1>3, <1>4, <1>5, <1>6 DEF User

-------------------------------------------------------------------------------
(* All together.                                                           *)

LEMMA StepKept ==
  ASSUME ProtocolInv, Apart, NEW w \in Workers, Step(w)
  PROVE  Kept
<1>1. ASSUME NEW c \in Components, Fetch(w, c)  PROVE Kept
  BY <1>1, FetchKept
<1>2. CASE PatchSend(w)
  <2>1. rc[w].comp \in Components
    BY <1>2, TypesOf DEF PatchSend, TypeInv, TypeOK
  <2> QED  BY <1>2, <2>1, PatchSendKept
<1>3. CASE removeFinalizer(w)
  <2>1. rc[w].comp \in Components
    BY <1>3, TypesOf DEF removeFinalizer, TypeInv, TypeOK
  <2> QED  BY <1>3, <2>1, removeFinalizerKept
<1> QED
  BY <1>1, <1>2, <1>3, PatchGetKept, deleteOwnedResourcesKept, ListServicesKept,
     ExportNextKept, LoadBatchKept, ApplyGetKept, ApplyWriteKept, propagateKept
  DEF Step

LEMMA ApiErrorKept ==
  ASSUME ProtocolInv, Apart, NEW w \in Workers, ApiError(w)
  PROVE  Kept
<1>1. UNCHANGED <<cr, res>> /\ OnError(w)  BY DEF ApiError
<1>2. WorkersInv'  BY <1>1, OnErrorKept
<1> QED  BY <1>1, <1>2, QuietKept

LEMMA CrashKept ==
  ASSUME ProtocolInv, Apart, NEW w \in Workers, Crash(w)
  PROVE  Kept
<1>1. UNCHANGED <<cr, res>> /\ Advance(w, Idle) /\ Idle.pc = "idle"
  BY IdleWellFormed DEF Crash
<1>2. rc'[w] = Idle /\ \A v \in Workers \ {w} : rc'[v] = rc[v]
  BY <1>1, TypesOf DEF Advance, TypeInv, TypeOK
<1>3. \A v \in Workers : queue'[v] \subseteq Handles[v]
  BY TypesOf DEF Crash, TypeInv, TypeOK
<1>4. ASSUME NEW v \in Workers PROVE WorkerInv(v)'
  <2>1. CASE v = w  BY <1>2, <2>1, IdleInv
  <2>2. CASE v # w
    BY <1>1, <1>2, <2>2, TypesOf
    DEF WorkerInv, Rendering, Present, Current, Left
  <2> QED  BY <2>1, <2>2
<1>5. Divided'  BY <1>1, <1>2, <1>3, TypesOf DEF Divided
<1> QED  BY <1>1, <1>4, <1>5, QuietKept DEF WorkersInv

LEMMA IdleWorkersKept ==
  ASSUME ProtocolInv, UNCHANGED <<cr, res, rc, queue>>
  PROVE  Kept
<1>1. WorkersInv'
  BY TypesOf DEF WorkersInv, Divided, WorkerInv, Rendering, Present, Current, Left
<1> QED  BY <1>1, QuietKept

LEMMA NextKept ==
  ASSUME ProtocolInv, Apart, [Next]_vars
  PROVE  ProtocolInv' /\ Follows
<1>1. FinalizerInv'  BY NextFinalizerInv DEF ProtocolInv
<1>2. Kept
  <2>1. CASE Next
    BY <2>1, StepKept, ApiErrorKept, CrashKept, UserKept, IdleWorkersKept
    DEF Next, ServiceOwner, ChangeService, RemoveService
  <2>2. CASE UNCHANGED vars
    BY <2>2, IdleWorkersKept DEF vars
  <2> QED  BY <2>1, <2>2
<1> QED  BY <1>1, <1>2 DEF Kept, ProtocolInv

LEMMA InitKept == Init => ProtocolInv /\ \A c \in Components : Protocol(c)!Init
<1> SUFFICES ASSUME Init
             PROVE  ProtocolInv /\ \A c \in Components : Protocol(c)!Init
  OBVIOUS
<1>1. FinalizerInv  BY InitFinalizerInv
<1>2. \A v \in Workers : rc[v] = Idle  BY DEF Init
<1>3. Idle.pc = "idle" /\ Idle.items = <<>> /\ DOMAIN <<>> = {}
  BY IdleWellFormed DEF Idle
<1>4. WorkersInv
  BY <1>2, <1>3 DEF Init, WorkersInv, Divided, WorkerInv, Rendering, Present,
     Current, Left, Engaged, Working, Deleting
<1>5. \A c \in Components : /\ cr[c].phase = "absent" /\ cr[c].finalizer = FALSE
                            /\ EnabledModes(c) = {} /\ Owned(c) = {}
  BY DEF Init, NoObject, EnabledModes, extractExportModes, Owned
<1>6. ObjectsInv
  BY <1>5 DEF Init, ObjectsInv, Held, Made, CleanupComplete
<1>7. \A c \in Components : Protocol(c)!Init
  BY <1>5 DEF Protocol!Init
<1> QED  BY <1>1, <1>4, <1>6, <1>7 DEF ProtocolInv

(* When an object is gone, nothing it owned is left of the modes enabled   *)
(* when it went: the Update of removeFinalizer (delete_resources.go:93) is *)
(* refused unless every kind of these modes was deleted while the object   *)
(* stayed as it was, whatever failed, crashed or was retried before.       *)
THEOREM CleanupIsComplete ==
  ASSUME Apart
  PROVE  Spec => []CleanupComplete
<1>1. Init => ProtocolInv  BY InitKept
<1>2. ProtocolInv /\ [Next]_vars => ProtocolInv'  BY NextKept
<1>3. ProtocolInv => CleanupComplete  BY DEF ProtocolInv, ObjectsInv
<1> QED  BY <1>1, <1>2, <1>3, PTL DEF Spec

(* Call by call, the controller implements FinalizerProtocol for each of   *)
(* its components: its initial states are initial there, and its steps are *)
(* steps of the protocol or leave what it speaks of alone.                 *)
THEOREM ImplementsProtocol ==
  ASSUME Apart
  PROVE  Spec => FollowsProtocol
<1>1. Init => ProtocolInv /\ \A c \in Components : Protocol(c)!Init  BY InitKept
<1>2. ProtocolInv /\ [Next]_vars => ProtocolInv'  BY NextKept
<1>3. ProtocolInv /\ [Next]_vars =>
        [\A c \in Components : UNCHANGED Protocol(c)!vars \/ Protocol(c)!Next]_vars
  BY NextKept DEF Follows
<1> QED  BY <1>1, <1>2, <1>3, PTL DEF Spec, FollowsProtocol
===============================================================================
