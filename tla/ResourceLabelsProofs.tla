-------------------------- MODULE ResourceLabelsProofs --------------------------
(***************************************************************************)
(* Proofs about ResourceLabels: with labels and selectors in the place of  *)
(* records the routing controller does what RoutingController says, and    *)
(* the labels of a resource always tell its owner and its mode.            *)
(***************************************************************************)
EXTENDS ResourceLabels, RoutingControllerProofs

-------------------------------------------------------------------------------
(* Options and selectors.                                                  *)

Values == {NameOf[c] : c \in Components} \cup {KindOf[c] : c \in Components} \cup Uid
            \cup AllRouteTypes \cup {"odh-routing-controller"}

OwnerKeys == {"owner-name", "owner-kind", "owner-uid"}
Option    == [key : OwnerKeys \cup {"managed-by", "type"}, value : Values]

(* Labels ls say that uid is the owner.                                    *)
Names(ls, uid) ==
  /\ OwnerKeys \subseteq DOMAIN ls
  /\ ls["owner-name"] = NameOf[uid.comp]
  /\ ls["owner-kind"] = KindOf[uid.comp]
  /\ ls["owner-uid"] = uid

Tells(ls, uid, type) == Names(ls, uid) /\ "type" \in DOMAIN ls /\ ls["type"] = type

(* The last option with a key decides.                                     *)
LEMMA LastOptionCounts ==
  ASSUME NEW o, DOMAIN o \subseteq Nat, NEW i \in DOMAIN o,
         \A j \in DOMAIN o : o[j].key = o[i].key => j <= i
  PROVE  LET ls == L!ApplyMetaOptions(L!NoLabels, o)
         IN  o[i].key \in DOMAIN ls /\ ls[o[i].key] = o[i].value
<1> DEFINE Of(k) == {j \in DOMAIN o : o[j].key = k}
           k0 == o[i].key
           last == CHOOSE j \in Of(k0) : \A l \in Of(k0) : l <= j
           given == [k \in {o[j].key : j \in DOMAIN o} |->
                       o[CHOOSE j \in Of(k) : \A l \in Of(k) : l <= j].value]
<1>1. i \in Of(k0) /\ \A l \in Of(k0) : l <= i  OBVIOUS
<1>2. last \in Of(k0) /\ \A l \in Of(k0) : l <= last  BY <1>1
<1>3. last = i
  <2>1. last <= i /\ i <= last /\ last \in Nat /\ i \in Nat  BY <1>1, <1>2
  <2> HIDE DEF last
  <2> QED  BY <2>1
<1>4. k0 \in DOMAIN given /\ given[k0] = o[last].value  OBVIOUS
<1>5. L!ApplyMetaOptions(L!NoLabels, o) = L!Override(L!NoLabels, given)
  BY DEF L!ApplyMetaOptions
<1> HIDE DEF given, last
<1>6. LET ls == L!Override(L!NoLabels, given) IN k0 \in DOMAIN ls /\ ls[k0] = given[k0]
  BY <1>4 DEF L!Override
<1> QED  BY <1>3, <1>4, <1>5, <1>6

LEMMA OptionKeys ==
  ASSUME NEW o
  PROVE  DOMAIN L!ApplyMetaOptions(L!NoLabels, o) = {o[j].key : j \in DOMAIN o}
  BY DEF L!ApplyMetaOptions, L!Override, L!NoLabels

LEMMA AppendToThree ==
  ASSUME NEW a, NEW b, NEW c, NEW d
  PROVE  Append(<<a, b, c>>, d) = <<a, b, c, d>>
<1> DEFINE S == {a, b, c, d}
           p == Append(<<a, b, c>>, d)
           q == <<a, b, c, d>>
<1>1. <<a, b, c>> \in Seq(S) /\ Len(<<a, b, c>>) = 3  OBVIOUS
<1>2. q \in Seq(S) /\ Len(q) = 4 /\ q[1] = a /\ q[2] = b /\ q[3] = c /\ q[4] = d
  OBVIOUS
<1>3. p \in Seq(S) /\ Len(p) = 4 /\ p[1] = a /\ p[2] = b /\ p[3] = c /\ p[4] = d
  BY <1>1, AppendProperties
<1> HIDE DEF p, q
<1>4. \A i \in 1 .. Len(p) : p[i] = q[i]  BY <1>2, <1>3
<1>5. p = q  BY <1>2, <1>3, <1>4, SeqEqual
<1> QED  BY <1>5 DEF p, q

(* What the selector for the labels of an owner and of a type asks for.    *)
LEMMA TypeSelector ==
  ASSUME NEW uid, NEW type, NEW ls
  PROVE  L!Matches(L!MatchingLabels(Append(Owner(uid), L!ExportType(type))), ls)
           <=> Tells(ls, uid, type)
<1> DEFINE o == Append(Owner(uid), L!ExportType(type))
           sel == L!MatchingLabels(o)
<1>1. o = <<L!OwnerName(NameOf[uid.comp]), L!OwnerKind(KindOf[uid.comp]), L!OwnerUID(uid),
            L!ExportType(type)>>
  BY AppendToThree DEF Owner, L!AsOwner
<1> HIDE DEF o
<1>2. DOMAIN o = {1, 2, 3, 4} /\ {1, 2, 3, 4} \subseteq Nat
  BY <1>1
<1>3. /\ o[1] = [key |-> "owner-name", value |-> NameOf[uid.comp]]
      /\ o[2] = [key |-> "owner-kind", value |-> KindOf[uid.comp]]
      /\ o[3] = [key |-> "owner-uid", value |-> uid]
      /\ o[4] = [key |-> "type", value |-> type]
  BY <1>1 DEF L!OwnerName, L!OwnerKind, L!OwnerUID, L!ExportType
<1>4. /\ o[1].key = "owner-name" /\ o[2].key = "owner-kind" /\ o[3].key = "owner-uid"
      /\ o[4].key = "type"
      /\ o[1].value = NameOf[uid.comp] /\ o[2].value = KindOf[uid.comp]
      /\ o[3].value = uid /\ o[4].value = type
  BY <1>3
<1>5. \A i, j \in DOMAIN o : o[j].key = o[i].key => j <= i  BY <1>2, <1>4
<1>6. \A i \in DOMAIN o : sel[o[i].key] = o[i].value
  BY <1>2, <1>5, LastOptionCounts DEF L!MatchingLabels
<1>7. DOMAIN sel = OwnerKeys \cup {"type"}
  <2>1. DOMAIN sel = {o[j].key : j \in DOMAIN o}  BY OptionKeys DEF L!MatchingLabels
  <2>2. {o[j].key : j \in DOMAIN o} = OwnerKeys \cup {"type"}
    BY <1>2, <1>4 DEF OwnerKeys
  <2> QED  BY <2>1, <2>2
<1> HIDE DEF sel
<1>8. /\ sel["owner-name"] = NameOf[uid.comp] /\ sel["owner-kind"] = KindOf[uid.comp]
      /\ sel["owner-uid"] = uid /\ sel["type"] = type
  BY <1>2, <1>4, <1>6
<1>9. L!Matches(sel, ls) <=>
        \A k \in OwnerKeys \cup {"type"} : k \in DOMAIN ls /\ ls[k] = sel[k]
  BY <1>7 DEF L!Matches
<1> QED  BY <1>8, <1>9 DEF Tells, Names, OwnerKeys, sel, o

(* A deletion finds by labels what RoutingController finds by the type.    *)
LEMMA MatchesByType ==
  ASSUME NEW t, NEW uid, NEW type, NEW ls, Tells(ls, uid, type)
  PROVE  MatchesTypes(t, ls) <=> type \in SelectedTypes(t)
  BY DEF MatchesTypes, Tells

-------------------------------------------------------------------------------
(* The inductive invariant.                                                *)

(* The slice of a worker that exports a service: the labels of the owner,  *)
(* of the manager, and one type for every template loaded so far.          *)
SliceFor(uid, o) ==
  /\ o \in Seq(Option)
  /\ Len(o) >= 4
  /\ o[1] = [key |-> "owner-name", value |-> NameOf[uid.comp]]
  /\ o[2] = [key |-> "owner-kind", value |-> KindOf[uid.comp]]
  /\ o[3] = [key |-> "owner-uid", value |-> uid]
  /\ o[4].key = "managed-by"
  /\ \A i \in 5 .. Len(o) : o[i].key = "type"

(* The last of them is that of the resources being applied.                *)
TypeIsLast(t, o) ==
  t.pc \in {"applyGet", "applyWrite"} =>
    /\ Len(o) > 4
    /\ \A i \in DOMAIN t.items : t.items[i].mode = o[Len(o)].value

Slices(w) ==
  InExportService(rc[w]) => /\ SliceFor(UidOf(rc[w]), ownershipLabels[w])
                            /\ TypeIsLast(rc[w], ownershipLabels[w])

Unique == \A r, s \in res : Identity(r) = Identity(s) => r = s

LabelsInv ==
  /\ TypeInv
  /\ ownershipLabels = [w \in Workers |-> ownershipLabels[w]]
  /\ \A w \in Workers : Slices(w)
  /\ Unique
  /\ DOMAIN labels = {Identity(r) : r \in res}
  /\ \A r \in res : Tells(labels[Identity(r)], r.owner, r.type)

LEMMA InvTells == LabelsInv => LabelsTell
  BY TypeSelector DEF LabelsInv, LabelsTell

(* What a slice says once it has a type.                                   *)
LEMMA SliceTells ==
  ASSUME NEW uid, NEW o, SliceFor(uid, o), Len(o) > 4
  PROVE  Tells(L!ApplyMetaOptions(L!NoLabels, o), uid, o[Len(o)].value)
<1> DEFINE ls == L!ApplyMetaOptions(L!NoLabels, o)
           n == Len(o)
<1>1. DOMAIN o = 1 .. n /\ n \in Nat /\ n > 4  BY DEF SliceFor
<1>2. /\ o[1].key = "owner-name" /\ o[2].key = "owner-kind" /\ o[3].key = "owner-uid"
      /\ o[1].value = NameOf[uid.comp] /\ o[2].value = KindOf[uid.comp] /\ o[3].value = uid
      /\ o[4].key = "managed-by"
  BY DEF SliceFor
<1>3. \A i \in 5 .. n : o[i].key = "type"  BY DEF SliceFor
<1> HIDE DEF n
<1>4. \A j \in DOMAIN o : j = 1 \/ j = 2 \/ j = 3 \/ j = 4 \/ j \in 5 .. n  BY <1>1
<1>5. {1, 2, 3, n} \subseteq DOMAIN o /\ n \in 5 .. n /\ DOMAIN o \subseteq Nat  BY <1>1
<1>6. \A i \in {1, 2, 3, n}, j \in DOMAIN o : o[j].key = o[i].key => j <= i
  BY <1>1, <1>2, <1>3, <1>4, <1>5
<1>7. \A i \in {1, 2, 3, n} : o[i].key \in DOMAIN ls /\ ls[o[i].key] = o[i].value
  BY <1>5, <1>6, LastOptionCounts
<1> HIDE DEF ls
<1>8. Tells(ls, uid, o[n].value)
  BY <1>2, <1>3, <1>5, <1>7 DEF Tells, Names, OwnerKeys
<1> QED  BY <1>8 DEF ls, n

LEMMA SliceGrows ==
  ASSUME NEW uid, NEW o, SliceFor(uid, o), NEW m \in AllRouteTypes
  PROVE  LET p == Append(o, L!ExportType(m))
         IN  SliceFor(uid, p) /\ Len(p) > 4 /\ p[Len(p)].value = m
<1> DEFINE e == L!ExportType(m)
           p == Append(o, e)
<1>1. e = [key |-> "type", value |-> m]  BY DEF L!ExportType
<1>2. e \in Option  BY <1>1 DEF Option, Values
<1> HIDE DEF e
<1>3. o \in Seq(Option) /\ Len(o) \in Nat /\ Len(o) >= 4  BY DEF SliceFor
<1>4. /\ p \in Seq(Option) /\ Len(p) = Len(o) + 1
      /\ \A i \in 1 .. Len(o) : p[i] = o[i]
      /\ p[Len(o) + 1] = e
  BY <1>2, <1>3, AppendProperties
<1> HIDE DEF p
<1>5. p[1] = o[1] /\ p[2] = o[2] /\ p[3] = o[3] /\ p[4] = o[4]  BY <1>3, <1>4
<1>6. ASSUME NEW i \in 5 .. Len(p) PROVE p[i].key = "type"
  <2>1. CASE i = Len(o) + 1  BY <1>1, <1>4, <2>1
  <2>2. CASE i # Len(o) + 1
    <3>1. i \in 1 .. Len(o) /\ i \in 5 .. Len(o)  BY <1>3, <1>4, <2>2
    <3> QED  BY <1>4, <3>1 DEF SliceFor
  <2> QED  BY <2>1, <2>2
<1>7. SliceFor(uid, p)  BY <1>3, <1>4, <1>5, <1>6 DEF SliceFor
<1>8. Len(p) > 4 /\ p[Len(p)].value = m  BY <1>1, <1>3, <1>4
<1> QED  BY <1>7, <1>8 DEF p, e

LEMMA SliceStarts ==
  ASSUME NEW uid \in Uid
  PROVE  SliceFor(uid, Append(Owner(uid), L!AppManagedBy("odh-routing-controller")))
<1> DEFINE a == [key |-> "owner-name", value |-> NameOf[uid.comp]]
           b == [key |-> "owner-kind", value |-> KindOf[uid.comp]]
           c == [key |-> "owner-uid", value |-> uid]
           d == [key |-> "managed-by", value |-> "odh-routing-controller"]
<1>1. Append(Owner(uid), L!AppManagedBy("odh-routing-controller")) = <<a, b, c, d>>
  BY AppendToThree DEF Owner, L!AsOwner, L!OwnerName, L!OwnerKind, L!OwnerUID, L!AppManagedBy
<1>2. a \in Option /\ b \in Option /\ c \in Option /\ d \in Option
  BY DEF Option, Values, OwnerKeys, Uid
<1>3. d.key = "managed-by"  OBVIOUS
<1> HIDE DEF a, b, c, d
<1> DEFINE q == <<a, b, c, d>>
<1>4. q \in Seq(Option) /\ Len(q) = 4 /\ q[1] = a /\ q[2] = b /\ q[3] = c /\ q[4] = d
  BY <1>2
<1> HIDE DEF q
<1>5. SliceFor(uid, q)  BY <1>3, <1>4 DEF SliceFor, a, b, c
<1> QED  BY <1>1, <1>5 DEF q

-------------------------------------------------------------------------------
(* What the steps do to the slices.                                        *)

LEMMA OthersSlices ==
  ASSUME LabelsInv, NEW v \in Workers, OnlyAges(v), ownershipLabels'[v] = ownershipLabels[v]
  PROVE  Slices(v)'
<1>1. rc[v] \in Reconcile  BY DEF LabelsInv, TypeInv, TypeOK
<1>2. /\ rc'[v].pc = rc[v].pc /\ rc'[v].comp = rc[v].comp /\ rc'[v].tgt = rc[v].tgt
      /\ rc'[v].items = rc[v].items
  BY <1>1 DEF OnlyAges, Reconcile
<1>3. InExportService(rc'[v]) <=> InExportService(rc[v])  BY <1>2 DEF InExportService
<1>4. UidOf(rc'[v]) = UidOf(rc[v])  BY <1>2 DEF UidOf
<1>5. \A o : TypeIsLast(rc[v], o) => TypeIsLast(rc'[v], o)  BY <1>2 DEF TypeIsLast
<1>6. Slices(v)  BY DEF LabelsInv
<1> QED  BY <1>3, <1>4, <1>5, <1>6 DEF Slices

LEMMA AdvanceAlone ==
  ASSUME TypeInv, NEW w \in Workers, NEW u, Advance(w, u)
  PROVE  rc'[w] = u /\ \A v \in Workers \ {w} : OnlyAges(v)
  BY DEF Advance, OnlyAges, TypeInv, TypeOK

(* An error ends the export.                                               *)
LEMMA OnErrorEnds ==
  ASSUME TypeInv, NEW w \in Workers, OnError(w)
  PROVE  ~InExportService(rc'[w]) /\ \A v \in Workers \ {w} : OnlyAges(v)
<1> DEFINE t == rc[w]
<1>1. t \in Reconcile  BY DEF TypeInv, TypeOK
<1>2. CASE Advance(w, Idle)
  BY <1>2, AdvanceAlone, IdleWellFormed DEF InExportService
<1>3. ASSUME NEW u, u.pc \in {"create", "patch", "services"}, u \in Reconcile,
             Advance(w, RecordError(u))
      PROVE  ~InExportService(rc'[w]) /\ \A v \in Workers \ {w} : OnlyAges(v)
  <2>1. RecordError(u).pc = u.pc  BY <1>3 DEF RecordError, Reconcile
  <2> QED  BY <1>3, <2>1, AdvanceAlone DEF InExportService
<1>4. CASE Advance(w, RecordError([t EXCEPT !.pc = "create", !.kinds = {}]))
  <2> DEFINE u == [t EXCEPT !.pc = "create", !.kinds = {}]
  <2>1. u \in Reconcile /\ u.pc = "create"  BY <1>1 DEF Reconcile, PCs
  <2>2. Advance(w, RecordError(u))  BY <1>4
  <2> HIDE DEF u
  <2> QED  BY <1>3, <2>1, <2>2
<1>5. CASE Advance(w, RecordError([t EXCEPT !.pc = "patch"]))
  <2> DEFINE u == [t EXCEPT !.pc = "patch"]
  <2>1. u \in Reconcile /\ u.pc = "patch"  BY <1>1 DEF Reconcile, PCs
  <2>2. Advance(w, RecordError(u))  BY <1>5
  <2> HIDE DEF u
  <2> QED  BY <1>3, <2>1, <2>2
<1>6. CASE Advance(w, RecordError([t EXCEPT !.pc = "services", !.exporting = {},
                                            !.batches = {}, !.items = <<>>,
                                            !.found = FALSE]))
  <2> DEFINE u == [t EXCEPT !.pc = "services", !.exporting = {}, !.batches = {},
                            !.items = <<>>, !.found = FALSE]
  <2>1. <<>> \in Seq(Item)  OBVIOUS
  <2>2. u \in Reconcile /\ u.pc = "services"  BY <1>1, <2>1 DEF Reconcile, PCs
  <2>3. Advance(w, RecordError(u))  BY <1>6
  <2> HIDE DEF u
  <2> QED  BY <1>3, <2>2, <2>3
<1> QED  BY <1>2, <1>4, <1>5, <1>6 DEF OnError, ReturnError

LEMMA ReplyAlone ==
  ASSUME TypeInv, NEW w \in Workers, NEW u, Reply(w, u)
  PROVE  /\ rc'[w] = u \/ ~InExportService(rc'[w])
         /\ \A v \in Workers \ {w} : OnlyAges(v)
  BY AdvanceAlone, OnErrorEnds DEF Reply

LEMMA WriteCRAlone ==
  ASSUME TypeInv, NEW w \in Workers, NEW obj, NEW u, NEW retry, WriteCR(w, obj, u, retry)
  PROVE  /\ rc'[w] = u \/ rc'[w] = Idle
         /\ \A v \in Workers \ {w} : OnlyAges(v)
  BY WriteCRWait DEF Waits

LEMMA EnterPruneOutside ==
  ASSUME NEW t, WellFormed(t)
  PROVE  ~InExportService(EnterPrune(t))
<1>1. EnterPrune(t).pc \in {"prune", "create"}
  BY DEF EnterPrune, WellFormed, Reconcile
<1> QED  BY <1>1 DEF InExportService

(* Everything but exportService.                                           *)
Outside(w) ==
  \/ \E c \in Components : Fetch(w, c)
  \/ PatchGet(w) \/ PatchSend(w) \/ removeFinalizer(w) \/ ListServices(w)
  \/ propagateHostsToWatchedCR(w)
  \/ ApiError(w) \/ Crash(w)
  \/ \E k \in Kinds : deleteOwnedResources(w, k)

LEMMA OutsideEnds ==
  ASSUME TypeInv, NEW w \in Workers, Outside(w)
  PROVE  ~InExportService(rc'[w]) /\ \A v \in Workers \ {w} : OnlyAges(v)
<1> DEFINE t == rc[w]
           Goal == ~InExportService(rc'[w]) /\ \A v \in Workers \ {w} : OnlyAges(v)
<1>1. t \in Reconcile /\ WellFormed(t)  BY DEF TypeInv, TypeOK
<1>2. ~InExportService(Idle)  BY IdleWellFormed DEF InExportService
<1>3. ASSUME NEW u, u.pc \notin {"batches", "applyGet", "applyWrite"}, Advance(w, u)
      PROVE  Goal
  BY <1>3, AdvanceAlone DEF InExportService
<1>4. ASSUME NEW c \in Components, Fetch(w, c)  PROVE Goal
  <2> DEFINE f == [Idle EXCEPT !.comp = c, !.tgt = cr[c], !.fresh = TRUE]
  <2>1. cr[c] \in Object  BY DEF TypeInv, TypeOK
  <2>2. f \in Reconcile /\ WellFormed(f) /\ f.pc = "idle" /\ f.comp = c
    BY <2>1, IdleWellFormed DEF WellFormed, Reconcile
  <2>3. CASE UNCHANGED rc
    BY <1>4, <2>3 DEF Fetch, InExportService, OnlyAges
  <2>4. CASE Advance(w, [f EXCEPT !.pc = "cleanup",
                                  !.kinds = routingResourceGVKs(Modes(f))])
    <3>1. [f EXCEPT !.pc = "cleanup", !.kinds = routingResourceGVKs(Modes(f))].pc = "cleanup"
      BY <2>2 DEF Reconcile
    <3> QED  BY <1>3, <2>4, <3>1
  <2>5. CASE Advance(w, ensureResourceHasFinalizer(f))
    <3> DEFINE g == [f EXCEPT !.pc = "finalizer", !.tgt.finalizer = TRUE]
    <3>1. g.pc = "finalizer"  BY <2>2 DEF Reconcile
    <3>2. ~InExportService(EnterPrune(f))  BY <2>2, EnterPruneOutside
    <3> HIDE DEF f, g
    <3>3. ensureResourceHasFinalizer(f) \in {EnterPrune(f), g}
      BY DEF ensureResourceHasFinalizer, g
    <3> QED  BY <2>5, <3>1, <3>2, <3>3, AdvanceAlone DEF InExportService
  <2> QED  BY <1>4, <2>3, <2>4, <2>5 DEF Fetch
<1>5. CASE PatchGet(w)
  <2>1. CASE ReturnError(w)
    BY <1>2, <2>1, AdvanceAlone DEF ReturnError
  <2>2. CASE ~ReturnError(w)
    <3> DEFINE g == [t EXCEPT
           !.pc = IF t.pc = "finalizer" THEN "finalizerSend" ELSE "patchSend",
           !.diff = {m \in AllRouteTypes : t.tgt.addr[m] # cr[t.comp].addr[m]}]
    <3>1. g.pc \in {"finalizerSend", "patchSend"}  BY <1>1 DEF Reconcile
    <3>2. Advance(w, g)  BY <1>5, <2>2 DEF PatchGet
    <3> HIDE DEF g
    <3> QED  BY <1>3, <3>1, <3>2
  <2> QED  BY <2>1, <2>2
<1>6. CASE PatchSend(w)
  <2>1. t.comp \in Components /\ cr[t.comp] \in Object
    BY <1>1, <1>6 DEF PatchSend, WellFormed, TypeInv, TypeOK
  <2> DEFINE stored == cr[t.comp]
             obj == [stored EXCEPT
                      !.finalizer = IF t.pc = "finalizerSend" THEN TRUE ELSE @,
                      !.addr = [m \in AllRouteTypes |->
                                  IF m \in t.diff THEN t.tgt.addr[m] ELSE @[m]]]
             g == [t EXCEPT !.tgt = obj, !.fresh = TRUE, !.diff = {}]
  <2>2. obj \in Object
    BY <1>1, <2>1 DEF Object, Reconcile
  <2> HIDE DEF obj
  <2>3. t.pc \in {"finalizerSend", "patchSend"}  BY <1>6 DEF PatchSend
  <2>4. WellFormed(g)  BY <1>1, <2>1, <2>2, <2>3 DEF WellFormed, Reconcile
  <2>5. ~InExportService(EnterPrune(g))  BY <2>4, EnterPruneOutside
  <2>6. \/ ReturnError(w) \/ WriteCR(w, obj, EnterPrune(g), FALSE)
        \/ WriteCR(w, obj, Idle, t.err)
    BY <1>6 DEF PatchSend, obj
  <2> HIDE DEF g
  <2> QED  BY <1>2, <2>5, <2>6, AdvanceAlone, WriteCRAlone DEF ReturnError
<1>7. CASE removeFinalizer(w)
  BY <1>2, <1>7, AdvanceAlone, WriteCRAlone DEF removeFinalizer, ReturnError
<1>8. CASE ListServices(w)
  <2> DEFINE u1 == NoneExported(t)
             u2 == [t EXCEPT !.pc = "patch"]
             u3 == [t EXCEPT !.pc = "services", !.pending = Listed(t.comp)]
  <2>1. /\ u1.pc = "patch" /\ RecordError(u2).pc = "patch" /\ u3.pc = "services"
    BY <1>1 DEF NoneExported, RecordError, Reconcile, Object
  <2>2. Advance(w, u1) \/ Advance(w, RecordError(u2)) \/ Advance(w, u3)
    BY <1>8 DEF ListServices
  <2> HIDE DEF u1, u2, u3
  <2> QED  BY <1>3, <2>1, <2>2
<1>9. CASE propagateHostsToWatchedCR(w)
  <2> DEFINE g == [t EXCEPT !.pc = "services", !.exporting = {}, !.tgt.addr = Addresses(t)]
  <2>1. g.pc = "services"  BY <1>1 DEF Reconcile, Object
  <2>2. Advance(w, g)  BY <1>9 DEF propagateHostsToWatchedCR
  <2> HIDE DEF g
  <2> QED  BY <1>3, <2>1, <2>2
<1>10. CASE ApiError(w)
  BY <1>10, OnErrorEnds DEF ApiError
<1>11. CASE Crash(w)
  BY <1>2, <1>11, AdvanceAlone DEF Crash
<1>12. ASSUME NEW k \in Kinds, deleteOwnedResources(w, k)  PROVE Goal
  <2> DEFINE g == [t EXCEPT
                !.pc = IF t.kinds = {k}
                       THEN (IF t.pc = "prune" THEN "create" ELSE "unfinalize") ELSE @,
                !.kinds = @ \ {k}]
  <2>1. t.pc \in {"prune", "cleanup"}  BY <1>12 DEF deleteOwnedResources, DeleteAllOf
  <2>2. g.pc \in {"prune", "cleanup", "create", "unfinalize"}  BY <1>1, <2>1 DEF Reconcile
  <2>3. Reply(w, g)  BY <1>12 DEF deleteOwnedResources, DeleteAllOf
  <2> HIDE DEF g
  <2> QED  BY <2>2, <2>3, ReplyAlone DEF InExportService
<1> QED  BY <1>4, <1>5, <1>6, <1>7, <1>8, <1>9, <1>10, <1>11, <1>12 DEF Outside

-------------------------------------------------------------------------------
(* What the steps do to the invariant.                                     *)

LEMMA SliceAlone ==
  ASSUME LabelsInv, NEW w \in Workers, NEW o, Slice(w, o)
  PROVE  /\ ownershipLabels' = [v \in Workers |-> ownershipLabels'[v]]
         /\ \A v \in Workers \ {w} : ownershipLabels'[v] = ownershipLabels[v]
         /\ InExportService(rc'[w]) => ownershipLabels'[w] = o
<1>1. DOMAIN ownershipLabels = Workers  BY DEF LabelsInv
<1> QED  BY <1>1 DEF Slice

(* As long as no resource is touched, only the slices have to be kept.     *)
LEMMA SlicesSuffice ==
  ASSUME LabelsInv, TypeInv', UNCHANGED <<res, labels>>,
         NEW w \in Workers, NEW o, Slice(w, o),
         \A v \in Workers \ {w} : OnlyAges(v),
         InExportService(rc'[w]) => SliceFor(UidOf(rc'[w]), o) /\ TypeIsLast(rc'[w], o)
  PROVE  LabelsInv'
<1>1. \A v \in Workers \ {w} : Slices(v)'  BY SliceAlone, OthersSlices
<1>2. Slices(w)'  BY SliceAlone DEF Slices
<1>3. ownershipLabels' = [v \in Workers |-> ownershipLabels'[v]]  BY SliceAlone
<1>4. Unique'  BY DEF LabelsInv, Unique
<1>5. DOMAIN labels' = {Identity(r) : r \in res'}  BY DEF LabelsInv
<1>6. \A r \in res' : Tells(labels'[Identity(r)], r.owner, r.type)  BY DEF LabelsInv
<1> QED  BY <1>1, <1>2, <1>3, <1>4, <1>5, <1>6 DEF LabelsInv

LEMMA UidType ==
  ASSUME TypeInv, NEW w \in Workers, rc[w].pc # "idle"
  PROVE  UidOf(rc[w]) \in Uid
<1>1. rc[w] \in Reconcile /\ rc[w].comp \in Components  BY DEF TypeInv, TypeOK
<1>2. rc[w].tgt.inc \in Nat  BY <1>1 DEF Reconcile, Object
<1> QED  BY <1>1, <1>2 DEF UidOf, Uid

LEMMA ElsewhereTold ==
  ASSUME LabelsInv, TypeInv', NEW w \in Workers, Elsewhere(w)
  PROVE  LabelsInv'
<1> DEFINE t == rc[w]
           o == ownershipLabels[w]
<1>1. TypeInv /\ t \in Reconcile  BY DEF LabelsInv, TypeInv, TypeOK
<1>2. UNCHANGED <<res, labels>>
  BY DEF Elsewhere, Fetch, PatchGet, PatchSend, removeFinalizer, ListServices, ApplyGet,
         propagateHostsToWatchedCR, ApiError, Crash
<1>3. Slice(w, o)  BY DEF Elsewhere
<1>4. CASE Outside(w)
  BY <1>1, <1>2, <1>3, <1>4, OutsideEnds, SlicesSuffice
<1>5. CASE ApplyGet(w)
  <2> DEFINE u == [t EXCEPT !.pc = "applyWrite", !.found = Occupants(t) # {}]
  <2>1. /\ u.pc = "applyWrite" /\ u.comp = t.comp /\ u.tgt = t.tgt /\ u.items = t.items
    BY <1>1 DEF Reconcile
  <2>2. Advance(w, u) /\ t.pc = "applyGet"  BY <1>5 DEF ApplyGet
  <2> HIDE DEF u
  <2>3. rc'[w] = u /\ \A v \in Workers \ {w} : OnlyAges(v)
    BY <1>1, <2>2, AdvanceAlone
  <2>4. SliceFor(UidOf(t), o) /\ TypeIsLast(t, o)
    BY <2>2 DEF LabelsInv, Slices, InExportService
  <2>5. UidOf(u) = UidOf(t)  BY <2>1 DEF UidOf
  <2>6. TypeIsLast(u, o)  BY <2>1, <2>2, <2>4 DEF TypeIsLast
  <2> QED  BY <1>2, <1>3, <2>3, <2>4, <2>5, <2>6, SlicesSuffice
<1> QED  BY <1>4, <1>5 DEF Elsewhere, Outside

LEMMA StartSliceTold ==
  ASSUME LabelsInv, TypeInv', NEW w \in Workers, StartSlice(w)
  PROVE  LabelsInv'
<1> DEFINE t == rc[w]
           o == Append(Owner(UidOf(t)), L!AppManagedBy("odh-routing-controller"))
           u1 == [t EXCEPT !.pc = "patch"]
<1>1. TypeInv /\ t \in Reconcile /\ t.pc = "services"
  BY DEF LabelsInv, TypeInv, TypeOK, StartSlice, ExportNext
<1>2. UNCHANGED <<res, labels>> /\ Slice(w, o)  BY DEF StartSlice, ExportNext
<1>3. u1.pc = "patch"  BY <1>1 DEF Reconcile
<1>4. \A P : LET e == Exporting(t, P)
             IN e.pc = "batches" /\ e.comp = t.comp /\ e.tgt = t.tgt
  BY <1>1 DEF Exporting, Reconcile
<1>5. Advance(w, u1) \/ \E P : Advance(w, Exporting(t, P))
  BY DEF StartSlice, ExportNext
<1>6. UidOf(t) \in Uid  BY <1>1, UidType
<1>7. SliceFor(UidOf(t), o)  BY <1>6, SliceStarts
<1> HIDE DEF u1, o
<1>8. CASE Advance(w, u1)
  BY <1>1, <1>2, <1>3, <1>8, AdvanceAlone, SlicesSuffice DEF InExportService
<1>9. ASSUME NEW P, Advance(w, Exporting(t, P))
      PROVE  LabelsInv'
  <2> DEFINE u == Exporting(t, P)
  <2>1. u.pc = "batches" /\ UidOf(u) = UidOf(t)  BY <1>4 DEF UidOf
  <2>2. rc'[w] = u /\ \A v \in Workers \ {w} : OnlyAges(v)  BY <1>1, <1>9, AdvanceAlone
  <2>3. TypeIsLast(u, o)  BY <2>1 DEF TypeIsLast
  <2> HIDE DEF u
  <2> QED  BY <1>2, <1>7, <2>1, <2>2, <2>3, SlicesSuffice
<1> QED  BY <1>5, <1>8, <1>9

LEMMA GrowSliceTold ==
  ASSUME LabelsInv, TypeInv', NEW w \in Workers, NEW b \in rc[w].batches, GrowSlice(w, b)
  PROVE  LabelsInv'
<1> DEFINE t == rc[w]
           o == Append(ownershipLabels[w], L!ExportType(b.mode))
           kinds == Load(b.mode)
           items == [i \in DOMAIN kinds |->
                       [mode |-> b.mode, kind |-> kinds[i], backend |-> b.backend]]
           u == [t EXCEPT !.pc = "applyGet", !.batches = @ \ {b}, !.items = items]
<1>1. TypeInv /\ t \in Reconcile /\ t.pc = "batches"
  BY DEF LabelsInv, TypeInv, TypeOK, GrowSlice, LoadBatch
<1>2. UNCHANGED <<res, labels>> /\ Slice(w, o)  BY DEF GrowSlice, LoadBatch, WithType
<1>3. Advance(w, u)  BY DEF GrowSlice, LoadBatch
<1>4. \A i \in DOMAIN items : items[i].mode = b.mode  OBVIOUS
<1> HIDE DEF items
<1>5. u.pc = "applyGet" /\ u.comp = t.comp /\ u.tgt = t.tgt /\ u.items = items
  BY <1>1 DEF Reconcile
<1>6. b.mode \in AllRouteTypes  BY <1>1 DEF Reconcile, Batch
<1>7. SliceFor(UidOf(t), ownershipLabels[w])  BY <1>1 DEF LabelsInv, Slices, InExportService
<1>8. SliceFor(UidOf(t), o) /\ Len(o) > 4 /\ o[Len(o)].value = b.mode
  BY <1>6, <1>7, SliceGrows
<1> HIDE DEF u, o
<1>9. UidOf(u) = UidOf(t)  BY <1>5 DEF UidOf
<1>10. TypeIsLast(u, o)  BY <1>4, <1>5, <1>8 DEF TypeIsLast
<1>11. rc'[w] = u /\ \A v \in Workers \ {w} : OnlyAges(v)  BY <1>1, <1>3, AdvanceAlone
<1> QED  BY <1>2, <1>8, <1>9, <1>10, <1>11, SlicesSuffice

(* A resource that is written gets labels that tell, over whatever labels  *)
(* the one it replaces had.                                                *)
LEMMA OverrideTells ==
  ASSUME NEW f, NEW g, NEW uid, NEW type, Tells(g, uid, type)
  PROVE  Tells(L!Override(f, g), uid, type)
<1>1. \A k \in DOMAIN g : k \in DOMAIN L!Override(f, g) /\ L!Override(f, g)[k] = g[k]
  BY DEF L!Override
<1> QED  BY <1>1 DEF Tells, Names, OwnerKeys

LEMMA WriteLabelsTold ==
  ASSUME LabelsInv, TypeInv', NEW w \in Workers, WriteLabels(w)
  PROVE  LabelsInv'
<1> DEFINE t == rc[w]
           x == Rendered(t)
           i == Identity(x)
           o == ownershipLabels[w]
           applied == L!ApplyMetaOptions(L!NoLabels, o)
           u == [t EXCEPT !.pc = IF Len(t.items) = 1 THEN "batches" ELSE "applyGet",
                          !.items = Tail(@), !.found = FALSE]
<1>1. /\ TypeInv /\ t \in Reconcile /\ t.pc = "applyWrite" /\ t.items # <<>>
      /\ t.items \in Seq(Item)
  BY DEF LabelsInv, TypeInv, TypeOK, WellFormed, WriteLabels, ApplyWrite, Reconcile
<1>2. Slice(w, o) /\ Reply(w, u)  BY DEF WriteLabels, ApplyWrite
<1>3. u.items = Tail(t.items) /\ u.comp = t.comp /\ u.tgt = t.tgt  BY <1>1 DEF Reconcile
<1> HIDE DEF u
<1>4. SliceFor(UidOf(t), o) /\ Len(o) > 4 /\ \A j \in DOMAIN t.items : t.items[j].mode = o[Len(o)].value
  BY <1>1 DEF LabelsInv, Slices, InExportService, TypeIsLast
<1>5. 1 \in DOMAIN t.items /\ Head(t.items) = t.items[1]
      /\ \A j \in DOMAIN Tail(t.items) :
           j + 1 \in DOMAIN t.items /\ Tail(t.items)[j] = t.items[j + 1]
  <2>1. Len(t.items) \in Nat \ {0}  BY <1>1, EmptySeq
  <2>2. /\ Tail(t.items) \in Seq(Item) /\ Len(Tail(t.items)) = Len(t.items) - 1
        /\ \A j \in 1 .. Len(Tail(t.items)) : Tail(t.items)[j] = t.items[j + 1]
    BY <1>1, HeadTailProperties
  <2>3. DOMAIN t.items = 1 .. Len(t.items)
        /\ DOMAIN Tail(t.items) = 1 .. Len(Tail(t.items))
    BY <1>1, <2>2
  <2> QED  BY <1>1, <2>1, <2>2, <2>3
<1>6. x.owner = UidOf(t) /\ x.type = o[Len(o)].value
  BY <1>4, <1>5 DEF Rendered, ExportType
<1>7. Tells(applied, x.owner, x.type)  BY <1>4, <1>6, SliceTells
<1>8. \A v \in Workers : Slices(v)'
  <2>1. \A v \in Workers \ {w} : OnlyAges(v)  BY <1>1, <1>2, ReplyAlone
  <2>2. rc'[w] = u \/ ~InExportService(rc'[w])  BY <1>1, <1>2, ReplyAlone
  <2>3. UidOf(u) = UidOf(t)  BY <1>3 DEF UidOf
  <2>4. TypeIsLast(u, o)  BY <1>3, <1>4, <1>5 DEF TypeIsLast
  <2>5. Slices(w)'  BY <1>2, <1>4, <2>2, <2>3, <2>4, SliceAlone DEF Slices
  <2> QED  BY <1>2, <2>1, <2>5, SliceAlone, OthersSlices
<1>9. ownershipLabels' = [v \in Workers |-> ownershipLabels'[v]]  BY <1>2, SliceAlone
<1>10. Unique' /\ DOMAIN labels' = {Identity(r) : r \in res'}
       /\ \A r \in res' : Tells(labels'[Identity(r)], r.owner, r.type)
  <2>1. CASE ~Writes(t)
    <3>1. res' = res /\ labels' = labels  BY <2>1 DEF WriteLabels, ApplyWrite
    <3> QED  BY <3>1 DEF LabelsInv, Unique
  <2>2. CASE Writes(t)
    <3> DEFINE new == [j \in {i} |-> L!Override(Stored(i), applied)]
    <3>1. res' = (res \ Occupants(t)) \cup {x}  BY <2>2 DEF WriteLabels, ApplyWrite
    <3>2. labels' = L!Override(labels, new)  BY <2>2 DEF WriteLabels
    <3>3. \A r \in res' : r = x \/ (r \in res /\ Identity(r) # i)
      BY <3>1 DEF Occupants
    <3>4. \A r \in res : Identity(r) = i \/ r \in res'
      BY <3>1 DEF Occupants
    <3>5. x \in res'  BY <3>1
    <3>6. Tells(L!Override(Stored(i), applied), x.owner, x.type)  BY <1>7, OverrideTells
    <3> HIDE DEF x, i, applied
    <3>7. /\ DOMAIN labels' = DOMAIN labels \cup {i}
          /\ labels'[i] = L!Override(Stored(i), applied)
          /\ \A j \in DOMAIN labels \ {i} : labels'[j] = labels[j]
      BY <3>2 DEF L!Override
    <3>8. i = Identity(x)  BY DEF i
    <3>9. Unique'  BY <3>3, <3>8 DEF LabelsInv, Unique
    <3>10. DOMAIN labels' = {Identity(r) : r \in res'}
      BY <3>3, <3>4, <3>5, <3>7, <3>8 DEF LabelsInv
    <3>11. \A r \in res' : Tells(labels'[Identity(r)], r.owner, r.type)
      BY <3>3, <3>6, <3>7, <3>8 DEF LabelsInv
    <3> QED  BY <3>9, <3>10, <3>11
  <2> QED  BY <2>1, <2>2
<1> QED  BY <1>8, <1>9, <1>10 DEF LabelsInv

(* What has one of the requested types on its label is what was made for   *)
(* one of them.                                                            *)
LEMMA FoundByLabels ==
  ASSUME LabelsInv, NEW w \in Workers, NEW k \in Kinds
  PROVE  LET found == {i \in DOMAIN labels : i.kind = k /\ MatchesTypes(rc[w], labels[i])}
         IN  /\ {r \in res : Identity(r) \in found} = Selected(rc[w], k)
             /\ found = {Identity(r) : r \in Selected(rc[w], k)}
<1> DEFINE t == rc[w]
           found == {i \in DOMAIN labels : i.kind = k /\ MatchesTypes(t, labels[i])}
<1>1. DOMAIN labels = {Identity(r) : r \in res}  BY DEF LabelsInv
<1>2. ASSUME NEW r \in res
      PROVE  Identity(r) \in found <=> r \in Selected(t, k)
  <2>1. Tells(labels[Identity(r)], r.owner, r.type)  BY DEF LabelsInv
  <2>2. MatchesTypes(t, labels[Identity(r)]) <=> r.type \in SelectedTypes(t)
    BY <2>1, MatchesByType
  <2>3. Identity(r).kind = r.kind  BY DEF Identity
  <2>4. Identity(r) \in DOMAIN labels  BY <1>1
  <2> QED  BY <2>2, <2>3, <2>4 DEF Selected
<1>3. found \subseteq {Identity(r) : r \in res}  BY <1>1
<1>4. Selected(t, k) \subseteq res  BY DEF Selected
<1> HIDE DEF found
<1>5. {r \in res : Identity(r) \in found} = Selected(t, k)  BY <1>2, <1>4
<1>6. found = {Identity(r) : r \in Selected(t, k)}  BY <1>2, <1>3, <1>4
<1> QED  BY <1>5, <1>6 DEF found

LEMMA DeletesTheSame ==
  ASSUME LabelsInv, NEW w \in Workers, NEW k \in Kinds, DeleteByLabels(w, k)
  PROVE  deleteOwnedResources(w, k)
  BY FoundByLabels DEF DeleteByLabels, deleteOwnedResources

LEMMA DeleteByLabelsTold ==
  ASSUME LabelsInv, TypeInv', NEW w \in Workers, NEW k \in Kinds, DeleteByLabels(w, k)
  PROVE  LabelsInv'
<1> DEFINE gone == Selected(rc[w], k)
           found == {i \in DOMAIN labels : i.kind = k /\ MatchesTypes(rc[w], labels[i])}
<1>1. TypeInv  BY DEF LabelsInv
<1>2. Slice(w, <<>>) /\ deleteOwnedResources(w, k)  BY DeletesTheSame DEF DeleteByLabels
<1>3. ~InExportService(rc'[w]) /\ \A v \in Workers \ {w} : OnlyAges(v)
  BY <1>1, <1>2, OutsideEnds DEF Outside
<1>4. \A v \in Workers : Slices(v)'
  BY <1>2, <1>3, SliceAlone, OthersSlices DEF Slices
<1>5. ownershipLabels' = [v \in Workers |-> ownershipLabels'[v]]  BY <1>2, SliceAlone
<1>6. res' = res \ gone  BY <1>2 DEF deleteOwnedResources, DeleteAllOf
<1>7. labels' = [i \in DOMAIN labels \ found |-> labels[i]]  BY DEF DeleteByLabels
<1>8. found = {Identity(r) : r \in gone} /\ gone \subseteq res
  BY FoundByLabels DEF Selected
<1> HIDE DEF found, gone
<1>9. Unique /\ Unique'  BY <1>6 DEF LabelsInv, Unique
<1>10. \A r \in res : Identity(r) \in found <=> r \in gone
  BY <1>8, <1>9 DEF Unique
<1>11. DOMAIN labels' = DOMAIN labels \ found /\ \A i \in DOMAIN labels' : labels'[i] = labels[i]
  BY <1>7
<1>12. DOMAIN labels' = {Identity(r) : r \in res'}
  BY <1>6, <1>10, <1>11 DEF LabelsInv
<1>13. \A r \in res' : Tells(labels'[Identity(r)], r.owner, r.type)
  BY <1>6, <1>11, <1>12 DEF LabelsInv
<1> QED  BY <1>4, <1>5, <1>9, <1>12, <1>13 DEF LabelsInv

LEMMA OthersTold ==
  ASSUME LabelsInv, TypeInv', UNCHANGED <<res, ownershipLabels, labels>>,
         \A v \in Workers : OnlyAges(v)
  PROVE  LabelsInv'
<1>1. \A v \in Workers : Slices(v)'  BY OthersSlices
<1>2. Unique'  BY DEF LabelsInv, Unique
<1>3. ownershipLabels' = [v \in Workers |-> ownershipLabels'[v]]  BY DEF LabelsInv
<1>4. DOMAIN labels' = {Identity(r) : r \in res'}  BY DEF LabelsInv
<1>5. \A r \in res' : Tells(labels'[Identity(r)], r.owner, r.type)  BY DEF LabelsInv
<1> QED  BY <1>1, <1>2, <1>3, <1>4, <1>5 DEF LabelsInv

(* A step with labels is a step of RoutingController as long as the labels *)
(* are right: only then does a deletion by labels find what it should.     *)
LEMMA StepOfNext ==
  ASSUME LabelsInv, [LabelsNext]_labelVars
  PROVE  [Next]_vars
<1>1. ASSUME NEW w \in Workers, StartSlice(w) \/ WriteLabels(w) \/ Elsewhere(w) PROVE Next
  BY <1>1 DEF StartSlice, WriteLabels, Elsewhere, Next, Step
<1>2. ASSUME NEW w \in Workers, NEW b \in rc[w].batches, GrowSlice(w, b) PROVE Next
  BY <1>2 DEF GrowSlice, Next, Step
<1>3. ASSUME NEW w \in Workers, NEW k \in Kinds, DeleteByLabels(w, k) PROVE Next
  BY <1>3, DeletesTheSame DEF Next, Step
<1> QED  BY <1>1, <1>2, <1>3 DEF LabelsNext, labelVars, Next

LEMMA NextLabels == LabelsInv /\ [LabelsNext]_labelVars => LabelsInv'
<1> SUFFICES ASSUME LabelsInv, [LabelsNext]_labelVars  PROVE LabelsInv'  OBVIOUS
<1>1. TypeInv /\ DOMAIN rc = Workers  BY DEF LabelsInv, TypeInv, TypeOK
<1>2. TypeInv'  BY <1>1, StepOfNext, NextType
<1>3. ASSUME NEW w \in Workers, StartSlice(w) \/ WriteLabels(w) \/ Elsewhere(w)
      PROVE  LabelsInv'
  BY <1>2, <1>3, StartSliceTold, WriteLabelsTold, ElsewhereTold
<1>4. ASSUME NEW w \in Workers, NEW b \in rc[w].batches, GrowSlice(w, b)
      PROVE  LabelsInv'
  BY <1>2, <1>4, GrowSliceTold
<1>5. ASSUME NEW w \in Workers, NEW k \in Kinds, DeleteByLabels(w, k)
      PROVE  LabelsInv'
  BY <1>2, <1>5, DeleteByLabelsTold
<1>6. ASSUME NEW c \in Components, User(c), UNCHANGED <<ownershipLabels, labels>>
      PROVE  LabelsInv'
  <2>1. UNCHANGED res /\ rc' = Invalidated(c)
    BY <1>6 DEF User, CreateCR, SetExportModes, TouchCR, DeleteCR, UserWrite
  <2>2. \A v \in Workers : OnlyAges(v)  BY <2>1 DEF Invalidated, OnlyAges
  <2> QED  BY <1>2, <1>6, <2>1, <2>2, OthersTold
<1>7. ASSUME UNCHANGED <<rc, res, ownershipLabels, labels>>
      PROVE  LabelsInv'
  BY <1>2, <1>7, OthersTold DEF OnlyAges
<1> QED
  BY <1>3, <1>4, <1>5, <1>6, <1>7
  DEF LabelsNext, ServiceOwner, ChangeService, RemoveService, labelVars, vars

LEMMA InitLabels == LabelsInit => LabelsInv
<1> SUFFICES ASSUME LabelsInit PROVE LabelsInv  OBVIOUS
<1>1. Init  BY DEF LabelsInit
<1>2. \A w \in Workers : rc[w].pc = "idle"  BY <1>1, IdleWellFormed DEF Init
<1>3. \A w \in Workers : Slices(w)  BY <1>2 DEF Slices, InExportService
<1>4. res = {} /\ DOMAIN labels = {}  BY <1>1 DEF Init, LabelsInit, L!NoLabels
<1>5. ownershipLabels = [w \in Workers |-> ownershipLabels[w]]  BY DEF LabelsInit
<1> QED  BY <1>1, <1>3, <1>4, <1>5, InitType DEF LabelsInv, Unique

(* The labels of every resource in the gateway namespace tell its owner    *)
(* and the mode it was made for, and only there are labels: for any        *)
(* services, modes and managers, whatever exports, failures, crashes and   *)
(* namesakes there were.                                                   *)
THEOREM LabelsAreTrue == LabelsSpec => []LabelsTell
<1> QED  BY InvTells, InitLabels, NextLabels, PTL DEF LabelsSpec

(* The program with its labels does what RoutingController says, which     *)
(* speaks of owners and types and knows no labels: the deletions, which    *)
(* see labels only, find what the records would have them find (the other  *)
(* steps add to those of RoutingController).  So everything proved about   *)
(* RoutingController holds of the program with labels.                     *)
THEOREM LabelsImplement == LabelsSpec => Spec
<1>1. LabelsInit => Init  BY DEF LabelsInit
<1>2. LabelsInv /\ [LabelsNext]_labelVars => [Next]_vars  BY StepOfNext
<1> QED  BY <1>1, <1>2, InitLabels, NextLabels, PTL DEF LabelsSpec, Spec
===============================================================================
