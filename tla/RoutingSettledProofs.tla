-------------------------- MODULE RoutingSettledProofs --------------------------
(***************************************************************************)
(* What the routing controller has achieved when nothing is queued or in   *)
(* hand any more, for every set of components, workers and services and    *)
(* for every bound: no resource of a disabled mode is left, no deletion is *)
(* abandoned, and the address annotations are those of the enabled modes.  *)
(*                                                                         *)
(* Nothing here needs the workers to be apart: two managers may overlap.   *)
(* The argument is that a reconcile whose object is not queued again works *)
(* on what the object says now, and that whatever is still to be done is   *)
(* on some worker's list until it is done.                                 *)
(***************************************************************************)
EXTENDS RoutingProtocolProofs

(* Each watched name is reconciled by some worker.                         *)
Watched == \A c \in Components : \E w \in Workers : c \in Handles[w]

-------------------------------------------------------------------------------
(* What a reconcile knows.                                                 *)

(* Unless its object is queued again, a reconcile holds the object as it   *)
(* is, but for what it is about to write itself.                           *)
Informed(w) ==
  LET t == rc[w]
      c == t.comp
  IN t.pc # "idle" /\ c \notin queue[w] =>
       /\ t.tgt.inc = cr[c].inc
       /\ t.tgt.phase = cr[c].phase
       /\ t.tgt.exports = cr[c].exports
       /\ cr[c].phase = IF t.pc \in Deleting THEN "terminating" ELSE "live"
       /\ t.pc = "patchSend" =>
            \A m \in AllRouteTypes \ t.diff : t.tgt.addr[m] = cr[c].addr[m]

OfOneService(E) == \A e, f \in E : e.svc = f.svc

Fitting(t) ==
  /\ \A m \in AllRouteTypes \ Modes(t) : t.tgt.addr[m] = {}
  /\ \A m, n \in Modes(t) : t.tgt.addr[m] = t.tgt.addr[n]
  /\ \A m \in Modes(t) : OfOneService(t.tgt.addr[m])

(* What is exported is of an enabled mode, and unless an error was met the *)
(* addresses about to be patched are those of the enabled modes.           *)
Shape(t) ==
  /\ t.pc = "idle" => t.comp = NoComponent
  /\ t.pc \in {"finalizer", "finalizerSend"} => t.batches = {} /\ t.items = <<>>
  /\ \A b \in t.batches : b.mode \in Modes(t)
  /\ \A i \in DOMAIN t.items : t.items[i].mode \in Modes(t)
  /\ t.pc \in {"batches", "applyGet", "applyWrite"} => OfOneService(t.exporting)
  /\ t.pc \in {"patch", "patchSend"} => t.err \/ Fitting(t)
  /\ t.pc = "services" => t.err \/ t.pending # {} \/ Fitting(t)

Assigned(w) ==
  /\ queue[w] \subseteq Handles[w]
  /\ rc[w].pc # "idle" => rc[w].comp \in Handles[w]

Knows(w) == Assigned(w) /\ Rendering(w) /\ Informed(w) /\ Shape(rc[w])

KnownInv == TypeInv /\ Made /\ \A w \in Workers : Knows(w)

-------------------------------------------------------------------------------
(* What is still to be done, and who will do it.                           *)

Unwanted(r) ==
  LET c == r.owner.comp
  IN /\ cr[c].inc = r.owner.inc
     /\ cr[c].phase = "live"
     /\ r.type \notin EnabledModes(c)

(* w is going to delete r, or to come back because it could not.           *)
Attends(w, r) ==
  LET t == rc[w]
      c == r.owner.comp
  IN \/ c \in queue[w]
     \/ /\ t.pc # "idle" /\ t.comp = c
        /\ \/ t.err
           \/ t.pc \in {"finalizer", "finalizerSend"}
           \/ t.pc = "prune" /\ r.kind \in t.kinds

Fine(c) ==
  /\ cr[c].phase = "live" => AddressesFit(c)
  /\ cr[c].phase = "terminating" => EnabledModes(c) = {}

UnusedAttended ==
  \A r \in res : Unwanted(r) => \E w \in Workers : Attends(w, r)

SettledFine == \A c \in Components : Settled(c) => Fine(c)

SettledInv == KnownInv /\ UnusedAttended /\ SettledFine

-------------------------------------------------------------------------------
(* What a step does to all that.                                           *)

Busy(w, c) == c \in queue[w] \/ rc[w].comp = c

(* An object that changes is queued wherever it is reconciled.             *)
Told == \A c \in Components :
  cr'[c] = cr[c] \/ \A w \in Workers : c \in Handles[w] => c \in queue'[w]

(* Of an object that does not change, w drops nothing that is not done.    *)
Minds(w) == \A c \in Components : cr'[c] = cr[c] =>
  /\ Busy(w, c) => Busy(w, c)' \/ Fine(c)
  /\ \A r \in res' : r \in res /\ r.owner.comp = c /\ Unwanted(r) /\ Attends(w, r)
                       => Attends(w, r)'

(* A resource made for outdated modes is made by a worker that comes back. *)
Added == \A r \in res' : r \in res \/
  (Unwanted(r)' => \E w \in Workers : r.owner.comp \in queue'[w])

Sound == Told /\ Added /\ Made' /\ \A w \in Workers : Knows(w)' /\ Minds(w)

(* A worker that does not move.                                            *)
Rests(w) ==
  /\ rc'[w] = rc[w] \/ rc'[w] = [rc[w] EXCEPT !.fresh = FALSE]
  /\ queue[w] \subseteq queue'[w]
  /\ queue'[w] \subseteq Handles[w]

LEMMA TypesKnown ==
  ASSUME KnownInv
  PROVE  /\ TypeInv
         /\ \A w \in Workers : /\ Knows(w) /\ WellFormed(rc[w]) /\ rc[w] \in Reconcile
                               /\ queue[w] \subseteq Handles[w]
                               /\ queue[w] \subseteq Components
                               /\ rc[w].pc # "idle" => /\ rc[w].comp \in Handles[w]
                                                       /\ rc[w].comp \in Components
                               /\ rc[w].pc = "idle" => rc[w].comp = NoComponent
         /\ \A c \in Components : cr[c] \in Object
         /\ \A r \in res : r \in Resource /\ r.owner \in Uid /\ r.owner.comp \in Components
  BY DEF KnownInv, Knows, Assigned, Shape, TypeInv, TypeOK, Resource, Uid

LEMMA RestsKept ==
  ASSUME KnownInv, Told, NEW w \in Workers, Rests(w)
  PROVE  Knows(w)' /\ Minds(w)
<1> DEFINE t == rc[w]
           u == rc'[w]
           c == t.comp
<1>1. t \in Reconcile /\ Knows(w)  BY TypesKnown
<1>2. /\ u.pc = t.pc /\ u.comp = t.comp /\ u.tgt = t.tgt /\ u.err = t.err
      /\ u.kinds = t.kinds /\ u.pending = t.pending /\ u.exporting = t.exporting
      /\ u.batches = t.batches /\ u.items = t.items /\ u.diff = t.diff
  BY <1>1 DEF Rests, Reconcile
<1>3. Assigned(w)'  BY <1>1, <1>2 DEF Rests, Knows, Assigned
<1>4. Rendering(w)'  BY <1>1, <1>2 DEF Knows, Rendering
<1>5. Informed(w)'
  <2> SUFFICES ASSUME t.pc # "idle", c \notin queue'[w]  PROVE Informed(w)'
    BY <1>2 DEF Informed
  <2>1. c \in Components /\ c \in Handles[w] /\ c \notin queue[w]
    BY TypesKnown DEF Rests
  <2>2. cr'[c] = cr[c]  BY <2>1 DEF Told
  <2>3. Informed(w)  BY <1>1 DEF Knows
  <2> QED  BY <1>2, <2>1, <2>2, <2>3 DEF Informed
<1>6. Shape(u)
  <2>1. Shape(t)  BY <1>1 DEF Knows
  <2>2. Modes(u) = Modes(t)  BY <1>2 DEF Modes
  <2>3. Fitting(t) => Fitting(u)  BY <1>2, <2>2 DEF Fitting
  <2> QED  BY <1>2, <2>1, <2>2, <2>3 DEF Shape
<1>7. Minds(w)
  BY <1>2 DEF Rests, Minds, Busy, Attends
<1> QED  BY <1>3, <1>4, <1>5, <1>6, <1>7 DEF Knows

LEMMA Sums ==
  ASSUME KnownInv, Told, Added, Made', NEW w \in Workers,
         \A v \in Workers \ {w} : Rests(v), Knows(w)', Minds(w)
  PROVE  Sound
<1>1. \A v \in Workers \ {w} : Knows(v)' /\ Minds(v)  BY RestsKept
<1> QED  BY <1>1 DEF Sound

(* What is known tells that nothing is forgotten.                          *)
LEMMA SettledKept ==
  ASSUME SettledInv, Watched, TypeInv', Sound
  PROVE  SettledInv'
<1>1. KnownInv'  BY DEF Sound, KnownInv
<1>2. ASSUME NEW c \in Components, cr'[c] # cr[c]
      PROVE  \E w \in Workers : c \in queue'[w]
  BY <1>2 DEF Watched, Sound, Told
<1>3. UnusedAttended'
  <2> SUFFICES ASSUME NEW r \in res', Unwanted(r)'
               PROVE  \E w \in Workers : Attends(w, r)'
    BY DEF UnusedAttended
  <2> DEFINE c == r.owner.comp
  <2>1. c \in Components  BY DEF TypeInv, TypeOK, Resource, Uid
  <2>2. CASE cr'[c] # cr[c]
    BY <1>2, <2>1, <2>2 DEF Attends
  <2>3. CASE r \notin res
    BY <2>3 DEF Sound, Added, Attends
  <2>4. CASE cr'[c] = cr[c] /\ r \in res
    <3>1. Unwanted(r)  BY <2>4 DEF Unwanted, EnabledModes
    <3>2. PICK w \in Workers : Attends(w, r)
      BY <2>4, <3>1 DEF SettledInv, UnusedAttended
    <3> QED  BY <2>1, <2>4, <3>1, <3>2 DEF Sound, Minds
  <2> QED  BY <2>2, <2>3, <2>4
<1>4. SettledFine'
  <2> SUFFICES ASSUME NEW c \in Components, Settled(c)'  PROVE Fine(c)'
    BY DEF SettledFine
  <2>1. cr'[c] = cr[c]  BY <1>2 DEF Settled
  <2>2. Fine(c) => Fine(c)'  BY <2>1 DEF Fine, AddressesFit, EnabledModes
  <2>3. CASE Settled(c)
    BY <2>2, <2>3 DEF SettledInv, SettledFine
  <2>4. CASE ~Settled(c)
    <3>1. PICK w \in Workers : Busy(w, c)  BY <2>4 DEF Settled, Busy
    <3>2. ~Busy(w, c)'  BY DEF Settled, Busy
    <3> QED  BY <2>1, <2>2, <3>1, <3>2 DEF Sound, Minds
  <2> QED  BY <2>3, <2>4
<1> QED  BY <1>1, <1>3, <1>4 DEF SettledInv

-------------------------------------------------------------------------------
(* The ways a worker moves on that leave the objects alone.                *)

(* A resource is made by worker w for its own object.                      *)
Fresh(w) == \A r \in res' : r \in res \/
  /\ r.owner.comp = rc[w].comp
  /\ Unwanted(r) => rc[w].comp \in queue[w]

LEMMA Unchanged ==
  ASSUME KnownInv, UNCHANGED cr, NEW w \in Workers, Fresh(w),
         \A v \in Workers : queue[v] \subseteq queue'[v]
  PROVE  Told /\ Added /\ \A r : Unwanted(r)' = Unwanted(r)
<1>1. \A r : Unwanted(r)' = Unwanted(r)  BY DEF Unwanted, EnabledModes
<1> QED  BY <1>1 DEF Told, Added, Fresh

LEMMA IdleKnows ==
  ASSUME NEW w \in Workers, rc'[w] = Idle, queue'[w] \subseteq Handles[w]
  PROVE  Knows(w)'
<1>1. /\ Idle.pc = "idle" /\ Idle.comp = NoComponent /\ Idle.items = <<>>
      /\ Idle.batches = {} /\ DOMAIN <<>> = {}
  BY DEF Idle
<1>2. Assigned(w)' /\ Rendering(w)' /\ Informed(w)'
  BY <1>1 DEF Assigned, Rendering, Informed
<1>3. Shape(Idle)  BY <1>1 DEF Shape
<1> QED  BY <1>2, <1>3 DEF Knows

LEMMA ReturnErrorSound ==
  ASSUME KnownInv, NEW w \in Workers, rc[w].pc # "idle", ReturnError(w),
         UNCHANGED cr, Made', Fresh(w)
  PROVE  Sound
<1>1. rc'[w] = Idle /\ \A v \in Workers \ {w} : rc'[v] = rc[v]
  BY TypesKnown DEF ReturnError, Advance, TypeInv, TypeOK
<1>2. /\ queue'[w] = queue[w] \cup {rc[w].comp}
      /\ \A v \in Workers \ {w} : queue'[v] = queue[v]
  BY TypesKnown DEF ReturnError, TypeInv, TypeOK
<1>3. Told /\ Added  BY <1>2, Unchanged
<1>4. Knows(w)'  BY <1>1, <1>2, TypesKnown, IdleKnows
<1>5. Minds(w)  BY <1>2 DEF Minds, Busy, Attends
<1>6. \A v \in Workers \ {w} : Rests(v)  BY <1>1, <1>2, TypesKnown DEF Rests
<1> QED  BY <1>3, <1>4, <1>5, <1>6, Sums

(* Worker w goes on with its object, as u.                                 *)
Same(t, u) ==
  /\ t.pc # "idle" /\ u.pc # "idle" /\ u.comp = t.comp
  /\ u.tgt.inc = t.tgt.inc
  /\ u.tgt.phase = t.tgt.phase
  /\ u.tgt.exports = t.tgt.exports
  /\ u.pc \in Deleting <=> t.pc \in Deleting

(* It still attends to what it attended to.                                *)
Minding(w, u) == \A r \in res' :
  /\ r \in res /\ r.owner.comp = u.comp /\ Unwanted(r)
  /\ \/ rc[w].err
     \/ rc[w].pc \in {"finalizer", "finalizerSend"}
     \/ rc[w].pc = "prune" /\ r.kind \in rc[w].kinds
  /\ u.comp \notin queue[w]
  => u.err \/ u.pc \in {"finalizer", "finalizerSend"} \/ (u.pc = "prune" /\ r.kind \in u.kinds)

Renders(u) == \A i \in DOMAIN u.items : u.items[i].kind \in GVKs(u.items[i].mode)

Agrees(u) == u.pc = "patchSend" =>
  \A m \in AllRouteTypes \ u.diff : u.tgt.addr[m] = cr[u.comp].addr[m]

LEMMA GoesOnSound ==
  ASSUME KnownInv, NEW w \in Workers, NEW u, Advance(w, u), UNCHANGED <<cr, queue>>,
         Made', Fresh(w), Same(rc[w], u), Minding(w, u), Shape(u), Renders(u), Agrees(u)
  PROVE  Sound
<1> DEFINE t == rc[w]
           c == t.comp
<1>1. rc'[w] = u /\ \A v \in Workers \ {w} : rc'[v] = rc[v]
  BY TypesKnown DEF Advance, TypeInv, TypeOK
<1>2. Told /\ Added  BY Unchanged
<1>3. /\ u.comp = c /\ u.pc # "idle" /\ t.pc # "idle"
      /\ c \in Handles[w] /\ c \in Components
  BY TypesKnown DEF Same
<1>4. Knows(w)'
  <2>1. Assigned(w)'  BY <1>1, <1>3, TypesKnown DEF Assigned
  <2>2. Rendering(w)'  BY <1>1 DEF Rendering, Renders
  <2>3. Informed(w)  BY TypesKnown DEF Knows
  <2>4. Informed(w)'  BY <1>1, <2>3 DEF Informed, Same, Agrees
  <2> QED  BY <1>1, <2>1, <2>2, <2>4 DEF Knows
<1>5. Minds(w)
  BY <1>1, <1>3 DEF Minds, Minding, Busy, Attends
<1>6. \A v \in Workers \ {w} : Rests(v)  BY <1>1, TypesKnown DEF Rests
<1> QED  BY <1>2, <1>4, <1>5, <1>6, Sums

LEMMA OnErrorSound ==
  ASSUME KnownInv, NEW w \in Workers, OnError(w), UNCHANGED cr, Made', Fresh(w)
  PROVE  Sound
<1> DEFINE t == rc[w]
<1>1. t \in Reconcile /\ t.pc # "idle" /\ Knows(w)
  BY TypesKnown DEF OnError
<1>2. CASE ReturnError(w)
  BY <1>1, <1>2, ReturnErrorSound
<1>3. ASSUME NEW u \in Reconcile, Advance(w, RecordError(u)), UNCHANGED queue,
             t.pc \notin Deleting, u.comp = t.comp, u.tgt = t.tgt,
             u.pc \in {"create", "patch", "services"},
             u.batches \in {{}, t.batches}, u.items \in {<<>>, t.items}
      PROVE  Sound
  <2> DEFINE e == RecordError(u)
  <2>1. /\ e.comp = u.comp /\ e.tgt = u.tgt /\ e.pc = u.pc /\ e.items = u.items
        /\ e.batches = u.batches /\ e.err = TRUE
    BY <1>3 DEF RecordError, Reconcile
  <2> HIDE DEF e
  <2>2. Same(t, e)  BY <1>1, <1>3, <2>1 DEF Same, Deleting
  <2>3. Minding(w, e)  BY <2>1 DEF Minding
  <2>4. DOMAIN <<>> = {}  OBVIOUS
  <2>5. Shape(e)
    <3>1. Shape(t)  BY <1>1 DEF Knows
    <3>2. Modes(e) = Modes(t)  BY <1>3, <2>1 DEF Modes
    <3> QED  BY <1>3, <2>1, <2>4, <3>1, <3>2 DEF Shape
  <2>6. Renders(e)
    BY <1>1, <1>3, <2>1, <2>4 DEF Renders, Knows, Rendering
  <2>7. Agrees(e)  BY <1>3, <2>1 DEF Agrees
  <2> QED  BY <1>3, <2>2, <2>3, <2>5, <2>6, <2>7, GoesOnSound DEF e
<1>4. CASE /\ t.pc = "prune"
           /\ Advance(w, RecordError([t EXCEPT !.pc = "create", !.kinds = {}]))
           /\ UNCHANGED queue
  <2> DEFINE u == [t EXCEPT !.pc = "create", !.kinds = {}]
  <2>1. /\ u \in Reconcile /\ u.comp = t.comp /\ u.tgt = t.tgt /\ u.items = t.items
        /\ u.pc = "create" /\ u.batches = t.batches
    BY <1>1 DEF Reconcile, PCs
  <2> HIDE DEF u
  <2> QED  BY <1>3, <1>4, <2>1 DEF Deleting, u
<1>5. CASE /\ t.pc = "create"
           /\ Advance(w, RecordError([t EXCEPT !.pc = "patch"]))
           /\ UNCHANGED queue
  <2> DEFINE u == [t EXCEPT !.pc = "patch"]
  <2>1. /\ u \in Reconcile /\ u.comp = t.comp /\ u.tgt = t.tgt /\ u.items = t.items
        /\ u.pc = "patch" /\ u.batches = t.batches
    BY <1>1 DEF Reconcile, PCs
  <2> HIDE DEF u
  <2> QED  BY <1>3, <1>5, <2>1 DEF Deleting, u
<1>6. CASE /\ t.pc \in {"applyGet", "applyWrite"}
           /\ Advance(w, RecordError([t EXCEPT !.pc = "services", !.exporting = {},
                                               !.batches = {}, !.items = <<>>,
                                               !.found = FALSE]))
           /\ UNCHANGED queue
  <2> DEFINE u == [t EXCEPT !.pc = "services", !.exporting = {}, !.batches = {},
                            !.items = <<>>, !.found = FALSE]
  <2>1. <<>> \in Seq(Item)  OBVIOUS
  <2>2. /\ u \in Reconcile /\ u.comp = t.comp /\ u.tgt = t.tgt /\ u.items = <<>>
        /\ u.pc = "services" /\ u.batches = {}
    BY <1>1, <2>1 DEF Reconcile, PCs
  <2> HIDE DEF u
  <2> QED  BY <1>3, <1>6, <2>2 DEF Deleting, u
<1> QED  BY <1>2, <1>4, <1>5, <1>6 DEF OnError

-------------------------------------------------------------------------------
(* The actions, one by one.  First those that only move a worker on.       *)

LEMMA SameRes ==
  ASSUME KnownInv, NEW w \in Workers, UNCHANGED res
  PROVE  Made' /\ Fresh(w)
  BY DEF KnownInv, Made, Fresh

LEMMA LocalSound ==
  ASSUME KnownInv, NEW w \in Workers, NEW u, Advance(w, u),
         UNCHANGED <<cr, res, queue>>,
         rc[w].pc \in Working \ {"prune"}, u.pc \in Working \ {"prune", "patchSend"},
         u.comp = rc[w].comp, u.tgt.inc = rc[w].tgt.inc,
         u.tgt.phase = rc[w].tgt.phase, u.tgt.exports = rc[w].tgt.exports,
         rc[w].err => u.err, Shape(u), Renders(u)
  PROVE  Sound
<1>1. Same(rc[w], u)  BY DEF Same, Working, Deleting
<1>2. Minding(w, u)  BY DEF Minding, Working
<1>3. Agrees(u)  BY DEF Agrees
<1> QED  BY <1>1, <1>2, <1>3, SameRes, GoesOnSound

LEMMA PatchGetSound ==
  ASSUME KnownInv, NEW w \in Workers, PatchGet(w)
  PROVE  Sound
<1> DEFINE t == rc[w]
           c == t.comp
           u == [t EXCEPT
                  !.pc = IF t.pc = "finalizer" THEN "finalizerSend" ELSE "patchSend",
                  !.diff = {m \in AllRouteTypes : t.tgt.addr[m] # cr[c].addr[m]}]
<1>1. t \in Reconcile /\ t.pc \in {"finalizer", "patch"} /\ t.pc # "idle" /\ Knows(w)
  BY TypesKnown DEF PatchGet
<1>2. UNCHANGED <<cr, res>>  BY DEF PatchGet
<1>3. /\ u.comp = c /\ u.tgt = t.tgt /\ u.items = t.items /\ u.batches = t.batches
      /\ u.err = t.err
      /\ u.pc = IF t.pc = "finalizer" THEN "finalizerSend" ELSE "patchSend"
      /\ u.diff = {m \in AllRouteTypes : t.tgt.addr[m] # cr[c].addr[m]}
  BY <1>1 DEF Reconcile
<1> HIDE DEF u
<1>4. CASE ReturnError(w)
  BY <1>1, <1>2, <1>4, SameRes, ReturnErrorSound
<1>5. CASE Advance(w, u) /\ UNCHANGED queue
  <2>1. Same(t, u)  BY <1>1, <1>3 DEF Same, Deleting
  <2>2. Minding(w, u)  BY <1>1, <1>3 DEF Minding
  <2>3. Shape(t)  BY <1>1 DEF Knows
  <2>4. Modes(u) = Modes(t)  BY <1>3 DEF Modes
  <2>5. Fitting(t) => Fitting(u)  BY <1>3, <2>4 DEF Fitting
  <2>6. Shape(u)  BY <1>1, <1>3, <2>3, <2>4, <2>5 DEF Shape
  <2>7. Renders(u)  BY <1>1, <1>3 DEF Renders, Knows, Rendering
  <2>8. Agrees(u)  BY <1>3 DEF Agrees
  <2> QED  BY <1>2, <1>5, <2>1, <2>2, <2>6, <2>7, <2>8, SameRes, GoesOnSound
<1> QED  BY <1>4, <1>5 DEF PatchGet, u

LEMMA ListServicesSound ==
  ASSUME KnownInv, NEW w \in Workers, ListServices(w)
  PROVE  Sound
<1> DEFINE t == rc[w]
           u1 == NoneExported(t)
           u2 == RecordError([t EXCEPT !.pc = "patch"])
           u3 == [t EXCEPT !.pc = "services", !.pending = Listed(t.comp)]
<1>1. /\ t \in Reconcile /\ t.pc = "create" /\ t.pc \in Working \ {"prune"}
      /\ Shape(t) /\ Renders(t)
  BY TypesKnown DEF ListServices, Working, Knows, Rendering, Renders
<1>2. UNCHANGED <<cr, res, queue>>  BY DEF ListServices
<1>3. CASE Modes(t) = {} /\ Advance(w, u1)
  <2>1. /\ u1.comp = t.comp /\ u1.tgt.inc = t.tgt.inc /\ u1.tgt.phase = t.tgt.phase
        /\ u1.tgt.exports = t.tgt.exports /\ u1.tgt.addr = NoAddresses
        /\ u1.items = t.items /\ u1.batches = t.batches /\ u1.err = t.err /\ u1.pc = "patch"
    BY <1>1 DEF Reconcile, Object, NoneExported
  <2> HIDE DEF u1
  <2>2. Modes(u1) = Modes(t)  BY <2>1 DEF Modes
  <2>3. Fitting(u1)  BY <1>3, <2>1, <2>2 DEF Fitting, NoAddresses
  <2>4. Shape(u1)  BY <1>1, <2>1, <2>2, <2>3 DEF Shape
  <2>5. Renders(u1)  BY <1>1, <2>1 DEF Renders
  <2> QED  BY <1>1, <1>2, <1>3, <2>1, <2>4, <2>5, LocalSound DEF Working
<1>4. CASE Advance(w, u2)
  <2>1. /\ u2.comp = t.comp /\ u2.tgt = t.tgt /\ u2.items = t.items
        /\ u2.batches = t.batches /\ u2.err = TRUE /\ u2.pc = "patch"
    BY <1>1 DEF Reconcile, RecordError
  <2> HIDE DEF u2
  <2>2. Modes(u2) = Modes(t)  BY <2>1 DEF Modes
  <2>3. Shape(u2)  BY <1>1, <2>1, <2>2 DEF Shape
  <2>4. Renders(u2)  BY <1>1, <2>1 DEF Renders
  <2> QED  BY <1>1, <1>2, <1>4, <2>1, <2>3, <2>4, LocalSound DEF Working
<1>5. CASE Listed(t.comp) # {} /\ Advance(w, u3)
  <2>1. /\ u3.comp = t.comp /\ u3.tgt = t.tgt /\ u3.items = t.items
        /\ u3.batches = t.batches /\ u3.err = t.err /\ u3.pc = "services"
        /\ u3.pending # {}
    BY <1>1, <1>5 DEF Reconcile
  <2> HIDE DEF u3
  <2>2. Modes(u3) = Modes(t)  BY <2>1 DEF Modes
  <2>3. Shape(u3)  BY <1>1, <2>1, <2>2 DEF Shape
  <2>4. Renders(u3)  BY <1>1, <2>1 DEF Renders
  <2> QED  BY <1>1, <1>2, <1>5, <2>1, <2>3, <2>4, LocalSound DEF Working
<1> QED  BY <1>3, <1>4, <1>5 DEF ListServices

LEMMA ExportNextSound ==
  ASSUME KnownInv, NEW w \in Workers, ExportNext(w)
  PROVE  Sound
<1> DEFINE t == rc[w]
<1>1. /\ t \in Reconcile /\ t.pc = "services" /\ t.pc \in Working \ {"prune"}
      /\ Shape(t) /\ Renders(t)
  BY TypesKnown DEF ExportNext, Working, Knows, Rendering, Renders
<1>2. UNCHANGED <<cr, res, queue>>  BY DEF ExportNext
<1>3. CASE t.pending = {} /\ Advance(w, [t EXCEPT !.pc = "patch"])
  <2> DEFINE u == [t EXCEPT !.pc = "patch"]
  <2>1. /\ u.comp = t.comp /\ u.tgt = t.tgt /\ u.items = t.items
        /\ u.batches = t.batches /\ u.err = t.err /\ u.pc = "patch"
    BY <1>1 DEF Reconcile
  <2>2. Advance(w, u)  BY <1>3
  <2> HIDE DEF u
  <2>3. Modes(u) = Modes(t)  BY <2>1 DEF Modes
  <2>4. Fitting(t) => Fitting(u)  BY <2>1, <2>3 DEF Fitting
  <2>5. Shape(u)  BY <1>1, <1>3, <2>1, <2>3, <2>4 DEF Shape
  <2>6. Renders(u)  BY <1>1, <2>1 DEF Renders
  <2> QED  BY <1>1, <1>2, <2>1, <2>2, <2>5, <2>6, LocalSound DEF Working
<1>4. ASSUME NEW s \in t.pending, Advance(w, Exporting(t, s))
      PROVE  Sound
  <2> DEFINE ports == Endpoints(s)
             u == Exporting(t, s)
  <2>1. OfOneService(ports)  BY DEF Endpoints, OfOneService
  <2> HIDE DEF ports
  <2>2. /\ u.comp = t.comp /\ u.tgt = t.tgt /\ u.items = t.items /\ u.exporting = ports
        /\ u.batches = {[mode |-> m, backend |-> e] : m \in Modes(t), e \in ports}
        /\ u.err = t.err /\ u.pc = "batches"
    BY <1>1 DEF Reconcile, Exporting, ports
  <2>3. Advance(w, u)  BY <1>4
  <2> HIDE DEF u
  <2>4. Modes(u) = Modes(t)  BY <2>2 DEF Modes
  <2>5. \A b \in u.batches : b.mode \in Modes(u)  BY <2>2, <2>4
  <2>6. Shape(u)  BY <1>1, <2>1, <2>2, <2>4, <2>5 DEF Shape
  <2>7. Renders(u)  BY <1>1, <2>2 DEF Renders
  <2> QED  BY <1>1, <1>2, <2>2, <2>3, <2>6, <2>7, LocalSound DEF Working
<1> QED  BY <1>3, <1>4 DEF ExportNext

LEMMA LoadBatchSound ==
  ASSUME KnownInv, NEW w \in Workers, NEW b \in rc[w].batches, LoadBatch(w, b)
  PROVE  Sound
<1> DEFINE t == rc[w]
           kinds == Load(b.mode)
           items == [i \in DOMAIN kinds |->
                       [mode |-> b.mode, kind |-> kinds[i], backend |-> b.backend]]
           u == [t EXCEPT !.pc = "applyGet", !.batches = @ \ {b}, !.items = items]
<1>1. /\ t \in Reconcile /\ t.pc = "batches" /\ t.pc \in Working \ {"prune"}
      /\ Shape(t)
  BY TypesKnown DEF LoadBatch, Working, Knows
<1>2. \A i \in DOMAIN items :
        items[i].kind \in GVKs(items[i].mode) /\ items[i].mode = b.mode
  BY TemplateKinds
<1> HIDE DEF items
<1>3. /\ u.comp = t.comp /\ u.tgt = t.tgt /\ u.items = items
      /\ u.exporting = t.exporting /\ u.batches = t.batches \ {b}
      /\ u.err = t.err /\ u.pc = "applyGet"
  BY <1>1 DEF Reconcile
<1>4. Advance(w, u) /\ UNCHANGED <<cr, res, queue>>  BY DEF LoadBatch, items
<1> HIDE DEF u
<1>5. Modes(u) = Modes(t)  BY <1>3 DEF Modes
<1>6. b.mode \in Modes(t)  BY <1>1 DEF Shape
<1>7. Shape(u)  BY <1>1, <1>2, <1>3, <1>5, <1>6 DEF Shape
<1>8. Renders(u)  BY <1>2, <1>3 DEF Renders
<1> QED  BY <1>1, <1>3, <1>4, <1>7, <1>8, LocalSound DEF Working

LEMMA ApplyGetSound ==
  ASSUME KnownInv, NEW w \in Workers, ApplyGet(w)
  PROVE  Sound
<1> DEFINE t == rc[w]
           u == [t EXCEPT !.pc = "applyWrite", !.found = Occupants(t) # {}]
<1>1. /\ t \in Reconcile /\ t.pc = "applyGet" /\ t.pc \in Working \ {"prune"}
      /\ Shape(t) /\ Renders(t)
  BY TypesKnown DEF ApplyGet, Working, Knows, Rendering, Renders
<1>2. /\ u.comp = t.comp /\ u.tgt = t.tgt /\ u.items = t.items
      /\ u.exporting = t.exporting /\ u.batches = t.batches
      /\ u.err = t.err /\ u.pc = "applyWrite"
  BY <1>1 DEF Reconcile
<1>3. Advance(w, u) /\ UNCHANGED <<cr, res, queue>>  BY DEF ApplyGet
<1> HIDE DEF u
<1>4. Modes(u) = Modes(t)  BY <1>2 DEF Modes
<1>5. Shape(u)  BY <1>1, <1>2, <1>4 DEF Shape
<1>6. Renders(u)  BY <1>1, <1>2 DEF Renders
<1> QED  BY <1>1, <1>2, <1>3, <1>5, <1>6, LocalSound DEF Working

LEMMA propagateSound ==
  ASSUME KnownInv, NEW w \in Workers, propagateHostsToWatchedCR(w)
  PROVE  Sound
<1> DEFINE t == rc[w]
           u == [t EXCEPT !.pc = "services", !.exporting = {},
                          !.tgt.addr = Addresses(t)]
<1>1. /\ t \in Reconcile /\ t.pc = "batches" /\ t.pc \in Working \ {"prune"}
      /\ Shape(t) /\ Renders(t)
  BY TypesKnown DEF propagateHostsToWatchedCR, Working, Knows, Rendering, Renders
<1>2. /\ u.comp = t.comp /\ u.tgt.inc = t.tgt.inc /\ u.tgt.phase = t.tgt.phase
      /\ u.tgt.exports = t.tgt.exports /\ u.tgt.addr = Addresses(t)
      /\ u.items = t.items /\ u.batches = t.batches
      /\ u.err = t.err /\ u.pc = "services"
  BY <1>1 DEF Reconcile, Object
<1>3. Advance(w, u) /\ UNCHANGED <<cr, res, queue>>  BY DEF propagateHostsToWatchedCR
<1> HIDE DEF u
<1>4. Modes(u) = Modes(t)  BY <1>2 DEF Modes
<1>5. OfOneService(t.exporting) /\ Modes(u) \subseteq AllRouteTypes
  BY <1>1, ModesType DEF Shape
<1>6. Fitting(u)  BY <1>2, <1>4, <1>5 DEF Fitting, Addresses
<1>7. Shape(u)  BY <1>1, <1>2, <1>4, <1>6 DEF Shape
<1>8. Renders(u)  BY <1>1, <1>2 DEF Renders
<1> QED  BY <1>1, <1>2, <1>3, <1>7, <1>8, LocalSound DEF Working

-------------------------------------------------------------------------------
(* Resources are deleted and written.                                      *)

LEMMA deleteOwnedResourcesSound ==
  ASSUME KnownInv, NEW w \in Workers, NEW kind, deleteOwnedResources(w, kind)
  PROVE  Sound
<1> DEFINE t == rc[w]
           c == t.comp
           done == IF t.pc = "prune" THEN "create" ELSE "unfinalize"
           u == [t EXCEPT !.pc = IF t.kinds = {kind} THEN done ELSE @,
                          !.kinds = @ \ {kind}]
<1>1. /\ t \in Reconcile /\ t.pc \in {"prune", "cleanup"} /\ t.pc # "idle"
      /\ kind \in t.kinds /\ Knows(w)
  BY TypesKnown DEF deleteOwnedResources, DeleteAllOf
<1>2. /\ u.comp = c /\ u.tgt = t.tgt /\ u.items = t.items /\ u.err = t.err
      /\ u.batches = t.batches /\ u.kinds = t.kinds \ {kind}
      /\ u.pc = IF t.kinds = {kind} THEN done ELSE t.pc
  BY <1>1 DEF Reconcile
<1>3. res' \subseteq res /\ UNCHANGED cr /\ Reply(w, u)
  BY DEF deleteOwnedResources, DeleteAllOf
<1> HIDE DEF u
<1>4. Made' /\ Fresh(w)  BY <1>3 DEF KnownInv, Made, Fresh
<1>5. Same(t, u)  BY <1>1, <1>2 DEF Same, Deleting
<1>6. Minding(w, u)
  <2> SUFFICES ASSUME NEW r \in res', r \in res, r.owner.comp = c, Unwanted(r),
                      ~t.err, t.pc = "prune", r.kind \in t.kinds, c \notin queue[w]
               PROVE  u.pc = "prune" /\ r.kind \in u.kinds
    BY <1>1, <1>2 DEF Minding
  <2>1. Informed(w)  BY <1>1 DEF Knows
  <2>2. t.tgt.inc = cr[c].inc /\ t.tgt.exports = cr[c].exports
    BY <1>1, <2>1 DEF Informed
  <2>3. r.type \in UnusedRouteTypes(Modes(t))
    BY <2>2, TypesKnown DEF Unwanted, EnabledModes, Modes, UnusedRouteTypes, Resource
  <2>4. r.kind # kind
    BY <2>3 DEF deleteOwnedResources, DeleteAllOf, Selected, SelectedTypes
  <2> QED  BY <1>2, <2>4
<1>7. Shape(u)
  <2>1. Modes(u) = Modes(t) /\ Shape(t)  BY <1>1, <1>2 DEF Modes, Knows
  <2> QED  BY <1>1, <1>2, <2>1 DEF Shape
<1>8. Renders(u)  BY <1>1, <1>2 DEF Renders, Knows, Rendering
<1>9. Agrees(u)  BY <1>1, <1>2 DEF Agrees
<1>10. CASE Advance(w, u) /\ UNCHANGED queue
  BY <1>3, <1>4, <1>5, <1>6, <1>7, <1>8, <1>9, <1>10, GoesOnSound
<1>11. CASE OnError(w)
  BY <1>3, <1>4, <1>11, OnErrorSound
<1> QED  BY <1>3, <1>10, <1>11 DEF Reply

LEMMA ApplyWriteSound ==
  ASSUME KnownInv, NEW w \in Workers, ApplyWrite(w)
  PROVE  Sound
<1> DEFINE t == rc[w]
           c == t.comp
           new == Rendered(t)
           u == [t EXCEPT !.pc = IF Len(t.items) = 1 THEN "batches" ELSE "applyGet",
                          !.items = Tail(@), !.found = FALSE]
<1>1. /\ t \in Reconcile /\ t.pc = "applyWrite" /\ t.pc # "idle"
      /\ c \in Components /\ t.items \in Seq(Item) /\ t.items # <<>>
      /\ Shape(t) /\ Informed(w) /\ Renders(t)
  BY TypesKnown DEF ApplyWrite, WellFormed, Reconcile, Knows, Rendering, Renders
<1>2. /\ u.comp = c /\ u.tgt = t.tgt /\ u.items = Tail(t.items) /\ u.err = t.err
      /\ u.batches = t.batches /\ u.exporting = t.exporting
      /\ u.pc \in {"batches", "applyGet"}
  BY <1>1 DEF Reconcile
<1>3. UNCHANGED cr /\ Reply(w, u)  BY DEF ApplyWrite
<1> HIDE DEF u
<1>4. 1 \in DOMAIN t.items /\ Head(t.items) = t.items[1]
  BY <1>1, HeadTailProperties, EmptySeq
<1>5. /\ new.mode = new.type /\ new.kind \in GVKs(new.type)
      /\ new.type \in Modes(t) /\ new.owner = UidOf(t)
  BY <1>1, <1>4 DEF Rendered, ExportType, Shape, Renders
<1>6. \A r \in res' : r \in res \/ r = new  BY DEF ApplyWrite
<1> HIDE DEF new
<1>7. Made'  BY <1>5, <1>6 DEF KnownInv, Made
<1>8. new.owner.comp = c /\ (Unwanted(new) => c \in queue[w])
  BY <1>1, <1>5 DEF UidOf, Unwanted, Informed, Modes, EnabledModes
<1>9. Fresh(w)  BY <1>6, <1>8 DEF Fresh
<1>10. \A i \in DOMAIN Tail(t.items) :
         i + 1 \in DOMAIN t.items /\ Tail(t.items)[i] = t.items[i + 1]
  BY <1>1
<1>11. CASE Advance(w, u) /\ UNCHANGED queue
  <2>1. Same(t, u)  BY <1>1, <1>2 DEF Same, Deleting
  <2>2. Minding(w, u)  BY <1>1, <1>2 DEF Minding
  <2>3. Modes(u) = Modes(t)  BY <1>2 DEF Modes
  <2>4. \A i \in DOMAIN u.items : u.items[i].mode \in Modes(u)
    BY <1>1, <1>2, <1>10, <2>3 DEF Shape
  <2>5. Shape(u)  BY <1>1, <1>2, <2>3, <2>4 DEF Shape
  <2>6. Renders(u)  BY <1>1, <1>2, <1>10 DEF Renders
  <2>7. Agrees(u)  BY <1>2 DEF Agrees
  <2> QED  BY <1>3, <1>7, <1>9, <1>11, <2>1, <2>2, <2>5, <2>6, <2>7, GoesOnSound
<1>12. CASE OnError(w)
  BY <1>3, <1>7, <1>9, <1>12, OnErrorSound
<1> QED  BY <1>3, <1>11, <1>12 DEF Reply

-------------------------------------------------------------------------------
(* A reconcile begins: pruning reaches every resource of an unused type.   *)

LEMMA EnterPruneReaches ==
  ASSUME KnownInv, NEW t \in Reconcile, NEW r \in res, r.type \notin Modes(t)
  PROVE  EnterPrune(t).pc = "prune" /\ r.kind \in EnterPrune(t).kinds
<1>1. r.type \in UnusedRouteTypes(Modes(t))
  BY TypesKnown DEF UnusedRouteTypes, Resource
<1>2. r.kind \in routingResourceGVKs(UnusedRouteTypes(Modes(t)))
  BY <1>1 DEF KnownInv, Made, routingResourceGVKs
<1> QED  BY <1>2 DEF EnterPrune, Reconcile

LEMMA EnterPruneKeeps ==
  ASSUME NEW t \in Reconcile
  PROVE  LET u == EnterPrune(t) IN
         /\ u.comp = t.comp /\ u.tgt = t.tgt /\ u.items = t.items /\ u.err = t.err
         /\ u.batches = t.batches /\ u.pc \in {"prune", "create"}
  BY DEF EnterPrune, Reconcile

(* The record of a reconcile that has done nothing yet.                    *)
LEMMA StartKnows ==
  ASSUME KnownInv, NEW w \in Workers, NEW c \in Handles[w], NEW u, rc'[w] = u,
         queue'[w] \subseteq Handles[w], u.comp = c,
         u.pc \in {"cleanup", "finalizer", "prune", "create"},
         u.batches = {}, u.items = <<>>,
         c \notin queue'[w] =>
           /\ u.tgt.inc = cr'[c].inc /\ u.tgt.phase = cr'[c].phase
           /\ u.tgt.exports = cr'[c].exports
           /\ cr'[c].phase = IF u.pc = "cleanup" THEN "terminating" ELSE "live"
  PROVE  Knows(w)'
<1>1. DOMAIN <<>> = {}  OBVIOUS
<1>2. Assigned(w)'  BY DEF Assigned
<1>3. Rendering(w)'  BY <1>1 DEF Rendering
<1>4. Informed(w)'  BY DEF Informed, Deleting
<1>5. Shape(u)  BY <1>1 DEF Shape
<1> QED  BY <1>2, <1>3, <1>4, <1>5 DEF Knows

LEMMA FetchSound ==
  ASSUME KnownInv, NEW w \in Workers, NEW c \in Components, Fetch(w, c)
  PROVE  Sound
<1> DEFINE t == [Idle EXCEPT !.comp = c, !.tgt = cr[c], !.fresh = TRUE]
<1>1. cr[c] \in Object /\ c \in Handles[w] /\ c \in queue[w] /\ rc[w].pc = "idle"
  BY TypesKnown DEF Fetch
<1>2. /\ t \in Reconcile /\ t.comp = c /\ t.tgt = cr[c] /\ t.items = <<>>
      /\ t.batches = {} /\ t.err = FALSE
  BY <1>1, IdleWellFormed DEF WellFormed, Reconcile, Idle
<1>3. UNCHANGED <<cr, res>>  BY DEF Fetch
<1>4. /\ queue'[w] = queue[w] \ {c}
      /\ \A v \in Workers \ {w} : queue'[v] = queue[v]
  BY TypesKnown DEF Fetch, TypeInv, TypeOK
<1>5. Told /\ Added /\ Made'
  BY <1>3 DEF Told, Added, KnownInv, Made
<1>6. rc[w].comp = NoComponent /\ NoComponent \notin Components
  BY <1>1, TypesKnown, ConstantsAssumption
<1>7. ASSUME NEW u, Advance(w, u), Knows(w)',
             Busy(w, c)' \/ Fine(c),
             \A r \in res : r.owner.comp = c /\ Unwanted(r) => Attends(w, r)'
      PROVE  Sound
  <2>1. rc'[w] = u /\ \A v \in Workers \ {w} : rc'[v] = rc[v]
    BY <1>7, TypesKnown DEF Advance, TypeInv, TypeOK
  <2>2. Minds(w)
    <3> SUFFICES ASSUME NEW d \in Components
                 PROVE  /\ Busy(w, d) => Busy(w, d)' \/ Fine(d)
                        /\ \A r \in res : r.owner.comp = d /\ Unwanted(r) /\ Attends(w, r)
                                            => Attends(w, r)'
      BY <1>3 DEF Minds
    <3>1. CASE d = c  BY <1>7, <3>1
    <3>2. CASE d # c  BY <1>1, <1>4, <1>6, <3>2 DEF Busy, Attends
    <3> QED  BY <3>1, <3>2
  <2>3. \A v \in Workers \ {w} : Rests(v)  BY <1>4, <2>1, TypesKnown DEF Rests
  <2> QED  BY <1>5, <1>7, <2>2, <2>3, Sums
<1>8. CASE /\ UNCHANGED rc
           /\ \/ cr[c].phase = "absent"
              \/ IsMarkedForDeletion(cr[c]) /\ Modes(t) = {}
  <2>1. Advance(w, rc[w])
    BY <1>8, TypesKnown DEF Advance, TypeInv, TypeOK
  <2>2. Knows(w)'
    BY <1>1, <1>4, <1>8, TypesKnown DEF Knows, Assigned, Rendering, Informed, Shape, Fitting, Modes
  <2>3. cr[c].phase # "live" /\ Fine(c)
    BY <1>2, <1>8 DEF IsMarkedForDeletion, Fine, Modes, EnabledModes
  <2>4. \A r : r.owner.comp = c => ~Unwanted(r)  BY <2>3 DEF Unwanted
  <2> QED  BY <1>7, <2>1, <2>2, <2>3, <2>4
<1>9. CASE /\ IsMarkedForDeletion(cr[c])
           /\ Advance(w, [t EXCEPT !.pc = "cleanup",
                                   !.kinds = routingResourceGVKs(Modes(t))])
  <2> DEFINE u == [t EXCEPT !.pc = "cleanup", !.kinds = routingResourceGVKs(Modes(t))]
  <2>1. /\ u.comp = c /\ u.tgt = cr[c] /\ u.pc = "cleanup" /\ u.items = <<>>
        /\ u.batches = {}
    BY <1>2 DEF Reconcile
  <2>2. Advance(w, u)  BY <1>9
  <2> HIDE DEF u
  <2>3. rc'[w] = u  BY <2>2, TypesKnown DEF Advance, TypeInv, TypeOK
  <2>4. cr[c].phase = "terminating"  BY <1>9 DEF IsMarkedForDeletion
  <2>5. queue'[w] \subseteq Handles[w]  BY <1>4, TypesKnown
  <2>6. Knows(w)'  BY <1>1, <1>3, <2>1, <2>3, <2>4, <2>5, StartKnows
  <2>7. Busy(w, c)'  BY <2>1, <2>3 DEF Busy
  <2>8. \A r : r.owner.comp = c => ~Unwanted(r)  BY <2>4 DEF Unwanted
  <2> QED  BY <1>7, <2>2, <2>6, <2>7, <2>8
<1>10. CASE /\ cr[c].phase # "absent"
            /\ ~IsMarkedForDeletion(cr[c])
            /\ Advance(w, ensureResourceHasFinalizer(t))
  <2> DEFINE u == ensureResourceHasFinalizer(t)
             f == [t EXCEPT !.pc = "finalizer", !.tgt.finalizer = TRUE]
             e == EnterPrune(t)
  <2>1. cr[c].phase = "live"
    BY <1>1, <1>10 DEF Object, Phases, IsMarkedForDeletion
  <2>2. /\ f.comp = c /\ f.tgt.inc = cr[c].inc /\ f.tgt.phase = cr[c].phase
        /\ f.tgt.exports = cr[c].exports /\ f.pc = "finalizer" /\ f.items = <<>>
        /\ f.batches = {}
    BY <1>1, <1>2 DEF Reconcile, Object
  <2>3. /\ e.comp = c /\ e.tgt = cr[c] /\ e.items = <<>> /\ e.batches = {}
        /\ e.pc \in {"prune", "create"}
    BY <1>2, EnterPruneKeeps
  <2>4. \A r \in res : r.owner.comp = c /\ Unwanted(r) =>
          e.pc = "prune" /\ r.kind \in e.kinds
    BY <1>2, EnterPruneReaches DEF Unwanted, EnabledModes, Modes
  <2>5. u = f \/ u = e  BY DEF ensureResourceHasFinalizer
  <2> HIDE DEF f, e
  <2>6. /\ u.comp = c /\ u.tgt.inc = cr[c].inc /\ u.tgt.phase = cr[c].phase
        /\ u.tgt.exports = cr[c].exports /\ u.items = <<>> /\ u.batches = {}
        /\ u.pc \in {"finalizer", "prune", "create"}
        /\ \A r \in res : r.owner.comp = c /\ Unwanted(r) =>
             u.pc = "finalizer" \/ (u.pc = "prune" /\ r.kind \in u.kinds)
    BY <2>2, <2>3, <2>4, <2>5
  <2>7. Advance(w, u)  BY <1>10
  <2> HIDE DEF u
  <2>8. rc'[w] = u  BY <2>7, TypesKnown DEF Advance, TypeInv, TypeOK
  <2>9. queue'[w] \subseteq Handles[w]  BY <1>4, TypesKnown
  <2>10. Knows(w)'  BY <1>1, <1>3, <2>1, <2>6, <2>8, <2>9, StartKnows
  <2>11. Busy(w, c)'  BY <2>6, <2>8 DEF Busy
  <2>12. \A r \in res : r.owner.comp = c /\ Unwanted(r) => Attends(w, r)'
    BY <2>6, <2>8 DEF Attends
  <2> QED  BY <1>7, <2>7, <2>10, <2>11, <2>12
<1> QED  BY <1>8, <1>9, <1>10 DEF Fetch

-------------------------------------------------------------------------------
(* The object is written: by the worker that has it in hand, or by a user. *)

(* What worker w, which writes obj to its object and goes on as u, knows   *)
(* then, and what it minds if obj was there already.                       *)
WritesKnowing(w, c, obj, u) ==
  /\ rc'[w] = u /\ cr'[c] = obj /\ queue'[w] \subseteq Handles[w]
  /\ c \notin queue'[w] => obj = cr[c] /\ c \notin queue[w]
  => Knows(w)'

WritesMinding(w, c, obj, u, retry) ==
  /\ rc'[w] = u /\ obj = cr[c]
  /\ queue[w] \subseteq queue'[w]
  /\ retry => c \in queue'[w]
  => /\ Busy(w, c)' \/ Fine(c)
     /\ \A r \in res : r.owner.comp = c /\ Unwanted(r) /\ Attends(w, r) => Attends(w, r)'

LEMMA WriteCRSound ==
  ASSUME KnownInv, NEW w \in Workers, rc[w].pc # "idle", NEW c, c = rc[w].comp,
         NEW obj, NEW u, NEW retry, WriteCR(w, obj, u, retry), UNCHANGED res,
         WritesKnowing(w, c, obj, u), WritesMinding(w, c, obj, u, retry)
  PROVE  Sound
<1> DEFINE changed == obj # cr[c]
           stale == IF changed THEN Invalidated(c) ELSE rc
           notified == IF changed THEN Notified(c) ELSE queue
<1>1. PICK lost \in BOOLEAN :
        /\ rc' = [stale EXCEPT ![w] = IF lost THEN Idle ELSE u]
        /\ queue' = [notified EXCEPT ![w] = IF lost \/ retry THEN @ \cup {c} ELSE @]
  BY DEF WriteCR
<1>2. c \in Handles[w] /\ c \in Components  BY TypesKnown
<1>3. DOMAIN stale = Workers /\ DOMAIN notified = Workers
  BY TypesKnown DEF Invalidated, Notified, TypeInv, TypeOK
<1>4. \A v \in Workers :
        stale[v] = rc[v] \/ stale[v] = [rc[v] EXCEPT !.fresh = FALSE]
  BY DEF Invalidated
<1>5. \A v \in Workers : /\ notified[v] \subseteq Handles[v]
                         /\ queue[v] \subseteq notified[v]
                         /\ notified[v] \ {c} = queue[v] \ {c}
                         /\ changed /\ c \in Handles[v] => c \in notified[v]
                         /\ ~changed => notified[v] = queue[v]
  BY TypesKnown DEF Notified
<1> HIDE DEF stale, notified
<1>6. /\ rc'[w] = IF lost THEN Idle ELSE u
      /\ queue'[w] = IF lost \/ retry THEN notified[w] \cup {c} ELSE notified[w]
      /\ \A v \in Workers \ {w} : rc'[v] = stale[v] /\ queue'[v] = notified[v]
  BY <1>1, <1>3
<1>7. cr'[c] = obj /\ \A d \in Components \ {c} : cr'[d] = cr[d]
  BY <1>2, TypesKnown DEF WriteCR, TypeInv, TypeOK
<1>8. Told
  <2>1. ASSUME changed PROVE \A v \in Workers : c \in Handles[v] => c \in queue'[v]
    BY <1>2, <1>5, <1>6, <2>1
  <2> QED  BY <1>7, <2>1 DEF Told
<1>9. Added /\ Made'  BY DEF Added, KnownInv, Made
<1>10. \A v \in Workers \ {w} : Rests(v)
  BY <1>4, <1>5, <1>6 DEF Rests
<1>11. /\ queue'[w] \subseteq Handles[w] /\ queue[w] \subseteq queue'[w]
       /\ c \notin queue'[w] => obj = cr[c] /\ c \notin queue[w]
       /\ lost \/ retry => c \in queue'[w]
  BY <1>2, <1>5, <1>6
<1>12. Knows(w)'
  <2>1. CASE lost  BY <1>6, <1>11, <2>1, IdleKnows
  <2>2. CASE ~lost  BY <1>6, <1>7, <1>11, <2>2 DEF WritesKnowing
  <2> QED  BY <2>1, <2>2
<1>13. Minds(w)
  <2> SUFFICES ASSUME NEW d \in Components, cr'[d] = cr[d]
               PROVE  /\ Busy(w, d) => Busy(w, d)' \/ Fine(d)
                      /\ \A r \in res : r.owner.comp = d /\ Unwanted(r) /\ Attends(w, r)
                                          => Attends(w, r)'
    BY DEF Minds
  <2>1. CASE d # c  BY <1>11, <2>1 DEF Busy, Attends
  <2>2. CASE d = c /\ lost  BY <1>11, <2>2 DEF Busy, Attends
  <2>3. CASE d = c /\ ~lost
    <3>1. rc'[w] = u /\ obj = cr[c] /\ (retry => c \in queue'[w])
      BY <1>6, <1>7, <1>11, <2>3
    <3>2. /\ Busy(w, c)' \/ Fine(c)
          /\ \A r \in res : r.owner.comp = c /\ Unwanted(r) /\ Attends(w, r) => Attends(w, r)'
      BY <1>11, <3>1 DEF WritesMinding
    <3> QED  BY <2>3, <3>2
  <2> QED  BY <2>1, <2>2, <2>3
<1> QED  BY <1>8, <1>9, <1>10, <1>12, <1>13, Sums

LEMMA PatchSendSound ==
  ASSUME KnownInv, NEW w \in Workers, NEW c \in Components, c = rc[w].comp,
         PatchSend(w)
  PROVE  Sound
<1> DEFINE t == rc[w]
           stored == cr[c]
           obj == [stored EXCEPT
                     !.finalizer = IF t.pc = "finalizerSend" THEN TRUE ELSE @,
                     !.addr = [m \in AllRouteTypes |->
                                 IF m \in t.diff THEN t.tgt.addr[m] ELSE @[m]]]
           x == [t EXCEPT !.tgt = obj, !.fresh = TRUE, !.diff = {}]
<1>1. /\ t \in Reconcile /\ t.pc \in {"finalizerSend", "patchSend"} /\ t.pc # "idle"
      /\ c \in Handles[w] /\ Knows(w) /\ Informed(w) /\ Shape(t)
      /\ stored \in Object
      /\ UNCHANGED res
  BY TypesKnown DEF PatchSend, Knows
<1>2. /\ obj \in Object
      /\ obj.inc = stored.inc /\ obj.phase = stored.phase /\ obj.exports = stored.exports
      /\ \A m \in AllRouteTypes :
           obj.addr[m] = IF m \in t.diff THEN t.tgt.addr[m] ELSE stored.addr[m]
  <2>1. t.tgt \in Object  BY <1>1 DEF Reconcile
  <2> QED  BY <1>1, <2>1 DEF Object
<1> HIDE DEF obj
<1>3. CASE ReturnError(w) /\ UNCHANGED <<cr, faults>>
  BY <1>1, <1>3, SameRes, ReturnErrorSound
<1>4. CASE t.pc = "finalizerSend" /\ WriteCR(w, obj, EnterPrune(x), FALSE)
  <2> DEFINE u == EnterPrune(x)
  <2>1. /\ x \in Reconcile /\ x.comp = c /\ x.tgt = obj /\ x.items = t.items
        /\ x.batches = t.batches
    BY <1>1, <1>2 DEF Reconcile
  <2> HIDE DEF x
  <2>2. /\ u.comp = c /\ u.tgt = obj /\ u.items = <<>> /\ u.batches = {}
        /\ u.pc \in {"prune", "create"}
    BY <1>1, <1>4, <2>1, EnterPruneKeeps DEF Shape
  <2>3. \A r \in res : r.type \notin extractExportModes(obj.exports) =>
          u.pc = "prune" /\ r.kind \in u.kinds
    BY <2>1, EnterPruneReaches DEF Modes
  <2>4. WriteCR(w, obj, u, FALSE)  BY <1>4
  <2> HIDE DEF u
  <2>5. WritesKnowing(w, c, obj, u)
    <3> SUFFICES ASSUME rc'[w] = u, cr'[c] = obj, queue'[w] \subseteq Handles[w],
                        c \notin queue'[w] => obj = cr[c] /\ c \notin queue[w]
                 PROVE  Knows(w)'
      BY DEF WritesKnowing
    <3>1. c \notin queue'[w] => cr'[c].phase = "live"
      BY <1>1, <1>4 DEF Informed, Deleting
    <3> QED  BY <1>1, <2>2, <3>1, StartKnows
  <2>6. WritesMinding(w, c, obj, u, FALSE)
    BY <2>2, <2>3 DEF WritesMinding, Busy, Attends, Unwanted, EnabledModes
  <2> QED  BY <1>1, <2>4, <2>5, <2>6, WriteCRSound
<1>5. CASE t.pc = "patchSend" /\ WriteCR(w, obj, Idle, t.err)
  <2>1. ASSUME obj = cr[c], c \notin queue[w], ~t.err  PROVE Fine(c)
    <3>1. Modes(t) = EnabledModes(c) /\ cr[c].phase = "live"
      BY <1>1, <1>5, <2>1 DEF Informed, Modes, EnabledModes, Deleting
    <3>2. \A m \in AllRouteTypes : cr[c].addr[m] = t.tgt.addr[m]
      BY <1>1, <1>2, <1>5, <2>1 DEF Informed
    <3>3. Fitting(t)  BY <1>1, <1>5, <2>1 DEF Shape
    <3>4. EnabledModes(c) \subseteq AllRouteTypes  BY <3>1, ModesType
    <3> QED  BY <3>1, <3>2, <3>3, <3>4 DEF Fine, AddressesFit, Fitting, OfOneService
  <2>2. WritesMinding(w, c, obj, Idle, t.err)
    BY <1>1, <1>5, <2>1 DEF WritesMinding, Busy, Attends
  <2>3. WritesKnowing(w, c, obj, Idle)  BY IdleKnows DEF WritesKnowing
  <2> QED  BY <1>1, <1>5, <2>2, <2>3, WriteCRSound
<1> QED  BY <1>3, <1>4, <1>5 DEF PatchSend, obj, x

LEMMA removeFinalizerSound ==
  ASSUME KnownInv, NEW w \in Workers, removeFinalizer(w)
  PROVE  Sound
<1> DEFINE c == rc[w].comp
           obj == Gone(cr[c])
<1>1. rc[w].pc # "idle" /\ UNCHANGED res  BY DEF removeFinalizer
<1>2. CASE ReturnError(w) /\ UNCHANGED <<cr, faults>>
  BY <1>1, <1>2, SameRes, ReturnErrorSound
<1>3. CASE WriteCR(w, obj, Idle, FALSE)
  <2>1. obj.phase = "absent"  BY DEF Gone, NoObject
  <2> HIDE DEF obj
  <2>2. ASSUME obj = cr[c]
        PROVE  Fine(c) /\ \A r : r.owner.comp = c => ~Unwanted(r)
    BY <2>1, <2>2 DEF Fine, Unwanted
  <2>3. WritesKnowing(w, c, obj, Idle)  BY IdleKnows DEF WritesKnowing
  <2>4. WritesMinding(w, c, obj, Idle, FALSE)  BY <2>2 DEF WritesMinding
  <2> QED  BY <1>1, <1>3, <2>3, <2>4, WriteCRSound
<1> QED  BY <1>2, <1>3 DEF removeFinalizer

LEMMA RestSound ==
  ASSUME KnownInv, UNCHANGED res, Told, \A v \in Workers : Rests(v)
  PROVE  Sound
<1>1. Added /\ Made'  BY DEF Added, KnownInv, Made
<1> QED  BY <1>1, RestsKept DEF Sound

LEMMA UserSound ==
  ASSUME KnownInv, NEW c \in Components, User(c)
  PROVE  Sound
<1>1. PICK obj : UserWrite(c, obj)
  BY DEF User, CreateCR, SetExportModes, TouchCR, DeleteCR
<1>2. \A d \in Components \ {c} : cr'[d] = cr[d]
  BY <1>1, TypesKnown DEF UserWrite, TypeInv, TypeOK
<1>3. /\ \A v \in Workers : /\ queue[v] \subseteq queue'[v]
                            /\ queue'[v] \subseteq Handles[v]
                            /\ c \in Handles[v] => c \in queue'[v]
  BY <1>1, TypesKnown DEF UserWrite, Notified
<1>4. \A v \in Workers : rc'[v] = rc[v] \/ rc'[v] = [rc[v] EXCEPT !.fresh = FALSE]
  BY <1>1 DEF UserWrite, Invalidated
<1>5. Told  BY <1>2, <1>3 DEF Told
<1>6. \A v \in Workers : Rests(v)  BY <1>3, <1>4 DEF Rests
<1>7. UNCHANGED res  BY <1>1 DEF UserWrite
<1> QED  BY <1>5, <1>6, <1>7, RestSound

LEMMA IdleSound ==
  ASSUME KnownInv, UNCHANGED <<cr, res, queue, rc>>
  PROVE  Sound
<1>1. \A v \in Workers : Rests(v)  BY TypesKnown DEF Rests
<1> QED  BY <1>1, RestSound DEF Told

(* A manager that restarts lists every object that exists.                 *)
LEMMA CrashSound ==
  ASSUME KnownInv, NEW w \in Workers, Crash(w)
  PROVE  Sound
<1>1. UNCHANGED <<cr, res>>  BY DEF Crash
<1>2. rc'[w] = Idle /\ \A v \in Workers \ {w} : rc'[v] = rc[v]
  BY TypesKnown DEF Crash, Advance, TypeInv, TypeOK
<1>3. /\ queue'[w] = {c \in Handles[w] : cr[c].phase # "absent"}
      /\ \A v \in Workers \ {w} : queue'[v] = queue[v]
  BY TypesKnown DEF Crash, TypeInv, TypeOK
<1>4. Told /\ Added /\ Made'  BY <1>1 DEF Told, Added, KnownInv, Made
<1>5. Knows(w)'  BY <1>2, <1>3, IdleKnows
<1>6. Minds(w)
  <2> SUFFICES ASSUME NEW d \in Components
               PROVE  /\ Busy(w, d) => Busy(w, d)' \/ Fine(d)
                      /\ \A r \in res : r.owner.comp = d /\ Unwanted(r) /\ Attends(w, r)
                                          => Attends(w, r)'
    BY <1>1 DEF Minds
  <2>1. rc[w].comp = d => d \in Handles[w]
    BY TypesKnown, ConstantsAssumption
  <2>2. d \in Handles[w] /\ cr[d].phase # "absent" => d \in queue'[w]  BY <1>3
  <2>3. cr[d].phase = "absent" => Fine(d)  BY DEF Fine
  <2> QED  BY <2>1, <2>2, <2>3, TypesKnown DEF Busy, Attends, Unwanted
<1>7. \A v \in Workers \ {w} : Rests(v)  BY <1>2, <1>3, TypesKnown DEF Rests
<1> QED  BY <1>4, <1>5, <1>6, <1>7, Sums

-------------------------------------------------------------------------------
(* All together.                                                           *)

LEMMA StepSound ==
  ASSUME KnownInv, NEW w \in Workers, Step(w)
  PROVE  Sound
<1>1. CASE PatchSend(w)
  <2>1. rc[w].comp \in Components  BY <1>1, TypesKnown DEF PatchSend
  <2> QED  BY <1>1, <2>1, PatchSendSound
<1>2. ASSUME NEW b \in rc[w].batches, LoadBatch(w, b)  PROVE Sound
  BY <1>2, LoadBatchSound
<1>3. ASSUME NEW c \in Components, Fetch(w, c)  PROVE Sound
  BY <1>3, FetchSound
<1> QED
  BY <1>1, <1>2, <1>3, PatchGetSound, deleteOwnedResourcesSound, removeFinalizerSound,
     ListServicesSound, ExportNextSound, ApplyGetSound, ApplyWriteSound, propagateSound
  DEF Step

LEMMA ApiErrorSound ==
  ASSUME KnownInv, NEW w \in Workers, ApiError(w)
  PROVE  Sound
  BY SameRes, OnErrorSound DEF ApiError

LEMMA NextSound == KnownInv /\ [Next]_vars => Sound
<1> SUFFICES ASSUME KnownInv, [Next]_vars PROVE Sound  OBVIOUS
<1>1. CASE Next
  BY <1>1, StepSound, ApiErrorSound, CrashSound, UserSound, IdleSound
  DEF Next, ServiceOwner, ChangeService, RemoveService
<1>2. CASE UNCHANGED vars
  BY <1>2, IdleSound DEF vars
<1> QED  BY <1>1, <1>2

LEMMA NextKnown == KnownInv /\ [Next]_vars => KnownInv'
  BY NextSound, NextType DEF KnownInv, Sound

LEMMA InitKnown == Init => KnownInv
<1> SUFFICES ASSUME Init PROVE KnownInv  OBVIOUS
<1>1. TypeInv  BY InitType
<1>2. Made  BY DEF Init, Made
<1>3. /\ Idle.pc = "idle" /\ Idle.comp = NoComponent /\ Idle.items = <<>>
      /\ Idle.batches = {} /\ DOMAIN <<>> = {}
  BY DEF Idle
<1>4. ASSUME NEW w \in Workers PROVE Knows(w)
  <2>1. rc[w] = Idle /\ queue[w] = {}  BY DEF Init
  <2>2. Assigned(w) /\ Rendering(w) /\ Informed(w)
    BY <1>3, <2>1 DEF Assigned, Rendering, Informed
  <2>3. Shape(Idle)  BY <1>3 DEF Shape
  <2> QED  BY <2>1, <2>2, <2>3 DEF Knows
<1> QED  BY <1>1, <1>2, <1>4 DEF KnownInv

LEMMA InitSettled == Init => SettledInv
<1> SUFFICES ASSUME Init PROVE SettledInv  OBVIOUS
<1>1. KnownInv  BY InitKnown
<1>2. UnusedAttended  BY DEF Init, UnusedAttended
<1>3. \A c \in Components : cr[c].phase = "absent"  BY DEF Init, NoObject
<1>4. SettledFine  BY <1>3 DEF SettledFine, Fine
<1> QED  BY <1>1, <1>2, <1>4 DEF SettledInv

LEMMA SettledInvHolds ==
  ASSUME Watched
  PROVE  Spec => []SettledInv
<1>1. SettledInv /\ [Next]_vars => SettledInv'
  <2> SUFFICES ASSUME SettledInv, [Next]_vars PROVE SettledInv'  OBVIOUS
  <2>1. KnownInv /\ TypeInv  BY DEF SettledInv, KnownInv
  <2>2. Sound /\ TypeInv'  BY <2>1, NextSound, NextType
  <2> QED  BY <2>2, SettledKept
<1> QED  BY <1>1, InitSettled, PTL DEF Spec

(* When the controller is done with a live object, the object owns nothing *)
(* of a disabled mode.  Whatever the order of edits, failures, crashes and *)
(* overlapping managers, a resource of a mode that is disabled always has  *)
(* a worker that is still to prune it: one that has not begun, one that    *)
(* has not come to its kind (controller.go:93-104), or one that has an     *)
(* error to return and will be called again.                               *)
THEOREM UnusedIsGone ==
  ASSUME Watched
  PROVE  Spec => []NoUnusedWhenSettled
<1>1. SettledInv => NoUnusedWhenSettled
  <2> SUFFICES ASSUME SettledInv, NEW c \in Components, cr[c].phase = "live", Settled(c),
                      NEW r \in Owned(c), r.type \notin EnabledModes(c)
               PROVE  FALSE
    BY DEF NoUnusedWhenSettled, UnusedGone
  <2>1. r \in res /\ r.owner.comp = c /\ Unwanted(r)
    BY DEF Owned, Unwanted
  <2>2. PICK w \in Workers : Attends(w, r)
    BY <2>1 DEF SettledInv, UnusedAttended
  <2> QED  BY <2>1, <2>2 DEF Attends, Settled
<1> QED  BY <1>1, SettledInvHolds, PTL

(* The controller is never done with an object in deletion that has an     *)
(* enabled mode: no failed call, lost reply, conflict or crash makes it    *)
(* forget the cleanup (delete_resources.go:43-53).                         *)
THEOREM DeletionIsKept ==
  ASSUME Watched
  PROVE  Spec => []DeletionNotAbandoned
<1>1. SettledInv => DeletionNotAbandoned
  BY DEF SettledInv, SettledFine, Fine, DeletionNotAbandoned
<1> QED  BY <1>1, SettledInvHolds, PTL

(* When the controller is done with a live object, its address annotations *)
(* name nothing of a disabled mode, and for all enabled modes the same     *)
(* hosts, of one service (none, if that has no ports): the patch that      *)
(* writes them checks no version (reconcile_resources.go:24-31, 103-121),  *)
(* but a patch of outdated modes changes the object or comes back to it.   *)
THEOREM AddressesAreOfTheModes ==
  ASSUME Watched
  PROVE  Spec => []AddressesFollowModes
<1>1. SettledInv => AddressesFollowModes
  BY DEF SettledInv, SettledFine, Fine, AddressesFollowModes
<1> QED  BY <1>1, SettledInvHolds, PTL

-------------------------------------------------------------------------------
(* What is removed.                                                        *)

Replaced(r) == \E x \in res' : Identity(x) = Identity(r)

Removable(r) == LET c == r.owner.comp IN
  \/ Replaced(r)
  \/ cr[c].inc # r.owner.inc \/ cr[c].phase # "live"
  \/ r.type \notin EnabledModes(c)
  \/ \E w \in Workers : c \in queue[w]

LEMMA DeletesOnlyUnwanted ==
  ASSUME KnownInv, NEW w \in Workers, NEW kind, deleteOwnedResources(w, kind),
         NEW r \in res, r.owner.comp = rc[w].comp
  PROVE  Removable(r)
<1> DEFINE t == rc[w]
           c == t.comp
<1>1. t.pc \in {"prune", "cleanup"} /\ Informed(w)
  BY TypesKnown DEF deleteOwnedResources, DeleteAllOf, Knows
<1>2. CASE r \in res'  BY <1>2 DEF Removable, Replaced
<1>3. CASE r \notin res'
  <2>1. r.type \in SelectedTypes(t)
    BY <1>3 DEF deleteOwnedResources, DeleteAllOf, Selected
  <2>2. CASE c \in queue[w]  BY <2>2 DEF Removable
  <2>3. CASE c \notin queue[w] /\ t.pc = "prune"
    <3>1. r.type \notin Modes(t)
      BY <2>1, <2>3 DEF SelectedTypes, UnusedRouteTypes
    <3>2. Modes(t) = EnabledModes(c)
      BY <1>1, <2>3 DEF Informed, Modes, EnabledModes
    <3> QED  BY <3>1, <3>2 DEF Removable
  <2>4. CASE c \notin queue[w] /\ t.pc = "cleanup"
    <3>1. cr[c].phase # "live"  BY <1>1, <2>4 DEF Informed, Deleting
    <3> QED  BY <3>1 DEF Removable
  <2> QED  BY <1>1, <2>2, <2>3, <2>4
<1> QED  BY <1>2, <1>3

LEMMA WritesReplace ==
  ASSUME NEW w \in Workers, ApplyWrite(w), NEW r \in res
  PROVE  Removable(r)
  BY DEF ApplyWrite, Occupants, Removable, Replaced

LEMMA StaysThere ==
  ASSUME UNCHANGED res, NEW r \in res
  PROVE  Removable(r)
  BY DEF Removable, Replaced

(* A resource that its own component's reconciles remove is of an owner    *)
(* that is gone or does not want it any more, or that is queued, so that   *)
(* the next reconcile puts it back: DeleteAllOf                            *)
(* (delete_resources.go:61-77) selects with the modes of a copy that may   *)
(* be outdated, but not without the workqueue knowing.  Of what the        *)
(* reconciles of other components remove nothing is said.                  *)
THEOREM RemovalsAreJustified == Spec => RemovesOnlyUnwanted
<1> DEFINE Taken(r) == \E w \in Workers, k \in Kinds :
                         rc[w].comp # r.owner.comp /\ deleteOwnedResources(w, k)
           Justified == \A r \in res : Removable(r) \/ Taken(r)
<1>1. Init => KnownInv  BY InitKnown
<1>2. KnownInv /\ [Next]_vars => KnownInv'  BY NextKnown
<1>3. KnownInv /\ [Next]_vars => [Justified]_vars
  <2> SUFFICES ASSUME KnownInv, Next, NEW r \in res PROVE Removable(r) \/ Taken(r)
    OBVIOUS
  <2>1. ASSUME NEW w \in Workers, Step(w) PROVE Removable(r) \/ Taken(r)
    <3>1. CASE \E k \in Kinds : deleteOwnedResources(w, k)
      BY <3>1, DeletesOnlyUnwanted
    <3>2. CASE ApplyWrite(w)  BY <3>2, WritesReplace
    <3>3. CASE UNCHANGED res  BY <3>3, StaysThere
    <3> QED
      BY <2>1, <3>1, <3>2, <3>3
      DEF Step, Fetch, PatchGet, PatchSend, removeFinalizer, ListServices, ExportNext,
          LoadBatch, ApplyGet, propagateHostsToWatchedCR
  <2>2. ASSUME NEW w \in Workers, ApiError(w) \/ Crash(w) PROVE Removable(r)
    BY <2>2, StaysThere DEF ApiError, Crash
  <2>3. ASSUME NEW c \in Components, User(c) PROVE Removable(r)
    BY <2>3, StaysThere DEF User, CreateCR, SetExportModes, TouchCR, DeleteCR, UserWrite
  <2>4. ASSUME NEW s \in Services, ServiceOwner(s) PROVE Removable(r)
    BY <2>4, StaysThere DEF ServiceOwner, ChangeService, RemoveService
  <2> QED  BY <2>1, <2>2, <2>3, <2>4 DEF Next
<1>4. Justified =>
        \A r \in res :
          LET c == r.owner.comp IN
          \/ \E x \in res' : Identity(x) = Identity(r)
          \/ cr[c].inc # r.owner.inc \/ cr[c].phase # "live"
          \/ r.type \notin EnabledModes(c)
          \/ \E w \in Workers : c \in queue[w]
          \/ \E w \in Workers, k \in Kinds : rc[w].comp # c /\ deleteOwnedResources(w, k)
  BY DEF Removable, Replaced
<1> HIDE DEF Justified
<1> QED  BY <1>1, <1>2, <1>3, <1>4, PTL DEF Spec, RemovesOnlyUnwanted

===============================================================================
