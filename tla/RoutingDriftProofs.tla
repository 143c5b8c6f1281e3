--------------------------- MODULE RoutingDriftProofs ---------------------------
(***************************************************************************)
(* Proofs about RoutingDrift: what is lost when a controller is            *)
(* deactivated, and what the next reconcile repairs when others change     *)
(* routing resources, for every set of components, workers and services    *)
(* and for every bound.                                                    *)
(***************************************************************************)
EXTENDS RoutingDrift, RoutingServedProofs

-------------------------------------------------------------------------------
(* What holds in spite of drift: all that RoutingSettledProofs knows of    *)
(* the reconciles under way, and the finalizer.                            *)

(* An object that exists has been created.                                 *)
Counted == \A c \in Components : cr[c].phase # "absent" => cr[c].inc # 0

DriftInv == DriftTypeOK /\ KnownInv /\ FinalizerInv /\ Counted

(* What is missed or drifted is struck off by the start of a reconcile;    *)
(* who loses a resource to the reconcile of another component drifts.      *)
Strikes(w) ==
  \/ missed' = missed /\ drifted' = drifted \cup Robbed(w)
  \/ \E c \in Components : /\ Fetch(w, c)
                           /\ missed' = missed \ {c} /\ drifted' = drifted \ {c}

LEMMA NobodyRobbed ==
  ASSUME UNCHANGED res, NEW w
  PROVE  Robbed(w) = {}
  BY DEF Robbed

(* Whoever does not drift now is spared.                                   *)
LEMMA NotRobbed ==
  ASSUME NEW w, NEW c, c # rc[w].comp, Strikes(w), c \notin drifted'
  PROVE  Spares(w, c)
<1>1. CASE drifted' = drifted \cup Robbed(w)  BY <1>1 DEF Robbed, Spares
<1>2. CASE UNCHANGED res  BY <1>2 DEF Spares
<1> QED  BY <1>1, <1>2 DEF Strikes, Fetch

LEMMA ReconcilingStrikes ==
  ASSUME KnownInv, NEW w \in Workers, Reconciling(w)
  PROVE  Works(w) /\ Strikes(w)
<1>1. Step(w)  BY DEF Reconciling
<1>2. CASE rc[w].pc # "idle"
  <2>1. missed' = missed /\ drifted' = drifted \cup Robbed(w)  BY <1>2 DEF Reconciling
  <2> QED  BY <1>1, <2>1 DEF Works, Strikes
<1>3. CASE rc[w].pc = "idle"
  <2>1. PICK c \in Components : Fetch(w, c)
    BY <1>1, <1>3
    DEF Step, PatchGet, PatchSend, deleteOwnedResources, DeleteAllOf, removeFinalizer,
        ListServices, ExportNext, LoadBatch, ApplyGet, ApplyWrite, propagateHostsToWatchedCR
  <2>2. c \in queue[w] /\ queue'[w] = queue[w] \ {c}
    BY <2>1, TypesKnown DEF Fetch, TypeInv, TypeOK
  <2>3. Robbed(w) = {}  BY <2>1, NobodyRobbed DEF Fetch
  <2>4. queue[w] \ queue'[w] = {c}  BY <2>2
  <2>5. missed' = missed \ {c} /\ drifted' = drifted \ {c}
    BY <1>3, <2>4, <2>3 DEF Reconciling
  <2> QED  BY <1>1, <2>1, <2>5 DEF Works, Strikes
<1> QED  BY <1>2, <1>3

(* Every step is one of RoutingController, or drops a request, or is what  *)
(* others do to a resource.                                                *)
LEMMA DriftCases ==
  ASSUME KnownInv, [DriftNext]_driftVars
  PROVE  \/ \E w \in Workers : Works(w) /\ Strikes(w)
         \/ UNCHANGED <<missed, drifted>> /\ \E c \in Components : User(c)
         \/ UNCHANGED <<missed, drifted, cr, res, queue, rc>> /\ [Next]_vars
         \/ \E w \in Workers, c \in Components : Dropped(w, c)
         \/ \E r \in res : Tamper(r)
<1>1. ASSUME NEW w \in Workers, Reconciling(w)  PROVE Works(w) /\ Strikes(w)
  BY <1>1, ReconcilingStrikes
<1>2. ASSUME NEW w \in Workers, Activate(w) \/ Deactivate(w)
      PROVE  UNCHANGED <<missed, drifted, cr, res, queue, rc>> /\ UNCHANGED vars
  BY <1>2 DEF Activate, Deactivate, LeavesRunning, vars
<1>3. ASSUME NEW w \in Workers, Restart(w)  PROVE Works(w) /\ Strikes(w)
  <2>1. Robbed(w) = {}  BY <1>3, NobodyRobbed DEF Restart, Crash
  <2> QED  BY <1>3, <2>1 DEF Restart, Works, Strikes
<1>4. ASSUME NEW w \in Workers, ApiError(w), UNCHANGED <<active, missed, drifted>>
      PROVE  Works(w) /\ Strikes(w)
  <2>1. Robbed(w) = {}  BY <1>4, NobodyRobbed DEF ApiError
  <2> QED  BY <1>4, <2>1 DEF Works, Strikes
<1>5. ASSUME NEW s \in Services, ServiceOwner(s),
             UNCHANGED <<active, missed, drifted>>
      PROVE  UNCHANGED <<missed, drifted, cr, res, queue, rc>> /\ Next
  BY <1>5 DEF ServiceOwner, ChangeService, RemoveService, Next
<1>6. CASE UNCHANGED driftVars
  BY <1>6 DEF driftVars, vars
<1> QED  BY <1>1, <1>2, <1>3, <1>4, <1>5, <1>6 DEF DriftNext

LEMMA WorksIsNext ==
  ASSUME NEW w \in Workers, Works(w)
  PROVE  Next
  BY DEF Works, Next

LEMMA UserIsNext ==
  ASSUME NEW c \in Components, User(c)
  PROVE  Next
  BY DEF Next

LEMMA DriftTypes ==
  ASSUME DriftTypeOK, KnownInv, [DriftNext]_driftVars, TypeOK'
  PROVE  DriftTypeOK'
<1>1. active' \in [Workers -> BOOLEAN]
  BY DEF DriftTypeOK, DriftNext, Reconciling, Activate, Deactivate, Restart, Dropped, Tamper,
     driftVars
<1>2. missed' \subseteq Components /\ drifted' \subseteq Components
  <2>1. \A r \in res : r.owner.comp \in Components  BY TypesKnown
  <2>2. missed \subseteq Components /\ drifted \subseteq Components  BY DEF DriftTypeOK
  <2>3. ASSUME NEW w \in Workers, Strikes(w)
        PROVE  missed' \subseteq Components /\ drifted' \subseteq Components
    BY <2>1, <2>2, <2>3 DEF Strikes, Robbed
  <2>4. ASSUME NEW w \in Workers, NEW c \in Components, Dropped(w, c)
        PROVE  missed' \subseteq Components /\ drifted' \subseteq Components
    BY <2>2, <2>4 DEF Dropped
  <2>5. ASSUME NEW r \in res, Tamper(r)
        PROVE  missed' \subseteq Components /\ drifted' \subseteq Components
    BY <2>1, <2>2, <2>5 DEF Tamper
  <2> QED  BY <2>2, <2>3, <2>4, <2>5, DriftCases
<1> QED  BY <1>1, <1>2 DEF DriftTypeOK

(* Whoever is dropped was waiting for an idle worker.                      *)
LEMMA DroppedKnown ==
  ASSUME KnownInv, NEW w \in Workers, NEW c \in Components, Dropped(w, c)
  PROVE  /\ KnownInv'
         /\ queue'[w] = queue[w] \ {c} /\ rc[w].pc = "idle"
         /\ \A v \in Workers \ {w} : queue'[v] = queue[v]
<1>1. /\ queue'[w] = queue[w] \ {c} /\ rc[w].pc = "idle"
      /\ \A v \in Workers \ {w} : queue'[v] = queue[v]
  BY TypesKnown DEF Dropped, TypeInv, TypeOK
<1>2. UNCHANGED <<cr, svcPorts, res, rc, faults>>  BY DEF Dropped
<1>3. TypeInv'
  <2>1. queue' \in [Workers -> SUBSET Components]
    BY TypesKnown DEF Dropped, TypeInv, TypeOK
  <2> QED  BY <1>2, <2>1, TypesKnown DEF TypeInv, TypeOK
<1>4. Made'  BY <1>2 DEF KnownInv, Made
<1>5. ASSUME NEW v \in Workers  PROVE Knows(v)'
  <2>1. Knows(v)  BY DEF KnownInv
  <2>2. queue'[v] \subseteq queue[v] /\ (v = w \/ queue'[v] = queue[v])  BY <1>1
  <2>3. Assigned(v)' /\ Rendering(v)' /\ Shape(rc[v])'
    BY <1>2, <2>1, <2>2 DEF Knows, Assigned, Rendering, Shape, Modes
  <2>4. Informed(v)'
    <3>1. CASE v = w  BY <1>1, <1>2, <3>1 DEF Informed
    <3>2. CASE queue'[v] = queue[v]  BY <1>2, <2>1, <3>2 DEF Knows, Informed
    <3> QED  BY <2>2, <3>1, <3>2
  <2> QED  BY <2>3, <2>4 DEF Knows
<1> QED  BY <1>1, <1>3, <1>4, <1>5 DEF KnownInv

(* A resource that lost its labels is still one of its template.           *)
LEMMA TamperKnown ==
  ASSUME KnownInv, NEW r \in res, Tamper(r)
  PROVE  /\ KnownInv'
         /\ UNCHANGED <<cr, queue, rc>>
         /\ r.owner.comp \in Components
         /\ Unlabelled(r).owner = [comp |-> r.owner.comp, inc |-> 0]
         /\ Identity(Unlabelled(r)) = Identity(r)
         /\ \A x \in res' : x \in res \/ x = Unlabelled(r)
         /\ \A x \in res : x \in res' \/ x = r
<1> DEFINE u == Unlabelled(r)
<1>1. r \in Resource /\ r.owner \in Uid  BY TypesKnown
<1>2. /\ u \in Resource /\ u.owner = [comp |-> r.owner.comp, inc |-> 0]
      /\ u.mode = r.mode /\ u.kind = r.kind /\ u.name = r.name /\ u.type = r.type
  BY <1>1 DEF Unlabelled, Resource, Uid
<1>3. UNCHANGED <<cr, svcPorts, queue, rc, faults>>  BY DEF Tamper
<1>4. /\ \A x \in res' : x \in res \/ x = u
      /\ \A x \in res : x \in res' \/ x = r
  BY DEF Tamper
<1> HIDE DEF u
<1>5. TypeInv'
  <2>1. res' \subseteq Resource  BY <1>2, <1>4, TypesKnown DEF TypeInv, TypeOK
  <2> QED  BY <1>3, <2>1, TypesKnown DEF TypeInv, TypeOK
<1>6. Made'  BY <1>2, <1>4 DEF KnownInv, Made
<1>7. \A v \in Workers : Knows(v)'
  BY <1>3 DEF KnownInv, Knows, Assigned, Rendering, Informed, Shape, Modes
<1>8. Identity(u) = Identity(r)  BY <1>2 DEF Identity
<1>9. KnownInv'  BY <1>5, <1>6, <1>7 DEF KnownInv
<1>10. r.owner.comp \in Components  BY TypesKnown
<1> QED  BY <1>2, <1>3, <1>4, <1>8, <1>9, <1>10 DEF u

LEMMA CountedKept ==
  ASSUME TypeInv, TypeInv', Counted, ObjectsStep
  PROVE  Counted'
<1>1. \A c \in Components : cr[c].inc \in Nat /\ cr'[c].inc \in Nat
  BY DEF TypeInv, TypeOK, Object
<1> QED  BY <1>1 DEF Counted, ObjectsStep

LEMMA DriftInvKept == DriftInv /\ [DriftNext]_driftVars => DriftInv'
<1> SUFFICES ASSUME DriftInv, [DriftNext]_driftVars  PROVE DriftInv'  OBVIOUS
<1>1. KnownInv /\ TypeInv /\ FinalizerInv /\ Counted /\ DriftTypeOK
  BY DEF DriftInv, FinalizerInv
<1>2. KnownInv' /\ FinalizerInv' /\ Counted'
  <2>1. CASE [Next]_vars
    <3>1. KnownInv' /\ FinalizerInv'  BY <1>1, <2>1, NextKnown, NextFinalizerInv
    <3>2. TypeInv' /\ ObjectsStep  BY <1>1, <2>1, NextType, NextSteps
    <3> QED  BY <1>1, <3>1, <3>2, CountedKept
  <2>2. ASSUME NEW w \in Workers, NEW c \in Components, Dropped(w, c)
        PROVE  KnownInv' /\ FinalizerInv' /\ Counted'
    <3>1. KnownInv' /\ TypeInv'  BY <1>1, <2>2, DroppedKnown DEF KnownInv
    <3>2. UNCHANGED <<cr, res, rc>>  BY <2>2 DEF Dropped
    <3> QED
      BY <1>1, <3>1, <3>2 DEF FinalizerInv, NoFutureWork, NoFutureOwners, WorkIsCovered,
         FinalizerBeforeResources, Owned, Counted
  <2>3. ASSUME NEW r \in res, Tamper(r)
        PROVE  KnownInv' /\ FinalizerInv' /\ Counted'
    <3> DEFINE u == Unlabelled(r)
    <3>1. /\ KnownInv' /\ TypeInv' /\ UNCHANGED <<cr, queue, rc>>
          /\ u.owner = [comp |-> r.owner.comp, inc |-> 0] /\ r.owner.comp \in Components
          /\ \A x \in res' : x \in res \/ x = u
      BY <1>1, <2>3, TamperKnown DEF KnownInv
    <3> HIDE DEF u
    <3>2. NoFutureWork' /\ WorkIsCovered' /\ Counted'
      BY <1>1, <3>1 DEF FinalizerInv, NoFutureWork, WorkIsCovered, Counted
    <3>3. NoFutureOwners'
      <4>1. cr[r.owner.comp].inc \in Nat  BY <1>1, <3>1 DEF TypeInv, TypeOK, Object
      <4> QED  BY <1>1, <3>1, <4>1 DEF FinalizerInv, NoFutureOwners
    <3>4. FinalizerBeforeResources'
      <4> SUFFICES ASSUME NEW c \in Components, cr[c].phase # "absent", NEW x \in res',
                          x.owner = [comp |-> c, inc |-> cr[c].inc]
                   PROVE  cr[c].finalizer
        BY <3>1 DEF FinalizerBeforeResources, Owned
      <4>1. x # u  BY <1>1, <3>1 DEF Counted
      <4>2. x \in Owned(c)  BY <3>1, <4>1 DEF Owned
      <4> QED  BY <1>1, <4>2 DEF FinalizerInv, FinalizerBeforeResources
    <3> QED  BY <3>1, <3>2, <3>3, <3>4 DEF FinalizerInv
  <2> QED  BY <1>1, <2>1, <2>2, <2>3, DriftCases, WorksIsNext, UserIsNext
<1>3. TypeOK'  BY <1>2 DEF KnownInv, TypeInv
<1> QED  BY <1>1, <1>2, <1>3, DriftTypes DEF DriftInv

LEMMA InitDrift == DriftInit => DriftInv
<1> SUFFICES ASSUME DriftInit PROVE DriftInv  OBVIOUS
<1>1. Init  BY DEF DriftInit
<1>2. KnownInv /\ FinalizerInv  BY <1>1, InitKnown, InitFinalizerInv
<1>3. TypeOK  BY <1>2 DEF KnownInv, TypeInv
<1>4. DriftTypeOK  BY <1>3 DEF DriftInit, DriftTypeOK
<1>5. Counted  BY <1>1 DEF Init, Counted, NoObject
<1> QED  BY <1>2, <1>4, <1>5 DEF DriftInv

LEMMA DriftInvHolds == DriftSpec => []DriftInv
  BY InitDrift, DriftInvKept, PTL DEF DriftSpec

(* Every variable keeps its type.                                          *)
THEOREM DriftTypesHold == DriftSpec => []DriftTypeOK
<1>1. DriftInv => DriftTypeOK  BY DEF DriftInv
<1> QED  BY <1>1, DriftInvHolds, PTL

(* The finalizer covers every resource (controller.go:93) also when        *)
(* requests are dropped and when others remove resources or their labels.  *)
THEOREM FinalizerInSpiteOfDrift == DriftSpec => []FinalizerBeforeResources
<1>1. DriftInv => FinalizerBeforeResources  BY DEF DriftInv, FinalizerInv
<1> QED  BY <1>1, DriftInvHolds, PTL


-------------------------------------------------------------------------------
(* What has been missed.  This is RoutingSettledProofs but for the         *)
(* components with a request dropped: nobody may be left to attend to      *)
(* them.                                                                   *)

UnusedNoticed ==
  \A r \in res : Unwanted(r) /\ r.owner.comp \notin missed =>
    \E w \in Workers : Attends(w, r)

SettledRight == \A c \in Components \ missed : Settled(c) => Fine(c)

MissedInv == DriftInv /\ UnusedNoticed /\ SettledRight

(* Whoever is no longer missed was waiting for a worker, and is attended   *)
(* to by it from then on.                                                  *)
LEMMA MissedKept ==
  ASSUME MissedInv, Watched, DriftInv', Sound,
         \A c \in missed \ missed' : \E w \in Workers : c \in queue[w]
  PROVE  MissedInv'
<1>1. ASSUME NEW c \in Components, cr'[c] # cr[c]
      PROVE  \E w \in Workers : c \in queue'[w]
  BY <1>1 DEF Watched, Sound, Told
<1>2. UnusedNoticed'
  <2> SUFFICES ASSUME NEW r \in res', Unwanted(r)', r.owner.comp \notin missed'
               PROVE  \E w \in Workers : Attends(w, r)'
    BY DEF UnusedNoticed
  <2> DEFINE c == r.owner.comp
  <2>1. c \in Components  BY DEF DriftInv, KnownInv, TypeInv, TypeOK, Resource, Uid
  <2>2. CASE cr'[c] # cr[c]
    BY <1>1, <2>1, <2>2 DEF Attends
  <2>3. CASE r \notin res
    BY <2>3 DEF Sound, Added, Attends
  <2>4. CASE cr'[c] = cr[c] /\ r \in res
    <3>1. Unwanted(r)  BY <2>4 DEF Unwanted, EnabledModes
    <3>2. PICK w \in Workers : Attends(w, r)
      BY <2>4, <3>1 DEF MissedInv, UnusedNoticed, Attends
    <3> QED  BY <2>1, <2>4, <3>1, <3>2 DEF Sound, Minds
  <2> QED  BY <2>2, <2>3, <2>4
<1>3. SettledRight'
  <2> SUFFICES ASSUME NEW c \in Components, c \notin missed', Settled(c)'
               PROVE  Fine(c)'
    BY DEF SettledRight
  <2>1. cr'[c] = cr[c]  BY <1>1 DEF Settled
  <2>2. Fine(c) => Fine(c)'  BY <2>1 DEF Fine, AddressesFit, EnabledModes
  <2>3. CASE Settled(c)
    <3>1. c \notin missed  BY <2>3 DEF Settled
    <3> QED  BY <2>2, <2>3, <3>1 DEF MissedInv, SettledRight
  <2>4. CASE ~Settled(c)
    <3>1. PICK w \in Workers : Busy(w, c)  BY <2>4 DEF Settled, Busy
    <3>2. ~Busy(w, c)'  BY DEF Settled, Busy
    <3> QED  BY <2>1, <2>2, <3>1, <3>2 DEF Sound, Minds
  <2> QED  BY <2>3, <2>4
<1> QED  BY <1>2, <1>3 DEF MissedInv

(* A request that is dropped is missed, and nothing else.                  *)
LEMMA DroppedMissed ==
  ASSUME MissedInv, DriftInv', NEW w \in Workers, NEW d \in Components, Dropped(w, d)
  PROVE  MissedInv'
<1>1. /\ queue'[w] = queue[w] \ {d}
      /\ \A v \in Workers \ {w} : queue'[v] = queue[v]
  BY DroppedKnown DEF MissedInv, DriftInv
<1>2. UNCHANGED <<cr, res, rc>> /\ missed' = missed \cup {d}  BY DEF Dropped
<1>3. \A v \in Workers, c \in Components \ {d} : c \in queue'[v] <=> c \in queue[v]
  BY <1>1
<1>4. UnusedNoticed'
  <2> SUFFICES ASSUME NEW r \in res, Unwanted(r), r.owner.comp \notin missed \cup {d}
               PROVE  \E v \in Workers : Attends(v, r)'
    BY <1>2 DEF UnusedNoticed, Unwanted, EnabledModes
  <2>1. r.owner.comp \in Components  BY TypesKnown DEF MissedInv, DriftInv
  <2>2. PICK v \in Workers : Attends(v, r)  BY DEF MissedInv, UnusedNoticed
  <2> QED  BY <1>2, <1>3, <2>1, <2>2 DEF Attends
<1>5. SettledRight'
  <2> SUFFICES ASSUME NEW c \in Components, c \notin missed \cup {d}, Settled(c)'
               PROVE  Fine(c)'
    BY <1>2 DEF SettledRight
  <2>1. Settled(c)  BY <1>2, <1>3 DEF Settled
  <2> QED  BY <1>2, <2>1 DEF MissedInv, SettledRight, Fine, AddressesFit, EnabledModes
<1> QED  BY <1>4, <1>5 DEF MissedInv

(* A resource without the labels of an owner is nobody's to prune.         *)
LEMMA TamperMissed ==
  ASSUME MissedInv, DriftInv', NEW r \in res, Tamper(r)
  PROVE  MissedInv'
<1> DEFINE u == Unlabelled(r)
<1>1. /\ UNCHANGED <<cr, queue, rc>> /\ r.owner.comp \in Components
      /\ u.owner = [comp |-> r.owner.comp, inc |-> 0]
      /\ \A x \in res' : x \in res \/ x = u
  BY TamperKnown DEF MissedInv, DriftInv
<1>2. missed' = missed  BY DEF Tamper
<1> HIDE DEF u
<1>3. ~Unwanted(u)  BY <1>1 DEF Unwanted, MissedInv, DriftInv, Counted
<1>4. UnusedNoticed'
  <2> SUFFICES ASSUME NEW x \in res', Unwanted(x), x.owner.comp \notin missed
               PROVE  \E v \in Workers : Attends(v, x)'
    BY <1>1, <1>2 DEF UnusedNoticed, Unwanted, EnabledModes
  <2>1. PICK v \in Workers : Attends(v, x)
    BY <1>1, <1>3 DEF MissedInv, UnusedNoticed
  <2> QED  BY <1>1, <2>1 DEF Attends
<1>5. SettledRight'
  BY <1>1, <1>2 DEF MissedInv, SettledRight, Settled, Fine, AddressesFit, EnabledModes
<1> QED  BY <1>4, <1>5 DEF MissedInv

LEMMA MissedInvKept ==
  ASSUME Watched
  PROVE  MissedInv /\ [DriftNext]_driftVars => MissedInv'
<1> SUFFICES ASSUME MissedInv, [DriftNext]_driftVars  PROVE MissedInv'  OBVIOUS
<1>1. KnownInv /\ DriftInv'  BY DriftInvKept DEF MissedInv, DriftInv
<1>2. ASSUME [Next]_vars, missed' = missed  PROVE MissedInv'
  BY <1>1, <1>2, NextSound, MissedKept
<1>3. ASSUME NEW w \in Workers, Works(w), Strikes(w)  PROVE MissedInv'
  <2>1. Sound  BY <1>1, <1>3, WorksIsNext, NextSound
  <2>2. \A c \in missed \ missed' : \E v \in Workers : c \in queue[v]
    BY <1>3 DEF Strikes, Fetch
  <2> QED  BY <1>1, <2>1, <2>2, MissedKept
<1> QED  BY <1>1, <1>2, <1>3, DriftCases, UserIsNext, DroppedMissed, TamperMissed

(* What a deactivated controller loses is what it drops: any component     *)
(* without a dropped request, and any that was reconciled since, is as     *)
(* right as if nothing had been deactivated.  Reconcile looks at the flag  *)
(* only when it starts (controller.go:61-65), and a reconcile that starts  *)
(* needs nothing of those before it.                                       *)
THEOREM OnlyDropsAreMissed ==
  ASSUME Watched
  PROVE  DriftSpec => []OnlyDroppedIsMissed
<1>1. DriftInit => MissedInv
  <2> SUFFICES ASSUME DriftInit  PROVE MissedInv  OBVIOUS
  <2>1. res = {} /\ \A c \in Components : cr[c].phase = "absent"
    BY DEF DriftInit, Init, NoObject
  <2> QED  BY <2>1, InitDrift DEF MissedInv, UnusedNoticed, SettledRight, Fine
<1>2. MissedInv /\ [DriftNext]_driftVars => MissedInv'  BY MissedInvKept
<1>3. MissedInv => OnlyDroppedIsMissed
  <2> SUFFICES ASSUME MissedInv, NEW c \in Components, c \notin missed, Settled(c)
               PROVE  /\ cr[c].phase = "live" => UnusedGone(c) /\ AddressesFit(c)
                      /\ cr[c].phase = "terminating" => EnabledModes(c) = {}
    BY DEF OnlyDroppedIsMissed
  <2>1. Fine(c)  BY DEF MissedInv, SettledRight
  <2>2. ASSUME cr[c].phase = "live", NEW r \in Owned(c), r.type \notin EnabledModes(c)
        PROVE  FALSE
    <3>1. r \in res /\ r.owner.comp = c /\ Unwanted(r)  BY <2>2 DEF Owned, Unwanted
    <3>2. PICK w \in Workers : Attends(w, r)  BY <3>1 DEF MissedInv, UnusedNoticed
    <3> QED  BY <3>1, <3>2 DEF Attends, Settled
  <2> QED  BY <2>1, <2>2 DEF Fine, UnusedGone
<1> QED  BY <1>1, <1>2, <1>3, PTL DEF DriftSpec

-------------------------------------------------------------------------------
(* What is repaired.  A reconcile cannot be relied on to find what it has  *)
(* made when others have touched the resources of its component since it   *)
(* started; but the next one starts anew.                                  *)

RepairInv ==
  /\ DriftInv
  /\ OwnInv
  /\ \A w \in Workers : rc[w].comp \notin drifted => Progress(res, rc[w])
  /\ RepairedByReconcile

(* Others leave alone what they do not touch.                              *)
LEMMA TamperSafe ==
  ASSUME KnownInv, NEW r \in res, Tamper(r), NEW d, d # r.owner.comp
  PROVE  Safe(d)
<1> SUFFICES ASSUME NEW m \in AllRouteTypes, NEW e \in Endpoint, NEW k \in Kinds
             PROVE  /\ \A n \in Nat : LET x == Needed([comp |-> d, inc |-> n], m, e, k)
                                      IN x \in res => x \in res'
                    /\ LET i == [mode |-> m, kind |-> k, name |-> PublicServiceName[e]]
                       IN (\A x \in res : Identity(x) # i) => (\A x \in res' : Identity(x) # i)
  BY DEF Safe
<1>1. /\ Identity(Unlabelled(r)) = Identity(r)
      /\ \A x \in res' : x \in res \/ x = Unlabelled(r)
      /\ \A x \in res : x \in res' \/ x = r
  BY TamperKnown
<1>2. ASSUME NEW n \in Nat, Needed([comp |-> d, inc |-> n], m, e, k) \in res
      PROVE  Needed([comp |-> d, inc |-> n], m, e, k) \in res'
  <2> DEFINE x == Needed([comp |-> d, inc |-> n], m, e, k)
  <2>1. x.owner.comp = d  BY NeededFields
  <2> HIDE DEF x
  <2>2. x # r  BY <2>1
  <2>3. x \in res'  BY <1>1, <1>2, <2>2 DEF x
  <2> QED  BY <2>3 DEF x
<1>3. ASSUME NEW i, \A x \in res : Identity(x) # i, NEW x \in res'
      PROVE  Identity(x) # i
  BY <1>1, <1>3
<1> QED  BY <1>2, <1>3

LEMMA TamperRepair ==
  ASSUME RepairInv, DriftInv', NEW r \in res, Tamper(r)
  PROVE  RepairInv'
<1>1. KnownInv /\ OwnInv  BY DEF RepairInv, DriftInv
<1>2. UNCHANGED <<cr, queue, rc>> /\ r.owner.comp \in Components
  BY <1>1, TamperKnown
<1>3. missed' = missed /\ drifted' = drifted \cup {r.owner.comp}  BY DEF Tamper
<1>4. OwnInv'  BY <1>1, <1>2 DEF OwnInv, OwnAddresses, Owns
<1>5. ASSUME NEW v \in Workers, rc'[v].comp \notin drifted'
      PROVE  Progress(res', rc'[v])
  <2>1. rc'[v] = rc[v] /\ rc[v].comp \notin drifted /\ rc[v].comp # r.owner.comp
    BY <1>2, <1>3, <1>5
  <2>2. OnlyAges(v) /\ Owns(rc[v]) /\ Progress(res, rc[v])
    BY <1>1, <2>1 DEF OnlyAges, OwnInv, RepairInv
  <2>3. Safe(rc[v].comp)  BY <1>1, <2>1, TamperSafe
  <2> QED  BY <1>1, <2>2, <2>3, WaitsServes
<1>6. RepairedByReconcile'
  <2> SUFFICES ASSUME NEW c \in Components, c \notin missed', c \notin drifted',
                      cr'[c].phase = "live", Settled(c)'
               PROVE  Served(c)'
    BY DEF RepairedByReconcile
  <2>1. c \notin missed \cup drifted /\ c # r.owner.comp  BY <1>3
  <2>2. Settled(c) /\ cr'[c] = cr[c]  BY <1>2 DEF Settled
  <2>3. Served(c)  BY <2>1, <2>2 DEF RepairInv, RepairedByReconcile
  <2>4. Safe(c)  BY <1>1, <2>1, TamperSafe
  <2> QED  BY <1>1, <2>2, <2>3, <2>4, StaysServed DEF OwnInv
<1> QED  BY <1>4, <1>5, <1>6 DEF RepairInv

LEMMA DroppedRepair ==
  ASSUME RepairInv, DriftInv', NEW w \in Workers, NEW d \in Components, Dropped(w, d)
  PROVE  RepairInv'
<1>1. /\ queue'[w] = queue[w] \ {d}
      /\ \A v \in Workers \ {w} : queue'[v] = queue[v]
  BY DroppedKnown DEF RepairInv, DriftInv
<1>2. /\ UNCHANGED <<cr, res, rc>> /\ drifted' = drifted
      /\ missed' = missed \cup {d}
  BY DEF Dropped
<1>3. OwnInv'  BY <1>2 DEF RepairInv, OwnInv, OwnAddresses, Owns
<1>4. \A v \in Workers : rc'[v].comp \notin drifted' => Progress(res', rc'[v])
  BY <1>2 DEF RepairInv
<1>5. RepairedByReconcile'
  <2> SUFFICES ASSUME NEW c \in Components, c \notin missed', c \notin drifted',
                      cr'[c].phase = "live", Settled(c)'
               PROVE  Served(c)'
    BY DEF RepairedByReconcile
  <2>1. Settled(c)  BY <1>1, <1>2 DEF Settled
  <2> QED  BY <1>2, <2>1 DEF RepairInv, RepairedByReconcile, Served
<1> QED  BY <1>3, <1>4, <1>5 DEF RepairInv

LEMMA WorksRepair ==
  ASSUME RepairInv, Apart, Watched, OwnNames, DriftInv',
         NEW w \in Workers, Works(w), Strikes(w)
  PROVE  RepairInv'
<1>1. KnownInv /\ OwnInv  BY DEF RepairInv, DriftInv
<1>2. Sound  BY <1>1, WorksIsNext, NextSound
<1>3. Serves(w) /\ \A c \in Components : OwnAddresses(c)'  BY <1>1, WorksServes
<1>4. \A v \in Workers \ {w} :
        /\ Owns(rc'[v]) /\ rc'[v].comp = rc[v].comp
        /\ rc[v].comp \notin drifted' => Serves(v)
  BY <1>1, OthersServe, NotRobbed
<1>5. OwnInv'  BY <1>3, <1>4 DEF OwnInv, Serves
<1>6. \A c \in drifted \ drifted' : c \in Components /\ Fetch(w, c)
  BY DEF RepairInv, DriftInv, DriftTypeOK, Strikes
<1>7. ASSUME NEW v \in Workers, rc'[v].comp \notin drifted'
      PROVE  Progress(res', rc'[v])
  <2>1. CASE v # w
    <3>1. rc[v].comp \notin drifted
      <4> SUFFICES ASSUME rc[v].comp \in drifted  PROVE FALSE  OBVIOUS
      <4>1. rc[v].comp \in Components /\ Fetch(w, rc[v].comp)
        BY <1>4, <1>6, <1>7, <2>1
      <4>2. rc[v].comp \in Handles[w]  BY <1>1, <4>1, TypesKnown DEF Fetch
      <4>3. rc[v].comp \in Handles[v]
        BY <1>1, <4>1, ConstantsAssumption, TypesKnown
      <4> QED  BY <2>1, <4>1, <4>2, <4>3 DEF Apart
    <3> QED  BY <1>4, <1>7, <2>1, <3>1 DEF RepairInv, Serves
  <2>2. CASE v = w /\ rc[w].pc = "idle"
    <3>1. rc[w].comp \notin drifted
      BY <1>1, <2>2, ConstantsAssumption, TypesKnown
      DEF RepairInv, DriftInv, DriftTypeOK
    <3> QED  BY <1>3, <2>2, <3>1 DEF RepairInv, Serves
  <2>3. CASE v = w /\ rc[w].pc # "idle"
    <3>1. drifted \subseteq drifted'  BY <2>3 DEF Strikes, Fetch
    <3>2. CASE rc'[w].comp = rc[w].comp
      BY <1>3, <1>7, <2>3, <3>1, <3>2 DEF RepairInv, Serves
    <3>3. CASE rc'[w] = Idle  BY <2>3, <3>3, IdleServes
    <3> QED  BY <1>1, <2>3, <3>2, <3>3, StaysOn
  <2> QED  BY <2>1, <2>2, <2>3
<1>8. RepairedByReconcile'
  <2> SUFFICES ASSUME NEW c \in Components, c \notin missed', c \notin drifted',
                      cr'[c].phase = "live", Settled(c)'
               PROVE  Served(c)'
    BY DEF RepairedByReconcile
  <2>1. cr'[c] = cr[c]  BY <1>2 DEF Settled, Sound, Told, Watched
  <2>2. c \notin missed /\ c \notin drifted
    <3> SUFFICES ASSUME Fetch(w, c)  PROVE FALSE  BY DEF Strikes
    <3>1. Busy(w, c)  BY DEF Fetch, Busy
    <3>2. Busy(w, c)'  BY <1>1, <2>1, <3>1, FetchBusy
    <3> QED  BY <3>2 DEF Settled, Busy
  <2>3. Settled(c) => Served(c)  BY <2>1, <2>2 DEF RepairInv, RepairedByReconcile
  <2>4. rc[w].comp = c => Progress(res, rc[w])  BY <2>2 DEF RepairInv
  <2>5. rc[w].comp # c => Spares(w, c)  BY NotRobbed
  <2> QED  BY <1>1, <1>2, <2>3, <2>4, <2>5, WorksAdvertise
<1> QED  BY <1>5, <1>7, <1>8 DEF RepairInv

(* What nobody does to a resource.                                         *)
LEMMA RestsRepair ==
  ASSUME RepairInv, Watched, DriftInv', Sound, UNCHANGED <<res, missed, drifted>>,
         \A v \in Workers : Waits(v), \A c \in Components : OwnAddresses(c)'
  PROVE  RepairInv'
<1>1. KnownInv /\ OwnInv  BY DEF RepairInv, DriftInv
<1>2. \A v \in Workers : Serves(v) /\ rc'[v].comp = rc[v].comp  BY <1>1, RestsServe
<1>3. OwnInv'  BY <1>2 DEF OwnInv, Serves
<1>4. \A v \in Workers : rc'[v].comp \notin drifted' => Progress(res', rc'[v])
  BY <1>2 DEF RepairInv, Serves
<1>5. RepairedByReconcile'
  <2> SUFFICES ASSUME NEW c \in Components, c \notin missed, c \notin drifted,
                      cr'[c].phase = "live", Settled(c)'
               PROVE  Served(c)'
    BY DEF RepairedByReconcile
  <2>1. cr'[c] = cr[c]  BY DEF Settled, Sound, Told, Watched
  <2>2. Settled(c) => Served(c)  BY <2>1 DEF RepairInv, RepairedByReconcile
  <2> QED  BY <1>1, <2>2, RestsAdvertise
<1> QED  BY <1>3, <1>4, <1>5 DEF RepairInv

LEMMA RepairInvKept ==
  ASSUME Apart, Watched, OwnNames
  PROVE  RepairInv /\ [DriftNext]_driftVars => RepairInv'
<1> SUFFICES ASSUME RepairInv, [DriftNext]_driftVars  PROVE RepairInv'  OBVIOUS
<1>1. KnownInv /\ OwnInv /\ DriftInv'  BY DriftInvKept DEF RepairInv, DriftInv
<1>2. ASSUME NEW c \in Components, User(c), UNCHANGED <<missed, drifted>>
      PROVE  RepairInv'
  <2>1. Sound  BY <1>1, <1>2, UserIsNext, NextSound
  <2>2. /\ UNCHANGED res
        /\ \A v \in Workers : Waits(v)
        /\ \A d \in Components : OwnAddresses(d)'
    BY <1>1, <1>2, UserWaits
  <2> QED  BY <1>1, <1>2, <2>1, <2>2, RestsRepair
<1>3. ASSUME [Next]_vars, UNCHANGED <<missed, drifted, cr, res, queue, rc>>
      PROVE  RepairInv'
  <2>1. Sound  BY <1>1, <1>3, NextSound
  <2>2. \A v \in Workers : Waits(v)  BY <1>3 DEF Waits, OnlyAges
  <2>3. \A d \in Components : OwnAddresses(d)'
    BY <1>1, <1>3 DEF OwnInv, OwnAddresses
  <2> QED  BY <1>1, <1>3, <2>1, <2>2, <2>3, RestsRepair
<1> QED
  BY <1>1, <1>2, <1>3, DriftCases, WorksRepair, DroppedRepair, TamperRepair

(* One reconcile repairs what others have done to the resources of a       *)
(* component before it started: every address written on a live object is  *)
(* served again when the controller is done, whichever resources were      *)
(* removed or lost their labels, since Apply looks for each of them by     *)
(* name and creates it or writes it over (unstruct/funcs.go:15-60).        *)
THEOREM ReconcileRepairs ==
  ASSUME Apart, Watched, OwnNames
  PROVE  DriftSpec => []RepairedByReconcile
<1>1. DriftInit => RepairInv
  <2> SUFFICES ASSUME DriftInit  PROVE RepairInv  OBVIOUS
  <2>1. ServedInv  BY InitServed DEF DriftInit
  <2> QED
    BY <2>1, InitDrift
    DEF RepairInv, ServedInv, AdvertisedIsServed, RepairedByReconcile
<1>2. RepairInv /\ [DriftNext]_driftVars => RepairInv'  BY RepairInvKept
<1>3. RepairInv => RepairedByReconcile  BY DEF RepairInv
<1> QED  BY <1>1, <1>2, <1>3, PTL DEF DriftSpec
===============================================================================
