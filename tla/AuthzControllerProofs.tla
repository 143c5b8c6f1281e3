-------------------------- MODULE AuthzControllerProofs --------------------------
(***************************************************************************)
(* Proofs about AuthzController: types; that an Update of a child keeps    *)
(* the owner references it finds; that a child that does not fit its CR is *)
(* never forgotten; and that the children of a CR fit it when the          *)
(* controller is done.                                                     *)
(***************************************************************************)
EXTENDS AuthzController, FiniteSetTheorems, TLAPS

(* A reconcile that is running works for a component.                      *)
Working  == \A w \in Workers : rc[w].pc # "idle" => rc[w].comp \in Components
TypeInv  == TypeOK /\ Working

(* A record that Advance may store.                                        *)
WellFormed(u) == u \in Reconcile /\ (u.pc # "idle" => u.comp \in Components)

-------------------------------------------------------------------------------
(* The operators on records.                                               *)

LEMMA ExtractorType ==
  ASSUME NEW target \in Target
  PROVE  UnifiedHostExtractor(target).hosts \subseteq Hosts
<1> DEFINE results == {NewPathExpressionExtractor(target), NewAnnotationHostExtractor(target)}
           texts   == UNION {x.texts : x \in {y \in results : ~y.err}}
<1>1. \A x \in results : x.texts \subseteq Texts
  BY DEF NewPathExpressionExtractor, NewAnnotationHostExtractor, Target
<1>2. texts \subseteq Texts  BY <1>1
<1>3. UnifiedHostExtractor(target).hosts = {HostOf[s] : s \in texts}
  BY DEF UnifiedHostExtractor
<1> HIDE DEF texts
<1> QED  BY <1>2, <1>3, HostExtractionAssumption

LEMMA ConfigType ==
  ASSUME NEW x \in Content, NEW d \in createAuthConfig(x)
  PROVE  d \in ChildSpec
<1> DEFINE H == UnifiedHostExtractor(x.target).hosts
           a == Detect(x.auth)
           ls == ConfigLabels[x.labels]
<1>1. H \subseteq Hosts  BY ExtractorType DEF Content
<1>2. SetToSeqs(H) \subseteq SetToAllKPermutations(Hosts)
  BY <1>1 DEF SetToAllKPermutations
<1>3. PICK q \in SetToSeqs(H) : d = [Load(a) EXCEPT !.hosts = q, !.labels = ls]
  BY DEF createAuthConfig
<1>4. a \in AuthTypes  BY DEF Detect, AuthTypes
<1>5. ls \in {ConfigLabels[y] : y \in Labellings}  BY DEF Content
<1> HIDE DEF H, a, ls
<1>6. d = [auth |-> a, hosts |-> q, labels |-> ls]  BY <1>3 DEF Load
<1> QED  BY <1>2, <1>4, <1>5, <1>6 DEF AuthConfigSpec, ChildSpec

LEMMA SelectorType ==
  ASSUME NEW x \in Content, NEW d \in createAuthzPolicy(x)
  PROVE  d \in ChildSpec
<1>1. PICK s \in ResolvedSelectors[x.fields] :
        d = [selector |-> s, labels |-> PolicyLabels[x.labels]]
  BY DEF createAuthzPolicy
<1>2. x.fields \in Fields /\ x.labels \in Labellings  BY DEF Content
<1> QED  BY <1>1, <1>2 DEF AuthPolicySpec, ChildSpec

LEMMA RecordErrorType ==
  ASSUME NEW u, WellFormed(u)
  PROVE  WellFormed(RecordError(u))
  BY DEF WellFormed, RecordError, Reconcile

(* Records to go on with, for the component of u.                          *)
WayOn(U, u) == \A v \in U : WellFormed(v) /\ v.comp = u.comp

LEMMA PolicyType ==
  ASSUME NEW u, WellFormed(u), u.comp \in Components
  PROVE  WayOn(reconcileAuthPolicy(u), u)
<1> SUFFICES ASSUME NEW v \in reconcileAuthPolicy(u)
             PROVE  WellFormed(v) /\ v.comp = u.comp
  BY DEF WayOn
<1>1. CASE v = End(RecordError(u))
  BY <1>1 DEF WellFormed, End, RecordError, Reconcile, PCs
<1>2. ASSUME NEW d \in createAuthzPolicy(u.tgt.content),
             v = [u EXCEPT !.pc = "get", !.kind = "AuthorizationPolicy", !.desired = d]
      PROVE  WellFormed(v) /\ v.comp = u.comp
  <2>1. u.tgt.content \in Content  BY DEF WellFormed, Reconcile, Object
  <2>2. d \in ChildSpec  BY <2>1, SelectorType
  <2> QED  BY <1>2, <2>2 DEF WellFormed, Reconcile, PCs, ChildKinds
<1> QED  BY <1>1, <1>2 DEF reconcileAuthPolicy

LEMMA DoneType ==
  ASSUME NEW u, WellFormed(u), u.comp \in Components
  PROVE  WayOn(Done(u), u)
<1> DEFINE v == [u EXCEPT !.found = NoChild, !.desired = NoSpec]
<1>1. WellFormed(v) /\ v.comp = u.comp
  BY DEF WellFormed, Reconcile, NoChild, Child, ChildSpec
<1>2. CASE u.kind = "AuthConfig"
  <2>1. Done(u) = reconcileAuthPolicy(v)  BY <1>2 DEF Done
  <2> HIDE DEF v
  <2> QED  BY <1>1, <2>1, PolicyType DEF WayOn
<1>3. CASE u.kind # "AuthConfig"
  <2>1. Done(u) = {End(v)}  BY <1>3 DEF Done
  <2>2. WellFormed(End(v)) /\ End(v).comp = u.comp
    BY <1>1 DEF WellFormed, End, Reconcile, PCs
  <2> QED  BY <2>1, <2>2 DEF WayOn
<1> QED  BY <1>2, <1>3

LEMMA EnterType ==
  ASSUME NEW u, WellFormed(u), u.comp \in Components
  PROVE  WayOn(reconcileAuthConfig(u), u)
<1>1. CASE UnifiedHostExtractor(u.tgt.content.target).err
  <2>1. reconcileAuthConfig(u) = reconcileAuthPolicy(RecordError(u))
    BY <1>1 DEF reconcileAuthConfig
  <2>2. RecordError(u).comp = u.comp  BY DEF RecordError, WellFormed, Reconcile
  <2> QED  BY <2>1, <2>2, RecordErrorType, PolicyType DEF WayOn
<1>2. CASE ~UnifiedHostExtractor(u.tgt.content.target).err
  <2> SUFFICES ASSUME NEW v \in reconcileAuthConfig(u)
               PROVE  WellFormed(v) /\ v.comp = u.comp
    BY DEF WayOn
  <2>1. PICK d \in createAuthConfig(u.tgt.content) : v = [u EXCEPT !.pc = "get", !.desired = d]
    BY <1>2 DEF reconcileAuthConfig
  <2>2. u.tgt.content \in Content  BY DEF WellFormed, Reconcile, Object
  <2>3. d \in ChildSpec  BY <2>1, <2>2, ConfigType
  <2> QED  BY <2>1, <2>3 DEF WellFormed, Reconcile, PCs
<1> QED  BY <1>1, <1>2

LEMMA BlankType == Blank \in Content
<1>1. <<>> \in [{} -> SUBSET Texts]  OBVIOUS
<1> QED  BY <1>1, AuthTemplatesAssumption DEF Blank, Content, Target

LEMMA IdleType == WellFormed(Idle)
<1>2. NoObject \in Object  BY BlankType DEF NoObject, Object
<1> QED  BY <1>2 DEF WellFormed, Idle, Reconcile, PCs, ChildKinds, ChildSpec, NoChild, Child

-------------------------------------------------------------------------------
(* The parts of an action.                                                 *)

LEMMA AdvanceType ==
  ASSUME TypeInv, NEW w \in Workers, NEW u, WellFormed(u), Advance(w, u)
  PROVE  rc' \in [Workers -> Reconcile] /\ Working'
<1>1. rc' \in [Workers -> Reconcile]
  BY DEF TypeInv, TypeOK, Advance, WellFormed
<1>2. ASSUME NEW v \in Workers, rc'[v].pc # "idle" PROVE rc'[v].comp \in Components
  BY <1>2 DEF TypeInv, TypeOK, Working, Advance, WellFormed
<1> QED  BY <1>1, <1>2 DEF Working

LEMMA ContinueType ==
  ASSUME TypeInv, NEW w \in Workers, NEW t, t.comp \in Components,
         NEW U, WayOn(U, t), Continue(w, U)
  PROVE  /\ rc' \in [Workers -> Reconcile] /\ Working'
         /\ queue' \in [Workers -> SUBSET Components]
<1>0. PICK u \in U :
        \/ u.pc # "end" /\ Advance(w, u) /\ UNCHANGED queue
        \/ /\ Advance(w, Idle)
           /\ queue' = [queue EXCEPT ![w] = IF u.err THEN @ \cup {u.comp} ELSE @]
  BY DEF Continue
<1> WellFormed(u) /\ u.comp \in Components  BY DEF WayOn
<1>1. CASE u.pc # "end" /\ Advance(w, u) /\ UNCHANGED queue
  BY <1>1, AdvanceType DEF TypeInv, TypeOK
<1>2. CASE /\ Advance(w, Idle)
           /\ queue' = [queue EXCEPT ![w] = IF u.err THEN @ \cup {u.comp} ELSE @]
  <2>1. queue' \in [Workers -> SUBSET Components]  BY <1>2 DEF TypeInv, TypeOK
  <2> QED  BY <1>2, <2>1, AdvanceType, IdleType
<1> QED  BY <1>0, <1>1, <1>2

LEMMA FaultType ==
  ASSUME TypeInv, Fault
  PROVE  faults' \in 0..MaxFaults
  BY AuthzAssumption DEF TypeInv, TypeOK, Fault

LEMMA StoreType ==
  ASSUME TypeInv, NEW k \in ChildKinds, NEW n \in Names, NEW x \in Child, Store(k, n, x)
  PROVE  /\ child' \in [ChildKinds -> [Names -> Child]]
         /\ lag' \in [Workers -> [ChildKinds -> [Names -> SUBSET (Components \cup {NoComponent})]]]
         /\ fresh' \in [Workers -> BOOLEAN]
<1>1. \A y \in Child : OwnerName(y) \in Components \cup {NoComponent}
  BY DEF Child, OwnerName, Uid
<1>2. child[k][n] \in Child  BY DEF TypeInv, TypeOK
<1>3. child' \in [ChildKinds -> [Names -> Child]]  BY DEF TypeInv, TypeOK, Store
<1>4. \A w \in Workers :
        lag'[w] \in [ChildKinds -> [Names -> SUBSET (Components \cup {NoComponent})]]
  BY <1>1, <1>2 DEF TypeInv, TypeOK, Store
<1>5. lag' = [w \in Workers |-> lag'[w]]  BY DEF Store
<1>6. fresh' \in [Workers -> BOOLEAN]  BY DEF TypeInv, TypeOK, Store
<1> QED  BY <1>3, <1>4, <1>5, <1>6

(* The worker part of the types, and the rest.                             *)
WorkerTypes == /\ rc \in [Workers -> Reconcile] /\ Working
               /\ queue \in [Workers -> SUBSET Components]

LEMMA RunningType ==
  ASSUME TypeInv, NEW w \in Workers, rc[w].pc # "idle"
  PROVE  /\ WellFormed(rc[w]) /\ rc[w].comp \in Components
         /\ Name(rc[w]) \in Names /\ rc[w].kind \in ChildKinds
         /\ WayOn(Done(rc[w]), rc[w])
         /\ WayOn(Done(RecordError(rc[w])), rc[w])
<1>1. WellFormed(rc[w]) /\ rc[w].comp \in Components
  BY DEF TypeInv, TypeOK, Working, WellFormed
<1>2. RecordError(rc[w]).comp = rc[w].comp  BY <1>1 DEF RecordError, WellFormed, Reconcile
<1>3. Name(rc[w]) \in Names /\ rc[w].kind \in ChildKinds
  BY <1>1 DEF Name, Names, WellFormed, Reconcile
<1>4. WayOn(Done(rc[w]), rc[w])  BY <1>1, DoneType
<1>5. WayOn(Done(RecordError(rc[w])), RecordError(rc[w]))
  BY <1>1, <1>2, DoneType, RecordErrorType
<1> QED  BY <1>1, <1>2, <1>3, <1>4, <1>5 DEF WayOn

LEMMA OnErrorType ==
  ASSUME TypeInv, NEW w \in Workers, rc[w].pc # "idle", OnError(w)
  PROVE  WorkerTypes' /\ faults' \in 0..MaxFaults
<1>1. Continue(w, Done(RecordError(rc[w]))) /\ Fault  BY DEF OnError
<1> QED  BY <1>1, RunningType, ContinueType, FaultType DEF WorkerTypes

LEMMA DoneStepType ==
  ASSUME TypeInv, NEW w \in Workers, rc[w].pc # "idle",
         \/ Continue(w, Done(rc[w]))
         \/ Continue(w, Done(RecordError(rc[w])))
  PROVE  WorkerTypes'
  BY RunningType, ContinueType DEF WorkerTypes

LEMMA AdvanceStepType ==
  ASSUME TypeInv, NEW w \in Workers, NEW u, WellFormed(u), Advance(w, u), UNCHANGED queue
  PROVE  WorkerTypes'
  BY AdvanceType DEF WorkerTypes, TypeInv, TypeOK

-------------------------------------------------------------------------------
(* One lemma per action.                                                   *)

LEMMA FetchType ==
  ASSUME TypeInv, NEW w \in Workers, NEW c \in Components, Fetch(w, c)
  PROVE  TypeInv'
<1> DEFINE t == [Idle EXCEPT !.comp = c, !.tgt = cr[c]]
<1>1. UNCHANGED <<cr, child, seen, lag, fresh, faults>>  BY DEF Fetch
<1>2. CASE UNCHANGED rc /\ queue' = [queue EXCEPT ![w] = @ \ {c}]
  BY <1>1, <1>2 DEF TypeInv, TypeOK, Working
<1>3. CASE \E u \in reconcileAuthConfig(t) :
             /\ Advance(w, IF u.pc = "end" THEN Idle ELSE u)
             /\ queue' = IF u.pc = "end" /\ u.err THEN queue
                         ELSE [queue EXCEPT ![w] = @ \ {c}]
  <2>1. PICK u \in reconcileAuthConfig(t) :
             /\ Advance(w, IF u.pc = "end" THEN Idle ELSE u)
             /\ queue' = IF u.pc = "end" /\ u.err THEN queue
                         ELSE [queue EXCEPT ![w] = @ \ {c}]
    BY <1>3
  <2>2. cr[c] \in Object  BY DEF TypeInv, TypeOK
  <2>3. WellFormed(t) /\ t.comp \in Components
    BY <2>2, IdleType DEF WellFormed, Reconcile, Idle
  <2>4. WellFormed(u)  BY <2>3, EnterType DEF WayOn
  <2>5. queue' \in [Workers -> SUBSET Components]  BY <2>1 DEF TypeInv, TypeOK
  <2>6. rc' \in [Workers -> Reconcile] /\ Working'
    BY <2>1, <2>4, IdleType, AdvanceType
  <2> QED  BY <1>1, <2>5, <2>6 DEF TypeInv, TypeOK
<1> QED  BY <1>2, <1>3 DEF Fetch

LEMMA GetType ==
  ASSUME TypeInv, NEW w \in Workers, Get(w)
  PROVE  TypeInv'
<1>1. rc[w].pc # "idle" /\ UNCHANGED <<cr, child, seen, lag, fresh, faults>>  BY DEF Get
<1>2. WellFormed([rc[w] EXCEPT !.pc = "create"]) /\ WellFormed([rc[w] EXCEPT !.pc = "reget"])
  BY <1>1, RunningType DEF WellFormed, Reconcile, PCs
<1>3. WorkerTypes'
  BY <1>1, <1>2, AdvanceStepType, DoneStepType DEF Get
<1> QED  BY <1>1, <1>3 DEF WorkerTypes, TypeInv, TypeOK, Working

LEMMA CreateType ==
  ASSUME TypeInv, NEW w \in Workers, Create(w)
  PROVE  TypeInv'
<1> DEFINE t == rc[w]
           x == [present |-> TRUE, owner |-> targetToOwnerRef(t), spec |-> t.desired]
<1>1. t.pc # "idle" /\ UNCHANGED <<cr, seen>>  BY DEF Create
<1>2. WellFormed(t) /\ t.comp \in Components /\ Name(t) \in Names /\ t.kind \in ChildKinds
  BY <1>1, RunningType
<1>3. x \in Child
  BY <1>2 DEF WellFormed, Reconcile, Object, Child, targetToOwnerRef, UidOf, Uid
<1>4. CASE Continue(w, Done(t)) /\ UNCHANGED <<child, lag, fresh, faults>>
  BY <1>1, <1>4, DoneStepType DEF WorkerTypes, TypeInv, TypeOK, Working
<1>5. CASE /\ Store(t.kind, Name(t), x)
           /\ \/ Continue(w, Done(t)) /\ UNCHANGED faults
              \/ OnError(w)
  <2>1. WorkerTypes' /\ faults' \in 0..MaxFaults
    BY <1>1, <1>5, DoneStepType, OnErrorType DEF TypeInv, TypeOK
  <2> HIDE DEF x
  <2>2. /\ child' \in [ChildKinds -> [Names -> Child]]
        /\ lag' \in [Workers -> [ChildKinds -> [Names -> SUBSET (Components \cup {NoComponent})]]]
        /\ fresh' \in [Workers -> BOOLEAN]
    BY <1>2, <1>3, <1>5, StoreType
  <2> QED  BY <1>1, <2>1, <2>2 DEF WorkerTypes, TypeInv, TypeOK, Working
<1> QED  BY <1>4, <1>5 DEF Create

LEMMA ReGetType ==
  ASSUME TypeInv, NEW w \in Workers, ReGet(w)
  PROVE  TypeInv'
<1> DEFINE t == rc[w]
           found == seen[w][t.kind][Name(t)]
<1>1. t.pc # "idle" /\ UNCHANGED <<cr, child, seen, lag, faults>>  BY DEF ReGet
<1>2. WellFormed(t) /\ t.comp \in Components /\ Name(t) \in Names /\ t.kind \in ChildKinds
  BY <1>1, RunningType
<1>3. found \in Child  BY <1>2 DEF TypeInv, TypeOK
<1>4. WellFormed([t EXCEPT !.pc = "update", !.found = found])
  BY <1>2, <1>3 DEF WellFormed, Reconcile, PCs
<1>5. WorkerTypes'
  BY <1>1, <1>4, AdvanceStepType, DoneStepType DEF ReGet
<1>6. fresh' \in [Workers -> BOOLEAN]  BY DEF ReGet, TypeInv, TypeOK, Synced
<1> QED  BY <1>1, <1>5, <1>6 DEF WorkerTypes, TypeInv, TypeOK, Working

LEMMA UpdateType ==
  ASSUME TypeInv, NEW w \in Workers, Update(w)
  PROVE  TypeInv'
<1> DEFINE t == rc[w]
           x == [t.found EXCEPT !.spec = t.desired]
           u == [t EXCEPT !.pc = "reget", !.found = NoChild]
<1>1. t.pc # "idle" /\ UNCHANGED <<cr, seen>>  BY DEF Update
<1>2. WellFormed(t) /\ t.comp \in Components /\ Name(t) \in Names /\ t.kind \in ChildKinds
  BY <1>1, RunningType
<1>3. x \in Child  BY <1>2 DEF WellFormed, Reconcile, Child
<1>4. WellFormed(u)
  BY <1>2 DEF WellFormed, Reconcile, PCs, Child, NoChild, ChildSpec
<1>5. \/ Continue(w, Done(RecordError(t))) /\ UNCHANGED faults
      \/ Advance(w, u) /\ UNCHANGED queue /\ UNCHANGED faults
      \/ Continue(w, Done(t)) /\ UNCHANGED faults
      \/ OnError(w)
  BY DEF Update, Rewritten
<1>6. WorkerTypes' /\ faults' \in 0..MaxFaults
  <2> HIDE DEF u
  <2> QED
    BY <1>1, <1>4, <1>5, DoneStepType, OnErrorType, AdvanceStepType DEF TypeInv, TypeOK
<1>7. \/ Store(t.kind, Name(t), x)
      \/ fresh' = [fresh EXCEPT ![w] = FALSE] /\ UNCHANGED <<child, lag>>
  BY DEF Update, Rewritten
<1>8. /\ child' \in [ChildKinds -> [Names -> Child]]
      /\ lag' \in [Workers -> [ChildKinds -> [Names -> SUBSET (Components \cup {NoComponent})]]]
      /\ fresh' \in [Workers -> BOOLEAN]
  <2>1. CASE Store(t.kind, Name(t), x)
    <3> HIDE DEF x
    <3> QED  BY <1>2, <1>3, <2>1, StoreType
  <2>2. CASE fresh' = [fresh EXCEPT ![w] = FALSE] /\ UNCHANGED <<child, lag>>
    BY <2>2 DEF TypeInv, TypeOK
  <2> QED  BY <1>7, <2>1, <2>2
<1> QED  BY <1>1, <1>6, <1>8 DEF WorkerTypes, TypeInv, TypeOK, Working

LEMMA ApiErrorType ==
  ASSUME TypeInv, NEW w \in Workers, ApiError(w)
  PROVE  TypeInv'
<1>1. rc[w].pc # "idle" /\ UNCHANGED <<cr, child, seen, lag>> /\ OnError(w)  BY DEF ApiError
<1>2. fresh' \in [Workers -> BOOLEAN]  BY DEF ApiError, TypeInv, TypeOK
<1> QED  BY <1>1, <1>2, OnErrorType DEF WorkerTypes, TypeInv, TypeOK, Working

LEMMA CrashType ==
  ASSUME TypeInv, NEW w \in Workers, Crash(w)
  PROVE  TypeInv'
<1>1. rc' \in [Workers -> Reconcile] /\ Working'  BY AdvanceType, IdleType DEF Crash
<1>2. faults' \in 0..MaxFaults  BY FaultType DEF Crash
<1>3. queue' \in [Workers -> SUBSET Components]
  BY AuthzAssumption DEF Crash, TypeInv, TypeOK
<1>4. /\ seen' \in [Workers -> [ChildKinds -> [Names -> Child]]]
      /\ fresh' \in [Workers -> BOOLEAN]
      /\ lag' \in [Workers -> [ChildKinds -> [Names -> SUBSET (Components \cup {NoComponent})]]]
  BY DEF Crash, TypeInv, TypeOK
<1> QED  BY <1>1, <1>2, <1>3, <1>4 DEF Crash, TypeInv, TypeOK

LEMMA SyncType ==
  ASSUME TypeInv, NEW w \in Workers, NEW k \in ChildKinds, NEW n \in Names, Sync(w, k, n)
  PROVE  TypeInv'
<1>1. Owns(w, k, n) \subseteq Components  BY AuthzAssumption DEF Owns
<1>2. queue' \in [Workers -> SUBSET Components]  BY <1>1 DEF Sync, TypeInv, TypeOK
<1>3. /\ seen' \in [Workers -> [ChildKinds -> [Names -> Child]]]
      /\ lag' \in [Workers -> [ChildKinds -> [Names -> SUBSET (Components \cup {NoComponent})]]]
  BY DEF Sync, TypeInv, TypeOK
<1> QED  BY <1>2, <1>3 DEF Sync, TypeInv, TypeOK, Working

LEMMA OthersStoreType ==
  ASSUME TypeInv, NEW k \in ChildKinds, NEW n \in Names, NEW x \in Child, Store(k, n, x),
         UNCHANGED <<cr, seen, queue, rc, faults>>
  PROVE  TypeInv'
  BY StoreType DEF TypeInv, TypeOK, Working

LEMMA CollectType ==
  ASSUME TypeInv, NEW k \in ChildKinds, NEW n \in Names, Collect(k, n)
  PROVE  TypeInv'
<1>1. NoChild \in Child  BY DEF NoChild, Child, ChildSpec
<1> QED  BY <1>1, OthersStoreType DEF Collect

LEMMA EditChildType ==
  ASSUME TypeInv, NEW k \in ChildKinds, NEW n \in Names, EditChild(k, n)
  PROVE  TypeInv'
<1>1. NoChild \in Child  BY DEF NoChild, Child, ChildSpec
<1>2. child[k][n] \in Child  BY DEF TypeInv, TypeOK
<1>3. /\ [child[k][n] EXCEPT !.spec = Edited] \in Child
      /\ [child[k][n] EXCEPT !.owner = NoOwner] \in Child
  BY <1>2 DEF Child, ChildSpec
<1> QED  BY <1>1, <1>3, OthersStoreType DEF EditChild

LEMMA UserType ==
  ASSUME TypeInv, NEW c \in Components, User(c)
  PROVE  TypeInv'
<1>1. \A obj \in Object : UserWrite(c, obj) => TypeInv'
  <2> SUFFICES ASSUME NEW obj \in Object, UserWrite(c, obj) PROVE TypeInv'
    OBVIOUS
  <2>1. cr' \in [Components -> Object]  BY DEF UserWrite, TypeInv, TypeOK
  <2>2. queue' \in [Workers -> SUBSET Components]
    BY DEF UserWrite, Watched, Notified, TypeInv, TypeOK
  <2> QED  BY <2>1, <2>2 DEF UserWrite, TypeInv, TypeOK, Working
<1>2. cr[c] \in Object  BY DEF TypeInv, TypeOK
<1>3. NoObject \in Object  BY BlankType DEF NoObject, Object
<1>4. ASSUME NEW x \in Contents, CreateCR(c, x) PROVE TypeInv'
  <2>1. [phase |-> "live", inc |-> cr[c].inc + 1, content |-> x] \in Object
    BY <1>2, AuthzAssumption DEF Object
  <2> QED  BY <1>1, <1>4, <2>1 DEF CreateCR
<1>5. ASSUME NEW x \in Contents, EditCR(c, x) PROVE TypeInv'
  <2>1. [cr[c] EXCEPT !.content = x] \in Object
    BY <1>2, AuthzAssumption DEF Object
  <2> QED  BY <1>1, <1>5, <2>1 DEF EditCR
<1>6. CASE DeleteCR(c)
  <2>1. [cr[c] EXCEPT !.phase = "terminating"] \in Object  BY <1>2 DEF Object
  <2> QED  BY <1>1, <1>6, <2>1 DEF DeleteCR
<1>7. CASE RemoveCR(c)
  <2>1. [NoObject EXCEPT !.inc = cr[c].inc] \in Object  BY <1>2, <1>3 DEF Object
  <2> QED  BY <1>1, <1>7, <2>1 DEF RemoveCR
<1>8. CASE TouchCR(c)  BY <1>1, <1>2, <1>8 DEF TouchCR
<1> QED  BY <1>4, <1>5, <1>6, <1>7, <1>8 DEF User

LEMMA NextType ==
  ASSUME TypeInv, [Next]_vars
  PROVE  TypeInv'
<1>1. CASE UNCHANGED vars  BY <1>1 DEF vars, TypeInv, TypeOK, Working
<1>2. ASSUME NEW w \in Workers, Step(w) PROVE TypeInv'
  BY <1>2, FetchType, GetType, CreateType, ReGetType, UpdateType DEF Step
<1>3. CASE Next
  BY <1>2, <1>3, ApiErrorType, CrashType, SyncType, CollectType, EditChildType, UserType
  DEF Next
<1> QED  BY <1>1, <1>3

LEMMA InitType == Init => TypeInv
<1> SUFFICES ASSUME Init PROVE TypeInv  OBVIOUS
<1>1. WellFormed(Idle)  BY IdleType
<1>2. NoObject \in Object  BY <1>1 DEF WellFormed, Reconcile, Idle
<1>3. NoChild \in Child  BY DEF NoChild, Child, ChildSpec
<1>4. rc \in [Workers -> Reconcile] /\ Working
  BY <1>1 DEF Init, WellFormed, Working, Idle
<1>5. faults \in 0..MaxFaults  BY AuthzAssumption DEF Init
<1> QED  BY <1>2, <1>3, <1>4, <1>5 DEF Init, TypeInv, TypeOK

(* Every variable keeps its type.                                          *)
THEOREM AuthzTypesHold == Spec => []TypeOK
<1>1. Init => TypeInv  BY InitType
<1>2. TypeInv /\ [Next]_vars => TypeInv'  BY NextType
<1>3. TypeInv => TypeOK  BY DEF TypeInv
<1> QED  BY <1>1, <1>2, <1>3, PTL DEF Spec

-------------------------------------------------------------------------------
(* What the cache shows and what a reconcile holds.                        *)

(* Without an undelivered change the cache shows what is stored.           *)
CacheIsCurrent ==
  \A w \in Workers, k \in ChildKinds, n \in Names :
    Synced(w, k, n) => seen[w][k][n] = child[k][n]

(* A copy whose resourceVersion is the stored one is what is stored.       *)
FreshIsCurrent ==
  \A w \in Workers :
    fresh[w] => /\ rc[w].pc = "update"
                /\ rc[w].found = child[rc[w].kind][Name(rc[w])]

CopyInv == TypeInv /\ CacheIsCurrent /\ FreshIsCurrent

(* Who changes a child makes all caches and copies of it outdated.         *)
LEMMA StoreOutdates ==
  ASSUME TypeInv, NEW k \in ChildKinds, NEW n \in Names, NEW x \in Child, Store(k, n, x)
  PROVE  /\ \A v \in Workers : ~Synced(v, k, n)'
         /\ \A v \in Workers, l \in ChildKinds, m \in Names :
              l # k \/ m # n => /\ child'[l][m] = child[l][m]
                                /\ lag'[v][l][m] = lag[v][l][m]
         /\ \A v \in Workers : fresh'[v] => /\ fresh[v]
                                            /\ rc[v].kind # k \/ Name(rc[v]) # n
<1>1. ASSUME NEW v \in Workers PROVE lag'[v][k][n] # {}
  <2>1. lag'[v][k][n] = lag[v][k][n] \cup {OwnerName(child[k][n]), OwnerName(x)}
    BY DEF Store, TypeInv, TypeOK
  <2> QED  BY <2>1
<1>2. ASSUME NEW v \in Workers, NEW l \in ChildKinds, NEW m \in Names, l # k \/ m # n
      PROVE  child'[l][m] = child[l][m] /\ lag'[v][l][m] = lag[v][l][m]
  <2>1. child'[l][m] = child[l][m]  BY <1>2 DEF Store, TypeInv, TypeOK
  <2>2. lag'[v][l][m] = lag[v][l][m]  BY <1>2 DEF Store, TypeInv, TypeOK
  <2> QED  BY <2>1, <2>2
<1>3. \A v \in Workers : fresh'[v] => fresh[v] /\ (rc[v].kind # k \/ Name(rc[v]) # n)
  BY DEF Store
<1>4. \A v \in Workers : ~Synced(v, k, n)'  BY <1>1 DEF Synced
<1> QED  BY <1>2, <1>3, <1>4

LEMMA StoreKeepsCache ==
  ASSUME TypeInv, CacheIsCurrent, UNCHANGED seen,
         NEW k \in ChildKinds, NEW n \in Names, NEW x \in Child, Store(k, n, x)
  PROVE  CacheIsCurrent'
<1> SUFFICES ASSUME NEW v \in Workers, NEW l \in ChildKinds, NEW m \in Names,
                    Synced(v, l, m)'
             PROVE  seen'[v][l][m] = child'[l][m]
  BY DEF CacheIsCurrent
<1>1. l # k \/ m # n  BY StoreOutdates
<1>2. Synced(v, l, m)  BY <1>1, StoreOutdates DEF Synced
<1>3. seen[v][l][m] = child[l][m]  BY <1>2 DEF CacheIsCurrent
<1> QED  BY <1>1, <1>3, StoreOutdates

(* Copies that stay fresh are of children that stay as they are.           *)
LEMMA StoreKeepsCopies ==
  ASSUME TypeInv, FreshIsCurrent, NEW S \in SUBSET Workers,
         NEW k \in ChildKinds, NEW n \in Names, NEW x \in Child, Store(k, n, x),
         \A v \in S : rc'[v] = rc[v]
  PROVE  \A v \in S : fresh'[v] => /\ rc'[v].pc = "update"
                                   /\ rc'[v].found = child'[rc'[v].kind][Name(rc'[v])]
<1> SUFFICES ASSUME NEW v \in S, fresh'[v]
             PROVE  /\ rc[v].pc = "update"
                    /\ rc[v].found = child'[rc[v].kind][Name(rc[v])]
  OBVIOUS
<1>1. fresh[v] /\ (rc[v].kind # k \/ Name(rc[v]) # n)  BY StoreOutdates
<1>2. rc[v].pc = "update" /\ rc[v].found = child[rc[v].kind][Name(rc[v])]
  BY <1>1 DEF FreshIsCurrent
<1>3. rc[v].kind \in ChildKinds /\ Name(rc[v]) \in Names  BY <1>2, RunningType
<1> QED  BY <1>1, <1>2, <1>3, StoreOutdates

(* A worker's call leaves the records of the other workers alone.          *)
LEMMA ContinueOthers ==
  ASSUME TypeInv, NEW w \in Workers, NEW u, Continue(w, u) \/ Advance(w, u)
  PROVE  \A v \in Workers \ {w} : rc'[v] = rc[v]
  BY DEF Continue, Advance, TypeInv, TypeOK

(* Steps that store nothing keep both, provided that w is not fresh after. *)
LEMMA QuietStep ==
  ASSUME CopyInv, NEW w \in Workers, UNCHANGED <<child, seen, lag>>,
         \A v \in Workers \ {w} : rc'[v] = rc[v] /\ fresh'[v] = fresh[v],
         ~fresh'[w]
  PROVE  CacheIsCurrent' /\ FreshIsCurrent'
<1>1. CacheIsCurrent'  BY DEF CopyInv, CacheIsCurrent, Synced
<1>2. ASSUME NEW v \in Workers, fresh'[v]
      PROVE  rc'[v].pc = "update" /\ rc'[v].found = child'[rc'[v].kind][Name(rc'[v])]
  <2>1. v \in Workers \ {w}  BY <1>2
  <2> QED  BY <1>2, <2>1 DEF CopyInv, FreshIsCurrent
<1> QED  BY <1>1, <1>2 DEF FreshIsCurrent

(* A step of w in which it stores a child and goes on.                     *)
LEMMA StoringStep ==
  ASSUME CopyInv, NEW w \in Workers, UNCHANGED seen,
         NEW x \in Child, Store(rc[w].kind, Name(rc[w]), x), rc[w].pc # "idle",
         \A v \in Workers \ {w} : rc'[v] = rc[v]
  PROVE  CacheIsCurrent' /\ FreshIsCurrent'
<1>1. TypeInv /\ CacheIsCurrent /\ FreshIsCurrent  BY DEF CopyInv
<1>2. rc[w].kind \in ChildKinds /\ Name(rc[w]) \in Names  BY <1>1, RunningType
<1>3. CacheIsCurrent'  BY <1>1, <1>2, StoreKeepsCache
<1>4. ~fresh'[w]  BY <1>1, <1>2, StoreOutdates
<1>5. \A v \in Workers \ {w} : fresh'[v] =>
        rc'[v].pc = "update" /\ rc'[v].found = child'[rc'[v].kind][Name(rc'[v])]
  BY <1>1, <1>2, StoreKeepsCopies
<1> QED  BY <1>3, <1>4, <1>5 DEF FreshIsCurrent

(* A step of others in which a child is stored.                            *)
LEMMA OthersStore ==
  ASSUME CopyInv, UNCHANGED <<seen, rc>>,
         NEW k \in ChildKinds, NEW n \in Names, NEW x \in Child, Store(k, n, x)
  PROVE  CacheIsCurrent' /\ FreshIsCurrent'
<1>1. TypeInv /\ CacheIsCurrent /\ FreshIsCurrent  BY DEF CopyInv
<1>2. CacheIsCurrent'  BY <1>1, StoreKeepsCache
<1>3. \A v \in Workers : fresh'[v] =>
        rc'[v].pc = "update" /\ rc'[v].found = child'[rc'[v].kind][Name(rc'[v])]
  <2>1. Workers \in SUBSET Workers /\ \A v \in Workers : rc'[v] = rc[v]  OBVIOUS
  <2> QED  BY <1>1, <2>1, StoreKeepsCopies
<1> QED  BY <1>2, <1>3 DEF FreshIsCurrent

-------------------------------------------------------------------------------
(* CopyInv is inductive.                                                   *)

(* Outside "update" no copy is fresh.                                      *)
LEMMA NotFresh ==
  ASSUME CopyInv, NEW w \in Workers, rc[w].pc # "update"
  PROVE  ~fresh[w]
  BY DEF CopyInv, FreshIsCurrent

LEMMA StepKeepsCopies ==
  ASSUME CopyInv, NEW w \in Workers, Step(w)
  PROVE  CacheIsCurrent' /\ FreshIsCurrent'
<1> DEFINE t == rc[w]
<1>0. TypeInv  BY DEF CopyInv
<1>1. ASSUME NEW c \in Components, Fetch(w, c) PROVE CacheIsCurrent' /\ FreshIsCurrent'
  <2>1. ~fresh[w]  BY <1>1, NotFresh DEF Fetch
  <2>2. UNCHANGED <<child, seen, lag, fresh>>  BY <1>1 DEF Fetch
  <2>3. \A v \in Workers \ {w} : rc'[v] = rc[v]
    BY <1>0, <1>1 DEF Fetch, Advance, TypeInv, TypeOK
  <2> QED  BY <2>1, <2>2, <2>3, QuietStep
<1>2. CASE Get(w)
  <2>1. ~fresh[w]  BY <1>2, NotFresh DEF Get
  <2>2. UNCHANGED <<child, seen, lag, fresh>>  BY <1>2 DEF Get
  <2>3. \A v \in Workers \ {w} : rc'[v] = rc[v]
    BY <1>0, <1>2, ContinueOthers DEF Get
  <2> QED  BY <2>1, <2>2, <2>3, QuietStep
<1>3. CASE Create(w)
  <2> DEFINE x == [present |-> TRUE, owner |-> targetToOwnerRef(t), spec |-> t.desired]
  <2>1. ~fresh[w] /\ t.pc # "idle"  BY <1>3, NotFresh DEF Create
  <2>2. \A v \in Workers \ {w} : rc'[v] = rc[v]
    BY <1>0, <1>3, ContinueOthers DEF Create, OnError
  <2>3. CASE UNCHANGED <<child, lag, fresh>>
    BY <1>3, <2>1, <2>2, <2>3, QuietStep DEF Create
  <2>4. CASE Store(t.kind, Name(t), x)
    <3>1. WellFormed(t) /\ t.comp \in Components  BY <1>0, <2>1, RunningType
    <3>2. x \in Child
      BY <3>1 DEF WellFormed, Reconcile, Object, Child, targetToOwnerRef, UidOf, Uid
    <3>3. UNCHANGED seen  BY <1>3 DEF Create
    <3> HIDE DEF x
    <3> QED  BY <2>1, <2>2, <2>4, <3>2, <3>3, StoringStep
  <2> QED  BY <1>3, <2>3, <2>4 DEF Create
<1>4. CASE ReGet(w)
  <2> DEFINE k == t.kind
             n == Name(t)
  <2>1. t.pc = "reget" /\ ~fresh[w] /\ UNCHANGED <<child, seen, lag>>
    BY <1>4, NotFresh DEF ReGet
  <2>2. k \in ChildKinds /\ n \in Names /\ t \in Reconcile
    BY <1>0, <2>1, RunningType DEF WellFormed
  <2>3. \A v \in Workers \ {w} : rc'[v] = rc[v]
    BY <1>0, <1>4, ContinueOthers DEF ReGet
  <2>4. \A v \in Workers \ {w} : fresh'[v] = fresh[v]
    BY <1>0, <1>4 DEF ReGet, TypeInv, TypeOK
  <2>5. CASE UNCHANGED fresh  BY <2>1, <2>3, <2>4, <2>5, QuietStep
  <2>6. CASE /\ Advance(w, [t EXCEPT !.pc = "update", !.found = seen[w][k][n]])
             /\ fresh' = [fresh EXCEPT ![w] = Synced(w, k, n)]
    <3>1. rc'[w] = [t EXCEPT !.pc = "update", !.found = seen[w][k][n]]
      BY <1>0, <2>6 DEF Advance, TypeInv, TypeOK
    <3>2. /\ rc'[w].pc = "update" /\ rc'[w].found = seen[w][k][n]
          /\ rc'[w].kind = k /\ Name(rc'[w]) = n
      BY <2>2, <3>1 DEF Reconcile, Name
    <3>3. fresh'[w] => Synced(w, k, n)  BY <1>0, <2>6 DEF TypeInv, TypeOK
    <3>4. fresh'[w] => rc'[w].found = child'[rc'[w].kind][Name(rc'[w])]
      BY <2>1, <2>2, <3>2, <3>3 DEF CopyInv, CacheIsCurrent
    <3>5. CacheIsCurrent'  BY <2>1 DEF CopyInv, CacheIsCurrent, Synced
    <3>6. ASSUME NEW v \in Workers \ {w}, fresh'[v]
          PROVE  rc'[v].pc = "update" /\ rc'[v].found = child'[rc'[v].kind][Name(rc'[v])]
      BY <2>1, <2>3, <2>4, <3>6 DEF CopyInv, FreshIsCurrent
    <3> QED  BY <3>2, <3>4, <3>5, <3>6 DEF FreshIsCurrent
  <2> QED  BY <1>4, <2>5, <2>6 DEF ReGet
<1>5. CASE Update(w)
  <2> DEFINE x == [t.found EXCEPT !.spec = t.desired]
  <2>1. t.pc # "idle" /\ UNCHANGED seen  BY <1>5 DEF Update
  <2>2. \A v \in Workers \ {w} : rc'[v] = rc[v]
    BY <1>0, <1>5, ContinueOthers DEF Update, OnError
  <2>3. CASE fresh' = [fresh EXCEPT ![w] = FALSE] /\ UNCHANGED <<child, lag>>
    <3>1. ~fresh'[w] /\ \A v \in Workers \ {w} : fresh'[v] = fresh[v]
      BY <1>0, <2>3 DEF TypeInv, TypeOK
    <3> QED  BY <2>1, <2>2, <2>3, <3>1, QuietStep
  <2>4. CASE Store(t.kind, Name(t), x)
    <3>1. x \in Child
      BY <1>0, <2>1, RunningType DEF WellFormed, Reconcile, Child
    <3> HIDE DEF x
    <3> QED  BY <2>1, <2>2, <2>4, <3>1, StoringStep
  <2> QED  BY <1>5, <2>3, <2>4 DEF Update, Rewritten
<1> QED  BY <1>1, <1>2, <1>3, <1>4, <1>5 DEF Step

LEMMA OthersKeepCopies ==
  ASSUME CopyInv, NEW k \in ChildKinds, NEW n \in Names, Collect(k, n) \/ EditChild(k, n)
  PROVE  CacheIsCurrent' /\ FreshIsCurrent'
<1>1. NoChild \in Child  BY DEF NoChild, Child, ChildSpec
<1>2. child[k][n] \in Child  BY DEF CopyInv, TypeInv, TypeOK
<1>3. /\ [child[k][n] EXCEPT !.spec = Edited] \in Child
      /\ [child[k][n] EXCEPT !.owner = NoOwner] \in Child
  BY <1>2 DEF Child, ChildSpec
<1> QED  BY <1>1, <1>3, OthersStore DEF Collect, EditChild

LEMMA CopyInvStep ==
  ASSUME CopyInv, [Next]_vars
  PROVE  CopyInv'
<1>0. TypeInv /\ TypeInv'  BY NextType DEF CopyInv
<1>1. CASE UNCHANGED vars
  BY <1>0, <1>1 DEF vars, CopyInv, CacheIsCurrent, FreshIsCurrent, Synced, Name
<1>2. ASSUME NEW w \in Workers, Step(w) PROVE CopyInv'
  BY <1>0, <1>2, StepKeepsCopies DEF CopyInv
<1>3. ASSUME NEW w \in Workers, ApiError(w) PROVE CopyInv'
  <2>1. \A v \in Workers \ {w} : rc'[v] = rc[v]
    BY <1>0, <1>3, ContinueOthers DEF ApiError, OnError
  <2>2. ~fresh'[w] /\ \A v \in Workers \ {w} : fresh'[v] = fresh[v]
    BY <1>0, <1>3 DEF ApiError, TypeInv, TypeOK
  <2> QED  BY <1>0, <1>3, <2>1, <2>2, QuietStep DEF ApiError, CopyInv
<1>4. ASSUME NEW w \in Workers, Crash(w) PROVE CopyInv'
  <2>1. \A v \in Workers \ {w} : /\ rc'[v] = rc[v] /\ fresh'[v] = fresh[v]
                                 /\ seen'[v] = seen[v] /\ lag'[v] = lag[v]
    BY <1>0, <1>4 DEF Crash, Advance, TypeInv, TypeOK
  <2>2. ~fresh'[w] /\ seen'[w] = child  BY <1>0, <1>4 DEF Crash, TypeInv, TypeOK
  <2>3. UNCHANGED child  BY <1>4 DEF Crash
  <2>4. CacheIsCurrent'  BY <2>1, <2>2, <2>3 DEF CopyInv, CacheIsCurrent, Synced
  <2>5. FreshIsCurrent'  BY <2>1, <2>2, <2>3 DEF CopyInv, FreshIsCurrent
  <2> QED  BY <1>0, <2>4, <2>5 DEF CopyInv
<1>5. ASSUME NEW w \in Workers, NEW k \in ChildKinds, NEW n \in Names, Sync(w, k, n)
      PROVE  CopyInv'
  <2>1. UNCHANGED <<child, fresh, rc>> /\ seen'[w][k][n] = child[k][n]
    BY <1>0, <1>5 DEF Sync, TypeInv, TypeOK
  <2>2. \A v \in Workers, l \in ChildKinds, m \in Names :
          \/ v = w /\ l = k /\ m = n
          \/ seen'[v][l][m] = seen[v][l][m] /\ lag'[v][l][m] = lag[v][l][m]
    BY <1>0, <1>5 DEF Sync, TypeInv, TypeOK
  <2>3. CacheIsCurrent'  BY <2>1, <2>2 DEF CopyInv, CacheIsCurrent, Synced
  <2>4. FreshIsCurrent'  BY <2>1 DEF CopyInv, FreshIsCurrent, Name
  <2> QED  BY <1>0, <2>3, <2>4 DEF CopyInv
<1>6. ASSUME NEW k \in ChildKinds, NEW n \in Names, Collect(k, n) \/ EditChild(k, n)
      PROVE  CopyInv'
  BY <1>0, <1>6, OthersKeepCopies DEF CopyInv
<1>7. ASSUME NEW c \in Components, User(c) PROVE CopyInv'
  <2>1. UNCHANGED <<child, seen, lag, fresh, rc>>
    BY <1>7 DEF User, CreateCR, EditCR, TouchCR, DeleteCR, RemoveCR, UserWrite
  <2> QED  BY <1>0, <2>1 DEF CopyInv, CacheIsCurrent, FreshIsCurrent, Synced, Name
<1> QED  BY <1>1, <1>2, <1>3, <1>4, <1>5, <1>6, <1>7 DEF Next

LEMMA InitCopyInv == Init => CopyInv
  BY InitType DEF Init, CopyInv, CacheIsCurrent, FreshIsCurrent

(* No step of a worker changes the owner of a child that is there.         *)
LEMMA OwnerKept ==
  ASSUME CopyInv, NEW w \in Workers, Step(w),
         NEW k \in ChildKinds, NEW n \in Names, child[k][n].present
  PROVE  child'[k][n].owner = child[k][n].owner
<1> DEFINE t == rc[w]
<1>0. TypeInv  BY DEF CopyInv
<1>1. CASE UNCHANGED child  BY <1>1
<1>2. CASE Create(w)
  <2>1. CASE UNCHANGED child  BY <2>1
  <2>2. CASE \E x : Store(t.kind, Name(t), x) /\ ~child[t.kind][Name(t)].present
    <3>1. t.kind # k \/ Name(t) # n  BY <2>2
    <3> QED  BY <1>0, <2>2, <3>1 DEF Store, TypeInv, TypeOK
  <2> QED  BY <1>2, <2>1, <2>2 DEF Create
<1>3. CASE Update(w)
  <2> DEFINE x == [t.found EXCEPT !.spec = t.desired]
  <2>1. CASE UNCHANGED child  BY <2>1
  <2>2. CASE fresh[w] /\ Store(t.kind, Name(t), x)
    <3>1. t.pc # "idle" /\ t.found = child[t.kind][Name(t)]
      BY <2>2 DEF CopyInv, FreshIsCurrent
    <3>2. t.kind \in ChildKinds /\ Name(t) \in Names  BY <1>0, <3>1, RunningType
    <3>3. child[t.kind][Name(t)] \in Child  BY <1>0, <3>2 DEF TypeInv, TypeOK
    <3>4. x.owner = child[t.kind][Name(t)].owner  BY <3>1, <3>3 DEF Child
    <3>5. child'[t.kind][Name(t)] = x  BY <1>0, <2>2, <3>2 DEF Store, TypeInv, TypeOK
    <3>6. CASE t.kind = k /\ Name(t) = n  BY <3>4, <3>5, <3>6
    <3>7. CASE t.kind # k \/ Name(t) # n
      BY <1>0, <2>2, <3>7 DEF Store, TypeInv, TypeOK
    <3> QED  BY <3>6, <3>7
  <2> QED  BY <1>3, <2>1, <2>2 DEF Update, Rewritten, Conflict
<1> QED  BY <1>1, <1>2, <1>3 DEF Step, Fetch, Get, ReGet

(* Whatever the lag of the caches and however many managers overlap, an    *)
(* Update of a child never puts back owner references that somebody else   *)
(* has changed since the copy was read.                                    *)
THEOREM MetadataKept == Spec => OthersMetadataKept
<1>1. Init => CopyInv  BY InitCopyInv
<1>2. CopyInv /\ [Next]_vars => CopyInv'  BY CopyInvStep
<1>3. CopyInv /\ [Next]_vars =>
        [\A k \in ChildKinds, n \in Names :
           \/ child[k][n].owner = child'[k][n].owner
           \/ ~child[k][n].present
           \/ ~\E w \in Workers : Step(w)]_vars
  BY OwnerKept
<1> QED  BY <1>1, <1>2, <1>3, PTL DEF Spec, OthersMetadataKept

-------------------------------------------------------------------------------
(* No two CRs share the names of their children: CRs of different kinds    *)
(* have different names.                                                   *)
DistinctNames == \A c, d \in Components : ChildName[c] = ChildName[d] => c = d

(* Some manager handles each CR.                                           *)
Attended == \A c \in Components : \E w \in Workers : c \in Handles[w]

(* Nobody takes the owner reference from a child and then deletes it: the  *)
(* watch cannot tell whose child that was (Owns, controller.go:118).       *)
Tracked == "owner" \notin Edits \/ "delete" \notin Edits

(* Then every child belongs to one CR, and a missing one is missed.        *)
Sole == DistinctNames /\ Tracked

-------------------------------------------------------------------------------
(* What is known of misfits, who comes back to them, and why.              *)

(* The children of c have no other owner than CRs of its name.             *)
ChildOwner ==
  Sole => \A c \in Components, k \in ChildKinds :
    /\ ChildOf(k, c).owner = NoOwner \/ ChildOf(k, c).owner.comp = c
    /\ ChildOf(k, c).present \/ ChildOf(k, c) = NoChild
    /\ ChildOf(k, c).present /\ ChildOf(k, c).owner = NoOwner => "owner" \in Edits

(* The child of kind k is for the controller of c to look after.           *)
Minded(c, k) ==
  \/ Sole /\ ~ChildOf(k, c).present
  \/ OwnerName(ChildOf(k, c)) = c

(* The changes of a child that a cache waits for name its CR.              *)
LagTells ==
  \A w \in Workers, c \in Components, k \in ChildKinds :
    \/ Synced(w, k, ChildName[c])
    \/ c \in lag[w][k][ChildName[c]]
    \/ ~Minded(c, k)

(* What a worker is about to write fits the copy it has of the CR, and     *)
(* that copy is what is stored, unless the CR is in its queue.             *)
Knows(w) ==
  /\ queue[w] \subseteq Handles[w]
  /\ rc[w].pc = "idle" => rc[w].comp = NoComponent
  /\ rc[w].pc # "idle" =>
       /\ rc[w].pc # "end"
       /\ rc[w].comp \in Handles[w]
       /\ Fits(rc[w].kind, rc[w].desired, rc[w].tgt.content)
       /\ \/ rc[w].comp \in queue[w]
          \/ rc[w].tgt = cr[rc[w].comp] /\ cr[rc[w].comp].phase # "absent"

(* The child of kind k that c should have is missing, or does not fit,     *)
(* and is for the controller of c to look after.                           *)
Misfit(c, k) ==
  /\ cr[c].phase # "absent"
  /\ Minded(c, k)
  /\ ~(ChildOf(k, c).present /\ Fits(k, ChildOf(k, c).spec, cr[c].content))

(* The reconcile of c that w is executing has an error, has not come to    *)
(* kind k yet, or is at it and will find out.                              *)
Ahead(w, c, k) ==
  /\ rc[w].pc # "idle"
  /\ rc[w].comp = c
  /\ \/ rc[w].err
     \/ rc[w].kind = "AuthConfig" /\ k # "AuthConfig"
     \/ rc[w].kind = k /\ (rc[w].pc = "create" => ~ChildOf(k, c).present)

(* Worker w will come to the child of kind k of c again.                   *)
Aware(w, c, k) ==
  \/ c \in queue[w]
  \/ c \in lag[w][k][ChildName[c]]
  \/ Ahead(w, c, k)

Attends(w) == \A c \in Handles[w], k \in ChildKinds : Misfit(c, k) => Aware(w, c, k)

KnownInv   == CopyInv /\ \A w \in Workers : Knows(w)
SettledInv == KnownInv /\ ChildOwner /\ LagTells /\ \A w \in Workers : Attends(w)

-------------------------------------------------------------------------------
(* From one sub-reconciler to the next.                                    *)

(* v goes on from t: with the other sub-reconciler, or it ends.            *)
GoesOn(v, t) ==
  /\ v.comp = t.comp
  /\ v.tgt = t.tgt
  /\ t.err => v.err
  /\ \/ v.pc = "end" /\ (t.kind = "AuthConfig" => v.err)
     \/ /\ v.pc = "get"
        /\ t.kind = "AuthConfig"
        /\ v.kind = "AuthorizationPolicy"
        /\ Fits(v.kind, v.desired, v.tgt.content)

LEMMA PolicyGoesOn ==
  ASSUME NEW t \in Reconcile, t.kind = "AuthConfig", NEW v \in reconcileAuthPolicy(t)
  PROVE  GoesOn(v, t)
<1>1. CASE v = End(RecordError(t))
  BY <1>1 DEF GoesOn, End, RecordError, Reconcile
<1>2. ASSUME NEW d \in createAuthzPolicy(t.tgt.content),
             v = [t EXCEPT !.pc = "get", !.kind = "AuthorizationPolicy", !.desired = d]
      PROVE  GoesOn(v, t)
  BY <1>2 DEF GoesOn, Reconcile, Fits
<1> QED  BY <1>1, <1>2 DEF reconcileAuthPolicy

LEMMA DoneGoesOn ==
  ASSUME NEW t \in Reconcile, NEW v \in Done(t)
  PROVE  GoesOn(v, t)
<1> DEFINE u == [t EXCEPT !.found = NoChild, !.desired = NoSpec]
<1>1. /\ u \in Reconcile /\ u.kind = t.kind /\ u.comp = t.comp
      /\ u.tgt = t.tgt /\ u.err = t.err
  BY DEF Reconcile, NoChild, Child, ChildSpec
<1>2. CASE t.kind = "AuthConfig"
  <2>1. v \in reconcileAuthPolicy(u)  BY <1>2 DEF Done
  <2> HIDE DEF u
  <2>2. GoesOn(v, u)  BY <1>1, <1>2, <2>1, PolicyGoesOn
  <2> QED  BY <1>1, <2>2 DEF GoesOn
<1>3. CASE t.kind # "AuthConfig"
  <2>1. v = End(u)  BY <1>3 DEF Done
  <2> HIDE DEF u
  <2>2. /\ End(u).pc = "end" /\ End(u).comp = u.comp /\ End(u).tgt = u.tgt
        /\ End(u).err = u.err
    BY <1>1 DEF End, Reconcile
  <2> QED  BY <1>1, <1>3, <2>1, <2>2 DEF GoesOn
<1> QED  BY <1>2, <1>3

(* Where a reconcile of c with copy obj starts.                            *)
Starts(v, c, obj) ==
  /\ v.comp = c
  /\ v.tgt = obj
  /\ \/ v.pc = "end" /\ v.err
     \/ /\ v.pc = "get"
        /\ v.kind = "AuthConfig" \/ v.err
        /\ Fits(v.kind, v.desired, obj.content)

LEMMA EnterStarts ==
  ASSUME NEW t \in Reconcile, t.kind = "AuthConfig", NEW v \in reconcileAuthConfig(t)
  PROVE  Starts(v, t.comp, t.tgt)
<1>1. CASE UnifiedHostExtractor(t.tgt.content.target).err
  <2> DEFINE u == RecordError(t)
  <2>1. /\ u \in Reconcile /\ u.kind = t.kind /\ u.comp = t.comp
        /\ u.tgt = t.tgt /\ u.err
    BY DEF RecordError, Reconcile
  <2>2. v \in reconcileAuthPolicy(u)  BY <1>1 DEF reconcileAuthConfig
  <2> HIDE DEF u
  <2>3. GoesOn(v, u)  BY <2>1, <2>2, PolicyGoesOn
  <2> QED  BY <2>1, <2>3 DEF GoesOn, Starts
<1>2. CASE ~UnifiedHostExtractor(t.tgt.content.target).err
  <2>1. PICK d \in createAuthConfig(t.tgt.content) : v = [t EXCEPT !.pc = "get", !.desired = d]
    BY <1>2 DEF reconcileAuthConfig
  <2>2. v.comp = t.comp /\ v.tgt = t.tgt /\ v.pc = "get" /\ v.kind = t.kind /\ v.desired = d
    BY <2>1 DEF Reconcile
  <2> QED  BY <2>1, <2>2 DEF Starts, Fits
<1> QED  BY <1>1, <1>2

(* The other workers do nothing.                                           *)
Alone(w) == \A v \in Workers \ {w} : rc'[v] = rc[v] /\ queue'[v] = queue[v]

(* Worker w is done with a sub-reconciler; e says that it failed.          *)
Passes(w, e) ==
  /\ Alone(w)
  /\ rc[w].pc # "idle"
  /\ queue[w] \subseteq queue'[w] /\ queue'[w] \subseteq queue[w] \cup {rc[w].comp}
  /\ \/ /\ GoesOn(rc'[w], rc[w])
        /\ rc'[w].pc = "get"
        /\ e => rc'[w].err
     \/ /\ rc'[w] = Idle
        /\ e \/ rc[w].err \/ rc[w].kind = "AuthConfig" => rc[w].comp \in queue'[w]

LEMMA ContinuePasses ==
  ASSUME TypeInv, NEW w \in Workers, rc[w].pc # "idle", NEW e \in BOOLEAN,
         Continue(w, Done(IF e THEN RecordError(rc[w]) ELSE rc[w]))
  PROVE  Passes(w, e)
<1> DEFINE t == rc[w]
           s == IF e THEN RecordError(t) ELSE t
<1>1. t \in Reconcile  BY DEF TypeInv, TypeOK
<1>2. /\ s \in Reconcile /\ s.kind = t.kind /\ s.comp = t.comp /\ s.tgt = t.tgt
      /\ s.err <=> e \/ t.err
  BY <1>1 DEF RecordError, Reconcile
<1>3. PICK v \in Done(s) :
        \/ v.pc # "end" /\ Advance(w, v) /\ UNCHANGED queue
        \/ /\ v.pc = "end"
           /\ Advance(w, Idle)
           /\ queue' = [queue EXCEPT ![w] = IF v.err THEN @ \cup {v.comp} ELSE @]
  BY DEF Continue
<1> HIDE DEF s
<1>4. GoesOn(v, s)  BY <1>2, <1>3, DoneGoesOn
<1>5. GoesOn(v, t) /\ (e => v.err)  BY <1>2, <1>4 DEF GoesOn
<1>6. CASE v.pc # "end" /\ Advance(w, v) /\ UNCHANGED queue
  <2>1. Alone(w) /\ rc'[w] = v  BY <1>6 DEF Alone, Advance, TypeInv, TypeOK
  <2>2. v.pc = "get"  BY <1>5, <1>6 DEF GoesOn
  <2> QED  BY <1>5, <1>6, <2>1, <2>2 DEF Passes
<1>7. CASE /\ v.pc = "end"
           /\ Advance(w, Idle)
           /\ queue' = [queue EXCEPT ![w] = IF v.err THEN @ \cup {v.comp} ELSE @]
  <2>1. Alone(w) /\ rc'[w] = Idle  BY <1>7 DEF Alone, Advance, TypeInv, TypeOK
  <2>2. v.comp = t.comp /\ (e \/ t.err \/ t.kind = "AuthConfig" => v.err)
    BY <1>5, <1>7 DEF GoesOn
  <2>3. queue'[w] = IF v.err THEN queue[w] \cup {t.comp} ELSE queue[w]
    BY <1>7, <2>2 DEF TypeInv, TypeOK
  <2> QED  BY <2>1, <2>2, <2>3 DEF Passes
<1> QED  BY <1>3, <1>6, <1>7

LEMMA OnErrorPasses ==
  ASSUME TypeInv, NEW w \in Workers, rc[w].pc # "idle", OnError(w)
  PROVE  Passes(w, TRUE)
<1>1. Continue(w, Done(IF TRUE THEN RecordError(rc[w]) ELSE rc[w]))  BY DEF OnError
<1> QED  BY <1>1, ContinuePasses

LEMMA SuccessPasses ==
  ASSUME TypeInv, NEW w \in Workers, rc[w].pc # "idle", Continue(w, Done(rc[w]))
  PROVE  Passes(w, FALSE)
<1>1. Continue(w, Done(IF FALSE THEN RecordError(rc[w]) ELSE rc[w]))  OBVIOUS
<1> QED  BY <1>1, ContinuePasses

LEMMA FailurePasses ==
  ASSUME TypeInv, NEW w \in Workers, rc[w].pc # "idle",
         Continue(w, Done(RecordError(rc[w])))
  PROVE  Passes(w, TRUE)
<1>1. Continue(w, Done(IF TRUE THEN RecordError(rc[w]) ELSE rc[w]))  OBVIOUS
<1> QED  BY <1>1, ContinuePasses

(* Worker w goes on within a sub-reconciler.                               *)
Moves(w) ==
  /\ Alone(w)
  /\ UNCHANGED queue
  /\ rc[w].pc # "idle"
  /\ rc'[w].pc \in {"create", "reget", "update"}
  /\ rc'[w].comp = rc[w].comp /\ rc'[w].tgt = rc[w].tgt /\ rc'[w].kind = rc[w].kind
  /\ rc'[w].desired = rc[w].desired /\ rc'[w].err = rc[w].err

LEMMA AdvanceMoves ==
  ASSUME TypeInv, NEW w \in Workers, rc[w].pc # "idle", UNCHANGED queue,
         NEW p \in {"create", "reget", "update"}, NEW f,
         \/ Advance(w, [rc[w] EXCEPT !.pc = p])
         \/ Advance(w, [rc[w] EXCEPT !.pc = p, !.found = f])
  PROVE  Moves(w) /\ rc'[w].pc = p
<1>1. rc[w] \in Reconcile  BY DEF TypeInv, TypeOK
<1>2. \/ rc'[w] = [rc[w] EXCEPT !.pc = p]
      \/ rc'[w] = [rc[w] EXCEPT !.pc = p, !.found = f]
  BY DEF Advance, TypeInv, TypeOK
<1>3. Alone(w)  BY DEF Advance, Alone, TypeInv, TypeOK
<1> QED  BY <1>1, <1>2, <1>3 DEF Moves, Reconcile

-------------------------------------------------------------------------------
(* What workers know: the copies of CRs and what follows from them.        *)

LEMMA AloneKnows ==
  ASSUME NEW w \in Workers, Alone(w), UNCHANGED cr, NEW v \in Workers \ {w}, Knows(v)
  PROVE  Knows(v)'
  BY DEF Alone, Knows

LEMMA PassesKnows ==
  ASSUME NEW w \in Workers, Knows(w), NEW e, Passes(w, e), UNCHANGED cr
  PROVE  Knows(w)'
<1>1. queue'[w] \subseteq Handles[w]  BY DEF Passes, Knows
<1>2. CASE rc'[w] = Idle  BY <1>1, <1>2 DEF Knows, Idle
<1>3. CASE GoesOn(rc'[w], rc[w]) /\ rc'[w].pc = "get"
  BY <1>1, <1>3 DEF Knows, Passes, GoesOn
<1> QED  BY <1>2, <1>3 DEF Passes

LEMMA MovesKnows ==
  ASSUME NEW w \in Workers, Knows(w), Moves(w), UNCHANGED cr
  PROVE  Knows(w)'
<1>1. rc'[w].pc # "idle" /\ rc'[w].pc # "end"  BY DEF Moves
<1> QED  BY <1>1 DEF Knows, Moves

(* What the five calls of a reconcile do to the worker's record.           *)
LEMMA GetGoes ==
  ASSUME TypeInv, NEW w \in Workers, Get(w)
  PROVE  LET found == seen[w][rc[w].kind][Name(rc[w])]
         IN  \/ ~found.present /\ Moves(w) /\ rc'[w].pc = "create"
             \/ found.present /\ found.spec = rc[w].desired /\ Passes(w, FALSE)
             \/ Moves(w) /\ rc'[w].pc = "reget"
<1>1. rc[w].pc # "idle"  BY DEF Get
<1> DEFINE found == seen[w][rc[w].kind][Name(rc[w])]
<1>2. CASE ~found.present
  <2>1. Advance(w, [rc[w] EXCEPT !.pc = "create"]) /\ UNCHANGED queue  BY <1>2 DEF Get
  <2>2. Moves(w) /\ rc'[w].pc = "create"  BY <1>1, <2>1, AdvanceMoves
  <2> QED  BY <1>2, <2>2
<1>3. CASE found.present /\ found.spec = rc[w].desired
  <2>1. Continue(w, Done(rc[w]))  BY <1>3 DEF Get, Compare
  <2> QED  BY <1>1, <1>3, <2>1, SuccessPasses
<1>4. CASE found.present /\ found.spec # rc[w].desired
  <2>1. Advance(w, [rc[w] EXCEPT !.pc = "reget"]) /\ UNCHANGED queue
    BY <1>4 DEF Get, Compare
  <2>2. Moves(w) /\ rc'[w].pc = "reget"  BY <1>1, <2>1, AdvanceMoves
  <2> QED  BY <2>2
<1> QED  BY <1>2, <1>3, <1>4

LEMMA CreateGoes ==
  ASSUME TypeInv, NEW w \in Workers, Create(w)
  PROVE  \E e \in BOOLEAN : Passes(w, e)
  BY SuccessPasses, OnErrorPasses DEF Create

LEMMA ReGetGoes ==
  ASSUME TypeInv, NEW w \in Workers, ReGet(w)
  PROVE  \/ Passes(w, TRUE)
         \/ Moves(w) /\ rc'[w].pc = "update"
<1>1. rc[w].pc # "idle"  BY DEF ReGet
<1>2. CASE Continue(w, Done(RecordError(rc[w])))  BY <1>1, <1>2, FailurePasses
<1>3. ASSUME NEW f, Advance(w, [rc[w] EXCEPT !.pc = "update", !.found = f]), UNCHANGED queue
      PROVE  Moves(w) /\ rc'[w].pc = "update"
  BY <1>1, <1>3, AdvanceMoves
<1> QED  BY <1>2, <1>3 DEF ReGet

LEMMA UpdateGoes ==
  ASSUME TypeInv, NEW w \in Workers, Update(w)
  PROVE  \/ Passes(w, TRUE)
         \/ Moves(w) /\ rc'[w].pc = "reget"
         \/ Passes(w, FALSE) /\ ~Conflict(w) /\ child[rc[w].kind][Name(rc[w])].present
<1>1. rc[w].pc # "idle"  BY DEF Update
<1>2. CASE Continue(w, Done(RecordError(rc[w])))  BY <1>1, <1>2, FailurePasses
<1>3. CASE OnError(w)  BY <1>1, <1>3, OnErrorPasses
<1>4. CASE Advance(w, [rc[w] EXCEPT !.pc = "reget", !.found = NoChild]) /\ UNCHANGED queue
  BY <1>1, <1>4, AdvanceMoves
<1>5. CASE /\ Continue(w, Done(rc[w])) /\ ~Conflict(w)
           /\ child[rc[w].kind][Name(rc[w])].present
  BY <1>1, <1>5, SuccessPasses
<1> QED  BY <1>2, <1>3, <1>4, <1>5 DEF Update

LEMMA FetchKnows ==
  ASSUME TypeInv, NEW w \in Workers, Knows(w), NEW c \in Components, Fetch(w, c)
  PROVE  /\ Alone(w) /\ UNCHANGED cr
         /\ Knows(w)'
         /\ \A d \in queue[w] \ {c} : d \in queue'[w]
         /\ cr[c].phase = "absent" \/ c \in queue'[w] \/ \A k \in ChildKinds : Ahead(w, c, k)'
<1> DEFINE t == [Idle EXCEPT !.comp = c, !.tgt = cr[c]]
<1>0. rc[w].pc = "idle" /\ c \in queue[w] /\ UNCHANGED cr  BY DEF Fetch
<1>1. CASE cr[c].phase = "absent" /\ queue' = [queue EXCEPT ![w] = @ \ {c}] /\ UNCHANGED rc
  BY <1>0, <1>1 DEF Knows, Alone, TypeInv, TypeOK
<1>2. CASE /\ cr[c].phase # "absent"
           /\ \E u \in reconcileAuthConfig(t) :
                /\ Advance(w, IF u.pc = "end" THEN Idle ELSE u)
                /\ queue' = IF u.pc = "end" /\ u.err THEN queue
                            ELSE [queue EXCEPT ![w] = @ \ {c}]
  <2>1. PICK u \in reconcileAuthConfig(t) :
                /\ Advance(w, IF u.pc = "end" THEN Idle ELSE u)
                /\ queue' = IF u.pc = "end" /\ u.err THEN queue
                            ELSE [queue EXCEPT ![w] = @ \ {c}]
    BY <1>2
  <2>2. cr[c] \in Object  BY DEF TypeInv, TypeOK
  <2>3. t \in Reconcile /\ t.kind = "AuthConfig" /\ t.comp = c /\ t.tgt = cr[c]
    BY <2>2, IdleType DEF WellFormed, Reconcile, Idle
  <2> HIDE DEF t
  <2>4. Starts(u, c, cr[c])  BY <2>1, <2>3, EnterStarts
  <2>5. CASE u.pc = "end" /\ u.err
    <3>1. rc'[w] = Idle /\ queue' = queue /\ Alone(w)
      BY <2>1, <2>5 DEF Advance, Alone, TypeInv, TypeOK
    <3> QED  BY <1>0, <3>1 DEF Knows, Idle
  <2>6. CASE u.pc # "end"
    <3>1. rc'[w] = u /\ queue'[w] = queue[w] \ {c} /\ Alone(w)
      BY <2>1, <2>6 DEF Advance, Alone, TypeInv, TypeOK
    <3>2. /\ u.pc = "get" /\ u.comp = c /\ u.tgt = cr[c]
          /\ u.kind = "AuthConfig" \/ u.err
          /\ Fits(u.kind, u.desired, cr[c].content)
      BY <2>4, <2>6 DEF Starts
    <3>3. Knows(w)'  BY <1>0, <1>2, <3>1, <3>2 DEF Knows
    <3>4. \A k \in ChildKinds : Ahead(w, c, k)'  BY <3>1, <3>2 DEF Ahead
    <3> QED  BY <1>0, <3>1, <3>3, <3>4
  <2> QED  BY <2>4, <2>5, <2>6 DEF Starts
<1> QED  BY <1>1, <1>2 DEF Fetch

LEMMA UserKnows ==
  ASSUME TypeInv, NEW c \in Components, User(c)
  PROVE  /\ UNCHANGED <<child, lag, rc>>
         /\ \A d \in Components \ {c} : cr'[d] = cr[d]
         /\ \A w \in Workers : /\ Knows(w) => Knows(w)'
                               /\ queue[w] \subseteq queue'[w]
                               /\ c \in Handles[w] => c \in queue'[w]
<1>1. UNCHANGED <<child, lag, rc>> /\ queue' = Watched(c) /\ \E obj : cr' = [cr EXCEPT ![c] = obj]
  BY DEF User, CreateCR, EditCR, TouchCR, DeleteCR, RemoveCR, UserWrite
<1>2. \A d \in Components \ {c} : cr'[d] = cr[d]  BY <1>1 DEF TypeInv, TypeOK
<1>3. \A w \in Workers : queue'[w] = queue[w] \cup ({c} \cap Handles[w])
  BY <1>1 DEF Watched, Notified
<1>4. ASSUME NEW w \in Workers, Knows(w) PROVE Knows(w)'
  <2>1. queue'[w] \subseteq Handles[w]  BY <1>3, <1>4 DEF Knows
  <2>2. CASE rc[w].pc = "idle"  BY <1>1, <1>4, <2>1, <2>2 DEF Knows
  <2>3. CASE rc[w].pc # "idle" /\ rc[w].comp = c  BY <1>1, <1>3, <1>4, <2>1, <2>3 DEF Knows
  <2>4. CASE rc[w].pc # "idle" /\ rc[w].comp # c
    <3>1. rc[w].comp \in Components  BY <2>4 DEF TypeInv, Working
    <3>2. cr'[rc[w].comp] = cr[rc[w].comp]  BY <1>2, <2>4, <3>1
    <3> QED  BY <1>1, <1>3, <1>4, <2>1, <2>4, <3>2 DEF Knows
  <2> QED  BY <2>2, <2>3, <2>4
<1> QED  BY <1>1, <1>2, <1>3, <1>4

LEMMA WorkKnows ==
  ASSUME TypeInv, NEW w \in Workers, Knows(w),
         (\E e : Passes(w, e)) \/ Moves(w), UNCHANGED cr, \A v \in Workers : Knows(v)
  PROVE  \A v \in Workers : Knows(v)'
<1>1. Alone(w)  BY DEF Passes, Moves
<1> QED  BY <1>1, AloneKnows, PassesKnows, MovesKnows

LEMMA KnownStep ==
  ASSUME KnownInv, [Next]_vars
  PROVE  KnownInv'
<1>0. TypeInv /\ CopyInv' /\ \A w \in Workers : Knows(w)
  BY CopyInvStep DEF KnownInv, CopyInv
<1> SUFFICES \A w \in Workers : Knows(w)'
  BY <1>0 DEF KnownInv
<1>1. CASE UNCHANGED vars  BY <1>0, <1>1 DEF vars, Knows
<1>2. ASSUME NEW w \in Workers, Step(w) PROVE \A v \in Workers : Knows(v)'
  <2>1. ASSUME NEW c \in Components, Fetch(w, c) PROVE \A v \in Workers : Knows(v)'
    BY <1>0, <2>1, FetchKnows, AloneKnows
  <2>2. CASE Get(w)
    <3>1. UNCHANGED cr  BY <2>2 DEF Get
    <3> QED  BY <1>0, <2>2, <3>1, GetGoes, WorkKnows
  <2>3. CASE Create(w)
    <3>1. UNCHANGED cr  BY <2>3 DEF Create
    <3> QED  BY <1>0, <2>3, <3>1, CreateGoes, WorkKnows
  <2>4. CASE ReGet(w)
    <3>1. UNCHANGED cr  BY <2>4 DEF ReGet
    <3> QED  BY <1>0, <2>4, <3>1, ReGetGoes, WorkKnows
  <2>5. CASE Update(w)
    <3>1. UNCHANGED cr  BY <2>5 DEF Update
    <3> QED  BY <1>0, <2>5, <3>1, UpdateGoes, WorkKnows
  <2> QED  BY <1>2, <2>1, <2>2, <2>3, <2>4, <2>5 DEF Step
<1>3. ASSUME NEW w \in Workers, ApiError(w) PROVE \A v \in Workers : Knows(v)'
  <2>1. UNCHANGED cr /\ rc[w].pc # "idle" /\ OnError(w)  BY <1>3 DEF ApiError
  <2> QED  BY <1>0, <2>1, OnErrorPasses, WorkKnows
<1>4. ASSUME NEW w \in Workers, Crash(w) PROVE \A v \in Workers : Knows(v)'
  <2>1. Alone(w) /\ UNCHANGED cr /\ rc'[w] = Idle /\ queue'[w] \subseteq Handles[w]
    BY <1>0, <1>4 DEF Crash, Advance, Alone, TypeInv, TypeOK
  <2>2. Knows(w)'  BY <2>1 DEF Knows, Idle
  <2> QED  BY <1>0, <2>1, <2>2, AloneKnows
<1>5. ASSUME NEW w \in Workers, NEW k \in ChildKinds, NEW n \in Names, Sync(w, k, n)
      PROVE  \A v \in Workers : Knows(v)'
  <2>1. UNCHANGED <<cr, rc>> /\ Alone(w)
    BY <1>0, <1>5 DEF Sync, Alone, TypeInv, TypeOK
  <2>2. queue'[w] = queue[w] \cup Owns(w, k, n)  BY <1>0, <1>5 DEF Sync, TypeInv, TypeOK
  <2>3. Knows(w)'  BY <1>0, <2>1, <2>2 DEF Knows, Owns
  <2> QED  BY <1>0, <2>1, <2>3, AloneKnows
<1>6. ASSUME NEW k \in ChildKinds, NEW n \in Names, Collect(k, n) \/ EditChild(k, n)
      PROVE  \A v \in Workers : Knows(v)'
  <2>1. UNCHANGED <<cr, queue, rc>>  BY <1>6 DEF Collect, EditChild
  <2> QED  BY <1>0, <2>1 DEF Knows
<1>7. ASSUME NEW c \in Components, User(c) PROVE \A v \in Workers : Knows(v)'
  BY <1>0, <1>7, UserKnows
<1> QED  BY <1>1, <1>2, <1>3, <1>4, <1>5, <1>6, <1>7 DEF Next

LEMMA InitKnown == Init => KnownInv
  BY InitCopyInv DEF Init, KnownInv, Knows, Idle

LEMMA StoreWrites ==
  ASSUME TypeInv, NEW k \in ChildKinds, NEW n \in Names, NEW x, Store(k, n, x)
  PROVE  /\ child'[k][n] = x
         /\ \A l \in ChildKinds, m \in Names :
              l # k \/ m # n => child'[l][m] = child[l][m]
  BY DEF Store, TypeInv, TypeOK

LEMMA ChildNames == \A c \in Components : ChildName[c] \in Names
  BY DEF Names

(* A write of a worker with a copy of the CR that is still what is stored  *)
(* fits it.                                                                *)
LEMMA WritesFit ==
  ASSUME KnownInv, DistinctNames, NEW w \in Workers, Step(w),
         NEW c \in Components, NEW k \in ChildKinds,
         child'[k][ChildName[c]] # ChildOf(k, c)
  PROVE  c \in queue[w] \/ Fits(k, child'[k][ChildName[c]].spec, cr[c].content)
<1> DEFINE t == rc[w]
           new == [present |-> TRUE, owner |-> targetToOwnerRef(t), spec |-> t.desired]
           copy == [t.found EXCEPT !.spec = t.desired]
<1>0. TypeInv /\ Knows(w)  BY DEF KnownInv, CopyInv
<1>1. /\ t.pc # "idle" /\ t \in Reconcile
      /\ Store(t.kind, Name(t), new) \/ Store(t.kind, Name(t), copy)
  BY <1>0 DEF Step, Fetch, Get, Create, ReGet, Update, Rewritten, ChildOf, TypeInv, TypeOK
<1>2. t.kind \in ChildKinds /\ t.comp \in Components /\ Name(t) \in Names
  BY <1>0, <1>1, RunningType
<1>3. new.spec = t.desired /\ copy.spec = t.desired  BY <1>1 DEF Reconcile, Child
<1> HIDE DEF new, copy
<1>4. t.kind = k /\ Name(t) = ChildName[c]
  BY <1>0, <1>1, <1>2, ChildNames, StoreWrites DEF ChildOf
<1>5. t.comp = c  BY <1>2, <1>4 DEF DistinctNames, Name
<1>6. child'[k][ChildName[c]].spec = t.desired
  BY <1>0, <1>1, <1>2, <1>3, <1>4, StoreWrites
<1> QED  BY <1>0, <1>1, <1>4, <1>5, <1>6 DEF Knows

(* A reconcile with an outdated copy of a CR may write a child that does   *)
(* not fit it, but only while the CR is in a queue: what the controller    *)
(* writes wrong it will come back to.  This holds for every number of      *)
(* managers, caches that lag, restarts and failed calls.                   *)
THEOREM MisfitsAreRevisited ==
  ASSUME DistinctNames
  PROVE  Spec => MisfitIsRevisited
<1>1. Init => KnownInv  BY InitKnown
<1>2. KnownInv /\ [Next]_vars => KnownInv'  BY KnownStep
<1>3. KnownInv /\ [Next]_vars =>
        [\A c \in Components, k \in ChildKinds :
           LET new == child'[k][ChildName[c]] IN
           \/ new = ChildOf(k, c)
           \/ cr[c].phase = "absent"
           \/ ~\E w \in Workers : Step(w)
           \/ Fits(k, new.spec, cr[c].content)
           \/ \E w \in Workers : c \in queue[w]]_vars
  BY WritesFit
<1> QED  BY <1>1, <1>2, <1>3, PTL DEF Spec, MisfitIsRevisited

-------------------------------------------------------------------------------
(* What caches are told.                                                   *)

(* Who makes a child a misfit lets every cache know.                       *)
Told ==
  \A c \in Components, k \in ChildKinds :
    \/ ChildOf(k, c)' = ChildOf(k, c)
    \/ ~Misfit(c, k)'
    \/ \A w \in Workers : c \in lag'[w][k][ChildName[c]]

Grows ==
  \A w \in Workers, c \in Components, k \in ChildKinds :
    lag[w][k][ChildName[c]] \subseteq lag'[w][k][ChildName[c]]

Heard == ChildOwner' /\ LagTells' /\ Told /\ Grows

(* Whose a child is.                                                       *)
LEMMA OwnerNames ==
  ASSUME NEW x, NEW c \in Components
  PROVE  OwnerName(x) = c <=> x.owner # NoOwner /\ x.owner.comp = c
  BY AuthzAssumption DEF OwnerName

(* Child x may be put in the place of the one of kind k and name n.        *)
Proper(k, n, x) ==
  /\ \A c \in Components : ChildName[c] = n => x.owner = NoOwner \/ x.owner.comp = c
  /\ x.present => x.owner # NoOwner \/ "owner" \in Edits
  /\ \/ x.present
     \/ x = NoChild /\ child[k][n].present /\ child[k][n].owner # NoOwner

LEMMA StoreHeard ==
  ASSUME TypeInv, ChildOwner, LagTells,
         NEW k \in ChildKinds, NEW n \in Names, NEW x \in Child,
         Store(k, n, x), Sole => Proper(k, n, x)
  PROVE  Heard
<1>1. /\ child'[k][n] = x
      /\ \A l \in ChildKinds, m \in Names : l # k \/ m # n => child'[l][m] = child[l][m]
  BY StoreWrites
<1>2. \A v \in Workers, l \in ChildKinds, m \in Names :
        l # k \/ m # n => lag'[v][l][m] = lag[v][l][m]
  BY StoreOutdates
<1>3. \A v \in Workers :
        lag'[v][k][n] = lag[v][k][n] \cup {OwnerName(child[k][n]), OwnerName(x)}
  BY DEF Store, TypeInv, TypeOK
<1>4. \A c \in Components : ChildName[c] \in Names  BY ChildNames
<1>5. ASSUME NEW c \in Components, ChildName[c] = n,
             (Sole /\ ~x.present) \/ OwnerName(x) = c
      PROVE  \A v \in Workers : c \in lag'[v][k][n]
  <2>1. CASE OwnerName(x) = c  BY <1>3, <2>1
  <2>2. CASE Sole /\ ~x.present
    <3>1. child[k][n].owner # NoOwner  BY <2>2 DEF Proper
    <3>2. child[k][n].owner.comp = c  BY <1>5, <2>2, <3>1 DEF ChildOwner, ChildOf
    <3> QED  BY <1>3, <3>1, <3>2 DEF OwnerName
  <2> QED  BY <1>5, <2>1, <2>2
<1>6. ChildOwner'
  <2> SUFFICES ASSUME Sole, NEW c \in Components, NEW l \in ChildKinds
               PROVE  LET y == child'[l][ChildName[c]]
                      IN  /\ y.owner = NoOwner \/ y.owner.comp = c
                          /\ y.present \/ y = NoChild
                          /\ y.present /\ y.owner = NoOwner => "owner" \in Edits
    BY DEF ChildOwner, ChildOf
  <2>1. CASE l = k /\ ChildName[c] = n  BY <1>1, <2>1 DEF Proper
  <2>2. CASE l # k \/ ChildName[c] # n
    BY <1>1, <1>4, <2>2 DEF ChildOwner, ChildOf
  <2> QED  BY <2>1, <2>2
<1>7. LagTells'
  <2> SUFFICES ASSUME NEW v \in Workers, NEW c \in Components, NEW l \in ChildKinds
               PROVE  LET y == child'[l][ChildName[c]]
                      IN  \/ lag'[v][l][ChildName[c]] = {}
                          \/ c \in lag'[v][l][ChildName[c]]
                          \/ ~((Sole /\ ~y.present) \/ OwnerName(y) = c)
    BY DEF LagTells, Minded, ChildOf, Synced
  <2>1. CASE l = k /\ ChildName[c] = n  BY <1>1, <1>5, <2>1
  <2>2. CASE l # k \/ ChildName[c] # n
    BY <1>1, <1>2, <1>4, <2>2 DEF LagTells, Minded, ChildOf, Synced
  <2> QED  BY <2>1, <2>2
<1>8. Told
  <2> SUFFICES ASSUME NEW c \in Components, NEW l \in ChildKinds,
                      ChildOf(l, c)' # ChildOf(l, c), Misfit(c, l)'
               PROVE  \A w \in Workers : c \in lag'[w][l][ChildName[c]]
    BY DEF Told
  <2>1. l = k /\ ChildName[c] = n  BY <1>1, <1>4 DEF ChildOf
  <2>2. (Sole /\ ~x.present) \/ OwnerName(x) = c
    BY <1>1, <2>1 DEF Misfit, Minded, ChildOf
  <2> QED  BY <1>5, <2>1, <2>2
<1>9. Grows
  <2> SUFFICES ASSUME NEW v \in Workers, NEW c \in Components, NEW l \in ChildKinds
               PROVE  lag[v][l][ChildName[c]] \subseteq lag'[v][l][ChildName[c]]
    BY DEF Grows
  <2>1. CASE l = k /\ ChildName[c] = n  BY <1>3, <2>1
  <2>2. CASE l # k \/ ChildName[c] # n  BY <1>2, <1>4, <2>2
  <2> QED  BY <2>1, <2>2
<1> QED  BY <1>6, <1>7, <1>8, <1>9 DEF Heard

LEMMA QuietHeard ==
  ASSUME ChildOwner, LagTells, UNCHANGED <<child, lag>>
  PROVE  Heard
  BY DEF Heard, ChildOwner, LagTells, Minded, OwnerName, Told, Grows, ChildOf, Synced

-------------------------------------------------------------------------------
(* No worker forgets a misfit.                                             *)

(* A misfit after a step that leaves the CRs as they are was one before,   *)
(* or the caches are told.                                                 *)
LEMMA MisfitsStay ==
  ASSUME Heard, UNCHANGED cr, NEW w \in Workers, NEW c \in Components,
         NEW k \in ChildKinds, Misfit(c, k)'
  PROVE  \/ c \in lag'[w][k][ChildName[c]]
         \/ Misfit(c, k) /\ ChildOf(k, c)' = ChildOf(k, c)
  BY DEF Heard, Told, Misfit, Minded, OwnerName

LEMMA OthersAttend ==
  ASSUME Heard, UNCHANGED cr, NEW w \in Workers, Handles[w] \subseteq Components,
         Attends(w), rc'[w] = rc[w], queue[w] \subseteq queue'[w]
  PROVE  Attends(w)'
<1> SUFFICES ASSUME NEW c \in Handles[w], NEW k \in ChildKinds, Misfit(c, k)'
             PROVE  Aware(w, c, k)'
  BY DEF Attends
<1>1. CASE c \in lag'[w][k][ChildName[c]]  BY <1>1 DEF Aware
<1>2. CASE Misfit(c, k) /\ ChildOf(k, c)' = ChildOf(k, c)
  <2>1. Aware(w, c, k)  BY <1>2 DEF Attends
  <2>2. Ahead(w, c, k) => Ahead(w, c, k)'  BY <1>2 DEF Ahead
  <2> QED  BY <2>1, <2>2 DEF Aware, Heard, Grows
<1> QED  BY <1>1, <1>2, MisfitsStay

(* The worker would miss a misfit that it is looking at, if it passed on.  *)
Facing(w) ==
  LET c == rc[w].comp
      k == rc[w].kind
  IN  /\ c \notin queue[w]
      /\ c \notin lag[w][k][ChildName[c]]
      /\ Misfit(c, k)
      /\ child'[k][ChildName[c]] = ChildOf(k, c)
      /\ rc[w].pc = "create" => ~ChildOf(k, c).present

LEMMA PassesAttends ==
  ASSUME TypeInv, Heard, UNCHANGED cr, NEW w \in Workers, Handles[w] \subseteq Components,
         Attends(w), NEW e \in BOOLEAN, Passes(w, e), e \/ ~Facing(w)
  PROVE  Attends(w)'
<1> SUFFICES ASSUME NEW c \in Handles[w], NEW k \in ChildKinds, Misfit(c, k)',
                    c \notin lag'[w][k][ChildName[c]], c \notin queue'[w]
             PROVE  Ahead(w, c, k)'
  BY DEF Attends, Aware
<1>1. Misfit(c, k) /\ ChildOf(k, c)' = ChildOf(k, c)  BY MisfitsStay
<1>2. c \notin queue[w] /\ c \notin lag[w][k][ChildName[c]]
  BY DEF Passes, Heard, Grows
<1>3. Ahead(w, c, k)  BY <1>1, <1>2 DEF Attends, Aware
<1>4. rc[w].kind \in ChildKinds  BY DEF TypeInv, TypeOK, Reconcile
<1>5. CASE GoesOn(rc'[w], rc[w]) /\ rc'[w].pc = "get" /\ (e => rc'[w].err)
  <2>1. rc'[w].comp = c /\ rc'[w].pc # "idle"  BY <1>3, <1>5 DEF Ahead, GoesOn
  <2>2. CASE e \/ rc[w].err  BY <1>5, <2>1, <2>2 DEF Ahead, GoesOn
  <2>3. CASE rc[w].kind = "AuthConfig" /\ k # "AuthConfig"
    <3>1. k = "AuthorizationPolicy"  BY <2>3 DEF ChildKinds
    <3> QED  BY <1>5, <2>1, <3>1 DEF Ahead, GoesOn
  <2>4. CASE rc[w].kind = k /\ (rc[w].pc = "create" => ~ChildOf(k, c).present) /\ ~e
    BY <1>1, <1>2, <1>3, <2>4 DEF Facing, Ahead, ChildOf
  <2> QED  BY <1>3, <2>2, <2>3, <2>4 DEF Ahead
<1>6. CASE e \/ rc[w].err \/ rc[w].kind = "AuthConfig" => rc[w].comp \in queue'[w]
  <2>1. ~e /\ ~rc[w].err /\ rc[w].kind # "AuthConfig"  BY <1>3, <1>6 DEF Ahead
  <2> QED  BY <1>1, <1>2, <1>3, <2>1 DEF Facing, Ahead, ChildOf
<1> QED  BY <1>5, <1>6 DEF Passes

LEMMA MovesAttends ==
  ASSUME Heard, UNCHANGED cr, NEW w \in Workers, Handles[w] \subseteq Components,
         Attends(w), Moves(w),
         rc'[w].pc = "create" => ~Facing(w) \/ ~ChildOf(rc[w].kind, rc[w].comp).present,
         rc[w].pc # "create"
  PROVE  Attends(w)'
<1> SUFFICES ASSUME NEW c \in Handles[w], NEW k \in ChildKinds, Misfit(c, k)',
                    c \notin lag'[w][k][ChildName[c]], c \notin queue'[w]
             PROVE  Ahead(w, c, k)'
  BY DEF Attends, Aware
<1>1. Misfit(c, k) /\ ChildOf(k, c)' = ChildOf(k, c)  BY MisfitsStay
<1>2. c \notin queue[w] /\ c \notin lag[w][k][ChildName[c]]
  BY DEF Moves, Heard, Grows
<1>3. Ahead(w, c, k)  BY <1>1, <1>2 DEF Attends, Aware
<1>4. rc'[w].pc # "idle" /\ rc'[w].comp = c  BY <1>3 DEF Moves, Ahead
<1>5. CASE rc[w].err \/ (rc[w].kind = "AuthConfig" /\ k # "AuthConfig")
  BY <1>4, <1>5 DEF Moves, Ahead
<1>6. CASE rc[w].kind = k
  <2>1. Facing(w)  BY <1>1, <1>2, <1>3, <1>6 DEF Facing, Ahead, ChildOf
  <2>2. rc'[w].pc = "create" => ~ChildOf(k, c)'.present
    BY <1>1, <1>3, <1>6, <2>1 DEF Ahead
  <2> QED  BY <1>4, <1>6, <2>2 DEF Moves, Ahead
<1> QED  BY <1>3, <1>5, <1>6 DEF Ahead

-------------------------------------------------------------------------------
(* The steps, one by one.                                                  *)

Attending == \A w \in Workers : Attends(w)

LEMMA Parts ==
  ASSUME SettledInv
  PROVE  /\ TypeInv /\ CacheIsCurrent /\ FreshIsCurrent /\ ChildOwner /\ LagTells
         /\ Attending
         /\ \A w \in Workers : Knows(w) /\ Handles[w] \subseteq Components
  BY AuthzAssumption DEF SettledInv, KnownInv, CopyInv, Attending

LEMMA WorkAttends ==
  ASSUME SettledInv, Heard, UNCHANGED cr, NEW w \in Workers, Alone(w), Attends(w)'
  PROVE  Attending'
<1> SUFFICES ASSUME NEW v \in Workers \ {w} PROVE Attends(v)'
  BY DEF Attending
<1>1. rc'[v] = rc[v] /\ queue'[v] = queue[v]  BY DEF Alone
<1> QED  BY <1>1, Parts, OthersAttend DEF Attending

LEMMA PassesSound ==
  ASSUME SettledInv, Heard, UNCHANGED cr, NEW w \in Workers,
         NEW e \in BOOLEAN, Passes(w, e), e \/ ~Facing(w)
  PROVE  Attending'
<1>1. Alone(w)  BY DEF Passes
<1>2. Attends(w)'  BY Parts, PassesAttends DEF Attending
<1> QED  BY <1>1, <1>2, WorkAttends

LEMMA MovesSound ==
  ASSUME SettledInv, Heard, UNCHANGED cr, NEW w \in Workers, Moves(w),
         rc'[w].pc = "create" => ~Facing(w) \/ ~ChildOf(rc[w].kind, rc[w].comp).present,
         rc[w].pc # "create"
  PROVE  Attending'
<1>1. Alone(w)  BY DEF Moves
<1>2. Attends(w)'  BY Parts, MovesAttends DEF Attending
<1> QED  BY <1>1, <1>2, WorkAttends

(* What a running worker faces, and what its cache shows of it.            *)
LEMMA FacingFacts ==
  ASSUME SettledInv, NEW w \in Workers, rc[w].pc # "idle", Facing(w)
  PROVE  LET k == rc[w].kind
             n == Name(rc[w])
         IN  /\ Synced(w, k, n) => seen[w][k][n] = child[k][n]
             /\ Synced(w, k, n)
             /\ child[k][n].present => child[k][n].spec # rc[w].desired
<1> DEFINE k == rc[w].kind
           c == rc[w].comp
           n == Name(rc[w])
<1>1. k \in ChildKinds /\ c \in Components /\ n \in Names  BY Parts, RunningType
<1>2. Synced(w, k, n) => seen[w][k][n] = child[k][n]  BY <1>1, Parts DEF CacheIsCurrent
<1>3. Minded(c, k)  BY DEF Facing, Misfit
<1>4. Synced(w, k, n)  BY <1>1, <1>3, Parts DEF Facing, LagTells, Name
<1>5. rc[w].tgt = cr[c] /\ Fits(k, rc[w].desired, cr[c].content)
  BY Parts DEF Knows, Facing
<1>6. child[k][n].present => child[k][n].spec # rc[w].desired
  BY <1>5 DEF Facing, Misfit, ChildOf, Name
<1> QED  BY <1>2, <1>4, <1>6

LEMMA FetchSound ==
  ASSUME SettledInv, NEW w \in Workers, NEW c \in Components, Fetch(w, c)
  PROVE  Heard /\ Attending'
<1>1. Heard  BY Parts, QuietHeard DEF Fetch
<1>2. /\ Alone(w) /\ UNCHANGED cr
      /\ \A d \in queue[w] \ {c} : d \in queue'[w]
      /\ cr[c].phase = "absent" \/ c \in queue'[w] \/ \A k \in ChildKinds : Ahead(w, c, k)'
  BY Parts, FetchKnows
<1>3. Attends(w)'
  <2> SUFFICES ASSUME NEW d \in Handles[w], NEW k \in ChildKinds, Misfit(d, k)'
               PROVE  Aware(w, d, k)'
    BY DEF Attends
  <2>1. d \in Components /\ Handles[w] \subseteq Components  BY Parts
  <2>2. CASE d \in lag'[w][k][ChildName[d]]  BY <2>2 DEF Aware
  <2>3. CASE Misfit(d, k)
    <3>1. Aware(w, d, k)  BY <2>3, Parts DEF Attending, Attends
    <3>2. ~Ahead(w, d, k)  BY DEF Fetch, Ahead
    <3>3. CASE d \in queue[w] /\ d # c  BY <1>2, <3>3 DEF Aware
    <3>4. CASE d = c
      <4>1. cr[c].phase # "absent"  BY <2>3, <3>4 DEF Misfit
      <4> QED  BY <1>2, <3>4, <4>1 DEF Aware
    <3>5. CASE d \in lag[w][k][ChildName[d]]
      BY <1>1, <2>1, <3>5 DEF Aware, Heard, Grows
    <3> QED  BY <3>1, <3>2, <3>3, <3>4, <3>5 DEF Aware
  <2> QED  BY <1>1, <1>2, <2>1, <2>2, <2>3, MisfitsStay
<1> QED  BY <1>1, <1>2, <1>3, WorkAttends

LEMMA GetSound ==
  ASSUME SettledInv, NEW w \in Workers, Get(w)
  PROVE  Heard /\ Attending'
<1> DEFINE k == rc[w].kind
           n == Name(rc[w])
           found == seen[w][k][n]
<1>1. rc[w].pc = "get" /\ UNCHANGED <<cr, child, lag>>  BY DEF Get
<1>2. Heard  BY <1>1, Parts, QuietHeard
<1>3. CASE ~found.present /\ Moves(w) /\ rc'[w].pc = "create"
  <2>1. Facing(w) => ~ChildOf(rc[w].kind, rc[w].comp).present
    BY <1>1, <1>3, FacingFacts DEF ChildOf, Name
  <2> QED  BY <1>1, <1>2, <1>3, <2>1, MovesSound
<1>4. CASE found.present /\ found.spec = rc[w].desired /\ Passes(w, FALSE)
  <2>1. ~Facing(w)  BY <1>1, <1>4, FacingFacts
  <2> QED  BY <1>1, <1>2, <1>4, <2>1, PassesSound
<1>5. CASE Moves(w) /\ rc'[w].pc = "reget"
  BY <1>1, <1>2, <1>5, MovesSound
<1> QED  BY <1>3, <1>4, <1>5, Parts, GetGoes

LEMMA CreateSound ==
  ASSUME SettledInv, NEW w \in Workers, Create(w)
  PROVE  Heard /\ Attending'
<1> DEFINE t == rc[w]
           x == [present |-> TRUE, owner |-> targetToOwnerRef(t), spec |-> t.desired]
<1>1. t.pc = "create" /\ UNCHANGED cr /\ TypeInv  BY Parts DEF Create
<1>2. /\ WellFormed(t) /\ t.comp \in Components /\ Name(t) \in Names
      /\ t.kind \in ChildKinds
  BY <1>1, RunningType
<1>3. PICK e \in BOOLEAN : Passes(w, e)  BY <1>1, CreateGoes
<1>4. CASE child[t.kind][Name(t)].present /\ UNCHANGED <<child, lag>>
  <2>1. Heard  BY <1>4, Parts, QuietHeard
  <2>2. ~Facing(w)  BY <1>1, <1>4 DEF Facing, ChildOf, Name
  <2> QED  BY <1>1, <1>3, <2>1, <2>2, PassesSound
<1>5. CASE ~child[t.kind][Name(t)].present /\ Store(t.kind, Name(t), x)
  <2>1. x \in Child
    BY <1>2 DEF WellFormed, Reconcile, Object, Child, targetToOwnerRef, UidOf, Uid
  <2>2. /\ x.owner # NoOwner /\ x.present
        /\ x.owner.comp = t.comp
    BY <1>2, AuthzAssumption DEF WellFormed, Reconcile, Object, targetToOwnerRef, UidOf
  <2>3. Sole => \A c \in Components : ChildName[c] = Name(t) => t.comp = c
    BY <1>2 DEF Sole, DistinctNames, Name
  <2>4. x.present  OBVIOUS
  <2> HIDE DEF x
  <2>5. Sole => Proper(t.kind, Name(t), x)  BY <2>2, <2>3 DEF Proper
  <2>6. Heard  BY <1>1, <1>2, <1>5, <2>1, <2>5, Parts, StoreHeard
  <2>7. child'[t.kind][Name(t)] = x  BY <1>1, <1>2, <1>5, StoreWrites
  <2>8. ~Facing(w)  BY <1>5, <2>2, <2>7 DEF Facing, ChildOf, Name
  <2> QED  BY <1>1, <1>3, <2>6, <2>8, PassesSound
<1> QED  BY <1>4, <1>5 DEF Create

LEMMA ReGetSound ==
  ASSUME SettledInv, NEW w \in Workers, ReGet(w)
  PROVE  Heard /\ Attending'
<1>1. rc[w].pc = "reget" /\ UNCHANGED <<cr, child, lag>>  BY DEF ReGet
<1>2. Heard  BY <1>1, Parts, QuietHeard
<1>3. CASE Passes(w, TRUE)  BY <1>1, <1>2, <1>3, PassesSound
<1>4. CASE Moves(w) /\ rc'[w].pc = "update"  BY <1>1, <1>2, <1>4, MovesSound
<1> QED  BY <1>3, <1>4, Parts, ReGetGoes

LEMMA UpdateSound ==
  ASSUME SettledInv, NEW w \in Workers, Update(w)
  PROVE  Heard /\ Attending'
<1> DEFINE t == rc[w]
           stored == child[t.kind][Name(t)]
           x == [t.found EXCEPT !.spec = t.desired]
<1>1. t.pc = "update" /\ UNCHANGED cr /\ TypeInv  BY Parts DEF Update
<1>2. /\ WellFormed(t) /\ t.comp \in Components /\ Name(t) \in Names
      /\ t.kind \in ChildKinds
  BY <1>1, RunningType
<1>3. x \in Child  BY <1>2 DEF WellFormed, Reconcile, Child
<1>4. ~Conflict(w) => t.found = stored  BY Parts DEF Conflict, FreshIsCurrent
<1>5. stored \in Child  BY <1>1, <1>2 DEF TypeInv, TypeOK
<1>6. ~Conflict(w) => /\ x.owner = stored.owner /\ x.present = stored.present
                      /\ x.spec = t.desired
  BY <1>4, <1>5 DEF Child
<1>7. \/ UNCHANGED <<child, lag>>
      \/ stored.present /\ ~Conflict(w) /\ Store(t.kind, Name(t), x)
  BY DEF Update, Rewritten
<1>8. stored.present /\ ~Conflict(w) => child'[t.kind][Name(t)].spec = t.desired
  <2> SUFFICES ASSUME stored.present, ~Conflict(w)
               PROVE  child'[t.kind][Name(t)].spec = t.desired
    OBVIOUS
  <2>1. CASE x = stored /\ UNCHANGED child  BY <1>6, <2>1
  <2>2. CASE Store(t.kind, Name(t), x)
    <3> HIDE DEF x
    <3> QED  BY <1>1, <1>2, <1>6, <2>2, StoreWrites
  <2> QED  BY <2>1, <2>2 DEF Update, Rewritten
<1>9. Heard
  <2>1. CASE UNCHANGED <<child, lag>>  BY <2>1, Parts, QuietHeard
  <2>2. CASE stored.present /\ ~Conflict(w) /\ Store(t.kind, Name(t), x)
    <3>1. Sole => \A c \in Components : ChildName[c] = Name(t) =>
            /\ stored.owner = NoOwner \/ stored.owner.comp = c
            /\ stored.owner # NoOwner \/ "owner" \in Edits
      BY <1>2, <2>2, Parts DEF ChildOwner, ChildOf
    <3>2. ChildName[t.comp] = Name(t)  BY DEF Name
    <3> HIDE DEF x
    <3>3. Sole => Proper(t.kind, Name(t), x)
      BY <1>2, <1>6, <2>2, <3>1, <3>2 DEF Proper
    <3> QED  BY <1>1, <1>2, <1>3, <2>2, <3>3, Parts, StoreHeard
  <2> QED  BY <1>7, <2>1, <2>2
<1> HIDE DEF x
<1>10. CASE Passes(w, TRUE)  BY <1>1, <1>9, <1>10, PassesSound
<1>11. CASE Moves(w) /\ rc'[w].pc = "reget"  BY <1>1, <1>9, <1>11, MovesSound
<1>12. CASE Passes(w, FALSE) /\ ~Conflict(w) /\ stored.present
  <2>1. ~Facing(w)
    <3> SUFFICES ASSUME Facing(w) PROVE FALSE  OBVIOUS
    <3>1. stored.spec # t.desired  BY <1>1, <1>12, FacingFacts
    <3>2. child'[t.kind][Name(t)] = stored  BY DEF Facing, ChildOf, Name
    <3> QED  BY <1>8, <1>12, <3>1, <3>2
  <2> QED  BY <1>1, <1>9, <1>12, <2>1, PassesSound
<1> QED  BY <1>1, <1>10, <1>11, <1>12, UpdateGoes

LEMMA ApiErrorSound ==
  ASSUME SettledInv, NEW w \in Workers, ApiError(w)
  PROVE  Heard /\ Attending'
<1>1. rc[w].pc # "idle" /\ UNCHANGED <<cr, child, lag>> /\ OnError(w)  BY DEF ApiError
<1>2. Heard  BY <1>1, Parts, QuietHeard
<1>3. Passes(w, TRUE)  BY <1>1, Parts, OnErrorPasses
<1> QED  BY <1>1, <1>2, <1>3, PassesSound

(* A worker whose lag has gone, and whose queue may have grown.            *)
LEMMA CrashSound ==
  ASSUME SettledInv, NEW w \in Workers, Crash(w)
  PROVE  ChildOwner' /\ LagTells' /\ Attending'
<1>1. UNCHANGED <<cr, child>> /\ Alone(w) /\ \A v \in Workers \ {w} : lag'[v] = lag[v]
  BY Parts DEF Crash, Advance, Alone, TypeInv, TypeOK
<1>2. /\ \A k \in ChildKinds, n \in Names : lag'[w][k][n] = {}
      /\ queue'[w] = {c \in Handles[w] : cr[c].phase # "absent"}
  BY Parts DEF Crash, TypeInv, TypeOK
<1>3. ChildOwner'  BY <1>1, Parts DEF ChildOwner, ChildOf
<1>4. LagTells'
  <2> SUFFICES ASSUME NEW v \in Workers, NEW c \in Components, NEW k \in ChildKinds
               PROVE  \/ lag'[v][k][ChildName[c]] = {}
                      \/ c \in lag'[v][k][ChildName[c]]
                      \/ ~Minded(c, k)
    BY <1>1 DEF LagTells, Minded, OwnerName, ChildOf, Synced
  <2>1. CASE v = w  BY <1>2, <2>1, ChildNames
  <2>2. CASE v # w  BY <1>1, <2>2, Parts DEF LagTells, Synced
  <2> QED  BY <2>1, <2>2
<1>5. Attends(w)'
  BY <1>1, <1>2 DEF Attends, Misfit, Aware
<1>6. ASSUME NEW v \in Workers \ {w} PROVE Attends(v)'
  <2>1. rc'[v] = rc[v] /\ queue'[v] = queue[v] /\ lag'[v] = lag[v]
    BY <1>1 DEF Alone
  <2>2. Attends(v)  BY Parts DEF Attending
  <2> QED  BY <1>1, <2>1, <2>2
    DEF Attends, Misfit, Minded, OwnerName, Aware, Ahead, ChildOf
<1> QED  BY <1>3, <1>4, <1>5, <1>6 DEF Attending

LEMMA SyncSound ==
  ASSUME SettledInv, NEW w \in Workers, NEW k \in ChildKinds, NEW n \in Names, Sync(w, k, n)
  PROVE  ChildOwner' /\ LagTells' /\ Attending'
<1>1. UNCHANGED <<cr, child, rc>>  BY DEF Sync
<1>2. /\ lag'[w][k][n] = {}
      /\ queue'[w] = queue[w] \cup (lag[w][k][n] \cap Handles[w])
  BY Parts DEF Sync, Owns, TypeInv, TypeOK
<1>3. \A v \in Workers, l \in ChildKinds, m \in Names :
        (v = w /\ l = k /\ m = n) \/ lag'[v][l][m] = lag[v][l][m]
  BY Parts DEF Sync, TypeInv, TypeOK
<1>4. \A v \in Workers : queue[v] \subseteq queue'[v]
  BY Parts DEF Sync, TypeInv, TypeOK
<1>5. ChildOwner'  BY <1>1, Parts DEF ChildOwner, ChildOf
<1>6. LagTells'
  <2> SUFFICES ASSUME NEW v \in Workers, NEW c \in Components, NEW l \in ChildKinds
               PROVE  \/ lag'[v][l][ChildName[c]] = {}
                      \/ c \in lag'[v][l][ChildName[c]]
                      \/ ~Minded(c, l)
    BY <1>1 DEF LagTells, Minded, OwnerName, ChildOf, Synced
  <2> QED  BY <1>2, <1>3, ChildNames, Parts DEF LagTells, Synced
<1>7. ASSUME NEW v \in Workers PROVE Attends(v)'
  <2> SUFFICES ASSUME NEW c \in Handles[v], NEW l \in ChildKinds, Misfit(c, l)'
               PROVE  Aware(v, c, l)'
    BY DEF Attends
  <2>1. c \in Components /\ ChildName[c] \in Names  BY ChildNames, Parts
  <2>2. Misfit(c, l) /\ Attends(v)  BY <1>1, Parts DEF Misfit, Minded, OwnerName, ChildOf, Attending
  <2>3. Ahead(v, c, l) => Ahead(v, c, l)'  BY <1>1 DEF Ahead, ChildOf
  <2>4. c \in lag[v][l][ChildName[c]] => \/ c \in lag'[v][l][ChildName[c]]
                                         \/ c \in queue'[v]
    BY <1>2, <1>3, <2>1
  <2> QED  BY <1>4, <2>2, <2>3, <2>4 DEF Attends, Aware
<1> QED  BY <1>5, <1>6, <1>7 DEF Attending

LEMMA OthersSound ==
  ASSUME SettledInv, NEW k \in ChildKinds, NEW n \in Names,
         Collect(k, n) \/ EditChild(k, n)
  PROVE  Heard /\ Attending'
<1> DEFINE old == child[k][n]
<1>1. UNCHANGED <<cr, queue, rc>> /\ old.present  BY DEF Collect, EditChild
<1>2. old \in Child  BY Parts DEF TypeInv, TypeOK
<1>3. Sole => \A c \in Components : ChildName[c] = n =>
        /\ old.owner = NoOwner \/ old.owner.comp = c
        /\ old.owner # NoOwner \/ "owner" \in Edits
  BY <1>1, Parts DEF ChildOwner, ChildOf
<1>4. \E c \in Components : ChildName[c] = n  BY DEF Names
<1> HIDE DEF old
<1>5. Heard
  <2> SUFFICES ASSUME NEW x \in Child, Store(k, n, x), Sole => Proper(k, n, x) PROVE Heard
    <3>1. NoChild \in Child /\ ~NoChild.present /\ NoChild.owner = NoOwner
      BY DEF NoChild, Child, ChildSpec
    <3>2. CASE Store(k, n, NoChild) /\ old.owner # NoOwner
      <4>1. Proper(k, n, NoChild)  BY <1>1, <3>1, <3>2 DEF Proper, old
      <4> QED  BY <3>1, <3>2, <4>1
    <3>3. CASE Store(k, n, [old EXCEPT !.spec = Edited])
      <4> DEFINE y == [old EXCEPT !.spec = Edited]
      <4>1. y \in Child /\ y.present /\ y.owner = old.owner
        BY <1>1, <1>2 DEF Child, ChildSpec
      <4> HIDE DEF y
      <4>2. Sole => Proper(k, n, y)  BY <1>3, <1>4, <4>1 DEF Proper
      <4> QED  BY <3>3, <4>1, <4>2 DEF y
    <3>4. CASE Store(k, n, [old EXCEPT !.owner = NoOwner]) /\ "owner" \in Edits
      <4> DEFINE y == [old EXCEPT !.owner = NoOwner]
      <4>1. y \in Child /\ y.present /\ y.owner = NoOwner
        BY <1>1, <1>2 DEF Child
      <4> HIDE DEF y
      <4>2. Proper(k, n, y)  BY <3>4, <4>1 DEF Proper
      <4> QED  BY <3>4, <4>1, <4>2 DEF y
    <3>5. CASE Store(k, n, NoChild) /\ "delete" \in Edits
      <4>1. Sole => old.owner # NoOwner  BY <1>3, <1>4, <3>5 DEF Sole, Tracked
      <4>2. Sole => Proper(k, n, NoChild)  BY <1>1, <3>1, <4>1 DEF Proper, old
      <4> QED  BY <3>1, <3>5, <4>2
    <3> QED  BY <3>2, <3>3, <3>4, <3>5 DEF Collect, EditChild, old
  <2> QED  BY Parts, StoreHeard
<1>6. \A w \in Workers : Attends(w)'  BY <1>1, <1>5, Parts, OthersAttend DEF Attending
<1> QED  BY <1>5, <1>6 DEF Attending

LEMMA UserSound ==
  ASSUME SettledInv, NEW c \in Components, User(c)
  PROVE  Heard /\ Attending'
<1>1. /\ UNCHANGED <<child, lag, rc>>
      /\ \A d \in Components \ {c} : cr'[d] = cr[d]
      /\ \A w \in Workers : /\ queue[w] \subseteq queue'[w]
                            /\ c \in Handles[w] => c \in queue'[w]
  BY Parts, UserKnows
<1>2. Heard  BY <1>1, Parts, QuietHeard
<1>3. ASSUME NEW w \in Workers, NEW d \in Handles[w], NEW k \in ChildKinds, Misfit(d, k)'
      PROVE  Aware(w, d, k)'
  <2>1. CASE d = c  BY <1>1, <2>1 DEF Aware
  <2>2. CASE d # c
    <3>1. d \in Components  BY Parts
    <3>2. Misfit(d, k)  BY <1>1, <1>3, <2>2, <3>1 DEF Misfit, Minded, OwnerName, ChildOf
    <3>3. Aware(w, d, k)  BY <3>2, Parts DEF Attending, Attends
    <3> QED  BY <1>1, <3>3 DEF Aware, Ahead, ChildOf
  <2> QED  BY <2>1, <2>2
<1> QED  BY <1>2, <1>3 DEF Attending, Attends

LEMMA SettledStep ==
  ASSUME SettledInv, [Next]_vars
  PROVE  SettledInv'
<1>0. KnownInv'  BY KnownStep DEF SettledInv
<1> SUFFICES ChildOwner' /\ LagTells' /\ Attending'
  BY <1>0 DEF SettledInv, Attending
<1>1. CASE UNCHANGED vars
  BY <1>1, Parts DEF vars, ChildOwner, LagTells, Attending, Attends, Misfit, Minded,
                     OwnerName, Aware, Ahead, ChildOf, Synced
<1>2. ASSUME NEW w \in Workers, Step(w) PROVE ChildOwner' /\ LagTells' /\ Attending'
  BY <1>2, FetchSound, GetSound, CreateSound, ReGetSound, UpdateSound DEF Step, Heard
<1>3. ASSUME NEW w \in Workers, ApiError(w) PROVE ChildOwner' /\ LagTells' /\ Attending'
  BY <1>3, ApiErrorSound DEF Heard
<1>4. ASSUME NEW k \in ChildKinds, NEW n \in Names, Collect(k, n) \/ EditChild(k, n)
      PROVE  ChildOwner' /\ LagTells' /\ Attending'
  BY <1>4, OthersSound DEF Heard
<1>5. ASSUME NEW c \in Components, User(c) PROVE ChildOwner' /\ LagTells' /\ Attending'
  BY <1>5, UserSound DEF Heard
<1> QED  BY <1>1, <1>2, <1>3, <1>4, <1>5, CrashSound, SyncSound DEF Next

LEMMA InitSettled == Init => SettledInv
<1> SUFFICES ASSUME Init PROVE SettledInv  OBVIOUS
<1>1. \A c \in Components, k \in ChildKinds : ChildOf(k, c) = NoChild
  BY ChildNames DEF Init, ChildOf
<1>2. ChildOwner  BY <1>1 DEF ChildOwner, NoChild
<1>3. LagTells  BY ChildNames DEF Init, LagTells, Synced
<1>4. \A c \in Components : cr[c].phase = "absent"  BY DEF Init, NoObject
<1>5. \A w \in Workers : Attends(w)
  BY <1>4, AuthzAssumption DEF Attends, Misfit
<1> QED  BY <1>2, <1>3, <1>5, InitKnown DEF SettledInv

LEMMA SettledInvHolds == Spec => []SettledInv
<1>1. Init => SettledInv  BY InitSettled
<1>2. SettledInv /\ [Next]_vars => SettledInv'  BY SettledStep
<1> QED  BY <1>1, <1>2, PTL DEF Spec

(* A CR that nothing is left to do for has no misfit.                      *)
LEMMA NoMisfit ==
  ASSUME SettledInv, NEW w \in Workers, NEW c \in Handles[w], Settled(c),
         NEW k \in ChildKinds
  PROVE  ~Misfit(c, k)
<1>1. ~Aware(w, c, k)  BY DEF Settled, Synced, Aware, Ahead
<1> QED  BY <1>1 DEF SettledInv, Attends

(* When no request for a CR is queued or running and the caches have       *)
(* caught up, both of its children are there, and those that still have    *)
(* their owner fit it, however many managers overlap, restart and fail,    *)
(* and however the caches lag.  It assumes a manager for every CR          *)
(* (Attended), that no two CRs share the names of their children           *)
(* (DistinctNames), and that others do not both take the owner from        *)
(* children and delete children (Tracked); the code notices neither a      *)
(* child that it shares nor one disowned first and deleted then.           *)
THEOREM SettledChildrenFit ==
  ASSUME Attended, DistinctNames, Tracked
  PROVE  Spec => []FitsWhenSettled
<1>1. SettledInv => FitsWhenSettled
  <2> SUFFICES ASSUME SettledInv, NEW c \in Components, cr[c].phase # "absent", Settled(c),
                      NEW k \in ChildKinds
               PROVE  /\ ChildOf(k, c).present
                      /\ ChildOf(k, c).owner # NoOwner =>
                           Fits(k, ChildOf(k, c).spec, cr[c].content)
    BY DEF FitsWhenSettled
  <2>1. Sole  BY DEF Sole
  <2>2. ~Misfit(c, k)  BY NoMisfit DEF Attended
  <2>3. ChildOf(k, c).owner # NoOwner => OwnerName(ChildOf(k, c)) = c
    BY <2>1, OwnerNames DEF SettledInv, ChildOwner
  <2> QED  BY <2>1, <2>2, <2>3 DEF Misfit, Minded
<1> QED  BY <1>1, SettledInvHolds, PTL

(* Whoever shares the names of its children, and whatever is done to them: *)
(* when nothing is left to do for a CR, those that refer to it as their    *)
(* owner fit it.  So of two CRs that share a child the owner prevails.     *)
THEOREM OwnersPrevail ==
  ASSUME Attended
  PROVE  Spec => []OwnFitsWhenSettled
<1>1. SettledInv => OwnFitsWhenSettled
  <2> SUFFICES ASSUME SettledInv, NEW c \in Components, cr[c].phase # "absent", Settled(c),
                      NEW k \in ChildKinds, OwnerName(ChildOf(k, c)) = c
               PROVE  Fits(k, ChildOf(k, c).spec, cr[c].content)
    BY DEF OwnFitsWhenSettled
  <2>1. ~Misfit(c, k)  BY NoMisfit DEF Attended
  <2> QED  BY <2>1 DEF Misfit, Minded
<1> QED  BY <1>1, SettledInvHolds, PTL

-------------------------------------------------------------------------------
(* What the settled children tell about hosts.                             *)

(* A sequence of all elements of a finite set has them all.                *)
LEMMA AllInSequence ==
  ASSUME NEW S, IsFiniteSet(S), NEW q \in SetToSeqs(S)
  PROVE  \A s \in S : \E i \in DOMAIN q : q[i] = s
<1> DEFINE n == Cardinality(S)
           D == 1..n
<1>1. n \in Nat  BY FS_CardinalityType
<1>2. IsFiniteSet(D) /\ Cardinality(D) = n
  <2> HIDE DEF n
  <2> QED  BY <1>1, FS_Interval
<1>3. q \in [D -> S] /\ \A i, j \in D : i # j => q[i] # q[j]  BY DEF SetToSeqs
<1>4. q \in Injection(D, S)  BY <1>3 DEF Injection, IsInjective
<1>5. q \in Surjection(D, S)
  <2> HIDE DEF D
  <2> QED  BY <1>2, <1>4, FS_Injection
<1> QED  BY <1>3, <1>5 DEF Surjection

(* The AuthConfig that fits a CR has the hosts of all addresses that are   *)
(* written on the CR: their extractor never fails.                         *)
LEMMA ConfigHasAddresses ==
  ASSUME IsFiniteSet(Hosts), NEW x \in Content, NEW d \in createAuthConfig(x),
         NEW s \in x.target.addr
  PROVE  \E i \in DOMAIN d.hosts : d.hosts[i] = HostOf[s]
<1> DEFINE H == UnifiedHostExtractor(x.target).hosts
<1>1. IsFiniteSet(H)  BY ExtractorType, FS_Subset DEF Content
<1>2. HostOf[s] \in H
  <2> DEFINE a == NewAnnotationHostExtractor(x.target)
  <2>1. a.texts = x.target.addr /\ ~a.err  BY DEF NewAnnotationHostExtractor
  <2> HIDE DEF a
  <2>2. s \in UNION {y.texts : y \in {z \in {NewPathExpressionExtractor(x.target), a} : ~z.err}}
    BY <2>1
  <2> QED  BY <2>2 DEF UnifiedHostExtractor, a
<1> HIDE DEF H
<1>3. PICK q \in SetToSeqs(H) :
        d = [Load(Detect(x.auth)) EXCEPT !.hosts = q, !.labels = ConfigLabels[x.labels]]
  BY DEF createAuthConfig, H
<1>4. d.hosts = q  BY <1>3 DEF Load
<1> QED  BY <1>1, <1>2, <1>3, <1>4, AllInSequence

(* When nothing is left to do for a CR, the hosts of all its addresses are *)
(* in its AuthConfig, unless that has been disowned.                       *)
LEMMA SettledHasAddresses ==
  ASSUME SettledInv, DistinctNames, IsFiniteSet(Hosts), "owner" \notin Edits,
         NEW w \in Workers, NEW c \in Handles[w], cr[c].phase # "absent", Settled(c)
  PROVE  /\ ChildOf("AuthConfig", c).present
         /\ \A s \in cr[c].content.target.addr :
              \E i \in DOMAIN ChildOf("AuthConfig", c).spec.hosts :
                 ChildOf("AuthConfig", c).spec.hosts[i] = HostOf[s]
<1> DEFINE k == "AuthConfig"
<1>1. c \in Components /\ k \in ChildKinds  BY AuthzAssumption DEF ChildKinds
<1>2. Sole  BY DEF Sole, Tracked
<1>3. ~Misfit(c, k)  BY <1>1, NoMisfit
<1>4. ChildOf(k, c).present  BY <1>2, <1>3 DEF Misfit, Minded
<1>5. OwnerName(ChildOf(k, c)) = c
  BY <1>1, <1>2, <1>4, OwnerNames DEF SettledInv, ChildOwner
<1>6. ChildOf(k, c).spec \in createAuthConfig(cr[c].content)
  BY <1>3, <1>5 DEF Misfit, Minded, Fits
<1>7. cr[c].content \in Content
  BY <1>1 DEF SettledInv, KnownInv, CopyInv, TypeInv, TypeOK, Object
<1> QED  BY <1>4, <1>6, <1>7, ConfigHasAddresses
===============================================================================
