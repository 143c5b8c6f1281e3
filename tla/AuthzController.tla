---------------------------- MODULE AuthzController ----------------------------
(***************************************************************************)
(* The authorization controller (controllers/authzctrl): for each watched  *)
(* CR an AuthConfig and an AuthorizationPolicy of the same name, owned by  *)
(* the CR.  Each call to the API server or to the informer cache is one    *)
(* action.  The CR is read live (unstructured); the two children are read  *)
(* from the cache of the manager, which lags behind the API server.        *)
(*                                                                         *)
(* Incarnations of a name are numbered, as in RoutingController.  A copy   *)
(* of a child that is about to be written is fresh if it carries the       *)
(* resourceVersion of what is stored.                                      *)
(***************************************************************************)
EXTENDS HostExtraction, AuthTemplates, Naturals, SequencesExt

CONSTANTS
  Components,       \* watched CRs
  Workers,          \* running reconcile loops, one per manager and protected kind
  Handles,          \* Handles[w]: the CRs worker w reconciles
  ChildName,        \* ChildName[c]: name of the children of c; the kind of c is not in it
  Contents,         \* what users put into CRs
  Edits,            \* what others do to children, a subset of EditKinds
  Edited,           \* a spec or labels changed by somebody else
  NoSpec, NoOwner, NoComponent,
  MaxIncarnations,  \* bound: objects created per name
  MaxFaults         \* bound: failed calls and crashes

(* What the controller reads of a CR.                                      *)
Content == [auth : BOOLEAN, target : Target, fields : Fields, labels : Labellings]

EditKinds == {"spec", "owner", "delete"}

ASSUME AuthzAssumption ==
  /\ Handles \in [Workers -> SUBSET Components]
  /\ DOMAIN ChildName = Components
  /\ Contents \subseteq Content
  /\ Edits \subseteq EditKinds
  /\ NoComponent \notin Components
  /\ NoOwner \notin [comp : Components, inc : Nat]
  /\ MaxIncarnations \in Nat
  /\ MaxFaults \in Nat

VARIABLES
  cr,      \* the CR stored under each name
  child,   \* child[k][n]: the child of kind k stored under name n
  seen,    \* seen[w][k][n]: the same as the cache of w's manager has it
  lag,     \* lag[w][k][n]: owners in the changes of the child not yet delivered
  fresh,   \* fresh[w]: the copy w is about to update is what is stored
  queue,   \* queue[w]: the workqueue of worker w
  rc,      \* rc[w]: the reconcile worker w is executing
  faults   \* failed calls and crashes so far

vars == <<cr, child, seen, lag, fresh, queue, rc, faults>>

Names == {ChildName[c] : c \in Components}
Uid   == [comp : Components, inc : Nat]

Object == [phase : {"absent", "live", "terminating"}, inc : Nat, content : Content]

ChildKinds == {"AuthConfig", "AuthorizationPolicy"}

(* What the controller compares and writes of a child: spec and labels.    *)
(* Of the spec, what follows from configuration alone (audiences, ports,   *)
(* provider) is left out.                                                  *)
AuthConfigSpec ==
  [auth : AuthTypes, hosts : SetToAllKPermutations(Hosts),
   labels : {ConfigLabels[ls] : ls \in Labellings}]

AuthPolicySpec ==
  [selector : UNION {ResolvedSelectors[f] : f \in Fields},
   labels : {PolicyLabels[ls] : ls \in Labellings}]

ChildSpec      == AuthConfigSpec \cup AuthPolicySpec \cup {Edited, NoSpec}
Child          == [present : BOOLEAN, owner : Uid \cup {NoOwner}, spec : ChildSpec]
NoChild        == [present |-> FALSE, owner |-> NoOwner, spec |-> NoSpec]

Blank == [auth |-> FALSE, target |-> [path |-> <<>>, addr |-> {}],
          fields |-> <<>>, labels |-> <<>>]

NoObject == [phase |-> "absent", inc |-> 0, content |-> Blank]

PCs == {"idle", "get", "create", "reget", "update", "end"}

Reconcile ==
  [pc : PCs,
   comp : Components \cup {NoComponent},  \* req.NamespacedName
   tgt : Object,                          \* sourceRes
   kind : ChildKinds,                     \* the sub-reconciler that runs
   desired : ChildSpec,
   found : Child,                         \* the copy to be updated
   err : BOOLEAN]                         \* errs holds an error

Idle == [pc |-> "idle", comp |-> NoComponent, tgt |-> NoObject, kind |-> "AuthConfig",
         desired |-> NoSpec, found |-> NoChild, err |-> FALSE]

Init ==
  /\ cr = [c \in Components |-> NoObject]
  /\ child = [k \in ChildKinds |-> [n \in Names |-> NoChild]]
  /\ seen = [w \in Workers |-> child]
  /\ lag = [w \in Workers |-> [k \in ChildKinds |-> [n \in Names |-> {}]]]
  /\ fresh = [w \in Workers |-> FALSE]
  /\ queue = [w \in Workers |-> {}]
  /\ rc = [w \in Workers |-> Idle]
  /\ faults = 0

-------------------------------------------------------------------------------
(* Workqueue, errors and the passage from one sub-reconciler to the next.  *)

UidOf(t) == [comp |-> t.comp, inc |-> t.tgt.inc]
Name(t)  == ChildName[t.comp]

Notified(C) == [w \in Workers |-> queue[w] \cup (C \cap Handles[w])]

Advance(w, t) == rc' = [rc EXCEPT ![w] = t]

ForgetsError(t) == t                                                \* mutant
RecordError(t)  == [t EXCEPT !.err = TRUE]

(* The desired AuthConfigs, one per order in which the hosts may come.     *)
createAuthConfig(content) ==
  {[Load(Detect(content.auth)) EXCEPT !.hosts = q, !.labels = ConfigLabels[content.labels]] :
     q \in SetToSeqs(UnifiedHostExtractor(content.target).hosts)}

End(t) == [t EXCEPT !.pc = "end"]

(* The desired policies, one per outcome of the selector; none if it has   *)
(* no value.                                                               *)
createAuthzPolicy(content) ==
  {[selector |-> s, labels |-> PolicyLabels[content.labels]] :
     s \in ResolvedSelectors[content.fields]}

reconcileAuthPolicy(t) ==
  IF createAuthzPolicy(t.tgt.content) = {} THEN {End(RecordError(t))}
  ELSE {[t EXCEPT !.pc = "get", !.kind = "AuthorizationPolicy", !.desired = d] :
          d \in createAuthzPolicy(t.tgt.content)}

(* Both sub-reconcilers run, whatever the first one returns.               *)
reconcileAuthConfig(t) ==
  IF UnifiedHostExtractor(t.tgt.content.target).err
  THEN reconcileAuthPolicy(RecordError(t))
  ELSE {[t EXCEPT !.pc = "get", !.desired = d] : d \in createAuthConfig(t.tgt.content)}

Done(t) ==
  LET u == [t EXCEPT !.found = NoChild, !.desired = NoSpec]
  IN IF t.kind = "AuthConfig" THEN reconcileAuthPolicy(u) ELSE {End(u)}

(* Go on with one of U; at the end the joined errors decide about the      *)
(* request.                                                                *)
Continue(w, U) == \E u \in U :
  \/ /\ u.pc # "end"
     /\ Advance(w, u)
     /\ UNCHANGED queue
  \/ /\ u.pc = "end"
     /\ Advance(w, Idle)
     /\ queue' = [queue EXCEPT ![w] = IF u.err THEN @ \cup {u.comp} ELSE @]

Fault == faults < MaxFaults /\ faults' = faults + 1

(* A failed call, or a reply that is lost, ends the sub-reconciler.        *)
OnError(w) == Fault /\ Continue(w, Done(RecordError(rc[w])))

ApiError(w) ==
  /\ rc[w].pc \in {"get", "create", "reget", "update"}
  /\ OnError(w)
  /\ fresh' = [fresh EXCEPT ![w] = FALSE]
  /\ UNCHANGED <<cr, child, seen, lag>>

(* The manager restarts: its cache is filled and every CR enqueued.        *)
Crash(w) ==
  /\ Fault
  /\ Advance(w, Idle)
  /\ queue' = [queue EXCEPT ![w] = {c \in Handles[w] : cr[c].phase # "absent"}]
  /\ seen' = [seen EXCEPT ![w] = child]
  /\ lag' = [lag EXCEPT ![w] = [k \in ChildKinds |-> [n \in Names |-> {}]]]
  /\ fresh' = [fresh EXCEPT ![w] = FALSE]
  /\ UNCHANGED <<cr, child>>

OwnerName(x)    == IF x.owner = NoOwner THEN NoComponent ELSE x.owner.comp
Synced(w, k, n) == lag[w][k][n] = {}

(* The stored child of kind k and name n becomes x: the caches lag behind, *)
(* and so do the copies in hand.                                           *)
Store(k, n, x) ==
  /\ child' = [child EXCEPT ![k][n] = x]
  /\ lag' = [w \in Workers |-> [lag[w] EXCEPT
                ![k][n] = @ \cup {OwnerName(child[k][n]), OwnerName(x)}]]
  /\ fresh' = [w \in Workers |->
                 fresh[w] /\ ~(rc[w].kind = k /\ Name(rc[w]) = n)]

-------------------------------------------------------------------------------
(* Reconcile.                                                              *)

Fetch(w, c) ==
  /\ rc[w].pc = "idle"
  /\ c \in queue[w]
  /\ \/ /\ cr[c].phase = "absent"
        /\ queue' = [queue EXCEPT ![w] = @ \ {c}]
        /\ UNCHANGED rc
     \/ /\ cr[c].phase # "absent"
        /\ \E u \in reconcileAuthConfig([Idle EXCEPT !.comp = c, !.tgt = cr[c]]) :
             /\ Advance(w, IF u.pc = "end" THEN Idle ELSE u)
             /\ queue' = IF u.pc = "end" /\ u.err THEN queue
                         ELSE [queue EXCEPT ![w] = @ \ {c}]
  /\ UNCHANGED <<cr, child, seen, lag, fresh, faults>>

(* Owner references and annotations are not compared.                      *)
ComparesSpec(found, desired) ==                                     \* mutant
  \/ found.spec = desired
  \/ /\ found.spec \notin {Edited, NoSpec}
     /\ [found.spec EXCEPT !.labels = desired.labels] = desired
Compare(found, desired)      == found.spec = desired

(* The first Get, from the cache, and the comparison.                      *)
Get(w) ==
  LET t == rc[w]
      found == seen[w][t.kind][Name(t)]
  IN /\ t.pc = "get"
     /\ \/ /\ ~found.present
           /\ Advance(w, [t EXCEPT !.pc = "create"])
           /\ UNCHANGED queue
        \/ /\ found.present
           /\ Compare(found, t.desired)
           /\ Continue(w, Done(t))
        \/ /\ found.present
           /\ ~Compare(found, t.desired)
           /\ Advance(w, [t EXCEPT !.pc = "reget"])
           /\ UNCHANGED queue
     /\ UNCHANGED <<cr, child, seen, lag, fresh, faults>>

NoReference(t)      == NoOwner                                      \* mutant
targetToOwnerRef(t) == UidOf(t)

(* AlreadyExists, from an outdated cache, counts as success.               *)
Create(w) ==
  LET t == rc[w]
      x == [present |-> TRUE, owner |-> targetToOwnerRef(t), spec |-> t.desired]
  IN /\ t.pc = "create"
     /\ \/ /\ child[t.kind][Name(t)].present
           /\ Continue(w, Done(t))
           /\ UNCHANGED <<child, lag, fresh, faults>>
        \/ /\ ~child[t.kind][Name(t)].present
           /\ Store(t.kind, Name(t), x)
           /\ \/ Continue(w, Done(t)) /\ UNCHANGED faults
              \/ OnError(w)
     /\ UNCHANGED <<cr, seen>>

(* Each attempt of RetryOnConflict starts with a Get, from the same cache. *)
ReGet(w) ==
  LET t == rc[w]
      found == seen[w][t.kind][Name(t)]
  IN /\ t.pc = "reget"
     /\ \/ /\ ~found.present
           /\ Continue(w, Done(RecordError(t)))
           /\ UNCHANGED fresh
        \/ /\ found.present
           /\ Advance(w, [t EXCEPT !.pc = "update", !.found = found])
           /\ fresh' = [fresh EXCEPT ![w] = Synced(w, t.kind, Name(t))]
           /\ UNCHANGED queue
     /\ UNCHANGED <<cr, child, seen, lag, faults>>

Conflict(w) == ~fresh[w]

(* The whole copy, with spec and labels replaced.                          *)
RestoresOwner(t) == [t.found EXCEPT !.spec = t.desired,             \* mutant
                                    !.owner = targetToOwnerRef(t)]
Rewritten(t)     == [t.found EXCEPT !.spec = t.desired]

(* Update writes it under the resourceVersion of the copy.  After a        *)
(* conflict it is tried again, a few times.                                *)
Update(w) ==
  LET t == rc[w]
      stored == child[t.kind][Name(t)]
      x == Rewritten(t)
  IN /\ t.pc = "update"
     /\ \/ /\ ~stored.present
           /\ Continue(w, Done(RecordError(t)))
           /\ UNCHANGED faults
        \/ /\ stored.present
           /\ Conflict(w)
           /\ \/ /\ Advance(w, [t EXCEPT !.pc = "reget", !.found = NoChild])
                 /\ UNCHANGED queue
              \/ Continue(w, Done(RecordError(t)))
           /\ UNCHANGED faults
        \/ /\ stored.present
           /\ ~Conflict(w)
           /\ \/ Continue(w, Done(t)) /\ UNCHANGED faults
              \/ OnError(w)
     /\ IF stored.present /\ ~Conflict(w) /\ x # stored
        THEN Store(t.kind, Name(t), x)
        ELSE /\ fresh' = [fresh EXCEPT ![w] = FALSE]
             /\ UNCHANGED <<child, lag>>
     /\ UNCHANGED <<cr, seen>>

-------------------------------------------------------------------------------
(* The cache, the garbage collector, users and others.                     *)

(* The watch delivers the changes of a child.  Owns maps it to the request *)
(* named in its controller reference, before and after the change.         *)
NothingOwned(w, k, n) == {}                                         \* mutant
OwnsByName(w, k, n)   == {c \in Handles[w] : ChildName[c] = n}      \* mutant
Owns(w, k, n)         == lag[w][k][n] \cap Handles[w]

Sync(w, k, n) ==
  /\ ~Synced(w, k, n)
  /\ seen' = [seen EXCEPT ![w][k][n] = child[k][n]]
  /\ lag' = [lag EXCEPT ![w][k][n] = {}]
  /\ queue' = [queue EXCEPT ![w] = @ \cup Owns(w, k, n)]
  /\ UNCHANGED <<cr, child, fresh, rc, faults>>

Exists(uid) == cr[uid.comp].phase # "absent" /\ cr[uid.comp].inc = uid.inc

(* A child whose owner is gone is collected.                               *)
Collect(k, n) ==
  /\ child[k][n].present
  /\ child[k][n].owner # NoOwner
  /\ ~Exists(child[k][n].owner)
  /\ Store(k, n, NoChild)
  /\ UNCHANGED <<cr, seen, queue, rc, faults>>

(* Others change a child: its spec or labels, its owner references, or it  *)
(* is deleted.                                                             *)
EditChild(k, n) ==
  /\ child[k][n].present
  /\ \/ "spec" \in Edits   /\ Store(k, n, [child[k][n] EXCEPT !.spec = Edited])
     \/ "owner" \in Edits  /\ Store(k, n, [child[k][n] EXCEPT !.owner = NoOwner])
     \/ "delete" \in Edits /\ Store(k, n, NoChild)
  /\ child' # child
  /\ UNCHANGED <<cr, seen, queue, rc, faults>>

IgnoresUpdates(c) == IF cr'[c].phase = cr[c].phase THEN queue       \* mutant
                                                   ELSE Notified({c})
Watched(c)        == Notified({c})

UserWrite(c, obj) ==
  /\ cr' = [cr EXCEPT ![c] = obj]
  /\ queue' = Watched(c)
  /\ UNCHANGED <<child, seen, lag, fresh, rc, faults>>

CreateCR(c, x) ==
  /\ cr[c].phase = "absent"
  /\ cr[c].inc < MaxIncarnations
  /\ UserWrite(c, [phase |-> "live", inc |-> cr[c].inc + 1, content |-> x])

EditCR(c, x) ==
  /\ cr[c].phase # "absent"
  /\ x # cr[c].content
  /\ UserWrite(c, [cr[c] EXCEPT !.content = x])

(* Any write that the controller does not look at (status, finalizers).    *)
TouchCR(c) ==
  /\ cr[c].phase # "absent"
  /\ UserWrite(c, cr[c])

(* A finalizer of another controller may keep the CR for a while.          *)
DeleteCR(c) ==
  /\ cr[c].phase = "live"
  /\ UserWrite(c, [cr[c] EXCEPT !.phase = "terminating"])

RemoveCR(c) ==
  /\ cr[c].phase # "absent"
  /\ UserWrite(c, [NoObject EXCEPT !.inc = cr[c].inc])

-------------------------------------------------------------------------------
Step(w) ==
  \/ \E c \in Components : Fetch(w, c)
  \/ Get(w)
  \/ Create(w)
  \/ ReGet(w)
  \/ Update(w)

User(c) ==
  \/ \E x \in Contents : CreateCR(c, x) \/ EditCR(c, x)
  \/ TouchCR(c)
  \/ DeleteCR(c)
  \/ RemoveCR(c)

Next ==
  \/ \E w \in Workers : Step(w) \/ ApiError(w) \/ Crash(w)
  \/ \E w \in Workers, k \in ChildKinds, n \in Names : Sync(w, k, n)
  \/ \E k \in ChildKinds, n \in Names : Collect(k, n) \/ EditChild(k, n)
  \/ \E c \in Components : User(c)

Spec == Init /\ [][Next]_vars

(* A reconcile in flight goes on, the workqueue hands out every name it    *)
(* holds, watches deliver, and the garbage collector collects.             *)
Fairness ==
  /\ \A w \in Workers : /\ WF_vars(Step(w))
                        /\ \A c \in Components : SF_vars(Fetch(w, c))
                        /\ \A k \in ChildKinds, n \in Names : WF_vars(Sync(w, k, n))
  /\ \A k \in ChildKinds, n \in Names : WF_vars(Collect(k, n))

FairSpec == Spec /\ Fairness

-------------------------------------------------------------------------------
TypeOK ==
  /\ cr \in [Components -> Object]
  /\ child \in [ChildKinds -> [Names -> Child]]
  /\ seen \in [Workers -> [ChildKinds -> [Names -> Child]]]
  /\ lag \in [Workers -> [ChildKinds -> [Names -> SUBSET (Components \cup {NoComponent})]]]
  /\ fresh \in [Workers -> BOOLEAN]
  /\ queue \in [Workers -> SUBSET Components]
  /\ rc \in [Workers -> Reconcile]
  /\ faults \in 0..MaxFaults

(* s of kind k is right for content x, in whatever order the hosts and the *)
(* selector expressions came.                                              *)
Fits(k, s, x) ==
  \/ k = "AuthConfig" /\ s \in createAuthConfig(x)
  \/ k = "AuthorizationPolicy" /\ s \in createAuthzPolicy(x)

ChildOf(k, c) == child[k][ChildName[c]]

(* Nothing is left to do for c, and the caches show its children.          *)
Settled(c) ==
  \A w \in Workers :
    /\ c \notin queue[w]
    /\ rc[w].comp # c
    /\ \A k \in ChildKinds : Synced(w, k, ChildName[c])

(* When the controller is done with a CR, both children are there and fit  *)
(* it: an outdated cache, AlreadyExists taken for success, a child left by *)
(* an earlier CR of this name and collected late, edits of children all    *)
(* bring the controller back (Owns, controller.go:118-119).  A child that  *)
(* somebody has taken the owner reference from is on its own.              *)
FitsWhenSettled ==
  \A c \in Components : cr[c].phase # "absent" /\ Settled(c) =>
    \A k \in ChildKinds :
      /\ ChildOf(k, c).present
      /\ ChildOf(k, c).owner # NoOwner => Fits(k, ChildOf(k, c).spec, cr[c].content)

(* CRs of two kinds may have one name, and then they share the names of    *)
(* their children: each controller writes what it finds under the name,    *)
(* never asking whose it is (reconcile_authconfig.go:42-69).  The one that *)
(* the child refers to has the last word: what another has written over it *)
(* is reported to its owner, and to nobody else.                           *)
OwnFitsWhenSettled ==
  \A c \in Components : cr[c].phase # "absent" /\ Settled(c) =>
    \A k \in ChildKinds :
      OwnerName(ChildOf(k, c)) = c => Fits(k, ChildOf(k, c).spec, cr[c].content)

(* A write that does not fit the CR, made by a reconcile with an outdated  *)
(* copy of it, is always followed by another reconcile of the CR.          *)
MisfitIsRevisited ==
  [][\A c \in Components, k \in ChildKinds :
       LET new == child'[k][ChildName[c]] IN
       \/ new = ChildOf(k, c)
       \/ cr[c].phase = "absent"
       \/ ~\E w \in Workers : Step(w)
       \/ Fits(k, new.spec, cr[c].content)
       \/ \E w \in Workers : c \in queue[w]]_vars

(* Update replaces spec and labels only: it never brings back owner        *)
(* references that somebody else has changed since the copy was read       *)
(* (reconcile_authconfig.go:59-69), although it writes the whole object.   *)
OthersMetadataKept ==
  [][\A k \in ChildKinds, n \in Names :
       \/ child[k][n].owner = child'[k][n].owner
       \/ ~child[k][n].present
       \/ ~\E w \in Workers : Step(w)]_vars

(* The children of a CR that stays away go too: also those created by a    *)
(* reconcile that was in flight when it went, as every child refers to the *)
(* owner it was made for (controller.go:134).                              *)
EventuallyCollected ==
  \A c \in Components :
    \/ []<>(cr[c].phase # "absent")
    \/ <>[](\A k \in ChildKinds : ~ChildOf(k, c).present)

Others(c) == \E k \in ChildKinds : EditChild(k, ChildName[c])

Extractable(x) == ~UnifiedHostExtractor(x.target).err /\ createAuthzPolicy(x) # {}

(* Nor do the two rewrite a child for ever: only the owner is told of each *)
(* other's writes (controller.go:118-119).                                 *)
NoTugOfWar ==
  \/ []<><<\E c \in Components : User(c)>>_vars
  \/ <>[][child' = child]_vars

(* A CR whose hosts can be found ends up with fitting children, unless it  *)
(* or they are written to for ever: each failure is tried again.           *)
EventuallyFits ==
  \A c \in Components :
    \/ []<><<User(c) \/ Others(c)>>_vars
    \/ []<>(cr[c].phase = "absent" \/ ~Extractable(cr[c].content))
    \/ <>[](\A k \in ChildKinds :
              ChildOf(k, c).present /\ Fits(k, ChildOf(k, c).spec, cr[c].content))

(* reconcile_authconfig.go:56, "Reconcile the Authorino AuthConfig if it   *)
(* has been manually modified": one that fits is left alone.               *)
FittingLeftAlone ==
  [][\A c \in Components, k \in ChildKinds :
       LET old == ChildOf(k, c)
           new == child'[k][ChildName[c]]
       IN \/ ~old.present \/ ~new.present
          \/ ~Fits(k, old.spec, cr[c].content)
          \/ ~Fits(k, new.spec, cr[c].content)
          \/ old.spec = new.spec]_vars
===============================================================================
