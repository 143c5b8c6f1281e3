----------------------------- MODULE PlatformProofs -----------------------------
(***************************************************************************)
(* The two controllers together, for every value of the constants.         *)
(*                                                                         *)
(* Every step of Platform is a step of RoutingController or leaves its     *)
(* variables alone, and the same for AuthzController.  For the second,     *)
(* each write of routing has to be one that AuthzController allows users,  *)
(* with every watch told.  So the theorems about each controller alone     *)
(* hold here, and together they say what neither can say: an address that  *)
(* is advertised is both served and guarded.                               *)
(***************************************************************************)
EXTENDS Platform, FiniteSets, TLAPS

(* The theorems about the two controllers, over the variables of Platform. *)
RP == INSTANCE RoutingServedProofs WITH
  Workers <- RoutingTargets, Handles <- Watching(RoutingTargets),
  MaxFaults <- 0, queue <- rqueue, rc <- rrc, faults <- rfaults

AP == INSTANCE AuthzControllerProofs WITH
  Workers <- ProtectedResources, Handles <- Watching(ProtectedResources),
  MaxFaults <- 0, Edits <- {}, cr <- [c \in Components |-> Protected(c)],
  queue <- aqueue, rc <- arc, faults <- afaults

-------------------------------------------------------------------------------
(* RP has its own instance of RoutingController.  It is the same as R,     *)
(* definition by definition, which only shows when all are expanded.       *)
LEMMA SameRouting ==
  /\ R!Init <=> RP!Init
  /\ R!Next <=> RP!Next
  /\ R!vars = RP!vars
  /\ \A w : R!Step(w) <=> RP!Step(w)
  /\ R!Object = RP!Object
  /\ \A obj : R!Gone(obj) = RP!Gone(obj)
  /\ \A c : R!Settled(c) <=> RP!Settled(c)
  /\ \A c : R!Served(c) <=> RP!Served(c)
<1>1. R!Init <=> RP!Init
  BY DEF R!PublicRoute, RP!PublicRoute, R!ExternalRoute, RP!ExternalRoute,
         R!AllRouteTypes, RP!AllRouteTypes, R!NoAddresses,
         RP!NoAddresses, R!NoObject, RP!NoObject, R!Idle, RP!Idle,
         R!Init, RP!Init
<1>2. R!Next <=> RP!Next
  BY DEF R!PublicRoute, RP!PublicRoute, R!ExternalRoute, RP!ExternalRoute,
         R!AllRouteTypes, RP!AllRouteTypes, R!IsValidRouteType,
         RP!IsValidRouteType, R!extractExportModes,
         RP!extractExportModes, R!UnusedRouteTypes, RP!UnusedRouteTypes,
         R!Kinds, RP!Kinds, R!externalRouteTemplate,
         RP!externalRouteTemplate, R!publicRouteTemplate,
         RP!publicRouteTemplate, R!Load, RP!Load, R!externalGVKs,
         RP!externalGVKs, R!publicGVKs, RP!publicGVKs, R!GVKs, RP!GVKs,
         R!routingResourceGVKs, RP!routingResourceGVKs, R!Endpoint,
         RP!Endpoint, R!NoAddresses, RP!NoAddresses, R!NoObject,
         RP!NoObject, R!Idle, RP!Idle, R!Modes, RP!Modes, R!UidOf,
         RP!UidOf, R!Identity, RP!Identity, R!Notified, RP!Notified,
         R!Invalidated, RP!Invalidated, R!Advance, RP!Advance,
         R!ReturnError, RP!ReturnError, R!RecordError, RP!RecordError,
         R!OnError, RP!OnError, R!Fault, RP!Fault, R!Reply, RP!Reply,
         R!ApiError, RP!ApiError, R!Crash, RP!Crash, R!WriteCR,
         RP!WriteCR, R!EnterPrune, RP!EnterPrune,
         R!ensureResourceHasFinalizer, RP!ensureResourceHasFinalizer,
         R!IsMarkedForDeletion, RP!IsMarkedForDeletion, R!Fetch,
         RP!Fetch, R!Conflict, RP!Conflict, R!PatchGet, RP!PatchGet,
         R!PatchSend, RP!PatchSend, R!SelectedTypes, RP!SelectedTypes, R!Selected, RP!Selected, R!DeleteAllOf,
         RP!DeleteAllOf, R!deleteOwnedResources,
         RP!deleteOwnedResources, R!Gone, RP!Gone, R!removeFinalizer,
         RP!removeFinalizer, R!Endpoints, RP!Endpoints, R!Listed,
         RP!Listed, R!NoneExported,
         RP!NoneExported, R!ListServices, RP!ListServices, R!Exporting,
         RP!Exporting, R!ExportNext, RP!ExportNext, R!LoadBatch,
         RP!LoadBatch, R!ExportType, RP!ExportType, R!Rendered,
         RP!Rendered, R!Occupants, RP!Occupants, R!Writes, RP!Writes,
         R!ApplyGet, RP!ApplyGet, R!ApplyWrite, RP!ApplyWrite,
         R!Addresses, RP!Addresses, R!propagateHostsToWatchedCR,
         RP!propagateHostsToWatchedCR, R!UserWrite, RP!UserWrite,
         R!CreateCR, RP!CreateCR, R!SetExportModes, RP!SetExportModes,
         R!TouchCR, RP!TouchCR, R!DeleteCR, RP!DeleteCR,
         R!ChangeService, RP!ChangeService, R!RemoveService,
         RP!RemoveService, R!ServiceOwner, RP!ServiceOwner, R!Step, RP!Step, R!User,
         RP!User, R!Next, RP!Next
<1>3. R!vars = RP!vars
  BY DEF R!vars, RP!vars
<1>4. \A w : R!Step(w) <=> RP!Step(w)
  BY DEF R!PublicRoute, RP!PublicRoute, R!ExternalRoute, RP!ExternalRoute,
         R!AllRouteTypes, RP!AllRouteTypes, R!IsValidRouteType,
         RP!IsValidRouteType, R!extractExportModes,
         RP!extractExportModes, R!UnusedRouteTypes, RP!UnusedRouteTypes,
         R!Kinds, RP!Kinds, R!externalRouteTemplate,
         RP!externalRouteTemplate, R!publicRouteTemplate,
         RP!publicRouteTemplate, R!Load, RP!Load, R!externalGVKs,
         RP!externalGVKs, R!publicGVKs, RP!publicGVKs, R!GVKs, RP!GVKs,
         R!routingResourceGVKs, RP!routingResourceGVKs, R!Endpoint,
         RP!Endpoint, R!NoAddresses, RP!NoAddresses, R!NoObject,
         RP!NoObject, R!Idle, RP!Idle, R!Modes, RP!Modes, R!UidOf,
         RP!UidOf, R!Identity, RP!Identity, R!Notified, RP!Notified,
         R!Invalidated, RP!Invalidated, R!Advance, RP!Advance,
         R!ReturnError, RP!ReturnError, R!RecordError, RP!RecordError,
         R!OnError, RP!OnError, R!Fault, RP!Fault, R!Reply, RP!Reply,
         R!WriteCR, RP!WriteCR, R!EnterPrune, RP!EnterPrune,
         R!ensureResourceHasFinalizer, RP!ensureResourceHasFinalizer,
         R!IsMarkedForDeletion, RP!IsMarkedForDeletion, R!Fetch,
         RP!Fetch, R!Conflict, RP!Conflict, R!PatchGet, RP!PatchGet,
         R!PatchSend, RP!PatchSend, R!SelectedTypes, RP!SelectedTypes, R!Selected, RP!Selected, R!DeleteAllOf,
         RP!DeleteAllOf, R!deleteOwnedResources,
         RP!deleteOwnedResources, R!Gone, RP!Gone, R!removeFinalizer,
         RP!removeFinalizer, R!Endpoints, RP!Endpoints, R!Listed,
         RP!Listed, R!NoneExported,
         RP!NoneExported, R!ListServices, RP!ListServices, R!Exporting,
         RP!Exporting, R!ExportNext, RP!ExportNext, R!LoadBatch,
         RP!LoadBatch, R!ExportType, RP!ExportType, R!Rendered,
         RP!Rendered, R!Occupants, RP!Occupants, R!Writes, RP!Writes,
         R!ApplyGet, RP!ApplyGet, R!ApplyWrite, RP!ApplyWrite,
         R!Addresses, RP!Addresses, R!propagateHostsToWatchedCR,
         RP!propagateHostsToWatchedCR, R!Step, RP!Step
<1>5. R!Object = RP!Object
  BY DEF R!PublicRoute, RP!PublicRoute, R!ExternalRoute, RP!ExternalRoute,
         R!AllRouteTypes, RP!AllRouteTypes, R!Endpoint, RP!Endpoint,
         R!Phases, RP!Phases, R!Object, RP!Object
<1>6. \A obj : R!Gone(obj) = RP!Gone(obj)
  BY DEF R!PublicRoute, RP!PublicRoute, R!ExternalRoute, RP!ExternalRoute,
         R!AllRouteTypes, RP!AllRouteTypes, R!NoAddresses,
         RP!NoAddresses, R!NoObject, RP!NoObject, R!Gone, RP!Gone
<1>7. \A c : R!Settled(c) <=> RP!Settled(c)
  BY DEF R!Settled, RP!Settled
<1>8. \A c : R!Served(c) <=> RP!Served(c)
  BY DEF R!PublicRoute, RP!PublicRoute, R!ExternalRoute, RP!ExternalRoute,
         R!AllRouteTypes, RP!AllRouteTypes, R!externalRouteTemplate,
         RP!externalRouteTemplate, R!publicRouteTemplate,
         RP!publicRouteTemplate, R!Load, RP!Load, R!Served, RP!Served
<1> QED  BY <1>1, <1>2, <1>3, <1>4, <1>5, <1>6, <1>7, <1>8

(* The same of AuthzController.                                            *)
LEMMA SameAuthz ==
  /\ A!Init <=> AP!Init
  /\ A!Next <=> AP!Next
  /\ A!vars = AP!vars
  /\ \A c : A!Settled(c) <=> AP!Settled(c)
<1>1. A!Init <=> AP!Init
  BY DEF A!Names, AP!Names, A!ChildKinds, AP!ChildKinds, A!NoChild, AP!NoChild,
         A!Blank, AP!Blank, A!NoObject, AP!NoObject, A!Idle, AP!Idle,
         A!Init, AP!Init
<1>2. A!Next <=> AP!Next
  BY DEF A!NewPathExpressionExtractor, AP!NewPathExpressionExtractor,
         A!NewAnnotationHostExtractor, AP!NewAnnotationHostExtractor,
         A!UnifiedHostExtractor, AP!UnifiedHostExtractor, A!Resolvable,
         AP!Resolvable, A!resolve, AP!resolve, A!ResolveSelectors,
         AP!ResolveSelectors, A!Detect, AP!Detect, A!TemplateLabels,
         AP!TemplateLabels, A!Load, AP!Load, A!ConfigLabels,
         AP!ConfigLabels, A!PolicyLabels, AP!PolicyLabels,
         A!ResolvedSelectors, AP!ResolvedSelectors, A!Names, AP!Names,
         A!ChildKinds, AP!ChildKinds, A!NoChild, AP!NoChild, A!Blank,
         AP!Blank, A!NoObject, AP!NoObject, A!Idle, AP!Idle, A!UidOf,
         AP!UidOf, A!Name, AP!Name, A!Notified, AP!Notified, A!Advance,
         AP!Advance, A!RecordError, AP!RecordError, A!createAuthConfig,
         AP!createAuthConfig, A!End, AP!End, A!createAuthzPolicy,
         AP!createAuthzPolicy, A!reconcileAuthPolicy,
         AP!reconcileAuthPolicy, A!reconcileAuthConfig,
         AP!reconcileAuthConfig, A!Done, AP!Done, A!Continue,
         AP!Continue, A!Fault, AP!Fault, A!OnError, AP!OnError,
         A!ApiError, AP!ApiError, A!Crash, AP!Crash, A!OwnerName,
         AP!OwnerName, A!Synced, AP!Synced, A!Store, AP!Store, A!Fetch,
         AP!Fetch, A!Compare, AP!Compare, A!Get, AP!Get,
         A!targetToOwnerRef, AP!targetToOwnerRef, A!Create, AP!Create,
         A!ReGet, AP!ReGet, A!Conflict, AP!Conflict, A!Rewritten,
         AP!Rewritten, A!Update, AP!Update, A!Owns, AP!Owns, A!Sync,
         AP!Sync, A!Exists, AP!Exists, A!Collect, AP!Collect,
         A!EditChild, AP!EditChild, A!Watched, AP!Watched, A!UserWrite,
         AP!UserWrite, A!CreateCR, AP!CreateCR, A!EditCR, AP!EditCR,
         A!TouchCR, AP!TouchCR, A!DeleteCR, AP!DeleteCR, A!RemoveCR,
         AP!RemoveCR, A!Step, AP!Step, A!User, AP!User, A!Next, AP!Next,
         A!L!AppPartOf, AP!L!AppPartOf, A!L!AppComponent,
         AP!L!AppComponent, A!L!AppName, AP!L!AppName, A!L!AppVersion,
         AP!L!AppVersion, A!L!AppManagedBy, AP!L!AppManagedBy,
         A!L!NoLabels, AP!L!NoLabels, A!L!Override, AP!L!Override,
         A!L!addLabel, AP!L!addLabel, A!L!ApplyMetaOptions,
         AP!L!ApplyMetaOptions, A!L!standardLabelsFrom,
         AP!L!standardLabelsFrom, A!L!AppendLabels, AP!L!AppendLabels,
         A!SetToSeqs, AP!SetToSeqs, A!Cardinality, AP!Cardinality
<1>3. A!vars = AP!vars
  BY DEF A!vars, AP!vars
<1>4. \A c : A!Settled(c) <=> AP!Settled(c)
  BY DEF A!ChildKinds, AP!ChildKinds, A!Synced, AP!Synced, A!Settled, AP!Settled
<1> QED  BY <1>1, <1>2, <1>3, <1>4

-------------------------------------------------------------------------------
(* The constants are what the two modules ask for.                         *)

LEMMA ContentType ==
  ASSUME NEW a \in [R!AllRouteTypes -> SUBSET R!Endpoint], NEW s \in Specs
  PROVE  Content([addr |-> a], s) \in AP!Content
<1> DEFINE t == Addresses([addr |-> a])
<1>1. t \subseteq Texts  BY PlatformAssumption DEF Addresses
<1>2. /\ s.auth \in BOOLEAN /\ s.fields \in Fields /\ s.labels \in Labellings
      /\ s.path \in UNION {[P -> SUBSET Texts] : P \in SUBSET HostPaths}
  BY PlatformAssumption
<1>3. Content([addr |-> a], s) =
        [auth |-> s.auth, target |-> [path |-> s.path, addr |-> t],
         fields |-> s.fields, labels |-> s.labels]
  BY DEF Content
<1> HIDE DEF t
<1> QED  BY <1>1, <1>2, <1>3 DEF AP!Content, AP!Target

LEMMA RoutingConstants == RP!ConstantsAssumption
<1>1. R!Endpoint = RP!Endpoint  BY DEF R!Endpoint, RP!Endpoint
<1> QED  BY <1>1, PlatformAssumption DEF RP!ConstantsAssumption, Watching

LEMMA AuthzConstants ==
  AP!AuthzAssumption /\ AP!HostExtractionAssumption /\ AP!AuthTemplatesAssumption
<1>1. Contents \subseteq AP!Content
  <2> SUFFICES ASSUME NEW x \in Contents  PROVE x \in AP!Content  OBVIOUS
  <2>1. PICK a \in [R!AllRouteTypes -> SUBSET R!Endpoint], s \in Specs :
          x = Content([addr |-> a], s)
    BY DEF Contents
  <2> QED  BY <2>1, ContentType
<1> QED
  BY <1>1, PlatformAssumption, AuthTemplatesAssumption
  DEF AP!AuthzAssumption, AP!HostExtractionAssumption, AP!AuthTemplatesAssumption, Watching

-------------------------------------------------------------------------------
(* What is left of an object that is gone is its tombstone, so that        *)
(* removing it once more writes nothing.                                   *)
Tombstones == \A c \in Components : cr[c].phase = "absent" => cr[c] = R!Gone(cr[c])

PlatformInv ==
  /\ RP!KnownInv
  /\ AP!TypeInv
  /\ spec \in [Components -> Specs]
  /\ Tombstones

LEMMA PlatformTypes ==
  ASSUME PlatformInv
  PROVE  /\ cr \in [Components -> R!Object]
         /\ aqueue \in [ProtectedResources -> SUBSET Components]
         /\ spec \in [Components -> Specs]
  BY SameRouting DEF PlatformInv, RP!KnownInv, RP!TypeInv, RP!TypeOK, AP!TypeInv, AP!TypeOK

LEMMA ContentIn ==
  ASSUME NEW obj \in R!Object, NEW s \in Specs
  PROVE  Content(obj, s) \in Contents
<1>1. obj.addr \in [R!AllRouteTypes -> SUBSET R!Endpoint]  BY DEF R!Object
<1>2. Content(obj, s) = Content([addr |-> obj.addr], s)  BY DEF Content, Addresses
<1> QED  BY <1>1, <1>2 DEF Contents

(* Nobody has written to an object.                                        *)
LEMMA NobodyWrites ==
  ASSUME PlatformInv, UNCHANGED <<cr, spec, authzVars>>, aqueue' = A!Notified({})
  PROVE  UNCHANGED A!vars
<1>1. A!Notified({}) = aqueue  BY PlatformTypes DEF A!Notified
<1> QED  BY <1>1 DEF A!vars, authzVars, Protected

(* Object c has been written, and becomes obj to authorization.            *)
LEMMA OneIsWritten ==
  ASSUME NEW c \in Components, NEW obj, Protected(c)' = obj,
         \A d \in Components \ {c} : cr'[d] = cr[d] /\ spec'[d] = spec[d],
         UNCHANGED authzVars, aqueue' = A!Notified({c})
  PROVE  A!UserWrite(c, obj)
<1>1. \A d \in Components \ {c} : Protected(d)' = Protected(d)  BY DEF Protected
<1> QED  BY <1>1 DEF A!UserWrite, A!Watched, authzVars

(* The same object, written by routing or by a user.                       *)
LEMMA WriteIsForeseen ==
  ASSUME PlatformInv, NEW c \in Components,
         cr[c].phase # "absent", cr'[c] \in R!Object, spec'[c] \in Specs,
         cr'[c].phase = cr[c].phase, cr'[c].inc = cr[c].inc,
         \A d \in Components \ {c} : cr'[d] = cr[d] /\ spec'[d] = spec[d],
         UNCHANGED authzVars, aqueue' = A!Notified({c})
  PROVE  A!User(c)
<1> DEFINE x == Content(cr'[c], spec'[c])
           p == Protected(c)
<1>1. x \in Contents  BY ContentIn
<1>2. p.phase = cr[c].phase /\ p = [phase |-> cr[c].phase, inc |-> cr[c].inc,
                                    content |-> Content(cr[c], spec[c])]
  BY DEF Protected
<1>3. Protected(c)' = [phase |-> cr[c].phase, inc |-> cr[c].inc, content |-> x]
  BY DEF Protected
<1>4. Protected(c)' = [p EXCEPT !.content = x]  BY <1>2, <1>3
<1>5. CASE x = p.content
  <2>1. Protected(c)' = p  BY <1>2, <1>3, <1>5
  <2>2. A!UserWrite(c, p)  BY <2>1, OneIsWritten
  <2>3. A!TouchCR(c)  BY <1>2, <2>2 DEF A!TouchCR
  <2> QED  BY <2>3 DEF A!User
<1>6. CASE x # p.content
  <2>1. A!UserWrite(c, [p EXCEPT !.content = x])  BY <1>4, OneIsWritten
  <2> HIDE DEF x
  <2>2. A!EditCR(c, x)  BY <1>2, <1>6, <2>1 DEF A!EditCR
  <2> QED  BY <1>1, <2>2 DEF A!User
<1> QED  BY <1>5, <1>6

(* The object is gone.                                                     *)
LEMMA RemovalIsForeseen ==
  ASSUME NEW c \in Components, cr[c].phase # "absent", cr'[c] = R!Gone(cr[c]),
         \A d \in Components \ {c} : cr'[d] = cr[d] /\ spec'[d] = spec[d],
         UNCHANGED authzVars, aqueue' = A!Notified({c})
  PROVE  A!User(c)
<1> DEFINE p == Protected(c)
           q == [A!NoObject EXCEPT !.inc = p.inc]
<1>1. cr'[c].phase = "absent" /\ cr'[c].inc = cr[c].inc
  BY DEF R!Gone, R!NoObject
<1>2. p.phase = cr[c].phase /\ p.inc = cr[c].inc  BY DEF Protected
<1>3. Protected(c)' = [phase |-> "absent", inc |-> cr[c].inc, content |-> Nothing]
  BY <1>1 DEF Protected
<1>4. q = [phase |-> "absent", inc |-> cr[c].inc, content |-> Nothing]
  <2>1. A!Blank = Nothing  BY DEF A!Blank, Nothing
  <2> HIDE DEF p
  <2> QED  BY <1>2, <2>1 DEF A!NoObject
<1>5. A!UserWrite(c, q)  BY <1>3, <1>4, OneIsWritten
<1> QED  BY <1>2, <1>5 DEF A!RemoveCR, A!User

LEMMA TombstoneStays == \A obj : R!Gone(R!Gone(obj)) = R!Gone(obj) /\ R!Gone(obj).phase = "absent"
  BY DEF R!Gone, R!NoObject

(* A step of a routing worker.                                             *)
LEMMA RoutingIsForeseen ==
  ASSUME PlatformInv, NEW w \in RoutingTargets, R!Step(w), UNCHANGED restVars, Told
  PROVE  (UNCHANGED A!vars \/ \E c \in Components : A!User(c)) /\ Tombstones'
<1>1. UNCHANGED <<spec, authzVars>> /\ spec \in [Components -> Specs]
  BY PlatformTypes DEF restVars
<1>2. cr \in [Components -> R!Object] /\ RP!KnownInv  BY PlatformTypes DEF PlatformInv
<1>3. CASE UNCHANGED cr
  <2>1. aqueue' = A!Notified({})  BY <1>3 DEF Told, Hears
  <2> QED  BY <1>1, <1>3, <2>1, NobodyWrites DEF PlatformInv, Tombstones
<1>4. ASSUME NEW c \in Components, NEW obj \in R!Object, cr' = [cr EXCEPT ![c] = obj],
             cr'[c] # cr[c],
             \/ obj.phase = cr[c].phase /\ obj.phase # "absent" /\ obj.inc = cr[c].inc
             \/ obj = R!Gone(cr[c])
      PROVE  A!User(c) /\ Tombstones'
  <2>1. cr'[c] = obj /\ \A d \in Components \ {c} : cr'[d] = cr[d] /\ spec'[d] = spec[d]
    BY <1>1, <1>2, <1>4
  <2>2. {d \in Components : cr'[d] # cr[d]} = {c}  BY <1>4, <2>1
  <2>3. aqueue' = A!Notified({c})  BY <2>2 DEF Told, Hears
  <2>4. Tombstones  BY DEF PlatformInv
  <2>5. CASE obj.phase = cr[c].phase /\ obj.phase # "absent" /\ obj.inc = cr[c].inc
    <3>1. A!User(c)  BY <1>1, <2>1, <2>3, <2>5, WriteIsForeseen
    <3>2. Tombstones'  BY <2>1, <2>4, <2>5 DEF Tombstones
    <3> QED  BY <3>1, <3>2
  <2>6. CASE obj = R!Gone(cr[c])
    <3>1. cr[c].phase # "absent"  BY <1>4, <2>1, <2>4, <2>6 DEF Tombstones
    <3>2. A!User(c)  BY <1>1, <2>1, <2>3, <2>6, <3>1, RemovalIsForeseen
    <3>3. Tombstones'  BY <2>1, <2>4, <2>6, TombstoneStays DEF Tombstones
    <3> QED  BY <3>2, <3>3
  <2> QED  BY <1>4, <2>5, <2>6
<1>5. \/ UNCHANGED cr
      \/ \E c \in Components, obj \in R!Object :
           /\ cr' = [cr EXCEPT ![c] = obj]
           /\ \/ obj.phase = cr[c].phase /\ obj.phase # "absent" /\ obj.inc = cr[c].inc
              \/ obj = R!Gone(cr[c])
  <2>1. RP!Step(w)  BY SameRouting
  <2>2. \/ UNCHANGED cr
        \/ \E c \in Components, obj \in RP!Object :
             /\ cr' = [cr EXCEPT ![c] = obj]
             /\ \/ obj.phase = cr[c].phase /\ obj.phase # "absent" /\ obj.inc = cr[c].inc
                \/ obj = RP!Gone(cr[c])
    BY <1>2, <2>1, RoutingConstants, RP!StepWrites
  <2> QED  BY <2>2, SameRouting
<1>6. ASSUME NEW c \in Components, NEW obj \in R!Object, cr' = [cr EXCEPT ![c] = obj],
             cr'[c] = cr[c]
      PROVE  cr' = cr
  BY <1>2, <1>6
<1> QED  BY <1>3, <1>4, <1>5, <1>6

(* A user.                                                                 *)
LEMMA UserIsForeseen ==
  ASSUME PlatformInv, NEW c \in Components, User(c), cr' \in [Components -> R!Object]
  PROVE  A!User(c) /\ Tombstones' /\ spec' \in [Components -> Specs]
<1>1. UNCHANGED authzVars /\ aqueue' = A!Notified({c})  BY DEF User
<1>2. Tombstones /\ cr \in [Components -> R!Object] /\ spec \in [Components -> Specs]
  BY PlatformTypes DEF PlatformInv
<1>3. /\ spec' \in [Components -> Specs]
      /\ \A d \in Components \ {c} : spec'[d] = spec[d]
      /\ R!TouchCR(c) \/ spec' = spec
  BY <1>2 DEF User
<1>4. R!User(c)  BY DEF User, R!User
<1>5. \A d \in Components \ {c} : cr'[d] = cr[d]
  BY <1>2, <1>4 DEF R!User, R!CreateCR, R!SetExportModes, R!TouchCR, R!DeleteCR, R!UserWrite
<1>6. ASSUME cr[c].phase # "absent", cr'[c].phase = cr[c].phase, cr'[c].inc = cr[c].inc
      PROVE  A!User(c) /\ Tombstones'
  <2>1. A!User(c)  BY <1>1, <1>3, <1>5, <1>6, WriteIsForeseen
  <2>2. Tombstones'  BY <1>2, <1>5, <1>6 DEF Tombstones
  <2> QED  BY <2>1, <2>2
<1>7. ASSUME NEW E \in SUBSET ExportKeys, R!CreateCR(c, E)
      PROVE  A!User(c) /\ Tombstones'
  <2> DEFINE x == Content(cr'[c], spec'[c])
  <2>1. cr[c].phase = "absent" /\ cr[c].inc < MaxIncarnations  BY <1>7 DEF R!CreateCR
  <2>2. cr'[c].phase = "live" /\ cr'[c].inc = cr[c].inc + 1
    BY <1>2, <1>7 DEF R!CreateCR, R!UserWrite, R!NoObject
  <2>3. Protected(c).phase = "absent" /\ Protected(c).inc = cr[c].inc
    BY <2>1 DEF Protected
  <2>4. Protected(c)' = [phase |-> "live", inc |-> Protected(c).inc + 1, content |-> x]
    BY <2>2, <2>3 DEF Protected
  <2>5. A!UserWrite(c, [phase |-> "live", inc |-> Protected(c).inc + 1, content |-> x])
    BY <1>1, <1>3, <1>5, <2>4, OneIsWritten
  <2>6. x \in Contents  BY <1>3, ContentIn
  <2> HIDE DEF x
  <2>7. A!CreateCR(c, x)  BY <2>1, <2>3, <2>5 DEF A!CreateCR
  <2>8. A!User(c)  BY <2>6, <2>7 DEF A!User
  <2>9. Tombstones'  BY <1>2, <1>5, <2>2 DEF Tombstones
  <2> QED  BY <2>8, <2>9
<1>8. ASSUME NEW E \in SUBSET ExportKeys, R!SetExportModes(c, E)
      PROVE  A!User(c) /\ Tombstones'
  <2>1. cr[c].phase # "absent" /\ cr'[c] = [cr[c] EXCEPT !.exports = E]
    BY <1>2, <1>8 DEF R!SetExportModes, R!UserWrite
  <2>2. cr'[c].phase = cr[c].phase /\ cr'[c].inc = cr[c].inc
    BY <1>2, <2>1 DEF R!Object
  <2> QED  BY <1>6, <2>1, <2>2
<1>9. CASE R!TouchCR(c)
  BY <1>2, <1>3, <1>6, <1>9 DEF R!TouchCR, R!UserWrite
<1>10. CASE R!DeleteCR(c) /\ spec' = spec
  <2>1. cr[c].phase = "live" /\ spec' = spec  BY <1>10 DEF R!DeleteCR
  <2>2. CASE cr'[c] = R!Gone(cr[c])
    <3>1. A!User(c)  BY <1>1, <1>3, <1>5, <2>1, <2>2, RemovalIsForeseen
    <3>2. Tombstones'  BY <1>2, <1>5, <2>2, TombstoneStays DEF Tombstones
    <3> QED  BY <1>3, <3>1, <3>2
  <2>3. CASE cr'[c] = [cr[c] EXCEPT !.phase = "terminating"]
    <3> DEFINE p == Protected(c)
    <3>1. /\ p.phase = "live"
          /\ p = [phase |-> "live", inc |-> cr[c].inc, content |-> Content(cr[c], spec[c])]
      BY <2>1 DEF Protected
    <3>2. /\ cr'[c].phase = "terminating" /\ cr'[c].inc = cr[c].inc
          /\ cr'[c].addr = cr[c].addr
      BY <1>2, <2>3 DEF R!Object
    <3>3. Content(cr'[c], spec[c]) = Content(cr[c], spec[c])
      BY <3>2 DEF Content, Addresses
    <3>4. Protected(c)' = [phase |-> "terminating", inc |-> cr[c].inc,
                           content |-> Content(cr[c], spec[c])]
      BY <2>1, <3>2, <3>3 DEF Protected
    <3>5. Protected(c)' = [p EXCEPT !.phase = "terminating"]
      <4> HIDE DEF p
      <4> QED  BY <3>1, <3>4
    <3>6. A!UserWrite(c, [p EXCEPT !.phase = "terminating"])
      BY <1>1, <1>3, <1>5, <3>5, OneIsWritten
    <3>7. A!User(c)  BY <3>1, <3>6 DEF A!DeleteCR, A!User
    <3>8. Tombstones'  BY <1>2, <1>5, <3>2 DEF Tombstones
    <3> QED  BY <1>3, <3>7, <3>8
  <2> QED  BY <1>2, <1>3, <1>10, <2>2, <2>3 DEF R!DeleteCR, R!UserWrite
<1> QED  BY <1>3, <1>4, <1>7, <1>8, <1>9, <1>10 DEF R!User

(* Every step of the two controllers together is a step of each of them,   *)
(* or none of its business.                                                *)
LEMMA StepOfRouting ==
  ASSUME [Next]_platformVars
  PROVE  [R!Next]_R!vars
<1>1. ASSUME NEW w \in RoutingTargets, RoutingStep(w)  PROVE R!Next
  BY <1>1 DEF RoutingStep, R!Next
<1>2. ASSUME NEW s \in Services, R!ServiceOwner(s)  PROVE R!Next
  BY <1>2 DEF R!Next
<1>3. ASSUME NEW c \in Components, User(c)  PROVE R!Next
  <2>1. R!User(c)  BY <1>3 DEF User, R!User
  <2> QED  BY <2>1 DEF R!Next
<1>4. UNCHANGED routingVars => UNCHANGED R!vars  BY DEF routingVars, R!vars
<1> QED
  BY <1>1, <1>2, <1>3, <1>4
  DEF Next, AuthzStep, Deliver, Collect, platformVars

LEMMA StepOfAuthz ==
  ASSUME PlatformInv, [Next]_platformVars, cr' \in [Components -> R!Object]
  PROVE  [A!Next]_A!vars /\ Tombstones' /\ spec' \in [Components -> Specs]
<1>1. Tombstones /\ spec \in [Components -> Specs]  BY DEF PlatformInv
<1>2. (\E c \in Components : A!User(c)) => A!Next  BY DEF A!Next
<1>3. ASSUME NEW w \in RoutingTargets, RoutingStep(w)
      PROVE  [A!Next]_A!vars /\ Tombstones' /\ UNCHANGED spec
  BY <1>2, <1>3, RoutingIsForeseen DEF RoutingStep, restVars
<1>4. ASSUME NEW s \in Services, UNCHANGED restVars, R!ServiceOwner(s), Told
      PROVE  UNCHANGED A!vars /\ UNCHANGED <<cr, spec>>
  <2>1. UNCHANGED <<cr, spec, authzVars>>
    BY <1>4 DEF R!ServiceOwner, R!ChangeService, R!RemoveService, restVars
  <2>2. aqueue' = A!Notified({})  BY <1>4, <2>1 DEF Told, Hears
  <2> QED  BY <2>1, <2>2, NobodyWrites
<1>5. ASSUME NEW w \in ProtectedResources, AuthzStep(w)
      PROVE  A!Next /\ UNCHANGED <<cr, spec>>
  BY <1>5 DEF AuthzStep, routingVars, A!Next
<1>6. ASSUME NEW w \in ProtectedResources, NEW k \in A!ChildKinds, NEW n \in A!Names,
             Deliver(w, k, n)
      PROVE  A!Next /\ UNCHANGED <<cr, spec>>
  BY <1>6 DEF Deliver, routingVars, A!Next
<1>7. ASSUME NEW k \in A!ChildKinds, NEW n \in A!Names, Collect(k, n)
      PROVE  A!Next /\ UNCHANGED <<cr, spec>>
  BY <1>7 DEF Collect, routingVars, A!Next
<1>8. ASSUME NEW c \in Components, User(c)
      PROVE  A!Next /\ Tombstones' /\ spec' \in [Components -> Specs]
  BY <1>2, <1>8, UserIsForeseen
<1>9. CASE UNCHANGED platformVars
  <2>1. UNCHANGED <<cr, spec, authzVars, aqueue>>  BY <1>9 DEF platformVars, routingVars
  <2> QED  BY <1>1, <2>1 DEF A!vars, authzVars, Protected, Tombstones
<1>10. UNCHANGED cr => Tombstones'  BY <1>1 DEF Tombstones
<1> QED
  BY <1>1, <1>3, <1>4, <1>5, <1>6, <1>7, <1>8, <1>9, <1>10 DEF Next

LEMMA PlatformStep ==
  ASSUME PlatformInv, [Next]_platformVars
  PROVE  PlatformInv' /\ [R!Next]_R!vars /\ [A!Next]_A!vars
<1>1. [R!Next]_R!vars  BY StepOfRouting
<1>2. RP!KnownInv /\ AP!TypeInv  BY DEF PlatformInv
<1>3. RP!KnownInv'
  <2>1. [RP!Next]_RP!vars  BY <1>1, SameRouting DEF R!vars, RP!vars
  <2> QED  BY <1>2, <2>1, RoutingConstants, RP!NextKnown
<1>4. cr' \in [Components -> R!Object]
  BY <1>3, SameRouting DEF RP!KnownInv, RP!TypeInv, RP!TypeOK
<1>5. [A!Next]_A!vars /\ Tombstones' /\ spec' \in [Components -> Specs]
  BY <1>4, StepOfAuthz
<1>6. AP!TypeInv'
  <2>1. [AP!Next]_AP!vars  BY <1>5, SameAuthz DEF A!vars, AP!vars
  <2> QED  BY <1>2, <2>1, AuthzConstants, AP!NextType
<1> QED  BY <1>1, <1>3, <1>5, <1>6 DEF PlatformInv

LEMMA PlatformInit == Init => PlatformInv
<1> SUFFICES ASSUME Init  PROVE PlatformInv  OBVIOUS
<1>1. RP!KnownInv  BY RoutingConstants, SameRouting, RP!InitKnown DEF Init
<1>2. AP!TypeInv  BY AuthzConstants, SameAuthz, AP!InitType DEF Init
<1>3. Tombstones
  <2>1. \A c \in Components : cr[c] = R!NoObject  BY DEF Init, R!Init
  <2>2. R!NoObject = R!Gone(R!NoObject)  BY DEF R!NoObject, R!Gone
  <2> QED  BY <2>1, <2>2 DEF Tombstones
<1> QED  BY <1>1, <1>2, <1>3 DEF Init, PlatformInv

LEMMA PlatformInvHolds == Spec => []PlatformInv /\ R!Spec /\ A!Spec
<1>1. Init => PlatformInv /\ R!Init /\ A!Init  BY PlatformInit DEF Init
<1>2. PlatformInv /\ [Next]_platformVars
        => PlatformInv' /\ [R!Next]_R!vars /\ [A!Next]_A!vars
  BY PlatformStep
<1> QED  BY <1>1, <1>2, PTL DEF Spec, R!Spec, A!Spec

-------------------------------------------------------------------------------
(* What the authorization controller does beside the routing controller is *)
(* what it does among users: every finalizer and every address that        *)
(* routing writes, and every removal that it lets happen, is a write that  *)
(* AuthzController foresees and hears of.  Its theorems hold here.         *)
THEOREM AuthzIsAmongUsers == Spec => AuthzAmongUsers
  BY PlatformInvHolds DEF AuthzAmongUsers

(* Platform implements both controllers.                                   *)
LEMMA SpecsImply == Spec => RP!Spec /\ AP!Spec
<1>1. R!Init => RP!Init  BY SameRouting
<1>2. [R!Next]_R!vars => [RP!Next]_RP!vars  BY SameRouting DEF R!vars, RP!vars
<1>3. A!Init => AP!Init  BY SameAuthz
<1>4. [A!Next]_A!vars => [AP!Next]_AP!vars  BY SameAuthz DEF A!vars, AP!vars
<1> QED
  BY <1>1, <1>2, <1>3, <1>4, PlatformInvHolds, PTL DEF R!Spec, A!Spec, RP!Spec, AP!Spec

(* Every component is of a kind that has a routing controller.             *)
AllRouted == \A c \in Components : KindOf[c] \in RoutingTargets

(* What is written on the CR is what the authorization controller has read.*)
LEMMA HostsListed ==
  ASSUME AP!DistinctNames, IsFiniteSet(Hosts), PlatformInv, AP!SettledInv,
         NEW c \in Components, cr[c].phase = "live", KindOf[c] \in ProtectedResources,
         A!Settled(c), NEW m \in R!AllRouteTypes
  PROVE  HostsOf(m, cr[c].addr[m]) \subseteq GuardedHosts(c)
<1> DEFINE p == [d \in Components |-> Protected(d)][c]
           x == A!ChildOf("AuthConfig", c)
<1>1. p.phase # "absent" /\ p.content = Content(cr[c], spec[c])  BY DEF Protected
<1>2. p.content.target.addr = Addresses(cr[c])  BY <1>1 DEF Content
<1>3. c \in Watching(ProtectedResources)[KindOf[c]]  BY DEF Watching
<1>4. AP!IsFiniteSet(Hosts)  BY DEF AP!IsFiniteSet, IsFiniteSet
<1>5. x = AP!ChildOf("AuthConfig", c)  BY DEF A!ChildOf, AP!ChildOf
<1>6. /\ x.present
      /\ \A s \in p.content.target.addr :
           \E i \in DOMAIN x.spec.hosts : x.spec.hosts[i] = HostOf[s]
  <2>1. AP!Settled(c)  BY SameAuthz
  <2>2. "owner" \notin {}  OBVIOUS
  <2>3. /\ AP!ChildOf("AuthConfig", c).present
        /\ \A s \in p.content.target.addr :
             \E i \in DOMAIN AP!ChildOf("AuthConfig", c).spec.hosts :
                AP!ChildOf("AuthConfig", c).spec.hosts[i] = HostOf[s]
    <3> HIDE DEF x
    <3> QED
      BY <1>1, <1>3, <1>4, <2>1, <2>2, AuthzConstants, AP!SettledHasAddresses
  <2> QED  BY <1>5, <2>3
<1> HIDE DEF p, x
<1> SUFFICES ASSUME NEW e \in cr[c].addr[m], NEW s \in AddressesOf[m][e]
             PROVE  HostOf[s] \in GuardedHosts(c)
  BY DEF HostsOf
<1>7. s \in Addresses(cr[c])  BY DEF Addresses
<1> QED  BY <1>2, <1>6, <1>7 DEF GuardedHosts, x

(* What is settled for each controller fits together: the addresses that   *)
(* one has served are those that the other has read.                       *)
LEMMA GuardedWhenSettled ==
  ASSUME AP!DistinctNames, IsFiniteSet(Hosts), PlatformInv, RP!AdvertisedIsServed,
         AP!SettledInv
  PROVE  AddressesGuarded
<1> SUFFICES ASSUME NEW c \in Components, cr[c].phase = "live",
                    KindOf[c] \in ProtectedResources, R!Settled(c), A!Settled(c)
             PROVE  /\ R!Served(c)
                    /\ \A m \in R!AllRouteTypes :
                         HostsOf(m, cr[c].addr[m]) \subseteq GuardedHosts(c)
  BY DEF AddressesGuarded
<1>1. R!Served(c)  BY SameRouting DEF RP!AdvertisedIsServed
<1> QED  BY <1>1, HostsListed

(* And so are the hosts of what one has exported.                          *)
LEMMA RoutesGuardedWhenSettled ==
  ASSUME AP!DistinctNames, IsFiniteSet(Hosts), PlatformInv, RP!AllHostsAdvertised,
         AP!SettledInv
  PROVE  RoutesGuarded
<1> SUFFICES ASSUME NEW c \in Components, cr[c].phase = "live",
                    KindOf[c] \in ProtectedResources, R!Settled(c), A!Settled(c),
                    NEW r \in R!Owned(c)
             PROVE  HostsOf(r.type, {r.backend}) \subseteq GuardedHosts(c)
  BY DEF RoutesGuarded
<1>1. r \in RP!Owned(c) /\ RP!Settled(c)
  BY SameRouting DEF R!Owned, RP!Owned
<1>2. r.backend \in cr[c].addr[r.type]  BY <1>1 DEF RP!AllHostsAdvertised
<1>3. r.type \in R!AllRouteTypes
  <2>1. r \in RP!Resource
    BY <1>1 DEF PlatformInv, RP!KnownInv, RP!TypeInv, RP!TypeOK, RP!Owned
  <2> QED
    BY <2>1 DEF RP!Resource, RP!AllRouteTypes, R!AllRouteTypes, RP!PublicRoute,
                R!PublicRoute, RP!ExternalRoute, R!ExternalRoute
<1>4. HostsOf(r.type, cr[c].addr[r.type]) \subseteq GuardedHosts(c)
  BY <1>3, HostsListed
<1> QED  BY <1>2, <1>4 DEF HostsOf

(* Every address on a CR of a protected kind is in its AuthConfig once the *)
(* authorization controller is done with it: for any number of CRs, kinds  *)
(* and services and any order of the steps of both controllers and of      *)
(* users.  It needs that no two CRs share the names of their children      *)
(* (DistinctNames); the hosts are finitely many, as createAuthConfig lists *)
(* them (reconcile_authconfig.go:102).                                     *)
AddressesListed ==
  \A c \in Components :
    cr[c].phase = "live" /\ KindOf[c] \in ProtectedResources /\ A!Settled(c) =>
      \A m \in R!AllRouteTypes : HostsOf(m, cr[c].addr[m]) \subseteq GuardedHosts(c)

THEOREM AddressesAreListed ==
  ASSUME AP!DistinctNames, IsFiniteSet(Hosts)
  PROVE  Spec => []AddressesListed
<1>1. AP!Spec => []AP!SettledInv  BY AuthzConstants, AP!SettledInvHolds
<1>2. PlatformInv /\ AP!SettledInv => AddressesListed  BY HostsListed DEF AddressesListed
<1> QED  BY <1>1, <1>2, SpecsImply, PlatformInvHolds, PTL

(* When both controllers are done with a live CR of a protected kind, it   *)
(* also leads somewhere.  That takes more: names in the gateway namespace  *)
(* that belong to one endpoint (OwnNames), a routing controller for every  *)
(* kind (AllRouted), and that no deletion made for another CR takes what   *)
(* is needed (NothingTaken), which the deletions, that do not look at the  *)
(* owner, do not warrant by themselves when there are several CRs.         *)
THEOREM AddressesAreGuarded ==
  ASSUME AllRouted, RP!OwnNames, AP!DistinctNames, IsFiniteSet(Hosts)
  PROVE  Spec /\ [][RP!NothingTaken]_platformVars => []AddressesGuarded
<1>1. RP!Apart  BY DEF RP!Apart, Watching
<1>2. RP!Watched  BY DEF RP!Watched, Watching, AllRouted
<1>3. RP!Spec /\ [][RP!NothingTaken]_RP!vars => []RP!AdvertisedIsServed
  BY <1>1, <1>2, RoutingConstants, RP!AdvertisedAreServed
<1>4. AP!Spec => []AP!SettledInv  BY AuthzConstants, AP!SettledInvHolds
<1>5. PlatformInv /\ RP!AdvertisedIsServed /\ AP!SettledInv => AddressesGuarded
  BY GuardedWhenSettled
<1>6. [RP!NothingTaken]_platformVars => [RP!NothingTaken]_RP!vars
  BY DEF platformVars, routingVars, RP!vars
<1> QED  BY <1>3, <1>4, <1>5, <1>6, SpecsImply, PlatformInvHolds, PTL

(* And every route to it is protected: no routing resource of the CR has a *)
(* host that the AuthConfig does not list.  This asks for less of the      *)
(* names (nothing of those in the gateway namespace) and for more of the   *)
(* services: one for each component, as the addresses of a second replace  *)
(* those of the first (reconcile_resources.go:105), and none that loses a  *)
(* port, as nobody watches services.                                       *)
THEOREM RoutesAreGuarded ==
  ASSUME AllRouted, RP!OneService, AP!DistinctNames, IsFiniteSet(Hosts)
  PROVE  Spec /\ [][RP!PortsStay]_platformVars => []RoutesGuarded
<1>1. RP!Watched  BY DEF RP!Watched, Watching, AllRouted
<1>2. RP!Spec /\ [][RP!PortsStay]_RP!vars => []RP!AllHostsAdvertised
  BY <1>1, RoutingConstants, RP!ServedAreAdvertised
<1>3. AP!Spec => []AP!SettledInv  BY AuthzConstants, AP!SettledInvHolds
<1>4. PlatformInv /\ RP!AllHostsAdvertised /\ AP!SettledInv => RoutesGuarded
  BY RoutesGuardedWhenSettled
<1>5. [RP!PortsStay]_platformVars => [RP!PortsStay]_RP!vars
  BY DEF platformVars, routingVars, RP!vars
<1> QED  BY <1>2, <1>3, <1>4, <1>5, SpecsImply, PlatformInvHolds, PTL
===============================================================================
