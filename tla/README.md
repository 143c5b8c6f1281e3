# odh-platform in TLA+

TLA+ models of the two controllers of odh-platform, the TLC runs that check
them on small instances, and TLAPS proofs of their most important properties.
Paths below are relative to the repository (`controllers/...` is
`src/controllers/...` in `PROJECT.json`).

## 1. The system

odh-platform is one Kubernetes operator. For each *watched kind* of custom
resource (CR) that its configuration names, it runs a **routing controller**
(exposes the services behind the CR in the service mesh) and, for protected
kinds, an **authorization controller** (guards the hosts of the CR). The
controllers share no memory. They meet in the API server only: the routing
controller writes address annotations on the CR, and the authorization
controller reads the hosts of the CR.

| component | state it keeps | operations | properties that make it correct |
|---|---|---|---|
| routing controller, `controllers/routingctrl` | the CR (finalizer, address annotations), routing resources in the gateway namespace tied to the CR by labels, a workqueue, `sourceRes` and `errs` of the reconcile in flight | Reconcile: get, ensure finalizer, remove unused resources, export services, patch, delete | nothing exists that no cleanup will reach; nothing of a disabled mode survives; addresses follow the modes and only name served hosts; no reconcile takes from its object what that wants and nobody will restore; deletion ends; late services are exported. That an object is left alone by the reconciles of others is not so (`RoutingTaken`) |
| route types and templates, `pkg/routing` | none (tables) | valid and unused types, template rendering | the kinds that deletion looks at are the kinds that templates render; names do not collide |
| apply and patch, `pkg/unstruct` | none | `Apply` (create or server-side apply), `Patch` (get, diff, merge patch, retry on conflict) | no lost update of the fields the controller does not own; a conflict is retried |
| authorization controller, `controllers/authzctrl` | AuthConfig, AuthorizationPolicy, owned by the CR; informer cache | reconcile both: create, compare, update with retry | host list and auth type follow the CR; a protected port is never without its policy; no endless rewriting |
| authorization templates, `pkg/authorization` | none | choose and render the template | defaults to authenticated access |
| host extraction, `pkg/spi` | none | unify hosts from paths, annotations and URLs | every configured path is used, no duplicates |
| selectors and configuration, `pkg/config`, `pkg/platform` | none | render selector templates; load JSON and environment | every value is resolved against the CR |
| cluster domain, `pkg/cluster` | none | read the ingress domain | an error surfaces |
| metadata, `pkg/metadata` | none | labels and annotations as options | - |
| wiring, `main.go`, `controllers/types.go` | activation flags | start, `Activate`, `Deactivate` | requests taken while inactive are not lost |

What is hard here:

* a reconcile is ten or more separate API calls. Users, other controllers and a
  second manager (leader election is off by default, `main.go:40`) write
  between any two of them, and the process may stop after each;
* routing resources have no owner reference. Their life depends on a finalizer
  and on label selectors computed from the annotations of the moment, which take in
  the resources of all other components;
* the finalizer and the addresses are written with a merge patch that carries
  no version, its removal with an update that does;
* errors are partly collected, partly returned at once, partly meant to be
  ignored; each decides whether a request is tried again;
* services are listed, never watched, and one without ports counts as one to export.

`hazards` in `PROJECT.json` lists these at their lines.

## 2. Modules

| module | models |
|---|---|
| `RouteTypes` | `pkg/routing/types.go` (modes), `reconcile_resources.go` (reading modes off annotations), the two templates (kinds in order), `gvk.go` (kinds per mode) |
| `RoutingController` | `controllers/routingctrl` and, inside it, `pkg/unstruct`: everything from the workqueue to the last patch |
| `FinalizerProtocol` | abstract: what the routing controller promises to one CR. It models no code; `RoutingController` implements it (`FollowsProtocol`) |
| `Labels` | `pkg/metadata`: labels as options, selectors, owner and standard labels |
| `ResourceLabels` | `RoutingController` with the labels themselves: the slice `ownershipLabels`, what `Apply` stores, what `DeleteAllOf` finds by them |
| `RoutingDrift` | `RoutingController` with `Activate`/`Deactivate` (`controllers/types.go`) and with others who change routing resources, the reconciles of other components among them |
| `SelectorTemplates` | `pkg/config/selectors.go`: label selectors as templates over the CR |
| `AuthTemplates` | `pkg/authorization` (detection, templates) and the labels and selector of the children |
| `HostExtraction` | `pkg/spi`: which hosts are found in a CR, and when that is an error |
| `AuthzController` | `controllers/authzctrl`: both sub-reconcilers call by call, the informer cache and the garbage collector |
| `Platform` | both controllers over one API server, as `main.go` starts them |
| `MCRoutingController`, `MCResourceLabels`, `MCRoutingDrift`, `MCAuthzController`, `MCPlatform` | the instances TLC checks |
| `RoutingControllerProofs`, `RoutingProtocolProofs`, `RoutingSettledProofs`, `RoutingServedProofs` | theorems about `RoutingController` |
| `ResourceLabelsProofs`, `RoutingDriftProofs` | theorems about `ResourceLabels` and `RoutingDrift`, from those about `RoutingController` |
| `AuthzControllerProofs` | theorems about `AuthzController` |
| `PlatformProofs` | theorems about both controllers together, from those about each |

How they build on each other:

    RouteTypes <- RoutingController <- ResourceLabels (INSTANCE Labels)
                        |           <- RoutingDrift
                        |           <- RoutingControllerProofs
                        +-- INSTANCE FinalizerProtocol
    RoutingControllerProofs <- RoutingProtocolProofs <- RoutingSettledProofs <- RoutingServedProofs
    ResourceLabels, RoutingControllerProofs <- ResourceLabelsProofs
    RoutingDrift, RoutingServedProofs <- RoutingDriftProofs
    SelectorTemplates <- AuthTemplates (INSTANCE Labels) <- AuthzController (EXTENDS HostExtraction too)
                                                  <- AuthzControllerProofs
    Platform: INSTANCE RoutingController, INSTANCE AuthzController
    Platform <- PlatformProofs (INSTANCE RoutingServedProofs, INSTANCE AuthzControllerProofs)

Each controller is a module of its own: they share no memory. To
`AuthzController` alone, what routing writes on the CR is an edit like any other
(`EditCR`, `TouchCR`). `Platform` puts the real writes in their place, and its
`AuthzAmongUsers` says that they are indeed steps `AuthzController` allows users.

### State and actions of RoutingController

`cr` is the API server's CR per name, with the number `inc` of its incarnation
in place of the UID; what is left under a name after removal is a tombstone
(`phase = "absent"`) that still says which incarnation it was and which modes
were set then, so that properties can speak of it. `res` is the set of routing
resources, `svcPorts` the services that the client's cache shows, each with its ports, of
which there may be none (a headless service), `queue[w]` and `rc[w]` the
workqueue of worker `w` and the local variables of its `Reconcile` call, with
`pc` naming the API call it is about to make.

| action | code |
|---|---|
| `Fetch` | `Reconcile` up to its first call, `controller.go:75-95`, `delete_resources.go:31-41` |
| `PatchGet`, `PatchSend` | `unstruct.Patch`, for the finalizer (`controller.go:93`) and at the end (`:101`) |
| `deleteOwnedResources` | one `DeleteAllOf` of `removeUnusedRoutingResources` or of `handleResourceDeletion`: all resources of one kind that have one of the requested types, whoever owns them |
| `removeFinalizer` | `delete_resources.go:88` |
| `ListServices`, `ExportNext`, `LoadBatch` | the loops over services, ports and modes |
| `ApplyGet`, `ApplyWrite` | `unstruct.Apply` of one rendered resource |
| `propagateHostsToWatchedCR` | the addresses in the local copy |
| `ApiError`, `Crash`, lost replies in `Reply` and `WriteCR` | the environment |
| `CreateCR`, `SetExportModes`, `TouchCR`, `DeleteCR`, `ChangeService`, `RemoveService` | users and other controllers |

In `ResourceLabels` each of these actions also says what becomes of the labels, and
`LabelsTell` relates the two. `ownershipLabels[w]` is the slice of that name: it holds
the owner's labels (`StartSlice`), gets one export type per port and mode
(`GrowSlice`), and is laid over the stored labels by `Apply` (`WriteLabels`), which
applies the options one after the other, so that the last export type stays.
`DeleteByLabels` removes what has one of the requested types as the value of its type label, and
reads nothing but labels; owner labels play no part in it.

`RoutingDrift` adds `active[w]`. A request taken while the controller is not active is
gone (`Dropped`, `controller.go:61`). `Deactivate` does not stop a reconcile that is
running. `Tamper` removes a routing resource, or takes the owner's labels from it: the
watches of `Owns` look for owner references, which these resources do not have,
so that nobody is told. The deletions of another component's reconcile do the same to their
victims (`Robbed`). `drifted` remembers who has lost a resource to others and was not
reconciled since.

`FinalizerProtocol` has four variables for one CR: its phase, whether it carries the
finalizer, the modes wanted, and the modes of which it owns resources. `Acquire` needs
the finalizer; `Release` needs that nothing wanted is owned any more. The refinement
mapping (`Protocol(c)` in `RoutingController`) takes `wanted` from the annotations and
`owned` from the owner labels of the stored resources.

`Workers` is the set of running reconcile loops. One worker stands for one
manager and one watched kind (controller-runtime runs one reconcile at a time
per controller and never one object twice); two workers that handle the same
component are two managers that overlap.

### State and actions of AuthzController

`cr` is as above, with the part of the CR that matters here as `content`: the
annotation that switches authentication on, the places where hosts are found, the
fields that the selector's templates may read, and its labels. `child[k][n]` is the stored
AuthConfig or AuthorizationPolicy of name `n`. `seen[w]` is the copy of the
children in the informer cache of `w`'s manager and `lag[w]` what the watch has yet to
deliver of each, as the owners named in those changes, which is all that `Owns`
needs to find the request to enqueue. `fresh[w]` says that the copy to be updated
carries the stored version.

| action | code |
|---|---|
| `Fetch` | `Reconcile` up to the first call, with host extraction and templates, `controller.go:75-93`, `reconcile_authconfig.go:20-35` |
| `Get` | the first read of a child and the comparison, `reconcile_authconfig.go:37-57`, `reconcile_authpolicy.go:30-49` |
| `Create` | `reconcile_authconfig.go:45`, with `AlreadyExists` taken for success |
| `ReGet`, `Update` | one attempt inside `RetryOnConflict`, `reconcile_authconfig.go:58-74` |
| `ApiError`, `Crash`, lost replies in `Create` and `Update` | the environment |
| `Sync` | the watch of a child: cache updated, owners enqueued (`controller.go:118`) |
| `Collect` | the garbage collector |
| `CreateCR`, `EditCR`, `TouchCR`, `DeleteCR`, `RemoveCR`, `EditChild` | users and other controllers |

### State and actions of Platform

The variables of both controllers, with one `cr`. `AuthzController` sees it through
`Protected`: the addresses that routing wrote are host texts (`AddressesOf`), and what
users put into the CR besides export modes is `spec`. A write of the CR by anyone
reaches the workqueues of both (`Told`, the `For` watches of both controllers).
`Watching` gives each configured kind its controller (`main.go:83-117`).

### Abstractions

* `resourceVersion` is one bit per reconcile in flight: `fresh` says that the CR
  has not been written since the local copy was taken. `removeFinalizer` sends
  the version of the local copy. So does `Patch` if the versions differ,
  because the diff of two objects with different versions contains the old
  version: it then fails with Conflict, and, the local copy being what it was,
  fails again on each of the attempts of `RetryOnConflict`.
* The client reads unstructured objects from the API server and typed objects
  from the informer cache (controller-runtime's default), so a CR is read live
  and a service as the cache shows it; `svcPorts` is the cache.
* Finalizers of other controllers are left out: a deleted CR is gone when ours is
  removed.
* `DeleteAllOf` gets `MatchingLabels` with the owner's labels first and
  `client.MatchingLabelsSelector` with the export types last (`delete_resources.go:66-74`).
  In controller-runtime v0.17.5, which `go.mod` pins, `MatchingLabels` adds to the selector that is
  there, and `MatchingLabelsSelector` sets it: the owner labels are replaced. `Selected`
  says so: a kind and a set of types, and no owner. `RoutingTaken` shows what comes of it. The library is
  not in the repository, so that this is modelled from its version.
* `getExportedServices` counts services and not ports (`exported_svc_locator.go:30`). A selected
  service without ports is exported in no iterations, after which `propagateHostsToWatchedCR`
  replaces the addresses by none, and the reconcile succeeds with its modes enabled
  (`reconcile_resources.go:59`, `103-118`). `Listed` and `Exporting` do the same. Where such a service is
  listed last, it also takes the addresses of those before it. Only a selector that finds no service at all
  is the error that brings the request back.
* Ports and modes of a service are applied in any order (in the code in a fixed
  order that depends on the service), which only adds behaviours. The order of
  the resources of one template is the file's.
* A rendered resource is its mode, kind, name, labels and the service and port it
  routes to. Names are injective in the runs (`NamedByEndpoint`); the theorems allow any
  `PublicServiceName`, injective or not.
* Rendering errors have the effect of a failed call and are covered by `ApiError`. A
  `Get` of the request's object that fails leaves the request in the queue, which is no
  step.
* Of a child the model keeps what can differ between two reconciles of a CR: the
  kind of authentication, the list of hosts, the selector, and the labels, of which two
  follow the labels of the CR (`standardLabelsFrom`). Ports, audiences and provider follow
  from the configuration alone; that somebody else has changed them, or anything else
  of spec and labels, is the value `Edited`. What is read back is what was
  written: defaults that the API server might fill in are not modelled.
* A selector template is the field it reads. Two expressions whose keys come out the same
  leave either value (`ResolveSelectors` iterates over a map), so that the desired policy is
  one of a set, and `Fits` accepts each of them.
* In `ResourceLabels` the namespace of a CR is not among its owner labels, as in the code: two
  CRs may agree in name and kind, and the UID alone tells them apart. In the run these are
  two objects that had one name one after the other.
* The order of hosts in an AuthConfig is kept (`SetToSeqs`), because the comparison
  depends on it and the code takes it from a map.
* A `Sync` delivers everything that is stored at that moment; a watch that delivers
  changes one by one shows fewer combinations to the controller, at the same or a
  later time. Each worker has a cache of its own, where two kinds handled by one
  manager would share one: more behaviours, not fewer.
* `RetryOnConflict` gives up after a few attempts: after each conflict the model
  tries again or gives up.
* A host that starts like a URL and does not parse makes `UnifiedHostExtractor` read a
  field of a nil pointer (`pkg/spi/types.go:64`); such texts are left out, as is an
  Authorino label in the configuration that is not `key=value` (an error in every
  reconcile).

### Bounds

`MaxIncarnations` bounds how often a name is created: 2 where the question
involves what an earlier object left behind, 1 otherwise. `MaxFaults` bounds
failed calls, lost replies and crashes: one is enough to break a step off in
each place, and everything after it, including the retry, runs without bound. User
edits, touches and service changes are not bounded. One component suffices for
what concerns a single name; runs with two are there where objects could
interfere. One port is enough: ports are treated as services are, each making
its own endpoint. For authorization two texts of one host (plain and
in a URL) and a second host are enough to tell uniqueness, order and late arrival
apart; two CRs are needed only where they share a name (`AuthzShared`). There each has a manager of
its kind and asks for the other authentication; they come, and may go, in any order (`ComeAndGo`), and as
the policies of both are the same, changes of policies are delivered at once (`PolicySynced`). `Edits` says what others do to
children in a run: change and disown them in `AuthzReconcile` (2 incarnations, a fault),
delete them in `AuthzLive` (a child that is not there any more is seen as deleted, and
one whose spec was changed as one that does not fit: the same path of the code from there).
In `AuthzReconcile` only AuthConfigs are disowned (`PoliciesOwned`), as both kinds are handled
alike. `RoutingDrift` and `RoutingHosts` keep the services as they were before the first CR (`StableDriftSpec`,
`StableSpec`): their questions are not about services that come and go, which `RoutingFaults` and
`RoutingOverlap` have. In `RoutingDrift` a second component has no services: it makes nothing, and
all that it can do to the first is to take its resources. In `RoutingOverlap` two managers are
interleaved call by call; users and services change as long as one of the two has nothing in hand
(`TwoManagers`), there are no faults, and one mode is enough for conflicts, for copies of outdated modes and for a
`Create` that meets a resource of the other manager. Two components with services are in `RoutingTaken`, two
services of one component in `RoutingHosts`; beyond that they are left to the theorems.

`Platform` multiplies two state spaces. Its instance has one CR of a kind that is both
exported and protected, one mode, one service that is there before the CR
(`StableServices`), a host of the CR's own that may come late and then stays
(`HostsStay`), no faults, and users who do not write while a routing reconcile is under way
(`UsersWait`; writes in between are what `MCRoutingController` is for). Authorization
reconciles are interleaved with everything. That is enough for what the composition
adds: addresses written by the one and read by the other, in every order with the
watches, the cache, the deletion and the garbage collector.

Proofs need none of these bounds.

### Fairness

`FairSpec` assumes weak fairness of each worker's `Step` (a reconcile that is running
goes on: no call blocks for ever) and strong fairness of `Fetch(w, c)` for each name
(the workqueue is FIFO, and a rate-limited request comes back after a delay, so a name
that is queued again and again is taken again and again). Users, services, faults and
crashes get no fairness. `RoutingStuck` runs under it. `RoutingOverlap` takes the first half alone: with one component
there are no turns to take, and a worker that goes on takes its requests.
`EventuallyAdvertised` and `DeletionFinishes` exempt a component
that users write to for ever, as every write may spoil a patch. `EventuallyAdvertised` also exempts one
that has selected a service without ports: the reconcile that met it has succeeded, and nothing need come after it.
`RoutingOverlap` has no faults; that a failed call keeps its request is the safety part of liveness,
and is checked with faults in `RoutingFaults` (`DeletionNotAbandoned`, `NoUnusedWhenSettled`).
In `AuthzController` and `Platform` also `Sync` and `Collect` are weakly fair: watches deliver and the
garbage collector works, without which the code promises nothing. `EventuallyFits`
exempts a CR that is written to for ever (or its children), and one whose hosts
or selector never come. `MCPlatform` takes weak fairness for each worker as a whole: with one CR
there are no turns to take, and weak fairness assumes less.

## 3. Runs

Passing:

| run | instance | what it shows |
|---|---|---|
| `RoutingFaults` | 1 component, 2 incarnations, both modes, 1 service that comes, loses its port and goes, 1 fault, with labels (`ResourceLabels`) | `TypeOK`. `FinalizerBeforeResources`, `CleanupComplete`, `NoUnusedWhenSettled`, `AdvertisedIsServed`, `AddressesFollowModes` survive a fault anywhere and a re-creation under the same name; `DeletionNotAbandoned`: a cleanup that fails is tried again. `RemovesOnlyUnwanted`: an object's own reconciles take nothing from it that nobody will restore. `FollowsProtocol`: every step is one of `FinalizerProtocol` or changes nothing in it. `LabelsTell`: the labels say what the records say, although the slice of options keeps the types of earlier modes and objects of one name differ in the UID only, so that a deletion, which sees labels only, takes what the records have it take |
| `RoutingOverlap` | 2 managers, 1 component, a service that comes, loses its port and goes, fair | what does not rest on leader election: the finalizer comes first (`FinalizerBeforeResources`), nothing of a disabled mode stays (`NoUnusedWhenSettled`), addresses follow modes (`AddressesFollowModes`), no wanted route is lost for good to the object's own managers (`RemovesOnlyUnwanted`). `EventuallyAdvertised`, `DeletionFinishes`: the two, whose patches and updates conflict, do not keep each other from exporting a service that comes late or from finishing a deletion |
| `RoutingDrift` | 2 components, of which one only deletes, activation, deactivation, resources removed or stripped of their labels by others, 1 fault | `DriftTypeOK`. `OnlyDroppedIsMissed`: deactivation loses the requests it drops and nothing else, and one later reconcile makes up for them. `AdvertisesOneService`: while services stay, the addresses of each enabled mode are all ports of one of them, no fewer. `RepairedByReconcile`: whatever was done to its resources, by others or by the other component's deletions, the next reconcile of a component serves its addresses again (it does not come by itself: nobody is told) |
| `AuthzReconcile` | 1 CR, 2 incarnations, authentication switched on and off, children edited and disowned by others, 1 fault | `TypeOK`. `FitsWhenSettled`: when the queue is empty and the cache current, both children exist and fit the CR, whatever was stale on the way, and when one sub-reconciler fails while the other goes on. `MisfitIsRevisited`: a write from an outdated copy of the CR always has a reconcile queued behind it. `OthersMetadataKept`: the write of the whole object does not bring back what somebody else has changed since it was read |
| `AuthzLive` | 1 CR; a host, a selector field and a label that come late, a selector with two outcomes, children deleted by others, 1 fault, fair | `EventuallyFits` (also when only labels change), and `EventuallyCollected`: also a child created for a CR that has just gone is collected |
| `AuthzShared` | 2 CRs of different kinds, and their controllers, share the names of their children, fair | `OwnFitsWhenSettled`: the CR that a child refers to as its owner prevails, although both controllers write what they find under the name. `NoTugOfWar`: they do not rewrite the child for ever, as only the owner is told of each other's writes |
| `Platform` | both controllers, 1 CR, fair | `RoutesGuarded`: when both are done, every host that routing serves is in the AuthConfig (a CR whose hosts cannot be extracted is never done: the error brings it back). `AddressesGuarded`: every address on the CR is served, and its host is in the AuthConfig. `EventuallyGuarded`: that state is reached. `EventuallyGone`: a deleted CR goes, with its routes and its children. `AuthzAmongUsers`: routing is to authorization a user like any other, so that what is checked and proved about `AuthzController` alone holds here |

Runs that end in a counterexample, each a disagreement between code and text:

| run | what the code does |
|---|---|
| `RoutingStuck` | Every live object gets the finalizer, also one without export modes. When an object without modes is deleted, `handleResourceDeletion` returns early (`delete_resources.go:33`) and the finalizer stays: the object is never removed. It takes removing the annotations before the deletion, or never having had any. |
| `RoutingOrphans` | The cleanup looks at the modes enabled at the time of deletion. A mode switched off just before is not cleaned up: its resources outlive the object. `controller_test.go:273` promises that all are removed. `CleanupComplete` is what does hold: nothing stays of the modes enabled at the end. |
| `RoutingTaken` | The owner labels that `deleteOwnedResources` passes are replaced by the type selector. Every reconcile with an unused mode, and every deletion, removes the resources of these modes of all components; their owners are not queued, and their addresses stay. `pkg/metadata/labels/funcs.go:10` says that the owner labels find the resources of their owner. |
| `RoutingHosts` | `exportService` runs once per service and each call replaces both address annotations, so that of several services only the last one listed is advertised. |
| `AuthzRewrites` | The hosts of the desired AuthConfig come out of a Go map in random order and are compared with `reflect.DeepEqual`: with two hosts, an AuthConfig nobody has touched is rewritten, and the write brings the next reconcile. |

More things stand in the code that the models follow and no run singles out:

* `errors.Is(err, &ExportedServiceNotFoundError{})` (`exported_svc_locator.go:52`) compares
  pointers and never matches. The list is not retried on the spot, and the "no error" branch of
  `reconcile_resources.go:43` is dead code. It is this error, though, that brings the
  request back: repaired so that the branch returns nil, a service that comes after
  the retries would never be exported (services are not watched), which is the
  mutant `ForgetsError` of `EventuallyAdvertised`.
* Children are named after the CR without its kind (`reconcile_authconfig.go:100`). Two
  protected CRs of different kinds and one name share an AuthConfig, which only the
  controller of its owner hears of: `FitsWhenSettled` needs distinct names (`ChildName`). What is
  true without them is `OwnFitsWhenSettled`: the owner prevails, and the other CR is not
  protected as it asks.
* Neither the comparison nor the update of a child covers owner references. One that is
  removed is not restored, edits of the child then go unnoticed, and it outlives the
  CR. `FitsWhenSettled` exempts such a child, and the liveness run has nobody who does that.
* One configured host path without a value fails the whole extraction
  (`pkg/spi/types.go:120`), also for the hosts that routing has opened: no AuthConfig is
  made or updated until the path has a value. `EventuallyGuarded` excepts such a CR, and
  `RoutesGuarded` says nothing of it, as the error keeps it in the queue.
* A selected service without ports is a success without addresses (section 2, abstractions). That is why
  `AddressesFollowModes` allows an enabled mode without addresses; what addresses there are is said by
  `AdvertisesOneService`, which asks for all ports of one service and so for none where that service has none.
* Two components that export one service render resources of the same names: each apply takes them over,
  and addresses of both stay.

`CleanupComplete` is not claimed for `RoutingOverlap`. With two managers, one may still
be applying resources when the other has cleaned up and removed the finalizer.
It needs leader election.

Each property of a passing run has a mutant in `PROJECT.json`: a one-line
change of a modelled definition under which the run finds the property violated.
Mutated forms stand before their originals, marked `mutant`.

## 4. Proofs

`RoutingControllerProofs`, checked by TLAPS for all values of the constants
that satisfy `ConstantsAssumption` (handled components are components, `Selects` and
`PublicServiceName` are functions of the right domain, bounds are numbers):

* `TypesHold`: `Spec => []TypeOK`.
* `FinalizerFirst`: `Spec => []FinalizerBeforeResources`, for any number of components,
  workers (overlapping or not), incarnations and faults. The property is not
  inductive: it says nothing of a worker about to create a resource. `FinalizerInv`
  adds that no reconcile and no resource belongs to an incarnation that does not
  exist yet (`NoFutureWork`, `NoFutureOwners`), and that a worker that has
  passed the finalizer step works for an object that is gone, or replaced, or has
  the finalizer (`WorkIsCovered`). The proof has one lemma per part of the state
  that an action can disturb (the objects, the reconciles in flight, the routing
  resources) and one step per action.

`AuthzControllerProofs`, for all constants that satisfy `AuthzAssumption` and
`HostExtractionAssumption` (any number of CRs, managers, hosts, names that
coincide or not):

* `AuthzTypesHold`: `Spec => []TypeOK`.
* `MetadataKept`: `Spec => OthersMetadataKept`. An `Update` puts back the owner of the
  copy it holds. `CopyInv` says why that is the stored one: a cache without
  undelivered changes shows what is stored (`CacheIsCurrent`), and a fresh copy
  equals what is stored under its name (`FreshIsCurrent`). It needs that every
  write of a child passes through `Store`, which both marks every cache as behind
  and takes the freshness from every copy.

`RoutingProtocolProofs` builds on the first of these:

* `CleanupIsComplete`: `Spec => []CleanupComplete`, and
* `ImplementsProtocol`: `Spec => FollowsProtocol`, both under `Apart`: no two workers handle the same
  component. That is one manager, or an elected one; without it both are false (a second
  manager may still be applying resources when the first has cleaned up). The rest of
  `ConstantsAssumption` is as before: any number of components, services, incarnations
  and faults.

  `ProtocolInv` adds to `FinalizerInv` what a reconcile in flight knows. `Divided`: a worker
  only has components of its own in its queue and in hand. `Present`: the object that is
  worked on is still there, under the same UID and with the finalizer. `Current`: a copy in a
  cleanup that is still fresh is the stored object. `Left`: of what the cleanup is after, only the
  kinds still to be dealt with are left. Together they say that at `removeFinalizer`
  nothing wanted is left if the Update goes through, because its version check is
  what makes the copy fresh. `Rendering` and `Made`: what is applied, and what is
  stored, is of a kind that `gvk.go` lists for its mode. This is where the two tables of
  kinds meet: a kind that a template renders and `gvk.go` does not list would break
  `Left`. `Held`: an object in deletion has the finalizer. Each action has a lemma
  that it keeps the invariant, and that it is a step of `FinalizerProtocol` or leaves its
  variables alone.

`RoutingSettledProofs` is about what the controller has achieved when a component is in no queue
and in no worker's hands (`Settled`):

* `UnusedIsGone`, `DeletionIsKept`, `AddressesAreOfTheModes`: `Spec => []NoUnusedWhenSettled`,
  `[]DeletionNotAbandoned`, `[]AddressesFollowModes`, under `Watched`: every component has some worker.
  Workers may overlap; no leader election is needed.
* `RemovalsAreJustified`: `Spec => RemovesOnlyUnwanted`, with no hypothesis at all.
  It speaks of what the reconciles of a component do to its own objects. What those of other components take
  is exempted in the property, as the code does take it (`RoutingTaken`).
  `AddressesAreOfTheModes` allows enabled modes without addresses, which is what a service without ports
  leaves; it says that all enabled modes have the same addresses, and those of one service.

  `SettledInv` has three parts. `KnownInv`: a reconcile whose object is not queued again works on what the
  object says now (`Informed`), and what it holds belongs to the enabled modes of its copy (`Shape`).
  `UnusedAttended`: each resource of a disabled mode has a worker that will come to it: a queued request, a
  reconcile that has not come to its kind, or one that carries an error and will be called again.
  `SettledFine`: an object that nobody has in hand is as it should be. A step keeps all three because it is
  `Sound`: an object that changes is put into every queue that handles it (`Told`), a resource made for
  outdated modes is made by a worker that comes back (`Added`), and a worker lets go only of what is done
  (`Minds`). Each action has a lemma that it is `Sound`; one lemma (`SettledKept`) does the rest.

`RoutingServedProofs`:

* `AdvertisedAreServed`: `Spec /\ [][NothingTaken]_vars => []AdvertisedIsServed`, under `Watched`, `Apart` and
  `OwnNames`: a name in the gateway namespace belongs to one endpoint of one component. Without `OwnNames` the property
  is false: two components that export one service take its resources from each other. `NothingTaken`: no
  deletion made for one component removes a resource of another. The code does not see to that, and without
  it the property is false for two components (`RoutingTaken`).
* `AloneAdvertisedAreServed`: `Spec => []AdvertisedIsServed` for a component that has the gateway
  namespace to itself, which is how the property is run; there is nobody to take anything.

  `ServedInv` adds to `KnownInv` how far a reconcile has come. `Owns`: it has to do with endpoints its
  own component selects. `Progress`: without an error, each address it has collected is served, and each
  endpoint it is exporting has been applied or waits in its batches or items; and an apply that found
  nothing under the name is about to create in a free place. `Safe(c)` is what steps of others
  do for component c: what is there for it stays, and what is free stays free.
* `ServedAreAdvertised`: `Spec /\ [][PortsStay]_vars => []AllHostsAdvertised`, under `Watched` and
  `OneService`: no component selects two services. This is what remains of the claim that the
  run `RoutingHosts` refutes. `PortsStay`: no service of an object that exists loses a port. Without it
  the claim is false for one service as well, as services are not watched. Workers may overlap, and names
  may be shared: another component may take the resource away, but then it is no longer one of this
  object that nobody advertises.

  `AnnouncedInv` adds to `KnownInv` that resources of existing objects, and what a reconcile has listed
  for them, are of endpoints that the services have (`Exported`), and that each resource whose address is missing
  (`Omitted`) has a worker that promises it (`Promises`): it has the request, has yet to
  list the endpoint, has the address in its copy, or carries an error and comes back. A step
  of a worker `Advances`: it takes up no endpoint but those the services have (`Offers`), makes
  resources only of what it is exporting (`Makes`), and keeps its promises about objects that stay as
  they are (`Keeps`); objects that change are queued (`Told`, as before).

`ResourceLabelsProofs`:

* `LabelsAreTrue`: `LabelsSpec => []LabelsTell`. Of the options in the slice the last one with a key
  counts (`LastOptionCounts`); the slice always starts with the three options of the owner that the
  reconcile works for, and ends with the type that is being applied.
* `LabelsImplement`: `LabelsSpec => Spec`. `DeleteByLabels` looks at labels alone, `deleteOwnedResources` at
  the types in the records; that they remove the same (`DeletesTheSame`) is not in the definitions
  but follows from the invariant of the labels (`FoundByLabels`). The other steps add to those of
  `RoutingController`. So its theorems hold with labels.

`RoutingDriftProofs`, for all that `RoutingDrift` adds (deactivation, and others who remove resources or their
labels):

* `DriftTypesHold`, `FinalizerInSpiteOfDrift`: `DriftSpec => []DriftTypeOK` and
  `DriftSpec => []FinalizerBeforeResources`.
* `OnlyDropsAreMissed`: `DriftSpec => []OnlyDroppedIsMissed`, under `Watched`. `MissedInv` is `SettledInv` but for
  the components that are missed; it is kept by the same `Sound` steps, as a component is
  struck off `missed` only by a worker that has just taken its request. The addresses are those of
  `AddressesAreOfTheModes`: a service without ports leaves none.
* `ReconcileRepairs`: `DriftSpec => []RepairedByReconcile`, under `Watched`, `Apart` and `OwnNames`. It does
  not need `NothingTaken`: what the deletions of other components take after the reconcile has started makes the
  component `drifted` again, and the property speaks of those that are not.
  `RepairInv` claims `Progress` only for reconciles of components that have not drifted since they
  started: a reconcile under way may have what it made removed again, and does not look twice.

`AuthzControllerProofs` again, on what the controller has achieved when all is quiet:

* `OwnersPrevail`: `Spec => []OwnFitsWhenSettled`, under `Attended` alone: every CR has a manager. CRs may
  share the names of their children, and others may do to children what they like.

and, under `DistinctNames` (no two CRs share the names of their children):

* `MisfitsAreRevisited`: `Spec => MisfitIsRevisited`.
* `SettledChildrenFit`: `Spec => []FitsWhenSettled`, also under `Attended` and `Tracked`: others do not both take the owner reference from a child and delete it. The watch maps an event to the
  owner reference (`controller.go:118`), so a child disowned first and deleted then is not missed by
  anybody; that is a property of the code, listed under hazards, and not one of the model.

  Both rest on one invariant, `SettledInv`, which needs none of these hypotheses. It says for each manager
  that handles a CR, and each child that the CR has to mind (`Minded`: it is the owner, or nobody but it can be,
  `Sole`) and that is missing or does not fit (`Misfit`), how that manager will find out (`Aware`): the
  request is queued, the change of the child waits in its watch, or its reconcile has not come to the child
  yet or has an error to return. It rests on `LagTells` (an undelivered change names the CR that minds the
  child), `ChildOwner` (under `Sole`, no owner other than CRs of that name), `OwnerNames` (a child
  refers to a CR of its name) and `Knows` (what a worker is about to write fits the copy it has, which is the
  stored CR unless that is queued). Where names are shared, an `Update` from another CR may make a child a misfit of
  its owner; that very write is what the owner's watch has yet to deliver.

`PlatformProofs`, for any number of CRs, watched kinds and services:

* `AuthzIsAmongUsers`: `Spec => AuthzAmongUsers`, with no hypothesis. A step of `Platform` is a step of
  `RoutingController` or leaves its variables alone (`StepOfRouting`), and the same for
  `AuthzController` (`StepOfAuthz`): a step of routing writes to at most one object, which keeps its phase
  and its incarnation or goes (`StepWrites`), and to authorization that is `EditCR`, `TouchCR` or
  `RemoveCR`. `PlatformInv` has the types of both modules and `Tombstones`: an object that is gone stays
  as it is, as its removal would otherwise be a write that nobody may make.
* `AddressesAreListed`: `Spec => []AddressesListed`: when authorization is done with a live CR, the host of each of
  its addresses is in the AuthConfig, whatever deletions took. The AuthConfig fits the CR, which `SettledInv` of
  `AuthzControllerProofs` says, the extractor of annotations never fails, and every host that it
  finds is listed (`ConfigHasAddresses`). It assumes `DistinctNames`, and `Hosts` finite, since the hosts are put into a
  sequence.
* `AddressesAreGuarded`: `Spec /\ [][NothingTaken]_platformVars => []AddressesGuarded`. The addresses are also served, by
  `AdvertisedAreServed`. To the hypotheses of `AddressesAreListed` come those of that theorem:
  `OwnNames`, `NothingTaken` and `AllRouted` (every CR is of a kind with a routing controller;
  `Watched` of the other module). `Apart` and `Tracked` hold in `Platform`: it has one controller per kind, and nobody
  else writes children.
* `RoutesAreGuarded`: `Spec /\ [][PortsStay]_platformVars => []RoutesGuarded`: not only what is advertised
  but all that is open is protected. The host of a resource is an address by `ServedAreAdvertised`, and the AuthConfig
  lists all addresses (`HostsListed`, shared with `AddressesAreListed`). In the place of `OwnNames` and `NothingTaken` it
  needs `OneService` and `PortsStay`.

The hypotheses are stated where a theorem needs them and hold in the runs: `Watched` and `Attended` in
all of them, `DistinctNames` in all but `AuthzShared`, `Apart` where there is one manager, `OwnNames` in `RoutingFaults` and `RoutingDrift` (one
component exports), `NothingTaken` in `RoutingFaults` and `Platform` (one component), `Tracked` in the runs of `AuthzController`, all of those of `AddressesAreGuarded` and `RoutesAreGuarded` in
`Platform` (one service, whose ports stay: `StableServices`). The inductive invariants were model-checked on the
constants of these runs before they were proved, `AnnouncedInv` also with overlapping managers, and
with faults and two incarnations.

`ConstantsAssumption`, `AuthzAssumption`, `HostExtractionAssumption`, `AuthTemplatesAssumption` and
`PlatformAssumption` are the only assumptions on constants besides: domains of
functions, bounds that are numbers, and values that stand for nothing (`NoComponent`, `NoOwner`) being
none of the values they stand beside.

Proved but run with one manager only: `FitsWhenSettled` and `MisfitIsRevisited` need no leader election. The theorems
are for any number of managers that handle the same CR, each with a cache of its own; in the runs two
caches meet in `AuthzShared`.

Proved but run for one component that exports: `AdvertisedIsServed`, `RepairedByReconcile`, `AddressesGuarded`,
`RoutesGuarded` and the others about `Settled`. The theorems are for any number, with the hypotheses said above.

Only model-checked: the liveness properties `EventuallyAdvertised`, `DeletionFinishes`, `EventuallyFits`,
`EventuallyCollected`, `NoTugOfWar`, `EventuallyGuarded` and `EventuallyGone` (liveness under fairness is out of
the prover's reach), and `AdvertisesOneService`.

## 5. Not modelled

* Loading of configuration files and environment variables, flags, probes, scheme registration,
  decoding of YAML, the test harness and the manifests: no state that changes, or pure I/O.
  The ingress domain is one read whose failure is an `ApiError`.
* The text of templates, and names and hosts put together from strings. That
  `svc-port-namespace` is not injective is in the constant `PublicServiceName`, which the theorems
  leave open.
* The attempts of `RetryOnConflict` in `unstruct.Patch` one by one: each meets the same conflict
  (section 2, abstractions).
* A host that does not parse as a URL, and a configured label that is not `key=value`.
* Services that change after a successful reconcile: they do change in the models, but
  nothing promises that routes follow.
* Several gateway namespaces: nothing in the repository changes the one configured.

## 6. Plan

Done: `RoutingController` with labels, drift and activation; the finalizer protocol, checked and
proved; `AuthzController` with hosts, templates, selectors and labels; both together.

Proved: all safety properties that the passing runs check but `AdvertisesOneService`, `RoutesGuarded` for components with one service
that keeps its ports.

Left: what no property covers yet is in `hazards` with a note. Most of it is promised nowhere in the
repository (services that change after a reconcile, a gateway namespace that changes, managers of two versions).
`AdvertisesOneService` is still to be proved (it needs that services stay as they are), and so is what holds
for several components that share services and deletions: one that has been robbed is right again after its next
reconcile (`ReconcileRepairs`, for names that are not shared), and nothing brings that reconcile.
