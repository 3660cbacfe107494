# TLA+ models of operator-tools

operator-tools is a Go library for Kubernetes operators. An operator built with it describes the
objects it wants and the library makes the cluster agree: it creates, updates, recreates and deletes
objects one by one (`pkg/reconciler/resource.go`), groups them into components and removes what a
component does not want any more (`pkg/reconciler/native.go`, `pkg/inventory`), and hands a custom
resource to several components in order (`pkg/reconciler/component.go`). This directory holds models
of that core in TLA+, configurations that check them with TLC on small instances, and theorems that
TLAPS checks for all instances.

## 1. The system

### Components, state and operations

| Component | State it keeps | Operations | Correct when |
|---|---|---|---|
| `GenericResourceReconciler` (`resource.go`) | none but its options; it mutates the desired object it is given | `ReconcileResource`, `CreateIfNotExist`, `delete` | a success means the object is as desired; foreign metadata, unmanaged and terminating objects are left alone; recreation happens only where it is allowed; repeated calls converge |
| `ReconcilerOpts` (`resource.go`) | options | `NewGenericReconciler`, option functions, `shouldRecreate` | the documented defaults hold |
| `NativeReconciler` (`native.go`) | `reconciledObjectStates`, never reset | `Reconcile` (build, reconcile, purge, wait) | a purge deletes all of its component's objects that are not wanted, and nothing else |
| `Inventory` (`inventory.go`) | `inventoryData`: current, desired, to delete; a ConfigMap in the cluster | `Append`, `PrepareDesiredObjects`, `PrepareDeletableObjects`, `TypesToPurge` | the record of what exists survives until what it lists is gone |
| Resource scope (`scope.go`) | two package-level maps behind a mutex | `IsClusterScoped`, discovery | a kind's scope is found once it exists, whoever asks first |
| `Dispatcher`, `CombinedResult` (`component.go`, `result.go`) | none; locals of `Handle` | `Reconcile`, `Handle`, `Combine` | components run in order, in reverse for a deletion; the combined answer serves each of them |
| `ReconcileRetry` (`reconcileretry.go`) | none | retry loop | it ends; a success means that nothing is left to do, and it does not give up early |
| `AggregatedState`, statuses (`types/base_types.go`) | none | aggregation | succeeded exactly when every component is stable |
| Desired states (`resource.go`, `state.go`, `statemodifiers.go`) | none | callbacks and options, alone or several as one | one of several decides which state it is, every callback may refuse |
| `HelmReconciler` (`helm/templatereconciler`) | one `Inventory` for all its components | `Reconcile`, `GetResourceBuilders`, state overrides | statuses tell the truth; the release goes away when disabled |
| Condition checks (`pkg/wait`, `conditions.go`, `checks.go`) | backoff | wait until present, ready or gone | terminates; a success was seen, not guessed |
| Secrets (`pkg/secret`) | collected mount keys | `Load`, service account token secrets | a path leads to what was read for it; concurrent callers get the token in the end |
| Object order (`utils/sort.go`) | none | `Sort` | nothing is created before, or removed after, what it needs |
| Workload overrides, volumes (`types/base_types.go`, `volume`, `resources/objectmodifiers.go`) | none, but shared maps and arrays | merging, mounting | a workload selects its own pods and has what its containers mount |
| Helm values (`helm/strimap.go`) | none | `MergeMaps`, `Getin` | the second map wins, the rest stays, at every depth |
| Type overrides, overlays (`typeoverride`, `merge`, `resources`) | none | patches computed by libraries | |
| Predicates, handlers (`predicates.go`, `handlers.go`) | none; they put back what they change of a shared event | which events reach a queue | an owner hears of every change its watch is for |
| Logger (`pkg/logger`, `utils/log.go`) | a spinner shared by grouped sinks | log lines | output only |

CRD helpers, Prometheus types, the documentation generator and generated deep copies keep no
state of interest and are not modelled; `PROJECT.json` lists every part with its status.

### How they interact

The controller-runtime work queue calls `Dispatcher.Reconcile` for an object; `Handle` calls each
component, which may be a `NativeReconciler` or wrap a `HelmReconciler`. A `HelmReconciler` renders a
chart into resource builders, has its `Inventory` append the builder of the new inventory, and runs a
`NativeReconciler` over all of them with `Inventory.TypesToPurge` as its purge types. The
`NativeReconciler` annotates each object with its component id and calls
`GenericResourceReconciler.ReconcileResource` under `retry.OnError`. Everything else they share is in
the cluster: objects, the inventories' ConfigMaps, the owner's status. Results and errors come back
through `CombinedResult` and decide whether the queue gets the object again.

### What is hard

* **Stale reads.** A manager's client reads objects from informer caches. Decisions (create or update,
  adopt or not, what the inventory listed) are made on copies that may be old.
* **Interleaving.** Several workers, replicas during a rolling update, users, the garbage collector and
  finalizers change the same objects between any two calls of the reconciler.
* **Partial failure.** Every API call may fail, or take effect and lose its answer; a reconciliation
  goes on with the next object and combines the errors. A process may stop between any two calls, and
  the inventory's data in memory goes with it.
* **Order.** The inventory is overwritten before the purge; a deletion of the owner may be noticed half
  way through the components; a recreation is a delete and a create, at once or in two calls.
* **Waiting.** Backoffs are short and objects come, go and change while they are polled; reads fail and
  leave the previous answer in the object they were to fill.
* **Shared memory.** The scope map is tested outside its mutex; handlers of one event share its objects;
  overrides are given copies that share maps and arrays with the original.
* **Names.** Component ids, mounted files and the ids of visited objects are joins of names with a
  character that names may contain.

`PROJECT.json` lists each of these hazards at its line with the properties that watch it.

## 2. Modules

| Module | Models | Proofs | Instances |
|---|---|---|---|
| `ReconcilerOptions` | the options, their defaults, the decision to recreate | (used by the next) | |
| `ResourceReconciler` (EXTENDS `ReconcilerOptions`) | `GenericResourceReconciler` on one object: several callers, API server, cache, garbage collector, users | `ResourceReconcilerProofs` | `MCResourceReconciler` |
| `Inventory` | ids and names, the inventory's pure decisions | (used by the next) | |
| `NativeReconciler` (EXTENDS `Inventory`) | `NativeReconciler.Reconcile` and purge for several components, with fixed purge types or inventories | `NativeReconcilerProofs` | `MCNativeReconciler` |
| `Dispatcher` | `Dispatcher.Reconcile`, `Handle`, `CombinedResult`, `AggregatedState`, the work queue | `DispatcherProofs` | `MCDispatcher` |
| `ManagedObject` | abstract: what the reconciliation of one object promises; `ResourceReconciler` implements it | `ResourceReconcilerProofs` | `MCResourceReconciler` |
| `WorkQueue` | abstract: what handing an object to its components promises; `Dispatcher` implements it | `DispatcherProofs` | `MCDispatcher` |
| `DesiredStates` | static, dynamic and multiple desired states | (used by the next two) | |
| `ResourceOrder` | the tables of kinds and the sorting of objects | (used by the next) | |
| `HelmReconciler` (EXTENDS `Inventory`, `DesiredStates`, `ResourceOrder`) | one release: prechecks, builders, inventory, overrides, purge, statuses | `HelmReconcilerProofs` | `MCHelmReconciler` |
| `ResourceWait` (EXTENDS `DesiredStates`) | condition checks, preconditions, the recorded object states of a `NativeReconciler` | `ResourceWaitProofs` | `MCWait` |
| `ResourceScope` | `IsClusterScoped` and the scope maps, for concurrent inventories | `ResourceScopeProofs` | `MCLibrary` |
| `TokenSecret` | the secret getter and concurrent callers | `LibraryProofs` | `MCLibrary` |
| `SecretLoader` | loading of values, references and mounts | `LibraryProofs` | `MCLibrary` |
| `WatchEvents` | predicates and the mapping to owners, several watches of one informer | `LibraryProofs` | `MCLibrary` |
| `ReconcileRetry` | the retry loop | `UtilityProofs` | `MCLibrary` |
| `WorkloadOverrides` | overrides, volumes, pull secrets on a base that is kept or not | `LibraryProofs` | `MCLibrary` |
| `Strimaps` | merging and lookup of Helm values | `UtilityProofs` | `MCLibrary` |

### ResourceReconciler

State: the object in the server (`store`), the informer's copy (`cache`), the revision counter `rev`
that yields UIDs and resource versions, the object's pods, and per caller the next API call (`pc`), the
desired object as the code has mutated it so far (`desired`) and the retries spent. One action is one
API call and the local code up to the next one:

| Action | Code |
|---|---|
| `StartCall`, `Retry` | a call of `ReconcileResource`; `retry.OnError` around it in `native.go`, which passes the mutated object again |
| `GetMissing`, `GetCreated`, `GetAbsent`, `GetTerminating`, `GetPresent` | the `Get` of `CreateIfNotExist` or `delete` and the branches that follow: callbacks, merge of labels and annotations, the patch calculation, the copied resource version |
| `Create`, `Poll` | the create, and waiting for a new CRD |
| `Update`, `RecreateDelete` | the update; if rejected, `shouldRecreate`, the enabled kinds and the delete; `pc` "reget" and "recreate" are the second `CreateIfNotExist` of an immediate recreation |
| `Remove` | `Delete` for `StateAbsent` |
| `Fault` | an API call that fails without effect, or a crash; `Answer` loses the answer of a call that took effect |
| `CacheSync`, `External*`, `Release`, ..., `FinishDelete` | informer, users, cluster controllers, the garbage collector |

The payload of an object is one value; labels and annotations are a set plus the
managed-component annotation, because that is what `MetaBase.Merge` and the ownership rule treat
differently.

### NativeReconciler and Inventory

State: per object its owner and whether it is terminating (`cluster`); per inventory what its ConfigMap
lists (`refs`) and the cached copy (`seen`); per component what its owner asks for (`config`), the
reconciliation under way (`run`, the locals of `Reconcile`) and `inventoryData.ObjectsToDelete`
(`toDelete`), which outlives a reconciliation. A call of `ReconcileResource` is one step here. The
purge is not: each list and each delete is a step of its own. With `SharedInventory` the components
share one `toDelete`, as those of one `HelmReconciler` do.

A name is the sequence of its pieces between dashes, so `strings.Join(parts, "-")` is concatenation and
two joins clash in the model exactly when they do in the code.

The order in which builders run and purged objects are deleted is left open, except that the inventory
comes last: the properties hold for every order.

### Dispatcher

State: the custom resource (`object`), the statuses on it, what each component has brought to an end
(`applied`), whether the work queue holds the object, and the call of `Handle` under way with its
copy of the object. That copy is overwritten when a status update or a component's own update returns:
this is how a deletion is noticed in the middle of the loop. Components are numbered in installation
order; which optional interfaces they implement are constants. A component's own `Reconcile` is
external: it completes, asks for another call or fails, and may or may not refresh the object.

### ManagedObject

The abstract specification has the object, what each caller is to bring about, and nothing else of the
reconciler: no cache, no read before a write, no version. A caller may create the object when it is
absent and it was not asked for its absence, rewrite its payload and add labels while it is not being
deleted and keep whether it is managed, or remove it if that was asked for or a recreation may follow.
`ResourceReconciler` maps its variables to it (`Promise`): the object is what the server stores,
a caller's request the state and payload it was called with, its turn all the rest of its state.

### WorkQueue

The abstract specification of `Dispatcher`: a worker takes the object from the queue, attends to one part
of the work after the other, and may let go of the object for good only with no part left open. It has no
copy of the object, no order, no combined answer and no status. `Dispatcher` maps its variables to it
(`Queue`): the object is being worked on from when a worker takes it until `Handle` has answered, and
the open parts are the components that have not brought about, or not reported, what the object asks for
(`Settled`). Reads, refreshed copies, aggregated statuses and components that come to nothing are stutters.

### HelmReconciler

State: what the owner asks for (`owner`: skipped, enabled, going, the chart and the state overrides),
the status, the objects of the chart (absent, as in the chart, or edited by a user), the list in the
inventory's ConfigMap, the call under way (`call`, the locals of `Reconcile` and `reconcile`) and
`toDelete`. `Announce`, `PreChecks`, `GetResourceBuilders` (with `Inventory.Append` and
`setDesiredStateOverrides`), `Build` for one builder after the other in the order `Sort` gives,
`StartPurge`, `Purge`, `EndPurge`, `Sweep` (the pods left by jobs), `Failed` and `Report` are the steps;
each call to the API server, and each status update, may fail, and the operator may crash between any
two. Inventory and desired states are the operators of their modules, shared with the other models.

### ResourceWait

State: for every object its condition in the cluster, what the reconciler recorded (`recorded`, which a
reused reconciler keeps), the waits of the call under way with the polls left for each, and what the
polls have shown. One poll reads one object and applies its checks in order; a read that fails leaves
the object that was read into as it was (`seen`).

### The modules of MCLibrary

These parts do not touch each other's state, so one module instantiates all of them: every behaviour
chooses a part (`part`) and takes that part's steps only. `ResourceScope` has an action for each access
to the shared map; `TokenSecret` one per API call; `SecretLoader` one per load, and one for writing the
mounted files; `WatchEvents` one per step of a predicate, because several handlers work on the same old
object, which `SpecChangePredicate` changes and restores. `WorkloadOverrides` tracks what an override
writes to the base through shared maps and arrays.

## 3. Runs

The twelve runs are listed in `PROJECT.json`. "Bounds" are the constants that limit an instance; every
bound appears as a guard in the module.

### ResourceReconciler

| Run | Question | Instance |
|---|---|---|
| `races` | Does any write adopt an unmanaged object, drop foreign labels, touch a terminating object, or go unnoticed by optimistic locking? Does create-only ever touch an object that exists? Is every step one of `ManagedObject`? | 2 callers that disagree, one of them creating, deleting or updating; cached reads, callbacks that go, skip or fail, 1 retry, 2 external changes, 1 fault, calls start below revision 3 |
| `recreate` | Does success mean the object is as desired? Is an object destroyed only by an allowed recreation, and do its pods survive an immediate one with the Orphan policy? | 2 callers that disagree, no cache, all updates rejected, seven option sets, 1 retry, 1 external change, 1 fault |
| `converges` | Does the object end up as wanted for good? | fair; seven option sets (three default kinds on both recreation paths, a CRD), bounded users and faults, revisions bounded only by them |
| `orphan_later` | (violation, see 6) | |

In `converges` both callers want the same and every change of payload is rejected but a CRD's, so that an
object of another kind gets there only by being recreated. Two callers that disagree would
overwrite each other for ever, and do so in the code.
The safety runs set `CHECK_DEADLOCK FALSE` because calls stop at `MaxRev`; two changes by users and one
fault are enough for every pair of "changed after it was read" and "failed after it took effect" within a
call, and a call that starts below the bound still makes all its writes, so create, edit, delete and
recreate all fit. `OrphanKeepsPods` speaks of the time before a user interferes, because a user may delete
object and pods; there the two callers' own disagreement leads to the recreation. That callers which recreate
implement `ManagedObject` is proved (`ResourceReconcilerProofs!Implementation`) and not checked again here.

### NativeReconciler

| Run | Question | Instance |
|---|---|---|
| `purge_own` | Does a purge take up, or delete, another component's object, or a namespace? | 2 components in turn, shared stale inventory, deletions held back, 1 change, 1 outside change (a user creates, takes over or deletes, also between list and delete), 1 fault |
| `static_types` | With fixed purge types: does a purge delete what its reconciliation asked for, and is everything unwanted gone and everything wanted there in the end? | fair; 2 concurrent components, 1 change, 1 outside change, 1 fault |
| `inventory` | With an inventory, without faults or stale reads: is what is not wanted gone in the end? | fair; shared inventory, 2 changes, 1 outside change |
| `inventory_leak` | (violation, see 6) | |

Two components, two objects and one or two changes of mind let one component drop what another
wants, in the same or in different namespaces, while a purge is under way.
In `purge_own` components take turns, as those of one `Dispatcher` do; workers that serve several owners at
once do not, see 6. A user may take an object over between the list and the delete, and `PurgesNobodyElses`
lets the delete hit it: the code has no means to notice. What it demands of that window is that no other
component's object is hit, and of the list that it names only the component's own, by whichever
component's types the shared inventory makes it look.

### Dispatcher

| Run | Question | Instance |
|---|---|---|
| `dispatch` | Is the order kept, does the combined answer serve every component, does the object leave the queue only when all is settled, does the aggregated state succeed in the end, and is every step one of `WorkQueue`? | fair; 3 components (1 and 3 mandatory and with status), 1 change by a user (a mode, or the deletion), waits of 0 to 2, 2 hiccups |

A forced order (`ForceResourceOrder`) is a constant of the module; the run leaves it unset, the proof of
`InOrder` covers it. Two hiccups let one component fail and another ask for a later call, or a crash follow
a lost status update.
`CHECK_DEADLOCK FALSE`: an object that is settled and out of the queue is at rest, and
`NothingForgotten` says that this is the only way to be.

### HelmReconciler

| Run | Question | Instance |
|---|---|---|
| `helm` | When nothing calls again, do status and objects agree? Are a user's edits of create-only objects kept? Is the order right? Is the release installed, or gone, in the end? | fair; a definition and its custom resource, a job and the map it mounts; six settings of the owner with overrides by kind and by object; with and without a managed namespace; 1 change, 1 external change, 1 fault |

One change of settings goes from every one to every other of the six, so that each override, removal
and skip is met from each. With one failure, `lost` names what the inventory does not list any more (see
`inventory_leak`) and `Truthful` and `Delivers` leave it out; everything else must be right.
`touched` is what users changed since the call began, which no status can speak of.

### ResourceWait

| Run | Question | Instance |
|---|---|---|
| `wait` | Is nothing claimed that was not seen? Does every call end? Do calls succeed in the end? | fair; a workload, a map and a definition; three plans with static and dynamic states; 2 polls each, 1 change of plan, 1 upset, 1 failed read |

`WaitedFor` claims what the checks of the code can see. They look at a status: one that is older than the
spec ("unobserved"), and one of a workload that is being deleted and still has all its replicas
("terminating"), pass (`checks.go:66`); replicas that the status knows to be missing do not, whether the
object is being deleted ("stopping") or not ("unready").
`EndsWell` excepts a reconciler that waits for the contrary of its plan (`Contradictory`). That is what
the code does: see 6.

### The library

| Run | Question | Instance |
|---|---|---|
| `library`, `ResourceScope` | Is a kind that is served found, whoever discovers in between, with an answer that was true? Do both passes over namespaces agree? | 2 inventories, a registered and a discovered kind, 2 changes of what is served, 1 failed discovery |
| `library`, `TokenSecret` | Does whoever creates the secret wait for it to be complete? Does everybody get the token in the end? | fair; 2 callers, 2 polls, 2 upheavals (account or secret changed, deleted), 1 fault |
| `library`, `SecretLoader` | Does every path lead to what was read for it? | 3 references, of which two have the same key; 2 loads per round, 1 edit, 1 fault |
| `library`, `WatchEvents` | Has the owner heard of every change? | 2 watches for changes of the specification and one for pending objects, 3 revisions, 1 restart |
| `library`, `ReconcileRetry` | Does the loop end, and not too early? | fair; limits -1, 0, 1 and 3, up to 3 calls needed, 1 fault |
| `library`, `WorkloadOverrides` | Does a workload select its pods and have its volumes? | 5 configurations, 3 volumes in any order, base kept or not, 2 rounds |
| `library`, `Strimaps` | Is a merge what its leaves say? | all pairs of maps over 2 keys, nested to depth 2 (`StrimapDepth`) |

`CHECK_DEADLOCK FALSE`: a part that has spent its bounds rests.

### Fairness

* A reconciler is called again and again: controller-runtime re-queues after an error or a requeue,
  events re-queue the owner and the informers' resync re-queues everything. In `NativeReconciler` calls
  of different components may exclude each other (`Sequential`), hence strong fairness of `Begin`. In
  `Dispatcher` nothing of this is assumed: its queue is part of the model, and a worker takes what is
  queued (weak fairness).
* A call under way goes on. Its API calls may fail; the bounds on faults say that they do not fail for
  ever.
* In `HelmReconciler` the queue is part of the model, calls go on, resyncs bring the owner back and
  preconditions are met at last. In `ResourceWait` the component is reconciled again and again and every
  object settles; in `TokenSecret` callers try again and Kubernetes fills secrets of accounts that exist;
  in `ReconcileRetry` the loop goes on and the component answers.
* Informers catch up, finalizers are served, the garbage collector works.
* Users, faults and crashes are never obliged to happen.

## 4. What is proved

| Theorem | States | Assumes |
|---|---|---|
| `ResourceReconcilerProofs!TypeCorrect` | types | constants as declared |
| `...!VersionsCorrect` | `VersionsIdentify` | same |
| `...!NeverAdoptsCorrect`, `KeepsForeignLabelsCorrect`, `NeverWritesTerminatingCorrect` | the three promises about writes | same |
| `NativeReconcilerProofs!TypeCorrect` | types | same |
| `...!PurgesDroppedCorrect` | a purge deletes nothing that was asked for | same; names may clash, reconciliations overlap |
| `...!PurgesNobodyElsesCorrect` | `PurgesNobodyElses`: a purge takes up only its component's objects and deletes no other component's, whatever users do meanwhile | `Orderly`: one component at a time, different components have different ids |
| `...!PurgesNobodyElsesByName` | the same | `EvenComponents`: names, namespaces and components of all owners have as many pieces between dashes each; one component at a time |
| `...!ListsAllCorrect` | when a type was listed, all objects of it that are the component's and unwanted are up for deletion | `EvenIds`: no two objects' names and namespaces are cut differently |
| `...!ReconcilesRunOut` | every step of a reconciliation leaves it shorter | constants as declared |
| `DispatcherProofs!TypeCorrect`, `AnswersCorrect`, `InOrderCorrect`, `NothingForgottenCorrect` | types, `AnswersEveryone`, `InOrder`, `NothingForgotten` | any number of components, any interfaces |
| `...!CombineOrder` | the combined answer does not depend on the order of the answers nor on repetitions | any answers |
| `...!QueueImplementation` | `ImplementsWorkQueue`: `Dispatcher` implements `WorkQueue` | any number of components, any interfaces |
| `...!HandleRunsOut` | a call of `Handle` has at most four steps per component and one more | same |
| `ResourceReconcilerProofs!CreatedNeverTouchesCorrect`, `DeletesOnlyIfAllowedCorrect` | `CreatedNeverTouches`, `DeletesOnlyIfAllowed` | constants as declared |
| `...!SuccessIsHonestCorrect` | `SuccessIsHonest` | `Direct`: no cache, no hook that skips a step, no CRD, whose create is followed by a poll |
| `...!OrphanKeepsPodsCorrect` | `OrphanKeepsPods` | `Orphaning`: nobody asks for the object's absence, whoever orphans pods recreates immediately |
| `...!Implementation` | `ImplementsManagedObject`: `ResourceReconciler` implements `ManagedObject` | constants as declared |
| `...!CallsRunOut` | a call has at most six API calls per try; every step leaves fewer | same |
| `ResourceScopeProofs!ScopeTypeCorrect`, `ScopesFoundCorrect`, `WellPlacedCorrect` | types, `ScopesFound`, `WellPlaced` | there is a kind; any inventories, any registered scopes |
| `HelmReconcilerProofs!TypeCorrect`, `OrderedCorrect`, `EditsKeptCorrect` | types, `Ordered`, `EditsKept` | any chart and settings |
| `...!TruthfulCorrect` | `Truthful` | `InventoryKept`: no override and no annotation changes the inventory's own ConfigMap; `Departing`: a component is not enabled while its owner is being deleted |
| `...!GoesOnCorrect` | a call with builders or objects left always has a next one: sorting leaves none out | same as types |
| `...!CallsRunOut` | every step of a call leaves a shorter one | same |
| `ResourceWaitProofs!SeeingCorrect`, `WaitedForCorrect` | the inductive invariant, `WaitedFor` | any plans, preconditions and checks over finitely many objects |
| `...!CallsRunOut` | every step of a call leaves fewer builders, polls or objects to wait for, or leads to a later phase | same |
| `LibraryProofs!NothingMissedCorrect` | `NothingMissed` | any watches and owners |
| `...!CreatorsWaitCorrect` | `CreatorsWait` | any callers |
| `...!PathsLeadCorrect` | `PathsLead` | any references |
| `...!DeployableCorrect` | `Deployable` | a base that selects its own pods and has what it mounts; any overrides and volumes |
| `UtilityProofs!MergesRightCorrect` | `MergesRight` | any keys, values and depth |
| `...!HonestEndingCorrect`, `StepsRunOut` | the loop ends as its component answered; every step leaves fewer | any limit |

*Writes to one object.* The promises about writes concern an update that may be prepared from a stale
copy. They hold because of optimistic locking, so the invariant says what a resource version is worth:
every step leaves the object alone or stores it under a fresh version (`NewVersion`), hence a version
that the cache and the server share stands for the same content (`StoreAndCache`), and an update whose
version is the server's keeps the object's labels, is not terminating and adopts nothing
(`Prepared`). `VersionsIdentify` collects these and is inductive given the types. The three action
properties follow from `Prepared` at the `Update` step; every other step of a caller creates, deletes or
leaves the object.

*What a call may do to its object.* The other four properties of `ResourceReconciler` follow from what
each position of a call knows. A step of a call changes the object only at four places, and which
of them a call can reach depends on the desired state (`Routing`) and on the options, which never change
(`OptsGiven`). For `CreatedNeverTouches` and `DeletesOnlyIfAllowed` this is enough. `SuccessIsHonest` needs that
the reads are of the moment (`Direct`): with a cache the success may rest on an old copy, which is what
the properties about stale reads are for. For `OrphanKeepsPods` the pods stay alive while the object is
replaced: the garbage collector takes only those whose owner went away without orphaning them
(`PodsHeld`).

*The refinement.* `Implementation` is a step simulation. A desired object in work still has the state and
payload of one the caller was given, with labels added at most (`Given`), every step of a call moves it
on, and then each kind of step is an abstract one or leaves the object alone: a create because the server
refuses to create what exists, an update because of `Prepared`, a deletion because only a desired absence
or a rejected update leads to one. Caches, reads, lost answers, retries and faults are stutters.

*Purges.* `PurgesDropped` is not inductive: it needs that whatever was asked for is still to be built,
was visited or failed (`Accounted`), that a purge starts only without a failure and with nothing left to
build (`Staged`), and that nothing visited is ever doomed. `PurgesNobodyElses` needs more: a list takes up
what carries the component's id, which is the component's own when ids differ (`ManagedOwn`, `ListsOwn`),
and no other step adds to it (`OthersShrink`). Under `Orderly` at most one reconciliation is under way
(`Alone`), so nobody but users can touch what it has doomed, which stays its own or becomes a user's
(`DoomedOwn`, `MayOwn`). Without `Orderly` another component may take it over, see 6.
That ids differ is a lemma on joined names: two joins of as many pieces each are equal only if their
parts are (`SplitsAlike`), so it takes names that are cut differently for a clash.
The same lemma shows that a purge misses nothing: a reconciliation visits only what it was asked for
(`VisitsOwn`), so an object of its own that it passes over has the id of a wanted one, and is that one.

*The dispatcher.* `AnswersEveryone` follows from `Heeded`: all answers but the newest are already in the
combined one, and `Combine` never takes back what it promised. For `InOrder` the components heard are
exactly those at earlier places (`HeardPlaces`), places are a bijection, and the check before each
component makes the chosen order the one its object calls for. `NothingForgotten` needs in addition
that while the queue does not hold the object nobody has changed it since the call began (`Fresh`), and
that as long as the combined answer is empty everything heard is settled (`SoFar`).
`QueueImplementation` is a step simulation on top of these: the step that ends a call is allowed to leave the
object out of the queue because of `NothingForgotten`, and every other step of a worker settles or
unsettles the one component it is at.

*Scopes.* `ScopesFound` needs that what the map says has been true (`MapSound`) and that an inventory which
looks up again after a discovery finds what stays served (`Finds`): a discovery only adds or overwrites,
so no other inventory can take it away. `WellPlaced` needs that what the first pass dropped is still
gone in the second (`Dropped`), since that pass changes nothing about cluster scoped objects.

*A release.* `Ordered` and `EditsKept` are about one step each and follow from what the tables of kinds say
and from what a create-only state makes of an object that exists. `Truthful` relates the status to
everything the call has done, and its invariant is built in layers. What is wanted and was
visited is in place, unless a user touched it (`Worked`); what exists and is not wanted is up for removal,
listed, or lost (`Tracking`, about `Strays`); the inventory is written last, for everything that is
wanted (`Inventoried`); the pods of jobs are swept (`Cleaned`); and when the owner is not queued, the call
works on what it asks for now (`UpToDate`). The ghost variable `lost` names what earlier failures made the
inventory forget. The proof showed that it must include objects that were just installed, not only those that
were to be removed: two failures are needed to see it, more than the run has.
The two assumptions are what the code leaves to its user. An override for the kind ConfigMap applies to
the inventory too, and "Created" or "Absent" leaves it out of date or deletes it, with what it lists.
And a component that is enabled while its owner is being deleted installs objects that are in no inventory.

*Waiting.* `WaitedFor` is about what a whole call has seen. Whatever is to be waited for is in the
call's list of waits or has passed (`Checked`, `Found`); an object leaves the list only when its checks
pass; they pass only over what a read of this call left behind, because the object that is read into
is new for every wait (`Honest`); and without an error what a builder reconciled is recorded
(`Built`). Lists are made of sets in any order, hence the lemma that such a list names all of the set.

*Watches.* The events in a watch's inbox lead from the revision it has got to, one after the other, to the
one the informer has (`Chained`); an owner that is not queued was reconciled at one of these, or at one
that makes no difference to it (`Followed`). The versions that
predicates write to each other's objects do not matter: in a comparison they only ever add to what differs.

*The secret getter and the loader.* A call that has created the secret is waiting from then on, with a poll
left (`Waiters`), and stops waiting only with a complete secret or an error.
A mounted file has the value of the last mount with its key, and every mount is accounted for by a load
with the same path (`Accounted`): two loads whose files coincide are equal or cannot be told apart.

*Workloads.* Before the override of a round the labels and the selector are the base's, afterwards they are
merged once (`MergedOnce`); mounting a volume adds what it mounts; an override that mounts nothing leaves
every container's mounts alone, by induction over the overrides of the container; the secrets are
counted (`SecretsCount`). The base is untouched unless the operator keeps it (`Untouched`).
The induction does not use the library's rules, which take an operator as a parameter, but that the order
of the naturals is well founded: a set that holds zero and with each number its successor holds all
(`NaturalsReached`). With it the recursive function of the loop is shown to exist (`StagesExist`), which
its definition alone does not say.

*Merging values.* A merge of maps is a function of the pair of maps by recursion on their depth; so is the
lookup of a path. Both are first shown to exist at every depth and to be what their recursion says there,
which their definitions alone do not tell. Then `MergesRight` goes by induction on the depth, at each level by whether a
key is in one map or both and leads to a leaf or a map, and deeper maps include the less deep ones.

*The retry loop.* What the loop returns is decided where it returns (`HonestEnding`): a success needs the
component's last answer to be complete, and giving up needs the limit to be spent.

*Calls that end.* Liveness has no proofs here, but its safety half has. For the dispatcher,
the reconcilers, the condition checks and the retry loop a measure of a call is given that each of its steps lowers, failing steps included and whoever interferes:
tries times API calls for one object (`CallsLeft`), steps of `Handle` (`StepsLeft`), and for the others a
phase that only advances together with lists that only shrink: builders, types and objects to remove
(`Shorter`), objects of the release (`Left`), polls left (`Closer` of `ResourceWait`). A wait is ended by its
backoff even if its condition never holds; a retry loop without a limit is ended by what its component has
left to do (`FewerLeft`), which the model takes to be finite.
With the fairness of section 3, that a call under way goes on, this is why calls end.

TLC checks the same properties on instances; the proofs cover any number of callers, components and
objects, without bounds on changes and faults (the bounds are arbitrary constants).

Only model-checked: the liveness properties (`Converges`, `Purged`, `Provided`, `Succeeds`, `Delivers`,
`CallsEnd`, `EndsWell`, `TokensArrive`, `RetryEnds`), since TLAPS has no rules for `ENABLED` behind
fairness. Every other property of a passing run is a theorem, under the assumptions in the table.

## 5. What is not modelled

* The patch annotation and the calculation of diffs are a comparison of payload and metadata.
* `NativeReconciler`: controller references and the operator's object modifiers; a modifier that returns
  another object than it was given would separate the annotations from it (`native.go:347`). A delete that
  takes effect and loses its answer. The reads of `Inventory.Append` (`inventory.go:376-397`) are one step.
* `Dispatcher`: `ResourceFilter`, `CompletionHandler` (callbacks of the operator that may change any
  result) and the registration of watches. An object whose metadata cannot be accessed cannot occur.
* `HelmReconciler`: components that are reconciled by several workers at once. They share the data of one
  `Inventory` without a lock, which is a data race whose outcomes nothing bounds.
* `HelmReconciler`: the two conditions of the inventory that pass over an object whose scope cannot be
  determined (`inventory.go:240`) and over the record while the namespace is being deleted
  (`inventory.go:390`). `NativeReconciler` has both (`InventoryAppendSkips`, `Leave`).
* `ResourceScope`: a fixed list of cluster scoped resources (`inventory.go:317`) is a lookup without state.
* Desired states: the client options they carry and the three hooks in `statemodifiers.go`, which copy
  fields of the object that was read.
* `WorkloadOverrides`: fields that are simply replaced are one field; match expressions are left out, and a
  workload always has a selector (a missing one is replaced by the override's, `base_types.go:459-477`).
* `WatchEvents`: `SpecChangePredicate` computes a three-way patch (`predicates.go:88`), here any difference of
  the specification counts; without the last-applied annotation the patch may miss a removed field.
* Templates, layers and YAML patches are computed by libraries (Helm, strategic merge patch), as are the
  merges of `typeoverride` with `merge`; `helm/values.go` and `crd` convert through JSON and YAML.
* The modifiers of `resources` other than the pull secrets' set defaults field by field.
* The logger writes to a terminal, the documentation generator is a command line tool, deep copies are
  generated, the Prometheus types are declarations. Nothing that is modelled depends on them.

## 6. Where the code and its documentation disagree

Two runs that TLC must find violated; `PROJECT.json` quotes the lines.

* `orphan_later`: the configured `RecreatePropagationPolicy` is not used when recreation waits for the
  next reconciliation; the pods are collected although "Orphan" is configured (`resource.go:505`).
* `inventory_leak`: the inventory is overwritten before the purge, so after one failed builder, failed
  delete or crash it no longer lists what is still to be deleted (`native.go:363`, `inventory.go:391`).

Seen while modelling, and the reason for the restrictions of the other runs and of the theorems; most
can be reproduced by changing the constants of a configuration:

* An inventory read from a stale cache loses an object without any failure (`inventory.go:179`):
  `inventory_leak` with `CachedInventory = TRUE` and `MaxFaults = 0`.
* Owners `a` in `b-n` and `a-b` in `n` have one component id (`native.go:407`), and the purge for the one lists
  what the other wants: `PurgesNobodyElses` in `purge_own` with the components `Split`, `UseInventory = FALSE`
  and `StaticTypes <- SecretType`.
* An object that another component takes over between a purge's list and its delete is deleted
  (`native.go:507`): `purge_own` with `Sequential = FALSE`. One that a user takes over there is deleted
  also in `purge_own`, and `PurgesNobodyElses` accepts it.
* Joined ids of visited objects clash as well (`native.go:433`): of `s` in `n-x` and `s-n` in `x`, a visited
  one hides the other from the purge. `PurgesNobodyElsesByName` and `ListsAllCorrect` say that nothing but
  names cut differently makes ids clash.
* A recreation deletes by name, without a precondition, also an object that has been replaced since its
  update was rejected (`resource.go:503`, `483`).
* `EndsWell` has to except two cases: an object that a dynamic state wants absent is recorded as present
  and waited for (`native.go:355`), and a reused reconciler still waits for what it recorded for an earlier
  plan (`native.go:529`). `ReadyReplicasConditionCheck` holds of a workload that does not exist or whose
  controller has not looked at it yet (`checks.go:66`), which is why `WaitedFor` accepts "unobserved".
* It also holds of a workload that is being deleted and still has its replicas: the reconciler leaves such
  an object alone without an error (`resource.go:391`) and records it as present, and the wait succeeds over
  an object on its way out. `WaitedFor` accepts "terminating" for it.
* `RetryEnds` lets the loop end "incomplete" on an empty result: the loop takes only nil for completion,
  and the reconcilers of this repository never return nil (`reconcileretry.go:36`), so around them
  it never succeeds.
* A token secret that another caller has created and that is not filled yet, or one that cannot be read, is
  answered without token and without error (`secretgetter.go:133`, `156`): `CreatorsWait` speaks of the
  creator only.
* References whose names and keys join to the same text share a mounted file (`secret.go:74`): `PathsLead`
  excepts them (`Confusable`).
* `Deployable` speaks of the first workload made from a base that the operator keeps: overrides write to
  the maps and containers it shares (`base_types.go:149`, `278`, `472`). A readiness probe in an override
  replaces the liveness probe (`base_types.go:227`).
* A desired state's `GetCreateptions` (`state.go:87`, `148`) does not have the name that
  `CreateIfNotExist` looks for, so that dynamic and multiple states have no create options; and the
  create-only annotation is not looked at for multiple states (`native.go:333`).
* A status "Removed" may be followed by the discovery that objects remain, because an error of
  `PrepareDesiredObjects` is dropped (`inventory.go:383`).
* A watch that compares resource versions, next to one with `SpecChangePredicate`, may see the old object
  while its version is replaced (`predicates.go:85`); the predicates of this repository do not compare them.

## 7. Plan

Done: all components in the table of section 2 are modelled and checked, and every safety property of a
passing run has a proof.

Both abstract specifications are shown to be implemented, and the measures of section 4 bound the
calls of the dispatcher, the reconcilers, the condition checks and the retry loop (not those of the secret
getter and the loaders).

Left, in this order:

1. Lemmas about pure parts that the runs only reach through a component: `ReconcilerOptions` (which kinds
   are recreated under which options), `DesiredStates`.
2. A weaker form of `Departing`.
3. Callers that agree on the removal of an object: it is gone for good in the end, although racing
   deletes report errors (an instance of `ResourceReconciler`).

Recursion stays out of the modules with theorems: folds or recursive functions are used there.
