------------------------- MODULE ResourceReconciler -------------------------
(***************************************************************************)
(* GenericResourceReconciler: several workers (controller goroutines, or   *)
(* replicas of an operator during a rolling update) reconcile ONE object   *)
(* of the cluster, while its owner, its users, the garbage collector and   *)
(* the controller of its pods also change it.                              *)
(*                                                                         *)
(* One action is one call to the API server together with the local code   *)
(* that runs up to the next call: that is the grain at which workers       *)
(* interleave.  Reads go through an informer cache when CachedReads holds, *)
(* as they do with the client of a controller-runtime manager.             *)
(***************************************************************************)
EXTENDS Naturals, ReconcilerOptions

CONSTANTS
    Workers,        \* callers of ReconcileResource
    Specs,          \* the object's payload: everything the patch maker compares but metadata
    Labels,         \* labels and annotations, other than the two the library owns
    Components,     \* values of the managed-component annotation
    NoComponent,    \* the annotation is absent
    NoObject,       \* the object is absent
    Wants,          \* per worker, the desired objects and states it may be called with
    Immutable,      \* the changes of payload the API server rejects, by kind
    OptionSet,      \* the options the reconciler may be built with
    HookOutcomes,   \* what the callbacks of the desired state may answer
    CachedReads,    \* whether Get reads an informer cache
    MaxRev,         \* bound: no call starts once this many revisions exist
    MaxRetries,     \* bound: attempts retry.OnError adds to a failed call
    MaxExternal,    \* bound: changes by anyone but the reconciler
    MaxFaults       \* bound: failed or lost API calls, crashes, patch errors

States == {"Present", "Created", "Absent"}
Component == Components \cup {NoComponent}
Desired == [state : States, spec : Specs, labels : SUBSET Labels, component : Component]

\* A desired object in the hands of a call: with a resource version, 0 when it has none.
Call == [state : States, spec : Specs, labels : SUBSET Labels, component : Component, rv : Nat]

Object == [uid : Nat, rv : Nat, spec : Specs, labels : SUBSET Labels, component : Component,
           deleting : Policies \cup {"no"}, held : BOOLEAN, established : BOOLEAN]

ASSUME ComponentAssumption == NoComponent \notin Components
ASSUME ObjectAssumption == NoObject \notin Object
ASSUME WantsAssumption == Wants \in [Workers -> (SUBSET Desired) \ {{}}]
ASSUME ImmutableAssumption == Immutable \subseteq Kinds \X Specs \X Specs
ASSUME OptionsAssumption == OptionSet \subseteq Options
ASSUME HookAssumption == HookOutcomes \subseteq {"go", "skip", "fail"}
ASSUME BoundsAssumption == /\ CachedReads \in BOOLEAN
                           /\ MaxRev \in Nat /\ MaxRetries \in Nat
                           /\ MaxExternal \in Nat /\ MaxFaults \in Nat

VARIABLES
    opts,      \* the options as the caller gave them
    store,     \* the object in the API server, or NoObject
    cache,     \* the informer's copy of it
    rev,       \* the API server's revision counter, source of uids and resource versions
    pods,      \* the object's dependents: [alive, owner], owner 0 once orphaned
    pc,        \* per worker, the API call it makes next, or how its last call ended
    desired,   \* per worker, the desired object as mutated so far, with its resource version
    tries,     \* per worker, retries already spent
    external, faults   \* what is spent of MaxExternal and MaxFaults

vars == <<opts, store, cache, rev, pods, pc, desired, tries, external, faults>>
cluster == <<store, rev, pods>>
budget == <<external, faults>>

Resting == {"idle", "done", "failed", "requeue"}
Calling == {"get", "create", "update", "delete", "reget", "recreate", "remove", "poll"}

\* The effective options.
Opts == NewGenericReconciler(opts)

\* What a Get returns.
Seen == IF CachedReads THEN cache ELSE store

-----------------------------------------------------------------------------
(* The pure steps of ReconcileResource. *)

\* Mutant: an object without the annotation is adopted.
MergeMetaBug(d, current) ==
    [d EXCEPT !.labels = @ \cup current.labels,
              !.component = IF @ = NoComponent THEN current.component ELSE @]

\* MetaBase.Merge: what both give, the desired object decides.  Then the rule on the managed-component
\* annotation: an object that has none is not adopted.
MergeMeta(d, current) ==
    [d EXCEPT !.labels = @ \cup current.labels,
              !.component = IF NoComponent \in {@, current.component} THEN current.component ELSE @]

\* Mutant: the resource version is not copied, which makes the update unconditional.
PrepareBug(d, current) == MergeMeta(d, current)

\* The object given to Update: the merged one with the resource version that was read.
Prepare(d, current) == [MergeMeta(d, current) EXCEPT !.rv = current.rv]

\* Mutant: the payload is not compared.
InSyncBug(d, current) == d.labels = current.labels

\* patchResult.IsEmpty()
InSync(d, current) == /\ d.spec = current.spec
                      /\ d.labels = current.labels
                      /\ d.component = current.component

\* Mutant: StateCreated takes the default branch as well.
TakesDefaultBug(d) == d.state # "Absent"

\* The default branch of the switch on the desired state.
TakesDefault(d) == d.state = "Present"

\* Mutant: the configured policy is never used.
RecreatePolicyBug == "Foreground"

\* The propagation policy of the recreation: the configured one only on the immediate path.
RecreatePolicy == IF opts.immediately THEN Opts.policy ELSE "Foreground"

\* The desired object as a caller builds it, without a resource version.
Begin(want) == [state |-> want.state, spec |-> want.spec, labels |-> want.labels,
                component |-> want.component, rv |-> 0]

\* The object Create stores, and the one Update stores over `old'.
Fresh(d) == [uid |-> rev + 1, rv |-> rev + 1, spec |-> d.spec, labels |-> d.labels,
             component |-> d.component, deleting |-> "no", held |-> FALSE, established |-> FALSE]

Overwrite(old, d) == [old EXCEPT !.rv = rev + 1, !.spec = d.spec, !.labels = d.labels,
                                 !.component = d.component]

-----------------------------------------------------------------------------
(* The API server. *)

Goto(w, label) == pc' = [pc EXCEPT ![w] = label]

Write(object) == store' = object /\ rev' = rev + 1

\* An object that is already terminating, or that finalizers keep, outlives the call.
Delete(policy) ==
    /\ IF store.deleting # "no"
       THEN UNCHANGED <<store, rev>>
       ELSE Write(IF policy = "Background" /\ ~store.held THEN NoObject
                  ELSE [store EXCEPT !.deleting = policy, !.rv = rev + 1])
    /\ UNCHANGED pods

\* The answer to a call that took effect may be lost: the caller then sees an error.
Answer(w, label) == \/ Goto(w, label) /\ UNCHANGED budget
                    \/ /\ faults < MaxFaults
                       /\ Goto(w, "failed")
                       /\ faults' = faults + 1
                       /\ UNCHANGED external

Refuse(w) == Goto(w, "failed") /\ UNCHANGED <<store, rev, pods, desired, budget>>

Known == <<opts, cache, tries>>
-----------------------------------------------------------------------------
(* ReconcileResource, one action per API call. *)

StartCall(w) ==
    /\ pc[w] \in Resting /\ rev < MaxRev
    /\ \E want \in Wants[w] : desired' = [desired EXCEPT ![w] = Begin(want)]
    /\ Goto(w, "get")
    /\ tries' = [tries EXCEPT ![w] = 0]
    /\ UNCHANGED <<opts, cache, cluster, budget>>

\* NativeReconciler's retry.OnError calls ReconcileResource again with the object it mutated.
Retry(w) ==
    /\ pc[w] = "failed" /\ tries[w] < MaxRetries
    /\ Goto(w, "get")
    /\ tries' = [tries EXCEPT ![w] = @ + 1]
    /\ UNCHANGED <<opts, cache, cluster, desired, budget>>

\* CreateIfNotExist and delete, the object is not found.  A desired state that says not to create
\* makes CreateIfNotExist hand back the desired object itself as the current one: in sync.
GetMissing(w) ==
    /\ pc[w] \in {"get", "reget"} /\ Seen = NoObject
    /\ \/ desired[w].state = "Absent" /\ Goto(w, "done")
       \/ /\ desired[w].state # "Absent"
          /\ \/ "go" \in HookOutcomes /\ Goto(w, IF pc[w] = "get" THEN "create" ELSE "recreate")
             \/ "skip" \in HookOutcomes /\ Goto(w, IF pc[w] = "get" THEN "done" ELSE "failed")
             \/ "fail" \in HookOutcomes /\ Goto(w, "failed")
    /\ UNCHANGED <<Known, cluster, desired, budget>>

\* StateCreated leaves an object that exists alone; a recreation finds the old object still there.
GetCreated(w) ==
    /\ Seen # NoObject
    /\ \/ pc[w] = "get" /\ desired[w].state = "Created" /\ Goto(w, "done")
       \/ pc[w] = "reget" /\ Goto(w, "failed")
    /\ UNCHANGED <<Known, cluster, desired, budget>>

GetAbsent(w) ==
    /\ pc[w] = "get" /\ desired[w].state = "Absent" /\ Seen # NoObject
    /\ \/ "go" \in HookOutcomes /\ Goto(w, "remove")
       \/ "skip" \in HookOutcomes /\ Goto(w, "done")
       \/ "fail" \in HookOutcomes /\ Goto(w, "failed")
    /\ UNCHANGED <<Known, cluster, desired, budget>>

GetTerminating(w) ==
    /\ pc[w] = "get" /\ TakesDefault(desired[w])
    /\ Seen # NoObject /\ Seen.deleting # "no"
    /\ Goto(w, "requeue")
    /\ UNCHANGED <<Known, cluster, desired, budget>>

\* The object is there: merge, run the hooks, compare, and prepare the update.  The merge mutates the
\* desired object before a hook or the comparison ends the call.
GetPresent(w) ==
    /\ pc[w] = "get" /\ TakesDefault(desired[w])
    /\ Seen # NoObject /\ Seen.deleting = "no"
    /\ LET merged == MergeMeta(desired[w], Seen)
           compare(label, d) == Goto(w, label) /\ desired' = [desired EXCEPT ![w] = d]
       IN  \/ "skip" \in HookOutcomes /\ compare("done", merged) /\ UNCHANGED budget
           \/ "fail" \in HookOutcomes /\ compare("failed", merged) /\ UNCHANGED budget
           \/ /\ "go" \in HookOutcomes
              /\ \/ InSync(merged, Seen) /\ compare("done", merged) /\ UNCHANGED budget
                 \/ /\ ~InSync(merged, Seen)
                    /\ compare("update", Prepare(desired[w], Seen)) /\ UNCHANGED budget
                 \/ /\ faults < MaxFaults    \* the patch maker fails: update regardless
                    /\ compare("update", Prepare(desired[w], Seen))
                    /\ faults' = faults + 1 /\ UNCHANGED external
    /\ UNCHANGED <<Known, cluster>>

\* The server refuses an object whose resource version is set, or whose name is taken.  Only an answer
\* that arrives fills the desired object with what was created.
Create(w) ==
    /\ pc[w] \in {"create", "recreate"}
    /\ \/ /\ store = NoObject /\ desired[w].rv = 0
          /\ Write(Fresh(desired[w]))
          /\ Answer(w, IF opts.kind = "CustomResourceDefinition" THEN "poll" ELSE "done")
          /\ desired' = [desired EXCEPT ![w].rv = IF pc'[w] = "failed" THEN @ ELSE rev + 1]
          /\ UNCHANGED pods
       \/ ~(store = NoObject /\ desired[w].rv = 0) /\ Refuse(w)
    /\ UNCHANGED Known

\* A new CRD is polled until it is established, unless it is not found or the ten seconds are over.
Poll(w) ==
    /\ pc[w] = "poll"
    /\ \/ Seen # NoObject /\ Seen.established /\ Goto(w, "done") /\ UNCHANGED budget
       \/ Seen = NoObject /\ Goto(w, "failed") /\ UNCHANGED budget
       \/ faults < MaxFaults /\ Goto(w, "failed") /\ faults' = faults + 1 /\ UNCHANGED external
    /\ UNCHANGED <<Known, cluster, desired>>

\* Optimistic locking: an update succeeds only on the version it was prepared from.  Without a
\* version it is unconditional.
Current(d) == store # NoObject /\ d.rv \in {0, store.rv}

Rejected(d) == <<opts.kind, store.spec, d.spec>> \in Immutable

Update(w) ==
    /\ pc[w] = "update"
    /\ \/ ~Current(desired[w]) /\ Refuse(w)
       \/ /\ Current(desired[w]) /\ Rejected(desired[w])
          /\ IF Recreates(Opts) THEN Goto(w, "delete") ELSE Goto(w, "failed")
          /\ UNCHANGED <<cluster, desired, budget>>
       \/ /\ Current(desired[w]) /\ ~Rejected(desired[w])
          /\ IF InSync(desired[w], store) THEN UNCHANGED <<store, rev>>
                                          ELSE Write(Overwrite(store, desired[w]))
          /\ Answer(w, "done")
          /\ UNCHANGED <<pods, desired>>
    /\ UNCHANGED Known

\* The recreation deletes by name only, whatever object has that name by now.
RecreateDelete(w) ==
    /\ pc[w] = "delete"
    /\ \/ store = NoObject /\ Refuse(w)
       \/ /\ store # NoObject
          /\ Delete(RecreatePolicy)
          /\ \/ /\ opts.immediately
                /\ Answer(w, "reget")
                /\ desired' = [desired EXCEPT ![w].rv = IF pc'[w] = "failed" THEN @ ELSE 0]
             \/ ~opts.immediately /\ Answer(w, "requeue") /\ UNCHANGED desired
    /\ UNCHANGED Known

\* The delete of StateAbsent, which reports an object that is gone by now as an error.
Remove(w) ==
    /\ pc[w] = "remove"
    /\ \/ store = NoObject /\ Refuse(w)
       \/ store # NoObject /\ Delete("Background") /\ Answer(w, "done") /\ UNCHANGED desired
    /\ UNCHANGED Known

\* An API call fails without effect, or the worker's process stops.
Fault(w) ==
    /\ pc[w] \in Calling /\ faults < MaxFaults
    /\ Goto(w, "failed") \/ Goto(w, "idle")
    /\ faults' = faults + 1
    /\ UNCHANGED <<Known, cluster, desired, external>>

\* A step of a call in progress that no fault forces.
Progress(w) ==
    \/ Retry(w) \/ GetMissing(w) \/ GetCreated(w) \/ GetAbsent(w) \/ GetTerminating(w)
    \/ GetPresent(w) \/ Create(w) \/ Poll(w) \/ Update(w) \/ RecreateDelete(w) \/ Remove(w)

-----------------------------------------------------------------------------
(* Everybody else. *)

callers == <<pc, desired, tries>>
Others == <<opts, cache, callers, faults>>

CacheSync ==
    /\ CachedReads /\ cache # store
    /\ cache' = store
    /\ UNCHANGED <<opts, cluster, callers, budget>>

\* A user creates, edits, un-manages, holds back (a finalizer) or deletes the object.
ExternalCreate ==
    /\ store = NoObject
    /\ \E spec \in Specs, labels \in SUBSET Labels :
          Write(Fresh([spec |-> spec, labels |-> labels, component |-> NoComponent]))
    /\ UNCHANGED pods

ExternalEdit ==
    /\ store # NoObject
    /\ \E new \in {[store EXCEPT !.labels = labels] : labels \in SUBSET Labels}
              \cup {[store EXCEPT !.spec = spec] : spec \in {s \in Specs : <<opts.kind, store.spec, s>> \notin Immutable}}
              \cup {[store EXCEPT !.component = NoComponent]}
              \cup (IF store.deleting = "no" THEN {[store EXCEPT !.held = TRUE]} ELSE {}) :
          new # store /\ Write([new EXCEPT !.rv = rev + 1])
    /\ UNCHANGED pods

ExternalDelete ==
    /\ store # NoObject /\ store.deleting = "no"
    /\ \E policy \in Policies : Delete(policy)

External ==
    /\ external < MaxExternal /\ external' = external + 1
    /\ ExternalCreate \/ ExternalEdit \/ ExternalDelete
    /\ UNCHANGED Others

\* The controllers of the cluster.
OwnsPods == pods.alive /\ store # NoObject /\ pods.owner = store.uid

Release ==
    /\ store # NoObject /\ store.held
    /\ Write([store EXCEPT !.held = FALSE, !.rv = rev + 1])
    /\ UNCHANGED pods

Establish ==
    /\ store # NoObject /\ opts.kind = "CustomResourceDefinition" /\ ~store.established
    /\ Write([store EXCEPT !.established = TRUE, !.rv = rev + 1])
    /\ UNCHANGED pods

StartPods ==
    /\ store # NoObject /\ store.deleting = "no" /\ opts.kind \in {"StatefulSet", "DaemonSet", "Deployment"}
    /\ ~pods.alive \/ pods.owner = 0
    /\ pods' = [alive |-> TRUE, owner |-> store.uid]
    /\ UNCHANGED <<store, rev>>

\* The garbage collector: dependents first under "Foreground", cut loose under "Orphan".
CollectPods ==
    /\ pods.alive /\ pods.owner # 0
    /\ OwnsPods => store.deleting = "Foreground"
    /\ pods' = [alive |-> FALSE, owner |-> 0]
    /\ UNCHANGED <<store, rev>>

OrphanPods ==
    /\ OwnsPods /\ store.deleting = "Orphan"
    /\ pods' = [pods EXCEPT !.owner = 0]
    /\ UNCHANGED <<store, rev>>

FinishDelete ==
    /\ store # NoObject /\ store.deleting # "no" /\ ~store.held
    /\ store.deleting \in {"Foreground", "Orphan"} => ~OwnsPods
    /\ Write(NoObject)
    /\ UNCHANGED pods

ClusterControllers ==
    /\ Release \/ Establish \/ StartPods \/ CollectPods \/ OrphanPods \/ FinishDelete
    /\ UNCHANGED <<Others, external>>

-----------------------------------------------------------------------------
Init ==
    /\ opts \in OptionSet
    /\ store = NoObject /\ cache = NoObject /\ rev = 0
    /\ pods = [alive |-> FALSE, owner |-> 0]
    /\ pc = [w \in Workers |-> "idle"]
    /\ desired = [w \in Workers |-> Begin(CHOOSE want \in Wants[w] : TRUE)]
    /\ tries = [w \in Workers |-> 0]
    /\ external = 0 /\ faults = 0

Next ==
    \/ \E w \in Workers : StartCall(w) \/ Progress(w) \/ Fault(w)
    \/ CacheSync \/ External \/ ClusterControllers

Spec == Init /\ [][Next]_vars

(* Controller-runtime calls a reconciler again after an error, a requeue, an event or a resync; the    *)
(* informer catches up; the garbage collector and the holders of finalizers finish.  Users, faults and *)
(* crashes are under no obligation.                                                                    *)
Fairness ==
    /\ \A w \in Workers : WF_vars(StartCall(w)) /\ WF_vars(Progress(w))
    /\ WF_vars(CacheSync) /\ WF_vars(ClusterControllers)

FairSpec == Spec /\ Fairness

-----------------------------------------------------------------------------
(* Properties *)

\* Every variable has its type.
TypeOK ==
    /\ opts \in Options
    /\ store \in Object \cup {NoObject} /\ cache \in Object \cup {NoObject}
    /\ rev \in Nat /\ pods \in [alive : BOOLEAN, owner : Nat]
    /\ pc \in [Workers -> Resting \cup Calling]
    /\ desired \in [Workers -> Call]
    /\ tries \in [Workers -> Nat] /\ external \in Nat /\ faults \in Nat

\* An update was prepared from some version of the object; if that still is the version the server
\* holds, it keeps all metadata of the object, which is neither terminating, adopted nor given up.
Prepared(w) ==
    /\ desired[w].rv <= rev
    /\ pc[w] = "update" => desired[w].rv > 0
    /\ pc[w] = "update" /\ store # NoObject /\ desired[w].rv = store.rv =>
          /\ store.deleting = "no"
          /\ store.labels \subseteq desired[w].labels
          /\ store.component = NoComponent <=> desired[w].component = NoComponent

\* A resource version names one content of the object: whoever holds the version the server holds, the
\* informer or a prepared update, knows the object as it is (CreateIfNotExist's Get, SetResourceVersion).
VersionsIdentify ==
    /\ store # NoObject => store.rv \in 1..rev
    /\ cache # NoObject => cache.rv \in 1..rev
    /\ store # NoObject /\ cache # NoObject /\ cache.rv = store.rv => cache = store
    /\ \A w \in Workers : Prepared(w)

\* Worker w takes a step that changes the object but does not replace or remove it.
Rewrites(w) == /\ pc'[w] # pc[w]
               /\ store # NoObject /\ store' # NoObject /\ store' # store
               /\ store'.uid = store.uid

\* An object without the managed-component annotation never gets it from a reconciler, even when a user
\* removes the annotation between the reconciler's read and its update: purge would delete it one day.
NeverAdopts ==
    [][\A w \in Workers : Rewrites(w) /\ store.component = NoComponent
                            => store'.component = NoComponent]_vars

\* No update takes away a label or annotation that somebody else put on the object, whenever they did.
KeepsForeignLabels ==
    [][\A w \in Workers : Rewrites(w) => store.labels \subseteq store'.labels]_vars

\* An object being deleted is left alone (the back-off of ReconcileResource), even when the deletion
\* begins after the reconciler has read the object.
NeverWritesTerminating ==
    [][\A w \in Workers : Rewrites(w) => store.deleting = "no"]_vars

\* A call with StateCreated never changes or removes an object that exists, however stale its read.
CreatedNeverTouches ==
    [][\A w \in Workers : pc'[w] # pc[w] /\ desired[w].state = "Created" /\ store # NoObject
                            => store' = store]_vars

\* Without a cache, a call with StatePresent returns success only at a moment when the object has the
\* desired payload and every desired label.
SuccessIsHonest ==
    [][\A w \in Workers :
          pc[w] \in Calling /\ pc'[w] = "done" /\ desired[w].state = "Present" =>
             /\ store' # NoObject
             /\ store'.spec = desired[w].spec /\ desired[w].labels \subseteq store'.labels]_vars

\* A call with StatePresent deletes the object only if recreation is enabled, for a kind the defaults
\* list or when all kinds are enabled; anything else ends in an error and keeps the object (its volumes,
\* its IPs).
DeletesOnlyIfAllowed ==
    [][\A w \in Workers :
          /\ pc'[w] # pc[w] /\ desired[w].state # "Absent"
          /\ store # NoObject /\ store.deleting = "no"
          /\ store' = NoObject \/ store'.deleting # "no"
          => /\ opts.enable
             /\ opts.kind \in {"Service", "StatefulSet", "DaemonSet", "Deployment"} \/ opts.enabledFor = "all"]_vars

\* Documented: the "Orphan" policy avoids deleting pods.  As long as no user has deleted the object, only
\* the recreation does, and its pods stay alive (the two recreation paths of ReconcileResource).
OrphanKeepsPods == [][Opts.policy = "Orphan" /\ external = 0 /\ pods.alive => pods'.alive]_vars

\* When users and faults stop, the object ends up, for good, as every worker wants it and not terminating.
Converges ==
    <>[](/\ store # NoObject
         /\ store.deleting = "no"
         /\ \A w \in Workers : \E want \in Wants[w] :
               store.spec = want.spec /\ want.labels \subseteq store.labels)
\* What a caller was asked for, as the abstract specification sees it.
Requests == [w \in Workers |-> [state |-> desired[w].state, spec |-> desired[w].spec]]

Promise == INSTANCE ManagedObject WITH
    Callers <- Workers, NoOwner <- NoComponent, Nothing <- NoObject,
    object <- store, request <- Requests, turn <- pc, mayRecreate <- Recreates(Opts)

\* ReconcileResource implements ManagedObject: although it reads (from a cache), compares, writes and
\* recreates in separate calls, and retries with an object it has already changed, every write is an
\* atomic change of the object as it is, for a desired state the caller was given, that removes or
\* rewrites nothing it must not.
ImplementsManagedObject == Promise!Spec

=============================================================================
