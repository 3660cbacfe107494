--------------------------- MODULE NativeReconciler ---------------------------
(***************************************************************************)
(* NativeReconciler: the components of an operator, each reconciling a set *)
(* of objects builder by builder and then purging the objects that carry   *)
(* its component id and were not visited.  With an inventory, as in        *)
(* HelmReconciler, the types to purge come from what the previous          *)
(* reconciliation recorded in a ConfigMap that the last builder writes.    *)
(*                                                                         *)
(* One call of ReconcileResource is one step here: ResourceReconciler      *)
(* models what happens inside.  Which component an object belongs to is    *)
(* kept as the component itself; the code sees its generateComponentID.    *)
(***************************************************************************)
EXTENDS Naturals, FiniteSets, Inventory

CONSTANTS
    Components,       \* [name, namespace, component, kind, release, target], each a sequence
    Nobody,           \* the owner of an object without the managed-component annotation
    Objects,          \* [kind, namespace, name]: the objects the owners may ask for
    Configs,          \* per component, what its owner may ask for: functions from objects to states
    Finalized,        \* the objects whose deletion waits for a finalizer
    UseInventory,     \* whether the types to purge come from an inventory
    StaticTypes,      \* the types to purge otherwise
    CachedInventory,  \* whether inventories are read from an informer's cache
    SharedInventory,  \* whether the components share one Inventory value, as in a HelmReconciler
    Sequential,       \* whether one component reconciles at a time, as under a Dispatcher
    NoObject,         \* the object does not exist
    MaxChanges,       \* bound: changes of what the owners ask for
    MaxExternal,      \* bound: objects users create, take over or delete
    MaxFaults         \* bound: failed API calls and crashes

Inventories == {objectsInventory(c) : c \in Components}
Ids == Objects \cup Inventories
Kinds == {id.kind : id \in Ids}

States == {"Present", "Created", "Absent", "DynamicAbsent"}
Wants == UNION {[ids -> States] : ids \in SUBSET Objects}

ASSUME ConfigsAssumption == Configs \in [Components -> SUBSET Wants]
ASSUME ObjectsAssumption == Objects \cap Inventories = {}
ASSUME OwnerAssumption == Nobody \notin Components
ASSUME FlagsAssumption ==
    {UseInventory, CachedInventory, SharedInventory, Sequential} \subseteq BOOLEAN
ASSUME TypesAssumption == StaticTypes \subseteq Kinds
ASSUME BoundsAssumption == MaxChanges \in Nat /\ MaxExternal \in Nat /\ MaxFaults \in Nat

Object == [owner : Components \cup {Nobody}, terminating : BOOLEAN]
ASSUME NoObjectAssumption == NoObject \notin Object

VARIABLES
    cluster,    \* per id, the object
    refs,       \* per inventory, what its ConfigMap lists
    seen,       \* per inventory, what the informer's copy of it lists
    config,     \* per component, what its owner asks for
    leaving,    \* the components whose owner or namespace is being deleted
    run,        \* per component, the reconciliation under way
    toDelete,   \* per component, inventoryData.ObjectsToDelete, kept between reconciliations
    changes, external, faults   \* what is spent of the bounds

vars == <<cluster, refs, seen, config, leaving, run, toDelete, changes, external, faults>>
budget == <<changes, external, faults>>
world == <<cluster, refs, seen>>
asked == <<config, leaving>>

-----------------------------------------------------------------------------
\* The locals of Reconcile: what it works on, the builders still to run, excludeFromPurge, whether
\* combinedResult has an error, the types still to list, and purgeObjects.
Run == [at : {"idle", "append", "build", "purge"}, want : Wants, todo : SUBSET Ids,
        visited : SUBSET {generateResourceIDForPurge(id) : id \in Ids}, failed : BOOLEAN,
        types : SUBSET Kinds, doomed : SUBSET Ids]

Idle == [at |-> "idle", want |-> [id \in {} |-> "Present"], todo |-> {}, visited |-> {},
         failed |-> FALSE, types |-> {}, doomed |-> {}]

Exists(id) == cluster[id] # NoObject
Terminating == {id \in Ids : Exists(id) /\ cluster[id].terminating}
Owned(owner) == [owner |-> owner, terminating |-> FALSE]

Set(c, r) == run' = [run EXCEPT ![c] = r]
Fail == faults < MaxFaults /\ faults' = faults + 1 /\ UNCHANGED <<changes, external>>

\* The objects that carry the component's annotation.
ManagedBy(c) == {id \in Ids : /\ Exists(id) /\ cluster[id].owner # Nobody
                              /\ generateComponentID(cluster[id].owner) = generateComponentID(c)}

\* What a client's Delete leaves of an object.
Deleted(id) == IF id \in Finalized /\ Exists(id) THEN [cluster[id] EXCEPT !.terminating = TRUE]
                                                 ELSE NoObject

\* Whether ReconcileResource overwrites the annotation of an object that exists.
TakesOver(id, state) == /\ state = "Present"
                        /\ ~cluster[id].terminating
                        /\ cluster[id].owner # Nobody

\* What a successful ReconcileResource leaves of an object.
ReconcileResource(c, id, state) ==
    IF state \in {"Absent", "DynamicAbsent"} THEN Deleted(id)
    ELSE IF ~Exists(id) \/ TakesOver(id, state) THEN Owned(c) ELSE cluster[id]

\* The inventory itself is wanted present.
StateOf(c, id) == IF id = objectsInventory(c) THEN "Present" ELSE run[c].want[id]

\* The components whose in-memory inventory data is c's as well.
Sharing(c) == IF SharedInventory THEN Components ELSE {c}

Listed(i) == IF Exists(i) THEN refs[i] ELSE {}

\* The objects that the inventory, as it is read, says to delete.
Deletable(c) ==
    PrepareDeletableObjects(
        IF CachedInventory THEN seen[objectsInventory(c)] ELSE Listed(objectsInventory(c)),
        PrepareDesiredObjects(run[c].want), Terminating)

-----------------------------------------------------------------------------
(* NativeReconciler.Reconcile *)

\* Mutant: components are reconciled side by side.
MayBeginBug(c) == run[c].at = "idle"

\* A Dispatcher reconciles one component after the other.
MayBegin(c) == \A d \in Components : Sequential \/ d = c => run[d].at = "idle"

Begin(c) ==
    /\ MayBegin(c)
    /\ Set(c, [Idle EXCEPT !.at = IF UseInventory THEN "append" ELSE "build",
                           !.want = config[c], !.todo = DOMAIN config[c]])
    /\ UNCHANGED <<world, asked, toDelete, budget>>

\* Inventory.Append: remember what to delete, and add the builder of the new inventory unless it would
\* be empty or everything is being deleted.
InventoryAppendWith(c, deletable) ==
    /\ run[c].at = "append"
    /\ toDelete' = [d \in Components |-> IF d \in Sharing(c) THEN deletable ELSE toDelete[d]]
    /\ Set(c, [run[c] EXCEPT !.at = "build",
                  !.todo = IF PrepareDesiredObjects(run[c].want) = {} \/ c \in leaving THEN @
                           ELSE @ \cup {objectsInventory(c)}])
    /\ UNCHANGED <<world, asked>>

InventoryAppend(c) == InventoryAppendWith(c, Deletable(c)) /\ UNCHANGED budget

\* An object whose scope cannot be determined is not deleted.
InventoryAppendSkips(c) == Fail /\ \E id \in Deletable(c) : InventoryAppendWith(c, Deletable(c) \ {id})

\* An error of PrepareDesiredObjects is dropped: the reconciliation goes on without an inventory and
\* with the old data.  Any other error ends the reconciliation.
InventoryAppendFails(c) ==
    /\ run[c].at = "append" /\ Fail
    /\ Set(c, [run[c] EXCEPT !.at = "build"]) \/ Set(c, Idle)
    /\ UNCHANGED <<world, asked, toDelete>>

\* The inventory is written last; the order among the other builders is left open.
IsNext(c, id) == id \in run[c].todo /\ (id = objectsInventory(c) => run[c].todo = {id})

\* What ReconcileResource makes of the cluster; the inventory's own object gets the new list.
Reconciles(c, id) ==
    /\ cluster' = [cluster EXCEPT ![id] = ReconcileResource(c, id, StateOf(c, id))]
    /\ refs' = IF id = objectsInventory(c) /\ id \notin Terminating
               THEN [refs EXCEPT ![id] = PrepareDesiredObjects(run[c].want)] ELSE refs

Build(c) ==
    /\ run[c].at = "build"
    /\ \E id \in Ids :
          /\ IsNext(c, id) /\ Reconciles(c, id)
          /\ Set(c, [run[c] EXCEPT !.todo = @ \ {id},
                                   !.visited = @ \cup {generateResourceIDForPurge(id)}])
    /\ UNCHANGED <<seen, asked, toDelete, budget>>

\* A builder that fails may have written its object: the answer was lost.
BuildFails(c) ==
    /\ run[c].at = "build" /\ Fail
    /\ \E id \in Ids :
          /\ IsNext(c, id) /\ (Reconciles(c, id) \/ UNCHANGED <<cluster, refs>>)
          /\ Set(c, [run[c] EXCEPT !.todo = @ \ {id}, !.failed = TRUE])
    /\ UNCHANGED <<seen, asked, toDelete>>

\* Mutant: an error does not keep the reconciliation from purging.
MayPurgeBug(c) == TRUE

\* Purging is skipped after any error.
MayPurge(c) == ~run[c].failed

StartPurge(c) ==
    /\ run[c].at = "build" /\ run[c].todo = {}
    /\ Set(c, IF MayPurge(c)
              THEN [run[c] EXCEPT !.at = "purge",
                       !.types = IF UseInventory THEN TypesToPurge(toDelete[c]) ELSE StaticTypes]
              ELSE Idle)
    /\ UNCHANGED <<world, asked, toDelete, budget>>

\* Mutant: visited objects are purged as well.
UnvisitedBug(c) == ManagedBy(c)

Unvisited(c) == {id \in ManagedBy(c) : generateResourceIDForPurge(id) \notin run[c].visited}

List(c) ==
    /\ run[c].at = "purge"
    /\ \E kind \in run[c].types :
          Set(c, [run[c] EXCEPT !.types = @ \ {kind},
                                !.doomed = @ \cup {id \in Unvisited(c) : id.kind = kind}])
    /\ UNCHANGED <<world, asked, toDelete, budget>>

\* A type that cannot be listed is skipped, without an error.
ListFails(c) ==
    /\ run[c].at = "purge" /\ Fail
    /\ \E kind \in run[c].types : Set(c, [run[c] EXCEPT !.types = @ \ {kind}])
    /\ UNCHANGED <<world, asked, toDelete>>

\* The delete names an object, whatever it has become since it was listed.  Any order is possible here.
Purges(c, id) == run[c].at = "purge" /\ run[c].types = {} /\ id \in run[c].doomed

Purge(c) ==
    /\ \E id \in Ids :
          /\ Purges(c, id)
          /\ cluster' = [cluster EXCEPT ![id] = Deleted(id)]
          /\ Set(c, [run[c] EXCEPT !.doomed = @ \ {id}])
    /\ UNCHANGED <<refs, seen, asked, toDelete, budget>>

PurgeFails(c) ==
    /\ Fail
    /\ \E id \in Ids : Purges(c, id) /\ Set(c, [run[c] EXCEPT !.doomed = @ \ {id}])
    /\ UNCHANGED <<world, asked, toDelete>>

Finish(c) ==
    /\ run[c].at = "purge" /\ run[c].types = {} /\ run[c].doomed = {}
    /\ Set(c, Idle)
    /\ UNCHANGED <<world, asked, toDelete, budget>>

\* The process stops: what the inventories hold in memory is lost with every reconciliation.
Crash ==
    /\ \E c \in Components : run[c].at # "idle"
    /\ Fail
    /\ run' = [c \in Components |-> Idle]
    /\ toDelete' = [c \in Components |-> {}]
    /\ UNCHANGED <<world, asked>>

Progress(c) == InventoryAppend(c) \/ Build(c) \/ StartPurge(c) \/ List(c) \/ Purge(c) \/ Finish(c)

Failure(c) == InventoryAppendSkips(c) \/ InventoryAppendFails(c) \/ BuildFails(c) \/ ListFails(c) \/ PurgeFails(c)

-----------------------------------------------------------------------------
(* Everybody else. *)

ChangeConfig(c) ==
    /\ changes < MaxChanges /\ changes' = changes + 1
    /\ \E new \in Configs[c] \ {config[c]} : config' = [config EXCEPT ![c] = new]
    /\ UNCHANGED <<world, leaving, run, toDelete, external, faults>>

\* The owner or the namespace is being deleted.
Leave(c) ==
    /\ UseInventory /\ changes < MaxChanges /\ changes' = changes + 1
    /\ leaving' = leaving \cup {c}
    /\ UNCHANGED <<world, config, run, toDelete, external, faults>>

\* A user creates an object, takes it over by removing the annotation, or deletes it.
External ==
    /\ external < MaxExternal /\ external' = external + 1
    /\ \E id \in Objects :
          \/ id \notin Terminating /\ cluster' = [cluster EXCEPT ![id] = Owned(Nobody)]
          \/ Exists(id) /\ cluster' = [cluster EXCEPT ![id] = Deleted(id)]
    /\ UNCHANGED <<refs, seen, asked, run, toDelete, changes, faults>>

FinishDelete(id) ==
    /\ id \in Terminating
    /\ cluster' = [cluster EXCEPT ![id] = NoObject]
    /\ UNCHANGED <<refs, seen, asked, run, toDelete, budget>>

CacheSync(i) ==
    /\ CachedInventory /\ seen[i] # Listed(i)
    /\ seen' = [seen EXCEPT ![i] = Listed(i)]
    /\ UNCHANGED <<cluster, refs, asked, run, toDelete, budget>>

-----------------------------------------------------------------------------
Init ==
    /\ cluster = [id \in Ids |-> NoObject]
    /\ refs = [i \in Inventories |-> {}] /\ seen = refs
    /\ config \in [Components -> Wants] /\ \A c \in Components : config[c] \in Configs[c]
    /\ leaving = {}
    /\ run = [c \in Components |-> Idle]
    /\ toDelete = [c \in Components |-> {}]
    /\ changes = 0 /\ external = 0 /\ faults = 0

Next ==
    \/ \E c \in Components : Begin(c) \/ Progress(c) \/ Failure(c) \/ ChangeConfig(c) \/ Leave(c)
    \/ Crash \/ External
    \/ \E id \in Ids : FinishDelete(id)
    \/ \E i \in Inventories : CacheSync(i)

Spec == Init /\ [][Next]_vars

\* Every component is reconciled again and again: an error or an event brings it back at once, the
\* resync of the informers in any case.  A reconciliation under way goes on, finalizers are served and
\* the informers catch up.
Fairness ==
    /\ \A c \in Components : SF_vars(Begin(c)) /\ WF_vars(Progress(c))
    /\ \A id \in Ids : WF_vars(FinishDelete(id))
    /\ \A i \in Inventories : WF_vars(CacheSync(i))

FairSpec == Spec /\ Fairness

-----------------------------------------------------------------------------
(* Correctness *)

\* Every variable has its type; in particular, no namespace or CRD is ever marked for deletion.
TypeOK ==
    /\ cluster \in [Ids -> Object \cup {NoObject}]
    /\ refs \in [Inventories -> SUBSET Objects]
    /\ seen \in [Inventories -> SUBSET Objects]
    /\ config \in [Components -> Wants]
    /\ leaving \subseteq Components
    /\ run \in [Components -> Run]
    /\ toDelete \in [Components -> SUBSET {id \in Objects : id.kind \notin NeverDeleted}]
    /\ changes \in 0 .. MaxChanges /\ external \in 0 .. MaxExternal /\ faults \in 0 .. MaxFaults

\* The step deletes an object on behalf of a component's purge.
PurgeStep(c, id) ==
    Purges(c, id) /\ Exists(id) /\ id \notin run'[c].doomed /\ cluster'[id] # cluster[id]

\* A purge deletes only what its reconciliation did not ask for, whatever failed on the way (purge,
\* and the decision whether to purge at all).
PurgesDropped == [][\A c \in Components, id \in Objects :
                        PurgeStep(c, id) => id \notin DOMAIN run[c].want]_vars

\* Whatever users create, take over and delete in the time between the list and the delete, and whichever
\* component's types it goes by, a purge takes up only its component's own objects, and none of these has
\* become another component's by the time it is deleted.  A user's it may have become: the delete has no
\* precondition (generateComponentID, purge, and Dispatcher.Handle, which lets components take turns).
PurgesNobodyElses ==
    [][\A c \in Components, id \in Ids :
          /\ id \in run'[c].doomed \ run[c].doomed => cluster[id].owner = c
          /\ PurgeStep(c, id) => cluster[id].owner \in {c, Nobody}]_vars

\* What the component's owner asks to exist.
Asked(c) == {id \in DOMAIN config[c] : config[c][id] \in {"Present", "Created"}}

Purgeable(id) == IF UseInventory THEN id.kind \notin NeverDeleted ELSE id.kind \in StaticTypes

\* Once the owners stop changing their minds, nothing a component owns and does not want is left
\* (purge, and the inventory that tells it which types to look at).  What an owner that is being
\* deleted leaves behind is the garbage collector's.
Purged == <>[](\A c \in Components \ leaving, id \in Objects :
                  Exists(id) /\ cluster[id].owner = c /\ Purgeable(id) => id \in Asked(c))

\* ... and everything they ask for exists: no purge keeps deleting what is wanted.
Provided == <>[](\A c \in Components : \A id \in Asked(c) : Exists(id))
=============================================================================
