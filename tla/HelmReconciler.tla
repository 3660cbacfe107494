---------------------------- MODULE HelmReconciler ----------------------------
(***************************************************************************)
(* HelmReconciler: a component that installs the objects of a Helm chart   *)
(* when it is enabled, removes them when it is not, and reports how it     *)
(* went in its status.  It hands the objects to a NativeReconciler, with   *)
(* an inventory that remembers what the previous call wanted.  Every       *)
(* object of the chart is wanted Present, unless an override or an         *)
(* annotation says otherwise.                                              *)
(*                                                                         *)
(* There is one owner, so every object with a managed-component annotation *)
(* is this component's; NativeReconciler has the others and finalizers.    *)
(***************************************************************************)
EXTENDS Naturals, Inventory, DesiredStates, ResourceOrder

CONSTANTS
    ChartObjects,     \* [kind, namespace, name]: the objects charts may hold
    Space,            \* the release's namespace
    Record,           \* the inventory's ConfigMap
    Annotated,        \* the objects a chart annotates as create-only
    Settings,         \* what the owner may ask for
    MaxChanges,       \* bound: changes of what the owner asks for
    MaxExternal,      \* bound: what users and the preconditions do
    MaxFaults         \* bound: failures, postponed operations and crashes

Ids == ChartObjects \cup {Space, Record}

\* byKind and byKey are the DesiredStateOverrides: partial functions to static states.
ASSUME SettingsAssumption ==
    \A s \in Settings :
        /\ {s.skipped, s.enabled, s.leaving} \subseteq BOOLEAN
        /\ s.chart \subseteq ChartObjects
        /\ DOMAIN s.byKind \subseteq {id.kind : id \in Ids} /\ DOMAIN s.byKey \subseteq Ids
        /\ Range(s.byKind) \cup Range(s.byKey) \subseteq Statics
ASSUME ObjectsAssumption ==
    /\ Space # Record /\ {Space, Record} \cap ChartObjects = {}
    /\ Space.kind = "Namespace" /\ Record.kind = "ConfigMap"
ASSUME BoundsAssumption == MaxChanges \in Nat /\ MaxExternal \in Nat /\ MaxFaults \in Nat

VARIABLES
    manageNamespace,  \* the reconciler's option
    owner,      \* what the owner asks for
    status,     \* the component's status
    cluster,    \* per id: no object, one as the chart has it, or one a user has edited
    listed,     \* what the inventory's ConfigMap lists
    pods,       \* whether there are pods of the release's jobs
    ready,      \* what the component's PreChecks say
    call,       \* the Reconcile under way
    queued,     \* whether the controller will call again, at once or after a delay
    toDelete,   \* inventoryData.ObjectsToDelete, kept between calls
    changes, external, faults,  \* what is spent of the bounds
    touched,    \* history: what users touched since the call began
    lost        \* history: what a call was to remove when something failed

vars == <<manageNamespace, owner, status, cluster, listed, pods, ready, call, queued, toDelete,
          changes, external, faults, touched, lost>>
world == <<cluster, listed, pods>>
asked == <<manageNamespace, owner, ready>>
budget == <<changes, external, faults>>

-----------------------------------------------------------------------------
\* The object the controller passed, the builders still to run, excludeFromPurge, whether
\* combinedResult has an error and whether it asks for another call, and purgeObjects.
Call == [at : {"skip", "announce", "check", "release", "build", "purge", "sweep", "failed", "report"},
         copy : Settings, todo : SUBSET Ids, visited : SUBSET Ids, failed : BOOLEAN,
         again : BOOLEAN, doomed : SUBSET Ids]

Idle == [at |-> "idle"]

At(step) == call.at = step
Go(step) == call' = [call EXCEPT !.at = step]

Existing == {id \in Ids : cluster[id] # "no"}

\* The objects the previous calls recorded, none without the ConfigMap.
Recorded == IF cluster[Record] = "no" THEN {} ELSE listed

Fails == faults < MaxFaults /\ faults' = faults + 1 /\ UNCHANGED <<changes, external>>
Fault == Fails /\ UNCHANGED lost
\* A failure that may leave these behind.
Loses(ids) == Fails /\ lost' = lost \cup ids
\* What the inventory does not list, or not any more: what was to be removed, and what was just made.
Untracked == toDelete \cup (call.visited \ Recorded)
NoFault == UNCHANGED <<budget, lost>>

\* The call ends; an error or a result that asks for it brings the next.
Return(again) == call' = Idle /\ queued' = (queued \/ again)

\* component.UpdateStatus: `then' may only rely on it when it did not fail.
UpdateStatus(s) == status' = s /\ NoFault
StatusLost == status' = status /\ Fault

-----------------------------------------------------------------------------
(* HelmReconciler.Reconcile *)

Begin ==
    /\ At("idle") /\ queued
    /\ queued' = FALSE /\ touched' = {}
    /\ call' = [at |-> IF owner.skipped THEN "skip" ELSE "announce", copy |-> owner, todo |-> {},
                visited |-> {}, failed |-> FALSE, again |-> FALSE, doomed |-> {}]
    /\ NoFault /\ UNCHANGED <<asked, world, status, toDelete>>

\* A component that is skipped says so and is left alone.
Skip ==
    /\ At("skip")
    /\ \/ UpdateStatus("Unmanaged") /\ Return(FALSE)
       \/ StatusLost /\ Return(TRUE)
    /\ UNCHANGED <<asked, world, toDelete, touched>>

\* Whether this status is lost does not matter; writing it may refresh the object.
Announce ==
    /\ At("announce")
    /\ \/ /\ UpdateStatus("Reconciling")
          /\ \E copy \in {call.copy, owner} :
                call' = [call EXCEPT !.copy = copy, !.at = IF copy.enabled THEN "check" ELSE "release"]
       \/ StatusLost /\ Go(IF call.copy.enabled THEN "check" ELSE "release")
    /\ UNCHANGED <<asked, world, toDelete, touched, queued>>

PreChecks ==
    /\ At("check")
    /\ \/ ready = "yes" /\ Go("release") /\ NoFault /\ UNCHANGED <<status, queued>>
       \/ ready = "notyet" /\ (UpdateStatus("Reconciling") \/ StatusLost) /\ Return(TRUE)
       \/ ready = "never" /\ (UpdateStatus("Failed") \/ StatusLost) /\ Return(TRUE)
    /\ UNCHANGED <<asked, world, toDelete, touched>>

\* Without the release's data the call ends, and the status stays at Reconciling.
ReleaseDataFails ==
    /\ At("release") /\ Fault /\ Return(TRUE)
    /\ UNCHANGED <<asked, world, status, toDelete, touched>>

\* The objects the builders are made for, before the inventory's own.
Wanted == (IF manageNamespace THEN {Space} ELSE {}) \cup (IF call.copy.enabled THEN call.copy.chart ELSE {})

\* No builder's state is the bare StateAbsent, whatever the overrides say later.
Desired == PrepareDesiredObjects([id \in Wanted |-> IF id = Space THEN "Created" ELSE "Present"])

Deletable == PrepareDeletableObjects(Recorded, Desired, {})

GetResourceBuilders ==
    /\ At("release")
    /\ toDelete' = Deletable
    /\ call' = [call EXCEPT !.at = "build",
                  !.todo = Wanted \cup (IF call.copy.leaving \/ Desired = {} THEN {} ELSE {Record})]
    /\ NoFault /\ UNCHANGED <<asked, world, status, queued, touched>>

\* The inventory drops an error of its first part: no new ConfigMap, and the old ObjectsToDelete.
InventoryForgotten ==
    /\ At("release")
    /\ Loses(listed \cup Wanted)
    /\ call' = [call EXCEPT !.at = "build", !.todo = Wanted]
    /\ UNCHANGED <<asked, world, status, queued, toDelete, touched>>

\* Any other error: the chart cannot be rendered, the API's versions or the namespace cannot be read.
GetResourceBuildersFails ==
    /\ At("release") /\ Fault /\ Go("failed")
    /\ UNCHANGED <<asked, world, status, queued, toDelete, touched>>

-----------------------------------------------------------------------------
(* NativeReconciler.Reconcile, with the builders' desired states *)

\* The namespace first, the inventory last, the chart's objects sorted.
NextBuilders == IF Space \in call.todo THEN {Space}
                ELSE IF call.todo = {Record} THEN {Record} ELSE FirstInstalled(call.todo \ {Record})

\* setDesiredStateOverrides: the override for an object beats the one for its kind.
Overrides(id) ==
    IF id \in DOMAIN call.copy.byKey THEN <<Static(call.copy.byKey[id])>>
    ELSE IF id.kind \in DOMAIN call.copy.byKind THEN <<Static(call.copy.byKind[id.kind])>> ELSE <<>>

\* The chart's objects and the namespace get states with callbacks, the inventory's does not.
StateOf(id) ==
    LET states == <<CASE id = Record -> Static("Present")
                      [] id = Space -> Dynamic("Created")
                      [] OTHER -> Dynamic("Present")>> \o Overrides(id)
    IN  IF id \in Annotated THEN CreateOnly(states) ELSE states

\* What a successful ReconcileResource leaves of an object.
ReconcileResource(id) ==
    CASE GetDesiredState(StateOf(id)) = "Absent" -> "no"
      [] GetDesiredState(StateOf(id)) = "Present" -> "current"
      [] OTHER -> IF cluster[id] = "no" THEN "current" ELSE cluster[id]

Built(id) == [call EXCEPT !.todo = @ \ {id}, !.visited = @ \cup {id}]

Build ==
    /\ At("build")
    /\ \E id \in NextBuilders :
          /\ cluster' = [cluster EXCEPT ![id] = ReconcileResource(id)]
          /\ listed' = IF id = Record /\ cluster'[id] = "current" /\
                          (cluster[id] = "no" \/ GetDesiredState(StateOf(id)) = "Present")
                       THEN Desired ELSE listed
          /\ call' = Built(id)
    /\ NoFault /\ UNCHANGED <<asked, pods, status, queued, toDelete, touched>>

\* An update that has to recreate the object deletes it and asks for another call.
Postponed ==
    /\ At("build")
    /\ \E id \in NextBuilders :
          /\ GetDesiredState(StateOf(id)) = "Present"
          /\ Loses(IF id = Record THEN Wanted ELSE {})
          /\ cluster' = [cluster EXCEPT ![id] = "no"]
          /\ call' = [Built(id) EXCEPT !.again = TRUE]
    /\ UNCHANGED <<asked, listed, pods, status, queued, toDelete, touched>>

BuildFails ==
    /\ At("build")
    /\ \E id \in NextBuilders :
          /\ Loses(IF id = Record THEN Untracked ELSE toDelete)
          /\ call' = [call EXCEPT !.todo = @ \ {id}, !.failed = TRUE]
    /\ UNCHANGED <<asked, world, status, queued, toDelete, touched>>

\* What purge lists: the objects of the types it is told that no builder was for.
Purgeable == {id \in Existing \ call.visited : id.kind \in TypesToPurge(toDelete)}

StartPurge ==
    /\ At("build") /\ call.todo = {}
    /\ IF call.failed THEN Go("failed") ELSE call' = [call EXCEPT !.at = "purge", !.doomed = Purgeable]
    /\ NoFault /\ UNCHANGED <<asked, world, status, queued, toDelete, touched>>

\* A type that cannot be listed is passed over without an error.
StartPurgePassesOver ==
    /\ At("build") /\ call.todo = {} /\ ~call.failed /\ Loses(toDelete)
    /\ \E kind \in TypesToPurge(toDelete) :
          call' = [call EXCEPT !.at = "purge", !.doomed = {id \in Purgeable : id.kind # kind}]
    /\ UNCHANGED <<asked, world, status, queued, toDelete, touched>>

Purge ==
    /\ At("purge")
    /\ \E id \in FirstRemoved(call.doomed) :
          /\ cluster' = [cluster EXCEPT ![id] = "no"]
          /\ call' = [call EXCEPT !.doomed = @ \ {id}]
    /\ NoFault /\ UNCHANGED <<asked, listed, pods, status, queued, toDelete, touched>>

PurgeFails ==
    /\ At("purge") /\ Loses(toDelete)
    /\ \E id \in FirstRemoved(call.doomed) :
          call' = [call EXCEPT !.doomed = @ \ {id}, !.failed = TRUE]
    /\ UNCHANGED <<asked, world, status, queued, toDelete, touched>>

-----------------------------------------------------------------------------
(* The rest of HelmReconciler.Reconcile *)

EndPurge ==
    /\ At("purge") /\ call.doomed = {}
    /\ Go(IF call.failed THEN "failed" ELSE IF call.copy.enabled THEN "report" ELSE "sweep")
    /\ NoFault /\ UNCHANGED <<asked, world, status, queued, toDelete, touched>>

\* The pods that removed jobs leave behind.
Sweep ==
    /\ At("sweep")
    /\ pods' = FALSE /\ Go("report")
    /\ NoFault /\ UNCHANGED <<asked, cluster, listed, status, queued, toDelete, touched>>

SweepFails ==
    /\ At("sweep") /\ Fault /\ Go("failed")
    /\ UNCHANGED <<asked, world, status, queued, toDelete, touched>>

\* Mutant: a failed call is not repeated.
FailedBug == /\ At("failed") /\ UpdateStatus("Failed") /\ Return(FALSE)
             /\ UNCHANGED <<asked, world, toDelete, touched>>

\* The error is returned whether or not the status could be written.
Failed ==
    /\ At("failed")
    /\ UpdateStatus("Failed") \/ StatusLost
    /\ Return(TRUE)
    /\ UNCHANGED <<asked, world, toDelete, touched>>

Outcome == IF call.copy.skipped THEN "Unmanaged" ELSE IF call.copy.enabled THEN "Available" ELSE "Removed"

\* No error: this is the outcome even if the result asks for another call.
Report ==
    /\ At("report")
    /\ \/ UpdateStatus(Outcome) /\ Return(call.again)
       \/ StatusLost /\ Return(TRUE)
    /\ UNCHANGED <<asked, world, toDelete, touched>>

\* The operator stops, and calls again when it is back.
Crash ==
    /\ ~At("idle")
    /\ Loses(IF At("build") \/ At("purge") THEN Untracked ELSE {})
    /\ Return(TRUE)
    /\ toDelete' = {}
    /\ UNCHANGED <<asked, world, status, touched>>

Progress == Skip \/ Announce \/ PreChecks \/ GetResourceBuilders \/ Build \/ StartPurge \/ Purge
            \/ EndPurge \/ Sweep \/ Failed \/ Report

Failure == ReleaseDataFails \/ InventoryForgotten \/ GetResourceBuildersFails \/ Postponed \/ BuildFails
           \/ StartPurgePassesOver \/ PurgeFails \/ SweepFails \/ Crash

-----------------------------------------------------------------------------
(* Everybody else. *)

ChangeOwner ==
    /\ changes < MaxChanges /\ changes' = changes + 1
    /\ owner' \in Settings \ {owner} /\ (owner.leaving => owner'.leaving)
    /\ queued' = TRUE
    /\ UNCHANGED <<manageNamespace, ready, world, status, call, toDelete, external, faults, touched, lost>>

\* Users edit or delete the chart's objects; the inventory and the namespace are left alone.
Touch ==
    /\ external < MaxExternal /\ external' = external + 1
    /\ \E id \in Existing \cap ChartObjects :
          /\ \E new \in {"edited", "no"} : cluster' = [cluster EXCEPT ![id] = new]
          /\ touched' = touched \cup {id}
    /\ UNCHANGED <<asked, listed, pods, status, call, queued, toDelete, changes, faults, lost>>

\* The preconditions may be met late, or cease to be.
Unready ==
    /\ external < MaxExternal /\ external' = external + 1
    /\ ready' \in {"notyet", "never"}
    /\ UNCHANGED <<manageNamespace, owner, world, status, call, queued, toDelete, changes, faults, touched, lost>>

BecomeReady ==
    /\ ready # "yes" /\ ready' = "yes"
    /\ UNCHANGED <<manageNamespace, owner, world, status, call, queued, toDelete, budget, touched, lost>>

JobRuns ==
    /\ \E id \in Existing : id.kind = "Job"
    /\ ~pods /\ pods' = TRUE
    /\ UNCHANGED <<asked, cluster, listed, status, call, queued, toDelete, budget, touched, lost>>

Resync ==
    /\ At("idle") /\ ~queued /\ queued' = TRUE
    /\ UNCHANGED <<asked, world, status, call, toDelete, budget, touched, lost>>

Init ==
    /\ manageNamespace \in BOOLEAN
    /\ owner \in Settings
    /\ status = "none"
    /\ cluster = [id \in Ids |-> "no"] /\ listed = {} /\ pods = FALSE
    /\ ready = "yes"
    /\ call = Idle /\ queued = TRUE /\ toDelete = {}
    /\ changes = 0 /\ external = 0 /\ faults = 0
    /\ touched = {} /\ lost = {}

Next == Begin \/ Progress \/ Failure
        \/ ChangeOwner \/ Touch \/ Unready \/ BecomeReady \/ JobRuns \/ Resync

Spec == Init /\ [][Next]_vars

\* The controller works off its queue, resyncs bring every owner back, preconditions are met at last.
Fairness == WF_vars(Begin) /\ WF_vars(Progress) /\ WF_vars(Resync) /\ WF_vars(BecomeReady)

FairSpec == Spec /\ Fairness

-----------------------------------------------------------------------------
(* Correctness *)

\* Every variable has its type; in particular, no namespace or CRD is ever marked for deletion.
TypeOK ==
    /\ manageNamespace \in BOOLEAN /\ owner \in Settings
    /\ status \in {"none", "Unmanaged", "Reconciling", "Failed", "Available", "Removed"}
    /\ cluster \in [Ids -> {"no", "current", "edited"}]
    /\ listed \subseteq ChartObjects \cup {Space} /\ pods \in BOOLEAN
    /\ ready \in {"yes", "notyet", "never"}
    /\ call \in Call \cup {Idle} /\ queued \in BOOLEAN
    /\ toDelete \subseteq {id \in ChartObjects : id.kind \notin NeverDeleted}
    /\ changes \in 0 .. MaxChanges /\ external \in 0 .. MaxExternal /\ faults \in 0 .. MaxFaults
    /\ touched \subseteq ChartObjects /\ lost \subseteq Ids

\* What the owner's settings ask of an object of the chart: the nearest of override, annotation, chart.
Asked(s, id) ==
    IF id \notin s.chart \/ ~s.enabled THEN "Absent"
    ELSE IF id \in DOMAIN s.byKey THEN s.byKey[id]
    ELSE IF id.kind \in DOMAIN s.byKind THEN s.byKind[id.kind]
    ELSE IF id \in Annotated THEN "Created" ELSE "Present"

\* The object is as asked for, or what is left of it is not the reconciler's to remove.
InPlace(id) ==
    CASE Asked(owner, id) = "Present" -> cluster[id] = "current"
      [] Asked(owner, id) = "Created" -> cluster[id] # "no"
      [] OTHER -> cluster[id] = "no" \/ id \in lost
                  \/ (id.kind \in NeverDeleted /\ (id \in owner.chart => ~owner.enabled))

NoPodsLeft == pods => owner.enabled \/ \E id \in lost \cup touched : id.kind = "Job"

StatusRight == status = IF owner.skipped THEN "Unmanaged"
                        ELSE IF owner.enabled THEN "Available" ELSE "Removed"

\* When nothing calls Reconcile again, the status says what the owner asks for and every object, but
\* those that users touched since, is as the status says: no error, lost status, crash or postponed
\* operation ends in silence (HelmReconciler.Reconcile, its returned errors and results).
Truthful == At("idle") /\ ~queued =>
                /\ StatusRight
                /\ ~owner.skipped => NoPodsLeft /\ \A id \in ChartObjects \ touched : InPlace(id)

\* A user's edit of an object that is to be created only, by its annotation or the nearest override,
\* is never undone (setDesiredStateOverrides, and the annotation in NativeReconciler).
EditsKept == [][\A id \in ChartObjects :
                   cluster[id] = "edited" /\ cluster'[id] = "current"
                       => Asked(call.copy, id) = "Present"]_vars

\* What must be there before an object is of use: its namespace and, for kinds that are not built
\* in, its definition; what a job mounts.
Needs(id, o) == \/ o = Space
                \/ o.kind = "CustomResourceDefinition" /\ id.kind = "Custom"
                \/ o.kind \in {"ConfigMap", "Secret"} /\ id.kind = "Job"

\* Within a call, an object is created after, and removed before, the objects it needs (Sort with
\* InstallResourceOrder and UninstallResourceOrder).
Ordered == [][\A id, o \in ChartObjects \cup {Space} :
                 id # o /\ Needs(id, o) /\ call' # call =>
                    /\ At("build") /\ cluster[id] = "no" /\ cluster'[id] # "no" => o \notin call.todo
                    /\ At("purge") /\ cluster[o] # "no" /\ cluster'[o] = "no" => id \notin call.doomed]_vars

\* Once the owner has made up its mind and users leave the objects alone, every call ends with the
\* right status and the objects in place.
Delivers == <>[](At("idle") => /\ StatusRight
                               /\ ~owner.skipped => \A id \in ChartObjects : InPlace(id))
=============================================================================
