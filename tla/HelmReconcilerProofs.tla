-------------------------- MODULE HelmReconcilerProofs --------------------------
(***************************************************************************)
(* Proofs about HelmReconciler: types, the order of installation and       *)
(* removal, edits of objects that are only to be created, and, layer by    *)
(* layer, that the status tells the truth: what was visited is in place    *)
(* (Worked), what exists beside it is marked, listed or lost (Tracking),   *)
(* the inventory is written for all that is wanted (Inventoried), and the  *)
(* call works on what its owner asks for now (UpToDate).                   *)
(***************************************************************************)
EXTENDS HelmReconciler, TLAPS, WellFoundedInduction

\* What a call is made of, while there is one.
LEMMA CallType == ASSUME TypeOK, ~At("idle") PROVE call \in Call
  BY DEF TypeOK, At, Idle

\* A call that goes on is still a call.
LEMMA GoType ==
  ASSUME call \in Call,
         NEW step \in {"skip", "announce", "check", "release", "build", "purge", "sweep", "failed", "report"}
  PROVE  [call EXCEPT !.at = step] \in Call
  BY DEF Call

\* No namespace and no definition is ever marked for deletion.
LEMMA DeletableType ==
  ASSUME TypeOK
  PROVE  Deletable \subseteq {id \in ChartObjects : id.kind \notin NeverDeleted}
  BY ObjectsAssumption DEF TypeOK, Deletable, PrepareDeletableObjects, NeverDeleted, Recorded

LEMMA WantedType == ASSUME call \in Call PROVE Wanted \subseteq ChartObjects \cup {Space} /\ Desired = Wanted
  <1>1. Wanted \subseteq ChartObjects \cup {Space} BY SettingsAssumption DEF Wanted, Call
  <1>2. Desired = Wanted
    <2> DEFINE want == [id \in Wanted |-> IF id = Space THEN "Created" ELSE "Present"]
    <2>1. DOMAIN want = Wanted /\ \A id \in Wanted : want[id] # "Absent" OBVIOUS
    <2> QED BY <2>1 DEF Desired, PrepareDesiredObjects
  <1> QED BY <1>1, <1>2

\* What is left of an object that was reconciled is one of the three.
LEMMA ReconcileType ==
  ASSUME TypeOK, NEW id \in Ids
  PROVE  ReconcileResource(id) \in {"no", "current", "edited"}
  BY DEF ReconcileResource, TypeOK

LEMMA NextBuildersType == NextBuilders \subseteq call.todo
  BY DEF NextBuilders, FirstInstalled

\* What a step with one more failure, or none, does to the counters and to what is lost.
LEMMA FaultType ==
  ASSUME TypeOK, \/ NoFault
                 \/ Fault
                 \/ \E ids \in SUBSET Ids : Loses(ids)
  PROVE  changes' \in 0 .. MaxChanges /\ external' \in 0 .. MaxExternal /\ faults' \in 0 .. MaxFaults
         /\ lost' \subseteq Ids
  BY BoundsAssumption DEF TypeOK, NoFault, Fault, Loses, Fails, budget

\* What the operator does to the counters.
LEMMA StepFaults ==
  ASSUME TypeOK, Begin \/ Progress \/ Failure
  PROVE  NoFault \/ Fault \/ \E ids \in SUBSET Ids : Loses(ids)
  <1> USE DEF UpdateStatus, StatusLost
  <1>0. listed \subseteq Ids /\ toDelete \subseteq Ids BY DEF TypeOK, Ids
  <1>1. CASE Begin BY <1>1 DEF Begin
  <1>2. ASSUME ~At("idle") PROVE call \in Call /\ call.visited \subseteq Ids /\ Wanted \subseteq Ids
    <2>1. call \in Call BY <1>2, CallType
    <2> QED BY <2>1, WantedType DEF Call, Ids
  <1>3. CASE Progress BY <1>3 DEF Progress, Skip, Announce, PreChecks, GetResourceBuilders, Build,
          StartPurge, Purge, EndPurge, Sweep, Failed, Report
  <1>4. CASE Failure
    <2>1. ~At("idle") BY <1>4 DEF Failure, ReleaseDataFails, InventoryForgotten, GetResourceBuildersFails,
            Postponed, BuildFails, StartPurgePassesOver, PurgeFails, SweepFails, Crash, At
    <2>2. Untracked \subseteq Ids BY <1>0, <1>2, <2>1 DEF Untracked
    <2> QED BY <1>0, <1>2, <1>4, <2>1, <2>2 DEF Failure, ReleaseDataFails, InventoryForgotten,
          GetResourceBuildersFails, Postponed, BuildFails, StartPurgePassesOver, PurgeFails, SweepFails, Crash
  <1> QED BY <1>1, <1>3, <1>4

LEMMA Typing == TypeOK /\ [Next]_vars => TypeOK'
  <1> SUFFICES ASSUME TypeOK, [Next]_vars PROVE TypeOK' OBVIOUS
  <1>1. CASE UNCHANGED vars BY <1>1 DEF TypeOK, vars
  <1>2. CASE Begin \/ Progress \/ Failure
    <2>1. changes' \in 0 .. MaxChanges /\ external' \in 0 .. MaxExternal /\ faults' \in 0 .. MaxFaults
          /\ lost' \subseteq Ids
      BY <1>2, FaultType, StepFaults
    <2>2. UNCHANGED asked
      BY <1>2 DEF Begin, Progress, Failure, Skip, Announce, PreChecks, GetResourceBuilders, Build,
         StartPurge, Purge, EndPurge, Sweep, Failed, Report, ReleaseDataFails, InventoryForgotten,
         GetResourceBuildersFails, Postponed, BuildFails, StartPurgePassesOver, PurgeFails, SweepFails, Crash
    <2>3. touched' \subseteq ChartObjects /\ pods' \in BOOLEAN /\ queued' \in BOOLEAN
      BY <1>2 DEF TypeOK, Begin, Progress, Failure, Skip, Announce, PreChecks, GetResourceBuilders, Build,
         StartPurge, Purge, EndPurge, Sweep, Failed, Report, ReleaseDataFails, InventoryForgotten, Return, world,
         GetResourceBuildersFails, Postponed, BuildFails, StartPurgePassesOver, PurgeFails, SweepFails, Crash
    <2>4. status' \in {"none", "Unmanaged", "Reconciling", "Failed", "Available", "Removed"}
      BY <1>2 DEF TypeOK, Begin, Progress, Failure, Skip, Announce, PreChecks, GetResourceBuilders, Build,
         StartPurge, Purge, EndPurge, Sweep, Failed, Report, ReleaseDataFails, InventoryForgotten, UpdateStatus,
         StatusLost, Outcome,
         GetResourceBuildersFails, Postponed, BuildFails, StartPurgePassesOver, PurgeFails, SweepFails, Crash
    <2>5. toDelete' \subseteq {id \in ChartObjects : id.kind \notin NeverDeleted}
      BY <1>2, DeletableType DEF TypeOK, Begin, Progress, Failure, Skip, Announce, PreChecks,
         GetResourceBuilders, Build,
         StartPurge, Purge, EndPurge, Sweep, Failed, Report, ReleaseDataFails, InventoryForgotten,
         GetResourceBuildersFails, Postponed, BuildFails, StartPurgePassesOver, PurgeFails, SweepFails, Crash
    <2>6. ASSUME ~At("idle")
          PROVE  /\ call \in Call /\ Desired \subseteq ChartObjects \cup {Space}
                 /\ Wanted \cup {Record} \subseteq Ids
      <3>1. call \in Call BY <2>6, CallType
      <3> QED BY <3>1, WantedType DEF Ids
    <2>7. cluster' \in [Ids -> {"no", "current", "edited"}] /\ listed' \subseteq ChartObjects \cup {Space}
      <3>1. CASE UNCHANGED <<cluster, listed>> BY <3>1 DEF TypeOK
      <3>2. CASE Build
        <4>1. ~At("idle") BY <3>2 DEF Build, At
        <4>2. PICK id \in NextBuilders : /\ cluster' = [cluster EXCEPT ![id] = ReconcileResource(id)]
                                         /\ listed' \in {Desired, listed}
          BY <3>2 DEF Build
        <4>3. id \in Ids BY <2>6, <4>1, NextBuildersType DEF Call
        <4> QED BY <2>6, <4>1, <4>2, <4>3, ReconcileType DEF TypeOK
      <3>3. CASE Postponed BY <3>3 DEF Postponed, TypeOK
      <3>4. CASE Purge BY <3>4 DEF Purge, TypeOK
      <3> QED
        BY <1>2, <3>1, <3>2, <3>3, <3>4 DEF Begin, Progress, Failure, Skip, Announce, PreChecks,
           GetResourceBuilders, StartPurge, EndPurge, Sweep, Failed, Report, ReleaseDataFails, world,
           InventoryForgotten, GetResourceBuildersFails, BuildFails, StartPurgePassesOver, PurgeFails,
           SweepFails, Crash
    <2>8. call' \in Call \cup {Idle}
      <3>1. CASE Begin BY <3>1 DEF Begin, Call, TypeOK
      <3>2. CASE Progress \/ Failure
        <4>0. ~At("idle") BY <3>2 DEF Progress, Failure, Skip, Announce, PreChecks, GetResourceBuilders,
           Build, StartPurge, Purge, EndPurge, Sweep, Failed, Report, ReleaseDataFails, InventoryForgotten,
           GetResourceBuildersFails, Postponed, BuildFails, StartPurgePassesOver, PurgeFails, SweepFails,
           Crash, At
        <4>1. call \in Call /\ Wanted \cup {Record} \subseteq Ids BY <2>6, <4>0
        <4>2. CASE Skip \/ Failed \/ Report \/ ReleaseDataFails \/ Crash
          BY <4>2 DEF Skip, Failed, Report, ReleaseDataFails, Crash, Return
        <4>3. CASE PreChecks BY <4>1, <4>3, GoType DEF PreChecks, Return, Go
        <4>4. CASE Announce
          <5>1. CASE Go(IF call.copy.enabled THEN "check" ELSE "release") BY <4>1, <5>1, GoType DEF Go
          <5>2. ASSUME NEW copy \in {call.copy, owner},
                       call' = [call EXCEPT !.copy = copy, !.at = IF copy.enabled THEN "check" ELSE "release"]
                PROVE  call' \in Call
            <6>1. copy \in Settings BY <4>1 DEF Call, TypeOK
            <6> QED BY <4>1, <5>2, <6>1 DEF Call
          <5> QED BY <4>4, <5>1, <5>2 DEF Announce
        <4>5. CASE GetResourceBuilders \/ InventoryForgotten
          <5>1. ASSUME NEW todo \in SUBSET Ids PROVE [call EXCEPT !.at = "build", !.todo = todo] \in Call
            BY <4>1 DEF Call
          <5> QED BY <4>1, <4>5, <5>1, ZenonT(60) DEF GetResourceBuilders, InventoryForgotten
        <4>6. CASE GetResourceBuildersFails \/ EndPurge \/ Sweep \/ SweepFails
          BY <4>1, <4>6, GoType DEF GetResourceBuildersFails, EndPurge, Sweep, SweepFails, Go
        <4>7. CASE Build \/ Postponed \/ BuildFails
          <5>1. NextBuilders \subseteq Ids BY <4>1, NextBuildersType DEF Call
          <5>2. ASSUME NEW id \in Ids PROVE Built(id) \in Call /\ [Built(id) EXCEPT !.again = TRUE] \in Call
                  /\ [call EXCEPT !.todo = @ \ {id}, !.failed = TRUE] \in Call
            BY <4>1 DEF Call, Built
          <5> QED BY <4>7, <5>1, <5>2 DEF Build, Postponed, BuildFails
        <4>8. CASE StartPurge \/ StartPurgePassesOver
          <5>1. Purgeable \subseteq Ids BY DEF Purgeable, Existing
          <5>2. ASSUME NEW ids \in SUBSET Ids PROVE [call EXCEPT !.at = "purge", !.doomed = ids] \in Call
            BY <4>1 DEF Call
          <5>3. CASE StartPurge BY <4>1, <5>1, <5>2, <5>3, GoType DEF StartPurge, Go
          <5>4. CASE StartPurgePassesOver
            <6>1. PICK kind \in TypesToPurge(toDelete) :
                     call' = [call EXCEPT !.at = "purge", !.doomed = {id \in Purgeable : id.kind # kind}]
              BY <5>4 DEF StartPurgePassesOver
            <6> QED BY <5>1, <5>2, <6>1
          <5> QED BY <4>8, <5>3, <5>4
        <4>9. CASE Purge \/ PurgeFails
          <5>1. PICK id \in Ids : \/ call' = [call EXCEPT !.doomed = @ \ {id}]
                                \/ call' = [call EXCEPT !.doomed = @ \ {id}, !.failed = TRUE]
            BY <4>1, <4>9 DEF Purge, PurgeFails, FirstRemoved, Call
          <5>2. [call EXCEPT !.doomed = @ \ {id}] \in Call BY <4>1 DEF Call
          <5>3. [call EXCEPT !.doomed = @ \ {id}, !.failed = TRUE] \in Call BY <4>1 DEF Call
          <5> QED BY <5>1, <5>2, <5>3
        <4> QED BY <3>2, <4>2, <4>3, <4>4, <4>5, <4>6, <4>7, <4>8, <4>9 DEF Progress, Failure
      <3> QED BY <1>2, <3>1, <3>2
    <2> QED BY <2>1, <2>2, <2>3, <2>4, <2>5, <2>7, <2>8 DEF TypeOK, asked
  <1>3. CASE ChangeOwner \/ Unready \/ BecomeReady \/ JobRuns \/ Resync
    <2>1. changes' \in 0 .. MaxChanges /\ external' \in 0 .. MaxExternal /\ faults' \in 0 .. MaxFaults
      BY <1>3, BoundsAssumption DEF ChangeOwner, Unready, BecomeReady, JobRuns, Resync, TypeOK, budget
    <2>2. UNCHANGED <<manageNamespace, status, cluster, listed, call, toDelete, touched, lost>>
      BY <1>3 DEF ChangeOwner, Unready, BecomeReady, JobRuns, Resync, asked, world
    <2>3. owner' \in Settings /\ pods' \in BOOLEAN /\ queued' \in BOOLEAN /\ ready' \in {"yes", "notyet", "never"}
      BY <1>3 DEF ChangeOwner, Unready, BecomeReady, JobRuns, Resync, TypeOK, asked, world
    <2> QED BY <2>1, <2>2, <2>3 DEF TypeOK
  <1>4. CASE Touch
    <2>1. cluster' \in [Ids -> {"no", "current", "edited"}] BY <1>4 DEF Touch, TypeOK
    <2>2. touched' \subseteq ChartObjects BY <1>4 DEF Touch, TypeOK
    <2> QED BY <1>4, <2>1, <2>2, BoundsAssumption DEF Touch, TypeOK, asked
  <1> QED BY <1>1, <1>2, <1>3, <1>4 DEF Next

\* Every variable keeps its type; in particular, the inventory marks no namespace and no definition
\* for deletion (PrepareDeletableObjects).
THEOREM TypeCorrect == Spec => []TypeOK
  <1>1. Init => TypeOK
    <2> SUFFICES ASSUME Init PROVE TypeOK OBVIOUS
    <2>1. changes \in 0 .. MaxChanges /\ external \in 0 .. MaxExternal /\ faults \in 0 .. MaxFaults
      BY BoundsAssumption DEF Init
    <2> QED BY <2>1 DEF Init, TypeOK
  <1> QED BY <1>1, Typing, PTL DEF Spec
-----------------------------------------------------------------------------
(* What the states of an object add up to. *)

LEMMA TwoStates ==
  ASSUME NEW b, NEW c
  PROVE  /\ Len(<<b>> \o <<c>>) = 2 /\ (<<b>> \o <<c>>)[2] = c
         /\ <<b>> \o <<>> = <<b>>
  OBVIOUS

\* The state an object of the chart is reconciled with is what the owner's settings ask for: the nearest
\* of override, annotation and chart (setDesiredStateOverrides, ReconcileResource).
LEMMA StateAsked ==
  ASSUME NEW id \in Wanted, id \in ChartObjects
  PROVE  GetDesiredState(StateOf(id)) = Asked(call.copy, id)
  <1>0. call.copy.enabled /\ id \in call.copy.chart /\ id # Record /\ id # Space
    BY ObjectsAssumption DEF Wanted
  <1> DEFINE base == Dynamic("Present")
             states == <<base>> \o Overrides(id)
  <1>1. StateOf(id) = IF id \in Annotated THEN CreateOnly(states) ELSE states BY <1>0 DEF StateOf
  <1>2. base.static = "Present" BY DEF Dynamic, Static
  <1>3. ASSUME NEW x, Overrides(id) = <<Static(x)>> PROVE GetDesiredState(StateOf(id)) = x
    <2>1. states = <<base>> \o <<Static(x)>> BY <1>3
    <2>2. Len(states) = 2 /\ states[2] = Static(x) BY <2>1, TwoStates
    <2>3. StateOf(id) = states BY <1>1, <2>2 DEF CreateOnly
    <2>4. GetDesiredState(states) = Static(x).static BY <2>2 DEF GetDesiredState, Last
    <2> QED BY <2>3, <2>4 DEF Static
  <1>4. CASE Overrides(id) = <<>>
    <2>1. states = <<base>> BY <1>4, TwoStates
    <2>2. GetDesiredState(states) = "Present" BY <1>2, <2>1 DEF GetDesiredState, Last
    <2>3. CreateOnly(states) = <<Static("Created")>> BY <2>1, <2>2 DEF CreateOnly
    <2>4. GetDesiredState(<<Static("Created")>>) = "Created" BY DEF GetDesiredState, Last, Static
    <2>5. id \notin DOMAIN call.copy.byKey /\ id.kind \notin DOMAIN call.copy.byKind
      BY <1>4 DEF Overrides
    <2> QED BY <1>0, <1>1, <2>2, <2>3, <2>4, <2>5 DEF Asked
  <1>5. CASE id \in DOMAIN call.copy.byKey BY <1>0, <1>3, <1>5 DEF Overrides, Asked
  <1>6. CASE id \notin DOMAIN call.copy.byKey /\ id.kind \in DOMAIN call.copy.byKind
    BY <1>0, <1>3, <1>6 DEF Overrides, Asked
  <1> QED BY <1>4, <1>5, <1>6 DEF Overrides

\* The overrides and annotations leave the inventory's ConfigMap alone.  They need not: an override for
\* the kind ConfigMap applies to the inventory as well, and what it then records is out of date.
InventoryKept ==
    /\ Record \notin Annotated
    /\ \A s \in Settings : /\ Record \in DOMAIN s.byKey => s.byKey[Record] = "Present"
                           /\ Record.kind \in DOMAIN s.byKind => s.byKind[Record.kind] = "Present"

LEMMA RecordState ==
  ASSUME InventoryKept, call \in Call
  PROVE  GetDesiredState(StateOf(Record)) = "Present"
  <1>0. call.copy \in Settings BY DEF Call
  <1> DEFINE base == Static("Present")
  <1>1. StateOf(Record) = <<base>> \o Overrides(Record)
    BY ObjectsAssumption DEF StateOf, InventoryKept
  <1>2. Overrides(Record) = <<>> \/ Overrides(Record) = <<Static("Present")>>
    BY <1>0 DEF Overrides, InventoryKept
  <1>3. base.static = "Present" BY DEF Static
  <1>4. CASE Overrides(Record) = <<>>
    <2>1. StateOf(Record) = <<base>> BY <1>1, <1>4, TwoStates
    <2> QED BY <1>3, <2>1 DEF GetDesiredState, Last
  <1>5. CASE Overrides(Record) = <<Static("Present")>>
    <2>1. Len(StateOf(Record)) = 2 /\ StateOf(Record)[2] = base BY <1>1, <1>5, TwoStates
    <2> QED BY <1>3, <2>1 DEF GetDesiredState, Last
  <1> QED BY <1>2, <1>4, <1>5

-----------------------------------------------------------------------------
(* The order within a call. *)

\* Definitions come before everything else, what a job mounts before the job, and in the reverse order
\* when objects are removed.
LEMMA Scores ==
  /\ InstallScore("CustomResourceDefinition") = 0 /\ InstallScore("Custom") = 1000
  /\ InstallScore("Secret") = 5 /\ InstallScore("ConfigMap") = 6 /\ InstallScore("Job") = 27
  /\ UninstallScore("CustomResourceDefinition") = 39 /\ UninstallScore("Custom") = 0
  /\ UninstallScore("Secret") = 27 /\ UninstallScore("ConfigMap") = 26 /\ UninstallScore("Job") = 6
  BY DEF InstallScore, UninstallScore, Score, InstallObjectOrder, UninstallObjectOrder, Range

\* Only builders and purge change objects within a call.
LEMMA WhoWrites ==
  ASSUME [Next]_vars, cluster' # cluster
  PROVE  Build \/ Postponed \/ Purge \/ Touch
  BY DEF Next, vars, Begin, Progress, Failure, Skip, Announce, PreChecks, GetResourceBuilders, StartPurge,
     EndPurge, Sweep, Failed, Report, ReleaseDataFails, world, InventoryForgotten, GetResourceBuildersFails,
     BuildFails, StartPurgePassesOver, PurgeFails, SweepFails, Crash, ChangeOwner, Unready, BecomeReady,
     JobRuns, Resync

\* What a step leaves of what the call knows.
Kept == /\ call'.copy = call.copy /\ call'.visited = call.visited
        /\ call'.failed = call.failed /\ call'.again = call.again

\* Where the steps of a call lead.
LEMMA Moves ==
  ASSUME TypeOK, [Next]_vars
  PROVE  \/ call' = call
         \/ call' = Idle /\ (Skip \/ PreChecks \/ ReleaseDataFails \/ Failed \/ Report \/ Crash)
         \/ call'.at = "failed" /\ call'.copy = call.copy /\ ~At("skip") /\ ~At("idle")
         \/ Begin /\ call'.at \in {"skip", "announce"}
         \/ (Announce \/ PreChecks) /\ call'.at \in {"check", "release"}
         \/ (GetResourceBuilders \/ InventoryForgotten) /\ call'.at = "build" /\ Kept
         \/ (Build \/ Postponed \/ BuildFails) /\ call'.at = "build" /\ call'.copy = call.copy
         \/ (StartPurge \/ StartPurgePassesOver) /\ call'.at = "purge" /\ Kept
         \/ (Purge \/ PurgeFails) /\ call'.at = "purge" /\ call'.copy = call.copy
         \/ EndPurge /\ call'.at \in {"report", "sweep"} /\ Kept
         \/ Sweep /\ call'.at = "report" /\ Kept
  <1>1. ~At("idle") => call \in Call BY CallType
  <1>2. CASE Skip \/ Failed \/ Report \/ ReleaseDataFails \/ Crash
    BY <1>2 DEF Skip, Failed, Report, ReleaseDataFails, Crash, Return
  <1>3. CASE Begin BY <1>3 DEF Begin
  <1>4. CASE Announce \/ PreChecks
    <2>1. call \in Call BY <1>1, <1>4 DEF Announce, PreChecks, At
    <2> QED BY <1>4, <2>1 DEF Announce, PreChecks, Go, Return, Call
  <1>5. CASE GetResourceBuildersFails \/ SweepFails \/ Sweep \/ EndPurge
    <2>1. call \in Call BY <1>1, <1>5 DEF GetResourceBuildersFails, SweepFails, Sweep, EndPurge, At
    <2> QED BY <1>5, <2>1 DEF GetResourceBuildersFails, SweepFails, Sweep, EndPurge, Go, Call, Kept, At
  <1>6. CASE GetResourceBuilders \/ InventoryForgotten
    <2>1. call \in Call BY <1>1, <1>6 DEF GetResourceBuilders, InventoryForgotten, At
    <2>2. PICK todo : call' = [call EXCEPT !.at = "build", !.todo = todo]
      BY <1>6 DEF GetResourceBuilders, InventoryForgotten
    <2> QED BY <1>6, <2>1, <2>2 DEF Call, Kept
  <1>7. CASE Build \/ Postponed \/ BuildFails
    <2>1. call \in Call /\ call.at = "build" BY <1>1, <1>7 DEF Build, Postponed, BuildFails, At
    <2> QED BY <1>7, <2>1 DEF Build, Postponed, BuildFails, Built, Call
  <1>8. CASE StartPurge \/ StartPurgePassesOver
    <2>1. call \in Call BY <1>1, <1>8 DEF StartPurge, StartPurgePassesOver, At
    <2> QED BY <1>8, <2>1 DEF StartPurge, StartPurgePassesOver, Go, Call, Kept, At
  <1>9. CASE Purge \/ PurgeFails
    <2>1. call \in Call /\ call.at = "purge" BY <1>1, <1>9 DEF Purge, PurgeFails, At
    <2> QED BY <1>9, <2>1 DEF Purge, PurgeFails, Call
  <1> QED
    BY <1>2, <1>3, <1>4, <1>5, <1>6, <1>7, <1>8, <1>9 DEF Next, vars, Progress, Failure, ChangeOwner, Touch,
       Unready, BecomeReady, JobRuns, Resync

\* Purge never has a namespace on its list.
DoomedTypes == At("purge") => \A id \in call.doomed : id.kind \notin NeverDeleted

LEMMA DoomedTypesCorrect == Spec => []DoomedTypes
  <1>1. Init => DoomedTypes BY DEF Init, DoomedTypes, At, Idle
  <1>2. TypeOK /\ DoomedTypes /\ [Next]_vars => DoomedTypes'
    <2> SUFFICES ASSUME TypeOK, DoomedTypes, [Next]_vars, At("purge")' PROVE DoomedTypes' BY DEF DoomedTypes
    <2>1. CASE call' = call BY <2>1 DEF DoomedTypes, At
    <2>2. CASE StartPurge \/ StartPurgePassesOver
      <3>1. \A id \in Purgeable : id.kind \notin NeverDeleted BY DEF Purgeable, TypesToPurge
      <3>2. call \in Call BY <2>2, CallType DEF StartPurge, StartPurgePassesOver, At
      <3>3. call'.doomed \subseteq Purgeable
        BY <2>2, <3>2, ZenonT(60) DEF StartPurge, StartPurgePassesOver, Go, At, Call
      <3> QED BY <3>1, <3>3 DEF DoomedTypes
    <2>3. CASE Purge \/ PurgeFails
      <3>1. At("purge") /\ call \in Call BY <2>3, CallType DEF Purge, PurgeFails, At
      <3>2. PICK id : \/ call' = [call EXCEPT !.doomed = @ \ {id}]
                      \/ call' = [call EXCEPT !.doomed = @ \ {id}, !.failed = TRUE]
        BY <2>3 DEF Purge, PurgeFails
      <3>3. call'.doomed = call.doomed \ {id} BY <3>1, <3>2 DEF Call
      <3> QED BY <3>1, <3>3 DEF DoomedTypes
    <2>4. CASE call'.at # "purge" BY <2>4 DEF At
    <2>5. CASE call' = Idle BY <2>4, <2>5 DEF Idle
    <2> QED BY <2>1, <2>2, <2>3, <2>4, <2>5, Moves
  <1> QED BY <1>1, <1>2, TypeCorrect, PTL DEF Spec

\* Within a call, an object is created after, and removed before, the objects it needs (Sort with
\* InstallResourceOrder and UninstallResourceOrder).
THEOREM OrderedCorrect == Spec => Ordered
  <1> DEFINE A(id, o) ==
        id # o /\ Needs(id, o) /\ call' # call =>
           /\ At("build") /\ cluster[id] = "no" /\ cluster'[id] # "no" => o \notin call.todo
           /\ At("purge") /\ cluster[o] # "no" /\ cluster'[o] = "no" => id \notin call.doomed
  <1>1. TypeOK /\ DoomedTypes /\ [Next]_vars => \A id, o \in ChartObjects \cup {Space} : A(id, o)
    <2> SUFFICES ASSUME TypeOK, DoomedTypes, [Next]_vars, NEW id \in ChartObjects \cup {Space},
                        NEW o \in ChartObjects \cup {Space}, id # o, Needs(id, o), call' # call
                 PROVE  A(id, o)
      OBVIOUS
    <2>0. id \in Ids /\ o \in Ids /\ o # Record /\ id # Record
          /\ Space.kind = "Namespace" /\ id # Space
      BY ObjectsAssumption DEF Ids, Needs
    <2>1. ASSUME At("build"), cluster[id] = "no", cluster'[id] # "no", o \in call.todo PROVE FALSE
      <3>1. Build BY <2>0, <2>1, WhoWrites DEF Postponed, Purge, Touch, At, TypeOK
      <3>2. id \in NextBuilders BY <2>0, <2>1, <3>1 DEF Build, TypeOK
      <3>3. o # Space BY <2>0, <2>1, <3>2 DEF NextBuilders
      <3>4. id \in FirstInstalled(call.todo \ {Record}) BY <2>0, <2>1, <3>2, <3>3 DEF NextBuilders
      <3>5. InstallScore(id.kind) <= InstallScore(o.kind) BY <2>0, <2>1, <3>4 DEF FirstInstalled
      <3> QED BY <3>3, <3>5, Scores DEF Needs
    <2>2. ASSUME At("purge"), cluster[o] # "no", cluster'[o] = "no", id \in call.doomed PROVE FALSE
      <3>1. Purge BY <2>0, <2>2, WhoWrites DEF Postponed, Build, Touch, At, TypeOK
      <3>2. o \in FirstRemoved(call.doomed) BY <2>0, <2>2, <3>1 DEF Purge, TypeOK
      <3>3. o # Space BY <2>0, <2>2, <3>2 DEF FirstRemoved, DoomedTypes, NeverDeleted
      <3>4. UninstallScore(o.kind) <= UninstallScore(id.kind) BY <2>2, <3>2 DEF FirstRemoved
      <3> QED BY <3>3, <3>4, Scores DEF Needs
    <2> QED BY <2>1, <2>2
  <1>2. TypeOK /\ DoomedTypes /\ [Next]_vars => [\A id, o \in ChartObjects \cup {Space} : A(id, o)]_vars
    BY <1>1
  <1> QED BY <1>2, TypeCorrect, DoomedTypesCorrect, PTL DEF Spec, Ordered

-----------------------------------------------------------------------------
(* What a call has done so far. *)

Starting == call.at \in {"skip", "announce", "check", "release"}
Working == call.at \in {"build", "purge", "sweep", "report"}

\* A call visits what is wanted, and, unless something fails, all of it before it purges.
Visiting ==
    /\ Starting => call.visited = {} /\ ~call.failed /\ ~call.again
    /\ Working => call.visited \subseteq Wanted \cup {Record}
    /\ At("build") => /\ call.todo \subseteq Wanted \cup {Record}
                      /\ call.failed \/ Wanted \subseteq call.todo \cup call.visited
    /\ At("purge") => /\ call.failed \/ Wanted \subseteq call.visited
                      /\ call.doomed \cap call.visited = {}
    /\ At("sweep") \/ At("report") => ~call.failed /\ Wanted \subseteq call.visited
    /\ At("sweep") => ~call.copy.enabled

\* What is wanted depends on the object the controller passed.
LEMMA SameWanted ==
  ASSUME [Next]_vars, call'.copy = call.copy
  PROVE  Wanted' = Wanted /\ Desired' = Desired
  <1>1. manageNamespace' = manageNamespace
    BY DEF Next, vars, asked, Begin, Progress, Failure, Skip, Announce, PreChecks, GetResourceBuilders, Build,
       StartPurge, Purge, EndPurge, Sweep, Failed, Report, ReleaseDataFails, InventoryForgotten,
       GetResourceBuildersFails, Postponed, BuildFails, StartPurgePassesOver, PurgeFails, SweepFails, Crash,
       ChangeOwner, Touch, Unready, BecomeReady, JobRuns, Resync
  <1>2. Wanted' = Wanted BY <1>1 DEF Wanted
  <1> QED BY <1>2 DEF Desired

\* An object that was reconciled has been visited; one that failed has not.
LEMMA BuildMoves ==
  ASSUME TypeOK, NEW id, call' = Built(id) \/ call' = [Built(id) EXCEPT !.again = TRUE], At("build")
  PROVE  /\ call'.at = "build" /\ call'.copy = call.copy /\ call'.failed = call.failed
         /\ call'.todo = call.todo \ {id} /\ call'.visited = call.visited \cup {id}
         /\ IF call' = Built(id) THEN call'.again = call.again ELSE call'.again
  BY CallType DEF At, Built, Call

LEMMA BuildFailsMoves ==
  ASSUME TypeOK, NEW id, call' = [call EXCEPT !.todo = @ \ {id}, !.failed = TRUE], At("build")
  PROVE  /\ call'.at = "build" /\ call'.copy = call.copy /\ call'.failed /\ call'.again = call.again
         /\ call'.todo = call.todo \ {id} /\ call'.visited = call.visited
  BY CallType DEF At, Call

\* An object that purge removed, or failed to remove, is off its list.
LEMMA PurgeMoves ==
  ASSUME TypeOK, Purge \/ PurgeFails
  PROVE  /\ At("purge") /\ call'.at = "purge" /\ call'.copy = call.copy
         /\ call'.visited = call.visited /\ call'.again = call.again /\ call'.todo = call.todo
         /\ \/ Purge /\ call'.failed = call.failed
            \/ PurgeFails /\ call'.failed
         /\ \E id \in FirstRemoved(call.doomed) : call'.doomed = call.doomed \ {id}
  <1>1. At("purge") /\ call \in Call BY CallType DEF Purge, PurgeFails, At
  <1>2. CASE Purge BY <1>1, <1>2 DEF Purge, At, Call
  <1>3. CASE PurgeFails BY <1>1, <1>3 DEF PurgeFails, At, Call
  <1> QED BY <1>2, <1>3

\* StartPurge lists what no builder was for.
LEMMA StartPurgeMoves ==
  ASSUME TypeOK, StartPurge \/ StartPurgePassesOver, call'.at = "purge"
  PROVE  At("build") /\ call.todo = {} /\ ~call.failed /\ call'.doomed \subseteq Purgeable
  <1>1. At("build") /\ call \in Call BY CallType DEF StartPurge, StartPurgePassesOver, At
  <1> QED BY <1>1 DEF StartPurge, StartPurgePassesOver, Go, At, Call

\* A call that was announced may go on with the object as it is by then.
LEMMA StartMoves ==
  ASSUME TypeOK, Announce \/ PreChecks, call'.at \in {"check", "release"}
  PROVE  /\ call'.copy \in {call.copy, owner} /\ call'.visited = call.visited
         /\ call'.failed = call.failed /\ call'.again = call.again
         /\ PreChecks => call'.copy = call.copy
  <1>0. call \in Call BY CallType DEF Announce, PreChecks, At
  <1>1. CASE PreChecks
    <2>1. call' = Idle \/ call' = [call EXCEPT !.at = "release"] BY <1>1 DEF PreChecks, Return, Go
    <2> QED BY <1>0, <2>1 DEF Idle, Call
  <1>2. CASE Announce
    <2>1. PICK copy \in {call.copy, owner}, step \in {"check", "release"} :
             \/ call' = [call EXCEPT !.copy = copy, !.at = step]
             \/ call' = [call EXCEPT !.at = step]
      BY <1>2 DEF Announce, Go
    <2>2. ~PreChecks BY <1>0, <1>2 DEF Announce, PreChecks, At
    <2> QED BY <1>0, <2>1, <2>2 DEF Call
  <1> QED BY <1>1, <1>2

LEMMA VisitingCorrect == Spec => []Visiting
  <1>1. Init => Visiting BY DEF Init, Visiting, At, Idle, Starting, Working
  <1>2. TypeOK /\ Visiting /\ [Next]_vars => Visiting'
    <2> SUFFICES ASSUME TypeOK, Visiting, [Next]_vars PROVE Visiting' OBVIOUS
    <2> USE DEF At, Starting, Working
    <2>1. CASE call' = call BY <2>1, SameWanted DEF Visiting
    <2>2. CASE call' = Idle \/ call'.at = "failed" BY <2>2 DEF Visiting, Idle
    <2>3. CASE Begin /\ call'.at \in {"skip", "announce"} BY <2>3 DEF Begin, Visiting
    <2>4. CASE (Announce \/ PreChecks) /\ call'.at \in {"check", "release"}
      <3>1. call \in Call /\ Starting BY <2>4, CallType DEF Announce, PreChecks
      <3>2. call'.visited = call.visited /\ call'.failed = call.failed /\ call'.again = call.again
        BY <2>4, StartMoves
      <3> QED BY <2>4, <3>1, <3>2 DEF Visiting
    <2>5. CASE (GetResourceBuilders \/ InventoryForgotten) /\ call'.at = "build" /\ Kept
      <3>1. call \in Call /\ Starting BY <2>5, CallType DEF GetResourceBuilders, InventoryForgotten
      <3>2. Wanted' = Wanted BY <2>5, SameWanted DEF Kept
      <3>3. PICK todo \in {Wanted, Wanted \cup {Record}} : call' = [call EXCEPT !.at = "build", !.todo = todo]
        BY <2>5 DEF GetResourceBuilders, InventoryForgotten
      <3>4. call'.todo = todo BY <3>1, <3>3 DEF Call
      <3> QED BY <2>5, <3>1, <3>2, <3>4 DEF Visiting, Kept
    <2>6. CASE Build \/ Postponed \/ BuildFails
      <3>1. PICK id \in NextBuilders :
               \/ call' = Built(id) \/ call' = [Built(id) EXCEPT !.again = TRUE]
               \/ call' = [call EXCEPT !.todo = @ \ {id}, !.failed = TRUE]
        BY <2>6 DEF Build, Postponed, BuildFails
      <3>2. At("build") /\ id \in call.todo BY <2>6, NextBuildersType DEF Build, Postponed, BuildFails
      <3>3. CASE call' = Built(id) \/ call' = [Built(id) EXCEPT !.again = TRUE]
        <4>1. Wanted' = Wanted BY <3>2, <3>3, BuildMoves, SameWanted
        <4> QED BY <3>2, <3>3, <4>1, BuildMoves DEF Visiting
      <3>4. CASE call' = [call EXCEPT !.todo = @ \ {id}, !.failed = TRUE]
        <4>1. Wanted' = Wanted BY <3>2, <3>4, BuildFailsMoves, SameWanted
        <4> QED BY <3>2, <3>4, <4>1, BuildFailsMoves DEF Visiting
      <3> QED BY <3>1, <3>3, <3>4
    <2>7. CASE (StartPurge \/ StartPurgePassesOver) /\ call'.at = "purge" /\ Kept
      <3>1. Wanted' = Wanted BY <2>7, SameWanted DEF Kept
      <3> QED BY <2>7, <3>1, StartPurgeMoves DEF Visiting, Kept, Purgeable
    <2>8. CASE Purge \/ PurgeFails
      <3>1. Wanted' = Wanted BY <2>8, PurgeMoves, SameWanted
      <3> QED BY <2>8, <3>1, PurgeMoves DEF Visiting
    <2>9. CASE EndPurge /\ call'.at \in {"report", "sweep"} /\ Kept
      <3>1. Wanted' = Wanted BY <2>9, SameWanted DEF Kept
      <3>2. At("purge") /\ call \in Call /\ ~call.failed /\ (call'.at = "sweep" => ~call.copy.enabled)
        BY <2>9, CallType DEF EndPurge, Go, Call
      <3> QED BY <2>9, <3>1, <3>2 DEF Visiting, Kept
    <2>10. CASE Sweep /\ call'.at = "report" /\ Kept
      <3>1. Wanted' = Wanted BY <2>10, SameWanted DEF Kept
      <3> QED BY <2>10, <3>1 DEF Visiting, Kept, Sweep
    <2> QED BY <2>1, <2>2, <2>3, <2>4, <2>5, <2>6, <2>7, <2>8, <2>9, <2>10, Moves
  <1> QED BY <1>1, <1>2, TypeCorrect, PTL DEF Spec

\* A user's edit of an object that is to be created only, by its annotation or the nearest override,
\* is never undone (setDesiredStateOverrides, and the annotation in NativeReconciler).
THEOREM EditsKeptCorrect == Spec => EditsKept
  <1> DEFINE A == \A id \in ChartObjects :
                     cluster[id] = "edited" /\ cluster'[id] = "current" => Asked(call.copy, id) = "Present"
  <1>1. TypeOK /\ Visiting /\ [Next]_vars => A
    <2> SUFFICES ASSUME TypeOK, Visiting, [Next]_vars, NEW id \in ChartObjects,
                        cluster[id] = "edited", cluster'[id] = "current"
                 PROVE  Asked(call.copy, id) = "Present"
      OBVIOUS
    <2>0. id \in Ids /\ id # Record BY ObjectsAssumption DEF Ids
    <2>1. Build BY <2>0, WhoWrites DEF Postponed, Purge, Touch, TypeOK
    <2>2. id \in NextBuilders /\ ReconcileResource(id) = "current" BY <2>0, <2>1 DEF Build, TypeOK
    <2>3. id \in Wanted BY <2>0, <2>1, <2>2, NextBuildersType DEF Visiting, Build
    <2>4. GetDesiredState(StateOf(id)) = "Present" BY <2>2 DEF ReconcileResource
    <2> QED BY <2>3, <2>4, StateAsked
  <1>2. TypeOK /\ Visiting /\ [Next]_vars => [A]_vars BY <1>1
  <1> QED BY <1>2, TypeCorrect, VisitingCorrect, PTL DEF Spec, EditsKept

-----------------------------------------------------------------------------
(* What the owner asks for and the call under way. *)

\* As long as nobody asked for another call, the one under way knows what the owner asks for.
UpToDate == ~queued /\ ~At("idle") => call.copy = owner /\ (At("skip") <=> owner.skipped)

\* A change of what the owner asks for queues another call; only the start of a call takes it off.
LEMMA Queued ==
  ASSUME TypeOK, [Next]_vars, ~queued'
  PROVE  Begin \/ (~queued /\ owner' = owner)
  BY DEF Next, vars, asked, Begin, Progress, Failure, Skip, Announce, PreChecks, GetResourceBuilders, Build,
     StartPurge, Purge, EndPurge, Sweep, Failed, Report, ReleaseDataFails, InventoryForgotten, Return, TypeOK,
     GetResourceBuildersFails, Postponed, BuildFails, StartPurgePassesOver, PurgeFails, SweepFails, Crash,
     ChangeOwner, Touch, Unready, BecomeReady, JobRuns, Resync

LEMMA UpToDateCorrect == Spec => []UpToDate
  <1>1. Init => UpToDate BY DEF Init, UpToDate, At, Idle
  <1>2. TypeOK /\ UpToDate /\ [Next]_vars => UpToDate'
    <2> SUFFICES ASSUME TypeOK, UpToDate, [Next]_vars, ~queued', ~At("idle")'
                 PROVE  call'.copy = owner' /\ (At("skip")' <=> owner'.skipped)
      BY DEF UpToDate
    <2> USE DEF At
    <2>1. CASE Begin
      <3>1. call'.copy = owner /\ call'.at = (IF owner.skipped THEN "skip" ELSE "announce") /\ owner' = owner
        BY <2>1 DEF Begin, asked
      <3> QED BY <3>1
    <2>2. CASE ~Begin
      <3>0. ~queued /\ owner' = owner BY <2>2, Queued
      <3>1. CASE call' = call BY <3>0, <3>1 DEF UpToDate
      <3>2. CASE call' = Idle BY <3>2 DEF Idle
      <3>3. CASE (Announce \/ PreChecks) /\ call'.at \in {"check", "release"}
        <4>1. call.at \in {"announce", "check"} BY <3>3 DEF Announce, PreChecks
        <4> QED BY <3>0, <3>3, <4>1, StartMoves DEF UpToDate
      <3>4. CASE ~At("skip") /\ ~At("idle") /\ call'.at # "skip" /\ call'.copy = call.copy
        BY <3>0, <3>4 DEF UpToDate
      <3>5. GetResourceBuilders \/ InventoryForgotten \/ Build \/ Postponed \/ BuildFails \/ StartPurge
            \/ StartPurgePassesOver \/ Purge \/ PurgeFails \/ EndPurge \/ Sweep
              => ~At("skip") /\ ~At("idle")
        BY DEF GetResourceBuilders, InventoryForgotten, Build, Postponed, BuildFails, StartPurge,
               StartPurgePassesOver, Purge, PurgeFails, EndPurge, Sweep
      <3> QED BY <2>2, <3>1, <3>2, <3>3, <3>4, <3>5, Moves DEF Kept
    <2> QED BY <2>1, <2>2
  <1> QED BY <1>1, <1>2, TypeCorrect, PTL DEF Spec

-----------------------------------------------------------------------------
(* The inventory and what becomes of the objects of a chart. *)

\* A component whose owner is being deleted is not enabled.  The code leaves that to the component: the
\* objects it installs while its owner is being deleted are in no inventory.
Departing == \A s \in Settings : s.leaving => ~s.enabled

\* The inventory's ConfigMap is written last and for everything that is wanted, unless the inventory
\* failed; a failed call has lost sight of what it was to remove.
Inventoried ==
    /\ At("build") =>
          /\ \/ Record \in call.todo \cup call.visited
             \/ Wanted \cap ChartObjects \subseteq lost
             \/ call.failed /\ call.todo = {}
          /\ Record \in call.visited => call.todo = {}
    /\ At("purge") => Record \in call.visited \/ call.visited \cap ChartObjects \subseteq lost
    /\ At("build") \/ At("purge") =>
          /\ toDelete \cap Wanted \subseteq lost
          /\ call.failed => toDelete \subseteq lost

\* What is lost stays lost.
LEMMA LostStays == ASSUME [Next]_vars PROVE lost \subseteq lost'
  BY DEF Next, vars, Begin, Progress, Failure, Skip, Announce, PreChecks, GetResourceBuilders, Build,
     StartPurge, Purge, EndPurge, Sweep, Failed, Report, ReleaseDataFails, InventoryForgotten, Loses, Fault,
     GetResourceBuildersFails, Postponed, BuildFails, StartPurgePassesOver, PurgeFails, SweepFails, Crash,
     ChangeOwner, Touch, Unready, BecomeReady, JobRuns, Resync, NoFault, UpdateStatus, StatusLost

\* Only when builders are made, or with the process, the inventory's data changes.
LEMMA ToDeleteKept == ASSUME TypeOK, [Next]_vars, call' = call PROVE toDelete' = toDelete
  <1>1. toDelete' = toDelete \/ GetResourceBuilders \/ Crash
    BY DEF Next, vars, Begin, Progress, Failure, Skip, Announce, PreChecks, GetResourceBuilders, Build,
       StartPurge, Purge, EndPurge, Sweep, Failed, Report, ReleaseDataFails, InventoryForgotten, Return,
       GetResourceBuildersFails, Postponed, BuildFails, StartPurgePassesOver, PurgeFails, SweepFails,
       ChangeOwner, Touch, Unready, BecomeReady, JobRuns, Resync
  <1>2. ~Crash BY DEF Crash, Return, Idle, At
  <1>3. CASE GetResourceBuilders
    <2>1. call \in Call /\ At("release") BY <1>3, CallType DEF GetResourceBuilders, At
    <2>2. PICK todo : call' = [call EXCEPT !.at = "build", !.todo = todo] BY <1>3 DEF GetResourceBuilders
    <2>3. call'.at = "build" BY <2>1, <2>2 DEF Call
    <2> QED BY <2>1, <2>3 DEF At
  <1> QED BY <1>1, <1>2, <1>3

\* The inventory's turn comes when nothing else is left.
LEMMA RecordLast == Record \in NextBuilders => call.todo = {Record}
  BY ObjectsAssumption DEF NextBuilders, FirstInstalled

\* The steps that may forget something do.
LEMMA FailuresLose ==
  ASSUME TypeOK
  PROVE  /\ BuildFails => toDelete \subseteq lost'
         /\ PurgeFails \/ StartPurgePassesOver => toDelete \subseteq lost'
         /\ InventoryForgotten => listed \cup Wanted \subseteq lost'
  BY DEF BuildFails, PurgeFails, StartPurgePassesOver, InventoryForgotten, Loses, Untracked

LEMMA InventoriedCorrect == ASSUME Departing PROVE Spec => []Inventoried
  <1>1. Init => Inventoried BY DEF Init, Inventoried, At, Idle
  <1>2. TypeOK /\ Visiting /\ Inventoried /\ [Next]_vars => Inventoried'
    <2> SUFFICES ASSUME TypeOK, Visiting, Inventoried, [Next]_vars PROVE Inventoried' OBVIOUS
    <2> USE DEF At
    <2>0. lost \subseteq lost' BY LostStays
    <2>1. CASE call' = call /\ toDelete' = toDelete BY <2>0, <2>1, SameWanted DEF Inventoried
    <2>2. CASE call'.at \notin {"build", "purge"} BY <2>2 DEF Inventoried
    <2>3. CASE GetResourceBuilders /\ call'.at = "build" /\ Kept
      <3>0. call \in Call /\ Starting BY <2>3, CallType DEF GetResourceBuilders, Starting
      <3>1. Wanted' = Wanted /\ Desired = Wanted BY <2>3, <3>0, SameWanted, WantedType DEF Kept
      <3>2. toDelete' = Deletable /\ Deletable \cap Desired = {}
        BY <2>3 DEF GetResourceBuilders, Deletable, PrepareDeletableObjects
      <3>3. call'.todo = Wanted \cup (IF call.copy.leaving \/ Desired = {} THEN {} ELSE {Record})
        <4>1. PICK todo : /\ call' = [call EXCEPT !.at = "build", !.todo = todo]
                          /\ todo = Wanted \cup (IF call.copy.leaving \/ Desired = {} THEN {} ELSE {Record})
          BY <2>3 DEF GetResourceBuilders
        <4> QED BY <3>0, <4>1 DEF Call
      <3>4. call.copy.leaving => Wanted \cap ChartObjects = {}
        BY <3>0, ObjectsAssumption DEF Departing, Call, Wanted
      <3>5. call'.visited = {} /\ ~call'.failed BY <2>3, <3>0 DEF Visiting, Kept
      <3> QED BY <2>3, <3>1, <3>2, <3>3, <3>4, <3>5 DEF Inventoried
    <2>4. CASE InventoryForgotten /\ call'.at = "build" /\ Kept
      <3>0. call \in Call /\ Starting BY <2>4, CallType DEF InventoryForgotten, Starting
      <3>1. Wanted' = Wanted BY <2>4, SameWanted DEF Kept
      <3>2. Wanted \subseteq lost' BY FailuresLose, <2>4
      <3>5. call'.visited = {} /\ ~call'.failed BY <2>4, <3>0 DEF Visiting, Kept
      <3> QED BY <2>4, <3>1, <3>2, <3>5 DEF Inventoried
    <2>5. CASE Build \/ Postponed \/ BuildFails
      <3>1. PICK id \in NextBuilders :
               \/ call' = Built(id) \/ call' = [Built(id) EXCEPT !.again = TRUE]
               \/ BuildFails /\ call' = [call EXCEPT !.todo = @ \ {id}, !.failed = TRUE]
        BY <2>5 DEF Build, Postponed, BuildFails
      <3>2. At("build") /\ id \in call.todo BY <2>5, NextBuildersType DEF Build, Postponed, BuildFails
      <3>3. toDelete' = toDelete BY <2>5 DEF Build, Postponed, BuildFails
      <3>4. CASE call' = Built(id) \/ call' = [Built(id) EXCEPT !.again = TRUE]
        <4>1. Wanted' = Wanted BY <3>2, <3>4, BuildMoves, SameWanted
        <4>2. /\ call'.at = "build" /\ call'.failed = call.failed
              /\ call'.todo = call.todo \ {id} /\ call'.visited = call.visited \cup {id}
          BY <3>2, <3>4, BuildMoves
        <4> QED BY <2>0, <3>2, <3>3, <4>1, <4>2, RecordLast DEF Inventoried
      <3>5. CASE BuildFails /\ call' = [call EXCEPT !.todo = @ \ {id}, !.failed = TRUE]
        <4>1. Wanted' = Wanted BY <3>2, <3>5, BuildFailsMoves, SameWanted
        <4>2. /\ call'.at = "build" /\ call'.failed
              /\ call'.todo = call.todo \ {id} /\ call'.visited = call.visited
          BY <3>2, <3>5, BuildFailsMoves
        <4>3. toDelete \subseteq lost' BY <3>5, FailuresLose
        <4> QED BY <2>0, <3>2, <3>3, <4>1, <4>2, <4>3, RecordLast DEF Inventoried
      <3> QED BY <3>1, <3>4, <3>5
    <2>6. CASE (StartPurge \/ StartPurgePassesOver) /\ call'.at = "purge" /\ Kept
      <3>1. Wanted' = Wanted BY <2>6, SameWanted DEF Kept
      <3>2. toDelete' = toDelete BY <2>6 DEF StartPurge, StartPurgePassesOver
      <3>3. At("build") /\ call.todo = {} /\ ~call.failed BY <2>6, StartPurgeMoves
      <3>4. call'.visited \cap ChartObjects \subseteq Wanted
        BY <2>6, <3>3, ObjectsAssumption DEF Visiting, Kept, Working
      <3> QED BY <2>0, <2>6, <3>1, <3>2, <3>3, <3>4 DEF Inventoried, Kept
    <2>7. CASE Purge \/ PurgeFails
      <3>1. Wanted' = Wanted BY <2>7, PurgeMoves, SameWanted
      <3>2. toDelete' = toDelete BY <2>7 DEF Purge, PurgeFails
      <3> QED BY <2>0, <2>7, <3>1, <3>2, PurgeMoves, FailuresLose DEF Inventoried
    <2> QED BY <2>1, <2>2, <2>3, <2>4, <2>5, <2>6, <2>7, ToDeleteKept, Moves DEF Idle
  <1> QED BY <1>1, <1>2, TypeCorrect, VisitingCorrect, PTL DEF Spec

\* Objects of charts that purge may remove and that no failure made the reconciler lose sight of.
Strays == {id \in Existing \cap ChartObjects : id.kind \notin NeverDeleted} \ lost

\* Between calls the inventory lists every such object.  While builders run, it is wanted or marked for
\* deletion, and on record or about to be; purge gets to all that are not wanted.
Tracking ==
    /\ ~At("build") /\ ~At("purge") => Strays \subseteq Recorded
    /\ At("build") =>
          /\ Strays \subseteq Wanted \cup toDelete
          /\ Strays \subseteq Recorded \cup toDelete \cup (IF Record \in call.todo THEN call.visited ELSE {})
    /\ At("purge") => /\ Strays \subseteq call.visited \cup (toDelete \cap call.doomed)
                      /\ Strays \cap call.visited \subseteq Recorded

\* Without a builder's or purge's step nothing new appears and the record stays.
LEMMA StraysShrink ==
  ASSUME TypeOK, [Next]_vars, ~Build, ~Postponed, ~Purge
  PROVE  Strays' \subseteq Strays /\ Recorded' = Recorded
  <1>1. lost \subseteq lost' BY LostStays
  <1>2. listed' = listed
    BY DEF Next, vars, Begin, Progress, Failure, Skip, Announce, PreChecks, GetResourceBuilders, StartPurge,
     EndPurge, Sweep, Failed, Report, ReleaseDataFails, world, InventoryForgotten, GetResourceBuildersFails,
     BuildFails, StartPurgePassesOver, PurgeFails, SweepFails, Crash, ChangeOwner, Touch, Unready, BecomeReady,
     JobRuns, Resync
  <1>3. CASE cluster' = cluster BY <1>1, <1>2, <1>3 DEF Strays, Existing, Recorded
  <1>4. CASE Touch
    <2>1. PICK id \in Existing \cap ChartObjects, new \in {"edited", "no"} : cluster' = [cluster EXCEPT ![id] = new]
      BY <1>4 DEF Touch
    <2>2. \A o \in Ids : o # id => cluster'[o] = cluster[o] BY <2>1 DEF TypeOK
    <2>3. Existing' \subseteq Existing BY <2>1, <2>2 DEF Existing
    <2>4. cluster'[Record] = cluster[Record] BY <2>1, <2>2, ObjectsAssumption DEF Ids
    <2> QED BY <1>1, <1>2, <2>3, <2>4 DEF Strays, Recorded
  <1> QED BY <1>3, <1>4, WhoWrites

\* A builder's or purge's step changes one object.
LEMMA OneObject ==
  ASSUME TypeOK, NEW id \in Ids, NEW new, cluster' = [cluster EXCEPT ![id] = new]
  PROVE  /\ cluster'[id] = new /\ \A o \in Ids : o # id => cluster'[o] = cluster[o]
         /\ Existing' \subseteq Existing \cup {id}
         /\ new = "no" => Existing' \subseteq Existing \ {id}
  BY DEF TypeOK, Existing

LEMMA TrackingCorrect == ASSUME InventoryKept, Departing PROVE Spec => []Tracking
  <1>1. Init => Tracking BY DEF Init, Tracking, At, Idle, Strays, Existing
  <1>2. TypeOK /\ Visiting /\ Inventoried /\ Tracking /\ [Next]_vars => Tracking'
    <2> SUFFICES ASSUME TypeOK, Visiting, Inventoried, Tracking, [Next]_vars PROVE Tracking' OBVIOUS
    <2> USE DEF At
    <2>0. lost \subseteq lost' BY LostStays
    <2>1. CASE Build
      <3>0. call \in Call /\ At("build") BY <2>1, CallType DEF Build
      <3>1. PICK id \in NextBuilders :
               /\ cluster' = [cluster EXCEPT ![id] = ReconcileResource(id)]
               /\ listed' = IF id = Record /\ cluster'[id] = "current" /\
                               (cluster[id] = "no" \/ GetDesiredState(StateOf(id)) = "Present")
                            THEN Desired ELSE listed
               /\ call' = Built(id)
        BY <2>1 DEF Build
      <3>2. id \in call.todo /\ id \in Ids BY <3>0, <3>1, NextBuildersType DEF Call
      <3>3. /\ call'.at = "build" /\ call'.copy = call.copy
            /\ call'.todo = call.todo \ {id} /\ call'.visited = call.visited \cup {id}
        BY <3>0, <3>1, BuildMoves
      <3>4. Wanted' = Wanted /\ toDelete' = toDelete BY <2>1, <3>3, SameWanted DEF Build
      <3>5. /\ cluster'[id] = ReconcileResource(id) /\ \A o \in Ids : o # id => cluster'[o] = cluster[o]
            /\ Existing' \subseteq Existing \cup {id}
        BY <3>1, <3>2, OneObject
      <3>6. CASE id = Record
        <4>1. Existing' \cap ChartObjects \subseteq Existing BY <3>5, <3>6, ObjectsAssumption
        <4>2. Strays' \subseteq Strays BY <2>0, <4>1 DEF Strays
        <4>3. cluster'[Record] = "current" BY <3>0, <3>5, <3>6, RecordState DEF ReconcileResource
        <4>4. Recorded' = Wanted
          BY <3>0, <3>1, <3>6, <4>3, RecordState, WantedType DEF Recorded
        <4> QED BY <3>3, <3>4, <4>2, <4>4, <3>0 DEF Tracking
      <3>7. CASE id # Record
        <4>1. Strays' \subseteq Strays \cup {id} BY <2>0, <3>5 DEF Strays
        <4>2. Recorded' = Recorded BY <3>1, <3>5, <3>7 DEF Recorded, Ids
        <4>3. id \in Wanted BY <3>0, <3>2, <3>7 DEF Visiting
        <4>4. id \in Strays' => Record \in call.todo
          <5>1. Record \notin call.visited BY <3>0, <3>2 DEF Inventoried
          <5>2. id \in Strays' => id \in ChartObjects /\ id \notin lost BY <2>0 DEF Strays
          <5> QED BY <3>0, <3>2, <4>3, <5>1, <5>2 DEF Inventoried
        <4> QED BY <3>0, <3>3, <3>4, <3>7, <4>1, <4>2, <4>3, <4>4 DEF Tracking
      <3> QED BY <3>6, <3>7
    <2>2. CASE Postponed
      <3>0. call \in Call /\ At("build") BY <2>2, CallType DEF Postponed
      <3>1. PICK id \in NextBuilders :
               /\ Loses(IF id = Record THEN Wanted ELSE {})
               /\ cluster' = [cluster EXCEPT ![id] = "no"]
               /\ call' = [Built(id) EXCEPT !.again = TRUE]
        BY <2>2 DEF Postponed
      <3>2. id \in call.todo /\ id \in Ids BY <3>0, <3>1, NextBuildersType DEF Call
      <3>3. /\ call'.at = "build" /\ call'.copy = call.copy
            /\ call'.todo = call.todo \ {id} /\ call'.visited = call.visited \cup {id}
        BY <3>0, <3>1, BuildMoves
      <3>4. Wanted' = Wanted /\ toDelete' = toDelete /\ listed' = listed
        BY <2>2, <3>3, SameWanted DEF Postponed
      <3>5. Existing' \subseteq Existing \ {id} /\ \A o \in Ids : o # id => cluster'[o] = cluster[o]
        BY <3>1, <3>2, OneObject
      <3>6. Strays' \subseteq Strays \ {id} BY <2>0, <3>5 DEF Strays
      <3>7. CASE id = Record
        <4>1. Strays' \cap Wanted = {} BY <3>1, <3>7 DEF Loses, Strays
        <4> QED BY <3>0, <3>3, <3>4, <3>6, <4>1 DEF Tracking
      <3>8. CASE id # Record
        <4>1. Recorded' = Recorded BY <3>4, <3>5, <3>8 DEF Recorded, Ids
        <4> QED BY <3>0, <3>3, <3>4, <3>6, <3>8, <4>1 DEF Tracking
      <3> QED BY <3>7, <3>8
    <2>3. CASE Purge
      <3>0. call \in Call /\ At("purge") BY <2>3, CallType DEF Purge
      <3>1. PICK id \in FirstRemoved(call.doomed) :
               /\ cluster' = [cluster EXCEPT ![id] = "no"]
               /\ call' = [call EXCEPT !.doomed = @ \ {id}]
        BY <2>3 DEF Purge
      <3>2. id \in call.doomed /\ id \in Ids BY <3>0, <3>1 DEF FirstRemoved, Call
      <3>3. call'.at = "purge" /\ call'.visited = call.visited /\ call'.doomed = call.doomed \ {id}
        BY <3>0, <3>1 DEF Call
      <3>4. toDelete' = toDelete /\ listed' = listed BY <2>3 DEF Purge
      <3>5. Existing' \subseteq Existing \ {id} /\ \A o \in Ids : o # id => cluster'[o] = cluster[o]
        BY <3>1, <3>2, OneObject
      <3>6. Strays' \subseteq Strays \ {id} BY <2>0, <3>5 DEF Strays
      <3>7. Strays' \cap call.visited \subseteq Recorded'
        <4>1. CASE id = Record
          <5>1. call.visited \cap ChartObjects \subseteq lost BY <3>0, <3>2, <4>1 DEF Visiting, Inventoried
          <5> QED BY <3>6, <5>1 DEF Strays
        <4>2. CASE id # Record
          <5>1. Recorded' = Recorded BY <3>4, <3>5, <4>2 DEF Recorded, Ids
          <5> QED BY <3>0, <3>6, <5>1 DEF Tracking
        <4> QED BY <4>1, <4>2
      <3> QED BY <3>0, <3>3, <3>4, <3>6, <3>7 DEF Tracking
    <2>4. CASE ~Build /\ ~Postponed /\ ~Purge
      <3>0. Strays' \subseteq Strays /\ Recorded' = Recorded BY <2>4, StraysShrink
      <3>1. CASE ~At("build") /\ ~At("purge") /\ call'.at \notin {"build", "purge"}
        BY <3>0, <3>1 DEF Tracking
      <3>2. CASE call' = call /\ toDelete' = toDelete BY <3>0, <3>2, SameWanted DEF Tracking
      <3>3. CASE Crash
        <4>1. call' = Idle BY <3>3 DEF Crash, Return
        <4>2. At("build") \/ At("purge") => toDelete \cup (call.visited \ Recorded) \subseteq lost'
          BY <3>3 DEF Crash, Loses, Untracked
        <4>3. Strays' \cap lost' = {} BY DEF Strays
        <4> QED BY <3>0, <4>1, <4>2, <4>3 DEF Tracking, Idle
      <3>4. CASE GetResourceBuilders /\ call'.at = "build" /\ Kept
        <4>0. call \in Call /\ At("release") BY <3>4, CallType DEF GetResourceBuilders
        <4>1. Wanted' = Wanted /\ Desired = Wanted BY <3>4, <4>0, SameWanted, WantedType DEF Kept
        <4>2. toDelete' = {id \in Recorded \ Wanted : id.kind \notin NeverDeleted}
          BY <3>4, <4>1 DEF GetResourceBuilders, Deletable, PrepareDeletableObjects
        <4>3. Strays \subseteq Recorded BY <4>0 DEF Tracking
        <4>4. \A id \in Strays : id.kind \notin NeverDeleted BY DEF Strays
        <4> QED BY <3>0, <3>4, <4>1, <4>2, <4>3, <4>4 DEF Tracking
      <3>5. CASE InventoryForgotten /\ call'.at = "build" /\ Kept
        <4>1. listed \cup Wanted \subseteq lost' BY <3>5, FailuresLose
        <4>2. Strays \subseteq listed BY <3>5 DEF Tracking, InventoryForgotten, Recorded
        <4>3. Strays' = {} BY <3>0, <4>1, <4>2 DEF Strays
        <4> QED BY <3>5, <4>3 DEF Tracking
      <3>6. CASE BuildFails
        <4>0. call \in Call /\ At("build") /\ toDelete' = toDelete BY <3>6, CallType DEF BuildFails
        <4>1. PICK id \in NextBuilders : /\ Loses(IF id = Record THEN Untracked ELSE toDelete)
                                         /\ call' = [call EXCEPT !.todo = @ \ {id}, !.failed = TRUE]
          BY <3>6 DEF BuildFails
        <4>2. /\ call'.at = "build" /\ call'.todo = call.todo \ {id} /\ call'.visited = call.visited
              /\ call'.copy = call.copy
          BY <4>0, <4>1, BuildFailsMoves
        <4>3. Wanted' = Wanted BY <4>2, SameWanted
        <4>4. CASE id = Record
          <5>1. toDelete \cup (call.visited \ Recorded) \subseteq lost' BY <4>1, <4>4 DEF Loses, Untracked
          <5> QED BY <3>0, <4>0, <4>2, <4>3, <4>4, <5>1 DEF Tracking, Strays
        <4>5. CASE id # Record BY <3>0, <4>0, <4>2, <4>3, <4>5 DEF Tracking
        <4> QED BY <4>4, <4>5
      <3>7. CASE (StartPurge \/ StartPurgePassesOver) /\ call'.at = "purge" /\ Kept
        <4>1. At("build") /\ call.todo = {} /\ ~call.failed /\ call \in Call
          BY <3>7, StartPurgeMoves, CallType
        <4>2. toDelete' = toDelete BY <3>7 DEF StartPurge, StartPurgePassesOver
        <4>3. Strays \subseteq call.visited \cup toDelete BY <4>1 DEF Tracking, Visiting
        <4>4. Strays' \cap call.visited \subseteq Recorded
          <5>1. Strays \subseteq ChartObjects BY DEF Strays
          <5>2. call.visited \cap ChartObjects \subseteq Wanted
            BY <4>1, ObjectsAssumption DEF Visiting, Working
          <5>3. toDelete \cap Wanted \subseteq lost BY <4>1 DEF Inventoried
          <5>4. Strays \subseteq Recorded \cup toDelete BY <4>1 DEF Tracking
          <5> QED BY <3>0, <5>1, <5>2, <5>3, <5>4 DEF Strays
        <4>5. Strays' \subseteq call.visited \cup (toDelete \cap call'.doomed)
          <5>1. CASE StartPurge
            <6>1. call'.doomed = Purgeable BY <4>1, <5>1 DEF StartPurge, Call
            <6>2. \A id \in Strays \ call.visited : id \in toDelete /\ id \in Existing /\ id.kind \notin NeverDeleted
              BY <4>3 DEF Strays
            <6>3. Strays \ call.visited \subseteq Purgeable BY <6>2 DEF Purgeable, TypesToPurge
            <6> QED BY <3>0, <4>3, <6>1, <6>3
          <5>2. CASE StartPurgePassesOver
            <6>1. toDelete \subseteq lost' BY <5>2, FailuresLose
            <6> QED BY <3>0, <4>3, <6>1 DEF Strays
          <5> QED BY <3>7, <5>1, <5>2
        <4> QED BY <3>0, <3>7, <4>2, <4>4, <4>5 DEF Tracking, Kept
      <3>8. CASE StartPurge /\ call'.at = "failed"
        <4>1. call \in Call /\ At("build") BY <3>8, CallType DEF StartPurge
        <4>2. call.todo = {} /\ call.failed BY <3>8, <4>1 DEF StartPurge, Call
        <4>3. toDelete \subseteq lost BY <4>1, <4>2 DEF Inventoried
        <4> QED BY <3>0, <3>8, <4>1, <4>2, <4>3 DEF Tracking, Strays
      <3>9. CASE PurgeFails
        <4>1. toDelete \subseteq lost' /\ toDelete' = toDelete BY <3>9, FailuresLose DEF PurgeFails
        <4>2. At("purge") /\ call'.at = "purge" /\ call'.visited = call.visited BY <3>9, PurgeMoves
        <4> QED BY <3>0, <4>1, <4>2 DEF Tracking, Strays
      <3>10. CASE EndPurge
        <4>1. call \in Call /\ At("purge") /\ call.doomed = {} BY <3>10, CallType DEF EndPurge
        <4>2. call'.at \in {"failed", "report", "sweep"} BY <3>10, <4>1 DEF EndPurge, Go, Call
        <4> QED BY <3>0, <4>1, <4>2 DEF Tracking
      <3>11. At("build") \/ At("purge") =>
               \/ call' = call \/ Crash \/ BuildFails \/ StartPurge \/ StartPurgePassesOver
               \/ PurgeFails \/ EndPurge
        BY <2>4 DEF Next, vars, Begin, Progress, Failure, Skip, Announce, PreChecks, GetResourceBuilders,
           Sweep, Failed, Report, ReleaseDataFails, InventoryForgotten, GetResourceBuildersFails,
           SweepFails, ChangeOwner, Touch, Unready, BecomeReady, JobRuns, Resync
      <3>12. call' = call => toDelete' = toDelete BY ToDeleteKept
      <3>13. CASE StartPurge \/ StartPurgePassesOver
        <4>1. call \in Call BY <3>13, CallType DEF StartPurge, StartPurgePassesOver
        <4>2. (call'.at = "purge" /\ Kept) \/ (StartPurge /\ call'.at = "failed")
          BY <3>13, <4>1 DEF StartPurge, StartPurgePassesOver, Go, Call, Kept
        <4> QED BY <3>7, <3>8, <3>13, <4>2
      <3>14. CASE At("build") \/ At("purge")
        BY <3>2, <3>3, <3>6, <3>9, <3>10, <3>11, <3>12, <3>13, <3>14
      <3>15. CASE ~At("build") /\ ~At("purge") /\ call'.at \in {"build", "purge"}
        <4>1. ~BuildFails /\ ~StartPurge /\ ~StartPurgePassesOver /\ ~PurgeFails
          BY <3>15 DEF BuildFails, StartPurge, StartPurgePassesOver, PurgeFails
        <4> QED BY <2>4, <3>2, <3>4, <3>5, <3>12, <3>15, <4>1, Moves DEF Idle
      <3> QED BY <3>1, <3>14, <3>15
    <2> QED BY <2>1, <2>2, <2>3, <2>4
  <1> QED BY <1>1, <1>2, TypeCorrect, VisitingCorrect, InventoriedCorrect, PTL DEF Spec

-----------------------------------------------------------------------------
(* The outcome of a call. *)

\* The object is as the settings this call works with ask.
Made(id) == CASE Asked(call.copy, id) = "Present" -> cluster[id] = "current"
              [] Asked(call.copy, id) = "Created" -> cluster[id] # "no"
              [] OTHER -> cluster[id] = "no"

\* Unless an operation was postponed, what builders visited is as asked for; users may have changed it.
Worked == Working /\ ~call.again => \A id \in (call.visited \cap ChartObjects) \ touched : Made(id)

\* The history of what users touched begins with the call.
LEMMA TouchedKept == ASSUME [Next]_vars PROVE touched' = touched \/ Begin \/ Touch
  BY DEF Next, vars, Progress, Failure, Skip, Announce, PreChecks, GetResourceBuilders, Build,
     StartPurge, Purge, EndPurge, Sweep, Failed, Report, ReleaseDataFails, InventoryForgotten,
     GetResourceBuildersFails, Postponed, BuildFails, StartPurgePassesOver, PurgeFails, SweepFails, Crash,
     ChangeOwner, Unready, BecomeReady, JobRuns, Resync

LEMMA WorkedCorrect == Spec => []Worked
  <1>1. Init => Worked BY DEF Init, Worked, Working, Idle
  <1>2. TypeOK /\ Visiting /\ Worked /\ [Next]_vars => Worked'
    <2> SUFFICES ASSUME TypeOK, Visiting, Worked, [Next]_vars PROVE Worked' OBVIOUS
    <2> USE DEF At, Working
    <2>1. ASSUME call'.copy = call.copy, ~call'.again => ~call.again, Working,
                 NEW id \in Ids, \A o \in Ids : o # id => cluster'[o] = cluster[o],
                 call'.visited \subseteq call.visited \cup {id}, touched' = touched,
                 (id \in call'.visited /\ id \in ChartObjects /\ ~call'.again) => Made(id)'
          PROVE  Worked'
      <3>1. ChartObjects \subseteq Ids BY DEF Ids
      <3>2. \A o \in ChartObjects : o # id => (Made(o)' <=> Made(o)) BY <2>1, <3>1 DEF Made, Asked
      <3> QED BY <2>1, <3>2 DEF Worked
    <2>2. CASE Build
      <3>0. call \in Call /\ At("build") BY <2>2, CallType DEF Build
      <3>1. PICK id \in NextBuilders : /\ cluster' = [cluster EXCEPT ![id] = ReconcileResource(id)]
                                       /\ call' = Built(id)
        BY <2>2 DEF Build
      <3>2. id \in call.todo /\ id \in Ids BY <3>0, <3>1, NextBuildersType DEF Call
      <3>3. /\ call'.copy = call.copy /\ call'.again = call.again
            /\ call'.visited = call.visited \cup {id}
        BY <3>0, <3>1, BuildMoves
      <3>4. cluster'[id] = ReconcileResource(id) /\ \A o \in Ids : o # id => cluster'[o] = cluster[o]
        BY <3>1, <3>2, OneObject
      <3>5. id \in ChartObjects => Made(id)'
        <4>1. SUFFICES ASSUME id \in ChartObjects PROVE Made(id)' OBVIOUS
        <4>2. id \in Wanted BY <3>0, <3>2, <4>1, ObjectsAssumption DEF Visiting
        <4>3. GetDesiredState(StateOf(id)) = Asked(call.copy, id) BY <4>1, <4>2, StateAsked
        <4>4. Asked(call.copy, id) \in Statics
          <5>1. call.copy \in Settings BY <3>0 DEF Call
          <5>2. /\ \A o \in DOMAIN call.copy.byKey : call.copy.byKey[o] \in Range(call.copy.byKey)
                /\ \A k \in DOMAIN call.copy.byKind : call.copy.byKind[k] \in Range(call.copy.byKind)
            BY DEF Range
          <5>3. Range(call.copy.byKey) \subseteq Statics /\ Range(call.copy.byKind) \subseteq Statics
            BY <5>1, SettingsAssumption
          <5>4. {"Absent", "Created", "Present"} \subseteq Statics BY DEF Statics
          <5> QED BY <5>2, <5>3, <5>4 DEF Asked
        <4> QED BY <3>3, <3>4, <4>3, <4>4 DEF ReconcileResource, Made, Statics, Asked
      <3>6. touched' = touched BY <2>2 DEF Build
      <3> QED BY <2>1, <3>0, <3>2, <3>3, <3>4, <3>5, <3>6
    <2>3. CASE Postponed
      <3>0. call \in Call /\ At("build") BY <2>3, CallType DEF Postponed
      <3>1. PICK id : call' = [Built(id) EXCEPT !.again = TRUE] BY <2>3 DEF Postponed
      <3>2. call'.again BY <3>0, <3>1 DEF Built, Call
      <3> QED BY <3>2 DEF Worked
    <2>4. CASE Purge
      <3>0. call \in Call /\ At("purge") BY <2>4, CallType DEF Purge
      <3>1. PICK id \in FirstRemoved(call.doomed) : cluster' = [cluster EXCEPT ![id] = "no"] BY <2>4 DEF Purge
      <3>2. id \in Ids /\ id \notin call.visited BY <3>0, <3>1 DEF FirstRemoved, Call, Visiting
      <3>3. \A o \in Ids : o # id => cluster'[o] = cluster[o] BY <3>1, <3>2, OneObject
      <3>4. touched' = touched BY <2>4 DEF Purge
      <3> QED BY <2>1, <2>4, <3>0, <3>2, <3>3, <3>4, PurgeMoves
    <2>5. CASE Touch
      <3>1. PICK id \in Existing \cap ChartObjects, new \in {"edited", "no"} :
               /\ cluster' = [cluster EXCEPT ![id] = new]
               /\ touched' = touched \cup {id}
        BY <2>5 DEF Touch
      <3>2. \A o \in Ids : o # id => cluster'[o] = cluster[o] BY <3>1 DEF TypeOK
      <3>3. call' = call BY <2>5 DEF Touch
      <3>4. \A o \in ChartObjects : o # id => (Made(o)' <=> Made(o)) BY <3>2, <3>3 DEF Made, Asked, Ids
      <3> QED BY <3>1, <3>3, <3>4 DEF Worked
    <2>6. CASE cluster' = cluster /\ touched' = touched /\ ~Build
      <3>1. ASSUME Working, call'.copy = call.copy, call'.visited = call.visited, ~call'.again => ~call.again
            PROVE  Worked'
        BY <2>6, <3>1 DEF Worked, Made, Asked
      <3>2. CASE call' = call BY <2>6, <3>2 DEF Worked, Made, Asked
      <3>3. CASE call'.at \notin {"build", "purge", "sweep", "report"} BY <3>3 DEF Worked
      <3>4. CASE (GetResourceBuilders \/ InventoryForgotten) /\ call'.at = "build" /\ Kept
        <4>1. Starting BY <3>4 DEF GetResourceBuilders, InventoryForgotten, Starting
        <4> QED BY <3>4, <4>1 DEF Visiting, Kept, Worked
      <3>5. CASE BuildFails
        <4>1. PICK id : call' = [call EXCEPT !.todo = @ \ {id}, !.failed = TRUE] BY <3>5 DEF BuildFails
        <4> QED BY <3>1, <3>5, <4>1, BuildFailsMoves DEF BuildFails
      <3>6. CASE (StartPurge \/ StartPurgePassesOver) /\ call'.at = "purge" /\ Kept
        BY <3>1, <3>6, StartPurgeMoves DEF Kept
      <3>7. CASE PurgeFails \/ Purge BY <3>1, <3>7, PurgeMoves
      <3>8. CASE (EndPurge \/ Sweep) /\ Kept BY <3>1, <3>8 DEF Kept, EndPurge, Sweep
      <3> QED BY <2>3, <2>6, <3>2, <3>3, <3>4, <3>5, <3>6, <3>7, <3>8, Moves DEF Idle
    <2>7. CASE Begin BY <2>7 DEF Begin, Worked
    <2> QED BY <2>2, <2>3, <2>4, <2>5, <2>6, <2>7, WhoWrites, TouchedKept
  <1> QED BY <1>1, <1>2, TypeCorrect, VisitingCorrect, PTL DEF Spec

\* After purge only what is wanted is left, and after the sweep no pods of the release's jobs.
Cleaned ==
    /\ At("sweep") \/ At("report") => Strays \subseteq Wanted
    /\ At("report") /\ ~call.copy.enabled /\ pods => \E id \in lost : id.kind = "Job"

\* Only jobs and the sweep affect the pods.
LEMMA PodsKept == ASSUME [Next]_vars PROVE pods' = pods \/ Sweep \/ JobRuns
  BY DEF Next, vars, world, Begin, Progress, Failure, Skip, Announce, PreChecks, GetResourceBuilders, Build,
     StartPurge, Purge, EndPurge, Failed, Report, ReleaseDataFails, InventoryForgotten,
     GetResourceBuildersFails, Postponed, BuildFails, StartPurgePassesOver, PurgeFails, SweepFails, Crash,
     ChangeOwner, Touch, Unready, BecomeReady, Resync

LEMMA CleanedCorrect == ASSUME InventoryKept, Departing PROVE Spec => []Cleaned
  <1>1. Init => Cleaned BY DEF Init, Cleaned, At, Idle
  <1>2. TypeOK /\ Visiting /\ Tracking /\ Cleaned /\ [Next]_vars => Cleaned'
    <2> SUFFICES ASSUME TypeOK, Visiting, Tracking, Cleaned, [Next]_vars,
                        call'.at \in {"sweep", "report"}
                 PROVE  Cleaned'
      BY DEF Cleaned, At
    <2> USE DEF At
    <2>0. ~Build /\ ~Postponed /\ ~Purge
      <3>1. ~Purge BY PurgeMoves
      <3>2. ~Build /\ ~Postponed BY BuildMoves DEF Build, Postponed
      <3> QED BY <3>1, <3>2
    <2>1. Strays' \subseteq Strays /\ lost \subseteq lost' BY <2>0, StraysShrink, LostStays
    <2>2. CASE EndPurge /\ Kept
      <3>1. At("purge") /\ call.doomed = {} /\ call \in Call BY <2>2, CallType DEF EndPurge
      <3>2. Strays \subseteq Wanted
        <4>1. Strays \subseteq ChartObjects /\ Strays \subseteq call.visited BY <3>1 DEF Tracking, Strays
        <4> QED BY <3>1, <4>1, ObjectsAssumption DEF Visiting, Working
      <3>3. Wanted' = Wanted BY <2>2, SameWanted DEF Kept
      <3>4. call'.at = "report" => call'.copy.enabled BY <2>2, <3>1 DEF EndPurge, Go, Call
      <3> QED BY <2>1, <3>2, <3>3, <3>4 DEF Cleaned
    <2>3. CASE Sweep /\ Kept
      <3>1. Wanted' = Wanted BY <2>3, SameWanted DEF Kept
      <3> QED BY <2>1, <2>3, <3>1 DEF Cleaned, Sweep
    <2>4. CASE call' = call
      <3>1. Wanted' = Wanted BY <2>4, SameWanted
      <3>2. Strays \subseteq Wanted BY <2>4 DEF Cleaned
      <3>3. ASSUME call.at = "report", ~call.copy.enabled, pods' PROVE \E id \in lost' : id.kind = "Job"
        <4>1. CASE JobRuns
          <5>1. PICK id \in Existing : id.kind = "Job" BY <4>1 DEF JobRuns
          <5>2. id \in ChartObjects /\ id.kind \notin NeverDeleted
            BY <5>1, ObjectsAssumption DEF Existing, Ids, NeverDeleted
          <5>3. id \notin Wanted BY <3>3, <5>1, <5>2, ObjectsAssumption DEF Wanted
          <5> QED BY <2>1, <3>2, <5>1, <5>2, <5>3 DEF Strays
        <4>2. CASE pods' = pods BY <2>1, <3>3, <4>2 DEF Cleaned
        <4>3. CASE Sweep BY <3>3, <4>3 DEF Sweep
        <4> QED BY <4>1, <4>2, <4>3, PodsKept
      <3> QED BY <2>1, <2>4, <3>1, <3>2, <3>3 DEF Cleaned
    <2> QED BY <2>2, <2>3, <2>4, Moves DEF Idle
  <1> QED BY <1>1, <1>2, TypeCorrect, VisitingCorrect, TrackingCorrect, PTL DEF Spec

\* A call ends without asking for another only when it reports its outcome, or leaves the component alone.
LEMMA QuietEnd ==
  ASSUME TypeOK, [Next]_vars, call' = Idle, ~At("idle"), ~queued'
  PROVE  /\ (At("skip") /\ status' = "Unmanaged") \/ (At("report") /\ ~call.again /\ status' = Outcome)
         /\ UNCHANGED <<owner, cluster, pods, touched>> /\ lost \subseteq lost'
  <1>0. lost \subseteq lost' BY LostStays
  <1>1. call \in Call BY CallType
  <1>2. CASE Skip BY <1>0, <1>2 DEF Skip, UpdateStatus, Return, asked, world, TypeOK
  <1>3. CASE Report
    <2>1. call.again \in BOOLEAN /\ queued \in BOOLEAN BY <1>1 DEF Call, TypeOK
    <2> QED BY <1>0, <1>3, <2>1 DEF Report, UpdateStatus, Return, asked, world
  <1>4. CASE Failed \/ ReleaseDataFails \/ Crash
    BY <1>4 DEF Failed, ReleaseDataFails, Crash, Return, TypeOK
  <1>5. CASE PreChecks
    <2>1. ~(call' = [call EXCEPT !.at = "release"]) BY <1>1 DEF Idle, Call
    <2> QED BY <1>5, <2>1 DEF PreChecks, Return, Go, TypeOK
  <1> QED BY <1>2, <1>3, <1>4, <1>5, Moves DEF Idle, At

\* The status and the cluster are as the owner asks for.
Settled == StatusRight /\ (~owner.skipped => NoPodsLeft /\ \A id \in ChartObjects \ touched : InPlace(id))

\* When nothing calls Reconcile again, the status says what the owner asks for and every object, but
\* those that users touched since, is as the status says: no error, lost status, crash or postponed
\* operation ends in silence, for any chart, any settings and any number of failures.
THEOREM TruthfulCorrect == ASSUME InventoryKept, Departing PROVE Spec => []Truthful
  <1>1. Init => Truthful BY DEF Init, Truthful
  <1>2. /\ TypeOK /\ Visiting /\ UpToDate /\ Worked /\ Cleaned /\ Truthful /\ [Next]_vars
        => Truthful'
    <2> SUFFICES ASSUME TypeOK, Visiting, UpToDate, Worked, Cleaned, Truthful, [Next]_vars,
                        call'.at = "idle", ~queued'
                 PROVE  Settled'
      BY DEF Truthful, Settled, At
    <2> USE DEF At
    <2>1. ~Begin BY DEF Begin
    <2>2. ~queued /\ owner' = owner BY <2>1, Queued
    <2>3. CASE call' = call
      <3>1. Settled BY <2>2, <2>3 DEF Truthful, Settled
      <3>2. status' = status /\ lost \subseteq lost'
        <4>1. lost \subseteq lost' BY LostStays
        <4> QED
          BY <2>3, <4>1, <2>1 DEF Next, vars, Progress, Failure, Skip, Announce, PreChecks, GetResourceBuilders,
             Build, StartPurge, Purge, EndPurge, Sweep, Failed, Report, ReleaseDataFails, InventoryForgotten,
             GetResourceBuildersFails, Postponed, BuildFails, StartPurgePassesOver, PurgeFails, SweepFails,
             Crash, ChangeOwner, Touch, Unready, BecomeReady, JobRuns, Resync
      <3>3. StatusRight' BY <2>2, <3>1, <3>2 DEF Settled, StatusRight
      <3>4. CASE Touch
        <4>1. PICK id \in Existing \cap ChartObjects, new \in {"edited", "no"} :
                 /\ cluster' = [cluster EXCEPT ![id] = new]
                 /\ touched' = touched \cup {id}
          BY <3>4 DEF Touch
        <4>2. \A o \in ChartObjects : o # id => cluster'[o] = cluster[o] BY <4>1 DEF TypeOK, Ids
        <4>3. pods' = pods BY <3>4 DEF Touch
        <4>4. \A o \in ChartObjects \ touched' : InPlace(o) => InPlace(o)'
          BY <2>2, <3>2, <4>1, <4>2 DEF InPlace, Asked
        <4>5. NoPodsLeft => NoPodsLeft' BY <2>2, <3>2, <4>1, <4>3 DEF NoPodsLeft
        <4> QED BY <2>2, <3>1, <3>3, <4>1, <4>4, <4>5 DEF Settled
      <3>5. CASE JobRuns
        <4>1. cluster' = cluster /\ touched' = touched BY <3>5 DEF JobRuns
        <4>2. \A o \in ChartObjects : InPlace(o) => InPlace(o)' BY <2>2, <3>2, <4>1 DEF InPlace, Asked
        <4>3. ASSUME ~owner.skipped PROVE NoPodsLeft'
          <5>1. PICK id \in Existing : id.kind = "Job" BY <3>5 DEF JobRuns
          <5>2. id \in ChartObjects /\ id.kind \notin NeverDeleted /\ cluster[id] # "no"
            BY <5>1, ObjectsAssumption DEF Existing, Ids, NeverDeleted
          <5>3. id \in touched \/ InPlace(id) BY <3>1, <4>3, <5>2 DEF Settled
          <5>4. ~owner.enabled => Asked(owner, id) = "Absent" BY DEF Asked
          <5>5. owner.enabled \/ id \in lost \cup touched BY <5>2, <5>3, <5>4 DEF InPlace
          <5> QED BY <2>2, <3>2, <4>1, <5>1, <5>5 DEF NoPodsLeft
        <4> QED BY <2>2, <3>1, <3>3, <4>1, <4>2, <4>3 DEF Settled
      <3>6. CASE cluster' = cluster /\ pods' = pods /\ touched' = touched
        <4>1. \A o \in ChartObjects : InPlace(o) => InPlace(o)' BY <2>2, <3>2, <3>6 DEF InPlace, Asked
        <4>2. NoPodsLeft => NoPodsLeft' BY <2>2, <3>2, <3>6 DEF NoPodsLeft
        <4> QED BY <2>2, <3>1, <3>3, <3>6, <4>1, <4>2 DEF Settled
      <3>7. ~Build /\ ~Postponed /\ ~Purge /\ ~Sweep BY <2>3 DEF Build, Postponed, Purge, Sweep
      <3> QED BY <2>1, <3>4, <3>5, <3>6, <3>7, WhoWrites, TouchedKept, PodsKept
    <2>4. CASE call' = Idle /\ At("skip") /\ status' = "Unmanaged"
      <3>1. owner.skipped BY <2>2, <2>4 DEF UpToDate
      <3> QED BY <2>2, <2>4, <3>1 DEF Settled, StatusRight
    <2>5. CASE call' = Idle /\ At("report") /\ ~call.again /\ status' = Outcome
      <3>1. UNCHANGED <<cluster, pods, touched>> /\ lost \subseteq lost' BY <2>5, QuietEnd
      <3>2. call.copy = owner /\ ~owner.skipped BY <2>2, <2>5 DEF UpToDate
      <3>3. StatusRight' BY <2>2, <2>5, <3>2 DEF StatusRight, Outcome
      <3>4. NoPodsLeft' BY <2>2, <2>5, <3>1, <3>2 DEF NoPodsLeft, Cleaned
      <3>5. ASSUME NEW id \in ChartObjects \ touched PROVE InPlace(id)'
        <4>1. CASE id \in Wanted
          <5>1. Made(id) BY <2>5, <3>5, <4>1 DEF Visiting, Worked, Working
          <5> QED BY <2>2, <3>1, <3>2, <5>1 DEF Made, InPlace, Asked
        <4>2. CASE id \notin Wanted
          <5>1. id \notin Strays /\ id \in Ids BY <2>5, <3>5, <4>2 DEF Cleaned, Ids
          <5>2. cluster[id] = "no" \/ id \in lost \/ id.kind \in NeverDeleted
            BY <3>5, <5>1 DEF Strays, Existing
          <5>3. id \notin owner.chart \/ ~owner.enabled BY <3>2, <4>2 DEF Wanted
          <5>4. Asked(owner, id) = "Absent" BY <5>3 DEF Asked
          <5> QED BY <2>2, <3>1, <5>2, <5>3, <5>4 DEF InPlace, Asked
        <4> QED BY <4>1, <4>2
      <3> QED BY <3>1, <3>3, <3>4, <3>5 DEF Settled
    <2>6. Skip \/ PreChecks \/ ReleaseDataFails \/ Failed \/ Report \/ Crash => ~At("idle")
      BY DEF Skip, PreChecks, ReleaseDataFails, Failed, Report, Crash
    <2>7. call' = call \/ (call' = Idle /\ ~At("idle")) BY <2>6, Moves
    <2> QED BY <2>3, <2>4, <2>5, <2>7, QuietEnd
  <1> QED BY <1>1, <1>2, TypeCorrect, VisitingCorrect, UpToDateCorrect, WorkedCorrect, CleanedCorrect, PTL
          DEF Spec

-----------------------------------------------------------------------------
(* A call that has objects left to install or to remove has a next one. *)

LEMMA ScoreType ==
  ASSUME NEW order, DOMAIN order \subseteq Nat \ {0}, NEW kind, NEW unlisted \in Nat
  PROVE  Score(order, kind, unlisted) \in Nat
  <1>1. CASE kind \notin Range(order) BY <1>1 DEF Score
  <1>2. CASE kind \in Range(order)
    <2>1. \E i \in DOMAIN order : order[i] = kind BY <1>2 DEF Range
    <2>2. PICK i \in DOMAIN order : i = CHOOSE j \in DOMAIN order : order[j] = kind BY <2>1
    <2>3. Score(order, kind, unlisted) = i - 1 BY <1>2, <2>2 DEF Score
    <2>4. i \in Nat /\ i >= 1 BY <2>2
    <2> QED BY <2>3, <2>4
  <1> QED BY <1>1, <1>2

LEMMA ScoresType == ASSUME NEW kind PROVE InstallScore(kind) \in Nat /\ UninstallScore(kind) \in Nat
  <1>1. DOMAIN InstallObjectOrder = 1 .. 33 BY DEF InstallObjectOrder
  <1>2. DOMAIN UninstallObjectOrder = 1 .. 40 BY DEF UninstallObjectOrder
  <1> QED BY <1>1, <1>2, ScoreType DEF InstallScore, UninstallScore

\* A set of numbers that is not empty has a least one.
LEMMA Least ==
  ASSUME NEW S \in SUBSET Nat, S # {}
  PROVE  \E n \in S : \A m \in S : n <= m
  <1>1. PICK n \in S : \A m \in S : ~(<<m, n>> \in OpToRel(<, Nat))
    BY NatLessThanWellFounded, WFMin
  <1>2. \A m \in S : ~(m < n) BY <1>1 DEF OpToRel
  <1> QED BY <1>2

\* Of any objects, some may come first (Sort).
LEMMA SomeComeFirst == ASSUME NEW ids, ids # {} PROVE FirstInstalled(ids) # {} /\ FirstRemoved(ids) # {}
  <1>1. FirstInstalled(ids) # {}
    <2> DEFINE scores == {InstallScore(id.kind) : id \in ids}
    <2>1. scores \in SUBSET Nat /\ scores # {} BY ScoresType
    <2>2. PICK n \in scores : \A m \in scores : n <= m BY <2>1, Least
    <2>3. PICK id \in ids : n = InstallScore(id.kind) BY <2>2
    <2> QED BY <2>2, <2>3 DEF FirstInstalled
  <1>2. FirstRemoved(ids) # {}
    <2> DEFINE scores == {UninstallScore(id.kind) : id \in ids}
    <2>1. scores \in SUBSET Nat /\ scores # {} BY ScoresType
    <2>2. PICK n \in scores : \A m \in scores : n <= m BY <2>1, Least
    <2>3. PICK id \in ids : n = UninstallScore(id.kind) BY <2>2
    <2> QED BY <2>2, <2>3 DEF FirstRemoved
  <1> QED BY <1>1, <1>2

\* What a call takes next is there as long as anything is left.
GoesOn ==
  /\ At("build") /\ call.todo # {} => NextBuilders # {}
  /\ At("purge") /\ call.doomed # {} => FirstRemoved(call.doomed) # {}

\* A call with builders left to run, or with objects left to purge, has a next one: sorting leaves none out
\* and the inventory, kept for last, keeps none waiting (Sort, Reconcile of the NativeReconciler).
THEOREM GoesOnCorrect == Spec => []GoesOn
  <1>1. GoesOn
    <2>1. ASSUME call.todo # {} PROVE NextBuilders # {}
      <3>1. CASE Space \in call.todo \/ call.todo = {Record} BY <3>1 DEF NextBuilders
      <3>2. CASE Space \notin call.todo /\ call.todo # {Record}
        <4>1. call.todo \ {Record} # {} BY <2>1, <3>2
        <4> QED BY <3>2, <4>1, SomeComeFirst DEF NextBuilders
      <3> QED BY <3>1, <3>2
    <2> QED BY <2>1, SomeComeFirst DEF GoesOn
  <1> QED BY <1>1, PTL

-----------------------------------------------------------------------------
(* A call of Reconcile comes to an end. *)

\* How far a call has come; "failed" and "report" are the last steps of different ways through it.
Phase == CASE At("skip") \/ At("announce") -> 8
           [] At("check") -> 7
           [] At("release") -> 6
           [] At("build") -> 5
           [] At("purge") -> 4
           [] At("sweep") -> 3
           [] At("failed") -> 2
           [] At("report") -> 1
           [] OTHER -> 0

\* The builders still to run, or the objects still to remove.
Left == IF At("build") THEN call.todo ELSE IF At("purge") THEN call.doomed ELSE {}

CallStep == Progress \/ Failure

Closer == \/ Phase' < Phase
          \/ Phase' = Phase /\ Left' \subseteq Left /\ Left' # Left

LEMMA PhaseOf ==
  /\ At("skip") \/ At("announce") => Phase = 8
  /\ At("check") => Phase = 7
  /\ At("release") => Phase = 6
  /\ At("build") => Phase = 5 /\ Left = call.todo
  /\ At("purge") => Phase = 4 /\ Left = call.doomed
  /\ At("sweep") => Phase = 3
  /\ At("failed") => Phase = 2
  /\ At("report") => Phase = 1
  /\ call = Idle => Phase = 0
  BY DEF Phase, Left, At, Idle

\* Every builder that runs, or fails, is off the list.
LEMMA BuildCloser == ASSUME TypeOK, Build \/ Postponed \/ BuildFails PROVE Closer
  <1>1. At("build") BY DEF Build, Postponed, BuildFails
  <1>2. PICK id \in NextBuilders : \/ call' = Built(id) \/ call' = [Built(id) EXCEPT !.again = TRUE]
                                   \/ call' = [call EXCEPT !.todo = @ \ {id}, !.failed = TRUE]
    BY DEF Build, Postponed, BuildFails
  <1>3. call'.at = "build" /\ call'.todo = call.todo \ {id} BY <1>1, <1>2, BuildMoves, BuildFailsMoves
  <1>4. id \in call.todo BY NextBuildersType
  <1>5. At("build")' BY <1>3 DEF At
  <1>6. Phase = 5 /\ Left = call.todo BY <1>1, PhaseOf
  <1>7. Phase' = 5 /\ Left' = call'.todo BY <1>5 DEF Phase, Left, At
  <1> QED BY <1>3, <1>4, <1>6, <1>7 DEF Closer

\* Every object that is removed, or cannot be, is off the list.
LEMMA PurgeCloser == ASSUME TypeOK, Purge \/ PurgeFails PROVE Closer
  <1>1. PICK id \in FirstRemoved(call.doomed) : call'.doomed = call.doomed \ {id} BY PurgeMoves
  <1>2. At("purge") /\ call'.at = "purge" BY PurgeMoves
  <1>3. id \in call.doomed BY DEF FirstRemoved
  <1>4. Phase = 4 /\ Left = call.doomed BY <1>2, PhaseOf
  <1>5. Phase' = 4 /\ Left' = call'.doomed BY <1>2 DEF Phase, Left, At
  <1> QED BY <1>1, <1>3, <1>4, <1>5 DEF Closer

\* Every other step of a call leads to a later phase, or ends it.
LEMMA PhaseCloser ==
  ASSUME TypeOK, CallStep, ~(Build \/ Postponed \/ BuildFails \/ Purge \/ PurgeFails)
  PROVE  Phase' < Phase
  <1>go. ASSUME NEW step \in {"skip", "announce", "check", "release", "build", "purge", "sweep", "failed", "report"},
                call \in Call, NEW copy, NEW todo, NEW doomed,
                \/ Go(step)
                \/ call' = [call EXCEPT !.copy = copy, !.at = step]
                \/ call' = [call EXCEPT !.at = step, !.todo = todo]
                \/ call' = [call EXCEPT !.at = step, !.doomed = doomed]
         PROVE  call'.at = step
    BY <1>go DEF Go, Call
  <1>0. ~At("idle") => call \in Call BY CallType
  <1>idle. ASSUME call' = Idle, ~At("idle") PROVE Phase' < Phase
    <2>1. Phase' = 0 BY <1>idle DEF Phase, At, Idle
    <2>2. Phase \in 1 .. 8 BY <1>0, <1>idle DEF Phase, At, Call
    <2> QED BY <2>1, <2>2
  <1>1. CASE Skip \/ Failed \/ Report \/ ReleaseDataFails \/ Crash
    <2>1. call' = Idle /\ ~At("idle")
      BY <1>1 DEF Skip, Failed, Report, ReleaseDataFails, Crash, Return, At
    <2> QED BY <2>1, <1>idle
  <1>2. CASE Announce
    <2>1. At("announce") /\ call \in Call BY <1>0, <1>2 DEF Announce, At
    <2>2. \E step \in {"check", "release"} : call'.at = step BY <1>2, <2>1, <1>go DEF Announce
    <2>3. Phase' \in {6, 7} BY <2>2 DEF Phase, At
    <2>4. Phase = 8 BY <2>1, PhaseOf
    <2> QED BY <2>3, <2>4
  <1>3. CASE PreChecks
    <2>1. At("check") /\ call \in Call BY <1>0, <1>3 DEF PreChecks, At
    <2>2. call' = Idle \/ Go("release") BY <1>3 DEF PreChecks, Return
    <2>3. CASE call' = Idle BY <2>1, <2>3, <1>idle DEF At
    <2>4. CASE Go("release")
      <3>1. call'.at = "release" BY <2>1, <2>4, <1>go
      <3>2. Phase' = 6 BY <3>1 DEF Phase, At
      <3>3. Phase = 7 BY <2>1, PhaseOf
      <3> QED BY <3>2, <3>3
    <2> QED BY <2>2, <2>3, <2>4
  <1>4. CASE GetResourceBuilders \/ InventoryForgotten
    <2>1. At("release") /\ call \in Call BY <1>0, <1>4 DEF GetResourceBuilders, InventoryForgotten, At
    <2>2. call'.at = "build" BY <1>4, <2>1, <1>go, Zenon DEF GetResourceBuilders, InventoryForgotten
    <2>3. Phase' = 5 BY <2>2 DEF Phase, At
    <2>4. Phase = 6 BY <2>1, PhaseOf
    <2> QED BY <2>3, <2>4
  <1>5. CASE GetResourceBuildersFails
    <2>1. At("release") /\ call \in Call BY <1>0, <1>5 DEF GetResourceBuildersFails, At
    <2>2. call'.at = "failed" BY <1>5, <2>1, <1>go, Zenon DEF GetResourceBuildersFails
    <2>3. Phase' = 2 BY <2>2 DEF Phase, At
    <2>4. Phase = 6 BY <2>1, PhaseOf
    <2> QED BY <2>3, <2>4
  <1>6. CASE StartPurge \/ StartPurgePassesOver
    <2>1. At("build") /\ call \in Call BY <1>0, <1>6 DEF StartPurge, StartPurgePassesOver, At
    <2>2. call'.at \in {"purge", "failed"} BY <1>6, <2>1, <1>go, Zenon DEF StartPurge, StartPurgePassesOver
    <2>3. Phase' \in {4, 2} BY <2>2 DEF Phase, At
    <2>4. Phase = 5 BY <2>1, PhaseOf
    <2> QED BY <2>3, <2>4
  <1>7. CASE EndPurge
    <2>1. At("purge") /\ call \in Call BY <1>0, <1>7 DEF EndPurge, At
    <2>2. call'.at \in {"failed", "report", "sweep"} BY <1>7, <2>1, <1>go, Zenon DEF EndPurge
    <2>3. Phase' \in {1, 2, 3} BY <2>2 DEF Phase, At
    <2>4. Phase = 4 BY <2>1, PhaseOf
    <2> QED BY <2>3, <2>4
  <1>8. CASE Sweep \/ SweepFails
    <2>1. At("sweep") /\ call \in Call BY <1>0, <1>8 DEF Sweep, SweepFails, At
    <2>2. call'.at \in {"failed", "report"} BY <1>8, <2>1, <1>go, Zenon DEF Sweep, SweepFails
    <2>3. Phase' \in {1, 2} BY <2>2 DEF Phase, At
    <2>4. Phase = 3 BY <2>1, PhaseOf
    <2> QED BY <2>3, <2>4
  <1> QED BY <1>1, <1>2, <1>3, <1>4, <1>5, <1>6, <1>7, <1>8 DEF CallStep, Progress, Failure

\* Every step of a call, also one that fails, leads to a later phase or strikes an object off what it has
\* left, which is never more than the release's own objects: with charts that are finite a call ends, no
\* object is built or removed twice in it, and nothing but a new call comes back to an earlier phase
\* (HelmReconciler.Reconcile, NativeReconciler.Reconcile).
THEOREM CallsRunOut == Spec => [](Left \subseteq Ids) /\ [][CallStep => Closer]_vars
  <1>1. TypeOK => Left \subseteq Ids
    <2>1. TypeOK /\ ~At("idle") => call.todo \subseteq Ids /\ call.doomed \subseteq Ids BY CallType DEF Call
    <2> QED BY <2>1 DEF Left, At
  <1>2. TypeOK /\ [Next]_vars => [CallStep => Closer]_vars
    BY BuildCloser, PurgeCloser, PhaseCloser DEF Closer
  <1> QED BY <1>1, <1>2, TypeCorrect, PTL DEF Spec
=============================================================================
