----------------------------- MODULE ResourceWait -----------------------------
(***************************************************************************)
(* Waiting for resources.  An operator checks the conditions a component   *)
(* needs, reconciles the component, and waits until what was wanted is     *)
(* there and what was not is gone (NativeReconcilerWithWait).  A wait      *)
(* polls one object after the other, each a limited number of times.       *)
(***************************************************************************)
EXTENDS Naturals, Sequences, FiniteSets, DesiredStates

CONSTANTS
    Waitables,        \* the objects
    Workloads,        \* those with replicas: Deployments, StatefulSets and DaemonSets
    Definitions,      \* those that are CustomResourceDefinitions
    Foreign,          \* those that others create, and the component depends on
    PreConditions,    \* a sequence of [id, checks]
    Plans,            \* what a component may want: functions from objects to desired states
    Steps,            \* how often an object is polled at most
    MaxPlans,         \* bound: changes of the plan
    MaxUpsets,        \* bound: objects that lose their replicas or that users edit or delete
    MaxPollFaults     \* bound: failed API calls

Conditions == {"missing", "unobserved", "unready", "ready", "outdated", "terminating", "stopping"}
CheckNames == {"exists", "nonexists", "ready", "established", "custom"}

ASSUME WaitablesAssumption ==
    IsFiniteSet(Waitables) /\ Workloads \cup Definitions \cup Foreign \subseteq Waitables
ASSUME PreConditionsAssumption == PreConditions \in Seq([id : Waitables, checks : SUBSET CheckNames])
ASSUME PlansAssumption ==
    \A p \in Plans : DOMAIN p \subseteq Waitables \ Foreign /\ \A id \in DOMAIN p : p[id] \in Seq(State)
ASSUME StepsAssumption == Steps \in Nat \ {0}
ASSUME WaitBoundsAssumption == {MaxPlans, MaxUpsets, MaxPollFaults} \subseteq Nat

VARIABLES
    reused,      \* whether one NativeReconciler serves all calls, or each call makes a new one
    plan,        \* what the component wants
    condition,   \* per object, its condition: an outdated one is ready but not as the builders have
                 \* it, the status of an unobserved one is older than its spec, and of those that are
                 \* being deleted the status of a stopping one says that it is not ready
    job,         \* the call under way
    recorded,    \* reconciledObjectStates: per state, the objects
    verdict,     \* how the last call ended
    shown,       \* history: the conditions the polls of this call have found, per object
    spentPlans, spentUpsets, spentFaults   \* what is spent of the bounds

waitVars == <<reused, plan, condition, job, recorded, verdict, shown, spentPlans, spentUpsets, spentFaults>>
waitSpent == <<spentPlans, spentUpsets, spentFaults>>

-----------------------------------------------------------------------------
(* The checks *)

Gone(answer) == answer \in {"missing", "nomatch"}

NonExistsConditionCheck(id, answer) == Gone(answer)

ExistsConditionCheck(id, answer) == answer \notin {"missing", "nomatch", "error"}

\* Mutant: an object without replicas is never ready.
ReadyReplicasConditionCheckBug(id, seen) == id \in Workloads /\ seen \notin {"unready", "stopping"}

\* Only the replicas that the status tells of count: no status, no replicas and an object that is being
\* deleted with all its replicas pass.
ReadyReplicasConditionCheck(id, seen) == id \in Workloads => seen \notin {"unready", "stopping"}

\* The status of a definition tells whether it is established, also while it is being deleted.
Established == {"ready", "outdated", "terminating"}

CRDEstablishedConditionCheck(id, seen) == id \in Definitions => seen \in Established

\* The checks of a status look at the object that is read into, whatever this read answered.
Check(name, id, answer, seen) ==
    CASE name = "exists" -> ExistsConditionCheck(id, answer)
      [] name = "nonexists" -> NonExistsConditionCheck(id, answer)
      [] name = "ready" -> ReadyReplicasConditionCheck(id, seen)
      [] name = "established" -> CRDEstablishedConditionCheck(id, seen)
      [] name = "custom" -> answer # "error" /\ condition[id] \in {"ready", "outdated"}

-----------------------------------------------------------------------------
Jobs == [at : {"checks", "build", "readiness", "removal"},
         want : Plans,               \* the plan the builders were made for
         todo : SUBSET Waitables,    \* the builders still to run
         waits : Seq([id : Waitables, checks : SUBSET CheckNames]),  \* what to wait for
         left : 1 .. Steps,          \* the polls left for the first of these
         seen : Conditions \cup {"blank"},   \* what the last read left in the first of these
         failed : BOOLEAN]           \* whether combinedResult has an error
NoJob == [at |-> "none"]

Nothing == [Present |-> {}, Absent |-> {}, Purged |-> {}]

InJob(step) == job.at = step
Unspent == UNCHANGED waitSpent
PollFault == spentFaults < MaxPollFaults /\ spentFaults' = spentFaults + 1 /\ UNCHANGED <<spentPlans, spentUpsets>>

EndJob(answer) == job' = NoJob /\ verdict' = answer

\* CheckResourceConditions, with a backoff of its own for every condition.
StartCall ==
    /\ InJob("none")
    /\ job' = [at |-> "checks", want |-> plan, todo |-> DOMAIN plan, waits |-> PreConditions,
               left |-> Steps, seen |-> "blank", failed |-> FALSE]
    /\ verdict' = "running" /\ shown' = [id \in Waitables |-> {}]
    /\ Unspent /\ UNCHANGED <<reused, plan, condition, recorded>>

StartReconcile ==
    /\ InJob("checks") /\ job.waits = <<>>
    /\ job' = [job EXCEPT !.at = "build"]
    /\ recorded' = IF reused THEN recorded ELSE Nothing
    /\ shown' = [id \in Waitables |-> {}]
    /\ Unspent /\ UNCHANGED <<reused, plan, condition, verdict>>

-----------------------------------------------------------------------------
(* NativeReconciler.Reconcile *)

\* What an accepted delete leaves of an object: nothing, or while finalizers run the object as it was.
Deletion(id) ==
    CASE condition[id] = "missing" -> {"missing"}
      [] condition[id] \in {"unready", "stopping"} -> {"missing", "stopping"}
      [] condition[id] = "unobserved" /\ id \in Definitions -> {"missing", "stopping"}
      [] OTHER -> {"missing", "terminating"}

\* What ReconcileResource leaves of an object; one that is being deleted is left alone, without an error.
Reconciled(id) ==
    CASE GetDesiredState(job.want[id]) = "Absent" -> Deletion(id)
      [] condition[id] = "missing" -> {"unobserved"}
      [] GetDesiredState(job.want[id]) = "Present" /\ condition[id] = "outdated" -> {"unobserved"}
      [] OTHER -> {condition[id]}

BuildResource ==
    /\ InJob("build")
    /\ \E id \in job.todo :
          /\ \E new \in Reconciled(id) : condition' = [condition EXCEPT ![id] = new]
          /\ recorded' = [recorded EXCEPT ![RecordedState(job.want[id])] = @ \cup {id}]
          /\ job' = [job EXCEPT !.todo = @ \ {id}]
    /\ Unspent /\ UNCHANGED <<reused, plan, verdict, shown>>

BuildResourceFails ==
    /\ InJob("build") /\ PollFault
    /\ \E id \in job.todo : job' = [job EXCEPT !.todo = @ \ {id}, !.failed = TRUE]
    /\ UNCHANGED <<reused, plan, condition, recorded, verdict, shown>>

\* waitForResources, the first half: the objects in the order they were recorded in.
Readiness(ids) ==
    \E order \in SetToSeqs(ids) :
        job' = [job EXCEPT !.at = "readiness", !.left = Steps, !.seen = "blank",
                   !.waits = [i \in DOMAIN order |-> [id |-> order[i], checks |-> {"exists", "ready"}]]]

\* Purge, unless there was an error; an object that is already on its way out is deleted again.
\* The wait comes in either case.
PurgeAndWait ==
    /\ InJob("build") /\ job.todo = {}
    /\ LET purged == {id \in Waitables \ (DOMAIN job.want \cup Foreign) : ~job.failed /\ condition[id] # "missing"}
       IN  /\ condition' \in [Waitables -> Conditions]
           /\ \A id \in Waitables :
                 condition'[id] \in IF id \in purged THEN Deletion(id) ELSE {condition[id]}
           /\ recorded' = [recorded EXCEPT !.Purged = @ \cup purged]
    /\ Readiness(recorded.Present)
    /\ Unspent /\ UNCHANGED <<reused, plan, verdict, shown>>

\* Mutant: only the objects that were purged are waited for.
UnwantedBug == recorded.Purged

Unwanted == recorded.Absent \cup recorded.Purged

\* waitForResources, the second half: first those that were wanted absent, then those purged.
StartRemoval ==
    /\ InJob("readiness") /\ job.waits = <<>>
    /\ \E order \in SetToSeqs(Unwanted) :
          job' = [job EXCEPT !.at = "removal", !.left = Steps, !.seen = "blank",
                     !.waits = [i \in DOMAIN order |-> [id |-> order[i], checks |-> {"nonexists"}]]]
    /\ Unspent /\ UNCHANGED <<reused, plan, condition, recorded, verdict, shown>>

EndCall ==
    /\ InJob("removal") /\ job.waits = <<>>
    /\ EndJob(IF job.failed THEN "error" ELSE "ok")
    /\ Unspent /\ UNCHANGED <<reused, plan, condition, recorded, shown>>

-----------------------------------------------------------------------------
(* waitForResourceConditions and WaitForCustomConditionChecks *)

\* Mutant: a poll that fails is not counted.
PollsLeftBug == Steps

PollsLeft == job.left - 1

Polling == job.at \in {"checks", "readiness", "removal"} /\ job.waits # <<>>

Poll(answer) ==
    LET first == Head(job.waits)
        seen == IF answer \in Conditions \ {"missing"} THEN answer ELSE job.seen
        passes == \A name \in first.checks : Check(name, first.id, answer, seen)
        \* A custom check's error ends the wait at once; a resource is polled again.
        ends == PollsLeft = 0 \/ ("custom" \in first.checks /\ answer = "error") IN
    /\ shown' = IF answer # "error" THEN [shown EXCEPT ![first.id] = @ \cup {condition[first.id]}] ELSE shown
    /\ \/ /\ passes
          /\ job' = [job EXCEPT !.waits = Tail(@), !.left = Steps, !.seen = "blank"] /\ UNCHANGED verdict
       \/ ~passes /\ ends /\ EndJob("error")
       \/ ~passes /\ ~ends /\ job' = [job EXCEPT !.left = PollsLeft, !.seen = seen] /\ UNCHANGED verdict
    /\ UNCHANGED <<reused, plan, condition, recorded>>

PollObject == Polling /\ Poll(condition[Head(job.waits).id]) /\ Unspent

\* The API call fails, or says that there is no such kind.
PollFails == Polling /\ PollFault /\ (Poll("error") \/ (condition[Head(job.waits).id] = "missing" /\ Poll("nomatch")))

WaitProgress == StartReconcile \/ BuildResource \/ PurgeAndWait \/ StartRemoval \/ EndCall \/ PollObject

-----------------------------------------------------------------------------
(* Everybody else. *)

\* Controllers observe the objects, start their replicas and remove what is being deleted; others
\* create what is theirs.
Settle(id) ==
    /\ \/ condition[id] \in {"unobserved", "unready", "terminating", "stopping"}
       \/ condition[id] = "missing" /\ id \in Foreign
    /\ condition' = [condition EXCEPT ![id] =
          CASE @ \in {"terminating", "stopping"} -> "missing"
            [] @ = "missing" -> "unobserved"
            [] @ = "unobserved" /\ id \in Workloads -> "unready"
            [] OTHER -> "ready"]
    /\ UNCHANGED <<reused, plan, job, recorded, verdict, shown, waitSpent>>

\* What users and failing nodes make of an object that is not deleted.
Damage(id) ==
    CASE condition[id] \notin {"terminating", "stopping"} ->
             {"outdated"} \cup (IF id \in Workloads THEN {"unready"} ELSE {})
      [] id \in Workloads -> {"stopping"}
      [] OTHER -> {}

Upset ==
    /\ spentUpsets < MaxUpsets /\ spentUpsets' = spentUpsets + 1
    /\ \E id \in Waitables :
          /\ condition[id] # "missing"
          /\ \E new \in Deletion(id) \cup Damage(id) : condition' = [condition EXCEPT ![id] = new]
    /\ UNCHANGED <<reused, plan, job, recorded, verdict, shown, spentPlans, spentFaults>>

ChangePlan ==
    /\ spentPlans < MaxPlans /\ spentPlans' = spentPlans + 1
    /\ plan' \in Plans \ {plan}
    /\ UNCHANGED <<reused, condition, job, recorded, verdict, shown, spentUpsets, spentFaults>>

WaitInit ==
    /\ reused \in BOOLEAN
    /\ plan \in Plans
    /\ condition = [id \in Waitables |-> "missing"]
    /\ job = NoJob /\ recorded = Nothing /\ verdict = "none"
    /\ shown = [id \in Waitables |-> {}]
    /\ spentPlans = 0 /\ spentUpsets = 0 /\ spentFaults = 0

WaitNext ==
    \/ StartCall \/ WaitProgress
    \/ BuildResourceFails \/ PollFails
    \/ \E id \in Waitables : Settle(id)
    \/ Upset \/ ChangePlan

\* The operator calls again and again, and the cluster's controllers do their work.
WaitFairness ==
    /\ WF_waitVars(StartCall) /\ WF_waitVars(WaitProgress)
    /\ \A id \in Waitables : WF_waitVars(Settle(id))

WaitSpec == WaitInit /\ [][WaitNext]_waitVars /\ WaitFairness

-----------------------------------------------------------------------------
(* Correctness *)

\* What a poll may have found of an object that is there and lacks no replica it is known to lack.
Up(id) == IF id \in Workloads THEN Conditions \ {"missing", "unready", "stopping"} ELSE Conditions \ {"missing"}

\* Nothing is built before every definition it depends on was found established.  A success is not
\* claimed before everything wanted was found, with no replicas known to be missing though perhaps on
\* its way out, and everything wanted absent or purged was found gone, after the builders ran; no failed
\* API call is taken for an answer (CheckResourceConditions, waitForResources and their checks).
WaitedFor ==
    [][/\ InJob("checks") /\ job'.at = "build" =>
          \A i \in DOMAIN PreConditions :
              "established" \in PreConditions[i].checks /\ PreConditions[i].id \in Definitions =>
                  shown[PreConditions[i].id] \cap Established # {}
       /\ verdict' = "ok" /\ job' # job =>
          /\ \A id \in DOMAIN job.want :
                /\ GetDesiredState(job.want[id]) # "Absent" => shown[id] \cap Up(id) # {}
                /\ Is(job.want[id], "Absent") => "missing" \in shown[id]
          /\ \A id \in recorded.Purged : "missing" \in shown[id]]_waitVars

\* Every call ends, whatever the objects do (the steps of the backoff).
CallsEnd == job # NoJob ~> job = NoJob

\* The reconciler waits for an object to be other than its plan has it: an object that a dynamic state
\* wants absent is recorded as present, and a reused reconciler remembers what it wanted before.
Contradictory ==
    \/ \E id \in recorded.Present : id \in DOMAIN plan => GetDesiredState(plan[id]) = "Absent"
    \/ \E id \in Unwanted : id \in DOMAIN plan /\ GetDesiredState(plan[id]) # "Absent"

\* When the plan stays and nobody upsets the objects, the calls succeed, except when the reconciler
\* waits for the contrary of its plan (addReconciledObjectState, waitForResources).
EndsWell == <>[](job = NoJob => verdict = "ok" \/ Contradictory)
=============================================================================
