----------------------------- MODULE Dispatcher -----------------------------
(***************************************************************************)
(* Dispatcher: one object handed to the components of an operator, in the  *)
(* order of installation or, when the object is being deleted, in the      *)
(* inverse order, with the components' answers combined into the one that  *)
(* controller-runtime sees.                                                *)
(*                                                                         *)
(* A component is its place in the order of installation.  What it does    *)
(* with the object is its own business: here it installs or removes        *)
(* something, at once or over several calls, and may fail.                 *)
(***************************************************************************)
EXTENDS Naturals

CONSTANTS
    N,            \* how many components there are
    WithStatus,   \* those that implement ComponentWithStatus
    Lifecycle,    \* ... ComponentLifecycle
    Optional,     \* ... IsOptional, answering true
    Mandatory,    \* ... IsOptional, answering false
    ForceResourceOrder,
    MaxWait,      \* bound: the longest wait a component asks for
    MaxChanges,   \* bound: changes of the object by users
    MaxHiccups    \* bound: failures, crashes and answers that ask for another call

Components == 1 .. N
Orders == {"Install", "Uninstall"}
Unforced == "Default"

ASSUME ComponentsAssumption == N \in Nat
ASSUME TraitsAssumption ==
    /\ WithStatus \subseteq Components /\ Lifecycle \subseteq Components
    /\ Optional \subseteq Components /\ Mandatory \subseteq Components
    /\ Optional \cap Mandatory = {}
ASSUME ForceAssumption == ForceResourceOrder \in Orders \cup {Unforced}
ASSUME BoundsAssumption == MaxWait \in Nat /\ MaxChanges \in Nat /\ MaxHiccups \in Nat

Statuses == {"", "Reconciling", "Unmanaged", "Failed", "Available", "Removed"}
Modes == {"Enabled", "Disabled", "Skipped"}
Object == [mode : [Components -> Modes], deleting : BOOLEAN]
Result == [requeue : BOOLEAN, after : 0 .. MaxWait]
Answer == [result : Result, err : BOOLEAN]

VARIABLES
    object,   \* the object, as users last left it
    status,   \* per component with status, what the object's status says of it
    applied,  \* per component, what it last brought to an end
    queued,   \* whether the work queue holds the object
    call,     \* the call of Handle under way
    changes, hiccups   \* what is spent of the bounds

vars == <<object, status, applied, queued, call, changes, hiccups>>

\* The locals of Handle.  "copy" is the object that was passed in: whatever talks to the API server
\* about it overwrites it with the answer.  "heard" and "answers" keep what its components had to say.
Call == [at : {"idle", "start", "dispatch", "report", "finish", "return"},
         copy : Object, inverse : BOOLEAN, place : 1 .. N + 1,
         combined : Answer, heard : SUBSET Components, answers : [Components -> Answer]]

-----------------------------------------------------------------------------
Nothing == [requeue |-> FALSE, after |-> 0]
Done == [result |-> Nothing, err |-> FALSE]
Again == [result |-> [requeue |-> TRUE, after |-> 0], err |-> TRUE]
Error == [result |-> Nothing, err |-> TRUE]

NewCall(at) == [at |-> at, copy |-> object, inverse |-> object.deleting, place |-> 1,
                combined |-> Done, heard |-> {}, answers |-> [c \in Components |-> Done]]

IsSkipped(c, obj) == obj.mode[c] = "Skipped" /\ c \in WithStatus
IsEnabled(c, obj) == obj.mode[c] = "Enabled" /\ ~obj.deleting

\* What a component makes of the object.
Wanted(c, obj) == IF IsEnabled(c, obj) THEN "Installed" ELSE "Removed"

AggregatedState(statuses) ==
    IF statuses \subseteq {"", "Unmanaged", "Removed", "Available"} THEN "Succeeded"
    ELSE IF "Failed" \in statuses THEN "Failed" ELSE "Reconciling"

\* Mutant: the last wait asked for wins.
SoonerBug(a, b) == b

\* The sooner of two waits, where 0 is none at all.
Sooner(a, b) == IF a = 0 \/ (b > 0 /\ b < a) THEN b ELSE a

\* Mutant: an error takes the place of the earlier ones.
CombineBug(combined, answer) ==
    [result |-> [requeue |-> combined.result.requeue \/ answer.result.requeue,
                 after |-> Sooner(combined.result.after, answer.result.after)],
     err |-> answer.err]

Combine(combined, answer) ==
    [result |-> [requeue |-> combined.result.requeue \/ answer.result.requeue,
                 after |-> Sooner(combined.result.after, answer.result.after)],
     err |-> combined.err \/ answer.err]

CombineErr(combined) == Combine(combined, Error)

\* Whether the components are taken in the order of removal.
IsInverse(inverse) == IF ForceResourceOrder = Unforced THEN inverse
                                                       ELSE ForceResourceOrder = "Uninstall"

\* ComponentReconcilers.Get: the component at a place of the order.
At(place, inverse) == IF IsInverse(inverse) THEN N + 1 - place ELSE place

Current == At(call.place, call.inverse)

Hiccup == hiccups < MaxHiccups /\ hiccups' = hiccups + 1

\* Update: a status that is written comes back with the object as it is by now.
Reports(c, s) == status' = [status EXCEPT ![c] = s]

\* Mutant: there is always another component.
AfterBug == "start"

After == IF call.place < N THEN "start" ELSE "return"

NextComponent(combined) ==
    call' = [call EXCEPT !.combined = combined, !.place = @ + 1, !.heard = @ \cup {Current},
                         !.at = After]

Return(combined) == call' = [call EXCEPT !.combined = combined, !.at = "return"]

-----------------------------------------------------------------------------
(* Dispatcher.Reconcile and Handle *)

Begin ==
    /\ call.at = "idle" /\ queued
    /\ queued' = FALSE
    /\ call' = NewCall(IF N = 0 THEN "return" ELSE "start")
    /\ UNCHANGED <<object, status, applied, changes, hiccups>>

\* ResourceGetter fails.
BeginFails == call.at = "idle" /\ queued /\ Hiccup /\ UNCHANGED <<object, status, applied, queued, call, changes>>

Start ==
    /\ call.at = "start"
    /\ IF Current \in WithStatus
       THEN /\ Reports(Current, IF IsSkipped(Current, call.copy) THEN "Unmanaged" ELSE "Reconciling")
            /\ call' = [call EXCEPT !.at = "dispatch", !.copy = object]
       ELSE call' = [call EXCEPT !.at = "dispatch"] /\ UNCHANGED status
    /\ UNCHANGED <<object, applied, queued, changes, hiccups>>

StartFails ==
    /\ call.at = "start" /\ Current \in WithStatus /\ Hiccup
    /\ call' = [call EXCEPT !.at = "dispatch", !.combined = CombineErr(@)]
    /\ UNCHANGED <<object, status, applied, queued, changes>>

\* The status is asked for again: the update may have brought a new object.
Skip ==
    /\ call.at = "dispatch" /\ IsSkipped(Current, call.copy)
    /\ NextComponent(call.combined)
    /\ UNCHANGED <<object, status, applied, queued, changes, hiccups>>

\* Mutant: the deletion of the object goes unnoticed.
TurnsBug(copy, inverse) == FALSE

\* The object turned out to be deleted since the order was chosen.
Turns(copy, inverse) == copy.deleting # inverse

Turn ==
    /\ call.at = "dispatch" /\ ~IsSkipped(Current, call.copy)
    /\ Turns(call.copy, call.inverse)
    /\ Return(Combine(call.combined, Again))
    /\ UNCHANGED <<object, status, applied, queued, changes, hiccups>>

Dispatches == call.at = "dispatch" /\ ~IsSkipped(Current, call.copy) /\ ~Turns(call.copy, call.inverse)

\* The component's own Reconcile: it may update the object or not.
Answers(answer) ==
    /\ Dispatches
    /\ \E copy \in {call.copy, object} :
          call' = [call EXCEPT !.at = "report", !.copy = copy, !.answers[Current] = answer]
    /\ UNCHANGED <<object, status, queued, changes>>

Completes ==
    /\ Answers(Done)
    /\ applied' = [applied EXCEPT ![Current] = Wanted(Current, call.copy)]
    /\ UNCHANGED hiccups

\* It asks for another call, or fails.
Postpones ==
    /\ Hiccup
    /\ \E answer \in Answer \ {Done} : Answers(answer)
    /\ UNCHANGED applied

CurrentAnswer == call.answers[Current]

\* What is reported after the call; a component that asks for another stays as it is.
StatusAfter == IF CurrentAnswer.err THEN "Failed"
               ELSE IF IsEnabled(Current, call.copy) THEN "Available" ELSE "Removed"

\* Mutant: the end of the component's work is not reported.
HasReportBug == Current \in WithStatus /\ CurrentAnswer.err

HasReport == Current \in WithStatus /\ (CurrentAnswer.err \/ CurrentAnswer = Done)

Report ==
    /\ call.at = "report"
    /\ IF HasReport THEN Reports(Current, StatusAfter) /\ call' = [call EXCEPT !.at = "finish", !.copy = object]
                    ELSE call' = [call EXCEPT !.at = "finish"] /\ UNCHANGED status
    /\ UNCHANGED <<object, applied, queued, changes, hiccups>>

ReportFails ==
    /\ call.at = "report" /\ HasReport /\ Hiccup
    /\ call' = [call EXCEPT !.at = "finish", !.combined = CombineErr(@)]
    /\ UNCHANGED <<object, status, applied, queued, changes>>

\* Only a component that says it is not optional ends the call when it fails.
Stops(c, answer) == answer.err /\ c \in Mandatory

Proceed(combined) == IF Stops(Current, CurrentAnswer) THEN Return(combined) ELSE NextComponent(combined)

\* OnFinished, if any, and on to the next component.
Finish ==
    /\ call.at = "finish"
    /\ Proceed(Combine(call.combined, CurrentAnswer))
    /\ UNCHANGED <<object, status, applied, queued, changes, hiccups>>

FinishFails ==
    /\ call.at = "finish" /\ Current \in Lifecycle /\ Hiccup
    /\ Proceed(CombineErr(Combine(call.combined, CurrentAnswer)))
    /\ UNCHANGED <<object, status, applied, queued, changes>>

\* controller-runtime puts the object back for an error or a result that asks for it.
End ==
    /\ call.at = "return"
    /\ queued' = (queued \/ call.combined.err \/ call.combined.result # Nothing)
    /\ call' = NewCall("idle")
    /\ UNCHANGED <<object, status, applied, changes, hiccups>>

-----------------------------------------------------------------------------
(* The rest of the world *)

\* A user changes what is asked of the components, or deletes the object; the informer queues it.
Change ==
    /\ changes < MaxChanges /\ changes' = changes + 1
    /\ \/ \E c \in Components : \E mode \in Modes \ {object.mode[c]} :
              object' = [object EXCEPT !.mode[c] = mode]
       \/ ~object.deleting /\ object' = [object EXCEPT !.deleting = TRUE]
    /\ queued' = TRUE
    /\ UNCHANGED <<status, applied, call, hiccups>>

\* A restarted process lists every object.
Crash ==
    /\ Hiccup
    /\ call' = NewCall("idle") /\ queued' = TRUE
    /\ UNCHANGED <<object, status, applied, changes>>

Init ==
    /\ object \in Object /\ ~object.deleting
    /\ status = [c \in WithStatus |-> ""]
    /\ applied = [c \in Components |-> "Removed"]
    /\ queued = TRUE
    /\ call = NewCall("idle")
    /\ changes = 0 /\ hiccups = 0

Progress == Begin \/ Start \/ Skip \/ Turn \/ Completes \/ Report \/ Finish \/ End

Failure == BeginFails \/ StartFails \/ Postpones \/ ReportFails \/ FinishFails \/ Crash

Next == Progress \/ Failure \/ Change

Spec == Init /\ [][Next]_vars

\* A worker takes what is queued and sees the call through; components complete in the end because
\* hiccups are bounded.
FairSpec == Spec /\ WF_vars(Progress)

-----------------------------------------------------------------------------
(* Correctness *)

\* Every variable has its type, and a call under way has a component to attend to.
TypeOK ==
    /\ object \in Object
    /\ status \in [WithStatus -> Statuses]
    /\ applied \in [Components -> {"Installed", "Removed"}]
    /\ queued \in BOOLEAN
    /\ call \in Call
    /\ call.at \notin {"idle", "return"} => call.place \in Components
    /\ changes \in 0 .. MaxChanges /\ hiccups \in 0 .. MaxHiccups

\* The component is what the object asks for, and the object's status says so.
Settled(c) ==
    IF IsSkipped(c, object) THEN status[c] = "Unmanaged"
    ELSE /\ applied[c] = Wanted(c, object)
         /\ c \in WithStatus => status[c] = (IF IsEnabled(c, object) THEN "Available" ELSE "Removed")

\* The object is out of the work queue only when there is nothing left to do for it: no failure, no
\* component that was skipped over and no status that could not be written is forgotten (Handle,
\* Combine).
NothingForgotten == call.at = "idle" /\ ~queued => \A c \in Components : Settled(c)

\* Handle returns what every component that ran asked for: an error if one failed, a requeue if one
\* wanted it, and no wait longer than the shortest (Combine).
AnswersEveryone ==
    call.at = "return" =>
        \A c \in Components :
            LET answer == call.answers[c] IN
            /\ answer.err => call.combined.err
            /\ answer.result.requeue => call.combined.result.requeue
            /\ answer.result.after > 0 => call.combined.result.after \in 1 .. answer.result.after

\* Whether d's turn is before c's, for an object that is or is not being deleted.
Precedes(d, c, deleting) == IF IsInverse(deleting) THEN d > c ELSE d < c

\* A component works on an object only after all those before it in the order that the object, as the
\* component gets to see it, calls for; and after a mandatory one only if that did not fail (Handle).
InOrder == [][call.at = "dispatch" /\ call'.at = "report" =>
                  \A d \in Components :
                      Precedes(d, Current, call.copy.deleting) =>
                          d \in call.heard /\ (d \in Mandatory => ~call.answers[d].err)]_vars

\* Once users leave the object alone, its aggregated state succeeds and stays so.
Succeeds == <>[](/\ \A c \in Components : Settled(c)
                 /\ AggregatedState({status[c] : c \in WithStatus}) = "Succeeded")

\* Dispatcher implements WorkQueue: whatever the components answer and whatever fails or is changed
\* meanwhile, a call works on one component at a time, settles nobody else's business or unsettles it,
\* and leaves the object out of the queue only with every component settled (Dispatcher, Handle).
Queue == INSTANCE WorkQueue WITH
    Parts <- Components, working <- call.at # "idle", open <- {c \in Components : ~Settled(c)}

ImplementsWorkQueue == Queue!Spec
=============================================================================
