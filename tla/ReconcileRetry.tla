---------------------------- MODULE ReconcileRetry ----------------------------
(***************************************************************************)
(* ReconcileRetry: calls one component again and again, without a          *)
(* controller, until it is done.  What the component has to do takes       *)
(* some calls, and time on its own account.                                *)
(***************************************************************************)
EXTENDS Integers

CONSTANTS
    RetryLimits,     \* what MaxRetries may be; -1 stands for no limit
    Chores,          \* bound: calls the component has something to do in
    MaxRetryFaults   \* bound: calls that fail

ASSUME RetryAssumption == RetryLimits \subseteq Nat \cup {-1} /\ {Chores, MaxRetryFaults} \subseteq Nat

VARIABLES
    MaxRetries,   \* the field
    i,            \* the loop's counter
    loop,         \* not started, calling the component, sleeping, or ended with an answer
    slept,        \* how long the sleep is: the component's wish, the default, or none yet
    chores,       \* what the component has left to do
    heard,        \* history: the component's last answer
    retryFaults

retryVars == <<MaxRetries, i, loop, slept, chores, heard, retryFaults>>

Answers == {"nil", "empty", "again", "later", "error"}
Endings == {"success", "failure", "incomplete"}

\* Mutant: one call too many.
GoesOnBug == i <= MaxRetries \/ MaxRetries = -1

GoesOn == i < MaxRetries \/ MaxRetries = -1

\* What the loop makes of an answer: it ends, or sleeps as long as the result or the default says.
Heard(answer) ==
    /\ heard' = answer
    /\ CASE answer = "error" -> loop' = "failure" /\ UNCHANGED slept
         [] answer = "nil" -> loop' = "success" /\ UNCHANGED slept
         [] answer = "empty" -> loop' = "incomplete" /\ UNCHANGED slept
         [] answer = "again" -> loop' = "asleep" /\ slept' = "default"
         [] answer = "later" -> loop' = "asleep" /\ slept' = "wish"

StartRetry ==
    /\ loop = "idle" /\ loop' = "calling"
    /\ UNCHANGED <<MaxRetries, i, slept, chores, heard, retryFaults>>

\* A component that is done says so with no result, or, as this repository's own do, with an empty one.
CallComponent ==
    /\ loop = "calling" /\ GoesOn
    /\ \/ /\ chores > 0 /\ chores' = chores - 1 /\ UNCHANGED retryFaults
          /\ Heard("again") \/ Heard("later")
       \/ /\ chores = 0 /\ UNCHANGED <<chores, retryFaults>>
          /\ Heard("nil") \/ Heard("empty")
       \/ /\ retryFaults < MaxRetryFaults /\ retryFaults' = retryFaults + 1 /\ UNCHANGED chores
          /\ Heard("error")
    /\ UNCHANGED <<MaxRetries, i>>

WakeUp ==
    /\ loop = "asleep" /\ loop' = "calling" /\ i' = i + 1 /\ slept' = "none"
    /\ UNCHANGED <<MaxRetries, chores, heard, retryFaults>>

GiveUp ==
    /\ loop = "calling" /\ ~GoesOn /\ loop' = "incomplete"
    /\ UNCHANGED <<MaxRetries, i, slept, chores, heard, retryFaults>>

RetryInit ==
    /\ MaxRetries \in RetryLimits /\ chores \in 0 .. Chores
    /\ i = 0 /\ loop = "idle" /\ slept = "none" /\ heard = "again" /\ retryFaults = 0

RetryProgress == CallComponent \/ WakeUp \/ GiveUp

RetryNext == StartRetry \/ RetryProgress

\* The loop runs on, and the component answers.
RetryFairness == WF_retryVars(RetryProgress)

RetrySpec == RetryInit /\ [][RetryNext]_retryVars /\ RetryFairness

-----------------------------------------------------------------------------
(* Correctness *)

\* The loop ends with success only when the component has said that nothing is left, and then nothing
\* is; with an error only when the last call failed; and it gives up on a component only when that says
\* so, or has been asked as often as it may (Reconcile).
HonestEnding ==
    /\ loop = "success" => heard = "nil" /\ chores = 0
    /\ loop = "failure" => heard = "error"
    /\ loop = "incomplete" => heard = "empty" \/ (MaxRetries # -1 /\ i = MaxRetries)

\* The loop ends, and honestly.
RetryEnds == loop = "calling" ~> loop \in Endings /\ HonestEnding
=============================================================================
