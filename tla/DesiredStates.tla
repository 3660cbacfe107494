----------------------------- MODULE DesiredStates -----------------------------
(***************************************************************************)
(* Desired states.  One is static, or dynamic: a static state with         *)
(* callbacks that may let an operation go on, refuse it or fail.  What     *)
(* ReconcileResource is given is a sequence: of one state, or several as   *)
(* MultipleDesiredStates.                                                  *)
(***************************************************************************)
EXTENDS Sequences, SequencesExt

Statics == {"Created", "Absent", "Present"}
Outcomes == {"go", "skip", "fail"}

\* Only a dynamic state has callbacks: should and before are what they answer.
State == [static : Statics, dynamic : BOOLEAN, should : Outcomes, before : {"go", "fail"}]

Static(s) == [static |-> s, dynamic |-> FALSE, should |-> "go", before |-> "go"]
Dynamic(s) == [Static(s) EXCEPT !.dynamic = TRUE]

\* Mutant: the first state decides.
GetDesiredStateBug(states) == Head(states).static

\* The last of several states decides what is done.
GetDesiredState(states) == Last(states).static

\* The first callback that does not say "go" decides whether it is done.
FirstRefusal(outcomes) ==
    LET refusals == SelectSeq(outcomes, LAMBDA o : o # "go")
    IN  IF refusals = <<>> THEN "go" ELSE Head(refusals)

Should(states) == FirstRefusal([i \in DOMAIN states |-> states[i].should])
Before(states) == FirstRefusal([i \in DOMAIN states |-> states[i].before])

\* `state == StateAbsent' and the like compare interfaces: only a bare static state is ever equal.
Is(states, static) == states = <<Static(static)>>

\* Mutant: the annotation has no effect.
CreateOnlyBug(states) == states

\* The create-only annotation turns a single state Present into Created; several states stay as they are.
CreateOnly(states) ==
    IF Len(states) = 1 /\ GetDesiredState(states) = "Present" THEN <<Static("Created")>> ELSE states

\* What NativeReconciler records of an object it has reconciled.
RecordedState(states) == IF Is(states, "Absent") THEN "Absent" ELSE "Present"
=============================================================================
