--------------------------- MODULE DispatcherProofs ---------------------------
(***************************************************************************)
(* Proofs about Dispatcher, for any number of components: its types, that  *)
(* Handle answers for every component, that the components come in their   *)
(* order and that nothing is forgotten when the object leaves the queue.   *)
(***************************************************************************)
EXTENDS Dispatcher, TLAPS

InFlight == call.at \in {"report", "finish"}

\* A combined answer does what one of the answers asks for.
Heeds(combined, answer) ==
    /\ answer.err => combined.err
    /\ answer.result.requeue => combined.result.requeue
    /\ answer.result.after > 0 => combined.result.after \in 1 .. answer.result.after

\* All answers are combined, except the one that was just given.
Heeded == \A c \in Components : (InFlight /\ c = Current) \/ Heeds(call.combined, call.answers[c])

\* The components that had their turn are those before the current place, mandatory ones succeeded,
\* and the others have not said anything yet.
HeardPlaces == call.at # "idle" => call.heard = {At(p, call.inverse) : p \in 1 .. call.place - 1}
HeardWell == \A c \in call.heard : c \in Mandatory => ~call.answers[c].err
Unheard == \A c \in Components \ call.heard :
              c # Current \/ call.at \in {"start", "dispatch"} => call.answers[c] = Done

\* While the queue does not hold the object, it is what the call works on.
Fresh == call.at # "idle" /\ ~queued => call.copy = object /\ call.inverse = object.deleting

\* Unless the object comes back, what was done so far is as it should be.
SoFar ==
    call.at # "idle" /\ ~queued /\ call.combined = Done =>
        /\ \A c \in call.heard : Settled(c)
        /\ call.at = "return" => Components \subseteq call.heard
        /\ call.at = "dispatch" /\ IsSkipped(Current, object) => status[Current] = "Unmanaged"
        /\ InFlight /\ CurrentAnswer = Done => /\ ~IsSkipped(Current, object)
                                              /\ applied[Current] = Wanted(Current, object)
        /\ call.at = "finish" /\ CurrentAnswer = Done /\ Current \in WithStatus =>
              status[Current] = (IF IsEnabled(Current, object) THEN "Available" ELSE "Removed")

-----------------------------------------------------------------------------
(* Types *)

\* The answers the Dispatcher itself gives have their type (CombineErr, the requeue).
LEMMA OwnAnswers == Done \in Answer /\ Again \in Answer /\ Error \in Answer
  BY BoundsAssumption DEF Done, Again, Error, Nothing, Answer, Result

\* Two answers combine into an answer (Combine).
LEMMA CombineType == ASSUME NEW x \in Answer, NEW y \in Answer PROVE Combine(x, y) \in Answer
<1>1. /\ x.result.after \in 0 .. MaxWait /\ y.result.after \in 0 .. MaxWait
      /\ x.result.requeue \in BOOLEAN /\ y.result.requeue \in BOOLEAN
      /\ x.err \in BOOLEAN /\ y.err \in BOOLEAN
  BY DEF Answer, Result
<1>2. Sooner(x.result.after, y.result.after) \in 0 .. MaxWait
  BY <1>1 DEF Sooner
<1>. QED
  BY <1>1, <1>2 DEF Combine, Answer, Result

\* An error added to an answer leaves one (CombineErr).
LEMMA CombineErrType == ASSUME NEW x \in Answer PROVE CombineErr(x) \in Answer
  BY CombineType, OwnAnswers DEF CombineErr

\* There is a component at every place of the order (ComponentReconcilers.Get).
LEMMA AtType == ASSUME NEW p \in Components, NEW inverse PROVE At(p, inverse) \in Components
  BY ComponentsAssumption DEF At, Components

\* A call that begins, or is over, has its type (Handle).
LEMMA NewCallType == ASSUME TypeOK, NEW at \in {"idle", "start", "return"} PROVE NewCall(at) \in Call
<1>1. Done \in Answer
  BY OwnAnswers
<1>2. 1 \in 1 .. N + 1
  BY ComponentsAssumption
<1>3. object \in Object /\ object.deleting \in BOOLEAN
  BY DEF TypeOK, Object
<1>. QED
  BY <1>1, <1>2, <1>3 DEF NewCall, Call

\* The next component's turn, or the end of the call, has its type (the loop of Handle).
LEMMA NextType == ASSUME TypeOK, NEW combined \in Answer, call.place \in Components,
                         NextComponent(combined)
                  PROVE /\ call' \in Call
                        /\ call'.at \notin {"idle", "return"} => call'.place \in Components
<1>1. call \in Call /\ Current \in Components
  BY AtType DEF TypeOK, Current
<1>2. call.place + 1 \in 1 .. N + 1 /\ (call.place < N => call.place + 1 \in Components)
  BY ComponentsAssumption DEF Components
<1>3. After \in {"start", "return"} /\ (After = "start" => call.place < N)
  BY DEF After
<1>4. call' = [call EXCEPT !.combined = combined, !.place = call.place + 1,
                           !.heard = call.heard \cup {Current}, !.at = After]
  BY <1>1 DEF NextComponent, Call
<1>. HIDE DEF Components
<1>. QED
  BY <1>1, <1>2, <1>3, <1>4 DEF Call

\* Returning keeps the types (Handle).
LEMMA ReturnType == ASSUME TypeOK, NEW combined \in Answer, Return(combined)
                    PROVE call' \in Call /\ call'.at = "return"
  BY DEF TypeOK, Return, Call

\* So does whichever of the two follows a component's answer (the optional components).
LEMMA ProceedType == ASSUME TypeOK, NEW combined \in Answer, call.place \in Components, Proceed(combined)
                     PROVE /\ call' \in Call
                           /\ call'.at \notin {"idle", "return"} => call'.place \in Components
  BY NextType, ReturnType DEF Proceed

\* Every action keeps the types.
LEMMA TypeStep == ASSUME TypeOK, [Next]_vars PROVE TypeOK'
<1> USE DEF TypeOK
<1>current. call.at \notin {"idle", "return"} => call.place \in Components /\ Current \in Components
  BY AtType DEF Current
<1>hiccup. Hiccup => hiccups' \in 0 .. MaxHiccups
  BY BoundsAssumption DEF Hiccup
<1>call. call \in Call /\ call.combined \in Answer /\ CombineErr(call.combined) \in Answer
  BY CombineErrType DEF Call
<1>reports. ASSUME NEW c \in Components, NEW s \in Statuses, Reports(c, s)
            PROVE status' \in [WithStatus -> Statuses]
  BY <1>reports DEF Reports
<1>answer. call.at = "finish" => /\ CurrentAnswer \in Answer
                                 /\ Combine(call.combined, CurrentAnswer) \in Answer
                                 /\ CombineErr(Combine(call.combined, CurrentAnswer)) \in Answer
  BY <1>call, <1>current, CombineType, CombineErrType DEF CurrentAnswer, Call
<1>copies. ASSUME NEW at \in {"dispatch", "finish"}, NEW copy \in {call.copy, object},
                  call' = [call EXCEPT !.at = at, !.copy = copy]
           PROVE call' \in Call /\ call'.at = at /\ call'.place = call.place
  BY <1>copies, <1>call DEF Call
<1>0. CASE UNCHANGED vars
  BY <1>0 DEF vars, CurrentAnswer, Current
<1>1. CASE Begin
  <2> DEFINE at == IF N = 0 THEN "return" ELSE "start"
  <2>1. at \in {"idle", "start", "return"} /\ NewCall(at) \in Call
    BY NewCallType
  <2>2. NewCall(at).place = 1 /\ (at = "start" => 1 \in Components) /\ NewCall(at).at = at
    BY ComponentsAssumption DEF NewCall, Components
  <2>3. call' = NewCall(at)
    BY <1>1 DEF Begin
  <2> HIDE DEF at
  <2>. QED
    BY <1>1, <2>1, <2>2, <2>3 DEF Begin
<1>2. CASE Start
  <2>1. \E copy \in {call.copy, object} : call' = [call EXCEPT !.at = "dispatch", !.copy = copy]
    BY <1>2, <1>call DEF Start, Call
  <2>2. call' \in Call /\ call'.at = "dispatch" /\ call'.place = call.place
    BY <2>1, <1>copies
  <2>3. status' \in [WithStatus -> Statuses]
    BY <1>2, <1>reports, <1>current DEF Start, Statuses
  <2>. QED
    BY <1>2, <2>2, <2>3, <1>current DEF Start
<1>3. CASE Skip
  BY <1>3, <1>call, <1>current, NextType DEF Skip
<1>4. CASE Turn
  BY <1>4, <1>call, ReturnType, CombineType, OwnAnswers DEF Turn
<1>5. ASSUME NEW answer \in Answer, Answers(answer) PROVE call' \in Call /\ call'.at = "report" /\ call'.place = call.place
  <2>1. PICK copy \in {call.copy, object} :
           call' = [call EXCEPT !.at = "report", !.copy = copy, !.answers[Current] = answer]
    BY <1>5 DEF Answers
  <2>2. [call.answers EXCEPT ![Current] = answer] \in [Components -> Answer]
    BY <1>call DEF Call
  <2>3. call' = [call EXCEPT !.at = "report", !.copy = copy,
                             !.answers = [call.answers EXCEPT ![Current] = answer]]
    BY <2>1, <1>call DEF Call
  <2>4. copy \in Object
    BY <1>call DEF Call
  <2>. QED
    BY <1>call, <2>2, <2>3, <2>4 DEF Call
<1>6. CASE Completes
  <2>1. applied' \in [Components -> {"Installed", "Removed"}]
    BY <1>6 DEF Completes, Wanted
  <2>. QED
    BY <1>5, <1>6, <2>1, <1>current, OwnAnswers DEF Completes, Answers, Dispatches
<1>7. CASE Postpones
  BY <1>5, <1>7, <1>current, <1>hiccup DEF Postpones, Answers, Dispatches
<1>8. CASE Report
  <2>0. \E copy \in {call.copy, object} : call' = [call EXCEPT !.at = "finish", !.copy = copy]
    BY <1>8, <1>call DEF Report, Call
  <2>1. call' \in Call /\ call'.at = "finish" /\ call'.place = call.place
    BY <2>0, <1>copies
  <2>2. StatusAfter \in Statuses
    BY DEF StatusAfter, Statuses
  <2>3. status' \in [WithStatus -> Statuses]
    BY <1>8, <2>2, <1>reports, <1>current DEF Report
  <2>. QED
    BY <1>8, <2>1, <2>3, <1>current DEF Report
<1>9. CASE Finish
  BY <1>9, <1>answer, <1>current, ProceedType DEF Finish
<1>10. CASE End
  BY <1>10, NewCallType DEF End, NewCall
<1>11. CASE BeginFails
  BY <1>11, <1>hiccup DEF BeginFails
<1>12. CASE StartFails
  <2>1. call' \in Call /\ call'.at = "dispatch" /\ call'.place = call.place
    BY <1>12, <1>call DEF StartFails, Call
  <2>. QED
    BY <1>12, <2>1, <1>current, <1>hiccup DEF StartFails
<1>13. CASE ReportFails
  <2>1. call' \in Call /\ call'.at = "finish" /\ call'.place = call.place
    BY <1>13, <1>call DEF ReportFails, Call
  <2>. QED
    BY <1>13, <2>1, <1>current, <1>hiccup DEF ReportFails
<1>14. CASE FinishFails
  BY <1>14, <1>answer, <1>current, <1>hiccup, ProceedType DEF FinishFails
<1>15. CASE Crash
  BY <1>15, <1>hiccup, NewCallType DEF Crash, NewCall
<1>16. CASE Change
  <2>1. object \in Object /\ object.mode \in [Components -> Modes]
    BY DEF Object
  <2>2. ASSUME NEW c \in Components, NEW mode \in Modes
        PROVE [object EXCEPT !.mode[c] = mode] \in Object
    <3>1. [object.mode EXCEPT ![c] = mode] \in [Components -> Modes]
      BY <2>1
    <3>2. [object EXCEPT !.mode[c] = mode] = [object EXCEPT !.mode = [object.mode EXCEPT ![c] = mode]]
      BY <2>1 DEF Object
    <3>. QED
      BY <2>1, <3>1, <3>2 DEF Object
  <2>3. [object EXCEPT !.deleting = TRUE] \in Object
    BY <2>1 DEF Object
  <2>4. object' \in Object
    BY <1>16, <2>2, <2>3 DEF Change
  <2>. QED
    BY <1>16, <2>4, BoundsAssumption DEF Change
<1>. QED
  BY <1>0, <1>1, <1>2, <1>3, <1>4, <1>6, <1>7, <1>8, <1>9, <1>10, <1>11, <1>12, <1>13, <1>14, <1>15,
     <1>16 DEF Next, Progress, Failure

\* The first state has its types.
LEMMA TypeInit == ASSUME Init PROVE TypeOK
<1>1. Done \in Answer /\ 1 \in 1 .. N + 1
  BY OwnAnswers, ComponentsAssumption
<1>2. object \in Object /\ object.deleting \in BOOLEAN
  BY DEF Init, Object
<1>3. call \in Call /\ call.at = "idle"
  BY <1>1, <1>2 DEF Init, NewCall, Call
<1>4. "" \in Statuses
  BY DEF Statuses
<1>5. status \in [WithStatus -> Statuses] /\ applied \in [Components -> {"Installed", "Removed"}]
  BY <1>4 DEF Init
<1>6. changes \in 0 .. MaxChanges /\ hiccups \in 0 .. MaxHiccups
  <2>1. changes = 0 /\ hiccups = 0
    BY DEF Init
  <2>. QED
    BY <2>1, BoundsAssumption
<1>7. queued \in BOOLEAN
  BY Zenon DEF Init
<1>. QED
  BY <1>2, <1>3, <1>5, <1>6, <1>7 DEF TypeOK

\* Every reachable state is well-typed, whatever the components and what they implement.
THEOREM TypeCorrect == Spec => []TypeOK
<1>. QED
  BY TypeInit, TypeStep, PTL DEF Spec

-----------------------------------------------------------------------------
(* Combine *)

\* Whatever is combined is heeded, and stays so (Combine).
LEMMA CombineHeeds == ASSUME NEW x \in Answer, NEW y \in Answer
                      PROVE /\ Heeds(Combine(x, y), y)
                            /\ \A z \in Answer : Heeds(x, z) => Heeds(Combine(x, y), z)
<1>1. /\ x.result.after \in Nat /\ y.result.after \in Nat
      /\ x.result.requeue \in BOOLEAN /\ y.result.requeue \in BOOLEAN
      /\ x.err \in BOOLEAN /\ y.err \in BOOLEAN
  BY BoundsAssumption DEF Answer, Result
<1>2. \A w \in Nat : w > 0 /\ x.result.after \in 1 .. w => Sooner(x.result.after, y.result.after) \in 1 .. w
  BY <1>1 DEF Sooner
<1>3. y.result.after > 0 => Sooner(x.result.after, y.result.after) \in 1 .. y.result.after
  BY <1>1 DEF Sooner
<1>4. \A z \in Answer : z.result.after \in Nat
  BY BoundsAssumption DEF Answer, Result
<1>. QED
  BY <1>1, <1>2, <1>3, <1>4 DEF Combine, Heeds

\* The combined answer does not depend on the order in which the components answer, nor on how often one
\* says the same: the wait is the shortest of those that are asked for (Combine).
THEOREM CombineOrder ==
  ASSUME NEW x \in Answer, NEW y \in Answer, NEW z \in Answer
  PROVE  /\ Combine(Combine(x, y), z) = Combine(Combine(x, z), y)
         /\ Combine(Combine(x, y), y) = Combine(x, y)
<1>1. /\ x.result.after \in Nat /\ y.result.after \in Nat /\ z.result.after \in Nat
      /\ x.result.requeue \in BOOLEAN /\ y.result.requeue \in BOOLEAN /\ z.result.requeue \in BOOLEAN
      /\ x.err \in BOOLEAN /\ y.err \in BOOLEAN /\ z.err \in BOOLEAN
  BY BoundsAssumption DEF Answer, Result
<1>2. \A a, b, c \in Nat : Sooner(Sooner(a, b), c) = Sooner(Sooner(a, c), b)
  BY DEF Sooner
<1>3. \A a, b \in Nat : Sooner(Sooner(a, b), b) = Sooner(a, b)
  BY DEF Sooner
<1>4. \A a, b, c \in BOOLEAN : ((a \/ b) \/ c) = ((a \/ c) \/ b) /\ ((a \/ b) \/ b) = (a \/ b)
  OBVIOUS
<1>. QED
  BY <1>1, <1>2, <1>3, <1>4 DEF Combine

\* Only what asks for nothing combines to nothing (Combine).
LEMMA CombineDone == ASSUME NEW x \in Answer, NEW y \in Answer, Combine(x, y) = Done
                     PROVE x = Done /\ y = Done
<1>1. /\ x = [result |-> [requeue |-> x.result.requeue, after |-> x.result.after], err |-> x.err]
      /\ y = [result |-> [requeue |-> y.result.requeue, after |-> y.result.after], err |-> y.err]
  BY DEF Answer, Result
<1>2. /\ x.result.after \in Nat /\ y.result.after \in Nat
      /\ x.result.requeue \in BOOLEAN /\ y.result.requeue \in BOOLEAN
      /\ x.err \in BOOLEAN /\ y.err \in BOOLEAN
  BY BoundsAssumption DEF Answer, Result
<1>3. ~x.err /\ ~y.err /\ ~x.result.requeue /\ ~y.result.requeue
      /\ Sooner(x.result.after, y.result.after) = 0
  BY <1>2 DEF Combine, Done, Nothing
<1>4. x.result.after = 0 /\ y.result.after = 0
  BY <1>2, <1>3 DEF Sooner
<1>. QED
  BY <1>1, <1>2, <1>3, <1>4 DEF Done, Nothing

\* An error is something to come back for (CombineErr).
LEMMA CombineErrNotDone == ASSUME NEW x \in Answer PROVE CombineErr(x) # Done
  BY DEF CombineErr, Combine, Error, Done

-----------------------------------------------------------------------------
(* Steps *)

\* What a call is about stays: the order, the place and who had their turn (Handle).
Keeps == call'.place = call.place /\ call'.inverse = call.inverse /\ call'.heard = call.heard

\* A new call has heard nobody, and its answer is empty (Handle).
LEMMA NewCallFields == ASSUME NEW at, call' = NewCall(at)
                       PROVE /\ call'.at = at /\ call'.copy = object /\ call'.inverse = object.deleting
                             /\ call'.place = 1 /\ call'.heard = {} /\ call'.combined = Done
                             /\ \A c \in Components : call'.answers[c] = Done
  BY DEF NewCall

\* The head of the loop changes neither place nor answers (Handle).
LEMMA StartFields == ASSUME TypeOK, Start \/ StartFails
                     PROVE /\ Keeps /\ call.at = "start" /\ call'.at = "dispatch"
                           /\ call'.answers = call.answers
                           /\ call'.copy \in {call.copy, object}
                           /\ call'.combined \in {call.combined, CombineErr(call.combined)}
<1>1. call \in Call
  BY DEF TypeOK
<1>2. CASE Start
  <2>1. \E copy \in {call.copy, object} : call' = [call EXCEPT !.at = "dispatch", !.copy = copy]
    BY <1>1, <1>2 DEF Start, Call
  <2>. QED
    BY <1>1, <1>2, <2>1 DEF Start, Keeps, Call
<1>3. CASE StartFails
  BY <1>1, <1>3 DEF StartFails, Keeps, Call
<1>. QED
  BY <1>2, <1>3

\* The component's turn to answer (its Reconcile).
LEMMA AnswerFields == ASSUME TypeOK, NEW answer \in Answer, Answers(answer)
                      PROVE /\ Keeps /\ call.at = "dispatch" /\ call'.at = "report"
                            /\ call'.combined = call.combined
                            /\ call'.copy \in {call.copy, object}
                            /\ call'.answers = [call.answers EXCEPT ![Current] = answer]
<1>1. call \in Call
  BY DEF TypeOK
<1>2. PICK copy \in {call.copy, object} :
         call' = [call EXCEPT !.at = "report", !.copy = copy, !.answers[Current] = answer]
  BY DEF Answers
<1>3. call' = [call EXCEPT !.at = "report", !.copy = copy,
                           !.answers = [call.answers EXCEPT ![Current] = answer]]
  BY <1>1, <1>2 DEF Call
<1>4. call.at = "dispatch"
  BY DEF Answers, Dispatches
<1>. HIDE DEF Call
<1>. QED
  BY <1>1, <1>3, <1>4 DEF Keeps, Call

\* The report changes neither place nor answers (Handle).
LEMMA ReportFields == ASSUME TypeOK, Report \/ ReportFails
                      PROVE /\ Keeps /\ call.at = "report" /\ call'.at = "finish"
                            /\ call'.answers = call.answers
                            /\ call'.copy \in {call.copy, object}
                            /\ call'.combined \in {call.combined, CombineErr(call.combined)}
<1>1. call \in Call
  BY DEF TypeOK
<1>2. CASE Report
  <2>1. \E copy \in {call.copy, object} : call' = [call EXCEPT !.at = "finish", !.copy = copy]
    BY <1>1, <1>2 DEF Report, Call
  <2>. QED
    BY <1>1, <1>2, <2>1 DEF Report, Keeps, Call
<1>3. CASE ReportFails
  BY <1>1, <1>3 DEF ReportFails, Keeps, Call
<1>. QED
  BY <1>2, <1>3

\* The next component's turn (the loop of Handle).
LEMMA NextFields == ASSUME TypeOK, NEW combined, NextComponent(combined)
                    PROVE /\ call'.place = call.place + 1 /\ call'.inverse = call.inverse
                          /\ call'.heard = call.heard \cup {Current}
                          /\ call'.at = (IF call.place < N THEN "start" ELSE "return")
                          /\ call'.answers = call.answers /\ call'.copy = call.copy
                          /\ call'.combined = combined
  BY DEF TypeOK, NextComponent, After, Call

\* The end of the loop (Handle).
LEMMA ReturnFields == ASSUME TypeOK, NEW combined, Return(combined)
                      PROVE /\ Keeps /\ call'.at = "return" /\ call'.answers = call.answers
                            /\ call'.copy = call.copy /\ call'.combined = combined
  BY DEF TypeOK, Return, Call, Keeps

\* Both ends of a component's turn leave the answers alone and set the combined one (Handle).
LEMMA ProceedFields == ASSUME TypeOK, NEW combined, NextComponent(combined) \/ Return(combined)
                       PROVE /\ call'.answers = call.answers /\ call'.combined = combined
                             /\ call'.copy = call.copy /\ call'.inverse = call.inverse
                             /\ call'.at \in {"start", "return"}
  BY NextFields, ReturnFields DEF Keeps

\* Where a call under way is and what it has combined so far have their types (Handle).
LEMMA Busy == ASSUME TypeOK, call.at \notin {"idle", "return"}
              PROVE /\ call \in Call /\ call.place \in Components /\ Current \in Components
                    /\ call.combined \in Answer /\ CurrentAnswer \in Answer
                    /\ CombineErr(call.combined) \in Answer
                    /\ Combine(call.combined, CurrentAnswer) \in Answer
                    /\ \A c \in Components : call.answers[c] \in Answer
<1>1. call \in Call /\ call.place \in Components
  BY DEF TypeOK
<1>2. Current \in Components
  BY <1>1, AtType DEF Current
<1>3. call.combined \in Answer /\ \A c \in Components : call.answers[c] \in Answer
  BY <1>1 DEF Call
<1>. QED
  BY <1>1, <1>2, <1>3, CombineType, CombineErrType DEF CurrentAnswer

-----------------------------------------------------------------------------
(* Every answer is heeded *)

\* An answer that asks for nothing is heeded (Combine).
LEMMA DoneHeeded == ASSUME NEW x PROVE Heeds(x, Done)
  BY DEF Heeds, Done, Nothing

\* An error added to what is combined forgets nothing (CombineErr).
LEMMA CombineErrHeeds == ASSUME NEW x \in Answer, NEW z \in Answer, Heeds(x, z)
                         PROVE Heeds(CombineErr(x), z)
  BY CombineHeeds, OwnAnswers DEF CombineErr

\* Every step keeps the answers heeded.
LEMMA HeededStep == ASSUME TypeOK, Heeded, [Next]_vars PROVE Heeded'
<1>new. ASSUME NEW at, call' = NewCall(at) PROVE Heeded'
  BY <1>new, NewCallFields, DoneHeeded DEF Heeded
<1>0. CASE UNCHANGED call
  BY <1>0 DEF Heeded, InFlight, Current
<1>1. CASE Start \/ StartFails
  <2>1. \A c \in Components : Heeds(call.combined, call.answers[c])
    BY <1>1, StartFields DEF Heeded, InFlight
  <2>. QED
    BY <1>1, <2>1, StartFields, Busy, CombineErrHeeds DEF Heeded
<1>2. CASE Skip \/ Turn
  <2>1. \A c \in Components : Heeds(call.combined, call.answers[c])
    BY <1>2 DEF Heeded, InFlight, Skip, Turn
  <2>2. call.at = "dispatch" /\ \E y \in Answer : call'.combined \in {call.combined, Combine(call.combined, y)}
    BY <1>2, ProceedFields, OwnAnswers DEF Skip, Turn
  <2>3. call'.answers = call.answers
    BY <1>2, ProceedFields DEF Skip, Turn
  <2>. QED
    BY <2>1, <2>2, <2>3, Busy, CombineHeeds DEF Heeded
<1>3. ASSUME NEW answer \in Answer, Answers(answer) PROVE Heeded'
  <2>1. \A c \in Components : Heeds(call.combined, call.answers[c])
    BY <1>3, AnswerFields DEF Heeded, InFlight
  <2>2. InFlight' /\ Current' = Current /\ call'.combined = call.combined
    BY <1>3, AnswerFields DEF InFlight, Current, Keeps
  <2>3. \A c \in Components : c # Current => call'.answers[c] = call.answers[c]
    BY <1>3, AnswerFields, Busy DEF Call
  <2>. QED
    BY <2>1, <2>2, <2>3 DEF Heeded
<1>4. CASE Report \/ ReportFails
  <2>1. InFlight' /\ Current' = Current /\ InFlight
    BY <1>4, ReportFields DEF InFlight, Current, Keeps
  <2>. QED
    BY <1>4, <2>1, ReportFields, Busy, CombineErrHeeds DEF Heeded
<1>5. ASSUME call.at = "finish", NEW combined,
             combined \in {Combine(call.combined, CurrentAnswer), CombineErr(Combine(call.combined, CurrentAnswer))},
             Proceed(combined)
      PROVE Heeded'
  <2>1. NextComponent(combined) \/ Return(combined)
    BY <1>5 DEF Proceed
  <2>2. \A c \in Components : Heeds(Combine(call.combined, CurrentAnswer), call.answers[c])
    BY <1>5, Busy, CombineHeeds DEF Heeded, CurrentAnswer
  <2>3. \A c \in Components : Heeds(combined, call.answers[c])
    BY <1>5, <2>2, Busy, CombineErrHeeds
  <2>. QED
    BY <2>1, <2>3, ProceedFields DEF Heeded
<1>6. CASE Finish \/ FinishFails
  BY <1>5, <1>6 DEF Finish, FinishFails
<1>7. CASE Completes \/ Postpones
  BY <1>3, <1>7, OwnAnswers DEF Completes, Postpones
<1>8. CASE Begin \/ End \/ Crash
  BY <1>8, <1>new DEF Begin, End, Crash
<1>9. CASE Change \/ BeginFails \/ UNCHANGED vars
  BY <1>0, <1>9 DEF Change, BeginFails, vars
<1>. QED
  BY <1>1, <1>2, <1>4, <1>6, <1>7, <1>8, <1>9 DEF Next, Progress, Failure

\* A fresh call has nothing to heed.
LEMMA HeededInit == ASSUME Init PROVE Heeded
  BY DoneHeeded DEF Init, NewCall, Heeded

\* What Handle returns answers every component that ran, however many there are.
THEOREM AnswersCorrect == Spec => []AnswersEveryone
<1>1. Heeded => AnswersEveryone
  BY DEF Heeded, AnswersEveryone, Heeds, InFlight
<1>. QED
  BY TypeInit, TypeStep, HeededInit, HeededStep, <1>1, PTL DEF Spec

-----------------------------------------------------------------------------
(* The order of the components *)

Ordered == HeardPlaces /\ HeardWell /\ Unheard

\* No component comes twice (ComponentReconcilers.Get).
LEMMA AtInjective == ASSUME NEW p \in 1 .. N + 1, NEW q \in 1 .. N + 1, NEW inverse,
                            At(p, inverse) = At(q, inverse)
                     PROVE p = q
  BY ComponentsAssumption DEF At

\* Every component has a place (ComponentReconcilers.Get).
LEMMA AtSurjective == ASSUME NEW c \in Components, NEW inverse
                      PROVE \E p \in Components : At(p, inverse) = c
<1>1. At(c, inverse) \in Components /\ At(At(c, inverse), inverse) = c
  BY ComponentsAssumption DEF At, Components
<1>. QED
  BY <1>1

\* The component whose turn it is has not had it (the loop of Handle).
LEMMA CurrentUnheard == ASSUME TypeOK, HeardPlaces, call.at # "idle" PROVE Current \notin call.heard
<1>1. call.place \in 1 .. N + 1
  BY DEF TypeOK, Call
<1>2. SUFFICES ASSUME NEW p \in 1 .. call.place - 1, At(p, call.inverse) = At(call.place, call.inverse)
               PROVE FALSE
  BY DEF HeardPlaces, Current
<1>3. p \in 1 .. N + 1 /\ p # call.place
  BY <1>1, ComponentsAssumption
<1>. QED
  BY <1>1, <1>2, <1>3, AtInjective

\* A component that goes on to the next one, having succeeded unless it may fail, keeps the order.
LEMMA NextOrdered == ASSUME TypeOK, Ordered, call.at \notin {"idle", "return"}, NEW combined,
                            NextComponent(combined),
                            Current \in Mandatory => ~CurrentAnswer.err
                     PROVE Ordered'
<1>1. call.place \in 1 .. N /\ N \in Nat
  BY ComponentsAssumption DEF TypeOK, Components
<1>2. call'.heard = {At(p, call.inverse) : p \in 1 .. call'.place - 1}
  <2>1. 1 .. call'.place - 1 = (1 .. call.place - 1) \cup {call.place}
    BY <1>1, NextFields
  <2>. QED
    BY <2>1, NextFields DEF HeardPlaces, Ordered, Current
<1>3. HeardPlaces'
  BY <1>2, NextFields DEF HeardPlaces
<1>4. HeardWell'
  BY NextFields DEF HeardWell, Ordered, CurrentAnswer
<1>5. Unheard'
  BY NextFields DEF Unheard, Ordered
<1>. QED
  BY <1>3, <1>4, <1>5 DEF Ordered

\* Returning keeps the order.
LEMMA ReturnOrdered == ASSUME TypeOK, Ordered, call.at # "idle", NEW combined, Return(combined) PROVE Ordered'
<1>1. Current' = Current
  BY ReturnFields DEF Current, Keeps
<1>2. HeardPlaces' /\ HeardWell' /\ Unheard'
  BY <1>1, ReturnFields DEF HeardPlaces, HeardWell, Unheard, Ordered, Keeps
<1>. QED
  BY <1>2 DEF Ordered

\* Every step keeps the components in their order.
LEMMA OrderedStep == ASSUME TypeOK, Ordered, [Next]_vars PROVE Ordered'
<1>new. ASSUME NEW at, call' = NewCall(at) PROVE Ordered'
  <2>1. HeardPlaces'
    BY <1>new, NewCallFields DEF HeardPlaces
  <2>2. HeardWell' /\ Unheard'
    BY <1>new, NewCallFields DEF HeardWell, Unheard
  <2>. QED
    BY <2>1, <2>2 DEF Ordered
<1>0. CASE UNCHANGED call
  BY <1>0 DEF Ordered, HeardPlaces, HeardWell, Unheard, Current
<1>stay. ASSUME Keeps, call.at # "idle", call'.answers = call.answers,
                call'.at \in {"start", "dispatch"} => call.at \in {"start", "dispatch"}
         PROVE Ordered'
  BY <1>stay DEF Ordered, HeardPlaces, HeardWell, Unheard, Current, Keeps
<1>1. CASE Start \/ StartFails
  BY <1>1, <1>stay, StartFields
<1>2. CASE Report \/ ReportFails
  BY <1>2, <1>stay, ReportFields
<1>3. ASSUME NEW answer \in Answer, Answers(answer) PROVE Ordered'
  <2>1. Current' = Current /\ Current \notin call.heard
    BY <1>3, AnswerFields, CurrentUnheard DEF Current, Keeps, Ordered
  <2>2. \A c \in Components : c # Current => call'.answers[c] = call.answers[c]
    BY <1>3, AnswerFields, Busy DEF Call
  <2>3. call.heard \in SUBSET Components
    BY DEF TypeOK, Call
  <2>4. Keeps /\ call.at # "idle"
    BY <1>3, AnswerFields
  <2>5. HeardPlaces'
    BY <2>4 DEF HeardPlaces, Ordered, Keeps
  <2>6. HeardWell' /\ Unheard'
    BY <1>3, <2>1, <2>2, <2>3, AnswerFields DEF HeardWell, Unheard, Ordered, Keeps
  <2>. QED
    BY <2>5, <2>6 DEF Ordered
<1>4. CASE Skip
  <2>1. call.at = "dispatch" /\ Current \in Components \ call.heard
    BY <1>4, Busy, CurrentUnheard DEF Skip, Ordered
  <2>2. ~CurrentAnswer.err
    BY <2>1 DEF Ordered, Unheard, CurrentAnswer, Done
  <2>. QED
    BY <1>4, <2>1, <2>2, NextOrdered DEF Skip
<1>5. CASE Turn
  BY <1>5, ReturnOrdered DEF Turn
<1>6. CASE Finish \/ FinishFails
  <2>1. call.at = "finish" /\ \E combined : Proceed(combined)
    BY <1>6 DEF Finish, FinishFails
  <2>2. PICK combined : Proceed(combined)
    BY <2>1
  <2>3. CASE Return(combined)
    BY <2>1, <2>3, ReturnOrdered
  <2>4. CASE ~Stops(Current, CurrentAnswer)
    BY <2>1, <2>2, <2>4, NextOrdered DEF Proceed, Stops
  <2>. QED
    BY <2>2, <2>3, <2>4 DEF Proceed
<1>7. CASE Completes \/ Postpones
  BY <1>3, <1>7, OwnAnswers DEF Completes, Postpones
<1>8. CASE Begin \/ End \/ Crash
  BY <1>8, <1>new DEF Begin, End, Crash
<1>9. CASE Change \/ BeginFails \/ UNCHANGED vars
  BY <1>0, <1>9 DEF Change, BeginFails, vars
<1>. QED
  BY <1>1, <1>2, <1>4, <1>5, <1>6, <1>7, <1>8, <1>9 DEF Next, Progress, Failure

\* A fresh call has heard nobody.
LEMMA OrderedInit == ASSUME Init PROVE Ordered
  BY DEF Init, NewCall, Ordered, HeardPlaces, HeardWell, Unheard

\* What precedes the current component was heard.
LEMMA InOrderStep == ASSUME TypeOK, Ordered, [Next]_vars, call.at = "dispatch", call'.at = "report",
                            NEW d \in Components, Precedes(d, Current, call.copy.deleting)
                     PROVE d \in call.heard /\ (d \in Mandatory => ~call.answers[d].err)
<1>1. Dispatches
  <2>1. CASE Completes \/ Postpones
    BY <2>1 DEF Completes, Postpones, Answers
  <2>2. CASE Skip \/ Turn
    BY <2>2, ProceedFields DEF Skip, Turn
  <2>3. CASE Begin \/ End \/ Crash
    BY <2>3 DEF Begin, End, Crash, NewCall
  <2>4. CASE Start \/ StartFails \/ Report \/ ReportFails \/ Finish \/ FinishFails \/ Change \/ BeginFails \/ UNCHANGED vars
    BY <2>4 DEF Start, StartFails, Report, ReportFails, Finish, FinishFails, Change, BeginFails, vars
  <2>. QED
    BY <2>1, <2>2, <2>3, <2>4 DEF Next, Progress, Failure
<1>2. call.copy.deleting = call.inverse
  BY <1>1 DEF Dispatches, Turns
<1>3. PICK p \in Components : At(p, call.inverse) = d
  BY AtSurjective
<1>4. call.place \in Components /\ call.at # "idle"
  BY DEF TypeOK
<1>5. p < call.place
  BY <1>2, <1>3, <1>4, ComponentsAssumption DEF Precedes, Current, At, Components
<1>6. d \in call.heard
  BY <1>3, <1>4, <1>5, ComponentsAssumption DEF Ordered, HeardPlaces, Components
<1>. QED
  BY <1>6 DEF Ordered, HeardWell

\* Components are reconciled in the order the object calls for, whatever that order and their number.
THEOREM InOrderCorrect == Spec => InOrder
<1>1. TypeOK /\ Ordered /\ [Next]_vars =>
         [call.at = "dispatch" /\ call'.at = "report" =>
             \A d \in Components :
                 Precedes(d, Current, call.copy.deleting) =>
                     d \in call.heard /\ (d \in Mandatory => ~call.answers[d].err)]_vars
  BY InOrderStep
<1>. QED
  BY TypeInit, TypeStep, OrderedInit, OrderedStep, <1>1, PTL DEF Spec, InOrder

-----------------------------------------------------------------------------
(* Nothing is forgotten *)

\* After the last place everybody had their turn (the loop of Handle).
LEMMA AllHeard == ASSUME TypeOK, HeardPlaces, call.at \notin {"idle", "return"}, ~(call.place < N)
                  PROVE Components \subseteq call.heard \cup {Current}
<1>. SUFFICES ASSUME NEW c \in Components PROVE c \in call.heard \cup {Current}
  OBVIOUS
<1>1. PICK p \in Components : At(p, call.inverse) = c
  BY AtSurjective
<1>2. p \in 1 .. call.place - 1 \/ p = call.place
  BY ComponentsAssumption DEF Components, TypeOK
<1>. QED
  BY <1>1, <1>2 DEF HeardPlaces, Current

\* While nobody touches the object, a call works on it as it is.
LEMMA FreshStep == ASSUME TypeOK, Fresh, [Next]_vars PROVE Fresh'
<1>new. ASSUME NEW at, call' = NewCall(at), object' = object PROVE Fresh'
  BY <1>new, NewCallFields DEF Fresh
<1>stay. ASSUME object' = object, queued' = queued, call.at # "idle",
                call'.copy \in {call.copy, object}, call'.inverse = call.inverse
         PROVE Fresh'
  BY <1>stay DEF Fresh
<1>1. CASE Start \/ StartFails \/ Report \/ ReportFails
  <2>1. object' = object /\ queued' = queued
    BY <1>1 DEF Start, StartFails, Report, ReportFails
  <2>. QED
    BY <1>1, <2>1, <1>stay, StartFields, ReportFields DEF Keeps
<1>2. CASE Skip \/ Turn
  <2>1. object' = object /\ queued' = queued /\ call.at = "dispatch"
    BY <1>2 DEF Skip, Turn
  <2>. QED
    BY <1>2, <2>1, <1>stay, ProceedFields DEF Skip, Turn
<1>3. CASE Completes \/ Postpones
  <2>1. object' = object /\ queued' = queued /\ \E answer \in Answer : Answers(answer)
    BY <1>3, OwnAnswers DEF Completes, Postpones, Answers
  <2>. QED
    BY <2>1, <1>stay, AnswerFields DEF Keeps
<1>4. CASE Finish \/ FinishFails
  <2>1. object' = object /\ queued' = queued /\ call.at = "finish" /\ \E combined : Proceed(combined)
    BY <1>4 DEF Finish, FinishFails
  <2>. QED
    BY <2>1, <1>stay, ProceedFields DEF Proceed
<1>5. CASE Begin \/ End \/ Crash
  BY <1>5, <1>new DEF Begin, End, Crash
<1>6. CASE Change
  BY <1>6 DEF Change, Fresh
<1>7. CASE BeginFails \/ UNCHANGED vars
  BY <1>7 DEF BeginFails, vars, Fresh
<1>. QED
  BY <1>1, <1>2, <1>3, <1>4, <1>5, <1>6, <1>7 DEF Next, Progress, Failure

\* Everything the proof rests on.
Careful == TypeOK /\ Ordered /\ Fresh /\ SoFar /\ NothingForgotten

\* Whoever was settled stays so while only the current component is attended to.
LEMMA SettledStays == ASSUME TypeOK, NEW c \in Components, Settled(c), object' = object, c # Current,
                             \/ UNCHANGED <<status, applied>>
                             \/ \E s : Reports(Current, s) /\ UNCHANGED applied
                             \/ \E s : applied' = [applied EXCEPT ![Current] = s] /\ UNCHANGED status
                      PROVE Settled(c)'
<1>1. applied'[c] = applied[c] /\ (c \in WithStatus => status'[c] = status[c])
  BY DEF Reports, TypeOK
<1>. QED
  BY <1>1 DEF Settled, IsSkipped, Wanted, IsEnabled

\* Every step keeps what was done so far as it should be, and forgets nothing.
LEMMA SoFarStep == ASSUME Careful, [Next]_vars PROVE SoFar' /\ NothingForgotten'
<1> USE DEF Careful
<1>idle. ASSUME call.at # "idle", call'.at # "idle" PROVE NothingForgotten'
  BY <1>idle DEF NothingForgotten
<1>heard. call.at # "idle" => call.heard \in SUBSET Components /\ Current \notin call.heard
  BY CurrentUnheard DEF TypeOK, Call, Ordered
<1>1. CASE Start
  <2>1. Keeps /\ call.at = "start" /\ call'.at = "dispatch"
        /\ Current' = Current /\ object' = object /\ queued' = queued
    BY <1>1, StartFields DEF Start, Keeps, Current
  <2>2. Current \in Components /\ call.combined \in Answer
    BY <2>1, Busy
  <2>3. call'.combined = call.combined
    BY <1>1, <2>1 DEF Start, TypeOK, Call
  <2>4. ASSUME ~queued', call'.combined = Done PROVE /\ \A c \in call'.heard : Settled(c)'
                                                     /\ IsSkipped(Current, object) => status'[Current] = "Unmanaged"
    <3>1. call.copy = object /\ \A c \in call.heard : Settled(c)
      BY <2>1, <2>3, <2>4 DEF Fresh, SoFar
    <3>2. \A c \in call.heard : Settled(c)'
      BY <1>1, <2>1, <3>1, <1>heard, SettledStays DEF Start
    <3>3. IsSkipped(Current, object) => status'[Current] = "Unmanaged"
      BY <1>1, <3>1 DEF Start, Reports, IsSkipped, TypeOK
    <3>. QED
      BY <2>1, <3>2, <3>3 DEF Keeps
  <2>5. IsSkipped(Current, object)' = IsSkipped(Current, object)
    BY <2>1 DEF IsSkipped
  <2>. QED
    BY <2>1, <2>4, <2>5, <1>idle DEF SoFar, InFlight
<1>next. ASSUME call.at \notin {"idle", "return"},
                NextComponent(call'.combined), UNCHANGED <<object, status, applied, queued>>,
                ~queued' /\ call'.combined = Done => call.combined = Done /\ Settled(Current)
         PROVE SoFar'
  <2>1. /\ call'.heard = call.heard \cup {Current} /\ call'.at \in {"start", "return"}
        /\ call'.at = "return" => ~(call.place < N)
    BY <1>next, NextFields
  <2>2. call'.at = "return" => Components \subseteq call'.heard
    BY <1>next, <2>1, AllHeard DEF Ordered
  <2>3. ASSUME ~queued', call'.combined = Done PROVE \A c \in call'.heard : Settled(c)'
    <3>1. \A c \in call.heard : Settled(c)
      BY <1>next, <2>3 DEF SoFar
    <3>2. \A c : Settled(c)' <=> Settled(c)
      BY <1>next DEF Settled, IsSkipped, Wanted, IsEnabled
    <3>. QED
      BY <1>next, <2>1, <2>3, <3>1, <3>2
  <2>. QED
    BY <2>1, <2>2, <2>3 DEF SoFar, InFlight
<1>lost. ASSUME call'.combined # Done, call.at # "idle", call'.at # "idle" PROVE SoFar' /\ NothingForgotten'
  BY <1>lost DEF SoFar, NothingForgotten
<1>error. call.at \notin {"idle", "return"} => CombineErr(call.combined) # Done
  BY Busy, CombineErrNotDone
<1>2. CASE StartFails
  <2>1. call'.combined = CombineErr(call.combined)
    BY <1>2 DEF StartFails, TypeOK, Call
  <2>. QED
    BY <1>2, <2>1, <1>lost, <1>error, StartFields
<1>3. CASE Skip
  <2>1. call.at = "dispatch" /\ IsSkipped(Current, call.copy) /\ NextComponent(call.combined)
        /\ UNCHANGED <<object, status, applied, queued>>
    BY <1>3 DEF Skip
  <2>2. call'.combined = call.combined /\ call'.at # "idle"
    BY <2>1, ProceedFields
  <2>3. ~queued' /\ call'.combined = Done => Settled(Current)
    BY <2>1, <2>2 DEF SoFar, Fresh, Settled
  <2>. QED
    BY <2>1, <2>2, <2>3, <1>next, <1>idle
<1>4. CASE Turn
  <2>1. call.at = "dispatch" /\ call'.combined = Combine(call.combined, Again) /\ call'.at = "return"
    BY <1>4, ReturnFields DEF Turn
  <2>2. Again # Done
    BY DEF Again, Done
  <2>3. call'.combined # Done
    BY <2>1, <2>2, Busy, OwnAnswers, CombineDone
  <2>. QED
    BY <2>1, <2>3, <1>lost
<1>5. CASE Completes
  <2>1. /\ Keeps /\ call.at = "dispatch" /\ call'.at = "report" /\ call'.combined = call.combined
        /\ Current' = Current /\ object' = object /\ queued' = queued /\ status' = status
        /\ applied' = [applied EXCEPT ![Current] = Wanted(Current, call.copy)]
        /\ ~IsSkipped(Current, call.copy)
    BY <1>5, AnswerFields, OwnAnswers DEF Completes, Answers, Dispatches, Keeps, Current
  <2>2. ASSUME ~queued', call'.combined = Done
        PROVE /\ \A c \in call'.heard : Settled(c)'
              /\ ~IsSkipped(Current, object) /\ applied'[Current] = Wanted(Current, object)
    <3>1. call.copy = object /\ \A c \in call.heard : Settled(c)
      BY <2>1, <2>2 DEF Fresh, SoFar
    <3>2. \A c \in call.heard : Settled(c)'
      BY <2>1, <3>1, <1>heard, SettledStays
    <3>3. applied'[Current] = Wanted(Current, object)
      BY <2>1, <3>1, Busy DEF TypeOK
    <3>. QED
      BY <2>1, <3>1, <3>2, <3>3 DEF Keeps
  <2>3. IsSkipped(Current, object)' = IsSkipped(Current, object) /\ Wanted(Current, object)' = Wanted(Current, object)
    BY <2>1 DEF IsSkipped, Wanted, IsEnabled
  <2>4. SoFar'
    BY <2>1, <2>2, <2>3 DEF SoFar
  <2>. QED
    BY <2>1, <2>4, <1>idle
<1>6. CASE Postpones
  <2>1. PICK answer \in Answer \ {Done} : Answers(answer)
    BY <1>6 DEF Postpones
  <2>2. /\ Keeps /\ call.at = "dispatch" /\ call'.at = "report" /\ call'.combined = call.combined
        /\ UNCHANGED <<object, status, applied, queued>> /\ Current' = Current
    BY <1>6, <2>1, AnswerFields DEF Postpones, Answers, Current, Keeps
  <2>3. CurrentAnswer' # Done
    BY <2>1, <2>2, AnswerFields, Busy DEF CurrentAnswer, Call
  <2>4. \A c : Settled(c)' <=> Settled(c)
    BY <2>2 DEF Settled, IsSkipped, Wanted, IsEnabled
  <2>5. SoFar'
    BY <2>2, <2>3, <2>4 DEF SoFar, Keeps
  <2>. QED
    BY <2>2, <2>5, <1>idle
<1>7. CASE Report
  <2>1. Keeps /\ call.at = "report" /\ call'.at = "finish" /\ call'.answers = call.answers
        /\ Current' = Current /\ CurrentAnswer' = CurrentAnswer
        /\ object' = object /\ queued' = queued /\ applied' = applied
    BY <1>7, ReportFields DEF Report, Keeps, Current, CurrentAnswer
  <2>2. call'.combined = call.combined
    BY <1>7 DEF Report, TypeOK, Call
  <2>3. status' = status \/ Reports(Current, StatusAfter)
    BY <1>7 DEF Report
  <2>4. ASSUME ~queued', call'.combined = Done
        PROVE /\ \A c \in call'.heard : Settled(c)'
              /\ CurrentAnswer = Done => /\ ~IsSkipped(Current, object)
                                         /\ applied[Current] = Wanted(Current, object)
                                         /\ Current \in WithStatus =>
                                              status'[Current] = (IF IsEnabled(Current, object) THEN "Available" ELSE "Removed")
    <3>1. /\ call.copy = object /\ \A c \in call.heard : Settled(c)
          /\ CurrentAnswer = Done => /\ ~IsSkipped(Current, object)
                                     /\ applied[Current] = Wanted(Current, object)
      BY <2>1, <2>2, <2>4 DEF Fresh, SoFar, InFlight
    <3>2. \A c \in call.heard : Settled(c)'
      BY <2>1, <2>3, <3>1, <1>heard, SettledStays
    <3>3. ASSUME CurrentAnswer = Done, Current \in WithStatus
          PROVE status'[Current] = (IF IsEnabled(Current, object) THEN "Available" ELSE "Removed")
      <4>1. Reports(Current, StatusAfter) /\ ~CurrentAnswer.err
        BY <1>7, <3>3 DEF Report, HasReport, Done
      <4>. QED
        BY <3>1, <3>3, <4>1 DEF Reports, StatusAfter, TypeOK
    <3>. QED
      BY <2>1, <3>1, <3>2, <3>3 DEF Keeps
  <2>5. IsSkipped(Current, object)' = IsSkipped(Current, object) /\ Wanted(Current, object)' = Wanted(Current, object)
        /\ IsEnabled(Current, object)' = IsEnabled(Current, object)
    BY <2>1 DEF IsSkipped, Wanted, IsEnabled
  <2>6. SoFar'
    BY <2>1, <2>4, <2>5 DEF SoFar
  <2>. QED
    BY <2>1, <2>6, <1>idle
<1>8. CASE ReportFails
  <2>1. call'.combined = CombineErr(call.combined)
    BY <1>8 DEF ReportFails, TypeOK, Call
  <2>. QED
    BY <1>8, <2>1, <1>lost, <1>error, ReportFields
<1>9. CASE Finish
  <2>1. call.at = "finish" /\ Proceed(Combine(call.combined, CurrentAnswer))
        /\ UNCHANGED <<object, status, applied, queued>>
    BY <1>9 DEF Finish
  <2>2. call'.combined = Combine(call.combined, CurrentAnswer) /\ call'.at # "idle"
    BY <2>1, ProceedFields DEF Proceed
  <2>3. call'.combined = Done => call.combined = Done /\ CurrentAnswer = Done
    BY <2>1, <2>2, Busy, CombineDone
  <2>4. CASE call'.combined # Done
    BY <2>1, <2>2, <2>4, <1>lost
  <2>5. CASE call'.combined = Done
    <3>1. NextComponent(call'.combined)
      BY <2>1, <2>2, <2>3, <2>5 DEF Proceed, Stops, Done
    <3>2. ~queued' => Settled(Current)
      BY <2>1, <2>3, <2>5 DEF SoFar, InFlight, Settled
    <3>. QED
      BY <2>1, <2>2, <2>3, <2>5, <3>1, <3>2, <1>next, <1>idle
  <2>. QED
    BY <2>4, <2>5
<1>10. CASE FinishFails
  <2>1. call.at = "finish" /\ Proceed(CombineErr(Combine(call.combined, CurrentAnswer)))
    BY <1>10 DEF FinishFails
  <2>2. call'.combined = CombineErr(Combine(call.combined, CurrentAnswer)) /\ call'.at # "idle"
    BY <2>1, ProceedFields DEF Proceed
  <2>. QED
    BY <2>1, <2>2, Busy, CombineErrNotDone, <1>lost
<1>11. CASE End
  <2>1. call.at = "return" /\ call'.at = "idle" /\ UNCHANGED <<object, status, applied>>
        /\ queued' = (queued \/ call.combined.err \/ call.combined.result # Nothing)
    BY <1>11, NewCallFields DEF End
  <2>2. ASSUME ~queued' PROVE \A c \in Components : Settled(c)'
    <3>1. ~queued /\ ~call.combined.err /\ call.combined.result = Nothing
      BY <2>1, <2>2
    <3>2. call.combined = [result |-> call.combined.result, err |-> call.combined.err]
          /\ call.combined.err \in BOOLEAN
      BY DEF TypeOK, Call, Answer
    <3>3. call.combined = Done
      BY <3>1, <3>2 DEF Done
    <3>4. \A c \in Components : Settled(c)
      BY <2>1, <3>1, <3>3 DEF SoFar
    <3>. QED
      BY <2>1, <3>4 DEF Settled, IsSkipped, Wanted, IsEnabled
  <2>. QED
    BY <2>1, <2>2 DEF SoFar, NothingForgotten
<1>12. CASE Begin
  <2>1. call.at = "idle" /\ call'.at \in {"start", "return"} /\ call'.heard = {}
        /\ (call'.at = "return" => N = 0)
    BY <1>12, NewCallFields DEF Begin
  <2>2. N = 0 => Components = {}
    BY DEF Components
  <2>. QED
    BY <2>1, <2>2 DEF SoFar, NothingForgotten, InFlight
<1>13. CASE Crash \/ Change
  BY <1>13 DEF Crash, Change, SoFar, NothingForgotten
<1>14. CASE BeginFails \/ UNCHANGED vars
  <2>1. UNCHANGED <<object, status, applied, queued, call>>
    BY <1>14 DEF BeginFails, vars
  <2>. QED
    BY <2>1 DEF SoFar, NothingForgotten, InFlight, Settled, Current, CurrentAnswer, IsSkipped, Wanted, IsEnabled
<1>. QED
  BY <1>1, <1>2, <1>3, <1>4, <1>5, <1>6, <1>7, <1>8, <1>9, <1>10, <1>11, <1>12, <1>13, <1>14
     DEF Next, Progress, Failure

\* To begin with, the object is queued.
LEMMA CarefulInit == ASSUME Init PROVE Careful
  BY TypeInit, OrderedInit DEF Init, NewCall, Careful, Fresh, SoFar, NothingForgotten

\* The object leaves the queue only when every component is settled, however many there are, whatever
\* they answer and whatever fails.
THEOREM NothingForgottenCorrect == Spec => []NothingForgotten
<1>1. Careful /\ [Next]_vars => Careful'
  BY TypeStep, OrderedStep, FreshStep, SoFarStep DEF Careful
<1>2. Careful => NothingForgotten
  BY DEF Careful
<1>. QED
  BY CarefulInit, <1>1, <1>2, PTL DEF Spec

-----------------------------------------------------------------------------
(* Dispatcher implements WorkQueue *)

Open == {c \in Components : ~Settled(c)}

\* A step that attends to the current component leaves the others as they are.
LEMMA OthersStay == ASSUME TypeOK, NEW c \in Components, object' = object, c # Current,
                           \/ UNCHANGED <<status, applied>>
                           \/ \E s : Reports(Current, s) /\ UNCHANGED applied
                           \/ \E s : applied' = [applied EXCEPT ![Current] = s] /\ UNCHANGED status
                    PROVE Settled(c)' <=> Settled(c)
<1>1. applied'[c] = applied[c] /\ (c \in WithStatus => status'[c] = status[c])
  BY DEF Reports, TypeOK
<1>. QED
  BY <1>1 DEF Settled, IsSkipped, Wanted, IsEnabled

\* What a step of a call, from its start to its return, makes of the work.
LEMMA CallAttends == ASSUME TypeOK, Start \/ StartFails \/ Skip \/ Turn \/ Completes \/ Postpones
                                    \/ Report \/ ReportFails \/ Finish \/ FinishFails
                     PROVE \E part \in Components : Queue!Attend(part)
<1>1. UNCHANGED <<object, queued>>
  BY DEF Start, StartFails, Skip, Turn, Completes, Postpones, Answers, Report, ReportFails, Finish, FinishFails
<1>2. call.at \notin {"idle", "return"}
  BY DEF Start, StartFails, Skip, Turn, Completes, Postpones, Answers, Dispatches, Report, ReportFails,
         Finish, FinishFails
<1>3. call'.at # "idle"
  <2>1. CASE Start \/ StartFails \/ Report \/ ReportFails
    BY <2>1, StartFields, ReportFields
  <2>2. CASE Skip \/ Turn
    BY <2>2, ProceedFields DEF Skip, Turn
  <2>3. CASE Completes \/ Postpones
    <3>1. \E answer \in Answer : Answers(answer)
      BY <2>3, OwnAnswers DEF Completes, Postpones
    <3>. QED
      BY <3>1, AnswerFields
  <2>4. CASE Finish \/ FinishFails
    <3>1. \E combined : Proceed(combined)
      BY <2>4 DEF Finish, FinishFails
    <3>. QED
      BY <3>1, ProceedFields DEF Proceed
  <2>. QED
    BY <2>1, <2>2, <2>3, <2>4
<1>4. \/ UNCHANGED <<status, applied>>
      \/ \E s : Reports(Current, s) /\ UNCHANGED applied
      \/ \E s : applied' = [applied EXCEPT ![Current] = s] /\ UNCHANGED status
  <2>1. CASE Start
    BY <2>1 DEF Start
  <2>2. CASE Report
    BY <2>2 DEF Report
  <2>3. CASE Completes
    BY <2>3 DEF Completes, Answers
  <2>4. CASE StartFails \/ Skip \/ Turn \/ Postpones \/ ReportFails \/ Finish \/ FinishFails
    BY <2>4 DEF StartFails, Skip, Turn, Postpones, Answers, ReportFails, Finish, FinishFails
  <2>. QED
    BY <2>1, <2>2, <2>3, <2>4
<1>5. PICK part \in Components : part = Current
  BY <1>2, Busy
<1>6. \A c \in Components : c # part => (Settled(c)' <=> Settled(c))
  BY <1>1, <1>4, <1>5, OthersStay
<1>7. \A c : (c \in Open <=> c \in Components /\ ~Settled(c)) /\ (c \in Open' <=> c \in Components /\ ~Settled(c)')
  BY DEF Open
<1>8. Open' = Open \ {part} \/ Open' = Open \cup {part}
  <2>1. CASE Settled(part)'
    <3>1. Open' = Open \ {part}
      BY <1>6, <1>7, <2>1
    <3>. QED
      BY <3>1
  <2>2. CASE ~Settled(part)'
    <3>1. Open' = Open \cup {part}
      BY <1>6, <1>7, <2>2
    <3>. QED
      BY <3>1
  <2>. QED
    BY <2>1, <2>2
<1>9. Queue!Attend(part)
  BY <1>1, <1>2, <1>3, <1>8 DEF Queue!Attend, Open
<1>. QED
  BY <1>9

\* Nothing is settled or unsettled where nothing is written.
LEMMA OpenStays == ASSUME UNCHANGED <<object, status, applied>> PROVE Open' = Open
  BY DEF Open, Settled, IsSkipped, Wanted, IsEnabled

\* Every step of the dispatcher and its surroundings is an abstract step.
LEMMA QueueStep == ASSUME Careful, [Next]_vars PROVE [Queue!Next]_(Queue!vars)
<1>0. TypeOK /\ queued \in BOOLEAN
  BY DEF Careful, TypeOK
<1>1. CASE Start \/ StartFails \/ Skip \/ Turn \/ Completes \/ Postpones
           \/ Report \/ ReportFails \/ Finish \/ FinishFails
  <2>1. \E part \in Components : Queue!Attend(part)
    BY <1>0, <1>1, CallAttends
  <2>. QED
    BY <2>1 DEF Queue!Next
<1>2. CASE Begin
  <2>1. /\ call.at = "idle" /\ queued /\ queued' = FALSE /\ call'.at # "idle"
        /\ UNCHANGED <<object, status, applied>>
    BY <1>2, NewCallFields DEF Begin
  <2>2. Open' = Open
    BY <2>1, OpenStays
  <2>. QED
    BY <2>1, <2>2 DEF Queue!Next, Queue!Take, Open
<1>3. CASE End
  <2>1. /\ call.at = "return" /\ call'.at = "idle" /\ UNCHANGED <<object, status, applied>>
        /\ queued' = (queued \/ call.combined.err \/ call.combined.result # Nothing)
    BY <1>3, NewCallFields DEF End
  <2>2. Open' = Open
    BY <2>1, OpenStays
  <2>3. NothingForgotten'
    BY SoFarStep
  <2>4. ~queued' => Open = {}
    BY <2>1, <2>2, <2>3 DEF NothingForgotten, Open
  <2>5. queued' \in BOOLEAN /\ (queued => queued')
    BY <1>0, <2>1 DEF TypeOK
  <2>. QED
    BY <2>1, <2>2, <2>4, <2>5 DEF Queue!Next, Queue!Release, Open
<1>4. CASE Crash
  <2>1. queued' = TRUE /\ call'.at = "idle" /\ UNCHANGED <<object, status, applied>>
    BY <1>4, NewCallFields DEF Crash
  <2>2. Open' = Open
    BY <2>1, OpenStays
  <2>. QED
    BY <2>1, <2>2 DEF Queue!Next, Queue!Restart, Open
<1>5. CASE Change
  <2>1. queued' = TRUE /\ call' = call
    BY <1>5 DEF Change
  <2>2. Open' \in SUBSET Components
    BY DEF Open
  <2>. QED
    BY <2>1, <2>2 DEF Queue!Next, Queue!Touch, Open
<1>6. CASE BeginFails \/ UNCHANGED vars
  <2>1. UNCHANGED <<queued, call>> /\ UNCHANGED <<object, status, applied>>
    BY <1>6 DEF BeginFails, vars
  <2>2. Open' = Open
    BY <2>1, OpenStays
  <2>. QED
    BY <2>1, <2>2 DEF Queue!vars, Open
<1>. QED
  BY <1>1, <1>2, <1>3, <1>4, <1>5, <1>6 DEF Next, Progress, Failure

\* The dispatcher keeps the promise of WorkQueue, for any components, whatever interfaces they implement,
\* whatever they answer and whatever fails (Dispatcher, Handle).
THEOREM QueueImplementation == Spec => ImplementsWorkQueue
<1>1. Init => Queue!Init
  <2>. SUFFICES ASSUME Init PROVE Queue!Init
    OBVIOUS
  <2>1. queued = TRUE /\ call.at = "idle"
    BY DEF Init, NewCall
  <2>2. Open \in SUBSET Components
    BY DEF Open
  <2>. QED
    BY <2>1, <2>2 DEF Queue!Init, Open
<1>2. Careful /\ [Next]_vars => Careful'
  BY TypeStep, OrderedStep, FreshStep, SoFarStep DEF Careful
<1>3. Careful /\ [Next]_vars => [Queue!Next]_(Queue!vars)
  BY QueueStep
<1>. QED
  BY CarefulInit, <1>1, <1>2, <1>3, PTL DEF Spec, ImplementsWorkQueue, Queue!Spec

-----------------------------------------------------------------------------
(* A call of Handle ends *)

\* How many steps a call has left at most: four for every component to come, and the return.
Stage == CASE call.at = "start" -> 4 [] call.at = "dispatch" -> 3
           [] call.at = "report" -> 2 [] call.at = "finish" -> 1
StepsLeft == CASE call.at = "idle" -> 0
               [] call.at = "return" -> 1
               [] call.at \notin {"idle", "return"} -> 1 + 4 * (N - call.place) + Stage

CallStep == Start \/ StartFails \/ Skip \/ Turn \/ Completes \/ Postpones
            \/ Report \/ ReportFails \/ Finish \/ FinishFails \/ End

FewerLeft == StepsLeft' < StepsLeft

LEMMA StepsCounted == ASSUME TypeOK PROVE StepsLeft \in 0 .. 4 * N + 1
<1>1. call.at \in {"idle", "start", "dispatch", "report", "finish", "return"}
  BY DEF TypeOK, Call
<1>2. call.at \notin {"idle", "return"} => call.place \in 1 .. N
  BY DEF TypeOK, Components
<1>. QED
  BY <1>1, <1>2, ComponentsAssumption DEF StepsLeft, Stage

\* A component is attended to in four steps, and then it is the next one's turn or none's.
LEMMA TurnsRunOut == ASSUME TypeOK, call.at \in {"dispatch", "finish"}, NEW combined,
                            NextComponent(combined) \/ Return(combined)
                     PROVE FewerLeft
<1>1. call.place \in 1 .. N
  BY DEF TypeOK, Components
<1>2. CASE call'.at = "return"
  BY <1>1, <1>2, ComponentsAssumption DEF FewerLeft, StepsLeft, Stage
<1>3. CASE call'.at # "return"
  <2>1. call'.at = "start" /\ call'.place = call.place + 1
    <3>1. call \in Call
      BY DEF TypeOK
    <3>2. ~Return(combined)
      BY <1>3, <3>1, ReturnFields
    <3>. QED
      BY <1>3, <3>1, <3>2 DEF NextComponent, After, Call
  <2>. QED
    BY <1>1, <2>1, ComponentsAssumption DEF FewerLeft, StepsLeft, Stage
<1>. QED
  BY <1>2, <1>3

LEMMA CallRunsOut == ASSUME TypeOK, CallStep PROVE FewerLeft
<1>stay. ASSUME Keeps, call.at \in {"start", "dispatch", "report"},
                \/ call.at = "start" /\ call'.at = "dispatch"
                \/ call.at = "dispatch" /\ call'.at = "report"
                \/ call.at = "report" /\ call'.at = "finish"
         PROVE FewerLeft
  <2>1. call.place \in 1 .. N /\ call'.place = call.place
    BY <1>stay DEF TypeOK, Components, Keeps
  <2>. QED
    BY <1>stay, <2>1, ComponentsAssumption DEF FewerLeft, StepsLeft, Stage
<1>1. CASE Start \/ StartFails
  BY <1>1, <1>stay, StartFields
<1>2. CASE Completes \/ Postpones
  <2>1. \E answer \in Answer : Answers(answer)
    BY <1>2, OwnAnswers DEF Completes, Postpones
  <2>. QED
    BY <2>1, <1>stay, AnswerFields
<1>3. CASE Report \/ ReportFails
  BY <1>3, <1>stay, ReportFields
<1>4. CASE Skip \/ Turn \/ Finish \/ FinishFails
  <2>1. call.at \in {"dispatch", "finish"} /\ \E combined : NextComponent(combined) \/ Return(combined)
    BY <1>4 DEF Skip, Turn, Finish, FinishFails, Proceed
  <2>. QED
    BY <2>1, TurnsRunOut
<1>5. CASE End
  <2>1. call.at = "return" /\ call'.at = "idle"
    BY <1>5, NewCallFields DEF End
  <2>. QED
    BY <2>1 DEF FewerLeft, StepsLeft
<1>. QED
  BY <1>1, <1>2, <1>3, <1>4, <1>5 DEF CallStep

\* A call of Handle ends after at most four steps for each component and the return, whatever fails:
\* no component is attended to twice in a call and the loop has an end (Handle).
THEOREM HandleRunsOut == Spec => [](StepsLeft \in 0 .. 4 * N + 1) /\ [][CallStep => FewerLeft]_vars
<1>1. TypeOK => StepsLeft \in 0 .. 4 * N + 1
  BY StepsCounted
<1>2. TypeOK /\ [Next]_vars => [CallStep => FewerLeft]_vars
  BY CallRunsOut
<1>. QED
  BY <1>1, <1>2, TypeCorrect, PTL DEF Spec
=============================================================================
