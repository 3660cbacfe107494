-------------------------- MODULE ResourceWaitProofs --------------------------
(***************************************************************************)
(* That a call of ResourceWait claims nothing it has not seen.  What is    *)
(* still to be seen is in the call's list of waits: an object leaves the   *)
(* list only when its checks pass, and checks pass only over what a read   *)
(* of this call left behind.  So when a list is empty, everything that was *)
(* put on it was found as its checks ask.                                  *)
(***************************************************************************)
EXTENDS ResourceWait, TLAPS, FiniteSetTheorems

Waiting == [id : Waitables, checks : SUBSET CheckNames]

\* A poll of this call found the object as the checks ask.
Passed(wait) ==
    /\ "established" \in wait.checks /\ wait.id \in Definitions =>
          shown[wait.id] \cap Established # {}
    /\ {"exists", "ready"} \subseteq wait.checks => shown[wait.id] \cap Up(wait.id) # {}
    /\ "nonexists" \in wait.checks => "missing" \in shown[wait.id]

\* It is on the list of waits.
Awaited(wait) == \E i \in DOMAIN job.waits : job.waits[i] = wait

IsReady(id) == [id |-> id, checks |-> {"exists", "ready"}]
IsGone(id) == [id |-> id, checks |-> {"nonexists"}]

\* The types, and that a call is running as long as there is a job.
Typed ==
    /\ plan \in Plans
    /\ condition \in [Waitables -> Conditions]
    /\ shown \in [Waitables -> SUBSET Conditions]
    /\ recorded \in [Present : SUBSET Waitables, Absent : SUBSET Waitables, Purged : SUBSET Waitables]
    /\ job = NoJob \/ (job \in Jobs /\ verdict = "running")

\* The object that is read into holds nothing, or what a poll of this call found of it.
Honest ==
    job # NoJob =>
        job.seen = "blank" \/ (job.waits # <<>> /\ job.seen \in shown[Head(job.waits).id])

\* Before the builders run, every condition has passed or is still waited for.
Checked ==
    InJob("checks") =>
        /\ job.todo = DOMAIN job.want
        /\ \A i \in DOMAIN PreConditions : Passed(PreConditions[i]) \/ Awaited(PreConditions[i])

\* Without an error, what a builder has reconciled is recorded in the state that was wanted.
Built ==
    /\ job # NoJob /\ ~job.failed =>
          \A id \in DOMAIN job.want \ job.todo : id \in recorded[RecordedState(job.want[id])]
    /\ InJob("readiness") \/ InJob("removal") => job.todo = {}

\* What was recorded has been found as it should be, or is still waited for.
Found ==
    /\ InJob("readiness") => \A id \in recorded.Present : Passed(IsReady(id)) \/ Awaited(IsReady(id))
    /\ InJob("removal") =>
          /\ \A id \in recorded.Present : Passed(IsReady(id))
          /\ \A id \in Unwanted : Passed(IsGone(id)) \/ Awaited(IsGone(id))

Seeing == Typed /\ Honest /\ Checked /\ Built /\ Found

-----------------------------------------------------------------------------
(* Lists of waits *)

\* The sequences that SetToSeqs makes of a finite set name all of it.
LEMMA AllNamed ==
    ASSUME NEW S, IsFiniteSet(S), NEW order \in SetToSeqs(S)
    PROVE  /\ order \in Seq(S)
           /\ \A x \in S : \E i \in DOMAIN order : order[i] = x
<1> DEFINE D == 1 .. Cardinality(S)
<1>1. Cardinality(S) \in Nat
    BY FS_CardinalityType
<1>2. order \in [D -> S] /\ \A i, j \in D : i # j => order[i] # order[j]
    BY DEF SetToSeqs
<1>3. order \in Injection(D, S)
    BY <1>2 DEF Injection, IsInjective
<1>4. Cardinality(D) = Cardinality(S)
    <2>1. \A a, b \in Int : Cardinality(a .. b) = IF a > b THEN 0 ELSE b - a + 1
        BY FS_Interval
    <2>2. 1 \in Int /\ Cardinality(S) \in Int
        BY <1>1
    <2>3. Cardinality(1 .. Cardinality(S)) = IF 1 > Cardinality(S) THEN 0 ELSE Cardinality(S) - 1 + 1
        BY <2>1, <2>2
    <2> QED BY <2>3, <1>1
<1>5. order \in Surjection(D, S)
    BY <1>3, <1>4, FS_Injection
<1>6. \A x \in S : \E i \in D : order[i] = x
    BY <1>5 DEF Surjection
<1>7. order \in Seq(S) /\ DOMAIN order = D
    BY <1>1, <1>2
<1> QED BY <1>6, <1>7

\* Of a list, what is not its head is in its tail.
LEMMA HeadOrTail ==
    ASSUME NEW T, NEW list \in Seq(T), list # <<>>
    PROVE  /\ Head(list) \in T /\ Tail(list) \in Seq(T)
           /\ \A i \in DOMAIN list :
                 list[i] = Head(list) \/ \E j \in DOMAIN Tail(list) : Tail(list)[j] = list[i]
<1>1. Head(list) \in T /\ Tail(list) \in Seq(T) /\ Head(list) = list[1]
    OBVIOUS
<1>2. ASSUME NEW i \in DOMAIN list, i # 1
      PROVE  i - 1 \in DOMAIN Tail(list) /\ Tail(list)[i - 1] = list[i]
    BY <1>2
<1> QED BY <1>1, <1>2

\* The waits that are made of the objects' names, one for each.
LEMMA WaitsNamed ==
    ASSUME NEW S \in SUBSET Waitables, NEW order \in Seq(S), NEW checks \in SUBSET CheckNames
    PROVE  LET waits == [i \in DOMAIN order |-> [id |-> order[i], checks |-> checks]]
           IN  /\ waits \in Seq([id : Waitables, checks : SUBSET CheckNames])
               /\ DOMAIN waits = DOMAIN order
               /\ \A i \in DOMAIN order : waits[i] = [id |-> order[i], checks |-> checks]
<1> DEFINE Pairs == [id : Waitables, checks : SUBSET CheckNames]
           Pair(x) == [id |-> x, checks |-> checks]
           waits == [i \in DOMAIN order |-> Pair(order[i])]
<1>1. PICK n \in Nat : DOMAIN order = 1 .. n /\ order \in [1 .. n -> S]
    OBVIOUS
<1>2. \A x \in S : Pair(x) \in Pairs
    OBVIOUS
<1>3. waits \in Seq(Pairs)
    <2> HIDE DEF Pairs, Pair
    <2>1. waits \in [1 .. n -> Pairs]
        BY <1>1, <1>2
    <2> QED BY <2>1
<1> QED BY <1>3

\* Only what is Absent alone is recorded so, and it has no other desired state.
LEMMA RecordedStates ==
    ASSUME NEW states
    PROVE  /\ RecordedState(states) \in {"Present", "Absent"}
           /\ RecordedState(states) = "Absent" => GetDesiredState(states) = "Absent"
           /\ Is(states, "Absent") <=> RecordedState(states) = "Absent"
<1>1. Last(<<Static("Absent")>>).static = "Absent"
    BY DEF Last, Static
<1> QED BY <1>1 DEF RecordedState, Is, GetDesiredState

-----------------------------------------------------------------------------
(* Polls *)

\* What has been found stays so: shown only grows during a phase of a call.
LEMMA PassedStays ==
    ASSUME Typed, NEW wait \in Waiting, \A id \in Waitables : shown[id] \subseteq shown'[id]
    PROVE  Passed(wait) => Passed(wait)'
<1>1. wait.id \in Waitables
    BY DEF Waiting
<1>2. Up(wait.id) = Up(wait.id)'
    BY DEF Up
<1> QED BY <1>1, <1>2 DEF Passed

\* What a read answers: the condition of the object, an error, or that there is no such kind.
Answers(answer, id) ==
    answer = condition[id] \/ answer = "error" \/ (answer = "nomatch" /\ condition[id] = "missing")

\* When the checks of a wait pass, what they ask for has been shown.
LEMMA ChecksAreHonest ==
    ASSUME NEW wait \in Waiting, NEW answer, NEW seen, NEW found, NEW now \in Conditions,
           answer = now \/ answer = "error" \/ (answer = "nomatch" /\ now = "missing"),
           condition[wait.id] = now,
           seen = "blank" \/ seen \in found, answer # "error" => now \in found,
           answer \in Conditions \ {"missing"} => seen = answer,
           \A name \in wait.checks : Check(name, wait.id, answer, seen)
    PROVE  /\ "established" \in wait.checks /\ wait.id \in Definitions => found \cap Established # {}
           /\ {"exists", "ready"} \subseteq wait.checks => found \cap Up(wait.id) # {}
           /\ "nonexists" \in wait.checks => "missing" \in found
<1>1. ASSUME "established" \in wait.checks, wait.id \in Definitions
      PROVE  found \cap Established # {}
    <2>1. Check("established", wait.id, answer, seen)
        BY <1>1
    <2>2. seen \in Established /\ seen # "blank"
        BY <2>1, <1>1 DEF Check, CRDEstablishedConditionCheck, Established
    <2> QED BY <2>2
<1>2. ASSUME {"exists", "ready"} \subseteq wait.checks
      PROVE  found \cap Up(wait.id) # {}
    <2>1. Check("exists", wait.id, answer, seen) /\ Check("ready", wait.id, answer, seen)
        BY <1>2
    <2>2. answer = now /\ now # "missing" /\ seen = now /\ now \in found
        BY <2>1 DEF Check, ExistsConditionCheck, Conditions
    <2>3. wait.id \in Workloads => now \notin {"unready", "stopping"}
        BY <2>1, <2>2 DEF Check, ReadyReplicasConditionCheck
    <2> QED BY <2>2, <2>3 DEF Up, Conditions
<1>3. ASSUME "nonexists" \in wait.checks
      PROVE  "missing" \in found
    <2>1. answer \in {"missing", "nomatch"}
        BY <1>3 DEF Check, NonExistsConditionCheck, Gone
    <2> QED BY <2>1 DEF Conditions
<1> QED BY <1>1, <1>2, <1>3

\* A poll leaves the call in its phase or ends it, and takes a wait off the list only if it passed.
LEMMA PollIsHonest ==
    ASSUME Typed, Honest, Polling, NEW answer, Answers(answer, Head(job.waits).id), Poll(answer)
    PROVE  /\ Typed' /\ Honest'
           /\ \A id \in Waitables : shown[id] \subseteq shown'[id]
           /\ \/ job' = NoJob /\ verdict' = "error"
              \/ /\ job' \in Jobs /\ verdict' = verdict
                 /\ job'.at = job.at /\ job'.want = job.want /\ job'.todo = job.todo /\ job'.failed = job.failed
                 /\ \A wait \in Waiting : Awaited(wait) => Passed(wait)' \/ Awaited(wait)'
<1> DEFINE first == Head(job.waits)
           seen == IF answer \in Conditions \ {"missing"} THEN answer ELSE job.seen
           passes == \A name \in first.checks : Check(name, first.id, answer, seen)
<1>1. job \in Jobs /\ verdict = "running" /\ job # NoJob
    BY DEF Typed, Polling, NoJob
<1>2. /\ job.waits \in Seq(Waiting) /\ job.waits # <<>> /\ job.left \in 1 .. Steps
      /\ job.seen \in Conditions \cup {"blank"}
    BY <1>1 DEF Jobs, Polling, Waiting
<1>3. /\ first \in Waiting /\ Tail(job.waits) \in Seq(Waiting)
      /\ \A i \in DOMAIN job.waits :
            job.waits[i] = first \/ \E j \in DOMAIN Tail(job.waits) : Tail(job.waits)[j] = job.waits[i]
    BY <1>2, HeadOrTail
<1>4. first.id \in Waitables /\ condition[first.id] \in Conditions
    BY <1>3 DEF Waiting, Typed
<1>5. shown' = IF answer # "error" THEN [shown EXCEPT ![first.id] = @ \cup {condition[first.id]}] ELSE shown
    BY DEF Poll
<1>6. /\ shown' \in [Waitables -> SUBSET Conditions]
      /\ \A id \in Waitables : shown[id] \subseteq shown'[id]
      /\ answer # "error" => condition[first.id] \in shown'[first.id]
    BY <1>4, <1>5 DEF Typed
<1>7. UNCHANGED <<plan, condition, recorded>>
    BY DEF Poll
<1>8. seen \in Conditions \cup {"blank"} /\ (seen = "blank" \/ seen \in shown'[first.id])
    <2>1. CASE answer \in Conditions \ {"missing"}
        <3>1. answer = condition[first.id] /\ answer # "error"
            BY <2>1 DEF Answers, Conditions
        <3> QED BY <3>1, <2>1, <1>6
    <2>2. CASE answer \notin Conditions \ {"missing"}
        <3>1. seen = job.seen
            BY <2>2
        <3>2. job.seen = "blank" \/ job.seen \in shown[first.id]
            BY <1>1 DEF Honest
        <3> QED BY <3>1, <3>2, <1>2, <1>4, <1>6
    <2> QED BY <2>1, <2>2
<1>9. CASE passes /\ job' = [job EXCEPT !.waits = Tail(@), !.left = Steps, !.seen = "blank"] /\ UNCHANGED verdict
    <2>1. job' \in Jobs /\ job' # NoJob /\ job'.seen = "blank" /\ job'.waits = Tail(job.waits)
        <3>1. Steps \in 1 .. Steps
            BY StepsAssumption
        <3>2. job'.at \in {"checks", "build", "readiness", "removal"}
            BY <1>9, <1>1 DEF Jobs
        <3> QED BY <3>1, <3>2, <1>9, <1>1, <1>3 DEF Jobs, Waiting, NoJob
    <2>2. /\ job'.at = job.at /\ job'.want = job.want /\ job'.todo = job.todo /\ job'.failed = job.failed
        BY <1>9, <1>1 DEF Jobs
    <2>3. PICK wait \in Waiting : wait = first
        BY <1>3
    <2>4. Passed(wait)'
        <3>1. answer \in Conditions \ {"missing"} => seen = answer
            OBVIOUS
        <3>2. \/ answer = condition[wait.id] \/ answer = "error"
              \/ answer = "nomatch" /\ condition[wait.id] = "missing"
            BY <2>3 DEF Answers
        <3>3. \A name \in wait.checks : Check(name, wait.id, answer, seen)
            BY <1>9, <2>3
        <3>4. /\ condition[wait.id] \in Conditions
              /\ seen = "blank" \/ seen \in shown'[wait.id]
              /\ answer # "error" => condition[wait.id] \in shown'[wait.id]
            BY <2>3, <1>4, <1>6, <1>8
        <3> HIDE DEF seen
        <3>5. /\ "established" \in wait.checks /\ wait.id \in Definitions =>
                    shown'[wait.id] \cap Established # {}
              /\ {"exists", "ready"} \subseteq wait.checks => shown'[wait.id] \cap Up(wait.id) # {}
              /\ "nonexists" \in wait.checks => "missing" \in shown'[wait.id]
            BY <3>1, <3>2, <3>3, <3>4, ChecksAreHonest
        <3> QED BY <3>5 DEF Passed, Up
    <2>5. ASSUME NEW other \in Waiting, Awaited(other)
          PROVE  Passed(other)' \/ Awaited(other)'
        <3>1. PICK i \in DOMAIN job.waits : job.waits[i] = other
            BY <2>5 DEF Awaited
        <3>2. CASE other = first
            BY <3>2, <2>3, <2>4
        <3>3. CASE \E j \in DOMAIN Tail(job.waits) : Tail(job.waits)[j] = other
            BY <3>3, <2>1 DEF Awaited
        <3> QED BY <3>1, <3>2, <3>3, <1>3
    <2>6. Typed' /\ Honest'
        BY <2>1, <1>6, <1>7, <1>9, <1>1 DEF Typed, Honest
    <2> QED BY <1>6, <1>9, <2>1, <2>2, <2>5, <2>6
<1>10. CASE EndJob("error")
    BY <1>6, <1>7, <1>10 DEF EndJob, Typed, Honest
<1>11. CASE ~(PollsLeft = 0) /\ job' = [job EXCEPT !.left = PollsLeft, !.seen = seen] /\ UNCHANGED verdict
    <2>1. PollsLeft \in 1 .. Steps
        BY <1>11, <1>2, StepsAssumption DEF PollsLeft
    <2>2. job' \in Jobs /\ job' # NoJob /\ job'.waits = job.waits /\ job'.seen = seen
        <3>1. job'.at \in {"checks", "build", "readiness", "removal"}
            BY <1>11, <1>1 DEF Jobs
        <3> HIDE DEF seen
        <3> QED BY <2>1, <3>1, <1>11, <1>1, <1>8 DEF Jobs, NoJob
    <2>3. job'.at = job.at /\ job'.want = job.want /\ job'.todo = job.todo /\ job'.failed = job.failed
        BY <1>11, <1>1 DEF Jobs
    <2>4. Typed' /\ Honest'
        BY <2>2, <1>1, <1>2, <1>6, <1>7, <1>8, <1>11 DEF Typed, Honest
    <2>5. \A wait \in Waiting : Awaited(wait) => Awaited(wait)'
        BY <2>2 DEF Awaited
    <2> QED BY <1>6, <1>11, <2>2, <2>3, <2>4, <2>5
<1> QED BY <1>9, <1>10, <1>11 DEF Poll

-----------------------------------------------------------------------------
(* Every step preserves the invariant *)

\* What deletes and damages make of an object is one of the conditions.
LEMMA DeletionIsACondition ==
    ASSUME NEW id
    PROVE  Deletion(id) \subseteq Conditions /\ Damage(id) \subseteq Conditions
<1>1. {"missing", "terminating", "stopping", "outdated", "unready"} \subseteq Conditions
    BY DEF Conditions
<1>2. Deletion(id) \subseteq {"missing", "terminating", "stopping"}
    BY DEF Deletion
<1>3. Damage(id) \subseteq {"stopping", "outdated", "unready"}
    BY DEF Damage
<1> QED BY <1>1, <1>2, <1>3

\* What happens beside the call does not disturb what it has seen.
LEMMA AsidePreserves ==
    ASSUME Seeing, Typed', UNCHANGED <<job, recorded, verdict, shown>>
    PROVE  Seeing'
<1>1. \A wait : Passed(wait) = Passed(wait)' /\ Awaited(wait) = Awaited(wait)'
    BY DEF Passed, Awaited, Up
<1>2. Unwanted = Unwanted'
    BY DEF Unwanted
<1>3. \A i \in DOMAIN PreConditions : PreConditions[i] = PreConditions[i]'
    OBVIOUS
<1> QED BY <1>1, <1>2, <1>3 DEF Seeing, Honest, Checked, Built, Found, InJob, IsReady, IsGone

LEMMA PollPreserves ==
    ASSUME Seeing, Polling, NEW answer, Answers(answer, Head(job.waits).id), Poll(answer)
    PROVE  Seeing'
<1>1. /\ Typed' /\ Honest'
      /\ \A id \in Waitables : shown[id] \subseteq shown'[id]
      /\ \/ job' = NoJob /\ verdict' = "error"
         \/ /\ job' \in Jobs /\ verdict' = verdict
            /\ job'.at = job.at /\ job'.want = job.want /\ job'.todo = job.todo /\ job'.failed = job.failed
            /\ \A wait \in Waiting : Awaited(wait) => Passed(wait)' \/ Awaited(wait)'
    BY PollIsHonest DEF Seeing
<1>2. CASE job' = NoJob
    BY <1>1, <1>2 DEF Seeing, Checked, Built, Found, InJob, NoJob
<1>3. CASE job' # NoJob
    <2>1. /\ job' \in Jobs
          /\ job'.at = job.at /\ job'.want = job.want /\ job'.todo = job.todo /\ job'.failed = job.failed
          /\ \A wait \in Waiting : Awaited(wait) => Passed(wait)' \/ Awaited(wait)'
        BY <1>1, <1>3
    <2>2. job \in Jobs /\ job # NoJob /\ UNCHANGED recorded
        BY DEF Polling, Poll, Seeing, Typed, NoJob
    <2>3. \A wait \in Waiting : (Passed(wait) => Passed(wait)') /\ (Awaited(wait) => Passed(wait)' \/ Awaited(wait)')
        BY <1>1, <2>1, PassedStays DEF Seeing
    <2>4. Checked'
        <3>1. \A i \in DOMAIN PreConditions : PreConditions[i] \in Waiting
            <4>1. PreConditions \in Seq(Waiting)
                BY PreConditionsAssumption, Zenon DEF Waiting
            <4> QED BY <4>1
        <3> QED BY <2>1, <2>3, <3>1 DEF Seeing, Checked, InJob
    <2>5. Built'
        BY <2>1, <2>2 DEF Seeing, Built, InJob
    <2>6. Found'
        <3>1. \A id \in Waitables : IsReady(id) \in Waiting /\ IsGone(id) \in Waiting
            BY DEF IsReady, IsGone, Waiting, CheckNames
        <3>2. recorded.Present \subseteq Waitables /\ Unwanted \subseteq Waitables /\ Unwanted' = Unwanted
            BY <2>2 DEF Seeing, Typed, Unwanted
        <3>3. ASSUME InJob("readiness")', NEW id \in recorded'.Present
              PROVE  Passed(IsReady(id))' \/ Awaited(IsReady(id))'
            <4>1. id \in Waitables /\ (Passed(IsReady(id)) \/ Awaited(IsReady(id)))
                BY <3>2, <3>3, <2>1, <2>2 DEF Seeing, Found, InJob
            <4> QED BY <4>1, <3>1, <2>3
        <3>4. ASSUME InJob("removal")', NEW id \in recorded'.Present
              PROVE  Passed(IsReady(id))'
            <4>1. id \in Waitables /\ Passed(IsReady(id))
                BY <3>2, <3>4, <2>1, <2>2 DEF Seeing, Found, InJob
            <4> QED BY <4>1, <3>1, <2>3
        <3>5. ASSUME InJob("removal")', NEW id \in Unwanted'
              PROVE  Passed(IsGone(id))' \/ Awaited(IsGone(id))'
            <4>1. id \in Waitables /\ (Passed(IsGone(id)) \/ Awaited(IsGone(id)))
                BY <3>2, <3>5, <2>1 DEF Seeing, Found, InJob
            <4> QED BY <4>1, <3>1, <2>3
        <3> QED BY <3>3, <3>4, <3>5 DEF Found
    <2> QED BY <1>1, <2>4, <2>5, <2>6 DEF Seeing
<1> QED BY <1>2, <1>3

\* A builder's success is recorded in the state that was wanted.
LEMMA BuildPreserves ==
    ASSUME Seeing, BuildResource
    PROVE  Seeing'
<1>1. PICK id \in job.todo :
         /\ \E new \in Reconciled(id) : condition' = [condition EXCEPT ![id] = new]
         /\ recorded' = [recorded EXCEPT ![RecordedState(job.want[id])] = @ \cup {id}]
         /\ job' = [job EXCEPT !.todo = @ \ {id}]
    BY DEF BuildResource
<1>2. /\ job \in Jobs /\ job # NoJob /\ job.at = "build" /\ verdict = "running"
      /\ UNCHANGED <<plan, verdict, shown>>
    BY DEF BuildResource, InJob, Seeing, Typed, NoJob
<1>3. id \in Waitables
    BY <1>2 DEF Jobs
<1>4. condition' \in [Waitables -> Conditions]
    <2>1. Reconciled(id) \subseteq Conditions
        <3>1. Deletion(id) \subseteq Conditions
            BY DeletionIsACondition
        <3>2. condition[id] \in Conditions
            BY <1>3 DEF Seeing, Typed
        <3>3. {"unobserved"} \subseteq Conditions
            BY DEF Conditions
        <3> QED BY <3>1, <3>2, <3>3 DEF Reconciled
    <2> QED BY <1>1, <1>3, <2>1 DEF Seeing, Typed
<1>5. /\ job' \in Jobs /\ job' # NoJob /\ job'.at = "build" /\ job'.want = job.want /\ job'.todo = job.todo \ {id}
      /\ job'.waits = job.waits /\ job'.seen = job.seen /\ job'.failed = job.failed
    BY <1>1, <1>2 DEF Jobs, NoJob
<1>6. /\ recorded' \in [Present : SUBSET Waitables, Absent : SUBSET Waitables, Purged : SUBSET Waitables]
      /\ recorded.Present \subseteq recorded'.Present /\ recorded.Absent \subseteq recorded'.Absent
      /\ id \in recorded'[RecordedState(job.want[id])]
    <2>1. CASE RecordedState(job.want[id]) = "Present"
        BY <1>1, <1>3, <2>1 DEF Seeing, Typed
    <2>2. CASE RecordedState(job.want[id]) = "Absent"
        BY <1>1, <1>3, <2>2 DEF Seeing, Typed
    <2> QED BY <2>1, <2>2, RecordedStates
<1>7. Typed'
    BY <1>2, <1>4, <1>5, <1>6 DEF Seeing, Typed
<1>8. Honest' /\ Checked' /\ Found'
    BY <1>2, <1>5 DEF Seeing, Honest, Checked, Found, InJob
<1>9. Built'
    <2>1. ASSUME ~job.failed, NEW other \in DOMAIN job.want \ job'.todo
          PROVE  other \in recorded'[RecordedState(job.want[other])]
        <3>1. CASE other = id
            BY <3>1, <1>6
        <3>2. CASE other # id
            <4>1. other \in recorded[RecordedState(job.want[other])]
                BY <2>1, <3>2, <1>2, <1>5 DEF Seeing, Built
            <4>2. CASE RecordedState(job.want[other]) = "Present"
                BY <4>1, <4>2, <1>6
            <4>3. CASE RecordedState(job.want[other]) = "Absent"
                BY <4>1, <4>3, <1>6
            <4> QED BY <4>2, <4>3, RecordedStates
        <3> QED BY <3>1, <3>2
    <2>2. \A other \in DOMAIN job.want : RecordedState(job.want[other])' = RecordedState(job.want[other])
        BY <1>5 DEF RecordedState, Is
    <2> QED BY <2>1, <1>5 DEF Built, InJob, RecordedState, Is
<1> QED BY <1>7, <1>8, <1>9 DEF Seeing

\* A builder that fails leaves an error behind.
LEMMA BuildFailsPreserves ==
    ASSUME Seeing, BuildResourceFails
    PROVE  Seeing'
<1>1. PICK id \in job.todo : job' = [job EXCEPT !.todo = @ \ {id}, !.failed = TRUE]
    BY DEF BuildResourceFails
<1>2. /\ job \in Jobs /\ job # NoJob /\ job.at = "build" /\ verdict = "running"
      /\ UNCHANGED <<plan, condition, recorded, verdict, shown>>
    BY DEF BuildResourceFails, InJob, Seeing, Typed, NoJob
<1>3. /\ job' \in Jobs /\ job' # NoJob /\ job'.at = "build" /\ job'.failed
      /\ job'.waits = job.waits /\ job'.seen = job.seen
    BY <1>1, <1>2 DEF Jobs, NoJob
<1> QED BY <1>2, <1>3 DEF Seeing, Typed, Honest, Checked, Built, Found, InJob

LEMMA StartCallPreserves ==
    ASSUME Seeing, StartCall
    PROVE  Seeing'
<1>1. /\ job' = [at |-> "checks", want |-> plan, todo |-> DOMAIN plan, waits |-> PreConditions,
                 left |-> Steps, seen |-> "blank", failed |-> FALSE]
      /\ verdict' = "running" /\ shown' = [id \in Waitables |-> {}]
      /\ UNCHANGED <<plan, condition, recorded>>
    BY DEF StartCall
<1>2. plan \in Plans /\ DOMAIN plan \subseteq Waitables
    BY PlansAssumption DEF Seeing, Typed
<1>3. job' \in Jobs /\ job' # NoJob
    BY <1>1, <1>2, StepsAssumption, PreConditionsAssumption DEF Jobs, NoJob
<1>4. Typed' /\ Honest'
    BY <1>1, <1>3 DEF Seeing, Typed, Honest
<1>5. \A i \in DOMAIN PreConditions : Awaited(PreConditions[i])'
    BY <1>1 DEF Awaited
<1> QED BY <1>1, <1>4, <1>5 DEF Seeing, Checked, Built, Found, InJob

LEMMA StartReconcilePreserves ==
    ASSUME Seeing, StartReconcile
    PROVE  Seeing'
<1>1. /\ job \in Jobs /\ job # NoJob /\ job.at = "checks" /\ job.waits = <<>> /\ verdict = "running"
      /\ job' = [job EXCEPT !.at = "build"]
      /\ recorded' = IF reused THEN recorded ELSE Nothing
      /\ shown' = [id \in Waitables |-> {}]
      /\ UNCHANGED <<plan, condition, verdict>>
    BY DEF StartReconcile, InJob, Seeing, Typed, NoJob
<1>2. /\ job' \in Jobs /\ job' # NoJob /\ job'.at = "build" /\ job'.todo = DOMAIN job'.want
      /\ job'.waits = <<>> /\ job'.seen = "blank"
    <2>1. job.todo = DOMAIN job.want /\ job.seen = "blank"
        BY <1>1 DEF Seeing, Checked, Honest, InJob
    <2> QED BY <2>1, <1>1 DEF Jobs, NoJob
<1>3. Typed'
    BY <1>1, <1>2 DEF Seeing, Typed, Nothing
<1> QED BY <1>2, <1>3 DEF Seeing, Honest, Checked, Built, Found, InJob

\* Everything that is recorded as present goes on the list.
LEMMA PurgeAndWaitPreserves ==
    ASSUME Seeing, PurgeAndWait
    PROVE  Seeing'
<1>1. /\ job \in Jobs /\ job # NoJob /\ job.at = "build" /\ job.todo = {} /\ verdict = "running"
      /\ UNCHANGED <<plan, verdict, shown>>
    BY DEF PurgeAndWait, InJob, Seeing, Typed, NoJob
<1>2. /\ condition' \in [Waitables -> Conditions]
      /\ recorded' \in [Present : SUBSET Waitables, Absent : SUBSET Waitables, Purged : SUBSET Waitables]
      /\ recorded'.Present = recorded.Present /\ recorded'.Absent = recorded.Absent
    BY DEF PurgeAndWait, Seeing, Typed
<1>3. IsFiniteSet(recorded.Present) /\ recorded.Present \subseteq Waitables
    BY WaitablesAssumption, FS_Subset DEF Seeing, Typed
<1>4. PICK order \in SetToSeqs(recorded.Present) :
         job' = [job EXCEPT !.at = "readiness", !.left = Steps, !.seen = "blank",
                    !.waits = [i \in DOMAIN order |-> [id |-> order[i], checks |-> {"exists", "ready"}]]]
    BY DEF PurgeAndWait, Readiness
<1>5. order \in Seq(recorded.Present) /\ \A id \in recorded.Present : \E i \in DOMAIN order : order[i] = id
    BY <1>3, <1>4, AllNamed
<1> DEFINE waits == [i \in DOMAIN order |-> [id |-> order[i], checks |-> {"exists", "ready"}]]
<1>6. /\ waits \in Seq([id : Waitables, checks : SUBSET CheckNames]) /\ DOMAIN waits = DOMAIN order
      /\ \A i \in DOMAIN order : waits[i] = [id |-> order[i], checks |-> {"exists", "ready"}]
    <2>1. {"exists", "ready"} \in SUBSET CheckNames
        BY DEF CheckNames
    <2> QED BY <1>3, <1>5, <2>1, WaitsNamed, ZenonT(60)
<1>7. /\ job' \in Jobs /\ job' # NoJob /\ job'.at = "readiness" /\ job'.waits = waits /\ job'.seen = "blank"
      /\ job'.want = job.want /\ job'.todo = {} /\ job'.failed = job.failed
    <2>1. job' = [job EXCEPT !.at = "readiness", !.left = Steps, !.seen = "blank", !.waits = waits]
        BY <1>4
    <2>2. waits \in Seq([id : Waitables, checks : SUBSET CheckNames])
        BY <1>6
    <2> HIDE DEF waits
    <2>3. /\ job'.at = "readiness" /\ job'.waits = waits /\ job'.seen = "blank"
          /\ job'.want = job.want /\ job'.todo = job.todo /\ job'.failed = job.failed
        BY <2>1, <1>1 DEF Jobs
    <2>4. 1 \in 1 .. Steps /\ Steps \in 1 .. Steps
        BY StepsAssumption
    <2>5. job' \in Jobs
        BY <2>1, <2>2, <2>4, <1>1 DEF Jobs
    <2> QED BY <2>3, <2>5, <1>1 DEF NoJob
<1>8. Typed' /\ Honest' /\ Checked'
    BY <1>1, <1>2, <1>7 DEF Seeing, Typed, Honest, Checked, InJob
<1>9. Built'
    <2>1. ASSUME ~job.failed, NEW id \in DOMAIN job.want
          PROVE  id \in recorded'[RecordedState(job.want[id])]
        <3>1. id \in recorded[RecordedState(job.want[id])]
            BY <2>1, <1>1 DEF Seeing, Built
        <3>2. CASE RecordedState(job.want[id]) = "Present"
            BY <3>1, <3>2, <1>2
        <3>3. CASE RecordedState(job.want[id]) = "Absent"
            BY <3>1, <3>3, <1>2
        <3> QED BY <3>2, <3>3, RecordedStates
    <2> QED BY <2>1, <1>7 DEF Built, RecordedState, Is
<1>10. Found'
    <2>1. \A id \in recorded'.Present : Awaited(IsReady(id))'
        <3> HIDE DEF waits
        <3> QED BY <1>2, <1>5, <1>6, <1>7 DEF Awaited, IsReady
    <2> QED BY <2>1, <1>7 DEF Found, InJob
<1> QED BY <1>8, <1>9, <1>10 DEF Seeing

\* Everything that is recorded as absent or purged goes on the list.
LEMMA StartRemovalPreserves ==
    ASSUME Seeing, StartRemoval
    PROVE  Seeing'
<1>1. /\ job \in Jobs /\ job # NoJob /\ job.at = "readiness" /\ job.waits = <<>> /\ verdict = "running"
      /\ UNCHANGED <<plan, condition, recorded, verdict, shown>>
    BY DEF StartRemoval, InJob, Seeing, Typed, NoJob
<1>2. IsFiniteSet(Unwanted) /\ Unwanted \subseteq Waitables
    BY WaitablesAssumption, FS_Subset DEF Seeing, Typed, Unwanted
<1>3. PICK order \in SetToSeqs(Unwanted) :
         job' = [job EXCEPT !.at = "removal", !.left = Steps, !.seen = "blank",
                    !.waits = [i \in DOMAIN order |-> [id |-> order[i], checks |-> {"nonexists"}]]]
    BY DEF StartRemoval
<1>4. order \in Seq(Unwanted) /\ \A id \in Unwanted : \E i \in DOMAIN order : order[i] = id
    BY <1>2, <1>3, AllNamed
<1> DEFINE waits == [i \in DOMAIN order |-> [id |-> order[i], checks |-> {"nonexists"}]]
<1>5. /\ waits \in Seq([id : Waitables, checks : SUBSET CheckNames]) /\ DOMAIN waits = DOMAIN order
      /\ \A i \in DOMAIN order : waits[i] = [id |-> order[i], checks |-> {"nonexists"}]
    <2>1. {"nonexists"} \in SUBSET CheckNames
        BY DEF CheckNames
    <2> QED BY <1>2, <1>4, <2>1, WaitsNamed
<1>6. /\ job' \in Jobs /\ job' # NoJob /\ job'.at = "removal" /\ job'.waits = waits /\ job'.seen = "blank"
      /\ job'.want = job.want /\ job'.todo = job.todo /\ job'.failed = job.failed
    <2>1. job' = [job EXCEPT !.at = "removal", !.left = Steps, !.seen = "blank", !.waits = waits]
        BY <1>3
    <2>2. waits \in Seq([id : Waitables, checks : SUBSET CheckNames])
        BY <1>5
    <2> HIDE DEF waits
    <2>3. /\ job'.at = "removal" /\ job'.waits = waits /\ job'.seen = "blank"
          /\ job'.want = job.want /\ job'.todo = job.todo /\ job'.failed = job.failed
        BY <2>1, <1>1 DEF Jobs
    <2>4. 1 \in 1 .. Steps /\ Steps \in 1 .. Steps
        BY StepsAssumption
    <2>5. job' \in Jobs
        BY <2>1, <2>2, <2>4, <1>1 DEF Jobs
    <2> QED BY <2>3, <2>5, <1>1 DEF NoJob
<1>7. Typed' /\ Honest' /\ Checked' /\ Built'
    BY <1>1, <1>6 DEF Seeing, Typed, Honest, Checked, Built, InJob, RecordedState, Is
<1>8. Found'
    <2>1. ASSUME NEW id \in recorded'.Present
          PROVE  Passed(IsReady(id))'
        <3>1. Passed(IsReady(id))
            BY <1>1 DEF Seeing, Found, InJob, Awaited
        <3> QED BY <3>1, <1>1 DEF Passed, Up
    <2>2. \A id \in Unwanted : Awaited(IsGone(id))'
        <3> HIDE DEF waits
        <3> QED BY <1>4, <1>5, <1>6 DEF Awaited, IsGone
    <2>3. Unwanted' = Unwanted
        BY <1>1 DEF Unwanted
    <2> QED BY <2>1, <2>2, <2>3, <1>6 DEF Found, InJob
<1> QED BY <1>7, <1>8 DEF Seeing

\* Controllers, users and the component's owner change the objects and the plan.
LEMMA OthersPreserve ==
    ASSUME Seeing, (\E id \in Waitables : Settle(id)) \/ Upset \/ ChangePlan
    PROVE  Seeing'
<1>1. UNCHANGED <<job, recorded, verdict, shown>>
    BY DEF Settle, Upset, ChangePlan
<1>2. plan' \in Plans
    BY DEF Settle, Upset, ChangePlan, Seeing, Typed
<1>3. condition' \in [Waitables -> Conditions]
    <2>1. CASE \E id \in Waitables : Settle(id)
        BY <2>1 DEF Settle, Seeing, Typed, Conditions
    <2>2. CASE Upset
        <3>1. PICK id \in Waitables :
                 \E new \in Deletion(id) \cup Damage(id) : condition' = [condition EXCEPT ![id] = new]
            BY <2>2 DEF Upset
        <3>2. Deletion(id) \subseteq Conditions /\ Damage(id) \subseteq Conditions
            BY DeletionIsACondition
        <3> QED BY <3>1, <3>2 DEF Seeing, Typed
    <2>3. CASE ChangePlan
        BY <2>3 DEF ChangePlan, Seeing, Typed
    <2> QED BY <2>1, <2>2, <2>3
<1>4. Typed'
    BY <1>1, <1>2, <1>3 DEF Seeing, Typed
<1> QED BY <1>1, <1>4, AsidePreserves

LEMMA SeeingInitially == WaitInit => Seeing
<1> SUFFICES ASSUME WaitInit PROVE Seeing
    OBVIOUS
<1>1. Typed
    BY DEF WaitInit, Typed, Nothing, Conditions
<1> QED BY <1>1 DEF WaitInit, Seeing, Honest, Checked, Built, Found, InJob, NoJob

LEMMA SeeingPreserved == Seeing /\ [WaitNext]_waitVars => Seeing'
<1> SUFFICES ASSUME Seeing, [WaitNext]_waitVars PROVE Seeing'
    OBVIOUS
<1>1. CASE StartCall
    BY <1>1, StartCallPreserves
<1>2. CASE StartReconcile
    BY <1>2, StartReconcilePreserves
<1>3. CASE BuildResource
    BY <1>3, BuildPreserves
<1>4. CASE BuildResourceFails
    BY <1>4, BuildFailsPreserves
<1>5. CASE PurgeAndWait
    BY <1>5, PurgeAndWaitPreserves
<1>6. CASE StartRemoval
    BY <1>6, StartRemovalPreserves
<1>7. CASE EndCall
    <2>1. job' = NoJob /\ UNCHANGED <<plan, condition, recorded, shown>>
        BY <1>7 DEF EndCall, EndJob
    <2> QED BY <2>1 DEF Seeing, Typed, Honest, Checked, Built, Found, InJob, NoJob
<1>8. CASE PollObject
    BY <1>8, PollPreserves DEF PollObject, Answers
<1>9. CASE PollFails
    BY <1>9, PollPreserves DEF PollFails, Answers
<1>10. CASE (\E id \in Waitables : Settle(id)) \/ Upset \/ ChangePlan
    BY <1>10, OthersPreserve
<1>11. CASE UNCHANGED waitVars
    <2>1. Typed'
        BY <1>11 DEF waitVars, Seeing, Typed
    <2> QED BY <2>1, <1>11, AsidePreserves DEF waitVars
<1> QED BY <1>1, <1>2, <1>3, <1>4, <1>5, <1>6, <1>7, <1>8, <1>9, <1>10, <1>11 DEF WaitNext, WaitProgress

\* In every reachable state, whatever a call has still to see is on its list, and everything else that
\* it was to see has been seen (CheckResourceConditions, waitForResources).
THEOREM SeeingCorrect == WaitSpec => []Seeing
<1> QED BY SeeingInitially, SeeingPreserved, PTL DEF WaitSpec

-----------------------------------------------------------------------------
(* What a call claims *)

\* The builders start, and a call succeeds, only when the list of waits is empty.
LEMMA EndsOfPhases ==
    ASSUME Seeing, [WaitNext]_waitVars
    PROVE  /\ InJob("checks") /\ job'.at = "build" => StartReconcile
           /\ verdict' = "ok" /\ job' # job => EndCall /\ ~job.failed
<1>1. CASE StartCall
    BY <1>1 DEF StartCall, InJob
<1>2. CASE StartReconcile
    BY <1>2 DEF StartReconcile, InJob, Seeing, Typed, NoJob
<1>3. CASE BuildResource \/ BuildResourceFails \/ PurgeAndWait \/ StartRemoval
    <2>1. job.at \in {"build", "readiness"}
        BY <1>3 DEF BuildResource, BuildResourceFails, PurgeAndWait, StartRemoval, InJob
    <2>2. verdict' = verdict
        BY <1>3 DEF BuildResource, BuildResourceFails, PurgeAndWait, StartRemoval
    <2> QED BY <2>1, <2>2 DEF Seeing, Typed, InJob, NoJob
<1>4. CASE EndCall
    BY <1>4 DEF EndCall, EndJob, InJob
<1>5. ASSUME NEW answer, Polling, Answers(answer, Head(job.waits).id), Poll(answer)
      PROVE  verdict' # "ok" /\ ~(InJob("checks") /\ job'.at = "build")
    <2>1. \/ job' = NoJob /\ verdict' = "error"
          \/ verdict' = verdict /\ job'.at = job.at
        BY <1>5, PollIsHonest DEF Seeing
    <2>2. verdict = "running"
        BY <1>5 DEF Seeing, Typed, Polling, NoJob
    <2> QED BY <2>1, <2>2 DEF InJob, NoJob
<1>6. CASE PollObject \/ PollFails
    BY <1>5, <1>6 DEF PollObject, PollFails, Answers
<1>7. CASE (\E id \in Waitables : Settle(id)) \/ Upset \/ ChangePlan \/ UNCHANGED waitVars
    BY <1>7 DEF Settle, Upset, ChangePlan, waitVars, InJob
<1> QED BY <1>1, <1>2, <1>3, <1>4, <1>6, <1>7 DEF WaitNext, WaitProgress

\* WaitedFor, for any objects, plans, conditions and numbers of polls: nothing is built, and no success
\* is claimed, before what it takes was seen (CheckResourceConditions, NativeReconcilerWithWait).
THEOREM WaitedForCorrect == WaitSpec => WaitedFor
<1> DEFINE Claim ==
       /\ InJob("checks") /\ job'.at = "build" =>
          \A i \in DOMAIN PreConditions :
              "established" \in PreConditions[i].checks /\ PreConditions[i].id \in Definitions =>
                  shown[PreConditions[i].id] \cap Established # {}
       /\ verdict' = "ok" /\ job' # job =>
          /\ \A id \in DOMAIN job.want :
                /\ GetDesiredState(job.want[id]) # "Absent" => shown[id] \cap Up(id) # {}
                /\ Is(job.want[id], "Absent") => "missing" \in shown[id]
          /\ \A id \in recorded.Purged : "missing" \in shown[id]
<1>1. ASSUME Seeing, [WaitNext]_waitVars
      PROVE  [Claim]_waitVars
    <2>1. ASSUME InJob("checks"), job'.at = "build", NEW i \in DOMAIN PreConditions
          PROVE  Passed(PreConditions[i])
        <3>1. job.waits = <<>>
            BY <1>1, <2>1, EndsOfPhases DEF StartReconcile
        <3> QED BY <1>1, <2>1, <3>1 DEF Seeing, Checked, Awaited
    <2>2. ASSUME verdict' = "ok", job' # job
          PROVE  /\ \A id \in DOMAIN job.want : id \in recorded[RecordedState(job.want[id])]
                 /\ \A id \in recorded.Present : Passed(IsReady(id))
                 /\ \A id \in Unwanted : Passed(IsGone(id))
        <3>1. job # NoJob /\ job.at = "removal" /\ job.waits = <<>> /\ ~job.failed
            BY <1>1, <2>2, EndsOfPhases DEF EndCall, InJob, NoJob
        <3> QED BY <1>1, <3>1 DEF Seeing, Built, Found, InJob, Awaited
    <2>3. \A id : Passed(IsReady(id)) => shown[id] \cap Up(id) # {}
        BY DEF Passed, IsReady
    <2>4. \A id : Passed(IsGone(id)) => "missing" \in shown[id]
        BY DEF Passed, IsGone
    <2>5. ASSUME verdict' = "ok", job' # job, NEW id \in DOMAIN job.want
          PROVE  /\ GetDesiredState(job.want[id]) # "Absent" => shown[id] \cap Up(id) # {}
                 /\ Is(job.want[id], "Absent") => "missing" \in shown[id]
        <3>1. id \in recorded[RecordedState(job.want[id])]
            BY <2>2, <2>5
        <3>2. CASE RecordedState(job.want[id]) = "Present"
            BY <2>2, <2>3, <2>5, <3>1, <3>2, RecordedStates
        <3>3. CASE RecordedState(job.want[id]) = "Absent"
            BY <2>2, <2>4, <2>5, <3>1, <3>3, RecordedStates DEF Unwanted
        <3> QED BY <3>2, <3>3, RecordedStates
    <2>6. ASSUME verdict' = "ok", job' # job, NEW id \in recorded.Purged
          PROVE  "missing" \in shown[id]
        BY <2>2, <2>4, <2>6 DEF Unwanted
    <2> QED BY <2>1, <2>5, <2>6 DEF Passed
<1> QED BY <1>1, SeeingCorrect, PTL DEF WaitSpec, WaitedFor

-----------------------------------------------------------------------------
(* How far a call is from its end: the phases to come, in a phase the      *)
(* builders to run or the objects to wait for, and the polls left for the  *)
(* first of these.  Triples of numbers in lexicographic order.             *)

Phase ==
    CASE job.at = "checks" -> 4 [] job.at = "build" -> 3 [] job.at = "readiness" -> 2
      [] job.at = "removal" -> 1 [] job.at = "none" -> 0
ToDo == IF job.at = "build" THEN Cardinality(job.todo) ELSE Len(job.waits)

Closer ==
    /\ Phase \in Nat /\ ToDo \in Nat /\ job.left \in Nat
    /\ \/ Phase' < Phase
       \/ Phase' = Phase /\ ToDo' < ToDo
       \/ Phase' = Phase /\ ToDo' = ToDo /\ job'.left < job.left

CallStep == WaitProgress \/ BuildResourceFails \/ PollFails

LEMMA Counted ==
    ASSUME Typed, job # NoJob
    PROVE  /\ job \in Jobs /\ Phase \in Nat /\ ToDo \in Nat /\ job.left \in 1 .. Steps
           /\ job.waits \in Seq(Waiting) /\ IsFiniteSet(job.todo)
<1>1. /\ job \in Jobs /\ job.at \in {"checks", "build", "readiness", "removal"}
      /\ job.todo \subseteq Waitables /\ job.waits \in Seq(Waiting) /\ job.left \in 1 .. Steps
    BY DEF Typed, Jobs, Waiting
<1>2. IsFiniteSet(job.todo)
    BY <1>1, WaitablesAssumption, FS_Subset
<1>3. Cardinality(job.todo) \in Nat
    BY <1>2, FS_CardinalityType
<1>4. Len(job.waits) \in Nat
    BY <1>1
<1>5. Phase \in Nat
    BY <1>1 DEF Phase
<1> QED BY <1>1, <1>2, <1>3, <1>4, <1>5 DEF ToDo

LEMMA BuildersRunOut ==
    ASSUME Typed, BuildResource \/ BuildResourceFails
    PROVE  Closer
<1>1. job # NoJob /\ job.at = "build"
  <2>1. InJob("build")
      BY DEF BuildResource, BuildResourceFails
  <2> QED BY <2>1 DEF InJob, NoJob
<1>2. PICK id \in job.todo : job' = [job EXCEPT !.todo = @ \ {id}] \/ job' = [job EXCEPT !.todo = @ \ {id}, !.failed = TRUE]
    BY DEF BuildResource, BuildResourceFails
<1>3. job \in Jobs /\ Phase \in Nat /\ ToDo \in Nat /\ job.left \in 1 .. Steps /\ IsFiniteSet(job.todo)
    BY <1>1, Counted
<1>4. job'.at = "build" /\ job'.todo = job.todo \ {id}
    BY <1>1, <1>2, <1>3 DEF Jobs
<1>5. Cardinality(job.todo \ {id}) = Cardinality(job.todo) - 1 /\ Cardinality(job.todo) \in Nat
  <2> DEFINE S == job.todo
  <2>1. IsFiniteSet(S) /\ id \in S
      BY <1>2, <1>3
  <2> HIDE DEF S
  <2>2. Cardinality(S \ {id}) = Cardinality(S) - 1 /\ Cardinality(S) \in Nat
      BY <2>1, FS_RemoveElement, FS_CardinalityType
  <2> QED BY <2>2 DEF S
<1>6. Phase' = Phase
    BY <1>1, <1>4 DEF Phase
<1>7. ToDo' < ToDo
    BY <1>1, <1>4, <1>5 DEF ToDo
<1> QED BY <1>3, <1>6, <1>7 DEF Closer

LEMMA PollsRunOut ==
    ASSUME Typed, Polling, NEW answer, Poll(answer)
    PROVE  Closer
<1>1. job # NoJob /\ job.at \in {"checks", "readiness", "removal"} /\ job.waits # <<>>
    BY DEF Polling, NoJob
<1>2. /\ job \in Jobs /\ Phase \in Nat /\ ToDo \in Nat /\ job.left \in 1 .. Steps
      /\ job.waits \in Seq(Waiting)
    BY <1>1, Counted
<1>3. \/ job' = [job EXCEPT !.waits = Tail(@), !.left = Steps, !.seen = "blank"]
      \/ job' = NoJob
      \/ PollsLeft # 0 /\ \E seen : job' = [job EXCEPT !.left = PollsLeft, !.seen = seen]
    BY DEF Poll, EndJob
<1>4. CASE job' = [job EXCEPT !.waits = Tail(@), !.left = Steps, !.seen = "blank"]
  <2>1. job'.at = job.at /\ job'.waits = Tail(job.waits)
      BY <1>2, <1>4 DEF Jobs
  <2>2. Len(Tail(job.waits)) < Len(job.waits)
      BY <1>1, <1>2
  <2>3. Phase' = Phase
      BY <2>1 DEF Phase
  <2>4. ToDo' < ToDo
      BY <1>1, <2>1, <2>2 DEF ToDo
  <2> QED BY <1>2, <2>3, <2>4 DEF Closer
<1>5. CASE job' = NoJob
  <2>1. Phase' = 0 /\ Phase > 0
      BY <1>1, <1>5 DEF Phase, NoJob
  <2> QED BY <1>2, <2>1 DEF Closer
<1>6. ASSUME PollsLeft # 0, NEW seen, job' = [job EXCEPT !.left = PollsLeft, !.seen = seen]
      PROVE  Closer
  <2>1. job'.at = job.at /\ job'.waits = job.waits /\ job'.left = job.left - 1
      BY <1>2, <1>6 DEF Jobs, PollsLeft
  <2>2. Phase' = Phase /\ ToDo' = ToDo
      BY <1>1, <2>1 DEF Phase, ToDo
  <2> QED BY <1>2, <2>1, <2>2 DEF Closer
<1> QED BY <1>3, <1>4, <1>5, <1>6

\* A call takes finitely many steps, whatever the objects, the users and the API do meanwhile: each one
\* leaves it closer to its end.  This is what CallsEnd owes to the code, the rest is that the call goes
\* on (WaitForCustomConditionChecks and its backoff, waitForResources).
THEOREM CallsRunOut == WaitSpec => [][CallStep => Closer]_waitVars
<1>1. ASSUME Typed, CallStep PROVE Closer
  <2>1. CASE BuildResource \/ BuildResourceFails
      BY <1>1, <2>1, BuildersRunOut
  <2>2. CASE PollObject \/ PollFails
    <3>1. Polling /\ \E answer : Poll(answer)
        BY <2>2 DEF PollObject, PollFails
    <3>2. PICK answer : Poll(answer)
        BY <3>1
    <3> QED BY <1>1, <3>1, <3>2, PollsRunOut
  <2>3. CASE StartReconcile \/ PurgeAndWait \/ StartRemoval \/ EndCall
    <3>1. job # NoJob
      <4>1. \E at \in {"checks", "build", "readiness", "removal"} : InJob(at)
          BY <2>3 DEF StartReconcile, PurgeAndWait, StartRemoval, EndCall
      <4> QED BY <4>1 DEF InJob, NoJob
    <3>2. job \in Jobs /\ Phase \in Nat /\ ToDo \in Nat /\ job.left \in 1 .. Steps
        BY <1>1, <3>1, Counted
    <3>3. CASE StartReconcile
      <4>1. job.at = "checks" /\ job'.at = "build"
          BY <3>2, <3>3 DEF StartReconcile, InJob, Jobs
      <4> QED BY <3>2, <4>1 DEF Closer, Phase
    <3>4. CASE PurgeAndWait
      <4>1. job.at = "build" /\ job'.at = "readiness"
          BY <3>2, <3>4 DEF PurgeAndWait, Readiness, InJob, Jobs
      <4> QED BY <3>2, <4>1 DEF Closer, Phase
    <3>5. CASE StartRemoval
      <4>1. job.at = "readiness" /\ job'.at = "removal"
          BY <3>2, <3>5 DEF StartRemoval, InJob, Jobs
      <4> QED BY <3>2, <4>1 DEF Closer, Phase
    <3>6. CASE EndCall
      <4>1. job.at = "removal" /\ job'.at = "none"
          BY <3>2, <3>6 DEF EndCall, EndJob, InJob, NoJob
      <4> QED BY <3>2, <4>1 DEF Closer, Phase
    <3> QED BY <2>3, <3>3, <3>4, <3>5, <3>6
  <2> QED BY <1>1, <2>1, <2>2, <2>3 DEF CallStep, WaitProgress
<1>2. Seeing => Typed
    BY DEF Seeing
<1>3. Typed /\ [WaitNext]_waitVars => [CallStep => Closer]_waitVars
    BY <1>1
<1> QED BY <1>2, <1>3, SeeingCorrect, PTL DEF WaitSpec
=============================================================================
