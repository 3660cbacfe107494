----------------------------- MODULE LibraryProofs -----------------------------
(***************************************************************************)
(* Proofs about the parts of the library that operators use next to the    *)
(* reconcilers: watches, the secret getter, the secret loader, and the     *)
(* making of workloads.                                                    *)
(***************************************************************************)
EXTENDS TokenSecret, SecretLoader, WatchEvents, WorkloadOverrides, UtilityProofs

-----------------------------------------------------------------------------
(* WatchEvents.  The events in a watch's inbox lead from the revision the  *)
(* watch has got to, one after the other, to the one the informer has; an  *)
(* owner that is not queued has been reconciled at one of these revisions, *)
(* or at one that makes no difference to it.  What the predicates write to *)
(* the shared objects does not matter: it can only make more of a          *)
(* difference.                                                             *)

Numbers == 1 .. Len(revisions)
Inboxes == Seq(Numbers \X Numbers)

WatchTypes ==
    /\ revisions \in Seq(Revision) /\ revisions # <<>>
    /\ cached \in Numbers
    /\ rv \in Seq(Nat) /\ Len(rv) = Len(revisions)
    /\ inbox \in [Watches -> Inboxes]
    /\ predicate \in [Watches -> [at : {"idle", "compare", "restore"}, aside : Nat, differs : BOOLEAN]]
    /\ queue \in [Watches -> SUBSET Owners]
    /\ worked \in [Watches -> [Owners -> Numbers]]

\* A predicate that compares does so with the first event, and its answer is the event's.
ComparesFirst ==
    \A w \in Watches : predicate[w].at # "idle" =>
        /\ Comparing(w) /\ inbox[w] # <<>>
        /\ predicate[w].at = "restore" /\ ~predicate[w].differs =>
              /\ revisions[First(w)[1]].spec = revisions[First(w)[2]].spec
              /\ revisions[First(w)[1]].related = revisions[First(w)[2]].related
        /\ Kind(First(w)) = "update"

\* Nobody is told of the difference between two revisions the object is absent from.
Alike(n, m) == n = m \/ (~revisions[n].exists /\ ~revisions[m].exists)

\* The revisions a watch still comes to: where it is, and the ends of its events.
Stop(w, k) == IF k > 0 THEN inbox[w][k][2] ELSE IF inbox[w] = <<>> THEN cached ELSE First(w)[1]

Chained ==
    \A w \in Watches : inbox[w] # <<>> =>
        /\ \A k \in 1 .. Len(inbox[w]) - 1 : Alike(inbox[w][k][2], inbox[w][k + 1][1])
        /\ Alike(inbox[w][Len(inbox[w])][2], cached)

Has(n, o) == revisions[n].exists /\ revisions[n].related = o

\* An owner that was reconciled when revision n was there need not be told of m.
Enough(w, o, n, m) ==
    CASE UpdateFilter[w] = "all" -> Has(n, o) = Has(m, o) /\ (Has(m, o) => n = m)
      [] UpdateFilter[w] = "spec" -> /\ Has(n, o) = Has(m, o)
                                     /\ Has(m, o) => revisions[n].spec = revisions[m].spec
      [] UpdateFilter[w] = "pending" -> Has(m, o) /\ revisions[m].pending => n = m

\* The owner's last reconciliation is enough for a stop that the watch still comes to.
Covered(w, o) == \E k \in 0 .. Len(inbox[w]) : Enough(w, o, worked[w][o], Stop(w, k))

Followed == \A w \in Watches \ missable : \A o \in Owners \ queue[w] : Covered(w, o)

Watching == WatchTypes /\ ComparesFirst /\ Chained /\ Followed

LEMMA Filters ==
    ASSUME NEW w \in Watches
    PROVE  UpdateFilter[w] \in {"all", "spec", "pending"}
BY WatchesAssumption

LEMMA EnoughHere ==
    ASSUME NEW w \in Watches, NEW o, NEW n
    PROVE  Enough(w, o, n, n)
BY Filters DEF Enough

LEMMA EnoughAlike ==
    ASSUME NEW w \in Watches, NEW o, NEW n, NEW m, NEW p, Alike(m, p), Enough(w, o, n, m)
    PROVE  Enough(w, o, n, p)
BY Filters DEF Enough, Alike, Has

\* An event that an owner is not told of makes no difference to it.
LEMMA EnoughAfter ==
    ASSUME NEW w \in Watches, NEW o \in Owners, NEW n, NEW p, NEW q, Enough(w, o, n, p),
           \/ o \notin Requests(<<p, q>>)
           \/ Kind(<<p, q>>) = "update" /\ UpdateFilter[w] = "pending" /\ ~revisions[q].pending
           \/ /\ Kind(<<p, q>>) = "update" /\ UpdateFilter[w] = "spec"
              /\ revisions[p].spec = revisions[q].spec /\ revisions[p].related = revisions[q].related
    PROVE  Enough(w, o, n, q)
<1>1. CASE o \notin Requests(<<p, q>>)
    <2>1. revisions[p].related # o /\ revisions[q].related # o
        BY <1>1, WatchesAssumption DEF Requests
    <2> QED BY <2>1, Filters DEF Enough, Has
<1>2. CASE UpdateFilter[w] = "pending" /\ ~revisions[q].pending
    BY <1>2 DEF Enough
<1>3. CASE /\ Kind(<<p, q>>) = "update" /\ UpdateFilter[w] = "spec"
           /\ revisions[p].spec = revisions[q].spec /\ revisions[p].related = revisions[q].related
    <2>1. revisions[p].exists /\ revisions[q].exists
        BY <1>3 DEF Kind
    <2> QED BY <2>1, <1>3 DEF Enough, Has
<1> QED BY <1>1, <1>2, <1>3

LEMMA CoveredStays ==
    ASSUME NEW w \in Watches, NEW o \in Owners, Covered(w, o),
           UNCHANGED <<revisions, cached>>, inbox'[w] = inbox[w], worked'[w][o] = worked[w][o]
    PROVE  Covered(w, o)'
<1>1. PICK k \in 0 .. Len(inbox[w]) : Enough(w, o, worked[w][o], Stop(w, k))
    BY DEF Covered
<1>2. k \in 0 .. Len(inbox'[w])
    BY <1>1
<1>3. Stop(w, k)' = Stop(w, k)
    BY DEF Stop, First
<1>4. Enough(w, o, worked[w][o], Stop(w, k))'
    BY <1>1, <1>3 DEF Enough, Has
<1> QED BY <1>2, <1>4 DEF Covered

\* When a watch is done with its first event, the stops that are left are the later ones.
LEMMA EndEventFollows ==
    ASSUME Watching, NEW w \in Watches, inbox[w] # <<>>, NEW passes \in BOOLEAN, EndEvent(w, passes),
           \/ passes
           \/ Kind(First(w)) \in Skips[w]
           \/ Kind(First(w)) = "update" /\ UpdateFilter[w] = "pending" /\ ~revisions[First(w)[2]].pending
           \/ /\ Kind(First(w)) = "update" /\ UpdateFilter[w] = "spec"
              /\ revisions[First(w)[1]].spec = revisions[First(w)[2]].spec
              /\ revisions[First(w)[1]].related = revisions[First(w)[2]].related
    PROVE  /\ inbox' \in [Watches -> Inboxes] /\ queue' \in [Watches -> SUBSET Owners]
           /\ Chained' /\ Followed'
<1>1. /\ inbox' = [inbox EXCEPT ![w] = Tail(@)]
      /\ queue' = IF passes THEN [queue EXCEPT ![w] = @ \cup Requests(First(w))] ELSE queue
      /\ missable' = IF Kind(First(w)) \in Skips[w] THEN missable \cup {w} ELSE missable
      /\ UNCHANGED <<revisions, cached, worked>>
    BY DEF EndEvent, First
<1>2. /\ inbox[w] \in Inboxes /\ Tail(inbox[w]) \in Inboxes /\ Len(inbox[w]) \in Nat \ {0}
      /\ Len(Tail(inbox[w])) = Len(inbox[w]) - 1 /\ First(w) = inbox[w][1] /\ First(w) \in Numbers \X Numbers
      /\ \A k \in 1 .. Len(inbox[w]) - 1 : Tail(inbox[w])[k] = inbox[w][k + 1]
    BY DEF Watching, WatchTypes, Inboxes, First
<1>7. Len(inbox[w]) \in Nat /\ Len(inbox[w]) >= 1 /\ Len(Tail(inbox[w])) = Len(inbox[w]) - 1
    <2>1. Len(inbox[w]) \in Nat \ {0} /\ Len(Tail(inbox[w])) = Len(inbox[w]) - 1
        BY <1>2
    <2> QED BY <2>1
<1>3. inbox' \in [Watches -> Inboxes]
    BY <1>1, <1>2 DEF Watching, WatchTypes
<1>4. queue' \in [Watches -> SUBSET Owners]
    <2>1. Requests(First(w)) \subseteq Owners
        <3>1. \A n \in Numbers : revisions[n].related \in Owners \cup {Unrelated}
            <4>1. \A n \in Numbers : revisions[n] \in Revision
                BY DEF Watching, WatchTypes, Numbers
            <4> QED BY <4>1 DEF Revision
        <3>2. First(w)[1] \in Numbers /\ First(w)[2] \in Numbers
            BY <1>2
        <3> QED BY <3>1, <3>2 DEF Requests
    <2> QED BY <1>1, <2>1 DEF Watching, WatchTypes
<1>5. Chained'
    <2>1. ASSUME NEW v \in Watches, inbox'[v] # <<>>
          PROVE  /\ \A k \in 1 .. Len(inbox'[v]) - 1 : Alike(inbox'[v][k][2], inbox'[v][k + 1][1])
                 /\ Alike(inbox'[v][Len(inbox'[v])][2], cached)
        <3>1. CASE v # w
            BY <1>1, <2>1, <3>1 DEF Watching, WatchTypes, Chained
        <3>2. CASE v = w
            <4>1. inbox'[v] = Tail(inbox[w]) /\ Len(inbox[w]) > 1
                BY <1>1, <1>2, <2>1, <3>2 DEF Watching, WatchTypes, Inboxes
            <4> QED BY <1>2, <4>1 DEF Watching, Chained
        <3> QED BY <3>1, <3>2
    <2> QED BY <2>1, <1>1 DEF Chained, Alike
<1>6. Followed'
    <2>1. ASSUME NEW v \in Watches \ missable', NEW o \in Owners \ queue'[v], v # w
          PROVE  Covered(v, o)'
        <3>1. v \notin missable /\ o \notin queue[v] /\ inbox'[v] = inbox[v]
            BY <1>1, <2>1 DEF Watching, WatchTypes
        <3>2. Covered(v, o)
            BY <3>1 DEF Watching, Followed
        <3> QED BY <1>1, <3>1, <3>2, CoveredStays
    <2>2. ASSUME w \notin missable', NEW o \in Owners \ queue'[w]
          PROVE  Covered(w, o)'
        <3>1. /\ w \notin missable /\ o \notin queue[w] /\ Kind(First(w)) \notin Skips[w]
              /\ passes => o \notin Requests(First(w))
              /\ inbox'[w] = Tail(inbox[w])
            BY <1>1, <2>2 DEF Watching, WatchTypes
        <3>2. PICK k \in 0 .. Len(inbox[w]) : Enough(w, o, worked[w][o], Stop(w, k))
            BY <3>1 DEF Watching, Followed, Covered
        <3>3. CASE k > 1
            <4>1. k - 1 \in 0 .. Len(inbox'[w]) /\ Stop(w, k - 1)' = Stop(w, k)
                BY <1>2, <3>1, <3>2, <3>3 DEF Stop
            <4>2. Enough(w, o, worked[w][o], Stop(w, k - 1))'
                BY <1>1, <3>2, <4>1 DEF Enough, Has
            <4> QED BY <4>1, <4>2 DEF Covered
        <3>4. CASE k \in {0, 1}
            <4>1. Enough(w, o, worked[w][o], First(w)[2])
                <5>1. CASE k = 1
                    BY <1>2, <3>2, <5>1 DEF Stop
                <5>2. CASE k = 0
                    <6>1. Enough(w, o, worked[w][o], First(w)[1]) /\ First(w) = <<First(w)[1], First(w)[2]>>
                        BY <1>2, <3>2, <5>2 DEF Stop
                    <6> QED BY <3>1, <6>1, EnoughAfter
                <5> QED BY <3>4, <5>1, <5>2
            <4>2. Alike(First(w)[2], Stop(w, 0)')
                <5>1. CASE Len(inbox[w]) = 1
                    <6>1. Len(inbox'[w]) = 0
                        BY <1>2, <3>1, <5>1
                    <6>2. inbox'[w] = <<>>
                        BY <1>2, <3>1, <6>1 DEF Inboxes
                    <6>3. Stop(w, 0)' = cached
                        BY <1>1, <6>2 DEF Stop
                    <6> QED BY <1>2, <5>1, <6>3 DEF Watching, Chained
                <5>2. CASE Len(inbox[w]) # 1
                    <6>0. Len(inbox[w]) > 1
                        <7>1. \A n \in Nat \ {0} : n = 1 \/ n > 1
                            OBVIOUS
                        <7>2. Len(inbox[w]) \in Nat \ {0}
                            BY <1>2
                        <7> QED BY <7>1, <7>2, <5>2, Zenon
                    <6>1. inbox'[w] # <<>>
                        <7>1. Len(inbox'[w]) > 0
                            BY <1>7, <3>1, <6>0
                        <7> QED BY <7>1
                    <6>2. Stop(w, 0)' = inbox[w][2][1]
                        BY <1>2, <3>1, <6>0, <6>1 DEF Stop, First, Inboxes
                    <6> QED BY <1>2, <6>0, <6>2 DEF Watching, Chained
                <5> QED BY <5>1, <5>2
            <4>3. Enough(w, o, worked[w][o], Stop(w, 0)')
                BY <4>1, <4>2, EnoughAlike
            <4>4. 0 \in 0 .. Len(inbox'[w])
                BY <1>2, <3>1
            <4>5. Enough(w, o, worked[w][o], Stop(w, 0))'
                BY <1>1, <4>3 DEF Enough, Has
            <4> QED BY <4>4, <4>5 DEF Covered
        <3> QED BY <1>2, <3>2, <3>3, <3>4
    <2> QED BY <2>1, <2>2 DEF Followed
<1> QED BY <1>3, <1>4, <1>5, <1>6

LEMMA FilterEventPreserves ==
    ASSUME Watching, NEW w \in Watches, FilterEvent(w)
    PROVE  Watching'
<1> DEFINE passes == /\ Kind(First(w)) \notin Skips[w]
                     /\ Kind(First(w)) = "update" /\ UpdateFilter[w] = "pending"
                          => revisions[First(w)[2]].pending
<1>1. /\ inbox[w] # <<>> /\ EndEvent(w, passes) /\ UNCHANGED <<rv, predicate>>
      /\ Kind(First(w)) = "update" => ~Comparing(w)
    BY DEF FilterEvent
<1>2. passes \in BOOLEAN
    OBVIOUS
<1>3. \/ passes
      \/ Kind(First(w)) \in Skips[w]
      \/ Kind(First(w)) = "update" /\ UpdateFilter[w] = "pending" /\ ~revisions[First(w)[2]].pending
    OBVIOUS
<1>4. /\ inbox' \in [Watches -> Inboxes] /\ queue' \in [Watches -> SUBSET Owners]
      /\ Chained' /\ Followed'
    <2> HIDE DEF passes
    <2> QED BY <1>1, <1>2, <1>3, EndEventFollows
<1>5. inbox' = [inbox EXCEPT ![w] = Tail(@)] /\ UNCHANGED <<revisions, cached, worked, rv, predicate>>
    BY <1>1 DEF EndEvent
<1>6. WatchTypes'
    BY <1>4, <1>5 DEF Watching, WatchTypes, Inboxes, Numbers
<1>7. ComparesFirst'
    <2>1. predicate[w].at = "idle"
        BY <1>1 DEF Watching, ComparesFirst
    <2>2. ASSUME NEW v \in Watches, v # w
          PROVE  inbox'[v] = inbox[v] /\ First(v)' = First(v)
        BY <1>5, <2>2 DEF Watching, WatchTypes, First
    <2> QED BY <1>5, <2>1, <2>2 DEF Watching, ComparesFirst, Comparing, Kind
<1> QED BY <1>4, <1>6, <1>7 DEF Watching

\* The predicates write only to the shown resource versions, which decide nothing by themselves.
LEMMA PutAsidePreserves ==
    ASSUME Watching, NEW w \in Watches, PutAside(w)
    PROVE  Watching'
<1>1. /\ inbox[w] # <<>> /\ Comparing(w) /\ Kind(First(w)) = "update"
      /\ predicate' = [predicate EXCEPT ![w] = [NotComparing EXCEPT !.at = "compare", !.aside = rv[First(w)[1]]]]
      /\ rv' = [rv EXCEPT ![First(w)[1]] = rv[First(w)[2]]]
      /\ UNCHANGED <<revisions, cached, inbox, queue, worked, missable>>
    BY DEF PutAside
<1>2. First(w) \in Numbers \X Numbers
    BY <1>1 DEF Watching, WatchTypes, Inboxes, First
<1>3. rv[First(w)[1]] \in Nat /\ rv[First(w)[2]] \in Nat /\ First(w)[1] \in 1 .. Len(rv)
    BY <1>2 DEF Watching, WatchTypes, Numbers
<1>4. rv' \in Seq(Nat) /\ Len(rv') = Len(rv)
    BY <1>1, <1>3 DEF Watching, WatchTypes
<1>5. predicate' \in [Watches -> [at : {"idle", "compare", "restore"}, aside : Nat, differs : BOOLEAN]]
    BY <1>1, <1>3 DEF Watching, WatchTypes, NotComparing
<1>6. WatchTypes'
    BY <1>1, <1>4, <1>5 DEF Watching, WatchTypes, Inboxes, Numbers
<1>7. ComparesFirst'
    <2>1. predicate'[w].at = "compare" /\ \A v \in Watches \ {w} : predicate'[v] = predicate[v]
        BY <1>1 DEF Watching, WatchTypes, NotComparing
    <2> QED BY <1>1, <2>1 DEF Watching, ComparesFirst, Comparing, First, Kind
<1>8. Chained'
    BY <1>1 DEF Watching, Chained, Alike
<1>9. Followed'
    BY <1>1, CoveredStays DEF Watching, Followed
<1> QED BY <1>6, <1>7, <1>8, <1>9 DEF Watching

LEMMA ComparePreserves ==
    ASSUME Watching, NEW w \in Watches, Compare(w)
    PROVE  Watching'
<1>1. /\ predicate[w].at = "compare"
      /\ predicate' = [predicate EXCEPT ![w].at = "restore", ![w].differs = Differs(First(w)[1], First(w)[2])]
      /\ UNCHANGED <<revisions, cached, rv, inbox, queue, worked, missable>>
    BY DEF Compare
<1>2. Differs(First(w)[1], First(w)[2]) \in BOOLEAN
    BY DEF Differs
<1>3. predicate' \in [Watches -> [at : {"idle", "compare", "restore"}, aside : Nat, differs : BOOLEAN]]
    BY <1>1, <1>2 DEF Watching, WatchTypes
<1>4. WatchTypes'
    BY <1>1, <1>3 DEF Watching, WatchTypes, Inboxes, Numbers
<1>5. ComparesFirst'
    <2>1. /\ predicate'[w].differs = Differs(First(w)[1], First(w)[2])
          /\ \A v \in Watches \ {w} : predicate'[v] = predicate[v]
        BY <1>1 DEF Watching, WatchTypes
    <2>2. ~predicate'[w].differs =>
             /\ revisions[First(w)[1]].spec = revisions[First(w)[2]].spec
             /\ revisions[First(w)[1]].related = revisions[First(w)[2]].related
        BY <2>1 DEF Differs
    <2>3. Comparing(w) /\ inbox[w] # <<>> /\ Kind(First(w)) = "update"
        BY <1>1 DEF Watching, ComparesFirst
    <2>4. ASSUME NEW v \in Watches
          PROVE  /\ Comparing(v)' <=> Comparing(v)
                 /\ First(v)' = First(v) /\ Kind(First(v))' = Kind(First(v))
        BY <1>1 DEF Comparing, First, Kind
    <2>5. ASSUME NEW v \in Watches, predicate'[v].at # "idle"
          PROVE  /\ Comparing(v)' /\ inbox'[v] # <<>> /\ Kind(First(v))' = "update"
                 /\ predicate'[v].at = "restore" /\ ~predicate'[v].differs =>
                       /\ revisions[First(v)[1]].spec = revisions[First(v)[2]].spec
                       /\ revisions[First(v)[1]].related = revisions[First(v)[2]].related
        <3>1. CASE v = w
            BY <1>1, <2>2, <2>3, <2>4, <3>1
        <3>2. CASE v # w
            <4>1. predicate'[v] = predicate[v]
                BY <2>1, <3>2
            <4>2. /\ Comparing(v) /\ inbox[v] # <<>> /\ Kind(First(v)) = "update"
                  /\ predicate[v].at = "restore" /\ ~predicate[v].differs =>
                        /\ revisions[First(v)[1]].spec = revisions[First(v)[2]].spec
                        /\ revisions[First(v)[1]].related = revisions[First(v)[2]].related
                BY <2>5, <4>1 DEF Watching, ComparesFirst
            <4> QED BY <1>1, <2>4, <4>1, <4>2
        <3> QED BY <3>1, <3>2
    <2> QED BY <1>1, <2>4, <2>5 DEF ComparesFirst
<1>6. Chained'
    BY <1>1 DEF Watching, Chained, Alike
<1>7. Followed'
    BY <1>1, CoveredStays DEF Watching, Followed
<1> QED BY <1>4, <1>5, <1>6, <1>7 DEF Watching

LEMMA RestorePreserves ==
    ASSUME Watching, NEW w \in Watches, Restore(w)
    PROVE  Watching'
<1>1. /\ predicate[w].at = "restore"
      /\ rv' = [rv EXCEPT ![First(w)[1]] = predicate[w].aside]
      /\ predicate' = [predicate EXCEPT ![w] = NotComparing]
      /\ EndEvent(w, predicate[w].differs)
    BY DEF Restore
<1>2. /\ Comparing(w) /\ inbox[w] # <<>> /\ Kind(First(w)) = "update"
      /\ ~predicate[w].differs => /\ revisions[First(w)[1]].spec = revisions[First(w)[2]].spec
                                  /\ revisions[First(w)[1]].related = revisions[First(w)[2]].related
    BY <1>1 DEF Watching, ComparesFirst
<1>3. predicate[w].differs \in BOOLEAN /\ predicate[w].aside \in Nat
    BY DEF Watching, WatchTypes
<1>4. /\ inbox' \in [Watches -> Inboxes] /\ queue' \in [Watches -> SUBSET Owners]
      /\ Chained' /\ Followed'
    BY <1>1, <1>2, <1>3, EndEventFollows DEF Comparing
<1>5. inbox' = [inbox EXCEPT ![w] = Tail(@)] /\ UNCHANGED <<revisions, cached, worked>>
    BY <1>1 DEF EndEvent
<1>6. rv' \in Seq(Nat) /\ Len(rv') = Len(rv)
    <2>1. First(w) \in Numbers \X Numbers
        BY <1>2 DEF Watching, WatchTypes, Inboxes, First
    <2>2. First(w)[1] \in 1 .. Len(rv)
        BY <2>1 DEF Watching, WatchTypes, Numbers
    <2> QED BY <1>1, <1>3, <2>2 DEF Watching, WatchTypes
<1>7. predicate' \in [Watches -> [at : {"idle", "compare", "restore"}, aside : Nat, differs : BOOLEAN]]
    BY <1>1 DEF Watching, WatchTypes, NotComparing
<1>8. WatchTypes'
    BY <1>4, <1>5, <1>6, <1>7 DEF Watching, WatchTypes, Inboxes, Numbers
<1>9. ComparesFirst'
    <2>1. predicate'[w].at = "idle" /\ \A v \in Watches \ {w} : predicate'[v] = predicate[v]
        BY <1>1 DEF Watching, WatchTypes, NotComparing
    <2>2. ASSUME NEW v \in Watches, v # w
          PROVE  inbox'[v] = inbox[v] /\ First(v)' = First(v)
        BY <1>5, <2>2 DEF Watching, WatchTypes, First
    <2> QED BY <1>5, <2>1, <2>2 DEF Watching, ComparesFirst, Comparing, Kind
<1> QED BY <1>4, <1>8, <1>9 DEF Watching

\* A reconciliation sees what the informer has: the stop after the last event.
LEMMA WorkPreserves ==
    ASSUME Watching, NEW w \in Watches, Work(w)
    PROVE  Watching'
<1>1. PICK o \in queue[w] :
         /\ queue' = [queue EXCEPT ![w] = @ \ {o}]
         /\ worked' = [worked EXCEPT ![w][o] = cached]
         /\ UNCHANGED <<revisions, cached, rv, inbox, predicate, missable>>
    BY DEF Work
<1>2. o \in Owners
    BY DEF Watching, WatchTypes
<1>3. WatchTypes' /\ worked'[w][o] = cached
    BY <1>1, <1>2 DEF Watching, WatchTypes, Inboxes, Numbers
<1>4. ComparesFirst'
    BY <1>1 DEF Watching, ComparesFirst, Comparing, First, Kind
<1>5. Chained'
    BY <1>1 DEF Watching, Chained, Alike
<1>6. Covered(w, o)'
    <2>1. PICK k \in 0 .. Len(inbox[w]) : Alike(cached, Stop(w, k))
        <3>1. CASE inbox[w] = <<>>
            <4>1. Stop(w, 0) = cached /\ 0 \in 0 .. Len(inbox[w])
                BY <3>1 DEF Stop, Watching, WatchTypes, Inboxes
            <4> QED BY <4>1 DEF Alike
        <3>2. CASE inbox[w] # <<>>
            <4>1. inbox[w] \in Inboxes
                BY DEF Watching, WatchTypes
            <4>2. Len(inbox[w]) \in 0 .. Len(inbox[w]) /\ Len(inbox[w]) > 0
                BY <3>2, <4>1 DEF Inboxes
            <4>3. Stop(w, Len(inbox[w])) = inbox[w][Len(inbox[w])][2]
                BY <4>2 DEF Stop
            <4>4. Alike(inbox[w][Len(inbox[w])][2], cached)
                BY <3>2 DEF Watching, Chained
            <4> QED BY <4>2, <4>3, <4>4 DEF Alike
        <3> QED BY <3>1, <3>2
    <2>2. Enough(w, o, cached, Stop(w, k))
        BY <2>1, EnoughHere, EnoughAlike
    <2>3. Stop(w, k)' = Stop(w, k) /\ k \in 0 .. Len(inbox'[w])
        BY <1>1, <2>1 DEF Stop, First
    <2>4. Enough(w, o, worked[w][o], Stop(w, k))'
        BY <1>1, <1>3, <2>2, <2>3 DEF Enough, Has
    <2> QED BY <2>3, <2>4 DEF Covered
<1>7. Followed'
    <2>1. ASSUME NEW v \in Watches \ missable', NEW p \in Owners \ queue'[v], ~(v = w /\ p = o)
          PROVE  Covered(v, p)'
        <3>1. v \notin missable /\ p \notin queue[v] /\ worked'[v][p] = worked[v][p]
            BY <1>1, <1>2, <2>1 DEF Watching, WatchTypes
        <3> QED BY <1>1, <3>1, CoveredStays DEF Watching, Followed
    <2> QED BY <1>6, <2>1 DEF Followed
<1> QED BY <1>3, <1>4, <1>5, <1>7 DEF Watching

\* Earlier revisions stay what they are.
LEMMA RevisePreserves ==
    ASSUME Watching, Revise
    PROVE  Watching'
<1>1. PICK r \in Revision : revisions' = Append(revisions, r)
    BY DEF Revise
<1>2. /\ rv' = Append(rv, Len(revisions) + 1)
      /\ UNCHANGED <<cached, inbox, predicate, queue, worked, missable>>
    BY DEF Revise, Latest
<1>3. /\ revisions \in Seq(Revision) /\ Len(revisions) \in Nat
      /\ revisions' \in Seq(Revision) /\ revisions' # <<>> /\ Len(revisions') = Len(revisions) + 1
      /\ \A n \in Numbers : n \in Numbers' /\ revisions'[n] = revisions[n]
    BY <1>1 DEF Watching, WatchTypes, Numbers
<1>4. Numbers \subseteq Numbers'
    BY <1>3
<1>5. rv' \in Seq(Nat) /\ Len(rv') = Len(revisions')
    BY <1>2, <1>3 DEF Watching, WatchTypes
<1>6. inbox' \in [Watches -> Inboxes'] /\ worked' \in [Watches -> [Owners -> Numbers']] /\ cached' \in Numbers'
    <2>1. \A s \in Inboxes : s \in Inboxes'
        BY <1>4 DEF Inboxes
    <2> QED BY <1>2, <1>4, <2>1 DEF Watching, WatchTypes
<1>7. WatchTypes'
    BY <1>2, <1>3, <1>5, <1>6 DEF Watching, WatchTypes
<1>8. \A w \in Watches : \A k \in 1 .. Len(inbox[w]) : inbox[w][k][1] \in Numbers /\ inbox[w][k][2] \in Numbers
    BY DEF Watching, WatchTypes, Inboxes
<1>9. ComparesFirst'
    <2>1. \A w \in Watches : inbox[w] # <<>> => First(w)[1] \in Numbers /\ First(w)[2] \in Numbers
        BY DEF Watching, WatchTypes, Inboxes, First
    <2> QED BY <1>2, <1>3, <2>1, ZenonT(60) DEF Watching, ComparesFirst, Comparing, First, Kind
<1>10. Chained'
    <2>1. ASSUME NEW w \in Watches, inbox[w] # <<>>
          PROVE  /\ \A k \in 1 .. Len(inbox[w]) - 1 : Alike(inbox[w][k][2], inbox[w][k + 1][1])'
                 /\ Alike(inbox[w][Len(inbox[w])][2], cached)'
        <3>1. Len(inbox[w]) \in Nat /\ Len(inbox[w]) \in 1 .. Len(inbox[w])
            BY <2>1 DEF Watching, WatchTypes, Inboxes
        <3>2. Alike(inbox[w][Len(inbox[w])][2], cached)
            BY <2>1 DEF Watching, Chained
        <3>3. \A k \in 1 .. Len(inbox[w]) - 1 : Alike(inbox[w][k][2], inbox[w][k + 1][1])
            BY <2>1 DEF Watching, Chained
        <3>4. \A k \in 1 .. Len(inbox[w]) - 1 : k \in 1 .. Len(inbox[w]) /\ k + 1 \in 1 .. Len(inbox[w])
            BY <3>1
        <3>5. cached \in Numbers
            BY DEF Watching, WatchTypes
        <3> QED BY <1>2, <1>3, <1>8, <3>1, <3>2, <3>3, <3>4, <3>5 DEF Alike
    <2> QED BY <1>2, <2>1 DEF Chained
<1>11. Followed'
    <2>1. ASSUME NEW w \in Watches \ missable, NEW o \in Owners \ queue[w]
          PROVE  Covered(w, o)'
        <3>1. PICK k \in 0 .. Len(inbox[w]) : Enough(w, o, worked[w][o], Stop(w, k))
            BY DEF Watching, Followed, Covered
        <3>2. Stop(w, k) \in Numbers /\ worked[w][o] \in Numbers
            <4>1. CASE k = 0
                BY <4>1 DEF Stop, First, Watching, WatchTypes, Inboxes
            <4>2. CASE k # 0
                <5>1. k \in 1 .. Len(inbox[w]) /\ k > 0
                    BY <3>1, <4>2
                <5> QED BY <1>8, <5>1 DEF Stop, Watching, WatchTypes
            <4> QED BY <4>1, <4>2
        <3>3. Stop(w, k)' = Stop(w, k) /\ k \in 0 .. Len(inbox'[w])
            BY <1>2, <3>1 DEF Stop, First
        <3>4. Enough(w, o, worked[w][o], Stop(w, k))'
            BY <1>2, <1>3, <3>1, <3>2, <3>3 DEF Enough, Has
        <3> QED BY <3>3, <3>4 DEF Covered
    <2> QED BY <1>2, <2>1 DEF Followed
<1> QED BY <1>7, <1>9, <1>10, <1>11 DEF Watching

\* The informer's next event starts where the last one ended, or both ends are without the object.
LEMMA InformPreserves ==
    ASSUME Watching, Inform
    PROVE  Watching'
<1>1. PICK n \in cached + 1 .. Latest :
         /\ cached' = n
         /\ inbox' = IF revisions[cached].exists \/ revisions[n].exists
                     THEN [w \in Watches |-> Append(inbox[w], <<cached, n>>)] ELSE inbox
    BY DEF Inform
<1>2. UNCHANGED <<revisions, rv, predicate, queue, worked, missable>>
    BY DEF Inform
<1>3. cached \in Numbers /\ n \in Numbers
    BY <1>1 DEF Watching, WatchTypes, Numbers, Latest
<1>4. CASE inbox' = inbox /\ ~revisions[cached].exists /\ ~revisions[n].exists
    <2>1. WatchTypes'
        BY <1>1, <1>2, <1>3, <1>4 DEF Watching, WatchTypes, Inboxes, Numbers
    <2>2. ComparesFirst'
        BY <1>2, <1>4 DEF Watching, ComparesFirst, Comparing, First, Kind
    <2>3. Chained'
        BY <1>1, <1>2, <1>4 DEF Watching, Chained, Alike
    <2>4. ASSUME NEW w \in Watches \ missable, NEW o \in Owners \ queue[w]
          PROVE  Covered(w, o)'
        <3>1. PICK k \in 0 .. Len(inbox[w]) : Enough(w, o, worked[w][o], Stop(w, k))
            BY DEF Watching, Followed, Covered
        <3>2. Alike(Stop(w, k), Stop(w, k)')
            BY <1>1, <1>4 DEF Stop, First, Alike
        <3>3. Enough(w, o, worked[w][o], Stop(w, k)')
            BY <3>1, <3>2, EnoughAlike
        <3>4. Enough(w, o, worked[w][o], Stop(w, k))'
            BY <1>2, <3>3 DEF Enough, Has
        <3> QED BY <1>4, <3>1, <3>4 DEF Covered
    <2>5. Followed'
        BY <1>2, <2>4 DEF Followed
    <2> QED BY <2>1, <2>2, <2>3, <2>5 DEF Watching
<1>5. CASE inbox' = [w \in Watches |-> Append(inbox[w], <<cached, n>>)]
    <2>1. ASSUME NEW w \in Watches
          PROVE  /\ inbox[w] \in Inboxes /\ Len(inbox[w]) \in Nat
                 /\ inbox'[w] \in Inboxes /\ Len(inbox'[w]) = Len(inbox[w]) + 1 /\ inbox'[w] # <<>>
                 /\ \A k \in 1 .. Len(inbox[w]) : inbox'[w][k] = inbox[w][k]
                 /\ inbox'[w][Len(inbox[w]) + 1] = <<cached, n>>
                 /\ inbox[w] # <<>> => First(w)' = First(w) /\ Len(inbox[w]) >= 1
                 /\ inbox[w] = <<>> => First(w)' = <<cached, n>> /\ Len(inbox[w]) = 0
        <3>1. inbox[w] \in Inboxes /\ inbox'[w] = Append(inbox[w], <<cached, n>>)
            BY <1>5 DEF Watching, WatchTypes
        <3>2. <<cached, n>> \in Numbers \X Numbers
            BY <1>3
        <3> QED BY <3>1, <3>2 DEF Inboxes, First
    <2>2. WatchTypes'
        BY <1>1, <1>2, <1>3, <1>5, <2>1 DEF Watching, WatchTypes, Inboxes, Numbers
    <2>3. ComparesFirst'
        BY <1>2, <2>1 DEF Watching, ComparesFirst, Comparing, Kind
    <2>4. Chained'
        <3>1. ASSUME NEW w \in Watches, NEW k \in 1 .. Len(inbox'[w]) - 1
              PROVE  Alike(inbox'[w][k][2], inbox'[w][k + 1][1])
            <4>1. k \in 1 .. Len(inbox[w])
                BY <2>1, <3>1
            <4>2. CASE k = Len(inbox[w])
                <5>1. inbox[w] # <<>>
                    BY <2>1, <4>1
                <5>2. Alike(inbox[w][Len(inbox[w])][2], cached)
                    BY <5>1 DEF Watching, Chained
                <5>3. inbox'[w][k] = inbox[w][k] /\ inbox'[w][k + 1][1] = cached
                    BY <2>1, <4>1, <4>2
                <5> QED BY <4>2, <5>2, <5>3
            <4>3. CASE k # Len(inbox[w])
                <5>1. inbox[w] # <<>> /\ k \in 1 .. Len(inbox[w]) - 1 /\ k + 1 \in 1 .. Len(inbox[w])
                    BY <2>1, <4>1, <4>3
                <5>2. Alike(inbox[w][k][2], inbox[w][k + 1][1])
                    BY <5>1 DEF Watching, Chained
                <5> QED BY <2>1, <4>1, <5>1, <5>2
            <4> QED BY <4>2, <4>3
        <3>2. ASSUME NEW w \in Watches
              PROVE  inbox'[w][Len(inbox'[w])][2] = n
            BY <2>1
        <3>3. ASSUME NEW w \in Watches, NEW k \in 1 .. Len(inbox'[w]) - 1
              PROVE  Alike(inbox[w][k][2], inbox[w][k + 1][1])'
            BY <1>2, <3>1 DEF Alike
        <3>4. ASSUME NEW w \in Watches
              PROVE  Alike(inbox[w][Len(inbox[w])][2], cached)'
            BY <1>1, <1>2, <3>2 DEF Alike
        <3> QED BY <3>3, <3>4 DEF Chained
    <2>5. ASSUME NEW w \in Watches \ missable, NEW o \in Owners \ queue[w]
          PROVE  Covered(w, o)'
        <3>1. PICK k \in 0 .. Len(inbox[w]) : Enough(w, o, worked[w][o], Stop(w, k))
            BY DEF Watching, Followed, Covered
        <3>2. Stop(w, k)' = Stop(w, k) /\ k \in 0 .. Len(inbox'[w])
            <4>1. CASE k = 0
                BY <2>1, <4>1 DEF Stop
            <4>2. CASE k # 0
                <5>1. k > 0 /\ k \in 1 .. Len(inbox[w])
                    BY <2>1, <3>1, <4>2
                <5> QED BY <2>1, <5>1 DEF Stop
            <4> QED BY <4>1, <4>2
        <3>3. Enough(w, o, worked[w][o], Stop(w, k))'
            BY <1>2, <3>1, <3>2 DEF Enough, Has
        <3> QED BY <1>2, <3>2, <3>3 DEF Covered
    <2>6. Followed'
        BY <1>2, <2>5 DEF Followed
    <2> QED BY <2>2, <2>3, <2>4, <2>6 DEF Watching
<1> QED BY <1>1, <1>4, <1>5

LEMMA RestartPreserves ==
    ASSUME Watching, Restart
    PROVE  Watching'
<1>1. /\ cached' = 1 /\ rv' = [n \in 1 .. Len(revisions) |-> n]
      /\ inbox' = [w \in Watches |-> <<>>] /\ predicate' = [w \in Watches |-> NotComparing]
      /\ queue' = [w \in Watches |-> {}] /\ worked' = [w \in Watches |-> [o \in Owners |-> 1]]
      /\ UNCHANGED <<revisions, missable>>
    BY DEF Restart, Latest
<1>2. 1 \in Numbers /\ Len(revisions) \in Nat
    BY DEF Watching, WatchTypes, Numbers
<1>3. WatchTypes'
    BY <1>1, <1>2 DEF Watching, WatchTypes, Inboxes, Numbers, NotComparing
<1>4. ComparesFirst' /\ Chained'
    BY <1>1 DEF ComparesFirst, Chained, NotComparing
<1>5. ASSUME NEW w \in Watches, NEW o \in Owners
      PROVE  Covered(w, o)'
    <2>1. Stop(w, 0)' = 1 /\ 0 \in 0 .. Len(inbox'[w])
        BY <1>1 DEF Stop
    <2>2. Enough(w, o, 1, 1)
        BY EnoughHere
    <2>3. Enough(w, o, worked[w][o], Stop(w, 0))'
        BY <1>1, <2>1, <2>2 DEF Enough, Has
    <2> QED BY <2>1, <2>3 DEF Covered
<1> QED BY <1>3, <1>4, <1>5 DEF Watching, Followed

LEMMA WatchingInitially == WatchInit => Watching
<1> SUFFICES ASSUME WatchInit PROVE Watching
    OBVIOUS
<1>1. WatchTypes
    BY DEF WatchInit, WatchTypes, Inboxes, Numbers, NotComparing, Revision
<1>2. ComparesFirst /\ Chained
    BY DEF WatchInit, ComparesFirst, Chained, NotComparing
<1>3. ASSUME NEW w \in Watches, NEW o \in Owners
      PROVE  Covered(w, o)
    <2>1. Stop(w, 0) = 1 /\ worked[w][o] = 1 /\ 0 \in 0 .. Len(inbox[w])
        BY DEF WatchInit, Stop
    <2> QED BY <2>1, EnoughHere DEF Covered
<1> QED BY <1>1, <1>2, <1>3 DEF Watching, Followed

LEMMA WatchingPreserved == Watching /\ [WatchNext]_watchVars => Watching'
<1> SUFFICES ASSUME Watching, [WatchNext]_watchVars PROVE Watching'
    OBVIOUS
<1>1. CASE Revise
    BY <1>1, RevisePreserves
<1>2. CASE Inform
    BY <1>2, InformPreserves
<1>3. CASE Restart
    BY <1>3, RestartPreserves
<1>4. ASSUME NEW w \in Watches, WatchStep(w)
      PROVE  Watching'
    <2>1. CASE FilterEvent(w)
        BY <2>1, FilterEventPreserves
    <2>2. CASE PutAside(w)
        BY <2>2, PutAsidePreserves
    <2>3. CASE Compare(w)
        BY <2>3, ComparePreserves
    <2>4. CASE Restore(w)
        BY <2>4, RestorePreserves
    <2>5. CASE Work(w)
        BY <2>5, WorkPreserves
    <2> QED BY <1>4, <2>1, <2>2, <2>3, <2>4, <2>5 DEF WatchStep
<1>5. CASE UNCHANGED watchVars
    <2>1. UNCHANGED <<revisions, cached, rv, inbox, predicate, queue, worked, missable>>
        BY <1>5 DEF watchVars
    <2>2. WatchTypes'
        BY <2>1 DEF Watching, WatchTypes, Inboxes, Numbers
    <2>3. ComparesFirst' /\ Chained'
        BY <2>1 DEF Watching, ComparesFirst, Comparing, First, Kind, Chained, Alike
    <2>4. Followed'
        BY <2>1, CoveredStays DEF Watching, Followed
    <2> QED BY <2>2, <2>3, <2>4 DEF Watching
<1> QED BY <1>1, <1>2, <1>3, <1>4, <1>5 DEF WatchNext

\* NothingMissed, for any watches, owners and numbers of changes and restarts: an owner that a watch has
\* nothing left to tell has been reconciled since there was something (predicates.go, handlers.go).
THEOREM NothingMissedCorrect == WatchSpec => []NothingMissed
<1>1. Watching => NothingMissed
    <2> SUFFICES ASSUME Watching, NEW w \in Watches \ missable, AtRest(w), NEW o \in Owners
                 PROVE  UpToDate(w, o)
        BY DEF NothingMissed
    <2>1. inbox[w] = <<>> /\ queue[w] = {}
        BY DEF AtRest
    <2>2. PICK k \in 0 .. Len(inbox[w]) : Enough(w, o, worked[w][o], Stop(w, k))
        BY <2>1 DEF Watching, Followed, Covered
    <2>3. k = 0 /\ Stop(w, k) = cached
        BY <2>1, <2>2 DEF Stop
    <2>4. Enough(w, o, worked[w][o], cached)
        BY <2>2, <2>3
    <2> QED BY <2>4, Filters DEF UpToDate, Enough, Has
<1> QED BY <1>1, WatchingInitially, WatchingPreserved, PTL DEF WatchSpec

-----------------------------------------------------------------------------
(* TokenSecret.  A call that has created the secret waits for it and does  *)
(* nothing else any more.                                                  *)

Waiters ==
    /\ get \in [TokenCallers -> Get]
    /\ got \in [TokenCallers -> {"error", "empty", "token", "complete"}]
    /\ account \in SecretNames \cup {"none"}
    /\ secrets \in [SecretNames -> Contents]
    /\ \A c \in TokenCallers : /\ get[c].created => get[c].at = "wait"
                               /\ get[c].at = "wait" => get[c].left # 0

LEMMA GetTypes ==
    /\ Asleep \in Get
    /\ \A content \in Contents : Held(content) \in {"empty", "token", "complete"}
BY TokenStepsAssumption DEF Asleep, Get, SecretNames, Held

\* How a caller's step may end: with an answer, or with another state of the call.
LEMMA CallersStepPreserves ==
    ASSUME Waiters, NEW c \in TokenCallers, account' \in SecretNames \cup {"none"},
           secrets' \in [SecretNames -> Contents],
           \/ \E result \in {"error", "empty", "token", "complete"} : EndGet(c, result)
           \/ \E changed \in Get : /\ Step(c, changed)
                                   /\ changed.created => changed.at = "wait"
                                   /\ changed.at = "wait" => changed.left # 0
    PROVE  Waiters'
<1>1. CASE \E result \in {"error", "empty", "token", "complete"} : EndGet(c, result)
    <2>1. get' = [get EXCEPT ![c] = Asleep] /\ got' \in [TokenCallers -> {"error", "empty", "token", "complete"}]
        BY <1>1 DEF EndGet, Waiters
    <2>2. get' \in [TokenCallers -> Get]
        BY <2>1, GetTypes DEF Waiters
    <2>3. ~Asleep.created /\ Asleep.at # "wait"
        BY DEF Asleep
    <2> QED BY <2>1, <2>2, <2>3 DEF Waiters
<1>2. ASSUME NEW changed \in Get, Step(c, changed), changed.created => changed.at = "wait",
             changed.at = "wait" => changed.left # 0
      PROVE  Waiters'
    BY <1>2 DEF Step, Waiters
<1> QED BY <1>1, <1>2

LEMMA TokenStepPreserves ==
    ASSUME Waiters, NEW c \in TokenCallers, TokenStep(c)
    PROVE  Waiters'
<1>1. /\ get[c] \in Get /\ get[c].name \in SecretNames /\ secrets[get[c].name] \in Contents
      /\ get[c].created => get[c].at = "wait"
    BY DEF Waiters, Get
<1>2. \A content \in Contents : Held(content) \in {"empty", "token", "complete"}
    BY GetTypes
<1>3. CASE StartGet(c)
    <2>1. [Asleep EXCEPT !.at = "account"] \in Get /\ ~[Asleep EXCEPT !.at = "account"].created
          /\ [Asleep EXCEPT !.at = "account"].at # "wait"
        <3>1. 0 \in 0 .. TokenSteps
            BY TokenStepsAssumption
        <3> QED BY <3>1 DEF Asleep, Get, SecretNames
    <2> QED BY <1>3, <2>1, CallersStepPreserves DEF StartGet, tokenWorld, Waiters
<1>4. CASE ReadAccount(c)
    <2>1. CASE EndGet(c, "error")
        BY <1>4, <2>1, CallersStepPreserves DEF ReadAccount, tokenWorld, Waiters
    <2>2. CASE account # "none" /\ Step(c, [get[c] EXCEPT !.at = "fetch", !.name = account])
        <3> DEFINE changed == [get[c] EXCEPT !.at = "fetch", !.name = account]
        <3>1. changed \in Get /\ changed.created = get[c].created /\ changed.at = "fetch"
            BY <1>1, <2>2 DEF Get, Waiters
        <3>2. ~get[c].created
            BY <1>1, <1>4 DEF ReadAccount
        <3> QED BY <1>4, <2>2, <3>1, <3>2, CallersStepPreserves DEF ReadAccount, tokenWorld, Waiters
    <2> QED BY <1>4, <2>1, <2>2 DEF ReadAccount
<1>5. CASE FetchSecret(c)
    <2>1. CASE \E result \in {"error", "empty", "token", "complete"} : EndGet(c, result)
        BY <1>5, <2>1, CallersStepPreserves DEF FetchSecret, tokenWorld, Waiters
    <2>2. CASE Step(c, [get[c] EXCEPT !.at = "create"])
        <3> DEFINE changed == [get[c] EXCEPT !.at = "create"]
        <3>1. changed \in Get /\ changed.created = get[c].created /\ changed.at = "create"
            BY <1>1 DEF Get
        <3>2. ~get[c].created
            BY <1>1, <1>5 DEF FetchSecret
        <3> QED BY <1>5, <2>2, <3>1, <3>2, CallersStepPreserves DEF FetchSecret, tokenWorld, Waiters
    <2> QED BY <1>1, <1>2, <1>5, <2>1, <2>2 DEF FetchSecret
<1>6. CASE CreateSecret(c)
    <2>1. account' \in SecretNames \cup {"none"} /\ secrets' \in [SecretNames -> Contents]
        <3>1. account \in SecretNames \cup {"none"} /\ secrets \in [SecretNames -> Contents] /\ "empty" \in Contents
            BY <1>6 DEF Waiters, Contents
        <3>2. account' = account /\ (secrets' = secrets \/ \E name \in {get[c].name} : StoreSecret(name))
            BY <1>6 DEF CreateSecret
        <3>3. ASSUME NEW name, StoreSecret(name) PROVE secrets' \in [SecretNames -> Contents]
            BY <3>1, <3>3 DEF StoreSecret, NewSecret
        <3> QED BY <3>1, <3>2, <3>3
    <2>2. CASE EndGet(c, "error")
        BY <2>1, <2>2, CallersStepPreserves
    <2>3. CASE Step(c, [get[c] EXCEPT !.at = "wait", !.created = TRUE, !.left = TokenSteps])
        <3> DEFINE changed == [get[c] EXCEPT !.at = "wait", !.created = TRUE, !.left = TokenSteps]
        <3>1. changed \in Get /\ changed.at = "wait" /\ changed.left # 0
            <4>1. TokenSteps \in 0 .. TokenSteps /\ TokenSteps # 0
                BY TokenStepsAssumption
            <4> QED BY <1>1, <4>1 DEF Get
        <3> QED BY <2>1, <2>3, <3>1, CallersStepPreserves
    <2> QED BY <1>6, <2>2, <2>3 DEF CreateSecret
<1>7. CASE PollSecret(c)
    <2>1. CASE \E result \in {"error", "empty", "token", "complete"} : EndGet(c, result)
        BY <1>7, <2>1, CallersStepPreserves DEF PollSecret, tokenWorld, Waiters
    <2>2. CASE get[c].left # 1 /\ Step(c, [get[c] EXCEPT !.left = @ - 1])
        <3> DEFINE changed == [get[c] EXCEPT !.left = @ - 1]
        <3>1. get[c].at = "wait" /\ get[c].left # 0
            BY <1>7 DEF PollSecret, Waiters
        <3>2. changed \in Get /\ changed.at = "wait" /\ changed.left # 0
            BY <1>1, <2>2, <3>1, TokenStepsAssumption DEF Get
        <3> QED BY <1>7, <2>2, <3>2, CallersStepPreserves DEF PollSecret, tokenWorld, Waiters
    <2> QED BY <1>1, <1>2, <1>7, <2>1, <2>2 DEF PollSecret
<1> QED BY <1>3, <1>4, <1>5, <1>6, <1>7 DEF TokenStep

LEMMA WaitersPreserved == Waiters /\ [TokenNext]_tokenVars => Waiters'
<1> SUFFICES ASSUME Waiters, [TokenNext]_tokenVars PROVE Waiters'
    OBVIOUS
<1>1. CASE \E c \in TokenCallers : TokenStep(c)
    BY <1>1, TokenStepPreserves
<1>2. CASE \E n \in SecretNames : FillSecret(n)
    BY <1>2 DEF FillSecret, Waiters, Contents
<1>3. CASE ChangeAccount
    BY <1>3 DEF ChangeAccount, Waiters, Contents
<1>4. CASE DeleteSecret
    BY <1>4 DEF DeleteSecret, Waiters, Contents
<1>5. CASE UNCHANGED tokenVars
    BY <1>5 DEF tokenVars, Waiters
<1> QED BY <1>1, <1>2, <1>3, <1>4, <1>5 DEF TokenNext

\* CreatorsWait, for any callers, numbers of polls, and upheavals (waitAndGetReaderSecret).
THEOREM CreatorsWaitCorrect == TokenSpec => CreatorsWait
<1>1. TokenInit => Waiters
    BY GetTypes DEF TokenInit, Waiters, Asleep, Contents
<1>2. ASSUME Waiters, [TokenNext]_tokenVars
      PROVE  [\A c \in TokenCallers :
                 get[c].at # "idle" /\ get'[c].at = "idle" /\ get[c].created =>
                     got'[c] \in {"error", "complete"}]_tokenVars
    <2>1. ASSUME NEW c \in TokenCallers, get[c].at # "idle", get'[c].at = "idle", get[c].created
          PROVE  got'[c] \in {"error", "complete"}
        <3>1. get[c].at = "wait" /\ get[c] \in Get
            BY <1>2, <2>1 DEF Waiters
        <3>2. get'[c] # get[c]
            BY <2>1
        <3>3. PICK d \in TokenCallers : TokenStep(d)
            BY <1>2, <3>2 DEF TokenNext, FillSecret, ChangeAccount, DeleteSecret, tokenVars
        <3>4. d = c
            BY <1>2, <3>2, <3>3 DEF Waiters, TokenStep, StartGet, ReadAccount, FetchSecret, CreateSecret,
                                    PollSecret, EndGet, Step
        <3>5. PollSecret(c)
            BY <3>1, <3>3, <3>4 DEF TokenStep, StartGet, ReadAccount, FetchSecret, CreateSecret
        <3>6. CASE \E content \in {"complete"} : EndGet(c, Held(content))
            BY <1>2, <3>6 DEF EndGet, Held, Waiters
        <3>7. CASE EndGet(c, "error")
            BY <1>2, <3>7 DEF EndGet, Waiters
        <3>8. CASE Step(c, [get[c] EXCEPT !.left = @ - 1])
            BY <1>2, <2>1, <3>1, <3>8 DEF Step, Waiters, Get
        <3> QED BY <3>5, <3>6, <3>7, <3>8 DEF PollSecret, Satisfies
    <2> QED BY <2>1
<1> QED BY <1>1, <1>2, WaitersPreserved, PTL DEF TokenSpec, CreatorsWait

-----------------------------------------------------------------------------
(* SecretLoader.  Mounts are added in the order their references are       *)
(* loaded in, so of a reference's mount and all later ones there is a load *)
(* that is no earlier than the reference's own.                            *)

Reads == SecretValues \cup {NoSecret, NoKey, "error"}
Loads == [ref : SecretRefs, path : Seq(STRING), read : Reads]
Mounts == [key : Seq(STRING), value : Reads]

\* What has been loaded from the i-th reference on accounts for what was mounted from the m-th mount on.
Accounted(ix, m) ==
    \A n \in DOMAIN mounts : n >= m =>
        \E j \in DOMAIN loaded :
            /\ j >= ix /\ loaded[j].path = mounts[n].key /\ loaded[j].read = mounts[n].value

Mounting ==
    /\ values \in [SecretRefs -> Reads] /\ loaded \in Seq(Loads) /\ mounts \in Seq(Mounts)
    /\ \A ix \in DOMAIN loaded : loaded[ix].path # NoPath =>
          /\ loaded[ix].path = mappedKey(loaded[ix].ref)
          /\ \E m \in DOMAIN mounts : mounts[m].key = loaded[ix].path /\ Accounted(ix, m)
    /\ \A m \in DOMAIN mounts : \E last \in DOMAIN mounts :
          /\ mounts[last].key = mounts[m].key
          /\ \A n \in DOMAIN mounts : mounts[n].key = mounts[m].key => n <= last

LEMMA mappedKeyType ==
    ASSUME NEW ref \in SecretRefs
    PROVE  mappedKey(ref) \in Seq(STRING)
BY SecretRefsAssumption DEF mappedKey

LEMMA Appended ==
    ASSUME NEW S, NEW s \in Seq(S), NEW x \in S
    PROVE  /\ Append(s, x) \in Seq(S)
           /\ Len(s) \in Nat /\ DOMAIN s = 1 .. Len(s) /\ DOMAIN Append(s, x) = 1 .. Len(s) + 1
           /\ \A ix \in 1 .. Len(s) : Append(s, x)[ix] = s[ix]
           /\ Append(s, x)[Len(s) + 1] = x
OBVIOUS

\* A load that gives no path mounts nothing.
LEMMA GivenPreserves ==
    ASSUME Mounting, NEW ref \in SecretRefs, NEW read \in Reads, Given(ref, NoPath, read),
           values' \in [SecretRefs -> Reads], mounts' = mounts
    PROVE  Mounting'
<1> DEFINE load == [ref |-> ref, path |-> NoPath, read |-> read]
<1>1. load \in Loads
    BY DEF Loads, NoPath
<1>2. loaded' = Append(loaded, load)
    BY DEF Given
<1>3. /\ loaded' \in Seq(Loads) /\ DOMAIN loaded = 1 .. Len(loaded) /\ Len(loaded) \in Nat
      /\ DOMAIN loaded' = 1 .. Len(loaded) + 1
      /\ \A ix \in 1 .. Len(loaded) : loaded'[ix] = loaded[ix]
      /\ loaded'[Len(loaded) + 1].path = NoPath
    <2> HIDE DEF load
    <2>1. loaded'[Len(loaded) + 1] = load
        BY <1>1, <1>2, Appended DEF Mounting
    <2>2. load.path = NoPath
        BY DEF load
    <2> QED BY <1>1, <1>2, <2>1, <2>2, Appended DEF Mounting
<1>4. \A ix \in DOMAIN loaded : \A m \in DOMAIN mounts : Accounted(ix, m) => Accounted(ix, m)'
    BY <1>3 DEF Accounted
<1>5. \A ix \in DOMAIN loaded' : loaded'[ix].path # NoPath => ix \in DOMAIN loaded
    BY <1>3
<1> QED BY <1>3, <1>4, <1>5 DEF Mounting, mappedKey

LEMMA LoadMountPreserves ==
    ASSUME Mounting, LoadMount
    PROVE  Mounting'
<1>1. PICK ref \in SecretRefs :
         IF values[ref] = NoSecret THEN LoadError(ref) /\ UNCHANGED mounts
         ELSE /\ mounts' = Append(mounts, [key |-> mappedKey(ref), value |-> values[ref]])
              /\ Given(ref, mappedKey(ref), values[ref])
    BY DEF LoadMount
<1>2. UNCHANGED <<values, files>>
    BY DEF LoadMount, Unread
<1>3. CASE LoadError(ref) /\ UNCHANGED mounts
    BY <1>2, <1>3, GivenPreserves DEF LoadError, Mounting, Reads
<1>4. CASE /\ mounts' = Append(mounts, [key |-> mappedKey(ref), value |-> values[ref]])
           /\ Given(ref, mappedKey(ref), values[ref])
    <2> DEFINE load == [ref |-> ref, path |-> mappedKey(ref), read |-> values[ref]]
               mount == [key |-> mappedKey(ref), value |-> values[ref]]
    <2>1. load \in Loads /\ mount \in Mounts
        BY mappedKeyType DEF Loads, Mounts, Mounting
    <2>2. load.ref = ref /\ load.path = mappedKey(ref) /\ mount.key = load.path /\ mount.value = load.read
        OBVIOUS
    <2>3. loaded' = Append(loaded, load) /\ mounts' = Append(mounts, mount)
        BY <1>4 DEF Given
    <2> HIDE DEF load, mount
    <2>4. /\ loaded' \in Seq(Loads) /\ Len(loaded) \in Nat
          /\ DOMAIN loaded = 1 .. Len(loaded) /\ DOMAIN loaded' = 1 .. Len(loaded) + 1
          /\ \A ix \in 1 .. Len(loaded) : loaded'[ix] = loaded[ix]
          /\ loaded'[Len(loaded) + 1] = load
        BY <2>1, <2>3, Appended DEF Mounting
    <2>5. /\ mounts' \in Seq(Mounts) /\ Len(mounts) \in Nat
          /\ DOMAIN mounts = 1 .. Len(mounts) /\ DOMAIN mounts' = 1 .. Len(mounts) + 1
          /\ \A ix \in 1 .. Len(mounts) : mounts'[ix] = mounts[ix]
          /\ mounts'[Len(mounts) + 1] = mount
        BY <2>1, <2>3, Appended DEF Mounting
    <2>6. ASSUME NEW ix \in DOMAIN loaded, NEW m \in DOMAIN mounts, Accounted(ix, m)
          PROVE  Accounted(ix, m)'
        <3>1. ASSUME NEW n \in DOMAIN mounts', n >= m
              PROVE  \E j \in DOMAIN loaded' :
                        j >= ix /\ loaded'[j].path = mounts'[n].key /\ loaded'[j].read = mounts'[n].value
            <4>1. CASE n \in DOMAIN mounts
                <5>1. PICK j \in DOMAIN loaded :
                         j >= ix /\ loaded[j].path = mounts[n].key /\ loaded[j].read = mounts[n].value
                    BY <2>6, <3>1, <4>1 DEF Accounted
                <5>2. j \in DOMAIN loaded' /\ loaded'[j] = loaded[j]
                    BY <2>4
                <5>3. mounts'[n] = mounts[n]
                    BY <2>5, <4>1
                <5> QED BY <5>1, <5>2, <5>3
            <4>2. CASE n = Len(mounts) + 1
                <5>1. Len(loaded) + 1 \in DOMAIN loaded' /\ Len(loaded) + 1 >= ix
                    BY <2>4
                <5> QED BY <2>2, <2>4, <2>5, <4>2, <5>1
            <4> QED BY <2>5, <4>1, <4>2
        <3> QED BY <3>1 DEF Accounted
    <2>7. ASSUME NEW ix \in DOMAIN loaded', loaded'[ix].path # NoPath
          PROVE  /\ loaded'[ix].path = mappedKey(loaded'[ix].ref)
                 /\ \E m \in DOMAIN mounts' : mounts'[m].key = loaded'[ix].path /\ Accounted(ix, m)'
        <3>1. CASE ix \in DOMAIN loaded
            <4>1. loaded'[ix] = loaded[ix] /\ loaded[ix].path = mappedKey(loaded[ix].ref)
                BY <2>4, <2>7, <3>1 DEF Mounting
            <4>2. PICK m \in DOMAIN mounts : mounts[m].key = loaded[ix].path /\ Accounted(ix, m)
                BY <2>7, <3>1, <4>1 DEF Mounting
            <4> QED BY <2>5, <2>6, <3>1, <4>1, <4>2
        <3>2. CASE ix = Len(loaded) + 1
            <4>1. PICK m \in DOMAIN mounts' : m = Len(mounts) + 1
                BY <2>5
            <4>2. \A n \in DOMAIN mounts' : n >= m => n = m
                BY <2>5, <4>1
            <4>3. ix >= ix /\ loaded'[ix] = load /\ mounts'[m] = mount
                BY <2>4, <2>5, <3>2, <4>1
            <4>4. Accounted(ix, m)'
                BY <2>2, <2>7, <4>2, <4>3 DEF Accounted
            <4> QED BY <2>2, <4>3, <4>4
        <3> QED BY <2>4, <3>1, <3>2
    <2>8. ASSUME NEW m \in DOMAIN mounts'
          PROVE  \E last \in DOMAIN mounts' :
                    /\ mounts'[last].key = mounts'[m].key
                    /\ \A n \in DOMAIN mounts' : mounts'[n].key = mounts'[m].key => n <= last
        <3>1. CASE mounts'[m].key = mount.key
            <4>1. Len(mounts) + 1 \in DOMAIN mounts' /\ \A n \in DOMAIN mounts' : n <= Len(mounts) + 1
                BY <2>5
            <4> QED BY <2>5, <3>1, <4>1
        <3>2. CASE mounts'[m].key # mount.key
            <4>1. m \in DOMAIN mounts
                BY <2>5, <2>8, <3>2
            <4>2. PICK last \in DOMAIN mounts :
                     /\ mounts[last].key = mounts[m].key
                     /\ \A n \in DOMAIN mounts : mounts[n].key = mounts[m].key => n <= last
                BY <4>1 DEF Mounting
            <4>3. \A n \in DOMAIN mounts' : mounts'[n].key = mounts'[m].key => n \in DOMAIN mounts
                BY <2>5, <3>2
            <4>4. \A n \in DOMAIN mounts : n \in DOMAIN mounts' /\ mounts'[n] = mounts[n]
                BY <2>5
            <4>5. mounts'[last].key = mounts'[m].key
                BY <4>1, <4>2, <4>4
            <4>6. ASSUME NEW n \in DOMAIN mounts', mounts'[n].key = mounts'[m].key PROVE n <= last
                <5>1. n \in DOMAIN mounts /\ mounts[n].key = mounts[m].key
                    BY <4>1, <4>3, <4>4, <4>6
                <5> QED BY <4>2, <5>1
            <4> QED BY <4>4, <4>5, <4>6
        <3> QED BY <3>1, <3>2
    <2>9. \A ix \in DOMAIN loaded' : mappedKey(loaded[ix].ref)' = mappedKey(loaded'[ix].ref)
        BY DEF mappedKey
    <2> QED BY <1>2, <2>4, <2>5, <2>7, <2>8, <2>9 DEF Mounting
<1> QED BY <1>1, <1>3, <1>4

LEMMA MountingPreserved == Mounting /\ [LoaderNext]_loaderVars => Mounting'
<1> SUFFICES ASSUME Mounting, [LoaderNext]_loaderVars PROVE Mounting'
    OBVIOUS
<1>1. CASE LoadValue \/ LoadRead \/ LoadFails
    <2>1. PICK ref \in SecretRefs, read \in Reads : Given(ref, NoPath, read)
        BY <1>1 DEF LoadValue, LoadRead, LoadFails, LoadError, Reads, Mounting
    <2>2. UNCHANGED <<values, mounts>>
        BY <1>1 DEF LoadValue, LoadRead, LoadFails, Unread
    <2> QED BY <2>1, <2>2, GivenPreserves DEF Mounting
<1>2. CASE LoadMount
    BY <1>2, LoadMountPreserves
<1>3. CASE Regenerate
    BY <1>3 DEF Regenerate, Mounting
<1>4. CASE WriteMounts \/ EditSecret \/ UNCHANGED loaderVars
    <2>1. UNCHANGED <<mounts, loaded>>
        BY <1>4 DEF WriteMounts, EditSecret, loaderVars
    <2>2. values' \in [SecretRefs -> Reads]
        BY <1>4 DEF WriteMounts, EditSecret, loaderVars, Mounting, Reads
    <2>3. \A ix \in DOMAIN loaded, m \in DOMAIN mounts : Accounted(ix, m) => Accounted(ix, m)'
        BY <2>1 DEF Accounted
    <2> QED BY <2>1, <2>2, <2>3 DEF Mounting, mappedKey
<1> QED BY <1>1, <1>2, <1>3, <1>4 DEF LoaderNext

\* Of the mounts with a reference's key, the last one is what was read for it then or later, or for one
\* that it can be confused with.
LEMMA LastMountAccounts ==
    ASSUME Mounting, NEW ix \in DOMAIN loaded, loaded[ix].path # NoPath, NEW last \in DOMAIN mounts,
           mounts[last].key = loaded[ix].path,
           \A n \in DOMAIN mounts : mounts[n].key = loaded[ix].path => n <= last
    PROVE  \E j \in ix .. Len(loaded) :
              \/ Confusable(loaded[ix].ref, loaded[j].ref)
              \/ /\ loaded[j].ref = loaded[ix].ref /\ loaded[j].path = loaded[ix].path
                 /\ mounts[last].value = loaded[j].read
<1>1. PICK m \in DOMAIN mounts : mounts[m].key = loaded[ix].path /\ Accounted(ix, m)
    BY DEF Mounting
<1>2. last >= m
    BY <1>1 DEF Mounting
<1>3. PICK j \in DOMAIN loaded :
         j >= ix /\ loaded[j].path = mounts[last].key /\ loaded[j].read = mounts[last].value
    BY <1>1, <1>2 DEF Accounted
<1>4. j \in ix .. Len(loaded)
    BY <1>3 DEF Mounting
<1>5. loaded[ix].path = mappedKey(loaded[ix].ref) /\ loaded[j].path = mappedKey(loaded[j].ref)
    BY <1>3 DEF Mounting
<1>6. CASE loaded[ix].ref = loaded[j].ref
    BY <1>3, <1>4, <1>6
<1>7. CASE loaded[ix].ref # loaded[j].ref
    <2>1. mappedKey(loaded[ix].ref) = mappedKey(loaded[j].ref)
        BY <1>3, <1>5
    <2>2. Confusable(loaded[ix].ref, loaded[j].ref)
        BY <1>7, <2>1 DEF Confusable, mappedKey
    <2> QED BY <1>4, <2>2
<1> QED BY <1>6, <1>7

\* PathsLead, for any secrets, configurations and changes of the secrets (Load and Append).
THEOREM PathsLeadCorrect == LoaderSpec => PathsLead
<1>1. LoaderInit => Mounting
    BY DEF LoaderInit, Mounting, Reads
<1>2. ASSUME Mounting, [LoaderNext]_loaderVars
      PROVE  [files' # files /\ loaded' = loaded =>
                 \A ix \in DOMAIN loaded :
                     loaded[ix].path # NoPath =>
                         /\ loaded[ix].path \in DOMAIN files'
                         /\ \E j \in ix .. Len(loaded) :
                               \/ Confusable(loaded[ix].ref, loaded[j].ref)
                               \/ /\ loaded[j].ref = loaded[ix].ref /\ loaded[j].path = loaded[ix].path
                                  /\ files'[loaded[ix].path] = loaded[j].read]_loaderVars
    <2> SUFFICES ASSUME files' # files, loaded' = loaded, NEW ix \in DOMAIN loaded, loaded[ix].path # NoPath
                 PROVE  /\ loaded[ix].path \in DOMAIN files'
                        /\ \E j \in ix .. Len(loaded) :
                              \/ Confusable(loaded[ix].ref, loaded[j].ref)
                              \/ /\ loaded[j].ref = loaded[ix].ref /\ loaded[j].path = loaded[ix].path
                                 /\ files'[loaded[ix].path] = loaded[j].read
        OBVIOUS
    <2>1. WriteMounts
        <3>1. ~(LoadValue \/ LoadMount \/ LoadRead \/ LoadFails \/ EditSecret \/ UNCHANGED loaderVars)
            BY DEF LoadValue, LoadMount, LoadRead, LoadFails, EditSecret, Unread, loaderVars
        <3>2. ~Regenerate
            BY DEF Regenerate
        <3> QED BY <1>2, <3>1, <3>2 DEF LoaderNext
    <2> DEFINE path == loaded[ix].path
               IsLast(n) == /\ mounts[n].key = path
                            /\ \A m \in DOMAIN mounts : mounts[m].key = path => m <= n
    <2>2. path \in {mounts[n].key : n \in DOMAIN mounts}
        BY <1>2 DEF Mounting
    <2>3. PICK last \in DOMAIN mounts : last = CHOOSE n \in DOMAIN mounts : IsLast(n)
        <3>1. \E n \in DOMAIN mounts : IsLast(n)
            BY <1>2, <2>2 DEF Mounting
        <3> QED BY <3>1
    <2>4. IsLast(last)
        <3>1. \E n \in DOMAIN mounts : IsLast(n)
            BY <1>2, <2>2 DEF Mounting
        <3> HIDE DEF IsLast
        <3> QED BY <2>3, <3>1
    <2>5. path \in DOMAIN files' /\ files'[path] = mounts[last].value
        BY <2>1, <2>2, <2>3 DEF WriteMounts
    <2>6. \E j \in ix .. Len(loaded) :
              \/ Confusable(loaded[ix].ref, loaded[j].ref)
              \/ /\ loaded[j].ref = loaded[ix].ref /\ loaded[j].path = loaded[ix].path
                 /\ mounts[last].value = loaded[j].read
        BY <1>2, <2>4, LastMountAccounts
    <2> QED BY <2>5, <2>6
<1> QED BY <1>1, <1>2, MountingPreserved, PTL DEF LoaderSpec, PathsLead

-----------------------------------------------------------------------------
(* WorkloadOverrides.  A list of secrets grows by what was applied, and    *)
(* what a round starts from has as many as the base of the operator,       *)
(* because lists that are appended to are not written back.  Maps and      *)
(* containers are: only a workload made from an untouched base is known    *)
(* to be the operator's base, merged with the overrides of the round.      *)

Fresh == kept => rounds = 1

Workloads ==
    /\ kept \in BOOLEAN /\ rounds \in Nat /\ (rounds = 0 => Finished)
    /\ rounds > 0 => override \in Configurations
    /\ todo \subseteq {"override", "secrets"} /\ unmounted \subseteq VolumeSources
    /\ DOMAIN base = WorkloadFields /\ DOMAIN work = WorkloadFields

Untouched == (kept => rounds = 0) => base = Base

SecretsCount ==
    /\ base.secrets = Base.secrets /\ work.secrets \in Seq(STRING)
    /\ rounds > 0 =>
         Len(work.secrets) = Len(Base.secrets)
                             + (IF "override" \in todo THEN 0 ELSE Len(override.secrets))
                             + (IF "secrets" \in todo THEN 0 ELSE Len(PullSecrets))

MergedOnce ==
    rounds > 0 /\ Fresh =>
      IF "override" \in todo THEN work.labels = Base.labels /\ work.selector = Base.selector
      ELSE /\ work.labels = Merge(override.labels, Base.labels)
           /\ work.selector = mergeSelectors(override.selector, Base.selector)

StaysMounted == rounds > 0 /\ Fresh /\ KeepsVolumes(override) => Mounted(work)

Making == Workloads /\ Untouched /\ SecretsCount /\ MergedOnce /\ StaysMounted

\* One override after the other, as a function of how many have been applied.
Stages(given, c, g, n) ==
    g = [m \in 0 .. n |->
            IF m = 0 THEN c
            ELSE IF given[m].name = c.name THEN OverrideContainer(given[m], g[m - 1]) ELSE g[m - 1]]

\* However many overrides there are, the loop over them has a result.
LEMMA StagesExist ==
    ASSUME NEW given, NEW c
    PROVE  \A n \in Nat : \E g : Stages(given, c, g, n)
<1> DEFINE T == {n \in Nat : \E g : Stages(given, c, g, n)}
<1>1. 0 \in T
  <2> DEFINE g == [m \in 0 .. 0 |-> c]
  <2>1. Stages(given, c, g, 0)
      BY DEF Stages
  <2> QED BY <2>1
<1>2. ASSUME NEW n \in Nat, n \in T PROVE n + 1 \in T
  <2>1. PICK g : Stages(given, c, g, n)
      BY <1>2
  <2> DEFINE last == IF given[n + 1].name = c.name THEN OverrideContainer(given[n + 1], g[n]) ELSE g[n]
             h == [m \in 0 .. n + 1 |-> IF m = n + 1 THEN last ELSE g[m]]
  <2>2. \A m \in 0 .. n : h[m] = g[m]
      OBVIOUS
  <2>3. h[n + 1] = last
      OBVIOUS
  <2>4. \A m \in 0 .. n : g[m] = IF m = 0 THEN c
            ELSE IF given[m].name = c.name THEN OverrideContainer(given[m], g[m - 1]) ELSE g[m - 1]
      BY <2>1 DEF Stages
  <2> HIDE DEF last
  <2>5. ASSUME NEW m \in 0 .. n + 1
        PROVE  h[m] = IF m = 0 THEN c
            ELSE IF given[m].name = c.name THEN OverrideContainer(given[m], h[m - 1]) ELSE h[m - 1]
    <3>1. CASE m = 0
        BY <2>2, <2>4, <3>1
    <3>2. CASE m \in 1 .. n
      <4>1. m \in 0 .. n /\ m - 1 \in 0 .. n /\ m # 0
          BY <3>2
      <4> HIDE DEF h
      <4> QED BY <2>2, <2>4, <4>1
    <3>3. CASE m = n + 1
      <4>1. n \in 0 .. n /\ (n + 1) - 1 = n /\ n + 1 # 0
          OBVIOUS
      <4>2. h[n] = g[n]
          BY <2>2, <4>1
      <4> HIDE DEF h
      <4> QED BY <2>3, <3>3, <4>1, <4>2 DEF last
    <3> QED BY <3>1, <3>2, <3>3
  <2>6. h = [m \in 0 .. n + 1 |-> h[m]]
      OBVIOUS
  <2> HIDE DEF h
  <2>7. Stages(given, c, h, n + 1)
      BY <2>5, <2>6 DEF Stages
  <2> QED BY <2>7
<1> HIDE DEF T
<1>3. \A n \in Nat : n \in T
    BY <1>1, <1>2, NaturalsReached
<1> QED BY <1>3 DEF T

\* A container keeps what it mounts if no override mounts anything.
LEMMA OverriddenMounts ==
    ASSUME NEW given, Len(given) \in Nat, \A n \in 1 .. Len(given) : given[n].mounts = <<>>,
           NEW c, DOMAIN c = ContainerFields
    PROVE  DOMAIN Overridden(given, c) = ContainerFields /\ Overridden(given, c).mounts = c.mounts
<1> DEFINE F == CHOOSE g : g = [m \in 0 .. Len(given) |->
            IF m = 0 THEN c
            ELSE IF given[m].name = c.name THEN OverrideContainer(given[m], g[m - 1]) ELSE g[m - 1]]
<1>1. Overridden(given, c) = F[Len(given)]
    BY DEF Overridden
<1>2. \E g : Stages(given, c, g, Len(given))
    BY StagesExist
<1>3. Stages(given, c, F, Len(given))
    BY <1>2 DEF Stages
<1> HIDE DEF F
<1>4. \A m \in 0 .. Len(given) : F[m] = IF m = 0 THEN c
            ELSE IF given[m].name = c.name THEN OverrideContainer(given[m], F[m - 1]) ELSE F[m - 1]
    BY <1>3 DEF Stages
<1> DEFINE Same(d) == DOMAIN d = ContainerFields /\ d.mounts = c.mounts
           T == {n \in Nat : n <= Len(given) => Same(F[n])}
<1>5. 0 \in T
    BY <1>4
<1>6. ASSUME NEW n \in Nat, n \in T PROVE n + 1 \in T
  <2> SUFFICES ASSUME n + 1 <= Len(given) PROVE Same(F[n + 1])
      OBVIOUS
  <2>1. Same(F[n])
      BY <1>6
  <2>2. n + 1 \in 1 .. Len(given) /\ n + 1 \in 0 .. Len(given) /\ n + 1 # 0 /\ (n + 1) - 1 = n
      OBVIOUS
  <2>3. F[n + 1] = IF given[n + 1].name = c.name THEN OverrideContainer(given[n + 1], F[n]) ELSE F[n]
      BY <1>4, <2>2
  <2>4. given[n + 1].mounts = <<>>
      BY <2>2
  <2>5. Same(OverrideContainer(given[n + 1], F[n]))
      BY <2>1, <2>4 DEF OverrideContainer, ContainerFields
  <2> QED BY <2>1, <2>3, <2>5
<1> HIDE DEF T
<1>7. \A n \in Nat : n \in T
    BY <1>5, <1>6, NaturalsReached
<1> QED BY <1>1, <1>7 DEF T

\* Appending to a sequence adds to what is in it.
LEMMA RangeOfAppend ==
    ASSUME NEW S, NEW s \in Seq(S), NEW x \in S
    PROVE  Append(s, x) \in Seq(S) /\ Range(Append(s, x)) = Range(s) \cup {x}
<1>1. Append(s, x) \in Seq(S) /\ Len(Append(s, x)) = Len(s) + 1
    OBVIOUS
<1>2. \A ix \in 1 .. Len(s) : Append(s, x)[ix] = s[ix]
    OBVIOUS
<1>3. Append(s, x)[Len(s) + 1] = x
    OBVIOUS
<1>4. DOMAIN s = 1 .. Len(s) /\ DOMAIN Append(s, x) = 1 .. Len(s) + 1 /\ Len(s) \in Nat
    BY <1>1
<1>5. Range(Append(s, x)) \subseteq Range(s) \cup {x}
  <2> SUFFICES ASSUME NEW ix \in 1 .. Len(s) + 1 PROVE Append(s, x)[ix] \in Range(s) \cup {x}
      BY <1>4 DEF Range
  <2>1. ix \in 1 .. Len(s) \/ ix = Len(s) + 1
      BY <1>4
  <2> QED BY <1>2, <1>3, <1>4, <2>1 DEF Range
<1>6. Range(s) \cup {x} \subseteq Range(Append(s, x))
  <2>1. ASSUME NEW ix \in 1 .. Len(s) PROVE s[ix] \in Range(Append(s, x))
    <3>1. ix \in 1 .. Len(s) + 1
        BY <1>4
    <3> QED BY <1>2, <1>4, <3>1 DEF Range
  <2>2. Len(s) + 1 \in 1 .. Len(s) + 1
      BY <1>4
  <2>3. x \in Range(Append(s, x))
      BY <1>3, <1>4, <2>2 DEF Range
  <2> QED BY <1>4, <2>1, <2>3 DEF Range
<1> QED BY <1>1, <1>5, <1>6

\* A selector and labels that agree still do when they are merged with others that agree.
LEMMA MergesAgree ==
    ASSUME NEW o, Consistent(o)
    PROVE  Agrees(mergeSelectors(o.selector, Base.selector), Merge(o.labels, Base.labels))
<1> DEFINE sel == mergeSelectors(o.selector, Base.selector)
           lab == Merge(o.labels, Base.labels)
<1>1. /\ DOMAIN sel = DOMAIN o.selector \cup DOMAIN Base.selector
      /\ \A k \in DOMAIN sel : sel[k] = IF k \in DOMAIN o.selector THEN o.selector[k] ELSE Base.selector[k]
    BY DEF mergeSelectors, Overlaid
<1>2. /\ DOMAIN lab = DOMAIN o.labels \cup DOMAIN Base.labels
      /\ \A k \in DOMAIN lab : lab[k] = IF k \in DOMAIN o.labels THEN o.labels[k] ELSE Base.labels[k]
    BY DEF Merge, Overlaid
<1> HIDE DEF sel, lab
<1>3. ASSUME NEW k \in DOMAIN sel PROVE k \in DOMAIN lab /\ lab[k] = sel[k]
  <2>1. CASE k \in DOMAIN o.selector
      BY <1>1, <1>2, <1>3, <2>1 DEF Consistent, Agrees
  <2>2. CASE k \notin DOMAIN o.selector
    <3>1. k \in DOMAIN Base.selector /\ k \in DOMAIN Base.labels /\ Base.labels[k] = Base.selector[k]
        BY <1>1, <1>3, <2>2, BaseAssumption DEF Agrees
    <3>2. k \notin DOMAIN o.labels
        BY <2>2, <3>1 DEF Consistent
    <3> QED BY <1>1, <1>2, <2>2, <3>1, <3>2
  <2> QED BY <2>1, <2>2
<1>4. Agrees(sel, lab)
    BY <1>3 DEF Agrees
<1> QED BY <1>4 DEF sel, lab

\* What a volume is mounted in has it.
LEMMA VolumesMount ==
    ASSUME NEW v \in VolumeSources, NEW w, DOMAIN w = WorkloadFields
    PROVE  /\ \A t \in {ApplyVolume(v, w), ApplyPVC(v, w)} :
                /\ DOMAIN t = WorkloadFields
                /\ t.labels = w.labels /\ t.selector = w.selector /\ t.secrets = w.secrets
                /\ Mounted(w) => Mounted(t)
<1> DEFINE c == VolumeMounts(v, w)
<1>0. v.name \in STRING
    BY ConfigurationsAssumption
<1>1. \A t \in {ApplyVolume(v, w), ApplyPVC(v, w)} :
          /\ DOMAIN t = WorkloadFields /\ t.containers = c
          /\ t.labels = w.labels /\ t.selector = w.selector /\ t.secrets = w.secrets
    BY DEF ApplyVolume, ApplyPVC, WorkloadFields
<1>2. /\ ApplyVolume(v, w).volumes = Append(w.volumes, v.name) /\ ApplyVolume(v, w).claims = w.claims
      /\ ApplyPVC(v, w).claims = Append(w.claims, v.name) /\ ApplyPVC(v, w).volumes = w.volumes
    BY DEF ApplyVolume, ApplyPVC, Added, WorkloadFields
<1>3. ASSUME Mounted(w), NEW t \in {ApplyVolume(v, w), ApplyPVC(v, w)}
      PROVE  Mounted(t)
  <2> DEFINE there == Range(w.volumes) \cup Range(w.claims)
  <2>1. w.volumes \in Seq(STRING) /\ w.claims \in Seq(STRING)
      BY <1>3 DEF Mounted
  <2>2. /\ t.volumes \in Seq(STRING) /\ t.claims \in Seq(STRING)
        /\ Range(t.volumes) \cup Range(t.claims) = there \cup {v.name}
    <3>1. ASSUME NEW s \in Seq(STRING)
          PROVE  Append(s, v.name) \in Seq(STRING) /\ Range(Append(s, v.name)) = Range(s) \cup {v.name}
        BY <1>0, RangeOfAppend
    <3> QED BY <1>2, <1>3, <2>1, <3>1
  <2>3. ASSUME NEW ix \in DOMAIN c
        PROVE  /\ DOMAIN c[ix] = ContainerFields /\ c[ix].mounts \in Seq(STRING)
               /\ Range(c[ix].mounts) \subseteq there \cup {v.name}
    <3> DEFINE box == w.containers[ix]
    <3>1. DOMAIN box = ContainerFields /\ box.mounts \in Seq(STRING) /\ Range(box.mounts) \subseteq there
        BY <1>3, <2>3 DEF Mounted, VolumeMounts
    <3>2. c[ix] = box \/ c[ix] = [box EXCEPT !.mounts = Append(box.mounts, v.name)]
        BY <2>3 DEF VolumeMounts
    <3>3. Append(box.mounts, v.name) \in Seq(STRING) /\ Range(Append(box.mounts, v.name)) = Range(box.mounts) \cup {v.name}
        BY <1>0, <3>1, RangeOfAppend
    <3> HIDE DEF box, c
    <3>4. CASE c[ix] = box
        BY <3>1, <3>4
    <3>5. CASE c[ix] = [box EXCEPT !.mounts = Append(box.mounts, v.name)]
      <4>1. DOMAIN c[ix] = ContainerFields /\ c[ix].mounts = Append(box.mounts, v.name)
          BY <3>1, <3>5 DEF ContainerFields
      <4> QED BY <3>1, <3>3, <4>1
    <3> QED BY <3>2, <3>4, <3>5
  <2>4. t.containers = c
      BY <1>1, <1>3
  <2> HIDE DEF c, there
  <2> QED BY <2>2, <2>3, <2>4 DEF Mounted
<1> QED BY <1>1, <1>3

\* An override that keeps the volumes leaves what is mounted alone.
LEMMA OverrideKeepsMounts ==
    ASSUME NEW o \in Configurations, KeepsVolumes(o), NEW w, DOMAIN w = WorkloadFields, Mounted(w)
    PROVE  Mounted(Override(o, w))
<1> DEFINE t == Override(o, w)
<1>1. t.volumes = w.volumes /\ t.claims = w.claims /\ t.containers = OverrideContainers(o.containers, w.containers)
    BY DEF Override, KeepsVolumes, WorkloadFields
<1>2. DOMAIN o.containers = 1 .. Len(o.containers) /\ Len(o.containers) \in Nat
    BY ConfigurationsAssumption
<1>3. ASSUME NEW ix \in DOMAIN w.containers
      PROVE  /\ DOMAIN t.containers[ix] = ContainerFields
             /\ t.containers[ix].mounts = w.containers[ix].mounts
  <2>1. t.containers[ix] = Overridden(o.containers, w.containers[ix])
      BY <1>1, <1>3 DEF OverrideContainers
  <2>2. \A n \in 1 .. Len(o.containers) : o.containers[n].mounts = <<>>
      BY <1>2 DEF KeepsVolumes
  <2>3. DOMAIN w.containers[ix] = ContainerFields
      BY <1>3 DEF Mounted
  <2> QED BY <1>2, <2>1, <2>2, <2>3, OverriddenMounts
<1>4. DOMAIN t.containers = DOMAIN w.containers
    BY <1>1 DEF OverrideContainers
<1> HIDE DEF t
<1>5. Mounted(t)
    BY <1>1, <1>3, <1>4 DEF Mounted
<1> QED BY <1>5 DEF t

\* What is applied leaves of a workload all that the other steps change.
LEMMA OverrideFields ==
    ASSUME NEW o \in Configurations, NEW w, DOMAIN w = WorkloadFields, w.secrets \in Seq(STRING)
    PROVE  /\ DOMAIN Override(o, w) = WorkloadFields
           /\ Override(o, w).labels = Merge(o.labels, w.labels)
           /\ Override(o, w).selector = mergeSelectors(o.selector, w.selector)
           /\ Override(o, w).secrets \in Seq(STRING)
           /\ Len(Override(o, w).secrets) = Len(w.secrets) + Len(o.secrets)
<1> DEFINE t == Override(o, w)
<1>1. /\ DOMAIN t = WorkloadFields /\ t.labels = Merge(o.labels, w.labels)
      /\ t.selector = mergeSelectors(o.selector, w.selector) /\ t.secrets = w.secrets \o o.secrets
    BY DEF Override, WorkloadFields
<1>2. o.secrets \in Seq(STRING)
    BY ConfigurationsAssumption
<1> HIDE DEF t
<1>3. ASSUME NEW S, NEW r \in Seq(S), NEW s \in Seq(S)
      PROVE  r \o s \in Seq(S) /\ Len(r \o s) = Len(r) + Len(s)
    OBVIOUS
<1>4. t.secrets \in Seq(STRING) /\ Len(t.secrets) = Len(w.secrets) + Len(o.secrets)
    BY <1>1, <1>2, <1>3
<1> QED BY <1>1, <1>4 DEF t

\* The maps and containers of a workload are written to a base that is kept.
LEMMA WroteBase ==
    ASSUME NEW w, Wrote(w), Workloads, Untouched, SecretsCount, rounds > 0
    PROVE  /\ work' = w /\ DOMAIN base' = WorkloadFields /\ base'.secrets = Base.secrets
           /\ (kept => rounds = 0) => base' = Base
<1>1. CASE kept
  <2>1. base' = [base EXCEPT !.labels = w.labels, !.selector = w.selector, !.containers = w.containers]
      BY <1>1 DEF Wrote
  <2>2. DOMAIN base' = WorkloadFields /\ base'.secrets = base.secrets
      BY <2>1 DEF Workloads, WorkloadFields
  <2> QED BY <1>1, <2>2 DEF Wrote, SecretsCount
<1>2. CASE ~kept
    BY <1>2 DEF Wrote, Workloads, Untouched, SecretsCount
<1> QED BY <1>1, <1>2

LEMMA MakingInit == OverrideInit => Making
<1> SUFFICES ASSUME OverrideInit PROVE Making
    OBVIOUS
<1>1. Workloads
    BY BaseAssumption DEF OverrideInit, Workloads, Finished
<1>2. SecretsCount
    BY BaseAssumption DEF OverrideInit, SecretsCount
<1>3. Untouched /\ MergedOnce /\ StaysMounted
    BY DEF OverrideInit, Untouched, MergedOnce, StaysMounted
<1> QED BY <1>1, <1>2, <1>3 DEF Making

LEMMA MakingPreserved == Making /\ [OverrideNext]_overrideVars => Making'
<1> SUFFICES ASSUME Making, [OverrideNext]_overrideVars PROVE Making'
    OBVIOUS
<1> USE DEF Making
<1>1. CASE StartRound
  <2>1. /\ rounds \in Nat /\ rounds' = rounds + 1 /\ work' = base /\ override' \in Configurations
        /\ todo' = {"override", "secrets"} /\ unmounted' = VolumeSources
        /\ kept' = kept /\ base' = base
      BY <1>1 DEF StartRound, Workloads
  <2>2. Workloads'
      BY <2>1 DEF Workloads
  <2>3. Untouched' /\ (Fresh' => base = Base)
      BY <2>1 DEF Untouched, Fresh
  <2>4. SecretsCount'
      BY <2>1, BaseAssumption DEF SecretsCount
  <2>5. MergedOnce'
      BY <2>1, <2>3 DEF MergedOnce
  <2>6. StaysMounted'
      BY <2>1, <2>3, BaseAssumption DEF StaysMounted
  <2> QED BY <2>2, <2>3, <2>4, <2>5, <2>6
<1>2. ASSUME NEW v \in VolumeSources, MountVolume(v) \/ ClaimVolume(v) PROVE Making'
  <2>1. /\ v \in unmounted /\ unmounted' = unmounted \ {v}
        /\ UNCHANGED <<kept, override, todo, rounds>>
      BY <1>2 DEF MountVolume, ClaimVolume
  <2>2. rounds \in Nat /\ rounds > 0
      BY <2>1 DEF Workloads, Finished
  <2>3. CASE UNCHANGED <<base, work>>
    <3>1. Workloads'
        BY <2>1, <2>2, <2>3 DEF Workloads
    <3>2. Untouched' /\ SecretsCount' /\ MergedOnce' /\ StaysMounted'
        BY <2>1, <2>3 DEF Untouched, SecretsCount, MergedOnce, StaysMounted, Fresh
    <3> QED BY <3>1, <3>2
  <2>4. ASSUME NEW t \in {ApplyVolume(v, work), ApplyPVC(v, work)}, Wrote(t) PROVE Making'
    <3>1. /\ DOMAIN t = WorkloadFields
          /\ t.labels = work.labels /\ t.selector = work.selector /\ t.secrets = work.secrets
          /\ Mounted(work) => Mounted(t)
        BY <2>4, VolumesMount DEF Workloads
    <3>2. /\ work' = t /\ DOMAIN base' = WorkloadFields /\ base'.secrets = Base.secrets
          /\ (kept => rounds = 0) => base' = Base
        BY <2>2, <2>4, WroteBase
    <3>3. Workloads' /\ Untouched'
        BY <2>1, <2>2, <3>1, <3>2 DEF Workloads, Untouched
    <3>4. SecretsCount'
        BY <2>1, <3>1, <3>2 DEF SecretsCount
    <3>5. MergedOnce'
        BY <2>1, <3>1, <3>2 DEF MergedOnce, Fresh
    <3>6. StaysMounted'
        BY <2>1, <3>1, <3>2 DEF StaysMounted, Fresh
    <3> QED BY <3>3, <3>4, <3>5, <3>6
  <2>5. UNCHANGED <<base, work>> \/ Wrote(ApplyVolume(v, work)) \/ Wrote(ApplyPVC(v, work))
      BY <1>2 DEF MountVolume, ClaimVolume
  <2> QED BY <2>3, <2>4, <2>5
<1>3. CASE OverrideWorkload
  <2> DEFINE t == Override(override, work)
  <2>1. /\ "override" \in todo /\ todo' = todo \ {"override"} /\ Wrote(t)
        /\ UNCHANGED <<kept, override, unmounted, rounds>>
      BY <1>3 DEF OverrideWorkload
  <2>2. rounds \in Nat /\ rounds > 0 /\ override \in Configurations
      BY <2>1 DEF Workloads, Finished
  <2>3. /\ DOMAIN t = WorkloadFields
        /\ t.labels = Merge(override.labels, work.labels)
        /\ t.selector = mergeSelectors(override.selector, work.selector)
        /\ t.secrets \in Seq(STRING)
        /\ Len(t.secrets) = Len(work.secrets) + Len(override.secrets)
      BY <2>2, OverrideFields DEF Workloads, SecretsCount
  <2>4. KeepsVolumes(override) /\ Mounted(work) => Mounted(t)
      BY <2>2, OverrideKeepsMounts DEF Workloads
  <2> HIDE DEF t
  <2>5. /\ work' = t /\ DOMAIN base' = WorkloadFields /\ base'.secrets = Base.secrets
        /\ (kept => rounds = 0) => base' = Base
      BY <2>1, <2>2, WroteBase
  <2>6. Workloads' /\ Untouched'
      BY <2>1, <2>2, <2>3, <2>5 DEF Workloads, Untouched
  <2>7. SecretsCount'
    <3>1. /\ override.secrets \in Seq(STRING) /\ PullSecrets \in Seq(STRING)
          /\ Base.secrets \in Seq(STRING) /\ work.secrets \in Seq(STRING)
        BY <2>2, BaseAssumption, ConfigurationsAssumption DEF SecretsCount
    <3>2. /\ Len(override.secrets) \in Nat /\ Len(PullSecrets) \in Nat
          /\ Len(Base.secrets) \in Nat /\ Len(work.secrets) \in Nat
        BY <3>1
    <3>3. Len(work.secrets) = Len(Base.secrets) + 0
              + (IF "secrets" \in todo THEN 0 ELSE Len(PullSecrets))
        BY <2>1, <2>2 DEF SecretsCount
    <3>4. Len(work'.secrets) = Len(Base.secrets) + Len(override.secrets)
              + (IF "secrets" \in todo THEN 0 ELSE Len(PullSecrets))
      <4> DEFINE rest == IF "secrets" \in todo THEN 0 ELSE Len(PullSecrets)
      <4>1. rest \in Nat
          BY <3>2
      <4>2. Len(work'.secrets) = Len(work.secrets) + Len(override.secrets)
          BY <2>3, <2>5
      <4> HIDE DEF rest
      <4>3. Len(work.secrets) = Len(Base.secrets) + rest
          BY <3>2, <3>3, <4>1 DEF rest
      <4>4. ASSUME NEW x \in Nat, NEW y \in Nat, NEW z \in Nat PROVE x + z + y = x + y + z
          OBVIOUS
      <4>5. Len(Base.secrets) + rest + Len(override.secrets) = Len(Base.secrets) + Len(override.secrets) + rest
          BY <3>2, <4>1, <4>4
      <4>6. Len(work'.secrets) = Len(Base.secrets) + Len(override.secrets) + rest
          BY <4>2, <4>3, <4>5
      <4> QED BY <4>6 DEF rest
    <3>5. "override" \notin todo' /\ ("secrets" \in todo <=> "secrets" \in todo') /\ override' = override
        BY <2>1
    <3>6. work'.secrets \in Seq(STRING) /\ base'.secrets = Base.secrets
        BY <2>3, <2>5
    <3> QED BY <3>4, <3>5, <3>6 DEF SecretsCount
  <2>8. MergedOnce'
      BY <2>1, <2>2, <2>3, <2>5 DEF MergedOnce, Fresh
  <2>9. StaysMounted'
      BY <2>1, <2>2, <2>4, <2>5 DEF StaysMounted, Fresh
  <2> QED BY <2>6, <2>7, <2>8, <2>9
<1>4. CASE AddPullSecrets
  <2> DEFINE t == [work EXCEPT !.secrets = work.secrets \o PullSecrets]
  <2>1. /\ "secrets" \in todo /\ todo' = todo \ {"secrets"} /\ Wrote(t)
        /\ UNCHANGED <<kept, override, unmounted, rounds>>
      BY <1>4 DEF AddPullSecrets
  <2>2. rounds \in Nat /\ rounds > 0 /\ override \in Configurations
      BY <2>1 DEF Workloads, Finished
  <2>3. /\ DOMAIN t = WorkloadFields /\ t.labels = work.labels /\ t.selector = work.selector
        /\ t.volumes = work.volumes /\ t.claims = work.claims /\ t.containers = work.containers
        /\ t.secrets = work.secrets \o PullSecrets
      BY DEF Workloads, WorkloadFields
  <2> HIDE DEF t
  <2>4. /\ override.secrets \in Seq(STRING) /\ PullSecrets \in Seq(STRING)
        /\ Base.secrets \in Seq(STRING) /\ work.secrets \in Seq(STRING)
      BY <2>2, BaseAssumption, ConfigurationsAssumption DEF SecretsCount
  <2>5. ASSUME NEW S, NEW r \in Seq(S), NEW s \in Seq(S)
        PROVE  r \o s \in Seq(S) /\ Len(r \o s) = Len(r) + Len(s)
      OBVIOUS
  <2>6. t.secrets \in Seq(STRING) /\ Len(t.secrets) = Len(work.secrets) + Len(PullSecrets)
      BY <2>3, <2>4, <2>5
  <2>7. /\ work' = t /\ DOMAIN base' = WorkloadFields /\ base'.secrets = Base.secrets
        /\ (kept => rounds = 0) => base' = Base
      BY <2>1, <2>2, WroteBase
  <2>8. Workloads' /\ Untouched'
      BY <2>1, <2>2, <2>3, <2>7 DEF Workloads, Untouched
  <2>9. SecretsCount'
    <3>1. /\ Len(override.secrets) \in Nat /\ Len(PullSecrets) \in Nat
          /\ Len(Base.secrets) \in Nat /\ Len(work.secrets) \in Nat
        BY <2>4
    <3>2. Len(work.secrets) = Len(Base.secrets)
              + (IF "override" \in todo THEN 0 ELSE Len(override.secrets)) + 0
        BY <2>1, <2>2 DEF SecretsCount
    <3>3. Len(work'.secrets) = Len(Base.secrets)
              + (IF "override" \in todo THEN 0 ELSE Len(override.secrets)) + Len(PullSecrets)
      <4> DEFINE rest == IF "override" \in todo THEN 0 ELSE Len(override.secrets)
      <4>1. rest \in Nat
          BY <3>1
      <4>2. Len(work'.secrets) = Len(work.secrets) + Len(PullSecrets)
          BY <2>6, <2>7
      <4> HIDE DEF rest
      <4>3. Len(work.secrets) = Len(Base.secrets) + rest
          BY <3>1, <3>2, <4>1 DEF rest
      <4>4. Len(work'.secrets) = Len(Base.secrets) + rest + Len(PullSecrets)
          BY <3>1, <4>1, <4>2, <4>3
      <4> QED BY <3>1, <4>1, <4>4 DEF rest
    <3>4. "secrets" \notin todo' /\ ("override" \in todo <=> "override" \in todo') /\ override' = override
        BY <2>1
    <3>5. work'.secrets \in Seq(STRING) /\ base'.secrets = Base.secrets
        BY <2>6, <2>7
    <3> QED BY <3>3, <3>4, <3>5 DEF SecretsCount
  <2>10. MergedOnce'
      BY <2>1, <2>2, <2>3, <2>7 DEF MergedOnce, Fresh
  <2>11. StaysMounted'
      BY <2>1, <2>2, <2>3, <2>7 DEF StaysMounted, Fresh, Mounted
  <2> QED BY <2>8, <2>9, <2>10, <2>11
<1>5. CASE UNCHANGED overrideVars
  <2>1. Workloads' /\ Untouched'
      BY <1>5 DEF Workloads, Untouched, Finished, overrideVars
  <2>2. SecretsCount'
      BY <1>5 DEF SecretsCount, overrideVars
  <2>3. MergedOnce' /\ StaysMounted'
      BY <1>5 DEF MergedOnce, StaysMounted, Fresh, overrideVars
  <2> QED BY <2>1, <2>2, <2>3
<1> QED BY <1>1, <1>2, <1>3, <1>4, <1>5 DEF OverrideNext

\* A workload made from an untouched base and an override that does not contradict itself selects its own
\* pods and has the volumes its containers mount, whatever was refused on the way, and no round's pull
\* secrets are left in the next one's, for any configurations and volumes (base_types.go, volume_types.go,
\* objectmodifiers.go).
THEOREM DeployableCorrect == OverrideSpec => []Deployable
<1>1. Making => Deployable
  <2> SUFFICES ASSUME Making, Finished, rounds > 0
               PROVE  /\ Fresh => /\ Consistent(override) => Agrees(work.selector, work.labels)
                                  /\ KeepsVolumes(override) => Mounted(work)
                      /\ Len(work.secrets) = Len(Base.secrets) + Len(override.secrets) + Len(PullSecrets)
      BY DEF Deployable, Fresh
  <2>1. todo = {}
      BY DEF Finished
  <2>2. Len(work.secrets) = Len(Base.secrets) + Len(override.secrets) + Len(PullSecrets)
      BY <2>1 DEF Making, SecretsCount
  <2>3. Fresh => /\ work.labels = Merge(override.labels, Base.labels)
                 /\ work.selector = mergeSelectors(override.selector, Base.selector)
      BY <2>1 DEF Making, MergedOnce
  <2>4. Fresh /\ KeepsVolumes(override) => Mounted(work)
      BY DEF Making, StaysMounted
  <2> QED BY <2>2, <2>3, <2>4, MergesAgree
<1> QED BY <1>1, MakingInit, MakingPreserved, PTL DEF OverrideSpec
=============================================================================
