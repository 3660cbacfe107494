------------------------------ MODULE WatchEvents ------------------------------
(***************************************************************************)
(* From a change of an object to the reconciliation of the owners it is    *)
(* related to.  One informer follows the object and hands every event to   *)
(* all watches, each of which has a goroutine of its own, its predicate    *)
(* and EnqueueByOwnerAnnotationMapper.  Events hold pointers to the        *)
(* informer's objects, and SpecChangePredicate writes to one of them.      *)
(***************************************************************************)
EXTENDS Naturals, Sequences, FiniteSets

CONSTANTS
    Watches,        \* the watches of the operator
    Skips,          \* per watch, the kinds of events its predicate skips
    UpdateFilter,   \* per watch, the predicate for updates: "all", "spec" or "pending"
    Owners,         \* the owners an object may be related to
    MaxRevisions,   \* bound: changes of the object
    MaxRestarts     \* bound: restarts of the operator

EventKinds == {"create", "update", "delete"}
\* No annotation, or one that does not hold a namespace and a name.
Unrelated == "unrelated"

ASSUME WatchesAssumption ==
    /\ Skips \in [Watches -> SUBSET EventKinds] /\ UpdateFilter \in [Watches -> {"all", "spec", "pending"}]
    /\ Unrelated \notin Owners /\ {MaxRevisions, MaxRestarts} \subseteq Nat

\* A revision of the object: whether it exists, its spec, its status, whom it is related to.
Revision == [exists : BOOLEAN, spec : {"x", "y"}, pending : BOOLEAN, related : Owners \cup {Unrelated}]

VARIABLES
    revisions,    \* the object's revisions; the last one is the cluster's
    cached,       \* the number of the revision the informer has
    rv,           \* per number, the resource version that the informer's copy shows
    inbox,        \* per watch, the events to come: <<old, new>>, numbers of revisions
    predicate,    \* per watch, how far SpecChangePredicate is with the first of them
    queue,        \* per watch, the owners to reconcile
    worked,       \* history: per watch and owner, the revision the last reconciliation has seen
    missable,     \* history: the watches that have been told not to look at something
    restarts

watchVars == <<revisions, cached, rv, inbox, predicate, queue, worked, missable, restarts>>

\* Where SpecChangePredicate is, the resource version it has put aside, and its answer.
NotComparing == [at |-> "idle", aside |-> 0, differs |-> FALSE]
Latest == Len(revisions)
Kind(event) == IF ~revisions[event[1]].exists THEN "create"
               ELSE IF ~revisions[event[2]].exists THEN "delete" ELSE "update"

-----------------------------------------------------------------------------
(* EnqueueByOwnerAnnotationMapper *)

\* Mutant: only the new object's owner is told.
RequestsBug(event) == {revisions[event[2]].related} \ {Unrelated}

\* The handler maps both objects of an update.
Requests(event) == {revisions[n].related : n \in {event[1], event[2]}} \ {Unrelated}

EndEvent(w, passes) ==
    /\ inbox' = [inbox EXCEPT ![w] = Tail(@)]
    /\ queue' = IF passes THEN [queue EXCEPT ![w] = @ \cup Requests(Head(inbox[w]))] ELSE queue
    /\ missable' = IF Kind(Head(inbox[w])) \in Skips[w] THEN missable \cup {w} ELSE missable
    /\ UNCHANGED <<revisions, cached, worked, restarts>>

-----------------------------------------------------------------------------
(* The predicates *)

First(w) == Head(inbox[w])
Comparing(w) == UpdateFilter[w] = "spec" /\ "update" \notin Skips[w]

\* SkipCreatePredicate, SkipUpdatePredicate, SkipDeletePredicate, PendingStatusPredicate, and none.
FilterEvent(w) ==
    /\ inbox[w] # <<>>
    /\ Kind(First(w)) = "update" => ~Comparing(w)
    /\ EndEvent(w, /\ Kind(First(w)) \notin Skips[w]
                   /\ Kind(First(w)) = "update" /\ UpdateFilter[w] = "pending"
                        => revisions[First(w)[2]].pending)
    /\ UNCHANGED <<rv, predicate>>

\* SpecChangePredicate: the old object is given the new one's resource version.
PutAside(w) ==
    /\ inbox[w] # <<>> /\ Comparing(w) /\ Kind(First(w)) = "update" /\ predicate[w].at = "idle"
    /\ predicate' = [predicate EXCEPT ![w] = [NotComparing EXCEPT !.at = "compare", !.aside = rv[First(w)[1]]]]
    /\ rv' = [rv EXCEPT ![First(w)[1]] = rv[First(w)[2]]]
    /\ UNCHANGED <<revisions, cached, inbox, queue, worked, missable, restarts>>

\* Everything counts but the status and the managed fields.
Differs(old, new) ==
    \/ revisions[old].spec # revisions[new].spec
    \/ revisions[old].related # revisions[new].related
    \/ rv[old] # rv[new]

Compare(w) ==
    /\ predicate[w].at = "compare"
    /\ predicate' = [predicate EXCEPT ![w].at = "restore", ![w].differs = Differs(First(w)[1], First(w)[2])]
    /\ UNCHANGED <<revisions, cached, rv, inbox, queue, worked, missable, restarts>>

Restore(w) ==
    /\ predicate[w].at = "restore"
    /\ rv' = [rv EXCEPT ![First(w)[1]] = predicate[w].aside]
    /\ predicate' = [predicate EXCEPT ![w] = NotComparing]
    /\ EndEvent(w, predicate[w].differs)

-----------------------------------------------------------------------------
\* A worker reconciles an owner: it looks at what the informer has.
Work(w) ==
    /\ \E o \in queue[w] :
          /\ queue' = [queue EXCEPT ![w] = @ \ {o}]
          /\ worked' = [worked EXCEPT ![w][o] = cached]
    /\ UNCHANGED <<revisions, cached, rv, inbox, predicate, missable, restarts>>

\* The object is created, changed, marked, related to another owner or deleted.
Revise ==
    /\ Latest < MaxRevisions
    /\ \E r \in Revision : /\ r # revisions[Latest] /\ (~r.exists => revisions[Latest].exists)
                           /\ revisions' = Append(revisions, r)
    /\ rv' = Append(rv, Latest + 1)
    /\ UNCHANGED <<cached, inbox, predicate, queue, worked, missable, restarts>>

\* The informer catches up, perhaps with several changes at once.
Inform ==
    /\ \E n \in cached + 1 .. Latest :
          /\ cached' = n
          /\ inbox' = IF revisions[cached].exists \/ revisions[n].exists
                      THEN [w \in Watches |-> Append(inbox[w], <<cached, n>>)] ELSE inbox
    /\ UNCHANGED <<revisions, rv, predicate, queue, worked, missable, restarts>>

\* The operator starts again and is told of the object as if it had just been created.
Restart ==
    /\ restarts < MaxRestarts /\ restarts' = restarts + 1
    /\ cached' = 1
    /\ rv' = [n \in 1 .. Latest |-> n]
    /\ inbox' = [w \in Watches |-> <<>>] /\ predicate' = [w \in Watches |-> NotComparing]
    /\ queue' = [w \in Watches |-> {}]
    /\ worked' = [w \in Watches |-> [o \in Owners |-> 1]]
    /\ UNCHANGED <<revisions, missable>>

\* The first revision stands for the time before the object is there.
WatchInit ==
    /\ revisions = <<[exists |-> FALSE, spec |-> "x", pending |-> FALSE, related |-> Unrelated]>>
    /\ cached = 1 /\ rv = <<1>>
    /\ inbox = [w \in Watches |-> <<>>] /\ predicate = [w \in Watches |-> NotComparing]
    /\ queue = [w \in Watches |-> {}] /\ worked = [w \in Watches |-> [o \in Owners |-> 1]]
    /\ missable = {} /\ restarts = 0

WatchStep(w) == FilterEvent(w) \/ PutAside(w) \/ Compare(w) \/ Restore(w) \/ Work(w)

WatchNext == Revise \/ Inform \/ Restart \/ \E w \in Watches : WatchStep(w)

WatchSpec == WatchInit /\ [][WatchNext]_watchVars

-----------------------------------------------------------------------------
(* Correctness *)

AtRest(w) == inbox[w] = <<>> /\ queue[w] = {}

\* The owner has been reconciled since there was last something the watch is to tell it of.
UpToDate(w, o) ==
    LET Has(n) == revisions[n].exists /\ revisions[n].related = o
        seen == worked[w][o]
    IN  CASE UpdateFilter[w] = "all" -> Has(seen) = Has(cached) /\ (Has(cached) => seen = cached)
          [] UpdateFilter[w] = "spec" -> /\ Has(seen) = Has(cached)
                                         /\ Has(cached) => revisions[seen].spec = revisions[cached].spec
          [] UpdateFilter[w] = "pending" -> Has(cached) /\ revisions[cached].pending => seen = cached

\* When a watch has nothing left to do, every owner has been reconciled since the object was last
\* created, deleted, related to it or not any more, changed its spec or became pending, whichever the
\* watch looks at: although changes are merged, watches are late, and predicates overwrite the objects
\* of each other's events (predicates.go and handlers.go).  Watches that skip events may miss it.
NothingMissed == \A w \in Watches \ missable : AtRest(w) => \A o \in Owners : UpToDate(w, o)
=============================================================================
