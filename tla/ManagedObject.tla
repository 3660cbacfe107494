----------------------------- MODULE ManagedObject -----------------------------
(***************************************************************************)
(* What the reconciliation of one object promises, as an abstract          *)
(* specification: every write of a caller is an atomic change of the       *)
(* object AS IT IS at that moment, for a desired state the caller was      *)
(* given.  There is no cache, no read before the write and no version to   *)
(* compare; ResourceReconciler, which has all of that, implements it.      *)
(***************************************************************************)

CONSTANTS
    Callers,     \* who calls ReconcileResource
    Wants,       \* per caller, the desired objects and states it may be called with
    NoOwner,     \* the managed-component annotation is absent
    Nothing      \* the object is absent

VARIABLES
    object,      \* the object in the cluster
    request,     \* per caller, the state and payload it is to bring about
    turn,        \* per caller, its own progress, whatever that is
    mayRecreate  \* whether a rejected update may end in a recreation

vars == <<object, request, turn, mayRecreate>>

Request(want) == [state |-> want.state, spec |-> want.spec]

\* The new object has all the labels of a desired object that the caller was given.
Honours(c) == \E want \in Wants[c] : Request(want) = request[c] /\ want.labels \subseteq object'.labels

-----------------------------------------------------------------------------
(* A caller's steps. *)

\* A caller gets something to do.
Ask(c) == /\ \E want \in Wants[c] : request' = [request EXCEPT ![c] = Request(want)]
          /\ UNCHANGED object

\* It reads, waits, fails, gives up or succeeds.
Work(c) == UNCHANGED <<object, request>>

Create(c) ==
    /\ object = Nothing /\ object' # Nothing
    /\ request[c].state # "Absent"
    /\ object'.spec = request[c].spec /\ object'.deleting = "no"
    /\ Honours(c)
    /\ UNCHANGED request

\* The object gets the payload and the labels that are wanted and keeps everything else it has, which
\* includes whether the library owns it.
Rewrite(c) ==
    /\ object # Nothing /\ object' # Nothing
    /\ request[c].state = "Present"
    /\ object.deleting = "no"
    /\ object' = [object EXCEPT !.rv = object'.rv, !.spec = request[c].spec,
                                !.labels = object'.labels, !.component = object'.component]
    /\ object.labels \subseteq object'.labels /\ Honours(c)
    /\ (object'.component = NoOwner) <=> (object.component = NoOwner)
    /\ UNCHANGED request

\* The object disappears or is marked for deletion.
Remove(c) ==
    /\ object # Nothing
    /\ request[c].state = "Absent" \/ (request[c].state = "Present" /\ mayRecreate)
    /\ \/ object' = Nothing
       \/ object' = [object EXCEPT !.deleting = object'.deleting, !.rv = object'.rv]
    /\ UNCHANGED request

Step(c) ==
    /\ turn'[c] # turn[c] /\ turn' = [turn EXCEPT ![c] = turn'[c]]
    /\ Ask(c) \/ Work(c) \/ Create(c) \/ Rewrite(c) \/ Remove(c)
    /\ UNCHANGED mayRecreate

\* Users and the controllers of the cluster are free to do what they want.
Others == UNCHANGED <<request, turn, mayRecreate>>

-----------------------------------------------------------------------------
Init ==
    /\ object = Nothing
    /\ \A c \in Callers : \E want \in Wants[c] : request[c] = Request(want)

Next == Others \/ \E c \in Callers : Step(c)

Spec == Init /\ [][Next]_vars
=============================================================================
