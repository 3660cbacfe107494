------------------------------ MODULE WorkQueue ------------------------------
(***************************************************************************)
(* What handing an object to its components promises, as an abstract       *)
(* specification: a worker takes the object from the work queue, attends   *)
(* to one part of what is to be done after the other, and lets go of the   *)
(* object for good only with no part left open.  There is no copy of the   *)
(* object, no order of the parts, no answer to combine and no status;      *)
(* Dispatcher, which has all of that, implements it.                       *)
(***************************************************************************)

CONSTANT Parts    \* of the work, one for each component

VARIABLES
    queued,    \* whether the queue holds the object
    working,   \* whether a worker has it
    open       \* the parts that are not as the object asks

vars == <<queued, working, open>>

-----------------------------------------------------------------------------
\* The object is changed, which may open and close any parts, and is queued.
Touch ==
    /\ open' \in SUBSET Parts /\ queued' = TRUE
    /\ UNCHANGED working

Take ==
    /\ queued /\ ~working
    /\ queued' = FALSE /\ working' = TRUE
    /\ UNCHANGED open

\* The worker closes a part, or opens it on its way to close it.
Attend(part) ==
    /\ working
    /\ open' \in {open \cup {part}, open \ {part}}
    /\ UNCHANGED <<queued, working>>

\* It lets go of the object, and puts it back unless everything is done.
Release ==
    /\ working /\ working' = FALSE
    /\ queued' \in BOOLEAN /\ (queued \/ open # {} => queued')
    /\ UNCHANGED open

\* A process that starts again queues every object.
Restart ==
    /\ queued' = TRUE /\ working' = FALSE
    /\ UNCHANGED open

Init == queued = TRUE /\ working = FALSE /\ open \in SUBSET Parts

Next == Touch \/ Take \/ (\E part \in Parts : Attend(part)) \/ Release \/ Restart

Spec == Init /\ [][Next]_vars
=============================================================================
