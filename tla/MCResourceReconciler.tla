------------------------ MODULE MCResourceReconciler ------------------------
(***************************************************************************)
(* Small instances of ResourceReconciler: one or two workers, two payloads,*)
(* one label, and options that reach each path of the recreation.          *)
(***************************************************************************)
EXTENDS ResourceReconciler

Want(state, spec, labels, component) ==
    [state |-> state, spec |-> spec, labels |-> labels, component |-> component]

Plain(kind) == [kind |-> kind, registered |-> TRUE, enable |-> FALSE, enabledFor |-> Nil,
                immediately |-> FALSE, policy |-> Nil, condition |-> Nil, substring |-> Nil]

\* One component creates, deletes or updates the object, the other updates it with its own payload.
Mixed == [w \in Workers |->
            IF w = "a" THEN {Want(state, w, {}, w) : state \in States}
                       ELSE {Want("Present", w, {}, w)}]

\* Two components that disagree on the payload; one wants a label.
PresentTwo == [w \in Workers |-> {Want("Present", w, IF w = "a" THEN {"l"} ELSE {}, w)}]

\* Everybody agrees on the object.
PresentSame == [w \in Workers |-> {Want("Present", "a", {"l"}, "a")}]

\* No change of payload is accepted, except for a CRD.
AllImmutable == {change \in (Kinds \ {"CustomResourceDefinition"}) \X Specs \X Specs :
                    change[2] # change[3]}

Recreating(kind, now) == [Plain(kind) EXCEPT !.enable = TRUE, !.immediately = now]

PlainOptions == {Plain("Other")}

\* Kinds recreated by default, each with its own message, with and without a requeue; and a CRD.
ConvergingOptions ==
    {Recreating(kind, now) : kind \in {"Deployment", "StatefulSet", "Service"}, now \in BOOLEAN}
        \cup {Plain("CustomResourceDefinition")}

\* Kinds that are recreated by default, one that is not, one the scheme does not know, and recreation
\* disabled; one that orphans its pods.
RecreationOptions ==
    {Recreating(kind, now) : kind \in {"StatefulSet", "Other"}, now \in BOOLEAN}
        \cup {Plain("Deployment"), [Recreating("Deployment", FALSE) EXCEPT !.registered = FALSE],
              [Recreating("Deployment", TRUE) EXCEPT !.policy = "Orphan"]}

OrphanLater == {[Recreating("Deployment", FALSE) EXCEPT !.policy = "Orphan"]}

AllHooks == {"go", "skip", "fail"}
=============================================================================
