-------------------------- MODULE ReconcilerOptions --------------------------
(***************************************************************************)
(* The options of GenericResourceReconciler that decide whether an update  *)
(* the API server rejects makes the reconciler delete and recreate the     *)
(* object: how NewGenericReconciler fills in what the caller left unset,   *)
(* and how ReconcileResource reads the result.                             *)
(*                                                                         *)
(* An options record `o' has the fields                                    *)
(*   kind        the kind of the reconciled object                         *)
(*   registered  whether Options.Scheme knows that kind                    *)
(*   enable      EnableRecreateWorkloadOnImmutableFieldChange              *)
(*   enabledFor  RecreateEnabledResourceCondition                          *)
(*   immediately RecreateImmediately                                       *)
(*   policy      RecreatePropagationPolicy                                 *)
(*   condition   RecreateErrorMessageCondition                             *)
(*   substring   RecreateErrorMessageSubstring                             *)
(* with Nil for a pointer, callback or policy that the caller left unset.  *)
(***************************************************************************)

Nil == "nil"

DefaultRecreateEnabledKinds == {"Service", "StatefulSet", "DaemonSet", "Deployment"}

Kinds == DefaultRecreateEnabledKinds \cup {"CustomResourceDefinition", "Other"}

\* A rejection message is identified by the one phrase of the code that it contains.
Messages == {"immutable", "may not change once set", "updates to statefulset spec", "other"}

Substrings == Messages \cup {"", Nil}
Policies == {"Background", "Foreground", "Orphan"}

Options == [kind : Kinds, registered : BOOLEAN, enable : BOOLEAN,
            enabledFor : {Nil, "defaultKinds", "all", "nothing"}, immediately : BOOLEAN,
            policy : Policies \cup {Nil},
            condition : {Nil, "MatchImmutableErrorMessages", "MatchImmutableNoStatefulSet"},
            substring : Substrings]

\* How the API server words the rejection of a change to a field it does not let change.
RejectionMessage(kind) ==
    CASE kind = "Service"     -> "may not change once set"
      [] kind = "StatefulSet" -> "updates to statefulset spec"
      [] OTHER                -> "immutable"

-----------------------------------------------------------------------------
MatchImmutableNoStatefulSet == {"immutable", "may not change once set"}

\* Mutant: the stateful set's own message is forgotten.
MatchImmutableErrorMessagesBug == MatchImmutableNoStatefulSet

MatchImmutableErrorMessages == MatchImmutableNoStatefulSet \cup {"updates to statefulset spec"}

\* The messages a condition callback accepts.
Accepted(condition) ==
    IF condition = "MatchImmutableErrorMessages" THEN MatchImmutableErrorMessages
                                                 ELSE MatchImmutableNoStatefulSet

\* Mutant: no default for the propagation policy.
NewGenericReconcilerBug(o) ==
    [o EXCEPT !.substring  = IF @ = Nil /\ o.condition # Nil THEN "immutable" ELSE @,
              !.condition  = IF @ = Nil /\ o.substring = Nil THEN "MatchImmutableErrorMessages" ELSE @,
              !.enabledFor = IF @ = Nil THEN "defaultKinds" ELSE @]

NewGenericReconciler(o) ==
    [o EXCEPT !.substring  = IF @ = Nil /\ o.condition # Nil THEN "immutable" ELSE @,
              !.condition  = IF @ = Nil /\ o.substring = Nil THEN "MatchImmutableErrorMessages" ELSE @,
              !.enabledFor = IF @ = Nil THEN "defaultKinds" ELSE @,
              !.policy     = IF @ = Nil THEN "Background" ELSE @]

\* strings.Contains: the empty substring is part of every message.
Contains(message, substring) == substring \in {"", Nil, message}

shouldRecreate(o, message) ==
    IF o.condition # Nil THEN message \in Accepted(o.condition)
                         ELSE Contains(message, o.substring)

\* Mutant: every kind is enabled.
RecreateEnabledResourceConditionBug(o) == o.enabledFor # "nothing"

\* A kind the scheme does not know leaves the gvk empty, which only "all" accepts.
RecreateEnabledResourceCondition(o) ==
    \/ o.enabledFor = "all"
    \/ o.enabledFor = "defaultKinds" /\ o.registered /\ o.kind \in DefaultRecreateEnabledKinds

\* Whether ReconcileResource goes on to delete the object whose update was rejected.
Recreates(o) == /\ shouldRecreate(o, RejectionMessage(o.kind))
                /\ o.enable
                /\ RecreateEnabledResourceCondition(o)
=============================================================================
