------------------------------ MODULE Inventory ------------------------------
(***************************************************************************)
(* The names the native reconciler and the inventory work with, and the    *)
(* inventory's own decisions: from the objects the previous reconciliation *)
(* wanted and those this one wants, what to delete and which types to      *)
(* purge.  Everything here is pure; NativeReconciler gives it its state.   *)
(*                                                                         *)
(* The code joins the parts of a name with '-', which a part may contain   *)
(* itself.  A part is the sequence of its pieces between the dashes, so    *)
(* that joining is concatenation, and two names are equal exactly when the *)
(* strings are.                                                            *)
(***************************************************************************)
EXTENDS Sequences

\* The managed-component annotation of a component's objects.
generateComponentID(c) == c.name \o c.namespace \o c.component \o c.kind

\* Mutant: the kind is left out.
generateResourceIDForPurgeBug(id) == id.name \o id.namespace

\* What an object is remembered by while its component is reconciled.
generateResourceIDForPurge(id) == id.name \o id.namespace \o <<id.kind>>

\* The ConfigMap that lists the objects of a release.
objectsInventory(c) ==
    [kind |-> "ConfigMap", namespace |-> c.target,
     name |-> c.name \o c.target \o c.release \o <<"object", "inventory">>]

NeverDeleted == {"CustomResourceDefinition", "Namespace"}

\* The objects of a desired state; only the bare StateAbsent marks one as not wanted.
PrepareDesiredObjects(want) == {id \in DOMAIN want : want[id] # "Absent"}

\* Mutants: what is no longer wanted is not told from what is; every kind is deleted.
PrepareDeletableObjectsBug(current, desired, terminating) == {}
PrepareDeletableObjectsKindBug(current, desired, terminating) == current \ (desired \cup terminating)

\* The recorded objects that are missing from the desired ones.
PrepareDeletableObjects(current, desired, terminating) ==
    {id \in current \ (desired \cup terminating) : id.kind \notin NeverDeleted}

\* The types handed over to the native reconcile loop's purge.
TypesToPurge(deletable) == {id.kind : id \in deletable} \ NeverDeleted
=============================================================================
