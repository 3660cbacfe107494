--------------------------- MODULE MCHelmReconciler ---------------------------
(***************************************************************************)
(* A small instance of HelmReconciler: a chart of a custom resource, its   *)
(* definition, a job and the config map it mounts.                         *)
(***************************************************************************)
EXTENDS HelmReconciler

Thing(kind, name) == [kind |-> kind, namespace |-> <<"t">>, name |-> <<name>>]

TheSpace == [kind |-> "Namespace", namespace |-> <<>>, name |-> <<"t">>]
TheRecord == Thing("ConfigMap", "inventory")

Crd == Thing("CustomResourceDefinition", "crd")
Custom == Thing("Custom", "custom")
Map == Thing("ConfigMap", "map")
Job == Thing("Job", "job")

AllObjects == {Crd, Custom, Map, Job}
CreatedOnce == {Custom, Map}

Enabled(chart, byKind, byKey) ==
    [skipped |-> FALSE, enabled |-> TRUE, leaving |-> FALSE, chart |-> chart, byKind |-> byKind, byKey |-> byKey]
None == <<>>

\* Everything; a smaller chart with overrides for an object and for its kind; removed; left alone; going.
Several == {
    Enabled(AllObjects, None, None),
    Enabled({Crd, Custom, Map}, "Custom" :> "Absent", Custom :> "Created" @@ Map :> "Present"),
    Enabled({Map, Job}, "Job" :> "Absent", None),
    [Enabled({}, None, None) EXCEPT !.enabled = FALSE],
    [Enabled(AllObjects, None, None) EXCEPT !.skipped = TRUE],
    [Enabled({}, None, None) EXCEPT !.enabled = FALSE, !.leaving = TRUE]}
=============================================================================
