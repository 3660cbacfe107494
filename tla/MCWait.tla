-------------------------------- MODULE MCWait --------------------------------
(***************************************************************************)
(* A workload and a map that a component wants in turn present, created or *)
(* absent, statically or dynamically, and a definition it depends on.      *)
(***************************************************************************)
EXTENDS ResourceWait, TLC

ThePlans == {
  "web" :> <<Dynamic("Present")>>,
  "web" :> <<Static("Absent")>> @@ "map" :> <<Static("Created")>>,
  "map" :> <<Dynamic("Absent")>>}

ThePreConditions == <<[id |-> "crd", checks |-> {"ready", "established"}],
                      [id |-> "crd", checks |-> {"custom"}]>>
=============================================================================
