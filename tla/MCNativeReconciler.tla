-------------------------- MODULE MCNativeReconciler --------------------------
(***************************************************************************)
(* Small instances of NativeReconciler: one or two components and two      *)
(* objects, with names whose joins clash only in Split.                    *)
(***************************************************************************)
EXTENDS NativeReconciler

Component(name, namespace) ==
    [name |-> name, namespace |-> namespace, component |-> <<"c">>, kind |-> <<"kind">>,
     release |-> <<"r">>, target |-> <<"t">>]

A == Component(<<"a">>, <<"n">>)
B == Component(<<"b">>, <<"n">>)

\* Two owners whose names and namespaces join to the same id (README, 6).
Split == {Component(<<"a">>, <<"b", "n">>), Component(<<"a", "b">>, <<"n">>)}

OnlyA == {A}
AB == {A, B}

Thing(kind, name, namespace) == [kind |-> kind, name |-> name, namespace |-> namespace]

\* Two objects that differ in their kind alone.
Map == Thing("ConfigMap", <<"s">>, <<"n">>)
Secret == Thing("Secret", <<"s">>, <<"n">>)
Space == Thing("Namespace", <<"t">>, <<>>)

MapSecret == {Map, Secret}
WithSpace == {Secret, Space}
JustSecret == {Secret}

Ask(ids, state) == [id \in ids |-> state]

\* Any of the objects, present.
AnyPresent == [c \in Components |-> {Ask(ids, "Present") : ids \in SUBSET Objects}]

\* One component has both objects or any of them, or has one absent; the other may want the secret too.
Mixed == [c \in Components |->
            IF c = B THEN {Ask(ids, "Created") : ids \in SUBSET {Secret}}
            ELSE {Ask(ids, "Present") : ids \in SUBSET Objects}
                   \cup {[id \in Objects |-> IF id = Map THEN state ELSE "Present"] :
                           state \in {"Absent", "DynamicAbsent"}}]

SecretType == {"Secret"}
MapSecretTypes == {"ConfigMap", "Secret"}
NoTypes == {}
=============================================================================
