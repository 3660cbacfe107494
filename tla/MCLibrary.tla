------------------------------- MODULE MCLibrary -------------------------------
(***************************************************************************)
(* The parts of the library that operators use next to the reconcilers,    *)
(* independently of each other: every behaviour is one part's, the others  *)
(* rest.                                                                   *)
(***************************************************************************)
EXTENDS ResourceScope, TokenSecret, SecretLoader, WatchEvents, ReconcileRetry, WorkloadOverrides, Strimaps, TLC

VARIABLE part

libraryVars == <<part, scopeVars, tokenVars, loaderVars, watchVars, retryVars, overrideVars, strimapVars>>

-----------------------------------------------------------------------------
(* The instances. *)

TheStaticScopes == "S" :> "cluster"

\* Two references that dashes make alike, and one more.
TheSecretRefs == {[name |-> <<"db">>, key |-> <<"user", "password">>],
                  [name |-> <<"db", "user">>, key |-> <<"password">>],
                  [name |-> <<"mail">>, key |-> <<"password">>]}

\* Two watches for changes of the specification, whose predicates meet, and one for pending objects.
TheSkips == "spec" :> {} @@ "other" :> {} @@ "pending" :> {"delete"}
TheUpdateFilter == "spec" :> "spec" @@ "other" :> "spec" @@ "pending" :> "pending"

TheRetryLimits == {-1, 0, 1, 3}

TheBase == [image |-> "1", labels |-> "app" :> "1", selector |-> "app" :> "1",
            volumes |-> <<"tmp">>, claims |-> <<>>, secrets |-> <<"1">>,
            containers |-> <<[name |-> "main", image |-> "1", mounts |-> <<"tmp">>, liveness |-> "1"],
                             [name |-> "side", image |-> "1", mounts |-> <<>>, liveness |-> "1"]>>]

NoOverride == [image |-> Unset, labels |-> <<>>, selector |-> <<>>, volumes |-> <<>>,
               containers |-> <<>>, secrets |-> <<>>]
ForContainer(name) == [name |-> name, image |-> Unset, mounts |-> <<>>, liveness |-> Unset, readiness |-> Unset]
TheConfigurations ==
  {NoOverride,
   [NoOverride EXCEPT !.labels = "app" :> "2" @@ "tier" :> "1", !.selector = "app" :> "2"],
   [NoOverride EXCEPT !.labels = "tier" :> "1", !.selector = "tier" :> "1", !.secrets = <<"2">>],
   [NoOverride EXCEPT !.labels = "tier" :> "2",
      !.containers = <<[ForContainer("side") EXCEPT !.image = "2", !.readiness = "2"], ForContainer("none")>>],
   [NoOverride EXCEPT !.volumes = <<"own">>, !.containers = <<[ForContainer("main") EXCEPT !.mounts = <<"own">>]>>]}

\* One that can be mounted either way, one for a container that is not there, one of the deprecated kind.
TheVolumeSources == {[name |-> "data", container |-> "main", legacy |-> FALSE, claim |-> TRUE],
                     [name |-> "lost", container |-> "none", legacy |-> FALSE, claim |-> FALSE],
                     [name |-> "old", container |-> "side", legacy |-> TRUE, claim |-> FALSE]}

ThePullSecrets == <<"3">>

-----------------------------------------------------------------------------
(* One part runs. *)

LibraryInit ==
    /\ part \in {"scope", "token", "loader", "watch", "retry", "override", "strimap"}
    /\ ScopeInit
    /\ TokenInit    /\ (part # "token" => account = "none")
    /\ LoaderInit   /\ (part # "loader" => \A r \in SecretRefs : values[r] = NoSecret)
    /\ WatchInit
    /\ RetryInit    /\ (part # "retry" => MaxRetries = 0 /\ chores = 0)
    /\ OverrideInit /\ (part # "override" => ~kept /\ override = NoOverride)
    /\ StrimapInit  /\ (part # "strimap" => a = NoStrimap /\ b = NoStrimap)

ScopePart == part = "scope" /\ ScopeNext
             /\ UNCHANGED <<part, tokenVars, loaderVars, watchVars, retryVars, overrideVars, strimapVars>>
TokenPart == part = "token" /\ TokenNext
             /\ UNCHANGED <<part, scopeVars, loaderVars, watchVars, retryVars, overrideVars, strimapVars>>
LoaderPart == part = "loader" /\ LoaderNext
              /\ UNCHANGED <<part, scopeVars, tokenVars, watchVars, retryVars, overrideVars, strimapVars>>
WatchPart == part = "watch" /\ WatchNext
             /\ UNCHANGED <<part, scopeVars, tokenVars, loaderVars, retryVars, overrideVars, strimapVars>>
RetryPart == part = "retry" /\ RetryNext
             /\ UNCHANGED <<part, scopeVars, tokenVars, loaderVars, watchVars, overrideVars, strimapVars>>
OverridePart == part = "override" /\ OverrideNext
                /\ UNCHANGED <<part, scopeVars, tokenVars, loaderVars, watchVars, retryVars, strimapVars>>

LibraryNext == ScopePart \/ TokenPart \/ LoaderPart \/ WatchPart \/ RetryPart \/ OverridePart

\* A retry that rests has nothing to go on with; token callers, who would, may do so in their part.
LibrarySpec == /\ LibraryInit /\ [][LibraryNext]_libraryVars
               /\ \A c \in TokenCallers : WF_tokenVars(part = "token" /\ TokenStep(c))
               /\ \A n \in SecretNames : WF_tokenVars(part = "token" /\ FillSecret(n))
               /\ RetryFairness
=============================================================================
