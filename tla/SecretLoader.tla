----------------------------- MODULE SecretLoader -----------------------------
(***************************************************************************)
(* The secret loader: a configuration refers to secrets, by value or by a  *)
(* path under which the secret's key is to be mounted.  What is to be      *)
(* mounted is collected while the configuration is generated, and written  *)
(* to one secret afterwards.                                               *)
(***************************************************************************)
EXTENDS Naturals, Sequences, Functions

CONSTANTS
    SecretRefs,      \* [name, key]: each a sequence of the words between its dashes
    SecretValues,    \* what a key may hold
    MaxLoads,        \* bound: references of one configuration
    MaxSecretEdits,  \* bound: changes of the secrets by users
    MaxLoadFaults    \* bound: failed reads

NoSecret == "nosecret"
NoKey == "nokey"
NoPath == <<>>

ASSUME SecretRefsAssumption == \A r \in SecretRefs : r.name \in Seq(STRING) /\ r.key \in Seq(STRING)
ASSUME LoaderBoundsAssumption == {MaxLoads, MaxSecretEdits, MaxLoadFaults} \subseteq Nat

VARIABLES
    values,       \* per reference: its key's value, no such key, or no such secret
    mounts,       \* MountSecrets: the keys to mount and their values, in order
    loaded,       \* what Load answered, in order: the path or value it gave, and what it had read
    files,        \* the secret the operator has made of the mounts: a partial function
    edits, loadFaults

loaderVars == <<values, mounts, loaded, files, edits, loadFaults>>

\* Mutant: the name of the secret is left out.
mappedKeyBug(ref) == ref.key

\* Namespace, name and key are joined with dashes; the namespace is always the same.
mappedKey(ref) == ref.name \o ref.key

Given(ref, path, read) == loaded' = Append(loaded, [ref |-> ref, path |-> path, read |-> read])
LoadError(ref) == Given(ref, NoPath, "error")
Unread == UNCHANGED <<values, files, edits>>

\* A plain value is used as it is.
LoadValue ==
    /\ Len(loaded) < MaxLoads
    /\ \E ref \in SecretRefs, v \in SecretValues : Given(ref, NoPath, v)
    /\ Unread /\ UNCHANGED <<mounts, loadFaults>>

\* A key that the secret does not have is mounted empty.
LoadMount ==
    /\ Len(loaded) < MaxLoads
    /\ \E ref \in SecretRefs :
          IF values[ref] = NoSecret THEN LoadError(ref) /\ UNCHANGED mounts
          ELSE /\ mounts' = Append(mounts, [key |-> mappedKey(ref), value |-> values[ref]])
               /\ Given(ref, mappedKey(ref), values[ref])
    /\ Unread /\ UNCHANGED loadFaults

\* A key that the secret does not have cannot be read.
LoadRead ==
    /\ Len(loaded) < MaxLoads
    /\ \E ref \in SecretRefs :
          IF values[ref] \in {NoSecret, NoKey} THEN LoadError(ref) ELSE Given(ref, NoPath, values[ref])
    /\ Unread /\ UNCHANGED <<mounts, loadFaults>>

LoadFails ==
    /\ Len(loaded) < MaxLoads /\ loadFaults < MaxLoadFaults /\ loadFaults' = loadFaults + 1
    /\ \E ref \in SecretRefs : LoadError(ref)
    /\ Unread /\ UNCHANGED mounts

\* The operator makes a secret of the mounts: of two entries with one key, the later one counts.
WriteMounts ==
    /\ loaded # <<>>
    /\ files' = [k \in {mounts[i].key : i \in DOMAIN mounts} |->
                    LET last == CHOOSE i \in DOMAIN mounts :
                                   mounts[i].key = k /\ \A j \in DOMAIN mounts : mounts[j].key = k => j <= i
                    IN  mounts[last].value]
    /\ UNCHANGED <<values, mounts, loaded, edits, loadFaults>>

\* The next reconciliation starts with a new loader.
Regenerate ==
    /\ loaded # <<>> /\ loaded' = <<>> /\ mounts' = <<>> /\ files' = <<>>
    /\ UNCHANGED <<values, edits, loadFaults>>

EditSecret ==
    /\ edits < MaxSecretEdits /\ edits' = edits + 1
    /\ \E ref \in SecretRefs, v \in SecretValues \cup {NoKey, NoSecret} :
          values' = [r \in SecretRefs |->
                        CASE r = ref -> v
                          [] r # ref /\ r.name = ref.name /\ v = NoSecret -> NoSecret
                          [] r # ref /\ r.name = ref.name /\ v # NoSecret /\ values[r] = NoSecret -> NoKey
                          [] OTHER -> values[r]]
    /\ UNCHANGED <<mounts, loaded, files, loadFaults>>

LoaderInit ==
    /\ values \in [SecretRefs -> {NoSecret} \cup SecretValues]
    /\ \A r, o \in SecretRefs : r.name = o.name => (values[r] = NoSecret <=> values[o] = NoSecret)
    /\ mounts = <<>> /\ loaded = <<>> /\ files = <<>> /\ edits = 0 /\ loadFaults = 0

LoaderNext == LoadValue \/ LoadMount \/ LoadRead \/ LoadFails \/ WriteMounts \/ Regenerate \/ EditSecret

LoaderSpec == LoaderInit /\ [][LoaderNext]_loaderVars

-----------------------------------------------------------------------------
(* Correctness *)

\* Two references whose names and keys cannot be told apart when they are joined.
Confusable(r, o) == r # o /\ r.name \o r.key = o.name \o o.key

\* Every path the configuration was given leads to a file that holds what was read for the path's
\* reference, then or when it was loaded once more; unless dashes in names and keys make two references
\* alike (Load and Append).
PathsLead ==
    [][files' # files /\ loaded' = loaded =>
          \A ix \in DOMAIN loaded :
              loaded[ix].path # NoPath =>
                  /\ loaded[ix].path \in DOMAIN files'
                  /\ \E j \in ix .. Len(loaded) :
                        \/ Confusable(loaded[ix].ref, loaded[j].ref)
                        \/ /\ loaded[j].ref = loaded[ix].ref /\ loaded[j].path = loaded[ix].path
                           /\ files'[loaded[ix].path] = loaded[j].read]_loaderVars
=============================================================================
