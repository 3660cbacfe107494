-------------------------- MODULE WorkloadOverrides --------------------------
(***************************************************************************)
(* Making a workload: an operator starts from a base, mounts the           *)
(* configured volumes, applies the overrides of its configuration and adds *)
(* pull secrets, round after round.  An override is given a copy of the    *)
(* workload, but maps and the array of containers are shared with it: what *)
(* is written there stays in a base that the operator keeps.               *)
(***************************************************************************)
EXTENDS Naturals, Sequences, Functions

CONSTANTS
    Base,            \* the operator's workload
    Configurations,  \* the overrides: what the configuration may give
    VolumeSources,   \* the volumes to mount: [name, container, legacy, claim]
    PullSecrets,     \* the sequence of secrets that WorkloadImagePullSecretsModifier adds
    MaxRounds        \* bound: workloads made

\* A field that is not given.
Unset == "unset"
NoLabels == <<>>

\* `image' stands for the fields of a container, or of its workload, that are simply replaced; mounts
\* are the names of volumes and claims.
WorkloadFields == {"image", "labels", "selector", "volumes", "claims", "secrets", "containers"}
ContainerFields == {"name", "image", "mounts", "liveness"}

Agrees(selector, labels) == \A k \in DOMAIN selector : k \in DOMAIN labels /\ labels[k] = selector[k]

\* Every container mounts volumes and claims of its workload.
Mounted(w) ==
    /\ w.volumes \in Seq(STRING) /\ w.claims \in Seq(STRING)
    /\ \A i \in DOMAIN w.containers :
           /\ DOMAIN w.containers[i] = ContainerFields
           /\ w.containers[i].mounts \in Seq(STRING)
           /\ Range(w.containers[i].mounts) \subseteq Range(w.volumes) \cup Range(w.claims)

\* The operator starts from a workload that the API server would accept.
ASSUME BaseAssumption ==
    /\ DOMAIN Base = WorkloadFields
    /\ Base.selector # NoLabels /\ Agrees(Base.selector, Base.labels)
    /\ Mounted(Base) /\ Base.secrets \in Seq(STRING)
    /\ \A i, j \in DOMAIN Base.containers : i # j => Base.containers[i].name # Base.containers[j].name
    /\ MaxRounds \in Nat

ASSUME ConfigurationsAssumption ==
    /\ \A o \in Configurations :
           /\ o.secrets \in Seq(STRING)
           /\ DOMAIN o.containers = 1 .. Len(o.containers) /\ Len(o.containers) \in Nat
    /\ \A v \in VolumeSources : v.name \in STRING
    /\ PullSecrets \in Seq(STRING)

VARIABLES
    kept,       \* whether the operator keeps its base, or makes a new one every round
    base,       \* the base as it is now
    work,       \* the workload of this round
    override,   \* the overrides of this round
    todo,       \* whether overrides and pull secrets are still to be applied
    unmounted,  \* the volumes that are still to be mounted
    rounds

overrideVars == <<kept, base, work, override, todo, unmounted, rounds>>

-----------------------------------------------------------------------------
(* base_types.go *)

\* Mutant: labels that are given replace the others.
MergeBug(given, meta) == IF given = NoLabels THEN meta ELSE given

\* What is given wins; the rest stays.
Overlaid(given, map) ==
    [k \in DOMAIN given \cup DOMAIN map |-> IF k \in DOMAIN given THEN given[k] ELSE map[k]]

Merge(given, meta) == Overlaid(given, meta)
mergeSelectors(given, selector) == Overlaid(given, selector)

Replace(given, field) == IF given = Unset THEN field ELSE given

\* ContainerBase.Override.  A readiness probe that is given replaces the LIVENESS probe by the liveness
\* probe that is given, if any.
OverrideContainer(given, c) ==
    [c EXCEPT !.image = Replace(given.image, @),
              !.mounts = IF given.mounts # <<>> THEN given.mounts ELSE @,
              !.liveness = IF given.readiness # Unset THEN given.liveness ELSE Replace(given.liveness, @)]

\* Every override finds the first container of its name; later ones are applied to what earlier ones left.
Overridden(given, c) ==
    LET F[n \in 0 .. Len(given)] ==
            IF n = 0 THEN c
            ELSE IF given[n].name = c.name THEN OverrideContainer(given[n], F[n - 1]) ELSE F[n - 1]
    IN  F[Len(given)]

OverrideContainers(given, containers) == [i \in DOMAIN containers |-> Overridden(given, containers[i])]

\* DeploymentBase, StatefulSetBase and DaemonSetBase.Override with PodTemplateBase and PodSpecBase.
Override(o, w) ==
    [w EXCEPT !.image = Replace(o.image, @),
              !.labels = Merge(o.labels, @),
              !.selector = mergeSelectors(o.selector, @),
              !.volumes = IF o.volumes # <<>> THEN o.volumes ELSE @,
              !.containers = OverrideContainers(o.containers, @),
              !.secrets = @ \o o.secrets]

-----------------------------------------------------------------------------
(* volume_types.go *)

Container(w, name) == {i \in DOMAIN w.containers : w.containers[i].name = name}

\* The containers with a mount of the volume in the one that it is for, if there is one.
VolumeMounts(v, w) ==
    [i \in DOMAIN w.containers |->
        IF i \in Container(w, v.container) THEN [w.containers[i] EXCEPT !.mounts = Append(@, v.name)]
        ELSE w.containers[i]]

Added(v, w) == Append(w.volumes, v.name)

\* ApplyVolumeForPodSpec: the volume is added even if there is no such container.
ApplyVolume(v, w) == [w EXCEPT !.volumes = Added(v, w), !.containers = VolumeMounts(v, w)]

\* ApplyPVCForStatefulSet: the claim is added even if there is no such container.
ApplyPVC(v, w) == [w EXCEPT !.claims = Append(@, v.name), !.containers = VolumeMounts(v, w)]

-----------------------------------------------------------------------------
\* What is written to the maps and the array of the workload is written to a base that is kept.
Wrote(w) ==
    /\ work' = w
    /\ base' = IF kept THEN [base EXCEPT !.labels = w.labels, !.selector = w.selector,
                                         !.containers = w.containers]
               ELSE base

Finished == todo = {} /\ unmounted = {}

StartRound ==
    /\ Finished /\ rounds < MaxRounds /\ rounds' = rounds + 1
    /\ work' = base
    /\ override' \in Configurations
    /\ todo' = {"override", "secrets"} /\ unmounted' = VolumeSources
    /\ UNCHANGED <<kept, base>>

\* A volume of the deprecated kind, and a claim that is not one, are refused before anything is added.
MountVolume(v) ==
    /\ v \in unmounted /\ unmounted' = unmounted \ {v}
    /\ IF v.legacy THEN UNCHANGED <<base, work>> ELSE Wrote(ApplyVolume(v, work))
    /\ UNCHANGED <<kept, override, todo, rounds>>

ClaimVolume(v) ==
    /\ v \in unmounted /\ unmounted' = unmounted \ {v}
    /\ IF v.claim THEN Wrote(ApplyPVC(v, work)) ELSE UNCHANGED <<base, work>>
    /\ UNCHANGED <<kept, override, todo, rounds>>

OverrideWorkload ==
    /\ "override" \in todo /\ todo' = todo \ {"override"}
    /\ Wrote(Override(override, work))
    /\ UNCHANGED <<kept, override, unmounted, rounds>>

\* WorkloadImagePullSecretsModifier makes a new list.
AddPullSecrets ==
    /\ "secrets" \in todo /\ todo' = todo \ {"secrets"}
    /\ Wrote([work EXCEPT !.secrets = @ \o PullSecrets])
    /\ UNCHANGED <<kept, override, unmounted, rounds>>

OverrideInit ==
    /\ kept \in BOOLEAN
    /\ base = Base /\ work = Base /\ override \in Configurations
    /\ todo = {} /\ unmounted = {} /\ rounds = 0

OverrideNext == StartRound \/ OverrideWorkload \/ AddPullSecrets
                \/ \E v \in VolumeSources : MountVolume(v) \/ ClaimVolume(v)

OverrideSpec == OverrideInit /\ [][OverrideNext]_overrideVars

-----------------------------------------------------------------------------
(* Correctness *)

\* The configuration asks for a selector together with its labels.
Consistent(o) == /\ Agrees(o.selector, o.labels)
                 /\ \A k \in DOMAIN o.labels \cap DOMAIN Base.selector : k \in DOMAIN o.selector

\* It leaves the volumes and what containers mount to the operator.
KeepsVolumes(o) == o.volumes = <<>> /\ \A i \in DOMAIN o.containers : o.containers[i].mounts = <<>>

\* A workload that is finished selects its own pods and has every volume that its containers mount,
\* also when a volume was refused half way, unless the configuration contradicts itself; if the
\* operator keeps its base, only the first one.  Pull secrets are never carried from one to the next
\* (mergeSelectors, MetaBase.Merge, PodSpecBase.Override, ApplyVolumeForPodSpec).
Deployable ==
    Finished /\ rounds > 0 =>
        /\ (kept => rounds = 1)
           => /\ Consistent(override) => Agrees(work.selector, work.labels)
              /\ KeepsVolumes(override) => Mounted(work)
        /\ Len(work.secrets) = Len(Base.secrets) + Len(override.secrets) + Len(PullSecrets)
=============================================================================
