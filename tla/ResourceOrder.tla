----------------------------- MODULE ResourceOrder -----------------------------
(***************************************************************************)
(* The orders in which objects are installed and removed.  Objects of the  *)
(* same score are ordered by group, kind and name, and, when these agree,  *)
(* by an unstable sort: here any of them may come first.                   *)
(***************************************************************************)
EXTENDS Naturals, Sequences, Functions

\* Mutant: secrets and config maps come last.
InstallObjectOrderBug == <<"CustomResourceDefinition", "Namespace", "ServiceAccount", "Service", "Deployment">>

InstallObjectOrder == <<
    "CustomResourceDefinition", "Namespace", "ResourceQuota", "LimitRange", "PodDisruptionBudget",
    "Secret", "ConfigMap", "StorageClass", "PersistentVolume", "PersistentVolumeClaim",
    "ServiceAccount", "ClusterRole", "ClusterRoleList", "ClusterRoleBinding",
    "ClusterRoleBindingList", "Role", "RoleList", "RoleBinding", "RoleBindingList", "Service",
    "DaemonSet", "Pod", "ReplicationController", "ReplicaSet", "Deployment",
    "HorizontalPodAutoscaler", "StatefulSet", "Job", "CronJob", "Ingress", "APIService",
    "ValidatingWebhookConfiguration", "MutatingWebhookConfiguration">>

UninstallObjectOrder == <<
    "MutatingWebhookConfiguration", "ValidatingWebhookConfiguration", "APIService", "Ingress",
    "Service", "CronJob", "Job", "StatefulSet", "HorizontalPodAutoscaler", "Deployment",
    "ReplicaSet", "ReplicationController", "Pod", "DaemonSet", "RoleBindingList", "RoleBinding",
    "RoleList", "Role", "ClusterRoleBindingList", "ClusterRoleBinding", "ClusterRoleList",
    "ClusterRole", "ServiceAccount", "PersistentVolumeClaim", "PersistentVolume", "StorageClass",
    "ConfigMap", "Secret", "PodDisruptionBudget", "LimitRange", "ResourceQuota", "Policy",
    "Gateway", "VirtualService", "DestinationRule", "Handler", "Instance", "Rule", "Namespace",
    "CustomResourceDefinition">>

\* The place of a kind, from 0; kinds that are not listed share one place.
Score(order, kind, unlisted) ==
    IF kind \in Range(order) THEN (CHOOSE i \in DOMAIN order : order[i] = kind) - 1 ELSE unlisted

InstallScore(kind) == Score(InstallObjectOrder, kind, 1000)

UninstallScore(kind) == Score(UninstallObjectOrder, kind, 0)

\* Those of the objects that Sort may put first.
FirstInstalled(ids) == {id \in ids : \A o \in ids : InstallScore(id.kind) <= InstallScore(o.kind)}
FirstRemoved(ids) == {id \in ids : \A o \in ids : UninstallScore(id.kind) <= UninstallScore(o.kind)}
=============================================================================
