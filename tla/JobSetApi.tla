------------------------------ MODULE JobSetApi ------------------------------
(***************************************************************************)
(* The types of the JobSet API as Go declares them, and with it the JSON   *)
(* that the API server sends for them: a field that is marked as required  *)
(* or has no omitempty is always there, any other may be absent.  A type   *)
(* is a function from the JSON names of its fields.                        *)
(*                                                                         *)
(* Nothing here is taken from the SDK but the notation for types and the   *)
(* class names, by which a field refers to the type of another.            *)
(***************************************************************************)
EXTENDS SdkClasses

Sent(t, ns)      == [n \in ns |-> [type |-> t, sent |-> TRUE]]
Omitempty(t, ns) == [n \in ns |-> [type |-> t, sent |-> FALSE]]

-----------------------------------------------------------------------------

TypeMeta == Omitempty(StrictStr, {"kind", "apiVersion"})

JobSet ==
  TypeMeta
  @@ Omitempty(Ref("IoK8sApimachineryPkgApisMetaV1ObjectMeta"), {"metadata"})
  @@ Omitempty(Ref("JobsetV1alpha2JobSetSpec"), {"spec"})
  @@ Omitempty(Ref("JobsetV1alpha2JobSetStatus"), {"status"})

JobSetList ==
  TypeMeta
  @@ Omitempty(Ref("IoK8sApimachineryPkgApisMetaV1ListMeta"), {"metadata"})
  @@ Sent(ListOf(Ref("JobsetV1alpha2JobSet")), {"items"})

JobSetSpec ==
  Omitempty(ListOf(Ref("JobsetV1alpha2ReplicatedJob")), {"replicatedJobs"})
  @@ Omitempty(Ref("JobsetV1alpha2Network"), {"network"})
  @@ Omitempty(Ref("JobsetV1alpha2SuccessPolicy"), {"successPolicy"})
  @@ Omitempty(Ref("JobsetV1alpha2FailurePolicy"), {"failurePolicy"})
  @@ Omitempty(Ref("JobsetV1alpha2StartupPolicy"), {"startupPolicy"})
  @@ Omitempty(Ref("JobsetV1alpha2Coordinator"), {"coordinator"})
  @@ Omitempty(StrictBool, {"suspend"})
  @@ Omitempty(StrictStr, {"managedBy"})
  @@ Omitempty(StrictInt, {"ttlSecondsAfterFinished"})
  @@ Omitempty(Positive, {"activeDeadlineSeconds"})
  @@ Omitempty(ListOf(Ref("JobsetV1alpha2VolumeClaimPolicy")), {"volumeClaimPolicies"})
  @@ Omitempty(Ref("JobsetV1alpha2JobSetScheduling"), {"scheduling"})

JobSetStatus ==
  Omitempty(ListOf(Ref("IoK8sApimachineryPkgApisMetaV1Condition")), {"conditions"})
  @@ Omitempty(datetime, {"startTime"})
  @@ Sent(StrictInt, {"restarts"})
  @@ Omitempty(StrictInt, {"restartsCountTowardsMax", "executionAttempts",
                           "previousInPlaceRestartAttempt", "currentInPlaceRestartAttempt"})
  @@ Omitempty(StrictStr, {"terminalState"})
  @@ Omitempty(ListOf(Ref("JobsetV1alpha2ReplicatedJobStatus")), {"replicatedJobsStatus"})

ReplicatedJobStatus ==
  Sent(StrictStr, {"name"})
  @@ Sent(StrictInt, {"ready", "succeeded", "failed", "active", "suspended"})
  @@ Omitempty(ListOf(StrictInt), {"jobRestarts", "jobRestartsCountTowardsMax"})

ReplicatedJob ==
  Sent(StrictStr, {"name"})
  @@ Omitempty(StrictStr, {"groupName"})
  @@ Sent(Ref("IoK8sApiBatchV1JobTemplateSpec"), {"template"})
  @@ Omitempty(StrictInt, {"replicas"})
  @@ Omitempty(ListOf(Ref("JobsetV1alpha2DependsOn")), {"dependsOn"})

DependsOn == Sent(StrictStr, {"name", "status"})

Network ==
  Omitempty(StrictBool, {"enableDNSHostnames", "publishNotReadyAddresses"})
  @@ Omitempty(StrictStr, {"subdomain"})

FailurePolicyRule ==
  Sent(StrictStr, {"name", "action"})
  @@ Omitempty(ListOf(StrictStr), {"onJobFailureReasons", "onJobFailureMessagePatterns",
                                   "targetReplicatedJobs"})

FailurePolicy ==
  Omitempty(StrictInt, {"maxRestarts"})
  @@ Omitempty(StrictStr, {"restartStrategy"})
  @@ Omitempty(ListOf(Ref("JobsetV1alpha2FailurePolicyRule")), {"rules"})

SuccessPolicy ==
  Sent(StrictStr, {"operator"}) @@ Omitempty(ListOf(StrictStr), {"targetReplicatedJobs"})

StartupPolicy == Sent(StrictStr, {"startupPolicyOrder"})

Coordinator == Sent(StrictStr, {"replicatedJob"}) @@ Omitempty(StrictInt, {"jobIndex", "podIndex"})

JobSetScheduling ==
  Omitempty(Ref("IoK8sApiSchedulingV1alpha3WorkloadCompositePodGroupSchedulingPolicy"),
            {"schedulingPolicy"})
  @@ Omitempty(Ref("IoK8sApiSchedulingV1alpha3WorkloadCompositePodGroupSchedulingConstraints"),
               {"schedulingConstraints"})
  @@ Omitempty(Ref("IoK8sApiSchedulingV1alpha3WorkloadCompositePodGroupDisruptionMode"),
               {"disruptionMode"})
  @@ Omitempty(ListOf(Ref("JobsetV1alpha2ReplicatedJobScheduling")), {"replicatedJobs"})

ReplicatedJobScheduling ==
  Sent(ListOf(StrictStr), {"targetReplicatedJobs"})
  @@ Omitempty(Ref("IoK8sApiSchedulingV1alpha3WorkloadCompositePodGroupSchedulingPolicy"),
               {"schedulingPolicy"})
  @@ Omitempty(Ref("IoK8sApiSchedulingV1alpha3WorkloadCompositePodGroupSchedulingConstraints"),
               {"schedulingConstraints"})
  @@ Omitempty(Ref("IoK8sApiSchedulingV1alpha3WorkloadCompositePodGroupDisruptionMode"),
               {"disruptionMode"})
  @@ Omitempty(Ref("JobsetV1alpha2JobScheduling"), {"job"})

JobScheduling ==
  Omitempty(Ref("IoK8sApiSchedulingV1alpha3WorkloadPodGroupSchedulingPolicy"), {"schedulingPolicy"})
  @@ Omitempty(Ref("IoK8sApiSchedulingV1alpha3WorkloadPodGroupSchedulingConstraints"),
               {"schedulingConstraints"})
  @@ Omitempty(Ref("IoK8sApiSchedulingV1alpha3WorkloadPodGroupDisruptionMode"), {"disruptionMode"})
  @@ Omitempty(ListOf(Ref("IoK8sApiSchedulingV1alpha3WorkloadPodGroupResourceClaim")),
               {"resourceClaims"})

VolumeClaimPolicy ==
  Omitempty(ListOf(Ref("IoK8sApiCoreV1PersistentVolumeClaim")), {"templates"})
  @@ Omitempty(Ref("JobsetV1alpha2VolumeRetentionPolicy"), {"retentionPolicy"})

VolumeRetentionPolicy == Omitempty(StrictStr, {"whenDeleted"})

-----------------------------------------------------------------------------

\* The types by the name of the class that the SDK has for them.
ApiTypes ==
  [JobsetV1alpha2JobSet |-> JobSet,
   JobsetV1alpha2JobSetList |-> JobSetList,
   JobsetV1alpha2JobSetSpec |-> JobSetSpec,
   JobsetV1alpha2JobSetStatus |-> JobSetStatus,
   JobsetV1alpha2ReplicatedJobStatus |-> ReplicatedJobStatus,
   JobsetV1alpha2ReplicatedJob |-> ReplicatedJob,
   JobsetV1alpha2DependsOn |-> DependsOn,
   JobsetV1alpha2Network |-> Network,
   JobsetV1alpha2FailurePolicyRule |-> FailurePolicyRule,
   JobsetV1alpha2FailurePolicy |-> FailurePolicy,
   JobsetV1alpha2SuccessPolicy |-> SuccessPolicy,
   JobsetV1alpha2StartupPolicy |-> StartupPolicy,
   JobsetV1alpha2Coordinator |-> Coordinator,
   JobsetV1alpha2JobSetScheduling |-> JobSetScheduling,
   JobsetV1alpha2ReplicatedJobScheduling |-> ReplicatedJobScheduling,
   JobsetV1alpha2JobScheduling |-> JobScheduling,
   JobsetV1alpha2VolumeClaimPolicy |-> VolumeClaimPolicy,
   JobsetV1alpha2VolumeRetentionPolicy |-> VolumeRetentionPolicy]

\* The other types are those of Kubernetes, which are not declared here: they are taken
\* to be what the SDK declares for them.
KubernetesType(c) ==
  [n \in DOMAIN Models[c] |->
     [type |-> Models[c][n].type,
      sent |-> Models[c][n].required \/ Models[c][n].missing # None]]

Fields == [c \in DOMAIN Models |-> IF c \in DOMAIN ApiTypes THEN ApiTypes[c] ELSE KubernetesType(c)]

=============================================================================
