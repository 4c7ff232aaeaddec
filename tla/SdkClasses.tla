------------------------------ MODULE SdkClasses ------------------------------
(***************************************************************************)
(* The model classes of the Python SDK (sdk/python/jobset/models), one     *)
(* definition per class.  The classes are generated and all have the same  *)
(* methods: a class differs from another in its fields, in what type a     *)
(* field is declared with, in whether it may be None, and in what          *)
(* from_dict puts in its place when the JSON has no value for it.  So a    *)
(* class is a function from the JSON names of its fields to that           *)
(* information, and SdkModels defines the methods over these functions.    *)
(* Which fields to_dict and from_dict convert is in the types too: they    *)
(* convert the ones that refer to a model, alone or in a list.             *)
(***************************************************************************)
EXTENDS TLC

(* The types a field is declared with. *)

StrictStr   == <<"StrictStr">>
StrictInt   == <<"StrictInt">>
StrictBool  == <<"StrictBool">>
datetime    == <<"datetime">>
Positive    == <<"positive">>         \* Annotated[int, Field(strict=True, ge=1)]
IntOrString == <<"IntOrString">>      \* an IntOrString of the API, declared as StrictStr
MapOfStr    == <<"Dict", StrictStr>>        \* Dict[str, StrictStr]
AnyMap      == <<"Dict", <<"Any">>>>  \* Dict[str, Any]
Ref(c)       == <<"Ref", c>>
ListOf(t)    == <<"List", t>>
AtMostOne(t) == <<"List1", t>>        \* Annotated[List[...], Field(max_length=1)]

\* The value from_dict uses for a missing one: '' or 0.
Zero(t) == IF t = StrictStr THEN <<"str", "">> ELSE <<"int", 0>>
None == <<"None">>

\* Fields of type t called ns: optional or required, with or without such a value.
Opt(t, ns)    == [n \in ns |-> [type |-> t, required |-> FALSE, missing |-> None]]
Req(t, ns)    == [n \in ns |-> [type |-> t, required |-> TRUE, missing |-> None]]
Dft(t, ns)    == [n \in ns |-> [type |-> t, required |-> FALSE, missing |-> Zero(t)]]
ReqDft(t, ns) == [n \in ns |-> [type |-> t, required |-> TRUE, missing |-> Zero(t)]]

-----------------------------------------------------------------------------

IoK8sApiBatchV1JobSchedulingConfiguration ==
  Opt(Ref("IoK8sApiSchedulingV1alpha3WorkloadPodGroupDisruptionMode"),
       {"disruptionMode"})
  @@ Opt(ListOf(Ref("IoK8sApiSchedulingV1alpha3WorkloadPodGroupResourceClaim")),
       {"resourceClaims"})
  @@ Opt(Ref("IoK8sApiSchedulingV1alpha3WorkloadPodGroupSchedulingConstraints"),
       {"schedulingConstraints"})
  @@ Opt(Ref("IoK8sApiSchedulingV1alpha3WorkloadPodGroupSchedulingPolicy"),
       {"schedulingPolicy"})

IoK8sApiBatchV1JobSpec ==
  Opt(StrictInt, {"activeDeadlineSeconds", "backoffLimit", "backoffLimitPerIndex",
       "completions", "maxFailedIndexes", "parallelism", "ttlSecondsAfterFinished"})
  @@ Opt(StrictStr, {"completionMode", "managedBy", "podReplacementPolicy"})
  @@ Opt(StrictBool, {"manualSelector", "suspend"})
  @@ Opt(Ref("IoK8sApiBatchV1PodFailurePolicy"), {"podFailurePolicy"})
  @@ Opt(Ref("IoK8sApiBatchV1JobSchedulingConfiguration"), {"scheduling"})
  @@ Opt(Ref("IoK8sApimachineryPkgApisMetaV1LabelSelector"), {"selector"})
  @@ Opt(Ref("IoK8sApiBatchV1SuccessPolicy"), {"successPolicy"})
  @@ Req(Ref("IoK8sApiCoreV1PodTemplateSpec"), {"template"})

IoK8sApiBatchV1JobTemplateSpec ==
  Opt(Ref("IoK8sApimachineryPkgApisMetaV1ObjectMeta"), {"metadata"})
  @@ Opt(Ref("IoK8sApiBatchV1JobSpec"), {"spec"})

IoK8sApiBatchV1PodFailurePolicy ==
  Req(ListOf(Ref("IoK8sApiBatchV1PodFailurePolicyRule")), {"rules"})

IoK8sApiBatchV1PodFailurePolicyOnExitCodesRequirement ==
  Opt(StrictStr, {"containerName"})
  @@ Req(StrictStr, {"operator"})
  @@ Req(ListOf(StrictInt), {"values"})

IoK8sApiBatchV1PodFailurePolicyOnPodConditionsPattern ==
  Opt(StrictStr, {"status"})
  @@ Req(StrictStr, {"type"})

IoK8sApiBatchV1PodFailurePolicyRule ==
  Req(StrictStr, {"action"})
  @@ Opt(Ref("IoK8sApiBatchV1PodFailurePolicyOnExitCodesRequirement"), {"onExitCodes"})
  @@ Opt(ListOf(Ref("IoK8sApiBatchV1PodFailurePolicyOnPodConditionsPattern")),
       {"onPodConditions"})

IoK8sApiBatchV1SuccessPolicy ==
  Req(ListOf(Ref("IoK8sApiBatchV1SuccessPolicyRule")), {"rules"})

IoK8sApiBatchV1SuccessPolicyRule ==
  Opt(StrictInt, {"succeededCount"})
  @@ Opt(StrictStr, {"succeededIndexes"})

IoK8sApiCoreV1Affinity ==
  Opt(Ref("IoK8sApiCoreV1NodeAffinity"), {"nodeAffinity"})
  @@ Opt(Ref("IoK8sApiCoreV1PodAffinity"), {"podAffinity"})
  @@ Opt(Ref("IoK8sApiCoreV1PodAntiAffinity"), {"podAntiAffinity"})

IoK8sApiCoreV1AppArmorProfile ==
  Opt(StrictStr, {"localhostProfile"})
  @@ Req(StrictStr, {"type"})

IoK8sApiCoreV1AWSElasticBlockStoreVolumeSource ==
  Opt(StrictStr, {"fsType"})
  @@ Opt(StrictInt, {"partition"})
  @@ Opt(StrictBool, {"readOnly"})
  @@ Req(StrictStr, {"volumeID"})

IoK8sApiCoreV1AzureDiskVolumeSource ==
  Opt(StrictStr, {"cachingMode", "fsType", "kind"})
  @@ Req(StrictStr, {"diskName", "diskURI"})
  @@ Opt(StrictBool, {"readOnly"})

IoK8sApiCoreV1AzureFileVolumeSource ==
  Opt(StrictBool, {"readOnly"})
  @@ Req(StrictStr, {"secretName", "shareName"})

IoK8sApiCoreV1Capabilities == Opt(ListOf(StrictStr), {"add", "drop"})

IoK8sApiCoreV1CephFSVolumeSource ==
  Req(ListOf(StrictStr), {"monitors"})
  @@ Opt(StrictStr, {"path", "secretFile", "user"})
  @@ Opt(StrictBool, {"readOnly"})
  @@ Opt(Ref("IoK8sApiCoreV1LocalObjectReference"), {"secretRef"})

IoK8sApiCoreV1CinderVolumeSource ==
  Opt(StrictStr, {"fsType"})
  @@ Opt(StrictBool, {"readOnly"})
  @@ Opt(Ref("IoK8sApiCoreV1LocalObjectReference"), {"secretRef"})
  @@ Req(StrictStr, {"volumeID"})

IoK8sApiCoreV1ClusterTrustBundleProjection ==
  Opt(Ref("IoK8sApimachineryPkgApisMetaV1LabelSelector"), {"labelSelector"})
  @@ Opt(StrictStr, {"name", "signerName"})
  @@ Opt(StrictBool, {"optional"})
  @@ Req(StrictStr, {"path"})
  @@ Opt(StrictInt, {"user"})

IoK8sApiCoreV1ConfigMapEnvSource ==
  Opt(StrictStr, {"name"})
  @@ Opt(StrictBool, {"optional"})

IoK8sApiCoreV1ConfigMapKeySelector ==
  Req(StrictStr, {"key"})
  @@ Opt(StrictStr, {"name"})
  @@ Opt(StrictBool, {"optional"})

IoK8sApiCoreV1ConfigMapProjection ==
  Opt(ListOf(Ref("IoK8sApiCoreV1KeyToPath")), {"items"})
  @@ Opt(StrictStr, {"name"})
  @@ Opt(StrictBool, {"optional"})

IoK8sApiCoreV1ConfigMapVolumeSource ==
  Opt(StrictInt, {"defaultMode", "defaultUser"})
  @@ Opt(ListOf(Ref("IoK8sApiCoreV1KeyToPath")), {"items"})
  @@ Opt(StrictStr, {"name"})
  @@ Opt(StrictBool, {"optional"})

IoK8sApiCoreV1Container ==
  Opt(ListOf(StrictStr), {"args", "command"})
  @@ Opt(ListOf(Ref("IoK8sApiCoreV1EnvVar")), {"env"})
  @@ Opt(ListOf(Ref("IoK8sApiCoreV1EnvFromSource")), {"envFrom"})
  @@ Opt(StrictStr, {"image", "imagePullPolicy", "restartPolicy",
       "terminationMessagePath", "terminationMessagePolicy", "workingDir"})
  @@ Opt(Ref("IoK8sApiCoreV1Lifecycle"), {"lifecycle"})
  @@ Opt(Ref("IoK8sApiCoreV1Probe"), {"livenessProbe", "readinessProbe",
       "startupProbe"})
  @@ Req(StrictStr, {"name"})
  @@ Opt(ListOf(Ref("IoK8sApiCoreV1ContainerPort")), {"ports"})
  @@ Opt(ListOf(Ref("IoK8sApiCoreV1ContainerResizePolicy")), {"resizePolicy"})
  @@ Opt(Ref("IoK8sApiCoreV1ResourceRequirements"), {"resources"})
  @@ Opt(ListOf(Ref("IoK8sApiCoreV1ContainerRestartRule")), {"restartPolicyRules"})
  @@ Opt(Ref("IoK8sApiCoreV1SecurityContext"), {"securityContext"})
  @@ Opt(StrictBool, {"stdin", "stdinOnce", "tty"})
  @@ Opt(ListOf(Ref("IoK8sApiCoreV1VolumeDevice")), {"volumeDevices"})
  @@ Opt(ListOf(Ref("IoK8sApiCoreV1VolumeMount")), {"volumeMounts"})

IoK8sApiCoreV1ContainerPort ==
  Req(StrictInt, {"containerPort"})
  @@ Opt(StrictStr, {"hostIP", "name", "protocol"})
  @@ Opt(StrictInt, {"hostPort"})

IoK8sApiCoreV1ContainerResizePolicy == Req(StrictStr, {"resourceName", "restartPolicy"})

IoK8sApiCoreV1ContainerRestartRule ==
  Req(StrictStr, {"action"})
  @@ Opt(Ref("IoK8sApiCoreV1ContainerRestartRuleOnExitCodes"), {"exitCodes"})

IoK8sApiCoreV1ContainerRestartRuleOnExitCodes ==
  Req(StrictStr, {"operator"})
  @@ Opt(ListOf(StrictInt), {"values"})

IoK8sApiCoreV1CSIVolumeSource ==
  Req(StrictStr, {"driver"})
  @@ Opt(StrictStr, {"fsType"})
  @@ Opt(Ref("IoK8sApiCoreV1LocalObjectReference"), {"nodePublishSecretRef"})
  @@ Opt(StrictBool, {"readOnly"})
  @@ Opt(MapOfStr, {"volumeAttributes"})

IoK8sApiCoreV1DownwardAPIProjection ==
  Opt(ListOf(Ref("IoK8sApiCoreV1DownwardAPIVolumeFile")), {"items"})

IoK8sApiCoreV1DownwardAPIVolumeFile ==
  Opt(Ref("IoK8sApiCoreV1ObjectFieldSelector"), {"fieldRef"})
  @@ Opt(StrictInt, {"mode", "user"})
  @@ Req(StrictStr, {"path"})
  @@ Opt(Ref("IoK8sApiCoreV1ResourceFieldSelector"), {"resourceFieldRef"})

IoK8sApiCoreV1DownwardAPIVolumeSource ==
  Opt(StrictInt, {"defaultMode", "defaultUser"})
  @@ Opt(ListOf(Ref("IoK8sApiCoreV1DownwardAPIVolumeFile")), {"items"})

IoK8sApiCoreV1EmptyDirVolumeSource ==
  Opt(StrictStr, {"medium", "sizeLimit"})
  @@ Opt(StrictInt, {"mode"})

IoK8sApiCoreV1EnvFromSource ==
  Opt(Ref("IoK8sApiCoreV1ConfigMapEnvSource"), {"configMapRef"})
  @@ Opt(StrictStr, {"prefix"})
  @@ Opt(Ref("IoK8sApiCoreV1SecretEnvSource"), {"secretRef"})

IoK8sApiCoreV1EnvVar ==
  Req(StrictStr, {"name"})
  @@ Opt(StrictStr, {"value"})
  @@ Opt(Ref("IoK8sApiCoreV1EnvVarSource"), {"valueFrom"})

IoK8sApiCoreV1EnvVarSource ==
  Opt(Ref("IoK8sApiCoreV1ConfigMapKeySelector"), {"configMapKeyRef"})
  @@ Opt(Ref("IoK8sApiCoreV1ObjectFieldSelector"), {"fieldRef"})
  @@ Opt(Ref("IoK8sApiCoreV1FileKeySelector"), {"fileKeyRef"})
  @@ Opt(Ref("IoK8sApiCoreV1ResourceFieldSelector"), {"resourceFieldRef"})
  @@ Opt(Ref("IoK8sApiCoreV1SecretKeySelector"), {"secretKeyRef"})

IoK8sApiCoreV1EphemeralContainer ==
  Opt(ListOf(StrictStr), {"args", "command"})
  @@ Opt(ListOf(Ref("IoK8sApiCoreV1EnvVar")), {"env"})
  @@ Opt(ListOf(Ref("IoK8sApiCoreV1EnvFromSource")), {"envFrom"})
  @@ Opt(StrictStr, {"image", "imagePullPolicy", "restartPolicy", "targetContainerName",
       "terminationMessagePath", "terminationMessagePolicy", "workingDir"})
  @@ Opt(Ref("IoK8sApiCoreV1Lifecycle"), {"lifecycle"})
  @@ Opt(Ref("IoK8sApiCoreV1Probe"), {"livenessProbe", "readinessProbe",
       "startupProbe"})
  @@ Req(StrictStr, {"name"})
  @@ Opt(ListOf(Ref("IoK8sApiCoreV1ContainerPort")), {"ports"})
  @@ Opt(ListOf(Ref("IoK8sApiCoreV1ContainerResizePolicy")), {"resizePolicy"})
  @@ Opt(Ref("IoK8sApiCoreV1ResourceRequirements"), {"resources"})
  @@ Opt(ListOf(Ref("IoK8sApiCoreV1ContainerRestartRule")), {"restartPolicyRules"})
  @@ Opt(Ref("IoK8sApiCoreV1SecurityContext"), {"securityContext"})
  @@ Opt(StrictBool, {"stdin", "stdinOnce", "tty"})
  @@ Opt(ListOf(Ref("IoK8sApiCoreV1VolumeDevice")), {"volumeDevices"})
  @@ Opt(ListOf(Ref("IoK8sApiCoreV1VolumeMount")), {"volumeMounts"})

IoK8sApiCoreV1EphemeralVolumeSource ==
  Opt(Ref("IoK8sApiCoreV1PersistentVolumeClaimTemplate"), {"volumeClaimTemplate"})

IoK8sApiCoreV1EvictionResponder == Req(StrictStr, {"name"}) @@ Req(StrictInt, {"priority"})

IoK8sApiCoreV1ExecAction == Opt(ListOf(StrictStr), {"command"})

IoK8sApiCoreV1FCVolumeSource ==
  Opt(StrictStr, {"fsType"})
  @@ Opt(StrictInt, {"lun"})
  @@ Opt(StrictBool, {"readOnly"})
  @@ Opt(ListOf(StrictStr), {"targetWWNs", "wwids"})

IoK8sApiCoreV1FileKeySelector ==
  Req(StrictStr, {"key", "path", "volumeName"})
  @@ Opt(StrictBool, {"optional"})

IoK8sApiCoreV1FlexVolumeSource ==
  Req(StrictStr, {"driver"})
  @@ Opt(StrictStr, {"fsType"})
  @@ Opt(MapOfStr, {"options"})
  @@ Opt(StrictBool, {"readOnly"})
  @@ Opt(Ref("IoK8sApiCoreV1LocalObjectReference"), {"secretRef"})

IoK8sApiCoreV1FlockerVolumeSource == Opt(StrictStr, {"datasetName", "datasetUUID"})

IoK8sApiCoreV1GCEPersistentDiskVolumeSource ==
  Opt(StrictStr, {"fsType"})
  @@ Opt(StrictInt, {"partition"})
  @@ Req(StrictStr, {"pdName"})
  @@ Opt(StrictBool, {"readOnly"})

IoK8sApiCoreV1GitRepoVolumeSource ==
  Opt(StrictStr, {"directory", "revision"})
  @@ Req(StrictStr, {"repository"})

IoK8sApiCoreV1GlusterfsVolumeSource ==
  Req(StrictStr, {"endpoints", "path"})
  @@ Opt(StrictBool, {"readOnly"})

IoK8sApiCoreV1GRPCAction == Opt(StrictStr, {"mode", "service"}) @@ Req(StrictInt, {"port"})

IoK8sApiCoreV1HostAlias == Opt(ListOf(StrictStr), {"hostnames"}) @@ Req(StrictStr, {"ip"})

IoK8sApiCoreV1HostPathVolumeSource == Req(StrictStr, {"path"}) @@ Opt(StrictStr, {"type"})

IoK8sApiCoreV1HTTPGetAction ==
  Opt(StrictStr, {"host", "path", "protocol", "scheme"})
  @@ Opt(ListOf(Ref("IoK8sApiCoreV1HTTPHeader")), {"httpHeaders"})
  @@ Req(IntOrString, {"port"})

IoK8sApiCoreV1HTTPHeader == Req(StrictStr, {"name", "value"})

IoK8sApiCoreV1ImageVolumeSource == Opt(StrictStr, {"pullPolicy", "reference"})

IoK8sApiCoreV1ISCSIVolumeSource ==
  Opt(StrictBool, {"chapAuthDiscovery", "chapAuthSession", "readOnly"})
  @@ Opt(StrictStr, {"fsType", "initiatorName", "iscsiInterface"})
  @@ Req(StrictStr, {"iqn", "targetPortal"})
  @@ Req(StrictInt, {"lun"})
  @@ Opt(ListOf(StrictStr), {"portals"})
  @@ Opt(Ref("IoK8sApiCoreV1LocalObjectReference"), {"secretRef"})

IoK8sApiCoreV1KeyToPath ==
  Req(StrictStr, {"key", "path"})
  @@ Opt(StrictInt, {"mode", "user"})

IoK8sApiCoreV1Lifecycle ==
  Opt(Ref("IoK8sApiCoreV1LifecycleHandler"), {"postStart", "preStop"})
  @@ Opt(StrictStr, {"stopSignal"})

IoK8sApiCoreV1LifecycleHandler ==
  Opt(Ref("IoK8sApiCoreV1ExecAction"), {"exec"})
  @@ Opt(Ref("IoK8sApiCoreV1HTTPGetAction"), {"httpGet"})
  @@ Opt(Ref("IoK8sApiCoreV1SleepAction"), {"sleep"})
  @@ Opt(Ref("IoK8sApiCoreV1TCPSocketAction"), {"tcpSocket"})

IoK8sApiCoreV1LocalObjectReference == Opt(StrictStr, {"name"})

IoK8sApiCoreV1ModifyVolumeStatus ==
  Req(StrictStr, {"status"})
  @@ Opt(StrictStr, {"targetVolumeAttributesClassName"})

IoK8sApiCoreV1NFSVolumeSource ==
  Req(StrictStr, {"path", "server"})
  @@ Opt(StrictBool, {"readOnly"})

IoK8sApiCoreV1NodeAffinity ==
  Opt(ListOf(Ref("IoK8sApiCoreV1PreferredSchedulingTerm")),
       {"preferredDuringSchedulingIgnoredDuringExecution"})
  @@ Opt(Ref("IoK8sApiCoreV1NodeSelector"),
       {"requiredDuringSchedulingIgnoredDuringExecution"})

IoK8sApiCoreV1NodeSelector ==
  Req(ListOf(Ref("IoK8sApiCoreV1NodeSelectorTerm")), {"nodeSelectorTerms"})

IoK8sApiCoreV1NodeSelectorRequirement ==
  Req(StrictStr, {"key", "operator"})
  @@ Opt(ListOf(StrictStr), {"values"})

IoK8sApiCoreV1NodeSelectorTerm ==
  Opt(ListOf(Ref("IoK8sApiCoreV1NodeSelectorRequirement")), {"matchExpressions",
       "matchFields"})

IoK8sApiCoreV1ObjectFieldSelector ==
  Opt(StrictStr, {"apiVersion"})
  @@ Req(StrictStr, {"fieldPath"})

IoK8sApiCoreV1PersistentVolumeClaim ==
  Opt(StrictStr, {"apiVersion", "kind"})
  @@ Opt(Ref("IoK8sApimachineryPkgApisMetaV1ObjectMeta"), {"metadata"})
  @@ Opt(Ref("IoK8sApiCoreV1PersistentVolumeClaimSpec"), {"spec"})
  @@ Opt(Ref("IoK8sApiCoreV1PersistentVolumeClaimStatus"), {"status"})

IoK8sApiCoreV1PersistentVolumeClaimCondition ==
  Opt(datetime, {"lastProbeTime", "lastTransitionTime"})
  @@ Opt(StrictStr, {"message", "reason"})
  @@ Req(StrictStr, {"status", "type"})

IoK8sApiCoreV1PersistentVolumeClaimSpec ==
  Opt(ListOf(StrictStr), {"accessModes"})
  @@ Opt(Ref("IoK8sApiCoreV1TypedLocalObjectReference"), {"dataSource"})
  @@ Opt(Ref("IoK8sApiCoreV1TypedObjectReference"), {"dataSourceRef"})
  @@ Opt(Ref("IoK8sApiCoreV1VolumeResourceRequirements"), {"resources"})
  @@ Opt(Ref("IoK8sApimachineryPkgApisMetaV1LabelSelector"), {"selector"})
  @@ Opt(StrictStr, {"storageClassName", "volumeAttributesClassName", "volumeMode",
       "volumeName"})

IoK8sApiCoreV1PersistentVolumeClaimStatus ==
  Opt(ListOf(StrictStr), {"accessModes"})
  @@ Opt(MapOfStr, {"allocatedResourceStatuses", "allocatedResources", "capacity"})
  @@ Opt(ListOf(Ref("IoK8sApiCoreV1PersistentVolumeClaimCondition")), {"conditions"})
  @@ Opt(StrictStr, {"currentVolumeAttributesClassName", "phase"})
  @@ Opt(Ref("IoK8sApiCoreV1VolumeHealthStatus"), {"healthStatus"})
  @@ Opt(Ref("IoK8sApiCoreV1ModifyVolumeStatus"), {"modifyVolumeStatus"})

IoK8sApiCoreV1PersistentVolumeClaimTemplate ==
  Opt(Ref("IoK8sApimachineryPkgApisMetaV1ObjectMeta"), {"metadata"})
  @@ Req(Ref("IoK8sApiCoreV1PersistentVolumeClaimSpec"), {"spec"})

IoK8sApiCoreV1PersistentVolumeClaimVolumeSource ==
  Req(StrictStr, {"claimName"})
  @@ Opt(StrictBool, {"readOnly"})

IoK8sApiCoreV1PhotonPersistentDiskVolumeSource ==
  Opt(StrictStr, {"fsType"})
  @@ Req(StrictStr, {"pdID"})

IoK8sApiCoreV1PodAffinity ==
  Opt(ListOf(Ref("IoK8sApiCoreV1WeightedPodAffinityTerm")),
       {"preferredDuringSchedulingIgnoredDuringExecution"})
  @@ Opt(ListOf(Ref("IoK8sApiCoreV1PodAffinityTerm")),
       {"requiredDuringSchedulingIgnoredDuringExecution"})

IoK8sApiCoreV1PodAffinityTerm ==
  Opt(Ref("IoK8sApimachineryPkgApisMetaV1LabelSelector"), {"labelSelector",
       "namespaceSelector"})
  @@ Opt(ListOf(StrictStr), {"matchLabelKeys", "mismatchLabelKeys", "namespaces"})
  @@ Req(StrictStr, {"topologyKey"})

IoK8sApiCoreV1PodAntiAffinity ==
  Opt(ListOf(Ref("IoK8sApiCoreV1WeightedPodAffinityTerm")),
       {"preferredDuringSchedulingIgnoredDuringExecution"})
  @@ Opt(ListOf(Ref("IoK8sApiCoreV1PodAffinityTerm")),
       {"requiredDuringSchedulingIgnoredDuringExecution"})

IoK8sApiCoreV1PodCertificateProjection ==
  Opt(StrictStr, {"certificateChainPath", "credentialBundlePath", "keyPath"})
  @@ Req(StrictStr, {"keyType", "signerName"})
  @@ Opt(StrictInt, {"maxExpirationSeconds", "user"})
  @@ Opt(MapOfStr, {"userAnnotations"})

IoK8sApiCoreV1PodDNSConfig ==
  Opt(ListOf(StrictStr), {"nameservers", "searches"})
  @@ Opt(ListOf(Ref("IoK8sApiCoreV1PodDNSConfigOption")), {"options"})

IoK8sApiCoreV1PodDNSConfigOption == Opt(StrictStr, {"name", "value"})

IoK8sApiCoreV1PodOS == Req(StrictStr, {"name"})

IoK8sApiCoreV1PodReadinessGate == Req(StrictStr, {"conditionType"})

IoK8sApiCoreV1PodResourceClaim ==
  Req(StrictStr, {"name"})
  @@ Opt(StrictStr, {"resourceClaimName", "resourceClaimTemplateName"})

IoK8sApiCoreV1PodSchedulingGate == Req(StrictStr, {"name"})

IoK8sApiCoreV1PodSchedulingGroup == Opt(StrictStr, {"podGroupName"})

IoK8sApiCoreV1PodSecurityContext ==
  Opt(Ref("IoK8sApiCoreV1AppArmorProfile"), {"appArmorProfile"})
  @@ Opt(StrictInt, {"fsGroup", "runAsGroup", "runAsUser"})
  @@ Opt(StrictStr, {"fsGroupChangePolicy", "seLinuxChangePolicy",
       "supplementalGroupsPolicy"})
  @@ Opt(StrictBool, {"runAsNonRoot"})
  @@ Opt(Ref("IoK8sApiCoreV1SELinuxOptions"), {"seLinuxOptions"})
  @@ Opt(Ref("IoK8sApiCoreV1SeccompProfile"), {"seccompProfile"})
  @@ Opt(ListOf(StrictInt), {"supplementalGroups"})
  @@ Opt(ListOf(Ref("IoK8sApiCoreV1Sysctl")), {"sysctls"})
  @@ Opt(Ref("IoK8sApiCoreV1WindowsSecurityContextOptions"), {"windowsOptions"})

IoK8sApiCoreV1PodSpec ==
  Opt(StrictInt, {"activeDeadlineSeconds", "priority", "terminationGracePeriodSeconds"})
  @@ Opt(Ref("IoK8sApiCoreV1Affinity"), {"affinity"})
  @@ Opt(StrictBool, {"automountServiceAccountToken", "enableServiceLinks", "hostIPC",
       "hostNetwork", "hostPID", "hostUsers", "setHostnameAsFQDN",
       "shareProcessNamespace"})
  @@ Req(ListOf(Ref("IoK8sApiCoreV1Container")), {"containers"})
  @@ Opt(Ref("IoK8sApiCoreV1PodDNSConfig"), {"dnsConfig"})
  @@ Opt(StrictStr, {"dnsPolicy", "hostname", "hostnameOverride", "nodeName",
       "preemptionPolicy", "priorityClassName", "restartPolicy", "runtimeClassName",
       "schedulerName", "serviceAccount", "serviceAccountName", "subdomain"})
  @@ Opt(ListOf(Ref("IoK8sApiCoreV1EphemeralContainer")), {"ephemeralContainers"})
  @@ Opt(ListOf(Ref("IoK8sApiCoreV1EvictionResponder")), {"evictionResponders"})
  @@ Opt(ListOf(Ref("IoK8sApiCoreV1HostAlias")), {"hostAliases"})
  @@ Opt(ListOf(Ref("IoK8sApiCoreV1LocalObjectReference")), {"imagePullSecrets"})
  @@ Opt(ListOf(Ref("IoK8sApiCoreV1Container")), {"initContainers"})
  @@ Opt(MapOfStr, {"nodeSelector", "overhead"})
  @@ Opt(Ref("IoK8sApiCoreV1PodOS"), {"os"})
  @@ Opt(ListOf(Ref("IoK8sApiCoreV1PodReadinessGate")), {"readinessGates"})
  @@ Opt(ListOf(Ref("IoK8sApiCoreV1PodResourceClaim")), {"resourceClaims"})
  @@ Opt(Ref("IoK8sApiCoreV1ResourceRequirements"), {"resources"})
  @@ Opt(ListOf(Ref("IoK8sApiCoreV1PodSchedulingGate")), {"schedulingGates"})
  @@ Opt(Ref("IoK8sApiCoreV1PodSchedulingGroup"), {"schedulingGroup"})
  @@ Opt(Ref("IoK8sApiCoreV1PodSecurityContext"), {"securityContext"})
  @@ Opt(ListOf(Ref("IoK8sApiCoreV1Toleration")), {"tolerations"})
  @@ Opt(ListOf(Ref("IoK8sApiCoreV1TopologySpreadConstraint")),
       {"topologySpreadConstraints"})
  @@ Opt(ListOf(Ref("IoK8sApiCoreV1Volume")), {"volumes"})

IoK8sApiCoreV1PodTemplateSpec ==
  Opt(Ref("IoK8sApimachineryPkgApisMetaV1ObjectMeta"), {"metadata"})
  @@ Opt(Ref("IoK8sApiCoreV1PodSpec"), {"spec"})

IoK8sApiCoreV1PortworxVolumeSource ==
  Opt(StrictStr, {"fsType"})
  @@ Opt(StrictBool, {"readOnly"})
  @@ Req(StrictStr, {"volumeID"})

IoK8sApiCoreV1PreferredSchedulingTerm ==
  Req(Ref("IoK8sApiCoreV1NodeSelectorTerm"), {"preference"})
  @@ Req(StrictInt, {"weight"})

IoK8sApiCoreV1Probe ==
  Opt(Ref("IoK8sApiCoreV1ExecAction"), {"exec"})
  @@ Opt(StrictInt, {"failureThreshold", "initialDelaySeconds", "periodSeconds",
       "successThreshold", "terminationGracePeriodSeconds", "timeoutSeconds"})
  @@ Opt(Ref("IoK8sApiCoreV1GRPCAction"), {"grpc"})
  @@ Opt(Ref("IoK8sApiCoreV1HTTPGetAction"), {"httpGet"})
  @@ Opt(Ref("IoK8sApiCoreV1TCPSocketAction"), {"tcpSocket"})

IoK8sApiCoreV1ProjectedVolumeSource ==
  Opt(StrictInt, {"defaultMode", "defaultUser"})
  @@ Opt(ListOf(Ref("IoK8sApiCoreV1VolumeProjection")), {"sources"})

IoK8sApiCoreV1QuobyteVolumeSource ==
  Opt(StrictStr, {"group", "tenant", "user"})
  @@ Opt(StrictBool, {"readOnly"})
  @@ Req(StrictStr, {"registry", "volume"})

IoK8sApiCoreV1RBDVolumeSource ==
  Opt(StrictStr, {"fsType", "keyring", "pool", "user"})
  @@ Req(StrictStr, {"image"})
  @@ Req(ListOf(StrictStr), {"monitors"})
  @@ Opt(StrictBool, {"readOnly"})
  @@ Opt(Ref("IoK8sApiCoreV1LocalObjectReference"), {"secretRef"})

IoK8sApiCoreV1ResourceClaim == Req(StrictStr, {"name"}) @@ Opt(StrictStr, {"request"})

IoK8sApiCoreV1ResourceFieldSelector ==
  Opt(StrictStr, {"containerName", "divisor"})
  @@ Req(StrictStr, {"resource"})

IoK8sApiCoreV1ResourceRequirements ==
  Opt(ListOf(Ref("IoK8sApiCoreV1ResourceClaim")), {"claims"})
  @@ Opt(MapOfStr, {"limits", "requests"})

IoK8sApiCoreV1ScaleIOVolumeSource ==
  Opt(StrictStr, {"fsType", "protectionDomain", "storageMode", "storagePool",
       "volumeName"})
  @@ Req(StrictStr, {"gateway", "system"})
  @@ Opt(StrictBool, {"readOnly", "sslEnabled"})
  @@ Req(Ref("IoK8sApiCoreV1LocalObjectReference"), {"secretRef"})

IoK8sApiCoreV1SELinuxOptions == Opt(StrictStr, {"level", "role", "type", "user"})

IoK8sApiCoreV1SeccompProfile ==
  Opt(StrictStr, {"localhostProfile"})
  @@ Req(StrictStr, {"type"})

IoK8sApiCoreV1SecretEnvSource == Opt(StrictStr, {"name"}) @@ Opt(StrictBool, {"optional"})

IoK8sApiCoreV1SecretKeySelector ==
  Req(StrictStr, {"key"})
  @@ Opt(StrictStr, {"name"})
  @@ Opt(StrictBool, {"optional"})

IoK8sApiCoreV1SecretProjection ==
  Opt(ListOf(Ref("IoK8sApiCoreV1KeyToPath")), {"items"})
  @@ Opt(StrictStr, {"name"})
  @@ Opt(StrictBool, {"optional"})

IoK8sApiCoreV1SecretVolumeSource ==
  Opt(StrictInt, {"defaultMode", "defaultUser"})
  @@ Opt(ListOf(Ref("IoK8sApiCoreV1KeyToPath")), {"items"})
  @@ Opt(StrictBool, {"optional"})
  @@ Opt(StrictStr, {"secretName"})

IoK8sApiCoreV1SecurityContext ==
  Opt(StrictBool, {"allowPrivilegeEscalation", "privileged", "readOnlyRootFilesystem",
       "runAsNonRoot"})
  @@ Opt(Ref("IoK8sApiCoreV1AppArmorProfile"), {"appArmorProfile"})
  @@ Opt(Ref("IoK8sApiCoreV1Capabilities"), {"capabilities"})
  @@ Opt(StrictStr, {"procMount"})
  @@ Opt(StrictInt, {"runAsGroup", "runAsUser"})
  @@ Opt(Ref("IoK8sApiCoreV1SELinuxOptions"), {"seLinuxOptions"})
  @@ Opt(Ref("IoK8sApiCoreV1SeccompProfile"), {"seccompProfile"})
  @@ Opt(Ref("IoK8sApiCoreV1WindowsSecurityContextOptions"), {"windowsOptions"})

IoK8sApiCoreV1ServiceAccountTokenProjection ==
  Opt(StrictStr, {"audience"})
  @@ Opt(StrictInt, {"expirationSeconds", "user"})
  @@ Req(StrictStr, {"path"})

IoK8sApiCoreV1SleepAction == Req(StrictInt, {"seconds"})

IoK8sApiCoreV1StorageOSVolumeSource ==
  Opt(StrictStr, {"fsType", "volumeName", "volumeNamespace"})
  @@ Opt(StrictBool, {"readOnly"})
  @@ Opt(Ref("IoK8sApiCoreV1LocalObjectReference"), {"secretRef"})

IoK8sApiCoreV1Sysctl == Req(StrictStr, {"name", "value"})

IoK8sApiCoreV1TCPSocketAction == Opt(StrictStr, {"host"}) @@ Req(IntOrString, {"port"})

IoK8sApiCoreV1Toleration ==
  Opt(StrictStr, {"effect", "key", "operator", "value"})
  @@ Opt(StrictInt, {"tolerationSeconds"})

IoK8sApiCoreV1TopologySpreadConstraint ==
  Opt(Ref("IoK8sApimachineryPkgApisMetaV1LabelSelector"), {"labelSelector"})
  @@ Opt(ListOf(StrictStr), {"matchLabelKeys"})
  @@ Req(StrictInt, {"maxSkew"})
  @@ Opt(StrictInt, {"minDomains"})
  @@ Opt(StrictStr, {"nodeAffinityPolicy", "nodeTaintsPolicy"})
  @@ Req(StrictStr, {"topologyKey", "whenUnsatisfiable"})

IoK8sApiCoreV1TypedLocalObjectReference ==
  Opt(StrictStr, {"apiGroup"})
  @@ Req(StrictStr, {"kind", "name"})

IoK8sApiCoreV1TypedObjectReference ==
  Opt(StrictStr, {"apiGroup", "namespace"})
  @@ Req(StrictStr, {"kind", "name"})

IoK8sApiCoreV1Volume ==
  Opt(Ref("IoK8sApiCoreV1AWSElasticBlockStoreVolumeSource"), {"awsElasticBlockStore"})
  @@ Opt(Ref("IoK8sApiCoreV1AzureDiskVolumeSource"), {"azureDisk"})
  @@ Opt(Ref("IoK8sApiCoreV1AzureFileVolumeSource"), {"azureFile"})
  @@ Opt(Ref("IoK8sApiCoreV1CephFSVolumeSource"), {"cephfs"})
  @@ Opt(Ref("IoK8sApiCoreV1CinderVolumeSource"), {"cinder"})
  @@ Opt(Ref("IoK8sApiCoreV1ConfigMapVolumeSource"), {"configMap"})
  @@ Opt(Ref("IoK8sApiCoreV1CSIVolumeSource"), {"csi"})
  @@ Opt(Ref("IoK8sApiCoreV1DownwardAPIVolumeSource"), {"downwardAPI"})
  @@ Opt(Ref("IoK8sApiCoreV1EmptyDirVolumeSource"), {"emptyDir"})
  @@ Opt(Ref("IoK8sApiCoreV1EphemeralVolumeSource"), {"ephemeral"})
  @@ Opt(Ref("IoK8sApiCoreV1FCVolumeSource"), {"fc"})
  @@ Opt(Ref("IoK8sApiCoreV1FlexVolumeSource"), {"flexVolume"})
  @@ Opt(Ref("IoK8sApiCoreV1FlockerVolumeSource"), {"flocker"})
  @@ Opt(Ref("IoK8sApiCoreV1GCEPersistentDiskVolumeSource"), {"gcePersistentDisk"})
  @@ Opt(Ref("IoK8sApiCoreV1GitRepoVolumeSource"), {"gitRepo"})
  @@ Opt(Ref("IoK8sApiCoreV1GlusterfsVolumeSource"), {"glusterfs"})
  @@ Opt(Ref("IoK8sApiCoreV1HostPathVolumeSource"), {"hostPath"})
  @@ Opt(Ref("IoK8sApiCoreV1ImageVolumeSource"), {"image"})
  @@ Opt(Ref("IoK8sApiCoreV1ISCSIVolumeSource"), {"iscsi"})
  @@ Req(StrictStr, {"name"})
  @@ Opt(Ref("IoK8sApiCoreV1NFSVolumeSource"), {"nfs"})
  @@ Opt(Ref("IoK8sApiCoreV1PersistentVolumeClaimVolumeSource"),
       {"persistentVolumeClaim"})
  @@ Opt(Ref("IoK8sApiCoreV1PhotonPersistentDiskVolumeSource"),
       {"photonPersistentDisk"})
  @@ Opt(Ref("IoK8sApiCoreV1PortworxVolumeSource"), {"portworxVolume"})
  @@ Opt(Ref("IoK8sApiCoreV1ProjectedVolumeSource"), {"projected"})
  @@ Opt(Ref("IoK8sApiCoreV1QuobyteVolumeSource"), {"quobyte"})
  @@ Opt(Ref("IoK8sApiCoreV1RBDVolumeSource"), {"rbd"})
  @@ Opt(Ref("IoK8sApiCoreV1ScaleIOVolumeSource"), {"scaleIO"})
  @@ Opt(Ref("IoK8sApiCoreV1SecretVolumeSource"), {"secret"})
  @@ Opt(Ref("IoK8sApiCoreV1StorageOSVolumeSource"), {"storageos"})
  @@ Opt(Ref("IoK8sApiCoreV1VsphereVirtualDiskVolumeSource"), {"vsphereVolume"})

IoK8sApiCoreV1VolumeDevice == Req(StrictStr, {"devicePath", "name"})

IoK8sApiCoreV1VolumeHealthCondition ==
  Opt(StrictStr, {"message"})
  @@ Req(StrictStr, {"reason", "status"})

IoK8sApiCoreV1VolumeHealthStatus ==
  Opt(ListOf(Ref("IoK8sApiCoreV1VolumeHealthCondition")), {"healthConditions"})
  @@ Opt(datetime, {"lastTransitionTime"})

IoK8sApiCoreV1VolumeMount ==
  Opt(ListOf(StrictStr), {"bindMountOptions"})
  @@ Req(StrictStr, {"mountPath", "name"})
  @@ Opt(StrictStr, {"mountPropagation", "recursiveReadOnly", "subPath", "subPathExpr"})
  @@ Opt(StrictBool, {"readOnly"})

IoK8sApiCoreV1VolumeProjection ==
  Opt(Ref("IoK8sApiCoreV1ClusterTrustBundleProjection"), {"clusterTrustBundle"})
  @@ Opt(Ref("IoK8sApiCoreV1ConfigMapProjection"), {"configMap"})
  @@ Opt(Ref("IoK8sApiCoreV1DownwardAPIProjection"), {"downwardAPI"})
  @@ Opt(Ref("IoK8sApiCoreV1PodCertificateProjection"), {"podCertificate"})
  @@ Opt(Ref("IoK8sApiCoreV1SecretProjection"), {"secret"})
  @@ Opt(Ref("IoK8sApiCoreV1ServiceAccountTokenProjection"), {"serviceAccountToken"})

IoK8sApiCoreV1VolumeResourceRequirements == Opt(MapOfStr, {"limits", "requests"})

IoK8sApiCoreV1VsphereVirtualDiskVolumeSource ==
  Opt(StrictStr, {"fsType", "storagePolicyID", "storagePolicyName"})
  @@ Req(StrictStr, {"volumePath"})

IoK8sApiCoreV1WeightedPodAffinityTerm ==
  Req(Ref("IoK8sApiCoreV1PodAffinityTerm"), {"podAffinityTerm"})
  @@ Req(StrictInt, {"weight"})

IoK8sApiCoreV1WindowsSecurityContextOptions ==
  Opt(StrictStr, {"gmsaCredentialSpec", "gmsaCredentialSpecName", "runAsUserName"})
  @@ Opt(StrictBool, {"hostProcess"})

IoK8sApiSchedulingV1alpha3TopologyConstraint == Req(StrictStr, {"key"})

IoK8sApiSchedulingV1alpha3WorkloadCompositePodGroupDisruptionMode ==
  Opt(AnyMap, {"all", "single"})

IoK8sApiSchedulingV1alpha3WorkloadCompositePodGroupGangSchedulingPolicy ==
  Opt(Positive, {"minGroupCount"})

IoK8sApiSchedulingV1alpha3WorkloadCompositePodGroupSchedulingConstraints ==
  Opt(AtMostOne(Ref("IoK8sApiSchedulingV1alpha3TopologyConstraint")), {"topology"})

IoK8sApiSchedulingV1alpha3WorkloadCompositePodGroupSchedulingPolicy ==
  Opt(AnyMap, {"basic"})
  @@ Opt(Ref("IoK8sApiSchedulingV1alpha3WorkloadCompositePodGroupGangSchedulingPolicy"),
       {"gang"})

IoK8sApiSchedulingV1alpha3WorkloadPodGroupDisruptionMode == Opt(AnyMap, {"all", "single"})

IoK8sApiSchedulingV1alpha3WorkloadPodGroupGangSchedulingPolicy ==
  Opt(StrictInt, {"minCount"})

IoK8sApiSchedulingV1alpha3WorkloadPodGroupResourceClaim ==
  Req(StrictStr, {"name"})
  @@ Opt(StrictStr, {"resourceClaimName", "resourceClaimTemplateName"})

IoK8sApiSchedulingV1alpha3WorkloadPodGroupSchedulingConstraints ==
  Opt(ListOf(Ref("IoK8sApiSchedulingV1alpha3TopologyConstraint")), {"topology"})

IoK8sApiSchedulingV1alpha3WorkloadPodGroupSchedulingPolicy ==
  Opt(AnyMap, {"basic"})
  @@ Opt(Ref("IoK8sApiSchedulingV1alpha3WorkloadPodGroupGangSchedulingPolicy"),
       {"gang"})

IoK8sApimachineryPkgApisMetaV1Condition ==
  Req(datetime, {"lastTransitionTime"})
  @@ Req(StrictStr, {"message", "reason", "status", "type"})
  @@ Opt(StrictInt, {"observedGeneration"})

IoK8sApimachineryPkgApisMetaV1LabelSelector ==
  Opt(ListOf(Ref("IoK8sApimachineryPkgApisMetaV1LabelSelectorRequirement")),
       {"matchExpressions"})
  @@ Opt(MapOfStr, {"matchLabels"})

IoK8sApimachineryPkgApisMetaV1LabelSelectorRequirement ==
  Req(StrictStr, {"key", "operator"})
  @@ Opt(ListOf(StrictStr), {"values"})

IoK8sApimachineryPkgApisMetaV1ListMeta ==
  Opt(StrictStr, {"continue", "resourceVersion", "selfLink"})
  @@ Opt(StrictInt, {"remainingItemCount"})
  @@ Opt(Ref("IoK8sApimachineryPkgApisMetaV1ShardInfo"), {"shardInfo"})

IoK8sApimachineryPkgApisMetaV1ManagedFieldsEntry ==
  Opt(StrictStr, {"apiVersion", "fieldsType", "manager", "operation", "subresource"})
  @@ Opt(AnyMap, {"fieldsV1"})
  @@ Opt(datetime, {"time"})

IoK8sApimachineryPkgApisMetaV1ObjectMeta ==
  Opt(MapOfStr, {"annotations", "labels"})
  @@ Opt(datetime, {"creationTimestamp", "deletionTimestamp"})
  @@ Opt(StrictInt, {"deletionGracePeriodSeconds", "generation"})
  @@ Opt(ListOf(StrictStr), {"finalizers"})
  @@ Opt(StrictStr, {"generateName", "name", "namespace", "resourceVersion", "selfLink",
       "uid"})
  @@ Opt(ListOf(Ref("IoK8sApimachineryPkgApisMetaV1ManagedFieldsEntry")),
       {"managedFields"})
  @@ Opt(ListOf(Ref("IoK8sApimachineryPkgApisMetaV1OwnerReference")),
       {"ownerReferences"})

IoK8sApimachineryPkgApisMetaV1OwnerReference ==
  Req(StrictStr, {"apiVersion", "kind", "name", "uid"})
  @@ Opt(StrictBool, {"blockOwnerDeletion", "controller"})

IoK8sApimachineryPkgApisMetaV1ShardInfo == Req(StrictStr, {"selector"})

JobsetV1alpha2Coordinator ==
  Opt(StrictInt, {"jobIndex", "podIndex"})
  @@ ReqDft(StrictStr, {"replicatedJob"})

JobsetV1alpha2DependsOn == ReqDft(StrictStr, {"name", "status"})

JobsetV1alpha2FailurePolicy ==
  Opt(StrictInt, {"maxRestarts"})
  @@ Opt(StrictStr, {"restartStrategy"})
  @@ Opt(ListOf(Ref("JobsetV1alpha2FailurePolicyRule")), {"rules"})

JobsetV1alpha2FailurePolicyRule ==
  ReqDft(StrictStr, {"action", "name"})
  @@ Opt(ListOf(StrictStr), {"onJobFailureMessagePatterns", "onJobFailureReasons",
       "targetReplicatedJobs"})

JobsetV1alpha2JobScheduling ==
  Opt(Ref("IoK8sApiSchedulingV1alpha3WorkloadPodGroupDisruptionMode"),
       {"disruptionMode"})
  @@ Opt(ListOf(Ref("IoK8sApiSchedulingV1alpha3WorkloadPodGroupResourceClaim")),
       {"resourceClaims"})
  @@ Opt(Ref("IoK8sApiSchedulingV1alpha3WorkloadPodGroupSchedulingConstraints"),
       {"schedulingConstraints"})
  @@ Opt(Ref("IoK8sApiSchedulingV1alpha3WorkloadPodGroupSchedulingPolicy"),
       {"schedulingPolicy"})

JobsetV1alpha2JobSet ==
  Opt(StrictStr, {"apiVersion", "kind"})
  @@ Opt(Ref("IoK8sApimachineryPkgApisMetaV1ObjectMeta"), {"metadata"})
  @@ Opt(Ref("JobsetV1alpha2JobSetSpec"), {"spec"})
  @@ Opt(Ref("JobsetV1alpha2JobSetStatus"), {"status"})

JobsetV1alpha2JobSetList ==
  Opt(StrictStr, {"apiVersion", "kind"})
  @@ Req(ListOf(Ref("JobsetV1alpha2JobSet")), {"items"})
  @@ Opt(Ref("IoK8sApimachineryPkgApisMetaV1ListMeta"), {"metadata"})

JobsetV1alpha2JobSetScheduling ==
  Opt(Ref("IoK8sApiSchedulingV1alpha3WorkloadCompositePodGroupDisruptionMode"),
       {"disruptionMode"})
  @@ Opt(ListOf(Ref("JobsetV1alpha2ReplicatedJobScheduling")), {"replicatedJobs"})
  @@ Opt(Ref("IoK8sApiSchedulingV1alpha3WorkloadCompositePodGroupSchedulingConstraints"),
       {"schedulingConstraints"})
  @@ Opt(Ref("IoK8sApiSchedulingV1alpha3WorkloadCompositePodGroupSchedulingPolicy"),
       {"schedulingPolicy"})

JobsetV1alpha2JobSetSpec ==
  Opt(StrictInt, {"activeDeadlineSeconds", "ttlSecondsAfterFinished"})
  @@ Opt(Ref("JobsetV1alpha2Coordinator"), {"coordinator"})
  @@ Opt(Ref("JobsetV1alpha2FailurePolicy"), {"failurePolicy"})
  @@ Opt(StrictStr, {"managedBy"})
  @@ Opt(Ref("JobsetV1alpha2Network"), {"network"})
  @@ Opt(ListOf(Ref("JobsetV1alpha2ReplicatedJob")), {"replicatedJobs"})
  @@ Opt(Ref("JobsetV1alpha2JobSetScheduling"), {"scheduling"})
  @@ Opt(Ref("JobsetV1alpha2StartupPolicy"), {"startupPolicy"})
  @@ Opt(Ref("JobsetV1alpha2SuccessPolicy"), {"successPolicy"})
  @@ Opt(StrictBool, {"suspend"})
  @@ Opt(ListOf(Ref("JobsetV1alpha2VolumeClaimPolicy")), {"volumeClaimPolicies"})

\* Mutant: a counter that the API server may leave out is required.
RequiredCounterMutant ==
  Opt(ListOf(Ref("IoK8sApimachineryPkgApisMetaV1Condition")), {"conditions"})
  @@ Req(StrictInt, {"executionAttempts"})
  @@ Opt(StrictInt, {"currentInPlaceRestartAttempt", "previousInPlaceRestartAttempt",
       "restartsCountTowardsMax"})
  @@ Opt(ListOf(Ref("JobsetV1alpha2ReplicatedJobStatus")), {"replicatedJobsStatus"})
  @@ Dft(StrictInt, {"restarts"})
  @@ Opt(datetime, {"startTime"})
  @@ Opt(StrictStr, {"terminalState"})

JobsetV1alpha2JobSetStatus ==
  Opt(ListOf(Ref("IoK8sApimachineryPkgApisMetaV1Condition")), {"conditions"})
  @@ Opt(StrictInt, {"currentInPlaceRestartAttempt", "executionAttempts",
       "previousInPlaceRestartAttempt", "restartsCountTowardsMax"})
  @@ Opt(ListOf(Ref("JobsetV1alpha2ReplicatedJobStatus")), {"replicatedJobsStatus"})
  @@ Dft(StrictInt, {"restarts"})
  @@ Opt(datetime, {"startTime"})
  @@ Opt(StrictStr, {"terminalState"})

JobsetV1alpha2Network ==
  Opt(StrictBool, {"enableDNSHostnames", "publishNotReadyAddresses"})
  @@ Opt(StrictStr, {"subdomain"})

JobsetV1alpha2ReplicatedJob ==
  Opt(ListOf(Ref("JobsetV1alpha2DependsOn")), {"dependsOn"})
  @@ Opt(StrictStr, {"groupName"})
  @@ ReqDft(StrictStr, {"name"})
  @@ Opt(StrictInt, {"replicas"})
  @@ Req(Ref("IoK8sApiBatchV1JobTemplateSpec"), {"template"})

JobsetV1alpha2ReplicatedJobScheduling ==
  Opt(Ref("IoK8sApiSchedulingV1alpha3WorkloadCompositePodGroupDisruptionMode"),
       {"disruptionMode"})
  @@ Opt(Ref("JobsetV1alpha2JobScheduling"), {"job"})
  @@ Opt(Ref("IoK8sApiSchedulingV1alpha3WorkloadCompositePodGroupSchedulingConstraints"),
       {"schedulingConstraints"})
  @@ Opt(Ref("IoK8sApiSchedulingV1alpha3WorkloadCompositePodGroupSchedulingPolicy"),
       {"schedulingPolicy"})
  @@ Req(ListOf(StrictStr), {"targetReplicatedJobs"})

JobsetV1alpha2ReplicatedJobStatus ==
  ReqDft(StrictInt, {"active", "failed", "ready", "succeeded", "suspended"})
  @@ Opt(ListOf(StrictInt), {"jobRestarts", "jobRestartsCountTowardsMax"})
  @@ ReqDft(StrictStr, {"name"})

JobsetV1alpha2StartupPolicy == ReqDft(StrictStr, {"startupPolicyOrder"})

JobsetV1alpha2SuccessPolicy ==
  ReqDft(StrictStr, {"operator"})
  @@ Opt(ListOf(StrictStr), {"targetReplicatedJobs"})

JobsetV1alpha2VolumeClaimPolicy ==
  Opt(Ref("JobsetV1alpha2VolumeRetentionPolicy"), {"retentionPolicy"})
  @@ Opt(ListOf(Ref("IoK8sApiCoreV1PersistentVolumeClaim")), {"templates"})

JobsetV1alpha2VolumeRetentionPolicy == Opt(StrictStr, {"whenDeleted"})
-----------------------------------------------------------------------------

\* The names that jobset.models exports, each with its class.
Models ==
  [IoK8sApiBatchV1JobSchedulingConfiguration |-> IoK8sApiBatchV1JobSchedulingConfiguration,
   IoK8sApiBatchV1JobSpec |-> IoK8sApiBatchV1JobSpec,
   IoK8sApiBatchV1JobTemplateSpec |-> IoK8sApiBatchV1JobTemplateSpec,
   IoK8sApiBatchV1PodFailurePolicy |-> IoK8sApiBatchV1PodFailurePolicy,
   IoK8sApiBatchV1PodFailurePolicyOnExitCodesRequirement |-> IoK8sApiBatchV1PodFailurePolicyOnExitCodesRequirement,
   IoK8sApiBatchV1PodFailurePolicyOnPodConditionsPattern |-> IoK8sApiBatchV1PodFailurePolicyOnPodConditionsPattern,
   IoK8sApiBatchV1PodFailurePolicyRule |-> IoK8sApiBatchV1PodFailurePolicyRule,
   IoK8sApiBatchV1SuccessPolicy |-> IoK8sApiBatchV1SuccessPolicy,
   IoK8sApiBatchV1SuccessPolicyRule |-> IoK8sApiBatchV1SuccessPolicyRule,
   IoK8sApiCoreV1Affinity |-> IoK8sApiCoreV1Affinity,
   IoK8sApiCoreV1AppArmorProfile |-> IoK8sApiCoreV1AppArmorProfile,
   IoK8sApiCoreV1AWSElasticBlockStoreVolumeSource |-> IoK8sApiCoreV1AWSElasticBlockStoreVolumeSource,
   IoK8sApiCoreV1AzureDiskVolumeSource |-> IoK8sApiCoreV1AzureDiskVolumeSource,
   IoK8sApiCoreV1AzureFileVolumeSource |-> IoK8sApiCoreV1AzureFileVolumeSource,
   IoK8sApiCoreV1Capabilities |-> IoK8sApiCoreV1Capabilities,
   IoK8sApiCoreV1CephFSVolumeSource |-> IoK8sApiCoreV1CephFSVolumeSource,
   IoK8sApiCoreV1CinderVolumeSource |-> IoK8sApiCoreV1CinderVolumeSource,
   IoK8sApiCoreV1ClusterTrustBundleProjection |-> IoK8sApiCoreV1ClusterTrustBundleProjection,
   IoK8sApiCoreV1ConfigMapEnvSource |-> IoK8sApiCoreV1ConfigMapEnvSource,
   IoK8sApiCoreV1ConfigMapKeySelector |-> IoK8sApiCoreV1ConfigMapKeySelector,
   IoK8sApiCoreV1ConfigMapProjection |-> IoK8sApiCoreV1ConfigMapProjection,
   IoK8sApiCoreV1ConfigMapVolumeSource |-> IoK8sApiCoreV1ConfigMapVolumeSource,
   IoK8sApiCoreV1Container |-> IoK8sApiCoreV1Container,
   IoK8sApiCoreV1ContainerPort |-> IoK8sApiCoreV1ContainerPort,
   IoK8sApiCoreV1ContainerResizePolicy |-> IoK8sApiCoreV1ContainerResizePolicy,
   IoK8sApiCoreV1ContainerRestartRule |-> IoK8sApiCoreV1ContainerRestartRule,
   IoK8sApiCoreV1ContainerRestartRuleOnExitCodes |-> IoK8sApiCoreV1ContainerRestartRuleOnExitCodes,
   IoK8sApiCoreV1CSIVolumeSource |-> IoK8sApiCoreV1CSIVolumeSource,
   IoK8sApiCoreV1DownwardAPIProjection |-> IoK8sApiCoreV1DownwardAPIProjection,
   IoK8sApiCoreV1DownwardAPIVolumeFile |-> IoK8sApiCoreV1DownwardAPIVolumeFile,
   IoK8sApiCoreV1DownwardAPIVolumeSource |-> IoK8sApiCoreV1DownwardAPIVolumeSource,
   IoK8sApiCoreV1EmptyDirVolumeSource |-> IoK8sApiCoreV1EmptyDirVolumeSource,
   IoK8sApiCoreV1EnvFromSource |-> IoK8sApiCoreV1EnvFromSource,
   IoK8sApiCoreV1EnvVar |-> IoK8sApiCoreV1EnvVar,
   IoK8sApiCoreV1EnvVarSource |-> IoK8sApiCoreV1EnvVarSource,
   IoK8sApiCoreV1EphemeralContainer |-> IoK8sApiCoreV1EphemeralContainer,
   IoK8sApiCoreV1EphemeralVolumeSource |-> IoK8sApiCoreV1EphemeralVolumeSource,
   IoK8sApiCoreV1EvictionResponder |-> IoK8sApiCoreV1EvictionResponder,
   IoK8sApiCoreV1ExecAction |-> IoK8sApiCoreV1ExecAction,
   IoK8sApiCoreV1FCVolumeSource |-> IoK8sApiCoreV1FCVolumeSource,
   IoK8sApiCoreV1FileKeySelector |-> IoK8sApiCoreV1FileKeySelector,
   IoK8sApiCoreV1FlexVolumeSource |-> IoK8sApiCoreV1FlexVolumeSource,
   IoK8sApiCoreV1FlockerVolumeSource |-> IoK8sApiCoreV1FlockerVolumeSource,
   IoK8sApiCoreV1GCEPersistentDiskVolumeSource |-> IoK8sApiCoreV1GCEPersistentDiskVolumeSource,
   IoK8sApiCoreV1GitRepoVolumeSource |-> IoK8sApiCoreV1GitRepoVolumeSource,
   IoK8sApiCoreV1GlusterfsVolumeSource |-> IoK8sApiCoreV1GlusterfsVolumeSource,
   IoK8sApiCoreV1GRPCAction |-> IoK8sApiCoreV1GRPCAction,
   IoK8sApiCoreV1HostAlias |-> IoK8sApiCoreV1HostAlias,
   IoK8sApiCoreV1HostPathVolumeSource |-> IoK8sApiCoreV1HostPathVolumeSource,
   IoK8sApiCoreV1HTTPGetAction |-> IoK8sApiCoreV1HTTPGetAction,
   IoK8sApiCoreV1HTTPHeader |-> IoK8sApiCoreV1HTTPHeader,
   IoK8sApiCoreV1ImageVolumeSource |-> IoK8sApiCoreV1ImageVolumeSource,
   IoK8sApiCoreV1ISCSIVolumeSource |-> IoK8sApiCoreV1ISCSIVolumeSource,
   IoK8sApiCoreV1KeyToPath |-> IoK8sApiCoreV1KeyToPath,
   IoK8sApiCoreV1Lifecycle |-> IoK8sApiCoreV1Lifecycle,
   IoK8sApiCoreV1LifecycleHandler |-> IoK8sApiCoreV1LifecycleHandler,
   IoK8sApiCoreV1LocalObjectReference |-> IoK8sApiCoreV1LocalObjectReference,
   IoK8sApiCoreV1ModifyVolumeStatus |-> IoK8sApiCoreV1ModifyVolumeStatus,
   IoK8sApiCoreV1NFSVolumeSource |-> IoK8sApiCoreV1NFSVolumeSource,
   IoK8sApiCoreV1NodeAffinity |-> IoK8sApiCoreV1NodeAffinity,
   IoK8sApiCoreV1NodeSelector |-> IoK8sApiCoreV1NodeSelector,
   IoK8sApiCoreV1NodeSelectorRequirement |-> IoK8sApiCoreV1NodeSelectorRequirement,
   IoK8sApiCoreV1NodeSelectorTerm |-> IoK8sApiCoreV1NodeSelectorTerm,
   IoK8sApiCoreV1ObjectFieldSelector |-> IoK8sApiCoreV1ObjectFieldSelector,
   IoK8sApiCoreV1PersistentVolumeClaim |-> IoK8sApiCoreV1PersistentVolumeClaim,
   IoK8sApiCoreV1PersistentVolumeClaimCondition |-> IoK8sApiCoreV1PersistentVolumeClaimCondition,
   IoK8sApiCoreV1PersistentVolumeClaimSpec |-> IoK8sApiCoreV1PersistentVolumeClaimSpec,
   IoK8sApiCoreV1PersistentVolumeClaimStatus |-> IoK8sApiCoreV1PersistentVolumeClaimStatus,
   IoK8sApiCoreV1PersistentVolumeClaimTemplate |-> IoK8sApiCoreV1PersistentVolumeClaimTemplate,
   IoK8sApiCoreV1PersistentVolumeClaimVolumeSource |-> IoK8sApiCoreV1PersistentVolumeClaimVolumeSource,
   IoK8sApiCoreV1PhotonPersistentDiskVolumeSource |-> IoK8sApiCoreV1PhotonPersistentDiskVolumeSource,
   IoK8sApiCoreV1PodAffinity |-> IoK8sApiCoreV1PodAffinity,
   IoK8sApiCoreV1PodAffinityTerm |-> IoK8sApiCoreV1PodAffinityTerm,
   IoK8sApiCoreV1PodAntiAffinity |-> IoK8sApiCoreV1PodAntiAffinity,
   IoK8sApiCoreV1PodCertificateProjection |-> IoK8sApiCoreV1PodCertificateProjection,
   IoK8sApiCoreV1PodDNSConfig |-> IoK8sApiCoreV1PodDNSConfig,
   IoK8sApiCoreV1PodDNSConfigOption |-> IoK8sApiCoreV1PodDNSConfigOption,
   IoK8sApiCoreV1PodOS |-> IoK8sApiCoreV1PodOS,
   IoK8sApiCoreV1PodReadinessGate |-> IoK8sApiCoreV1PodReadinessGate,
   IoK8sApiCoreV1PodResourceClaim |-> IoK8sApiCoreV1PodResourceClaim,
   IoK8sApiCoreV1PodSchedulingGate |-> IoK8sApiCoreV1PodSchedulingGate,
   IoK8sApiCoreV1PodSchedulingGroup |-> IoK8sApiCoreV1PodSchedulingGroup,
   IoK8sApiCoreV1PodSecurityContext |-> IoK8sApiCoreV1PodSecurityContext,
   IoK8sApiCoreV1PodSpec |-> IoK8sApiCoreV1PodSpec,
   IoK8sApiCoreV1PodTemplateSpec |-> IoK8sApiCoreV1PodTemplateSpec,
   IoK8sApiCoreV1PortworxVolumeSource |-> IoK8sApiCoreV1PortworxVolumeSource,
   IoK8sApiCoreV1PreferredSchedulingTerm |-> IoK8sApiCoreV1PreferredSchedulingTerm,
   IoK8sApiCoreV1Probe |-> IoK8sApiCoreV1Probe,
   IoK8sApiCoreV1ProjectedVolumeSource |-> IoK8sApiCoreV1ProjectedVolumeSource,
   IoK8sApiCoreV1QuobyteVolumeSource |-> IoK8sApiCoreV1QuobyteVolumeSource,
   IoK8sApiCoreV1RBDVolumeSource |-> IoK8sApiCoreV1RBDVolumeSource,
   IoK8sApiCoreV1ResourceClaim |-> IoK8sApiCoreV1ResourceClaim,
   IoK8sApiCoreV1ResourceFieldSelector |-> IoK8sApiCoreV1ResourceFieldSelector,
   IoK8sApiCoreV1ResourceRequirements |-> IoK8sApiCoreV1ResourceRequirements,
   IoK8sApiCoreV1ScaleIOVolumeSource |-> IoK8sApiCoreV1ScaleIOVolumeSource,
   IoK8sApiCoreV1SELinuxOptions |-> IoK8sApiCoreV1SELinuxOptions,
   IoK8sApiCoreV1SeccompProfile |-> IoK8sApiCoreV1SeccompProfile,
   IoK8sApiCoreV1SecretEnvSource |-> IoK8sApiCoreV1SecretEnvSource,
   IoK8sApiCoreV1SecretKeySelector |-> IoK8sApiCoreV1SecretKeySelector,
   IoK8sApiCoreV1SecretProjection |-> IoK8sApiCoreV1SecretProjection,
   IoK8sApiCoreV1SecretVolumeSource |-> IoK8sApiCoreV1SecretVolumeSource,
   IoK8sApiCoreV1SecurityContext |-> IoK8sApiCoreV1SecurityContext,
   IoK8sApiCoreV1ServiceAccountTokenProjection |-> IoK8sApiCoreV1ServiceAccountTokenProjection,
   IoK8sApiCoreV1SleepAction |-> IoK8sApiCoreV1SleepAction,
   IoK8sApiCoreV1StorageOSVolumeSource |-> IoK8sApiCoreV1StorageOSVolumeSource,
   IoK8sApiCoreV1Sysctl |-> IoK8sApiCoreV1Sysctl,
   IoK8sApiCoreV1TCPSocketAction |-> IoK8sApiCoreV1TCPSocketAction,
   IoK8sApiCoreV1Toleration |-> IoK8sApiCoreV1Toleration,
   IoK8sApiCoreV1TopologySpreadConstraint |-> IoK8sApiCoreV1TopologySpreadConstraint,
   IoK8sApiCoreV1TypedLocalObjectReference |-> IoK8sApiCoreV1TypedLocalObjectReference,
   IoK8sApiCoreV1TypedObjectReference |-> IoK8sApiCoreV1TypedObjectReference,
   IoK8sApiCoreV1Volume |-> IoK8sApiCoreV1Volume,
   IoK8sApiCoreV1VolumeDevice |-> IoK8sApiCoreV1VolumeDevice,
   IoK8sApiCoreV1VolumeHealthCondition |-> IoK8sApiCoreV1VolumeHealthCondition,
   IoK8sApiCoreV1VolumeHealthStatus |-> IoK8sApiCoreV1VolumeHealthStatus,
   IoK8sApiCoreV1VolumeMount |-> IoK8sApiCoreV1VolumeMount,
   IoK8sApiCoreV1VolumeProjection |-> IoK8sApiCoreV1VolumeProjection,
   IoK8sApiCoreV1VolumeResourceRequirements |-> IoK8sApiCoreV1VolumeResourceRequirements,
   IoK8sApiCoreV1VsphereVirtualDiskVolumeSource |-> IoK8sApiCoreV1VsphereVirtualDiskVolumeSource,
   IoK8sApiCoreV1WeightedPodAffinityTerm |-> IoK8sApiCoreV1WeightedPodAffinityTerm,
   IoK8sApiCoreV1WindowsSecurityContextOptions |-> IoK8sApiCoreV1WindowsSecurityContextOptions,
   IoK8sApiSchedulingV1alpha3TopologyConstraint |-> IoK8sApiSchedulingV1alpha3TopologyConstraint,
   IoK8sApiSchedulingV1alpha3WorkloadCompositePodGroupDisruptionMode |-> IoK8sApiSchedulingV1alpha3WorkloadCompositePodGroupDisruptionMode,
   IoK8sApiSchedulingV1alpha3WorkloadCompositePodGroupGangSchedulingPolicy |-> IoK8sApiSchedulingV1alpha3WorkloadCompositePodGroupGangSchedulingPolicy,
   IoK8sApiSchedulingV1alpha3WorkloadCompositePodGroupSchedulingConstraints |-> IoK8sApiSchedulingV1alpha3WorkloadCompositePodGroupSchedulingConstraints,
   IoK8sApiSchedulingV1alpha3WorkloadCompositePodGroupSchedulingPolicy |-> IoK8sApiSchedulingV1alpha3WorkloadCompositePodGroupSchedulingPolicy,
   IoK8sApiSchedulingV1alpha3WorkloadPodGroupDisruptionMode |-> IoK8sApiSchedulingV1alpha3WorkloadPodGroupDisruptionMode,
   IoK8sApiSchedulingV1alpha3WorkloadPodGroupGangSchedulingPolicy |-> IoK8sApiSchedulingV1alpha3WorkloadPodGroupGangSchedulingPolicy,
   IoK8sApiSchedulingV1alpha3WorkloadPodGroupResourceClaim |-> IoK8sApiSchedulingV1alpha3WorkloadPodGroupResourceClaim,
   IoK8sApiSchedulingV1alpha3WorkloadPodGroupSchedulingConstraints |-> IoK8sApiSchedulingV1alpha3WorkloadPodGroupSchedulingConstraints,
   IoK8sApiSchedulingV1alpha3WorkloadPodGroupSchedulingPolicy |-> IoK8sApiSchedulingV1alpha3WorkloadPodGroupSchedulingPolicy,
   IoK8sApimachineryPkgApisMetaV1Condition |-> IoK8sApimachineryPkgApisMetaV1Condition,
   IoK8sApimachineryPkgApisMetaV1LabelSelector |-> IoK8sApimachineryPkgApisMetaV1LabelSelector,
   IoK8sApimachineryPkgApisMetaV1LabelSelectorRequirement |-> IoK8sApimachineryPkgApisMetaV1LabelSelectorRequirement,
   IoK8sApimachineryPkgApisMetaV1ListMeta |-> IoK8sApimachineryPkgApisMetaV1ListMeta,
   IoK8sApimachineryPkgApisMetaV1ManagedFieldsEntry |-> IoK8sApimachineryPkgApisMetaV1ManagedFieldsEntry,
   IoK8sApimachineryPkgApisMetaV1ObjectMeta |-> IoK8sApimachineryPkgApisMetaV1ObjectMeta,
   IoK8sApimachineryPkgApisMetaV1OwnerReference |-> IoK8sApimachineryPkgApisMetaV1OwnerReference,
   IoK8sApimachineryPkgApisMetaV1ShardInfo |-> IoK8sApimachineryPkgApisMetaV1ShardInfo,
   JobsetV1alpha2Coordinator |-> JobsetV1alpha2Coordinator,
   JobsetV1alpha2DependsOn |-> JobsetV1alpha2DependsOn,
   JobsetV1alpha2FailurePolicy |-> JobsetV1alpha2FailurePolicy,
   JobsetV1alpha2FailurePolicyRule |-> JobsetV1alpha2FailurePolicyRule,
   JobsetV1alpha2JobScheduling |-> JobsetV1alpha2JobScheduling,
   JobsetV1alpha2JobSet |-> JobsetV1alpha2JobSet,
   JobsetV1alpha2JobSetList |-> JobsetV1alpha2JobSetList,
   JobsetV1alpha2JobSetScheduling |-> JobsetV1alpha2JobSetScheduling,
   JobsetV1alpha2JobSetSpec |-> JobsetV1alpha2JobSetSpec,
   JobsetV1alpha2JobSetStatus |-> JobsetV1alpha2JobSetStatus,
   JobsetV1alpha2Network |-> JobsetV1alpha2Network,
   JobsetV1alpha2ReplicatedJob |-> JobsetV1alpha2ReplicatedJob,
   JobsetV1alpha2ReplicatedJobScheduling |-> JobsetV1alpha2ReplicatedJobScheduling,
   JobsetV1alpha2ReplicatedJobStatus |-> JobsetV1alpha2ReplicatedJobStatus,
   JobsetV1alpha2StartupPolicy |-> JobsetV1alpha2StartupPolicy,
   JobsetV1alpha2SuccessPolicy |-> JobsetV1alpha2SuccessPolicy,
   JobsetV1alpha2VolumeClaimPolicy |-> JobsetV1alpha2VolumeClaimPolicy,
   JobsetV1alpha2VolumeRetentionPolicy |-> JobsetV1alpha2VolumeRetentionPolicy]

=============================================================================
