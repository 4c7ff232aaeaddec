--------------------------- MODULE JobSetPolicies ---------------------------
(***************************************************************************)
(* The decisions of the JobSet controller as operators on a JobSet object  *)
(* and on the child Jobs it was read with: the buckets of getChildJobs,    *)
(* the startup, dependency and success policies, the failure policy with   *)
(* its rules and actions, the active deadline, the execution attempts and  *)
(* the condition updates.  Nothing here has state: JobSetReconciler calls  *)
(* these operators on the copies its informers hold.                       *)
(***************************************************************************)
EXTENDS Integers, Sequences, FiniteSets, FiniteSetsExt

CONSTANTS
  Replicas,               \* Replicas[i]: replicas of the i-th spec.replicatedJobs entry
  DependsOn,              \* DependsOn[i]: set of [rjob, status] the i-th entry depends on
  StartupPolicyOrder,     \* spec.startupPolicy: "AnyOrder" or "InOrder"
  SuccessOperator,        \* spec.successPolicy.operator: "All" or "Any"
  SuccessTargets,         \* spec.successPolicy.targetReplicatedJobs (empty: all of them)
  HasFailurePolicy,       \* spec.failurePolicy # nil
  MaxRestarts,            \* spec.failurePolicy.maxRestarts
  RestartStrategy,        \* spec.failurePolicy.restartStrategy
  Rules,                  \* spec.failurePolicy.rules: sequence of [action, reasons, targets]
  FailureReasons,         \* the reasons (with messages) a Job can fail with
  ActiveDeadlineSeconds,  \* spec.activeDeadlineSeconds, Nil when unset
  Gates                   \* the feature gates that are enabled

Nil == -1                 \* a nil *int32 or *metav1.Time

RJobs == 1..Len(Replicas)

\* A child Job is named by its replicatedJob and its index (placement.GenJobName).
JobIds == UNION {{<<i, k>> : k \in 0..(Replicas[i] - 1)} : i \in RJobs}

GateNames == {"RestartJob", "ExecutionAttemptsTracking", "JobSetActiveDeadlineSeconds"}
Actions == {"FailJobSet", "RestartJobSet", "RestartJobSetAndIgnoreMaxRestarts",
            "RestartJob", "RestartJobAndIgnoreMaxRestarts"}

ASSUME ReplicasAssumption == Replicas \in Seq(Nat \ {0})
ASSUME DependsOnAssumption ==
  DependsOn \in [RJobs -> SUBSET [rjob : RJobs, status : {"Ready", "Complete"}]]
\* What admission asks of dependsOn: it names earlier entries, and is not used together
\* with an InOrder startup policy.
ASSUME AdmissionAssumption ==
  /\ \A i \in RJobs : \A d \in DependsOn[i] : d.rjob < i
  /\ StartupPolicyOrder = "InOrder" => \A i \in RJobs : DependsOn[i] = {}
ASSUME PolicyAssumption ==
  /\ StartupPolicyOrder \in {"AnyOrder", "InOrder"}
  /\ SuccessOperator \in {"All", "Any"}
  /\ SuccessTargets \subseteq RJobs
  /\ HasFailurePolicy \in BOOLEAN
  /\ MaxRestarts \in Nat
  /\ RestartStrategy \in {"Recreate", "BlockingRecreate"}
  /\ FailureReasons \subseteq STRING
  /\ Rules \in Seq([action : Actions, reasons : SUBSET FailureReasons, targets : SUBSET RJobs])
ASSUME DeadlineAssumption == ActiveDeadlineSeconds \in (Nat \ {0}) \cup {Nil}
ASSUME GatesAssumption == Gates \subseteq GateNames

-----------------------------------------------------------------------------
(***************************************************************************)
(* Objects.  A Job keeps the labels and the fields the controller reads:   *)
(* the restart-attempt and job-restart-attempt labels, the                 *)
(* execution-attempt annotation, spec.suspend, whether enough Pods are     *)
(* ready, its finished condition and its deletion timestamp.               *)
(***************************************************************************)
Job == [phase : {"absent", "active", "complete", "failed"},
        restarts : Nat, jobRestartAttempt : Nat, executionAttempt : Nat \cup {Nil},
        suspend : BOOLEAN, ready : BOOLEAN, deleting : BOOLEAN,
        reason : FailureReasons \cup {""}, failedAt : Nat]

NoJob == [phase |-> "absent", restarts |-> 0, jobRestartAttempt |-> 0,
          executionAttempt |-> Nil, suspend |-> FALSE, ready |-> FALSE,
          deleting |-> FALSE, reason |-> "", failedAt |-> 0]

ConditionTypes == {"Completed", "Failed", "Suspended", "Restarting",
                   "StartupPolicyInProgress", "StartupPolicyCompleted"}
FailedReasons == {"FailedJobs", "FailJobSetAction", "ReachedMaxRestarts", "DeadlineExceeded"}

JobSet == [suspend : BOOLEAN,
           restarts : Nat, restartsCountTowardsMax : Nat,
           jobRestarts : [JobIds -> Nat], jobRestartsCountTowardsMax : [JobIds -> Nat],
           executionAttempts : Nat \cup {Nil}, startTime : Nat \cup {Nil},
           conditions : [ConditionTypes -> {"None", "True", "False"}],
           failedReason : FailedReasons \cup {""}]

-----------------------------------------------------------------------------
(***************************************************************************)
(* Conditions.  A condition is added only when it becomes true, and        *)
(* setting one of the two startup conditions resets the other.             *)
(***************************************************************************)
exclusiveConditions(t, u) == {t, u} = {"StartupPolicyInProgress", "StartupPolicyCompleted"}

setCondition(o, type, status) ==
  [o EXCEPT !.conditions = [t \in ConditionTypes |->
     IF t = type
     THEN IF o.conditions[t] = "None" /\ status = "False" THEN "None" ELSE status
     ELSE IF exclusiveConditions(t, type) /\ o.conditions[t] = "True" /\ status = "True"
          THEN "False" ELSE o.conditions[t]]]

setJobSetCompletedCondition(o) ==
  setCondition(setCondition(o, "Completed", "True"), "Restarting", "False")

setJobSetFailedCondition(o, reason) ==
  [setCondition(setCondition(o, "Failed", "True"), "Restarting", "False")
     EXCEPT !.failedReason = reason]

jobSetFinished(o) == "True" \in {o.conditions["Completed"], o.conditions["Failed"]}

-----------------------------------------------------------------------------
(***************************************************************************)
(* getChildJobs and the counters of calculateReplicatedJobStatuses, for a  *)
(* JobSet o and its child Jobs J.  Jobs that are being deleted stay in     *)
(* their bucket, and a ready Job counts as ready even while suspended.     *)
(***************************************************************************)
Owned(J) == {j \in JobIds : J[j].phase # "absent"}

previous(o, J) ==
  {j \in Owned(J) : \/ J[j].restarts < o.restarts
                    \/ "RestartJob" \in Gates /\ J[j].jobRestartAttempt < o.jobRestarts[j]}

current(o, J, phase) == {j \in Owned(J) : J[j].phase = phase} \ previous(o, J)
active(o, J)     == current(o, J, "active")
failed(o, J)     == current(o, J, "failed")
successful(o, J) == current(o, J, "complete")

OfRJob(S, i) == {j \in S : j[1] = i}
Ready(o, J) == {j \in active(o, J) : J[j].ready}

allJobsReady(o, J) == Cardinality(Ready(o, J) \cup successful(o, J)) = Cardinality(JobIds)

allReplicasStarted(o, J, i) ==
  Cardinality(OfRJob(failed(o, J) \cup Ready(o, J) \cup successful(o, J), i)) = Replicas[i]

\* Mutant: a dependency on completion is taken as reached once its Jobs have started.
DependencyMutant(o, J, i) ==
  \A d \in DependsOn[i] :
    Cardinality(OfRJob(failed(o, J) \cup Ready(o, J) \cup successful(o, J), d.rjob))
      = Replicas[d.rjob]

\* The replicas of a dependency are known only once the loop over
\* spec.replicatedJobs has reached it; before that they read as zero.
dependencyReachedStatus(o, J, i) ==
  \A d \in DependsOn[i] :
    Cardinality(OfRJob(IF d.status = "Complete" THEN successful(o, J)
                       ELSE failed(o, J) \cup Ready(o, J) \cup successful(o, J), d.rjob))
      = IF d.rjob <= i THEN Replicas[d.rjob] ELSE 0

inOrderStartupPolicy == StartupPolicyOrder = "InOrder"

-----------------------------------------------------------------------------
(* Success policy. *)

replicatedJobMatchesSuccessPolicy(i) == SuccessTargets = {} \/ i \in SuccessTargets

numJobsExpectedToSucceed ==
  IF SuccessOperator = "Any" THEN 1
  ELSE Cardinality({j \in JobIds : replicatedJobMatchesSuccessPolicy(j[1])})

\* The test of executeSuccessPolicy, with the caller's check that some Job succeeded.
SuccessPolicyMet(o, J) ==
  /\ successful(o, J) # {}
  /\ Cardinality({j \in successful(o, J) : replicatedJobMatchesSuccessPolicy(j[1])})
       >= numJobsExpectedToSucceed

-----------------------------------------------------------------------------
(***************************************************************************)
(* Failure policy.  The first rule that applies to some failed Job is      *)
(* taken, with the Job it applies to that failed earliest; without one,    *)
(* RestartJobSet with the earliest failure.  Failure times have the        *)
(* resolution of metav1.Time, so several Jobs can be the earliest, and     *)
(* which of them is chosen depends on the order the cache lists them in.   *)
(***************************************************************************)
ruleIsApplicable(rule, J, j) ==
  /\ rule.reasons = {} \/ J[j].reason \in rule.reasons
  /\ rule.targets = {} \/ j[1] \in rule.targets

findFirstFailedJob(S, J) == {j \in S : \A k \in S : J[j].failedAt <= J[k].failedAt}

\* The possible results of findFirstFailedPolicyRuleAndJob, as action and Job.
findFirstFailedPolicyRuleAndJob(F, J) ==
  LET matching(r) == {j \in F : ruleIsApplicable(Rules[r], J, j)}
      first(r) == matching(r) # {} /\ \A q \in 1..(r - 1) : matching(q) = {}
  IN  {m \in [action : Actions, job : F] :
         \/ \E r \in DOMAIN Rules :
              /\ first(r)
              /\ m.action = Rules[r].action
              /\ m.job \in findFirstFailedJob(matching(r), J)
         \/ /\ \A r \in DOMAIN Rules : matching(r) = {}
            /\ m.action = "RestartJobSet"
            /\ m.job \in findFirstFailedJob(F, J)}

totalRestartsCountTowardsMax(o) ==
  o.restartsCountTowardsMax
    + MapThenSumSet(LAMBDA j : o.jobRestartsCountTowardsMax[j], JobIds)

\* Mutant: the restart budget is counted down from zero.
CountDownMutant(o, shouldCountTowardsMax) ==
  setCondition([o EXCEPT !.restarts = @ + 1, !.restartsCountTowardsMax = @ - 1],
               "Restarting", "True")

\* Mutant: a restart is not counted as an execution attempt.
UncountedAttemptMutant(o, shouldCountTowardsMax) ==
  setCondition(
    [o EXCEPT !.restarts = @ + 1,
              !.restartsCountTowardsMax = IF shouldCountTowardsMax THEN @ + 1 ELSE @],
    "Restarting", "True")

failurePolicyRecreateAll(o, shouldCountTowardsMax) ==
  setCondition(
    [o EXCEPT !.restarts = @ + 1,
              !.executionAttempts = IF "ExecutionAttemptsTracking" \notin Gates THEN @
                                    ELSE IF @ = Nil THEN o.restarts + 1 ELSE @ + 1,
              !.restartsCountTowardsMax = IF shouldCountTowardsMax THEN @ + 1 ELSE @],
    "Restarting", "True")

failurePolicyRecreateJob(o, j, shouldCountTowardsMax) ==
  [o EXCEPT !.jobRestarts[j] = @ + 1,
            !.jobRestartsCountTowardsMax[j] = IF shouldCountTowardsMax THEN @ + 1 ELSE @]

\* Mutant: one restart too many.
RestartJobSetMutant(o) ==
  IF o.restartsCountTowardsMax > MaxRestarts
  THEN setJobSetFailedCondition(o, "ReachedMaxRestarts")
  ELSE failurePolicyRecreateAll(o, TRUE)

restartJobSetActionApplier(o) ==
  IF \/ "RestartJob" \in Gates /\ totalRestartsCountTowardsMax(o) >= MaxRestarts
     \/ o.restartsCountTowardsMax >= MaxRestarts
  THEN setJobSetFailedCondition(o, "ReachedMaxRestarts")
  ELSE failurePolicyRecreateAll(o, TRUE)

\* Mutant: the restarts of single Jobs are left out of the sum.
RestartJobMutant(o, j) ==
  IF o.restartsCountTowardsMax >= MaxRestarts
  THEN setJobSetFailedCondition(o, "ReachedMaxRestarts")
  ELSE failurePolicyRecreateJob(o, j, TRUE)

restartJobActionApplier(o, j) ==
  IF totalRestartsCountTowardsMax(o) >= MaxRestarts
  THEN setJobSetFailedCondition(o, "ReachedMaxRestarts")
  ELSE failurePolicyRecreateJob(o, j, TRUE)

\* The actions on a single Job return an error while their feature gate is off.
ActionIsError(action) ==
  /\ HasFailurePolicy
  /\ action \in {"RestartJob", "RestartJobAndIgnoreMaxRestarts"}
  /\ "RestartJob" \notin Gates

executeFailurePolicy(o, m) ==
  CASE ~HasFailurePolicy -> setJobSetFailedCondition(o, "FailedJobs")
    [] HasFailurePolicy /\ m.action = "FailJobSet" ->
         setJobSetFailedCondition(o, "FailJobSetAction")
    [] HasFailurePolicy /\ m.action = "RestartJobSet" -> restartJobSetActionApplier(o)
    [] HasFailurePolicy /\ m.action = "RestartJobSetAndIgnoreMaxRestarts" ->
         failurePolicyRecreateAll(o, FALSE)
    [] HasFailurePolicy /\ m.action = "RestartJob" -> restartJobActionApplier(o, m.job)
    [] HasFailurePolicy /\ m.action = "RestartJobAndIgnoreMaxRestarts" ->
         failurePolicyRecreateJob(o, m.job, FALSE)

-----------------------------------------------------------------------------
(* Active deadline, at time t. *)

\* Mutant: the deadline runs on across a suspension.
NoClearMutant(o, t) ==
  [o EXCEPT !.startTime = IF "JobSetActiveDeadlineSeconds" \notin Gates THEN Nil
                          ELSE IF @ = Nil /\ ~o.suspend THEN t ELSE @]

syncActiveDeadlineStartTime(o, t) ==
  [o EXCEPT !.startTime = IF "JobSetActiveDeadlineSeconds" \notin Gates \/ o.suspend THEN Nil
                          ELSE IF @ = Nil THEN t ELSE @]

resetStartTimeOnGlobalRestart(o, restartsBefore, t) ==
  IF /\ "JobSetActiveDeadlineSeconds" \in Gates
     /\ o.restarts > restartsBefore
     /\ o.startTime # Nil
  THEN [o EXCEPT !.startTime = t] ELSE o

DeadlineArmed(o) ==
  /\ "JobSetActiveDeadlineSeconds" \in Gates
  /\ ActiveDeadlineSeconds # Nil
  /\ ~o.suspend
  /\ o.startTime # Nil

activeDeadlineRemaining(o, t) == o.startTime + ActiveDeadlineSeconds - t

DeadlineExpired(o, t) == DeadlineArmed(o) /\ activeDeadlineRemaining(o, t) <= 0

-----------------------------------------------------------------------------
(***************************************************************************)
(* Execution attempts.  The Suspended condition tells a resume from a      *)
(* normal reconcile, and the annotations of the child Jobs tell whether    *)
(* this resume has been counted already.                                   *)
(***************************************************************************)
previouslySuspended(o) == o.conditions["Suspended"] = "True"

shouldIncrement(o, J) ==
  LET finished == successful(o, J) \cup failed(o, J)
  IN  IF active(o, J) # {}
      THEN \A j \in active(o, J) : /\ J[j].suspend
                                   /\ J[j].executionAttempt # Nil
                                   /\ o.executionAttempts <= J[j].executionAttempt
      ELSE /\ finished # {}
           /\ \A j \in finished : \/ J[j].executionAttempt = Nil
                                  \/ o.executionAttempts <= J[j].executionAttempt

syncExecutionAttempts(o, J) ==
  [o EXCEPT !.executionAttempts =
     IF "ExecutionAttemptsTracking" \notin Gates \/ o.suspend THEN @
     ELSE IF @ = Nil
          THEN IF previouslySuspended(o) /\ o.restarts > 0 THEN o.restarts + 1 ELSE o.restarts
          ELSE IF previouslySuspended(o) /\ shouldIncrement(o, J) THEN @ + 1 ELSE @]

-----------------------------------------------------------------------------
(***************************************************************************)
(* reconcileReplicatedJobs, suspendJobs and resumeJobsIfNecessary.  Both   *)
(* loops over spec.replicatedJobs skip an entry whose dependency has not   *)
(* reached its status and, when starting in order, one that has started;   *)
(* when starting in order they stop at the first entry they do not skip.   *)
(***************************************************************************)
Unstarted(o, J) ==
  {i \in RJobs : /\ dependencyReachedStatus(o, J, i)
                 /\ ~(~o.suspend /\ inOrderStartupPolicy /\ allReplicasStarted(o, J, i))}

\* Mutant: the loops do not stop at the first replicatedJob that has not started.
NoStopMutant(o, J) == Unstarted(o, J)

Visited(o, J) ==
  LET U == Unstarted(o, J)
  IN  IF ~o.suspend /\ inOrderStartupPolicy THEN {i \in U : \A k \in U : i <= k} ELSE U

\* Mutant: Jobs are created before all those of the last attempt are gone.
NotBlockingMutant(o, J) == {j \in JobIds \ Owned(J) : j[1] \in Visited(o, J)}

constructJobsFromTemplate(o, J) ==
  LET V == Visited(o, J)
  IN  IF HasFailurePolicy /\ RestartStrategy = "BlockingRecreate" /\ previous(o, J) # {} THEN {}
      ELSE {j \in JobIds \ Owned(J) : j[1] \in V}

constructJob(o, j) ==
  [NoJob EXCEPT !.phase = "active",
                !.restarts = o.restarts,
                !.jobRestartAttempt = IF "RestartJob" \in Gates THEN o.jobRestarts[j] ELSE 0,
                !.executionAttempt = IF "ExecutionAttemptsTracking" \in Gates
                                     THEN o.executionAttempts ELSE Nil,
                !.suspend = o.suspend]

\* Mutant: a Job whose Pods are not ready is left alone.
OnlyReadyMutant(o, J) == {j \in active(o, J) : o.suspend /\ ~J[j].suspend /\ J[j].ready}

jobsToSuspend(o, J) == {j \in active(o, J) : o.suspend /\ ~J[j].suspend}

\* Mutant: Jobs are resumed only when the JobSet is recorded as suspended.
ResumeRecordedMutant(o, J) ==
  {j \in active(o, J) : /\ ~o.suspend /\ J[j].suspend /\ j[1] \in Visited(o, J)
                        /\ o.conditions["Suspended"] = "True"}

jobsToResume(o, J) ==
  LET V == Visited(o, J)
  IN  {j \in active(o, J) : ~o.suspend /\ J[j].suspend /\ j[1] \in V}

suspendJob(job) == [job EXCEPT !.suspend = TRUE]

resumeJob(o, job) ==
  [job EXCEPT !.suspend = FALSE,
              !.executionAttempt = IF "ExecutionAttemptsTracking" \notin Gates THEN @
                                   ELSE IF o.executionAttempts = Nil THEN 0
                                   ELSE o.executionAttempts]

\* The conditions set at the end of the two loops.
startupConditions(o, J) ==
  IF o.suspend
  THEN setCondition(setCondition(o, "Suspended", "True"), "Restarting", "False")
  ELSE IF ~inOrderStartupPolicy THEN setCondition(o, "Suspended", "False")
  ELSE IF Unstarted(o, J) # {} THEN setCondition(o, "StartupPolicyInProgress", "True")
  ELSE setCondition(setCondition(o, "StartupPolicyCompleted", "True"), "Suspended", "False")

=============================================================================
