----------------------- MODULE JobSetReconcilerProofs -----------------------
(***************************************************************************)
(* Proofs about the reconcile loop, for every JobSet spec, every set of    *)
(* feature gates and every bound: the types; that a reconcile writes over  *)
(* the JobSet only from a current copy, and so never undoes a terminal     *)
(* state; that the counters of the status stay consistent; what the        *)
(* policies write of the counters of single Jobs and of the start time;    *)
(* and that it deletes only Jobs it found obsolete, though its cache lags. *)
(***************************************************************************)
EXTENDS JobSetReconciler, TLAPS

-----------------------------------------------------------------------------
(* What the operators on a JobSet return. *)

Statuses == {"None", "True", "False"}

\* The fields of a JobSet have their types.
LEMMA Fields ==
  ASSUME NEW o \in JobSet
  PROVE  /\ o.restarts \in Nat /\ o.restartsCountTowardsMax \in Nat
         /\ o.executionAttempts \in Nat \cup {Nil} /\ o.startTime \in Nat \cup {Nil}
         /\ o.jobRestarts \in [JobIds -> Nat]
         /\ o.jobRestartsCountTowardsMax \in [JobIds -> Nat]
         /\ o.conditions \in [ConditionTypes -> Statuses]
         /\ o.suspend \in BOOLEAN
BY Zenon DEF JobSet, Statuses

\* The successor of an attempt that is set.
LEMMA Successor ==
  ASSUME NEW e \in Nat \cup {Nil}, e # Nil PROVE e + 1 \in Nat
BY DEF Nil

\* The order of counters.
LEMMA Order ==
  ASSUME NEW a \in Nat, NEW b \in Nat
  PROVE  /\ a <= a /\ a <= a + 1
         /\ \A c \in Nat : c < a /\ a <= b => c < b
OBVIOUS

\* Replacing the conditions of a JobSet leaves the rest as it is.
LEMMA ConditionsType ==
  ASSUME NEW o \in JobSet, NEW c \in [ConditionTypes -> Statuses]
  PROVE  [o EXCEPT !.conditions = c] \in JobSet
BY Zenon DEF JobSet, Statuses

\* setCondition, and with it updateCondition, returns a JobSet.
LEMMA SetConditionType ==
  ASSUME NEW o \in JobSet, NEW type \in ConditionTypes, NEW status \in {"True", "False"}
  PROVE  setCondition(o, type, status) \in JobSet
<1> DEFINE c == [t \in ConditionTypes |->
     IF t = type
     THEN IF o.conditions[t] = "None" /\ status = "False" THEN "None" ELSE status
     ELSE IF exclusiveConditions(t, type) /\ o.conditions[t] = "True" /\ status = "True"
          THEN "False" ELSE o.conditions[t]]
<1>1. o.conditions \in [ConditionTypes -> Statuses]
  BY Zenon DEF JobSet, Statuses
<1>2. c \in [ConditionTypes -> Statuses]
  BY <1>1 DEF Statuses
<1>3. setCondition(o, type, status) = [o EXCEPT !.conditions = c]
  BY DEF setCondition
<1> HIDE DEF c
<1> QED
  BY <1>2, <1>3, ConditionsType

\* setJobSetCompletedCondition returns a JobSet.
LEMMA CompletedType ==
  ASSUME NEW o \in JobSet PROVE setJobSetCompletedCondition(o) \in JobSet
BY SetConditionType DEF setJobSetCompletedCondition, ConditionTypes

\* setJobSetFailedCondition returns a JobSet.
LEMMA FailedType ==
  ASSUME NEW o \in JobSet, NEW r \in FailedReasons
  PROVE  setJobSetFailedCondition(o, r) \in JobSet
<1> DEFINE u == setCondition(setCondition(o, "Failed", "True"), "Restarting", "False")
<1>1. u \in JobSet
  BY SetConditionType DEF ConditionTypes
<1>2. setJobSetFailedCondition(o, r) = [u EXCEPT !.failedReason = r]
  BY DEF setJobSetFailedCondition
<1> HIDE DEF u
<1> QED
  BY Zenon, <1>1, <1>2 DEF JobSet

\* Counting a restart of the whole JobSet.
LEMMA CountRestartType ==
  ASSUME NEW o \in JobSet, NEW n \in Nat, NEW e \in Nat \cup {Nil}, NEW c \in Nat
  PROVE  [o EXCEPT !.restarts = n, !.executionAttempts = e, !.restartsCountTowardsMax = c]
           \in JobSet
BY Zenon DEF JobSet

\* failurePolicyRecreateAll returns a JobSet.
LEMMA RecreateAllType ==
  ASSUME NEW o \in JobSet, NEW b \in BOOLEAN
  PROVE  failurePolicyRecreateAll(o, b) \in JobSet
<1> DEFINE n == o.restarts + 1
           e == IF "ExecutionAttemptsTracking" \notin Gates THEN o.executionAttempts
                ELSE IF o.executionAttempts = Nil THEN o.restarts + 1 ELSE o.executionAttempts + 1
           c == IF b THEN o.restartsCountTowardsMax + 1 ELSE o.restartsCountTowardsMax
           u == [o EXCEPT !.restarts = n, !.executionAttempts = e, !.restartsCountTowardsMax = c]
<1>1. n \in Nat /\ e \in Nat \cup {Nil} /\ c \in Nat
  <2>1. o.restarts + 1 \in Nat /\ o.restartsCountTowardsMax + 1 \in Nat
    BY Fields
  <2>2. o.executionAttempts # Nil => o.executionAttempts + 1 \in Nat
    BY Fields, Successor
  <2> QED
    BY <2>1, <2>2, Fields
<1>2. failurePolicyRecreateAll(o, b) = setCondition(u, "Restarting", "True")
  BY SMTT(30) DEF failurePolicyRecreateAll
<1> HIDE DEF n, e, c
<1>3. u \in JobSet
  BY Zenon, <1>1, CountRestartType
<1> HIDE DEF u
<1> QED
  BY <1>2, <1>3, SetConditionType DEF ConditionTypes

\* Counting a restart of one Job.
LEMMA CountJobRestartType ==
  ASSUME NEW o \in JobSet, NEW f \in [JobIds -> Nat], NEW g \in [JobIds -> Nat]
  PROVE  [o EXCEPT !.jobRestarts = f, !.jobRestartsCountTowardsMax = g] \in JobSet
BY Zenon DEF JobSet

\* failurePolicyRecreateJob returns a JobSet.
LEMMA RecreateJobType ==
  ASSUME NEW o \in JobSet, NEW j \in JobIds, NEW b \in BOOLEAN
  PROVE  failurePolicyRecreateJob(o, j, b) \in JobSet
<1> DEFINE f == [o.jobRestarts EXCEPT ![j] = @ + 1]
           g == [o.jobRestartsCountTowardsMax EXCEPT ![j] = IF b THEN @ + 1 ELSE @]
<1>1. f \in [JobIds -> Nat] /\ g \in [JobIds -> Nat]
  <2> DEFINE h == o.jobRestarts
             k == o.jobRestartsCountTowardsMax
  <2>1. h \in [JobIds -> Nat] /\ k \in [JobIds -> Nat]
    BY Fields
  <2> HIDE DEF h, k
  <2>2. [h EXCEPT ![j] = @ + 1] \in [JobIds -> Nat]
    BY <2>1
  <2>3. [k EXCEPT ![j] = IF b THEN @ + 1 ELSE @] \in [JobIds -> Nat]
    BY <2>1
  <2> QED
    BY <2>2, <2>3 DEF h, k
<1>2. failurePolicyRecreateJob(o, j, b)
        = [o EXCEPT !.jobRestarts = f, !.jobRestartsCountTowardsMax = g]
  BY ZenonT(30) DEF failurePolicyRecreateJob, JobSet
<1> HIDE DEF f, g
<1>3. [o EXCEPT !.jobRestarts = f, !.jobRestartsCountTowardsMax = g] \in JobSet
  BY Zenon, <1>1, CountJobRestartType
<1> QED
  BY Zenon, <1>2, <1>3

\* executeFailurePolicy returns a JobSet, whichever rule and Job were found.
LEMMA FailurePolicyType ==
  ASSUME NEW o \in JobSet, NEW m \in [action : Actions, job : JobIds]
  PROVE  executeFailurePolicy(o, m) \in JobSet
<1>1. restartJobSetActionApplier(o) \in JobSet
  BY Zenon, FailedType, RecreateAllType DEF restartJobSetActionApplier, FailedReasons
<1>2. restartJobActionApplier(o, m.job) \in JobSet
  BY Zenon, FailedType, RecreateJobType DEF restartJobActionApplier, FailedReasons
<1>3. failurePolicyRecreateAll(o, FALSE) \in JobSet
  BY Zenon, RecreateAllType
<1>4. failurePolicyRecreateJob(o, m.job, FALSE) \in JobSet
  BY Zenon, RecreateJobType
<1>5. /\ setJobSetFailedCondition(o, "FailedJobs") \in JobSet
      /\ setJobSetFailedCondition(o, "FailJobSetAction") \in JobSet
  BY FailedType DEF FailedReasons
<1>6. m.action \in Actions /\ HasFailurePolicy \in BOOLEAN
  BY PolicyAssumption
<1> QED
  BY Zenon, <1>1, <1>2, <1>3, <1>4, <1>5, <1>6 DEF executeFailurePolicy, Actions

\* The operators that change only startTime or executionAttempts.
LEMMA SyncType ==
  ASSUME NEW o \in JobSet, NEW t \in Nat, NEW n \in Nat, NEW J
  PROVE  /\ syncActiveDeadlineStartTime(o, t) \in JobSet
         /\ resetStartTimeOnGlobalRestart(o, n, t) \in JobSet
         /\ syncExecutionAttempts(o, J) \in JobSet
<1>1. ASSUME NEW v \in Nat \cup {Nil}
      PROVE  [o EXCEPT !.startTime = v] \in JobSet /\ [o EXCEPT !.executionAttempts = v] \in JobSet
  BY Zenon, <1>1 DEF JobSet
<1>2. syncActiveDeadlineStartTime(o, t) \in JobSet
  <2> DEFINE v == IF "JobSetActiveDeadlineSeconds" \notin Gates \/ o.suspend THEN Nil
                  ELSE IF o.startTime = Nil THEN t ELSE o.startTime
  <2>1. v \in Nat \cup {Nil}
    BY Zenon DEF JobSet
  <2>2. syncActiveDeadlineStartTime(o, t) = [o EXCEPT !.startTime = v]
    BY DEF syncActiveDeadlineStartTime
  <2> HIDE DEF v
  <2> QED
    BY Zenon, <2>1, <2>2, <1>1
<1>3. resetStartTimeOnGlobalRestart(o, n, t) \in JobSet
  BY Zenon, <1>1 DEF resetStartTimeOnGlobalRestart
<1>4. syncExecutionAttempts(o, J) \in JobSet
  <2> DEFINE e == o.executionAttempts
             v == IF "ExecutionAttemptsTracking" \notin Gates \/ o.suspend THEN e
                  ELSE IF e = Nil
                       THEN IF previouslySuspended(o) /\ o.restarts > 0
                            THEN o.restarts + 1 ELSE o.restarts
                       ELSE IF previouslySuspended(o) /\ shouldIncrement(o, J) THEN e + 1 ELSE e
  <2>1. v \in Nat \cup {Nil}
    <3>1. o.restarts + 1 \in Nat
      BY Fields
    <3>2. e # Nil => e + 1 \in Nat
      BY Fields, Successor
    <3> QED
      BY <3>1, <3>2, Fields
  <2>2. syncExecutionAttempts(o, J) = [o EXCEPT !.executionAttempts = v]
    BY DEF syncExecutionAttempts
  <2> HIDE DEF v
  <2> QED
    BY Zenon, <2>1, <2>2, <1>1
<1> QED
  BY <1>2, <1>3, <1>4

\* The conditions set by suspendJobs, resumeJobsIfNecessary and the startup policy.
LEMMA StartupConditionsType ==
  ASSUME NEW o \in JobSet, NEW J PROVE startupConditions(o, J) \in JobSet
BY SetConditionType DEF startupConditions, ConditionTypes

\* A JobSet a user may create.
LEMMA InitialJobSetType ==
  ASSUME NEW b \in BOOLEAN PROVE InitialJobSet(b) \in JobSet
BY DEF InitialJobSet, JobSet

-----------------------------------------------------------------------------
(* What the operators on Jobs return. *)

\* The absent Job is a Job.
LEMMA NoJobType == NoJob \in Job
BY DEF NoJob, Job

\* Changes of one field of a Job.
LEMMA JobFieldType ==
  ASSUME NEW job \in Job, NEW b \in BOOLEAN
  PROVE  /\ [job EXCEPT !.suspend = b] \in Job
         /\ [job EXCEPT !.ready = b] \in Job
         /\ [job EXCEPT !.deleting = b] \in Job
BY Zenon DEF Job

\* A resumed Job carries an execution attempt.
LEMMA ResumeType ==
  ASSUME NEW o \in JobSet, NEW job \in Job PROVE resumeJob(o, job) \in Job
<1> DEFINE e == IF "ExecutionAttemptsTracking" \notin Gates THEN job.executionAttempt
                ELSE IF o.executionAttempts = Nil THEN 0 ELSE o.executionAttempts
<1>1. e \in Nat \cup {Nil}
  BY Zenon, Fields DEF Job
<1>2. resumeJob(o, job) = [job EXCEPT !.suspend = FALSE, !.executionAttempt = e]
  BY DEF resumeJob
<1> HIDE DEF e
<1>3. [job EXCEPT !.suspend = FALSE, !.executionAttempt = e] \in Job
  BY Zenon, <1>1 DEF Job
<1> QED
  BY Zenon, <1>2, <1>3

\* The fields constructJob fills in.
LEMMA NewJobType ==
  ASSUME NEW n \in Nat, NEW k \in Nat, NEW e \in Nat \cup {Nil}, NEW b \in BOOLEAN
  PROVE  [NoJob EXCEPT !.phase = "active", !.restarts = n, !.jobRestartAttempt = k,
                       !.executionAttempt = e, !.suspend = b] \in Job
BY Zenon DEF NoJob, Job

\* constructJob returns a Job.
LEMMA ConstructType ==
  ASSUME NEW o \in JobSet, NEW j \in JobIds PROVE constructJob(o, j) \in Job
<1> DEFINE n == o.restarts
           k == IF "RestartJob" \in Gates THEN o.jobRestarts[j] ELSE 0
           e == IF "ExecutionAttemptsTracking" \in Gates THEN o.executionAttempts ELSE Nil
           b == o.suspend
<1>1. n \in Nat /\ k \in Nat /\ e \in Nat \cup {Nil} /\ b \in BOOLEAN
  BY Fields
<1>2. constructJob(o, j) = [NoJob EXCEPT !.phase = "active", !.restarts = n,
        !.jobRestartAttempt = k, !.executionAttempt = e, !.suspend = b]
  BY SMTT(30) DEF constructJob
<1> HIDE DEF n, k, e, b
<1>3. [NoJob EXCEPT !.phase = "active", !.restarts = n, !.jobRestartAttempt = k,
                    !.executionAttempt = e, !.suspend = b] \in Job
  BY Zenon, <1>1, NewJobType
<1> QED
  BY Zenon, <1>2, <1>3

\* deleteJobs leaves Jobs.
LEMMA MarkType ==
  ASSUME NEW J \in [JobIds -> Job], NEW D PROVE MarkDeleted(J, D) \in [JobIds -> Job]
<1>1. ASSUME NEW j \in JobIds PROVE [J[j] EXCEPT !.deleting = TRUE] \in Job
  BY Zenon, JobFieldType
<1> QED
  BY <1>1 DEF MarkDeleted

-----------------------------------------------------------------------------
(* The types. *)

\* What a reconcile changes.
WrittenType ==
  /\ js \in JobSet /\ jobs \in [JobIds -> Job]
  /\ jsPending \in BOOLEAN /\ jobsPending \in BOOLEAN
  /\ queued \in BOOLEAN /\ wakeAt \in Nat \cup {Nil}

\* A write of Jobs keeps their type.
LEMMA WriteJobsType ==
  ASSUME TypeOK, NEW J \in [JobIds -> Job], WriteJobs(J)
  PROVE  jobs' \in [JobIds -> Job] /\ jobsPending' \in BOOLEAN
BY DEF TypeOK, WriteJobs

\* A write of the JobSet keeps its type.
LEMMA WriteJobSetType ==
  ASSUME TypeOK, NEW o \in JobSet, WriteJobSet(o)
  PROVE  js' \in JobSet /\ jsPending' \in BOOLEAN
BY DEF TypeOK, WriteJobSet

\* The status update at the end of a reconcile keeps the types.
LEMMA UpdateType ==
  ASSUME TypeOK, NEW base \in JobSet, NEW o \in JobSet, NEW fails \in BOOLEAN,
         updateJobSetStatus(base, o, fails)
  PROVE  js' \in JobSet /\ jsPending' \in BOOLEAN /\ queued' \in BOOLEAN
<1> DEFINE w == IF base # o /\ js = jsCache /\ ~fails THEN o ELSE Written(base)
<1>1. w \in JobSet
  BY DEF Written, TypeOK
<1>2. WriteJobSet(w) /\ queued' \in BOOLEAN
  BY DEF updateJobSetStatus
<1> HIDE DEF w
<1> QED
  BY <1>1, <1>2, WriteJobSetType

\* An error leaves the JobSet and puts it back in the queue.
LEMMA ErrorType ==
  ASSUME TypeOK, ReturnError
  PROVE  js' \in JobSet /\ jsPending' \in BOOLEAN /\ queued' \in BOOLEAN /\ wakeAt' \in Nat \cup {Nil}
BY DEF TypeOK, ReturnError

\* The JobSet as the policies see it.
LEMMA PreparedType ==
  ASSUME TypeOK PROVE Prepared \in JobSet /\ now \in Nat
<1> DEFINE o == IF ~jsCache.suspend /\ allJobsReady(jsCache, jobsCache)
                THEN setCondition(jsCache, "Restarting", "False") ELSE jsCache
<1>1. jsCache \in JobSet /\ now \in Nat
  BY DEF TypeOK
<1>2. o \in JobSet
  BY <1>1, SetConditionType DEF ConditionTypes
<1>3. Prepared = syncActiveDeadlineStartTime(o, now)
  BY DEF Prepared
<1> HIDE DEF o
<1> QED
  BY <1>1, <1>2, <1>3, SyncType

\* The requeue at the deadline is a time.
LEMMA RequeueType ==
  ASSUME TypeOK, NEW o \in JobSet, DeadlineArmed(o),
         RequeueAfter(now + activeDeadlineRemaining(o, now))
  PROVE  wakeAt' \in Nat \cup {Nil}
<1>1. o.startTime \in Nat /\ ActiveDeadlineSeconds \in Nat
  BY Fields, DeadlineAssumption DEF DeadlineArmed
<1>2. now + activeDeadlineRemaining(o, now) \in Nat
  BY <1>1 DEF activeDeadlineRemaining, TypeOK
<1> QED
  BY <1>2 DEF RequeueAfter, TypeOK

\* Creating, suspending and resuming Jobs keeps the types.
LEMMA StartJobsType ==
  ASSUME TypeOK, NEW base \in JobSet, NEW o \in JobSet, StartJobs(base, o, TRUE)
  PROVE  WrittenType'
<1> DEFINE create == constructJobsFromTemplate(o, jobsCache)
           update == jobsToSuspend(o, jobsCache) \cup jobsToResume(o, jobsCache)
           created(F) == Sequenced(create, {j \in create \ F : jobs[j].phase = "absent"})
           fresh(F) == {j \in update \ F : jobs[j] = jobsCache[j]}
           updated(F) == IF created(F) # create THEN {}
                         ELSE IF o.suspend THEN fresh(F) ELSE Sequenced(update, fresh(F))
           J(F) == [j \in JobIds |->
                 IF j \in created(F) THEN constructJob(o, j)
                 ELSE IF j \in updated(F)
                      THEN IF o.suspend THEN suspendJob(jobs[j]) ELSE resumeJob(o, jobs[j])
                      ELSE MarkDeleted(jobs, Previous)[j]]
<1>1. PICK F \in Failing(create \cup update, TRUE), fails \in Fails(TRUE) :
        /\ WriteJobs(J(F))
        /\ IF created(F) = create /\ updated(F) = update
           THEN updateJobSetStatus(base, startupConditions(o, jobsCache), fails)
           ELSE WriteJobSet(Written(base)) /\ queued' = TRUE
        /\ IF DeadlineArmed(o) /\ ~queued'
           THEN RequeueAfter(now + activeDeadlineRemaining(o, now))
           ELSE UNCHANGED wakeAt
  BY Zenon DEF StartJobs
<1>2. J(F) \in [JobIds -> Job]
  <2>1. ASSUME NEW j \in JobIds
        PROVE  /\ constructJob(o, j) \in Job /\ suspendJob(jobs[j]) \in Job
               /\ resumeJob(o, jobs[j]) \in Job /\ MarkDeleted(jobs, Previous)[j] \in Job
    <3>1. jobs \in [JobIds -> Job] /\ jobs[j] \in Job
      BY DEF TypeOK
    <3> QED
      BY Zenon, <3>1, ConstructType, JobFieldType, ResumeType, MarkType DEF suspendJob
  <2> HIDE DEF created, updated
  <2> QED
    BY <2>1
<1>3. Written(base) \in JobSet /\ startupConditions(o, jobsCache) \in JobSet
  BY StartupConditionsType DEF Written, TypeOK
<1> HIDE DEF J, created, updated, create, update
<1>4. jobs' \in [JobIds -> Job] /\ jobsPending' \in BOOLEAN
  BY <1>1, <1>2, WriteJobsType
<1>5. js' \in JobSet /\ jsPending' \in BOOLEAN /\ queued' \in BOOLEAN
  BY Zenon, <1>1, <1>3, UpdateType, WriteJobSetType DEF Fails
<1>6. wakeAt' \in Nat \cup {Nil}
  BY <1>1, RequeueType DEF TypeOK
<1> QED
  BY <1>4, <1>5, <1>6 DEF WrittenType

\* Every branch of reconcile keeps the types.
LEMMA ReconcileType ==
  ASSUME TypeOK, Reconcile(TRUE) PROVE WrittenType'
<1> USE DEF Fails
<1>1. jsCache \in JobSet /\ js \in JobSet /\ wakeAt \in Nat \cup {Nil} /\ Prepared \in JobSet
  BY PreparedType DEF TypeOK
<1>2. ASSUME NEW D, WriteJobs(MarkDeleted(jobs, D))
      PROVE  jobs' \in [JobIds -> Job] /\ jobsPending' \in BOOLEAN
  BY <1>2, MarkType, WriteJobsType DEF TypeOK
<1>3. CASE ReconcileFinished(TRUE)
  <2>1. jobs' \in [JobIds -> Job] /\ jobsPending' \in BOOLEAN
    BY <1>2, <1>3 DEF ReconcileFinished
  <2>2. queued' \in BOOLEAN /\ UNCHANGED <<js, jsPending, wakeAt>>
    BY <1>3 DEF ReconcileFinished
  <2> QED
    BY <2>1, <2>2 DEF WrittenType, TypeOK
<1>4. CASE ReconcileDeleteError(TRUE)
  <2>1. jobs' \in [JobIds -> Job] /\ jobsPending' \in BOOLEAN
    BY <1>2, <1>4 DEF ReconcileDeleteError
  <2> QED
    BY <1>4, <2>1, ErrorType DEF ReconcileDeleteError, WrittenType
<1>5. CASE failJobSetOnActiveDeadline(TRUE)
  <2> DEFINE o == setJobSetFailedCondition(Prepared, "DeadlineExceeded")
             A == deleteJobs(active(jsCache, jobsCache))
  <2>1. o \in JobSet
    BY <1>1, FailedType DEF FailedReasons
  <2>2. PICK F \in Failing(A, TRUE), fails \in BOOLEAN :
          /\ WriteJobs(MarkDeleted(jobs, Previous \cup (A \ F)))
          /\ IF F # {} THEN ReturnError
             ELSE updateJobSetStatus(jsCache, o, fails) /\ UNCHANGED wakeAt
    BY Zenon, <1>5 DEF failJobSetOnActiveDeadline
  <2> HIDE DEF o, A
  <2>3. jobs' \in [JobIds -> Job] /\ jobsPending' \in BOOLEAN
    BY <1>2, <2>2
  <2> QED
    BY <1>1, <2>1, <2>2, <2>3, ErrorType, UpdateType DEF WrittenType
<1>6. CASE ReconcileFailed(TRUE)
  <2> DEFINE F == failed(jsCache, jobsCache)
             o(m) == resetStartTimeOnGlobalRestart(executeFailurePolicy(Prepared, m),
                                                   Prepared.restarts, now)
  <2>1. PICK m \in findFirstFailedPolicyRuleAndJob(F, jobsCache), fails \in BOOLEAN :
          IF ActionIsError(m.action) THEN ReturnError
          ELSE updateJobSetStatus(jsCache, o(m), fails) /\ UNCHANGED wakeAt
    BY <1>6 DEF ReconcileFailed
  <2>2. m \in [action : Actions, job : JobIds]
    BY DEF findFirstFailedPolicyRuleAndJob, failed, current, Owned
  <2>3. o(m) \in JobSet
    BY Zenon, <1>1, <2>2, PreparedType, Fields, FailurePolicyType, SyncType
  <2>4. jobs' \in [JobIds -> Job] /\ jobsPending' \in BOOLEAN
    BY <1>2, <1>6 DEF ReconcileFailed
  <2> HIDE DEF o
  <2> QED
    BY <1>1, <2>1, <2>3, <2>4, ErrorType, UpdateType DEF WrittenType
<1>7. CASE ReconcileSucceeded(TRUE)
  <2>1. setJobSetCompletedCondition(Prepared) \in JobSet
    BY <1>1, CompletedType
  <2>2. jobs' \in [JobIds -> Job] /\ jobsPending' \in BOOLEAN
    BY <1>2, <1>7 DEF ReconcileSucceeded
  <2> QED
    BY <1>1, <1>7, <2>1, <2>2, UpdateType DEF ReconcileSucceeded, WrittenType
<1>8. CASE ReconcileReplicatedJobs(TRUE)
  <2> DEFINE o == syncExecutionAttempts(Prepared, jobsCache)
  <2>1. o \in JobSet
    BY <1>1, SyncType
  <2>2. \/ WriteJobs(MarkDeleted(jobs, Previous)) /\ ReturnError
        \/ StartJobs(o, o, TRUE)
        \/ StartJobs(jsCache, o, TRUE)
    BY Zenon, <1>8 DEF ReconcileReplicatedJobs
  <2> HIDE DEF o
  <2> QED
    BY Zenon, <1>1, <1>2, <2>1, <2>2, ErrorType, StartJobsType DEF WrittenType
<1> QED
  BY Zenon, <1>3, <1>4, <1>5, <1>6, <1>7, <1>8 DEF Reconcile

\* What the Job controller and users do to a Job keeps the types.
LEMMA JobStepType ==
  ASSUME TypeOK, NEW j \in JobIds, JobController(j) \/ UserDeletesJob(j)
  PROVE  TypeOK'
<1>1. jobs \in [JobIds -> Job] /\ jobs[j] \in Job /\ now \in Nat
  BY DEF TypeOK
<1>2. ASSUME NEW job \in Job, SetJob(j, job), failures' \in Nat, deletions' \in Nat PROVE TypeOK'
  <2>1. [jobs EXCEPT ![j] = job] \in [JobIds -> Job]
    BY <1>1
  <2>2. jobs' \in [JobIds -> Job] /\ jobsPending' \in BOOLEAN
    BY Zenon, <1>2, <2>1, WriteJobsType DEF SetJob
  <2> QED
    BY <1>2, <2>2 DEF SetJob, TypeOK, cacheVars
<1>3. /\ failures \in Nat /\ deletions \in Nat
      /\ failures + 1 \in Nat /\ deletions + 1 \in Nat
  BY DEF TypeOK
<1>4. CASE JobReady(j)
  BY Zenon, <1>1, <1>2, <1>3, <1>4, JobFieldType DEF JobReady
<1>5. CASE JobStopped(j)
  BY Zenon, <1>1, <1>2, <1>3, <1>5, JobFieldType DEF JobStopped
<1>6. CASE JobUnready(j)
  BY Zenon, <1>1, <1>2, <1>3, <1>6, JobFieldType DEF JobUnready
<1>7. CASE JobComplete(j)
  <2>1. [jobs[j] EXCEPT !.phase = "complete", !.ready = FALSE] \in Job
    BY Zenon, <1>1 DEF Job
  <2> QED
    BY <1>2, <1>3, <1>7, <2>1 DEF JobComplete
<1>8. CASE JobFail(j)
  <2>1. PICK r \in FailureReasons : SetJob(j, [jobs[j] EXCEPT !.phase = "failed",
          !.ready = FALSE, !.reason = r, !.failedAt = now])
    BY Zenon, <1>8 DEF JobFail
  <2>2. [jobs[j] EXCEPT !.phase = "failed", !.ready = FALSE, !.reason = r, !.failedAt = now] \in Job
    BY Zenon, <1>1 DEF Job
  <2> QED
    BY SMTT(30), <1>2, <1>3, <1>8, <2>1, <2>2 DEF JobFail
<1>9. CASE JobRemoved(j)
  BY <1>2, <1>3, <1>9, NoJobType DEF JobRemoved
<1>10. CASE UserDeletesJob(j)
  BY Zenon, <1>1, <1>2, <1>3, <1>10, JobFieldType DEF UserDeletesJob
<1> QED
  BY <1>4, <1>5, <1>6, <1>7, <1>8, <1>9, <1>10 DEF JobController

\* Every step keeps the types.
LEMMA NextType ==
  ASSUME TypeOK, [Next]_vars PROVE TypeOK'
<1>1. CASE Reconcile(TRUE)
  BY Zenon, <1>1, ReconcileType DEF Reconcile, WrittenType, TypeOK, cacheVars, envVars
<1>2. CASE SyncJobSet
  BY Zenon, <1>2 DEF SyncJobSet, Enqueue, TypeOK, envVars
<1>3. CASE DelayJobs
  BY <1>3 DEF DelayJobs, TypeOK, apiVars, envVars
<1>4. CASE SyncJobs
  <2>1. jobsPending' \in BOOLEAN /\ queued' \in BOOLEAN /\ wakeAt' \in Nat \cup {Nil}
    BY Zenon, <1>4 DEF SyncJobs, Enqueue
  <2>2. jobsCache' \in [JobIds -> Job] /\ jobsEvents' \in Seq([JobIds -> Job])
    <3> DEFINE S == [JobIds -> Job]
    <3>1. jobs \in S /\ jobsEvents \in Seq(S)
      BY DEF TypeOK
    <3> HIDE DEF S
    <3>2. jobsCache' \in S /\ jobsEvents' \in Seq(S)
      BY <1>4, <3>1 DEF SyncJobs
    <3> QED
      BY <3>2 DEF S
  <2> QED
    BY <1>4, <2>1, <2>2 DEF SyncJobs, TypeOK, envVars
<1>5. ASSUME NEW j \in JobIds, JobController(j) \/ UserDeletesJob(j) PROVE TypeOK'
  BY <1>5, JobStepType
<1>6. CASE UserSetsSuspend
  <2>1. [js EXCEPT !.suspend = ~@] \in JobSet
    BY Zenon DEF TypeOK, JobSet
  <2>2. js' \in JobSet /\ jsPending' \in BOOLEAN
    BY <1>6, <2>1, WriteJobSetType DEF UserSetsSuspend
  <2> QED
    BY <1>6, <2>2 DEF UserSetsSuspend, TypeOK, cacheVars
<1>7. CASE Tick
  <2>1. now' \in Nat /\ wakeAt' \in Nat \cup {Nil}
    BY <1>7 DEF Tick, Enqueue, TypeOK
  <2>2. queued' \in BOOLEAN
    BY Zenon, <1>7 DEF Tick, Enqueue, TypeOK
  <2> QED
    BY <1>7, <2>1, <2>2 DEF Tick, TypeOK, apiVars, cacheVars
<1>8. CASE UNCHANGED vars
  BY <1>8 DEF vars, apiVars, cacheVars, envVars, TypeOK
<1> QED
  BY Zenon, <1>1, <1>2, <1>3, <1>4, <1>5, <1>6, <1>7, <1>8 DEF Next

\* The objects on the API server and in the caches keep their types.
THEOREM TypeCorrect == Spec => []TypeOK
<1>1. Init => TypeOK
  <2> SUFFICES ASSUME Init PROVE TypeOK
    OBVIOUS
  <2>1. PICK b \in BOOLEAN : js = InitialJobSet(b)
    BY Zenon DEF Init
  <2>2. js \in JobSet /\ [j \in JobIds |-> NoJob] \in [JobIds -> Job]
    BY <2>1, InitialJobSetType, NoJobType
  <2>3. <<>> \in Seq([JobIds -> Job])
    OBVIOUS
  <2> QED
    BY Zenon, <2>2, <2>3 DEF Init, TypeOK
<1> QED
  BY <1>1, NextType, PTL DEF Spec

-----------------------------------------------------------------------------
(***************************************************************************)
(* What a reconcile writes over the JobSet: nothing, or, from a cached     *)
(* copy that is current and not finished, the result of a policy.          *)
(***************************************************************************)
Counted == syncExecutionAttempts(Prepared, jobsCache)

\* The actions and Jobs the failure policy may choose, those that are errors left out.
\* It is asked only before the deadline.
Answers ==
  {m \in findFirstFailedPolicyRuleAndJob(failed(jsCache, jobsCache), jobsCache) :
     ~ActionIsError(m.action) /\ ~Expired}

PolicyResults ==
  {Counted, startupConditions(Counted, jobsCache)}
  \cup {u \in {setJobSetFailedCondition(Prepared, "DeadlineExceeded")} : Expired}
  \cup {u \in {setJobSetCompletedCondition(Prepared)} : Succeeded}
  \cup {resetStartTimeOnGlobalRestart(executeFailurePolicy(Prepared, m), Prepared.restarts, now) :
          m \in Answers}

\* An answer of the failure policy is an action for a failed Job.
LEMMA AnswersType ==
  ASSUME NEW m \in Answers
  PROVE  /\ m \in [action : Actions, job : JobIds]
         /\ m.job \in failed(jsCache, jobsCache)
         /\ ~ActionIsError(m.action) /\ ~Expired
<1> DEFINE F == failed(jsCache, jobsCache)
<1>1. F \subseteq JobIds
  BY DEF failed, current, Owned
<1>2. m \in [action : Actions, job : F] /\ ~ActionIsError(m.action) /\ ~Expired
  BY DEF Answers, findFirstFailedPolicyRuleAndJob
<1> HIDE DEF F
<1>3. m \in [action : Actions, job : JobIds] /\ m.job \in F
  BY <1>1, <1>2
<1> QED
  BY <1>2, <1>3 DEF F

\* The status update writes its result, or what was written before it.
LEMMA UpdateWrites ==
  ASSUME NEW base, NEW o, NEW fails \in BOOLEAN, updateJobSetStatus(base, o, fails)
  PROVE  \/ js # jsCache /\ js' = js
         \/ js = jsCache /\ (js' = o \/ js' = base)
BY DEF updateJobSetStatus, WriteJobSet, Written

\* The same for the creation, suspension and resumption of Jobs.
LEMMA StartWrites ==
  ASSUME NEW base, NEW o, StartJobs(base, o, TRUE)
  PROVE  \/ js # jsCache /\ js' = js
         \/ js = jsCache /\ (js' = startupConditions(o, jobsCache) \/ js' = base)
<1>1. \/ \E fails \in BOOLEAN : updateJobSetStatus(base, startupConditions(o, jobsCache), fails)
      \/ WriteJobSet(Written(base))
  BY Zenon DEF StartJobs, Fails
<1> QED
  BY SMTT(30), <1>1, UpdateWrites DEF WriteJobSet, Written

\* A reconcile leaves the JobSet, or writes a policy's result over the copy it read.
LEMMA ReconcileWrites ==
  ASSUME Reconcile(TRUE)
  PROVE  \/ js' = js
         \/ js = jsCache /\ ~jobSetFinished(js) /\ js' \in PolicyResults
<1> USE DEF Fails
<1>1. CASE ReconcileFinished(TRUE)
  BY <1>1 DEF ReconcileFinished
<1>2. CASE ReconcileDeleteError(TRUE)
  BY <1>2 DEF ReconcileDeleteError, ReturnError
<1>3. CASE failJobSetOnActiveDeadline(TRUE)
  <2>1. \/ ReturnError
        \/ \E fails \in BOOLEAN : updateJobSetStatus(jsCache,
             setJobSetFailedCondition(Prepared, "DeadlineExceeded"), fails)
    BY <1>3 DEF failJobSetOnActiveDeadline
  <2> QED
    BY <1>3, <2>1, UpdateWrites DEF failJobSetOnActiveDeadline, ReturnError, PolicyResults
<1>4. CASE ReconcileFailed(TRUE)
  <2> DEFINE o(m) == resetStartTimeOnGlobalRestart(executeFailurePolicy(Prepared, m),
                                                   Prepared.restarts, now)
  <2>1. PICK m \in findFirstFailedPolicyRuleAndJob(failed(jsCache, jobsCache), jobsCache),
             fails \in BOOLEAN : IF ActionIsError(m.action) THEN ReturnError
                               ELSE updateJobSetStatus(jsCache, o(m), fails)
    BY <1>4 DEF ReconcileFailed
  <2>2. ~ActionIsError(m.action) => m \in Answers
    BY <1>4 DEF Answers, ReconcileFailed
  <2>3. ~ActionIsError(m.action) => o(m) \in PolicyResults
    BY <2>2 DEF PolicyResults
  <2> HIDE DEF o
  <2> QED
    BY <1>4, <2>1, <2>3, UpdateWrites DEF ReconcileFailed, ReturnError
<1>5. CASE ReconcileSucceeded(TRUE)
  <2>1. PICK fails \in BOOLEAN :
          updateJobSetStatus(jsCache, setJobSetCompletedCondition(Prepared), fails)
    BY <1>5 DEF ReconcileSucceeded
  <2> QED
    BY <1>5, <2>1, UpdateWrites DEF ReconcileSucceeded, PolicyResults
<1>6. CASE ReconcileReplicatedJobs(TRUE)
  <2>1. ReturnError \/ StartJobs(Counted, Counted, TRUE) \/ StartJobs(jsCache, Counted, TRUE)
    BY Zenon, <1>6 DEF ReconcileReplicatedJobs, Counted
  <2>2. Counted \in PolicyResults /\ startupConditions(Counted, jobsCache) \in PolicyResults
    BY DEF PolicyResults
  <2>3. ~jobSetFinished(jsCache)
    BY <1>6 DEF ReconcileReplicatedJobs
  <2>4. CASE ReturnError
    BY <2>4 DEF ReturnError
  <2>5. ASSUME NEW base \in {Counted, jsCache}, StartJobs(base, Counted, TRUE)
        PROVE  \/ js' = js
               \/ js = jsCache /\ js' \in PolicyResults
    <3>1. \/ js' = js
          \/ js = jsCache /\ (js' = startupConditions(Counted, jobsCache) \/ js' = base)
      BY Zenon, <2>5, StartWrites
    <3> QED
      BY <2>2, <3>1
  <2> QED
    BY Zenon, <2>1, <2>3, <2>4, <2>5
<1> QED
  BY Zenon, <1>1, <1>2, <1>3, <1>4, <1>5, <1>6 DEF Reconcile

\* Whoever writes the JobSet: a reconcile, or a user who changes only spec.suspend.
LEMMA NextWrites ==
  ASSUME [Next]_vars
  PROVE  \/ js' = js
         \/ Reconcile(TRUE) /\ js = jsCache /\ ~jobSetFinished(js) /\ js' \in PolicyResults
         \/ js' = [js EXCEPT !.suspend = ~@]
BY Zenon, ReconcileWrites DEF Next, vars, apiVars, SyncJobSet, DelayJobs, SyncJobs, Tick, UserSetsSuspend,
   WriteJobSet, JobController, JobReady, JobStopped, JobUnready, JobComplete, JobFail, JobRemoved,
   UserDeletesJob, SetJob

\* The step form of TerminalStable.
LEMMA TerminalStep ==
  ASSUME TypeOK, [Next]_vars, jobSetFinished(js)
  PROVE  /\ Terminal(js') = Terminal(js)
         /\ js'.restarts = js.restarts
         /\ js'.jobRestarts = js.jobRestarts
<1>1. js' = js \/ js' = [js EXCEPT !.suspend = ~@]
  BY NextWrites
<1>2. js \in JobSet
  BY DEF TypeOK
<1> QED
  BY Zenon, <1>1, <1>2 DEF Terminal, JobSet

\* A JobSet that is Completed or Failed stays so, and is not restarted, however old
\* the copy a reconcile works from.
THEOREM TerminalCorrect == Spec => TerminalStable
<1>1. TypeOK /\ [Next]_vars =>
        [jobSetFinished(js) => /\ Terminal(js') = Terminal(js)
                               /\ js'.restarts = js.restarts
                               /\ js'.jobRestarts = js.jobRestarts]_vars
  BY TerminalStep
<1> QED
  BY <1>1, TypeCorrect, PTL DEF Spec, TerminalStable

-----------------------------------------------------------------------------
(***************************************************************************)
(* The counters.  Only failurePolicyRecreateAll and syncExecutionAttempts  *)
(* change those of the JobSet, and both only upwards.                      *)
(***************************************************************************)
SameCounters(u, o) ==
  /\ u.restarts = o.restarts
  /\ u.restartsCountTowardsMax = o.restartsCountTowardsMax
  /\ u.executionAttempts = o.executionAttempts

Advances(o, u) ==
  /\ u.restarts >= o.restarts /\ u.executionAttempts >= o.executionAttempts
  /\ StatusInv(o) => StatusInv(u)

\* Equal counters are an advance.
LEMMA SameAdvances ==
  ASSUME NEW o \in JobSet, NEW u, SameCounters(u, o) PROVE Advances(o, u)
BY Fields DEF SameCounters, Advances, StatusInv, Nil

\* A condition leaves the counters alone.
LEMMA SetConditionKeeps ==
  ASSUME NEW o \in JobSet, NEW type, NEW status
  PROVE  SameCounters(setCondition(o, type, status), o)
BY Zenon DEF setCondition, JobSet, SameCounters

\* Completing the JobSet leaves the counters alone.
LEMMA CompletedKeeps ==
  ASSUME NEW o \in JobSet PROVE SameCounters(setJobSetCompletedCondition(o), o)
<1> DEFINE u == setCondition(o, "Completed", "True")
<1>1. u \in JobSet /\ SameCounters(u, o)
  BY SetConditionType, SetConditionKeeps DEF ConditionTypes
<1>2. SameCounters(setCondition(u, "Restarting", "False"), u)
  BY <1>1, SetConditionKeeps
<1> QED
  BY <1>1, <1>2 DEF setJobSetCompletedCondition, SameCounters

\* Failing the JobSet leaves the counters alone.
LEMMA FailedKeeps ==
  ASSUME NEW o \in JobSet, NEW r \in FailedReasons
  PROVE  SameCounters(setJobSetFailedCondition(o, r), o)
<1> DEFINE u == setCondition(o, "Failed", "True")
           w == setCondition(u, "Restarting", "False")
<1>1. u \in JobSet /\ SameCounters(u, o)
  BY SetConditionType, SetConditionKeeps DEF ConditionTypes
<1> HIDE DEF u
<1>2. w \in JobSet /\ SameCounters(w, u)
  BY <1>1, SetConditionType, SetConditionKeeps DEF ConditionTypes
<1>3. setJobSetFailedCondition(o, r) = [w EXCEPT !.failedReason = r]
  BY DEF setJobSetFailedCondition, u
<1> HIDE DEF w
<1>4. SameCounters([w EXCEPT !.failedReason = r], w)
  BY Zenon, <1>2 DEF JobSet, SameCounters
<1> QED
  BY <1>1, <1>2, <1>3, <1>4 DEF SameCounters

\* startTime has nothing to do with the counters.
LEMMA StartTimeKeeps ==
  ASSUME NEW o \in JobSet, NEW t, NEW n
  PROVE  /\ SameCounters(syncActiveDeadlineStartTime(o, t), o)
         /\ SameCounters(resetStartTimeOnGlobalRestart(o, n, t), o)
BY Zenon DEF syncActiveDeadlineStartTime, resetStartTimeOnGlobalRestart, JobSet, SameCounters

\* The startup conditions leave the counters alone.
LEMMA StartupKeeps ==
  ASSUME NEW o \in JobSet, NEW J PROVE SameCounters(startupConditions(o, J), o)
<1>1. ASSUME NEW u \in JobSet, SameCounters(u, o), NEW type, NEW status
      PROVE  SameCounters(setCondition(u, type, status), o)
  BY <1>1, SetConditionKeeps DEF SameCounters
<1>2. /\ setCondition(o, "Suspended", "True") \in JobSet
      /\ setCondition(o, "StartupPolicyCompleted", "True") \in JobSet
  BY SetConditionType DEF ConditionTypes
<1> QED
  BY <1>1, <1>2, SetConditionKeeps DEF startupConditions

\* A restart of one Job leaves the counters of the JobSet alone.
LEMMA RecreateJobKeeps ==
  ASSUME NEW o \in JobSet, NEW j, NEW b
  PROVE  SameCounters(failurePolicyRecreateJob(o, j, b), o)
BY Zenon DEF failurePolicyRecreateJob, JobSet, SameCounters

\* A restart of the JobSet, if within the budget or not counted towards it.
LEMMA RecreateAllAdvances ==
  ASSUME NEW o \in JobSet, NEW b \in BOOLEAN, b => o.restartsCountTowardsMax < MaxRestarts
  PROVE  Advances(o, failurePolicyRecreateAll(o, b))
<1> DEFINE n == o.restarts + 1
           e == IF "ExecutionAttemptsTracking" \notin Gates THEN o.executionAttempts
                ELSE IF o.executionAttempts = Nil THEN o.restarts + 1 ELSE o.executionAttempts + 1
           c == IF b THEN o.restartsCountTowardsMax + 1 ELSE o.restartsCountTowardsMax
           u == [o EXCEPT !.restarts = n, !.executionAttempts = e, !.restartsCountTowardsMax = c]
           w == failurePolicyRecreateAll(o, b)
<1>1. n \in Nat /\ e \in Nat \cup {Nil} /\ c \in Nat
  <2>1. o.restarts + 1 \in Nat /\ o.restartsCountTowardsMax + 1 \in Nat
    BY Fields
  <2>2. o.executionAttempts # Nil => o.executionAttempts + 1 \in Nat
    BY Fields, Successor
  <2> QED
    BY <2>1, <2>2, Fields
<1>2. w = setCondition(u, "Restarting", "True")
  BY SMTT(30) DEF failurePolicyRecreateAll
<1> HIDE DEF n, e, c, w
<1>3. u \in JobSet /\ u.restarts = n /\ u.executionAttempts = e /\ u.restartsCountTowardsMax = c
  BY Zenon, <1>1, CountRestartType DEF JobSet
<1> HIDE DEF u
<1>4. w.restarts = n /\ w.executionAttempts = e /\ w.restartsCountTowardsMax = c
  BY <1>2, <1>3, SetConditionKeeps DEF SameCounters
<1>5. w.restarts >= o.restarts /\ w.executionAttempts >= o.executionAttempts
  <2>1. n >= o.restarts
    BY Fields DEF n
  <2>2. e >= o.executionAttempts
    BY Fields DEF e, Nil
  <2> QED
    BY <1>4, <2>1, <2>2
<1>6. ASSUME StatusInv(o) PROVE StatusInv(w)
  <2>1. c <= n /\ c <= MaxRestarts
    BY <1>6, Fields, PolicyAssumption DEF StatusInv, c, n
  <2>2. e # Nil => "ExecutionAttemptsTracking" \in Gates /\ n <= e
    BY <1>6, Fields DEF StatusInv, e, n, Nil
  <2> QED
    BY <1>4, <2>1, <2>2 DEF StatusInv
<1> QED
  BY <1>5, <1>6 DEF Advances, w

\* Whatever the failure policy does.
LEMMA FailurePolicyAdvances ==
  ASSUME NEW o \in JobSet, NEW m \in [action : Actions, job : JobIds]
  PROVE  Advances(o, executeFailurePolicy(o, m))
<1>1. ASSUME NEW r \in FailedReasons PROVE Advances(o, setJobSetFailedCondition(o, r))
  BY FailedKeeps, SameAdvances
<1>2. Advances(o, restartJobSetActionApplier(o))
  <2>1. CASE o.restartsCountTowardsMax >= MaxRestarts
    BY Zenon, <1>1, <2>1 DEF restartJobSetActionApplier, FailedReasons
  <2>2. CASE o.restartsCountTowardsMax < MaxRestarts
    BY Zenon, <1>1, <2>2, RecreateAllAdvances DEF restartJobSetActionApplier, FailedReasons
  <2> QED
    BY <2>1, <2>2, Fields, PolicyAssumption
<1>3. ASSUME NEW b PROVE Advances(o, failurePolicyRecreateJob(o, m.job, b))
  BY RecreateJobKeeps, SameAdvances
<1>4. Advances(o, restartJobActionApplier(o, m.job))
  BY Zenon, <1>1, <1>3 DEF restartJobActionApplier, FailedReasons
<1>5. Advances(o, failurePolicyRecreateAll(o, FALSE))
  BY Zenon, RecreateAllAdvances
<1>6. m.action \in Actions /\ HasFailurePolicy \in BOOLEAN
  BY PolicyAssumption
<1>7. /\ Advances(o, setJobSetFailedCondition(o, "FailedJobs"))
      /\ Advances(o, setJobSetFailedCondition(o, "FailJobSetAction"))
  BY ZenonT(30), <1>1 DEF FailedReasons
<1> QED
  BY Zenon, <1>2, <1>3, <1>4, <1>5, <1>6, <1>7 DEF executeFailurePolicy, Actions

\* Counting a resume, or the first initialisation.
LEMMA SyncAttemptsAdvances ==
  ASSUME NEW o \in JobSet, NEW J
  PROVE  /\ Advances(o, syncExecutionAttempts(o, J))
         /\ syncExecutionAttempts(o, J).restarts = o.restarts
         /\ ~previouslySuspended(o) =>
              \/ syncExecutionAttempts(o, J).executionAttempts = o.executionAttempts
              \/ syncExecutionAttempts(o, J).executionAttempts = o.restarts
<1> DEFINE e == o.executionAttempts
           v == IF "ExecutionAttemptsTracking" \notin Gates \/ o.suspend THEN e
                ELSE IF e = Nil
                     THEN IF previouslySuspended(o) /\ o.restarts > 0
                          THEN o.restarts + 1 ELSE o.restarts
                     ELSE IF previouslySuspended(o) /\ shouldIncrement(o, J) THEN e + 1 ELSE e
           w == syncExecutionAttempts(o, J)
<1>1. w = [o EXCEPT !.executionAttempts = v]
  BY SMTT(30) DEF syncExecutionAttempts
<1>2. /\ \/ v = e
         \/ /\ "ExecutionAttemptsTracking" \in Gates
            /\ \/ e = Nil /\ v \in {o.restarts, o.restarts + 1}
               \/ e # Nil /\ v = e + 1
      /\ ~previouslySuspended(o) => v = e \/ v = o.restarts
  <2>1. CASE "ExecutionAttemptsTracking" \notin Gates \/ o.suspend
    BY <2>1
  <2>2. CASE "ExecutionAttemptsTracking" \in Gates /\ ~o.suspend /\ e = Nil
    BY <2>2
  <2>3. CASE "ExecutionAttemptsTracking" \in Gates /\ ~o.suspend /\ e # Nil
    BY <2>3
  <2> QED
    BY ZenonT(30), <2>1, <2>2, <2>3, Fields
<1> HIDE DEF v, w
<1>3. /\ w.restarts = o.restarts /\ w.restartsCountTowardsMax = o.restartsCountTowardsMax
      /\ w.executionAttempts = v
  BY Zenon, <1>1 DEF JobSet
<1>4. v >= e /\ (StatusInv(o) => StatusInv(w))
  BY <1>2, <1>3, Fields DEF StatusInv, Nil
<1> QED
  BY <1>2, <1>3, <1>4, Fields DEF Advances, w

\* An advance from something with the same counters is an advance.
LEMMA AdvanceFromSame ==
  ASSUME NEW o, NEW p, NEW u, SameCounters(p, o), Advances(p, u) PROVE Advances(o, u)
BY DEF SameCounters, Advances, StatusInv

\* The preparation of reconcile leaves the counters alone.
LEMMA PreparedKeeps ==
  ASSUME TypeOK PROVE SameCounters(Prepared, jsCache)
<1> DEFINE o == IF ~jsCache.suspend /\ allJobsReady(jsCache, jobsCache)
                THEN setCondition(jsCache, "Restarting", "False") ELSE jsCache
<1>1. jsCache \in JobSet
  BY DEF TypeOK
<1>2. o \in JobSet /\ SameCounters(o, jsCache)
  BY <1>1, SetConditionType, SetConditionKeeps DEF ConditionTypes, SameCounters
<1>3. Prepared = syncActiveDeadlineStartTime(o, now)
  BY DEF Prepared
<1> HIDE DEF o
<1> QED
  BY <1>2, <1>3, StartTimeKeeps DEF SameCounters

\* The count a reconcile works with.
LEMMA CountedFacts ==
  ASSUME TypeOK
  PROVE  /\ Counted \in JobSet /\ Advances(jsCache, Counted)
         /\ Counted.restarts = jsCache.restarts
         /\ ~previouslySuspended(Prepared) \/ Counted.executionAttempts = Prepared.executionAttempts =>
              \/ Counted.executionAttempts = jsCache.executionAttempts
              \/ Counted.executionAttempts = jsCache.restarts
<1>1. Prepared \in JobSet /\ SameCounters(Prepared, jsCache)
  BY PreparedType, PreparedKeeps
<1>2. Counted \in JobSet
  BY Zenon, <1>1, PreparedType, SyncType DEF Counted
<1>3. Advances(Prepared, Counted)
  BY <1>1, SyncAttemptsAdvances DEF Counted
<1> QED
  BY <1>1, <1>2, <1>3, SyncAttemptsAdvances, AdvanceFromSame DEF Counted, SameCounters

\* Every result of a policy advances the counters of the copy it was computed from.
LEMMA ResultsAdvance ==
  ASSUME TypeOK, NEW u \in PolicyResults PROVE Advances(jsCache, u)
<1>1. Prepared \in JobSet /\ SameCounters(Prepared, jsCache) /\ now \in Nat
  BY PreparedType, PreparedKeeps
<1>2. CASE u = setJobSetFailedCondition(Prepared, "DeadlineExceeded")
  BY <1>1, <1>2, FailedKeeps, SameAdvances, AdvanceFromSame DEF FailedReasons
<1>3. CASE u = setJobSetCompletedCondition(Prepared)
  BY <1>1, <1>3, CompletedKeeps, SameAdvances, AdvanceFromSame
<1>4. CASE u = Counted
  BY <1>4, CountedFacts
<1>5. CASE u = startupConditions(Counted, jobsCache)
  BY <1>5, CountedFacts, StartupKeeps DEF SameCounters, Advances, StatusInv
<1>6. ASSUME NEW m \in Answers,
             u = resetStartTimeOnGlobalRestart(executeFailurePolicy(Prepared, m),
                                               Prepared.restarts, now)
      PROVE  Advances(jsCache, u)
  <2> DEFINE w == executeFailurePolicy(Prepared, m)
  <2>1. w \in JobSet /\ Advances(Prepared, w)
    BY <1>1, AnswersType, FailurePolicyType, FailurePolicyAdvances
  <2>2. SameCounters(u, w)
    BY <1>6, <2>1, StartTimeKeeps
  <2> HIDE DEF w
  <2>3. Advances(Prepared, u)
    BY <2>1, <2>2 DEF SameCounters, Advances, StatusInv
  <2> QED
    BY <1>1, <2>3, AdvanceFromSame
<1> QED
  BY <1>2, <1>3, <1>4, <1>5, <1>6 DEF PolicyResults

\* The JobSet on the API server only advances.
LEMMA JobSetAdvances ==
  ASSUME TypeOK, [Next]_vars PROVE Advances(js, js')
<1>1. js \in JobSet
  BY DEF TypeOK
<1>2. CASE js' = js
  BY <1>1, <1>2, SameAdvances DEF SameCounters
<1>3. CASE js = jsCache /\ js' \in PolicyResults
  BY <1>3, ResultsAdvance
<1>4. CASE js' = [js EXCEPT !.suspend = ~@]
  <2>1. SameCounters(js', js)
    BY Zenon, <1>1, <1>4 DEF JobSet, SameCounters
  <2> QED
    BY <1>1, <2>1, SameAdvances
<1> QED
  BY Zenon, <1>2, <1>3, <1>4, NextWrites

\* The cached JobSet stays, or becomes the one on the API server.
LEMMA CacheFollows ==
  ASSUME [Next]_vars PROVE jsCache' = jsCache \/ (jsCache' = js /\ js' = js)
BY Zenon DEF Next, vars, cacheVars, Reconcile, SyncJobSet, DelayJobs, SyncJobs, Tick, UserSetsSuspend,
   JobController, JobReady, JobStopped, JobUnready, JobComplete, JobFail, JobRemoved,
   UserDeletesJob, SetJob

\* deleteJobs leaves the annotations.
LEMMA MarkAnnotation ==
  ASSUME NEW J \in [JobIds -> Job], NEW D, NEW j \in JobIds
  PROVE  MarkDeleted(J, D)[j].executionAttempt = J[j].executionAttempt
BY ZenonT(30) DEF MarkDeleted, Job

\* The annotations of the Jobs that are created and resumed.
LEMMA StartAnnotation ==
  ASSUME TypeOK, NEW base, NEW o \in JobSet, StartJobs(base, o, TRUE), NEW j \in JobIds
  PROVE  jobs'[j].executionAttempt
           \in {jobs[j].executionAttempt, Nil, 0, o.executionAttempts}
<1>1. jobs \in [JobIds -> Job] /\ jobs[j] \in Job
  BY SMTT(30) DEF TypeOK
<1>2. jobs'[j] \in {constructJob(o, j), suspendJob(jobs[j]), resumeJob(o, jobs[j]),
                    MarkDeleted(jobs, Previous)[j]}
  BY Zenon DEF StartJobs, WriteJobs
<1>3. constructJob(o, j).executionAttempt \in {Nil, o.executionAttempts}
  BY DEF constructJob, NoJob
<1>4. suspendJob(jobs[j]).executionAttempt = jobs[j].executionAttempt
  BY Zenon, <1>1 DEF suspendJob, Job
<1>5. resumeJob(o, jobs[j]).executionAttempt
        \in {jobs[j].executionAttempt, 0, o.executionAttempts}
  BY ZenonT(30), <1>1 DEF resumeJob, Job
<1> QED
  BY <1>1, <1>2, <1>3, <1>4, <1>5, MarkAnnotation

\* A reconcile gives Jobs only an attempt that is written, or follows from the restarts.
LEMMA ReconcileAnnotation ==
  ASSUME TypeOK, Reconcile(TRUE), NEW j \in JobIds
  PROVE  jobs'[j].executionAttempt
           \in {jobs[j].executionAttempt, Nil, 0, jsCache.executionAttempts, jsCache.restarts,
                js'.executionAttempts}
<1>1. ASSUME NEW D, WriteJobs(MarkDeleted(jobs, D))
      PROVE  jobs'[j].executionAttempt = jobs[j].executionAttempt
  BY Zenon, <1>1, MarkAnnotation DEF WriteJobs, TypeOK
<1>2. CASE ReconcileFinished(TRUE)
  BY Zenon, <1>1, <1>2 DEF ReconcileFinished
<1>3. CASE ReconcileDeleteError(TRUE)
  BY Zenon, <1>1, <1>3 DEF ReconcileDeleteError
<1>4. CASE failJobSetOnActiveDeadline(TRUE)
  BY Zenon, <1>1, <1>4 DEF failJobSetOnActiveDeadline
<1>5. CASE ReconcileFailed(TRUE)
  BY Zenon, <1>1, <1>5 DEF ReconcileFailed
<1>6. CASE ReconcileSucceeded(TRUE)
  BY <1>1, <1>6 DEF ReconcileSucceeded
<1>7. CASE ReconcileReplicatedJobs(TRUE)
  <2>1. \/ WriteJobs(MarkDeleted(jobs, Previous))
        \/ js = jsCache /\ StartJobs(Counted, Counted, TRUE)
        \/ /\ ~previouslySuspended(Prepared)
              \/ Counted.executionAttempts = Prepared.executionAttempts
           /\ StartJobs(jsCache, Counted, TRUE)
    BY Zenon, <1>7 DEF ReconcileReplicatedJobs, Counted
  <2>2. CASE js = jsCache /\ StartJobs(Counted, Counted, TRUE)
    <3>1. js' \in {Counted, startupConditions(Counted, jobsCache)}
      BY Zenon, <2>2, StartWrites
    <3>2. js'.executionAttempts = Counted.executionAttempts
      BY <3>1, CountedFacts, StartupKeeps DEF SameCounters
    <3> QED
      BY Zenon, <2>2, <3>2, CountedFacts, StartAnnotation
  <2>3. CASE /\ ~previouslySuspended(Prepared)
                \/ Counted.executionAttempts = Prepared.executionAttempts
             /\ StartJobs(jsCache, Counted, TRUE)
    BY Zenon, <2>3, CountedFacts, StartAnnotation
  <2> QED
    BY Zenon, <1>1, <2>1, <2>2, <2>3
<1> QED
  BY Zenon, <1>2, <1>3, <1>4, <1>5, <1>6, <1>7 DEF Reconcile

\* Everyone else leaves the annotations.
LEMMA OtherAnnotation ==
  ASSUME TypeOK, [Next]_vars, ~Reconcile(TRUE), NEW j \in JobIds
  PROVE  jobs'[j].executionAttempt \in {jobs[j].executionAttempt, Nil}
<1>1. jobs' = jobs \/ \E k \in JobIds : JobController(k) \/ UserDeletesJob(k)
  BY Zenon DEF Next, vars, apiVars, SyncJobSet, DelayJobs, SyncJobs, Tick, UserSetsSuspend
<1>2. ASSUME NEW k \in JobIds, JobController(k) \/ UserDeletesJob(k)
      PROVE  jobs'[j].executionAttempt \in {jobs[j].executionAttempt, Nil}
  <2>1. jobs \in [JobIds -> Job] /\ jobs[k] \in Job
    BY DEF TypeOK
  <2>2. ASSUME NEW job, SetJob(k, job), job.executionAttempt \in {jobs[k].executionAttempt, Nil}
        PROVE  jobs'[j].executionAttempt \in {jobs[j].executionAttempt, Nil}
    BY <2>1, <2>2 DEF SetJob, WriteJobs
  <2>3. CASE JobReady(k)
    BY Zenon, <2>1, <2>2, <2>3 DEF JobReady, Job
  <2>4. CASE JobStopped(k)
    BY Zenon, <2>1, <2>2, <2>4 DEF JobStopped, Job
  <2>5. CASE JobUnready(k)
    BY Zenon, <2>1, <2>2, <2>5 DEF JobUnready, Job
  <2>6. CASE JobComplete(k)
    BY Zenon, <2>1, <2>2, <2>6 DEF JobComplete, Job
  <2>7. CASE JobFail(k)
    BY ZenonT(30), <2>1, <2>2, <2>7 DEF JobFail, Job
  <2>8. CASE JobRemoved(k)
    BY Zenon, <2>2, <2>8 DEF JobRemoved, NoJob
  <2>9. CASE UserDeletesJob(k)
    BY Zenon, <2>1, <2>2, <2>9 DEF UserDeletesJob, Job
  <2> QED
    BY Zenon, <1>2, <2>3, <2>4, <2>5, <2>6, <2>7, <2>8, <2>9 DEF JobController
<1> QED
  BY <1>1, <1>2

\* The counters of a new JobSet.
LEMMA InitialCounters ==
  ASSUME NEW b
  PROVE  /\ InitialJobSet(b).restarts = 0 /\ InitialJobSet(b).restartsCountTowardsMax = 0
         /\ InitialJobSet(b).executionAttempts = Nil
BY Zenon DEF InitialJobSet

\* Every step keeps the invariant of the counters.
LEMMA NextCounters ==
  ASSUME TypeOK, CountersInv, [Next]_vars PROVE CountersInv'
<1>1. TypeOK' /\ Advances(js, js')
  BY NextType, JobSetAdvances
<1>2. /\ js \in JobSet /\ jsCache \in JobSet /\ js' \in JobSet
      /\ jobs \in [JobIds -> Job] /\ jobs' \in [JobIds -> Job]
  BY Zenon, <1>1 DEF TypeOK
<1> DEFINE Numbers(o) == o.restarts \in Nat /\ o.executionAttempts \in Nat \cup {Nil}
<1>3. Numbers(js) /\ Numbers(jsCache) /\ Numbers(js')
  BY <1>2, Fields
<1>4. js'.restarts >= js.restarts /\ js'.executionAttempts >= js.executionAttempts
  BY <1>1 DEF Advances
<1>5. StatusInv(js')
  BY <1>1 DEF CountersInv, Advances
<1>6. /\ StatusInv(jsCache')
      /\ jsCache'.restarts <= js'.restarts /\ jsCache'.executionAttempts <= js'.executionAttempts
  <2>1. CASE jsCache' = jsCache
    BY <1>3, <1>4, <2>1 DEF CountersInv, Nil
  <2>2. CASE jsCache' = js /\ js' = js
    BY <1>3, <2>2 DEF CountersInv, Nil
  <2> QED
    BY <2>1, <2>2, CacheFollows
<1>7. ASSUME NEW j \in JobIds
      PROVE  \/ jobs'[j].executionAttempt <= js'.executionAttempts
             \/ jobs'[j].executionAttempt <= js'.restarts
  <2> DEFINE e == jobs'[j].executionAttempt
             d == jobs[j].executionAttempt
  <2>1. d \in Nat \cup {Nil} /\ (d <= js.executionAttempts \/ d <= js.restarts)
    BY Zenon, <1>2 DEF CountersInv, AttemptsNotAhead, Job
  <2>2. e \in {d, Nil, 0, jsCache.executionAttempts, jsCache.restarts, js'.executionAttempts}
    BY Zenon, ReconcileAnnotation, OtherAnnotation
  <2> HIDE DEF e, d
  <2>3. e <= js'.executionAttempts \/ e <= js'.restarts
    BY <1>3, <1>4, <2>1, <2>2 DEF CountersInv, Nil
  <2> QED
    BY <2>3 DEF e
<1> QED
  BY <1>5, <1>6, <1>7 DEF CountersInv, AttemptsNotAhead, StatusInv

\* The counters of the status, on the API server and in the cache, and the
\* annotations of the Jobs agree, for every order of restarts, resumes, lost updates
\* and stale reads.
THEOREM CountersCorrect == Spec => []CountersInv
<1>1. Init => CountersInv
  <2> SUFFICES ASSUME Init PROVE CountersInv
    OBVIOUS
  <2>1. jsCache = js /\ \E b \in BOOLEAN : js = InitialJobSet(b)
    BY Zenon DEF Init
  <2>2. /\ js.restarts = 0 /\ js.restartsCountTowardsMax = 0 /\ js.executionAttempts = Nil
        /\ \A j \in JobIds : jobs[j].executionAttempt = Nil
    <3>1. js.restarts = 0 /\ js.restartsCountTowardsMax = 0 /\ js.executionAttempts = Nil
      BY <2>1, InitialCounters
    <3>2. NoJob.executionAttempt = Nil
      BY DEF NoJob
    <3>3. jobs = [j \in JobIds |-> NoJob]
      BY DEF Init
    <3> QED
      BY <3>1, <3>2, <3>3
  <2>3. StatusInv(js) /\ StatusInv(jsCache)
    BY <2>1, <2>2, PolicyAssumption DEF StatusInv
  <2>4. AttemptsNotAhead
    BY <2>2 DEF AttemptsNotAhead, Nil
  <2> QED
    BY <2>1, <2>2, <2>3, <2>4 DEF CountersInv, Nil
<1>2. TypeOK /\ CountersInv /\ [Next]_vars => CountersInv'
  BY NextCounters
<1> QED
  BY <1>1, <1>2, TypeCorrect, PTL DEF Spec

\* Every restart of the JobSet is an execution attempt.
THEOREM AttemptsCoverCorrect == Spec => []ExecutionAttemptsCoverRestarts
<1>1. CountersInv => ExecutionAttemptsCoverRestarts
  BY DEF CountersInv, StatusInv, ExecutionAttemptsCoverRestarts
<1> QED
  BY <1>1, CountersCorrect, PTL

\* No Job carries an execution attempt that the status does not account for.
THEOREM NotAheadCorrect == Spec => []AttemptsNotAhead
<1>1. CountersInv => AttemptsNotAhead
  BY DEF CountersInv
<1> QED
  BY <1>1, CountersCorrect, PTL

-----------------------------------------------------------------------------
(* What the policies do to the counters of single Jobs. *)

SameJobCounters(u, o) ==
  /\ u.jobRestarts = o.jobRestarts
  /\ u.jobRestartsCountTowardsMax = o.jobRestartsCountTowardsMax

\* A condition leaves the counters of the Jobs alone.
LEMMA SetConditionKeepsJobs ==
  ASSUME NEW o \in JobSet, NEW type, NEW status
  PROVE  SameJobCounters(setCondition(o, type, status), o)
BY Zenon DEF setCondition, JobSet, SameJobCounters

\* So do two conditions.
LEMMA TwoConditionsKeepJobs ==
  ASSUME NEW o \in JobSet, NEW type \in ConditionTypes, NEW status \in {"True", "False"},
         NEW type2, NEW status2
  PROVE  SameJobCounters(setCondition(setCondition(o, type, status), type2, status2), o)
<1> DEFINE u == setCondition(o, type, status)
<1>1. u \in JobSet /\ SameJobCounters(u, o)
  BY SetConditionType, SetConditionKeepsJobs
<1> HIDE DEF u
<1>2. SameJobCounters(setCondition(u, type2, status2), u)
  BY <1>1, SetConditionKeepsJobs
<1> QED
  BY <1>1, <1>2 DEF SameJobCounters, u

\* The end of a JobSet leaves the counters of its Jobs alone.
LEMMA EndKeepsJobs ==
  ASSUME NEW o \in JobSet, NEW r \in FailedReasons
  PROVE  /\ SameJobCounters(setJobSetCompletedCondition(o), o)
         /\ SameJobCounters(setJobSetFailedCondition(o, r), o)
<1> DEFINE u == setCondition(setCondition(o, "Failed", "True"), "Restarting", "False")
<1>1. SameJobCounters(setJobSetCompletedCondition(o), o) /\ SameJobCounters(u, o)
  BY TwoConditionsKeepJobs DEF setJobSetCompletedCondition, ConditionTypes
<1>2. u \in JobSet
  BY SetConditionType DEF ConditionTypes
<1>3. setJobSetFailedCondition(o, r) = [u EXCEPT !.failedReason = r]
  BY DEF setJobSetFailedCondition
<1> HIDE DEF u
<1>4. SameJobCounters([u EXCEPT !.failedReason = r], u)
  BY Zenon, <1>2 DEF JobSet, SameJobCounters
<1> QED
  BY <1>1, <1>3, <1>4 DEF SameJobCounters

\* Start time and execution attempts have nothing to do with the counters of the Jobs.
LEMMA SyncKeepsJobs ==
  ASSUME NEW o \in JobSet, NEW t, NEW n, NEW J
  PROVE  /\ SameJobCounters(syncActiveDeadlineStartTime(o, t), o)
         /\ SameJobCounters(resetStartTimeOnGlobalRestart(o, n, t), o)
         /\ SameJobCounters(syncExecutionAttempts(o, J), o)
<1>1. /\ SameJobCounters(syncActiveDeadlineStartTime(o, t), o)
      /\ SameJobCounters(resetStartTimeOnGlobalRestart(o, n, t), o)
  BY Zenon DEF syncActiveDeadlineStartTime, resetStartTimeOnGlobalRestart, JobSet, SameJobCounters
<1>2. ASSUME NEW v PROVE SameJobCounters([o EXCEPT !.executionAttempts = v], o)
  BY Zenon DEF JobSet, SameJobCounters
<1>3. \E v : syncExecutionAttempts(o, J) = [o EXCEPT !.executionAttempts = v]
  BY ZenonT(30) DEF syncExecutionAttempts
<1> QED
  BY Zenon, <1>1, <1>2, <1>3

\* The startup conditions leave the counters of the Jobs alone.
LEMMA StartupKeepsJobs ==
  ASSUME NEW o \in JobSet, NEW J PROVE SameJobCounters(startupConditions(o, J), o)
BY SetConditionKeepsJobs, TwoConditionsKeepJobs DEF startupConditions, ConditionTypes

\* A restart of the JobSet leaves the counters of its Jobs alone.
LEMMA RecreateAllKeepsJobs ==
  ASSUME NEW o \in JobSet, NEW b \in BOOLEAN
  PROVE  /\ SameJobCounters(failurePolicyRecreateAll(o, b), o)
         /\ failurePolicyRecreateAll(o, b).restarts = o.restarts + 1
         /\ failurePolicyRecreateAll(o, b).restartsCountTowardsMax =
              IF b THEN o.restartsCountTowardsMax + 1 ELSE o.restartsCountTowardsMax
<1> DEFINE n == o.restarts + 1
           e == IF "ExecutionAttemptsTracking" \notin Gates THEN o.executionAttempts
                ELSE IF o.executionAttempts = Nil THEN o.restarts + 1 ELSE o.executionAttempts + 1
           c == IF b THEN o.restartsCountTowardsMax + 1 ELSE o.restartsCountTowardsMax
           u == [o EXCEPT !.restarts = n, !.executionAttempts = e, !.restartsCountTowardsMax = c]
<1>1. n \in Nat /\ e \in Nat \cup {Nil} /\ c \in Nat
  <2>1. o.restarts + 1 \in Nat /\ o.restartsCountTowardsMax + 1 \in Nat
    BY Fields
  <2>2. o.executionAttempts # Nil => o.executionAttempts + 1 \in Nat
    BY Fields, Successor
  <2> QED
    BY <2>1, <2>2, Fields
<1>2. failurePolicyRecreateAll(o, b) = setCondition(u, "Restarting", "True")
  BY SMTT(30) DEF failurePolicyRecreateAll
<1> HIDE DEF n, e, c
<1>3. /\ u \in JobSet /\ SameJobCounters(u, o)
      /\ u.restarts = n /\ u.restartsCountTowardsMax = c
  BY Zenon, <1>1, CountRestartType DEF JobSet, SameJobCounters
<1> HIDE DEF u
<1>4. SameJobCounters(setCondition(u, "Restarting", "True"), u)
  BY <1>3, SetConditionKeepsJobs
<1>5. SameCounters(setCondition(u, "Restarting", "True"), u)
  BY <1>3, SetConditionKeeps
<1> QED
  BY ZenonT(30), <1>2, <1>3, <1>4, <1>5 DEF SameJobCounters, SameCounters, n, c

\* A restart of one Job is counted for that Job only.
LEMMA RecreateJobCounts ==
  ASSUME NEW o \in JobSet, NEW j \in JobIds, NEW b \in BOOLEAN
  PROVE  /\ failurePolicyRecreateJob(o, j, b).jobRestarts[j] = o.jobRestarts[j] + 1
         /\ \A k \in JobIds \ {j} :
              failurePolicyRecreateJob(o, j, b).jobRestarts[k] = o.jobRestarts[k]
BY ZenonT(30), Fields DEF failurePolicyRecreateJob, JobSet

\* The preparation of reconcile leaves the counters of the Jobs alone.
LEMMA PreparedKeepsJobs ==
  ASSUME TypeOK PROVE SameJobCounters(Prepared, jsCache)
<1> DEFINE o == IF ~jsCache.suspend /\ allJobsReady(jsCache, jobsCache)
                THEN setCondition(jsCache, "Restarting", "False") ELSE jsCache
<1>1. jsCache \in JobSet
  BY DEF TypeOK
<1>2. o \in JobSet /\ SameJobCounters(o, jsCache)
  BY <1>1, SetConditionType, SetConditionKeepsJobs DEF ConditionTypes, SameJobCounters
<1>3. Prepared = syncActiveDeadlineStartTime(o, now)
  BY DEF Prepared
<1> HIDE DEF o
<1> QED
  BY <1>2, <1>3, SyncKeepsJobs DEF SameJobCounters

\* So does counting an execution attempt.
LEMMA CountedKeeps ==
  ASSUME TypeOK
  PROVE  /\ Counted \in JobSet
         /\ SameJobCounters(Counted, jsCache)
         /\ Counted.restarts = jsCache.restarts
         /\ Counted.restartsCountTowardsMax = jsCache.restartsCountTowardsMax
<1>1. Prepared \in JobSet /\ SameJobCounters(Prepared, jsCache) /\ SameCounters(Prepared, jsCache)
  BY PreparedType, PreparedKeepsJobs, PreparedKeeps
<1>2. SameJobCounters(Counted, Prepared)
  BY <1>1, SyncKeepsJobs DEF Counted
<1>3. Counted.restartsCountTowardsMax = Prepared.restartsCountTowardsMax
  <2>1. ASSUME NEW v
        PROVE  [Prepared EXCEPT !.executionAttempts = v].restartsCountTowardsMax
                 = Prepared.restartsCountTowardsMax
    BY Zenon, <1>1 DEF JobSet
  <2>2. \E v : Counted = [Prepared EXCEPT !.executionAttempts = v]
    BY Zenon DEF Counted, syncExecutionAttempts
  <2> QED
    BY <2>1, <2>2
<1> QED
  BY <1>1, <1>2, <1>3, CountedFacts DEF SameJobCounters, SameCounters

-----------------------------------------------------------------------------
(* What the policies do to the start time, to the reason of a failure and to suspend. *)

SameStart(u, o) ==
  u.startTime = o.startTime /\ u.failedReason = o.failedReason /\ u.suspend = o.suspend

\* A condition changes none of them.
LEMMA SetConditionKeepsStart ==
  ASSUME NEW o \in JobSet, NEW type, NEW status
  PROVE  SameStart(setCondition(o, type, status), o)
BY Zenon DEF setCondition, JobSet, SameStart

\* Nor do two conditions.
LEMMA TwoConditionsKeepStart ==
  ASSUME NEW o \in JobSet, NEW type \in ConditionTypes, NEW status \in {"True", "False"},
         NEW type2, NEW status2
  PROVE  SameStart(setCondition(setCondition(o, type, status), type2, status2), o)
<1> DEFINE u == setCondition(o, type, status)
<1>1. u \in JobSet /\ SameStart(u, o)
  BY SetConditionType, SetConditionKeepsStart
<1> HIDE DEF u
<1>2. SameStart(setCondition(u, type2, status2), u)
  BY <1>1, SetConditionKeepsStart
<1> QED
  BY <1>1, <1>2 DEF SameStart, u

\* The end of a JobSet gives the reason, and keeps the start time.
LEMMA EndKeepsStart ==
  ASSUME NEW o \in JobSet, NEW r \in FailedReasons
  PROVE  /\ SameStart(setJobSetCompletedCondition(o), o)
         /\ setJobSetFailedCondition(o, r).startTime = o.startTime
         /\ setJobSetFailedCondition(o, r).suspend = o.suspend
         /\ setJobSetFailedCondition(o, r).failedReason = r
<1> DEFINE u == setCondition(setCondition(o, "Failed", "True"), "Restarting", "False")
<1>1. SameStart(setJobSetCompletedCondition(o), o) /\ SameStart(u, o)
  BY TwoConditionsKeepStart DEF setJobSetCompletedCondition, ConditionTypes
<1>2. u \in JobSet
  BY SetConditionType DEF ConditionTypes
<1>3. setJobSetFailedCondition(o, r) = [u EXCEPT !.failedReason = r]
  BY DEF setJobSetFailedCondition
<1> HIDE DEF u
<1>4. /\ [u EXCEPT !.failedReason = r].startTime = u.startTime
      /\ [u EXCEPT !.failedReason = r].suspend = u.suspend
      /\ [u EXCEPT !.failedReason = r].failedReason = r
  BY Zenon, <1>2 DEF JobSet
<1> QED
  BY <1>1, <1>3, <1>4 DEF SameStart

\* syncActiveDeadlineStartTime and syncExecutionAttempts.
LEMMA SyncStart ==
  ASSUME NEW o \in JobSet, NEW t, NEW J
  PROVE  /\ SameStart(syncExecutionAttempts(o, J), o)
         /\ syncActiveDeadlineStartTime(o, t).suspend = o.suspend
         /\ syncActiveDeadlineStartTime(o, t).failedReason = o.failedReason
         /\ syncActiveDeadlineStartTime(o, t).startTime \in {Nil, t, o.startTime}
         /\ "JobSetActiveDeadlineSeconds" \notin Gates \/ o.suspend =>
              syncActiveDeadlineStartTime(o, t).startTime = Nil
         /\ "JobSetActiveDeadlineSeconds" \in Gates /\ ~o.suspend =>
              syncActiveDeadlineStartTime(o, t).startTime = IF o.startTime = Nil THEN t ELSE o.startTime
<1>1. ASSUME NEW v
      PROVE  /\ SameStart([o EXCEPT !.executionAttempts = v], o)
             /\ [o EXCEPT !.startTime = v].startTime = v
             /\ [o EXCEPT !.startTime = v].suspend = o.suspend
             /\ [o EXCEPT !.startTime = v].failedReason = o.failedReason
  BY Zenon DEF JobSet, SameStart
<1>2. \E v : syncExecutionAttempts(o, J) = [o EXCEPT !.executionAttempts = v]
  BY ZenonT(30) DEF syncExecutionAttempts
<1>3. PICK v : /\ syncActiveDeadlineStartTime(o, t) = [o EXCEPT !.startTime = v]
               /\ v \in {Nil, t, o.startTime}
               /\ "JobSetActiveDeadlineSeconds" \notin Gates \/ o.suspend => v = Nil
               /\ "JobSetActiveDeadlineSeconds" \in Gates /\ ~o.suspend =>
                    v = IF o.startTime = Nil THEN t ELSE o.startTime
  <2> DEFINE v == IF "JobSetActiveDeadlineSeconds" \notin Gates \/ o.suspend THEN Nil
                  ELSE IF o.startTime = Nil THEN t ELSE o.startTime
  <2>1. syncActiveDeadlineStartTime(o, t) = [o EXCEPT !.startTime = v]
    BY DEF syncActiveDeadlineStartTime
  <2>2. /\ v \in {Nil, t, o.startTime}
        /\ "JobSetActiveDeadlineSeconds" \notin Gates \/ o.suspend => v = Nil
        /\ "JobSetActiveDeadlineSeconds" \in Gates /\ ~o.suspend =>
             v = IF o.startTime = Nil THEN t ELSE o.startTime
    OBVIOUS
  <2> HIDE DEF v
  <2> QED
    BY Zenon, <2>1, <2>2
<1> QED
  BY ZenonT(30), <1>1, <1>2, <1>3

\* resetStartTimeOnGlobalRestart.
LEMMA ResetStart ==
  ASSUME NEW o \in JobSet, NEW t, NEW n, NEW u, u = resetStartTimeOnGlobalRestart(o, n, t)
  PROVE  /\ u.suspend = o.suspend /\ u.failedReason = o.failedReason /\ u.restarts = o.restarts
         /\ u.startTime = IF "JobSetActiveDeadlineSeconds" \in Gates /\ o.restarts > n /\ o.startTime # Nil
                          THEN t ELSE o.startTime
<1>1. /\ [o EXCEPT !.startTime = t].startTime = t
      /\ [o EXCEPT !.startTime = t].suspend = o.suspend
      /\ [o EXCEPT !.startTime = t].failedReason = o.failedReason
      /\ [o EXCEPT !.startTime = t].restarts = o.restarts
  BY Zenon DEF JobSet
<1> QED
  BY Zenon, <1>1 DEF resetStartTimeOnGlobalRestart

\* Restarting keeps them; the start time is reset afterwards.
LEMMA RecreateKeepsStart ==
  ASSUME NEW o \in JobSet, NEW b \in BOOLEAN, NEW j \in JobIds
  PROVE  /\ SameStart(failurePolicyRecreateAll(o, b), o)
         /\ SameStart(failurePolicyRecreateJob(o, j, b), o)
<1> DEFINE n == o.restarts + 1
           e == IF "ExecutionAttemptsTracking" \notin Gates THEN o.executionAttempts
                ELSE IF o.executionAttempts = Nil THEN o.restarts + 1 ELSE o.executionAttempts + 1
           c == IF b THEN o.restartsCountTowardsMax + 1 ELSE o.restartsCountTowardsMax
           u == [o EXCEPT !.restarts = n, !.executionAttempts = e, !.restartsCountTowardsMax = c]
<1>1. n \in Nat /\ e \in Nat \cup {Nil} /\ c \in Nat
  <2>1. o.restarts + 1 \in Nat /\ o.restartsCountTowardsMax + 1 \in Nat
    BY Fields
  <2>2. o.executionAttempts # Nil => o.executionAttempts + 1 \in Nat
    BY Fields, Successor
  <2> QED
    BY Zenon, <2>1, <2>2, Fields
<1>2. failurePolicyRecreateAll(o, b) = setCondition(u, "Restarting", "True")
  BY SMTT(30) DEF failurePolicyRecreateAll
<1> HIDE DEF n, e, c
<1>3. u \in JobSet /\ SameStart(u, o)
  BY Zenon, <1>1, CountRestartType DEF JobSet, SameStart
<1> HIDE DEF u
<1>4. SameStart(setCondition(u, "Restarting", "True"), u)
  BY <1>3, SetConditionKeepsStart
<1>5. SameStart(failurePolicyRecreateJob(o, j, b), o)
  BY Zenon DEF failurePolicyRecreateJob, JobSet, SameStart
<1> QED
  BY ZenonT(30), <1>2, <1>3, <1>4, <1>5 DEF SameStart

\* The failure policy gives its own reasons.
LEMMA FailurePolicyStart ==
  ASSUME NEW o \in JobSet, NEW m \in [action : Actions, job : JobIds]
  PROVE  /\ executeFailurePolicy(o, m).startTime = o.startTime
         /\ executeFailurePolicy(o, m).suspend = o.suspend
         /\ executeFailurePolicy(o, m).failedReason = "DeadlineExceeded" =>
              o.failedReason = "DeadlineExceeded"
<1> DEFINE P(u) == /\ u.startTime = o.startTime /\ u.suspend = o.suspend
                   /\ u.failedReason = "DeadlineExceeded" => o.failedReason = "DeadlineExceeded"
<1>1. ASSUME NEW r \in {"FailedJobs", "FailJobSetAction", "ReachedMaxRestarts"}
      PROVE  P(setJobSetFailedCondition(o, r))
  BY EndKeepsStart DEF FailedReasons
<1>2. ASSUME NEW b \in BOOLEAN
      PROVE  P(failurePolicyRecreateAll(o, b)) /\ P(failurePolicyRecreateJob(o, m.job, b))
  BY RecreateKeepsStart DEF SameStart
<1> HIDE DEF P
<1>3. P(restartJobSetActionApplier(o)) /\ P(restartJobActionApplier(o, m.job))
  BY Zenon, <1>1, <1>2 DEF restartJobSetActionApplier, restartJobActionApplier
<1>4. m.action \in Actions /\ HasFailurePolicy \in BOOLEAN
  BY PolicyAssumption
<1>5. P(executeFailurePolicy(o, m))
  BY Zenon, <1>1, <1>2, <1>3, <1>4 DEF executeFailurePolicy, Actions
<1> QED
  BY ZenonT(30), <1>5 DEF P

\* The preparation of reconcile starts the clock of a JobSet that has none.
LEMMA PreparedStart ==
  ASSUME TypeOK
  PROVE  /\ Prepared.suspend = jsCache.suspend /\ Prepared.failedReason = jsCache.failedReason
         /\ Prepared.startTime \in {Nil, now, jsCache.startTime}
         /\ "JobSetActiveDeadlineSeconds" \notin Gates \/ jsCache.suspend => Prepared.startTime = Nil
         /\ "JobSetActiveDeadlineSeconds" \in Gates /\ ~jsCache.suspend =>
              Prepared.startTime = IF jsCache.startTime = Nil THEN now ELSE jsCache.startTime
<1> DEFINE o == IF ~jsCache.suspend /\ allJobsReady(jsCache, jobsCache)
                THEN setCondition(jsCache, "Restarting", "False") ELSE jsCache
<1>1. jsCache \in JobSet
  BY DEF TypeOK
<1>2. o \in JobSet /\ SameStart(o, jsCache)
  BY <1>1, SetConditionType, SetConditionKeepsStart DEF ConditionTypes, SameStart
<1>3. Prepared = syncActiveDeadlineStartTime(o, now)
  BY DEF Prepared
<1> HIDE DEF o
<1>4. o.suspend = jsCache.suspend /\ o.startTime = jsCache.startTime /\ o.failedReason = jsCache.failedReason
  BY <1>2 DEF SameStart
<1>5. /\ Prepared.suspend = o.suspend /\ Prepared.failedReason = o.failedReason
      /\ Prepared.startTime \in {Nil, now, o.startTime}
      /\ "JobSetActiveDeadlineSeconds" \notin Gates \/ o.suspend => Prepared.startTime = Nil
      /\ "JobSetActiveDeadlineSeconds" \in Gates /\ ~o.suspend =>
           Prepared.startTime = IF o.startTime = Nil THEN now ELSE o.startTime
  BY ZenonT(30), <1>2, <1>3, SyncStart
<1> QED
  BY ZenonT(30), <1>4, <1>5

\* Every result of a policy: a restart restarts the clock, a suspended JobSet has none,
\* and only the deadline gives DeadlineExceeded as a reason.
ClockFrom(u) ==
  /\ u.suspend = jsCache.suspend
  /\ jsCache.suspend => u.startTime = Nil
  /\ u.failedReason = "DeadlineExceeded" => jsCache.failedReason = "DeadlineExceeded" \/ Expired
  /\ u.startTime \in {Nil, now, jsCache.startTime}
  /\ u.restarts # jsCache.restarts => u.startTime \in {Nil, now}
  /\ u.restarts = jsCache.restarts => u.startTime = Prepared.startTime

\* Every result of a policy is one.
LEMMA ResultsClock ==
  ASSUME TypeOK, NEW u \in PolicyResults PROVE ClockFrom(u)
<1>1. /\ Prepared \in JobSet /\ now \in Nat /\ jsCache \in JobSet
      /\ Prepared.restarts = jsCache.restarts
  BY Zenon, PreparedType, PreparedKeeps DEF SameCounters, TypeOK
<1>2. ASSUME NEW w, SameStart(w, Prepared), w.restarts = jsCache.restarts PROVE ClockFrom(w)
  BY Zenon, <1>2, PreparedStart DEF ClockFrom, SameStart
<1>3. CASE u = setJobSetFailedCondition(Prepared, "DeadlineExceeded") /\ Expired
  <2>1. u.startTime = Prepared.startTime /\ u.suspend = Prepared.suspend
    BY Zenon, <1>1, <1>3, EndKeepsStart DEF FailedReasons
  <2>2. u.restarts = Prepared.restarts
    BY Zenon, <1>1, <1>3, FailedKeeps DEF FailedReasons, SameCounters
  <2> QED
    BY Zenon, <1>1, <1>3, <2>1, <2>2, PreparedStart DEF ClockFrom
<1>4. CASE u = setJobSetCompletedCondition(Prepared)
  <2>1. SameStart(u, Prepared) /\ u.restarts = Prepared.restarts
    BY ZenonT(30), <1>1, <1>4, EndKeepsStart, CompletedKeeps DEF FailedReasons, SameCounters
  <2> QED
    BY Zenon, <1>1, <1>2, <2>1
<1>5. Counted \in JobSet /\ SameStart(Counted, Prepared) /\ Counted.restarts = jsCache.restarts
  BY ZenonT(30), <1>1, SyncStart, CountedKeeps DEF Counted
<1>6. CASE u = Counted
  BY Zenon, <1>2, <1>5, <1>6
<1>7. CASE u = startupConditions(Counted, jobsCache)
  <2>1. SameStart(u, Counted)
    BY Zenon, <1>5, <1>7, SetConditionKeepsStart, TwoConditionsKeepStart DEF startupConditions, ConditionTypes
  <2>2. u.restarts = Counted.restarts
    BY Zenon, <1>5, <1>7, StartupKeeps DEF SameCounters
  <2> QED
    BY Zenon, <1>2, <1>5, <2>1, <2>2 DEF SameStart
<1>8. ASSUME NEW m \in Answers,
             u = resetStartTimeOnGlobalRestart(executeFailurePolicy(Prepared, m),
                                               Prepared.restarts, now)
      PROVE  ClockFrom(u)
  <2> DEFINE w == executeFailurePolicy(Prepared, m)
  <2>1. /\ w \in JobSet /\ w.startTime = Prepared.startTime /\ w.suspend = Prepared.suspend
        /\ w.failedReason = "DeadlineExceeded" => Prepared.failedReason = "DeadlineExceeded"
        /\ Advances(Prepared, w)
    BY Zenon, <1>1, <1>8, AnswersType, FailurePolicyType, FailurePolicyStart, FailurePolicyAdvances
  <2>2. u = resetStartTimeOnGlobalRestart(w, Prepared.restarts, now)
    BY ZenonT(30), <1>8
  <2> HIDE DEF w
  <2>3. /\ u.suspend = w.suspend /\ u.failedReason = w.failedReason /\ u.restarts = w.restarts
        /\ u.startTime =
             IF "JobSetActiveDeadlineSeconds" \in Gates /\ w.restarts > Prepared.restarts /\ w.startTime # Nil
             THEN now ELSE w.startTime
    BY <2>1, <2>2, ResetStart
  <2>4. w.restarts # Prepared.restarts => w.restarts > Prepared.restarts
    BY <1>1, <2>1, Fields DEF Advances
  <2>5. /\ Prepared.suspend = jsCache.suspend /\ Prepared.failedReason = jsCache.failedReason
        /\ Prepared.startTime \in {Nil, now, jsCache.startTime}
        /\ "JobSetActiveDeadlineSeconds" \notin Gates \/ jsCache.suspend => Prepared.startTime = Nil
    BY Zenon, PreparedStart
  <2>6. u.restarts = jsCache.restarts => u.startTime = Prepared.startTime
    BY <1>1, <2>1, <2>3, Fields
  <2>7. /\ u.restarts # jsCache.restarts => u.startTime \in {Nil, now}
        /\ jsCache.suspend => u.startTime = Nil
    BY Zenon, <1>1, <2>1, <2>3, <2>4, <2>5
  <2> QED
    BY Zenon, <2>1, <2>3, <2>5, <2>6, <2>7 DEF ClockFrom
<1> QED
  BY Zenon, <1>3, <1>4, <1>6, <1>7, <1>8 DEF PolicyResults

-----------------------------------------------------------------------------
(***************************************************************************)
(* The stream of states of the Jobs between the cache and the API server   *)
(* (StreamInv): a Job seen twice is the same Job, and its labels are       *)
(* within the cached counters.  So what the controller deletes by name is  *)
(* what it found obsolete in its cache.                                    *)
(***************************************************************************)

(* One Job in one step. *)

\* How one Job may change, from c to d, when the cache shows a.
Moves(a, c, d) ==
  \/ /\ Exists(c) /\ Exists(d)
     /\ d.restarts = c.restarts /\ d.jobRestartAttempt = c.jobRestartAttempt
     /\ Over(c) => d.phase = c.phase
     /\ Over(d) /\ d.deleting => Over(c)
     /\ d.deleting => c.deleting \/ Exists(a)
  \/ ~Exists(d) /\ ~d.deleting /\ (Exists(c) => c.deleting)
  \/ ~Exists(a) /\ ~Exists(c) /\ Exists(d) /\ ~d.deleting /\ ~Over(d)

\* When this step marks Job j for deletion, and when it creates it.
Marks(j) == jobs'[j].deleting /\ ~jobs[j].deleting
Creates(j) == ~Exists(jobs[j]) /\ Exists(jobs'[j])

\* In the caches, Job j is of an earlier attempt, or still active past the end.
Obsolete(j) ==
  \/ j \in previous(jsCache, jobsCache)
  \/ j \in active(jsCache, jobsCache) /\ (jobSetFinished(jsCache) \/ Expired)

\* The controller marks what its caches tell it to.
MarksFor(j) == j \in Owned(jobsCache) /\ Exists(jobs[j]) /\ Obsolete(j)

\* The controller creates, when its caches show nothing else to do.
CreatesFor(j) ==
  /\ jobs'[j].restarts = jsCache.restarts
  /\ jobs'[j].jobRestartAttempt <= jsCache.jobRestarts[j]
  /\ "RestartJob" \in Gates => jobs'[j].jobRestartAttempt = jsCache.jobRestarts[j]
  /\ ~jobSetFinished(jsCache) /\ ~SomeFailed /\ ~Succeeded /\ ~Expired
  /\ HasFailurePolicy /\ RestartStrategy = "BlockingRecreate" => previous(jsCache, jobsCache) = {}

Touches(j) ==
  /\ Moves(jobsCache[j], jobs[j], jobs'[j])
  /\ Marks(j) => MarksFor(j)
  /\ Creates(j) => CreatesFor(j)

\* A Job that is not touched.
LEMMA SameTouches ==
  ASSUME NEW j, jobs'[j] = jobs[j], jobs[j].deleting => Exists(jobs[j]) PROVE Touches(j)
BY ZenonT(30) DEF Touches, Moves, Marks, Creates

\* A Job in the hands of the Job controller.
LEMMA ChangeTouches ==
  ASSUME NEW j, Exists(jobs[j]), Exists(jobs'[j]),
         jobs'[j].restarts = jobs[j].restarts,
         jobs'[j].jobRestartAttempt = jobs[j].jobRestartAttempt,
         Over(jobs[j]) => jobs'[j].phase = jobs[j].phase,
         Over(jobs'[j]) /\ jobs'[j].deleting => Over(jobs[j]),
         jobs'[j].deleting <=> jobs[j].deleting
  PROVE  Touches(j)
BY ZenonT(30) DEF Touches, Moves, Marks, Creates

\* deleteJobs touches a Job only to mark it.
LEMMA MarkTouches ==
  ASSUME TypeOK, NEW D, NEW j \in JobIds, jobs'[j] = MarkDeleted(jobs, D)[j],
         jobs[j].deleting => Exists(jobs[j]),
         j \in D => j \in Owned(jobsCache) /\ Obsolete(j)
  PROVE  Touches(j)
<1>1. jobs[j] \in Job /\ jobs'[j] = IF j \in D /\ jobs[j].phase # "absent"
                                    THEN [jobs[j] EXCEPT !.deleting = TRUE] ELSE jobs[j]
  BY Zenon DEF TypeOK, MarkDeleted
<1>2. CASE j \in D /\ jobs[j].phase # "absent"
  <2> DEFINE d == [jobs[j] EXCEPT !.deleting = TRUE]
  <2>1. /\ d.restarts = jobs[j].restarts /\ d.jobRestartAttempt = jobs[j].jobRestartAttempt
        /\ d.phase = jobs[j].phase
    BY Zenon, <1>1 DEF Job
  <2>2. jobs'[j] = d
    BY ZenonT(30), <1>1, <1>2
  <2> HIDE DEF d
  <2>3. Exists(jobsCache[j])
    BY <1>2 DEF Owned, Exists
  <2> QED
    BY ZenonT(30), <1>2, <2>1, <2>2, <2>3 DEF Touches, Moves, Marks, MarksFor, Creates, Exists, Over
<1>3. CASE ~(j \in D /\ jobs[j].phase # "absent")
  BY ZenonT(30), <1>1, <1>3, SameTouches
<1> QED
  BY <1>2, <1>3

\* constructJob gives a Job the labels of the status it is created from.
LEMMA ConstructLabels ==
  ASSUME NEW o \in JobSet, NEW j \in JobIds
  PROVE  /\ constructJob(o, j).phase = "active" /\ ~constructJob(o, j).deleting
         /\ ~constructJob(o, j).ready /\ (constructJob(o, j).suspend <=> o.suspend)
         /\ constructJob(o, j).restarts = o.restarts
         /\ constructJob(o, j).jobRestartAttempt <= o.jobRestarts[j]
         /\ "RestartJob" \in Gates => constructJob(o, j).jobRestartAttempt = o.jobRestarts[j]
<1>1. o.jobRestarts[j] \in Nat
  BY Fields
<1>2. /\ constructJob(o, j).phase = "active" /\ constructJob(o, j).deleting = FALSE
      /\ constructJob(o, j).ready = FALSE /\ constructJob(o, j).suspend = o.suspend
      /\ constructJob(o, j).restarts = o.restarts
      /\ constructJob(o, j).jobRestartAttempt = IF "RestartJob" \in Gates THEN o.jobRestarts[j] ELSE 0
  BY ZenonT(30) DEF constructJob, NoJob
<1> QED
  BY <1>1, <1>2

SameLabels(d, job) ==
  /\ d.phase = job.phase /\ d.deleting = job.deleting
  /\ d.restarts = job.restarts /\ d.jobRestartAttempt = job.jobRestartAttempt

\* Suspending and resuming a Job changes neither its labels nor its phase.
LEMMA UpdateLabels ==
  ASSUME NEW o, NEW job \in Job, NEW d \in {suspendJob(job), resumeJob(o, job)}
  PROVE  SameLabels(d, job)
<1>1. SameLabels(suspendJob(job), job)
  BY Zenon DEF suspendJob, Job, SameLabels
<1>2. SameLabels(resumeJob(o, job), job)
  BY ZenonT(30) DEF resumeJob, Job, SameLabels
<1> QED
  BY Zenon, <1>1, <1>2

\* Where a Job created, suspended, resumed or left by StartJobs comes from.
LEMMA StartCases ==
  ASSUME NEW base, NEW o, StartJobs(base, o, TRUE), NEW j \in JobIds
  PROVE  \/ /\ jobs'[j] = constructJob(o, j)
            /\ j \in constructJobsFromTemplate(o, jobsCache) /\ jobs[j].phase = "absent"
         \/ /\ jobs'[j] \in {suspendJob(jobs[j]), resumeJob(o, jobs[j])}
            /\ j \in active(o, jobsCache) /\ jobs[j] = jobsCache[j]
            /\ ~o.suspend =>
                 jobs'[j] = resumeJob(o, jobs[j]) /\ j \in jobsToResume(o, jobsCache)
            /\ o.suspend => jobs'[j] = suspendJob(jobs[j])
         \/ jobs'[j] = MarkDeleted(jobs, Previous)[j]
<1> DEFINE create == constructJobsFromTemplate(o, jobsCache)
           update == jobsToSuspend(o, jobsCache) \cup jobsToResume(o, jobsCache)
           created(F) == Sequenced(create, {k \in create \ F : jobs[k].phase = "absent"})
           fresh(F) == {k \in update \ F : jobs[k] = jobsCache[k]}
           updated(F) == IF created(F) # create THEN {}
                         ELSE IF o.suspend THEN fresh(F) ELSE Sequenced(update, fresh(F))
           J(F) == [k \in JobIds |->
                 IF k \in created(F) THEN constructJob(o, k)
                 ELSE IF k \in updated(F)
                      THEN IF o.suspend THEN suspendJob(jobs[k]) ELSE resumeJob(o, jobs[k])
                      ELSE MarkDeleted(jobs, Previous)[k]]
<1>1. PICK F : WriteJobs(J(F))
  BY Zenon DEF StartJobs
<1>2. created(F) \subseteq {k \in create : jobs[k].phase = "absent"}
  BY Zenon DEF Sequenced
<1>3. updated(F) \subseteq {k \in update : jobs[k] = jobsCache[k]}
  BY ZenonT(30) DEF Sequenced
<1>4. /\ update \subseteq active(o, jobsCache)
      /\ ~o.suspend => update \subseteq jobsToResume(o, jobsCache)
  BY ZenonT(30) DEF jobsToSuspend, jobsToResume
<1>5. jobs'[j] = J(F)[j]
  BY ZenonT(30), <1>1 DEF WriteJobs
<1>6. jobs'[j] = IF j \in created(F) THEN constructJob(o, j)
                 ELSE IF j \in updated(F)
                      THEN IF o.suspend THEN suspendJob(jobs[j]) ELSE resumeJob(o, jobs[j])
                      ELSE MarkDeleted(jobs, Previous)[j]
  <2> HIDE DEF created, updated
  <2> QED
    BY ZenonT(30), <1>5
<1> HIDE DEF created, updated, create, update
<1> QED
  BY ZenonT(30), <1>2, <1>3, <1>4, <1>6 DEF create

\* The policies see the attempt of the cached copy.
LEMMA CountedPrevious ==
  ASSUME TypeOK PROVE previous(Counted, jobsCache) = previous(jsCache, jobsCache)
BY CountedKeeps DEF previous, SameJobCounters

\* createJobs, suspendJobs and resumeJobsIfNecessary.
LEMMA StartTouches ==
  ASSUME TypeOK, NEW base, StartJobs(base, Counted, TRUE), NEW j \in JobIds,
         jobs[j].deleting => Exists(jobs[j]),
         ~jobSetFinished(jsCache), ~SomeFailed, ~Succeeded, ~Expired
  PROVE  Touches(j)
<1>1. jobs[j] \in Job /\ Counted \in JobSet
  BY Zenon, CountedKeeps DEF TypeOK
<1>2. CASE /\ jobs'[j] = constructJob(Counted, j)
           /\ j \in constructJobsFromTemplate(Counted, jobsCache) /\ jobs[j].phase = "absent"
  <2> DEFINE d == constructJob(Counted, j)
  <2>1. /\ d.phase = "active" /\ ~d.deleting /\ d.restarts = jsCache.restarts
        /\ d.jobRestartAttempt <= jsCache.jobRestarts[j]
        /\ "RestartJob" \in Gates => d.jobRestartAttempt = jsCache.jobRestarts[j]
    BY ZenonT(30), <1>1, ConstructLabels, CountedKeeps DEF SameJobCounters
  <2> HIDE DEF d
  <2>2. /\ jobsCache[j].phase = "absent"
        /\ HasFailurePolicy /\ RestartStrategy = "BlockingRecreate" =>
             previous(jsCache, jobsCache) = {}
    BY Zenon, <1>2, CountedPrevious DEF constructJobsFromTemplate, Owned
  <2>3. jobs'[j] = d
    BY Zenon, <1>2 DEF d
  <2>4. CreatesFor(j)
    BY Zenon, <2>1, <2>2, <2>3 DEF CreatesFor
  <2>5. Moves(jobsCache[j], jobs[j], jobs'[j]) /\ ~Marks(j)
    BY ZenonT(30), <1>2, <2>1, <2>2, <2>3 DEF Moves, Marks, Exists, Over
  <2> QED
    BY Zenon, <2>4, <2>5 DEF Touches
<1>3. CASE /\ jobs'[j] \in {suspendJob(jobs[j]), resumeJob(Counted, jobs[j])}
           /\ j \in active(Counted, jobsCache) /\ jobs[j] = jobsCache[j]
  <2>1. jobs[j].phase = "active"
    BY ZenonT(30), <1>3 DEF active, current
  <2>2. /\ jobs'[j].phase = jobs[j].phase /\ jobs'[j].deleting = jobs[j].deleting
        /\ jobs'[j].restarts = jobs[j].restarts
        /\ jobs'[j].jobRestartAttempt = jobs[j].jobRestartAttempt
    <3>1. /\ jobs[j] \in Job
          /\ jobs'[j] \in {suspendJob(jobs[j]), resumeJob(Counted, jobs[j])}
      BY Zenon, <1>1, <1>3
    <3>2. SameLabels(jobs'[j], jobs[j])
      BY Zenon, <3>1, UpdateLabels
    <3> QED
      BY Zenon, <3>2 DEF SameLabels
  <2> QED
    BY Zenon, <2>1, <2>2, ChangeTouches DEF Exists, Over
<1>4. CASE jobs'[j] = MarkDeleted(jobs, Previous)[j]
  <2>1. j \in Previous => j \in Owned(jobsCache) /\ Obsolete(j)
    BY ZenonT(30) DEF Previous, deleteJobs, previous, Obsolete
  <2> QED
    BY ZenonT(30), <1>4, <2>1, MarkTouches
<1> QED
  BY ZenonT(30), <1>2, <1>3, <1>4, StartCases

\* Every branch of reconcile.
LEMMA ReconcileTouches ==
  ASSUME TypeOK, Reconcile(TRUE), NEW j \in JobIds, jobs[j].deleting => Exists(jobs[j])
  PROVE  Touches(j)
<1>1. j \in Previous => j \in Owned(jobsCache) /\ Obsolete(j)
  BY Zenon DEF Previous, deleteJobs, previous, Obsolete
<1>2. ASSUME j \in deleteJobs(active(jsCache, jobsCache)), jobSetFinished(jsCache) \/ Expired
      PROVE  j \in Owned(jobsCache) /\ Obsolete(j)
  BY Zenon, <1>2 DEF deleteJobs, active, current, Obsolete
<1>3. ASSUME NEW D, WriteJobs(MarkDeleted(jobs, D)), j \in D => j \in Owned(jobsCache) /\ Obsolete(j)
      PROVE  Touches(j)
  <2>1. jobs'[j] = MarkDeleted(jobs, D)[j]
    BY <1>3 DEF WriteJobs
  <2> QED
    BY Zenon, <1>3, <2>1, MarkTouches
<1>4. CASE WriteJobs(MarkDeleted(jobs, Previous))
  BY <1>1, <1>3, <1>4
<1>5. CASE ReconcileFinished(TRUE)
  <2>1. PICK F : WriteJobs(MarkDeleted(jobs, deleteJobs(active(jsCache, jobsCache)) \ F))
    BY Zenon, <1>5 DEF ReconcileFinished
  <2>2. jobSetFinished(jsCache)
    BY <1>5 DEF ReconcileFinished
  <2> QED
    BY <1>2, <1>3, <2>1, <2>2
<1>6. CASE ReconcileDeleteError(TRUE)
  <2>1. PICK F : WriteJobs(MarkDeleted(jobs, Previous \ F))
    BY Zenon, <1>6 DEF ReconcileDeleteError
  <2> QED
    BY <1>1, <1>3, <2>1
<1>7. CASE failJobSetOnActiveDeadline(TRUE)
  <2>1. PICK F : WriteJobs(MarkDeleted(jobs, Previous \cup
                   (deleteJobs(active(jsCache, jobsCache)) \ F)))
    BY Zenon, <1>7 DEF failJobSetOnActiveDeadline
  <2>2. Expired
    BY Zenon, <1>7 DEF failJobSetOnActiveDeadline
  <2> QED
    BY Zenon, <1>1, <1>2, <1>3, <2>1, <2>2
<1>8. CASE ReconcileFailed(TRUE)
  BY ZenonT(30), <1>4, <1>8 DEF ReconcileFailed
<1>9. CASE ReconcileSucceeded(TRUE)
  BY <1>4, <1>9 DEF ReconcileSucceeded
<1>10. CASE ReconcileReplicatedJobs(TRUE)
  <2>1. /\ ~jobSetFinished(jsCache) /\ ~SomeFailed /\ ~Succeeded /\ ~Expired
        /\ \/ WriteJobs(MarkDeleted(jobs, Previous))
           \/ StartJobs(Counted, Counted, TRUE)
           \/ StartJobs(jsCache, Counted, TRUE)
    BY Zenon, <1>10 DEF ReconcileReplicatedJobs, Counted
  <2> QED
    BY Zenon, <1>4, <2>1, StartTouches
<1> QED
  BY Zenon, <1>5, <1>6, <1>7, <1>8, <1>9, <1>10 DEF Reconcile

\* Everyone else, if nobody else deletes Jobs.
LEMMA OtherTouches ==
  ASSUME TypeOK, [Next]_vars, ~Reconcile(TRUE), MaxDeletions = 0,
         NEW j \in JobIds, jobs[j].deleting => Exists(jobs[j])
  PROVE  Touches(j)
<1>1. jobs' = jobs \/ \E k \in JobIds : JobController(k) \/ UserDeletesJob(k)
  BY Zenon DEF Next, vars, apiVars, SyncJobSet, DelayJobs, SyncJobs, Tick, UserSetsSuspend
<1>2. ASSUME NEW k \in JobIds PROVE ~UserDeletesJob(k)
  BY DEF UserDeletesJob, TypeOK
<1>3. ASSUME NEW k \in JobIds, JobController(k) PROVE Touches(j)
  <2>1. jobs \in [JobIds -> Job] /\ jobs[k] \in Job
    BY DEF TypeOK
  <2>2. CASE j # k
    <3>1. \E job : jobs' = [jobs EXCEPT ![k] = job]
      BY Zenon, <1>3 DEF JobController, JobReady, JobStopped, JobUnready, JobComplete, JobFail, JobRemoved,
         SetJob, WriteJobs
    <3> QED
      BY <2>1, <2>2, <3>1, SameTouches
  <2>3. CASE j = k
    <3>1. ASSUME NEW job, SetJob(k, job), jobs[k].phase = "active", ~jobs[k].deleting,
                 job.phase # "absent", job.deleting = jobs[k].deleting,
                 job.restarts = jobs[k].restarts, job.jobRestartAttempt = jobs[k].jobRestartAttempt
          PROVE  Touches(j)
      <4>1. jobs'[j] = job
        BY <2>1, <2>3, <3>1 DEF SetJob, WriteJobs
      <4>2. jobs[j].phase = "active" /\ ~jobs[j].deleting
        BY <2>3, <3>1
      <4> QED
        BY ZenonT(30), <2>3, <3>1, <4>1, <4>2, ChangeTouches DEF Exists, Over
    <3>2. CASE JobReady(k)
      BY Zenon, <2>1, <3>1, <3>2 DEF JobReady, Running, Job
    <3>3. CASE JobStopped(k)
      BY Zenon, <2>1, <3>1, <3>3 DEF JobStopped, Job
    <3>4. CASE JobUnready(k)
      BY ZenonT(30), <2>1, <3>1, <3>4 DEF JobUnready, Running, Job
    <3>5. CASE JobComplete(k)
      <4> DEFINE job == [jobs[k] EXCEPT !.phase = "complete", !.ready = FALSE]
      <4>1. /\ job.phase = "complete" /\ job.deleting = jobs[k].deleting
            /\ job.restarts = jobs[k].restarts /\ job.jobRestartAttempt = jobs[k].jobRestartAttempt
        BY Zenon, <2>1 DEF Job
      <4>2. SetJob(k, job) /\ jobs[k].phase = "active" /\ ~jobs[k].deleting
        BY Zenon, <3>5 DEF JobComplete, Running
      <4> HIDE DEF job
      <4> QED
        BY ZenonT(30), <3>1, <4>1, <4>2
    <3>6. CASE JobFail(k)
      <4> DEFINE job(r) == [jobs[k] EXCEPT !.phase = "failed", !.ready = FALSE,
                                           !.reason = r, !.failedAt = now]
      <4>1. PICK r : SetJob(k, job(r)) /\ jobs[k].phase = "active" /\ ~jobs[k].deleting
        BY Zenon, <3>6 DEF JobFail, Running
      <4>2. /\ job(r).phase = "failed" /\ job(r).deleting = jobs[k].deleting
            /\ job(r).restarts = jobs[k].restarts
            /\ job(r).jobRestartAttempt = jobs[k].jobRestartAttempt
        BY ZenonT(30), <2>1 DEF Job
      <4> HIDE DEF job
      <4> QED
        BY ZenonT(30), <3>1, <4>1, <4>2
    <3>7. CASE JobRemoved(k)
      <4>1. jobs'[j] = NoJob /\ jobs[j].deleting
        BY <2>1, <2>3, <3>7 DEF JobRemoved, SetJob, WriteJobs
      <4>2. NoJob.phase = "absent" /\ NoJob.deleting = FALSE
        BY DEF NoJob
      <4> QED
        BY ZenonT(30), <4>1, <4>2 DEF Touches, Moves, Marks, Creates, Exists
    <3> QED
      BY ZenonT(30), <1>3, <3>2, <3>3, <3>4, <3>5, <3>6, <3>7 DEF JobController
  <2> QED
    BY <2>2, <2>3
<1> QED
  BY Zenon, <1>1, <1>2, <1>3, SameTouches

\* Every step.
LEMMA NextTouches ==
  ASSUME TypeOK, [Next]_vars, MaxDeletions = 0, NEW j \in JobIds,
         jobs[j].deleting => Exists(jobs[j])
  PROVE  Touches(j)
BY Zenon, ReconcileTouches, OtherTouches

-----------------------------------------------------------------------------
(* The stream. *)

\* A change of the newest state keeps the order of the stream.
LEMMA FollowsStep ==
  ASSUME NEW z, NEW a, NEW b, NEW c, NEW d, Moves(z, c, d),
         Follows(z, a, c), Follows(z, c, c), Follows(a, b, c), Follows(a, c, c)
  PROVE  Follows(a, b, d) /\ Follows(a, d, d) /\ Follows(d, d, d)
<1>1. CASE /\ Exists(c) /\ Exists(d)
           /\ d.restarts = c.restarts /\ d.jobRestartAttempt = c.jobRestartAttempt
           /\ Over(c) => d.phase = c.phase
           /\ d.deleting => c.deleting \/ Exists(z)
  BY ZenonT(30), <1>1 DEF Follows, Over
<1>2. CASE ~Exists(d) /\ ~d.deleting /\ (Exists(c) => c.deleting)
  BY ZenonT(30), <1>2 DEF Follows
<1>3. CASE ~Exists(z) /\ ~Exists(c) /\ Exists(d) /\ ~d.deleting
  BY ZenonT(30), <1>3 DEF Follows
<1> QED
  BY ZenonT(30), <1>1, <1>2, <1>3 DEF Moves

\* The positions of the stream.
LEMMA Positions ==
  ASSUME TypeOK
  PROVE  /\ Newest \in Nat /\ Newest >= 1 /\ Newest = Len(jobsEvents) + 1 /\ Len(jobsEvents) \in Nat
         /\ Shown(0) = jobsCache /\ Shown(Newest) = jobs
         /\ \A i \in 1..Len(jobsEvents) : Shown(i) = jobsEvents[i]
<1>1. Len(jobsEvents) \in Nat
  BY DEF TypeOK
<1> QED
  BY <1>1 DEF Newest, Shown

\* Every state of the stream is a state of the Jobs.
LEMMA ShownType ==
  ASSUME TypeOK, NEW i \in 0..Newest PROVE Shown(i) \in [JobIds -> Job]
<1> DEFINE S == [JobIds -> Job]
<1>1. jobs \in S /\ jobsCache \in S /\ jobsEvents \in Seq(S)
  BY DEF TypeOK
<1> HIDE DEF S
<1>2. i = 0 \/ i = Newest \/ i \in 1..Len(jobsEvents)
  BY Positions
<1>3. Shown(i) \in S
  BY <1>1, <1>2, Positions
<1> QED
  BY <1>3 DEF S

\* Reading and delaying events only moves the states of the stream forward.
LEMMA StreamShift ==
  ASSUME TypeOK, DelayJobs \/ SyncJobs, NEW i \in 0..Newest', NEW k \in 0..Newest', i <= k
  PROVE  \E p, q \in 0..Newest : p <= q /\ Shown(i)' = Shown(p) /\ Shown(k)' = Shown(q)
<1> DEFINE n == Len(jobsEvents)
           S == [JobIds -> Job]
<1>1. jobsEvents \in Seq(S) /\ jobs \in S
  BY DEF TypeOK
<1> HIDE DEF S
<1>2. i \in Int /\ k \in Int /\ n \in Nat
  <2>1. Newest' \in Int
    <3>1. CASE DelayJobs
      BY <1>1, <3>1 DEF DelayJobs, Newest
    <3>2. CASE SyncJobs
      BY <1>1, <3>2 DEF SyncJobs, Newest
    <3> QED
      BY Zenon, <3>1, <3>2
  <2> QED
    BY <1>1, <2>1
<1>3. CASE DelayJobs
  <2>1. /\ Len(jobsEvents') = n + 1
        /\ \A m \in 1..(n + 1) : jobsEvents'[m] = IF m = n + 1 THEN jobs ELSE jobsEvents[m]
        /\ jobs' = jobs /\ jobsCache' = jobsCache
    BY <1>1, <1>3 DEF DelayJobs, apiVars
  <2>2. ASSUME NEW m \in 0..(n + 2)
        PROVE  Shown(m)' = Shown(IF m <= n THEN m ELSE n + 1)
    <3>1. CASE m <= n
      BY <1>2, <2>1, <3>1 DEF Shown, Newest
    <3>2. CASE m > n
      BY <1>2, <2>1, <3>2 DEF Shown, Newest
    <3> QED
      BY <1>2, <3>1, <3>2
  <2>3. i \in 0..(n + 2) /\ k \in 0..(n + 2)
    BY <1>2, <2>1 DEF Newest
  <2> DEFINE p == IF i <= n THEN i ELSE n + 1
             q == IF k <= n THEN k ELSE n + 1
  <2>4. p \in 0..Newest /\ q \in 0..Newest /\ p <= q
    BY <1>2, <2>3 DEF Newest
  <2>5. Shown(i)' = Shown(p) /\ Shown(k)' = Shown(q)
    BY Zenon, <2>2, <2>3
  <2> QED
    BY Zenon, <2>4, <2>5
<1>4. CASE SyncJobs /\ jobsEvents = <<>>
  <2>1. jobsCache' = jobs /\ jobs' = jobs /\ jobsEvents' = <<>> /\ n = 0
    BY <1>4 DEF SyncJobs
  <2>2. Newest' = 1 /\ Newest = 1
    BY <1>4, <2>1 DEF Newest
  <2>3. Shown(0)' = Shown(1) /\ Shown(1)' = Shown(1)
    BY <2>1 DEF Shown, Newest
  <2>4. i \in {0, 1} /\ k \in {0, 1}
    BY <2>2
  <2> QED
    BY <2>2, <2>3, <2>4
<1>5. CASE SyncJobs /\ jobsEvents # <<>>
  <2>1. /\ Len(jobsEvents') = n - 1 /\ n >= 1
        /\ \A m \in 1..(n - 1) : jobsEvents'[m] = jobsEvents[m + 1]
        /\ jobs' = jobs /\ jobsCache' = jobsEvents[1]
    BY <1>1, <1>5 DEF SyncJobs
  <2>2. ASSUME NEW m \in 0..n PROVE Shown(m)' = Shown(m + 1)
    BY <1>2, <2>1 DEF Shown, Newest
  <2>3. i \in 0..n /\ k \in 0..n
    BY <1>2, <2>1 DEF Newest
  <2>4. i + 1 \in 0..Newest /\ k + 1 \in 0..Newest /\ i + 1 <= k + 1
    BY <1>2, <2>3 DEF Newest
  <2> QED
    BY ZenonT(30), <2>2, <2>3, <2>4
<1> QED
  BY Zenon, <1>3, <1>4, <1>5

\* The order of the stream.
Ordered ==
  \A i, k \in 0..Newest : i <= k =>
    \A j \in JobIds : Follows(Shown(i)[j], Shown(k)[j], jobs[j])

\* The labels of the Jobs in it.
Labelled ==
  \A i \in 0..Newest : \A j \in Owned(Shown(i)) :
    /\ Shown(i)[j].restarts <= jsCache.restarts
    /\ Shown(i)[j].jobRestartAttempt <= jsCache.jobRestarts[j]

\* The cached JobSet is not ahead of the API server.
Behind ==
  /\ \A j \in JobIds : jsCache.jobRestarts[j] <= js.jobRestarts[j]
  /\ jobSetFinished(jsCache) =>
       jobSetFinished(js) /\ js.restarts = jsCache.restarts /\ js.jobRestarts = jsCache.jobRestarts

\* The parts of the invariant.
LEMMA StreamParts == StreamInv <=> Ordered /\ Labelled /\ Behind
BY ZenonT(30) DEF StreamInv, Ordered, Labelled, Behind

\* A step moves the stream, or adds to its end.
LEMMA StreamSteps ==
  ASSUME [Next]_vars
  PROVE  \/ (DelayJobs \/ SyncJobs) /\ jobs' = jobs /\ js' = js /\ jsCache' = jsCache
         \/ jobsCache' = jobsCache /\ jobsEvents' = jobsEvents
BY ZenonT(30) DEF Next, vars, apiVars, cacheVars, Reconcile, SyncJobSet, DelayJobs, SyncJobs, Tick,
   UserSetsSuspend, JobController, JobReady, JobStopped, JobUnready, JobComplete, JobFail,
   JobRemoved, UserDeletesJob, SetJob

\* In the second case only the newest state changes.
LEMMA WriteShown ==
  ASSUME jobsCache' = jobsCache, jobsEvents' = jobsEvents
  PROVE  /\ Newest' = Newest
         /\ \A i : i # Newest => Shown(i)' = Shown(i)
         /\ \A i : i = Newest /\ i # 0 => Shown(i)' = jobs'
BY DEF Shown, Newest

\* Any two positions are in order with the cache before them and the API server after them.
LEMMA OrderedFacts ==
  ASSUME TypeOK, Ordered, NEW i \in 0..Newest, NEW k \in 0..Newest, i <= k, NEW j \in JobIds
  PROVE  /\ Follows(Shown(i)[j], Shown(k)[j], jobs[j])
         /\ Follows(jobsCache[j], Shown(i)[j], jobs[j])
         /\ Follows(Shown(i)[j], jobs[j], jobs[j])
         /\ Follows(jobsCache[j], jobs[j], jobs[j])
         /\ Follows(jobs[j], jobs[j], jobs[j])
<1>1. 0 \in 0..Newest /\ Newest \in 0..Newest /\ 0 <= i /\ i <= Newest /\ 0 <= Newest /\ Newest <= Newest
  BY Positions
<1> QED
  BY Zenon, <1>1, Positions DEF Ordered

\* A Job that is being deleted exists.
LEMMA DeletingExists ==
  ASSUME TypeOK, Ordered, NEW j \in JobIds PROVE jobs[j].deleting => Exists(jobs[j])
<1>1. Newest \in 0..Newest /\ Newest <= Newest
  BY Positions
<1>2. Follows(jobs[j], jobs[j], jobs[j])
  BY Zenon, <1>1, OrderedFacts
<1> QED
  BY <1>2 DEF Follows

\* Every step keeps the order.
LEMMA NextOrdered ==
  ASSUME TypeOK, Ordered, [Next]_vars, MaxDeletions = 0 PROVE Ordered'
<1> SUFFICES ASSUME NEW i \in 0..Newest', NEW k \in 0..Newest', i <= k, NEW j \in JobIds
             PROVE  Follows(Shown(i)'[j], Shown(k)'[j], jobs'[j])
  BY DEF Ordered
<1>1. CASE (DelayJobs \/ SyncJobs) /\ jobs' = jobs
  <2>1. PICK p \in 0..Newest, q \in 0..Newest :
          p <= q /\ Shown(i)' = Shown(p) /\ Shown(k)' = Shown(q)
    BY Zenon, <1>1, StreamShift
  <2> QED
    BY <1>1, <2>1, OrderedFacts
<1>2. CASE jobsCache' = jobsCache /\ jobsEvents' = jobsEvents
  <2>1. i \in 0..Newest /\ k \in 0..Newest /\ Newest # 0
    BY <1>2, WriteShown, Positions
  <2>2. Moves(jobsCache[j], jobs[j], jobs'[j])
    BY Zenon, NextTouches, DeletingExists DEF Touches
  <2> DEFINE a == Shown(i)[j]
             b == Shown(k)[j]
             d == jobs'[j]
  <2>3. /\ Follows(jobsCache[j], a, jobs[j]) /\ Follows(jobsCache[j], jobs[j], jobs[j])
        /\ Follows(a, b, jobs[j]) /\ Follows(a, jobs[j], jobs[j])
    BY ZenonT(30), <2>1, OrderedFacts
  <2> HIDE DEF a, b, d
  <2>4. Follows(a, b, d) /\ Follows(a, d, d) /\ Follows(d, d, d)
    BY ZenonT(30), <2>2, <2>3, FollowsStep DEF d
  <2>5. i # Newest => Shown(i)'[j] = a
    BY Zenon, <1>2, WriteShown DEF a
  <2>6. k # Newest => Shown(k)'[j] = b
    BY Zenon, <1>2, WriteShown DEF b
  <2>7. (i = Newest => Shown(i)'[j] = d) /\ (k = Newest => Shown(k)'[j] = d)
    BY ZenonT(30), <1>2, <2>1, WriteShown DEF d
  <2>8. i = Newest => k = Newest
    BY <2>1, Positions
  <2> QED
    BY ZenonT(30), <2>4, <2>5, <2>6, <2>7, <2>8 DEF d
<1> QED
  BY ZenonT(30), <1>1, <1>2, StreamSteps

-----------------------------------------------------------------------------
(* What a policy changes of the attempt and of the end of a JobSet. *)

\* Which restarts a result u of a policy for o may count, when the Jobs in F have failed.
Counts(o, u, F) ==
  /\ u.restarts = o.restarts \/ (F # {} /\ HasFailurePolicy /\ u.restarts = o.restarts + 1)
  /\ \A j \in JobIds : \/ u.jobRestarts[j] = o.jobRestarts[j]
                       \/ j \in F /\ u.jobRestarts[j] = o.jobRestarts[j] + 1

\* Only the conditions Completed and Failed end a JobSet.
LEMMA SetConditionFinished ==
  ASSUME NEW o \in JobSet, NEW type \in ConditionTypes \ {"Completed", "Failed"}, NEW status
  PROVE  jobSetFinished(setCondition(o, type, status)) <=> jobSetFinished(o)
<1>1. /\ setCondition(o, type, status).conditions["Completed"] = o.conditions["Completed"]
      /\ setCondition(o, type, status).conditions["Failed"] = o.conditions["Failed"]
  <2> DEFINE c == [t \in ConditionTypes |->
       IF t = type
       THEN IF o.conditions[t] = "None" /\ status = "False" THEN "None" ELSE status
       ELSE IF exclusiveConditions(t, type) /\ o.conditions[t] = "True" /\ status = "True"
            THEN "False" ELSE o.conditions[t]]
  <2>1. setCondition(o, type, status) = [o EXCEPT !.conditions = c]
    BY Zenon DEF setCondition
  <2>2. ASSUME NEW t \in {"Completed", "Failed"} PROVE c[t] = o.conditions[t]
    <3>1. t \in ConditionTypes /\ t # type
      BY DEF ConditionTypes
    <3>2. ~exclusiveConditions(t, type)
      BY DEF exclusiveConditions
    <3> QED
      BY ZenonT(30), <3>1, <3>2
  <2> HIDE DEF c
  <2>3. [o EXCEPT !.conditions = c].conditions = c
    BY Zenon DEF JobSet
  <2> QED
    BY <2>1, <2>2, <2>3
<1> QED
  BY <1>1 DEF jobSetFinished

\* The other steps of a reconcile do not end it.
LEMMA SyncFinished ==
  ASSUME NEW o \in JobSet, NEW t, NEW J
  PROVE  /\ jobSetFinished(syncActiveDeadlineStartTime(o, t)) <=> jobSetFinished(o)
         /\ jobSetFinished(syncExecutionAttempts(o, J)) <=> jobSetFinished(o)
<1>1. ASSUME NEW v
      PROVE  /\ [o EXCEPT !.startTime = v].conditions = o.conditions
             /\ [o EXCEPT !.executionAttempts = v].conditions = o.conditions
  BY Zenon DEF JobSet
<1>2. \E v : syncActiveDeadlineStartTime(o, t) = [o EXCEPT !.startTime = v]
  BY Zenon DEF syncActiveDeadlineStartTime
<1>3. \E v : syncExecutionAttempts(o, J) = [o EXCEPT !.executionAttempts = v]
  BY Zenon DEF syncExecutionAttempts
<1> QED
  BY <1>1, <1>2, <1>3 DEF jobSetFinished

\* Neither do the startup conditions.
LEMMA StartupFinished ==
  ASSUME NEW o \in JobSet, NEW J
  PROVE  jobSetFinished(startupConditions(o, J)) <=> jobSetFinished(o)
<1>1. /\ setCondition(o, "Suspended", "True") \in JobSet
      /\ setCondition(o, "StartupPolicyCompleted", "True") \in JobSet
  BY SetConditionType DEF ConditionTypes
<1>2. ASSUME NEW u \in JobSet, jobSetFinished(u) <=> jobSetFinished(o),
             NEW type \in ConditionTypes \ {"Completed", "Failed"}, NEW status
      PROVE  jobSetFinished(setCondition(u, type, status)) <=> jobSetFinished(o)
  BY Zenon, <1>2, SetConditionFinished
<1>3. /\ jobSetFinished(setCondition(o, "Suspended", "True")) <=> jobSetFinished(o)
      /\ jobSetFinished(setCondition(o, "StartupPolicyCompleted", "True")) <=> jobSetFinished(o)
  BY Zenon, <1>2 DEF ConditionTypes
<1> QED
  BY Zenon, <1>1, <1>2, <1>3 DEF startupConditions, ConditionTypes

\* Nor the count of an execution attempt.
LEMMA CountedFinished ==
  ASSUME TypeOK PROVE jobSetFinished(Counted) <=> jobSetFinished(jsCache)
<1> DEFINE o == IF ~jsCache.suspend /\ allJobsReady(jsCache, jobsCache)
                THEN setCondition(jsCache, "Restarting", "False") ELSE jsCache
<1>1. jsCache \in JobSet
  BY DEF TypeOK
<1>2. o \in JobSet /\ (jobSetFinished(o) <=> jobSetFinished(jsCache))
  BY Zenon, <1>1, SetConditionType, SetConditionFinished DEF ConditionTypes
<1>3. Prepared = syncActiveDeadlineStartTime(o, now)
  BY DEF Prepared
<1> HIDE DEF o
<1>4. jobSetFinished(Prepared) <=> jobSetFinished(jsCache)
  BY Zenon, <1>2, <1>3, SyncFinished
<1> QED
  BY Zenon, <1>4, PreparedType, SyncFinished DEF Counted

\* Equal counters count nothing.
LEMMA SameCounts ==
  ASSUME NEW o, NEW u, NEW F, u.restarts = o.restarts, SameJobCounters(u, o)
  PROVE  Counts(o, u, F)
BY Zenon DEF Counts, SameJobCounters

\* Restarting the JobSet counts one restart.
LEMMA RecreateAllCounts ==
  ASSUME NEW o \in JobSet, NEW b \in BOOLEAN, NEW F, F # {}, HasFailurePolicy
  PROVE  Counts(o, failurePolicyRecreateAll(o, b), F)
BY RecreateAllKeepsJobs DEF Counts, SameJobCounters

\* Restarting a Job counts one restart of that Job.
LEMMA RecreateOneCounts ==
  ASSUME NEW o \in JobSet, NEW b \in BOOLEAN, NEW F, NEW j \in F \cap JobIds
  PROVE  Counts(o, failurePolicyRecreateJob(o, j, b), F)
<1> DEFINE u == failurePolicyRecreateJob(o, j, b)
<1>1. u.restarts = o.restarts
  BY RecreateJobKeeps DEF SameCounters
<1>2. /\ u.jobRestarts[j] = o.jobRestarts[j] + 1
      /\ \A k \in JobIds \ {j} : u.jobRestarts[k] = o.jobRestarts[k]
  BY ZenonT(30), RecreateJobCounts
<1> HIDE DEF u
<1>3. Counts(o, u, F)
  BY <1>1, <1>2 DEF Counts
<1> QED
  BY <1>3 DEF u

\* executeFailurePolicy counts at most one restart, of the JobSet or of the failed Job.
LEMMA FailurePolicyCounts ==
  ASSUME NEW o \in JobSet, NEW F \in SUBSET JobIds, NEW m \in [action : Actions, job : F]
  PROVE  Counts(o, executeFailurePolicy(o, m), F)
<1>1. m.action \in Actions /\ m.job \in F \cap JobIds /\ F # {}
  BY ZenonT(30)
<1>2. ASSUME NEW r \in FailedReasons PROVE Counts(o, setJobSetFailedCondition(o, r), F)
  BY ZenonT(30), FailedKeeps, EndKeepsJobs, SameCounts DEF SameCounters
<1>3. ASSUME HasFailurePolicy
      PROVE  /\ Counts(o, failurePolicyRecreateAll(o, TRUE), F)
             /\ Counts(o, failurePolicyRecreateAll(o, FALSE), F)
  BY Zenon, <1>1, <1>3, RecreateAllCounts
<1>4. /\ Counts(o, failurePolicyRecreateJob(o, m.job, TRUE), F)
      /\ Counts(o, failurePolicyRecreateJob(o, m.job, FALSE), F)
  BY ZenonT(30), <1>1, RecreateOneCounts
<1>5. /\ Counts(o, setJobSetFailedCondition(o, "FailedJobs"), F)
      /\ Counts(o, setJobSetFailedCondition(o, "FailJobSetAction"), F)
      /\ Counts(o, setJobSetFailedCondition(o, "ReachedMaxRestarts"), F)
  BY <1>2 DEF FailedReasons
<1>6. HasFailurePolicy => Counts(o, restartJobSetActionApplier(o), F)
  BY Zenon, <1>3, <1>5 DEF restartJobSetActionApplier
<1>7. Counts(o, restartJobActionApplier(o, m.job), F)
  BY Zenon, <1>4, <1>5 DEF restartJobActionApplier
<1> QED
  BY Zenon, <1>1, <1>3, <1>4, <1>5, <1>6, <1>7, PolicyAssumption DEF executeFailurePolicy, Actions

\* Every result of a policy counts at most what failed, and ends the JobSet only for a reason.
LEMMA ResultEffects ==
  ASSUME TypeOK, NEW u \in PolicyResults
  PROVE  /\ Counts(jsCache, u, failed(jsCache, jobsCache))
         /\ jobSetFinished(u) => jobSetFinished(jsCache) \/ SomeFailed \/ Succeeded \/ Expired
         /\ Expired => u.restarts = jsCache.restarts /\ u.jobRestarts = jsCache.jobRestarts
<1> DEFINE F == failed(jsCache, jobsCache)
<1>1. /\ Prepared \in JobSet /\ now \in Nat
      /\ Prepared.restarts = jsCache.restarts /\ SameJobCounters(Prepared, jsCache)
  BY ZenonT(30), PreparedType, PreparedKeeps, PreparedKeepsJobs DEF SameCounters
<1>2. F \in SUBSET JobIds
  BY DEF failed, current, Owned
<1>a. ASSUME u.restarts = jsCache.restarts, SameJobCounters(u, jsCache)
      PROVE  Counts(jsCache, u, F) /\ u.jobRestarts = jsCache.jobRestarts
  <2>1. Counts(jsCache, u, F)
    BY Zenon, <1>a, SameCounts
  <2>2. u.jobRestarts = jsCache.jobRestarts
    BY <1>a DEF SameJobCounters
  <2> QED
    BY Zenon, <2>1, <2>2
<1>3. CASE u = Counted
  <2>1. u.restarts = jsCache.restarts /\ SameJobCounters(u, jsCache)
    BY <1>3, CountedKeeps
  <2>2. jobSetFinished(u) <=> jobSetFinished(jsCache)
    BY ZenonT(30), <1>3, CountedFinished
  <2> QED
    BY ZenonT(30), <1>a, <2>1, <2>2
<1>4. CASE u = startupConditions(Counted, jobsCache)
  <2>1. u.restarts = jsCache.restarts /\ SameJobCounters(u, jsCache)
    BY ZenonT(30), <1>4, CountedKeeps, StartupKeeps, StartupKeepsJobs DEF SameCounters, SameJobCounters
  <2>2. jobSetFinished(u) <=> jobSetFinished(jsCache)
    BY ZenonT(30), <1>4, CountedKeeps, CountedFinished, StartupFinished
  <2> QED
    BY Zenon, <1>a, <2>1, <2>2
<1>5. CASE Expired /\ u = setJobSetFailedCondition(Prepared, "DeadlineExceeded")
  <2>1. u.restarts = jsCache.restarts /\ SameJobCounters(u, jsCache)
    BY ZenonT(30), <1>1, <1>5, FailedKeeps, EndKeepsJobs DEF SameCounters, SameJobCounters, FailedReasons
  <2> QED
    BY ZenonT(30), <1>5, <1>a, <2>1
<1>6. CASE Succeeded /\ u = setJobSetCompletedCondition(Prepared)
  <2>1. u.restarts = jsCache.restarts
    BY Zenon, <1>1, <1>6, CompletedKeeps DEF SameCounters
  <2>2. SameJobCounters(u, Prepared)
    BY ZenonT(30), <1>1, <1>6, EndKeepsJobs DEF FailedReasons
  <2>3. SameJobCounters(u, jsCache)
    BY <1>1, <2>2 DEF SameJobCounters
  <2> QED
    BY ZenonT(30), <1>6, <1>a, <2>1, <2>3
<1>7. ASSUME NEW m \in Answers,
             u = resetStartTimeOnGlobalRestart(executeFailurePolicy(Prepared, m),
                                               Prepared.restarts, now)
      PROVE  Counts(jsCache, u, F) /\ SomeFailed /\ ~Expired
  <2> DEFINE w == executeFailurePolicy(Prepared, m)
  <2>1. m \in [action : Actions, job : F]
    BY ZenonT(30) DEF Answers, findFirstFailedPolicyRuleAndJob
  <2>2. m.job \in F /\ ~Expired
    BY Zenon, AnswersType
  <2>3. w \in JobSet
    BY Zenon, <1>1, AnswersType, FailurePolicyType
  <2> HIDE DEF F
  <2>4. Counts(Prepared, w, F)
    BY ZenonT(30), <1>1, <1>2, <2>1, FailurePolicyCounts
  <2> HIDE DEF w
  <2>5. u.restarts = w.restarts /\ SameJobCounters(u, w)
    BY ZenonT(30), <1>7, <2>3, StartTimeKeeps, SyncKeepsJobs DEF w, SameCounters
  <2>6. Counts(jsCache, u, F)
    BY ZenonT(30), <1>1, <2>4, <2>5 DEF Counts, SameJobCounters
  <2> QED
    BY ZenonT(30), <2>2, <2>6 DEF F, SomeFailed
<1> QED
  BY ZenonT(30), <1>3, <1>4, <1>5, <1>6, <1>7 DEF PolicyResults

\* The effect of any step on the attempts and on the end of the JobSet.
LEMMA NextEffects ==
  ASSUME TypeOK, [Next]_vars
  PROVE  \/ /\ js'.restarts = js.restarts /\ js'.jobRestarts = js.jobRestarts
            /\ jobSetFinished(js') <=> jobSetFinished(js)
         \/ /\ js = jsCache /\ ~jobSetFinished(js) /\ jsCache' = jsCache
            /\ jobsCache' = jobsCache /\ jobsEvents' = jobsEvents
            /\ Counts(js, js', failed(jsCache, jobsCache))
            /\ jobSetFinished(js') => SomeFailed \/ Succeeded \/ Expired
            /\ Expired => js'.restarts = js.restarts /\ js'.jobRestarts = js.jobRestarts
<1>1. CASE js' = js
  BY ZenonT(30), <1>1
<1>2. CASE Reconcile(TRUE) /\ js = jsCache /\ ~jobSetFinished(js) /\ js' \in PolicyResults
  <2>1. jsCache' = jsCache /\ jobsCache' = jobsCache /\ jobsEvents' = jobsEvents
    BY ZenonT(30), <1>2 DEF Reconcile, cacheVars
  <2> QED
    BY ZenonT(30), <1>2, <2>1, ResultEffects
<1>3. CASE js' = [js EXCEPT !.suspend = ~@]
  <2>1. /\ js'.restarts = js.restarts /\ js'.jobRestarts = js.jobRestarts
        /\ js'.conditions = js.conditions
    BY Zenon, <1>3 DEF TypeOK, JobSet
  <2> QED
    BY <2>1 DEF jobSetFinished
<1> QED
  BY Zenon, <1>1, <1>2, <1>3, NextWrites

\* Every step keeps the cached JobSet behind.
LEMMA NextBehind ==
  ASSUME TypeOK, Behind, [Next]_vars PROVE Behind'
<1>1. js \in JobSet /\ jsCache \in JobSet
  BY DEF TypeOK
<1>2. \A j \in JobIds : js.jobRestarts[j] \in Nat /\ jsCache.jobRestarts[j] \in Nat
  BY ZenonT(30), <1>1, Fields
<1>3. CASE jsCache' = js /\ js' = js
  BY <1>2, <1>3 DEF Behind
<1>4. CASE jsCache' = jsCache
  <2>1. CASE /\ js'.restarts = js.restarts /\ js'.jobRestarts = js.jobRestarts
             /\ jobSetFinished(js') <=> jobSetFinished(js)
    BY Zenon, <1>4, <2>1 DEF Behind
  <2>2. CASE js = jsCache /\ ~jobSetFinished(js) /\ Counts(js, js', failed(jsCache, jobsCache))
    <3>1. \A j \in JobIds : \/ js'.jobRestarts[j] = js.jobRestarts[j]
                            \/ js'.jobRestarts[j] = js.jobRestarts[j] + 1
      BY ZenonT(30), <2>2 DEF Counts
    <3>2. \A j \in JobIds : jsCache.jobRestarts[j] <= js'.jobRestarts[j]
      BY ZenonT(30), <1>2, <2>2, <3>1, Order
    <3> QED
      BY ZenonT(30), <1>4, <2>2, <3>2 DEF Behind
  <2> QED
    BY Zenon, <2>1, <2>2, NextEffects
<1> QED
  BY ZenonT(30), <1>3, <1>4, CacheFollows

\* Every step keeps the labels within the cached counters.
LEMMA NextLabelled ==
  ASSUME TypeOK, CountersInv, Ordered, Labelled, Behind, [Next]_vars, MaxDeletions = 0
  PROVE  Labelled'
<1> SUFFICES ASSUME NEW i \in 0..Newest', NEW j \in JobIds, Exists(Shown(i)'[j])
             PROVE  /\ Shown(i)'[j].restarts <= jsCache'.restarts
                    /\ Shown(i)'[j].jobRestartAttempt <= jsCache'.jobRestarts[j]
  BY DEF Labelled, Owned, Exists
<1> DEFINE Within(a, o) == a.restarts <= o.restarts /\ a.jobRestartAttempt <= o.jobRestarts[j]
<1>1. js \in JobSet /\ jsCache \in JobSet
  BY Zenon DEF TypeOK
<1>2. /\ js.restarts \in Nat /\ js.jobRestarts[j] \in Nat
      /\ jsCache.restarts \in Nat /\ jsCache.jobRestarts[j] \in Nat
      /\ jsCache.restarts <= js.restarts /\ jsCache.jobRestarts[j] <= js.jobRestarts[j]
  BY Zenon, <1>1, Fields DEF CountersInv, Behind
<1>3. ASSUME NEW a \in Job, Within(a, jsCache) PROVE Within(a, jsCache')
  <2>1. a.restarts \in Nat /\ a.jobRestartAttempt \in Nat
    BY ZenonT(30) DEF Job
  <2>2. Within(a, js)
    BY <1>2, <1>3, <2>1
  <2> QED
    BY Zenon, <1>3, <2>2, CacheFollows
<1>4. ASSUME NEW p \in 0..Newest, Exists(Shown(p)[j]) PROVE Within(Shown(p)[j], jsCache)
  BY Zenon, <1>4 DEF Labelled, Owned, Exists
<1>5. ASSUME NEW p \in 0..Newest, Exists(Shown(p)[j]) PROVE Within(Shown(p)[j], jsCache')
  <2>1. Shown(p)[j] \in Job
    BY Zenon, ShownType
  <2> HIDE DEF Within
  <2> QED
    BY ZenonT(30), <1>3, <1>4, <1>5, <2>1
<1>6. CASE DelayJobs \/ SyncJobs
  <2>1. PICK p \in 0..Newest : Shown(i)' = Shown(p)
    <3>1. i <= i
      <4>1. TypeOK'
        BY ZenonT(30), NextType
      <4>2. Newest' \in Nat
        BY <4>1 DEF TypeOK, Newest
      <4> QED
        BY <4>2
    <3> QED
      BY ZenonT(30), <1>6, <3>1, StreamShift
  <2> QED
    BY Zenon, <1>5, <2>1
<1>7. CASE jobsCache' = jobsCache /\ jobsEvents' = jobsEvents
  <2>1. i \in 0..Newest /\ Newest # 0
    BY <1>7, WriteShown, Positions
  <2>2. CASE i # Newest
    BY ZenonT(30), <1>5, <1>7, <2>1, <2>2, WriteShown
  <2>3. CASE i = Newest
    <3>1. Shown(i)'[j] = jobs'[j] /\ Touches(j)
      BY ZenonT(30), <1>7, <2>1, <2>3, WriteShown, NextTouches, DeletingExists
    <3>2. CASE Creates(j)
      <4>1. Within(jobs'[j], jsCache)
        <5>1. CreatesFor(j)
          BY Zenon, <3>1, <3>2 DEF Touches
        <5>2. jobs'[j].restarts = jsCache.restarts /\ jobs'[j].jobRestartAttempt <= jsCache.jobRestarts[j]
          BY ZenonT(30), <5>1 DEF CreatesFor
        <5> QED
          BY <1>2, <5>2
      <4>2. jobs'[j] \in Job
        <5>1. TypeOK'
          BY NextType
        <5> QED
          BY <5>1 DEF TypeOK
      <4> HIDE DEF Within
      <4>3. Within(jobs'[j], jsCache')
        BY <1>3, <4>1, <4>2
      <4> QED
        BY <3>1, <4>3 DEF Within
    <3>3. CASE ~Creates(j)
      <4>1. Exists(jobs[j]) /\ jobs'[j].restarts = jobs[j].restarts
            /\ jobs'[j].jobRestartAttempt = jobs[j].jobRestartAttempt
        BY ZenonT(30), <3>1, <3>3 DEF Touches, Moves, Creates
      <4>2. Within(jobs[j], jsCache')
        BY Zenon, <1>5, <2>1, <2>3, <4>1, Positions
      <4> QED
        BY ZenonT(30), <3>1, <4>1, <4>2
    <3> QED
      BY <3>2, <3>3
  <2> QED
    BY <2>2, <2>3
<1> QED
  BY ZenonT(30), <1>6, <1>7, StreamSteps

\* The stream starts in order.
LEMMA InitStream ==
  ASSUME Init PROVE StreamInv
<1>1. /\ jobsEvents = <<>> /\ jobsCache = jobs /\ jobs = [j \in JobIds |-> NoJob]
      /\ jsCache = js /\ \E b \in BOOLEAN : js = InitialJobSet(b)
  BY ZenonT(30) DEF Init
<1>2. NoJob.phase = "absent" /\ NoJob.deleting = FALSE
  BY DEF NoJob
<1>3. Newest = 1
  BY <1>1 DEF Newest
<1>4. ASSUME NEW i \in 0..Newest PROVE Shown(i) = jobs
  BY <1>1, <1>3, <1>4 DEF Shown
<1>5. ASSUME NEW j \in JobIds PROVE jobs[j] = NoJob
  BY Zenon, <1>1
<1>6. Ordered
  BY ZenonT(30), <1>2, <1>4, <1>5 DEF Ordered, Follows, Exists
<1>7. Labelled
  BY ZenonT(30), <1>2, <1>4, <1>5 DEF Labelled, Owned
<1>8. js.jobRestarts \in [JobIds -> Nat]
  BY Zenon, <1>1, InitialJobSetType, Fields
<1>9. Behind
  BY SMTT(30), <1>1, <1>8 DEF Behind
<1> QED
  BY <1>6, <1>7, <1>9, StreamParts

\* Every step keeps the invariant of the stream.
LEMMA NextStream ==
  ASSUME TypeOK, CountersInv, StreamInv, [Next]_vars, MaxDeletions = 0 PROVE StreamInv'
<1>1. Ordered /\ Labelled /\ Behind
  BY StreamParts
<1>2. Ordered' /\ Labelled' /\ Behind'
  BY <1>1, NextOrdered, NextLabelled, NextBehind
<1> QED
  BY ZenonT(30), <1>2 DEF StreamInv, Ordered, Labelled, Behind

\* However far the caches are behind, they show the Jobs and the JobSet of the API
\* server at an earlier time, in order, if nobody but the controller deletes Jobs.
THEOREM StreamCorrect == ASSUME MaxDeletions = 0 PROVE Spec => []StreamInv
<1>1. Init => StreamInv
  BY InitStream
<1>2. TypeOK /\ CountersInv /\ StreamInv /\ [Next]_vars => StreamInv'
  BY NextStream
<1> QED
  BY <1>1, <1>2, TypeCorrect, CountersCorrect, PTL DEF Spec

\* What the controller deletes is obsolete on the API server, or the deadline it reads
\* in its cache has passed.
LEMMA DeletesStep ==
  ASSUME TypeOK, CountersInv, StreamInv, [Next]_vars, MaxDeletions = 0, NEW j \in JobIds, Marks(j)
  PROVE  jobSetFinished(js) \/ Expired \/ j \in previous(js, jobs)
<1>1. Ordered /\ Labelled /\ Behind
  BY StreamParts
<1>2. MarksFor(j)
  BY ZenonT(30), <1>1, NextTouches, DeletingExists DEF Touches
<1>3. CASE jobSetFinished(jsCache)
  BY ZenonT(30), <1>1, <1>3 DEF Behind
<1>4. CASE j \in previous(jsCache, jobsCache)
  <2>1. Follows(jobsCache[j], jobs[j], jobs[j])
    <3>1. Newest \in 0..Newest /\ Newest <= Newest
      BY Positions
    <3> QED
      BY <1>1, <3>1, OrderedFacts
  <2>2. /\ jobs[j].restarts = jobsCache[j].restarts
        /\ jobs[j].jobRestartAttempt = jobsCache[j].jobRestartAttempt
    BY ZenonT(30), <1>2, <2>1 DEF MarksFor, Owned, Follows, Exists
  <2>3. /\ jsCache.restarts <= js.restarts /\ jsCache.jobRestarts[j] <= js.jobRestarts[j]
        /\ jsCache.restarts \in Nat /\ js.restarts \in Nat
        /\ jsCache.jobRestarts[j] \in Nat /\ js.jobRestarts[j] \in Nat
        /\ jobs[j].restarts \in Nat /\ jobs[j].jobRestartAttempt \in Nat
    BY ZenonT(30), <1>1, Fields DEF CountersInv, Behind, TypeOK, Job
  <2>4. \/ jobs[j].restarts < jsCache.restarts
        \/ "RestartJob" \in Gates /\ jobs[j].jobRestartAttempt < jsCache.jobRestarts[j]
    BY ZenonT(30), <1>4, <2>2 DEF previous
  <2>5. \/ jobs[j].restarts < js.restarts
        \/ "RestartJob" \in Gates /\ jobs[j].jobRestartAttempt < js.jobRestarts[j]
    BY ZenonT(30), <2>3, <2>4, Order
  <2> QED
    BY ZenonT(30), <1>2, <2>5 DEF MarksFor, previous, Owned, Exists
<1> QED
  BY <1>2, <1>3, <1>4 DEF MarksFor, Obsolete

=============================================================================
