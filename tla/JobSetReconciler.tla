-------------------------- MODULE JobSetReconciler --------------------------
(***************************************************************************)
(* The reconcile loop of the JobSet controller for one JobSet.             *)
(*                                                                         *)
(* The API server holds the JobSet and its child Jobs.  The controller     *)
(* reads both from informer caches, which lag behind the API server and    *)
(* behind each other, and writes back: it deletes, creates, suspends and   *)
(* resumes Jobs, and at the end updates the JobSet's status once.  Writes  *)
(* that carry a resource version (every update) fail when the cached copy  *)
(* is no longer current; a create fails when the name is taken; any write  *)
(* may fail for other reasons, or be lost with the process.  What was      *)
(* written before a failure stays, what comes after it is not done, and    *)
(* the JobSet is put back in the work queue.                               *)
(*                                                                         *)
(* A reconcile is one step: the work queue never runs two for one JobSet,  *)
(* and a change by someone else between its reads and its writes is a      *)
(* cache that is behind when the step is taken.  Since a copy holds        *)
(* everything the controller decides on, a stale copy with the             *)
(* content of the current one is as good as current, and equality of       *)
(* content stands for equality of resource versions.                       *)
(***************************************************************************)
EXTENDS JobSetPolicies

CONSTANTS
  MaxFailures,     \* bound on the Job failures and Pod losses of a behaviour
  MaxSuspends,     \* bound on the changes of spec.suspend
  MaxDeletions,    \* bound on the Jobs deleted by someone other than the controller
  MaxLag,          \* bound on the past states of the Jobs that the cache has yet to show
  MaxTime          \* bound on the clock

ASSUME BoundsAssumption ==
  /\ MaxFailures \in Nat /\ MaxSuspends \in Nat /\ MaxDeletions \in Nat
  /\ MaxLag \in Nat /\ MaxTime \in Nat

VARIABLES
  js,              \* the JobSet, on the API server
  jobs,            \* its child Jobs, on the API server
  jsCache,         \* the JobSet in the controller's cache
  jobsCache,       \* the Jobs in the controller's cache
  jsPending,       \* whether watch events of the JobSet are on their way to the cache
  jobsPending,     \* whether watch events of the Jobs are
  jobsEvents,      \* the states the Job cache will go through before the present one
  queued,          \* whether the JobSet is in the work queue, due now
  wakeAt,          \* when its entry there is due after a RequeueAfter, Nil if there is none
  now,             \* the clock, in seconds
  failures, suspends, deletions    \* what has been used of the bounds

apiVars   == <<js, jobs, jsPending, jobsPending>>
cacheVars == <<jsCache, jobsCache, jobsEvents>>
envVars   == <<now, failures, suspends, deletions>>
vars == <<apiVars, cacheVars, queued, wakeAt, envVars>>

InitialJobSet(suspend) ==
  [suspend |-> suspend, restarts |-> 0, restartsCountTowardsMax |-> 0,
   jobRestarts |-> [j \in JobIds |-> 0], jobRestartsCountTowardsMax |-> [j \in JobIds |-> 0],
   executionAttempts |-> Nil, startTime |-> Nil,
   conditions |-> [t \in ConditionTypes |-> "None"], failedReason |-> ""]

\* A JobSet has just been created, suspended or not, and the informers have seen it.
Init ==
  /\ js \in {InitialJobSet(b) : b \in IF MaxSuspends = 0 THEN {FALSE} ELSE BOOLEAN}
  /\ jobs = [j \in JobIds |-> NoJob]
  /\ jsCache = js /\ jobsCache = jobs
  /\ jsPending = FALSE /\ jobsPending = FALSE /\ jobsEvents = <<>>
  /\ queued = TRUE /\ wakeAt = Nil
  /\ now = 0 /\ failures = 0 /\ suspends = 0 /\ deletions = 0

-----------------------------------------------------------------------------
(* Writes to the API server; each one makes a watch event. *)

WriteJobs(J) ==
  /\ jobs' = J
  /\ jobsPending' = (jobsPending \/ J # jobs)

WriteJobSet(o) ==
  /\ js' = o
  /\ jsPending' = (jsPending \/ o # js)

\* An error of reconcile: no status update, and the JobSet is queued again.
ReturnError == UNCHANGED <<js, jsPending, wakeAt>> /\ queued' = TRUE

\* The API server's copy after this reconcile has written base over its cached one.
Written(base) == IF js = jsCache THEN base ELSE js

\* Mutant: the status update overwrites whatever is there.
OverwriteMutant(base, o, fails) ==
  /\ WriteJobSet(IF base # o /\ ~fails THEN [o EXCEPT !.suspend = js.suspend] ELSE Written(base))
  /\ queued' = (base # o /\ fails)

\* Mutant: a failed status update is not tried again.
NoRetryMutant(base, o, fails) ==
  /\ WriteJobSet(IF base # o /\ js = jsCache /\ ~fails THEN o ELSE Written(base))
  /\ queued' = FALSE

\* The end of a reconcile that has written base, and now updates the status to o if
\* they differ.  The update is refused when the cached copy is out of date.
updateJobSetStatus(base, o, fails) ==
  LET done == js = jsCache /\ ~fails
  IN  /\ WriteJobSet(IF base # o /\ done THEN o ELSE Written(base))
      /\ queued' = (base # o /\ ~done)

MarkDeleted(J, D) ==
  [j \in JobIds |-> IF j \in D /\ J[j].phase # "absent"
                    THEN [J[j] EXCEPT !.deleting = TRUE] ELSE J[j]]

\* The deletions that deleteJobs requests: Jobs already marked are skipped.
deleteJobs(S) == {j \in S : ~jobsCache[j].deleting}

-----------------------------------------------------------------------------
(***************************************************************************)
(* Reconcile.  The parameter says whether API calls may fail without a     *)
(* reason in the state: F is the set of Jobs whose write fails and the     *)
(* Booleans tell whether a status update does.                             *)
(***************************************************************************)
Failing(S, errors) == IF errors THEN SUBSET S ELSE {{}}
Fails(errors) == IF errors THEN BOOLEAN ELSE {FALSE}

\* The JobSet after the steps of reconcile that precede every policy.
Prepared ==
  syncActiveDeadlineStartTime(
    IF ~jsCache.suspend /\ allJobsReady(jsCache, jobsCache)
    THEN setCondition(jsCache, "Restarting", "False") ELSE jsCache,
    now)

\* Mutant: failed Jobs of the current attempt are deleted with those of earlier ones.
PreviousMutant == deleteJobs(previous(jsCache, jobsCache) \cup failed(jsCache, jobsCache))

Previous   == deleteJobs(previous(jsCache, jobsCache))
Expired    == DeadlineExpired(Prepared, now)
SomeFailed == failed(jsCache, jobsCache) # {}
Succeeded  == SuccessPolicyMet(jsCache, jobsCache)

\* Not all Jobs of earlier attempts could be deleted.
ReconcileDeleteError(errors) ==
  /\ ~jobSetFinished(jsCache)
  /\ \E F \in Failing(Previous, errors) :
       /\ F # {}
       /\ WriteJobs(MarkDeleted(jobs, Previous \ F))
  /\ ReturnError

\* The deadline has passed and the JobSet has not succeeded.
failJobSetOnActiveDeadline(errors) ==
  /\ ~jobSetFinished(jsCache)
  /\ Expired /\ ~Succeeded
  /\ LET A == deleteJobs(active(jsCache, jobsCache))
     IN  \E F \in Failing(A, errors), fails \in Fails(errors) :
           /\ WriteJobs(MarkDeleted(jobs, Previous \cup (A \ F)))
           /\ IF F # {}
              THEN ReturnError
              ELSE /\ updateJobSetStatus(jsCache,
                        setJobSetFailedCondition(Prepared, "DeadlineExceeded"), fails)
                   /\ UNCHANGED wakeAt

\* Some Job of the current attempt has failed: apply the failure policy.
ReconcileFailed(errors) ==
  /\ ~jobSetFinished(jsCache)
  /\ SomeFailed /\ ~Expired
  /\ WriteJobs(MarkDeleted(jobs, Previous))
  /\ \E m \in findFirstFailedPolicyRuleAndJob(failed(jsCache, jobsCache), jobsCache),
        fails \in Fails(errors) :
       IF ActionIsError(m.action)
       THEN ReturnError
       ELSE /\ updateJobSetStatus(jsCache,
                 resetStartTimeOnGlobalRestart(executeFailurePolicy(Prepared, m),
                                               Prepared.restarts, now), fails)
            /\ UNCHANGED wakeAt

\* Enough Jobs have succeeded; a failure comes first unless the deadline has passed.
ReconcileSucceeded(errors) ==
  /\ ~jobSetFinished(jsCache)
  /\ Succeeded
  /\ ~SomeFailed \/ Expired
  /\ WriteJobs(MarkDeleted(jobs, Previous))
  /\ \E fails \in Fails(errors) :
       updateJobSetStatus(jsCache, setJobSetCompletedCondition(Prepared), fails)
  /\ UNCHANGED wakeAt

\* The part of S that is written when only the writes in ok succeed and the
\* replicatedJobs are gone through in order up to the first error.
Sequenced(S, ok) == {j \in S \cap ok : \A k \in S : k[1] < j[1] => k \in ok}

\* Mutant: no requeue at the deadline.
NoRequeueMutant(t) == UNCHANGED wakeAt

\* The reconcile asks to be called again at time t.
RequeueAfter(t) == wakeAt' = t

\* createJobs, then suspendJobs or resumeJobsIfNecessary, and the status update,
\* by a reconcile that has written base and decides from o.
StartJobs(base, o, errors) ==
  LET create == constructJobsFromTemplate(o, jobsCache)
      update == jobsToSuspend(o, jobsCache) \cup jobsToResume(o, jobsCache)
      marked == MarkDeleted(jobs, Previous)
  IN  \E F \in Failing(create \cup update, errors), fails \in Fails(errors) :
        LET created == Sequenced(create, {j \in create \ F : jobs[j].phase = "absent"})
            fresh   == {j \in update \ F : jobs[j] = jobsCache[j]}
            updated == IF created # create THEN {}
                       ELSE IF o.suspend THEN fresh ELSE Sequenced(update, fresh)
        IN  /\ WriteJobs([j \in JobIds |->
                 IF j \in created THEN constructJob(o, j)
                 ELSE IF j \in updated
                      THEN IF o.suspend THEN suspendJob(jobs[j]) ELSE resumeJob(o, jobs[j])
                      ELSE marked[j]])
            /\ IF created = create /\ updated = update
               THEN updateJobSetStatus(base, startupConditions(o, jobsCache), fails)
               ELSE WriteJobSet(Written(base)) /\ queued' = TRUE
            /\ IF DeadlineArmed(o) /\ ~queued'
               THEN RequeueAfter(now + activeDeadlineRemaining(o, now))
               ELSE UNCHANGED wakeAt

\* Mutant: no early return for a finished JobSet.
NoReturnMutant(errors) ==
  jobSetFinished(jsCache) /\ StartJobs(jsCache, jsCache, errors)

\* Mutant: the wrong bucket is cleaned up.
WrongBucketMutant(errors) ==
  /\ jobSetFinished(jsCache)
  /\ WriteJobs(MarkDeleted(jobs, deleteJobs(failed(jsCache, jobsCache))))
  /\ queued' = FALSE
  /\ UNCHANGED <<js, jsPending, wakeAt>>

\* A finished JobSet: clean up its active Jobs.
ReconcileFinished(errors) ==
  /\ jobSetFinished(jsCache)
  /\ LET D == deleteJobs(active(jsCache, jobsCache))
     IN  \E F \in Failing(D, errors) :
           /\ WriteJobs(MarkDeleted(jobs, D \ F))
           /\ queued' = (F # {})
  /\ UNCHANGED <<js, jsPending, wakeAt>>

\* Mutant: the count of a resume is left to the final status update.
CountLaterMutant(errors) ==
  /\ ~jobSetFinished(jsCache)
  /\ ~SomeFailed /\ ~Expired /\ ~Succeeded
  /\ StartJobs(jsCache, syncExecutionAttempts(Prepared, jobsCache), errors)

\* Neither failed nor succeeded.  The count of a resume is written at once.
ReconcileReplicatedJobs(errors) ==
  /\ ~jobSetFinished(jsCache)
  /\ ~SomeFailed /\ ~Expired /\ ~Succeeded
  /\ LET o == syncExecutionAttempts(Prepared, jobsCache)
     IN  IF /\ previouslySuspended(Prepared)
            /\ o.executionAttempts # Prepared.executionAttempts
         THEN \/ /\ js # jsCache \/ errors
                 /\ WriteJobs(MarkDeleted(jobs, Previous))
                 /\ ReturnError
              \/ js = jsCache /\ StartJobs(o, o, errors)
         ELSE StartJobs(jsCache, o, errors)

Reconcile(errors) ==
  /\ queued
  /\ \/ ReconcileFinished(errors)
     \/ ReconcileDeleteError(errors)
     \/ failJobSetOnActiveDeadline(errors)
     \/ ReconcileFailed(errors)
     \/ ReconcileSucceeded(errors)
     \/ ReconcileReplicatedJobs(errors)
  /\ UNCHANGED <<cacheVars, envVars>>

-----------------------------------------------------------------------------
(***************************************************************************)
(* Watch events reach the caches and put the JobSet in the work queue,     *)
(* which has one entry for it: an event makes the entry due at once, and   *)
(* the RequeueAfter it stood for is gone.                                  *)
(* The Jobs have one event stream, the JobSet another: each cache is some  *)
(* past state of its own stream.  The Job cache may stop at a state that   *)
(* is past already when it is shown, so that the controller sees a change  *)
(* of another Job but not yet what it has since written itself.  The       *)
(* JobSet cache need not: the controller writes the JobSet only from a     *)
(* current copy, so whoever wrote after the state shown was a user, who    *)
(* might as well have written after it was shown.  (Not shown is a status  *)
(* between the two updates of one reconcile that counts a resume.)         *)
(***************************************************************************)
Enqueue == queued' = TRUE /\ wakeAt' = Nil

SyncJobSet ==
  /\ jsPending
  /\ jsCache' = js
  /\ jsPending' = FALSE
  /\ Enqueue
  /\ UNCHANGED <<js, jobs, jobsPending, jobsCache, jobsEvents, envVars>>

\* The present state of the Jobs will be shown on its own.
DelayJobs ==
  /\ jobsPending /\ Len(jobsEvents) < MaxLag
  /\ jobsEvents' = Append(jobsEvents, jobs)
  /\ UNCHANGED <<apiVars, jsCache, jobsCache, queued, wakeAt, envVars>>

SyncJobs ==
  /\ jobsPending
  /\ Enqueue
  /\ IF jobsEvents = <<>>
     THEN jobsCache' = jobs /\ jobsPending' = FALSE /\ UNCHANGED jobsEvents
     ELSE /\ jobsCache' = Head(jobsEvents)
          /\ jobsEvents' = Tail(jobsEvents)
          /\ jobsPending' = (jobsEvents' # <<>> \/ jobsCache' # jobs)
  /\ UNCHANGED <<js, jobs, jsPending, jsCache, envVars>>

Tick ==
  /\ now < MaxTime
  /\ now' = now + 1
  /\ IF wakeAt # Nil /\ wakeAt <= now'
     THEN Enqueue
     ELSE UNCHANGED <<wakeAt, queued>>
  /\ UNCHANGED <<apiVars, cacheVars, failures, suspends, deletions>>

-----------------------------------------------------------------------------
(***************************************************************************)
(* Everyone else.  The Job controller starts the Pods of a Job, reports    *)
(* them ready or not, stops those of a suspended Job (which it reports     *)
(* only later), completes or fails the Job, and removes a deleted Job once *)
(* its Pods are gone.  A user suspends and resumes the JobSet, and may     *)
(* delete a Job.                                                           *)
(***************************************************************************)
SetJob(j, job) ==
  /\ WriteJobs([jobs EXCEPT ![j] = job])
  /\ UNCHANGED <<js, jsPending, cacheVars, queued, wakeAt, now, suspends>>

\* The Job has Pods that can become ready, finish or fail.
Running(j) ==
  /\ jobs[j].phase = "active" /\ ~jobs[j].deleting
  /\ ~jobs[j].suspend \/ jobs[j].ready

JobReady(j) ==
  /\ Running(j) /\ ~jobs[j].ready
  /\ SetJob(j, [jobs[j] EXCEPT !.ready = TRUE])
  /\ UNCHANGED <<failures, deletions>>

\* The Pods of a suspended Job are gone.
JobStopped(j) ==
  /\ jobs[j].phase = "active" /\ ~jobs[j].deleting
  /\ jobs[j].suspend /\ jobs[j].ready
  /\ SetJob(j, [jobs[j] EXCEPT !.ready = FALSE])
  /\ UNCHANGED <<failures, deletions>>

\* A Pod of a running Job is lost and will be replaced.
JobUnready(j) ==
  /\ Running(j) /\ ~jobs[j].suspend /\ jobs[j].ready
  /\ failures < MaxFailures
  /\ failures' = failures + 1
  /\ SetJob(j, [jobs[j] EXCEPT !.ready = FALSE])
  /\ UNCHANGED deletions

JobComplete(j) ==
  /\ Running(j)
  /\ SetJob(j, [jobs[j] EXCEPT !.phase = "complete", !.ready = FALSE])
  /\ UNCHANGED <<failures, deletions>>

JobFail(j) ==
  /\ Running(j)
  /\ failures < MaxFailures
  /\ failures' = failures + 1
  /\ \E r \in FailureReasons :
       SetJob(j, [jobs[j] EXCEPT !.phase = "failed", !.ready = FALSE,
                                 !.reason = r, !.failedAt = now])
  /\ UNCHANGED deletions

JobRemoved(j) ==
  /\ jobs[j].deleting
  /\ SetJob(j, NoJob)
  /\ UNCHANGED <<failures, deletions>>

UserDeletesJob(j) ==
  /\ jobs[j].phase # "absent" /\ ~jobs[j].deleting
  /\ deletions < MaxDeletions
  /\ deletions' = deletions + 1
  /\ SetJob(j, [jobs[j] EXCEPT !.deleting = TRUE])
  /\ UNCHANGED failures

UserSetsSuspend ==
  /\ suspends < MaxSuspends
  /\ suspends' = suspends + 1
  /\ WriteJobSet([js EXCEPT !.suspend = ~@])
  /\ UNCHANGED <<jobs, jobsPending, cacheVars, queued, wakeAt, now, failures, deletions>>

JobController(j) ==
  JobReady(j) \/ JobStopped(j) \/ JobUnready(j) \/ JobComplete(j)
  \/ JobFail(j) \/ JobRemoved(j)

Next ==
  \/ Reconcile(TRUE)
  \/ SyncJobSet \/ DelayJobs \/ SyncJobs
  \/ \E j \in JobIds : JobController(j) \/ UserDeletesJob(j)
  \/ UserSetsSuspend
  \/ Tick

Spec == Init /\ [][Next]_vars

\* The work queue hands out what is in it, and not every API call fails; watch
\* events arrive; the clock runs; the Job controller stops the Pods of suspended
\* Jobs, and deleted Jobs are removed.  Nothing is assumed about failures, users,
\* API errors, or when Jobs become ready or complete.
Fairness ==
  /\ WF_vars(Reconcile(FALSE))
  /\ WF_vars(SyncJobSet) /\ WF_vars(SyncJobs)
  /\ WF_vars(Tick)
  /\ \A j \in JobIds : /\ WF_vars(JobRemoved(j))
                        /\ WF_vars(JobStopped(j))

FairSpec == Spec /\ Fairness

-----------------------------------------------------------------------------
(* Properties *)

\* Every object on the API server and in the caches keeps its type through every
\* write of the controller and of everyone else.
TypeOK ==
  /\ js \in JobSet /\ jsCache \in JobSet
  /\ jobs \in [JobIds -> Job] /\ jobsCache \in [JobIds -> Job]
  /\ jsPending \in BOOLEAN /\ jobsPending \in BOOLEAN /\ jobsEvents \in Seq([JobIds -> Job])
  /\ queued \in BOOLEAN /\ wakeAt \in Nat \cup {Nil}
  /\ now \in Nat /\ failures \in Nat /\ suspends \in Nat /\ deletions \in Nat

\* The restarts that count towards spec.failurePolicy.maxRestarts, of the JobSet
\* and of single Jobs together, never exceed it, and the JobSet's own are among
\* its restarts: the test in the action appliers is made on a cached status, and
\* the increment is written only if that status is still current.
RestartsWithinMax ==
  /\ js.restartsCountTowardsMax <= js.restarts
  /\ totalRestartsCountTowardsMax(js) <= MaxRestarts

\* The JobSet's restart counter goes up by one, and only while the API server
\* holds a failed Job of the attempt that ends; the counter of a single Job
\* likewise. One failure is never answered with two restarts, however stale the
\* caches executeFailurePolicy reads (as long as nobody else deletes the failed
\* Job).
RestartNeedsFailure ==
  [][/\ js'.restarts # js.restarts =>
          /\ js'.restarts = js.restarts + 1
          /\ \E j \in failed(js, jobs) : jobs[j].restarts = js.restarts
     /\ \A j \in JobIds : js'.jobRestarts[j] # js.jobRestarts[j] =>
          /\ js'.jobRestarts[j] = js.jobRestarts[j] + 1
          /\ j \in failed(js, jobs)]_vars

\* The part of the status that setJobSetCompletedCondition and
\* setJobSetFailedCondition write.
Terminal(o) == <<o.conditions["Completed"], o.conditions["Failed"], o.failedReason>>

\* Once Completed or Failed, a JobSet stays so for the same reason, and is never
\* restarted: a reconcile that has not yet seen the terminal condition in its
\* cache cannot undo it.
TerminalStable ==
  [][jobSetFinished(js) => /\ Terminal(js') = Terminal(js)
                           /\ js'.restarts = js.restarts
                           /\ js'.jobRestarts = js.jobRestarts]_vars

\* A Job is created only for the attempt that is current on the API server, and not
\* once the JobSet is Completed or Failed there, although createJobs runs on cached
\* copies that may not show it.
CreatesCurrent ==
  [][\A j \in JobIds : jobs[j].phase = "absent" /\ jobs'[j].phase # "absent" =>
       ~jobSetFinished(js) /\ j \notin previous(js, jobs')]_vars

\* The controller marks a Job for deletion only if it belongs to an earlier
\* attempt, the JobSet has finished, or its deadline has passed; all judged by
\* the API server, not by the caches deleteJobs works from. Running work of the
\* current attempt is never deleted because of a stale read.
DeletesOnlyObsolete ==
  [][\A j \in JobIds : jobs'[j].deleting /\ ~jobs[j].deleting =>
       \/ deletions' # deletions
       \/ jobSetFinished(js) \/ DeadlineExpired(js, now)
       \/ j \in previous(js, jobs)]_vars

\* With the BlockingRecreate strategy, Jobs of two restart attempts never exist
\* at the same time: shouldCreateJob holds back every Job until the last Job of
\* the earlier attempt is gone.
OneGeneration ==
  RestartStrategy = "BlockingRecreate" =>
    \A j, k \in Owned(jobs) : jobs[j].restarts = jobs[k].restarts

(***************************************************************************)
(* Why stale caches do no harm: the states of the Jobs from the one in the *)
(* cache to the one on the API server, in the order the cache goes         *)
(* through them.                                                           *)
(***************************************************************************)
Newest == Len(jobsEvents) + 1
Shown(i) == IF i = 0 THEN jobsCache ELSE IF i = Newest THEN jobs ELSE jobsEvents[i]

Exists(job) == job.phase # "absent"
Over(job) == job.phase \in {"complete", "failed"}

\* Between an earlier state a and a later state b of one Job: a Job seen twice is
\* the same Job, with the labels it was created with and the outcome it had; and
\* up to the state c on the API server it is created or removed, but not both.
Follows(a, b, c) ==
  /\ b.deleting => Exists(a) /\ Exists(b)
  /\ Exists(a) /\ Exists(b) =>
       /\ b.restarts = a.restarts /\ b.jobRestartAttempt = a.jobRestartAttempt
       /\ Over(a) => b.phase = a.phase
  /\ (Exists(a) <=> Exists(c)) => (Exists(b) <=> Exists(c))

\* What the cached Jobs and the cached JobSet tell of those on the API server, when
\* nobody but the controller deletes Jobs.
StreamInv ==
  /\ \A i, k \in 0..Newest : i <= k =>
       \A j \in JobIds : Follows(Shown(i)[j], Shown(k)[j], jobs[j])
  /\ \A i \in 0..Newest : \A j \in Owned(Shown(i)) :
       /\ Shown(i)[j].restarts <= jsCache.restarts
       /\ Shown(i)[j].jobRestartAttempt <= jsCache.jobRestarts[j]
  /\ \A j \in JobIds : jsCache.jobRestarts[j] <= js.jobRestarts[j]
  /\ jobSetFinished(jsCache) =>
       jobSetFinished(js) /\ js.restarts = jsCache.restarts /\ js.jobRestarts = jsCache.jobRestarts

\* The inductive invariant of the attempts, when the clock of the deadline is never
\* stopped either. A Job of the cached attempt is kept until that attempt is over in
\* the cache too, or out of time. So whatever has been decided on the API server and
\* is not yet in the cache, the controller would decide again, and no Job is created
\* meanwhile; a failure that was answered with a restart is seen until the restart
\* is. A Job of an earlier attempt on the API server is preceded by one in every state
\* up to it, so that shouldCreateJob does not overlook it.
AttemptInv ==
  /\ StreamInv
  /\ ~jobSetFinished(jsCache) /\ ~Expired => \A i, k \in 0..Newest : i <= k =>
       \A j \in Owned(Shown(i)) \ previous(jsCache, Shown(i)) :
         Exists(Shown(k)[j]) /\ ~Shown(k)[j].deleting
  /\ js.restarts # jsCache.restarts \/ js.jobRestarts # jsCache.jobRestarts =>
       \E j \in failed(jsCache, jobsCache) :
         \A k \in 0..Newest : Exists(Shown(k)[j]) /\ ~Shown(k)[j].deleting
  /\ jobSetFinished(js) => jobSetFinished(jsCache) \/ SomeFailed \/ Succeeded \/ Expired
  /\ \A i \in 0..Newest :
       (\E j \in Owned(jobs) : jobs[j].restarts < jsCache.restarts) =>
         \E j \in Owned(Shown(i)) : Shown(i)[j].restarts < jsCache.restarts
  /\ ~HasFailurePolicy => js.restarts = 0
  /\ OneGeneration

\* Once initialised, status.executionAttempts is at least status.restarts: every
\* restart is an execution attempt, whatever the order of restarts, suspends and
\* lost status updates.
ExecutionAttemptsCoverRestarts ==
  js.executionAttempts # Nil => js.restarts <= js.executionAttempts

\* No Job carries an execution-attempt annotation that the status does not
\* account for: syncExecutionAttempts writes the count of a resume before any Job
\* is resumed with it.
AttemptsNotAhead ==
  \A j \in JobIds : \/ jobs[j].executionAttempt <= js.executionAttempts
                     \/ jobs[j].executionAttempt <= js.restarts

\* The counters of a status agree with each other and with the budget.
StatusInv(o) ==
  /\ o.restartsCountTowardsMax <= o.restarts /\ o.restartsCountTowardsMax <= MaxRestarts
  /\ o.executionAttempts # Nil =>
       "ExecutionAttemptsTracking" \in Gates /\ o.restarts <= o.executionAttempts

\* The inductive invariant behind the two: the counters of the cached status are
\* not larger than those on the API server, so that whatever
\* failurePolicyRecreateAll and syncExecutionAttempts compute from a stale copy is
\* either refused or covered by what has been written since.
CountersInv ==
  /\ StatusInv(js) /\ StatusInv(jsCache)
  /\ jsCache.restarts <= js.restarts /\ jsCache.executionAttempts <= js.executionAttempts
  /\ AttemptsNotAhead

\* An upper bound on how often spec.suspend has gone from true to false.
resumes == (suspends + 1) \div 2

\* A suspend -> unsuspend transition adds at most one to
\* status.executionAttempts, however often the reconcile that counts it is
\* repeated (syncExecutionAttempts).
ResumeCountedOnce == js.executionAttempts <= js.restarts + resumes

\* The active Jobs of a finished JobSet are eventually gone, although deletions
\* fail and caches lag (the finished branch of reconcile).
FinishedCleansUp == jobSetFinished(js) ~> (active(js, jobs) = {})

\* A JobSet that stays suspended eventually has no running Job: suspendJobs is
\* repeated until every active Job is suspended, including one that was created
\* meanwhile.
SuspendedStops == []<>(\/ ~js.suspend \/ jobSetFinished(js)
                       \/ \A j \in active(js, jobs) : jobs[j].suspend)

\* Job j has been created for the current attempt and is not held back.
Started(j) ==
  /\ j \in Owned(jobs) \ previous(js, jobs)
  /\ jobs[j].phase = "active" => ~jobs[j].suspend

\* A JobSet that is not suspended and not finished eventually has all its Jobs
\* created for the current attempt and resumed: no lost update, refused create or
\* pending deletion wedges reconcileReplicatedJobs.
EverythingStarts == <>[](js.suspend \/ jobSetFinished(js) \/ \A j \in JobIds : Started(j))

\* A failed Job is eventually answered by a restart or by the end of the JobSet:
\* a status update that executeFailurePolicy loses is tried again.
FailuresHandled == []<>(failed(js, jobs) = {} \/ jobSetFinished(js))

\* A JobSet whose active deadline has passed is eventually finished, or its
\* deadline no longer passed (it was restarted or suspended), even when its Jobs
\* produce no event: RequeueAfter wakes the controller.
DeadlineEnforced == []<>(~DeadlineExpired(js, now) \/ jobSetFinished(js))

=============================================================================
