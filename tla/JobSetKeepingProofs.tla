------------------------ MODULE JobSetKeepingProofs ------------------------
(***************************************************************************)
(* Steps of the proofs about restart attempts and about history: what a    *)
(* step of the system does to the Jobs of the cached attempt, to the Jobs  *)
(* of earlier attempts, to the Jobs the controller is about to create or   *)
(* to resume, and to what is recorded of them.                             *)
(***************************************************************************)
EXTENDS JobSetHistory, JobSetReconcilerProofs

\* There is no active deadline.
NoDeadline == "JobSetActiveDeadlineSeconds" \notin Gates \/ ActiveDeadlineSeconds = Nil

\* A Job with labels of an earlier attempt than o's.
Outdated(o, j, job) ==
  \/ job.restarts < o.restarts
  \/ "RestartJob" \in Gates /\ job.jobRestartAttempt < o.jobRestarts[j]

\* Jobs of the cached attempt are kept, until the JobSet ends or its deadline expires.
Kept ==
  ~jobSetFinished(jsCache) /\ ~Expired => \A i, k \in 0..Newest : i <= k => \A j \in JobIds :
    Exists(Shown(i)[j]) /\ ~Outdated(jsCache, j, Shown(i)[j]) =>
      Exists(Shown(k)[j]) /\ ~Shown(k)[j].deleting

\* A failed Job of the cached attempt that nothing deletes.
Lasting(j) ==
  /\ jobsCache[j].phase = "failed" /\ ~Outdated(jsCache, j, jobsCache[j])
  /\ \A k \in 0..Newest : Exists(Shown(k)[j]) /\ ~Shown(k)[j].deleting

\* What has been decided, the caches still call for.
Decided ==
  /\ js.restarts # jsCache.restarts \/ js.jobRestarts # jsCache.jobRestarts =>
       \E j \in JobIds : Lasting(j)
  /\ jobSetFinished(js) => jobSetFinished(jsCache) \/ SomeFailed \/ Succeeded \/ Expired

Old(J, n) == \E j \in JobIds : Exists(J[j]) /\ J[j].restarts < n

\* A Job of an earlier attempt is preceded by others.
Precedes == \A i \in 0..Newest : Old(jobs, jsCache.restarts) => Old(Shown(i), jsCache.restarts)

NeverRestarted == ~HasFailurePolicy => js.restarts = 0

\* The parts of the invariant.
Attempts == StreamInv /\ Kept /\ Decided /\ Precedes /\ NeverRestarted /\ OneGeneration

\* The buckets of getChildJobs, Job by Job.
LEMMA Buckets ==
  ASSUME NEW o, NEW J, NEW j \in JobIds
  PROVE  /\ j \in failed(o, J) <=> J[j].phase = "failed" /\ ~Outdated(o, j, J[j])
         /\ j \in successful(o, J) <=> J[j].phase = "complete" /\ ~Outdated(o, j, J[j])
         /\ j \in previous(o, J) <=> Exists(J[j]) /\ Outdated(o, j, J[j])
BY Zenon DEF failed, successful, current, previous, Owned, Outdated, Exists

\* What is outdated stays outdated.
LEMMA OutdatedGrows ==
  ASSUME NEW o \in JobSet, NEW u \in JobSet, NEW j \in JobIds, NEW job \in Job,
         o.restarts <= u.restarts, o.jobRestarts[j] <= u.jobRestarts[j], Outdated(o, j, job)
  PROVE  Outdated(u, j, job)
<1>1. /\ o.restarts \in Nat /\ u.restarts \in Nat
      /\ o.jobRestarts[j] \in Nat /\ u.jobRestarts[j] \in Nat
      /\ job.restarts \in Nat /\ job.jobRestartAttempt \in Nat
  BY Zenon, Fields DEF Job
<1> QED
  BY <1>1 DEF Outdated

-----------------------------------------------------------------------------
(* How a Job starts. *)

\* The controller starts a Job when its caches show that it is the turn of its
\* replicatedJob, in the attempt they show.
StartsFor(j) ==
  /\ ~jobSetFinished(jsCache) /\ ~jsCache.suspend /\ ~Expired
  /\ j[1] \in Visited(Counted, jobsCache)
  /\ StreamInv => jobs'[j].restarts = jsCache.restarts

Begins(j) ==
  /\ jobs'[j].suspend => jobs[j].suspend \/ jsCache.suspend
  /\ Starts(j) => StartsFor(j)
  /\ Creates(j) => ~jobs'[j].ready

\* A Job that is neither created, suspended nor resumed.
LEMMA KeepBegins ==
  ASSUME NEW j, jobs'[j].suspend = jobs[j].suspend,
         jobs'[j].phase = "active" => jobs[j].phase = "active",
         Exists(jobs'[j]) => Exists(jobs[j])
  PROVE  Begins(j)
BY Zenon DEF Begins, Starts, Creates

\* deleteJobs.
LEMMA MarkBegins ==
  ASSUME TypeOK, NEW D, NEW j \in JobIds, jobs'[j] = MarkDeleted(jobs, D)[j] PROVE Begins(j)
<1>1. jobs[j] \in Job /\ jobs'[j] = IF j \in D /\ jobs[j].phase # "absent"
                                    THEN [jobs[j] EXCEPT !.deleting = TRUE] ELSE jobs[j]
  BY Zenon DEF TypeOK, MarkDeleted
<1>2. jobs'[j].suspend = jobs[j].suspend /\ jobs'[j].phase = jobs[j].phase
  BY Zenon, <1>1 DEF Job
<1> QED
  BY Zenon, <1>2, KeepBegins DEF Exists

\* Suspending and resuming.
LEMMA UpdateBegins ==
  ASSUME NEW o, NEW job \in Job
  PROVE  /\ ~resumeJob(o, job).suspend /\ suspendJob(job).suspend
         /\ resumeJob(o, job).restarts = job.restarts
         /\ resumeJob(o, job).phase = job.phase /\ suspendJob(job).phase = job.phase
BY Zenon DEF resumeJob, suspendJob, Job

\* Counting the attempts leaves spec.suspend.
LEMMA CountedSuspend ==
  ASSUME TypeOK PROVE Counted.suspend = jsCache.suspend
<1>1. Prepared \in JobSet /\ Prepared.suspend = jsCache.suspend
  BY Zenon, PreparedType, PreparedStart
<1>2. SameStart(Counted, Prepared)
  BY Zenon, <1>1, SyncStart DEF Counted
<1> QED
  BY Zenon, <1>1, <1>2 DEF SameStart

\* createJobs, suspendJobs and resumeJobsIfNecessary.
LEMMA StartBegins ==
  ASSUME TypeOK, NEW base, StartJobs(base, Counted, TRUE), NEW j \in JobIds,
         ~jobSetFinished(jsCache), ~Expired
  PROVE  Begins(j)
<1>1. /\ jobs[j] \in Job /\ Counted \in JobSet /\ Counted.restarts = jsCache.restarts
      /\ Counted.suspend = jsCache.suspend
  BY Zenon, CountedKeeps, CountedSuspend DEF TypeOK
<1>2. CASE /\ jobs'[j] = constructJob(Counted, j)
           /\ j \in constructJobsFromTemplate(Counted, jobsCache) /\ jobs[j].phase = "absent"
  <2>1. /\ jobs'[j].phase = "active" /\ jobs'[j].restarts = jsCache.restarts
        /\ ~jobs'[j].ready /\ (jobs'[j].suspend <=> jsCache.suspend)
    <3> DEFINE d == constructJob(Counted, j)
    <3>1. d.phase = "active" /\ d.restarts = Counted.restarts /\ ~d.ready
      BY ZenonT(30), <1>1, ConstructLabels
    <3>2. d.suspend <=> Counted.suspend
      BY ZenonT(30), <1>1, ConstructLabels
    <3>3. jobs'[j] = d
      BY Zenon, <1>2
    <3> HIDE DEF d
    <3> QED
      BY ZenonT(30), <1>1, <3>1, <3>2, <3>3
  <2>2. j[1] \in Visited(Counted, jobsCache)
    BY Zenon, <1>2 DEF constructJobsFromTemplate
  <2> QED
    BY ZenonT(30), <2>1, <2>2 DEF Begins, Starts, StartsFor
<1>3. CASE /\ jobs'[j] \in {suspendJob(jobs[j]), resumeJob(Counted, jobs[j])}
           /\ j \in active(Counted, jobsCache) /\ jobs[j] = jobsCache[j]
           /\ ~Counted.suspend =>
                jobs'[j] = resumeJob(Counted, jobs[j]) /\ j \in jobsToResume(Counted, jobsCache)
           /\ Counted.suspend => jobs'[j] = suspendJob(jobs[j])
  <2>1. Exists(jobs[j]) /\ ~Outdated(Counted, j, jobs[j])
    BY Zenon, <1>3 DEF active, current, Owned, previous, Exists, Outdated
  <2>2. CASE jsCache.suspend
    <3>1. jobs'[j].suspend
      BY ZenonT(30), <1>1, <1>3, <2>2, UpdateBegins
    <3> QED
      BY ZenonT(30), <2>1, <2>2, <3>1 DEF Begins, Starts, Creates
  <2>3. CASE ~jsCache.suspend
    <3> DEFINE d == resumeJob(Counted, jobs[j])
    <3>a. jobs'[j] = d
      BY Zenon, <1>1, <1>3, <2>3
    <3>b. ~d.suspend /\ d.restarts = jobs[j].restarts
      BY Zenon, <1>1, UpdateBegins
    <3> HIDE DEF d
    <3>1. ~jobs'[j].suspend /\ jobs'[j].restarts = jobs[j].restarts
      BY Zenon, <3>a, <3>b
    <3>2. j[1] \in Visited(Counted, jobsCache)
      BY Zenon, <1>1, <1>3, <2>3 DEF jobsToResume
    <3>3. jobs[j].restarts \in Nat /\ jsCache.restarts \in Nat
      BY ZenonT(30), <1>1, Fields DEF Job
    <3>4. ASSUME StreamInv PROVE jobs[j].restarts <= jsCache.restarts
      <4>1. Labelled
        BY Zenon, <3>4, StreamParts
      <4>2. 0 \in 0..Newest /\ Shown(0) = jobsCache
        BY Positions
      <4> QED
        BY <1>3, <2>1, <4>1, <4>2 DEF Labelled, Owned, Exists
    <3>5. StreamInv => jobs[j].restarts = jsCache.restarts
      BY SMTT(30), <1>1, <2>1, <3>3, <3>4 DEF Outdated
    <3> QED
      BY ZenonT(30), <2>1, <2>3, <3>1, <3>2, <3>5 DEF Begins, StartsFor, Creates
  <2> QED
    BY ZenonT(30), <2>2, <2>3
<1>4. CASE jobs'[j] = MarkDeleted(jobs, Previous)[j]
  BY Zenon, <1>4, MarkBegins
<1> QED
  BY ZenonT(30), <1>2, <1>3, <1>4, StartCases

\* Every branch of reconcile.
LEMMA ReconcileBegins ==
  ASSUME TypeOK, Reconcile(TRUE), NEW j \in JobIds PROVE Begins(j)
<1>1. ASSUME NEW D, WriteJobs(MarkDeleted(jobs, D)) PROVE Begins(j)
  <2>1. jobs'[j] = MarkDeleted(jobs, D)[j]
    BY Zenon, <1>1 DEF WriteJobs
  <2> QED
    BY Zenon, <2>1, MarkBegins
<1>2. CASE ReconcileReplicatedJobs(TRUE)
  <2>1. /\ ~jobSetFinished(jsCache) /\ ~Expired
        /\ \/ WriteJobs(MarkDeleted(jobs, Previous))
           \/ StartJobs(Counted, Counted, TRUE)
           \/ StartJobs(jsCache, Counted, TRUE)
    BY Zenon, <1>2 DEF ReconcileReplicatedJobs, Counted
  <2> QED
    BY Zenon, <1>1, <2>1, StartBegins
<1>3. CASE ~ReconcileReplicatedJobs(TRUE)
  <2>1. \E D : WriteJobs(MarkDeleted(jobs, D))
    BY ZenonT(30), <1>3 DEF Reconcile, ReconcileFinished, ReconcileDeleteError,
       failJobSetOnActiveDeadline, ReconcileFailed, ReconcileSucceeded
  <2> QED
    BY Zenon, <1>1, <2>1
<1> QED
  BY ZenonT(30), <1>2, <1>3

\* Every step.
LEMMA NextBegins ==
  ASSUME TypeOK, [Next]_vars, NEW j \in JobIds PROVE Begins(j)
<1>1. CASE jobs' = jobs
  BY Zenon, <1>1, KeepBegins
<1>2. ASSUME NEW k \in JobIds, JobController(k) \/ UserDeletesJob(k) PROVE Begins(j)
  <2>1. jobs \in [JobIds -> Job] /\ jobs[k] \in Job
    BY Zenon DEF TypeOK
  <2>2. ASSUME NEW job, SetJob(k, job), job.suspend = jobs[k].suspend \/ job = NoJob,
               job.phase = "active" => jobs[k].phase = "active",
               job.phase # "absent" => jobs[k].phase # "absent"
        PROVE  Begins(j)
    <3>1. jobs'[j] = IF j = k THEN job ELSE jobs[j]
      BY Zenon, <2>1, <2>2 DEF SetJob, WriteJobs
    <3>2. CASE job = NoJob /\ j = k
      <4>1. NoJob.phase = "absent" /\ ~NoJob.suspend
        BY Zenon DEF NoJob
      <4> QED
        BY ZenonT(30), <3>1, <3>2, <4>1 DEF Begins, Starts, Creates, Exists
    <3>3. CASE ~(job = NoJob /\ j = k)
      BY ZenonT(30), <2>2, <3>1, <3>3, KeepBegins DEF Exists
    <3> QED
      BY Zenon, <3>2, <3>3
  <2>3. CASE JobReady(k)
    BY ZenonT(30), <2>1, <2>2, <2>3 DEF JobReady, Running, Job
  <2>4. CASE JobStopped(k)
    BY Zenon, <2>1, <2>2, <2>4 DEF JobStopped, Job
  <2>5. CASE JobUnready(k)
    BY ZenonT(30), <2>1, <2>2, <2>5 DEF JobUnready, Running, Job
  <2>6. CASE JobComplete(k)
    <3> DEFINE job == [jobs[k] EXCEPT !.phase = "complete", !.ready = FALSE]
    <3>1. job.phase = "complete" /\ job.suspend = jobs[k].suspend
      BY Zenon, <2>1 DEF Job
    <3>2. SetJob(k, job) /\ jobs[k].phase = "active"
      BY Zenon, <2>6 DEF JobComplete, Running
    <3> HIDE DEF job
    <3> QED
      BY Zenon, <2>2, <3>1, <3>2
  <2>7. CASE JobFail(k)
    <3> DEFINE job(r) == [jobs[k] EXCEPT !.phase = "failed", !.ready = FALSE,
                                         !.reason = r, !.failedAt = now]
    <3>1. PICK r \in FailureReasons : SetJob(k, job(r))
      BY Zenon, <2>7 DEF JobFail
    <3>2. job(r).phase = "failed" /\ job(r).suspend = jobs[k].suspend
      BY Zenon, <2>1 DEF Job
    <3>3. jobs[k].phase = "active"
      BY Zenon, <2>7 DEF JobFail, Running
    <3> HIDE DEF job
    <3> QED
      BY Zenon, <2>2, <3>1, <3>2, <3>3
  <2>8. CASE JobRemoved(k)
    <3>1. SetJob(k, NoJob) /\ NoJob.phase = "absent"
      BY Zenon, <2>8 DEF JobRemoved, NoJob
    <3> QED
      BY Zenon, <2>2, <3>1
  <2>9. CASE UserDeletesJob(k)
    BY ZenonT(30), <2>1, <2>2, <2>9 DEF UserDeletesJob, Job
  <2> QED
    BY ZenonT(30), <1>2, <2>3, <2>4, <2>5, <2>6, <2>7, <2>8, <2>9 DEF JobController
<1>3. \/ jobs' = jobs \/ Reconcile(TRUE)
      \/ \E k \in JobIds : JobController(k) \/ UserDeletesJob(k)
  BY ZenonT(30) DEF Next, vars, apiVars, SyncJobSet, DelayJobs, SyncJobs, Tick, UserSetsSuspend
<1> QED
  BY ZenonT(30), <1>1, <1>2, <1>3, ReconcileBegins

-----------------------------------------------------------------------------
(* A JobSet that nobody suspends, and its deadline. *)

Unsuspended == ~js.suspend /\ ~jsCache.suspend /\ \A j \in JobIds : ~jobs[j].suspend

\* Without changes of spec.suspend only a reconcile writes the JobSet.
LEMMA WritesUnsuspended ==
  ASSUME TypeOK, [Next]_vars, MaxSuspends = 0
  PROVE  js' = js \/ (Reconcile(TRUE) /\ js = jsCache /\ js' \in PolicyResults)
<1>1. ~UserSetsSuspend
  BY DEF UserSetsSuspend, TypeOK
<1> QED
  BY ZenonT(30), <1>1, ReconcileWrites DEF Next, vars, apiVars, SyncJobSet, DelayJobs, SyncJobs, Tick,
     WriteJobSet, JobController, JobReady, JobStopped, JobUnready, JobComplete, JobFail, JobRemoved,
     UserDeletesJob, SetJob

\* Nothing is suspended at the start.
LEMMA InitUnsuspended ==
  ASSUME Init, MaxSuspends = 0 PROVE Unsuspended
<1>1. js = InitialJobSet(FALSE) /\ jsCache = js /\ jobs = [j \in JobIds |-> NoJob]
  BY Zenon DEF Init
<1>2. ~InitialJobSet(FALSE).suspend /\ ~NoJob.suspend
  BY Zenon DEF InitialJobSet, NoJob
<1> QED
  BY Zenon, <1>1, <1>2 DEF Unsuspended

\* Nothing is suspended by a step.
LEMMA NextUnsuspended ==
  ASSUME TypeOK, Unsuspended, [Next]_vars, MaxSuspends = 0 PROVE Unsuspended'
<1>1. ~js'.suspend
  <2>1. CASE js' = js
    BY Zenon, <2>1 DEF Unsuspended
  <2>2. CASE js' \in PolicyResults
    BY Zenon, <2>2, ResultsClock DEF ClockFrom, Unsuspended
  <2> QED
    BY Zenon, <2>1, <2>2, WritesUnsuspended
<1>2. ~jsCache'.suspend
  BY ZenonT(30), CacheFollows DEF Unsuspended
<1>3. ASSUME NEW j \in JobIds PROVE ~jobs'[j].suspend
  BY Zenon, NextBegins DEF Begins, Unsuspended
<1> QED
  BY Zenon, <1>1, <1>2, <1>3 DEF Unsuspended

\* The deadline measures from one moment in every attempt, if there is one.
Timely ==
  \/ NoDeadline
  \/ /\ Unsuspended
     /\ js.startTime # Nil => js.startTime <= now
     /\ js.restarts = jsCache.restarts /\ jsCache.startTime # Nil => js.startTime = jsCache.startTime

\* The time, in any step.
LEMMA NowSteps ==
  ASSUME TypeOK, [Next]_vars
  PROVE  now' \in Nat /\ now <= now' /\ (jsCache' = jsCache \/ now' = now) /\ (js' = js \/ now' = now)
<1>1. now \in Nat
  BY Zenon DEF TypeOK
<1>2. /\ now' = now \/ now' = now + 1
      /\ jsCache' = jsCache \/ now' = now
      /\ js' = js \/ now' = now
  BY ZenonT(30) DEF Next, vars, apiVars, cacheVars, envVars, Reconcile, SyncJobSet, DelayJobs, SyncJobs,
     Tick, UserSetsSuspend, JobController, JobReady, JobStopped, JobUnready, JobComplete, JobFail,
     JobRemoved, UserDeletesJob, SetJob
<1> QED
  BY <1>1, <1>2

\* At time t the deadline of o, which has been running since o.startTime or starts now, has expired.
Overdue(o, t) ==
  /\ ~NoDeadline /\ ~o.suspend
  /\ (IF o.startTime = Nil THEN t ELSE o.startTime) + ActiveDeadlineSeconds - t <= 0

\* The deadline that reconcile tests is that of the cached JobSet.
LEMMA ExpiredMeans == TypeOK => (Expired <=> Overdue(jsCache, now))
<1> SUFFICES ASSUME TypeOK PROVE Expired <=> Overdue(jsCache, now)
  BY Zenon
<1>1. Prepared.suspend = jsCache.suspend
  BY Zenon, PreparedStart
<1>2. CASE NoDeadline \/ jsCache.suspend
  BY Zenon, <1>1, <1>2 DEF Overdue, NoDeadline, Expired, DeadlineExpired, DeadlineArmed
<1>3. CASE ~NoDeadline /\ ~jsCache.suspend
  <2>1. Prepared.startTime = IF jsCache.startTime = Nil THEN now ELSE jsCache.startTime
    BY Zenon, <1>3, PreparedStart DEF NoDeadline
  <2>2. now # Nil
    BY DEF TypeOK, Nil
  <2>3. Prepared.startTime # Nil
    BY Zenon, <2>1, <2>2
  <2>4. Expired <=> Prepared.startTime + ActiveDeadlineSeconds - now <= 0
    BY Zenon, <1>1, <1>3, <2>3 DEF NoDeadline, Expired, DeadlineExpired, DeadlineArmed, activeDeadlineRemaining
  <2> QED
    BY Zenon, <1>3, <2>1, <2>4 DEF Overdue
<1> QED
  BY Zenon, <1>2, <1>3

\* The same in the next state.
LEMMA ExpiredMeansNext == TypeOK' => (Expired' <=> Overdue(jsCache', now'))
<1>1. (TypeOK => (Expired <=> Overdue(jsCache, now)))'
  BY ExpiredMeans, PTL
<1> QED
  BY Zenon, <1>1 DEF Overdue

\* While the cached JobSet stays, what has expired stays expired.
LEMMA ExpiredLasts ==
  ASSUME TypeOK, [Next]_vars, Expired, jsCache' = jsCache PROVE Expired'
<1>1. TypeOK'
  BY Zenon, NextType
<1>2. now \in Nat /\ now' \in Nat /\ now <= now'
  BY Zenon, NowSteps DEF TypeOK
<1>3. jsCache.startTime \in Nat \cup {Nil}
  BY Zenon, Fields DEF TypeOK
<1>4. ActiveDeadlineSeconds \in Nat \/ NoDeadline
  BY Zenon, DeadlineAssumption DEF NoDeadline
<1>5. Overdue(jsCache, now)
  BY Zenon, ExpiredMeans
<1>6. Overdue(jsCache, now')
  BY <1>2, <1>3, <1>4, <1>5 DEF Overdue
<1> QED
  BY Zenon, <1>1, <1>6, ExpiredMeansNext

\* What has expired stays expired when the cached JobSet is replaced by one of the same attempt.
LEMMA ExpiredSynced ==
  ASSUME TypeOK, Timely, [Next]_vars, Expired, jsCache' = js, now' = now, js.restarts = jsCache.restarts
  PROVE  Expired'
<1>1. TypeOK'
  BY Zenon, NextType
<1>2. Overdue(jsCache, now)
  BY Zenon, ExpiredMeans
<1>3. /\ now \in Nat /\ js.startTime \in Nat \cup {Nil} /\ jsCache.startTime \in Nat \cup {Nil}
      /\ ActiveDeadlineSeconds \in Nat
  BY ZenonT(30), <1>2, Fields, DeadlineAssumption DEF TypeOK, Overdue, NoDeadline
<1>4. /\ ~NoDeadline /\ ~js.suspend
      /\ js.startTime # Nil => js.startTime <= now
      /\ jsCache.startTime # Nil => js.startTime = jsCache.startTime
  BY Zenon, <1>2 DEF Timely, Overdue, Unsuspended
<1>5. Overdue(js, now)
  BY <1>2, <1>3, <1>4 DEF Overdue
<1> QED
  BY Zenon, <1>1, <1>5, ExpiredMeansNext

\* The deadline at the start.
LEMMA InitTimely ==
  ASSUME Init, NoDeadline \/ MaxSuspends = 0 PROVE Timely
<1>1. \E b \in BOOLEAN : js = InitialJobSet(b)
  BY Zenon DEF Init
<1>2. jsCache = js
  BY Zenon DEF Init
<1>3. ASSUME NEW b PROVE InitialJobSet(b).startTime = Nil
  BY Zenon DEF InitialJobSet
<1>4. js.startTime = Nil
  BY Zenon, <1>1, <1>3
<1> QED
  BY Zenon, <1>2, <1>4, InitUnsuspended DEF Timely

\* Every step keeps it.
LEMMA NextTimely ==
  ASSUME TypeOK, Timely, [Next]_vars, NoDeadline \/ MaxSuspends = 0 PROVE Timely'
<1>1. CASE NoDeadline
  BY Zenon, <1>1 DEF Timely, NoDeadline
<1>2. CASE ~NoDeadline
  <2>1. /\ Unsuspended /\ MaxSuspends = 0
        /\ js.startTime # Nil => js.startTime <= now
        /\ js.restarts = jsCache.restarts /\ jsCache.startTime # Nil => js.startTime = jsCache.startTime
    BY Zenon, <1>2 DEF Timely
  <2>2. Unsuspended'
    BY Zenon, <2>1, NextUnsuspended
  <2>3. now \in Nat /\ now' \in Nat /\ now <= now' /\ js.startTime \in Nat \cup {Nil}
    BY ZenonT(30), NowSteps, Fields DEF TypeOK
  <2>4. CASE js' = js
    <3>1. js'.startTime # Nil => js'.startTime <= now'
      BY <2>1, <2>3, <2>4
    <3>2. jsCache' = jsCache \/ jsCache' = js
      BY Zenon, CacheFollows
    <3> QED
      BY ZenonT(30), <2>1, <2>2, <2>4, <3>1, <3>2 DEF Timely
  <2>5. CASE js # js' /\ js = jsCache /\ js' \in PolicyResults
    <3>1. ClockFrom(js')
      BY Zenon, <2>5, ResultsClock
    <3>2. now' = now /\ jsCache' = jsCache
      BY ZenonT(30), <2>5, NowSteps, CacheFollows
    <3>3. js'.startTime # Nil => js'.startTime <= now
      BY <2>1, <2>3, <2>5, <3>1 DEF ClockFrom
    <3>4. jsCache.startTime # Nil => Prepared.startTime = jsCache.startTime
      BY Zenon, <1>2, <2>1, PreparedStart DEF NoDeadline, Unsuspended
    <3>5. js'.restarts = jsCache.restarts /\ jsCache.startTime # Nil => js'.startTime = jsCache.startTime
      BY ZenonT(30), <3>1, <3>4 DEF ClockFrom
    <3> QED
      BY ZenonT(30), <2>2, <3>2, <3>3, <3>5 DEF Timely
  <2> QED
    BY ZenonT(30), <2>1, <2>4, <2>5, WritesUnsuspended
<1> QED
  BY Zenon, <1>1, <1>2

\* A Job of an attempt whose deadline has passed in the cache: it has passed on the API
\* server too, or the attempt is over there.
LEMMA ExpiredJudged ==
  ASSUME TypeOK, CountersInv, StreamInv, Timely, Expired, NEW j \in JobIds, Exists(jobs[j])
  PROVE  DeadlineExpired(js, now) \/ j \in previous(js, jobs)
<1>1. Overdue(jsCache, now)
  BY Zenon, ExpiredMeans
<1>2. /\ now \in Nat /\ jsCache.startTime \in Nat \cup {Nil}
      /\ ActiveDeadlineSeconds \in Nat \ {0}
  BY ZenonT(30), <1>1, Fields, DeadlineAssumption DEF TypeOK, Overdue, NoDeadline
<1>3. jsCache.startTime # Nil
  BY <1>1, <1>2 DEF Overdue
<1>4. /\ jobs[j].restarts \in Nat /\ js.restarts \in Nat /\ jsCache.restarts \in Nat
      /\ jsCache.restarts <= js.restarts
  BY ZenonT(30), Fields DEF TypeOK, Job, CountersInv
<1>5. CASE js.restarts = jsCache.restarts
  <2>1. ~js.suspend /\ js.startTime = jsCache.startTime
    BY Zenon, <1>1, <1>3, <1>5 DEF Timely, Overdue, Unsuspended
  <2>2. activeDeadlineRemaining(js, now) <= 0
    BY Zenon, <1>1, <1>3, <2>1 DEF Overdue, activeDeadlineRemaining
  <2> QED
    BY Zenon, <1>1, <1>3, <2>1, <2>2 DEF DeadlineExpired, DeadlineArmed, Overdue, NoDeadline
<1>6. CASE js.restarts # jsCache.restarts
  <2>1. Labelled /\ Newest \in 0..Newest /\ Shown(Newest) = jobs
    BY StreamParts, Positions
  <2>2. jobs[j].restarts <= jsCache.restarts
    BY Zenon, <2>1 DEF Labelled, Owned, Exists
  <2>3. jobs[j].restarts < js.restarts
    BY <1>4, <1>6, <2>2
  <2> QED
    BY Zenon, <2>3 DEF previous, Owned, Exists
<1> QED
  BY Zenon, <1>5, <1>6

\* The controller deletes only what is obsolete on the API server: Jobs of earlier
\* attempts, or Jobs of a JobSet that has finished there or whose deadline has passed
\* there; if nobody but the controller deletes Jobs, and the JobSet has no deadline or
\* nobody suspends it.
THEOREM DeletesCorrect ==
  ASSUME MaxDeletions = 0, NoDeadline \/ MaxSuspends = 0 PROVE Spec => DeletesOnlyObsolete
<1>1. ASSUME TypeOK, CountersInv, StreamInv, Timely, [Next]_vars, NEW j \in JobIds, Marks(j)
      PROVE  jobSetFinished(js) \/ DeadlineExpired(js, now) \/ j \in previous(js, jobs)
  <2>1. Exists(jobs[j])
    <3>1. Ordered
      BY Zenon, <1>1, StreamParts
    <3> QED
      BY ZenonT(30), <1>1, <3>1, NextTouches, DeletingExists DEF Touches, MarksFor
  <2> QED
    BY ZenonT(30), <1>1, <2>1, DeletesStep, ExpiredJudged
<1>2. TypeOK /\ CountersInv /\ StreamInv /\ Timely /\ [Next]_vars =>
        [\A j \in JobIds : jobs'[j].deleting /\ ~jobs[j].deleting =>
           \/ deletions' # deletions
           \/ jobSetFinished(js) \/ DeadlineExpired(js, now)
           \/ j \in previous(js, jobs)]_vars
  BY ZenonT(30), <1>1 DEF Marks
<1>3. Init => Timely
  BY ZenonT(30), InitTimely
<1>4. TypeOK /\ Timely /\ [Next]_vars => Timely'
  BY ZenonT(30), NextTimely
<1> QED
  BY <1>2, <1>3, <1>4, TypeCorrect, CountersCorrect, StreamCorrect, PTL DEF Spec, DeletesOnlyObsolete

-----------------------------------------------------------------------------
(* The Jobs of the cached attempt, and what is decided from them. *)

\* The labels of a shown Job are numbers.
LEMMA ShownRestarts ==
  ASSUME TypeOK, NEW i \in 0..Newest, NEW j \in JobIds PROVE Shown(i)[j].restarts \in Nat
<1>1. Shown(i)[j] \in Job
  BY Zenon, ShownType
<1> QED
  BY Zenon, <1>1 DEF Job

\* The cached counter of restarts is a number behind that on the API server.
LEMMA RestartsOrder ==
  ASSUME TypeOK, CountersInv
  PROVE  jsCache.restarts \in Nat /\ js.restarts \in Nat /\ jsCache.restarts <= js.restarts
<1>1. js \in JobSet /\ jsCache \in JobSet
  BY Zenon DEF TypeOK
<1>2. jsCache.restarts \in Nat /\ js.restarts \in Nat
  BY Zenon, <1>1, Fields
<1>3. jsCache.restarts <= js.restarts
  BY Zenon DEF CountersInv
<1> QED
  BY Zenon, <1>2, <1>3

\* The cached JobSet changes only when its own event arrives.
LEMMA CacheSteps ==
  ASSUME [Next]_vars
  PROVE  \/ jsCache' = jsCache
         \/ /\ jsCache' = js /\ js' = js /\ jobs' = jobs
            /\ jobsCache' = jobsCache /\ jobsEvents' = jobsEvents
BY ZenonT(30) DEF Next, vars, apiVars, cacheVars, Reconcile, SyncJobSet, DelayJobs, SyncJobs, Tick,
   UserSetsSuspend, JobController, JobReady, JobStopped, JobUnready, JobComplete, JobFail,
   JobRemoved, UserDeletesJob, SetJob

\* Kept, for two positions.
LEMMA KeptAt ==
  ASSUME Kept, ~jobSetFinished(jsCache), ~Expired, NEW i \in 0..Newest, NEW k \in 0..Newest, i <= k,
         NEW j \in JobIds, Exists(Shown(i)[j]), ~Outdated(jsCache, j, Shown(i)[j])
  PROVE  Exists(Shown(k)[j]) /\ ~Shown(k)[j].deleting
BY Zenon DEF Kept

\* A Job of the cached attempt survives a step.
LEMMA KeptStep ==
  ASSUME TypeOK, CountersInv, StreamInv, Kept, [Next]_vars, MaxDeletions = 0,
         ~jobSetFinished(jsCache), ~Expired, NEW i \in 0..Newest, NEW j \in JobIds,
         Exists(Shown(i)[j]), ~Outdated(jsCache, j, Shown(i)[j])
  PROVE  Exists(jobs'[j]) /\ ~jobs'[j].deleting
<1>1. Ordered
  BY Zenon, StreamParts
<1>2. Newest \in 0..Newest /\ i <= Newest
  BY Positions
<1>3. Exists(jobs[j]) /\ ~jobs[j].deleting
  BY Zenon, <1>2, KeptAt, Positions
<1>4. Touches(j)
  BY Zenon, <1>1, NextTouches, DeletingExists
<1>5. Exists(jobs'[j])
  BY Zenon, <1>3, <1>4 DEF Touches, Moves
<1>6. ASSUME jobs'[j].deleting PROVE FALSE
  <2>1. j \in previous(jsCache, jobsCache)
    BY ZenonT(30), <1>3, <1>4, <1>6 DEF Touches, Marks, MarksFor, Obsolete
  <2>2. Exists(jobsCache[j]) /\ Outdated(jsCache, j, jobsCache[j])
    BY Zenon, <2>1, Buckets
  <2>3. Follows(jobsCache[j], Shown(i)[j], jobs[j])
    BY Zenon, <1>1, <1>2, OrderedFacts
  <2>4. /\ Shown(i)[j].restarts = jobsCache[j].restarts
        /\ Shown(i)[j].jobRestartAttempt = jobsCache[j].jobRestartAttempt
    BY Zenon, <2>2, <2>3 DEF Follows
  <2> QED
    BY Zenon, <2>2, <2>4 DEF Outdated
<1> QED
  BY Zenon, <1>5, <1>6

\* Every step keeps them.
LEMMA NextKept ==
  ASSUME TypeOK, CountersInv, StreamInv, Timely, Kept, [Next]_vars, MaxDeletions = 0
  PROVE  Kept'
<1> SUFFICES ASSUME ~jobSetFinished(jsCache'), ~Expired', NEW i \in 0..Newest', NEW k \in 0..Newest', i <= k,
                    NEW j \in JobIds, Exists(Shown(i)'[j]), ~Outdated(jsCache', j, Shown(i)'[j])
             PROVE  Exists(Shown(k)'[j]) /\ ~Shown(k)'[j].deleting
  BY Zenon DEF Kept, jobSetFinished, Outdated, Exists
<1>1. Ordered /\ Behind
  BY Zenon, StreamParts
<1>2. ~jobSetFinished(jsCache) /\ ~Expired
  <2>1. ~jobSetFinished(jsCache)
    BY Zenon, <1>1, CacheFollows DEF Behind
  <2>2. ASSUME Expired PROVE FALSE
    <3>1. /\ jsCache' = js /\ js' = js /\ jobs' = jobs
          /\ jobsCache' = jobsCache /\ jobsEvents' = jobsEvents
      BY ZenonT(30), <2>2, ExpiredLasts, CacheSteps
    <3>2. now' = now \/ jsCache' = jsCache
      BY ZenonT(30), NowSteps
    <3>3. js.restarts # jsCache.restarts
      BY ZenonT(30), <2>2, <3>1, <3>2, ExpiredSynced, ExpiredLasts
    <3>4. i \in 0..Newest /\ Shown(i)' = Shown(i)
      BY <3>1, WriteShown, Positions
    <3>5. Shown(i)[j].restarts <= jsCache.restarts
      BY <3>4, StreamParts DEF Labelled, Owned, Exists
    <3>6. /\ Shown(i)[j].restarts \in Nat /\ jsCache.restarts \in Nat /\ js.restarts \in Nat
          /\ jsCache.restarts <= js.restarts
      BY Zenon, <3>4, ShownRestarts, RestartsOrder
    <3>7. Shown(i)[j].restarts < js.restarts
      BY <3>3, <3>5, <3>6
    <3> QED
      BY Zenon, <3>1, <3>4, <3>7 DEF Outdated
  <2> QED
    BY Zenon, <2>1, <2>2
<1>3. ASSUME NEW job \in Job, ~Outdated(jsCache', j, job) PROVE ~Outdated(jsCache, j, job)
  <2>1. js \in JobSet /\ jsCache \in JobSet
        /\ jsCache.restarts <= js.restarts /\ jsCache.jobRestarts[j] <= js.jobRestarts[j]
    BY Zenon, <1>1 DEF TypeOK, CountersInv, Behind
  <2> QED
    BY Zenon, <1>3, <2>1, CacheFollows, OutdatedGrows
<1>4. CASE DelayJobs \/ SyncJobs
  <2>1. PICK p \in 0..Newest, q \in 0..Newest :
          p <= q /\ Shown(i)' = Shown(p) /\ Shown(k)' = Shown(q)
    BY Zenon, <1>4, StreamShift
  <2>2. Shown(p)[j] \in Job
    BY Zenon, ShownType
  <2> QED
    BY Zenon, <1>2, <1>3, <2>1, <2>2, KeptAt
<1>5. CASE jobsCache' = jobsCache /\ jobsEvents' = jobsEvents
  <2>1. i \in 0..Newest /\ k \in 0..Newest /\ Newest # 0 /\ Newest \in 0..Newest
    BY <1>5, WriteShown, Positions
  <2>2. CASE i # Newest
    <3>1. Shown(i)' = Shown(i) /\ Shown(i)[j] \in Job
      BY Zenon, <1>5, <2>1, <2>2, WriteShown, ShownType
    <3>2. Exists(Shown(i)[j]) /\ ~Outdated(jsCache, j, Shown(i)[j])
      BY Zenon, <1>3, <3>1
    <3>3. CASE k # Newest
      BY ZenonT(30), <1>2, <1>5, <2>1, <3>2, <3>3, KeptAt, WriteShown
    <3>4. CASE k = Newest
      BY ZenonT(30), <1>2, <1>5, <2>1, <3>2, <3>4, KeptStep, WriteShown
    <3> QED
      BY Zenon, <3>3, <3>4
  <2>3. CASE i = Newest
    <3>1. k = Newest
      BY <2>1, <2>3, Positions
    <3>2. Shown(i)' = jobs' /\ Shown(k)' = jobs'
      BY ZenonT(30), <1>5, <2>1, <2>3, <3>1, WriteShown
    <3>3. Touches(j)
      BY ZenonT(30), <1>1, NextTouches, DeletingExists
    <3>4. Exists(jobs'[j])
      BY Zenon, <3>2
    <3>5. ASSUME jobs'[j].deleting PROVE FALSE
      <4>1. /\ Exists(jobs[j]) /\ jobs'[j].restarts = jobs[j].restarts
            /\ jobs'[j].jobRestartAttempt = jobs[j].jobRestartAttempt
        BY ZenonT(30), <3>2, <3>3, <3>4, <3>5 DEF Touches, Moves
      <4>2. ~Outdated(jsCache', j, jobs[j])
        BY ZenonT(30), <3>2, <4>1 DEF Outdated
      <4>3. jobs[j] \in Job
        BY Zenon DEF TypeOK
      <4>4. Exists(Shown(Newest)[j]) /\ ~Outdated(jsCache, j, Shown(Newest)[j])
        BY ZenonT(30), <1>3, <4>1, <4>2, <4>3, Positions
      <4> QED
        BY ZenonT(30), <1>2, <2>1, <3>5, <4>4, KeptStep
    <3> QED
      BY Zenon, <3>2, <3>4, <3>5
  <2> QED
    BY ZenonT(30), <2>2, <2>3
<1> QED
  BY ZenonT(30), <1>4, <1>5, StreamSteps

\* A finished Job of the cached attempt is in the same bucket in every later state.
LEMMA OutcomeStays ==
  ASSUME TypeOK, StreamInv, Kept, ~jobSetFinished(jsCache), ~Expired, NEW k \in 0..Newest, NEW j \in JobIds,
         Over(jobsCache[j]), ~Outdated(jsCache, j, jobsCache[j])
  PROVE  /\ Shown(k)[j].phase = jobsCache[j].phase
         /\ Shown(k)[j].restarts = jsCache.restarts
         /\ ~Outdated(jsCache, j, Shown(k)[j])
<1>1. Ordered /\ Labelled
  BY Zenon, StreamParts
<1>2. 0 \in 0..Newest /\ 0 <= k /\ Shown(0) = jobsCache
  BY Positions
<1>3. Exists(Shown(k)[j]) /\ Exists(jobsCache[j])
  BY Zenon, <1>2, KeptAt DEF Over, Exists
<1>4. Follows(jobsCache[j], Shown(k)[j], jobs[j])
  BY Zenon, <1>1, <1>2, OrderedFacts
<1>5. /\ Shown(k)[j].phase = jobsCache[j].phase
      /\ Shown(k)[j].restarts = jobsCache[j].restarts
      /\ Shown(k)[j].jobRestartAttempt = jobsCache[j].jobRestartAttempt
  BY Zenon, <1>3, <1>4 DEF Follows
<1>6. jobsCache[j].restarts <= jsCache.restarts
  BY ZenonT(30), <1>1, <1>2, <1>3 DEF Labelled, Owned, Exists
<1>7. jobsCache[j].restarts \in Nat /\ jsCache.restarts \in Nat
  BY ZenonT(30), Fields DEF TypeOK, Job
<1>8. ~(jobsCache[j].restarts < jsCache.restarts)
  BY Zenon DEF Outdated
<1> QED
  BY <1>5, <1>6, <1>7, <1>8 DEF Outdated

\* The failed and the successful Jobs of the cached attempt only become more.
LEMMA OutcomesGrow ==
  ASSUME TypeOK, StreamInv, Kept, ~jobSetFinished(jsCache), ~Expired, NEW k \in 0..Newest
  PROVE  /\ failed(jsCache, jobsCache) \subseteq failed(jsCache, Shown(k))
         /\ successful(jsCache, jobsCache) \subseteq successful(jsCache, Shown(k))
<1>1. failed(jsCache, jobsCache) \subseteq JobIds /\ successful(jsCache, jobsCache) \subseteq JobIds
  BY Zenon DEF failed, successful, current, Owned
<1>2. ASSUME NEW j \in JobIds, j \in failed(jsCache, jobsCache)
      PROVE  j \in failed(jsCache, Shown(k))
  <2>1. jobsCache[j].phase = "failed" /\ ~Outdated(jsCache, j, jobsCache[j])
    BY Zenon, <1>2, Buckets
  <2>2. Shown(k)[j].phase = "failed" /\ ~Outdated(jsCache, j, Shown(k)[j])
    BY Zenon, <2>1, OutcomeStays DEF Over
  <2> QED
    BY Zenon, <2>2, Buckets
<1>3. ASSUME NEW j \in JobIds, j \in successful(jsCache, jobsCache)
      PROVE  j \in successful(jsCache, Shown(k))
  <2>1. jobsCache[j].phase = "complete" /\ ~Outdated(jsCache, j, jobsCache[j])
    BY ZenonT(30), <1>3, Buckets
  <2>2. Shown(k)[j].phase = "complete" /\ ~Outdated(jsCache, j, Shown(k)[j])
    BY Zenon, <2>1, OutcomeStays DEF Over
  <2> QED
    BY Zenon, <2>2, Buckets
<1> QED
  BY Zenon, <1>1, <1>2, <1>3

\* A Job is new, or has the label it had.
LEMMA NewOrSame ==
  ASSUME TypeOK, StreamInv, [Next]_vars, MaxDeletions = 0, NEW j \in JobIds, Exists(jobs'[j])
  PROVE  \/ Creates(j) /\ CreatesFor(j)
         \/ Exists(jobs[j]) /\ jobs'[j].restarts = jobs[j].restarts
<1>1. Touches(j)
  BY Zenon, StreamParts, NextTouches, DeletingExists
<1> QED
  BY Zenon, <1>1 DEF Touches, Moves, Creates

\* Every step keeps Jobs of earlier attempts preceded by others.
LEMMA NextPrecedes ==
  ASSUME TypeOK, CountersInv, StreamInv, Decided, Precedes, [Next]_vars, MaxDeletions = 0
  PROVE  Precedes'
<1> SUFFICES ASSUME NEW i \in 0..Newest', Old(jobs', jsCache'.restarts)
             PROVE  Old(Shown(i)', jsCache'.restarts)
  BY Zenon DEF Precedes, Old, Exists
<1>1. CASE (DelayJobs \/ SyncJobs) /\ jobs' = jobs /\ jsCache' = jsCache
  <2>1. PICK p \in 0..Newest : Shown(i)' = Shown(p)
    <3>1. TypeOK'
      BY ZenonT(30), NextType
    <3>2. Newest' \in Nat
      BY <3>1 DEF TypeOK, Newest
    <3>3. i <= i
      BY <3>2
    <3> QED
      BY ZenonT(30), <1>1, <3>3, StreamShift
  <2> QED
    BY Zenon, <1>1, <2>1 DEF Precedes
<1>2. CASE jobsCache' = jobsCache /\ jobsEvents' = jobsEvents /\ jsCache' = jsCache
  <2>1. i \in 0..Newest /\ Newest # 0
    BY <1>2, WriteShown, Positions
  <2>2. CASE i = Newest
    BY ZenonT(30), <1>2, <2>1, <2>2, WriteShown
  <2>3. CASE i # Newest
    <3>1. PICK j \in JobIds : Exists(jobs'[j]) /\ jobs'[j].restarts < jsCache.restarts
      BY Zenon, <1>2 DEF Old
    <3>2. jsCache.restarts \in Nat
      BY Zenon, Fields DEF TypeOK
    <3>3. ~CreatesFor(j)
      BY SMTT(30), <3>1, <3>2 DEF CreatesFor
    <3>4. Exists(jobs[j]) /\ jobs[j].restarts < jsCache.restarts
      BY ZenonT(30), <3>1, <3>3, NewOrSame
    <3>5. Old(Shown(i), jsCache.restarts)
      BY Zenon, <2>1, <3>4 DEF Precedes, Old
    <3> QED
      BY ZenonT(30), <1>2, <2>3, <3>5, WriteShown
  <2> QED
    BY ZenonT(30), <2>2, <2>3
<1>3. CASE /\ jsCache' = js /\ jobs' = jobs
           /\ jobsCache' = jobsCache /\ jobsEvents' = jobsEvents
  <2>1. i \in 0..Newest /\ Newest # 0 /\ Shown(i)' = Shown(i)
    BY <1>3, WriteShown, Positions
  <2>2. CASE js.restarts = jsCache.restarts
    BY ZenonT(30), <1>3, <2>1, <2>2 DEF Precedes
  <2>3. CASE js.restarts # jsCache.restarts
    <3>1. PICK j \in JobIds : Exists(Shown(i)[j])
      BY Zenon, <2>1, <2>3 DEF Decided, Lasting
    <3>2. Shown(i)[j].restarts <= jsCache.restarts
      BY ZenonT(30), <2>1, <3>1, StreamParts DEF Labelled, Owned, Exists
    <3>3. /\ Shown(i)[j].restarts \in Nat /\ jsCache.restarts \in Nat /\ js.restarts \in Nat
          /\ jsCache.restarts <= js.restarts
      BY Zenon, <2>1, ShownRestarts, RestartsOrder
    <3>4. Shown(i)[j].restarts < js.restarts
      BY <2>3, <3>2, <3>3
    <3> QED
      BY ZenonT(30), <1>3, <2>1, <3>1, <3>4 DEF Old, Exists
  <2> QED
    BY ZenonT(30), <2>2, <2>3
<1> QED
  BY ZenonT(30), <1>1, <1>2, <1>3, StreamSteps, CacheSteps

\* Without a failure policy there is no restart.
LEMMA NextNeverRestarted ==
  ASSUME TypeOK, NeverRestarted, [Next]_vars PROVE NeverRestarted'
BY Zenon, NextEffects DEF NeverRestarted, Counts

\* When a Job is created under BlockingRecreate, every other is of the cached attempt.
LEMMA CreatedAlone ==
  ASSUME TypeOK, CountersInv, StreamInv, Precedes, NeverRestarted,
         RestartStrategy = "BlockingRecreate",
         HasFailurePolicy => previous(jsCache, jobsCache) = {},
         NEW j \in JobIds, Exists(jobs[j])
  PROVE  jobs[j].restarts = jsCache.restarts
<1>1. 0 \in 0..Newest /\ Newest \in 0..Newest /\ Shown(0) = jobsCache /\ Shown(Newest) = jobs
  BY SMTT(30), Positions
<1>2. jobs[j].restarts \in Nat /\ jsCache.restarts \in Nat /\ js.restarts \in Nat
      /\ jsCache.restarts <= js.restarts
  BY ZenonT(30), Fields DEF TypeOK, Job, CountersInv
<1>3. jobs[j].restarts <= jsCache.restarts
  <2>1. Labelled
    BY Zenon, StreamParts
  <2> QED
    BY ZenonT(30), <1>1, <2>1 DEF Labelled, Owned, Exists
<1>4. CASE HasFailurePolicy
  <2>1. ~Old(jobsCache, jsCache.restarts)
    <3>1. ASSUME NEW k \in JobIds, Exists(jobsCache[k]), jobsCache[k].restarts < jsCache.restarts
          PROVE  FALSE
      BY Zenon, <1>4, <3>1, Buckets DEF Outdated
    <3> QED
      BY Zenon, <3>1 DEF Old
  <2>2. ~Old(jobs, jsCache.restarts)
    BY Zenon, <1>1, <2>1 DEF Precedes
  <2>3. ~(jobs[j].restarts < jsCache.restarts)
    BY Zenon, <2>2 DEF Old
  <2> QED
    BY <1>2, <1>3, <2>3
<1>5. CASE ~HasFailurePolicy
  BY SMTT(30), <1>2, <1>3, <1>5 DEF NeverRestarted
<1> QED
  BY Zenon, <1>4, <1>5

\* Every step keeps the attempts apart.
LEMMA NextOneGeneration ==
  ASSUME TypeOK, CountersInv, StreamInv, Precedes, NeverRestarted, OneGeneration, [Next]_vars,
         MaxDeletions = 0
  PROVE  OneGeneration'
<1> SUFFICES ASSUME RestartStrategy = "BlockingRecreate", NEW j \in JobIds, NEW k \in JobIds,
                    Exists(jobs'[j]), Exists(jobs'[k])
             PROVE  jobs'[j].restarts = jobs'[k].restarts
  BY Zenon DEF OneGeneration, Owned, Exists
<1>1. ASSUME NEW x \in JobIds, NEW y \in JobIds, CreatesFor(x), Exists(jobs'[y])
      PROVE  jobs'[y].restarts = jsCache.restarts
  <2>1. HasFailurePolicy => previous(jsCache, jobsCache) = {}
    BY Zenon, <1>1 DEF CreatesFor
  <2>2. CASE CreatesFor(y)
    BY Zenon, <2>2 DEF CreatesFor
  <2>3. CASE Exists(jobs[y]) /\ jobs'[y].restarts = jobs[y].restarts
    BY Zenon, <2>1, <2>3, CreatedAlone
  <2> QED
    BY ZenonT(30), <1>1, <2>2, <2>3, NewOrSame
<1>2. CASE CreatesFor(j) \/ CreatesFor(k)
  BY Zenon, <1>1, <1>2
<1>3. CASE /\ Exists(jobs[j]) /\ jobs'[j].restarts = jobs[j].restarts
           /\ Exists(jobs[k]) /\ jobs'[k].restarts = jobs[k].restarts
  <2>1. jobs[j].restarts = jobs[k].restarts
    BY Zenon, <1>3 DEF OneGeneration, Owned, Exists
  <2> QED
    BY Zenon, <1>3, <2>1
<1> QED
  BY Zenon, <1>2, <1>3, NewOrSame

\* A lasting failure is one that the failure policy sees.
LEMMA LastingFailed ==
  ASSUME NEW j \in JobIds, Lasting(j) PROVE SomeFailed
BY Zenon, Buckets DEF Lasting, SomeFailed

\* The step form of CreatesCurrent.
LEMMA CreatesStep ==
  ASSUME TypeOK, Attempts, [Next]_vars, MaxDeletions = 0, NEW j \in JobIds, Creates(j)
  PROVE  ~jobSetFinished(js) /\ j \notin previous(js, jobs')
<1>1. StreamInv /\ Decided
  BY Zenon DEF Attempts
<1>2. CreatesFor(j)
  BY Zenon, <1>1, NewOrSame DEF Creates
<1>3. ~jobSetFinished(js) /\ js.restarts = jsCache.restarts /\ js.jobRestarts = jsCache.jobRestarts
  <2>1. /\ ~jobSetFinished(jsCache) /\ ~SomeFailed /\ ~Succeeded /\ ~Expired
    BY Zenon, <1>2 DEF CreatesFor
  <2>2. ASSUME NEW x \in JobIds, Lasting(x) PROVE FALSE
    BY Zenon, <2>1, <2>2, LastingFailed
  <2> QED
    BY ZenonT(30), <1>1, <2>1, <2>2 DEF Decided
<1>4. js.restarts \in Nat /\ js.jobRestarts[j] \in Nat
  BY Zenon, Fields DEF TypeOK
<1>5. ~Outdated(js, j, jobs'[j])
  BY SMTT(30), <1>2, <1>3, <1>4 DEF CreatesFor, Outdated
<1> QED
  BY Zenon, <1>3, <1>5, Buckets

\* The step form of RestartNeedsFailure.
LEMMA RestartStep ==
  ASSUME TypeOK, Attempts, [Next]_vars
  PROVE  /\ js'.restarts # js.restarts =>
              /\ js'.restarts = js.restarts + 1
              /\ \E j \in failed(js, jobs) : jobs[j].restarts = js.restarts
         /\ \A j \in JobIds : js'.jobRestarts[j] # js.jobRestarts[j] =>
              /\ js'.jobRestarts[j] = js.jobRestarts[j] + 1
              /\ j \in failed(js, jobs)
<1>1. StreamInv /\ Kept
  BY Zenon DEF Attempts
<1>2. CASE js'.restarts = js.restarts /\ js'.jobRestarts = js.jobRestarts
  BY ZenonT(30), <1>2
<1>3. CASE /\ js = jsCache /\ ~jobSetFinished(js) /\ ~Expired
           /\ Counts(js, js', failed(jsCache, jobsCache))
  <2>1. ASSUME NEW j \in failed(jsCache, jobsCache)
        PROVE  j \in failed(js, jobs) /\ jobs[j].restarts = js.restarts
    <3>1. j \in JobIds
      BY Zenon DEF failed, current, Owned
    <3>2. jobsCache[j].phase = "failed" /\ ~Outdated(jsCache, j, jobsCache[j])
      BY ZenonT(30), <3>1, Buckets
    <3>3. Newest \in 0..Newest /\ Shown(Newest) = jobs
      BY SMTT(30), Positions
    <3>4. /\ jobs[j].phase = "failed" /\ jobs[j].restarts = jsCache.restarts
          /\ ~Outdated(jsCache, j, jobs[j])
      BY ZenonT(30), <1>1, <1>3, <3>1, <3>2, <3>3, OutcomeStays DEF Over
    <3> QED
      BY ZenonT(30), <1>3, <3>1, <3>4, Buckets
  <2> QED
    BY ZenonT(30), <1>3, <2>1 DEF Counts
<1> QED
  <2>1. CASE Expired
    BY ZenonT(30), <1>2, <2>1, NextEffects
  <2>2. CASE ~Expired
    BY ZenonT(30), <1>2, <1>3, <2>2, NextEffects
  <2> QED
    BY Zenon, <2>1, <2>2

\* The success policy counts Jobs, so more of them meet it if fewer do.
SuccessMonotone ==
  \A J, K : successful(jsCache, J) \subseteq successful(jsCache, K) =>
    (SuccessPolicyMet(jsCache, J) => SuccessPolicyMet(jsCache, K))

\* What a reconcile would decide, in the next state.
LEMMA PolicyPrimed ==
  /\ SomeFailed' <=> failed(jsCache', jobsCache') # {}
  /\ Succeeded' <=> SuccessPolicyMet(jsCache', jobsCache')
BY Zenon DEF SomeFailed, Succeeded

\* A lasting failure lasts while the cached JobSet stays.
LEMMA NextLasting ==
  ASSUME TypeOK, StreamInv, [Next]_vars, MaxDeletions = 0, jsCache' = jsCache,
         NEW j \in JobIds, Lasting(j)
  PROVE  Lasting(j)'
<1>1. jobsCache[j].phase = "failed" /\ ~Outdated(jsCache, j, jobsCache[j])
  BY Zenon DEF Lasting
<1>2. Ordered /\ 0 \in 0..Newest /\ 0 \in 0..Newest' /\ Shown(0)' = jobsCache'
  <2>1. TypeOK'
    BY Zenon, NextType
  <2>2. Newest' \in Nat
    BY <2>1 DEF TypeOK, Newest
  <2>3. Shown(0)' = jobsCache'
    BY Zenon DEF Shown
  <2> QED
    BY <2>2, <2>3, StreamParts, Positions
<1>3. CASE DelayJobs \/ SyncJobs
  <2>1. ASSUME NEW k \in 0..Newest' PROVE \E p \in 0..Newest : Shown(k)' = Shown(p)
    <3>1. TypeOK'
      BY Zenon, NextType
    <3>2. Newest' \in Nat
      BY <3>1 DEF TypeOK, Newest
    <3>3. k <= k
      BY <3>2
    <3> QED
      BY Zenon, <1>3, <3>3, StreamShift
  <2>2. PICK p \in 0..Newest : jobsCache' = Shown(p)
    BY ZenonT(30), <1>2, <2>1
  <2>3. Exists(jobsCache[j]) /\ Exists(Shown(p)[j])
    BY Zenon, <1>1 DEF Lasting, Exists
  <2>4. Follows(jobsCache[j], Shown(p)[j], jobs[j])
    <3>1. p <= p
      BY Positions
    <3> QED
      BY Zenon, <1>2, <3>1, OrderedFacts
  <2>5. /\ Shown(p)[j].phase = "failed" /\ Shown(p)[j].restarts = jobsCache[j].restarts
        /\ Shown(p)[j].jobRestartAttempt = jobsCache[j].jobRestartAttempt
    BY ZenonT(30), <1>1, <2>3, <2>4 DEF Follows, Over
  <2>6. ~Outdated(jsCache', j, jobsCache'[j])
    BY ZenonT(30), <1>1, <2>2, <2>5 DEF Outdated
  <2>7. ASSUME NEW k \in 0..Newest' PROVE Exists(Shown(k)'[j]) /\ ~Shown(k)'[j].deleting
    BY Zenon, <2>1 DEF Lasting
  <2> QED
    BY ZenonT(30), <2>2, <2>5, <2>6, <2>7 DEF Lasting, Exists, Outdated
<1>4. CASE jobsCache' = jobsCache /\ jobsEvents' = jobsEvents
  <2>1. Newest \in 0..Newest /\ Exists(jobs[j]) /\ ~jobs[j].deleting
    BY Positions DEF Lasting
  <2>2. Touches(j)
    BY ZenonT(30), <1>2, NextTouches, DeletingExists
  <2>3. j \notin previous(jsCache, jobsCache) /\ j \notin active(jsCache, jobsCache)
    <3>1. j \notin previous(jsCache, jobsCache)
      BY Zenon, <1>1, Buckets
    <3>2. j \notin active(jsCache, jobsCache)
      BY Zenon, <1>1 DEF active, current
    <3> QED
      BY Zenon, <3>1, <3>2
  <2>4. Exists(jobs'[j]) /\ ~jobs'[j].deleting
    BY ZenonT(30), <2>1, <2>2, <2>3 DEF Touches, Moves, Marks, MarksFor, Obsolete
  <2>5. ASSUME NEW k \in 0..Newest' PROVE Exists(Shown(k)'[j]) /\ ~Shown(k)'[j].deleting
    <3>1. k \in 0..Newest /\ (k # Newest => Shown(k)' = Shown(k)) /\ (k = Newest => Shown(k)' = jobs')
      BY <1>4, WriteShown, Positions
    <3> QED
      BY ZenonT(30), <2>4, <3>1 DEF Lasting
  <2> QED
    BY Zenon, <1>1, <1>4, <2>5 DEF Lasting, Exists, Outdated
<1> QED
  BY Zenon, <1>3, <1>4, StreamSteps

\* A restart is written for a lasting failure.
LEMMA RestartLasting ==
  ASSUME TypeOK, StreamInv, Kept, [Next]_vars, js = jsCache, ~jobSetFinished(js),
         Counts(js, js', failed(jsCache, jobsCache)),
         Expired => js'.restarts = js.restarts /\ js'.jobRestarts = js.jobRestarts,
         js'.restarts # js.restarts \/ js'.jobRestarts # js.jobRestarts
  PROVE  \E j \in JobIds : Lasting(j)
<1>1. ~Expired
  BY Zenon
<1>2. failed(jsCache, jobsCache) # {}
  <2>1. ASSUME js'.jobRestarts # js.jobRestarts PROVE failed(jsCache, jobsCache) # {}
    <3>1. js' \in JobSet /\ js \in JobSet
      BY Zenon, NextType DEF TypeOK
    <3>2. js'.jobRestarts \in [JobIds -> Nat] /\ js.jobRestarts \in [JobIds -> Nat]
      BY Zenon, <3>1, Fields
    <3>3. PICK j \in JobIds : js'.jobRestarts[j] # js.jobRestarts[j]
      BY <2>1, <3>2
    <3> QED
      BY ZenonT(30), <3>3 DEF Counts
  <2>2. js'.restarts # js.restarts => failed(jsCache, jobsCache) # {}
    BY Zenon DEF Counts
  <2> QED
    BY Zenon, <2>1, <2>2
<1>3. PICK j : j \in failed(jsCache, jobsCache)
  BY Zenon, <1>2
<1>4. j \in JobIds
  BY Zenon, <1>3 DEF failed, current, Owned
<1>5. jobsCache[j].phase = "failed" /\ ~Outdated(jsCache, j, jobsCache[j])
  BY ZenonT(30), <1>3, <1>4, Buckets
<1>6. ASSUME NEW k \in 0..Newest PROVE Exists(Shown(k)[j]) /\ ~Shown(k)[j].deleting
  <2>1. 0 \in 0..Newest /\ 0 <= k /\ Shown(0) = jobsCache
    BY Positions
  <2> QED
    BY ZenonT(30), <1>1, <1>4, <1>5, <2>1, KeptAt DEF Exists
<1> QED
  BY ZenonT(30), <1>4, <1>5, <1>6 DEF Lasting

\* While the cached JobSet stays, so does the reason to end it.
LEMMA ReasonStays ==
  ASSUME TypeOK, StreamInv, Kept, [Next]_vars, SuccessMonotone, jsCache' = jsCache,
         ~jobSetFinished(jsCache), SomeFailed \/ Succeeded \/ Expired
  PROVE  SomeFailed' \/ Succeeded' \/ Expired'
<1>1. CASE Expired
  BY ZenonT(30), <1>1, ExpiredLasts
<1>2. CASE ~Expired
  <2>1. PICK k \in 0..Newest : jobsCache' = Shown(k)
    <3>1. CASE SyncJobs
      <4>1. TypeOK'
        BY ZenonT(30), NextType
      <4>2. 0 \in 0..Newest' /\ Shown(0)' = jobsCache' /\ 0 <= 0
        BY <4>1 DEF TypeOK, Newest, Shown
      <4> QED
        BY ZenonT(30), <3>1, <4>2, StreamShift
    <3>2. CASE jobsCache' = jobsCache
      BY <3>2, Positions
    <3>3. SyncJobs \/ jobsCache' = jobsCache
      BY ZenonT(30) DEF Next, vars, apiVars, cacheVars, Reconcile, SyncJobSet, DelayJobs, Tick,
         UserSetsSuspend, JobController, JobReady, JobStopped, JobUnready, JobComplete, JobFail,
         JobRemoved, UserDeletesJob, SetJob
    <3> QED
      BY ZenonT(30), <3>1, <3>2, <3>3
  <2>2. /\ failed(jsCache, jobsCache) \subseteq failed(jsCache, jobsCache')
        /\ successful(jsCache, jobsCache) \subseteq successful(jsCache, jobsCache')
    BY ZenonT(30), <1>2, <2>1, OutcomesGrow
  <2> QED
    BY ZenonT(30), <1>2, <2>2, PolicyPrimed DEF SomeFailed, Succeeded, SuccessMonotone
<1> QED
  BY Zenon, <1>1, <1>2

\* Every step keeps what has been decided called for.
LEMMA NextDecided ==
  ASSUME TypeOK, StreamInv, Kept, Decided, [Next]_vars, MaxDeletions = 0, SuccessMonotone
  PROVE  Decided'
<1>1. CASE jsCache' = js /\ js' = js
  BY Zenon, <1>1 DEF Decided, jobSetFinished
<1>2. CASE jsCache' = jsCache
  <2>1. CASE /\ js'.restarts = js.restarts /\ js'.jobRestarts = js.jobRestarts
             /\ jobSetFinished(js') <=> jobSetFinished(js)
    <3>1. ASSUME js'.restarts # jsCache'.restarts \/ js'.jobRestarts # jsCache'.jobRestarts
          PROVE  \E j \in JobIds : Lasting(j)'
      <4>1. PICK j \in JobIds : Lasting(j)
        BY Zenon, <1>2, <2>1, <3>1 DEF Decided
      <4> QED
        BY ZenonT(30), <1>2, <4>1, NextLasting
    <3>2. ASSUME jobSetFinished(js'), ~jobSetFinished(jsCache')
          PROVE  SomeFailed' \/ Succeeded' \/ Expired'
      <4>1. ~jobSetFinished(jsCache) /\ (SomeFailed \/ Succeeded \/ Expired)
        BY ZenonT(30), <1>2, <2>1, <3>2 DEF Decided
      <4> QED
        BY ZenonT(30), <1>2, <4>1, ReasonStays
    <3> QED
      BY ZenonT(30), <3>1, <3>2 DEF Decided, jobSetFinished
  <2>2. CASE /\ js = jsCache /\ ~jobSetFinished(js) /\ Counts(js, js', failed(jsCache, jobsCache))
             /\ jobSetFinished(js') => SomeFailed \/ Succeeded \/ Expired
             /\ Expired => js'.restarts = js.restarts /\ js'.jobRestarts = js.jobRestarts
    <3>1. ASSUME js'.restarts # jsCache'.restarts \/ js'.jobRestarts # jsCache'.jobRestarts
          PROVE  \E j \in JobIds : Lasting(j)'
      <4>1. PICK j \in JobIds : Lasting(j)
        BY ZenonT(30), <1>2, <2>2, <3>1, RestartLasting
      <4> QED
        BY Zenon, <1>2, <4>1, NextLasting
    <3>2. ASSUME jobSetFinished(js') PROVE SomeFailed' \/ Succeeded' \/ Expired'
      BY ZenonT(30), <1>2, <2>2, <3>2, ReasonStays
    <3> QED
      BY ZenonT(30), <3>1, <3>2 DEF Decided, jobSetFinished
  <2> QED
    BY ZenonT(30), <2>1, <2>2, NextEffects
<1> QED
  BY ZenonT(30), <1>1, <1>2, CacheFollows

\* The attempts at the start.
LEMMA InitAttempts ==
  ASSUME Init PROVE Attempts
<1>1. /\ jobsEvents = <<>> /\ jobsCache = jobs /\ jobs = [j \in JobIds |-> NoJob]
      /\ jsCache = js /\ \E b \in BOOLEAN : js = InitialJobSet(b)
  BY Zenon DEF Init
<1>2. NoJob.phase = "absent"
  BY Zenon DEF NoJob
<1>3. ASSUME NEW i \in 0..Newest PROVE Shown(i) = jobs
  <2>1. Newest = 1
    BY <1>1 DEF Newest
  <2> QED
    BY <1>1, <1>3, <2>1 DEF Shown
<1>4. ASSUME NEW j \in JobIds PROVE jobs[j].phase = "absent"
  BY Zenon, <1>1, <1>2
<1>5. Kept
  BY Zenon, <1>3, <1>4 DEF Kept, Exists
<1>6. Decided
  BY Zenon, <1>1 DEF Decided
<1>7. Precedes /\ OneGeneration
  BY Zenon, <1>4 DEF Precedes, Old, Exists, OneGeneration, Owned
<1>8. NeverRestarted
  BY Zenon, <1>1, InitialCounters DEF NeverRestarted
<1> QED
  BY ZenonT(30), <1>5, <1>6, <1>7, <1>8, InitStream DEF Attempts

\* The parts make up the invariant.
LEMMA AttemptParts ==
  ASSUME Attempts PROVE AttemptInv
<1>1. StreamInv /\ Kept /\ Decided /\ Precedes /\ NeverRestarted /\ OneGeneration
  BY Zenon DEF Attempts
<1>2. ASSUME ~jobSetFinished(jsCache), ~Expired, NEW i \in 0..Newest, NEW k \in 0..Newest, i <= k,
             NEW j \in Owned(Shown(i)) \ previous(jsCache, Shown(i))
      PROVE  Exists(Shown(k)[j]) /\ ~Shown(k)[j].deleting
  <2>1. j \in JobIds /\ Exists(Shown(i)[j])
    BY Zenon DEF Owned, Exists
  <2>2. ~Outdated(jsCache, j, Shown(i)[j])
    BY Zenon, <2>1, Buckets
  <2> QED
    BY ZenonT(30), <1>1, <1>2, <2>1, <2>2, KeptAt
<1>3. ASSUME NEW i \in 0..Newest, \E j \in Owned(jobs) : jobs[j].restarts < jsCache.restarts
      PROVE  \E j \in Owned(Shown(i)) : Shown(i)[j].restarts < jsCache.restarts
  BY Zenon, <1>1, <1>3 DEF Precedes, Old, Owned, Exists
<1>4. ASSUME js.restarts # jsCache.restarts \/ js.jobRestarts # jsCache.jobRestarts
      PROVE  \E j \in failed(jsCache, jobsCache) :
               \A k \in 0..Newest : Exists(Shown(k)[j]) /\ ~Shown(k)[j].deleting
  <2>1. PICK j \in JobIds : Lasting(j)
    BY Zenon, <1>1, <1>4 DEF Decided
  <2>2. j \in failed(jsCache, jobsCache)
    BY Zenon, <2>1, Buckets DEF Lasting
  <2> QED
    BY Zenon, <2>1, <2>2 DEF Lasting
<1> QED
  BY ZenonT(30), <1>1, <1>2, <1>3, <1>4 DEF AttemptInv, Decided, NeverRestarted

=============================================================================
