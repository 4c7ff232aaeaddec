------------------------ MODULE JobSetAttemptProofs ------------------------
(***************************************************************************)
(* Proofs about the restart attempts of a JobSet: the inductive invariant  *)
(* that relates the Jobs on the API server, the Jobs on their way to the   *)
(* cache and the two copies of the JobSet; and from it that attempts do    *)
(* not overlap, that every restart answers a failure, that no Job is       *)
(* created for an attempt that is over, and that Jobs start in order and   *)
(* after what they depend on.  The policies count Jobs, so the parts about *)
(* them need that a replicatedJob has finitely many.                       *)
(***************************************************************************)
EXTENDS JobSetKeepingProofs, JobSetBudgetProofs

\* More successful Jobs meet the success policy if fewer do.
LEMMA SuccessGrows ==
  ASSUME NEW o, NEW J, NEW K, successful(o, J) \subseteq successful(o, K), SuccessPolicyMet(o, J)
  PROVE  SuccessPolicyMet(o, K)
<1> DEFINE S == {j \in successful(o, J) : replicatedJobMatchesSuccessPolicy(j[1])}
           T == {j \in successful(o, K) : replicatedJobMatchesSuccessPolicy(j[1])}
           M == {j \in JobIds : replicatedJobMatchesSuccessPolicy(j[1])}
<1>1. S \subseteq T /\ T \subseteq JobIds /\ M \subseteq JobIds
  BY Zenon DEF successful, current, Owned
<1>2. IsFiniteSet(T) /\ IsFiniteSet(M)
  BY ZenonT(30), <1>1, JobIdsFinite, FS_Subset
<1>3. Cardinality(S) \in Nat /\ Cardinality(T) \in Nat /\ Cardinality(S) <= Cardinality(T)
      /\ Cardinality(M) \in Nat
  <2> HIDE DEF S, T, M
  <2> QED
    BY ZenonT(30), <1>1, <1>2, FS_Subset, FS_CardinalityType
<1>4. numJobsExpectedToSucceed \in Nat
  BY ZenonT(30), <1>3 DEF numJobsExpectedToSucceed
<1>5. successful(o, J) # {} /\ Cardinality(S) >= numJobsExpectedToSucceed
  BY Zenon DEF SuccessPolicyMet
<1>6. Cardinality(T) >= numJobsExpectedToSucceed
  <2> HIDE DEF S, T, M
  <2> QED
    BY <1>3, <1>4, <1>5
<1> QED
  BY ZenonT(30), <1>5, <1>6 DEF SuccessPolicyMet

\* Every step keeps all of it.
LEMMA NextAttempts ==
  ASSUME TypeOK, CountersInv, Timely, Attempts, [Next]_vars, MaxDeletions = 0 PROVE Attempts'
<1>1. StreamInv /\ Kept /\ Decided /\ Precedes /\ NeverRestarted /\ OneGeneration
  BY Zenon DEF Attempts
<1>2. StreamInv' /\ Kept' /\ Decided'
  <2>1. SuccessMonotone
    BY ZenonT(30), SuccessGrows DEF SuccessMonotone
  <2> QED
    BY ZenonT(30), <1>1, <2>1, NextStream, NextKept, NextDecided
<1>3. Precedes' /\ NeverRestarted' /\ OneGeneration'
  BY ZenonT(30), <1>1, NextPrecedes, NextNeverRestarted, NextOneGeneration
<1> QED
  BY ZenonT(30), <1>2, <1>3 DEF Attempts

\* The attempts, part by part.
LEMMA AttemptsHold ==
  ASSUME MaxDeletions = 0, NoDeadline \/ MaxSuspends = 0 PROVE Spec => []Attempts
<1>1. Init => Attempts
  BY ZenonT(30), InitAttempts
<1>2. TypeOK /\ CountersInv /\ Timely /\ Attempts /\ [Next]_vars => Attempts'
  BY ZenonT(30), NextAttempts
<1>3. Init => Timely
  BY ZenonT(30), InitTimely
<1>4. TypeOK /\ Timely /\ [Next]_vars => Timely'
  BY ZenonT(30), NextTimely
<1> QED
  BY <1>1, <1>2, <1>3, <1>4, TypeCorrect, CountersCorrect, PTL DEF Spec

\* The inductive invariant of the attempts holds for every JobSet spec and every lag of
\* the caches, if nobody but the controller deletes Jobs and the JobSet has no deadline
\* or nobody suspends it.
THEOREM AttemptCorrect ==
  ASSUME MaxDeletions = 0, NoDeadline \/ MaxSuspends = 0 PROVE Spec => []AttemptInv
<1>1. Attempts => AttemptInv
  BY ZenonT(30), AttemptParts
<1> QED
  BY <1>1, AttemptsHold, PTL

\* With BlockingRecreate, Jobs of two restart attempts never exist at the same time.
THEOREM OneGenerationCorrect ==
  ASSUME MaxDeletions = 0, NoDeadline \/ MaxSuspends = 0 PROVE Spec => []OneGeneration
<1>1. AttemptInv => OneGeneration
  BY ZenonT(30) DEF AttemptInv
<1> QED
  BY <1>1, AttemptCorrect, PTL

\* No Job is created for an attempt that is over on the API server, nor for a JobSet
\* that has finished there.
THEOREM CreatesCorrect ==
  ASSUME MaxDeletions = 0, NoDeadline \/ MaxSuspends = 0 PROVE Spec => CreatesCurrent
<1>1. TypeOK /\ Attempts /\ [Next]_vars =>
        [\A j \in JobIds : jobs[j].phase = "absent" /\ jobs'[j].phase # "absent" =>
           ~jobSetFinished(js) /\ j \notin previous(js, jobs')]_vars
  BY ZenonT(30), CreatesStep DEF Creates, Exists
<1> QED
  BY <1>1, TypeCorrect, AttemptsHold, PTL DEF Spec, CreatesCurrent

\* Every restart answers a failure that the API server still holds, and no failure is
\* answered twice.
THEOREM RestartCorrect ==
  ASSUME MaxDeletions = 0, NoDeadline \/ MaxSuspends = 0 PROVE Spec => RestartNeedsFailure
<1>1. TypeOK /\ Attempts /\ [Next]_vars =>
        [/\ js'.restarts # js.restarts =>
              /\ js'.restarts = js.restarts + 1
              /\ \E j \in failed(js, jobs) : jobs[j].restarts = js.restarts
         /\ \A j \in JobIds : js'.jobRestarts[j] # js.jobRestarts[j] =>
              /\ js'.jobRestarts[j] = js.jobRestarts[j] + 1
              /\ j \in failed(js, jobs)]_vars
  BY Zenon, RestartStep
<1> QED
  BY <1>1, TypeCorrect, AttemptsHold, PTL DEF Spec, RestartNeedsFailure

-----------------------------------------------------------------------------
(* The clock of the deadline, and what has been seen ready of a JobSet that nobody suspends. *)

\* The clock of the deadline was started after the JobSet was created, restarted or
\* resumed, and a suspension that a status update has recorded has stopped it.
ClockInv ==
  /\ activeSince \in Nat /\ activeSince <= now
  /\ js.startTime # Nil => activeSince <= js.startTime
  /\ recorded => js.suspend /\ js.startTime = Nil

\* Every step keeps it.
LEMMA NextClock ==
  ASSUME TypeOK, ClockInv, Next, Record PROVE ClockInv'
<1>1. /\ recorded' <=> js'.suspend /\ (recorded \/ (js.suspend /\ js' # js))
      /\ activeSince' = IF js'.restarts # js.restarts \/ recorded THEN now ELSE activeSince
  BY Zenon DEF Record
<1>2. /\ now \in Nat /\ activeSince \in Nat /\ activeSince <= now
      /\ js.startTime # Nil => activeSince <= js.startTime
      /\ recorded => js.suspend /\ js.startTime = Nil
  BY Zenon DEF TypeOK, ClockInv
<1>3. now' \in Nat /\ now <= now' /\ (js' = js \/ now' = now)
  BY Zenon, NowSteps
<1>4. activeSince' \in Nat /\ activeSince' <= now'
  BY <1>1, <1>2, <1>3
<1>5. CASE js' = js
  BY Zenon, <1>1, <1>2, <1>4, <1>5 DEF ClockInv
<1>6. CASE js' = [js EXCEPT !.suspend = ~@]
  <2>1. /\ js'.suspend = ~js.suspend /\ js'.startTime = js.startTime
        /\ js'.restarts = js.restarts
    BY Zenon, <1>6 DEF TypeOK, JobSet
  <2> QED
    BY Zenon, <1>1, <1>2, <1>4, <2>1 DEF ClockInv
<1>7. CASE js' # js /\ js = jsCache /\ js' \in PolicyResults
  <2>1. now' = now /\ now <= now
    BY <1>2, <1>3, <1>7
  <2>2. ClockFrom(js')
    BY Zenon, <1>7, ResultsClock
  <2>3. Prepared.startTime \in {Nil, now, js.startTime}
    BY Zenon, <1>7, PreparedStart
  <2>4. js'.startTime # Nil => activeSince' <= js'.startTime
    BY ZenonT(30), <1>1, <1>2, <1>7, <2>1, <2>2, <2>3 DEF ClockFrom
  <2>5. recorded' => js'.suspend /\ js'.startTime = Nil
    BY Zenon, <1>1, <1>7, <2>2 DEF ClockFrom
  <2> QED
    BY Zenon, <1>4, <2>4, <2>5 DEF ClockInv
<1> QED
  BY Zenon, <1>5, <1>6, <1>7, NextWrites

\* The step form of DeadlineMeasuresActiveTime.
LEMMA DeadlineStep ==
  ASSUME TypeOK, ClockInv, [Next]_vars,
         js'.failedReason = "DeadlineExceeded", js.failedReason # "DeadlineExceeded"
  PROVE  now - activeSince >= ActiveDeadlineSeconds
<1>1. js = jsCache /\ js' \in PolicyResults
  <2>1. js' # [js EXCEPT !.suspend = ~@]
    BY Zenon DEF TypeOK, JobSet
  <2> QED
    BY Zenon, <2>1, NextWrites
<1>2. Expired
  BY Zenon, <1>1, ResultsClock DEF ClockFrom
<1>3. /\ Prepared.startTime # Nil /\ ActiveDeadlineSeconds # Nil
      /\ Prepared.startTime + ActiveDeadlineSeconds - now <= 0
  BY ZenonT(30), <1>2 DEF Expired, DeadlineExpired, DeadlineArmed, activeDeadlineRemaining
<1>4. Prepared.startTime \in {now, js.startTime}
  BY ZenonT(30), <1>1, <1>3, PreparedStart
<1>5. /\ now \in Nat /\ activeSince \in Nat /\ activeSince <= Prepared.startTime
      /\ Prepared.startTime \in Nat /\ ActiveDeadlineSeconds \in Nat
  BY ZenonT(30), <1>3, <1>4, PreparedType, Fields, DeadlineAssumption DEF ClockInv, TypeOK
<1> QED
  BY <1>3, <1>5

\* A Job shown ready or finished has been ready, if it is still there.
ReadySeen ==
  \A i \in 0..Newest : \A j \in JobIds :
    /\ Exists(Shown(i)[j]) /\ Exists(jobs[j])
    /\ Shown(i)[j].ready \/ Over(Shown(i)[j])
    => j \in beenReady

\* What the history records of a Job that is not suspended.
LEMMA RecordReady ==
  ASSUME TypeOK, TypeOK', Unsuspended, Unsuspended', Record, NEW j \in JobIds
  PROVE  /\ Over(jobs'[j]) => j \in beenReady'
         /\ Exists(jobs[j]) /\ Exists(jobs'[j]) /\ (j \in beenReady \/ jobs'[j].ready) =>
              j \in beenReady'
<1>1. jobs'[j].phase \in {"absent", "active", "complete", "failed"}
  BY Zenon DEF TypeOK, Job
<1>2. ~jobs[j].suspend /\ ~jobs'[j].suspend
  BY ZenonT(30) DEF Unsuspended
<1>3. j \in beenReady' <=> \/ jobs'[j].phase \in {"complete", "failed"}
                           \/ /\ jobs'[j].phase = "active" /\ ~jobs'[j].suspend
                              /\ ~Starts(j)
                              /\ j \in beenReady \/ jobs'[j].ready
  BY Zenon DEF Record
<1> QED
  BY ZenonT(30), <1>1, <1>2, <1>3 DEF Starts, Exists, Over

\* Every step keeps it.
LEMMA NextReady ==
  ASSUME TypeOK, StreamInv, Unsuspended, ReadySeen, Next, Record, MaxSuspends = 0, MaxDeletions = 0
  PROVE  ReadySeen'
<1> SUFFICES ASSUME NEW i \in 0..Newest', NEW j \in JobIds,
                    Exists(Shown(i)'[j]), Exists(jobs'[j]), Shown(i)'[j].ready \/ Over(Shown(i)'[j])
             PROVE  j \in beenReady'
  BY Zenon DEF ReadySeen, Exists, Over
<1>1. TypeOK' /\ Unsuspended'
  BY ZenonT(30), NextType, NextUnsuspended
<1>2. CASE (DelayJobs \/ SyncJobs) /\ jobs' = jobs
  <2>1. PICK p \in 0..Newest : Shown(i)' = Shown(p)
    <3>1. i <= i
      BY SMTT(30), <1>1 DEF TypeOK, Newest
    <3> QED
      BY ZenonT(30), <1>2, <3>1, StreamShift
  <2>2. j \in beenReady
    BY ZenonT(30), <1>2, <2>1 DEF ReadySeen
  <2> QED
    BY ZenonT(30), <1>1, <1>2, <2>2, RecordReady
<1>3. CASE jobsCache' = jobsCache /\ jobsEvents' = jobsEvents
  <2>1. i \in 0..Newest /\ Newest # 0 /\ i <= i
    BY SMTT(30), <1>3, WriteShown, Positions
  <2>2. Touches(j) /\ Begins(j)
    BY ZenonT(30), NextTouches, DeletingExists, NextBegins, StreamParts
  <2>3. CASE i = Newest
    <3>1. jobs'[j].ready \/ Over(jobs'[j])
      BY ZenonT(30), <1>3, <2>1, <2>3, WriteShown
    <3>2. jobs'[j].ready => Exists(jobs[j])
      BY ZenonT(30), <2>2 DEF Begins, Creates
    <3> QED
      BY ZenonT(30), <1>1, <3>1, <3>2, RecordReady
  <2>4. CASE i # Newest
    <3>1. Shown(i)' = Shown(i)
      BY ZenonT(30), <1>3, <2>4, WriteShown
    <3>2. Follows(jobsCache[j], Shown(i)[j], jobs[j])
      BY ZenonT(30), <2>1, StreamParts, OrderedFacts
    <3>3. Exists(jobs[j])
      BY ZenonT(30), <2>2, <3>1, <3>2 DEF Touches, Moves, Follows
    <3>4. j \in beenReady
      BY ZenonT(30), <2>1, <3>1, <3>3 DEF ReadySeen
    <3> QED
      BY ZenonT(30), <1>1, <3>3, <3>4, RecordReady
  <2> QED
    BY ZenonT(30), <2>3, <2>4
<1> QED
  BY ZenonT(30), <1>2, <1>3, StreamSteps

\* A Job that the cache shows in the cached attempt is in it before and after a step.
LEMMA SameAttempt ==
  ASSUME TypeOK, CountersInv, StreamInv, Kept, [Next]_vars, MaxDeletions = 0,
         ~jobSetFinished(jsCache), ~Expired, NEW k \in JobIds,
         Exists(jobsCache[k]), ~Outdated(jsCache, k, jobsCache[k])
  PROVE  /\ Exists(jobs[k]) /\ Exists(jobs'[k]) /\ jobs'[k].restarts = jsCache.restarts
         /\ jobsCache[k].phase = "complete" => jobs'[k].phase = "complete"
<1>1. Ordered /\ Labelled
  BY ZenonT(30), StreamParts
<1>2. 0 \in 0..Newest /\ Newest \in 0..Newest /\ 0 <= Newest /\ Shown(0) = jobsCache
      /\ Shown(Newest) = jobs
  BY SMTT(30), Positions
<1>3. Exists(jobs[k]) /\ Exists(jobs'[k]) /\ ~jobs'[k].deleting
  BY ZenonT(30), <1>2, KeptAt, KeptStep
<1>4. Follows(jobsCache[k], jobs[k], jobs[k])
  BY ZenonT(30), <1>1, <1>2, OrderedFacts
<1>5. Touches(k)
  BY ZenonT(30), <1>1, NextTouches, DeletingExists
<1>6. /\ jobs'[k].restarts = jobsCache[k].restarts
      /\ jobsCache[k].phase = "complete" => jobs'[k].phase = "complete"
  BY ZenonT(30), <1>3, <1>4, <1>5 DEF Follows, Touches, Moves, Over
<1>7. jobsCache[k].restarts <= jsCache.restarts
  BY ZenonT(30), <1>1, <1>2 DEF Labelled, Owned, Exists
<1>8. jobsCache[k].restarts \in Nat /\ jsCache.restarts \in Nat
  BY ZenonT(30), Fields DEF TypeOK, Job
<1> QED
  BY SMTT(30), <1>3, <1>6, <1>7, <1>8 DEF Outdated

-----------------------------------------------------------------------------
(* The order in which replicatedJobs start. *)

\* The Jobs that count as started, or as complete, in the cache.
LEMMA StartedSeen ==
  ASSUME TypeOK, NEW k \in JobIds,
         \/ k \in successful(Counted, jobsCache)
         \/ k \in failed(Counted, jobsCache) \cup Ready(Counted, jobsCache) \cup successful(Counted, jobsCache)
  PROVE  /\ Exists(jobsCache[k]) /\ ~Outdated(jsCache, k, jobsCache[k])
         /\ jobsCache[k].ready \/ Over(jobsCache[k])
         /\ k \in successful(Counted, jobsCache) => jobsCache[k].phase = "complete"
<1>1. Outdated(Counted, k, jobsCache[k]) <=> Outdated(jsCache, k, jobsCache[k])
  BY ZenonT(30), CountedKeeps DEF Outdated, SameJobCounters
<1>2. /\ Exists(jobsCache[k]) /\ ~Outdated(Counted, k, jobsCache[k])
      /\ jobsCache[k].ready \/ Over(jobsCache[k])
      /\ k \in successful(Counted, jobsCache) => jobsCache[k].phase = "complete"
  BY ZenonT(30) DEF failed, Ready, active, successful, current, previous, Owned, Outdated, Exists, Over
<1> QED
  BY ZenonT(30), <1>1, <1>2

\* What the history knows, if nobody suspends the JobSet.
HistoryInv == MaxSuspends = 0 => Unsuspended /\ ReadySeen

\* What the cache shows started when a Job starts has been ready, in the same attempt.
LEMMA SeenStep ==
  ASSUME TypeOK, CountersInv, StreamInv, Kept, HistoryInv, Next, Record, MaxDeletions = 0,
         NEW j \in JobIds, Starts(j), NEW k \in JobIds, NEW S, k \in S,
         \/ S = successful(Counted, jobsCache)
         \/ /\ MaxSuspends = 0
            /\ S = failed(Counted, jobsCache) \cup Ready(Counted, jobsCache) \cup successful(Counted, jobsCache)
  PROVE  /\ k \in beenReady' /\ jobs'[k].restarts = jobs'[j].restarts
         /\ S = successful(Counted, jobsCache) => jobs'[k].phase = "complete"
<1>1. ~jobSetFinished(jsCache) /\ ~Expired /\ jobs'[j].restarts = jsCache.restarts
  BY ZenonT(30), NextBegins DEF Begins, StartsFor
<1>2. /\ Exists(jobsCache[k]) /\ ~Outdated(jsCache, k, jobsCache[k])
      /\ jobsCache[k].ready \/ Over(jobsCache[k])
      /\ S = successful(Counted, jobsCache) => jobsCache[k].phase = "complete"
  BY ZenonT(30), StartedSeen
<1>3. /\ Exists(jobs[k]) /\ Exists(jobs'[k]) /\ jobs'[k].restarts = jsCache.restarts
      /\ jobsCache[k].phase = "complete" => jobs'[k].phase = "complete"
  BY ZenonT(30), <1>1, <1>2, SameAttempt
<1>4. CASE S = successful(Counted, jobsCache)
  <2>1. jobs'[k].phase = "complete"
    BY ZenonT(30), <1>2, <1>3, <1>4
  <2>2. k \in beenReady'
    BY ZenonT(30), <2>1 DEF Record
  <2> QED
    BY ZenonT(30), <1>1, <1>3, <2>1, <2>2
<1>5. CASE MaxSuspends = 0 /\ S # successful(Counted, jobsCache)
  <2>1. 0 \in 0..Newest /\ Shown(0) = jobsCache
    BY Positions
  <2>2. k \in beenReady
    BY ZenonT(30), <1>2, <1>3, <1>5, <2>1 DEF HistoryInv, ReadySeen
  <2>3. TypeOK' /\ Unsuspended /\ Unsuspended'
    BY ZenonT(30), <1>5, NextType, NextUnsuspended DEF HistoryInv
  <2>4. k \in beenReady'
    BY ZenonT(30), <1>3, <2>2, <2>3, RecordReady
  <2> QED
    BY ZenonT(30), <1>1, <1>3, <1>5, <2>4
<1> QED
  BY ZenonT(30), <1>4, <1>5

\* A replicatedJob is visited when its dependencies are reached and, in order, all
\* earlier ones have started.
LEMMA VisitedFacts ==
  ASSUME NEW o, NEW J, ~o.suspend, NEW i, i \in Visited(o, J)
  PROVE  /\ i \in RJobs /\ dependencyReachedStatus(o, J, i)
         /\ inOrderStartupPolicy => \A h \in RJobs : h < i => allReplicasStarted(o, J, h)
<1>1. i \in Unstarted(o, J) /\ i \in RJobs /\ dependencyReachedStatus(o, J, i)
  BY ZenonT(30) DEF Visited, Unstarted
<1>2. ASSUME inOrderStartupPolicy, NEW h \in RJobs, h < i PROVE allReplicasStarted(o, J, h)
  <2>1. h \notin Unstarted(o, J)
    <3>1. \A u \in Unstarted(o, J) : i <= u
      BY ZenonT(30), <1>2 DEF Visited
    <3>2. h \in Int /\ i \in Int
      BY <1>1, ReplicasAssumption DEF RJobs
    <3> QED
      BY <1>2, <3>1, <3>2
  <2>2. dependencyReachedStatus(o, J, h)
    BY ZenonT(30), <1>2, AdmissionAssumption DEF dependencyReachedStatus, inOrderStartupPolicy
  <2> QED
    BY ZenonT(30), <1>2, <2>1, <2>2 DEF Unstarted
<1> QED
  BY ZenonT(30), <1>1, <1>2

\* The steps of StartsInOrder and DependenciesReached.
LEMMA OrderStep ==
  ASSUME TypeOK, CountersInv, StreamInv, Kept, HistoryInv, Next, Record, MaxDeletions = 0,
         MaxSuspends = 0, NEW j \in JobIds, Starts(j), inOrderStartupPolicy,
         NEW k \in JobIds, k[1] < j[1]
  PROVE  k \in beenReady' /\ jobs'[k].restarts = jobs'[j].restarts
<1> DEFINE S == failed(Counted, jobsCache) \cup Ready(Counted, jobsCache) \cup successful(Counted, jobsCache)
<1>1. ~Counted.suspend /\ j[1] \in Visited(Counted, jobsCache)
  <2>1. Starts(j) => StartsFor(j)
    BY ZenonT(30), NextBegins DEF Begins
  <2>2. Counted.suspend = jsCache.suspend
    BY Zenon, CountedSuspend
  <2> QED
    BY ZenonT(30), <2>1, <2>2 DEF StartsFor
<1>2. k[1] \in RJobs /\ k \in OfRJob(JobIds, k[1])
  BY DEF JobIds, OfRJob
<1>3. Cardinality(OfRJob(S, k[1])) = Replicas[k[1]]
  BY Zenon, <1>1, <1>2, VisitedFacts DEF allReplicasStarted
<1>4. S \subseteq JobIds
  BY Zenon DEF failed, Ready, active, successful, current, Owned
<1> HIDE DEF S
<1>5. k \in S
  BY ZenonT(30), <1>2, <1>3, <1>4, FullReplicas
<1> QED
  BY Zenon, <1>5, SeenStep DEF S

AllComplete == \A i \in RJobs : \A d \in DependsOn[i] : d.status = "Complete"

\* The same for dependsOn.
LEMMA DependencyStep ==
  ASSUME TypeOK, CountersInv, StreamInv, Kept, HistoryInv, Next, Record, MaxDeletions = 0,
         MaxSuspends = 0 \/ AllComplete, NEW j \in JobIds, Starts(j),
         NEW d \in DependsOn[j[1]], NEW k \in OfRJob(JobIds, d.rjob)
  PROVE  /\ jobs'[k].restarts = jobs'[j].restarts
         /\ k \in beenReady'
         /\ d.status = "Complete" => jobs'[k].phase = "complete"
<1> DEFINE S == IF d.status = "Complete" THEN successful(Counted, jobsCache)
                ELSE failed(Counted, jobsCache) \cup Ready(Counted, jobsCache) \cup successful(Counted, jobsCache)
<1>1. ~Counted.suspend /\ j[1] \in Visited(Counted, jobsCache)
  <2>1. Starts(j) => StartsFor(j)
    BY ZenonT(30), NextBegins DEF Begins
  <2>2. Counted.suspend = jsCache.suspend
    BY Zenon, CountedSuspend
  <2> QED
    BY ZenonT(30), <2>1, <2>2 DEF StartsFor
<1>2. j[1] \in RJobs /\ dependencyReachedStatus(Counted, jobsCache, j[1])
  BY ZenonT(30), <1>1, VisitedFacts
<1>3. d.rjob \in RJobs /\ d.rjob < j[1]
  BY SMTT(30), <1>2, DependsOnAssumption, AdmissionAssumption
<1>4. d.rjob <= j[1]
  BY SMTT(30), <1>2, <1>3, ReplicasAssumption DEF RJobs
<1>5. Cardinality(OfRJob(S, d.rjob)) = Replicas[d.rjob]
  BY ZenonT(30), <1>2, <1>4 DEF dependencyReachedStatus
<1>6. S \subseteq JobIds
  BY ZenonT(30) DEF failed, Ready, active, successful, current, Owned
<1>7. k \in JobIds
  BY ZenonT(30) DEF OfRJob
<1>8. /\ d.status = "Complete" => S = successful(Counted, jobsCache)
      /\ d.status # "Complete" =>
           /\ MaxSuspends = 0
           /\ S = failed(Counted, jobsCache) \cup Ready(Counted, jobsCache) \cup successful(Counted, jobsCache)
  BY ZenonT(30), <1>2 DEF AllComplete
<1> HIDE DEF S
<1>9. k \in S
  BY ZenonT(30), <1>3, <1>5, <1>6, FullReplicas
<1> QED
  BY ZenonT(30), <1>7, <1>8, <1>9, SeenStep

-----------------------------------------------------------------------------
(* The theorems about history. *)

\* The history only records.
LEMMA HistoryOnlyRecords == HSpec => Spec
<1>1. HInit => Init
  BY ZenonT(30) DEF HInit
<1>2. [Next /\ Record]_hvars => [Next]_vars
  BY Zenon DEF hvars
<1> QED
  BY <1>1, <1>2, PTL DEF HSpec, Spec

\* A JobSet fails with DeadlineExceeded only activeDeadlineSeconds after it was created,
\* last restarted, or last resumed from a suspension that a status update has recorded:
\* however stale the copies, however often it is suspended, and whatever status updates
\* are lost.
THEOREM DeadlineCorrect == HSpec => DeadlineMeasuresActiveTime
<1>1. HInit => ClockInv
  <2>1. ASSUME HInit
        PROVE  /\ activeSince = 0 /\ now = 0 /\ recorded = FALSE
               /\ \E b \in BOOLEAN : js = InitialJobSet(b)
    BY ZenonT(30), <2>1 DEF HInit, Init
  <2>2. ASSUME NEW b PROVE InitialJobSet(b).startTime = Nil
    BY Zenon DEF InitialJobSet
  <2> QED
    BY SMTT(30), <2>1, <2>2 DEF ClockInv
<1>2. TypeOK /\ ClockInv /\ [Next /\ Record]_hvars => ClockInv'
  <2>1. ASSUME ClockInv, UNCHANGED hvars PROVE ClockInv'
    BY ZenonT(30), <2>1 DEF ClockInv, hvars, vars, apiVars, envVars
  <2> QED
    BY ZenonT(30), <2>1, NextClock
<1>3. TypeOK /\ ClockInv /\ [Next /\ Record]_hvars =>
        [js'.failedReason = "DeadlineExceeded" /\ js.failedReason # "DeadlineExceeded" =>
           now - activeSince >= ActiveDeadlineSeconds]_hvars
  BY ZenonT(30), DeadlineStep
<1> QED
  BY <1>1, <1>2, <1>3, HistoryOnlyRecords, TypeCorrect, PTL
     DEF HSpec, DeadlineMeasuresActiveTime

\* What the history knows.
LEMMA HistoryHolds ==
  ASSUME MaxDeletions = 0, NoDeadline \/ MaxSuspends = 0 PROVE HSpec => []HistoryInv
<1>1. HInit => HistoryInv
  <2>1. ASSUME HInit PROVE jobs = [j \in JobIds |-> NoJob] /\ NoJob.phase = "absent" /\ Init
    BY ZenonT(30), <2>1 DEF HInit, Init, NoJob
  <2> QED
    BY ZenonT(30), <2>1, InitUnsuspended DEF HistoryInv, ReadySeen, Exists
<1>2. TypeOK /\ Attempts /\ HistoryInv /\ [Next /\ Record]_hvars => HistoryInv'
  <2>1. ASSUME HistoryInv, UNCHANGED hvars PROVE HistoryInv'
    BY ZenonT(30), <2>1 DEF HistoryInv, Unsuspended, ReadySeen, Shown, Newest, hvars, vars, apiVars, cacheVars
  <2>2. ASSUME TypeOK, Attempts, HistoryInv, Next, Record PROVE HistoryInv'
    BY ZenonT(30), <2>2, NextUnsuspended, NextReady DEF HistoryInv, Attempts
  <2> QED
    BY ZenonT(30), <2>1, <2>2
<1> QED
  BY <1>1, <1>2, HistoryOnlyRecords, TypeCorrect, AttemptsHold, PTL DEF HSpec

\* With an InOrder startup policy a Job starts only when every Job of the earlier
\* replicatedJobs is of the same attempt on the API server and has been ready there,
\* for every number of replicatedJobs and replicas and every lag of the caches.
THEOREM StartsInOrderCorrect ==
  ASSUME MaxDeletions = 0, MaxSuspends = 0 PROVE HSpec => StartsInOrder
<1>1. TypeOK /\ CountersInv /\ Attempts /\ HistoryInv /\ [Next /\ Record]_hvars =>
        [\A j \in JobIds : Starts(j) /\ inOrderStartupPolicy =>
           \A k \in JobIds : k[1] < j[1] =>
             k \in beenReady' /\ jobs'[k].restarts = jobs'[j].restarts]_hvars
  BY ZenonT(30), OrderStep DEF Attempts
<1> QED
  BY <1>1, HistoryOnlyRecords, TypeCorrect, CountersCorrect, AttemptsHold, HistoryHolds, PTL
     DEF HSpec, StartsInOrder

\* A Job starts only when every Job it depends on is of the same attempt on the API
\* server and has been ready, or has completed, there.
THEOREM DependenciesCorrect ==
  ASSUME MaxDeletions = 0, MaxSuspends = 0 \/ (NoDeadline /\ AllComplete)
  PROVE  HSpec => DependenciesReached
<1>1. TypeOK /\ CountersInv /\ Attempts /\ HistoryInv /\ [Next /\ Record]_hvars =>
        [\A j \in JobIds : Starts(j) =>
           \A d \in DependsOn[j[1]] : \A k \in OfRJob(JobIds, d.rjob) :
             /\ jobs'[k].restarts = jobs'[j].restarts
             /\ k \in beenReady'
             /\ d.status = "Complete" => jobs'[k].phase = "complete"]_hvars
  BY Zenon, DependencyStep DEF Attempts
<1> QED
  BY <1>1, HistoryOnlyRecords, TypeCorrect, CountersCorrect, AttemptsHold, HistoryHolds, PTL
     DEF HSpec, DependenciesReached

=============================================================================
