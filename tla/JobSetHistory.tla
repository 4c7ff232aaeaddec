---------------------------- MODULE JobSetHistory ----------------------------
(***************************************************************************)
(* JobSetReconciler with history variables, for the properties that        *)
(* compare a step with what happened before it: the order in which         *)
(* replicatedJobs start, and how long the JobSet has been active when its  *)
(* deadline fails it.                                                      *)
(* The history only records; it never enables or disables a step.          *)
(***************************************************************************)
EXTENDS JobSetReconciler

VARIABLES
  beenReady,       \* the Jobs that have been ready since they were started, or have finished
  recorded,        \* whether the status has been updated since the JobSet was suspended
  activeSince      \* when the JobSet was created, last restarted, or last resumed from a
                   \* suspension that was recorded

hvars == <<vars, beenReady, recorded, activeSince>>

\* This step starts Job j: creates it unsuspended, or resumes it.
Starts(j) ==
  /\ jobs'[j].phase = "active" /\ ~jobs'[j].suspend
  /\ jobs[j].phase = "absent" \/ jobs[j].suspend

Record ==
  /\ beenReady' = {j \in JobIds :
       \/ jobs'[j].phase \in {"complete", "failed"}
       \/ /\ jobs'[j].phase = "active" /\ ~jobs'[j].suspend
          /\ ~Starts(j)
          /\ j \in beenReady \/ jobs'[j].ready}
  /\ recorded' = (js'.suspend /\ (recorded \/ (js.suspend /\ js' # js)))
  /\ activeSince' = IF js'.restarts # js.restarts \/ recorded THEN now ELSE activeSince

HInit == Init /\ beenReady = {} /\ recorded = FALSE /\ activeSince = 0
HSpec == HInit /\ [][Next /\ Record]_hvars
HFairSpec == HSpec /\ Fairness

-----------------------------------------------------------------------------

\* With an InOrder startup policy, a Job is created unsuspended or resumed only
\* when every Job of the earlier replicatedJobs is of the same attempt and has
\* been ready since it was started itself (or has finished).
StartsInOrder ==
  [][\A j \in JobIds : Starts(j) /\ inOrderStartupPolicy =>
       \A k \in JobIds : k[1] < j[1] =>
         k \in beenReady' /\ jobs'[k].restarts = jobs'[j].restarts]_hvars

\* A Job starts only when every Job its replicatedJob depends on is of the same
\* attempt and has been ready, or has completed, as dependsOn asks:
\* dependencyReachedStatus is decided on a cached and possibly older view.
DependenciesReached ==
  [][\A j \in JobIds : Starts(j) =>
       \A d \in DependsOn[j[1]] : \A k \in OfRJob(JobIds, d.rjob) :
         /\ jobs'[k].restarts = jobs'[j].restarts
         /\ k \in beenReady'
         /\ d.status = "Complete" => jobs'[k].phase = "complete"]_hvars

\* A JobSet fails with DeadlineExceeded only after spec.activeDeadlineSeconds
\* since it was created, since its last restart, and since its last resume from a
\* suspension that a status update has recorded: the time before and during those
\* does not count (syncActiveDeadlineStartTime, resetStartTimeOnGlobalRestart),
\* though the deadline is judged on cached copies. A suspension that is over before
\* any status update shows it leaves startTime as it was.
DeadlineMeasuresActiveTime ==
  [][js'.failedReason = "DeadlineExceeded" /\ js.failedReason # "DeadlineExceeded" =>
       now - activeSince >= ActiveDeadlineSeconds]_hvars

=============================================================================
