-------------------------- MODULE SchedulingObjects --------------------------
(***************************************************************************)
(* Workload-aware scheduling: the Workload and the PodGroups that the      *)
(* JobSet controller compiles from spec.scheduling.  They exist while the  *)
(* JobSet is active; the Jobs name the PodGroup of their Pods in immutable *)
(* templates, and a finalizer keeps an object that is deleted until the    *)
(* Pods that use it are gone.                                              *)
(*                                                                         *)
(* A reconcile is one step.  It reads the JobSet, the Jobs, the Workload   *)
(* and the PodGroups from caches, one for each kind, and runs when a cache *)
(* changes, when the last reconcile has failed, or when a timer expires.   *)
(* A write is refused when the copy it is made from is not the one on the  *)
(* server.  Copies of equal content are not told apart: what the           *)
(* controller decides from one is right for the other.                     *)
(***************************************************************************)
EXTENDS Integers, Sequences, FiniteSets, TLC

CONSTANTS
  Jobs,          \* the child Jobs
  Configs,       \* the values of spec.scheduling
  Template,      \* Template[c][j]: the PodGroup template of Job j
  Policy,        \* Policy[c]: "Gang" or "Basic"
  Gated,         \* Gated[c]: c sets fields that the API server drops
  Sizes,         \* the numbers of Pods a JobSet is scaled to
  Created,       \* the specs the JobSet may be created with
  MaxEdits,      \* bound on the changes the user makes,
  ScaleCost      \* of which a scaling uses up so many

ASSUME SchedulingAssumption ==
  /\ \A c \in Configs : DOMAIN Template[c] = Jobs
  /\ Policy \in [Configs -> {"Gang", "Basic"}] /\ Gated \in [Configs -> BOOLEAN]
  /\ Created \subseteq [suspend : BOOLEAN, config : Configs, size : Sizes]
  /\ Sizes \subseteq Nat /\ MaxEdits \in Nat /\ ScaleCost \in Nat

Names == {Template[c][j] : c \in Configs, j \in Jobs}

VARIABLES
  js,         \* the JobSet: spec.suspend, spec.scheduling, Pod count, and of the status
              \* whether it is finished, the Suspended condition and startTime
  jobs,       \* a function from the Jobs that exist
  workload,   \* a function from {"workload"}, or the empty function
  groups,     \* a function from the PodGroups that exist
  jsCache, jobsCache, workloadCache, groupsCache,
  pods,       \* a function from the Jobs that have Pods to the PodGroups they use
  queued,     \* the JobSet is in the work queue, to be reconciled now
  timer,      \* it is there to be reconciled when the active deadline expires
  expired,    \* activeDeadlineSeconds have passed since startTime
  edits

objects == <<workload, groups>>
caches == <<jsCache, jobsCache, workloadCache, groupsCache>>
vars == <<js, jobs, objects, caches, pods, queued, timer, expired, edits>>

Empty == [x \in {} |-> 0]
Without(f, S) == [x \in DOMAIN f \ S |-> f[x]]
MarkDeleted(f, S) == [x \in DOMAIN f |-> IF x \in S THEN [f[x] EXCEPT !.deleting = TRUE] ELSE f[x]]

Init ==
  /\ \E s \in Created :
       js = [suspend |-> s.suspend, config |-> s.config, size |-> s.size,
             finished |-> FALSE, suspended |-> FALSE, started |-> FALSE]
  /\ jobs = Empty /\ workload = Empty /\ groups = Empty
  /\ jsCache = js /\ jobsCache = Empty /\ workloadCache = Empty /\ groupsCache = Empty
  /\ pods = Empty /\ queued = TRUE /\ timer = FALSE /\ expired = FALSE /\ edits = 0

-----------------------------------------------------------------------------
(***************************************************************************)
(* The compiled objects.  A PodGroup has the policy, the minCount of a     *)
(* gang, the gated fields, and the fields that the server fills in.        *)
(***************************************************************************)
Templates(c) == {Template[c][j] : j \in Jobs}

\* Mutant: a Pod is counted twice.
OneTooManyMutant(s) ==
  [policy |-> Policy[s.config], min |-> IF Policy[s.config] = "Gang" THEN s.size + 1 ELSE 0,
   gated |-> Gated[s.config], filled |-> FALSE]

podSpec(s) ==
  [policy |-> Policy[s.config], min |-> IF Policy[s.config] = "Gang" THEN s.size ELSE 0,
   gated |-> Gated[s.config], filled |-> FALSE]

buildWorkload(s) == [templates |-> [t \in Templates(s.config) |-> podSpec(s)], deleting |-> FALSE]

\* What the API server keeps of a spec.
StoredSpec(d) == [d EXCEPT !.gated = FALSE, !.filled = TRUE]
StoredWorkload(w) ==
  [w EXCEPT !.templates = [t \in DOMAIN @ |-> [@[t] EXCEPT !.gated = FALSE]]]

\* Mutant: the fields are compared as they are.
RawCompareMutant(e, d) == [e EXCEPT !.min = 0] = [d EXCEPT !.min = 0]

EqualIgnoringMinCount(e, d) ==
  /\ e.policy = d.policy
  /\ e.gated => d.gated
  /\ d.filled => e.filled

workloadNeedsRecreation(e, d) ==
  \/ DOMAIN e.templates # DOMAIN d.templates
  \/ \E t \in DOMAIN e.templates : ~EqualIgnoringMinCount(e.templates[t], d.templates[t])

\* Objects as the cache has them.
W == "workload"
CachedWorkload == W \in DOMAIN workloadCache
schedulingObjectsReady ==
  /\ CachedWorkload /\ ~workloadCache[W].deleting
  /\ \A t \in Templates(jsCache.config) : t \in DOMAIN groupsCache /\ ~groupsCache[t].deleting

\* The Jobs to be scaled.
scaling == {j \in DOMAIN jobsCache : jobsCache[j].size # jsCache.size}

-----------------------------------------------------------------------------
(***************************************************************************)
(* The API calls of a reconcile that fail, or are not made because one     *)
(* before them has failed: on scheduling objects, when Jobs are scaled,    *)
(* when they are created, updated or deleted, and on the status.  The      *)
(* first error ends the reconcile, so they are of one sort.                *)
(***************************************************************************)
NoFailure == [objects |-> {}, scaling |-> {}, jobs |-> {}, status |-> FALSE]
Failures ==
  {NoFailure, [NoFailure EXCEPT !.status = TRUE]}
  \cup {[NoFailure EXCEPT !.objects = S] :
          S \in SUBSET (DOMAIN groupsCache \cup Templates(jsCache.config) \cup {W})}
  \cup {[NoFailure EXCEPT !.scaling = S] : S \in SUBSET scaling}
  \cup {[NoFailure EXCEPT !.jobs = S] : S \in SUBSET Jobs}

(***************************************************************************)
(* Operations on the objects, of which g and w are on the server and the   *)
(* calls on F fail.  Each gives the new objects and whether there was no   *)
(* error.                                                                  *)
(***************************************************************************)
Result(g, w, ok) == [groups |-> g, workload |-> w, ok |-> ok]

\* The PodGroups that the cache shows, and if that went well the Workload.
deleteSchedulingObjects(g, w, F) ==
  LET deleted == DOMAIN groupsCache \cap F = {}
  IN  Result(MarkDeleted(g, DOMAIN groupsCache \ F),
             IF deleted THEN MarkDeleted(w, DOMAIN workloadCache \ F) ELSE w,
             deleted /\ DOMAIN workloadCache \cap F = {})

\* The PodGroups, one template after the other in any order.  One that the cache does not
\* show is created, unless the name is taken; a minCount that differs from the cached one is
\* updated; the others are left alone.  The first that is terminating ends this, the first
\* that has drifted causes all objects to be deleted, and the first call that fails is an
\* error.
ReconcileGroups(w, F, order) ==
  LET d == podSpec(jsCache)
      cached(t) == t \in DOMAIN groupsCache
      terminating(t) == cached(t) /\ groupsCache[t].deleting
      drifted(t) == cached(t) /\ ~EqualIgnoringMinCount(groupsCache[t].spec, d)
      updated(t) == cached(t) /\ groupsCache[t].spec.min # d.min
      refused(t) == \/ t \in F /\ (cached(t) => updated(t))
                    \/ updated(t) /\ ~(t \in DOMAIN groups /\ groups[t] = groupsCache[t])
      stops == {i \in DOMAIN order : terminating(order[i]) \/ drifted(order[i]) \/ refused(order[i])}
      first == CHOOSE i \in stops : \A k \in stops : i <= k
      done == {order[i] : i \in {i \in DOMAIN order : \A k \in stops : i < k}}
      written == [t \in DOMAIN groups \cup {t \in done : ~cached(t)} |->
                    IF t \notin DOMAIN groups THEN [spec |-> StoredSpec(d), deleting |-> FALSE]
                    ELSE IF t \in done /\ updated(t) THEN [groups[t] EXCEPT !.spec.min = d.min]
                    ELSE groups[t]]
  IN  IF stops = {} \/ terminating(order[first]) THEN Result(written, w, TRUE)
      ELSE IF drifted(order[first]) THEN deleteSchedulingObjects(written, w, F)
      ELSE Result(written, w, FALSE)

reconcileSchedulingObjects(F, order) ==
  LET d == buildWorkload(jsCache)
      e == workloadCache[W]
      min == [t \in DOMAIN d.templates |-> d.templates[t].min]
      created == IF W \in DOMAIN workload THEN workload ELSE [w \in {W} |-> StoredWorkload(d)]
      patched == [workload EXCEPT ![W].templates =
                    [t \in DOMAIN @ |-> [@[t] EXCEPT !.min = min[t]]]]
      error == Result(groups, workload, FALSE)
  IN  IF ~CachedWorkload THEN IF W \in F THEN error ELSE ReconcileGroups(created, F, order)
      ELSE IF e.deleting THEN Result(groups, workload, TRUE)
      ELSE IF workloadNeedsRecreation(e, d) THEN deleteSchedulingObjects(groups, workload, F)
      ELSE IF \A t \in DOMAIN min : e.templates[t].min = min[t] THEN ReconcileGroups(workload, F, order)
      ELSE IF W \in F \/ workload # workloadCache THEN error
      ELSE ReconcileGroups(patched, F, order)

Orders(S) == {o \in [1..Cardinality(S) -> S] : \A i, k \in DOMAIN o : o[i] = o[k] => i = k}

-----------------------------------------------------------------------------
(***************************************************************************)
(* Reconcile, the parts that matter here.  An error ends it, and it is     *)
(* repeated.  Otherwise a status that has changed is written at the end,   *)
(* which is refused if the JobSet has changed since.  An entry of the work *)
(* queue is taken out when its reconcile starts, so that there is no timer *)
(* unless the reconcile asks for one.                                      *)
(***************************************************************************)
ReturnError == js' = js /\ queued' = TRUE

updateStatus(new, f) ==
  LET refused == new # jsCache /\ (f.status \/ js # jsCache)
  IN  /\ js' = IF new = jsCache \/ refused THEN js ELSE new
      /\ queued' = refused

Write(r) == groups' = r.groups /\ workload' = r.workload

deleteJobs(F) == jobs' = MarkDeleted(jobs, DOMAIN jobsCache \ F)
JobsDeleted(F) == DOMAIN jobsCache \cap F = {}

\* A finished JobSet.
ReconcileFinished(f) ==
  /\ jsCache.finished
  /\ deleteJobs(f.jobs)
  /\ \/ ~JobsDeleted(f.jobs) /\ ReturnError /\ UNCHANGED objects
     \/ /\ JobsDeleted(f.jobs)
        /\ LET r == deleteSchedulingObjects(groups, workload, f.objects)
           IN  Write(r) /\ IF r.ok THEN updateStatus(jsCache, f) ELSE ReturnError
  /\ UNCHANGED <<timer, expired>>

DeadlineExpired == ~jsCache.suspend /\ jsCache.started /\ expired

failJobSetOnActiveDeadline(f) ==
  /\ ~jsCache.finished /\ DeadlineExpired
  /\ deleteJobs(f.jobs)
  /\ IF JobsDeleted(f.jobs) THEN updateStatus([jsCache EXCEPT !.finished = TRUE], f) ELSE ReturnError
  /\ UNCHANGED <<objects, timer, expired>>

\* syncJobScaling patches the Jobs whose size has changed, whatever they have become
\* meanwhile; a patch of a Job that is gone is an error.
Scaled(F) ==
  [j \in DOMAIN jobs |-> IF j \in scaling \ F THEN [jobs[j] EXCEPT !.size = jsCache.size] ELSE jobs[j]]

\* The controller's copy is current, or has become so by a patch.
Current(j) ==
  j \in DOMAIN jobs \cap DOMAIN jobsCache /\ (j \in scaling \/ jobs[j] = jobsCache[j])

\* Then the Jobs that are missing are created, and suspend of the others is brought in
\* line; a name that is taken, or a copy that is not current, makes that an error.
NewJob(j) ==
  [template |-> Template[jsCache.config][j], size |-> jsCache.size,
   suspended |-> jsCache.suspend, deleting |-> FALSE]

missing == Jobs \ DOMAIN jobsCache

JobsScaled(f) == scaling \subseteq DOMAIN jobs \ f.scaling
JobsCreated(f) == missing \cap (DOMAIN jobs \cup f.jobs) = {}

ReconcileJobs(f) ==
  jobs' = IF ~JobsScaled(f) THEN Scaled(f.scaling)
          ELSE [j \in DOMAIN jobs \cup (missing \ f.jobs) |->
                  IF j \notin DOMAIN jobs THEN NewJob(j)
                  ELSE IF JobsCreated(f) /\ Current(j) /\ j \notin f.jobs
                  THEN [Scaled({})[j] EXCEPT !.suspended = jsCache.suspend] ELSE Scaled({})[j]]

JobsWritten(f) ==
  /\ JobsScaled(f) /\ JobsCreated(f)
  /\ \A j \in DOMAIN jobsCache :
       jobsCache[j].suspended = jsCache.suspend \/ (Current(j) /\ j \notin f.jobs)

\* A suspended JobSet.
ReconcileSuspended(f) ==
  /\ ~jsCache.finished /\ jsCache.suspend
  /\ LET r == deleteSchedulingObjects(groups, workload, f.objects)
     IN  /\ Write(r)
         /\ IF r.ok THEN ReconcileJobs(f) ELSE UNCHANGED jobs
         /\ IF r.ok /\ JobsWritten(f)
            THEN updateStatus([jsCache EXCEPT !.started = FALSE, !.suspended = TRUE], f)
            ELSE ReturnError
  /\ expired' = (expired /\ js'.started)
  /\ UNCHANGED timer

schedulingJobsNeedRecreation ==
  \E j \in DOMAIN jobsCache : jobsCache[j].template # Template[jsCache.config][j]

\* Mutant: the deadline is not waited for.
NoTimerMutant == UNCHANGED timer

RequeueAtDeadline == timer' = ~queued'

\* An active JobSet: Jobs are only touched when all objects are ready, and the deadline is
\* only waited for when the end is reached.
ReconcileActive(f, order) ==
  /\ ~jsCache.finished /\ ~jsCache.suspend /\ ~DeadlineExpired
  /\ LET r == reconcileSchedulingObjects(f.objects, order)
         started == [jsCache EXCEPT !.started = TRUE]
     IN  /\ Write(r)
         /\ \/ /\ ~r.ok \/ ~schedulingObjectsReady
               /\ IF r.ok THEN updateStatus(started, f) ELSE ReturnError
               /\ UNCHANGED <<jobs, timer>>
            \/ /\ r.ok /\ schedulingObjectsReady /\ schedulingJobsNeedRecreation
               /\ deleteJobs(f.jobs)
               /\ IF JobsDeleted(f.jobs) THEN updateStatus(started, f) ELSE ReturnError
               /\ UNCHANGED timer
            \/ /\ r.ok /\ schedulingObjectsReady /\ ~schedulingJobsNeedRecreation
               /\ ReconcileJobs(f)
               /\ IF JobsWritten(f) THEN updateStatus([started EXCEPT !.suspended = FALSE], f)
                                    ELSE ReturnError
               /\ RequeueAtDeadline
  /\ UNCHANGED expired

Reconcile(f) ==
  /\ queued
  /\ \/ ReconcileFinished(f) \/ failJobSetOnActiveDeadline(f) \/ ReconcileSuspended(f)
     \/ \E order \in Orders(Templates(jsCache.config)) : ReconcileActive(f, order)
  /\ UNCHANGED <<caches, pods, edits>>

-----------------------------------------------------------------------------
(***************************************************************************)
(* The watches put the JobSet in the queue.  It has one entry there, which *)
(* they make due at once: a timer is lost, and the reconcile that follows  *)
(* has to set it again.                                                    *)
(***************************************************************************)
Enqueue == queued' = TRUE /\ timer' = FALSE

SyncJobSet ==
  /\ jsCache # js /\ jsCache' = js /\ Enqueue
  /\ UNCHANGED <<js, jobs, objects, jobsCache, workloadCache, groupsCache, pods, expired, edits>>

SyncJobs ==
  /\ jobsCache # jobs /\ jobsCache' = jobs /\ Enqueue
  /\ UNCHANGED <<js, jobs, objects, jsCache, workloadCache, groupsCache, pods, expired, edits>>

SyncWorkload ==
  /\ workloadCache # workload /\ workloadCache' = workload /\ Enqueue
  /\ UNCHANGED <<js, jobs, objects, jsCache, jobsCache, groupsCache, pods, expired, edits>>

SyncGroups ==
  /\ groupsCache # groups /\ groupsCache' = groups /\ Enqueue
  /\ UNCHANGED <<js, jobs, objects, jsCache, jobsCache, workloadCache, pods, expired, edits>>

(* The clock: the deadline passes, and then the timer fires. *)

Expire ==
  /\ js.started /\ ~js.finished /\ ~expired
  /\ expired' = TRUE
  /\ UNCHANGED <<js, jobs, objects, caches, pods, queued, timer, edits>>

TimerFires ==
  /\ expired /\ timer
  /\ Enqueue
  /\ UNCHANGED <<js, jobs, objects, caches, pods, expired, edits>>

(* The Job controller, and the finalizers. *)

StartPods(j) ==
  /\ j \in DOMAIN jobs \ DOMAIN pods /\ ~jobs[j].suspended /\ ~jobs[j].deleting
  /\ pods' = [k \in DOMAIN pods \cup {j} |-> IF k = j THEN jobs[k].template ELSE pods[k]]
  /\ UNCHANGED <<js, jobs, objects, caches, queued, timer, expired, edits>>

StopPods(j) ==
  /\ j \in DOMAIN pods /\ (jobs[j].suspended \/ jobs[j].deleting)
  /\ pods' = Without(pods, {j})
  /\ UNCHANGED <<js, jobs, objects, caches, queued, timer, expired, edits>>

JobGone(j) ==
  /\ j \in DOMAIN jobs \ DOMAIN pods /\ jobs[j].deleting
  /\ jobs' = Without(jobs, {j})
  /\ UNCHANGED <<js, objects, caches, pods, queued, timer, expired, edits>>

GroupGone(t) ==
  /\ t \in DOMAIN groups /\ groups[t].deleting /\ \A j \in DOMAIN pods : pods[j] # t
  /\ groups' = Without(groups, {t})
  /\ UNCHANGED <<js, jobs, workload, caches, pods, queued, timer, expired, edits>>

WorkloadGone ==
  /\ W \in DOMAIN workload /\ workload[W].deleting /\ pods = Empty
  /\ workload' = Empty
  /\ UNCHANGED <<js, jobs, groups, caches, pods, queued, timer, expired, edits>>

(* The user; the webhook admits another configuration only while suspended. *)

Edit(new, cost) ==
  /\ edits + cost <= MaxEdits /\ ~js.finished /\ new # js
  /\ js' = new /\ edits' = edits + cost
  /\ UNCHANGED <<jobs, objects, caches, pods, queued, timer, expired>>

UserSuspends == \E b \in BOOLEAN : Edit([js EXCEPT !.suspend = b], 1)
UserScales == \E n \in Sizes : Edit([js EXCEPT !.size = n], ScaleCost)
UserReconfigures ==
  /\ js.suspend /\ js.suspended
  /\ \E c \in Configs : Edit([js EXCEPT !.config = c], 1)

User == UserSuspends \/ UserScales \/ UserReconfigures

Sync == SyncJobSet \/ SyncJobs \/ SyncWorkload \/ SyncGroups

Cluster ==
  \/ \E j \in Jobs : StartPods(j) \/ StopPods(j) \/ JobGone(j)
  \/ \E t \in Names : GroupGone(t)
  \/ WorkloadGone

Next ==
  \/ \E f \in Failures : Reconcile(f)
  \/ Sync \/ Expire \/ TimerFires \/ Cluster \/ User

Spec == Init /\ [][Next]_vars

\* API calls do not fail for ever, the watches and the cluster go on, deleted Pods stop, and
\* the deadline need not expire.
Fairness ==
  /\ WF_vars(Reconcile(NoFailure)) /\ WF_vars(TimerFires) /\ WF_vars(Cluster)
  /\ WF_vars(SyncJobSet) /\ WF_vars(SyncJobs) /\ WF_vars(SyncWorkload) /\ WF_vars(SyncGroups)

FairSpec == Spec /\ Fairness

-----------------------------------------------------------------------------
(* Properties *)

PodGroupSpec == [policy : {"Gang", "Basic"}, min : Sizes \cup {0}, gated : BOOLEAN, filled : BOOLEAN]

(***************************************************************************)
(* Types.  What the server stores has no gated fields, the PodGroups are   *)
(* of templates of some configuration, and a JobSet that is suspended has  *)
(* no deadline that could have expired.                                    *)
(***************************************************************************)
TypeOK ==
  /\ js \in [suspend : BOOLEAN, config : Configs, size : Sizes,
             finished : BOOLEAN, suspended : BOOLEAN, started : BOOLEAN]
  /\ \A w \in DOMAIN workload : \A t \in DOMAIN workload[w].templates :
       workload[w].templates[t] \in PodGroupSpec /\ ~workload[w].templates[t].gated
  /\ DOMAIN groups \subseteq Names
  /\ \A t \in DOMAIN groups : groups[t].spec \in PodGroupSpec /\ ~groups[t].spec.gated
  /\ DOMAIN pods \subseteq DOMAIN jobs /\ DOMAIN jobs \subseteq Jobs
  /\ expired => js.started

Active == ~js.suspend /\ ~js.finished

\* The objects and the Jobs are those of the configuration.  A PodGroup of an earlier one is
\* left behind when the cache did not yet show it at the time the JobSet was suspended.
Settled ==
  /\ W \in DOMAIN workload /\ ~workload[W].deleting
  /\ workload[W].templates = StoredWorkload(buildWorkload(js)).templates
  /\ Templates(js.config) \subseteq DOMAIN groups
  /\ \A t \in Templates(js.config) :
       groups[t] = [spec |-> StoredSpec(podSpec(js)), deleting |-> FALSE]
  /\ DOMAIN jobs = Jobs
  /\ \A j \in Jobs : /\ jobs[j].template = Template[js.config][j] /\ jobs[j].size = js.size
                     /\ ~jobs[j].suspended /\ ~jobs[j].deleting

\* An object is deleted while Pods of Jobs that go on running use it.
Held ==
  \/ \E j \in DOMAIN pods : pods[j] \in DOMAIN groups /\ groups[pods[j]].deleting
  \/ pods # Empty /\ \E w \in DOMAIN workload : workload[w].deleting

(***************************************************************************)
(* When the user is done, an active JobSet gets the objects and the Jobs   *)
(* of its configuration and keeps them: there is no loop of deletions and  *)
(* no Job is left on an old configuration, whichever calls fail and        *)
(* whatever is seen late, also after it was suspended, configured anew and *)
(* resumed, unless Pods hold an object that was deleted.  A JobSet that    *)
(* stays suspended, or has finished, gives all its objects back, also      *)
(* those that were being created or replaced, or were left behind.         *)
(***************************************************************************)
Settles ==
  <>[] IF Active THEN Settled \/ Held
       ELSE workload = Empty /\ groups = Empty /\ pods = Empty

(***************************************************************************)
(* An active JobSet is failed at its deadline, whether or not any event    *)
(* wakes the controller then.  A reconcile that waits for an object, or    *)
(* deletes Jobs, does not ask for the timer that its event took away; what *)
(* it waits for brings another one that does, unless Pods of Jobs that go  *)
(* on running hold an object that was deleted.                             *)
(***************************************************************************)
DeadlineEnforcedUnlessHeld ==
  []<>(Held \/ ~(js.started /\ expired /\ Active))

=============================================================================
