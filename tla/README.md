# A TLA+ model of JobSet

JobSet is a Kubernetes API and a controller for groups of Jobs that run, fail,
restart and finish together. This directory models the controller, with the API
server, the Job controller, the kubelet and the users as the environment it works
in, and the Python SDK; it model-checks them with TLC on small instances, and proves part
with TLAPS for every instance.

## The system

| Part | Code | State | What makes it hard |
|---|---|---|---|
| Reconcile loop | `pkg/controllers/jobset_controller.go` | JobSet status, child Jobs | reads lagging caches, writes many objects, any write may fail |
| Failure policy | `failure_policy.go` | restart counters | a budget tested on cached counters |
| Success, startup policy, dependsOn | `success_policy.go`, `startup_policy.go`, `depends_on.go` | conditions | order of starts across restarts and resumes |
| Active deadline | `active_deadline.go` | `status.startTime`, requeue | no event when it expires, and any event replaces the requeue; reset on resume and restart |
| Execution attempts | `syncExecutionAttempts` | `status.executionAttempts`, Job annotation | an extra status update in the middle of a reconcile |
| TTL after finished | `ttl_after_finished.go` | deletion | edits and re-creation against a cached copy; the clock is read twice |
| In-place restart | `in_place_restart.go`, `cmd/in-place-restart-agent` | two status fields, Pod annotations, agents | a barrier among processes that crash and see old state |
| Workload-aware scheduling, elastic scaling | `scheduling.go`, `workload_builder.go`, `syncJobScaling` | Workload, PodGroups, Job sizes | four caches, finalizers, immutable Job templates, drift |
| Exclusive placement | `pod_controller.go`, `pod_webhook.go` | Pods | leader and followers race; creates in flight |
| Python SDK | `sdk/python/jobset` | none | 157 generated classes; absent, null, zero and empty look alike |
| Headless Service, volume claims | `jobset_controller.go`, `volume_claim_policy.go` | Services, PVCs | more objects in one reconcile |
| JobSet webhook | `jobset_webhook.go` | none | what an accepted object looks like |

The controller, the Pod controller and the agents do not talk to each other: they
share objects on the API server, which they read from watch caches and write with
or without a resource version. All the hard cases come from that: a decision taken
on an old copy, a write that is refused, some writes of a reconcile done and others
not, and the retry of the whole.

## Modules

**JobSetPolicies** holds the decisions as operators on a JobSet and its Jobs, under
the names of the Go functions: the buckets of `getChildJobs`, the policies, the
deadline, the execution attempts, the conditions. A Job is a record of the labels,
annotations and fields the controller reads; the JobSet a record of its status and
`spec.suspend`. The rest of the spec is CONSTANTS. `status.replicatedJobsStatus` is
left out: it is computed anew by each reconcile and never read back.

**JobSetReconciler** is the reconcile loop for one JobSet. `js` and `jobs` are on the
API server, `jsCache` and `jobsCache` in the informers, each a past state of its own
watch stream. `jobsEvents` holds states of the Jobs that are still on their way
(`DelayJobs` puts them there, `MaxLag` bounds how many), so that the Job cache can show
some changes and not yet later ones; when it is empty, `SyncJobs` delivers the present
state. For the JobSet an old copy and the present one are enough, since a write based on
any copy but the present is refused. One reconcile is one step; its branches are the early returns of
`reconcile`:

| Action | Branch |
|---|---|
| `ReconcileFinished` | the JobSet is Completed or Failed: clean up |
| `ReconcileDeleteError` | a Job of an earlier attempt could not be deleted |
| `failJobSetOnActiveDeadline` | the deadline has passed |
| `ReconcileFailed` | a Job failed: `executeFailurePolicy` |
| `ReconcileSucceeded` | `executeSuccessPolicy` completes the JobSet |
| `ReconcileReplicatedJobs` | execution attempts, creation, suspension, resumption |

The step may be atomic because the work queue never runs two reconciles of one JobSet,
and whatever others do between its reads and its writes is the same as a cache that
was already behind. A set of failing writes and a Boolean for the status update
are chosen freely in every branch; what was written before an error stays. A crash
of the controller leaves what a failure at that point leaves, and the queue is filled
again on restart. An update is refused unless the cached copy is current; a create
unless the name is free; `deleteJobs` goes by name and has no precondition. The work queue has
one entry for the JobSet: a watch event makes it due at once (`Enqueue`), and a `RequeueAfter`
it stood for is gone.
`JobController`, `UserSetsSuspend`, `UserDeletesJob` and `Tick` are the environment.
A suspended Job reports its Pods as ready until the Job controller has stopped them.

**JobSetHistory** adds variables that record what happened (which Jobs have been
ready, since when the JobSet is active, whether its suspension has been recorded in the
status) for the properties that compare a step with the past.

**InPlaceRestart** is the barrier protocol: the controller over caches of the JobSet
and of the Pods, and one agent per Pod with its own cache of the JobSet. `view`,
`agent` and `pods` change when a container restarts in place, when a Pod is replaced,
and when an annotation is written but the answer is lost. Two things are taken from
the environment: an agent's first read of the JobSet is current, and a Pod is replaced
only once it has failed, which the webhook asks for (`podReplacementPolicy: Failed`). A
Pod that succeeds (`done`) keeps its annotation and has no agent any more.

**RestartBarrier** is what the protocol promises, without controller, agents and
annotations: workers run in numbered attempts, all in the same one, and the next begins
only when none runs. `InPlaceRestart` implements it under the mapping of `attempt` to
the current attempt of the status and of `running` to the attempts of the agents whose
barrier is lifted (`ImplementsBarrier`).

**ExclusivePlacement** is the placement of the Pods of each Job in a topology domain of
its own: the leader's affinities, which the scheduler enforces, the webhook that pins
followers to the leader's domain (`setNodeSelector`, `ValidateCreate`, and later
`PersistFollower`, since a create is stored some time after it was admitted), and the Pod
controller that deletes misplaced followers. Pods are evicted or fail, Nodes are lost
and come back, and a Job is deleted and created again under its name. Webhook and controller
read one lagging cache. The scheduler and the Job controller are external.

**SchedulingObjects** is workload-aware scheduling with the branches of `reconcile`
around it: the Workload and the PodGroups are created, patched, found drifted and deleted
(`reconcileSchedulingObjects`, `ReconcileGroups`, one template after the other in any order),
Jobs wait for them, are scaled
(`syncJobScaling`: a patch without a precondition, which also refreshes the controller's copy),
or are deleted when they name an old PodGroup. JobSet, Jobs, Workload and PodGroups have a
cache each; finalizers keep objects that Pods use. `Failures` are the calls of one reconcile that
fail, or are not made because one before them has failed: what was written up to the first error
stays, an error returns before the status is updated, and the reconcile is repeated. The timer of
the deadline is an entry of the same work queue, so an event takes it away and only a reconcile
that gets to its end sets it again. The compilation of `spec.scheduling` is
reduced to the templates' names, policies, minCounts, and the fields the server drops.

**SdkClasses** lists the fields of every generated class of the Python SDK, **SdkModels**
defines `from_dict`, `to_dict` and the conversions of `ApiClient` over that list, and
**SdkClient** is a program that reads an object, assigns to it and writes it back, with
calls that are refused, lost or answered with something else. pydantic is external.
**JobSetApi** has the types of the JobSet API as `jobset_types.go` declares them, with the
fields that the API server always sends: the objects that the program reads are made from
these, not from the SDK. The types of Kubernetes (metadata, Job templates and what is in them)
are not declared in this repository; objects of these are made from the SDK's own declarations.

**TTLAfterFinished** is the deletion of a finished JobSet, built-in or managed by an
external controller, by a decision on a cached copy. A reconcile is two steps, `Reconcile`, which
reads the cache and the clock and tests the TTL, and `executeTTLAfterFinishedPolicy`, which
deletes, or reads the clock again and computes the requeue; time may pass in between.

**MC…** modules give the constants their values. The proofs are in **InPlaceRestartProofs**,
**ExclusivePlacementProofs**, **TTLAfterFinishedProofs**, **SchedulingObjectsProofs** and, for
the reconcile loop, **JobSetReconcilerProofs** (types, terminal states, counters, the caches),
**JobSetBudgetProofs** (the restart budget), **JobSetKeepingProofs** (what a step
keeps and deletes) and **JobSetAttemptProofs** (restart attempts, the order of starts, the clock of the
deadline), each building on the ones before.

## Runs

| Run | Instance | Distinct states | Shows |
|---|---|---|---|
| `progress` | 2 replicas, BlockingRecreate, budget 1, 2 failures, 1 change of suspend, fair | 27,042 | attempts never overlap; clean-up, suspension, start and failure handling get done |
| `failure_rules` | 2 replicatedJobs in order, BlockingRecreate, all five actions, 2 failures | 242,382 | the invariant of the attempts; one budget for all restarts; no wrong Job created or deleted; order across restarts |
| `execution_attempts` | 1 Job, 1 failure, 3 changes of suspend, 1 deletion | 433,682 | the counter and the annotations |
| `depends_on` | 2 replicatedJobs, 2 failures, 2 changes of suspend | 59,041 | dependencies hold in every attempt |
| `active_deadline` | 1 Job, deadline 2, clock 3, 1 failure, 2 changes of suspend | 78,090 | the deadline measures the right time, across restarts and suspensions, and is enforced |
| `in_place` | 2 Pods, 2 faults | 496,312 | the barrier, its invariant, the restart budget, convergence, refinement of `RestartBarrier` |
| `ttl` | TTL unset to 2, 2 edits, clock 4 | 23,556 | deleted neither early nor never |
| `placement` | 2 Jobs, one with a follower, 2 domains, 1 fault | 55,986 | domains stay exclusive, followers join their leader |
| `scheduling` | 1 Job, 3 configurations, sizes 1 and 2, 3 edits (a scaling counts as 2) | 278,817 | objects, Jobs and sizes come to match the spec; the deadline is not lost meanwhile |
| `sdk` | 157 classes, 1 assignment, 2 calls | 357,592 | nothing is written that was not assigned; what is returned is what is stored; every JobSet object can be read |
| `resume_counted_once`, `failed_leader` | 2 replicas, 1 failure, 2 changes of suspend; as `placement` | | two disagreements with the documentation |

Every bound is a CONSTANT tested in a guard. Two failures are one more than the
budget, so both the restart and the refusal occur; two Jobs are enough for one to be
seen and the other not, for partial writes and for an order; two changes of suspend
are a suspension and a resume; the clock of `active_deadline` passes the deadline, also when it
starts anew a second after the creation. `MaxLag` is 1 in the safety runs: a Job cache that is
behind twice over. It is 0 in `active_deadline`, whose properties are about the JobSet, and in
`progress`: the same properties have been checked with 1 (153,947 states, no
violation), at several times the cost. `MaxDeletions`, Jobs deleted by someone other than
the controller, is 1 in `execution_attempts` and 0 where a property does not survive it:
`OneGeneration` (below), `RestartNeedsFailure` (the failed Job may be gone before the
restart is written) and `DependenciesReached` (so may the dependency). `failure_rules` has
no suspension, because of the first point below, and no deadline: with a deadline of 1 and
`MaxTime = 1` its properties hold too (4,163,049 states), at many times the cost. Two faults in `in_place` give a
restart during a restart and a lost answer followed by an exit. In `placement` two Jobs
compete for two domains and one has Pods in flight while the other's are placed; in
`scheduling` three edits are enough to suspend a running JobSet, configure it anew and resume it,
so that its objects drift, its Jobs name an old PodGroup, and what a late cache has missed is left
over; a scaling counts as two (`ScaleCost`), so that it is combined with one other edit. In
`sdk` every field of every class takes each value that is easily mistaken for another, one at a time; the conversions treat fields
independently.

Some properties name the case in which they do not hold, and TLC finds each of them violated
without it: `Converges`, a Pod that has succeeded in an earlier attempt (`LeftBehind`); `Settles`
and `DeadlineEnforcedUnlessHeld`, objects deleted while the Pods of running Jobs use them (`Held`);
`ExpiredIsDeleted`, a JobSet that expires between the two readings of the clock (`overslept`);
`DeadlineMeasuresActiveTime`, a suspension that is over before a status update has recorded it.
`Settled` tolerates PodGroups of an earlier configuration. The list below says what happens then.
`EveryObjectParses` is about the types of the JobSet API only.

### Disagreements with the documentation

- `resume_counted_once`: a resume is counted, its Jobs resume and finish, and the
  final status update is lost: it is counted again (`keps/1282…/README.md:101`).
- `failed_leader`: the Pod controller also takes a leader that has failed and is kept by
  its Job, and deletes the followers of its replacement although they are where it is
  (`pod_controller.go:125`).

Seen with other constants than those of the runs, or without the exceptions just named:

- `StartsInOrder`, with the constants of `failure_rules` but `MaxFailures = 0` and
  `MaxSuspends = 2`: a suspended Job still counts as ready, so on resume the first
  replicatedJob is taken as started, and the second is resumed before it
  (`jobset_types.go:601`).
- `OneGeneration`, with two replicas, BlockingRecreate, `MaxFailures = 1` and
  `MaxDeletions = 1`: someone else deletes the failed Job after the restart is
  written, a reconcile on the old JobSet creates it again for the old attempt, and the
  next one creates the others for the new attempt beside it (`jobset_types.go:555`).
  The same happens with `MaxDeletions = 0`, a deadline of 1, `MaxTime = 1` and `MaxSuspends = 1`: a
  reconcile whose cache shows the failed Job as active deletes it for the deadline, its status
  update is refused because the JobSet has been suspended, and a suspended JobSet has no deadline.
- `DeadlineMeasuresActiveTime`, if `recorded` is replaced by `js.suspend`: startTime is only
  cleared by a status update of a reconcile that has seen the suspension. If the JobSet is resumed
  before, startTime stays, and the JobSet fails on the time before and during the suspension
  (`jobset_types.go:200`).
- `DeletesOnlyObsolete`, with a deadline of 1 and a suspension: a reconcile on a copy from before
  the suspension deletes the Jobs for a deadline that no longer runs, and the status update that would
  fail the JobSet is refused.
- `ExpiredIsDeleted` without `overslept`: a JobSet that expires after `checkIfTTLExpired` and before
  `requeueJobSetAfter` gives a requeue of zero or less, which the callers drop
  (`jobset_controller.go:164`, `:202`); it stays until some other event.
- `Settles` and `DeadlineEnforcedUnlessHeld` without `Held`: after a quick suspension and resume the
  PodGroup is deleted but held by Pods that were never stopped. Reconcile returns at line 314 of
  `jobset_controller.go` each time, so the Jobs are never brought in line; and since the event has
  taken the timer away, the JobSet outlives its deadline (the comment at line 384 says such a
  JobSet "is still failed at expiry").
- `Settles`, if no other PodGroups are tolerated: a PodGroup that the cache does not show yet when
  the JobSet is suspended is not deleted, and after the JobSet was given another template and
  resumed, nothing looks for it until the next suspension or the end.
- Placement, with followers in both Jobs and two evictions: the followers that departed
  leaders have pinned may end up each in the domain the other Job's leader would need, and
  neither leader can be scheduled.
- SDK: ports of probes and the other IntOrString fields are declared as strings
  (`io_k8s_api_core_v1_http_get_action.py:33`), so a JobSet with a numeric one cannot be read.
  This is a fault of the classes of Kubernetes types, which `EveryObjectParses` leaves out.

## Fairness

The liveness properties assume that the work queue hands out what is in it and that
some reconcile meets no API error (for the TTL, that not every delete fails, which is strong
fairness, since none is under way between two attempts), that watch events arrive, that the clock runs and
wakes a delayed requeue, that deleted Jobs go and suspended Pods stop; for agents, that
each reconciles after an event. Placement also assumes the periodic resync of the Pod
informer, that the Job controller replaces Pods, that a Pod with a domain it fits in is
scheduled, and that lost Nodes come back; scheduling, that each
of the four watches delivers, and that the Job controller and the finalizers together do not stop
while they have something to do (`Cluster`). Controller-runtime, the API machinery and the cluster give these.
Nothing is assumed about failures, users, or when Jobs become ready or complete. The SDK run
has no liveness.

## Proofs

`InPlaceRestartProofs` proves, for every non-empty finite set of Pods and every bound:

- `TypeCorrect`: the types;
- `BarrierCorrect`: `BarrierInv`;
- `SameAttemptCorrect`, `CurrentGrows`, `PreviousGrows`, `RunsAreNew`: what follows;
- `ImplementsBarrierCorrect`: every step is a step of `RestartBarrier` or leaves it alone
  (`StepRefines`, one case per action). That an attempt advances only when no worker runs
  is where `BarrierInv` is needed.

That workers run in the same attempt is not inductive. `BarrierInv` says why it
holds: the attempt that a process has taken or would take now is the current one or the
next; an annotation lies between the current attempt and that one; the controller's
copy of an annotation lies between the current attempt and the annotation. So when the
copies all equal v, no process is or will be in an attempt before v, and setting the
current attempt to v neither goes back nor leaves anybody behind. A worker that runs is
in the current attempt, and one that waits after having run in it will take the next. The
proof has a lemma for the controller's step (`ReconcileInv`), one for each step of an
agent, and a frame lemma for the other Pods. The assumptions are the ASSUMEs of
`InPlaceRestart`; the run `in_place` evaluates them.

The same module proves `BudgetCorrect`: `FailsOnlyAfterMaxRestarts`. A fault of one
Pod restarts the containers of all, so no single count or attempt is inductive. `BudgetInv`
says that for every two Pods the restart count of one, plus what the attempt of the other is
ahead of its own, is at most the number of faults; a Pod that catches up is charged for
the fault of the Pod it follows. An attempt that was written without its process knowing
(`Pending`: a lost response, or a restart after the write) is counted as already left, since the
process will skip it; and an attempt is outdated only if some Pod is in a later one
(`OutdatedForAReason`), so that a process is never told to exit for nothing.

`ExclusivePlacementProofs` proves, for every set of Jobs, followers and domains and any number
of faults, `PinnedCorrect` (`PinnedToOwnLeader`), `ExclusiveCorrect`
(`LeaderDomainIsExclusive`) and `TypeCorrect` (`TypeOK`). Pinning needs the cache: `PlacementInv` adds that every leader of
the current incarnation of its Job, on the API server or in the cache, is in a domain on
record for it, and so is the selector of every create in flight. Exclusiveness rests on
`Schedule` alone: the affinities keep a leader out of an occupied domain and every
other Pod of its priority out of a leader's. `TypeOK` bounds the suffixes of Pod names, over
which the fairness of placement ranges: `NamesInv` counts them. Followers have at most
`MaxPods` names on the API server and as many in the cache; the work queue may also hold names of
leaders that are gone, but a leader is replaced only after a fault, so those are at most
`MaxFaults`.

`JobSetReconcilerProofs` proves, for every spec of a JobSet, every bound and every lag:

- `TypeCorrect`: the types, with one lemma per operator of `JobSetPolicies`;
- `TerminalCorrect`: `TerminalStable`;
- `CountersCorrect`: `CountersInv`, and from it `AttemptsCoverCorrect` and
  `NotAheadCorrect`;
- `StreamCorrect`, below.

Each status a reconcile may write is computed from the cached copy by a chain of
operators (`PolicyResults`, `UpdateWrites`, `StartWrites`), and an update only succeeds
when that copy is current. So a terminal condition, once written, is in the copy of every
later successful update, and `Advances` says that the chain only raises the counters.
`AttemptsNotAhead` is not inductive: a Job is annotated with the attempt that the
reconcile has computed from a cache, and its creation does not depend on whether the
status update succeeds. `CountersInv` adds that the cached counters are not larger than
those on the API server, so the annotation is covered by what the reconcile wrote
before, or by what had been written already. It also bounds `restartsCountTowardsMax`.

`JobSetBudgetProofs` proves `RestartsWithinMaxCorrect`: the restarts of the JobSet that count
and those of its Jobs together stay within `maxRestarts`. The total is a fold over the Jobs, so
the module first derives what a fold over a finite set computes; induction over the set is
replaced by the smallest subset that would violate the claim (`MinimalSubset`). The budget is
tested on cached counters, and an update from a copy that is not current is refused.

The other theorems about the loop are about staleness. The Job cache, the states in
`jobsEvents` and the API server form one stream, read as `Shown(0)`, ..., `Shown(Newest)`.

- `StreamCorrect`: `StreamInv`. A Job seen twice in the stream is the same Job, with its labels
  and its outcome; up to the API server it is created or removed, not both, because a create needs
  the name to be free in the cache and on the server, and a deletion a Job that is in the cache. No
  Job in the stream has labels above the cached counters, which are not above those on the server.
- `DeletesCorrect` (in `JobSetKeepingProofs`): `DeletesOnlyObsolete`, from it: a Job that is deleted
  by name because the cached one was obsolete is that Job. A deadline that has expired by the cached
  JobSet has expired by the one on the server too, or the Job is of an attempt that is over there
  (`ExpiredJudged`).
- `AttemptCorrect`: `AttemptInv`; from it `OneGenerationCorrect` (`OneGeneration`),
  `CreatesCorrect` (`CreatesCurrent`) and `RestartCorrect` (`RestartNeedsFailure`).

`OneGeneration` is far from inductive. A restart may have been written that the cached JobSet
does not show; a reconcile on that copy could create a Job for the attempt that is over. It does
not, because the failure that caused the restart is still in every state of the stream (`Kept`:
a Job of the cached attempt is deleted only once the cache shows a later one, the end of the
JobSet or an expired deadline), so the reconcile finds it again, takes the failure branch and its
update is refused (`Decided`: all that has been written and is not in the cache, the cached Jobs
call for). Once the cache does show the
restart, `shouldCreateJob` creates nothing while the cached Jobs include one of an earlier attempt,
and they do as long as the server has one (`Precedes`). `AttemptInv` is these parts with
`StreamInv`, and the run `failure_rules` checks it as an invariant. `Decided` needs that the success
policy, once met, stays met, which compares numbers of Jobs and so needs them to be finitely many.

A deadline disturbs this: when it expires, Jobs that the cache shows as active are deleted,
whether or not the status update succeeds, and one of them may have failed meanwhile. So
`Kept` ends with the deadline of the cached copy, and `Decided` asks for a failed Job that no state
of the stream shows deleted (`Lasting`). That the restart was decided on such a Job holds because
a reconcile tests the deadline before the failure policy; and it holds on, since an expired deadline
deletes only Jobs that the cache shows as active, and the cache shows this one failed. What has
expired stays expired: the clock does not go back (`ExpiredLasts`), and a JobSet that nobody
suspends keeps its start time for the whole attempt (`Timely`, `ExpiredSynced`).

`JobSetAttemptProofs` also proves the properties of `JobSetHistory`, over `HSpec`:

- `StartsInOrderCorrect`: `StartsInOrder`, for any number of replicatedJobs and replicas;
- `DependenciesCorrect`: `DependenciesReached`, for all dependencies that admission lets through;
- `DeadlineCorrect`: `DeadlineMeasuresActiveTime`.

A start is decided on the cached Jobs: `NextBegins` shows that whatever step starts a Job, its
replicatedJob is one that the two loops visit, in the attempt of the cached JobSet. Then the
counts in `allReplicasStarted` and `dependencyReachedStatus` equal the number of replicas, and
`FullReplicas` turns the count into every Job. What the cache shows is carried to the API
server by `Kept` and `StreamInv`: such a Job is still there after the step, with the same
label, and complete if it was. That it has been ready is `ReadySeen`: every Job that some state
of the stream shows ready or finished has been recorded ready, unless it is gone; a Job that
is created anew cannot be behind such a state, because it was absent from the cache as well.
The clock needs less (`ClockInv`): startTime, if set, is not before the creation or the last restart
of the JobSet, nor before its last resume from a recorded suspension. The update that writes a
restart sets it to the present or clears it, and any other keeps it, clears it or sets it to the
present (`ResultsClock`). An update that succeeds while the JobSet is suspended is made from a copy
that shows the suspension, so it clears startTime (`recorded`), and none sets it before the resume.

What they assume besides the ASSUMEs of the model:

- `StreamCorrect`, that nobody but the controller deletes Jobs (`MaxDeletions = 0`);
- `DeletesCorrect` and the theorems on attempts, also that there is no active deadline or that nobody suspends the
  JobSet (`NoDeadline \/ MaxSuspends = 0`);
- `StartsInOrderCorrect`, `MaxDeletions = 0` and `MaxSuspends = 0`;
- `DependenciesCorrect`, the same, or `MaxDeletions = 0`, no deadline, and that all dependencies
  ask for `Complete`;
- `DeadlineCorrect`, nothing.

TLC shows why they are needed:

- Deletions by others. `OneGeneration` is violated (see above). So is `DeletesOnlyObsolete`, under the
  constants of `progress` with `Recreate`, one failure, no suspension, `MaxDeletions = 1` and
  `MaxLag = 3`: a Job that was deleted before the cache showed it is created again for the next
  attempt, and then the cache shows the first one. `StartsInOrder` and `DependenciesReached`
  are violated with `MaxDeletions = 1` and no suspension under the constants of `failure_rules` and
  `depends_on`.
- A deadline together with suspensions. With a deadline of 1, `MaxTime = 1`, `MaxFailures = 1` and
  `MaxSuspends = 1`, the constants of `progress` violate `AttemptInv`, `OneGeneration`,
  `RestartNeedsFailure`, `CreatesCurrent` and `DeletesOnlyObsolete` (see above); those of `depends_on`, with `MaxTime = 2` and
  `MaxSuspends = 2`, violate `DependenciesReached`.
- Suspensions. `StartsInOrder` is violated (see above), and so is
  `DependenciesReached` with the constants of `depends_on` but a dependency on `Ready`.

`AdmissionAssumption` is what admission guarantees: a replicatedJob depends only on earlier ones
(`jobset_webhook.go:292`), and `dependsOn` excludes an InOrder startup policy
(`jobset_types.go:121`).

`TTLAfterFinishedProofs` proves `TypeCorrect` and `NotDeletedEarlyCorrect`, for every set
of TTLs and any number of edits: the delete names the copy it was decided on, which was finished and
expired when it was read (`WorkInv`), and so it still is.

`SchedulingObjectsProofs` proves `TypeCorrect` (`TypeOK`) for all Jobs, configurations and sizes:
what the API server holds of the Workload and the PodGroups never has a gated field, a minCount
that is no size, or a template no configuration names; Pods are those of Jobs that exist; and the
deadline is expired only while its clock runs. The objects are written by a loop that may stop at
any object, from copies in four caches. `SchedulingInv` therefore types the cached JobSet, from
which everything is compiled, and what is on the API server, and nothing else of the caches: the
controller patches and marks the objects it finds there, whatever its copies of them show.

Model-checked only: all liveness (fairness is out of the prover's reach), which includes the two
properties of scheduling besides its types; and the SDK, whose conversions are recursive operators.

## Not modelled

- The headless Service and the volume claims: created if they do not exist, and read by no
  later decision. An error in either ends a reconcile before it writes a Job, as does one
  in which every create and update fails, which `StartJobs` has.
- The JobSet webhook: defaulting and validation of one object, without state. The models
  take from it what it guarantees: dependencies point backwards, in-place restart
  comes with `podReplacementPolicy: Failed`, another scheduling configuration is
  admitted only while suspended.
- In workload-aware scheduling, composite groups and the hashing of long names
  (`workload_builder.go`).
- In exclusive placement, the strategy with labels put on Nodes beforehand, which involves
  neither webhook nor controller.
- In the agent, flags, the start-up probe and the worker's signals.
- In the SDK, query strings, form and file parameters, authentication, `Configuration`, and
  `to_json`, a wrapper of `to_dict` around `json.dumps`.
- The Go client, which is generated; process start-up, certificates, metrics and configuration
  files, which have no state the properties could be about.
