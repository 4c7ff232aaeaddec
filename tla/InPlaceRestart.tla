--------------------------- MODULE InPlaceRestart ---------------------------
(***************************************************************************)
(* In-place restart: the JobSet controller and one agent in every Pod of   *)
(* the JobSet agree, through the JobSet's status and a Pod annotation, on  *)
(* the in-place restart attempt all Pods are in.  An agent holds its       *)
(* worker behind a barrier until the controller has seen all Pods in the   *)
(* same attempt; when a Pod has moved on, the agents of the others exit so *)
(* that their containers restart.                                          *)
(*                                                                         *)
(* The controller and each agent read the JobSet, and the controller reads *)
(* the Pods, from caches that lag.  A status update made from an outdated  *)
(* JobSet is refused; the agents' annotation is applied unconditionally.   *)
(***************************************************************************)
EXTENDS Integers, FiniteSets

CONSTANTS
  Pods,               \* the Pods that spec.replicatedJobs calls for
  MaxRestarts,        \* spec.failurePolicy.maxRestarts
  UncountedRestarts,  \* status.restarts - status.restartsCountTowardsMax
  MayDisable,         \* whether a user may add the disable-in-place-restart annotation
  MaxFaults           \* bound on container exits, lost patch responses and Pods replaced

Nil == -1

ASSUME PodsAssumption == IsFiniteSet(Pods) /\ Pods # {}
ASSUME RestartsAssumption == MaxRestarts \in Nat /\ UncountedRestarts \in Nat
ASSUME InPlaceBoundsAssumption ==
  MayDisable \in BOOLEAN /\ MaxFaults \in Nat

Attempts == Nat \cup {Nil}

JobSet == [current : Attempts, previous : Attempts, failed : BOOLEAN, disabled : BOOLEAN]

\* A Pod: its in-place-restart-attempt annotation, the restart count of its
\* containers, and that of a failed predecessor while it is still listed.
Pod == [attempt : Attempts, restartCount : Nat, failedRestartCount : Nat]

NewPod(count) == [attempt |-> Nil, restartCount |-> 0, failedRestartCount |-> count]

VARIABLES
  js,          \* the JobSet, on the API server
  pods,        \* its Pods, on the API server
  jsCache,     \* the JobSet in the controller's cache
  podsCache,   \* the Pods in the controller's cache
  view,        \* view[p]: the JobSet in the cache of the agent of Pod p
  agent,       \* agent[p]: PodInPlaceRestartAttempt and IsBarrierActive of that agent
  done,        \* the Pods that have succeeded
  lastRun,     \* lastRun[p]: the latest attempt a worker of Pod p ran in (history)
  faults       \* what has been used of MaxFaults

ctlVars == <<jsCache, podsCache>>
vars == <<js, pods, ctlVars, view, agent, done, lastRun, faults>>

NewInPlaceRestartAgent == [attempt |-> Nil, barrier |-> TRUE]

Init ==
  /\ js = [current |-> Nil, previous |-> Nil, failed |-> FALSE, disabled |-> FALSE]
  /\ pods = [p \in Pods |-> NewPod(0)]
  /\ jsCache = js /\ podsCache = pods
  /\ view = [p \in Pods |-> js]
  /\ agent = [p \in Pods |-> NewInPlaceRestartAgent]
  /\ done = {}
  /\ lastRun = [p \in Pods |-> Nil]
  /\ faults = 0

-----------------------------------------------------------------------------
(* The controller: reconcileInPlaceRestart over the cached Pods P. *)

\* Mutant: off by one.
RestartCountMutant(P, n) == \E p \in Pods : P[p].restartCount >= n

getMaxContainerRestartCountExceeds(P, n) ==
  \E p \in Pods : P[p].restartCount > n \/ P[p].failedRestartCount > n

\* The Pods whose annotation is set; failed Pods are not counted.
getPodInPlaceRestartAttempts(P) == {p \in Pods : P[p].attempt # Nil}

exceededMaxRestarts(P) ==
  \E p \in getPodInPlaceRestartAttempts(P) : P[p].attempt - UncountedRestarts > MaxRestarts

\* Mutant: Pods without an annotation are not waited for.
AllEqualMutant(P, v) == \A p \in getPodInPlaceRestartAttempts(P) : P[p].attempt = v

\* As many attempts as the JobSet calls for Pods, all equal to v.
allEqual(P, v) == getPodInPlaceRestartAttempts(P) = Pods /\ \A p \in Pods : P[p].attempt = v

\* v is the largest attempt.
IsMax(P, v) ==
  /\ \E p \in getPodInPlaceRestartAttempts(P) : P[p].attempt = v
  /\ \A p \in getPodInPlaceRestartAttempts(P) : P[p].attempt <= v

\* Mutant: the previous attempt is cleared when the Pods are in sync.
ClearPreviousMutant(o, v) == [o EXCEPT !.current = v, !.previous = Nil]

updateCurrentInPlaceRestartAttempt(o, v) == [o EXCEPT !.current = v]

\* Mutant: the largest attempt itself is marked as outdated.
PreviousIsMaxMutant(o, v) == [o EXCEPT !.previous = v]

\* The previous attempt never goes back: the Pod with the highest attempt may be
\* in the middle of being replaced.
updatePreviousInPlaceRestartAttempt(o, v) ==
  [o EXCEPT !.previous = IF @ # Nil /\ v - 1 < @ THEN @ ELSE v - 1]

\* A finished JobSet is left alone, and an update from an outdated copy is refused.
reconcileInPlaceRestart ==
  /\ ~jsCache.failed
  /\ jsCache = js
  /\ IF getMaxContainerRestartCountExceeds(podsCache, MaxRestarts) \/ exceededMaxRestarts(podsCache)
     THEN js' = [jsCache EXCEPT !.failed = TRUE]
     ELSE \E v \in {podsCache[p].attempt : p \in getPodInPlaceRestartAttempts(podsCache)} :
            \/ /\ allEqual(podsCache, v)
               /\ js' = updateCurrentInPlaceRestartAttempt(jsCache, v)
            \/ /\ ~allEqual(podsCache, v)
               /\ IsMax(podsCache, v) /\ v # 0
               /\ js' = updatePreviousInPlaceRestartAttempt(jsCache, v)
  /\ UNCHANGED <<pods, ctlVars, view, agent, lastRun, done, faults>>

CacheJobSet ==
  /\ jsCache' = js
  /\ UNCHANGED <<js, pods, podsCache, view, agent, lastRun, done, faults>>

CachePods ==
  /\ podsCache' = pods
  /\ UNCHANGED <<js, pods, jsCache, view, agent, lastRun, done, faults>>
-----------------------------------------------------------------------------
(***************************************************************************)
(* The agent of Pod p.  Its container restarts in place when the process   *)
(* exits: the Pod keeps its annotation, the new process starts with an     *)
(* active barrier, no attempt, and the JobSet it lists.                    *)
(***************************************************************************)
Restart(p) ==
  /\ agent' = [agent EXCEPT ![p] = NewInPlaceRestartAgent]
  /\ view' = [view EXCEPT ![p] = js]

shouldBypassBarrier(o) == o.disabled

Bypass(p) ==
  /\ p \notin done
  /\ shouldBypassBarrier(view[p])
  /\ agent[p].barrier
  /\ agent' = [agent EXCEPT ![p].barrier = FALSE]
  /\ UNCHANGED <<js, pods, ctlVars, view, lastRun, done, faults>>

\* Mutant: a new process joins the current attempt.
JoinCurrentMutant(p) ==
  IF agent[p].attempt # Nil THEN agent[p].attempt
  ELSE IF view[p].current = Nil THEN 0 ELSE view[p].current

\* The attempt after the start-up step, which a failed patch leaves unset.
StartupAttempt(p) ==
  IF agent[p].attempt # Nil THEN agent[p].attempt
  ELSE IF view[p].current = Nil THEN 0 ELSE view[p].current + 1

\* Mutant: an attempt equal to the previous one is not outdated.
OutdatedMutant(p, a) == view[p].previous # Nil /\ a < view[p].previous

Outdated(p, a) == view[p].previous # Nil /\ a <= view[p].previous

\* One reconcile of the agent: patch the annotation once per process, exit if the
\* attempt is outdated, lift the barrier if it is the current one.
AgentReconcile(p) ==
  /\ p \notin done
  /\ ~shouldBypassBarrier(view[p])
  /\ LET a == StartupAttempt(p)
     IN  /\ IF Outdated(p, a)
            THEN /\ pods' = [pods EXCEPT ![p].attempt = a, ![p].restartCount = pods[p].restartCount + 1]
                 /\ Restart(p)
                 /\ UNCHANGED lastRun
            ELSE LET lift == agent[p].barrier /\ a = view[p].current
                 IN  /\ pods' = [pods EXCEPT ![p].attempt = a]
                     /\ agent' = [agent EXCEPT ![p] =
                          [attempt |-> a, barrier |-> agent[p].barrier /\ ~lift]]
                     /\ lastRun' = IF lift THEN [lastRun EXCEPT ![p] = a] ELSE lastRun
                     /\ UNCHANGED view
  /\ UNCHANGED <<js, ctlVars, done, faults>>

\* The annotation is applied but the agent gets an error, and keeps no attempt.
PatchResponseLost(p) ==
  /\ p \notin done
  /\ ~shouldBypassBarrier(view[p])
  /\ agent[p].attempt = Nil
  /\ faults < MaxFaults
  /\ faults' = faults + 1
  /\ pods' = [pods EXCEPT ![p].attempt = StartupAttempt(p)]
  /\ UNCHANGED <<js, ctlVars, view, agent, done, lastRun>>

AgentWatch(p) ==
  /\ p \notin done
  /\ view' = [view EXCEPT ![p] = js]
  /\ UNCHANGED <<js, pods, ctlVars, agent, lastRun, done, faults>>
\* The worker ends without an error, and the agent with it: the Pod succeeds, and
\* keeps its annotation.
executeWorkerCommandSucceeds(p) ==
  /\ p \notin done /\ ~agent[p].barrier
  /\ done' = done \cup {p}
  /\ UNCHANGED <<js, pods, ctlVars, view, agent, lastRun, faults>>
-----------------------------------------------------------------------------
(* The world: containers exit, Pods are replaced, a user opts out. *)

\* The worker fails, or the agent's process dies; the container is restarted.
Exit(p) ==
  /\ p \notin done
  /\ faults < MaxFaults
  /\ faults' = faults + 1
  /\ pods' = [pods EXCEPT ![p].restartCount = @ + 1]
  /\ Restart(p)
  /\ UNCHANGED <<js, ctlVars, done, lastRun>>

\* The Pod is replaced once it has failed; the failed one may still be listed (b).
PodRecreated(p, b) ==
  /\ p \notin done
  /\ faults < MaxFaults
  /\ faults' = faults + 1
  /\ pods' = [pods EXCEPT ![p] = NewPod(IF b THEN pods[p].restartCount ELSE 0)]
  /\ Restart(p)
  /\ UNCHANGED <<js, ctlVars, done, lastRun>>

FailedPodGone(p) ==
  /\ pods' = [pods EXCEPT ![p].failedRestartCount = 0]
  /\ UNCHANGED <<js, ctlVars, view, agent, lastRun, done, faults>>

UserDisables ==
  /\ MayDisable /\ ~js.disabled
  /\ js' = [js EXCEPT !.disabled = TRUE]
  /\ UNCHANGED <<pods, ctlVars, view, agent, lastRun, done, faults>>

Next ==
  \/ reconcileInPlaceRestart \/ CacheJobSet \/ CachePods
  \/ \E p \in Pods :
       \/ Bypass(p) \/ AgentReconcile(p) \/ PatchResponseLost(p) \/ AgentWatch(p)
       \/ executeWorkerCommandSucceeds(p) \/ Exit(p) \/ FailedPodGone(p)
       \/ \E b \in BOOLEAN : PodRecreated(p, b)
  \/ UserDisables

Spec == Init /\ [][Next]_vars

\* Watches deliver, the controller and the agents reconcile what they have seen, and
\* a failed Pod is removed.  Nothing is assumed about exits, replacements and users.
Fairness ==
  /\ WF_vars(reconcileInPlaceRestart) /\ WF_vars(CacheJobSet) /\ WF_vars(CachePods)
  /\ \A p \in Pods : /\ WF_vars(Bypass(p)) /\ WF_vars(AgentReconcile(p))
                     /\ WF_vars(AgentWatch(p)) /\ WF_vars(FailedPodGone(p))

FairSpec == Spec /\ Fairness
-----------------------------------------------------------------------------

\* The status, the annotations and the agents' memory keep their types.
TypeOK ==
  /\ js \in JobSet /\ jsCache \in JobSet /\ view \in [Pods -> JobSet]
  /\ pods \in [Pods -> Pod] /\ podsCache \in [Pods -> Pod]
  /\ agent \in [Pods -> [attempt : Attempts, barrier : BOOLEAN]]
  /\ done \subseteq Pods
  /\ lastRun \in [Pods -> Attempts]
  /\ faults \in Nat

\* The previous in-place restart attempt never passes the current one. If it did,
\* an agent would start in attempt current + 1, find it outdated, exit, and start
\* in it again, for ever.
PreviousAtMostCurrent == js.previous <= js.current

\* The agent of p has let its worker run.
Lifted(p) == ~agent[p].barrier

(***************************************************************************)
(* Why the barrier works.  The attempt a process has taken, or will take   *)
(* when it next reconciles, is the current attempt or the one after it;    *)
(* the annotations lag behind it but never behind the current attempt, and *)
(* the controller's copies of them lag behind the annotations.  So the     *)
(* controller finds all Pods in one attempt only when no process can still *)
(* be in an earlier one.                                                   *)
(***************************************************************************)
AttemptInv(p) ==
  /\ view[p].current <= js.current
  /\ view[p].disabled => js.disabled
  /\ js.current <= StartupAttempt(p) /\ StartupAttempt(p) <= js.current + 1
  /\ pods[p].attempt # Nil =>
       js.current <= pods[p].attempt /\ pods[p].attempt <= StartupAttempt(p)
  /\ podsCache[p].attempt # Nil =>
       /\ js.current <= podsCache[p].attempt /\ podsCache[p].attempt <= StartupAttempt(p)
       /\ pods[p].attempt # Nil => podsCache[p].attempt <= pods[p].attempt

RunInv(p) ==
  /\ Lifted(p) /\ ~js.disabled => agent[p].attempt # Nil /\ agent[p].attempt = js.current
  /\ lastRun[p] <= js.current
  /\ agent[p].barrier /\ lastRun[p] # Nil /\ lastRun[p] = js.current =>
       StartupAttempt(p) = js.current + 1

\* The inductive invariant of the protocol, over reconcileInPlaceRestart and the
\* Reconcile of every agent.
BarrierInv == PreviousAtMostCurrent /\ \A p \in Pods : AttemptInv(p) /\ RunInv(p)

\* Workers that run at the same time run in the same in-place restart attempt,
\* unless the user has opted out of the barrier: no worker of an old attempt is
\* running when the barrier of a new one is lifted.
SameAttempt ==
  js.disabled \/ \A p, q \in Pods : Lifted(p) /\ Lifted(q) => agent[p].attempt = agent[q].attempt

\* updateCurrentInPlaceRestartAttempt, which compares nothing, never takes the
\* current attempt back, however old the Pods it was computed from.
CurrentNeverDecreases == [][js'.current >= js.current]_vars

\* The previous attempt never goes back, so that an agent told to restart stays
\* told.
PreviousNeverDecreases == [][js'.previous >= js.previous]_vars

\* This step lets the worker of p run, and not because the user has opted out.
LiftedByBarrier(p) == agent[p].barrier /\ Lifted(p)' /\ ~shouldBypassBarrier(view[p])

\* Each time a Pod's worker is started by the barrier it runs in a later attempt
\* than before: a worker that restarts never rejoins the attempt the others are
\* still in.
EveryRunIsANewAttempt ==
  [][\A p \in Pods : LiftedByBarrier(p) => lastRun'[p] > lastRun[p]]_vars

\* The JobSet is failed for reaching maxRestarts only after more than maxRestarts
\* faults: the restarts the controller itself asks of the healthy Pods are never
\* charged twice.
FailsOnlyAfterMaxRestarts == js.failed => faults > MaxRestarts

\* A Pod that has succeeded is left in an attempt that another has left: it keeps
\* its annotation, and the attempts of all Pods are never equal again.
LeftBehind == \E p \in done, q \in Pods \ done : StartupAttempt(q) # agent[p].attempt

\* Once faults stop, either the JobSet is failed or every barrier is lifted for
\* good: the Pods always come to agree on an attempt, unless one has succeeded in
\* an earlier one.
Converges == <>[](js.failed \/ LeftBehind \/ \A p \in Pods : Lifted(p))

-----------------------------------------------------------------------------
\* The attempts in which workers run.
running == [p \in Pods |-> IF Lifted(p) /\ p \notin done THEN agent[p].attempt ELSE Nil]

Barrier == INSTANCE RestartBarrier
  WITH attempt <- js.current, ran <- lastRun, off <- js.disabled

\* The controller and the agents, with lagging caches, lost responses and Pods that
\* are replaced, implement the barrier: workers are started in the current attempt
\* only, and it advances, one at a time, only when no worker runs.
ImplementsBarrier == Barrier!Spec

=============================================================================
