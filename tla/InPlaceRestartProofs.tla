------------------------ MODULE InPlaceRestartProofs ------------------------
(***************************************************************************)
(* The barrier protocol of InPlaceRestart, proved for every set of Pods    *)
(* and every bound: types, the inductive invariant BarrierInv, what        *)
(* follows from it for the workers, and the budget of restarts.            *)
(***************************************************************************)
EXTENDS InPlaceRestart, TLAPS

\* The initial states have the right types.
LEMMA InitType == Init => TypeOK
BY RestartsAssumption
DEF Init, TypeOK, JobSet, Pod, NewPod, Attempts, Nil, NewInPlaceRestartAgent

\* Annotating a Pod leaves Pods.
LEMMA AnnotatedPodType ==
  ASSUME NEW P \in [Pods -> Pod], NEW p \in Pods, NEW a \in Nat
  PROVE  [P EXCEPT ![p].attempt = a] \in [Pods -> Pod]
BY DEF Pod, Attempts

\* So does annotating it as its containers restart.
LEMMA RestartedPodType ==
  ASSUME NEW P \in [Pods -> Pod], NEW p \in Pods, NEW a \in Nat, NEW n \in Nat
  PROVE  [P EXCEPT ![p].attempt = a, ![p].restartCount = n] \in [Pods -> Pod]
BY ZenonT(30) DEF Pod, Attempts

\* And so does restarting its containers alone.
LEMMA CountedPodType ==
  ASSUME NEW P \in [Pods -> Pod], NEW p \in Pods, NEW n \in Nat
  PROVE  [P EXCEPT ![p].restartCount = n] \in [Pods -> Pod]
BY DEF Pod, Attempts

\* And forgetting the restarts of its predecessor.
LEMMA CleanedPodType ==
  ASSUME NEW P \in [Pods -> Pod], NEW p \in Pods
  PROVE  [P EXCEPT ![p].failedRestartCount = 0] \in [Pods -> Pod]
BY DEF Pod

\* Every step of the controller, of an agent and of the world keeps the types.
LEMMA NextType == TypeOK /\ [Next]_vars => TypeOK'
<1> SUFFICES ASSUME TypeOK, [Next]_vars PROVE TypeOK'
  OBVIOUS
<1> USE DEF TypeOK, JobSet, Pod, Attempts, Nil
<1>1. CASE reconcileInPlaceRestart
  <2>1. js' \in JobSet
    <3>1. CASE js' = [jsCache EXCEPT !.failed = TRUE]
      BY Zenon, <3>1
    <3>2. CASE \E v \in {podsCache[p].attempt : p \in getPodInPlaceRestartAttempts(podsCache)} :
                 \/ js' = updateCurrentInPlaceRestartAttempt(jsCache, v)
                 \/ v # 0 /\ js' = updatePreviousInPlaceRestartAttempt(jsCache, v)
      <4> PICK q \in getPodInPlaceRestartAttempts(podsCache) :
                 \/ js' = updateCurrentInPlaceRestartAttempt(jsCache, podsCache[q].attempt)
                 \/ /\ podsCache[q].attempt # 0
                    /\ js' = updatePreviousInPlaceRestartAttempt(jsCache, podsCache[q].attempt)
        BY <3>2
      <4>1. podsCache[q].attempt \in Nat
        BY DEF getPodInPlaceRestartAttempts
      <4>2. CASE js' = updateCurrentInPlaceRestartAttempt(jsCache, podsCache[q].attempt)
        BY Zenon, <4>1, <4>2 DEF updateCurrentInPlaceRestartAttempt
      <4>3. CASE /\ podsCache[q].attempt # 0
                 /\ js' = updatePreviousInPlaceRestartAttempt(jsCache, podsCache[q].attempt)
        <5>1. podsCache[q].attempt - 1 \in Nat
          BY <4>1, <4>3
        <5>2. jsCache \in JobSet
          OBVIOUS
        <5> HIDE DEF TypeOK
        <5> QED
          BY <4>3, <5>1, <5>2 DEF updatePreviousInPlaceRestartAttempt
      <4> QED
        BY <4>2, <4>3
    <3> QED
      BY <1>1, <3>1, <3>2 DEF reconcileInPlaceRestart
  <2> QED
    BY <1>1, <2>1 DEF reconcileInPlaceRestart, ctlVars
<1>2. CASE CacheJobSet \/ CachePods
  BY <1>2 DEF CacheJobSet, CachePods, ctlVars
<1>3. ASSUME NEW p \in Pods, Bypass(p) PROVE TypeOK'
  BY ZenonT(30), <1>3 DEF Bypass, ctlVars
<1>4. ASSUME NEW p \in Pods, AgentReconcile(p) PROVE TypeOK'
  <2>1. StartupAttempt(p) \in Nat
    BY DEF StartupAttempt
  <2>2. pods \in [Pods -> Pod] /\ agent[p].barrier \in BOOLEAN /\ js \in JobSet
    OBVIOUS
  <2>3. CASE Outdated(p, StartupAttempt(p))
    <3>1. /\ pods' = [pods EXCEPT ![p].attempt = StartupAttempt(p),
                                 ![p].restartCount = pods[p].restartCount + 1]
          /\ agent' = [agent EXCEPT ![p] = NewInPlaceRestartAgent]
          /\ view' = [view EXCEPT ![p] = js]
          /\ UNCHANGED <<js, ctlVars, done, faults, lastRun>>
      BY Zenon, <1>4, <2>3 DEF AgentReconcile, Restart
    <3>2. pods[p].restartCount + 1 \in Nat
      OBVIOUS
    <3>3. pods' \in [Pods -> Pod]
      BY ZenonT(30), <2>1, <2>2, <3>1, <3>2, RestartedPodType
    <3> QED
      BY <3>1, <3>3 DEF NewInPlaceRestartAgent, ctlVars
  <2>4. CASE ~Outdated(p, StartupAttempt(p))
    <3> DEFINE lift == agent[p].barrier /\ StartupAttempt(p) = view[p].current
    <3>1. /\ pods' = [pods EXCEPT ![p].attempt = StartupAttempt(p)]
          /\ agent' = [agent EXCEPT ![p] = [attempt |-> StartupAttempt(p),
                                            barrier |-> agent[p].barrier /\ ~lift]]
          /\ lastRun' = IF lift THEN [lastRun EXCEPT ![p] = StartupAttempt(p)] ELSE lastRun
          /\ UNCHANGED <<js, ctlVars, done, faults, view>>
      BY <1>4, <2>4 DEF AgentReconcile
    <3>2. pods' \in [Pods -> Pod]
      BY Zenon, <2>1, <2>2, <3>1, AnnotatedPodType
    <3>3. lastRun' \in [Pods -> Attempts]
      BY <2>1, <3>1
    <3>4. (agent[p].barrier /\ ~lift) \in BOOLEAN
      OBVIOUS
    <3> HIDE DEF lift
    <3>5. agent' \in [Pods -> [attempt : Attempts, barrier : BOOLEAN]]
      BY <2>1, <3>1, <3>4
    <3> QED
      BY <3>1, <3>2, <3>3, <3>5 DEF ctlVars
  <2> QED
    BY <2>3, <2>4
<1>5. ASSUME NEW p \in Pods, PatchResponseLost(p) PROVE TypeOK'
  <2>1. StartupAttempt(p) \in Nat
    BY DEF StartupAttempt
  <2>2. pods' \in [Pods -> Pod]
    BY Zenon, <1>5, <2>1, AnnotatedPodType DEF PatchResponseLost
  <2> QED
    BY <1>5, <2>2 DEF PatchResponseLost, ctlVars
<1>6. ASSUME NEW p \in Pods, AgentWatch(p) PROVE TypeOK'
  BY <1>6 DEF AgentWatch, ctlVars
<1>7. ASSUME NEW p \in Pods, Exit(p) PROVE TypeOK'
  <2>1. pods' \in [Pods -> Pod]
    <3>1. pods' = [pods EXCEPT ![p].restartCount = pods[p].restartCount + 1]
      BY <1>7 DEF Exit
    <3>2. pods \in [Pods -> Pod] /\ pods[p].restartCount + 1 \in Nat
      OBVIOUS
    <3> QED
      BY Zenon, <3>1, <3>2, CountedPodType
  <2>2. /\ agent' \in [Pods -> [attempt : Attempts, barrier : BOOLEAN]]
        /\ view' \in [Pods -> JobSet]
    BY <1>7 DEF Exit, Restart, NewInPlaceRestartAgent
  <2> QED
    BY <1>7, <2>1, <2>2 DEF Exit, ctlVars
<1>8. ASSUME NEW p \in Pods, NEW b \in BOOLEAN, PodRecreated(p, b) PROVE TypeOK'
  <2>1. pods[p].restartCount \in Nat
    OBVIOUS
  <2>2. NewPod(IF b THEN pods[p].restartCount ELSE 0) \in Pod
    BY <2>1 DEF NewPod
  <2>3. pods' \in [Pods -> Pod]
    BY <1>8, <2>2 DEF PodRecreated
  <2>4. /\ agent' \in [Pods -> [attempt : Attempts, barrier : BOOLEAN]]
        /\ view' \in [Pods -> JobSet]
    BY <1>8 DEF PodRecreated, Restart, NewInPlaceRestartAgent
  <2> QED
    BY <1>8, <2>3, <2>4 DEF PodRecreated, ctlVars
<1>9. ASSUME NEW p \in Pods, FailedPodGone(p) PROVE TypeOK'
  <2>1. pods \in [Pods -> Pod] /\ pods' = [pods EXCEPT ![p].failedRestartCount = 0]
    BY <1>9 DEF FailedPodGone
  <2>3. pods' \in [Pods -> Pod]
    BY Zenon, <2>1, CleanedPodType
  <2> QED
    BY <1>9, <2>3 DEF FailedPodGone, ctlVars
<1>10. CASE UserDisables
  BY Zenon, <1>10 DEF UserDisables, ctlVars
<1>11. CASE UNCHANGED vars
  BY <1>11 DEF vars, ctlVars
<1>12. ASSUME NEW p \in Pods, executeWorkerCommandSucceeds(p) PROVE TypeOK'
  BY <1>12 DEF executeWorkerCommandSucceeds, ctlVars
<1> QED
  BY ZenonT(30), <1>1, <1>2, <1>3, <1>4, <1>5, <1>6, <1>7, <1>8, <1>9, <1>10, <1>11, <1>12 DEF Next

\* The types of InPlaceRestart are an invariant.
THEOREM TypeCorrect == Spec => []TypeOK
BY InitType, NextType, PTL DEF Spec

-----------------------------------------------------------------------------
(* BarrierInv is inductive. *)

PodInv(p) == AttemptInv(p) /\ RunInv(p)

\* The start-up attempt is always an attempt.
LEMMA StartupType ==
  ASSUME TypeOK, NEW p \in Pods
  PROVE  StartupAttempt(p) \in Nat
BY DEF TypeOK, StartupAttempt, JobSet, Attempts, Nil

\* The numbers that the invariant compares.
LEMMA Numbers ==
  ASSUME TypeOK, NEW p \in Pods
  PROVE  /\ js.current \in Attempts /\ js.previous \in Attempts
         /\ view[p].current \in Attempts /\ pods[p].attempt \in Attempts
         /\ podsCache[p].attempt \in Attempts /\ agent[p].attempt \in Attempts
         /\ lastRun[p] \in Attempts
BY DEF TypeOK, JobSet, Pod

\* A Pod that a step leaves alone keeps its part of the invariant.
LEMMA Frame ==
  ASSUME NEW p \in Pods, PodInv(p),
         js'.current = js.current, js'.disabled = js.disabled \/ js'.disabled,
         view'[p] = view[p], agent'[p] = agent[p], lastRun'[p] = lastRun[p],
         pods'[p].attempt = pods[p].attempt, podsCache'[p].attempt = podsCache[p].attempt
  PROVE  PodInv(p)'
BY DEF PodInv, AttemptInv, RunInv, StartupAttempt, Lifted

\* A process that has just started takes the attempt after the current one, whether
\* its Pod is a new one, keeps its annotation, or was annotated just before.
LEMMA Restarted ==
  ASSUME TypeOK, NEW p \in Pods, PodInv(p), js' = js, lastRun' = lastRun,
         podsCache' = podsCache,
         agent'[p] = NewInPlaceRestartAgent, view'[p] = js,
         pods'[p].attempt \in {Nil, pods[p].attempt, StartupAttempt(p)}
  PROVE  PodInv(p)'
<1>1. StartupAttempt(p)' = js.current + 1
  BY Numbers DEF StartupAttempt, NewInPlaceRestartAgent, Attempts, Nil
<1>2. StartupAttempt(p) \in Nat
  BY StartupType
<1>3. AttemptInv(p)'
  BY <1>1, <1>2, Numbers DEF PodInv, AttemptInv, Attempts, Nil
<1>4. RunInv(p)'
  BY <1>1, Numbers DEF PodInv, RunInv, Lifted, NewInPlaceRestartAgent, Attempts, Nil
<1> QED
  BY <1>3, <1>4 DEF PodInv

\* The controller: setting the current attempt to one that all Pods are in, and the
\* previous attempt to the one before the largest.
LEMMA ReconcileInv == TypeOK /\ BarrierInv /\ reconcileInPlaceRestart => BarrierInv'
<1> SUFFICES ASSUME TypeOK, BarrierInv, reconcileInPlaceRestart PROVE BarrierInv'
  OBVIOUS
<1> USE DEF Attempts, Nil
<1>0. /\ js = jsCache /\ js \in JobSet
      /\ UNCHANGED <<pods, ctlVars, view, agent, lastRun>>
  BY DEF reconcileInPlaceRestart, TypeOK
<1>1. \A p \in Pods : PodInv(p)
  BY DEF BarrierInv, PodInv
<1>2. \A p \in Pods : StartupAttempt(p)' = StartupAttempt(p) /\ StartupAttempt(p) \in Nat
  BY <1>0, StartupType DEF StartupAttempt
<1>3. CASE js' = [jsCache EXCEPT !.failed = TRUE]
  <2>1. js'.current = js.current /\ js'.previous = js.previous /\ js'.disabled = js.disabled
    BY <1>0, <1>3 DEF JobSet
  <2> QED
    BY <1>0, <1>1, <2>1, Frame DEF BarrierInv, PreviousAtMostCurrent, PodInv, ctlVars
<1>4. ASSUME NEW v, allEqual(podsCache, v), js' = updateCurrentInPlaceRestartAttempt(jsCache, v)
      PROVE  BarrierInv'
  <2>1. js'.current = v /\ js'.previous = js.previous /\ js'.disabled = js.disabled
    BY <1>0, <1>4 DEF JobSet, updateCurrentInPlaceRestartAttempt
  <2>2. \A p \in Pods : /\ podsCache[p].attempt = v /\ v # Nil /\ v \in Nat
                         /\ js.current <= v /\ v <= StartupAttempt(p)
    BY <1>1, <1>4, Numbers DEF allEqual, getPodInPlaceRestartAttempts, PodInv, AttemptInv
  <2>3. ASSUME NEW p \in Pods PROVE AttemptInv(p)'
    BY <1>0, <1>1, <1>2, <2>1, <2>2, Numbers DEF PodInv, AttemptInv, ctlVars
  <2>4. ASSUME NEW p \in Pods PROVE RunInv(p)'
    <3>1. Lifted(p) /\ ~js.disabled => agent[p].attempt = v
      BY <1>1, <2>2, Numbers DEF PodInv, RunInv, StartupAttempt
    <3>2. lastRun[p] <= js.current /\ js.current <= v
      BY <1>1, <2>2 DEF PodInv, RunInv
    <3> QED
      BY <1>0, <1>1, <1>2, <2>1, <2>2, <3>1, <3>2, Numbers DEF PodInv, RunInv, Lifted
  <2>5. js'.previous <= js'.current
    BY <2>1, <2>2, Numbers, PodsAssumption DEF BarrierInv, PreviousAtMostCurrent
  <2> QED
    BY <2>3, <2>4, <2>5 DEF BarrierInv, PreviousAtMostCurrent
<1>5. ASSUME NEW q \in Pods, podsCache[q].attempt # Nil,
             js' = updatePreviousInPlaceRestartAttempt(jsCache, podsCache[q].attempt)
      PROVE  BarrierInv'
  <2>1. /\ js'.current = js.current /\ js'.disabled = js.disabled
        /\ js'.previous \in {js.previous, podsCache[q].attempt - 1}
    BY <1>0, <1>5 DEF JobSet, updatePreviousInPlaceRestartAttempt
  <2>2. podsCache[q].attempt - 1 <= js.current
    BY <1>1, <1>2, <1>5, Numbers DEF PodInv, AttemptInv
  <2>3. js'.previous <= js'.current
    BY <2>1, <2>2 DEF BarrierInv, PreviousAtMostCurrent
  <2> QED
    BY <1>0, <1>1, <2>1, <2>3, Frame DEF BarrierInv, PreviousAtMostCurrent, PodInv, ctlVars
<1> QED
  BY <1>3, <1>4, <1>5 DEF reconcileInPlaceRestart, getPodInPlaceRestartAttempts

\* One reconcile of the agent of p: the annotation catches up with its attempt, and
\* the barrier is lifted only in the current attempt.
LEMMA AgentInv ==
  ASSUME TypeOK, NEW p \in Pods, PodInv(p), AgentReconcile(p)
  PROVE  PodInv(p)'
<1> DEFINE a == StartupAttempt(p)
           lift == agent[p].barrier /\ a = view[p].current
<1>1. js' = js /\ podsCache' = podsCache /\ a \in Nat
  BY StartupType DEF AgentReconcile, ctlVars
<1>2. CASE Outdated(p, a)
  <2>1. /\ pods'[p].attempt = a /\ agent'[p] = NewInPlaceRestartAgent /\ view'[p] = js
        /\ lastRun' = lastRun
    BY <1>2 DEF AgentReconcile, Restart, TypeOK, Pod
  <2> QED
    BY <1>1, <2>1, Restarted
<1>3. CASE ~Outdated(p, a)
  <2>1. /\ pods'[p].attempt = a /\ view' = view
        /\ agent'[p] = [attempt |-> a, barrier |-> agent[p].barrier /\ ~lift]
        /\ lastRun'[p] = IF lift THEN a ELSE lastRun[p]
    BY <1>3 DEF AgentReconcile, TypeOK, Pod
  <2>2. StartupAttempt(p)' = a
    BY <1>1, <2>1 DEF StartupAttempt, Nil
  <2>3. AttemptInv(p)'
    BY <1>1, <2>1, <2>2, Numbers DEF PodInv, AttemptInv, Attempts, Nil
  <2>4. lift => a = js.current
    BY <1>1, Numbers DEF PodInv, AttemptInv, Attempts, Nil
  <2>5. ~agent[p].barrier /\ ~js.disabled => a = js.current
    BY DEF PodInv, RunInv, Lifted, StartupAttempt
  <2>6. /\ agent'[p].attempt = a
        /\ agent'[p].barrier = (agent[p].barrier /\ ~lift)
    <3> DEFINE b == agent[p].barrier /\ ~lift
    <3>1. agent'[p] = [attempt |-> a, barrier |-> b]
      BY <2>1
    <3> HIDE DEF b, a
    <3>2. agent'[p].attempt = a /\ agent'[p].barrier = b
      BY <3>1
    <3> QED
      BY <3>2 DEF b
  <2>7. lastRun'[p] = IF lift THEN a ELSE lastRun[p]
    BY <2>1
  <2>8. js.current \in Int /\ lastRun[p] \in Int /\ a \in Int /\ a # Nil
    BY <1>1, Numbers DEF Attempts, Nil
  <2> HIDE DEF a
  <2>9. RunInv(p)'
    <3>1. lastRun'[p] <= js'.current
      BY <1>1, <2>4, <2>7, <2>8 DEF PodInv, RunInv
    <3>2. Lifted(p)' /\ ~js'.disabled => agent'[p].attempt # Nil /\ agent'[p].attempt = js'.current
      BY Zenon, <1>1, <2>4, <2>5, <2>6, <2>8 DEF Lifted
    <3>3. agent'[p].barrier /\ lastRun'[p] # Nil /\ lastRun'[p] = js'.current =>
            StartupAttempt(p)' = js'.current + 1
      BY ZenonT(30), <1>1, <2>2, <2>6, <2>7 DEF PodInv, RunInv, a
    <3> QED
      BY <3>1, <3>2, <3>3 DEF RunInv
  <2> QED
    BY <2>3, <2>9 DEF PodInv
<1> QED
  BY <1>2, <1>3

\* A lost response leaves the annotation of the agent's attempt behind.
LEMMA LostResponseInv ==
  ASSUME TypeOK, NEW p \in Pods, PodInv(p), PatchResponseLost(p)
  PROVE  PodInv(p)'
<1>1. /\ js' = js /\ podsCache' = podsCache /\ view' = view /\ agent' = agent
      /\ lastRun' = lastRun /\ pods'[p].attempt = StartupAttempt(p)
      /\ StartupAttempt(p) \in Nat /\ StartupAttempt(p)' = StartupAttempt(p)
  BY StartupType DEF PatchResponseLost, ctlVars, TypeOK, Pod, StartupAttempt
<1> QED
  BY <1>1, Numbers DEF PodInv, AttemptInv, RunInv, Lifted, Attempts, Nil

\* A watch event moves only a process that has taken no attempt yet.
LEMMA WatchInv ==
  ASSUME TypeOK, NEW p \in Pods, PodInv(p), AgentWatch(p)
  PROVE  PodInv(p)'
<1>1. /\ js' = js /\ podsCache' = podsCache /\ pods' = pods /\ agent' = agent
      /\ lastRun' = lastRun /\ view'[p] = js
  BY DEF AgentWatch, ctlVars, TypeOK
<1>2. StartupAttempt(p)' = IF agent[p].attempt # Nil THEN StartupAttempt(p) ELSE js.current + 1
  BY <1>1, Numbers DEF StartupAttempt, Attempts, Nil
<1>3. StartupAttempt(p) \in Nat
  BY StartupType
<1>4. AttemptInv(p)'
  BY <1>1, <1>2, <1>3, Numbers DEF PodInv, AttemptInv, Attempts, Nil
<1>5. RunInv(p)'
  BY <1>1, <1>2, <1>3, Numbers DEF PodInv, RunInv, Lifted, Attempts, Nil
<1> QED
  BY <1>4, <1>5 DEF PodInv

\* BarrierInv holds when the JobSet is created.
LEMMA InitBarrier == Init => BarrierInv
BY DEF Init, BarrierInv, PreviousAtMostCurrent, AttemptInv, RunInv, Lifted, StartupAttempt,
       NewPod, NewInPlaceRestartAgent, Nil

\* A step of one Pod, its agent or its container keeps BarrierInv if it keeps that
\* Pod's part of it.
LEMMA OnePod ==
  ASSUME BarrierInv, NEW p \in Pods, PodInv(p)', js' = js, podsCache' = podsCache,
         \A q \in Pods \ {p} : /\ view'[q] = view[q] /\ agent'[q] = agent[q]
                                /\ lastRun'[q] = lastRun[q] /\ pods'[q] = pods[q]
  PROVE  BarrierInv'
<1>1. ASSUME NEW q \in Pods \ {p} PROVE PodInv(q)'
  BY Frame DEF BarrierInv, PodInv
<1> QED
  BY <1>1 DEF BarrierInv, PodInv, PreviousAtMostCurrent

\* Every step keeps BarrierInv.
LEMMA NextBarrier == TypeOK /\ BarrierInv /\ [Next]_vars => BarrierInv'
<1> SUFFICES ASSUME TypeOK, BarrierInv, [Next]_vars PROVE BarrierInv'
  OBVIOUS
<1>0. \A p \in Pods : PodInv(p)
  BY DEF BarrierInv, PodInv
<1>1. CASE reconcileInPlaceRestart
  BY <1>1, ReconcileInv
<1>2. CASE CacheJobSet \/ UNCHANGED vars
  BY <1>0, <1>2, Frame DEF CacheJobSet, vars, ctlVars, BarrierInv, PodInv, PreviousAtMostCurrent
<1>3. CASE CachePods
  <2>1. ASSUME NEW p \in Pods PROVE PodInv(p)'
    <3>1. StartupAttempt(p)' = StartupAttempt(p)
      BY <1>3 DEF CachePods, StartupAttempt
    <3> QED
      BY <1>0, <1>3, <3>1, Numbers DEF CachePods, PodInv, AttemptInv, RunInv, Lifted, Attempts, Nil
  <2> QED
    BY Zenon, <1>3, <2>1 DEF CachePods, BarrierInv, PodInv, PreviousAtMostCurrent
<1>4. ASSUME NEW p \in Pods, Bypass(p) PROVE BarrierInv'
  <2>1. /\ agent'[p].attempt = agent[p].attempt /\ ~agent'[p].barrier /\ js.disabled
        /\ UNCHANGED <<js, pods, podsCache, view, lastRun>>
    BY Zenon, <1>0, <1>4 DEF Bypass, shouldBypassBarrier, ctlVars, PodInv, AttemptInv, TypeOK
  <2>2. PodInv(p)'
    BY <1>0, <2>1 DEF PodInv, AttemptInv, RunInv, Lifted, StartupAttempt
  <2> QED
    BY <1>4, <2>1, <2>2, OnePod DEF Bypass, TypeOK
<1>5. ASSUME NEW p \in Pods, AgentReconcile(p) PROVE BarrierInv'
  <2>1. PodInv(p)'
    BY <1>0, <1>5, AgentInv
  <2>2. /\ js' = js /\ podsCache' = podsCache
        /\ \A q \in Pods \ {p} : /\ view'[q] = view[q] /\ agent'[q] = agent[q]
                                   /\ lastRun'[q] = lastRun[q] /\ pods'[q] = pods[q]
    BY <1>5 DEF AgentReconcile, Restart, ctlVars, TypeOK
  <2> QED
    BY <2>1, <2>2, OnePod
<1>6. ASSUME NEW p \in Pods, PatchResponseLost(p) PROVE BarrierInv'
  BY Zenon, <1>0, <1>6, LostResponseInv, OnePod DEF PatchResponseLost, ctlVars, TypeOK
<1>7. ASSUME NEW p \in Pods, AgentWatch(p) PROVE BarrierInv'
  BY Zenon, <1>0, <1>7, WatchInv, OnePod DEF AgentWatch, ctlVars, TypeOK
<1>8. ASSUME NEW p \in Pods, Exit(p) \/ \E b \in BOOLEAN : PodRecreated(p, b) PROVE BarrierInv'
  <2>1. /\ js' = js /\ podsCache' = podsCache /\ lastRun' = lastRun
        /\ agent'[p] = NewInPlaceRestartAgent /\ view'[p] = js
        /\ pods'[p].attempt \in {Nil, pods[p].attempt}
    BY <1>8 DEF Exit, PodRecreated, Restart, NewPod, ctlVars, TypeOK, Pod
  <2>2. PodInv(p)'
    BY <1>0, <2>1, Restarted
  <2> QED
    BY <1>8, <2>1, <2>2, OnePod DEF Exit, PodRecreated, Restart, TypeOK
<1>9. ASSUME NEW p \in Pods, FailedPodGone(p) PROVE BarrierInv'
  <2>1. \A q \in Pods : pods'[q].attempt = pods[q].attempt
    BY <1>9 DEF FailedPodGone, TypeOK, Pod
  <2> QED
    BY <1>0, <1>9, <2>1, Frame DEF FailedPodGone, ctlVars, BarrierInv, PodInv, PreviousAtMostCurrent
<1>10. CASE UserDisables
  <2>1. js'.current = js.current /\ js'.previous = js.previous /\ js'.disabled
    BY <1>10 DEF UserDisables, TypeOK, JobSet
  <2> QED
    BY <1>0, <1>10, <2>1, Frame DEF UserDisables, ctlVars, BarrierInv, PodInv, PreviousAtMostCurrent
<1>11. ASSUME NEW p \in Pods, executeWorkerCommandSucceeds(p) PROVE BarrierInv'
  BY <1>0, <1>11, Frame
  DEF executeWorkerCommandSucceeds, ctlVars, BarrierInv, PodInv, PreviousAtMostCurrent
<1> QED
  BY <1>1, <1>2, <1>3, <1>4, <1>5, <1>6, <1>7, <1>8, <1>9, <1>10, <1>11 DEF Next

\* The barrier protocol keeps its invariant, for any number of Pods and any number
\* of faults, replacements and stale reads.
THEOREM BarrierCorrect == Spec => []BarrierInv
BY InitType, NextType, InitBarrier, NextBarrier, PTL DEF Spec

-----------------------------------------------------------------------------
(* What BarrierInv gives the workers. *)

\* Workers that run at the same time run in the same in-place restart attempt:
\* each is in the current one.
THEOREM SameAttemptCorrect == Spec => []SameAttempt
<1>1. BarrierInv => SameAttempt
  BY DEF BarrierInv, RunInv, SameAttempt
<1> QED
  BY <1>1, BarrierCorrect, PTL

\* updateCurrentInPlaceRestartAttempt never takes the current attempt back, and
\* updatePreviousInPlaceRestartAttempt never the previous one.
LEMMA AttemptsGrow ==
  ASSUME TypeOK, BarrierInv, [Next]_vars
  PROVE  js'.current >= js.current /\ js'.previous >= js.previous
<1> USE DEF Attempts, Nil
<1>0. js \in JobSet /\ js.current \in Int /\ js.previous \in Int
  BY DEF TypeOK, JobSet
<1>1. CASE reconcileInPlaceRestart
  <2>1. js = jsCache
    BY <1>1 DEF reconcileInPlaceRestart
  <2>2. CASE js' = [jsCache EXCEPT !.failed = TRUE]
    BY <1>0, <2>1, <2>2 DEF JobSet
  <2>3. ASSUME NEW v, allEqual(podsCache, v), js' = updateCurrentInPlaceRestartAttempt(jsCache, v)
        PROVE  js'.current >= js.current /\ js'.previous >= js.previous
    <3>1. js'.current = v /\ js'.previous = js.previous
      BY ZenonT(30), <1>0, <2>1, <2>3 DEF JobSet, updateCurrentInPlaceRestartAttempt
    <3>2. v \in Int /\ js.current <= v
      BY <2>3, Numbers, PodsAssumption
      DEF allEqual, getPodInPlaceRestartAttempts, BarrierInv, AttemptInv
    <3> QED
      BY <1>0, <3>1, <3>2
  <2>4. ASSUME NEW q \in Pods, podsCache[q].attempt # Nil, podsCache[q].attempt # 0,
               js' = updatePreviousInPlaceRestartAttempt(jsCache, podsCache[q].attempt)
        PROVE  js'.current >= js.current /\ js'.previous >= js.previous
    <3>1. podsCache[q].attempt - 1 \in Nat
      BY <2>4, Numbers
    <3>2. /\ js'.current = js.current
          /\ js'.previous = IF js.previous # Nil /\ podsCache[q].attempt - 1 < js.previous
                            THEN js.previous ELSE podsCache[q].attempt - 1
      BY <1>0, <2>1, <2>4 DEF JobSet, updatePreviousInPlaceRestartAttempt
    <3> QED
      BY <1>0, <3>1, <3>2, Numbers
  <2> QED
    BY <1>1, <2>2, <2>3, <2>4 DEF reconcileInPlaceRestart, getPodInPlaceRestartAttempts
<1>2. CASE UserDisables
  BY <1>0, <1>2 DEF UserDisables, JobSet
<1>3. CASE js' = js
  BY <1>0, <1>3
<1> QED
  BY Zenon, <1>1, <1>2, <1>3 DEF Next, CacheJobSet, CachePods, Bypass, AgentReconcile, PatchResponseLost,
     AgentWatch, executeWorkerCommandSucceeds, Exit, PodRecreated, FailedPodGone, vars

\* The current in-place restart attempt never decreases, however old the Pods that
\* the controller read.
THEOREM CurrentGrows == Spec => CurrentNeverDecreases
<1>1. TypeOK /\ BarrierInv /\ [Next]_vars => [js'.current >= js.current]_vars
  BY AttemptsGrow
<1> QED
  BY <1>1, TypeCorrect, BarrierCorrect, PTL DEF Spec, CurrentNeverDecreases

\* The previous in-place restart attempt never decreases: an agent that was told to
\* restart stays told.
THEOREM PreviousGrows == Spec => PreviousNeverDecreases
<1>1. TypeOK /\ BarrierInv /\ [Next]_vars => [js'.previous >= js.previous]_vars
  BY AttemptsGrow
<1> QED
  BY <1>1, TypeCorrect, BarrierCorrect, PTL DEF Spec, PreviousNeverDecreases

\* The barrier is lifted in the current attempt, which is later than the last run.
LEMMA RunsGrow ==
  ASSUME TypeOK, BarrierInv, [Next]_vars, NEW p \in Pods, LiftedByBarrier(p)
  PROVE  lastRun'[p] > lastRun[p]
<1>1. AgentReconcile(p)
  <2>1. agent'[p] # agent[p] /\ agent'[p] # NewInPlaceRestartAgent
    BY DEF LiftedByBarrier, Lifted, NewInPlaceRestartAgent
  <2>2. ASSUME NEW q \in Pods, AgentReconcile(q) PROVE q = p
    BY <2>1, <2>2 DEF AgentReconcile, Restart, TypeOK
  <2>3. ASSUME NEW q \in Pods,
               Exit(q) \/ Bypass(q) \/ \E b \in BOOLEAN : PodRecreated(q, b)
        PROVE  FALSE
    BY <2>1, <2>3 DEF Exit, Bypass, PodRecreated, Restart, LiftedByBarrier, TypeOK
  <2>4. agent' # agent
    BY <2>1
  <2> QED
    BY <2>2, <2>3, <2>4 DEF Next, vars, reconcileInPlaceRestart, CacheJobSet, CachePods,
       PatchResponseLost, AgentWatch, executeWorkerCommandSucceeds, FailedPodGone, UserDisables
<1>2. StartupAttempt(p) = view[p].current /\ agent[p].barrier
  BY <1>1 DEF AgentReconcile, Restart, NewInPlaceRestartAgent, LiftedByBarrier, Lifted, TypeOK
<1>3. lastRun'[p] = StartupAttempt(p)
  BY <1>1, <1>2 DEF AgentReconcile, Restart, NewInPlaceRestartAgent, LiftedByBarrier, Lifted, TypeOK
<1>4. AttemptInv(p) /\ RunInv(p) /\ StartupAttempt(p) \in Nat
  BY StartupType DEF BarrierInv
<1> QED
  BY <1>2, <1>3, <1>4, Numbers DEF AttemptInv, RunInv, Attempts, Nil

\* Each run of a Pod's worker is in a later attempt than its last one.
THEOREM RunsAreNew == Spec => EveryRunIsANewAttempt
<1>1. TypeOK /\ BarrierInv /\ [Next]_vars =>
        [\A p \in Pods : LiftedByBarrier(p) => lastRun'[p] > lastRun[p]]_vars
  BY RunsGrow
<1> QED
  BY <1>1, TypeCorrect, BarrierCorrect, PTL DEF Spec, EveryRunIsANewAttempt

-----------------------------------------------------------------------------
(* The controller and the agents implement RestartBarrier. *)

\* At first no worker runs in the protocol nor in the barrier.
LEMMA InitRefines == Init => Barrier!Init
BY DEF Init, Barrier!Init, running, Lifted, NewInPlaceRestartAgent, Nil

\* Workers go on running as long as no process changes.
LEMMA SameRunning ==
  ASSUME UNCHANGED <<agent, done>>
  PROVE  running' = running
BY DEF running, Lifted

\* When the process of p ends, or is replaced by one behind its barrier, the worker
\* of p stops and the others go on.
LEMMA RunningStops ==
  ASSUME NEW p \in Pods, agent'[p].barrier \/ p \in done',
         \A q \in Pods \ {p} : agent'[q] = agent[q] /\ (q \in done' <=> q \in done)
  PROVE  running' = [running EXCEPT ![p] = -1]
<1>1. running'[p] = -1
  BY DEF running, Lifted, Nil
<1>2. \A q \in Pods \ {p} : running'[q] = running[q]
  BY DEF running, Lifted
<1> QED
  BY Zenon, <1>1, <1>2 DEF running

\* Opting out is for good.
LEMMA DisabledStays ==
  ASSUME TypeOK, [Next]_vars, js.disabled
  PROVE  js'.disabled = TRUE
<1>0. js \in JobSet /\ jsCache \in JobSet
  BY DEF TypeOK
<1>1. CASE reconcileInPlaceRestart
  BY <1>0, <1>1 DEF reconcileInPlaceRestart, updateCurrentInPlaceRestartAttempt,
     updatePreviousInPlaceRestartAttempt, JobSet
<1>2. CASE UserDisables
  BY <1>0, <1>2 DEF UserDisables, JobSet
<1>3. CASE js' = js
  BY <1>0, <1>3 DEF JobSet
<1> QED
  BY Zenon, <1>1, <1>2, <1>3 DEF Next, CacheJobSet, CachePods, Bypass, AgentReconcile, PatchResponseLost,
     AgentWatch, executeWorkerCommandSucceeds, Exit, PodRecreated, FailedPodGone, vars

\* The controller advances the current attempt by one, when no worker runs.
LEMMA ReconcileRefines ==
  ASSUME TypeOK, BarrierInv, reconcileInPlaceRestart, ~js.disabled
  PROVE  Barrier!Advance \/ UNCHANGED Barrier!vars
<1> USE DEF Attempts, Nil
<1>0. js = jsCache /\ js \in JobSet /\ js.current \in Int
  BY DEF reconcileInPlaceRestart, TypeOK, JobSet
<1>1. running' = running /\ lastRun' = lastRun
  BY SameRunning DEF reconcileInPlaceRestart
<1>2. CASE js'.current = js.current /\ js'.disabled = js.disabled
  BY <1>1, <1>2 DEF Barrier!vars
<1>3. ASSUME NEW v, allEqual(podsCache, v), js' = updateCurrentInPlaceRestartAttempt(jsCache, v)
      PROVE  Barrier!Advance \/ UNCHANGED Barrier!vars
  <2>1. js'.current = v /\ js'.disabled = js.disabled
    BY <1>0, <1>3 DEF JobSet, updateCurrentInPlaceRestartAttempt
  <2>2. \A p \in Pods : /\ podsCache[p].attempt = v /\ v \in Nat
                        /\ js.current <= v /\ v <= StartupAttempt(p)
                        /\ StartupAttempt(p) \in Nat /\ StartupAttempt(p) <= js.current + 1
    BY <1>3, Numbers, StartupType
    DEF allEqual, getPodInPlaceRestartAttempts, BarrierInv, AttemptInv
  <2>3. v \in Nat /\ (v = js.current \/ v = js.current + 1)
    BY <1>0, <2>2, PodsAssumption
  <2>4. CASE v = js.current
    BY <1>2, <2>1, <2>4
  <2>5. CASE v = js.current + 1
    <3>1. ASSUME NEW p \in Pods PROVE ~Lifted(p)
      BY <1>0, <2>2, <2>5 DEF BarrierInv, RunInv, StartupAttempt
    <3>2. \A p \in Pods : running[p] = -1
      BY <3>1 DEF running
    <3> QED
      BY Zenon, <1>1, <2>1, <2>5, <3>2 DEF Barrier!Advance
  <2> QED
    BY <2>3, <2>4, <2>5
<1>4. ASSUME NEW v, js' = updatePreviousInPlaceRestartAttempt(jsCache, v)
      PROVE  js'.current = js.current /\ js'.disabled = js.disabled
  BY <1>0, <1>4 DEF JobSet, updatePreviousInPlaceRestartAttempt
<1>5. CASE js' = [jsCache EXCEPT !.failed = TRUE]
  BY <1>0, <1>2, <1>5 DEF JobSet
<1> QED
  BY <1>2, <1>3, <1>4, <1>5 DEF reconcileInPlaceRestart

\* An agent that reconciles starts its worker in the current attempt, stops it, or
\* leaves it alone.
LEMMA AgentRefines ==
  ASSUME TypeOK, BarrierInv, BarrierInv', [Next]_vars, ~js.disabled,
         NEW p \in Pods, AgentReconcile(p)
  PROVE  Barrier!Run(p) \/ Barrier!Stop(p) \/ UNCHANGED Barrier!vars
<1> DEFINE a == StartupAttempt(p)
           lift == agent[p].barrier /\ a = view[p].current
<1>0. js' = js /\ done' = done /\ p \notin done
  BY DEF AgentReconcile
<1>1. CASE Outdated(p, a)
  <2>1. agent' = [agent EXCEPT ![p] = NewInPlaceRestartAgent] /\ lastRun' = lastRun
    BY Zenon, <1>1 DEF AgentReconcile, Restart
  <2>2. running' = [running EXCEPT ![p] = -1]
    BY <1>0, <2>1, RunningStops DEF TypeOK, NewInPlaceRestartAgent
  <2> QED
    BY <1>0, <2>1, <2>2 DEF Barrier!Stop
<1>2. CASE ~Outdated(p, a)
  <2>1. /\ agent' = [agent EXCEPT ![p] = [attempt |-> a, barrier |-> agent[p].barrier /\ ~lift]]
        /\ lastRun' = IF lift THEN [lastRun EXCEPT ![p] = a] ELSE lastRun
    BY Zenon, <1>2 DEF AgentReconcile
  <2>2. \A q \in Pods \ {p} : running'[q] = running[q]
    BY <1>0, <2>1 DEF running, Lifted, TypeOK
  <2>3. CASE lift
    <3>1. agent'[p].attempt = a /\ ~agent'[p].barrier /\ lastRun' = [lastRun EXCEPT ![p] = a]
      BY ZenonT(30), <2>1, <2>3 DEF TypeOK
    <3>2. a = js.current
      BY Zenon, <1>0, <3>1 DEF BarrierInv, RunInv, Lifted
    <3>3. running[p] = -1 /\ running'[p] = a
      BY <1>0, <2>3, <3>1 DEF running, Lifted, Nil
    <3>4. LiftedByBarrier(p)
      BY Zenon, <2>3, <3>1 DEF LiftedByBarrier, Lifted, AgentReconcile
    <3>5. lastRun[p] < js.current
      BY <3>1, <3>2, <3>4, RunsGrow, Numbers DEF TypeOK, Attempts, Nil, JobSet
    <3>6. running' = [running EXCEPT ![p] = js.current]
      BY Zenon, <2>2, <3>2, <3>3 DEF running
    <3> QED
      BY <1>0, <3>1, <3>2, <3>3, <3>5, <3>6 DEF Barrier!Run
  <2>4. CASE ~lift
    <3>1. lastRun' = lastRun /\ agent'[p].attempt = a /\ (agent'[p].barrier <=> agent[p].barrier)
      BY Zenon, <2>1, <2>4 DEF TypeOK
    <3>2. ~agent[p].barrier => agent[p].attempt = a
      BY DEF BarrierInv, RunInv, Lifted, StartupAttempt
    <3>3. running'[p] = running[p]
      BY <1>0, <3>1, <3>2 DEF running, Lifted
    <3>4. running' = running
      BY <2>2, <3>3 DEF running
    <3> QED
      BY Zenon, <1>0, <3>1, <3>4 DEF Barrier!vars
  <2> QED
    BY <2>3, <2>4
<1> QED
  BY <1>1, <1>2

\* Every step of the protocol is a step of the barrier, or changes nothing there.
LEMMA StepRefines ==
  ASSUME TypeOK, BarrierInv, BarrierInv', [Next]_vars
  PROVE  [Barrier!Next]_Barrier!vars
<1>1. CASE js.disabled
  BY Zenon, <1>1, DisabledStays DEF Barrier!Next, Barrier!Unprotected
<1>2. CASE ~js.disabled
  <2>1. CASE reconcileInPlaceRestart
    BY <1>2, <2>1, ReconcileRefines DEF Barrier!Next
  <2>2. CASE UNCHANGED <<js, agent, done, lastRun>>
    BY <2>2, SameRunning DEF Barrier!vars
  <2>3. ASSUME NEW p \in Pods, Bypass(p) PROVE FALSE
    BY <1>2, <2>3 DEF Bypass, shouldBypassBarrier, BarrierInv, AttemptInv
  <2>4. ASSUME NEW p \in Pods, AgentReconcile(p) PROVE Barrier!Run(p) \/ Barrier!Stop(p) \/ UNCHANGED Barrier!vars
    BY <1>2, <2>4, AgentRefines
  <2>5. ASSUME NEW p \in Pods, executeWorkerCommandSucceeds(p) PROVE Barrier!Stop(p)
    BY <2>5, RunningStops DEF executeWorkerCommandSucceeds, Barrier!Stop
  <2>6. ASSUME NEW p \in Pods, Exit(p) \/ \E b \in BOOLEAN : PodRecreated(p, b) PROVE Barrier!Stop(p)
    <3>1. /\ agent' = [agent EXCEPT ![p] = NewInPlaceRestartAgent]
          /\ UNCHANGED <<js, done, lastRun>>
      BY <2>6 DEF Exit, PodRecreated, Restart
    <3>2. running' = [running EXCEPT ![p] = -1]
      BY <3>1, RunningStops DEF TypeOK, NewInPlaceRestartAgent
    <3> QED
      BY <3>1, <3>2 DEF Barrier!Stop
  <2>7. CASE UserDisables
    <3>1. js'.current = js.current /\ js'.disabled = TRUE
      BY <2>7 DEF UserDisables, TypeOK, JobSet
    <3> QED
      BY <1>2, <2>7, <3>1, SameRunning DEF UserDisables, Barrier!Next, Barrier!OptOut
  <2> QED
    BY <2>1, <2>2, <2>3, <2>4, <2>5, <2>6, <2>7
    DEF Next, CacheJobSet, CachePods, PatchResponseLost, AgentWatch, FailedPodGone, vars, Barrier!Next
<1> QED
  BY <1>1, <1>2

\* In-place restart implements the barrier it promises: for any number of Pods and
\* faults and however old the copies that the controller and the agents act on, a
\* worker is only started in the current attempt, once, and the attempt is only left
\* when all workers have stopped.
THEOREM ImplementsBarrierCorrect == Spec => ImplementsBarrier
<1>1. TypeOK /\ BarrierInv /\ BarrierInv' /\ [Next]_vars => [Barrier!Next]_Barrier!vars
  BY Zenon, StepRefines
<1> QED
  BY <1>1, InitRefines, TypeCorrect, BarrierCorrect, PTL DEF Spec, ImplementsBarrier, Barrier!Spec

-----------------------------------------------------------------------------
(***************************************************************************)
(* The budget: in-place restart charges a JobSet no more restarts than     *)
(* there have been faults.  A fault of one Pod makes the containers of all *)
(* others restart once, and raises the attempt of all of them by one.      *)
(***************************************************************************)

(***************************************************************************)
(* A new process whose attempt has already been written, or become the     *)
(* current one, without its knowledge (the response to its patch was lost, *)
(* or it restarted after having written it) takes the next one when it     *)
(* sees that the attempt is current.  So it is counted as if it had it.    *)
(***************************************************************************)
Pending(p) ==
  /\ agent[p].attempt = Nil
  /\ StartupAttempt(p) \in {pods[p].attempt, podsCache[p].attempt, js.current}

Effective(p) == IF Pending(p) THEN StartupAttempt(p) + 1 ELSE StartupAttempt(p)

\* No restart count, on the API server or in the controller's cache, exceeds the faults.
CountsCovered(P) ==
  \A p \in Pods : P[p].restartCount <= faults /\ P[p].failedRestartCount <= faults

\* Neither does an attempt; and a Pod that has yet to follow another into its attempt
\* has been restarted fewer times than there were faults.
AttemptsCovered ==
  /\ \A p \in Pods : Effective(p) <= faults
  /\ \A p, q \in Pods :
       p # q => pods[p].restartCount + Effective(q) - StartupAttempt(p) <= faults

\* An attempt is only outdated when some Pod is in a later one.
OutdatedForAReason ==
  js.previous # Nil /\ js.previous >= js.current =>
    \E r \in Pods : StartupAttempt(r) >= js.current + 1

BudgetInv ==
  /\ CountsCovered(pods) /\ CountsCovered(podsCache)
  /\ AttemptsCovered /\ OutdatedForAReason
  /\ \A p \in Pods : view[p].previous <= js.previous
  /\ FailsOnlyAfterMaxRestarts

\* What the types and BarrierInv say of one Pod, in numbers.
LEMMA Bounds ==
  ASSUME TypeOK, BarrierInv, NEW p \in Pods
  PROVE  /\ StartupAttempt(p) \in Nat /\ Effective(p) \in Nat
         /\ StartupAttempt(p) <= Effective(p) /\ Effective(p) <= StartupAttempt(p) + 1
         /\ js.current \in Int /\ js.previous \in Int /\ js.previous <= js.current
         /\ js.current <= StartupAttempt(p) /\ StartupAttempt(p) <= js.current + 1
         /\ pods[p].attempt \in Int /\ pods[p].attempt <= StartupAttempt(p)
         /\ podsCache[p].attempt \in Int /\ podsCache[p].attempt <= StartupAttempt(p)
         /\ pods[p].restartCount \in Nat /\ podsCache[p].restartCount \in Nat
         /\ pods[p].failedRestartCount \in Nat /\ podsCache[p].failedRestartCount \in Nat
         /\ faults \in Nat
<1>1. /\ js.current \in Int /\ js.previous \in Int
      /\ pods[p].attempt \in Int /\ podsCache[p].attempt \in Int
      /\ pods[p].restartCount \in Nat /\ podsCache[p].restartCount \in Nat
      /\ pods[p].failedRestartCount \in Nat /\ podsCache[p].failedRestartCount \in Nat
      /\ faults \in Nat
  BY DEF TypeOK, JobSet, Pod, Attempts, Nil
<1>2. StartupAttempt(p) \in Nat
  BY DEF TypeOK, JobSet, Attempts, Nil, StartupAttempt
<1>3. Effective(p) \in {StartupAttempt(p), StartupAttempt(p) + 1}
  BY DEF Effective
<1>4. js.previous <= js.current /\ js.current <= StartupAttempt(p) /\ StartupAttempt(p) <= js.current + 1
  BY DEF BarrierInv, PreviousAtMostCurrent, AttemptInv
<1>5. /\ pods[p].attempt # Nil => pods[p].attempt <= StartupAttempt(p)
      /\ podsCache[p].attempt # Nil => podsCache[p].attempt <= StartupAttempt(p)
  BY DEF BarrierInv, AttemptInv
<1> QED
  BY <1>1, <1>2, <1>3, <1>4, <1>5 DEF Nil

\* A process that starts anew takes the attempt after the current one.
LEMMA FreshAttempt ==
  ASSUME NEW p \in Pods, TypeOK, agent' = [agent EXCEPT ![p] = NewInPlaceRestartAgent],
         view' = [view EXCEPT ![p] = js]
  PROVE  /\ agent'[p].attempt = Nil /\ view'[p] = js
         /\ StartupAttempt(p)' = IF js.current = Nil THEN 0 ELSE js.current + 1
         /\ \A q \in Pods : q # p => agent'[q] = agent[q] /\ view'[q] = view[q]
<1>1. agent'[p] = NewInPlaceRestartAgent /\ view'[p] = js
  BY DEF TypeOK
<1>2. \A q \in Pods : q # p => agent'[q] = agent[q] /\ view'[q] = view[q]
  BY DEF TypeOK
<1> QED
  BY <1>1, <1>2 DEF NewInPlaceRestartAgent, StartupAttempt

(***************************************************************************)
(* A step of one Pod keeps BudgetInv, when it does not lower the attempt   *)
(* of the Pod and the new counts are covered.                              *)
(***************************************************************************)
LEMMA PodStep ==
  ASSUME TypeOK, TypeOK', BarrierInv, BarrierInv', BudgetInv, NEW p \in Pods,
         js' = js, podsCache' = podsCache, faults' >= faults,
         \A q \in Pods : q # p => agent'[q] = agent[q] /\ view'[q] = view[q] /\ pods'[q] = pods[q],
         StartupAttempt(p)' >= StartupAttempt(p),
         view'[p].previous <= js.previous,
         pods'[p].restartCount <= faults', pods'[p].failedRestartCount <= faults',
         Effective(p)' <= faults',
         \A q \in Pods : q # p =>
           /\ pods'[p].restartCount + Effective(q) - StartupAttempt(p)' <= faults'
           /\ pods[q].restartCount + Effective(p)' - StartupAttempt(q) <= faults'
  PROVE  BudgetInv'
<1>1. \A q \in Pods : q # p =>
        StartupAttempt(q)' = StartupAttempt(q) /\ Effective(q)' = Effective(q)
  BY ZenonT(30) DEF StartupAttempt, Effective, Pending
<1>2. faults \in Nat /\ faults' \in Nat
  BY DEF TypeOK
<1>3. \A q \in Pods :
        /\ StartupAttempt(q) \in Nat /\ Effective(q) \in Nat
        /\ pods[q].restartCount \in Nat /\ podsCache[q].restartCount \in Nat
        /\ pods[q].failedRestartCount \in Nat /\ podsCache[q].failedRestartCount \in Nat
  BY Bounds
<1>4. StartupAttempt(p)' \in Nat /\ js.current \in Int
  BY Bounds DEF TypeOK, JobSet, Attempts, Nil, StartupAttempt
<1>5. CountsCovered(pods)' /\ CountsCovered(podsCache)'
  BY <1>2, <1>3 DEF BudgetInv, CountsCovered
<1>6. \A q \in Pods : Effective(q)' <= faults'
  BY <1>1, <1>2, <1>3 DEF BudgetInv, AttemptsCovered
<1>7. ASSUME NEW q \in Pods, NEW r \in Pods, q # r
      PROVE  pods'[q].restartCount + Effective(r)' - StartupAttempt(q)' <= faults'
  <2>1. CASE q = p
    BY <1>1, <1>7, <2>1
  <2>2. CASE r = p
    BY <1>1, <1>7, <2>2
  <2>3. CASE q # p /\ r # p
    <3>1. pods[q].restartCount + Effective(r) - StartupAttempt(q) <= faults
      BY <1>7 DEF BudgetInv, AttemptsCovered
    <3> QED
      BY <1>1, <1>2, <1>3, <2>3, <3>1
  <2> QED
    BY <2>1, <2>2, <2>3
<1>8. OutdatedForAReason'
  <2>1. \A q \in Pods : StartupAttempt(q)' >= StartupAttempt(q)
    BY <1>1, <1>3
  <2>2. \A q \in Pods : StartupAttempt(q)' \in Nat
    BY <1>1, <1>3, <1>4
  <2> QED
    BY <1>3, <1>4, <2>1, <2>2 DEF BudgetInv, OutdatedForAReason
<1>9. \A q \in Pods : view'[q].previous <= js'.previous
  BY DEF BudgetInv
<1>10. FailsOnlyAfterMaxRestarts'
  BY <1>2, RestartsAssumption DEF BudgetInv, FailsOnlyAfterMaxRestarts
<1> QED
  BY ZenonT(30), <1>5, <1>6, <1>7, <1>8, <1>9, <1>10 DEF BudgetInv, AttemptsCovered

\* The effective attempt of a process that starts anew.
LEMMA FreshEffective ==
  ASSUME TypeOK, BarrierInv, NEW p \in Pods,
         agent' = [agent EXCEPT ![p] = NewInPlaceRestartAgent], view' = [view EXCEPT ![p] = js],
         js' = js, podsCache' = podsCache,
         pods'[p].attempt \in Int, pods'[p].attempt <= StartupAttempt(p)
  PROVE  /\ StartupAttempt(p)' \in Nat /\ StartupAttempt(p)' >= StartupAttempt(p)
         /\ Effective(p)' \in Nat /\ Effective(p)' <= StartupAttempt(p) + 1
         /\ StartupAttempt(p) = js.current =>
              StartupAttempt(p)' = js.current + 1 /\ Effective(p)' = js.current + 1
<1> DEFINE S == StartupAttempt(p)
           T == StartupAttempt(p)'
<1>1. /\ S \in Nat /\ js.current \in Int /\ js.current <= S /\ S <= js.current + 1
      /\ podsCache[p].attempt \in Int /\ podsCache[p].attempt <= S
  BY Bounds
<1>2. T = IF js.current = Nil THEN 0 ELSE js.current + 1
  BY Zenon, FreshAttempt
<1>3. T \in {S, S + 1} /\ (S = js.current => T = S + 1)
  BY <1>1, <1>2 DEF Nil
<1>4. Effective(p)' \in {T, T + 1}
  BY DEF Effective
<1>5. Pending(p)' => T \in {pods'[p].attempt, podsCache[p].attempt, js.current}
  BY DEF Pending
<1>6. Effective(p)' = IF Pending(p)' THEN T + 1 ELSE T
  BY Zenon DEF Effective
<1> HIDE DEF S, T
<1>7. T = S + 1 => Effective(p)' = T
  BY <1>1, <1>5, <1>6 DEF S
<1>8. /\ T \in Nat /\ T >= S /\ Effective(p)' \in Nat /\ Effective(p)' <= S + 1
      /\ S = js.current => T = js.current + 1 /\ Effective(p)' = js.current + 1
  BY <1>1, <1>3, <1>4, <1>7
<1> QED
  BY Zenon, <1>8 DEF S, T

\* A container exits, or its Pod is replaced: one fault, and at most one restart.
LEMMA FaultBudget ==
  ASSUME TypeOK, TypeOK', BarrierInv, BarrierInv', BudgetInv, NEW p \in Pods,
         Exit(p) \/ \E b \in BOOLEAN : PodRecreated(p, b)
  PROVE  BudgetInv'
<1> DEFINE n == pods[p].restartCount
<1>1. /\ js' = js /\ podsCache' = podsCache /\ faults' = faults + 1
      /\ agent' = [agent EXCEPT ![p] = NewInPlaceRestartAgent] /\ view' = [view EXCEPT ![p] = js]
  BY DEF Exit, PodRecreated, Restart, ctlVars
<1>2. \A q \in Pods : q # p => agent'[q] = agent[q] /\ view'[q] = view[q]
  BY <1>1, FreshAttempt
<1>3. \A q \in Pods : q # p => pods'[q] = pods[q]
  BY Zenon DEF Exit, PodRecreated, TypeOK
<1>4. /\ pods'[p].attempt \in {Nil, pods[p].attempt}
      /\ pods'[p].restartCount \in {0, n + 1}
      /\ pods'[p].failedRestartCount \in {0, n, pods[p].failedRestartCount}
  <2>1. CASE Exit(p)
    BY ZenonT(30), <2>1 DEF Exit, TypeOK, Pod
  <2>2. ASSUME NEW b \in BOOLEAN, PodRecreated(p, b) PROVE <1>4
    BY <2>2 DEF PodRecreated, NewPod, TypeOK
  <2> QED
    BY <2>1, <2>2
<1>5. /\ n \in Nat /\ pods[p].failedRestartCount \in Nat /\ faults \in Nat
      /\ pods[p].attempt \in Int /\ pods[p].attempt <= StartupAttempt(p)
      /\ StartupAttempt(p) \in Nat /\ Effective(p) \in Nat /\ StartupAttempt(p) <= Effective(p)
  BY Bounds
<1>6. n <= faults /\ pods[p].failedRestartCount <= faults /\ Effective(p) <= faults
  BY DEF BudgetInv, CountsCovered, AttemptsCovered
<1>7. /\ StartupAttempt(p)' \in Nat /\ StartupAttempt(p)' >= StartupAttempt(p)
      /\ Effective(p)' \in Nat /\ Effective(p)' <= StartupAttempt(p) + 1
  <2>1. pods'[p].attempt \in Int /\ pods'[p].attempt <= StartupAttempt(p)
    BY <1>4, <1>5 DEF Nil
  <2> QED
    BY Zenon, <1>1, <2>1, FreshEffective
<1> HIDE DEF n
<1>8. \A q \in Pods : q # p =>
        /\ pods'[p].restartCount + Effective(q) - StartupAttempt(p)' <= faults'
        /\ pods[q].restartCount + Effective(p)' - StartupAttempt(q) <= faults'
  <2> SUFFICES ASSUME NEW q \in Pods, q # p
               PROVE  /\ pods'[p].restartCount + Effective(q) - StartupAttempt(p)' <= faults'
                      /\ pods[q].restartCount + Effective(p)' - StartupAttempt(q) <= faults'
    BY Zenon
  <2>1. /\ n + Effective(q) - StartupAttempt(p) <= faults
        /\ pods[q].restartCount + Effective(p) - StartupAttempt(q) <= faults
    BY Zenon DEF BudgetInv, AttemptsCovered, n
  <2>2. StartupAttempt(q) \in Nat /\ Effective(q) \in Nat /\ pods[q].restartCount \in Nat
    BY Zenon, Bounds
  <2> QED
    BY <1>1, <1>4, <1>5, <1>7, <2>1, <2>2
<1>9. /\ pods'[p].restartCount <= faults' /\ pods'[p].failedRestartCount <= faults'
      /\ Effective(p)' <= faults' /\ faults' >= faults
  BY <1>1, <1>4, <1>5, <1>6, <1>7
<1>10. view'[p].previous <= js.previous
  BY <1>1, FreshAttempt DEF TypeOK, JobSet, Attempts, Nil
<1> QED
  BY <1>1, <1>2, <1>3, <1>7, <1>8, <1>9, <1>10, PodStep

\* An agent told that its attempt is outdated exits: the restart is covered by the
\* fault that made another Pod go ahead.
LEMMA OutdatedBudget ==
  ASSUME TypeOK, TypeOK', BarrierInv, BarrierInv', BudgetInv, NEW p \in Pods,
         AgentReconcile(p), Outdated(p, StartupAttempt(p))
  PROVE  BudgetInv'
<1> DEFINE S == StartupAttempt(p)
           n == pods[p].restartCount
<1>1. /\ js' = js /\ podsCache' = podsCache /\ faults' = faults
      /\ agent' = [agent EXCEPT ![p] = NewInPlaceRestartAgent] /\ view' = [view EXCEPT ![p] = js]
      /\ pods' = [pods EXCEPT ![p].attempt = S, ![p].restartCount = n + 1]
  BY DEF AgentReconcile, Restart, ctlVars
<1>2. \A q \in Pods : q # p => agent'[q] = agent[q] /\ view'[q] = view[q] /\ pods'[q] = pods[q]
  BY <1>1, FreshAttempt DEF TypeOK
<1>3. /\ pods'[p].attempt = S /\ pods'[p].restartCount = n + 1
      /\ pods'[p].failedRestartCount = pods[p].failedRestartCount
  BY <1>1 DEF TypeOK, Pod
<1>4. /\ S \in Nat /\ n \in Nat /\ faults \in Nat /\ js.current \in Int /\ js.previous \in Int
      /\ js.previous <= js.current /\ js.current <= S
  BY Bounds
<1>5. view[p].previous # Nil /\ S <= view[p].previous
  BY Zenon DEF Outdated
<1>6. view[p].previous \in Int /\ view[p].previous <= js.previous
  BY DEF BudgetInv, TypeOK, JobSet, Attempts, Nil
<1>7. S = js.current /\ js.previous = js.current /\ js.previous # Nil
  BY <1>4, <1>5, <1>6 DEF Nil
<1>8. PICK r \in Pods : StartupAttempt(r) >= js.current + 1
  BY Zenon, <1>4, <1>7 DEF BudgetInv, OutdatedForAReason
<1>9. /\ StartupAttempt(r) \in Nat /\ Effective(r) \in Nat /\ StartupAttempt(r) <= Effective(r)
      /\ Effective(r) <= faults /\ Effective(r) >= S + 1 /\ r # p
  <2>1. /\ StartupAttempt(r) \in Nat /\ Effective(r) \in Nat /\ StartupAttempt(r) <= Effective(r)
    BY Zenon, Bounds
  <2>2. Effective(r) <= faults
    BY DEF BudgetInv, AttemptsCovered
  <2> QED
    BY <1>4, <1>7, <1>8, <2>1, <2>2
<1>10. /\ StartupAttempt(p)' = S + 1 /\ Effective(p)' = S + 1
  BY ZenonT(30), <1>1, <1>3, <1>4, <1>7, FreshEffective
<1>11. n + Effective(r) - S <= faults
  BY ZenonT(30), <1>9 DEF BudgetInv, AttemptsCovered
<1> HIDE DEF S, n
<1>12. ASSUME NEW q \in Pods, q # p
       PROVE  /\ pods'[p].restartCount + Effective(q) - StartupAttempt(p)' <= faults'
              /\ pods[q].restartCount + Effective(p)' - StartupAttempt(q) <= faults'
  <2>1. n + Effective(q) - S <= faults
    BY Zenon, <1>12 DEF BudgetInv, AttemptsCovered, n, S
  <2>2. /\ StartupAttempt(q) \in Nat /\ Effective(q) \in Nat /\ pods[q].restartCount \in Nat
        /\ js.current <= StartupAttempt(q)
    BY Bounds
  <2>3. pods[q].restartCount <= faults
    BY Zenon DEF BudgetInv, CountsCovered
  <2>4. q # r => pods[q].restartCount + Effective(r) - StartupAttempt(q) <= faults
    BY Zenon DEF BudgetInv, AttemptsCovered
  <2>5. pods[q].restartCount + (S + 1) - StartupAttempt(q) <= faults
    BY <1>4, <1>7, <1>8, <1>9, <2>2, <2>3, <2>4
  <2> QED
    BY <1>1, <1>3, <1>4, <1>10, <2>1, <2>2, <2>5
<1>13. /\ pods'[p].restartCount <= faults' /\ pods'[p].failedRestartCount <= faults'
       /\ Effective(p)' <= faults' /\ faults' >= faults /\ StartupAttempt(p)' >= StartupAttempt(p)
  <2>1. pods[p].failedRestartCount <= faults
    BY DEF BudgetInv, CountsCovered
  <2> QED
    BY <1>1, <1>3, <1>4, <1>9, <1>10, <1>11, <2>1 DEF S
<1>14. view'[p].previous <= js.previous
  <2>1. view'[p] = js
    BY <1>1 DEF TypeOK
  <2> QED
    BY <1>4, <2>1
<1> QED
  BY Zenon, <1>1, <1>2, <1>12, <1>13, <1>14, PodStep

\* An agent that is not outdated takes its attempt and may lift its barrier.
LEMMA TakeBudget ==
  ASSUME TypeOK, TypeOK', BarrierInv, BarrierInv', BudgetInv, NEW p \in Pods,
         AgentReconcile(p), ~Outdated(p, StartupAttempt(p))
  PROVE  BudgetInv'
<1> DEFINE S == StartupAttempt(p)
<1>1. /\ js' = js /\ podsCache' = podsCache /\ faults' = faults /\ view' = view
      /\ pods' = [pods EXCEPT ![p].attempt = S]
      /\ agent' = [agent EXCEPT ![p] = agent'[p]] /\ agent'[p].attempt = S
  BY DEF AgentReconcile, ctlVars, TypeOK
<1>2. \A q \in Pods : q # p => agent'[q] = agent[q] /\ view'[q] = view[q] /\ pods'[q] = pods[q]
  BY <1>1 DEF TypeOK
<1>3. /\ pods'[p].restartCount = pods[p].restartCount
      /\ pods'[p].failedRestartCount = pods[p].failedRestartCount
  BY <1>1 DEF TypeOK, Pod
<1>4. /\ S \in Nat /\ faults \in Nat /\ Effective(p) \in Nat /\ S <= Effective(p)
  BY Bounds
<1>5. StartupAttempt(p)' = S /\ Effective(p)' = S
  <2>1. agent'[p].attempt # Nil
    BY <1>1, <1>4 DEF Nil
  <2> QED
    BY <1>1, <2>1 DEF StartupAttempt, Effective, Pending
<1> HIDE DEF S
<1>6. ASSUME NEW q \in Pods, q # p
      PROVE  /\ pods'[p].restartCount + Effective(q) - StartupAttempt(p)' <= faults'
             /\ pods[q].restartCount + Effective(p)' - StartupAttempt(q) <= faults'
  <2>1. /\ pods[p].restartCount + Effective(q) - S <= faults
        /\ pods[q].restartCount + Effective(p) - StartupAttempt(q) <= faults
    BY Zenon, <1>6 DEF BudgetInv, AttemptsCovered, S
  <2>2. /\ StartupAttempt(q) \in Nat /\ Effective(q) \in Nat /\ pods[q].restartCount \in Nat
    BY Bounds
  <2> QED
    BY <1>1, <1>3, <1>4, <1>5, <2>1, <2>2
<1>7. /\ pods'[p].restartCount <= faults' /\ pods'[p].failedRestartCount <= faults'
      /\ view'[p].previous <= js.previous /\ Effective(p) <= faults
  BY <1>1, <1>3 DEF BudgetInv, CountsCovered, AttemptsCovered
<1>8. Effective(p)' <= faults' /\ faults' >= faults /\ StartupAttempt(p)' >= StartupAttempt(p)
  BY <1>1, <1>4, <1>5, <1>7 DEF S
<1> QED
  BY <1>1, <1>2, <1>6, <1>7, <1>8, PodStep

\* The response to a patch is lost: the process may go one attempt further than it
\* knows of, which the fault covers.
LEMMA LostBudget ==
  ASSUME TypeOK, TypeOK', BarrierInv, BarrierInv', BudgetInv, NEW p \in Pods,
         PatchResponseLost(p)
  PROVE  BudgetInv'
<1> DEFINE S == StartupAttempt(p)
<1>1. /\ js' = js /\ podsCache' = podsCache /\ faults' = faults + 1 /\ view' = view /\ agent' = agent
      /\ pods' = [pods EXCEPT ![p].attempt = S]
  BY DEF PatchResponseLost, ctlVars
<1>2. \A q \in Pods : q # p => agent'[q] = agent[q] /\ view'[q] = view[q] /\ pods'[q] = pods[q]
  BY <1>1 DEF TypeOK
<1>3. /\ pods'[p].restartCount = pods[p].restartCount
      /\ pods'[p].failedRestartCount = pods[p].failedRestartCount
  BY <1>1 DEF TypeOK, Pod
<1>4. /\ S \in Nat /\ faults \in Nat /\ Effective(p) \in Nat /\ S <= Effective(p)
      /\ pods[p].restartCount \in Nat /\ pods[p].failedRestartCount \in Nat
  BY Bounds
<1>5. StartupAttempt(p)' = S /\ Effective(p)' \in {S, S + 1}
  BY <1>1 DEF StartupAttempt, Effective
<1> HIDE DEF S
<1>6. ASSUME NEW q \in Pods, q # p
      PROVE  /\ pods'[p].restartCount + Effective(q) - StartupAttempt(p)' <= faults'
             /\ pods[q].restartCount + Effective(p)' - StartupAttempt(q) <= faults'
  <2>1. /\ pods[p].restartCount + Effective(q) - S <= faults
        /\ pods[q].restartCount + Effective(p) - StartupAttempt(q) <= faults
    BY Zenon, <1>6 DEF BudgetInv, AttemptsCovered, S
  <2>2. /\ StartupAttempt(q) \in Nat /\ Effective(q) \in Nat /\ pods[q].restartCount \in Nat
    BY Bounds
  <2> QED
    BY <1>1, <1>3, <1>4, <1>5, <2>1, <2>2
<1>7. /\ pods[p].restartCount <= faults /\ pods[p].failedRestartCount <= faults
      /\ view'[p].previous <= js.previous /\ Effective(p) <= faults
  BY <1>1 DEF BudgetInv, CountsCovered, AttemptsCovered
<1>8. /\ Effective(p)' <= faults' /\ faults' >= faults /\ StartupAttempt(p)' >= StartupAttempt(p)
      /\ pods'[p].restartCount <= faults' /\ pods'[p].failedRestartCount <= faults'
  BY <1>1, <1>3, <1>4, <1>5, <1>7 DEF S
<1> QED
  BY <1>1, <1>2, <1>6, <1>7, <1>8, PodStep

\* An agent sees the JobSet: a pending attempt becomes its attempt.
LEMMA WatchBudget ==
  ASSUME TypeOK, TypeOK', BarrierInv, BarrierInv', BudgetInv, NEW p \in Pods, AgentWatch(p)
  PROVE  BudgetInv'
<1> DEFINE S == StartupAttempt(p)
           T == StartupAttempt(p)'
<1>1. /\ js' = js /\ podsCache' = podsCache /\ faults' = faults /\ agent' = agent /\ pods' = pods
      /\ view' = [view EXCEPT ![p] = js]
  BY DEF AgentWatch, ctlVars
<1>2. view'[p] = js /\ \A q \in Pods : q # p => view'[q] = view[q]
  BY Zenon, <1>1 DEF TypeOK
<1>3. /\ S \in Nat /\ faults \in Nat /\ Effective(p) \in Nat
      /\ js.current \in Int /\ js.previous \in Int /\ js.current <= S /\ S <= js.current + 1
      /\ pods[p].attempt \in Int /\ pods[p].attempt <= S
      /\ podsCache[p].attempt \in Int /\ podsCache[p].attempt <= S
  BY Bounds
<1>4. T \in Nat /\ T >= S /\ Effective(p)' = Effective(p)
  <2>1. CASE agent[p].attempt # Nil
    <3>1. T = S /\ ~Pending(p) /\ ~Pending(p)'
      BY <1>1, <2>1 DEF StartupAttempt, Pending
    <3> QED
      BY <1>3, <3>1 DEF Effective
  <2>2. CASE agent[p].attempt = Nil
    <3>1. T = IF js.current = Nil THEN 0 ELSE js.current + 1
      BY <1>1, <1>2, <2>2 DEF StartupAttempt
    <3>2. Pending(p) <=> (S \in {pods[p].attempt, podsCache[p].attempt, js.current})
      BY Zenon, <2>2 DEF Pending
    <3>3. Pending(p)' <=> (T \in {pods[p].attempt, podsCache[p].attempt, js.current})
      BY <1>1, <2>2 DEF Pending
    <3>4. /\ Effective(p) = IF Pending(p) THEN S + 1 ELSE S
          /\ Effective(p)' = IF Pending(p)' THEN T + 1 ELSE T
      BY DEF Effective
    <3> HIDE DEF S, T
    <3>5. CASE S = js.current
      <4>1. T = S + 1 /\ Pending(p)
        BY <1>3, <3>1, <3>2, <3>5 DEF Nil
      <4>2. ~Pending(p)'
        BY <1>3, <3>3, <3>5, <4>1
      <4> QED
        BY <1>3, <3>4, <4>1, <4>2
    <3>6. CASE S # js.current
      <4>1. T = S
        BY <1>3, <3>1, <3>6 DEF Nil
      <4>2. Pending(p)' <=> Pending(p)
        BY Zenon, <3>2, <3>3, <4>1
      <4> QED
        BY <1>3, <3>4, <4>1, <4>2
    <3> QED
      BY Zenon, <3>5, <3>6
  <2> QED
    BY Zenon, <2>1, <2>2
<1> HIDE DEF S, T
<1>5. ASSUME NEW q \in Pods, q # p
      PROVE  /\ pods'[p].restartCount + Effective(q) - StartupAttempt(p)' <= faults'
             /\ pods[q].restartCount + Effective(p)' - StartupAttempt(q) <= faults'
  <2>1. /\ pods[p].restartCount + Effective(q) - S <= faults
        /\ pods[q].restartCount + Effective(p) - StartupAttempt(q) <= faults
    BY <1>5 DEF BudgetInv, AttemptsCovered, S
  <2>2. /\ Effective(q) \in Nat /\ pods[p].restartCount \in Nat
    BY Bounds
  <2>3. pods[p].restartCount + Effective(q) - T <= faults
    BY <1>3, <1>4, <2>1, <2>2
  <2> QED
    BY Zenon, <1>1, <1>4, <2>1, <2>3 DEF T
<1>6. /\ pods'[p].restartCount <= faults' /\ pods'[p].failedRestartCount <= faults'
      /\ Effective(p)' <= faults'
  BY Zenon, <1>1, <1>4 DEF BudgetInv, CountsCovered, AttemptsCovered
<1>7. view'[p].previous <= js.previous /\ faults' >= faults /\ StartupAttempt(p)' >= StartupAttempt(p)
  BY <1>1, <1>2, <1>3, <1>4 DEF S, T
<1>8. \A q \in Pods : q # p => agent'[q] = agent[q] /\ view'[q] = view[q] /\ pods'[q] = pods[q]
  BY Zenon, <1>1, <1>2
<1> QED
  BY ZenonT(30), <1>1, <1>5, <1>6, <1>7, <1>8, PodStep

\* The failed predecessor of a Pod disappears from the list.
LEMMA GoneBudget ==
  ASSUME TypeOK, TypeOK', BarrierInv, BarrierInv', BudgetInv, NEW p \in Pods, FailedPodGone(p)
  PROVE  BudgetInv'
<1>1. /\ js' = js /\ podsCache' = podsCache /\ faults' = faults /\ agent' = agent /\ view' = view
  BY DEF FailedPodGone, ctlVars
<1>2. \A q \in Pods : q # p => agent'[q] = agent[q] /\ view'[q] = view[q] /\ pods'[q] = pods[q]
  BY <1>1 DEF FailedPodGone, TypeOK
<1>3. /\ pods'[p].restartCount = pods[p].restartCount /\ pods'[p].attempt = pods[p].attempt
      /\ pods'[p].failedRestartCount = 0
  BY DEF FailedPodGone, TypeOK, Pod
<1>4. StartupAttempt(p)' = StartupAttempt(p) /\ Effective(p)' = Effective(p)
  BY ZenonT(30), <1>1, <1>3 DEF StartupAttempt, Effective, Pending
<1>5. StartupAttempt(p) \in Nat /\ faults \in Nat
  BY ZenonT(30), Bounds
<1>6. /\ pods'[p].restartCount <= faults' /\ pods'[p].failedRestartCount <= faults'
      /\ Effective(p)' <= faults' /\ view'[p].previous <= js.previous
  BY <1>1, <1>3, <1>4, <1>5 DEF BudgetInv, CountsCovered, AttemptsCovered
<1>7. \A q \in Pods : q # p =>
        /\ pods'[p].restartCount + Effective(q) - StartupAttempt(p)' <= faults'
        /\ pods[q].restartCount + Effective(p)' - StartupAttempt(q) <= faults'
  BY <1>1, <1>3, <1>4 DEF BudgetInv, AttemptsCovered
<1>8. faults' >= faults /\ StartupAttempt(p)' >= StartupAttempt(p)
  BY <1>1, <1>4, <1>5
<1> QED
  BY <1>1, <1>2, <1>6, <1>7, <1>8, PodStep

(***************************************************************************)
(* A step of the controller or the user changes no Pod and no agent's      *)
(* attempt.                                                                *)
(***************************************************************************)
LEMMA StartupSame ==
  ASSUME NEW p \in Pods, agent'[p].attempt = agent[p].attempt, view' = view
  PROVE  StartupAttempt(p)' = StartupAttempt(p)
BY Zenon DEF StartupAttempt

\* If it makes no attempt pending, the attempts remain covered.
LEMMA StillCovered ==
  ASSUME TypeOK, BarrierInv, BudgetInv, pods' = pods, view' = view, faults' = faults,
         \A p \in Pods : agent'[p].attempt = agent[p].attempt /\ (Pending(p)' => Pending(p))
  PROVE  CountsCovered(pods)' /\ AttemptsCovered'
<1>1. \A p \in Pods : StartupAttempt(p)' = StartupAttempt(p)
  BY Zenon, StartupSame
<1>2. \A p \in Pods :
        /\ StartupAttempt(p) \in Nat /\ Effective(p) \in Nat /\ pods[p].restartCount \in Nat
        /\ faults \in Nat
  BY Zenon, Bounds
<1>3. ASSUME NEW p \in Pods
      PROVE  Effective(p)' \in Nat /\ Effective(p)' <= Effective(p)
  BY <1>1, <1>2 DEF Effective
<1>4. ASSUME NEW p \in Pods PROVE Effective(p)' <= faults'
  <2>1. Effective(p) <= faults
    BY Zenon DEF BudgetInv, AttemptsCovered
  <2> QED
    BY <1>2, <1>3, <2>1
<1>5. ASSUME NEW p \in Pods, NEW q \in Pods, p # q
      PROVE  pods'[p].restartCount + Effective(q)' - StartupAttempt(p)' <= faults'
  <2>1. pods[p].restartCount + Effective(q) - StartupAttempt(p) <= faults
    BY <1>5 DEF BudgetInv, AttemptsCovered
  <2> QED
    BY <1>1, <1>2, <1>3, <2>1
<1>6. CountsCovered(pods)'
  BY Zenon DEF BudgetInv, CountsCovered
<1> QED
  BY Zenon, <1>4, <1>5, <1>6 DEF AttemptsCovered

\* Steps that leave the attempts and the counts alone.
LEMMA SameBudget ==
  ASSUME TypeOK, BarrierInv, BudgetInv, pods' = pods, view' = view, faults' = faults,
         \A p \in Pods : agent'[p].attempt = agent[p].attempt,
         podsCache' \in {pods, podsCache},
         js'.current = js.current, js'.previous = js.previous, js'.failed = js.failed
  PROVE  BudgetInv'
<1>1. \A p \in Pods : Pending(p)' => Pending(p)
  BY Zenon, StartupSame DEF Pending
<1>2. CountsCovered(pods)' /\ AttemptsCovered'
  BY Zenon, <1>1, StillCovered
<1>3. CountsCovered(podsCache)'
  BY Zenon DEF BudgetInv, CountsCovered
<1>4. OutdatedForAReason'
  BY Zenon, StartupSame DEF BudgetInv, OutdatedForAReason
<1>5. FailsOnlyAfterMaxRestarts' /\ \A p \in Pods : view'[p].previous <= js'.previous
  BY DEF BudgetInv, FailsOnlyAfterMaxRestarts
<1> QED
  BY Zenon, <1>2, <1>3, <1>4, <1>5 DEF BudgetInv

\* The controller's reconcile: it fails the JobSet, raises its current attempt, or
\* declares an earlier one outdated.
LEMMA ReconcileBudget ==
  ASSUME TypeOK, BarrierInv, BudgetInv, reconcileInPlaceRestart
  PROVE  BudgetInv'
<1>0. /\ pods' = pods /\ podsCache' = podsCache /\ view' = view /\ agent' = agent
      /\ faults' = faults /\ js = jsCache /\ js \in JobSet
  BY Zenon DEF reconcileInPlaceRestart, ctlVars, TypeOK
<1>1. js.current \in Int /\ js.previous \in Int /\ js.previous <= js.current /\ faults \in Nat
  BY <1>0 DEF TypeOK, JobSet, Attempts, Nil, BarrierInv, PreviousAtMostCurrent
<1>2. CountsCovered(podsCache)'
  BY Zenon, <1>0 DEF BudgetInv, CountsCovered
<1>3. \A p \in Pods : StartupAttempt(p)' = StartupAttempt(p) /\ StartupAttempt(p) \in Nat
  BY <1>0, StartupSame, Bounds
<1>4. CASE getMaxContainerRestartCountExceeds(podsCache, MaxRestarts) \/ exceededMaxRestarts(podsCache)
  <2>1. js' = [js EXCEPT !.failed = TRUE]
    BY <1>0, <1>4 DEF reconcileInPlaceRestart
  <2>2. js'.current = js.current /\ js'.previous = js.previous
    BY <1>0, <2>1 DEF JobSet
  <2>3. faults > MaxRestarts
    <3>1. ASSUME NEW p \in Pods
          PROVE  /\ podsCache[p].restartCount <= faults /\ podsCache[p].failedRestartCount <= faults
                 /\ podsCache[p].attempt <= faults
      <4>1. Effective(p) <= faults
        BY Zenon DEF BudgetInv, AttemptsCovered
      <4>2. podsCache[p].attempt <= faults
        BY <1>1, <4>1, Bounds
      <4> QED
        BY <4>2 DEF BudgetInv, CountsCovered
    <3>2. \A p \in Pods :
            /\ podsCache[p].restartCount \in Nat /\ podsCache[p].failedRestartCount \in Nat
            /\ podsCache[p].attempt \in Int
      BY Bounds
    <3>3. CASE getMaxContainerRestartCountExceeds(podsCache, MaxRestarts)
      BY <1>1, <3>1, <3>2, <3>3, RestartsAssumption DEF getMaxContainerRestartCountExceeds
    <3>4. CASE exceededMaxRestarts(podsCache)
      BY <1>1, <3>1, <3>2, <3>4, RestartsAssumption DEF exceededMaxRestarts, getPodInPlaceRestartAttempts
    <3> QED
      BY Zenon, <1>4, <3>3, <3>4
  <2>4. CountsCovered(pods)' /\ AttemptsCovered'
    <3>1. \A p \in Pods : Pending(p)' => Pending(p)
      BY Zenon, <1>0, <1>3, <2>2 DEF Pending
    <3> QED
      BY Zenon, <1>0, <3>1, StillCovered
  <2>5. OutdatedForAReason'
    BY Zenon, <1>3, <2>2 DEF BudgetInv, OutdatedForAReason
  <2>6. FailsOnlyAfterMaxRestarts' /\ \A p \in Pods : view'[p].previous <= js'.previous
    BY <1>0, <2>2, <2>3 DEF BudgetInv, FailsOnlyAfterMaxRestarts
  <2> QED
    BY <1>2, <2>4, <2>5, <2>6 DEF BudgetInv
<1>5. ASSUME NEW v, allEqual(podsCache, v), js' = updateCurrentInPlaceRestartAttempt(js, v)
      PROVE  BudgetInv'
  <2>1. js'.current = v /\ js'.previous = js.previous /\ js'.failed = js.failed
    BY <1>0, <1>5 DEF updateCurrentInPlaceRestartAttempt, JobSet
  <2>2. \A p \in Pods : podsCache[p].attempt = v /\ v # Nil
    BY Zenon, <1>5 DEF allEqual, getPodInPlaceRestartAttempts
  <2>3. v \in Int /\ js.current <= v
    <3>1. PICK p \in Pods : TRUE
      BY Zenon, PodsAssumption
    <3>2. js.current <= podsCache[p].attempt
      BY Zenon, <2>2 DEF BarrierInv, AttemptInv
    <3> QED
      BY <2>2, <3>2, Bounds
  <2>4. CountsCovered(pods)' /\ AttemptsCovered'
    <3>1. \A p \in Pods : Pending(p)' => Pending(p)
      BY Zenon, <1>0, <1>3, <2>1, <2>2 DEF Pending
    <3> QED
      BY <1>0, <3>1, StillCovered
  <2>5. OutdatedForAReason'
    <3>1. SUFFICES ASSUME js.previous # Nil, js.previous >= v
                   PROVE  \E r \in Pods : StartupAttempt(r) >= v + 1
      BY <1>3, <2>1 DEF OutdatedForAReason
    <3>2. v = js.current
      BY <1>1, <2>3, <3>1
    <3> QED
      BY Zenon, <3>1, <3>2 DEF BudgetInv, OutdatedForAReason
  <2>6. FailsOnlyAfterMaxRestarts' /\ \A p \in Pods : view'[p].previous <= js'.previous
    BY Zenon, <1>0, <2>1 DEF BudgetInv, FailsOnlyAfterMaxRestarts
  <2> QED
    BY <1>2, <2>4, <2>5, <2>6 DEF BudgetInv
<1>6. ASSUME NEW v, IsMax(podsCache, v), js' = updatePreviousInPlaceRestartAttempt(js, v)
      PROVE  BudgetInv'
  <2>1. /\ js'.current = js.current /\ js'.failed = js.failed
        /\ js'.previous = IF js.previous # Nil /\ v - 1 < js.previous THEN js.previous ELSE v - 1
    BY Zenon, <1>0, <1>6 DEF updatePreviousInPlaceRestartAttempt, JobSet
  <2>2. PICK r \in Pods : podsCache[r].attempt = v /\ v # Nil
    BY Zenon, <1>6 DEF IsMax, getPodInPlaceRestartAttempts
  <2>3. v \in Nat /\ v <= StartupAttempt(r)
    BY Zenon, <2>2, Bounds DEF TypeOK, Pod, Attempts, Nil
  <2>4. CountsCovered(pods)' /\ AttemptsCovered'
    <3>1. \A p \in Pods : Pending(p)' => Pending(p)
      BY Zenon, <1>0, <1>3, <2>1 DEF Pending
    <3> QED
      BY Zenon, <1>0, <3>1, StillCovered
  <2>5. OutdatedForAReason'
    <3>1. SUFFICES ASSUME js'.previous # Nil, js'.previous >= js.current
                   PROVE  \E q \in Pods : StartupAttempt(q) >= js.current + 1
      BY Zenon, <1>3, <2>1 DEF OutdatedForAReason
    <3>2. CASE js'.previous = js.previous
      BY <3>1, <3>2 DEF BudgetInv, OutdatedForAReason
    <3>3. CASE js'.previous = v - 1
      <4>1. StartupAttempt(r) >= js.current + 1
        BY <1>1, <1>3, <2>3, <3>1, <3>3
      <4> QED
        BY <4>1
    <3> QED
      BY Zenon, <2>1, <3>2, <3>3
  <2>6. js.previous <= js'.previous /\ js'.previous \in Int
    BY <1>0, <1>1, <2>1, <2>3 DEF JobSet, Attempts, Nil
  <2>7. ASSUME NEW p \in Pods PROVE view'[p].previous <= js'.previous
    <3>1. view[p].previous <= js.previous /\ view[p].previous \in Int
      BY DEF BudgetInv, TypeOK, JobSet, Attempts, Nil
    <3> QED
      BY <1>0, <1>1, <2>6, <3>1
  <2>8. FailsOnlyAfterMaxRestarts'
    BY Zenon, <1>0, <2>1 DEF BudgetInv, FailsOnlyAfterMaxRestarts
  <2> QED
    BY <1>2, <2>4, <2>5, <2>7, <2>8 DEF BudgetInv
<1> QED
  BY <1>0, <1>4, <1>5, <1>6 DEF reconcileInPlaceRestart
-----------------------------------------------------------------------------
\* At the start there are no faults, and nothing is counted.
LEMMA InitBudget == Init => BudgetInv
<1> SUFFICES ASSUME Init PROVE BudgetInv
  BY Zenon
<1>1. /\ js.current = -1 /\ js.previous = -1 /\ ~js.failed /\ faults = 0
      /\ \A p \in Pods :
           /\ agent[p].attempt = -1 /\ view[p].current = -1 /\ view[p].previous = -1
           /\ pods[p].attempt = -1 /\ podsCache[p].attempt = -1
           /\ pods[p].restartCount = 0 /\ podsCache[p].restartCount = 0
           /\ pods[p].failedRestartCount = 0 /\ podsCache[p].failedRestartCount = 0
  BY Zenon DEF Init, NewPod, NewInPlaceRestartAgent, Nil
<1>2. \A p \in Pods : StartupAttempt(p) = 0
  BY Zenon, <1>1 DEF StartupAttempt, Nil
<1>3. \A p \in Pods : Effective(p) = 0
  BY <1>1, <1>2 DEF Effective, Pending
<1>4. AttemptsCovered
  BY <1>1, <1>2, <1>3 DEF AttemptsCovered
<1> QED
  BY <1>1, <1>4 DEF BudgetInv, CountsCovered, OutdatedForAReason, FailsOnlyAfterMaxRestarts, Nil

\* Every step of the controller, of an agent and of the world keeps the faults ahead.
LEMMA NextBudget ==
  TypeOK /\ TypeOK' /\ BarrierInv /\ BarrierInv' /\ BudgetInv /\ [Next]_vars => BudgetInv'
<1> SUFFICES ASSUME TypeOK, TypeOK', BarrierInv, BarrierInv', BudgetInv, [Next]_vars
             PROVE  BudgetInv'
  OBVIOUS
<1>1. CASE reconcileInPlaceRestart
  BY Zenon, <1>1, ReconcileBudget
<1>2. CASE CacheJobSet \/ CachePods
  BY <1>2, SameBudget DEF CacheJobSet, CachePods
<1>3. ASSUME NEW p \in Pods, Bypass(p) \/ executeWorkerCommandSucceeds(p) PROVE BudgetInv'
  <2>1. \A q \in Pods : agent'[q].attempt = agent[q].attempt
    BY <1>3 DEF Bypass, executeWorkerCommandSucceeds, TypeOK
  <2> QED
    BY <1>3, <2>1, SameBudget DEF Bypass, executeWorkerCommandSucceeds, ctlVars
<1>4. ASSUME NEW p \in Pods, AgentReconcile(p) PROVE BudgetInv'
  BY <1>4, TakeBudget, OutdatedBudget
<1>5. ASSUME NEW p \in Pods, PatchResponseLost(p) PROVE BudgetInv'
  BY <1>5, LostBudget
<1>6. ASSUME NEW p \in Pods, AgentWatch(p) PROVE BudgetInv'
  BY <1>6, WatchBudget
<1>7. ASSUME NEW p \in Pods, Exit(p) \/ \E b \in BOOLEAN : PodRecreated(p, b) PROVE BudgetInv'
  BY <1>7, FaultBudget
<1>8. ASSUME NEW p \in Pods, FailedPodGone(p) PROVE BudgetInv'
  BY <1>8, GoneBudget
<1>9. CASE UserDisables
  <2>1. js'.current = js.current /\ js'.previous = js.previous /\ js'.failed = js.failed
    BY Zenon, <1>9 DEF UserDisables, TypeOK, JobSet
  <2> QED
    BY <1>9, <2>1, SameBudget DEF UserDisables, ctlVars
<1>10. CASE UNCHANGED vars
  BY <1>10, SameBudget DEF vars, ctlVars
<1> QED
  BY Zenon, <1>1, <1>2, <1>3, <1>4, <1>5, <1>6, <1>7, <1>8, <1>9, <1>10 DEF Next

\* The JobSet is failed for reaching maxRestarts only after more than maxRestarts
\* faults (reconcileInPlaceRestart): restarts that the controller asks of healthy
\* Pods, lost responses and outdated caches never charge a fault twice.
THEOREM BudgetCorrect == Spec => []FailsOnlyAfterMaxRestarts
<1>1. BudgetInv => FailsOnlyAfterMaxRestarts
  BY DEF BudgetInv
<1> QED
  BY <1>1, InitBudget, NextBudget, TypeCorrect, BarrierCorrect, PTL DEF Spec

=============================================================================
