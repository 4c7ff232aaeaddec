---------------------- MODULE ExclusivePlacementProofs ----------------------
(***************************************************************************)
(* Proofs about ExclusivePlacement, for every set of Jobs with any number  *)
(* of followers, every set of domains and any number of faults: domains    *)
(* are exclusive, followers are pinned to leaders of their own Job, and    *)
(* the names of Pods stay within their bounds.                             *)
(***************************************************************************)
EXTENDS ExclusivePlacement, FiniteSetTheorems, TLAPS

\* A function with one value less.
LEMMA ForgetFacts ==
  ASSUME NEW f, NEW x
  PROVE  /\ DOMAIN Forget(f, x) \subseteq DOMAIN f
         /\ \A y \in DOMAIN Forget(f, x) : Forget(f, x)[y] = f[y]
BY DEF Forget

-----------------------------------------------------------------------------
(* The invariant. *)

\* What every Pod that the API server or the cache holds has.
PodsTyped(P) == \A p \in DOMAIN P : p.job \in Jobs /\ p.uid \in Nat /\ P[p] \in Pod

\* A leader of the current Job is in a domain on record for it.
OnRecord(P) ==
  \A p \in DOMAIN P :
    /\ p.uid <= uid[p.job]
    /\ p.uid = uid[p.job] /\ p.index = 0 /\ P[p].domain # Nil => P[p].domain \in led[p.job]

\* The Pods on the API server are of the current Jobs.
PodsCurrent == \A p \in DOMAIN pods : p.uid = uid[p.job]

\* A follower create that the webhook has seen is pinned to such a domain.
CreatesOnRecord ==
  \A j \in Jobs :
    /\ DOMAIN creating[j] \subseteq Followers[j]
    /\ \A i \in DOMAIN creating[j] :
         creating[j][i] \in [selector : led[j], validated : BOOLEAN]

PlacementInv ==
  /\ uid \in [Jobs -> Nat] /\ led \in [Jobs -> SUBSET Domains]
  /\ DOMAIN creating = Jobs
  /\ PodsTyped(pods) /\ PodsTyped(cache)
  /\ OnRecord(pods) /\ OnRecord(cache) /\ PodsCurrent
  /\ CreatesOnRecord
  /\ PinnedToOwnLeader

USE DEF IsLeaderPod

\* Nothing is there at first.
LEMMA InitPlacement == Init => PlacementInv
BY DEF Init, PlacementInv, PodsTyped, OnRecord, PodsCurrent, CreatesOnRecord, PinnedToOwnLeader, Empty

(***************************************************************************)
(* A step that only ends Pods, or changes their status, keeps what the     *)
(* invariant says of Pods.                                                 *)
(***************************************************************************)
LEMMA EndPods ==
  ASSUME PlacementInv, UNCHANGED <<uid, led>>,
         \A p \in DOMAIN pods' :
           /\ p \in DOMAIN pods /\ pods'[p] \in Pod
           /\ pods'[p].domain = pods[p].domain /\ pods'[p].selector = pods[p].selector
  PROVE  PodsTyped(pods)' /\ OnRecord(pods)' /\ PodsCurrent' /\ PinnedToOwnLeader'
BY DEF PlacementInv, PodsTyped, OnRecord, PodsCurrent, PinnedToOwnLeader

\* Deleted Pods are gone or terminating.
LEMMA DeleteFacts ==
  ASSUME PlacementInv, NEW D
  PROVE  \A p \in DOMAIN Delete(D) :
              /\ p \in DOMAIN pods /\ Delete(D)[p] \in Pod
              /\ Delete(D)[p].domain = pods[p].domain /\ Delete(D)[p].selector = pods[p].selector
              /\ pods[p].status = "failed" => Delete(D)[p].status = "failed"
<1>1. DOMAIN Delete(D) = DOMAIN pods \ {q \in D : pods[q].status = "failed" \/ ~Bound(pods, q)}
  BY DEF Delete
<1>2. \A p \in DOMAIN Delete(D) :
        Delete(D)[p] = IF p \in D THEN [pods[p] EXCEPT !.status = "terminating"] ELSE pods[p]
  BY DEF Delete
<1>3. \A p \in DOMAIN pods : pods[p] \in Pod
  BY DEF PlacementInv, PodsTyped
<1> QED
  BY <1>1, <1>2, <1>3 DEF Pod

\* A new Pod of the current Job keeps it, when a follower's selector is on record.
LEMMA AddPod ==
  ASSUME PlacementInv, UNCHANGED <<uid, led>>,
         NEW j \in Jobs, NEW i \in Nat, NEW s \in Domains \cup {Nil}, i # 0 => s \in led[j],
         pods' = Add(pods, NewName(j, i), NewPod(s))
  PROVE  PodsTyped(pods)' /\ OnRecord(pods)' /\ PodsCurrent' /\ PinnedToOwnLeader'
<1> DEFINE x == NewName(j, i)
           v == NewPod(s)
<1>1. x.job = j /\ x.uid = uid[j] /\ x.index = i
  BY DEF NewName, Name
<1>2. v \in Pod /\ v.domain = Nil /\ v.selector = s
  BY DEF NewPod, Pod
<1>0. pods' = Add(pods, x, v)
  OBVIOUS
<1> HIDE DEF x, v
<1>3. /\ DOMAIN pods' = DOMAIN pods \cup {x} /\ pods'[x] = v
      /\ \A y \in DOMAIN pods : y # x => pods'[y] = pods[y]
  BY <1>0 DEF Add
<1>4. uid[j] \in Nat /\ led' = led /\ uid' = uid
  BY DEF PlacementInv
<1>5. PodsTyped(pods)'
  BY <1>1, <1>2, <1>3, <1>4 DEF PlacementInv, PodsTyped
<1>6. OnRecord(pods)' /\ PodsCurrent'
  BY <1>1, <1>2, <1>3, <1>4 DEF PlacementInv, OnRecord, PodsCurrent
<1>7. PinnedToOwnLeader'
  BY <1>1, <1>2, <1>3, <1>4 DEF PlacementInv, PinnedToOwnLeader
<1> QED
  BY <1>5, <1>6, <1>7

\* The invariant does not speak of the other variables.
LEMMA Frame ==
  ASSUME PlacementInv, UNCHANGED <<uid, led, creating, cache>>,
         PodsTyped(pods)' /\ OnRecord(pods)' /\ PodsCurrent' /\ PinnedToOwnLeader'
  PROVE  PlacementInv'
BY DEF PlacementInv, PodsTyped, OnRecord, CreatesOnRecord

\* A step that changes the creates of one Job.
LEMMA CreatesStep ==
  ASSUME PlacementInv, NEW j \in Jobs,
         \A k \in Jobs : k # j => led'[k] = led[k] /\ creating'[k] = creating[k],
         DOMAIN creating'[j] \subseteq Followers[j],
         \A i \in DOMAIN creating'[j] :
           creating'[j][i] \in [selector : led'[j], validated : BOOLEAN]
  PROVE  CreatesOnRecord'
BY DEF PlacementInv, CreatesOnRecord

\* The same for a step of the webhook, which changes creating.
LEMMA FrameCreating ==
  ASSUME PlacementInv, UNCHANGED <<uid, led, cache>>,
         PodsTyped(pods)' /\ OnRecord(pods)' /\ PodsCurrent' /\ PinnedToOwnLeader',
         DOMAIN creating' = Jobs, CreatesOnRecord'
  PROVE  PlacementInv'
BY DEF PlacementInv, PodsTyped, OnRecord

\* Every step keeps the invariant.
LEMMA NextPlacement ==
  ASSUME PlacementInv, [Next]_vars PROVE PlacementInv'
<1> USE PlacementAssumption
<1>1. ASSUME NEW j \in Jobs, CreateLeader(j) PROVE PlacementInv'
  <2>1. UNCHANGED <<uid, led, creating, cache>>
    BY <1>1 DEF CreateLeader
  <2>2. PodsTyped(pods)' /\ OnRecord(pods)' /\ PodsCurrent' /\ PinnedToOwnLeader'
    BY <1>1, <2>1, AddPod, 0 \in Nat DEF CreateLeader
  <2> QED
    BY <2>1, <2>2, Frame
<1>2. ASSUME NEW j \in Jobs, RecreateJob(j) PROVE PlacementInv'
  <2>1. /\ uid' = [uid EXCEPT ![j] = @ + 1] /\ led' = [led EXCEPT ![j] = {}]
        /\ creating' = [creating EXCEPT ![j] = Empty] /\ cache' = cache
        /\ pods' = [p \in {q \in DOMAIN pods : q.job # j} |-> pods[p]]
    BY <1>2 DEF RecreateJob
  <2>2. /\ uid' \in [Jobs -> Nat] /\ led' \in [Jobs -> SUBSET Domains]
        /\ uid'[j] = uid[j] + 1 /\ \A k \in Jobs : k # j => uid'[k] = uid[k] /\ led'[k] = led[k]
    BY <2>1 DEF PlacementInv
  <2>3. PodsTyped(pods)' /\ PodsTyped(cache)'
    BY Zenon, <2>1 DEF PlacementInv, PodsTyped
  <2>4. OnRecord(pods)' /\ PodsCurrent' /\ PinnedToOwnLeader'
    BY Zenon, <2>1, <2>2 DEF PlacementInv, PodsTyped, OnRecord, PodsCurrent, PinnedToOwnLeader
  <2>5. OnRecord(cache)'
    BY <2>1, <2>2 DEF PlacementInv, PodsTyped, OnRecord
  <2>6. DOMAIN creating' = Jobs /\ CreatesOnRecord'
    <3>1. /\ DOMAIN creating' = Jobs /\ creating'[j] = Empty
          /\ \A k \in Jobs : k # j => creating'[k] = creating[k]
      BY <2>1 DEF PlacementInv
    <3>2. DOMAIN creating'[j] = {}
      BY <3>1 DEF Empty
    <3> QED
      BY ZenonT(30), <2>2, <3>1, <3>2, CreatesStep
  <2> QED
    BY Zenon, <2>2, <2>3, <2>4, <2>5, <2>6 DEF PlacementInv
<1>3. ASSUME NEW j \in Jobs, NEW i \in Followers[j], setNodeSelector(j, i) PROVE PlacementInv'
  <2>1. UNCHANGED <<uid, led, cache, pods>>
    BY <1>3 DEF setNodeSelector
  <2>2. PICK l \in leaderPodForFollower(j) :
          /\ Bound(cache, l)
          /\ creating' = [creating EXCEPT ![j] =
               Add(@, i, [selector |-> cache[l].domain, validated |-> FALSE])]
    BY Zenon, <1>3 DEF setNodeSelector
  <2>3. l \in DOMAIN cache /\ l.job = j /\ l.index = 0 /\ l.uid = uid[j]
    BY DEF leaderPodForFollower, Own, Live
  <2>4. cache[l].domain \in led[j]
    BY Zenon, <2>2, <2>3 DEF PlacementInv, OnRecord, Bound
  <2> DEFINE v == [selector |-> cache[l].domain, validated |-> FALSE]
  <2>5. v \in [selector : led[j], validated : BOOLEAN]
    BY <2>4
  <2> HIDE DEF v
  <2>6. creating' = [creating EXCEPT ![j] = Add(creating[j], i, v)]
    BY <2>2 DEF v
  <2>7. DOMAIN creating' = Jobs /\ CreatesOnRecord'
    <3>1. /\ DOMAIN creating[j] \subseteq Followers[j]
          /\ \A k \in DOMAIN creating[j] : creating[j][k] \in [selector : led[j], validated : BOOLEAN]
      BY DEF PlacementInv, CreatesOnRecord
    <3>2. /\ DOMAIN creating' = Jobs /\ creating'[j] = Add(creating[j], i, v)
          /\ \A k \in Jobs : k # j => creating'[k] = creating[k] /\ led'[k] = led[k]
      BY <2>1, <2>6 DEF PlacementInv
    <3>3. /\ DOMAIN creating'[j] = DOMAIN creating[j] \cup {i} /\ creating'[j][i] = v
          /\ \A k \in DOMAIN creating[j] : k # i => creating'[j][k] = creating[j][k]
      BY <3>2 DEF Add
    <3>4. \A k \in DOMAIN creating'[j] : creating'[j][k] \in [selector : led'[j], validated : BOOLEAN]
      BY Zenon, <2>1, <2>5, <3>1, <3>3
    <3> QED
      BY <3>1, <3>2, <3>3, <3>4, CreatesStep
  <2>8. PodsTyped(pods)' /\ OnRecord(pods)' /\ PodsCurrent' /\ PinnedToOwnLeader'
    BY <2>1 DEF PlacementInv, PodsTyped, OnRecord, PodsCurrent, PinnedToOwnLeader
  <2> QED
    BY Zenon, <2>1, <2>7, <2>8, FrameCreating
<1>4. ASSUME NEW j \in Jobs, NEW i \in Followers[j], ValidateCreate(j, i) PROVE PlacementInv'
  <2>1. UNCHANGED <<uid, led, cache, pods>> /\ i \in DOMAIN creating[j]
    BY <1>4 DEF ValidateCreate
  <2>2. \/ creating' = [creating EXCEPT ![j] = [creating[j] EXCEPT ![i].validated = TRUE]]
        \/ creating' = [creating EXCEPT ![j] = Forget(creating[j], i)]
    BY Zenon, <1>4 DEF ValidateCreate
  <2>3. DOMAIN creating' = Jobs /\ CreatesOnRecord'
    <3>1. /\ DOMAIN creating[j] \subseteq Followers[j]
          /\ \A k \in DOMAIN creating[j] : creating[j][k] \in [selector : led[j], validated : BOOLEAN]
      BY DEF PlacementInv, CreatesOnRecord
    <3>2. /\ DOMAIN creating' = Jobs
          /\ \A k \in Jobs : k # j => creating'[k] = creating[k] /\ led'[k] = led[k]
          /\ \/ creating'[j] = [creating[j] EXCEPT ![i].validated = TRUE]
             \/ creating'[j] = Forget(creating[j], i)
      BY Zenon, <2>1, <2>2 DEF PlacementInv
    <3>3. CASE creating'[j] = Forget(creating[j], i)
      <4>1. /\ DOMAIN creating'[j] \subseteq DOMAIN creating[j]
            /\ \A k \in DOMAIN creating'[j] : creating'[j][k] = creating[j][k]
        BY <3>3 DEF Forget
      <4> QED
        BY <2>1, <3>1, <3>2, <4>1, CreatesStep
    <3>4. CASE creating'[j] = [creating[j] EXCEPT ![i].validated = TRUE]
      <4>1. /\ DOMAIN creating'[j] = DOMAIN creating[j]
            /\ creating'[j][i] = [creating[j][i] EXCEPT !.validated = TRUE]
            /\ \A k \in DOMAIN creating[j] : k # i => creating'[j][k] = creating[j][k]
        BY <2>1, <3>4
      <4>2. creating'[j][i] \in [selector : led[j], validated : BOOLEAN]
        BY Zenon, <2>1, <3>1, <4>1
      <4>3. \A k \in DOMAIN creating'[j] : creating'[j][k] \in [selector : led'[j], validated : BOOLEAN]
        BY Zenon, <2>1, <3>1, <4>1, <4>2
      <4> QED
        BY <3>1, <3>2, <4>1, <4>3, CreatesStep
    <3> QED
      BY <3>2, <3>3, <3>4
  <2>4. PodsTyped(pods)' /\ OnRecord(pods)' /\ PodsCurrent' /\ PinnedToOwnLeader'
    BY <2>1 DEF PlacementInv, PodsTyped, OnRecord, PodsCurrent, PinnedToOwnLeader
  <2> QED
    BY <2>1, <2>3, <2>4, FrameCreating
<1>5. ASSUME NEW j \in Jobs, NEW i \in Followers[j], PersistFollower(j, i) PROVE PlacementInv'
  <2>1. /\ UNCHANGED <<uid, led, cache>> /\ i \in DOMAIN creating[j]
        /\ pods' = Add(pods, NewName(j, i), NewPod(creating[j][i].selector))
        /\ creating' = [creating EXCEPT ![j] = Forget(creating[j], i)]
    BY <1>5 DEF PersistFollower
  <2>2. creating[j][i].selector \in led[j] /\ led[j] \subseteq Domains
    BY <2>1 DEF PlacementInv, CreatesOnRecord
  <2>3. i \in Nat
    BY Zenon
  <2>4. PodsTyped(pods)' /\ OnRecord(pods)' /\ PodsCurrent' /\ PinnedToOwnLeader'
    BY ZenonT(30), <2>1, <2>2, <2>3, AddPod
  <2>5. DOMAIN creating' = Jobs /\ CreatesOnRecord'
    BY <2>1, ForgetFacts DEF PlacementInv, CreatesOnRecord
  <2> QED
    BY Zenon, <2>1, <2>4, <2>5, FrameCreating
<1>6. ASSUME NEW p \in DOMAIN pods, Evict(p) \/ Fail(p) \/ PodGone(p) PROVE PlacementInv'
  <2>1. UNCHANGED <<uid, led, creating, cache>>
    BY <1>6 DEF Evict, Fail, PodGone
  <2>2. CASE Evict(p)
    <3>1. pods' = Delete({p})
      BY <2>2 DEF Evict
    <3> QED
      BY <2>1, <3>1, DeleteFacts, EndPods, Frame
  <2>3. CASE Fail(p)
    <3>1. pods' = [pods EXCEPT ![p] = [pods[p] EXCEPT !.status = "failed"]]
      BY <2>3 DEF Fail
    <3>2. \A q \in DOMAIN pods : pods[q] \in Pod
      BY DEF PlacementInv, PodsTyped
    <3>4. DOMAIN pods' = DOMAIN pods
      BY <3>1
    <3>5. /\ pods'[p] = [pods[p] EXCEPT !.status = "failed"]
          /\ \A q \in DOMAIN pods : q # p => pods'[q] = pods[q]
      BY <3>1
    <3>6. /\ pods'[p] \in Pod /\ pods'[p].domain = pods[p].domain
          /\ pods'[p].selector = pods[p].selector
      BY <3>2, <3>5 DEF Pod
    <3>3. \A q \in DOMAIN pods' :
               /\ q \in DOMAIN pods /\ pods'[q] \in Pod
               /\ pods'[q].domain = pods[q].domain /\ pods'[q].selector = pods[q].selector
      BY Zenon, <3>2, <3>4, <3>5, <3>6
    <3> QED
      BY <2>1, <3>3, EndPods, Frame
  <2>4. CASE PodGone(p)
    <3>1. pods' = Forget(pods, p)
      BY <2>4 DEF PodGone
    <3>2. \A q \in DOMAIN pods : pods[q] \in Pod
      BY DEF PlacementInv, PodsTyped
    <3> QED
      BY <2>1, <3>1, <3>2, ForgetFacts, EndPods, Frame
  <2> QED
    BY <1>6, <2>2, <2>3, <2>4
<1>7. ASSUME NEW p \in DOMAIN pods, NEW d \in Domains, Schedule(p, d) PROVE PlacementInv'
  <2>1. /\ UNCHANGED <<uid, creating, cache>>
        /\ pods' = [pods EXCEPT ![p] = [pods[p] EXCEPT !.domain = d]]
        /\ led' = IF p.index = 0 THEN [led EXCEPT ![p.job] = led[p.job] \cup {d}] ELSE led
    BY <1>7 DEF Schedule
  <2>2. p.job \in Jobs /\ pods[p] \in Pod
    BY DEF PlacementInv, PodsTyped
  <2>3. /\ led' \in [Jobs -> SUBSET Domains] /\ \A j \in Jobs : led[j] \subseteq led'[j]
        /\ p.index = 0 => d \in led'[p.job]
    BY <2>1, <2>2 DEF PlacementInv
  <2>4. /\ DOMAIN pods' = DOMAIN pods
        /\ pods'[p] \in Pod /\ pods'[p].domain = d /\ pods'[p].selector = pods[p].selector
        /\ \A q \in DOMAIN pods : q # p => pods'[q] = pods[q]
    <3>2. /\ DOMAIN pods' = DOMAIN pods
          /\ pods'[p] = [pods[p] EXCEPT !.domain = d]
          /\ \A q \in DOMAIN pods : q # p => pods'[q] = pods[q]
      BY <2>1
    <3> QED
      BY <2>2, <3>2 DEF Pod
  <2>5. PodsTyped(pods)' /\ PodsCurrent'
    BY Zenon, <2>1, <2>4 DEF PlacementInv, PodsTyped, PodsCurrent
  <2>6. OnRecord(pods)'
    BY <2>1, <2>3, <2>4 DEF PlacementInv, PodsTyped, OnRecord
  <2>7. PinnedToOwnLeader'
    BY Zenon, <2>1, <2>3, <2>4 DEF PlacementInv, PodsTyped, PinnedToOwnLeader
  <2>8. PodsTyped(cache)' /\ OnRecord(cache)'
    BY <2>1, <2>3 DEF PlacementInv, PodsTyped, OnRecord
  <2>9. CreatesOnRecord'
    BY ZenonT(30), <2>1, <2>3 DEF PlacementInv, CreatesOnRecord
  <2> QED
    BY Zenon, <2>1, <2>3, <2>5, <2>6, <2>7, <2>8, <2>9 DEF PlacementInv
<1>8. CASE SyncPods
  <2>1. UNCHANGED <<uid, led, creating, pods>> /\ cache' = pods
    BY <1>8 DEF SyncPods
  <2> QED
    BY <2>1 DEF PlacementInv, PodsTyped, OnRecord, PodsCurrent, CreatesOnRecord, PinnedToOwnLeader
<1>9. ASSUME NEW l \in queue, Reconcile(l) PROVE PlacementInv'
  <2>1. UNCHANGED <<uid, led, creating, cache>>
    BY <1>9 DEF Reconcile
  <2>2. UNCHANGED pods \/ \E D : pods' = Delete(D)
    BY <1>9 DEF Reconcile, deleteFollowerPods
  <2>3. \A q \in DOMAIN pods : pods[q] \in Pod
    BY Zenon DEF PlacementInv, PodsTyped
  <2>4. CASE UNCHANGED pods
    BY Zenon, <2>1, <2>4 DEF PlacementInv, PodsTyped, OnRecord, PodsCurrent, CreatesOnRecord, PinnedToOwnLeader
  <2>5. CASE \E D : pods' = Delete(D)
    BY <2>1, <2>5, DeleteFacts, EndPods, Frame
  <2> QED
    BY <2>2, <2>4, <2>5
<1>10. CASE UNCHANGED <<uid, led, creating, cache, pods>>
  BY <1>10 DEF PlacementInv, PodsTyped, OnRecord, PodsCurrent, CreatesOnRecord, PinnedToOwnLeader
<1>11. (Resync \/ (\E d \in Domains : LoseNodes(d) \/ AddNodes(d)) \/ UNCHANGED vars)
         => UNCHANGED <<uid, led, creating, cache, pods>>
  BY DEF Resync, LoseNodes, AddNodes, vars
<1> QED
  BY Zenon, <1>1, <1>2, <1>3, <1>4, <1>5, <1>6, <1>7, <1>8, <1>9, <1>10, <1>11 DEF Next

(***************************************************************************)
(* A follower is only ever pinned to a domain in which a leader of its own *)
(* Job has been (setNodeSelector), however old the webhook's cache is and  *)
(* whenever the Job is created again.                                      *)
(***************************************************************************)
THEOREM PinnedCorrect == Spec => []PinnedToOwnLeader
<1>1. PlacementInv => PinnedToOwnLeader
  BY DEF PlacementInv
<1> QED
  BY InitPlacement, NextPlacement, <1>1, PTL DEF Spec

-----------------------------------------------------------------------------
(* Exclusive domains. *)

\* Pods that are ended, fail or are created leave a domain or are in none.
LEMMA FewerExclusive ==
  ASSUME LeaderDomainIsExclusive, \A d \in Domains : Counted(d)' \subseteq Counted(d)
  PROVE  LeaderDomainIsExclusive'
BY DEF LeaderDomainIsExclusive

\* Every step keeps domains exclusive.
LEMMA NextExclusive ==
  ASSUME PlacementInv, PlacementInv', LeaderDomainIsExclusive, [Next]_vars
  PROVE  LeaderDomainIsExclusive'
<1> USE PlacementAssumption
<1> DEFINE Fewer == \A d \in Domains : Counted(d)' \subseteq Counted(d)
<1>0. \A q \in DOMAIN pods : pods[q] \in Pod
  BY DEF PlacementInv, PodsTyped
<1>1. ASSUME NEW x, NEW s, pods' = Add(pods, x, NewPod(s)) PROVE Fewer
  <2> DEFINE v == NewPod(s)
  <2>1. v.domain = Nil
    BY DEF NewPod
  <2>2. pods' = Add(pods, x, v)
    BY <1>1
  <2> HIDE DEF v
  <2>3. /\ DOMAIN pods' = DOMAIN pods \cup {x} /\ pods'[x] = v
        /\ \A y \in DOMAIN pods : y # x => pods'[y] = pods[y]
    BY <2>2 DEF Add
  <2> QED
    BY <2>1, <2>3 DEF Counted, Bound
<1>2. ASSUME NEW D, pods' = Delete(D) PROVE Fewer
  BY <1>2, DeleteFacts DEF Counted, Bound
<1>3. ASSUME NEW p \in DOMAIN pods, Fail(p) PROVE Fewer
  <2>1. pods' = [pods EXCEPT ![p] = [pods[p] EXCEPT !.status = "failed"]]
    BY <1>3 DEF Fail
  <2>2. /\ DOMAIN pods' = DOMAIN pods /\ pods'[p].status = "failed"
        /\ \A q \in DOMAIN pods : q # p => pods'[q] = pods[q]
    BY <2>1, <1>0 DEF PlacementInv, PodsTyped, Pod
  <2> QED
    BY <2>2 DEF Counted, Bound
<1>4. ASSUME NEW p \in DOMAIN pods, PodGone(p) PROVE Fewer
  BY <1>4, ForgetFacts DEF PodGone, Counted, Bound
<1>5. ASSUME NEW j \in Jobs, RecreateJob(j) PROVE Fewer
  BY <1>5 DEF RecreateJob, Counted, Bound
<1>6. CASE UNCHANGED pods
  BY <1>6 DEF LeaderDomainIsExclusive, Counted, Bound
<1>7. ASSUME NEW p \in DOMAIN pods, NEW d \in Domains, Schedule(p, d)
      PROVE  LeaderDomainIsExclusive'
  <2>1. pods' = [pods EXCEPT ![p] = [pods[p] EXCEPT !.domain = d]]
    BY <1>7 DEF Schedule
  <2>2. /\ DOMAIN pods' = DOMAIN pods /\ pods'[p].domain = d /\ pods'[p].status = pods[p].status
        /\ \A q \in DOMAIN pods : q # p => pods'[q] = pods[q]
    BY <2>1, <1>0 DEF PlacementInv, PodsTyped, Pod
  <2>3. ASSUME NEW e \in Domains, NEW q \in Counted(e)' PROVE q \in Counted(e) \/ (q = p /\ e = d)
    BY <2>2, <2>3 DEF Counted, Bound
  <2>4. p.index = 0 => \A q \in Counted(d) : q.job # p.job => Priority[q.job] # Priority[p.job]
    BY <1>7 DEF Schedule, setExclusiveAffinities
  <2>5. p.index # 0 => ~KeptOut(p, d)
    BY <1>7 DEF Schedule
  <2>6. \A q \in Counted(d) : q.index = 0 /\ q.job # p.job => Priority[q.job] # Priority[p.job]
    BY <2>4, <2>5 DEF KeptOut
  <2>7. SUFFICES ASSUME NEW e \in Domains, NEW q \in Counted(e)', NEW r \in Counted(e)',
                        q.index = 0, q.job # r.job
                 PROVE  Priority[q.job] # Priority[r.job]
    BY DEF LeaderDomainIsExclusive
  <2>8. CASE q \in Counted(e) /\ r \in Counted(e)
    BY <2>7, <2>8 DEF LeaderDomainIsExclusive
  <2>9. CASE q = p /\ e = d /\ r \in Counted(e)
    BY <2>7, <2>9, <2>4
  <2>10. CASE q \in Counted(e) /\ r = p /\ e = d
    BY <2>7, <2>10, <2>6
  <2> QED
    BY Zenon, <2>3, <2>7, <2>8, <2>9, <2>10
<1> HIDE DEF Fewer
<1>8. Fewer => LeaderDomainIsExclusive'
  BY FewerExclusive DEF Fewer
<1>9. ASSUME NEW j \in Jobs, CreateLeader(j) PROVE Fewer
  BY Zenon, <1>9, <1>1 DEF CreateLeader
<1>10. ASSUME NEW j \in Jobs, NEW i \in Followers[j], PersistFollower(j, i) PROVE Fewer
  BY <1>10, <1>1 DEF PersistFollower
<1>11. ASSUME NEW p \in DOMAIN pods, Evict(p) PROVE Fewer
  BY <1>11, <1>2 DEF Evict
<1>12. ASSUME NEW l \in queue, Reconcile(l) PROVE Fewer \/ UNCHANGED pods
  BY <1>12, <1>2 DEF Reconcile, deleteFollowerPods
<1>13. ASSUME NEW j \in Jobs, NEW i \in Followers[j], setNodeSelector(j, i) \/ ValidateCreate(j, i)
       PROVE  UNCHANGED pods
  BY Zenon, <1>13 DEF setNodeSelector, ValidateCreate
<1>14. (SyncPods \/ Resync \/ (\E d \in Domains : LoseNodes(d) \/ AddNodes(d)) \/ UNCHANGED vars)
         => UNCHANGED pods
  BY DEF SyncPods, Resync, LoseNodes, AddNodes, vars
<1> QED
  BY Zenon, <1>3, <1>4, <1>5, <1>6, <1>7, <1>8, <1>9, <1>10, <1>11, <1>12, <1>13, <1>14 DEF Next

(***************************************************************************)
(* The affinities of leaders keep domains exclusive although followers     *)
(* have none (setExclusiveAffinities), in whatever order the Pods of any   *)
(* number of Jobs are created, bound, evicted and deleted.                 *)
(***************************************************************************)
THEOREM ExclusiveCorrect == Spec => []LeaderDomainIsExclusive
<1>1. Init => LeaderDomainIsExclusive
  BY DEF Init, LeaderDomainIsExclusive, Counted, Empty
<1> QED
  BY InitPlacement, NextPlacement, NextExclusive, <1>1, PTL DEF Spec

-----------------------------------------------------------------------------
(***************************************************************************)
(* The names.  A new Pod gets a suffix that no Pod of its index has, in    *)
(* the cache and in the work queue included.  The queue may keep the names *)
(* of leaders that are gone; but a leader is only replaced after a fault.  *)
(***************************************************************************)
Of(S, j, i) == {p \in S : p.job = j /\ p.index = i}

LeaderNames(j) == {p \in DOMAIN pods \cup DOMAIN cache \cup queue :
                     p.job = j /\ p.uid = uid[j] /\ p.index = 0}

HasLeader(j) == Own(j, Live(pods, j, 0)) # {}

Finite == IsFiniteSet(DOMAIN pods) /\ IsFiniteSet(DOMAIN cache) /\ IsFiniteSet(queue)

\* There is room for the Pods of every index, those being created included.
FewPods(P) ==
  \A j \in Jobs : \A i \in Followers[j] \cup {0} : Cardinality(Of(DOMAIN P, j, i)) <= MaxPods
RoomForCreates == \A j \in Jobs : \A i \in DOMAIN creating[j] : Room(j, i)

QueueTyped == \A p \in queue : p.index = 0 /\ p.job \in Jobs /\ p.uid \in Nat /\ p.uid <= uid[p.job]
FewLeaders ==
  \A j \in Jobs : Cardinality(LeaderNames(j)) <= IF HasLeader(j) THEN faults + 1 ELSE faults
Suffixed(P) == \A p \in DOMAIN P : p.n \in Suffixes

NamesInv ==
  /\ faults \in 0..MaxFaults /\ nodes \subseteq Domains
  /\ Finite /\ FewPods(pods) /\ FewPods(cache) /\ RoomForCreates
  /\ QueueTyped /\ FewLeaders
  /\ Suffixed(pods) /\ Suffixed(cache)

\* Subsets of a finite set.
LEMMA SmallerSet ==
  ASSUME NEW S, IsFiniteSet(S), NEW T, T \subseteq S
  PROVE  /\ IsFiniteSet(T) /\ Cardinality(T) \in Nat /\ Cardinality(S) \in Nat
         /\ Cardinality(T) <= Cardinality(S)
BY FS_Subset, FS_CardinalityType

\* There are finitely many names of leaders.
LEMMA LeaderNamesFinite ==
  ASSUME Finite, NEW j
  PROVE  IsFiniteSet(LeaderNames(j))
<1>1. IsFiniteSet(DOMAIN pods \cup DOMAIN cache \cup queue)
  BY Zenon, FS_Union DEF Finite
<1>2. LeaderNames(j) \subseteq DOMAIN pods \cup DOMAIN cache \cup queue
  BY DEF LeaderNames
<1> QED
  BY Zenon, <1>1, <1>2, SmallerSet

\* A suffix that is not in use is found among one more than there are.
LEMMA FreshSuffix ==
  ASSUME NEW S, IsFiniteSet(S), NEW used, used = {p.n : p \in S}
  PROVE  (CHOOSE n \in 0..Cardinality(used) : n \notin used) \in 0..Cardinality(S)
<1> DEFINE f == [p \in S |-> p.n]
<1>1. f \in Surjection(S, used)
  BY DEF Surjection
<1> HIDE DEF f
<1>2. IsFiniteSet(used) /\ Cardinality(used) <= Cardinality(S)
  BY <1>1, FS_Surjection
<1>3. Cardinality(used) \in Nat /\ Cardinality(S) \in Nat
  BY <1>2, FS_CardinalityType
<1>4. \E n \in 0..Cardinality(used) : n \notin used
  <2> SUFFICES ASSUME 0..Cardinality(used) \subseteq used PROVE FALSE
    OBVIOUS
  <2>1. Cardinality(0..Cardinality(used)) = Cardinality(used) + 1
    BY <1>3, FS_Interval
  <2>2. Cardinality(0..Cardinality(used)) <= Cardinality(used)
    BY Zenon, <1>2, SmallerSet
  <2> QED
    BY <1>3, <2>1, <2>2
<1>5. (CHOOSE n \in 0..Cardinality(used) : n \notin used) \in 0..Cardinality(used)
  BY Zenon, <1>4
<1> QED
  BY <1>2, <1>3, <1>5

\* At first there are no names.
LEMMA InitNames == Init => NamesInv
<1> SUFFICES ASSUME Init PROVE NamesInv
  OBVIOUS
<1>1. DOMAIN pods = {} /\ DOMAIN cache = {} /\ queue = {} /\ faults = 0 /\ nodes = Domains
  BY DEF Init, Empty
<1>2. \A j \in Jobs : DOMAIN creating[j] = {}
  BY DEF Init, Empty
<1>3. IsFiniteSet({}) /\ Cardinality({}) = 0
  BY FS_EmptySet
<1>4. ASSUME NEW j, NEW i
      PROVE  Cardinality(Of(DOMAIN pods, j, i)) = 0 /\ Cardinality(Of(DOMAIN cache, j, i)) = 0
  <2>1. Of(DOMAIN pods, j, i) = {} /\ Of(DOMAIN cache, j, i) = {}
    BY <1>1 DEF Of
  <2> QED
    BY <1>3, <2>1
<1>5. ASSUME NEW j \in Jobs PROVE LeaderNames(j) = {} /\ ~HasLeader(j)
  <2>1. LeaderNames(j) = {}
    BY <1>1 DEF LeaderNames
  <2>2. Live(pods, j, 0) = {}
    BY <1>1 DEF Live
  <2> QED
    BY <2>1, <2>2 DEF HasLeader, Own
<1>6. FewPods(pods) /\ FewPods(cache)
  <2>1. MaxPods \in Nat
    BY PlacementAssumption
  <2> QED
    BY <1>4, <2>1 DEF FewPods
<1>7. FewLeaders
  BY <1>1, <1>3, <1>5 DEF FewLeaders
<1> QED
  BY <1>1, <1>2, <1>3, <1>6, <1>7, PlacementAssumption
     DEF NamesInv, Finite, RoomForCreates, QueueTyped, Suffixed

\* The types follow.
LEMMA NamesType == PlacementInv /\ NamesInv => TypeOK
<1> SUFFICES ASSUME PlacementInv, NamesInv PROVE TypeOK
  OBVIOUS
<1>1. \A P \in {pods, cache} : \A p \in DOMAIN P : p.job \in Jobs /\ p.n \in Suffixes /\ P[p] \in Pod
  BY DEF PlacementInv, NamesInv, PodsTyped, Suffixed
<1>2. \A j \in Jobs : DOMAIN creating[j] \subseteq Followers[j]
  BY DEF PlacementInv, CreatesOnRecord
<1> QED
  BY <1>1, <1>2 DEF PlacementInv, NamesInv, QueueTyped, TypeOK

\* A step that creates no Pod and keeps the Jobs.
LEMMA KeepNames ==
  ASSUME PlacementInv, NamesInv, uid' = uid,
         DOMAIN pods' \subseteq DOMAIN pods, cache' = cache \/ cache' = pods,
         \A p \in queue' : p \in queue \/ (p \in DOMAIN pods \cup DOMAIN cache /\ p.index = 0),
         faults' \in 0..MaxFaults, faults <= faults', nodes' \subseteq Domains,
         \A j \in Jobs : \A i \in DOMAIN creating'[j] :
           i \in Followers[j] /\ (i \in DOMAIN creating[j] \/ Room(j, i)),
         \A j \in Jobs : HasLeader(j) => HasLeader(j)' \/ faults' = faults + 1
  PROVE  NamesInv'
<1>1. DOMAIN cache' = DOMAIN cache \/ DOMAIN cache' = DOMAIN pods
  BY Zenon
<1>2. Finite /\ FewPods(pods) /\ FewPods(cache) /\ RoomForCreates /\ QueueTyped /\ FewLeaders
      /\ Suffixed(pods) /\ Suffixed(cache) /\ MaxPods \in Nat /\ faults \in Nat /\ faults' \in Nat
  BY PlacementAssumption DEF NamesInv
<1>3. Finite'
  <2>1. IsFiniteSet(DOMAIN pods') /\ IsFiniteSet(DOMAIN cache')
    BY <1>1, <1>2, SmallerSet DEF Finite
  <2>2. IsFiniteSet(queue \cup (DOMAIN pods \cup DOMAIN cache))
    BY Zenon, <1>2, FS_Union DEF Finite
  <2>3. queue' \subseteq queue \cup (DOMAIN pods \cup DOMAIN cache)
    BY Zenon
  <2> QED
    BY Zenon, <2>1, <2>2, <2>3, SmallerSet DEF Finite
<1>4. ASSUME NEW S, IsFiniteSet(S), NEW T, T \subseteq S, NEW j, NEW i
      PROVE  /\ Cardinality(Of(T, j, i)) <= Cardinality(Of(S, j, i))
             /\ Cardinality(Of(T, j, i)) \in Nat /\ Cardinality(Of(S, j, i)) \in Nat
  <2>1. Of(T, j, i) \subseteq Of(S, j, i) /\ Of(S, j, i) \subseteq S
    BY Zenon, <1>4 DEF Of
  <2>2. IsFiniteSet(Of(S, j, i))
    BY Zenon, <1>4, <2>1, SmallerSet
  <2> QED
    BY Zenon, <2>1, <2>2, SmallerSet
<1>5. ASSUME NEW j \in Jobs, NEW i \in Followers[j] \cup {0}
      PROVE  /\ Cardinality(Of(DOMAIN pods, j, i)) <= MaxPods
             /\ Cardinality(Of(DOMAIN cache, j, i)) <= MaxPods
             /\ Cardinality(Of(DOMAIN pods', j, i)) <= Cardinality(Of(DOMAIN pods, j, i))
             /\ Cardinality(Of(DOMAIN pods', j, i)) \in Nat /\ Cardinality(Of(DOMAIN pods, j, i)) \in Nat
  BY Zenon, <1>2, <1>4 DEF FewPods, Finite
<1>6. ASSUME NEW j \in Jobs, NEW i \in Followers[j] \cup {0}
      PROVE  Cardinality(Of(DOMAIN pods', j, i)) <= MaxPods
  BY <1>2, <1>5
<1>7. FewPods(pods)' /\ FewPods(cache)'
  BY Zenon, <1>1, <1>5, <1>6 DEF FewPods
<1>8. RoomForCreates'
  <2> SUFFICES ASSUME NEW j \in Jobs, NEW i \in DOMAIN creating'[j] PROVE Room(j, i)'
    BY Zenon DEF RoomForCreates
  <2>1. Room(j, i) /\ i \in Followers[j]
    BY Zenon, <1>2 DEF RoomForCreates
  <2>2. Cardinality(Of(DOMAIN pods, j, i)) < MaxPods
    BY Zenon, <2>1 DEF Room, Of
  <2>3. Cardinality(Of(DOMAIN pods', j, i)) < MaxPods
    BY <1>2, <1>5, <2>1, <2>2
  <2> QED
    BY Zenon, <2>3 DEF Room, Of
<1>9. QueueTyped'
  BY Zenon, <1>2 DEF QueueTyped, PlacementInv, PodsTyped, OnRecord
<1>10. FewLeaders'
  <2> SUFFICES ASSUME NEW j \in Jobs
               PROVE  Cardinality(LeaderNames(j)') <= IF HasLeader(j)' THEN faults' + 1 ELSE faults'
    BY Zenon DEF FewLeaders
  <2>1. LeaderNames(j)' \subseteq LeaderNames(j)
    BY <1>1 DEF LeaderNames
  <2>2. IsFiniteSet(LeaderNames(j))
    BY Zenon, <1>2, LeaderNamesFinite
  <2>3. /\ Cardinality(LeaderNames(j)') \in Nat /\ Cardinality(LeaderNames(j)) \in Nat
        /\ Cardinality(LeaderNames(j)') <= Cardinality(LeaderNames(j))
    BY Zenon, <2>1, <2>2, SmallerSet
  <2>4. Cardinality(LeaderNames(j)) <= IF HasLeader(j) THEN faults + 1 ELSE faults
    BY Zenon, <1>2 DEF FewLeaders
  <2> QED
    BY <1>2, <2>3, <2>4
<1>11. Suffixed(pods)' /\ Suffixed(cache)'
  BY ZenonT(30), <1>1, <1>2 DEF Suffixed, Suffixes
<1> QED
  BY Zenon, <1>3, <1>7, <1>8, <1>9, <1>10, <1>11 DEF NamesInv

\* The suffix of a new name is one of those there are.
LEMMA NewSuffix ==
  ASSUME NamesInv, NEW j \in Jobs, NEW i \in Followers[j] \cup {0}, i = 0 => ~HasLeader(j)
  PROVE  NewName(j, i).n \in Suffixes
<1> DEFINE S == {q \in DOMAIN pods \cup DOMAIN cache \cup queue :
                   q.job = j /\ q.uid = uid[j] /\ q.index = i}
           used == {p.n : p \in S}
           m == CHOOSE n \in 0..Cardinality(used) : n \notin used
<1>1. NewName(j, i).n = m
  BY Zenon DEF NewName, Name
<1>2. /\ Finite /\ FewPods(pods) /\ FewPods(cache) /\ QueueTyped /\ FewLeaders
      /\ MaxPods \in Nat /\ MaxFaults \in Nat /\ faults \in Nat /\ faults <= MaxFaults
  BY PlacementAssumption DEF NamesInv
<1>3. IsFiniteSet(S)
  <2>1. IsFiniteSet(DOMAIN pods \cup DOMAIN cache \cup queue)
    BY Zenon, <1>2, FS_Union DEF Finite
  <2>2. S \subseteq DOMAIN pods \cup DOMAIN cache \cup queue
    OBVIOUS
  <2> HIDE DEF S
  <2> QED
    BY <2>1, <2>2, SmallerSet
<1>4. Cardinality(S) <= 2 * MaxPods + MaxFaults
  <2>1. CASE i = 0
    <3>1. S = LeaderNames(j)
      BY <2>1 DEF LeaderNames
    <3>2. Cardinality(LeaderNames(j)) <= faults
      BY <1>2, <2>1 DEF FewLeaders
    <3>3. Cardinality(S) \in Nat /\ Cardinality(S) <= faults
      BY Zenon, <1>3, <3>1, <3>2, FS_CardinalityType
    <3> HIDE DEF S
    <3> QED
      BY <1>2, <3>3
  <2>2. CASE i # 0
    <3> DEFINE A == Of(DOMAIN pods, j, i)
               B == Of(DOMAIN cache, j, i)
    <3>1. S \subseteq A \cup B
      BY Zenon, <1>2, <2>2 DEF Of, QueueTyped
    <3>2. A \subseteq DOMAIN pods /\ B \subseteq DOMAIN cache
      BY DEF Of
    <3>3. Cardinality(A) <= MaxPods /\ Cardinality(B) <= MaxPods
      BY Zenon, <1>2 DEF FewPods
    <3> HIDE DEF S, A, B
    <3>4. IsFiniteSet(A) /\ IsFiniteSet(B)
      BY Zenon, <1>2, <3>2, SmallerSet DEF Finite
    <3>5. /\ IsFiniteSet(A \cup B)
          /\ Cardinality(A \cup B) = Cardinality(A) + Cardinality(B) - Cardinality(A \cap B)
      BY <3>4, FS_Union
    <3>6. Cardinality(A) \in Nat /\ Cardinality(B) \in Nat /\ Cardinality(A \cap B) \in Nat
      BY Zenon, <3>4, SmallerSet
    <3>7. Cardinality(S) \in Nat /\ Cardinality(S) <= Cardinality(A \cup B)
      BY Zenon, <3>1, <3>5, SmallerSet
    <3> QED
      BY <1>2, <3>3, <3>5, <3>6, <3>7
  <2> QED
    BY <2>1, <2>2
<1>5. Cardinality(S) \in Nat
  BY <1>3, FS_CardinalityType
<1>6. m \in 0..Cardinality(S)
  <2> HIDE DEF S
  <2> QED
    BY ZenonT(30), <1>3, FreshSuffix
<1> HIDE DEF S, m
<1> QED
  BY <1>1, <1>2, <1>4, <1>5, <1>6 DEF Suffixes

\* A new Pod where there is room for it; a leader only where there is none.
LEMMA AddName ==
  ASSUME PlacementInv, NamesInv, UNCHANGED <<uid, cache, queue, faults, nodes>>,
         NEW j \in Jobs, NEW i \in Followers[j] \cup {0}, Room(j, i), i = 0 => ~HasLeader(j),
         NEW v, v.status = "live", pods' = Add(pods, NewName(j, i), v),
         \A k \in Jobs : DOMAIN creating'[k] \subseteq DOMAIN creating[k],
         i \notin DOMAIN creating'[j]
  PROVE  NamesInv'
<1> DEFINE x == NewName(j, i)
<1>1. x.job = j /\ x.uid = uid[j] /\ x.index = i
  BY ZenonT(30) DEF NewName, Name
<1>2. x.n \in Suffixes
  BY NewSuffix
<1>3. /\ Finite /\ FewPods(pods) /\ FewPods(cache) /\ RoomForCreates /\ QueueTyped /\ FewLeaders
      /\ Suffixed(pods) /\ Suffixed(cache) /\ MaxPods \in Nat /\ faults \in Nat
  BY PlacementAssumption DEF NamesInv
<1>4. pods' = Add(pods, x, v)
  BY Zenon
<1> HIDE DEF x
<1>5. /\ DOMAIN pods' = DOMAIN pods \cup {x} /\ pods'[x] = v
      /\ \A y \in DOMAIN pods : y # x => pods'[y] = pods[y]
  BY Zenon, <1>4 DEF Add
<1>6. Finite'
  BY <1>3, <1>5, FS_AddElement DEF Finite
<1>7. ASSUME NEW k \in Jobs, NEW l \in Followers[k] \cup {0}, k # j \/ l # i
      PROVE  Of(DOMAIN pods', k, l) = Of(DOMAIN pods, k, l)
  BY Zenon, <1>1, <1>5, <1>7 DEF Of
<1>8. Cardinality(Of(DOMAIN pods', j, i)) <= MaxPods
  <2>1. Of(DOMAIN pods', j, i) = Of(DOMAIN pods, j, i) \cup {x}
    BY ZenonT(30), <1>1, <1>5 DEF Of
  <2>2. Of(DOMAIN pods, j, i) \subseteq DOMAIN pods
    BY ZenonT(30) DEF Of
  <2>3. IsFiniteSet(Of(DOMAIN pods, j, i)) /\ Cardinality(Of(DOMAIN pods, j, i)) \in Nat
    BY <1>3, <2>2, SmallerSet DEF Finite
  <2>4. Cardinality(Of(DOMAIN pods, j, i)) < MaxPods
    BY ZenonT(30) DEF Room, Of
  <2>5. \/ Cardinality(Of(DOMAIN pods', j, i)) = Cardinality(Of(DOMAIN pods, j, i))
        \/ Cardinality(Of(DOMAIN pods', j, i)) = Cardinality(Of(DOMAIN pods, j, i)) + 1
    BY <2>1, <2>3, FS_AddElement
  <2> QED
    BY <1>3, <2>3, <2>4, <2>5
<1>9. FewPods(pods)' /\ FewPods(cache)'
  BY ZenonT(30), <1>3, <1>7, <1>8 DEF FewPods
<1>10. RoomForCreates'
  <2> SUFFICES ASSUME NEW k \in Jobs, NEW l \in DOMAIN creating'[k] PROVE Room(k, l)'
    BY DEF RoomForCreates
  <2>1. Room(k, l) /\ l \in Followers[k] /\ (k # j \/ l # i)
    BY ZenonT(30), <1>3 DEF RoomForCreates, PlacementInv, CreatesOnRecord
  <2>2. Of(DOMAIN pods', k, l) = Of(DOMAIN pods, k, l)
    BY <1>7, <2>1
  <2> QED
    BY ZenonT(30), <2>1, <2>2 DEF Room, Of
<1>11. FewLeaders'
  <2> SUFFICES ASSUME NEW k \in Jobs
               PROVE  Cardinality(LeaderNames(k)') <= IF HasLeader(k)' THEN faults + 1 ELSE faults
    BY Zenon DEF FewLeaders
  <2>1. Cardinality(LeaderNames(k)) <= IF HasLeader(k) THEN faults + 1 ELSE faults
    BY Zenon, <1>3 DEF FewLeaders
  <2>2. CASE k # j \/ i # 0
    <3>1. LeaderNames(k)' = LeaderNames(k)
      BY Zenon, <1>1, <1>5, <2>2 DEF LeaderNames
    <3>2. HasLeader(k) => HasLeader(k)'
      BY SMTT(30), <1>1, <1>5, <2>2 DEF HasLeader, Own, Live
    <3>3. IsFiniteSet(LeaderNames(k))
      BY ZenonT(30), <1>3, LeaderNamesFinite
    <3>4. Cardinality(LeaderNames(k)) \in Nat
      BY Zenon, <3>3, FS_CardinalityType
    <3> QED
      BY <1>3, <2>1, <3>1, <3>2, <3>4
  <2>3. CASE k = j /\ i = 0
    <3>1. LeaderNames(k)' = LeaderNames(k) \cup {x}
      BY ZenonT(30), <1>1, <1>5, <2>3 DEF LeaderNames
    <3>2. HasLeader(k)'
      BY Zenon, <1>1, <1>5, <2>3 DEF HasLeader, Own, Live
    <3>3. IsFiniteSet(LeaderNames(k))
      BY Zenon, <1>3, LeaderNamesFinite
    <3>4. Cardinality(LeaderNames(k)) \in Nat
      BY <3>3, FS_CardinalityType
    <3>5. \/ Cardinality(LeaderNames(k)') = Cardinality(LeaderNames(k))
          \/ Cardinality(LeaderNames(k)') = Cardinality(LeaderNames(k)) + 1
      BY ZenonT(30), <3>1, <3>3, FS_AddElement
    <3>6. Cardinality(LeaderNames(k)) <= faults
      BY ZenonT(30), <2>1, <2>3
    <3> QED
      BY <1>3, <3>2, <3>4, <3>5, <3>6
  <2> QED
    BY ZenonT(30), <2>2, <2>3
<1>12. Suffixed(pods)' /\ Suffixed(cache)' /\ QueueTyped'
  BY ZenonT(30), <1>2, <1>3, <1>5 DEF Suffixed, Suffixes, QueueTyped
<1> QED
  BY <1>6, <1>9, <1>10, <1>11, <1>12 DEF NamesInv

\* A Job that is created again has no Pods, and only names of earlier incarnations.
LEMMA RecreateNames ==
  ASSUME PlacementInv, NamesInv, NEW j \in Jobs, RecreateJob(j)
  PROVE  NamesInv'
<1>1. /\ Finite /\ FewPods(pods) /\ FewPods(cache) /\ RoomForCreates /\ QueueTyped /\ FewLeaders
      /\ Suffixed(pods) /\ Suffixed(cache) /\ MaxPods \in Nat /\ faults \in Nat /\ MaxFaults \in Nat
      /\ faults < MaxFaults /\ faults' = faults + 1 /\ nodes' \subseteq Domains
  BY PlacementAssumption DEF NamesInv, RecreateJob
<1>2. /\ DOMAIN pods' = {q \in DOMAIN pods : q.job # j}
      /\ cache' = cache /\ queue' = queue
      /\ uid' = [uid EXCEPT ![j] = @ + 1]
      /\ creating' = [creating EXCEPT ![j] = Empty]
  BY Zenon DEF RecreateJob
<1>3. /\ uid \in [Jobs -> Nat] /\ DOMAIN creating = Jobs
      /\ \A p \in DOMAIN cache : p.job \in Jobs /\ p.uid <= uid[p.job]
  BY Zenon DEF PlacementInv, OnRecord, PodsTyped
<1>4. uid'[j] = uid[j] + 1 /\ \A k \in Jobs : k # j => uid'[k] = uid[k]
  BY Zenon, <1>2, <1>3
<1>5. DOMAIN creating'[j] = {} /\ \A k \in Jobs : k # j => creating'[k] = creating[k]
  BY Zenon, <1>2, <1>3 DEF Empty
<1>6. Finite'
  <2>1. IsFiniteSet(DOMAIN pods')
    BY Zenon, <1>1, <1>2, SmallerSet DEF Finite
  <2> QED
    BY Zenon, <1>1, <1>2, <2>1 DEF Finite
<1>7. ASSUME NEW k \in Jobs, NEW i
      PROVE  Of(DOMAIN pods', k, i) = IF k = j THEN {} ELSE Of(DOMAIN pods, k, i)
  BY Zenon, <1>2 DEF Of
<1>8. FewPods(pods)' /\ FewPods(cache)'
  <2>1. Cardinality({}) = 0 /\ 0 <= MaxPods
    BY <1>1, FS_EmptySet
  <2>2. \A k \in Jobs : \A i \in Followers[k] \cup {0} : Cardinality(Of(DOMAIN pods', k, i)) <= MaxPods
    BY <1>1, <1>7, <2>1 DEF FewPods
  <2> QED
    BY <1>1, <1>2, <2>2 DEF FewPods
<1>9. RoomForCreates'
  <2> SUFFICES ASSUME NEW k \in Jobs, NEW i \in DOMAIN creating'[k] PROVE Room(k, i)'
    BY Zenon DEF RoomForCreates
  <2>1. Room(k, i) /\ k # j
    BY Zenon, <1>1, <1>5 DEF RoomForCreates
  <2>2. Of(DOMAIN pods', k, i) = Of(DOMAIN pods, k, i)
    BY Zenon, <1>7, <2>1
  <2> QED
    BY Zenon, <2>1, <2>2 DEF Room, Of
<1>10. QueueTyped'
  <2> SUFFICES ASSUME NEW p \in queue PROVE p.index = 0 /\ p.job \in Jobs /\ p.uid \in Nat /\ p.uid <= uid'[p.job]
    BY <1>2 DEF QueueTyped
  <2>1. p.index = 0 /\ p.job \in Jobs /\ p.uid <= uid[p.job] /\ p.uid \in Nat
    BY <1>1 DEF QueueTyped
  <2> QED
    BY <1>3, <1>4, <2>1
<1>11. FewLeaders'
  <2> SUFFICES ASSUME NEW k \in Jobs
               PROVE  Cardinality(LeaderNames(k)') \in Nat /\ Cardinality(LeaderNames(k)') <= faults'
    BY <1>1 DEF FewLeaders
  <2>1. IsFiniteSet(LeaderNames(k))
    BY Zenon, <1>1, LeaderNamesFinite
  <2>2. CASE k = j
    <3>1. LeaderNames(k)' = {}
      <4> SUFFICES ASSUME NEW p \in LeaderNames(k)' PROVE FALSE
        BY Zenon
      <4>1. p \in DOMAIN cache \cup queue /\ p.job = j /\ p.uid = uid[j] + 1
        BY Zenon, <1>2, <1>4, <2>2 DEF LeaderNames
      <4>2. p.uid <= uid[j]
        BY Zenon, <1>1, <1>3, <4>1 DEF QueueTyped
      <4> QED
        BY <1>3, <4>1, <4>2
    <3> QED
      BY <1>1, <3>1, FS_EmptySet
  <2>3. CASE k # j
    <3>1. LeaderNames(k)' \subseteq LeaderNames(k)
      BY Zenon, <1>2, <1>4, <2>3 DEF LeaderNames
    <3>2. /\ Cardinality(LeaderNames(k)') \in Nat /\ Cardinality(LeaderNames(k)) \in Nat
          /\ Cardinality(LeaderNames(k)') <= Cardinality(LeaderNames(k))
      BY Zenon, <2>1, <3>1, SmallerSet
    <3>3. Cardinality(LeaderNames(k)) <= IF HasLeader(k) THEN faults + 1 ELSE faults
      BY Zenon, <1>1 DEF FewLeaders
    <3> QED
      BY <1>1, <3>2, <3>3
  <2> QED
    BY Zenon, <2>2, <2>3
<1>12. Suffixed(pods)' /\ Suffixed(cache)'
  BY Zenon, <1>1, <1>2 DEF Suffixed, Suffixes
<1> QED
  BY <1>1, <1>6, <1>8, <1>9, <1>10, <1>11, <1>12 DEF NamesInv

\* Leaders that stay live stay.
LEMMA KeepLeaders ==
  ASSUME uid' = uid,
         \A p \in DOMAIN pods : p.index = 0 /\ pods[p].status = "live" =>
           p \in DOMAIN pods' /\ pods'[p].status = "live"
  PROVE  \A j \in Jobs : HasLeader(j) => HasLeader(j)'
BY Zenon DEF HasLeader, Own, Live

\* Every step keeps the bounds on the names.
LEMMA NextNames ==
  ASSUME PlacementInv, NamesInv, [Next]_vars
  PROVE  NamesInv'
<1>1. /\ faults \in 0..MaxFaults /\ MaxFaults \in Nat /\ nodes \subseteq Domains
      /\ DOMAIN creating = Jobs /\ \A j \in Jobs : DOMAIN creating[j] \subseteq Followers[j]
  BY PlacementAssumption DEF NamesInv, PlacementInv, CreatesOnRecord
<1>2. \A j \in Jobs : 0 \notin Followers[j]
  BY SMTT(30), PlacementAssumption
<1>3. ASSUME NEW j \in Jobs, CreateLeader(j) PROVE NamesInv'
  <2>1. NewPod(Nil).status = "live"
    BY DEF NewPod
  <2>2. ~HasLeader(j) /\ Room(j, 0)
    BY Zenon, <1>3 DEF CreateLeader, HasLeader
  <2>3. 0 \notin DOMAIN creating'[j]
    BY Zenon, <1>1, <1>2, <1>3 DEF CreateLeader
  <2>4. \A k \in Jobs : DOMAIN creating'[k] \subseteq DOMAIN creating[k]
    BY Zenon, <1>3 DEF CreateLeader
  <2>5. pods' = Add(pods, NewName(j, 0), NewPod(Nil)) /\ UNCHANGED <<uid, cache, queue, faults, nodes>>
    BY Zenon, <1>3 DEF CreateLeader
  <2> HIDE DEF NewPod
  <2> QED
    BY ZenonT(30), <2>1, <2>2, <2>3, <2>4, <2>5, AddName
<1>4. ASSUME NEW j \in Jobs, NEW i \in Followers[j], PersistFollower(j, i) PROVE NamesInv'
  <2> DEFINE v == NewPod(creating[j][i].selector)
  <2>1. v.status = "live"
    BY Zenon DEF NewPod
  <2>2. i # 0 /\ Room(j, i)
    BY Zenon, <1>2, <1>4 DEF PersistFollower, NamesInv, RoomForCreates
  <2>3. /\ creating'[j] = Forget(creating[j], i)
        /\ \A k \in Jobs : k # j => creating'[k] = creating[k]
    BY Zenon, <1>1, <1>4 DEF PersistFollower
  <2>4. i \notin DOMAIN creating'[j] /\ \A k \in Jobs : DOMAIN creating'[k] \subseteq DOMAIN creating[k]
    BY Zenon, <2>3 DEF Forget
  <2>5. pods' = Add(pods, NewName(j, i), v) /\ UNCHANGED <<uid, cache, queue, faults, nodes>>
    BY Zenon, <1>4 DEF PersistFollower
  <2> HIDE DEF v
  <2> QED
    BY Zenon, <2>1, <2>2, <2>4, <2>5, AddName
<1>5. ASSUME NEW j \in Jobs, NEW i \in Followers[j], setNodeSelector(j, i) PROVE NamesInv'
  <2>1. UNCHANGED <<uid, pods, cache, nodes, queue, faults>> /\ Room(j, i)
    BY Zenon, <1>5 DEF setNodeSelector
  <2>2. /\ DOMAIN creating'[j] = DOMAIN creating[j] \cup {i}
        /\ \A k \in Jobs : k # j => creating'[k] = creating[k]
    BY Zenon, <1>1, <1>5 DEF setNodeSelector, Add
  <2>3. \A k \in Jobs : \A l \in DOMAIN creating'[k] :
          l \in Followers[k] /\ (l \in DOMAIN creating[k] \/ Room(k, l))
    BY Zenon, <1>1, <2>1, <2>2
  <2>4. \A k \in Jobs : HasLeader(k) => HasLeader(k)'
    BY Zenon, <2>1 DEF HasLeader, Own, Live
  <2> QED
    BY <1>1, <2>1, <2>3, <2>4, KeepNames
<1>6. ASSUME NEW j \in Jobs, NEW i \in Followers[j], ValidateCreate(j, i) PROVE NamesInv'
  <2>1. UNCHANGED <<uid, pods, cache, nodes, queue, faults>>
    BY <1>6 DEF ValidateCreate
  <2>2. /\ DOMAIN creating'[j] \subseteq DOMAIN creating[j]
        /\ \A k \in Jobs : k # j => creating'[k] = creating[k]
    BY Zenon, <1>1, <1>6 DEF ValidateCreate, Forget
  <2>3. \A k \in Jobs : \A l \in DOMAIN creating'[k] :
          l \in Followers[k] /\ (l \in DOMAIN creating[k] \/ Room(k, l))
    BY Zenon, <1>1, <2>2
  <2>4. \A k \in Jobs : HasLeader(k) => HasLeader(k)'
    BY Zenon, <2>1 DEF HasLeader, Own, Live
  <2> QED
    BY <1>1, <2>1, <2>3, <2>4, KeepNames
<1>7. ASSUME UNCHANGED <<uid, cache, creating, nodes, queue>>, DOMAIN pods' \subseteq DOMAIN pods,
             faults < MaxFaults, faults' = faults + 1
      PROVE  NamesInv'
  <2>1. faults' \in 0..MaxFaults /\ faults <= faults'
    BY <1>1, <1>7
  <2> QED
    BY Zenon, <1>1, <1>7, <2>1, KeepNames
<1>8. ASSUME UNCHANGED <<uid, cache, creating, nodes, faults>>, DOMAIN pods' \subseteq DOMAIN pods,
             queue' \subseteq queue,
             \A p \in DOMAIN pods : p.index = 0 /\ pods[p].status = "live" =>
               p \in DOMAIN pods' /\ pods'[p].status = "live"
      PROVE  NamesInv'
  <2>1. \A j \in Jobs : HasLeader(j) => HasLeader(j)'
    BY Zenon, <1>8, KeepLeaders
  <2>2. faults' \in 0..MaxFaults /\ faults <= faults'
    BY <1>1, <1>8
  <2> QED
    BY Zenon, <1>1, <1>8, <2>1, <2>2, KeepNames
<1>9. ASSUME NEW p \in DOMAIN pods, Evict(p) PROVE NamesInv'
  <2>1. DOMAIN pods' \subseteq DOMAIN pods
    BY <1>9, DeleteFacts DEF Evict
  <2> QED
    BY Zenon, <1>7, <1>9, <2>1 DEF Evict
<1>10. ASSUME NEW p \in DOMAIN pods, Fail(p) PROVE NamesInv'
  BY Zenon, <1>7, <1>10 DEF Fail
<1>11. ASSUME NEW p \in DOMAIN pods, PodGone(p) PROVE NamesInv'
  <2>1. \A q \in DOMAIN pods : q # p => q \in DOMAIN pods' /\ pods'[q] = pods[q]
    BY Zenon, <1>11 DEF PodGone, Forget
  <2>2. DOMAIN pods' \subseteq DOMAIN pods
    BY <1>11, ForgetFacts DEF PodGone
  <2> QED
    BY Zenon, <1>8, <1>11, <2>1, <2>2 DEF PodGone
<1>12. ASSUME NEW p \in DOMAIN pods, NEW d \in Domains, Schedule(p, d) PROVE NamesInv'
  <2>1. pods[p] \in Pod
    BY DEF PlacementInv, PodsTyped
  <2>2. DOMAIN pods' = DOMAIN pods /\ \A q \in DOMAIN pods : pods'[q].status = pods[q].status
    BY Zenon, <1>12, <2>1 DEF Schedule, Pod
  <2> QED
    BY Zenon, <1>8, <1>12, <2>2 DEF Schedule
<1>13. ASSUME NEW l \in queue, Reconcile(l) PROVE NamesInv'
  <2> DEFINE F == {p \in listPodsForJob(l) : ~IsLeaderPod(p)}
             D == {p \in F : Deletable(p)}
  <2>1. UNCHANGED <<uid, cache, creating, nodes, faults>> /\ queue' \subseteq queue
    BY Zenon, <1>13 DEF Reconcile, deleteFollowerPods
  <2>2. pods' = pods \/ pods' = Delete(D)
    BY <1>13 DEF Reconcile, deleteFollowerPods
  <2>3. \A p \in D : p.index # 0
    OBVIOUS
  <2> HIDE DEF D
  <2>4. /\ DOMAIN Delete(D) \subseteq DOMAIN pods
        /\ \A p \in DOMAIN pods : p \notin D => p \in DOMAIN Delete(D) /\ Delete(D)[p] = pods[p]
    BY Zenon DEF Delete
  <2> QED
    BY Zenon, <1>8, <2>1, <2>2, <2>3, <2>4
<1>14. ASSUME SyncPods \/ Resync PROVE NamesInv'
  <2>1. UNCHANGED <<uid, pods, creating, nodes, faults>> /\ (cache' = cache \/ cache' = pods)
    BY Zenon, <1>14 DEF SyncPods, Resync
  <2>2. \A p \in queue' : p \in queue \/ (p \in DOMAIN pods \cup DOMAIN cache /\ p.index = 0)
    BY Zenon, <1>14 DEF SyncPods, Resync, EventFilter
  <2>3. \A k \in Jobs : HasLeader(k) => HasLeader(k)'
    BY Zenon, <2>1 DEF HasLeader, Own, Live
  <2> QED
    BY <1>1, <2>1, <2>2, <2>3, KeepNames
<1>15. ASSUME NEW d \in Domains, LoseNodes(d) \/ AddNodes(d) PROVE NamesInv'
  <2>1. /\ UNCHANGED <<uid, pods, cache, creating, queue>> /\ nodes' \subseteq Domains
        /\ faults' = faults \/ (faults' = faults + 1 /\ faults < MaxFaults)
    BY Zenon, <1>1, <1>15 DEF LoseNodes, AddNodes
  <2>2. \A k \in Jobs : HasLeader(k) => HasLeader(k)'
    BY Zenon, <2>1 DEF HasLeader, Own, Live
  <2>3. faults' \in 0..MaxFaults /\ faults <= faults'
    BY <1>1, <2>1
  <2> QED
    BY Zenon, <1>1, <2>1, <2>2, <2>3, KeepNames
<1>16. ASSUME UNCHANGED vars PROVE NamesInv'
  BY <1>8, <1>16 DEF vars
<1> QED
  BY ZenonT(30), <1>3, <1>4, <1>5, <1>6, <1>9, <1>10, <1>11, <1>12, <1>13, <1>14, <1>15, <1>16, RecreateNames
     DEF Next

(***************************************************************************)
(* Pods, cache, creates and Nodes are what they are meant to be; the       *)
(* event filter and the reconcile keep all but leaders out of the work     *)
(* queue; and 2 * MaxPods + MaxFaults suffixes are enough for the names of *)
(* Pods, so that the fairness of FairSpec, which ranges over the suffixes, *)
(* reaches every Pod.                                                      *)
(***************************************************************************)
THEOREM TypeCorrect == Spec => []TypeOK
BY InitPlacement, NextPlacement, InitNames, NextNames, NamesType, PTL DEF Spec

=============================================================================
