------------------------- MODULE ExclusivePlacement -------------------------
(***************************************************************************)
(* Exclusive placement: all Pods of a Job in one topology domain, and no   *)
(* Pods of other Jobs there.  The Pod webhook gives the leader Pod (index  *)
(* 0) of a Job affinities that the scheduler enforces, and pins the other  *)
(* Pods, its followers, to the domain of the leader: a follower is         *)
(* admitted only once the leader is scheduled.  The Pod controller deletes *)
(* the followers of a Job that are pinned to another domain than the one   *)
(* the leader is in.                                                       *)
(*                                                                         *)
(* Both read Pods from one cache that lags behind the API server, and a    *)
(* create in flight is persisted some time after the webhook has decided.  *)
(* A domain is the Nodes with one value of the topology label.             *)
(***************************************************************************)
EXTENDS Integers, FiniteSets

CONSTANTS
  Jobs,              \* the Jobs with exclusive placement
  Followers,         \* Followers[j]: the completion indexes of Job j but 0
  Priority,          \* Priority[j]: the priority of the Pods of Job j
  Domains,           \* the topology domains
  MaxPods,           \* bound on the Pods with one index that there are at a time
  MaxFaults          \* bound on evictions of Nodes and restarts together

Nil == "none"

ASSUME PlacementAssumption ==
  /\ Followers \in [Jobs -> SUBSET (Nat \ {0})] /\ Priority \in [Jobs -> Int]
  /\ Nil \notin Domains
  /\ MaxPods \in Nat /\ MaxFaults \in Nat

VARIABLES
  uid,          \* uid[j]: the current incarnation of Job j
  pods,         \* the Pods, on the API server: a function from names to Pods
  cache,        \* the Pods in the cache of the webhook and the controller
  creating,     \* creating[j]: the follower creates of Job j that the webhook has seen
  nodes,        \* the domains that have Nodes
  queue,        \* the names in the controller's work queue
  faults,       \* how many faults there have been
  led           \* led[j]: history, the domains leaders of the current Job j were bound to

vars == <<uid, pods, cache, creating, nodes, queue, faults, led>>

(***************************************************************************)
(* A Pod's name tells its Job, the incarnation that owns it, its index,    *)
(* and, by the suffix n, which of the Pods with that index it is.          *)
(***************************************************************************)
Name(j, i, n) == [job |-> j, uid |-> uid[j], index |-> i, n |-> n]
IsLeaderPod(p) == p.index = 0

Pod == [status : {"live", "terminating", "failed"},
        selector : Domains \cup {Nil},      \* nodeSelector for the topology key
        domain : Domains \cup {Nil}]        \* of the Node it is bound to

Bound(P, p) == P[p].domain # Nil
Live(P, j, i) == {p \in DOMAIN P : p.job = j /\ p.index = i /\ P[p].status = "live"}
Own(j, S) == {p \in S : p.uid = uid[j]}

Empty == [p \in {} |-> Nil]
Add(f, x, v) == [y \in DOMAIN f \cup {x} |-> IF y = x THEN v ELSE f[y]]
Forget(f, x) == [y \in DOMAIN f \ {x} |-> f[y]]

Init ==
  /\ uid = [j \in Jobs |-> 0]
  /\ pods = Empty /\ cache = Empty
  /\ creating = [j \in Jobs |-> Empty]
  /\ nodes = Domains /\ queue = {}
  /\ faults = 0
  /\ led = [j \in Jobs |-> {}]

-----------------------------------------------------------------------------
(***************************************************************************)
(* The Job controller creates a Pod for every index that has none, through *)
(* the webhook.                                                            *)
(***************************************************************************)
NewName(j, i) ==
  LET used == {p.n : p \in {q \in DOMAIN pods \cup DOMAIN cache \cup queue :
                              q.job = j /\ q.uid = uid[j] /\ q.index = i}}
  IN  Name(j, i, CHOOSE n \in 0..Cardinality(used) : n \notin used)

Room(j, i) == Cardinality({p \in DOMAIN pods : p.job = j /\ p.index = i}) < MaxPods

NewPod(selector) == [status |-> "live", selector |-> selector, domain |-> Nil]

CreateLeader(j) ==
  /\ Own(j, Live(pods, j, 0)) = {} /\ Room(j, 0)
  /\ pods' = Add(pods, NewName(j, 0), NewPod(Nil))
  /\ UNCHANGED <<uid, cache, creating, nodes, queue, faults, led>>

\* Mutant: a leader of an earlier incarnation of the Job will do.
AnyOwnerMutant(j) == IF Cardinality(Live(cache, j, 0)) = 1 THEN Live(cache, j, 0) ELSE {}

\* The leader found for a follower, in a set: there must be one Pod of that index
\* which is neither deleted nor finished, and it must be of the same Job.
leaderPodForFollower(j) ==
  IF Cardinality(Live(cache, j, 0)) = 1 THEN Own(j, Live(cache, j, 0)) ELSE {}

\* The mutating webhook, for a create that can be admitted: without a scheduled
\* leader there is no selector, and an unknown Node is an error.
setNodeSelector(j, i) ==
  /\ Own(j, Live(pods, j, i)) = {} /\ Room(j, i) /\ i \notin DOMAIN creating[j]
  /\ \E l \in leaderPodForFollower(j) :
       /\ Bound(cache, l) /\ cache[l].domain \in nodes
       /\ creating' = [creating EXCEPT ![j] =
            Add(@, i, [selector |-> cache[l].domain, validated |-> FALSE])]
  /\ UNCHANGED <<uid, pods, cache, nodes, queue, faults, led>>

\* A Pod that runs is deleted gracefully, the others at once.
Delete(D) ==
  [p \in DOMAIN pods \ {q \in D : pods[q].status = "failed" \/ ~Bound(pods, q)} |->
     IF p \in D THEN [pods[p] EXCEPT !.status = "terminating"] ELSE pods[p]]

\* The validating webhook: it reads the cache once more.
ValidateCreate(j, i) ==
  /\ i \in DOMAIN creating[j] /\ ~creating[j][i].validated
  /\ creating' = [creating EXCEPT ![j] =
       IF \E l \in leaderPodForFollower(j) : Bound(cache, l)
       THEN [@ EXCEPT ![i].validated = TRUE] ELSE Forget(@, i)]
  /\ UNCHANGED <<uid, pods, cache, nodes, queue, faults, led>>

PersistFollower(j, i) ==
  /\ i \in DOMAIN creating[j] /\ creating[j][i].validated
  /\ pods' = Add(pods, NewName(j, i), NewPod(creating[j][i].selector))
  /\ creating' = [creating EXCEPT ![j] = Forget(@, i)]
  /\ UNCHANGED <<uid, cache, nodes, queue, faults, led>>

-----------------------------------------------------------------------------
(***************************************************************************)
(* The scheduler.  It does not count failed Pods.  A leader has to join    *)
(* the Pods of its Job, if any are bound, and shares its domain with no    *)
(* Pod of another Job of its priority; this also keeps the followers of    *)
(* other Jobs out, which have no affinities themselves.                    *)
(***************************************************************************)
Counted(d) == {q \in DOMAIN pods : Bound(pods, q) /\ pods[q].status # "failed" /\ pods[q].domain = d}

\* Mutant: the anti-affinity term is left out.
NoAntiAffinityMutant(p, d) ==
  LET mates == {q \in UNION {Counted(e) : e \in Domains} : q.job = p.job}
  IN  mates # {} => \E q \in mates : pods[q].domain = d

setExclusiveAffinities(p, d) ==
  LET mates == {q \in UNION {Counted(e) : e \in Domains} : q.job = p.job}
  IN  /\ mates # {} => \E q \in mates : pods[q].domain = d
      /\ \A q \in Counted(d) : q.job # p.job => Priority[q.job] # Priority[p.job]

KeptOut(p, d) ==
  \E q \in Counted(d) : IsLeaderPod(q) /\ q.job # p.job /\ Priority[q.job] = Priority[p.job]

Schedule(p, d) ==
  /\ pods[p].status = "live" /\ ~Bound(pods, p) /\ d \in nodes
  /\ IF IsLeaderPod(p) THEN setExclusiveAffinities(p, d)
     ELSE d = pods[p].selector /\ ~KeptOut(p, d)
  /\ pods' = [pods EXCEPT ![p].domain = d]
  /\ led' = IF IsLeaderPod(p) THEN [led EXCEPT ![p.job] = @ \cup {d}] ELSE led
  /\ UNCHANGED <<uid, cache, creating, nodes, queue, faults>>

-----------------------------------------------------------------------------
(* The Pod controller. *)

\* Mutant: the events of followers are let through as well.
AnyPodMutant(P) == {p \in DOMAIN P : Bound(P, p) /\ P[p].status # "terminating"}

\* The events that are let through: scheduled leaders that are not deleted.
EventFilter(P) == {p \in DOMAIN P : IsLeaderPod(p) /\ Bound(P, p) /\ P[p].status # "terminating"}

SyncPods ==
  /\ cache # pods
  /\ cache' = pods
  /\ queue' = queue \cup {p \in EventFilter(pods) : p \notin DOMAIN cache \/ cache[p] # pods[p]}
  /\ UNCHANGED <<uid, pods, creating, nodes, faults, led>>

\* The informers hand out every Pod again from time to time, and when the
\* controller has been restarted.
Resync ==
  /\ queue' = queue \cup EventFilter(cache)
  /\ UNCHANGED <<uid, pods, cache, creating, nodes, faults, led>>

listPodsForJob(l) == {p \in DOMAIN cache : p.job = l.job /\ p.uid = l.uid}

leaderPodTopology(l) == IF cache[l].domain \in nodes THEN cache[l].domain ELSE Nil

\* Mutant: the followers are not compared.
AllValidMutant(l) == TRUE

validatePodPlacements(l) ==
  \A p \in listPodsForJob(l) : IsLeaderPod(p) \/ cache[p].selector = leaderPodTopology(l)

\* The status update that precedes a deletion fails on an outdated copy.
Deletable(p) == p \in DOMAIN pods /\ pods[p] = cache[p]

deleteFollowerPods(l) ==
  LET F == {p \in listPodsForJob(l) : ~IsLeaderPod(p)}
      D == {p \in F : Deletable(p)}
  IN  /\ pods' = Delete(D)
      /\ queue' = IF F = D THEN queue \ {l} ELSE queue

Reconcile(l) ==
  /\ l \in queue
  /\ IF l \notin DOMAIN cache \/ validatePodPlacements(l)
     THEN queue' = queue \ {l} /\ UNCHANGED pods
     ELSE /\ leaderPodTopology(l) # Nil      \* else an error, and a retry
          /\ deleteFollowerPods(l)
  /\ UNCHANGED <<uid, cache, creating, nodes, faults, led>>

-----------------------------------------------------------------------------
(* The rest of the cluster. *)

\* A Pod is evicted, preempted or deleted by hand.
Evict(p) ==
  /\ faults < MaxFaults /\ pods[p].status = "live"
  /\ faults' = faults + 1
  /\ pods' = Delete({p})
  /\ UNCHANGED <<uid, cache, creating, nodes, queue, led>>

\* A Pod fails; it is kept as long as its Job.
Fail(p) ==
  /\ faults < MaxFaults /\ pods[p].status = "live" /\ Bound(pods, p)
  /\ faults' = faults + 1
  /\ pods' = [pods EXCEPT ![p].status = "failed"]
  /\ UNCHANGED <<uid, cache, creating, nodes, queue, led>>

PodGone(p) ==
  /\ pods[p].status = "terminating"
  /\ pods' = Forget(pods, p)
  /\ UNCHANGED <<uid, cache, creating, nodes, queue, faults, led>>

\* The Nodes of a domain are not there for a while, as in a maintenance.
LoseNodes(d) ==
  /\ faults < MaxFaults /\ d \in nodes
  /\ faults' = faults + 1
  /\ nodes' = nodes \ {d}
  /\ UNCHANGED <<uid, pods, cache, creating, queue, led>>

AddNodes(d) ==
  /\ d \notin nodes
  /\ nodes' = nodes \cup {d}
  /\ UNCHANGED <<uid, pods, cache, creating, queue, faults, led>>

\* The JobSet is restarted: the Job is deleted with its Pods, and created again.
RecreateJob(j) ==
  /\ faults < MaxFaults
  /\ faults' = faults + 1
  /\ uid' = [uid EXCEPT ![j] = @ + 1]
  /\ pods' = [p \in {q \in DOMAIN pods : q.job # j} |-> pods[p]]
  /\ creating' = [creating EXCEPT ![j] = Empty]
  /\ led' = [led EXCEPT ![j] = {}]
  /\ UNCHANGED <<cache, nodes, queue>>

Next ==
  \/ \E j \in Jobs :
       \/ CreateLeader(j) \/ RecreateJob(j)
       \/ \E i \in Followers[j] : setNodeSelector(j, i) \/ ValidateCreate(j, i) \/ PersistFollower(j, i)
  \/ \E p \in DOMAIN pods : Evict(p) \/ Fail(p) \/ PodGone(p) \/ \E d \in Domains : Schedule(p, d)
  \/ SyncPods \/ Resync
  \/ \E l \in queue : Reconcile(l)
  \/ \E d \in Domains : LoseNodes(d) \/ AddNodes(d)

Spec == Init /\ [][Next]_vars

Named(j, i, n, A(_)) == \E p \in DOMAIN pods : p.job = j /\ p.index = i /\ p.n = n /\ A(p)
ScheduleSomewhere(p) == \E d \in Domains : Schedule(p, d)

\* Enough for the names of the Pods, in the cache and, for leaders, in the queue, where
\* one may remain for every fault.
Suffixes == 0..(2 * MaxPods + MaxFaults)

\* Everyone but the faults keeps working, and Nodes come back.
Fairness ==
  /\ WF_vars(SyncPods) /\ WF_vars(Resync)
  /\ \A d \in Domains : WF_vars(AddNodes(d))
  /\ \A j \in Jobs :
       /\ WF_vars(CreateLeader(j))
       /\ \A n \in Suffixes : WF_vars(\E l \in queue : l.job = j /\ l.n = n /\ Reconcile(l))
       /\ \A i \in Followers[j] :
            WF_vars(setNodeSelector(j, i)) /\ WF_vars(ValidateCreate(j, i)) /\ WF_vars(PersistFollower(j, i))
       /\ \A i \in Followers[j] \cup {0}, n \in Suffixes :
            WF_vars(Named(j, i, n, PodGone)) /\ WF_vars(Named(j, i, n, ScheduleSomewhere))

FairSpec == Spec /\ Fairness

-----------------------------------------------------------------------------
(***************************************************************************)
(* Types; the work queue holds leaders only, and there are names for all   *)
(* the Pods.                                                               *)
(***************************************************************************)
TypeOK ==
  /\ uid \in [Jobs -> Nat]
  /\ \A P \in {pods, cache} : \A p \in DOMAIN P : p.job \in Jobs /\ p.n \in Suffixes /\ P[p] \in Pod
  /\ \A j \in Jobs : DOMAIN creating[j] \subseteq Followers[j]
  /\ nodes \subseteq Domains
  /\ \A p \in queue : IsLeaderPod(p)

(***************************************************************************)
(* A domain in which the leader of a Job runs has no Pod of another Job of *)
(* the same priority, whatever order leaders and followers, pinned         *)
(* followers of a leader that has gone included, are scheduled in.         *)
(***************************************************************************)
LeaderDomainIsExclusive ==
  \A d \in Domains : \A p, q \in Counted(d) :
    IsLeaderPod(p) /\ p.job # q.job => Priority[p.job] # Priority[q.job]

(***************************************************************************)
(* A follower is pinned to a domain in which a leader of its own Job has   *)
(* been; the leader of an earlier incarnation of the Job, still in the     *)
(* webhook's cache, does not count.                                        *)
(***************************************************************************)
PinnedToOwnLeader ==
  \A p \in DOMAIN pods : p.index # 0 => pods[p].selector \in led[p.job]

\* The reconcile of l deletes followers although, for all the cache can tell, every
\* follower of the Job is pinned to the domain of its live leader.
DeletesFromLeader(l) ==
  /\ \E p \in DOMAIN pods : p.job = l.job /\ pods[p].status = "live" /\ p \notin Live(pods', p.job, p.index)
  /\ \E k \in leaderPodForFollower(l.job) :
       /\ k \in DOMAIN pods /\ pods[k].status = "live"
       /\ \A p \in listPodsForJob(k) : IsLeaderPod(p) \/ cache[p].selector = cache[k].domain

(***************************************************************************)
(* The Pod controller never deletes followers when all of them are pinned  *)
(* to the domain their leader is in.                                       *)
(***************************************************************************)
DeletesOnlyMisplaced == [][\A l \in queue : Reconcile(l) => ~DeletesFromLeader(l)]_vars

Together(j) ==
  \E l \in Own(j, Live(pods, j, 0)) :
    /\ Bound(pods, l)
    /\ \A i \in Followers[j] :
         \E p \in Own(j, Live(pods, j, i)) : pods[p].domain = pods[l].domain

FailedLeader(j) == \E p \in DOMAIN pods : p.job = j /\ IsLeaderPod(p) /\ pods[p].status = "failed"

(***************************************************************************)
(* Unless the Job keeps a failed leader, all its Pods end up bound in the  *)
(* domain of the leader, also when the leader has moved while the create   *)
(* of a follower was under way.                                            *)
(***************************************************************************)
FollowersJoinLeader == \A j \in Jobs : <>[](Together(j) \/ FailedLeader(j))

=============================================================================
