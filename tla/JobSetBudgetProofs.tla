------------------------ MODULE JobSetBudgetProofs ------------------------
(***************************************************************************)
(* Proof that the restarts counted towards spec.failurePolicy.maxRestarts, *)
(* of the JobSet and of single Jobs together, stay within it.  The total   *)
(* is a fold over the child Jobs, so the proof starts with what a fold     *)
(* over a finite set computes.  Induction is by the subset that is minimal *)
(* among those that would violate a claim.  Last, the number of Jobs of a  *)
(* replicatedJob.                                                          *)
(***************************************************************************)
EXTENDS JobSetReconcilerProofs, FiniteSetTheorems

-----------------------------------------------------------------------------
(* The sum of a function over a finite set. *)

Pick(s) == CHOOSE x \in s : TRUE

\* g adds up c over every subset of S, one picked element after the other.
Adds(g, c, S) ==
  g = [s \in SUBSET S |-> IF s = {} THEN 0 ELSE c[Pick(s)] + g[s \ {Pick(s)}]]

Sum(c, S) == (CHOOSE g : Adds(g, c, S))[S]

\* totalRestartsCountTowardsMax adds up the counters of the single Jobs.
LEMMA TotalDef ==
  ASSUME NEW o
  PROVE  totalRestartsCountTowardsMax(o) =
           o.restartsCountTowardsMax + Sum(o.jobRestartsCountTowardsMax, JobIds)
BY Zenon DEF totalRestartsCountTowardsMax, MapThenSumSet, MapThenFoldSet, Sum, Adds, Pick

\* Taking the picked element away leaves a smaller set.
LEMMA PickSmaller ==
  ASSUME NEW s, s # {}
  PROVE  /\ Pick(s) \in s
         /\ s \ {Pick(s)} \in SUBSET s
         /\ s \ {Pick(s)} # s
<1>1. Pick(s) \in s
  BY DEF Pick
<1> QED
  BY <1>1

\* A set of subsets of a finite set has a minimal member.
LEMMA MinimalSubset ==
  ASSUME NEW S, IsFiniteSet(S), NEW B, B \subseteq SUBSET S, B # {}
  PROVE  \E T \in B : \A U \in B : U \subseteq T => U = T
<1> DEFINE R == StrictSubsetOrdering(S)
<1>1. IsWellFoundedOn(R, SUBSET S)
  BY Zenon, FS_StrictSubsetOrderingWellFounded, FS_FiniteSubsetsOfFinite
<1> HIDE DEF R
<1>2. PICK T \in B : \A U \in B : ~(<<U, T>> \in R)
  BY <1>1, WFMin
<1>3. ASSUME NEW U \in B, U \subseteq T, U # T PROVE <<U, T>> \in R
  BY <1>3 DEF R, StrictSubsetOrdering
<1>4. \A U \in B : U \subseteq T => U = T
  BY Zenon, <1>2, <1>3
<1> QED
  BY Zenon, <1>4

\* What a function that adds up returns.
LEMMA AddsValue ==
  ASSUME NEW g, NEW c, NEW T, Adds(g, c, T), NEW s \in SUBSET T
  PROVE  g[s] = IF s = {} THEN 0 ELSE c[Pick(s)] + g[s \ {Pick(s)}]
BY Zenon DEF Adds

\* Two functions that add up the same counters agree where both are defined.
LEMMA AddsAgree ==
  ASSUME NEW S, IsFiniteSet(S), NEW c, NEW T \in SUBSET S, NEW U \in SUBSET S,
         NEW g, Adds(g, c, T), NEW h, Adds(h, c, U)
  PROVE  \A s \in SUBSET (T \cap U) : g[s] = h[s]
<1> DEFINE B == {s \in SUBSET (T \cap U) : g[s] # h[s]}
<1> SUFFICES ASSUME B # {} PROVE FALSE
  OBVIOUS
<1>1. B \subseteq SUBSET S
  OBVIOUS
<1>2. PICK s \in B : \A u \in B : u \subseteq s => u = s
  <2> HIDE DEF B
  <2> QED
    BY <1>1, MinimalSubset
<1>3. s \in SUBSET T /\ s \in SUBSET U /\ g[s] # h[s]
  OBVIOUS
<1>4. s # {}
  BY Zenon, <1>3, AddsValue
<1>5. g[s \ {Pick(s)}] = h[s \ {Pick(s)}]
  BY Zenon, <1>2, <1>4, PickSmaller
<1>6. /\ g[s] = c[Pick(s)] + g[s \ {Pick(s)}]
      /\ h[s] = c[Pick(s)] + h[s \ {Pick(s)}]
  BY <1>3, <1>4, AddsValue
<1> QED
  BY ZenonT(30), <1>3, <1>5, <1>6

\* The sum over a set, one element picked, once the functions exist for both sets.
LEMMA SumFromAdds ==
  ASSUME NEW S, IsFiniteSet(S), NEW c, NEW s \in SUBSET S,
         \E g : Adds(g, c, s),
         s # {} => \E g : Adds(g, c, s \ {Pick(s)})
  PROVE  Sum(c, s) = IF s = {} THEN 0 ELSE c[Pick(s)] + Sum(c, s \ {Pick(s)})
<1> DEFINE G(t) == CHOOSE g : Adds(g, c, t)
           u == s \ {Pick(s)}
<1>1. Adds(G(s), c, s) /\ Sum(c, s) = G(s)[s]
  BY DEF Sum
<1>2. G(s)[s] = IF s = {} THEN 0 ELSE c[Pick(s)] + G(s)[u]
  <2> HIDE DEF G
  <2> QED
    BY <1>1, AddsValue
<1>3. CASE s # {}
  <2>1. Adds(G(u), c, u) /\ Sum(c, u) = G(u)[u]
    BY Zenon, <1>3 DEF Sum
  <2>2. u \in SUBSET s /\ u \in SUBSET S
    BY Zenon, <1>3, PickSmaller
  <2> HIDE DEF G, u
  <2>3. \A t \in SUBSET (s \cap u) : G(s)[t] = G(u)[t]
    BY <1>1, <2>1, <2>2, AddsAgree
  <2>4. G(s)[u] = G(u)[u]
    BY Zenon, <2>2, <2>3
  <2> QED
    BY Zenon, <1>1, <1>2, <1>3, <2>1, <2>4 DEF u
<1> QED
  BY <1>1, <1>2, <1>3

\* Every finite set has a function that adds up over its subsets.
LEMMA AddsExists ==
  ASSUME NEW S, IsFiniteSet(S), NEW c
  PROVE  \A T \in SUBSET S : \E g : Adds(g, c, T)
<1> DEFINE B == {T \in SUBSET S : ~\E g : Adds(g, c, T)}
<1> SUFFICES ASSUME B # {} PROVE FALSE
  OBVIOUS
<1>1. B \subseteq SUBSET S
  OBVIOUS
<1>2. PICK T \in B : \A U \in B : U \subseteq T => U = T
  <2> HIDE DEF B
  <2> QED
    BY <1>1, MinimalSubset
<1>3. ASSUME NEW u \in SUBSET T, u # T PROVE \E g : Adds(g, c, u)
  BY Zenon, <1>2, <1>3
<1>4. ASSUME NEW u \in SUBSET T, u # T
      PROVE  Sum(c, u) = IF u = {} THEN 0 ELSE c[Pick(u)] + Sum(c, u \ {Pick(u)})
  <2>1. u \in SUBSET S /\ \E g : Adds(g, c, u)
    BY Zenon, <1>3, <1>4
  <2>2. u # {} => \E g : Adds(g, c, u \ {Pick(u)})
    BY Zenon, <1>3, <1>4, PickSmaller
  <2> QED
    BY <2>1, <2>2, SumFromAdds
<1> DEFINE v(s) == IF s = {} THEN 0 ELSE c[Pick(s)] + Sum(c, s \ {Pick(s)})
           g == [s \in SUBSET T |-> v(s)]
<1>5. ASSUME NEW s \in SUBSET T
      PROVE  v(s) = IF s = {} THEN 0 ELSE c[Pick(s)] + g[s \ {Pick(s)}]
  <2>1. CASE s = {}
    BY Zenon, <2>1
  <2>2. CASE s # {}
    <3> DEFINE u == s \ {Pick(s)}
    <3>1. u \in SUBSET T /\ u # T
      BY Zenon, <2>2, PickSmaller
    <3> HIDE DEF u
    <3>2. g[u] = v(u) /\ v(u) = Sum(c, u)
      BY ZenonT(30), <1>4, <3>1
    <3> QED
      BY ZenonT(30), <2>2, <3>2 DEF u
  <2> QED
    BY ZenonT(30), <2>1, <2>2
<1>6. Adds(g, c, T)
  <2> DEFINE e(s) == IF s = {} THEN 0 ELSE c[Pick(s)] + g[s \ {Pick(s)}]
  <2>1. \A s \in SUBSET T : v(s) = e(s)
    BY ZenonT(30), <1>5
  <2>2. g = [s \in SUBSET T |-> e(s)]
    <3> HIDE DEF v, e
    <3> QED
      BY Zenon, <2>1
  <2> HIDE DEF g
  <2> QED
    BY ZenonT(30), <2>2 DEF Adds
<1> QED
  BY Zenon, <1>6

\* The sum over a finite set, one element picked.
LEMMA SumStep ==
  ASSUME NEW S, IsFiniteSet(S), NEW c, NEW s \in SUBSET S
  PROVE  Sum(c, s) = IF s = {} THEN 0 ELSE c[Pick(s)] + Sum(c, s \ {Pick(s)})
<1>1. \E g : Adds(g, c, s)
  BY Zenon, AddsExists
<1>2. s # {} => \E g : Adds(g, c, s \ {Pick(s)})
  BY Zenon, AddsExists, PickSmaller
<1> QED
  BY <1>1, <1>2, SumFromAdds
\* Sums of natural numbers are natural numbers.
LEMMA SumNat ==
  ASSUME NEW S, IsFiniteSet(S), NEW c \in [S -> Nat]
  PROVE  \A s \in SUBSET S : Sum(c, s) \in Nat
<1> DEFINE B == {s \in SUBSET S : Sum(c, s) \notin Nat}
<1> SUFFICES ASSUME B # {} PROVE FALSE
  OBVIOUS
<1>1. B \subseteq SUBSET S
  OBVIOUS
<1>2. PICK s \in B : \A u \in B : u \subseteq s => u = s
  <2> HIDE DEF B
  <2> QED
    BY <1>1, MinimalSubset
<1>3. Sum(c, s) = IF s = {} THEN 0 ELSE c[Pick(s)] + Sum(c, s \ {Pick(s)})
  BY SumStep
<1>4. CASE s # {}
  <2>1. c[Pick(s)] \in Nat /\ Sum(c, s \ {Pick(s)}) \in Nat
    BY <1>2, <1>4, PickSmaller
  <2> QED
    BY <1>3, <1>4, <2>1
<1> QED
  BY <1>3, <1>4

\* One more for one element of a set is one more for the set.
LEMMA SumIncrement ==
  ASSUME NEW S, IsFiniteSet(S), NEW c \in [S -> Nat], NEW d \in [S -> Nat], NEW j \in S,
         d[j] = c[j] + 1, \A k \in S \ {j} : d[k] = c[k]
  PROVE  Sum(d, S) = Sum(c, S) + 1
<1> DEFINE more(s) == IF j \in s THEN 1 ELSE 0
           B == {s \in SUBSET S : Sum(d, s) # Sum(c, s) + more(s)}
<1>1. B = {}
  <2> SUFFICES ASSUME B # {} PROVE FALSE
    OBVIOUS
  <2>1. B \subseteq SUBSET S
    OBVIOUS
  <2>2. PICK s \in B : \A u \in B : u \subseteq s => u = s
    <3> HIDE DEF B
    <3> QED
      BY <2>1, MinimalSubset
  <2> DEFINE u == s \ {Pick(s)}
  <2>3. s \in SUBSET S /\ Sum(d, s) # Sum(c, s) + more(s)
    BY Zenon
  <2>4. /\ Sum(c, s) = IF s = {} THEN 0 ELSE c[Pick(s)] + Sum(c, u)
        /\ Sum(d, s) = IF s = {} THEN 0 ELSE d[Pick(s)] + Sum(d, u)
    BY SumStep
  <2>5. s # {}
    BY <2>3, <2>4
  <2>6. Pick(s) \in s /\ Pick(s) \in S /\ u \in SUBSET S /\ u \subseteq s /\ u # s
    BY Zenon, <2>5, PickSmaller
  <2>7. Sum(d, u) = Sum(c, u) + more(u)
    BY Zenon, <2>2, <2>6
  <2>8. /\ Sum(c, u) \in Nat /\ Sum(d, u) \in Nat
        /\ c[Pick(s)] \in Nat /\ d[Pick(s)] \in Nat
    BY Zenon, <2>6, SumNat
  <2>9. d[Pick(s)] + more(u) = c[Pick(s)] + more(s)
    <3>1. CASE Pick(s) = j
      BY <2>6, <2>8, <3>1
    <3>2. CASE Pick(s) # j
      <4>1. d[Pick(s)] = c[Pick(s)] /\ (j \in u <=> j \in s)
        BY Zenon, <2>6, <3>2
      <4> QED
        BY Zenon, <4>1
    <3> QED
      BY Zenon, <3>1, <3>2
  <2>10. more(u) \in Nat /\ more(s) \in Nat
    OBVIOUS
  <2> HIDE DEF u, more
  <2> QED
    BY <2>3, <2>4, <2>5, <2>7, <2>8, <2>9, <2>10
<1>2. Sum(d, S) = Sum(c, S) + more(S)
  BY Zenon, <1>1
<1> QED
  BY Zenon, <1>2

\* The sum of zeros.
LEMMA SumZero ==
  ASSUME NEW S, IsFiniteSet(S), NEW c, \A k \in S : c[k] = 0
  PROVE  Sum(c, S) = 0
<1> DEFINE B == {s \in SUBSET S : Sum(c, s) # 0}
<1>1. B = {}
  <2> SUFFICES ASSUME B # {} PROVE FALSE
    OBVIOUS
  <2>1. B \subseteq SUBSET S
    OBVIOUS
  <2>2. PICK s \in B : \A u \in B : u \subseteq s => u = s
    <3> HIDE DEF B
    <3> QED
      BY <2>1, MinimalSubset
  <2>3. Sum(c, s) = IF s = {} THEN 0 ELSE c[Pick(s)] + Sum(c, s \ {Pick(s)})
    BY SumStep
  <2>4. s # {} => c[Pick(s)] = 0 /\ Sum(c, s \ {Pick(s)}) = 0
    BY Zenon, <2>2, PickSmaller
  <2> QED
    BY <2>3, <2>4
<1> QED
  BY Zenon, <1>1

\* There are finitely many child Jobs.
LEMMA JobIdsFinite == IsFiniteSet(JobIds)
<1> DEFINE of(i) == {<<i, k>> : k \in 0..(Replicas[i] - 1)}
           all == {of(i) : i \in RJobs}
<1>1. Len(Replicas) \in Nat /\ IsFiniteSet(RJobs)
  BY ReplicasAssumption, FS_Interval DEF RJobs
<1>2. ASSUME NEW i \in RJobs PROVE IsFiniteSet(of(i))
  <2> DEFINE ks == 0..(Replicas[i] - 1)
             f == [k \in ks |-> <<i, k>>]
  <2>1. Replicas[i] - 1 \in Int
    BY ReplicasAssumption DEF RJobs
  <2>2. IsFiniteSet(ks)
    BY <2>1, FS_Interval
  <2>3. f \in Surjection(ks, of(i))
    BY DEF Surjection
  <2> HIDE DEF f, ks
  <2> QED
    BY <2>2, <2>3, FS_Surjection
<1>3. IsFiniteSet(all)
  <2> DEFINE f == [i \in RJobs |-> of(i)]
  <2>1. f \in Surjection(RJobs, all)
    <3> HIDE DEF of
    <3> QED
      BY DEF Surjection
  <2> HIDE DEF f
  <2> QED
    BY ZenonT(30), <1>1, <2>1, FS_Surjection
<1>4. \A T \in all : IsFiniteSet(T)
  BY Zenon, <1>2
<1>5. JobIds = UNION all
  BY Zenon DEF JobIds
<1> HIDE DEF all
<1> QED
  BY <1>3, <1>4, <1>5, FS_UNION

-----------------------------------------------------------------------------
(* The budget. *)

\* A status is within the budget; single Jobs are counted only with their gate on.
WithinMax(o) ==
  /\ totalRestartsCountTowardsMax(o) <= MaxRestarts
  /\ "RestartJob" \notin Gates => \A j \in JobIds : o.jobRestartsCountTowardsMax[j] = 0

\* The parts of the total are natural numbers.
LEMMA TotalParts ==
  ASSUME NEW o \in JobSet
  PROVE  /\ totalRestartsCountTowardsMax(o) =
              o.restartsCountTowardsMax + Sum(o.jobRestartsCountTowardsMax, JobIds)
         /\ o.restartsCountTowardsMax \in Nat
         /\ Sum(o.jobRestartsCountTowardsMax, JobIds) \in Nat
         /\ MaxRestarts \in Nat
<1>1. Sum(o.jobRestartsCountTowardsMax, JobIds) \in Nat
  BY ZenonT(30), Fields, JobIdsFinite, SumNat
<1> QED
  BY <1>1, TotalDef, Fields, PolicyAssumption

\* What leaves all the counters alone stays within the budget.
LEMMA SameWithinMax ==
  ASSUME NEW o, NEW u, SameCounters(u, o), SameJobCounters(u, o), WithinMax(o)
  PROVE  WithinMax(u)
BY Zenon, TotalDef DEF SameCounters, SameJobCounters, WithinMax

\* restartJobSetActionApplier stays within the budget.
LEMMA RestartJobSetWithinMax ==
  ASSUME NEW o \in JobSet, WithinMax(o) PROVE WithinMax(restartJobSetActionApplier(o))
<1> DEFINE u == failurePolicyRecreateAll(o, TRUE)
<1>1. WithinMax(setJobSetFailedCondition(o, "ReachedMaxRestarts"))
  BY FailedKeeps, EndKeepsJobs, SameWithinMax DEF FailedReasons
<1>2. u \in JobSet /\ SameJobCounters(u, o)
      /\ u.restartsCountTowardsMax = o.restartsCountTowardsMax + 1
  BY ZenonT(30), RecreateAllType, RecreateAllKeepsJobs
<1> HIDE DEF u
<1>3. ASSUME totalRestartsCountTowardsMax(o) < MaxRestarts PROVE WithinMax(u)
  <2>1. totalRestartsCountTowardsMax(u) = totalRestartsCountTowardsMax(o) + 1
    BY <1>2, TotalParts DEF SameJobCounters
  <2>2. totalRestartsCountTowardsMax(o) \in Nat /\ MaxRestarts \in Nat
    BY TotalParts
  <2> QED
    BY <1>2, <1>3, <2>1, <2>2 DEF SameJobCounters, WithinMax
<1>4. "RestartJob" \notin Gates => totalRestartsCountTowardsMax(o) = o.restartsCountTowardsMax
  BY TotalParts, JobIdsFinite, SumZero DEF WithinMax
<1>5. \/ restartJobSetActionApplier(o) = setJobSetFailedCondition(o, "ReachedMaxRestarts")
      \/ /\ restartJobSetActionApplier(o) = u
         /\ ~("RestartJob" \in Gates /\ totalRestartsCountTowardsMax(o) >= MaxRestarts)
         /\ ~(o.restartsCountTowardsMax >= MaxRestarts)
  BY Zenon DEF restartJobSetActionApplier, u
<1>6. totalRestartsCountTowardsMax(o) \in Nat
  BY TotalParts
<1> QED
  BY <1>1, <1>3, <1>4, <1>5, <1>6, TotalParts

\* A restart of a single Job stays within the budget, if not counted or if one is left.
LEMMA RecreateJobWithinMax ==
  ASSUME NEW o \in JobSet, WithinMax(o), NEW j \in JobIds, NEW b \in BOOLEAN,
         b => totalRestartsCountTowardsMax(o) < MaxRestarts /\ "RestartJob" \in Gates
  PROVE  WithinMax(failurePolicyRecreateJob(o, j, b))
<1> DEFINE u == failurePolicyRecreateJob(o, j, b)
           c == o.jobRestartsCountTowardsMax
           d == u.jobRestartsCountTowardsMax
<1>1. u \in JobSet /\ u.restartsCountTowardsMax = o.restartsCountTowardsMax
  BY RecreateJobType, RecreateJobKeeps DEF SameCounters
<1>2. d = [c EXCEPT ![j] = IF b THEN @ + 1 ELSE @]
  BY Zenon DEF failurePolicyRecreateJob, JobSet
<1> HIDE DEF u
<1>3. c \in [JobIds -> Nat] /\ d \in [JobIds -> Nat]
  BY Zenon, <1>1, Fields
<1>4. CASE b
  <2>1. Sum(d, JobIds) = Sum(c, JobIds) + 1
    <3> HIDE DEF c, d
    <3>1. d[j] = c[j] + 1 /\ \A k \in JobIds \ {j} : d[k] = c[k]
      BY ZenonT(30), <1>2, <1>3, <1>4
    <3> QED
      BY Zenon, <1>3, <3>1, JobIdsFinite, SumIncrement
  <2>2. totalRestartsCountTowardsMax(u) = totalRestartsCountTowardsMax(o) + 1
    BY <1>1, <2>1, TotalParts
  <2>3. totalRestartsCountTowardsMax(o) \in Nat /\ MaxRestarts \in Nat
    BY TotalParts
  <2>4. "RestartJob" \in Gates /\ totalRestartsCountTowardsMax(u) <= MaxRestarts
    BY <1>4, <2>2, <2>3
  <2> QED
    BY Zenon, <2>4 DEF WithinMax, u
<1>5. CASE ~b
  <2>1. d = c
    <3> HIDE DEF c, d
    <3> QED
      BY ZenonT(30), <1>2, <1>3, <1>5
  <2>2. totalRestartsCountTowardsMax(u) = totalRestartsCountTowardsMax(o)
    BY <1>1, <2>1, TotalParts
  <2> QED
    BY ZenonT(30), <2>1, <2>2 DEF WithinMax, u
<1> QED
  BY ZenonT(30), <1>4, <1>5

\* executeFailurePolicy stays within the budget, whichever rule and Job were found.
LEMMA FailurePolicyWithinMax ==
  ASSUME NEW o \in JobSet, WithinMax(o), NEW m \in [action : Actions, job : JobIds],
         ~ActionIsError(m.action)
  PROVE  WithinMax(executeFailurePolicy(o, m))
<1>1. ASSUME NEW r \in FailedReasons PROVE WithinMax(setJobSetFailedCondition(o, r))
  BY ZenonT(30), FailedKeeps, EndKeepsJobs, SameWithinMax
<1>2. WithinMax(restartJobSetActionApplier(o))
  BY RestartJobSetWithinMax
<1>3. WithinMax(failurePolicyRecreateAll(o, FALSE))
  <2> DEFINE u == failurePolicyRecreateAll(o, FALSE)
  <2>1. SameJobCounters(u, o) /\ u.restartsCountTowardsMax = o.restartsCountTowardsMax
    BY ZenonT(30), RecreateAllKeepsJobs
  <2> HIDE DEF u
  <2>2. WithinMax(u)
    BY ZenonT(30), <2>1, TotalDef DEF SameJobCounters, WithinMax
  <2> QED
    BY ZenonT(30), <2>2 DEF u
<1>4. WithinMax(failurePolicyRecreateJob(o, m.job, FALSE))
  BY ZenonT(30), RecreateJobWithinMax
<1>5. ASSUME "RestartJob" \in Gates PROVE WithinMax(restartJobActionApplier(o, m.job))
  <2>1. totalRestartsCountTowardsMax(o) \in Nat /\ MaxRestarts \in Nat
    BY TotalParts
  <2>2. CASE totalRestartsCountTowardsMax(o) >= MaxRestarts
    BY Zenon, <1>1, <2>2 DEF restartJobActionApplier, FailedReasons
  <2>3. CASE totalRestartsCountTowardsMax(o) < MaxRestarts
    <3>1. ~(totalRestartsCountTowardsMax(o) >= MaxRestarts)
      BY <2>1, <2>3
    <3>2. restartJobActionApplier(o, m.job) = failurePolicyRecreateJob(o, m.job, TRUE)
      BY Zenon, <3>1 DEF restartJobActionApplier
    <3> QED
      BY ZenonT(30), <1>5, <2>3, <3>2, RecreateJobWithinMax
  <2> QED
    BY <2>1, <2>2, <2>3
<1>6. m.action \in Actions /\ HasFailurePolicy \in BOOLEAN
  BY Zenon, PolicyAssumption
<1>7. /\ WithinMax(setJobSetFailedCondition(o, "FailedJobs"))
      /\ WithinMax(setJobSetFailedCondition(o, "FailJobSetAction"))
  BY Zenon, <1>1 DEF FailedReasons
<1> QED
  BY ZenonT(30), <1>2, <1>3, <1>4, <1>5, <1>6, <1>7 DEF executeFailurePolicy, Actions, ActionIsError

\* Every result of a policy stays within the budget of the copy it was computed from.
LEMMA ResultsWithinMax ==
  ASSUME TypeOK, WithinMax(jsCache), NEW u \in PolicyResults PROVE WithinMax(u)
<1>1. Prepared \in JobSet /\ now \in Nat
  BY ZenonT(30), PreparedType
<1>2. WithinMax(Prepared)
  BY PreparedKeeps, PreparedKeepsJobs, SameWithinMax
<1>3. WithinMax(Counted) /\ WithinMax(startupConditions(Counted, jobsCache))
  <2>1. WithinMax(Counted)
    BY ZenonT(30), CountedKeeps, TotalDef DEF SameJobCounters, WithinMax
  <2> QED
    BY <2>1, CountedKeeps, StartupKeeps, StartupKeepsJobs, SameWithinMax
<1>4. /\ WithinMax(setJobSetFailedCondition(Prepared, "DeadlineExceeded"))
      /\ WithinMax(setJobSetCompletedCondition(Prepared))
  BY <1>1, <1>2, FailedKeeps, CompletedKeeps, EndKeepsJobs, SameWithinMax DEF FailedReasons
<1>5. ASSUME NEW m \in Answers,
             u = resetStartTimeOnGlobalRestart(executeFailurePolicy(Prepared, m),
                                               Prepared.restarts, now)
      PROVE  WithinMax(u)
  <2> DEFINE w == executeFailurePolicy(Prepared, m)
  <2>1. w \in JobSet /\ WithinMax(w)
    BY <1>1, <1>2, AnswersType, FailurePolicyType, FailurePolicyWithinMax
  <2> HIDE DEF w
  <2>2. SameCounters(u, w) /\ SameJobCounters(u, w)
    BY <1>5, <2>1, StartTimeKeeps, SyncKeepsJobs DEF w
  <2> QED
    BY ZenonT(30), <2>1, <2>2, SameWithinMax
<1> QED
  BY <1>3, <1>4, <1>5 DEF PolicyResults

\* Every step keeps the status within the budget.
LEMMA NextWithinMax ==
  ASSUME TypeOK, WithinMax(js), [Next]_vars PROVE WithinMax(js)'
<1>1. js \in JobSet
  BY DEF TypeOK
<1>2. CASE js' = js
  BY Zenon, <1>2
<1>3. CASE js = jsCache /\ js' \in PolicyResults
  BY ZenonT(30), <1>3, ResultsWithinMax
<1>4. CASE js' = [js EXCEPT !.suspend = ~@]
  <2>1. SameCounters(js', js) /\ SameJobCounters(js', js)
    BY Zenon, <1>1, <1>4 DEF JobSet, SameCounters, SameJobCounters
  <2> QED
    BY <2>1, SameWithinMax
<1> QED
  BY ZenonT(30), <1>2, <1>3, <1>4, NextWrites

\* The restarts that count towards spec.failurePolicy.maxRestarts, of the JobSet and
\* of its Jobs together, never exceed it.
THEOREM RestartsWithinMaxCorrect == Spec => []RestartsWithinMax
<1>1. Init => WithinMax(js)
  <2> SUFFICES ASSUME Init PROVE WithinMax(js)
    OBVIOUS
  <2>1. PICK b \in BOOLEAN : js = InitialJobSet(b)
    BY Zenon DEF Init
  <2>2. /\ js \in JobSet /\ js.restartsCountTowardsMax = 0
        /\ \A j \in JobIds : js.jobRestartsCountTowardsMax[j] = 0
    BY Zenon, <2>1, InitialJobSetType DEF InitialJobSet
  <2>3. totalRestartsCountTowardsMax(js) = 0
    BY <2>2, TotalParts, JobIdsFinite, SumZero
  <2> QED
    BY <2>2, <2>3, PolicyAssumption DEF WithinMax
<1>2. TypeOK /\ WithinMax(js) /\ [Next]_vars => WithinMax(js)'
  BY Zenon, NextWithinMax
<1>3. CountersInv /\ WithinMax(js) => RestartsWithinMax
  BY DEF CountersInv, StatusInv, WithinMax, RestartsWithinMax
<1> QED
  BY <1>1, <1>2, <1>3, TypeCorrect, CountersCorrect, PTL DEF Spec

-----------------------------------------------------------------------------
(* The Jobs of one replicatedJob. *)

\* A replicatedJob has as many Jobs as replicas.
LEMMA RJobCount ==
  ASSUME NEW i \in RJobs
  PROVE  IsFiniteSet(OfRJob(JobIds, i)) /\ Cardinality(OfRJob(JobIds, i)) = Replicas[i]
<1>1. Replicas[i] \in Nat /\ Replicas[i] >= 1
  BY ReplicasAssumption DEF RJobs
<1> DEFINE n == Replicas[i]
           T == OfRJob(JobIds, i)
           f == [k \in 0..(n - 1) |-> <<i, k>>]
<1>2. T = {<<i, k>> : k \in 0..(n - 1)}
  BY DEF OfRJob, JobIds
<1>3. f \in Bijection(0..(n - 1), T)
  <2>1. f \in [0..(n - 1) -> T]
    BY Zenon, <1>2
  <2>2. \A a, b \in 0..(n - 1) : f[a] = f[b] => a = b
    OBVIOUS
  <2>3. \A t \in T : \E a \in 0..(n - 1) : f[a] = t
    BY Zenon, <1>2
  <2> HIDE DEF f, T
  <2> QED
    BY ZenonT(30), <2>1, <2>2, <2>3 DEF Bijection, Injection, Surjection, IsInjective
<1>4. IsFiniteSet(0..(n - 1)) /\ Cardinality(0..(n - 1)) = n
  BY SMTT(30), <1>1, FS_Interval
<1> HIDE DEF n, T, f
<1>5. ExistsBijection(0..(n - 1), T)
  BY <1>3 DEF ExistsBijection
<1>6. IsFiniteSet(T) /\ Cardinality(T) = n
  BY ZenonT(30), <1>4, <1>5, FS_Bijection
<1> QED
  BY Zenon, <1>6 DEF n, T

\* So many Jobs of a replicatedJob are all of them.
LEMMA FullReplicas ==
  ASSUME NEW i \in RJobs, NEW S, S \subseteq JobIds, Cardinality(OfRJob(S, i)) = Replicas[i],
         NEW k \in OfRJob(JobIds, i)
  PROVE  k \in S
<1> DEFINE A == OfRJob(S, i)
           B == OfRJob(JobIds, i)
<1>1. A \subseteq B
  BY DEF OfRJob
<1>2. IsFiniteSet(B) /\ Cardinality(A) = Cardinality(B)
  BY Zenon, RJobCount
<1>3. A = B
  <2> HIDE DEF A, B
  <2> QED
    BY ZenonT(30), <1>1, <1>2, FS_Subset
<1> QED
  BY Zenon, <1>3 DEF OfRJob

=============================================================================
