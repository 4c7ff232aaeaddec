----------------------- MODULE TTLAfterFinishedProofs -----------------------
(***************************************************************************)
(* Proofs about TTLAfterFinished, for every set of TTLs and any number of  *)
(* edits and re-creations: the types, and that no JobSet is deleted early. *)
(***************************************************************************)
EXTENDS TTLAfterFinished, TLAPS

\* Changes of one field of a JobSet.
LEMMA FieldType ==
  ASSUME NEW o \in JobSet, NEW v \in Nat \cup {Nil}
  PROVE  /\ [o EXCEPT !.deletionTimestamp = TRUE] \in JobSet
         /\ [o EXCEPT !.finishedAt = v] \in JobSet
         /\ [o EXCEPT !.ttl = v] \in JobSet
BY Zenon DEF JobSet

\* A JobSet as it is created.
LEMMA NewType ==
  ASSUME NEW uid \in Nat \cup {Nil}, NEW ttl \in Nat \cup {Nil}
  PROVE  NewJobSet(uid, ttl) \in JobSet
BY DEF NewJobSet, JobSet

\* No reconcile is under way.
LEMMA IdleType == Idle \in [copy : JobSet, expired : BOOLEAN]
<1>1. NoJobSet \in JobSet
  BY NewType DEF NoJobSet, Nil
<1> QED
  BY Zenon, <1>1 DEF Idle

\* Every step keeps the types.
LEMMA NextType ==
  ASSUME TypeOK, [Next]_vars PROVE TypeOK'
<1> USE TTLsAssumption
<1>1. CASE Reconcile
  <2>1. work' \in [copy : JobSet, expired : BOOLEAN]
    <3>1. Idle \in [copy : JobSet, expired : BOOLEAN]
      BY IdleType
    <3>2. [copy |-> jsCache, expired |-> checkIfTTLExpired(jsCache, now)]
            \in [copy : JobSet, expired : BOOLEAN]
      BY Zenon DEF TypeOK, checkIfTTLExpired
    <3> QED
      BY Zenon, <1>1, <3>1, <3>2 DEF Reconcile
  <2> QED
    BY Zenon, <1>1, <2>1 DEF Reconcile, TypeOK
<1>2. ASSUME NEW fails \in BOOLEAN, DeleteExpired(fails) PROVE TypeOK'
  <2>1. /\ js' \in JobSet /\ pending' \in BOOLEAN
        /\ queued' \in BOOLEAN /\ wakeAt' \in Nat \cup {Nil}
    BY Zenon, <1>2, FieldType DEF DeleteExpired, deleteJobSet, Enqueue, Write, TypeOK, Nil
  <2> QED
    BY Zenon, <1>2, <2>1, IdleType DEF DeleteExpired, TypeOK
<1>3. CASE requeueJobSetAfter
  <2> DEFINE requeueAfter == getJobSetFinishAndExpireTime(work.copy) - now
  <2>1. work.copy \in JobSet /\ now \in Nat
    BY Zenon DEF TypeOK
  <2>2. requeueAfter > 0 => now + requeueAfter \in Nat
    BY <2>1 DEF getJobSetFinishAndExpireTime, JobSet, Nil
  <2>3. wakeAt' \in Nat \cup {Nil}
    <3>1. wakeAt' = IF requeueAfter > 0 /\ ~queued THEN now + requeueAfter ELSE wakeAt
      BY Zenon, <1>3 DEF requeueJobSetAfter
    <3> HIDE DEF requeueAfter
    <3> QED
      BY Zenon, <2>2, <3>1 DEF TypeOK
  <2>4. overslept' \in BOOLEAN
    <3>1. overslept' = (requeueAfter <= 0)
      BY Zenon, <1>3 DEF requeueJobSetAfter
    <3>2. requeueAfter \in Int
      BY <2>1 DEF getJobSetFinishAndExpireTime, JobSet, Nil
    <3> HIDE DEF requeueAfter
    <3> QED
      BY <3>1, <3>2
  <2> QED
    BY ZenonT(30), <1>3, <2>3, <2>4, IdleType DEF requeueJobSetAfter, TypeOK
<1>9. CASE Sync
  BY Zenon, <1>9 DEF Sync, Enqueue, TypeOK
<1>10. CASE Tick
  <2>1. now' \in Nat /\ wakeAt' \in Nat \cup {Nil}
    BY <1>10 DEF Tick, Enqueue, TypeOK
  <2>2. queued' \in BOOLEAN
    BY Zenon, <1>10 DEF Tick, Enqueue, TypeOK
  <2> QED
    BY Zenon, <1>10, <2>1, <2>2 DEF Tick, TypeOK
<1>4. CASE Finish
  BY Zenon, <1>4, FieldType DEF Finish, Write, TypeOK
<1>5. CASE Removed
  BY Zenon, <1>5, NewType DEF Removed, Write, NoJobSet, TypeOK
<1>6. CASE UserEditsTTL
  <2>1. PICK ttl \in TTLs : Write([js EXCEPT !.ttl = ttl])
    BY <1>6 DEF UserEditsTTL
  <2>2. js' \in JobSet /\ pending' = TRUE
    BY Zenon, <2>1, FieldType DEF Write, TypeOK
  <2>3. edits' \in Nat
    BY <1>6 DEF UserEditsTTL, TypeOK
  <2> QED
    BY <1>6, <2>2, <2>3 DEF UserEditsTTL, TypeOK
<1>7. CASE UserRecreates
  <2>1. edits' \in Nat
    BY <1>7 DEF UserRecreates, TypeOK
  <2>2. PICK ttl \in TTLs : Write(NewJobSet(edits', ttl))
    BY <1>7 DEF UserRecreates
  <2>3. js' \in JobSet /\ pending' = TRUE
    BY <2>1, <2>2, NewType DEF Write
  <2> QED
    BY <1>7, <2>1, <2>3 DEF UserRecreates, TypeOK
<1>8. CASE UNCHANGED vars
  BY <1>8 DEF vars, TypeOK
<1> QED
  BY Zenon, <1>1, <1>2, <1>3, <1>4, <1>5, <1>6, <1>7, <1>8, <1>9, <1>10
     DEF Next, executeTTLAfterFinishedPolicy

\* The JobSet and its cached copy keep their type.
THEOREM TypeCorrect == Spec => []TypeOK
<1>1. ASSUME Init PROVE TypeOK
  <2>1. PICK ttl \in TTLs : js = NewJobSet(0, ttl)
    BY <1>1 DEF Init
  <2>2. js \in JobSet
    BY <2>1, NewType, TTLsAssumption
  <2> QED
    BY Zenon, <1>1, <2>2, IdleType DEF Init, TypeOK
<1> QED
  BY <1>1, NextType, PTL DEF Spec

\* A copy that was found expired is finished, and still expired.
WorkInv == work.expired => Eligible(work.copy) /\ checkIfTTLExpired(work.copy, now)

\* Every step keeps it: the clock only goes forward.
LEMMA NextWork ==
  ASSUME TypeOK, WorkInv, [Next]_vars PROVE WorkInv'
<1>1. CASE work' = Idle
  BY Zenon, <1>1 DEF WorkInv, Idle
<1>2. CASE work' = [copy |-> jsCache, expired |-> checkIfTTLExpired(jsCache, now)] /\ Eligible(jsCache)
           /\ now' = now
  BY Zenon, <1>2 DEF WorkInv, Eligible, jobSetFinished, checkIfTTLExpired, getJobSetFinishAndExpireTime
<1>3. CASE work' = work /\ now' \in {now, now + 1}
  <2>1. work.copy.ttl \in Nat \cup {Nil} /\ work.copy.finishedAt \in Nat \cup {Nil} /\ now \in Nat
    BY Zenon DEF TypeOK, JobSet
  <2>2. checkIfTTLExpired(work.copy, now) => checkIfTTLExpired(work.copy, now')
    BY <1>3, <2>1 DEF checkIfTTLExpired, getJobSetFinishAndExpireTime, Nil
  <2> QED
    BY Zenon, <1>3, <2>2 DEF WorkInv, Eligible, jobSetFinished, checkIfTTLExpired, getJobSetFinishAndExpireTime
<1> QED
  BY ZenonT(30), <1>1, <1>2, <1>3 DEF Next, vars, Reconcile, executeTTLAfterFinishedPolicy, DeleteExpired,
     requeueJobSetAfter, Sync, Tick, Finish, Removed, UserEditsTTL, UserRecreates

\* A step marks a JobSet for deletion only if it is finished and its TTL has expired:
\* the delete names the copy it was decided on.
LEMMA DeleteStep ==
  ASSUME TypeOK, WorkInv, [Next]_vars, js'.deletionTimestamp, ~js.deletionTimestamp
  PROVE  js'.uid = js.uid /\ jobSetFinished(js) /\ checkIfTTLExpired(js, now)
<1>1. PICK fails \in BOOLEAN : DeleteExpired(fails)
  <2>1. js' # js
    OBVIOUS
  <2>2. ~Finish
    BY DEF Finish, Write, TypeOK, JobSet
  <2>3. ~Removed
    BY DEF Removed
  <2>4. ~UserEditsTTL
    BY DEF UserEditsTTL, Write, TypeOK, JobSet
  <2>5. ~UserRecreates
    BY DEF UserRecreates, Write, NewJobSet
  <2> QED
    BY Zenon, <2>1, <2>2, <2>3, <2>4, <2>5
       DEF Next, vars, Reconcile, executeTTLAfterFinishedPolicy, requeueJobSetAfter, Sync, Tick
<1>2. /\ js = work.copy /\ js' = [js EXCEPT !.deletionTimestamp = TRUE]
      /\ Eligible(work.copy) /\ checkIfTTLExpired(work.copy, now)
  BY <1>1 DEF DeleteExpired, deleteJobSet, Write, WorkInv
<1> QED
  BY <1>2 DEF Eligible, TypeOK, JobSet

\* A decision on a cached copy never deletes a JobSet that was edited or re-created
\* since, whatever happens between the decision and the delete.
THEOREM NotDeletedEarlyCorrect == Spec => NotDeletedEarly
<1>1. Init => WorkInv
  <2>1. ~Idle.expired
    BY Zenon DEF Idle
  <2> QED
    BY Zenon, <2>1 DEF Init, WorkInv
<1>2. TypeOK /\ WorkInv /\ [Next]_vars => WorkInv'
  BY NextWork
<1>3. TypeOK /\ WorkInv /\ [Next]_vars =>
        [js'.deletionTimestamp /\ ~js.deletionTimestamp =>
           js'.uid = js.uid /\ jobSetFinished(js) /\ checkIfTTLExpired(js, now)]_vars
  BY DeleteStep
<1> QED
  BY <1>1, <1>2, <1>3, TypeCorrect, PTL DEF Spec, NotDeletedEarly

=============================================================================
