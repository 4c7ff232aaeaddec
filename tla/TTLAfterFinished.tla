-------------------------- MODULE TTLAfterFinished --------------------------
(***************************************************************************)
(* Deletion of a finished JobSet after ttlSecondsAfterFinished, for JobSets *)
(* of the built-in controller and for those of an external one             *)
(* (spec.managedBy), whose status only that controller writes.  The        *)
(* decision is taken on a cached copy, while the JobSet may be edited,     *)
(* deleted and created again under the same name.  A reconcile reads the   *)
(* clock twice, once to decide and once to compute the requeue, so it is   *)
(* two steps: time, watch events and other writers may come between them.  *)
(***************************************************************************)
EXTENDS Integers

CONSTANTS
  TTLs,         \* the values of spec.ttlSecondsAfterFinished, with Nil for unset
  MaxEdits,     \* bound on the edits and re-creations by users
  MaxTime       \* bound on the clock

Nil == -1

ASSUME TTLsAssumption == TTLs \subseteq Nat \cup {Nil} /\ TTLs # {}
ASSUME TTLBoundsAssumption == MaxEdits \in Nat /\ MaxTime \in Nat

\* A JobSet; finishedAt is the transition time of its terminal condition.
JobSet == [uid : Nat \cup {Nil}, ttl : Nat \cup {Nil}, finishedAt : Nat \cup {Nil},
           deletionTimestamp : BOOLEAN]
NewJobSet(uid, ttl) == [uid |-> uid, ttl |-> ttl, finishedAt |-> Nil, deletionTimestamp |-> FALSE]
NoJobSet == NewJobSet(Nil, Nil)

\* A reconcile between its two steps: the copy it has read and what it has decided.
Idle == [copy |-> NoJobSet, expired |-> FALSE]

VARIABLES
  js,          \* the JobSet of this name on the API server, or NoJobSet
  jsCache,     \* the controller's cached copy
  pending,     \* whether watch events are on their way to the cache
  queued,      \* whether the name is in the work queue, due now
  wakeAt,      \* when its entry there is due after a RequeueAfter, Nil if there is none
  work,        \* the reconcile under way, or Idle
  overslept,   \* whether the last reconcile found the JobSet not expired by its first
               \* reading of the clock, and expired by the second
  now,         \* the clock
  edits        \* what has been used of MaxEdits

vars == <<js, jsCache, pending, queued, wakeAt, work, overslept, now, edits>>

Init ==
  /\ js \in {NewJobSet(0, ttl) : ttl \in TTLs}
  /\ jsCache = js /\ pending = FALSE
  /\ queued = TRUE /\ wakeAt = Nil /\ work = Idle /\ overslept = FALSE
  /\ now = 0 /\ edits = 0

Write(o) == js' = o /\ pending' = TRUE

-----------------------------------------------------------------------------
(* Reconcile, as far as it concerns a finished JobSet. *)

jobSetFinished(o) == o.finishedAt # Nil
getJobSetFinishAndExpireTime(o) == o.finishedAt + o.ttl
checkIfTTLExpired(o, t) == o.ttl # Nil /\ getJobSetFinishAndExpireTime(o) <= t

\* The copy under decision: present, not being deleted, and finished.
Eligible(o) == o # NoJobSet /\ ~o.deletionTimestamp /\ jobSetFinished(o)

\* The name becomes due at once; a RequeueAfter it was waiting for is dropped.
Enqueue == queued' = TRUE /\ wakeAt' = Nil

\* Mutant: the delete names the JobSet and carries no precondition.
NoPreconditionMutant(fails) ==
  IF js # NoJobSet /\ ~fails
  THEN Write([js EXCEPT !.deletionTimestamp = TRUE]) /\ UNCHANGED <<queued, wakeAt>>
  ELSE Enqueue /\ UNCHANGED <<js, pending>>

\* Mutant: a delete that fails is not tried again.
NoRetryMutant(fails) ==
  /\ IF js = work.copy /\ ~fails
     THEN Write([js EXCEPT !.deletionTimestamp = TRUE])
     ELSE UNCHANGED <<js, pending>>
  /\ UNCHANGED <<queued, wakeAt>>

\* The delete carries the UID and the resource version of the copy that was read, and
\* is refused when they are no longer those of the JobSet; it may fail anyway.
deleteJobSet(fails) ==
  IF js = work.copy /\ ~fails
  THEN Write([js EXCEPT !.deletionTimestamp = TRUE]) /\ UNCHANGED <<queued, wakeAt>>
  ELSE Enqueue /\ UNCHANGED <<js, pending>>

\* The first reading of the clock, for a copy that is finished and has a TTL; any
\* other copy ends the reconcile.
Reconcile ==
  /\ queued /\ work = Idle
  /\ queued' = FALSE /\ overslept' = FALSE
  /\ work' = IF Eligible(jsCache) /\ jsCache.ttl # Nil
             THEN [copy |-> jsCache, expired |-> checkIfTTLExpired(jsCache, now)]
             ELSE Idle
  /\ UNCHANGED <<js, jsCache, pending, wakeAt, now, edits>>

DeleteExpired(fails) ==
  /\ work # Idle /\ work.expired
  /\ deleteJobSet(fails)
  /\ work' = Idle
  /\ UNCHANGED <<jsCache, overslept, now, edits>>

\* The second reading: a requeueAfter that is not positive is no requeue, and a name
\* that is due already stays so.
requeueJobSetAfter ==
  /\ work # Idle /\ ~work.expired
  /\ LET requeueAfter == getJobSetFinishAndExpireTime(work.copy) - now
     IN  /\ wakeAt' = IF requeueAfter > 0 /\ ~queued THEN now + requeueAfter ELSE wakeAt
         /\ overslept' = (requeueAfter <= 0)
  /\ work' = Idle
  /\ UNCHANGED <<js, jsCache, pending, queued, now, edits>>

executeTTLAfterFinishedPolicy(fails) == DeleteExpired(fails) \/ requeueJobSetAfter

-----------------------------------------------------------------------------
(* The informer, the clock, and everyone else. *)

Sync ==
  /\ pending
  /\ jsCache' = js /\ pending' = FALSE
  /\ Enqueue
  /\ UNCHANGED <<js, work, overslept, now, edits>>

Tick ==
  /\ now < MaxTime
  /\ now' = now + 1
  /\ IF wakeAt # Nil /\ wakeAt <= now'
     THEN Enqueue
     ELSE UNCHANGED <<wakeAt, queued>>
  /\ UNCHANGED <<js, jsCache, pending, work, overslept, edits>>

\* The controller of the JobSet records a terminal condition.
Finish ==
  /\ js # NoJobSet /\ ~js.deletionTimestamp /\ ~jobSetFinished(js)
  /\ Write([js EXCEPT !.finishedAt = now])
  /\ UNCHANGED <<jsCache, queued, wakeAt, work, overslept, now, edits>>

\* Foreground deletion is over once the dependents are gone.
Removed ==
  /\ js # NoJobSet /\ js.deletionTimestamp
  /\ Write(NoJobSet)
  /\ UNCHANGED <<jsCache, queued, wakeAt, work, overslept, now, edits>>

UserEditsTTL ==
  /\ js # NoJobSet /\ edits < MaxEdits
  /\ \E ttl \in TTLs \ {js.ttl} : Write([js EXCEPT !.ttl = ttl])
  /\ edits' = edits + 1
  /\ UNCHANGED <<jsCache, queued, wakeAt, work, overslept, now>>

\* A user has the JobSet deleted and creates another one of the same name, or
\* creates one after the last was deleted; edits makes the UID new.
UserRecreates ==
  /\ edits < MaxEdits
  /\ edits' = edits + 1
  /\ \E ttl \in TTLs : Write(NewJobSet(edits', ttl))
  /\ UNCHANGED <<jsCache, queued, wakeAt, work, overslept, now>>

Next ==
  \/ Reconcile
  \/ \E fails \in BOOLEAN : executeTTLAfterFinishedPolicy(fails)
  \/ Sync \/ Tick \/ Finish \/ Removed \/ UserEditsTTL \/ UserRecreates

Spec == Init /\ [][Next]_vars

\* The work queue hands out what is in it, a reconcile goes on, and not every delete
\* fails (strong fairness: between two attempts none is under way); watch events
\* arrive, the clock runs, and deletions finish.
FairSpec ==
  /\ Spec
  /\ WF_vars(Reconcile) /\ SF_vars(executeTTLAfterFinishedPolicy(FALSE))
  /\ WF_vars(Sync) /\ WF_vars(Tick) /\ WF_vars(Removed)

-----------------------------------------------------------------------------

\* The JobSet and its cached copy keep their type.
TypeOK ==
  /\ js \in JobSet /\ jsCache \in JobSet
  /\ pending \in BOOLEAN /\ queued \in BOOLEAN /\ overslept \in BOOLEAN
  /\ work \in [copy : JobSet, expired : BOOLEAN]
  /\ wakeAt \in Nat \cup {Nil} /\ now \in Nat /\ edits \in Nat

\* The controller deletes only a JobSet that is finished and whose current TTL
\* has expired: a decision taken on a cached copy never deletes a JobSet that was
\* edited or re-created since.
NotDeletedEarly ==
  [][js'.deletionTimestamp /\ ~js.deletionTimestamp =>
       js'.uid = js.uid /\ jobSetFinished(js) /\ checkIfTTLExpired(js, now)]_vars

\* A finished JobSet whose TTL has expired does not stay: it is deleted, or its TTL is
\* extended; unless it expired between the two clock readings of the last reconcile,
\* which then neither deletes nor requeues it (executeTTLAfterFinishedPolicy and its
\* callers, which drop a requeueAfter that is not positive).
ExpiredIsDeleted == []<>(~(Eligible(js) /\ checkIfTTLExpired(js, now)) \/ overslept)

=============================================================================
