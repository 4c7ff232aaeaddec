---------------------- MODULE SchedulingObjectsProofs ----------------------
(***************************************************************************)
(* Types of the scheduling objects, for every set of Jobs, configurations  *)
(* and sizes: what the controller compiles, patches and marks stays a      *)
(* Workload and PodGroups that the API server accepts.                     *)
(***************************************************************************)
EXTENDS SchedulingObjects, TLAPS

JobSetType == [suspend : BOOLEAN, config : Configs, size : Sizes,
               finished : BOOLEAN, suspended : BOOLEAN, started : BOOLEAN]
JobType == [template : Names, size : Sizes, suspended : BOOLEAN, deleting : BOOLEAN]
Stored == {d \in PodGroupSpec : ~d.gated}
GroupType == [spec : Stored, deleting : BOOLEAN]

\* A function from some of S.
Partial(f, S, T) == DOMAIN f \subseteq S /\ f = [x \in DOMAIN f |-> f[x]] /\ \A x \in DOMAIN f : f[x] \in T

TemplateMaps == UNION {[D -> Stored] : D \in SUBSET Names}
WorkloadType == [templates : TemplateMaps, deleting : BOOLEAN]

Objects(g, w) ==
  /\ Partial(g, Names, GroupType)
  /\ Partial(w, {W}, WorkloadType)

(***************************************************************************)
(* The inductive invariant: the types of the cached JobSet, of the Jobs    *)
(* and of the objects on the API server.  The cached Jobs and objects need *)
(* none, since the controller writes nothing it has not checked against    *)
(* the configuration.                                                      *)
(***************************************************************************)
SchedulingInv ==
  /\ js \in JobSetType /\ jsCache \in JobSetType
  /\ Partial(jobs, Jobs, JobType)
  /\ Objects(groups, workload)
  /\ DOMAIN pods \subseteq DOMAIN jobs
  /\ expired => js.started

\* Marking for deletion keeps PodGroups PodGroups.
LEMMA MarkGroups ==
  ASSUME NEW g, Partial(g, Names, GroupType), NEW S PROVE Partial(MarkDeleted(g, S), Names, GroupType)
<1>1. \A group \in GroupType : [group EXCEPT !.deleting = TRUE] \in GroupType
  BY ZenonT(30) DEF GroupType
<1> QED
  BY Zenon, <1>1 DEF Partial, MarkDeleted

\* Likewise Jobs.
LEMMA MarkJobs ==
  ASSUME NEW f, Partial(f, Jobs, JobType), NEW S PROVE Partial(MarkDeleted(f, S), Jobs, JobType)
<1>1. \A job \in JobType : [job EXCEPT !.deleting = TRUE] \in JobType
  BY ZenonT(30) DEF JobType
<1> QED
  BY Zenon, <1>1 DEF Partial, MarkDeleted

\* The compiled spec of a PodGroup.
LEMMA PodSpecType ==
  ASSUME NEW s \in JobSetType
  PROVE  podSpec(s) \in PodGroupSpec /\ StoredSpec(podSpec(s)) \in Stored
         /\ podSpec(s).min \in Sizes \cup {0}
BY Zenon, SchedulingAssumption DEF JobSetType, podSpec, PodGroupSpec, StoredSpec, Stored

\* The templates of a Workload, one by one.
LEMMA TemplateMap ==
  ASSUME NEW f
  PROVE  f \in TemplateMaps <=> Partial(f, Names, Stored)
<1>1. ASSUME f \in TemplateMaps PROVE Partial(f, Names, Stored)
  BY <1>1 DEF TemplateMaps, Partial
<1>2. ASSUME Partial(f, Names, Stored) PROVE f \in TemplateMaps
  <2>1. f \in [DOMAIN f -> Stored] /\ DOMAIN f \in SUBSET Names
    BY <1>2 DEF Partial
  <2> QED
    BY Zenon, <2>1 DEF TemplateMaps
<1> QED
  BY <1>1, <1>2

\* The Workload as the API server stores it.
LEMMA StoredWorkloadType ==
  ASSUME NEW s \in JobSetType PROVE StoredWorkload(buildWorkload(s)) \in WorkloadType
<1> DEFINE T == Templates(s.config)
           d == podSpec(s)
           f == [t \in T |-> d]
           b == buildWorkload(s)
<1>1. T \subseteq Names
  BY DEF JobSetType, Templates, Names
<1>2. d \in PodGroupSpec
  BY PodSpecType
<1>3. b \in [templates : {f}, deleting : BOOLEAN]
  BY DEF buildWorkload
<1>4. [d EXCEPT !.gated = FALSE] \in Stored
  BY Zenon, <1>2 DEF PodGroupSpec, Stored
<1> DEFINE e == [t \in DOMAIN b.templates |-> [b.templates[t] EXCEPT !.gated = FALSE]]
<1>5. e \in TemplateMaps
  <2>1. b.templates = f
    BY <1>3
  <2> HIDE DEF T, d, b
  <2>2. e = [t \in T |-> [d EXCEPT !.gated = FALSE]]
    BY Zenon, <2>1
  <2>3. e \in [T -> Stored]
    BY <1>4, <2>2
  <2> HIDE DEF e
  <2> QED
    BY Zenon, <1>1, <2>3 DEF TemplateMaps
<1>6. StoredWorkload(b) = [b EXCEPT !.templates = e]
  BY DEF StoredWorkload
<1> HIDE DEF b, e, f
<1>7. StoredWorkload(b) \in WorkloadType
  BY Zenon, <1>3, <1>5, <1>6 DEF WorkloadType
<1> QED
  BY <1>7 DEF b

\* Marking the Workload for deletion.
LEMMA MarkWorkload ==
  ASSUME NEW g, NEW w, Objects(g, w), NEW S PROVE Objects(g, MarkDeleted(w, S))
BY Zenon DEF Objects, Partial, MarkDeleted, WorkloadType

\* deleteSchedulingObjects.
LEMMA DeletedType ==
  ASSUME NEW g, NEW w, Objects(g, w), NEW F
  PROVE  Objects(deleteSchedulingObjects(g, w, F).groups, deleteSchedulingObjects(g, w, F).workload)
<1> DEFINE h == MarkDeleted(g, DOMAIN groupsCache \ F)
           v == IF DOMAIN groupsCache \cap F = {} THEN MarkDeleted(w, DOMAIN workloadCache \ F) ELSE w
<1>1. Objects(g, v)
  BY MarkWorkload
<1>2. Partial(h, Names, GroupType)
  BY MarkGroups DEF Objects
<1> HIDE DEF h, v
<1>3. Objects(h, v)
  BY <1>1, <1>2 DEF Objects
<1> QED
  BY <1>3 DEF h, v, deleteSchedulingObjects, Result

\* The PodGroups that are created and patched, and all objects if one has drifted.
LEMMA ReconcileGroupsType ==
  ASSUME jsCache \in JobSetType, NEW w, Objects(groups, w), NEW F,
         NEW order \in Orders(Templates(jsCache.config))
  PROVE  Objects(ReconcileGroups(w, F, order).groups, ReconcileGroups(w, F, order).workload)
<1> DEFINE d == podSpec(jsCache)
           cached(t) == t \in DOMAIN groupsCache
           terminating(t) == cached(t) /\ groupsCache[t].deleting
           drifted(t) == cached(t) /\ ~EqualIgnoringMinCount(groupsCache[t].spec, d)
           updated(t) == cached(t) /\ groupsCache[t].spec.min # d.min
           refused(t) == \/ t \in F /\ (cached(t) => updated(t))
                         \/ updated(t) /\ ~(t \in DOMAIN groups /\ groups[t] = groupsCache[t])
           stops == {i \in DOMAIN order : terminating(order[i]) \/ drifted(order[i]) \/ refused(order[i])}
           first == CHOOSE i \in stops : \A k \in stops : i <= k
           done == {order[i] : i \in {i \in DOMAIN order : \A k \in stops : i < k}}
           written == [t \in DOMAIN groups \cup {t \in done : ~cached(t)} |->
                         IF t \notin DOMAIN groups THEN [spec |-> StoredSpec(d), deleting |-> FALSE]
                         ELSE IF t \in done /\ updated(t) THEN [groups[t] EXCEPT !.spec.min = d.min]
                         ELSE groups[t]]
<1>1. done \subseteq Names
  <2>1. \A i \in DOMAIN order : order[i] \in Templates(jsCache.config)
    BY DEF Orders
  <2>2. Templates(jsCache.config) \subseteq Names
    BY DEF JobSetType, Templates, Names
  <2> QED
    BY <2>1, <2>2
<1>2. StoredSpec(d) \in Stored /\ d.min \in Sizes \cup {0}
  BY PodSpecType
<1>3. ASSUME NEW x \in GroupType, NEW m \in Sizes \cup {0} PROVE [x EXCEPT !.spec.min = m] \in GroupType
  BY DEF GroupType, Stored, PodGroupSpec
<1>4. Partial(groups, Names, GroupType)
  BY DEF Objects
<1>5. [spec |-> StoredSpec(d), deleting |-> FALSE] \in GroupType
  BY <1>2 DEF GroupType
<1>6. Partial(written, Names, GroupType)
  <2> HIDE DEF done, d, cached, updated
  <2> QED
    BY ZenonT(30), <1>1, <1>2, <1>3, <1>4, <1>5 DEF Partial
<1>7. \/ ReconcileGroups(w, F, order) = Result(written, w, TRUE)
      \/ ReconcileGroups(w, F, order) = Result(written, w, FALSE)
      \/ ReconcileGroups(w, F, order) = deleteSchedulingObjects(written, w, F)
  BY Zenon DEF ReconcileGroups
<1> HIDE DEF written
<1>8. Objects(written, w)
  BY <1>6 DEF Objects
<1>9. Objects(deleteSchedulingObjects(written, w, F).groups, deleteSchedulingObjects(written, w, F).workload)
  BY <1>8, DeletedType
<1>10. ASSUME NEW ok PROVE Objects(Result(written, w, ok).groups, Result(written, w, ok).workload)
  BY <1>8 DEF Result
<1> QED
  BY Zenon, <1>7, <1>9, <1>10

\* The minCounts of a Workload of the same templates are patched.
LEMMA PatchedType ==
  ASSUME NEW w \in WorkloadType, NEW m, \A t \in DOMAIN w.templates : m[t] \in Sizes \cup {0}
  PROVE  [w EXCEPT !.templates = [t \in DOMAIN @ |-> [@[t] EXCEPT !.min = m[t]]]] \in WorkloadType
<1> DEFINE f == w.templates
           p == [t \in DOMAIN f |-> [f[t] EXCEPT !.min = m[t]]]
<1>1. ASSUME NEW d \in Stored, NEW n \in Sizes \cup {0} PROVE [d EXCEPT !.min = n] \in Stored
  BY Zenon DEF Stored, PodGroupSpec
<1>2. Partial(f, Names, Stored)
  BY TemplateMap DEF WorkloadType
<1>3. Partial(p, Names, Stored)
  <2>1. DOMAIN p = DOMAIN f /\ p = [x \in DOMAIN p |-> p[x]]
    OBVIOUS
  <2>2. ASSUME NEW t \in DOMAIN f PROVE p[t] \in Stored
    BY Zenon, <1>1, <1>2 DEF Partial
  <2> HIDE DEF p
  <2> QED
    BY <1>2, <2>1, <2>2 DEF Partial
<1>4. p \in TemplateMaps
  BY <1>3, TemplateMap
<1> HIDE DEF p
<1>5. [w EXCEPT !.templates = p] \in WorkloadType
  BY Zenon, <1>4 DEF WorkloadType
<1> QED
  BY <1>5 DEF p

\* reconcileSchedulingObjects.
LEMMA ReconciledType ==
  ASSUME jsCache \in JobSetType, Objects(groups, workload), NEW F,
         NEW order \in Orders(Templates(jsCache.config))
  PROVE  Objects(reconcileSchedulingObjects(F, order).groups,
                 reconcileSchedulingObjects(F, order).workload)
<1> DEFINE d == buildWorkload(jsCache)
           e == workloadCache[W]
           min == [t \in DOMAIN d.templates |-> d.templates[t].min]
           created == IF W \in DOMAIN workload THEN workload ELSE [w \in {W} |-> StoredWorkload(d)]
           patched == [workload EXCEPT ![W].templates =
                         [t \in DOMAIN @ |-> [@[t] EXCEPT !.min = min[t]]]]
           then(w) == ReconcileGroups(w, F, order)
           r == reconcileSchedulingObjects(F, order)
<1>1. ASSUME NEW w, Objects(groups, w) PROVE Objects(then(w).groups, then(w).workload)
  BY <1>1, ReconcileGroupsType
<1>2. Objects(groups, created)
  <2>1. StoredWorkload(d) \in WorkloadType
    BY StoredWorkloadType
  <2> HIDE DEF d
  <2>2. CASE W \notin DOMAIN workload
    BY <2>1, <2>2 DEF Objects, Partial
  <2> QED
    BY <2>2
<1>3. ASSUME CachedWorkload, ~workloadNeedsRecreation(e, d), workload = workloadCache
      PROVE  Objects(groups, patched)
  <2>1. W \in DOMAIN workload /\ workload[W] \in WorkloadType
    BY <1>3 DEF CachedWorkload, Objects, Partial
  <2>2. \A t \in DOMAIN workload[W].templates : min[t] \in Sizes \cup {0}
    <3>1. DOMAIN workload[W].templates = DOMAIN d.templates
      BY <1>3 DEF workloadNeedsRecreation
    <3>2. \A t \in DOMAIN d.templates : d.templates[t].min \in Sizes \cup {0}
      BY PodSpecType DEF buildWorkload
    <3> QED
      BY <3>1, <3>2
  <2> HIDE DEF min
  <2> DEFINE p == [workload[W] EXCEPT !.templates = [t \in DOMAIN @ |-> [@[t] EXCEPT !.min = min[t]]]]
  <2>3. p \in WorkloadType
    BY <2>1, <2>2, PatchedType
  <2>4. patched = [workload EXCEPT ![W] = p]
    BY <2>1
  <2> HIDE DEF p
  <2> QED
    BY <2>1, <2>3, <2>4 DEF Objects, Partial
<1>4. \/ r = then(created) \/ r = then(workload)
      \/ r = Result(groups, workload, TRUE) \/ r = Result(groups, workload, FALSE)
      \/ r = deleteSchedulingObjects(groups, workload, F)
      \/ /\ r = then(patched)
         /\ CachedWorkload /\ ~workloadNeedsRecreation(e, d) /\ workload = workloadCache
  BY Zenon DEF reconcileSchedulingObjects
<1> HIDE DEF then, created, patched, r
<1>5. ASSUME NEW b PROVE Objects(Result(groups, workload, b).groups, Result(groups, workload, b).workload)
  BY DEF Result
<1>6. Objects(r.groups, r.workload)
  BY Zenon, <1>1, <1>2, <1>3, <1>4, <1>5, DeletedType
<1> QED
  BY <1>6 DEF r

-----------------------------------------------------------------------------

\* The initial state.
LEMMA InitScheduling == Init => SchedulingInv
<1> SUFFICES ASSUME Init PROVE SchedulingInv
  OBVIOUS
<1>1. PICK s \in Created : js = [suspend |-> s.suspend, config |-> s.config, size |-> s.size,
                                   finished |-> FALSE, suspended |-> FALSE, started |-> FALSE]
  BY Zenon DEF Init
<1>2. js \in JobSetType
  BY <1>1, SchedulingAssumption DEF JobSetType
<1> QED
  BY <1>2 DEF Init, SchedulingInv, Partial, Objects, Empty

\* syncJobScaling, createJobs, suspendJobs and resumeJobsIfNecessary.
LEMMA ReconcileJobsType ==
  ASSUME jsCache \in JobSetType, Partial(jobs, Jobs, JobType), NEW f, ReconcileJobs(f)
  PROVE  Partial(jobs', Jobs, JobType) /\ DOMAIN jobs \subseteq DOMAIN jobs'
<1>1. ASSUME NEW job \in JobType
      PROVE  /\ [job EXCEPT !.size = jsCache.size] \in JobType
             /\ [job EXCEPT !.suspended = jsCache.suspend] \in JobType
  BY Zenon DEF JobType, JobSetType
<1>2. ASSUME NEW j \in Jobs PROVE NewJob(j) \in JobType
  <2>1. Template[jsCache.config][j] \in Names
    BY DEF Names, JobSetType
  <2> QED
    BY Zenon, <2>1 DEF NewJob, JobType, JobSetType
<1>3. ASSUME NEW F
      PROVE  /\ DOMAIN Scaled(F) = DOMAIN jobs /\ Scaled(F) = [j \in DOMAIN Scaled(F) |-> Scaled(F)[j]]
             /\ \A j \in DOMAIN jobs : Scaled(F)[j] \in JobType
  <2>1. DOMAIN Scaled(F) = DOMAIN jobs /\ Scaled(F) = [j \in DOMAIN Scaled(F) |-> Scaled(F)[j]]
    BY DEF Scaled
  <2>2. ASSUME NEW j \in DOMAIN jobs PROVE Scaled(F)[j] \in JobType
    <3>1. jobs[j] \in JobType
      BY DEF Partial
    <3>2. Scaled(F)[j] = IF j \in scaling \ F THEN [jobs[j] EXCEPT !.size = jsCache.size] ELSE jobs[j]
      BY DEF Scaled
    <3> QED
      BY Zenon, <1>1, <3>1, <3>2
  <2> QED
    BY <2>1, <2>2
<1>4. Partial(Scaled(f.scaling), Jobs, JobType)
  BY Zenon, <1>3 DEF Partial
<1> DEFINE created == missing \ f.jobs
           resumed(j) == JobsCreated(f) /\ Current(j) /\ j \notin f.jobs
           all == [j \in DOMAIN jobs \cup created |->
                     IF j \notin DOMAIN jobs THEN NewJob(j)
                     ELSE IF resumed(j)
                     THEN [Scaled({})[j] EXCEPT !.suspended = jsCache.suspend] ELSE Scaled({})[j]]
<1>6. jobs' = Scaled(f.scaling) \/ jobs' = all
  BY Zenon DEF ReconcileJobs
<1>7. DOMAIN all = DOMAIN jobs \cup created /\ all = [j \in DOMAIN all |-> all[j]]
  OBVIOUS
<1>8. ASSUME NEW j \in DOMAIN jobs \cup created PROVE all[j] \in JobType
  <2>1. all[j] = IF j \notin DOMAIN jobs THEN NewJob(j)
                 ELSE IF resumed(j)
                 THEN [Scaled({})[j] EXCEPT !.suspended = jsCache.suspend] ELSE Scaled({})[j]
    OBVIOUS
  <2>2. j \in Jobs
    BY DEF missing, Partial
  <2>3. j \in DOMAIN jobs => Scaled({})[j] \in JobType
    BY <1>3
  <2> HIDE DEF all, resumed
  <2> QED
    BY Zenon, <1>1, <1>2, <2>1, <2>2, <2>3
<1> HIDE DEF all
<1>9. DOMAIN jobs \subseteq Jobs /\ created \subseteq Jobs
  BY DEF Partial, missing
<1>10. Partial(all, Jobs, JobType)
  BY Zenon, <1>7, <1>8, <1>9 DEF Partial
<1> QED
  BY Zenon, <1>3, <1>4, <1>6, <1>7, <1>10

\* Every way to fill in the status.
LEMMA StatusType ==
  ASSUME jsCache \in JobSetType, js \in JobSetType, NEW new \in JobSetType, NEW f, updateStatus(new, f)
  PROVE  js' \in JobSetType /\ (js' = js \/ (js' = new /\ js = jsCache))
<1>1. js' = js \/ (js' = new /\ js = jsCache)
  BY Zenon DEF updateStatus
<1> QED
  BY Zenon, <1>1

\* A reconcile keeps the types, whatever its caches show.
LEMMA ReconcileScheduling ==
  ASSUME SchedulingInv, NEW f, Reconcile(f) PROVE SchedulingInv'
<1>1. /\ js \in JobSetType /\ jsCache \in JobSetType
      /\ Partial(jobs, Jobs, JobType) /\ Objects(groups, workload)
      /\ DOMAIN pods \subseteq DOMAIN jobs /\ (expired => js.started)
  BY DEF SchedulingInv
<1>2. jsCache' = jsCache /\ pods' = pods
  BY DEF Reconcile, caches
<1>3. ASSUME NEW o \in JobSetType, NEW b \in BOOLEAN
      PROVE  /\ [o EXCEPT !.finished = b] \in JobSetType /\ [o EXCEPT !.started = b] \in JobSetType
             /\ [o EXCEPT !.suspended = b] \in JobSetType
             /\ [o EXCEPT !.finished = b].started = o.started
             /\ [o EXCEPT !.started = b].started = b
             /\ [o EXCEPT !.suspended = b].started = o.started
             /\ o.suspended \in BOOLEAN /\ o.started \in BOOLEAN
  BY Zenon DEF JobSetType
<1>4. ASSUME NEW F, deleteJobs(F)
      PROVE  Partial(jobs', Jobs, JobType) /\ DOMAIN jobs \subseteq DOMAIN jobs'
  BY Zenon, <1>1, <1>4, MarkJobs DEF deleteJobs, MarkDeleted
<1>5. ASSUME js' \in JobSetType, Partial(jobs', Jobs, JobType), DOMAIN jobs \subseteq DOMAIN jobs',
             Objects(groups', workload'), expired' => js'.started
      PROVE  SchedulingInv'
  BY <1>1, <1>2, <1>5 DEF SchedulingInv, Objects, Partial
<1>6. CASE ReconcileFinished(f)
  <2>1. js' = js /\ expired' = expired
    BY Zenon, <1>6 DEF ReconcileFinished, updateStatus, ReturnError
  <2>2. Objects(groups', workload') /\ deleteJobs(f.jobs)
    <3>1. CASE UNCHANGED objects
      BY Zenon, <1>1, <1>6, <3>1 DEF ReconcileFinished, objects
    <3>2. CASE Write(deleteSchedulingObjects(groups, workload, f.objects))
      BY <1>1, <1>6, <3>2, DeletedType DEF ReconcileFinished, Write
    <3> QED
      BY Zenon, <1>6, <3>1, <3>2 DEF ReconcileFinished
  <2> QED
    BY <1>1, <1>4, <1>5, <2>1, <2>2
<1>7. CASE failJobSetOnActiveDeadline(f)
  <2> DEFINE new == [jsCache EXCEPT !.finished = TRUE]
  <2>1. new \in JobSetType /\ new.started = jsCache.started
    BY Zenon, <1>1, <1>3
  <2>2. /\ updateStatus(new, f) \/ js' = js
        /\ deleteJobs(f.jobs) /\ expired' = expired /\ groups' = groups /\ workload' = workload
    BY Zenon, <1>7 DEF failJobSetOnActiveDeadline, ReturnError, objects
  <2> HIDE DEF new
  <2>3. js' \in JobSetType /\ (js' = js \/ (js' = new /\ js = jsCache))
    BY Zenon, <1>1, <2>1, <2>2, StatusType
  <2> QED
    BY <1>1, <1>4, <1>5, <2>1, <2>2, <2>3
<1>8. CASE ReconcileSuspended(f)
  <2> DEFINE r == deleteSchedulingObjects(groups, workload, f.objects)
             s == [jsCache EXCEPT !.started = FALSE]
             new == [s EXCEPT !.suspended = TRUE]
  <2>1. s \in JobSetType
    BY Zenon, <1>1, <1>3
  <2>2. [jsCache EXCEPT !.started = FALSE, !.suspended = TRUE] = new
    BY <1>1 DEF JobSetType
  <2>3. /\ Write(r) /\ (IF r.ok THEN ReconcileJobs(f) ELSE UNCHANGED jobs)
        /\ updateStatus(new, f) \/ js' = js
        /\ expired' = (expired /\ js'.started)
    BY Zenon, <1>8, <2>2 DEF ReconcileSuspended, ReturnError
  <2> HIDE DEF s
  <2>4. new \in JobSetType
    BY Zenon, <1>3, <2>1
  <2> HIDE DEF new
  <2>5. js' \in JobSetType
    BY Zenon, <1>1, <2>3, <2>4, StatusType
  <2>6. Objects(groups', workload')
    BY <1>1, <2>3, DeletedType DEF Write
  <2> HIDE DEF r
  <2>7. Partial(jobs', Jobs, JobType) /\ DOMAIN jobs \subseteq DOMAIN jobs'
    BY <1>1, <2>3, ReconcileJobsType
  <2> QED
    BY Zenon, <1>5, <2>3, <2>5, <2>6, <2>7
<1>9. ASSUME NEW order \in Orders(Templates(jsCache.config)), ReconcileActive(f, order)
      PROVE  SchedulingInv'
  <2> DEFINE r == reconcileSchedulingObjects(f.objects, order)
             s == [jsCache EXCEPT !.started = TRUE]
             new == [s EXCEPT !.suspended = FALSE]
  <2>1. s \in JobSetType /\ s.started = TRUE
    BY Zenon, <1>1, <1>3
  <2>2. /\ Write(r) /\ expired' = expired
        /\ jobs' = jobs \/ deleteJobs(f.jobs) \/ ReconcileJobs(f)
        /\ js' = js \/ updateStatus(s, f) \/ updateStatus(new, f)
    BY Zenon, <1>9 DEF ReconcileActive, ReturnError
  <2>3. Objects(groups', workload')
    BY <1>1, <2>2, ReconciledType DEF Write
  <2> HIDE DEF r, s
  <2>4. new \in JobSetType /\ new.started = TRUE
    <3>1. new \in JobSetType /\ new.started = s.started
      BY Zenon, <1>3, <2>1
    <3> QED
      BY Zenon, <2>1, <3>1
  <2> HIDE DEF new
  <2>5. js' \in JobSetType /\ (js' = js \/ js' = s \/ js' = new)
    BY Zenon, <1>1, <2>1, <2>2, <2>4, StatusType
  <2>6. Partial(jobs', Jobs, JobType) /\ DOMAIN jobs \subseteq DOMAIN jobs'
    BY <1>1, <1>4, <2>2, ReconcileJobsType
  <2> QED
    BY <1>1, <1>5, <2>1, <2>2, <2>3, <2>4, <2>5, <2>6
<1> QED
  BY Zenon, <1>6, <1>7, <1>8, <1>9 DEF Reconcile

\* Every step keeps the types.
LEMMA NextScheduling ==
  ASSUME SchedulingInv, [Next]_vars PROVE SchedulingInv'
<1>1. /\ js \in JobSetType /\ jsCache \in JobSetType
      /\ Partial(jobs, Jobs, JobType) /\ Objects(groups, workload)
      /\ DOMAIN pods \subseteq DOMAIN jobs /\ (expired => js.started)
  BY DEF SchedulingInv
<1>2. ASSUME js' \in JobSetType, jsCache' \in JobSetType, Partial(jobs', Jobs, JobType),
             Objects(groups', workload'), DOMAIN pods' \subseteq DOMAIN jobs', expired' => js'.started
      PROVE  SchedulingInv'
  BY Zenon, <1>2 DEF SchedulingInv, Objects, Partial
<1>3. CASE UNCHANGED vars
  BY Zenon, <1>1, <1>2, <1>3 DEF vars, objects, caches
<1>4. CASE SyncJobSet
  BY Zenon, <1>1, <1>2, <1>4 DEF SyncJobSet, objects
<1>5. CASE SyncJobs \/ SyncWorkload \/ SyncGroups
  BY Zenon, <1>1, <1>2, <1>5 DEF SyncJobs, SyncWorkload, SyncGroups, objects
<1>6. CASE Expire \/ TimerFires
  BY Zenon, <1>1, <1>2, <1>6 DEF Expire, TimerFires, objects, caches
<1>7. ASSUME NEW j \in Jobs, StartPods(j) PROVE SchedulingInv'
  <2>1. DOMAIN pods' \subseteq DOMAIN pods \cup {j} /\ j \in DOMAIN jobs
    BY <1>7 DEF StartPods
  <2>2. /\ js' = js /\ jsCache' = jsCache /\ jobs' = jobs /\ groups' = groups /\ workload' = workload
        /\ expired' = expired
    BY Zenon, <1>7 DEF StartPods, objects, caches
  <2> QED
    BY Zenon, <1>1, <1>2, <2>1, <2>2
<1>8. ASSUME NEW j \in Jobs, StopPods(j) PROVE SchedulingInv'
  <2>1. DOMAIN pods' \subseteq DOMAIN pods
    BY <1>8 DEF StopPods, Without
  <2> QED
    BY Zenon, <1>1, <1>2, <1>8, <2>1 DEF StopPods, objects, caches
<1>9. ASSUME NEW j \in Jobs, JobGone(j) PROVE SchedulingInv'
  <2>1. /\ Partial(jobs', Jobs, JobType) /\ DOMAIN jobs' = DOMAIN jobs \ {j} /\ j \notin DOMAIN pods
        /\ pods' = pods
    BY <1>1, <1>9 DEF JobGone, Without, Partial
  <2> QED
    BY Zenon, <1>1, <1>2, <1>9, <2>1 DEF JobGone, objects, caches
<1>10. ASSUME NEW t \in Names, GroupGone(t) PROVE SchedulingInv'
  <2>1. Objects(groups', workload)
    BY <1>1, <1>10 DEF GroupGone, Without, Objects, Partial
  <2> QED
    BY Zenon, <1>1, <1>2, <1>10, <2>1 DEF GroupGone, caches
<1>11. CASE WorkloadGone
  <2>1. Objects(groups, workload')
    BY <1>1, <1>11 DEF WorkloadGone, Empty, Objects, Partial
  <2> QED
    BY Zenon, <1>1, <1>2, <1>11, <2>1 DEF WorkloadGone, caches
<1>12. CASE User
  <2>1. ASSUME NEW new \in JobSetType, NEW cost, Edit(new, cost), new.started = js.started PROVE SchedulingInv'
    BY Zenon, <1>1, <1>2, <2>1 DEF Edit, objects, caches
  <2>2. ASSUME NEW b \in BOOLEAN
        PROVE  [js EXCEPT !.suspend = b] \in JobSetType /\ [js EXCEPT !.suspend = b].started = js.started
    BY Zenon, <1>1 DEF JobSetType
  <2>3. ASSUME NEW n \in Sizes
        PROVE  [js EXCEPT !.size = n] \in JobSetType /\ [js EXCEPT !.size = n].started = js.started
    BY Zenon, <1>1 DEF JobSetType
  <2>4. ASSUME NEW c \in Configs
        PROVE  [js EXCEPT !.config = c] \in JobSetType /\ [js EXCEPT !.config = c].started = js.started
    BY Zenon, <1>1 DEF JobSetType
  <2> QED
    BY Zenon, <1>12, <2>1, <2>2, <2>3, <2>4 DEF User, UserSuspends, UserScales, UserReconfigures
<1> QED
  BY Zenon, <1>3, <1>4, <1>5, <1>6, <1>7, <1>8, <1>9, <1>10, <1>11, <1>12, ReconcileScheduling
  DEF Next, Sync, Cluster

\* The types follow from the invariant.
LEMMA SchedulingTypes == SchedulingInv => TypeOK
<1> SUFFICES ASSUME SchedulingInv PROVE TypeOK
  OBVIOUS
<1>1. ASSUME NEW w \in DOMAIN workload, NEW t \in DOMAIN workload[w].templates
      PROVE  workload[w].templates[t] \in PodGroupSpec /\ ~workload[w].templates[t].gated
  <2>1. workload[w].templates \in TemplateMaps
    BY DEF SchedulingInv, Objects, Partial, WorkloadType
  <2>2. Partial(workload[w].templates, Names, Stored)
    BY Zenon, <2>1, TemplateMap
  <2> QED
    BY Zenon, <2>2 DEF Partial, Stored
<1>2. ASSUME NEW t \in DOMAIN groups PROVE groups[t].spec \in PodGroupSpec /\ ~groups[t].spec.gated
  <2>1. groups[t].spec \in Stored
    BY DEF SchedulingInv, Objects, Partial, GroupType
  <2> QED
    BY Zenon, <2>1 DEF Stored
<1> QED
  BY Zenon, <1>1, <1>2 DEF SchedulingInv, TypeOK, JobSetType, Objects, Partial

(***************************************************************************)
(* What the API server holds is well typed and has no gated fields, the    *)
(* Pods are those of Jobs that exist, and no deadline has expired that did *)
(* not start, for all Jobs, configurations and sizes, however stale the    *)
(* caches the reconciles read and whichever of their API calls fail.       *)
(***************************************************************************)
THEOREM TypeCorrect == Spec => []TypeOK
<1>1. Init => SchedulingInv
  BY InitScheduling
<1>2. SchedulingInv /\ [Next]_vars => SchedulingInv'
  BY NextScheduling
<1>3. SchedulingInv => TypeOK
  BY SchedulingTypes
<1> QED
  BY <1>1, <1>2, <1>3, PTL DEF Spec

=============================================================================
