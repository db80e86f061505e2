------------------------ MODULE AcceleratorJobProofs ------------------------
(***************************************************************************)
(* Proofs about AcceleratorJob for any number of operator replicas, any    *)
(* gang size, any retry limit and any amount of lag, faults and            *)
(* disruptions: the backoff; types and what a step does to the API         *)
(* server's logs; the status, which is coherent, bounded and implements    *)
(* JobStatus; and the pods, which come after their PVC and go only with    *)
(* their attempt.                                                          *)
(***************************************************************************)
EXTENDS AcceleratorJob, TLAPS

-----------------------------------------------------------------------------
(* backoffDuration.                                                        *)

\* From the fifth counter on the cap applies: the top bit of base is past the
\* cap, or in the sign, or all bits that are left are past the cap.
LEMMA Capped ==
  ASSUME NEW k \in Nat, k >= 4
  PROVE  backoffDuration(k) = maxBackoff
<1>. DEFINE d == shl(k)
<1>1. \A i \in d : i \in 0 .. 63 /\ i - k \in 9 .. 32
  BY DEF shl, base
<1>2. CASE k <= 31
  <2>1. 32 + k \in d
    BY <1>2 DEF shl, base
  <2>2. 32 + k > 35 /\ \A j \in maxBackoff : j \in Int /\ j <= 35
    BY DEF maxBackoff
  <2>3. greater(d, maxBackoff)
    <3>1. 32 + k \in d \ maxBackoff
      BY <2>1, <2>2
    <3>. QED
      BY <2>2, <3>1 DEF greater
  <2>. QED
    BY <2>3 DEF backoffDuration
<1>3. CASE k > 31 /\ d # {}
  <2>1. PICK i \in d : TRUE
    BY <1>3
  <2>2. i \in Int /\ i > 35 /\ \A j \in maxBackoff : j \in Int /\ j <= 35
    BY <1>1, <1>3 DEF maxBackoff
  <2>3. greater(d, maxBackoff)
    <3>1. i \in d \ maxBackoff
      BY <2>1, <2>2
    <3>. QED
      BY <1>1, <2>2, <3>1 DEF greater
  <2>. QED
    BY <2>3 DEF backoffDuration
<1>4. CASE d = {}
  BY <1>4 DEF backoffDuration
<1>. QED
  BY <1>2, <1>3, <1>4

\* The first four waits: 5s, 10s, 20s and 40s.
LEMMA FirstWaits ==
  /\ backoffDuration(0) = base
  /\ backoffDuration(1) = {10, 13, 14, 15, 16, 17, 19, 26, 28, 30, 33}
  /\ backoffDuration(2) = {11, 14, 15, 16, 17, 18, 20, 27, 29, 31, 34}
  /\ backoffDuration(3) = {12, 15, 16, 17, 18, 19, 21, 28, 30, 32, 35}
<1>1. /\ shl(0) = base
      /\ shl(1) = {10, 13, 14, 15, 16, 17, 19, 26, 28, 30, 33}
      /\ shl(2) = {11, 14, 15, 16, 17, 18, 20, 27, 29, 31, 34}
      /\ shl(3) = {12, 15, 16, 17, 18, 19, 21, 28, 30, 32, 35}
  BY DEF shl, base
<1>2. /\ shl(0) # {} /\ shl(1) # {} /\ shl(2) # {} /\ shl(3) # {}
      /\ 63 \notin shl(0) /\ 63 \notin shl(1) /\ 63 \notin shl(2) /\ 63 \notin shl(3)
  BY <1>1 DEF base
<1>3. /\ ~ greater(shl(0), maxBackoff) /\ ~ greater(shl(1), maxBackoff)
      /\ ~ greater(shl(2), maxBackoff) /\ ~ greater(shl(3), maxBackoff)
  <2>1. 34 \in maxBackoff \ shl(3) /\ \A i \in shl(3) \ maxBackoff : i < 34
    BY <1>1 DEF maxBackoff
  <2>2. /\ 35 \in maxBackoff /\ \A i \in shl(0) : i < 35
        /\ \A i \in shl(1) : i < 35 /\ \A n \in shl(2) : n < 35
    BY <1>1 DEF maxBackoff, base
  <2>3. /\ 35 \notin shl(0) /\ 35 \notin shl(1) /\ 35 \notin shl(2)
    BY <1>1 DEF base
  <2>. QED
    BY <2>1, <2>2, <2>3 DEF greater, shl
<1>. QED
  BY <1>1, <1>2, <1>3 DEF backoffDuration, negative

\* What backoffDuration's comments promise, for every retry counter: the waits
\* grow from 5s to 60s, and overflow of the shift does not shorten one.
THEOREM BackoffSane == \A k \in Nat : Sane(k)
<1>. SUFFICES ASSUME NEW k \in Nat PROVE Sane(k)
  OBVIOUS
<1>1. CASE k >= 4
  <2>1. backoffDuration(k) = maxBackoff /\ backoffDuration(k + 1) = maxBackoff
    BY <1>1, Capped
  <2>2. ~ greater(base, maxBackoff)
    <3>1. 35 \in maxBackoff \ base /\ \A i \in base : i < 35
      BY DEF base, maxBackoff
    <3>. QED
      BY <3>1 DEF greater, base
  <2>3. ~ negative(maxBackoff) /\ ~ greater(maxBackoff, maxBackoff)
    BY DEF negative, greater, maxBackoff
  <2>. QED
    BY <2>1, <2>2, <2>3 DEF Sane
<1>2. CASE k = 0
  BY <1>2, FirstWaits DEF Sane, negative, greater, base, maxBackoff
<1>3. CASE k = 1
  BY <1>3, FirstWaits DEF Sane, negative, greater, base, maxBackoff
<1>4. CASE k = 2
  BY <1>4, FirstWaits DEF Sane, negative, greater, base, maxBackoff
<1>5. CASE k = 3
  <2>1. backoffDuration(4) = maxBackoff
    BY Capped
  <2>. QED
    BY <1>5, <2>1, FirstWaits DEF Sane, negative, greater, base, maxBackoff
<1>. QED
  BY <1>1, <1>2, <1>3, <1>4, <1>5

-----------------------------------------------------------------------------
(* Types.                                                                  *)

USE JobAssumption DEF Terminal

\* What a step may do to the API server: both logs only grow, and a stored
\* version never changes.
Grows ==
  /\ jobLog' \in Seq(JobObject) /\ Len(jobLog') >= Len(jobLog)
  /\ podLog' \in Seq([Members -> PodObject]) /\ Len(podLog') >= Len(podLog)
  /\ \A k \in 1 .. Len(jobLog) : jobLog'[k] = jobLog[k]
  /\ \A k \in 1 .. Len(podLog) : podLog'[k] = podLog[k]
  /\ pvc' \in BOOLEAN

\* TypeOK in parts: the API server, the caches, the reconciles in flight, and
\* the environment.
StoreTyped ==
  /\ jobLog \in Seq(JobObject) /\ Len(jobLog) > 0
  /\ podLog \in Seq([Members -> PodObject]) /\ Len(podLog) > 0
  /\ pvc \in BOOLEAN
CachesTyped ==
  /\ jobSeen \in [Operators -> 0 .. Len(jobLog)]
  /\ podSeen \in [Operators -> 1 .. Len(podLog)]
  /\ pvcSeen \in [Operators -> BOOLEAN]
WorkerTyped ==
  /\ pc \in [Operators -> PcLabels]
  /\ ver \in [Operators -> 0 .. Len(jobLog)]
  /\ lst \in [Operators -> 0 .. Len(podLog)]
  /\ todo \in [Operators -> SUBSET Members]
  /\ \A o \in Operators : /\ pc[o] # "idle" => ver[o] > 0
                          /\ pc[o] = "syncStatus" => lst[o] > 0
EnvTyped ==
  /\ pool \in BOOLEAN /\ clock \in Nat /\ leader \in Operators
  /\ faults \in Nat /\ disruptions \in Nat

\* TypeOK has these parts; a proof cites the one it needs.
LEMMA TypeParts ==
  TypeOK => StoreTyped /\ CachesTyped /\ WorkerTyped /\ EnvTyped /\ queued \in BOOLEAN
BY Zenon DEF TypeOK, StoreTyped, CachesTyped, WorkerTyped, EnvTyped

\* The logs have a latest version.
LEMMA LogLengths ==
  ASSUME TypeOK
  PROVE  /\ Len(jobLog) \in Nat \ {0} /\ Len(podLog) \in Nat \ {0}
BY TypeParts DEF StoreTyped

\* What the variables of one reconcile and of its caches refer to.
LEMMA WorkerTypes ==
  ASSUME TypeOK, NEW o \in Operators
  PROVE  /\ jobSeen[o] \in 0 .. Len(jobLog) /\ podSeen[o] \in 1 .. Len(podLog)
         /\ ver[o] \in 0 .. Len(jobLog) /\ lst[o] \in 0 .. Len(podLog)
         /\ todo[o] \in SUBSET Members
         /\ pc[o] # "idle" => ver[o] > 0
         /\ pc[o] = "syncStatus" => lst[o] > 0
<1>1. jobSeen[o] \in 0 .. Len(jobLog) /\ podSeen[o] \in 1 .. Len(podLog)
  BY TypeParts, Zenon DEF CachesTyped
<1>2. /\ ver[o] \in 0 .. Len(jobLog) /\ lst[o] \in 0 .. Len(podLog)
      /\ todo[o] \in SUBSET Members
      /\ pc[o] # "idle" => ver[o] > 0
      /\ pc[o] = "syncStatus" => lst[o] > 0
  BY TypeParts, Zenon DEF WorkerTyped
<1>. QED
  BY <1>1, <1>2, Zenon

\* The four variables of the reconciles are functions on the operators.
LEMMA WorkerFunctions ==
  ASSUME TypeOK
  PROVE  /\ pc \in [Operators -> PcLabels] /\ ver \in [Operators -> 0 .. Len(jobLog)]
         /\ lst \in [Operators -> 0 .. Len(podLog)] /\ todo \in [Operators -> SUBSET Members]
BY TypeParts, Zenon DEF WorkerTyped

\* Leaving the API server alone is a case of Grows.
LEMMA GrowsByNothing == TypeOK /\ UNCHANGED api => Grows
BY TypeParts, LogLengths DEF Grows, api, StoreTyped

\* A write of the job appends exactly one version.
LEMMA GrowsByJob ==
  ASSUME TypeOK, NEW j \in JobObject, WriteJob(j)
  PROVE  /\ Grows
         /\ Len(jobLog') = Len(jobLog) + 1 /\ job' = j
         /\ podLog' = podLog /\ pvc' = pvc
BY TypeParts DEF WriteJob, Grows, job, StoreTyped

\* A write of a pod appends exactly one version of the pods.
LEMMA GrowsByPod ==
  ASSUME TypeOK, NEW i \in Members, NEW p \in PodObject, WritePod(i, p)
  PROVE  /\ Grows
         /\ Len(podLog') = Len(podLog) + 1
         /\ jobLog' = jobLog /\ pvc' = pvc
<1>1. pods \in [Members -> PodObject]
  BY TypeParts DEF pods, StoreTyped
<1>2. [pods EXCEPT ![i] = p] \in [Members -> PodObject]
  BY <1>1
<1>. QED
  BY <1>2, TypeParts DEF WritePod, Grows, StoreTyped

\* The objects the actions write have their types.
LEMMA ObjectTypes ==
  /\ NoPod \in PodObject /\ NewJob \in JobObject
  /\ \A j \in JobObject : buildPod(j) \in PodObject
  /\ \A j \in JobObject : scheduleRetryOrFail(j) \in JobObject
<1>1. NoPod \in PodObject
  BY DEF NoPod, PodObject, PodPhases
<1>2. NewJob \in JobObject
  BY DEF NewJob, JobObject
<1>3. \A j \in JobObject : buildPod(j) \in PodObject
  BY ZenonT(60) DEF JobObject, PodObject, PodPhases, buildPod
<1>4. \A j \in JobObject : scheduleRetryOrFail(j) \in JobObject
  <2>. SUFFICES ASSUME NEW j \in JobObject
                PROVE  scheduleRetryOrFail(j) \in JobObject
    OBVIOUS
  <2>1. [j EXCEPT !.phase = "Failed", !.message = "failed",
                  !.completionTime = TRUE] \in JobObject
    BY Zenon DEF JobObject
  <2>2. ASSUME NEW n \in Nat
        PROVE  [j EXCEPT !.retryCount = n, !.phase = "Pending",
                         !.nextRetry = TRUE, !.message = "retrying"] \in JobObject
    BY Zenon DEF JobObject
  <2>3. j.retryCount \in Nat
    BY Zenon DEF JobObject
  <2>4. j.retryCount + 1 \in Nat
    BY <2>3
  <2>. QED
    BY <2>1, <2>2, <2>4, Zenon DEF scheduleRetryOrFail
<1>. QED
  BY <1>1, <1>2, <1>3, <1>4

\* The versions of the job that the writes of a reconcile are edits of.
LEMMA EditTypes ==
  ASSUME NEW j \in JobObject
  PROVE  /\ [j EXCEPT !.present = FALSE] \in JobObject
         /\ [j EXCEPT !.finalizer = TRUE, !.maxRetries = defaulted(@)] \in JobObject
         /\ [j EXCEPT !.phase = "Pending"] \in JobObject
         /\ [j EXCEPT !.nextRetry = FALSE] \in JobObject
         /\ [j EXCEPT !.deleting = TRUE, !.present = j.finalizer] \in JobObject
<1>1. defaulted(j.maxRetries) \in Nat
  BY Zenon DEF defaulted, JobObject
<1>2. \A n \in Nat : [j EXCEPT !.finalizer = TRUE, !.maxRetries = n] \in JobObject
  BY Zenon DEF JobObject
<1>3. /\ [j EXCEPT !.present = FALSE] \in JobObject
      /\ [j EXCEPT !.phase = "Pending"] \in JobObject
      /\ [j EXCEPT !.nextRetry = FALSE] \in JobObject
  BY Zenon DEF JobObject
<1>4. [j EXCEPT !.deleting = TRUE, !.present = j.finalizer] \in JobObject
  BY Zenon DEF JobObject
<1>. QED
  BY <1>1, <1>2, <1>3, <1>4, Zenon

\* aggregatePhase returns a phase of the job.
LEMMA AggregateType ==
  ASSUME NEW l PROVE aggregatePhase(l) \in {"Pending", "Running", "Succeeded", "Failed"}
BY DEF aggregatePhase

\* What syncStatusFromPods computes is a job object.
LEMMA SyncType ==
  ASSUME NEW j \in JobObject, NEW l PROVE syncStatusFromPods(j, l) \in JobObject
<1>1. CASE aggregatePhase(l) = "Failed"
  BY <1>1, ObjectTypes DEF syncStatusFromPods
<1>2. CASE aggregatePhase(l) # "Failed"
  <2>1. ASSUME NEW ph \in {"Pending", "Running", "Succeeded"},
               NEW b \in BOOLEAN, NEW c \in BOOLEAN
        PROVE  [j EXCEPT !.phase = ph, !.startTime = b, !.completionTime = c]
                 \in JobObject
    BY Zenon DEF JobObject
  <2>2. /\ (j.startTime \/ (aggregatePhase(l) = "Running" /\ j.phase # aggregatePhase(l)))
             \in BOOLEAN
        /\ (j.completionTime \/ aggregatePhase(l) = "Succeeded") \in BOOLEAN
    BY Zenon DEF JobObject
  <2>. QED
    BY <1>2, <2>1, <2>2, AggregateType, Zenon DEF syncStatusFromPods
<1>. QED
  BY <1>1, <1>2

\* A version a reconcile in flight works on is a stored job object.
LEMMA HeldType ==
  ASSUME TypeOK, NEW o \in Operators, pc[o] # "idle"
  PROVE  ver[o] \in 1 .. Len(jobLog) /\ held(o) \in JobObject
<1>1. ver[o] \in 1 .. Len(jobLog)
  BY WorkerTypes, LogLengths
<1>. QED
  BY <1>1, TypeParts DEF StoreTyped, held

\* The current objects have their types.
LEMMA CurrentType ==
  ASSUME TypeOK
  PROVE  job \in JobObject /\ pods \in [Members -> PodObject]
BY TypeParts DEF job, pods, StoreTyped

\* A DELETE of a pod writes pods of the right type.
LEMMA DeleteGrows ==
  ASSUME TypeOK, NEW i \in Members, DeletePod(i)
  PROVE  Grows /\ jobLog' = jobLog /\ pvc' = pvc
<1>1. pods[i] \in PodObject
  BY CurrentType
<1>2. [pods[i] EXCEPT !.deleting = TRUE] \in PodObject
  BY <1>1, Zenon DEF PodObject
<1>. QED
  BY <1>2, ObjectTypes, GrowsByPod DEF DeletePod

\* Every step of the specification grows the logs.
LEMMA NextGrows == TypeOK /\ [Next]_vars => Grows
<1>. SUFFICES ASSUME TypeOK, [Next]_vars PROVE Grows
  OBVIOUS
<1>1. ASSUME NEW o \in Operators, Step(o) PROVE Grows
  <2>1. CASE Reconcile(o) \/ Conflict(o) \/ getPool(o) \/ listPods(o) \/ listRetryPods(o)
    BY <2>1, GrowsByNothing, Zenon
       DEF Reconcile, Conflict, getPool, listPods, listRetryPods
  <2>2. CASE reconcileDelete(o)
    BY <2>2, GrowsByJob, EditTypes, HeldType, Zenon DEF reconcileDelete
  <2>3. CASE addFinalizer(o)
    <3>. DEFINE new == [held(o) EXCEPT !.finalizer = TRUE, !.maxRetries = defaulted(@)]
    <3>1. new \in JobObject
      BY <2>3, EditTypes, HeldType, Zenon DEF addFinalizer
    <3>2. WriteJob(new)
      BY <2>3 DEF addFinalizer
    <3>. QED
      BY <3>1, <3>2, GrowsByJob
  <2>4. CASE ensureCheckpointPVC(o)
    <3>1. jobLog' = jobLog /\ podLog' = podLog /\ pvc' \in {pvc, TRUE}
      BY <2>4, Zenon DEF ensureCheckpointPVC, api
    <3>2. pvc' \in BOOLEAN
      BY <3>1, TypeParts, Zenon DEF StoreTyped
    <3>. QED
      BY <3>1, <3>2, TypeParts, LogLengths DEF Grows, StoreTyped
  <2>5. CASE createPod(o)
    <3>1. PICK i \in todo[o] : UNCHANGED api \/ WritePod(i, buildPod(held(o)))
      BY <2>5, Zenon DEF createPod
    <3>2. i \in Members /\ buildPod(held(o)) \in PodObject
      BY <2>5, HeldType, ObjectTypes, WorkerTypes, ZenonT(60) DEF createPod
    <3>. QED
      BY <3>1, <3>2, GrowsByNothing, GrowsByPod
  <2>6. CASE setPending(o)
    BY <2>6, GrowsByJob, EditTypes, HeldType, Zenon DEF setPending
  <2>7. CASE syncStatus(o)
    BY <2>7, GrowsByJob, GrowsByNothing, SyncType, HeldType DEF syncStatus
  <2>8. CASE clearRetryTimer(o)
    BY <2>8, GrowsByJob, EditTypes, HeldType, Zenon DEF clearRetryTimer
  <2>9. CASE deleteRetryPod(o)
    <3>1. PICK i \in todo[o] : UNCHANGED api \/ DeletePod(i)
      BY <2>9 DEF deleteRetryPod
    <3>2. i \in Members
      BY WorkerTypes
    <3>. QED
      BY <3>1, <3>2, GrowsByNothing, DeleteGrows
  <2>. QED
    BY <1>1, <2>1, <2>2, <2>3, <2>4, <2>5, <2>6, <2>7, <2>8, <2>9 DEF Step
<1>2. ASSUME NEW o \in Operators,
             SyncJob(o) \/ SyncPods(o) \/ SyncPVC(o) \/ ApiError(o) \/ Crash(o)
      PROVE  Grows
  BY <1>2, GrowsByNothing, Zenon DEF SyncJob, SyncPods, SyncPVC, ApiError, Crash
<1>3. ASSUME NEW i \in Members,
             PodProgress(i) \/ PodGone(i) \/ CollectPod(i) \/ Disrupt(i)
      PROVE  Grows
  <2>1. CASE PodProgress(i)
    <3>1. pods[i] \in PodObject
      BY CurrentType
    <3>2. \A ph \in PodPhases : [pods[i] EXCEPT !.phase = ph] \in PodObject
      BY <3>1 DEF PodObject
    <3>. QED
      BY <2>1, <3>2, GrowsByPod DEF PodProgress, PodPhases
  <2>. QED
    BY <1>3, <2>1, ObjectTypes, GrowsByPod, DeleteGrows
       DEF PodGone, CollectPod, Disrupt
<1>4. CASE DeleteJob
  BY <1>4, CurrentType, EditTypes, GrowsByJob, Zenon DEF DeleteJob
<1>5. CASE PoolChanges \/ BackoffElapses \/ LeaseMoves \/ UNCHANGED vars
  BY <1>5, GrowsByNothing DEF PoolChanges, BackoffElapses, LeaseMoves, vars
<1>. QED
  BY <1>1, <1>2, <1>3, <1>4, <1>5 DEF Next

\* A version that was stored before a step is stored after it.
LEMMA GrowsKeeps ==
  ASSUME TypeOK, Grows
  PROVE  /\ \A f \in [Operators -> 0 .. Len(jobLog)] : f \in [Operators -> 0 .. Len(jobLog')]
         /\ \A f \in [Operators -> 1 .. Len(podLog)] : f \in [Operators -> 1 .. Len(podLog')]
         /\ \A f \in [Operators -> 0 .. Len(podLog)] : f \in [Operators -> 0 .. Len(podLog')]
<1>1. /\ Len(jobLog) \in Nat /\ Len(jobLog') \in Nat /\ Len(jobLog') >= Len(jobLog)
      /\ Len(podLog) \in Nat /\ Len(podLog') \in Nat /\ Len(podLog') >= Len(podLog)
  BY LogLengths DEF Grows
<1>2. /\ 0 .. Len(jobLog) \subseteq 0 .. Len(jobLog')
      /\ 1 .. Len(podLog) \subseteq 1 .. Len(podLog')
      /\ 0 .. Len(podLog) \subseteq 0 .. Len(podLog')
  BY <1>1
<1>. QED
  BY <1>2

\* Returning from Reconcile keeps the worker's types.
LEMMA ReturnType ==
  ASSUME TypeOK, Grows, NEW o \in Operators, NEW b \in BOOLEAN, Return(o, b)
  PROVE  /\ pc' \in [Operators -> PcLabels]
         /\ ver' \in [Operators -> 0 .. Len(jobLog')]
         /\ lst' \in [Operators -> 0 .. Len(podLog')]
         /\ todo' \in [Operators -> SUBSET Members]
         /\ queued' \in BOOLEAN
         /\ \A m \in Operators : /\ pc'[m] # "idle" => ver'[m] > 0
                                 /\ pc'[m] = "syncStatus" => lst'[m] > 0
<1>1. /\ ver \in [Operators -> 0 .. Len(jobLog')]
      /\ lst \in [Operators -> 0 .. Len(podLog')]
  BY GrowsKeeps, WorkerFunctions, Zenon
<1>2. 0 \in 0 .. Len(jobLog') /\ 0 \in 0 .. Len(podLog')
  BY DEF Grows
<1>3. /\ pc' \in [Operators -> PcLabels]
      /\ ver' \in [Operators -> 0 .. Len(jobLog')]
      /\ lst' \in [Operators -> 0 .. Len(podLog')]
      /\ todo' \in [Operators -> SUBSET Members]
  BY <1>1, <1>2, WorkerFunctions DEF Return, Goto, PcLabels
<1>4. queued' \in BOOLEAN
  BY TypeParts DEF Return
<1>5. \A m \in Operators : /\ pc'[m] # "idle" => ver'[m] > 0
                           /\ pc'[m] = "syncStatus" => lst'[m] > 0
  BY WorkerTypes, WorkerFunctions DEF Return, Goto
<1>. QED
  BY <1>3, <1>4, <1>5

\* The parts are types again after a step that grows the logs.
LEMMA TypeJoins ==
  ASSUME TypeOK, Grows, CachesTyped', WorkerTyped', EnvTyped', queued' \in BOOLEAN
  PROVE  TypeOK'
<1>1. Len(jobLog') > 0 /\ Len(podLog') > 0
  BY LogLengths, TypeParts DEF StoreTyped, Grows
<1>2. StoreTyped'
  BY <1>1, Zenon DEF Grows, StoreTyped
<1>. QED
  BY <1>2, Zenon DEF TypeOK, StoreTyped, CachesTyped, WorkerTyped, EnvTyped

\* What is left alone keeps its type while the logs grow.
LEMMA KeepParts ==
  ASSUME TypeOK, Grows
  PROVE  /\ UNCHANGED caches => CachesTyped'
         /\ UNCHANGED worker => WorkerTyped'
         /\ UNCHANGED env => EnvTyped'
<1>1. UNCHANGED caches => CachesTyped'
  BY GrowsKeeps, TypeParts, Zenon DEF caches, CachesTyped
<1>2. UNCHANGED worker => WorkerTyped'
  BY GrowsKeeps, TypeParts, Zenon DEF worker, WorkerTyped
<1>3. UNCHANGED env => EnvTyped'
  BY TypeParts DEF env, EnvTyped
<1>. QED
  BY <1>1, <1>2, <1>3

\* A reconcile that goes on to another point with new values of its variables.
LEMMA GotoType ==
  ASSUME TypeOK, Grows, NEW o \in Operators, NEW l \in PcLabels, Goto(o, l),
         NEW v \in 1 .. Len(jobLog), ver' = [ver EXCEPT ![o] = v],
         NEW p \in 0 .. Len(podLog), lst' = [lst EXCEPT ![o] = p],
         l = "syncStatus" => p > 0,
         NEW t \in SUBSET Members, todo' = [todo EXCEPT ![o] = t]
  PROVE  WorkerTyped'
<1>1. /\ ver \in [Operators -> 0 .. Len(jobLog')]
      /\ lst \in [Operators -> 0 .. Len(podLog')]
  BY GrowsKeeps, WorkerFunctions, Zenon
<1>2. v \in 0 .. Len(jobLog') /\ p \in 0 .. Len(podLog') /\ v > 0
  BY LogLengths DEF Grows
<1>3. /\ pc' \in [Operators -> PcLabels]
      /\ ver' \in [Operators -> 0 .. Len(jobLog')]
      /\ lst' \in [Operators -> 0 .. Len(podLog')]
      /\ todo' \in [Operators -> SUBSET Members]
  BY <1>1, <1>2, WorkerFunctions DEF Goto
<1>4. \A m \in Operators : /\ pc'[m] # "idle" => ver'[m] > 0
                           /\ pc'[m] = "syncStatus" => lst'[m] > 0
  <2>. TAKE m \in Operators
  <2>1. CASE m = o
    BY <2>1, <1>2, WorkerFunctions DEF Goto
  <2>2. CASE m # o
    BY <2>2, WorkerFunctions, WorkerTypes DEF Goto
  <2>. QED
    BY <2>1, <2>2
<1>. QED
  BY <1>3, <1>4 DEF WorkerTyped

\* ReturnType, in terms of the parts.
LEMMA ReturnParts ==
  ASSUME TypeOK, Grows, NEW o \in Operators, NEW b \in BOOLEAN, Return(o, b)
  PROVE  WorkerTyped' /\ queued' \in BOOLEAN
BY ReturnType DEF WorkerTyped

\* A step of a reconcile keeps the types.
LEMMA StepType ==
  ASSUME TypeOK, Grows, NEW o \in Operators, Step(o)
  PROVE  TypeOK'
<1>. afterPVC \in PcLabels
  BY DEF afterPVC, PcLabels
<1>. ver[o] \in 0 .. Len(jobLog) /\ lst[o] \in 0 .. Len(podLog) /\ todo[o] \in SUBSET Members
  BY WorkerTypes
<1>. SUFFICES WorkerTyped' /\ queued' \in BOOLEAN
  <2>1. UNCHANGED <<caches, env>>
    BY Zenon DEF Step, Reconcile, Conflict, reconcileDelete, addFinalizer,
           ensureCheckpointPVC, getPool, listPods, createPod, setPending,
           syncStatus, clearRetryTimer, listRetryPods, deleteRetryPod
  <2>. QED
    BY <2>1, KeepParts, TypeJoins
<1>1. CASE Reconcile(o)
  <2>1. CASE UNCHANGED worker
    BY <1>1, <2>1, KeepParts, Zenon DEF Reconcile, worker, Goto
  <2>2. CASE ~UNCHANGED worker
    <3>1. PICK l \in PcLabels \ {"syncStatus"} : Goto(o, l)
      BY <1>1, <2>2 DEF Reconcile, PcLabels, afterPVC
    <3>2. /\ ver' = [ver EXCEPT ![o] = jobSeen[o]] /\ lst' = lst /\ todo' = todo
          /\ queued' = FALSE /\ jobSeen[o] # 0
      BY <1>1, <2>2, Zenon DEF Reconcile, cached, NewJob
    <3>3. jobSeen[o] \in 1 .. Len(jobLog)
      BY <3>2, WorkerTypes, LogLengths
    <3>4. lst' = [lst EXCEPT ![o] = lst[o]] /\ todo' = [todo EXCEPT ![o] = todo[o]]
      BY <3>2, WorkerFunctions
    <3>. QED
      BY <3>1, <3>2, <3>3, <3>4, GotoType, Zenon
  <2>. QED
    BY <2>1, <2>2
<1>2. CASE Conflict(o) \/ reconcileDelete(o) \/ addFinalizer(o) \/ setPending(o) \/ syncStatus(o)
  <2>1. \E b \in BOOLEAN : Return(o, b)
    BY <1>2, Zenon DEF Conflict, reconcileDelete, addFinalizer, setPending, syncStatus
  <2>. QED
    BY <2>1, ReturnParts
<1>3. ASSUME NEW l \in PcLabels \ {"syncStatus"}, Goto(o, l), pc[o] # "idle",
             UNCHANGED <<ver, lst, queued>>,
             NEW t \in SUBSET Members, todo' = [todo EXCEPT ![o] = t]
      PROVE  WorkerTyped' /\ queued' \in BOOLEAN
  <2>1. ver[o] \in 1 .. Len(jobLog)
    BY <1>3, HeldType
  <2>2. ver' = [ver EXCEPT ![o] = ver[o]] /\ lst' = [lst EXCEPT ![o] = lst[o]]
    BY <1>3, WorkerFunctions
  <2>. QED
    BY <1>3, <2>1, <2>2, GotoType, TypeParts, Zenon
<1>4. CASE ensureCheckpointPVC(o) \/ getPool(o) \/ clearRetryTimer(o)
  <2>1. CASE \E b \in BOOLEAN : Return(o, b)
    BY <2>1, ReturnParts
  <2>2. CASE ~\E b \in BOOLEAN : Return(o, b)
    <3>1. PICK l \in {afterPVC, "listPods", "listRetry"} : Goto(o, l)
      BY <1>4, <2>2, Zenon DEF ensureCheckpointPVC, getPool, clearRetryTimer
    <3>2. UNCHANGED <<ver, lst, todo, queued>> /\ pc[o] # "idle"
      BY <1>4, <2>2, Zenon DEF ensureCheckpointPVC, getPool, clearRetryTimer
    <3>3. todo' = [todo EXCEPT ![o] = todo[o]] /\ l \in PcLabels \ {"syncStatus"}
      BY <3>2, WorkerFunctions DEF PcLabels, afterPVC
    <3>. QED
      BY <1>3, <3>1, <3>2, <3>3, Zenon
  <2>. QED
    BY <2>1, <2>2
<1>5. CASE listPods(o)
  <2>. DEFINE missing == Members \ existing(podLog[podSeen[o]])
              l == IF missing = {} THEN "syncStatus" ELSE "createPods"
  <2>1. /\ Goto(o, l) /\ lst' = [lst EXCEPT ![o] = podSeen[o]]
        /\ todo' = [todo EXCEPT ![o] = missing] /\ ver' = ver /\ queued' = queued
        /\ pc[o] # "idle"
    BY <1>5 DEF listPods
  <2>2. podSeen[o] \in 0 .. Len(podLog) /\ podSeen[o] > 0
    BY WorkerTypes, LogLengths
  <2>3. ver[o] \in 1 .. Len(jobLog) /\ ver' = [ver EXCEPT ![o] = ver[o]]
    BY <2>1, HeldType, WorkerFunctions
  <2>4. l \in PcLabels /\ missing \in SUBSET Members
    BY DEF PcLabels
  <2>. HIDE DEF missing, l
  <2>. QED
    BY <2>1, <2>2, <2>3, <2>4, GotoType, TypeParts, Zenon
<1>6. CASE createPod(o) \/ listRetryPods(o) \/ deleteRetryPod(o)
  <2>1. CASE \E b \in BOOLEAN : Return(o, b)
    BY <2>1, ReturnParts
  <2>2. CASE ~\E b \in BOOLEAN : Return(o, b)
    <3>1. UNCHANGED <<ver, lst, queued>> /\ pc[o] # "idle"
      BY <1>6, <2>2, Zenon DEF createPod, listRetryPods, deleteRetryPod
    <3>2. PICK l \in {"createPods", "setPending", "deletePods"} : Goto(o, l)
      <4>1. CASE createPod(o)
        BY <4>1, <2>2, Zenon DEF createPod
      <4>2. CASE listRetryPods(o)
        BY <4>2, <2>2, Zenon DEF listRetryPods
      <4>3. CASE deleteRetryPod(o)
        <5>1. pc[o] = "deletePods" /\ pc' = pc
          BY <4>3, <2>2, Zenon DEF deleteRetryPod
        <5>2. pc' = [pc EXCEPT ![o] = "deletePods"]
          BY <5>1, WorkerFunctions
        <5>. QED
          BY <5>2 DEF Goto
      <4>. QED
        BY <1>6, <4>1, <4>2, <4>3
    <3>3. PICK t \in SUBSET Members : todo' = [todo EXCEPT ![o] = t]
      <4>1. CASE createPod(o)
        BY <4>1, <2>2, Zenon DEF createPod
      <4>2. CASE listRetryPods(o)
        BY <4>2, <2>2, Zenon DEF listRetryPods, existing
      <4>3. CASE deleteRetryPod(o)
        BY <4>3, <2>2, Zenon DEF deleteRetryPod
      <4>. QED
        BY <1>6, <4>1, <4>2, <4>3, Zenon
    <3>. QED
      BY <1>3, <3>1, <3>2, <3>3, Zenon DEF PcLabels
  <2>. QED
    BY <2>1, <2>2
<1>. QED
  BY <1>1, <1>2, <1>4, <1>5, <1>6 DEF Step

\* Every step keeps the types.
LEMMA NextType == TypeOK /\ [Next]_vars => TypeOK'
<1>. SUFFICES ASSUME TypeOK, [Next]_vars PROVE TypeOK'
  OBVIOUS
<1>. Grows
  BY NextGrows
<1>0. faults + 1 \in Nat /\ disruptions + 1 \in Nat /\ clock + 1 \in Nat
  BY TypeParts DEF EnvTyped
<1>1. ASSUME NEW o \in Operators, Step(o) PROVE TypeOK'
  BY <1>1, StepType
<1>2. ASSUME NEW o \in Operators, SyncJob(o) \/ SyncPods(o) \/ SyncPVC(o) PROVE TypeOK'
  <2>1. api' = api /\ UNCHANGED <<worker, env>>
    BY <1>2 DEF SyncJob, SyncPods, SyncPVC
  <2>2. queued' \in BOOLEAN
    BY <1>2, TypeParts, Zenon DEF SyncJob, SyncPods, SyncPVC
  <2>3. CASE SyncJob(o)
    <3>1. jobSeen[o] + 1 \in 0 .. Len(jobLog)
      BY <2>3, WorkerTypes, LogLengths DEF SyncJob
    <3>. QED
      BY <2>1, <2>2, <2>3, <3>1, KeepParts, TypeJoins, TypeParts, Zenon
         DEF SyncJob, CachesTyped, api
  <2>4. CASE SyncPods(o)
    <3>0. podSeen[o] < Len(podLog) /\ podSeen[o] \in 1 .. Len(podLog) /\ Len(podLog) \in Nat
      BY <2>4, WorkerTypes, LogLengths DEF SyncPods
    <3>1. podSeen[o] + 1 \in 1 .. Len(podLog)
      BY <3>0
    <3>. QED
      BY <2>1, <2>2, <2>4, <3>1, KeepParts, TypeJoins, TypeParts, Zenon
         DEF SyncPods, CachesTyped, api
  <2>5. CASE SyncPVC(o)
    BY <2>1, <2>2, <2>5, KeepParts, TypeJoins, TypeParts, Zenon DEF SyncPVC, CachesTyped, api
  <2>. QED
    BY <1>2, <2>3, <2>4, <2>5
<1>3. ASSUME NEW o \in Operators, ApiError(o) \/ Crash(o) PROVE TypeOK'
  <2>1. WorkerTyped' /\ queued' \in BOOLEAN
    BY <1>3, ReturnParts, Zenon DEF ApiError, Crash
  <2>2. EnvTyped'
    BY <1>3, <1>0, TypeParts, Zenon DEF ApiError, Crash, EnvTyped
  <2>3. CachesTyped'
    <3>1. CASE ApiError(o)
      BY <3>1, KeepParts DEF ApiError
    <3>2. CASE Crash(o)
      <4>1. Len(jobLog) \in 0 .. Len(jobLog) /\ Len(podLog) \in 1 .. Len(podLog)
        BY LogLengths
      <4>2. jobLog' = jobLog /\ podLog' = podLog
        BY <3>2 DEF Crash, api
      <4>. QED
        BY <3>2, <4>1, <4>2, TypeParts DEF Crash, CachesTyped, StoreTyped
    <3>. QED
      BY <1>3, <3>1, <3>2
  <2>. QED
    BY <2>1, <2>2, <2>3, TypeJoins
<1>4. ASSUME EnvTyped', UNCHANGED <<caches, worker, queued>> PROVE TypeOK'
  <2>1. CachesTyped' /\ WorkerTyped'
    BY <1>4, KeepParts
  <2>2. queued' \in BOOLEAN
    BY <1>4, TypeParts
  <2>. QED
    BY <1>4, <2>1, <2>2, TypeJoins
<1>5. CASE LeaseMoves
  <2>1. EnvTyped' /\ queued' \in BOOLEAN /\ UNCHANGED <<caches, worker>>
    BY <1>5, <1>0, TypeParts DEF LeaseMoves, EnvTyped
  <2>. QED
    BY <2>1, KeepParts, TypeJoins
<1>6. CASE \/ \E i \in Members : PodProgress(i) \/ PodGone(i) \/ CollectPod(i)
           \/ DeleteJob \/ UNCHANGED vars
  BY <1>6, <1>4, KeepParts DEF PodProgress, PodGone, CollectPod, DeleteJob, vars
<1>7. ASSUME NEW i \in Members, Disrupt(i) PROVE TypeOK'
  <2>1. EnvTyped'
    BY <1>7, <1>0, TypeParts DEF Disrupt, EnvTyped
  <2>. QED
    BY <1>4, <1>7, <2>1 DEF Disrupt
<1>8. CASE PoolChanges \/ BackoffElapses
  <2>1. EnvTyped'
    BY <1>8, <1>0, TypeParts, Zenon DEF PoolChanges, BackoffElapses, EnvTyped
  <2>. QED
    BY <1>4, <1>8, <2>1 DEF PoolChanges, BackoffElapses
<1>. QED
  BY <1>1, <1>2, <1>3, <1>5, <1>6, <1>7, <1>8 DEF Next

\* The initial state has the types.
LEMMA InitType == Init => TypeOK
<1>. SUFFICES ASSUME Init PROVE TypeOK
  OBVIOUS
<1>1. jobLog \in Seq(JobObject) /\ Len(jobLog) = 1
  BY ObjectTypes DEF Init
<1>2. podLog \in Seq([Members -> PodObject]) /\ Len(podLog) = 1
  <2>1. [i \in Members |-> NoPod] \in [Members -> PodObject]
    BY ObjectTypes
  <2>. QED
    BY <2>1 DEF Init
<1>3. 0 \in 0 .. Len(jobLog) /\ 0 \in 0 .. Len(podLog) /\ 1 \in 1 .. Len(podLog)
  BY <1>1, <1>2
<1>4. CachesTyped /\ EnvTyped
  BY <1>3, Zenon DEF Init, CachesTyped, EnvTyped
<1>5. WorkerTyped
  BY <1>3 DEF Init, WorkerTyped, PcLabels
<1>6. Len(jobLog) > 0 /\ Len(podLog) > 0
  BY <1>1, <1>2
<1>7. pvc \in BOOLEAN /\ queued \in BOOLEAN
  BY Zenon DEF Init
<1>. QED
  BY <1>1, <1>2, <1>4, <1>5, <1>6, <1>7 DEF TypeOK, CachesTyped, WorkerTyped, EnvTyped

\* TypeOK is an invariant: caches and reconciles in flight only ever refer to
\* versions the API server has stored.
THEOREM TypeCorrect == Spec => []TypeOK
BY InitType, NextType, PTL DEF Spec

-----------------------------------------------------------------------------
(* The inductive invariant.  Status writes are safe because the version a  *)
(* reconcile writes at is the current one; so what Reconcile checked on    *)
(* its copy still holds of the stored object, and it is enough to know     *)
(* what has been checked at each point of a reconcile (InFlight) and that  *)
(* every version ever stored, which is what a stale cache can show, is     *)
(* sound (History).                                                        *)

VersionOK(j) ==
  /\ Coherent(j)
  /\ j.retryCount <= j.maxRetries
  /\ j.phase = "Failed" => j.retryCount = j.maxRetries
  /\ j.finalizer => j.maxRetries = defaulted(MaxRetries)
  /\ ~j.finalizer => /\ j.maxRetries = MaxRetries /\ j.phase = ""
                     /\ j.retryCount = 0 /\ ~j.nextRetry

History ==
  \A k \in 1 .. Len(jobLog) :
    VersionOK(jobLog[k]) /\ (jobLog[k].phase = "Succeeded" => GangSucceeded)

\* What a reconcile that got past the checks of Reconcile knows of its copy.
Open(j) == j.present /\ j.finalizer /\ j.phase \notin Terminal

Checked(l, j, ps) ==
  /\ l = "reconcileDelete" => j.present
  /\ l = "addFinalizer" => j.present /\ ~j.finalizer
  /\ l \in {"startRetry", "listRetry", "deletePods"} => Open(j) /\ j.nextRetry
  /\ l \in {"ensurePVC", "getPool", "listPods", "createPods", "setPending",
            "syncStatus"} => Open(j) /\ ~j.nextRetry
  /\ l = "setPending" => j.phase = ""
  /\ l = "syncStatus" => existing(ps) = Members

InFlight == \A o \in Operators : pc[o] # "idle" => Checked(pc[o], held(o), listed(o))

IInv == TypeOK /\ History /\ InFlight

\* One version of the job follows another: what the JobStatus steps say.
Same(a, b) == /\ b.phase = a.phase /\ b.retryCount = a.retryCount
              /\ b.nextRetry = a.nextRetry
Active(a) == a.present /\ a.phase \in {"", "Pending", "Running"} /\ ~a.nextRetry
Follows(a, b) ==
  \/ Same(a, b) /\ (b.present = a.present \/ (a.present /\ ~b.present))
  \/ /\ Active(a) /\ b.phase \in {"Pending", "Running", "Succeeded"} \ {a.phase}
     /\ b.retryCount = a.retryCount /\ b.nextRetry = a.nextRetry /\ b.present = a.present
  \/ /\ Active(a) /\ a.retryCount < defaulted(MaxRetries)
     /\ b.phase = "Pending" /\ b.retryCount = a.retryCount + 1
     /\ b.nextRetry = TRUE /\ b.present = a.present
  \/ /\ Active(a) /\ a.retryCount = defaulted(MaxRetries) /\ b.phase = "Failed"
     /\ b.retryCount = a.retryCount /\ b.nextRetry = a.nextRetry /\ b.present = a.present
  \/ /\ a.present /\ a.nextRetry /\ b.nextRetry = FALSE
     /\ b.phase = a.phase /\ b.retryCount = a.retryCount /\ b.present = a.present

\* scheduleRetryOrFail keeps an open version sound, and is a step of JobStatus.
LEMMA ScheduleSound ==
  ASSUME NEW j \in JobObject, VersionOK(j), Open(j), ~j.nextRetry
  PROVE  LET b == scheduleRetryOrFail(j)
         IN VersionOK(b) /\ b.phase # "Succeeded" /\ Follows(j, b)
<1>0. /\ j.retryCount \in Nat /\ j.maxRetries \in Nat /\ j.retryCount <= j.maxRetries
      /\ j.maxRetries = defaulted(MaxRetries) /\ ~j.completionTime
      /\ j.phase \in {"", "Pending", "Running"} /\ j.present /\ j.finalizer /\ j.nextRetry = FALSE
  BY Zenon DEF JobObject, VersionOK, Coherent, Open
<1>a. \A m, n \in Nat : /\ m <= n /\ m >= n => m = n
                        /\ m <= n /\ ~(m >= n) => m < n /\ m + 1 <= n /\ m + 1 > 0
  OBVIOUS
<1>1. CASE j.retryCount >= j.maxRetries
  <2>. DEFINE b == [j EXCEPT !.phase = "Failed", !.message = "failed", !.completionTime = TRUE]
  <2>1. scheduleRetryOrFail(j) = b
    BY <1>1 DEF scheduleRetryOrFail
  <2>2. /\ b.phase = "Failed" /\ b.completionTime = TRUE /\ b.retryCount = j.retryCount
        /\ b.message = "failed"
        /\ b.maxRetries = j.maxRetries /\ b.nextRetry = j.nextRetry
        /\ b.present = j.present /\ b.finalizer = j.finalizer
    BY Zenon DEF JobObject
  <2>3. j.retryCount = j.maxRetries
    BY <1>0, <1>1, <1>a, Zenon
  <2>. HIDE DEF b
  <2>. QED
    BY <1>0, <2>1, <2>2, <2>3, Zenon DEF VersionOK, Coherent, Follows, Active
<1>2. CASE ~(j.retryCount >= j.maxRetries)
  <2>. DEFINE b == [j EXCEPT !.retryCount = @ + 1, !.phase = "Pending",
                             !.nextRetry = TRUE, !.message = "retrying"]
  <2>1. scheduleRetryOrFail(j) = b
    BY <1>2 DEF scheduleRetryOrFail
  <2>2. /\ b.phase = "Pending" /\ b.completionTime = j.completionTime
        /\ b.retryCount = j.retryCount + 1 /\ b.message = "retrying"
        /\ b.maxRetries = j.maxRetries /\ b.nextRetry = TRUE
        /\ b.present = j.present /\ b.finalizer = j.finalizer
    BY Zenon DEF JobObject
  <2>3. j.retryCount < j.maxRetries /\ j.retryCount + 1 <= j.maxRetries /\ j.retryCount + 1 > 0
    BY <1>0, <1>2, <1>a, Zenon
  <2>. HIDE DEF b
  <2>. QED
    BY <1>0, <2>1, <2>2, <2>3, Zenon DEF VersionOK, Coherent, Follows, Active
<1>. QED
  BY <1>1, <1>2

\* aggregatePhase of a complete list is Succeeded only if every pod succeeded.
LEMMA AggregateSucceeded ==
  ASSUME NEW l, existing(l) = Members, aggregatePhase(l) = "Succeeded"
  PROVE  \A i \in Members : l[i].phase = "Succeeded"
BY DEF aggregatePhase

\* syncStatusFromPods keeps an open version sound, is a step of JobStatus, and
\* says Succeeded only of a gang that has.
LEMMA SyncSound ==
  ASSUME NEW j \in JobObject, VersionOK(j), Open(j), ~j.nextRetry,
         NEW l, existing(l) = Members
  PROVE  LET b == syncStatusFromPods(j, l)
         IN /\ VersionOK(b) /\ Follows(j, b)
            /\ b.phase = "Succeeded" => \A i \in Members : l[i].phase = "Succeeded"
<1>1. CASE aggregatePhase(l) = "Failed"
  BY <1>1, ScheduleSound DEF syncStatusFromPods
<1>2. CASE aggregatePhase(l) # "Failed"
  <2>. DEFINE ph == aggregatePhase(l)
              b == [j EXCEPT !.phase = ph,
                             !.startTime = @ \/ (ph = "Running" /\ j.phase # ph),
                             !.completionTime = @ \/ ph = "Succeeded"]
  <2>0. /\ ~j.completionTime /\ j.phase \in {"", "Pending", "Running"}
        /\ j.present /\ j.finalizer /\ j.message # "failed"
    BY Zenon DEF JobObject, VersionOK, Coherent, Open
  <2>1. syncStatusFromPods(j, l) = b
    BY <1>2 DEF syncStatusFromPods
  <2>2. ph \in {"Pending", "Running", "Succeeded"}
    BY <1>2, AggregateType
  <2>3. /\ b.phase = ph /\ b.completionTime = (j.completionTime \/ ph = "Succeeded")
        /\ b.retryCount = j.retryCount /\ b.maxRetries = j.maxRetries /\ b.message = j.message
        /\ b.nextRetry = j.nextRetry /\ b.present = j.present /\ b.finalizer = j.finalizer
    BY Zenon DEF JobObject
  <2>4. ph = "Succeeded" => \A i \in Members : l[i].phase = "Succeeded"
    BY AggregateSucceeded
  <2>. HIDE DEF b, ph
  <2>5. VersionOK(b)
    BY <2>0, <2>2, <2>3, Zenon DEF VersionOK, Coherent
  <2>6. Follows(j, b)
    BY <2>0, <2>2, <2>3, Zenon DEF Follows, Active, Same
  <2>. QED
    BY <2>1, <2>3, <2>4, <2>5, <2>6
<1>. QED
  BY <1>1, <1>2

\* The other edits of the job keep a sound version sound; each is a step of
\* JobStatus or leaves the status alone.
Good(a, b) == /\ VersionOK(b) /\ Follows(a, b)
              /\ b.phase = "Succeeded" => a.phase = "Succeeded"
LEMMA EditsSound ==
  ASSUME NEW j \in JobObject, VersionOK(j), j.present
  PROVE  /\ Good(j, [j EXCEPT !.present = FALSE])
         /\ ~j.finalizer =>
              Good(j, [j EXCEPT !.finalizer = TRUE, !.maxRetries = defaulted(@)])
         /\ Open(j) /\ ~j.nextRetry /\ j.phase = "" => Good(j, [j EXCEPT !.phase = "Pending"])
         /\ Open(j) /\ j.nextRetry => Good(j, [j EXCEPT !.nextRetry = FALSE])
         /\ Good(j, [j EXCEPT !.deleting = TRUE, !.present = j.finalizer])
<1>0. /\ j.retryCount \in Nat /\ j.maxRetries \in Nat /\ defaulted(MaxRetries) \in Nat
      /\ j.finalizer \in BOOLEAN /\ j.nextRetry \in BOOLEAN /\ j.present \in BOOLEAN
      /\ j.completionTime \in BOOLEAN
  BY Zenon DEF JobObject, defaulted
<1>1. Good(j, [j EXCEPT !.present = FALSE])
  <2>. DEFINE b == [j EXCEPT !.present = FALSE]
  <2>1. /\ b.phase = j.phase /\ b.completionTime = j.completionTime /\ b.message = j.message
        /\ b.retryCount = j.retryCount /\ b.maxRetries = j.maxRetries
        /\ b.nextRetry = j.nextRetry /\ b.present = FALSE /\ b.finalizer = j.finalizer
    BY Zenon DEF JobObject
  <2>. HIDE DEF b
  <2>3. VersionOK(b)
    BY <1>0, <2>1, Zenon DEF VersionOK, Coherent
  <2>4. Follows(j, b)
    BY <1>0, <2>1, Zenon DEF Follows, Same
  <2>5. Good(j, b)
    BY <2>1, <2>3, <2>4, Zenon DEF Good
  <2>. QED
    BY <2>5 DEF b
<1>2. ASSUME ~j.finalizer
      PROVE  Good(j, [j EXCEPT !.finalizer = TRUE, !.maxRetries = defaulted(@)])
  <2>. DEFINE b == [j EXCEPT !.finalizer = TRUE, !.maxRetries = defaulted(@)]
  <2>1. /\ b.phase = j.phase /\ b.completionTime = j.completionTime /\ b.message = j.message
        /\ b.retryCount = j.retryCount /\ b.maxRetries = defaulted(j.maxRetries)
        /\ b.nextRetry = j.nextRetry /\ b.present = j.present /\ b.finalizer = TRUE
    BY Zenon DEF JobObject
  <2>2. /\ j.maxRetries = MaxRetries /\ j.phase = "" /\ j.retryCount = 0 /\ ~j.nextRetry
    BY <1>2, Zenon DEF VersionOK
  <2>a. 0 <= defaulted(MaxRetries)
    BY <1>0
  <2>. HIDE DEF b
  <2>3. VersionOK(b)
    BY <1>0, <2>1, <2>2, <2>a, Zenon DEF VersionOK, Coherent
  <2>4. Follows(j, b)
    BY <1>0, <2>1, Zenon DEF Follows, Same
  <2>5. Good(j, b)
    BY <2>1, <2>3, <2>4, Zenon DEF Good
  <2>. QED
    BY <2>5 DEF b
<1>3. ASSUME Open(j), ~j.nextRetry, j.phase = ""
      PROVE  Good(j, [j EXCEPT !.phase = "Pending"])
  <2>. DEFINE b == [j EXCEPT !.phase = "Pending"]
  <2>1. /\ b.phase = "Pending" /\ b.completionTime = j.completionTime /\ b.message = j.message
        /\ b.retryCount = j.retryCount /\ b.maxRetries = j.maxRetries
        /\ b.nextRetry = j.nextRetry /\ b.present = j.present /\ b.finalizer = j.finalizer
    BY Zenon DEF JobObject
  <2>. HIDE DEF b
  <2>3. VersionOK(b)
    BY <1>0, <1>3, <2>1, Zenon DEF VersionOK, Coherent, Open
  <2>4. Follows(j, b)
    BY <1>0, <1>3, <2>1, Zenon DEF Follows, Active, Open
  <2>5. Good(j, b)
    BY <2>1, <2>3, <2>4, Zenon DEF Good
  <2>. QED
    BY <2>5 DEF b
<1>4. ASSUME Open(j), j.nextRetry PROVE Good(j, [j EXCEPT !.nextRetry = FALSE])
  <2>. DEFINE b == [j EXCEPT !.nextRetry = FALSE]
  <2>1. /\ b.phase = j.phase /\ b.completionTime = j.completionTime /\ b.message = j.message
        /\ b.retryCount = j.retryCount /\ b.maxRetries = j.maxRetries
        /\ b.nextRetry = FALSE /\ b.present = j.present /\ b.finalizer = j.finalizer
    BY Zenon DEF JobObject
  <2>. HIDE DEF b
  <2>3. VersionOK(b)
    BY <1>0, <1>4, <2>1, Zenon DEF VersionOK, Coherent, Open
  <2>4. Follows(j, b)
    BY <1>0, <1>4, <2>1, Zenon DEF Follows, Open
  <2>5. Good(j, b)
    BY <2>1, <2>3, <2>4, Zenon DEF Good
  <2>. QED
    BY <2>5 DEF b
<1>5. Good(j, [j EXCEPT !.deleting = TRUE, !.present = j.finalizer])
  <2>. DEFINE b == [j EXCEPT !.deleting = TRUE, !.present = j.finalizer]
  <2>1. /\ b.phase = j.phase /\ b.completionTime = j.completionTime /\ b.message = j.message
        /\ b.retryCount = j.retryCount /\ b.maxRetries = j.maxRetries
        /\ b.nextRetry = j.nextRetry /\ b.present = j.finalizer /\ b.finalizer = j.finalizer
    BY Zenon DEF JobObject
  <2>. HIDE DEF b
  <2>3. VersionOK(b)
    BY <1>0, <2>1, Zenon DEF VersionOK, Coherent
  <2>4. Follows(j, b)
    BY <1>0, <2>1, Zenon DEF Follows, Same
  <2>5. Good(j, b)
    BY <2>1, <2>3, <2>4, Zenon DEF Good
  <2>. QED
    BY <2>5 DEF b
<1>. QED
  BY <1>1, <1>2, <1>3, <1>4, <1>5, Zenon

\* The current job is one of the versions History is about.
LEMMA CurrentSound ==
  ASSUME IInv
  PROVE  /\ job \in JobObject /\ VersionOK(job)
         /\ job.phase = "Succeeded" => GangSucceeded
<1>1. TypeOK /\ History
  BY DEF IInv
<1>2. Len(jobLog) \in 1 .. Len(jobLog)
  BY <1>1, LogLengths
<1>3. VersionOK(job) /\ (job.phase = "Succeeded" => GangSucceeded)
  BY <1>1, <1>2, Zenon DEF History, job
<1>. QED
  BY <1>1, <1>3, CurrentType

\* Every step leaves the job alone or stores a sound version that follows the
\* current one: a write happens at the current version, so what the reconcile
\* checked of its copy holds of the stored job.
Stores(b) ==
  /\ jobLog' = Append(jobLog, b)
  /\ VersionOK(b) /\ Follows(job, b) /\ (b.phase = "Succeeded" => GangSucceeded)
LEMMA NextStores ==
  ASSUME IInv, [Next]_vars
  PROVE  jobLog' = jobLog \/ \E b \in JobObject : Stores(b)
<1>. USE DEF IInv
<1>0. /\ job \in JobObject /\ VersionOK(job)
      /\ job.phase = "Succeeded" => GangSucceeded
  BY CurrentSound
<1>1. ASSUME NEW b \in JobObject, WriteJob(b), Good(job, b)
      PROVE  Stores(b)
  BY <1>0, <1>1 DEF WriteJob, Good, Stores
<1>2. ASSUME NEW o \in Operators, Step(o)
      PROVE  jobLog' = jobLog \/ \E b \in JobObject : Stores(b)
  <2>0. ASSUME pc[o] # "idle", ver[o] = Len(jobLog)
        PROVE  held(o) = job /\ Checked(pc[o], job, listed(o))
    BY <2>0 DEF InFlight, held, job
  <2>1. CASE reconcileDelete(o)
    BY <1>0, <1>1, <2>0, <2>1, EditTypes, EditsSound, Zenon DEF reconcileDelete, Checked
  <2>2. CASE addFinalizer(o)
    <3>. DEFINE b == [job EXCEPT !.finalizer = TRUE, !.maxRetries = defaulted(@)]
    <3>1. WriteJob(b) /\ job.present /\ ~job.finalizer
      BY <2>0, <2>2 DEF addFinalizer, Checked
    <3>2. b \in JobObject /\ Good(job, b)
      BY <1>0, <3>1, EditTypes, EditsSound, Zenon
    <3>. QED
      BY <1>1, <3>1, <3>2
  <2>3. CASE setPending(o)
    <3>. DEFINE b == [job EXCEPT !.phase = "Pending"]
    <3>1. WriteJob(b) /\ Open(job) /\ ~job.nextRetry /\ job.phase = ""
      BY ZenonT(60), <2>0, <2>3 DEF setPending, Checked
    <3>2. b \in JobObject /\ Good(job, b)
      BY <1>0, <3>1, EditTypes, EditsSound, Zenon DEF Open
    <3>. QED
      BY <1>1, <3>1, <3>2, Zenon
  <2>4. CASE clearRetryTimer(o)
    <3>. DEFINE b == [job EXCEPT !.nextRetry = FALSE]
    <3>1. WriteJob(b) /\ Open(job) /\ job.nextRetry
      BY <2>0, <2>4 DEF clearRetryTimer, Checked
    <3>2. b \in JobObject /\ Good(job, b)
      BY <1>0, <3>1, EditTypes, EditsSound, Zenon DEF Open
    <3>. QED
      BY <1>1, <3>1, <3>2
  <2>5. CASE syncStatus(o)
    <3>. DEFINE b == syncStatusFromPods(held(o), listed(o))
    <3>1. CASE jobLog' # jobLog
      <4>1. WriteJob(b) /\ ver[o] = Len(jobLog) /\ pc[o] = "syncStatus"
        BY <2>5, <3>1 DEF syncStatus, api
      <4>2. /\ held(o) = job /\ Open(job) /\ ~job.nextRetry
            /\ existing(listed(o)) = Members
        BY <2>0, <4>1 DEF Checked
      <4>3. b \in JobObject
        BY <1>0, <4>2, SyncType
      <4>4. /\ VersionOK(b) /\ Follows(job, b)
            /\ b.phase = "Succeeded" => \A i \in Members : listed(o)[i].phase = "Succeeded"
        BY <1>0, <4>2, SyncSound
      <4>5. lst[o] \in 1 .. Len(podLog)
        BY <4>1, WorkerTypes, LogLengths
      <4>6. b.phase = "Succeeded" => GangSucceeded
        BY <4>4, <4>5 DEF GangSucceeded, listed
      <4>. HIDE DEF b
      <4>. QED
        BY <4>1, <4>3, <4>4, <4>6 DEF Stores, WriteJob
    <3>. QED
      BY <3>1
  <2>6. CASE createPod(o)
    BY <2>6, Zenon DEF createPod, WritePod, api
  <2>7. CASE deleteRetryPod(o)
    BY <2>7 DEF deleteRetryPod, DeletePod, WritePod, api
  <2>8. CASE \/ Reconcile(o) \/ Conflict(o) \/ ensureCheckpointPVC(o) \/ getPool(o)
             \/ listPods(o) \/ listRetryPods(o)
    BY <2>8, Zenon DEF Reconcile, Conflict, ensureCheckpointPVC, getPool, listPods, listRetryPods, api
  <2>. QED
    BY <1>2, <2>1, <2>2, <2>3, <2>4, <2>5, <2>6, <2>7, <2>8 DEF Step
<1>3. CASE DeleteJob
  <2>. DEFINE b == [job EXCEPT !.deleting = TRUE, !.present = job.finalizer]
  <2>1. WriteJob(b) /\ job.present
    BY <1>3 DEF DeleteJob
  <2>2. b \in JobObject /\ Good(job, b)
    BY <1>0, <2>1, EditTypes, EditsSound, Zenon
  <2>. QED
    BY <1>1, <2>1, <2>2
<1>4. ASSUME NEW o \in Operators,
             SyncJob(o) \/ SyncPods(o) \/ SyncPVC(o) \/ ApiError(o) \/ Crash(o)
      PROVE  jobLog' = jobLog
  BY <1>4, Zenon DEF SyncJob, SyncPods, SyncPVC, ApiError, Crash, api
<1>5. ASSUME NEW i \in Members,
             PodProgress(i) \/ PodGone(i) \/ CollectPod(i) \/ Disrupt(i)
      PROVE  jobLog' = jobLog
  BY <1>5, Zenon DEF PodProgress, PodGone, CollectPod, Disrupt, DeletePod, WritePod
<1>6. CASE PoolChanges \/ BackoffElapses \/ LeaseMoves \/ UNCHANGED vars
  BY <1>6 DEF PoolChanges, BackoffElapses, LeaseMoves, vars, api
<1>. QED
  BY <1>2, <1>3, <1>4, <1>5, <1>6 DEF Next

\* Every version stored stays sound.
LEMMA HistoryStep == ASSUME IInv, [Next]_vars PROVE History'
<1>. Grows /\ jobLog \in Seq(JobObject) /\ TypeOK /\ History
  BY NextGrows, TypeParts DEF IInv, StoreTyped
<1>1. GangSucceeded => GangSucceeded'
  <2>. SUFFICES ASSUME NEW k \in 1 .. Len(podLog),
                       \A i \in Members : podLog[k][i].phase = "Succeeded"
                PROVE  GangSucceeded'
    BY DEF GangSucceeded
  <2>1. k \in 1 .. Len(podLog') /\ podLog'[k] = podLog[k]
    BY LogLengths DEF Grows
  <2>. QED
    BY <2>1 DEF GangSucceeded
<1>2. CASE jobLog' = jobLog
  BY ZenonT(60), <1>1, <1>2 DEF History, VersionOK, Coherent
<1>3. ASSUME NEW b \in JobObject, Stores(b) PROVE History'
  <2>1. /\ Len(jobLog') = Len(jobLog) + 1 /\ Len(jobLog) \in Nat
        /\ jobLog'[Len(jobLog) + 1] = b
        /\ \A k \in 1 .. Len(jobLog) : jobLog'[k] = jobLog[k]
    BY <1>3 DEF Stores
  <2>2. \A k \in 1 .. Len(jobLog') : k \in 1 .. Len(jobLog) \/ k = Len(jobLog) + 1
    BY <2>1
  <2>3. /\ VersionOK(b) /\ (b.phase = "Succeeded" => GangSucceeded')
        /\ \A k \in 1 .. Len(jobLog) :
             VersionOK(jobLog[k]) /\ (jobLog[k].phase = "Succeeded" => GangSucceeded')
    BY <1>1, <1>3 DEF Stores, History
  <2>4. ASSUME NEW k \in 1 .. Len(jobLog')
        PROVE  VersionOK(jobLog'[k]) /\ (jobLog'[k].phase = "Succeeded" => GangSucceeded')
    BY <2>1, <2>2, <2>3, Zenon
  <2>. QED
    BY <2>4, Zenon DEF History, VersionOK, Coherent
<1>. QED
  BY <1>2, <1>3, NextStores

\* What an operator knows of its copy stays true while it does nothing.
LEMMA FlightKept ==
  ASSUME IInv, Grows, NEW m \in Operators,
         pc'[m] = pc[m], ver'[m] = ver[m], lst'[m] = lst[m]
  PROVE  pc'[m] # "idle" => Checked(pc'[m], held(m)', listed(m)')
<1>. SUFFICES ASSUME pc[m] # "idle" PROVE Checked(pc[m], held(m)', listed(m)')
  BY SMTT(30)
<1>1. held(m)' = held(m)
  BY HeldType DEF IInv, held, Grows
<1>2. pc[m] = "syncStatus" => listed(m)' = listed(m)
  <2>. SUFFICES ASSUME pc[m] = "syncStatus" PROVE listed(m)' = listed(m)
    OBVIOUS
  <2>1. lst[m] \in 1 .. Len(podLog)
    BY WorkerTypes, LogLengths DEF IInv
  <2>. QED
    BY <2>1 DEF listed, Grows
<1>3. Checked(pc[m], held(m), listed(m))
  BY DEF IInv, InFlight
<1>. QED
  BY <1>1, <1>2, <1>3, Zenon DEF Checked

\* Moving one operator on to a point where its knowledge is right keeps InFlight.
LEMMA FlightMoves ==
  ASSUME IInv, Grows, NEW o \in Operators, NEW l, Goto(o, l),
         \A m \in Operators \ {o} : ver'[m] = ver[m] /\ lst'[m] = lst[m],
         l # "idle" => Checked(l, held(o)', listed(o)')
  PROVE  InFlight'
<1>. SUFFICES ASSUME NEW m \in Operators, pc'[m] # "idle"
              PROVE  Checked(pc'[m], held(m)', listed(m)')
  BY Zenon DEF InFlight, Checked, held, listed, existing, Open
<1>1. CASE m = o
  BY <1>1, WorkerFunctions DEF IInv, Goto
<1>2. CASE m # o
  <2>1. pc'[m] = pc[m]
    BY <1>2, WorkerFunctions DEF IInv, Goto
  <2>. QED
    BY <1>2, <2>1, FlightKept
<1>. QED
  BY <1>1, <1>2

\* A reconcile that returns leaves the others as they are.
LEMMA FlightReturns ==
  ASSUME IInv, Grows, NEW o \in Operators, NEW b, Return(o, b)
  PROVE  InFlight'
<1>1. \A m \in Operators \ {o} : ver'[m] = ver[m] /\ lst'[m] = lst[m]
  BY WorkerFunctions DEF IInv, Return
<1>2. Goto(o, "idle")
  BY DEF Return
<1>. QED
  BY <1>1, <1>2, FlightMoves

\* Each point of a reconcile is reached with what Checked says of it.
LEMMA InFlightStep == ASSUME IInv, [Next]_vars PROVE InFlight'
<1>. Grows /\ TypeOK
  BY NextGrows DEF IInv
<1>1. ASSUME UNCHANGED <<pc, ver, lst>> PROVE InFlight'
  <2>. SUFFICES ASSUME NEW m \in Operators, pc'[m] # "idle"
                PROVE  Checked(pc'[m], held(m)', listed(m)')
    BY Zenon DEF InFlight, Checked, held, listed, existing, Open
  <2>. QED
    BY <1>1, FlightKept
<1>2. ASSUME NEW o \in Operators, Step(o) PROVE InFlight'
  <2>0. pc[o] # "idle" => Checked(pc[o], held(o), listed(o))
    BY SMTT(30) DEF IInv, InFlight
  <2>h. pc[o] # "idle" /\ ver'[o] = ver[o] => held(o)' = held(o)
    BY HeldType DEF held, Grows
  <2>1. CASE Reconcile(o)
    <3>1. CASE UNCHANGED worker
      BY <1>1, <3>1 DEF worker
    <3>2. CASE ~UNCHANGED worker
      <4>. DEFINE j == cached(o)
      <4>1. /\ ver' = [ver EXCEPT ![o] = jobSeen[o]] /\ lst' = lst
            /\ j.present /\ jobLog' = jobLog
        BY <2>1, <3>2, Zenon DEF Reconcile, api
      <4>2. jobSeen[o] \in 1 .. Len(jobLog) /\ j = jobLog[jobSeen[o]]
        <5>a. [NewJob EXCEPT !.present = FALSE].present = FALSE
          BY DEF NewJob
        <5>b. jobSeen[o] = 0 => cached(o) = [NewJob EXCEPT !.present = FALSE]
          BY DEF cached
        <5>1. jobSeen[o] # 0
          BY <4>1, <5>a, <5>b, Zenon
        <5>2. jobSeen[o] \in 1 .. Len(jobLog)
          BY <5>1, WorkerTypes, LogLengths
        <5>. QED
          BY <5>1, <5>2, Zenon DEF cached
      <4>3. held(o)' = j
        BY <4>1, <4>2, WorkerFunctions DEF held
      <4>4. \A m \in Operators \ {o} : ver'[m] = ver[m] /\ lst'[m] = lst[m]
        BY <4>1, WorkerFunctions
      <4>a. /\ j.present
            /\ \/ Goto(o, "reconcileDelete")
               \/ ~j.finalizer /\ Goto(o, "addFinalizer")
               \/ Open(j) /\ j.nextRetry /\ Goto(o, "startRetry")
               \/ /\ Open(j) /\ ~j.nextRetry
                  /\ Goto(o, IF Checkpoint THEN "ensurePVC" ELSE afterPVC)
        BY <2>1, <3>2, <4>1, Zenon DEF Reconcile, Open
      <4>. HIDE DEF j
      <4>5. PICK l : Goto(o, l) /\ \A ps : Checked(l, j, ps)
        <5>1. \A ps : Checked("reconcileDelete", j, ps)
          BY <4>a DEF Checked
        <5>2. ASSUME ~j.finalizer PROVE \A ps : Checked("addFinalizer", j, ps)
          BY <4>a, <5>2 DEF Checked
        <5>3. ASSUME Open(j), j.nextRetry PROVE \A ps : Checked("startRetry", j, ps)
          BY <5>3 DEF Checked
        <5>4. ASSUME Open(j), ~j.nextRetry
              PROVE  \A ps : Checked(IF Checkpoint THEN "ensurePVC" ELSE afterPVC, j, ps)
          BY <5>4 DEF Checked, afterPVC
        <5>. QED
          BY <4>a, <5>1, <5>2, <5>3, <5>4, Zenon
      <4>. QED
        BY <4>3, <4>4, <4>5, FlightMoves
    <3>. QED
      BY <3>1, <3>2
  <2>2. CASE \E b : Return(o, b)
    BY <2>2, FlightReturns
  <2>3. ASSUME NEW l, Goto(o, l), UNCHANGED <<ver, lst>>, pc[o] # "idle",
               \A ps : Checked(l, held(o), ps)
        PROVE  InFlight'
    <3>1. held(o)' = held(o)
      BY <2>3, <2>h
    <3>. QED
      BY <2>3, <3>1, FlightMoves
  <2>4. CASE (ensureCheckpointPVC(o) \/ getPool(o)) /\ ~\E b : Return(o, b)
    <3>1. PICK l \in {"getPool", "listPods"} : Goto(o, l)
      BY <2>4, Zenon DEF ensureCheckpointPVC, getPool, afterPVC
    <3>2. pc[o] \in {"ensurePVC", "getPool"} /\ UNCHANGED <<ver, lst>>
      BY <2>4, Zenon DEF ensureCheckpointPVC, getPool
    <3>. QED
      BY ZenonT(60), <2>0, <2>3, <3>1, <3>2 DEF Checked
  <2>5. CASE clearRetryTimer(o)
    <3>1. pc[o] = "startRetry" /\ Goto(o, "listRetry") /\ UNCHANGED <<ver, lst>>
      BY <2>5 DEF clearRetryTimer
    <3>. QED
      BY <2>0, <2>3, <3>1, Zenon DEF Checked
  <2>6. CASE listRetryPods(o) /\ ~\E b : Return(o, b)
    <3>1. pc[o] = "listRetry" /\ Goto(o, "deletePods") /\ UNCHANGED <<ver, lst>>
      BY <2>6, Zenon DEF listRetryPods
    <3>. QED
      BY <2>0, <2>3, <3>1, Zenon DEF Checked
  <2>7. CASE deleteRetryPod(o) /\ ~\E b : Return(o, b)
    <3>1. UNCHANGED <<pc, ver, lst>>
      BY <2>7, Zenon DEF deleteRetryPod
    <3>. QED
      BY <1>1, <3>1
  <2>8. CASE createPod(o) /\ ~\E b : Return(o, b)
    <3>1. PICK l \in {"createPods", "setPending"} :
            Goto(o, l) /\ (l = "setPending" => held(o).phase = "")
      BY <2>8, Zenon DEF createPod
    <3>2. pc[o] = "createPods" /\ UNCHANGED <<ver, lst>>
      BY <2>8, Zenon DEF createPod
    <3>. QED
      BY <2>0, <2>3, <3>1, <3>2, Zenon DEF Checked
  <2>9. CASE listPods(o)
    <3>. DEFINE missing == Members \ existing(podLog[podSeen[o]])
                l == IF missing = {} THEN "syncStatus" ELSE "createPods"
    <3>1. /\ pc[o] = "listPods" /\ Goto(o, l) /\ ver' = ver /\ podLog' = podLog
          /\ lst' = [lst EXCEPT ![o] = podSeen[o]]
      BY <2>9 DEF listPods, api
    <3>2. held(o)' = held(o) /\ listed(o)' = podLog[podSeen[o]]
      BY <2>h, <3>1, WorkerFunctions DEF listed
    <3>3. missing = {} => existing(podLog[podSeen[o]]) = Members
      BY SMTT(20) DEF existing
    <3>4. Checked(l, held(o)', listed(o)')
      BY <2>0, <3>1, <3>2, <3>3 DEF Checked
    <3>5. \A m \in Operators \ {o} : ver'[m] = ver[m] /\ lst'[m] = lst[m]
      BY <3>1, WorkerFunctions
    <3>. HIDE DEF l
    <3>. QED
      BY <3>1, <3>4, <3>5, FlightMoves
  <2>10. CASE \/ Conflict(o) \/ reconcileDelete(o) \/ addFinalizer(o)
              \/ setPending(o) \/ syncStatus(o)
    BY <2>2, <2>10, Zenon DEF Conflict, reconcileDelete, addFinalizer, setPending, syncStatus
  <2>. QED
    BY <1>2, <2>1, <2>2, <2>4, <2>5, <2>6, <2>7, <2>8, <2>9, <2>10 DEF Step
<1>3. ASSUME NEW o \in Operators, ApiError(o) \/ Crash(o) PROVE InFlight'
  BY <1>3, FlightReturns, Zenon DEF ApiError, Crash, IInv
<1>4. CASE \/ \E o \in Operators : SyncJob(o) \/ SyncPods(o) \/ SyncPVC(o)
           \/ \E i \in Members : PodProgress(i) \/ PodGone(i) \/ CollectPod(i) \/ Disrupt(i)
           \/ DeleteJob \/ PoolChanges \/ BackoffElapses \/ LeaseMoves \/ UNCHANGED vars
  <2>1. UNCHANGED worker
    BY <1>4, Zenon
       DEF SyncJob, SyncPods, SyncPVC, PodProgress, PodGone, CollectPod, Disrupt,
           DeleteJob, PoolChanges, BackoffElapses, LeaseMoves, vars
  <2>. QED
    BY <1>1, <2>1 DEF worker
<1>. QED
  BY <1>2, <1>3, <1>4 DEF Next

\* The invariant holds at the start ...
LEMMA InitInv == Init => IInv
<1>. SUFFICES ASSUME Init PROVE History /\ InFlight
  BY InitType DEF IInv
<1>1. InFlight
  BY DEF Init, InFlight
<1>2. Len(jobLog) = 1 /\ jobLog[1] = NewJob
  BY DEF Init
<1>3. VersionOK(NewJob) /\ NewJob.phase # "Succeeded"
  <2>1. /\ NewJob.phase = "" /\ NewJob.completionTime = FALSE /\ NewJob.nextRetry = FALSE
        /\ NewJob.retryCount = 0 /\ NewJob.maxRetries = MaxRetries /\ NewJob.finalizer = FALSE
        /\ NewJob.message = ""
    BY DEF NewJob
  <2>2. 0 <= MaxRetries
    OBVIOUS
  <2>. QED
    BY <2>1, <2>2, Zenon DEF VersionOK, Coherent
<1>4. History
  BY <1>2, <1>3 DEF History
<1>. QED
  BY <1>1, <1>4

\* ... and every step keeps it.
LEMMA NextInv == IInv /\ [Next]_vars => IInv'
BY NextType, HistoryStep, InFlightStep DEF IInv

\* The inductive invariant holds in every reachable state.
LEMMA InvHolds == Spec => []IInv
BY InitInv, NextInv, PTL DEF Spec

\* The stored status is always coherent: a set retry timer belongs to a pending
\* job that has failed, a completion time to a completed one.
THEOREM StatusIsCoherent == Spec => []StatusCoherent
<1>1. IInv => StatusCoherent
  <2>. SUFFICES ASSUME IInv PROVE StatusCoherent
    OBVIOUS
  <2>1. VersionOK(job)
    BY CurrentSound
  <2>. QED
    BY <2>1, Zenon DEF VersionOK, StatusCoherent
<1>. QED
  BY <1>1, InvHolds, PTL

\* scheduleRetryOrFail stays within the limit, and gives up only at the limit.
THEOREM RetriesAreBounded == Spec => []RetryBudget
<1>1. IInv => RetryBudget
  <2>. SUFFICES ASSUME IInv PROVE RetryBudget
    OBVIOUS
  <2>1. VersionOK(job)
    BY CurrentSound
  <2>. QED
    BY <2>1, Zenon DEF VersionOK, RetryBudget
<1>. QED
  BY <1>1, InvHolds, PTL

\* A job is Succeeded only if all its members' pods were once Succeeded together.
THEOREM SuccessIsGangWide == Spec => []SucceededMeansAllRan
<1>1. IInv => SucceededMeansAllRan
  BY CurrentSound DEF SucceededMeansAllRan
<1>. QED
  BY <1>1, InvHolds, PTL

\* In every step the job stays as it is or is replaced by a version that follows.
LEMMA JobFollows ==
  ASSUME IInv, [Next]_vars
  PROVE  job' \in JobObject /\ (job' = job \/ Follows(job, job'))
<1>1. CASE jobLog' = jobLog
  BY <1>1, CurrentSound DEF job
<1>2. ASSUME NEW b \in JobObject, Stores(b)
      PROVE  job' \in JobObject /\ Follows(job, job')
  <2>1. jobLog \in Seq(JobObject) /\ jobLog' = Append(jobLog, b)
    BY <1>2, TypeParts DEF IInv, StoreTyped, Stores
  <2>2. job' = b
    BY <2>1 DEF job
  <2>. QED
    BY <1>2, <2>2 DEF Stores
<1>. QED
  BY <1>1, <1>2, NextStores

\* Succeeded and Failed are final, whatever stale reconciles are in flight.
THEOREM TerminalStays == Spec => TerminalIsFinal
<1>1. IInv /\ [Next]_vars => (job.phase \in Terminal => job'.phase = job.phase)
  BY JobFollows, Zenon DEF Follows, Same, Active
<1>2. IInv /\ [Next]_vars => [job.phase \in Terminal => job'.phase = job.phase]_vars
  BY <1>1
<1>. QED
  BY <1>2, InvHolds, PTL DEF Spec, TerminalIsFinal

\* The stored status implements JobStatus.
THEOREM StatusImplementsLifecycle == Spec => Lifecycle
<1>1. Init => Life!Init
  <2>1. Init => job = NewJob
    BY DEF Init, job
  <2>2. NewJob.phase = "" /\ NewJob.retryCount = 0 /\ NewJob.nextRetry = FALSE /\ NewJob.present = TRUE
    BY DEF NewJob
  <2>. QED
    BY <2>1, <2>2, Zenon DEF Life!Init
<1>2. IInv /\ [Next]_vars => [Life!Next]_(Life!vars)
  <2>. SUFFICES ASSUME IInv, [Next]_vars, Follows(job, job') PROVE [Life!Next]_(Life!vars)
    BY JobFollows DEF Life!vars
  <2>1. job \in JobObject /\ job' \in JobObject
    BY CurrentSound, JobFollows
  <2>2. /\ job.present \in BOOLEAN /\ job'.present \in BOOLEAN
    BY <2>1, Zenon DEF JobObject
  <2>. QED
    BY <2>2, Zenon DEF Follows, Same, Active, Life!Next, Life!vars, Life!Observe, Life!ScheduleRetry,
                Life!Fail, Life!StartRetry, Life!Delete, Life!Active
<1>. QED
  BY <1>1, <1>2, InvHolds, PTL DEF Spec, Lifecycle, Life!Spec


\* backoffDuration: the waits of a job that retries stay between 5s and 60s and
\* get no shorter, for every retry limit and however often the shift overflows.
THEOREM WaitsGrow == Spec => []BackoffGrows
<1>1. BackoffGrows
  BY BackoffSane, BackoffAssumption DEF BackoffGrows, SaneCounts
<1>. QED
  BY <1>1, PTL

-----------------------------------------------------------------------------
(* The pods.  Each pod carries the attempt it was created for.  A reconcile *)
(* creates pods from a copy of the job that may be old, so what protects a *)
(* new attempt is an order between versions: once a retry is due, every    *)
(* version without a timer is from an attempt before it (Attempts).        *)

\* A step leaves the pods alone or changes one: a reconcile creates it, it goes,
\* or it is updated.  A failed pod goes only for a retry, with the job, or by
\* somebody else's hand.
PodChange(i, p) ==
  /\ \/ \E o \in Operators : pc[o] = "createPods" /\ p = buildPod(held(o))
     \/ p = NoPod
     \/ pods[i].phase # "None" /\ p.attempt = pods[i].attempt
  /\ pods[i].phase = "Failed" /\ ~pods[i].deleting /\ p.phase # "Failed" =>
       \/ \E o \in Operators : pc[o] = "deletePods"
       \/ ~job.present \/ disruptions' # disruptions
PodStep ==
  \/ pods' = pods
  \/ /\ jobLog' = jobLog /\ UNCHANGED pvc
     /\ \E i \in Members, p \in PodObject : pods' = [pods EXCEPT ![i] = p] /\ PodChange(i, p)

\* What WritePod makes of the pods.
LEMMA WrittenPod ==
  ASSUME TypeOK, NEW i \in Members, NEW p \in PodObject, WritePod(i, p)
  PROVE  jobLog' = jobLog /\ UNCHANGED pvc /\ pods' = [pods EXCEPT ![i] = p]
<1>1. podLog \in Seq([Members -> PodObject]) /\ podLog' = Append(podLog, [pods EXCEPT ![i] = p])
  BY TypeParts DEF WritePod, StoreTyped
<1>2. [pods EXCEPT ![i] = p] \in [Members -> PodObject]
  BY CurrentType
<1>3. pods' = [pods EXCEPT ![i] = p]
  BY <1>1, <1>2 DEF pods
<1>. QED
  BY <1>3 DEF WritePod

\* A DELETE removes a pod or marks it.
LEMMA DeletedPod ==
  ASSUME TypeOK, NEW i \in Members, DeletePod(i)
  PROVE  /\ jobLog' = jobLog /\ UNCHANGED pvc
         /\ \E p \in PodObject :
              /\ pods' = [pods EXCEPT ![i] = p]
              /\ p = NoPod \/ (pods[i].phase \in {"Pending", "Running"} /\ p.attempt = pods[i].attempt)
<1>1. pods[i] \in PodObject
  BY CurrentType
<1>2. CASE WritePod(i, NoPod)
  BY <1>2, WrittenPod, ObjectTypes
<1>3. CASE pods[i].phase \in {"Pending", "Running"} /\ WritePod(i, [pods[i] EXCEPT !.deleting = TRUE])
  <2>. DEFINE p == [pods[i] EXCEPT !.deleting = TRUE]
  <2>1. p \in PodObject /\ p.attempt = pods[i].attempt
    BY <1>1, Zenon DEF PodObject
  <2>. HIDE DEF p
  <2>2. WritePod(i, p)
    BY <1>3 DEF p
  <2>. QED
    BY <1>3, <2>1, <2>2, WrittenPod
<1>. QED
  BY <1>2, <1>3, Zenon DEF DeletePod

\* Every step treats the pods like that.
LEMMA NextPods ==
  ASSUME IInv, [Next]_vars
  PROVE  PodStep
<1>. TypeOK
  BY DEF IInv
<1>0. ASSUME podLog' = podLog PROVE PodStep
  BY <1>0 DEF PodStep, pods
<1>1. ASSUME NEW i \in Members, DeletePod(i),
             \/ \E o \in Operators : pc[o] = "deletePods"
             \/ ~job.present \/ disruptions' # disruptions
      PROVE  PodStep
  <2>1. PICK p \in PodObject :
          /\ pods' = [pods EXCEPT ![i] = p]
          /\ p = NoPod \/ (pods[i].phase \in {"Pending", "Running"} /\ p.attempt = pods[i].attempt)
    BY <1>1, DeletedPod
  <2>2. jobLog' = jobLog /\ UNCHANGED pvc
    BY <1>1, DeletedPod
  <2>3. PodChange(i, p)
    BY <1>1, <2>1 DEF PodChange
  <2>. QED
    BY <2>1, <2>2, <2>3, Zenon DEF PodStep
<1>2. ASSUME NEW i \in Members, NEW p \in PodObject, WritePod(i, p), PodChange(i, p)
      PROVE  PodStep
  BY <1>2, WrittenPod DEF PodStep
<1>3. ASSUME NEW o \in Operators, createPod(o) PROVE PodStep
  <2>1. CASE UNCHANGED api
    BY <1>0, <2>1 DEF api
  <2>2. CASE ~UNCHANGED api
    <3>1. PICK i \in Members : pods[i].phase = "None" /\ WritePod(i, buildPod(held(o)))
      BY <1>3, <2>2, WorkerTypes, Zenon DEF createPod
    <3>2. pc[o] = "createPods"
      BY <1>3, Zenon DEF createPod
    <3>3. buildPod(held(o)) \in PodObject
      BY <3>2, HeldType, ObjectTypes
    <3>. QED
      BY <1>2, <3>1, <3>2, <3>3 DEF PodChange
  <2>. QED
    BY <2>1, <2>2
<1>4. ASSUME NEW o \in Operators, deleteRetryPod(o) PROVE PodStep
  <2>1. pc[o] = "deletePods" /\ (UNCHANGED api \/ \E i \in Members : DeletePod(i))
    BY <1>4, WorkerTypes DEF deleteRetryPod
  <2>. QED
    BY <1>0, <1>1, <2>1, SMTT(30) DEF api
<1>5. ASSUME NEW i \in Members, PodProgress(i) PROVE PodStep
  <2>1. PICK ph \in {"Running", "Succeeded", "Failed"} :
          pods[i].phase \in {"Pending", "Running"} /\ WritePod(i, [pods[i] EXCEPT !.phase = ph])
    BY <1>5 DEF PodProgress
  <2>. DEFINE p == [pods[i] EXCEPT !.phase = ph]
  <2>2. p \in PodObject /\ p.attempt = pods[i].attempt
    BY CurrentType DEF PodObject, PodPhases
  <2>3. WritePod(i, p)
    BY <2>1
  <2>. HIDE DEF p
  <2>4. PodChange(i, p)
    BY <2>1, <2>2 DEF PodChange
  <2>. QED
    BY <1>2, <2>2, <2>3, <2>4
<1>6. ASSUME NEW i \in Members, PodGone(i) PROVE PodStep
  <2>1. WritePod(i, NoPod) /\ pods[i].deleting
    BY <1>6 DEF PodGone
  <2>2. PodChange(i, NoPod)
    BY <2>1 DEF PodChange
  <2>. QED
    BY <1>2, <2>1, <2>2, ObjectTypes
<1>7. ASSUME NEW i \in Members, CollectPod(i) \/ Disrupt(i) PROVE PodStep
  <2>1. DeletePod(i) /\ (~job.present \/ disruptions' = disruptions + 1)
    BY <1>7 DEF CollectPod, Disrupt
  <2>2. disruptions \in Nat
    BY TypeParts DEF EnvTyped
  <2>. QED
    BY <1>1, <2>1, <2>2
<1>8. ASSUME NEW o \in Operators,
             \/ Reconcile(o) \/ Conflict(o) \/ reconcileDelete(o) \/ addFinalizer(o)
             \/ ensureCheckpointPVC(o) \/ getPool(o) \/ listPods(o) \/ setPending(o)
             \/ syncStatus(o) \/ clearRetryTimer(o) \/ listRetryPods(o)
             \/ SyncJob(o) \/ SyncPods(o) \/ SyncPVC(o) \/ ApiError(o) \/ Crash(o)
      PROVE  podLog' = podLog
  BY <1>8, Zenon DEF Reconcile, Conflict, reconcileDelete, addFinalizer, ensureCheckpointPVC,
       getPool, listPods, setPending, syncStatus, clearRetryTimer, listRetryPods, SyncJob,
       SyncPods, SyncPVC, ApiError, Crash, WriteJob, api
<1>9. CASE DeleteJob \/ PoolChanges \/ BackoffElapses \/ LeaseMoves \/ UNCHANGED vars
  BY <1>0, <1>9 DEF DeleteJob, WriteJob, PoolChanges, BackoffElapses, LeaseMoves, vars, api
<1>. QED
  BY <1>0, <1>3, <1>4, <1>5, <1>6, <1>7, <1>8, <1>9, Zenon DEF Next, Step

\* How a reconcile moves on, as far as the pods depend on it.
PastPVC == {"getPool", "listPods", "createPods", "setPending", "syncStatus"}
Moves(m) ==
  \/ pc'[m] = "idle"
  \/ /\ ver'[m] = ver[m] /\ pc[m] # "idle"
     /\ \/ pc'[m] = pc[m]
        \/ pc[m] = "ensurePVC" /\ pc'[m] \in PastPVC /\ (pvcSeen[m] \/ pvc')
        \/ pc[m] \in PastPVC /\ pc'[m] \in PastPVC
        \/ pc[m] = "startRetry" /\ pc'[m] = "listRetry" /\ clearRetryTimer(m)
        \/ pc[m] = "listRetry" /\ pc'[m] = "deletePods"
  \/ pc'[m] \in {"reconcileDelete", "addFinalizer", "ensurePVC"}
  \/ /\ pc'[m] = "startRetry"
     /\ held(m)' \in JobObject /\ held(m)'.retryCount <= clock
  \/ ~Checkpoint /\ pc'[m] \in PastPVC

\* The steps of one reconcile leave the others where they are.
LEMMA OthersStay ==
  ASSUME TypeOK, NEW o \in Operators, Step(o), NEW m \in Operators, m # o
  PROVE  pc'[m] = pc[m] /\ ver'[m] = ver[m]
<1>1. /\ pc' = pc \/ \E l : Goto(o, l)
      /\ ver' = ver \/ \E v : ver' = [ver EXCEPT ![o] = v]
  BY Zenon DEF Step, Reconcile, Conflict, reconcileDelete, addFinalizer, ensureCheckpointPVC,
       getPool, listPods, createPod, setPending, syncStatus, clearRetryTimer, listRetryPods,
       deleteRetryPod, Return, worker
<1>. QED
  BY <1>1, WorkerFunctions DEF Goto

\* Reconcile's checks: a retry starts only when its backoff has elapsed.
LEMMA ReconcileMoves ==
  ASSUME TypeOK, NEW o \in Operators, Reconcile(o)
  PROVE  Moves(o)
<1>. DEFINE j == cached(o)
<1>0. pc \in [Operators -> PcLabels] /\ ver \in [Operators -> 0 .. Len(jobLog)]
  BY WorkerFunctions
<1>1. CASE UNCHANGED worker
  BY <1>1, Zenon DEF Moves, worker, Reconcile
<1>2. CASE ~UNCHANGED worker
  <2>1. /\ ver' = [ver EXCEPT ![o] = jobSeen[o]] /\ jobLog' = jobLog /\ j.present
        /\ \/ Goto(o, "reconcileDelete") \/ Goto(o, "addFinalizer")
           \/ Goto(o, "startRetry") /\ j.nextRetry /\ ~backoffLeft(j)
           \/ Goto(o, IF Checkpoint THEN "ensurePVC" ELSE afterPVC)
    BY <1>2, Zenon DEF Reconcile, api
  <2>2. jobSeen[o] \in 1 .. Len(jobLog) /\ j = jobLog[jobSeen[o]]
    <3>1. jobSeen[o] # 0
      <4>1. [NewJob EXCEPT !.present = FALSE].present = FALSE
        BY DEF NewJob
      <4>. QED
        BY <2>1, <4>1, Zenon DEF cached
    <3>. QED
      BY <3>1, WorkerTypes, LogLengths DEF cached
  <2>3. held(o)' = j
    BY <1>0, <2>1, <2>2 DEF held
  <2>4. j \in JobObject
    BY <2>2, TypeParts, SMTT(30) DEF StoreTyped
  <2>5. CASE Goto(o, "startRetry") /\ j.nextRetry /\ ~backoffLeft(j)
    <3>1. j.retryCount \in Nat /\ clock \in Nat
      BY <2>4, TypeParts, Zenon DEF JobObject, EnvTyped
    <3>2. j.retryCount <= clock
      BY <2>5, <3>1 DEF backoffLeft
    <3>3. pc'[o] = "startRetry"
      BY <1>0, <2>5, SMTT(30) DEF Goto
    <3>. QED
      BY <2>3, <2>4, <3>2, <3>3 DEF Moves
  <2>6. CASE Goto(o, "reconcileDelete") \/ Goto(o, "addFinalizer")
    BY <1>0, <2>6 DEF Goto, Moves
  <2>7. CASE Goto(o, IF Checkpoint THEN "ensurePVC" ELSE afterPVC)
    BY <1>0, <2>7 DEF Goto, Moves, afterPVC, PastPVC
  <2>. QED
    BY <2>1, <2>5, <2>6, <2>7
<1>. QED
  BY <1>1, <1>2

\* Every step moves every reconcile like that.
LEMMA NextMoves ==
  ASSUME IInv, [Next]_vars, NEW m \in Operators
  PROVE  Moves(m)
<1>. TypeOK
  BY DEF IInv
<1>0. pc \in [Operators -> PcLabels] /\ ver \in [Operators -> 0 .. Len(jobLog)]
  BY WorkerFunctions
<1>1. ASSUME pc'[m] = pc[m], ver'[m] = ver[m] PROVE Moves(m)
  BY <1>1 DEF Moves
<1>2. ASSUME NEW o \in Operators, Step(o) PROVE Moves(m)
  <2>0. CASE m # o
    BY <1>1, <1>2, <2>0, OthersStay
  <2>. SUFFICES ASSUME m = o PROVE Moves(o)
    BY <2>0
  <2>1. CASE Reconcile(o)
    BY <2>1, ReconcileMoves
  <2>2. CASE \E b : Return(o, b)
    BY <1>0, <2>2 DEF Return, Goto, Moves
  <2>3. CASE (ensureCheckpointPVC(o) \/ getPool(o)) /\ ~\E b : Return(o, b)
    <3>1. /\ ver' = ver
          /\ \/ pc[o] = "ensurePVC" /\ Goto(o, afterPVC) /\ (pvcSeen[o] \/ pvc')
             \/ pc[o] = "getPool" /\ Goto(o, "listPods")
      BY <2>3, ZenonT(30) DEF ensureCheckpointPVC, getPool
    <3>. QED
      BY <1>0, <3>1 DEF Goto, afterPVC, Moves, PastPVC
  <2>4. CASE listPods(o)
    BY <1>0, <2>4 DEF listPods, Goto, Moves, PastPVC
  <2>5. CASE createPod(o) /\ ~\E b : Return(o, b)
    <3>1. /\ ver' = ver /\ pc[o] = "createPods"
          /\ Goto(o, "createPods") \/ Goto(o, "setPending")
      BY <2>5, Zenon DEF createPod
    <3>. QED
      BY <1>0, <3>1 DEF Goto, Moves, PastPVC
  <2>6. CASE clearRetryTimer(o)
    <3>1. pc[o] = "startRetry" /\ Goto(o, "listRetry") /\ ver' = ver
      BY <2>6 DEF clearRetryTimer
    <3>. QED
      BY <1>0, <2>6, <3>1 DEF Goto, Moves
  <2>7. CASE listRetryPods(o) /\ ~\E b : Return(o, b)
    <3>1. pc[o] = "listRetry" /\ Goto(o, "deletePods") /\ ver' = ver
      BY <2>7, Zenon DEF listRetryPods
    <3>. QED
      BY <1>0, <3>1 DEF Goto, Moves
  <2>8. CASE deleteRetryPod(o) /\ ~\E b : Return(o, b)
    <3>1. UNCHANGED <<pc, ver>>
      BY <2>8, Zenon DEF deleteRetryPod
    <3>. QED
      BY <1>1, <3>1
  <2>9. CASE \/ Conflict(o) \/ reconcileDelete(o) \/ addFinalizer(o)
             \/ setPending(o) \/ syncStatus(o)
    BY <2>2, <2>9, Zenon DEF Conflict, reconcileDelete, addFinalizer, setPending, syncStatus
  <2>. QED
    BY <1>2, <2>1, <2>2, <2>3, <2>4, <2>5, <2>6, <2>7, <2>8, <2>9, SMTT(30) DEF Step
<1>3. ASSUME NEW o \in Operators, ApiError(o) \/ Crash(o) PROVE Moves(m)
  <2>1. PICK b : Return(o, b)
    BY <1>3, Zenon DEF ApiError, Crash
  <2>. QED
    BY <1>0, <2>1 DEF Return, Goto, Moves
<1>4. CASE \/ \E o \in Operators : SyncJob(o) \/ SyncPods(o) \/ SyncPVC(o)
           \/ \E i \in Members : PodProgress(i) \/ PodGone(i) \/ CollectPod(i) \/ Disrupt(i)
           \/ DeleteJob \/ PoolChanges \/ BackoffElapses \/ LeaseMoves \/ UNCHANGED vars
  <2>1. UNCHANGED worker
    BY <1>4, Zenon
       DEF SyncJob, SyncPods, SyncPVC, PodProgress, PodGone, CollectPod, Disrupt,
           DeleteJob, PoolChanges, BackoffElapses, LeaseMoves, vars
  <2>. QED
    BY <1>1, <2>1 DEF worker
<1>. QED
  BY <1>2, <1>3, <1>4 DEF Next

\* Every version is of an attempt up to the current one; once a retry is due, a
\* version without a timer is of an attempt before the one that is due.
Versions ==
  \A k \in 1 .. Len(jobLog) :
    /\ jobLog[k].retryCount <= job.retryCount
    /\ job.nextRetry /\ ~jobLog[k].nextRetry => jobLog[k].retryCount < job.retryCount

\* The same for the attempts of the pods.
Attempts ==
  \A i \in existing(pods) :
    /\ pods[i].attempt <= job.retryCount
    /\ job.nextRetry => pods[i].attempt < job.retryCount

\* A retry is started only after its deadline.
Waited ==
  \A o \in Operators :
    pc[o] \in {"startRetry", "listRetry", "deletePods"} => held(o).retryCount <= clock

\* The PVC is there past ensureCheckpointPVC, and a cache shows no other.
Mounted ==
  Checkpoint => /\ \A o \in Operators : pvcSeen[o] \/ pc[o] \in PastPVC => pvc
                /\ existing(pods) # {} => pvc

PodInv == IInv /\ Versions /\ Attempts /\ Waited /\ Mounted

\* The attempt counter moves on only to set a timer that was not set.
Later(a, b) ==
  \/ b.retryCount = a.retryCount /\ (b.nextRetry => a.nextRetry)
  \/ ~a.nextRetry /\ b.retryCount = a.retryCount + 1 /\ b.nextRetry
LEMMA JobLater ==
  ASSUME IInv, [Next]_vars
  PROVE  /\ job \in JobObject /\ job' \in JobObject /\ Later(job, job')
         /\ \A k \in 1 .. Len(jobLog') : k \in 1 .. Len(jobLog) \/ jobLog'[k] = job'
<1>. TypeOK /\ jobLog \in Seq(JobObject) /\ job \in JobObject
  BY TypeParts, CurrentType, SMTT(30) DEF IInv, StoreTyped
<1>1. CASE jobLog' = jobLog
  <2>1. job' = job
    BY <1>1 DEF job
  <2>. QED
    BY <1>1, <2>1 DEF Later
<1>2. ASSUME NEW b \in JobObject, Stores(b)
      PROVE  /\ job' \in JobObject /\ Later(job, job')
             /\ \A k \in 1 .. Len(jobLog') : k \in 1 .. Len(jobLog) \/ jobLog'[k] = job'
  <2>1. /\ job' = b /\ Follows(job, b)
        /\ \A k \in 1 .. Len(jobLog') : k \in 1 .. Len(jobLog) \/ jobLog'[k] = b
    BY <1>2 DEF Stores, job
  <2>2. Later(job, b)
    BY <2>1, Zenon DEF Follows, Same, Active, Later
  <2>. QED
    BY <2>1, <2>2
<1>. QED
  BY <1>1, <1>2, NextStores

\* Later keeps the order of attempts: of what was up to a, and before a if a has a
\* timer.
LEMMA OrderKept ==
  ASSUME NEW a \in JobObject, NEW b \in JobObject, Later(a, b), NEW n \in Nat
  PROVE  /\ n <= a.retryCount => n <= b.retryCount
         /\ n <= a.retryCount /\ (a.nextRetry => n < a.retryCount) /\ b.nextRetry
              => n < b.retryCount
         /\ n < a.retryCount => n < b.retryCount
<1>1. a.retryCount \in Nat /\ b.retryCount \in Nat
  BY Zenon DEF JobObject
<1>. QED
  BY <1>1 DEF Later

\* Versions is kept.
LEMMA VersionsStep == ASSUME PodInv, [Next]_vars PROVE Versions'
<1>. IInv /\ TypeOK /\ Grows /\ jobLog \in Seq(JobObject)
  BY NextGrows, TypeParts DEF PodInv, IInv, StoreTyped
<1>0. /\ job \in JobObject /\ job' \in JobObject /\ Later(job, job')
      /\ \A k \in 1 .. Len(jobLog') : k \in 1 .. Len(jobLog) \/ jobLog'[k] = job'
  BY JobLater
<1>1. ASSUME NEW k \in 1 .. Len(jobLog)
      PROVE  /\ jobLog'[k] = jobLog[k] /\ jobLog[k].retryCount <= job'.retryCount
             /\ job'.nextRetry /\ ~jobLog[k].nextRetry => jobLog[k].retryCount < job'.retryCount
  <2>1. jobLog'[k] = jobLog[k] /\ jobLog[k] \in JobObject
    BY DEF Grows
  <2>2. jobLog[k].retryCount \in Nat
    BY <2>1, Zenon DEF JobObject
  <2>3. /\ jobLog[k].retryCount <= job.retryCount
        /\ job.nextRetry /\ ~jobLog[k].nextRetry => jobLog[k].retryCount < job.retryCount
    BY DEF PodInv, Versions
  <2>. QED
    BY <1>0, <2>1, <2>2, <2>3, OrderKept, Zenon
<1>2. ASSUME NEW k \in 1 .. Len(jobLog')
      PROVE  /\ jobLog'[k].retryCount <= job'.retryCount
             /\ job'.nextRetry /\ ~jobLog'[k].nextRetry => jobLog'[k].retryCount < job'.retryCount
  <2>1. CASE k \in 1 .. Len(jobLog)
    BY <1>1, <2>1
  <2>2. CASE jobLog'[k] = job'
    <3>1. job'.retryCount \in Nat
      BY <1>0, Zenon DEF JobObject
    <3>2. \A n \in Nat : n <= n
      OBVIOUS
    <3>. QED
      BY <2>2, <3>1, <3>2, Zenon
  <2>. QED
    BY <1>0, <2>1, <2>2, SMTT(30)
<1>. QED
  BY <1>2 DEF Versions

\* Attempts is kept: a new pod is of the attempt of the copy it is created from,
\* which has no timer.
LEMMA AttemptsStep == ASSUME PodInv, [Next]_vars PROVE Attempts'
<1>. IInv /\ TypeOK
  BY DEF PodInv, IInv
<1>0. /\ job \in JobObject /\ job' \in JobObject /\ Later(job, job')
      /\ pods \in [Members -> PodObject]
  BY JobLater, CurrentType
<1>1. ASSUME NEW i \in Members, pods[i].phase # "None"
      PROVE  /\ pods[i].attempt <= job'.retryCount
             /\ job'.nextRetry => pods[i].attempt < job'.retryCount
  <2>1. pods[i].attempt \in Nat
    BY <1>0 DEF PodObject
  <2>2. /\ pods[i].attempt <= job.retryCount
        /\ job.nextRetry => pods[i].attempt < job.retryCount
    BY <1>1 DEF PodInv, Attempts, existing
  <2>. QED
    BY <1>0, <2>1, <2>2, OrderKept, Zenon
<1>2. ASSUME NEW o \in Operators, pc[o] = "createPods", jobLog' = jobLog
      PROVE  /\ held(o).retryCount <= job'.retryCount
             /\ job'.nextRetry => held(o).retryCount < job'.retryCount
  <2>1. ver[o] \in 1 .. Len(jobLog) /\ held(o) = jobLog[ver[o]]
    BY <1>2, HeldType DEF held
  <2>2. ~held(o).nextRetry
    BY <1>2, Zenon DEF IInv, InFlight, Checked
  <2>3. job' = job
    BY <1>2 DEF job
  <2>. QED
    BY <2>1, <2>2, <2>3 DEF PodInv, Versions
<1>3. ASSUME NEW i \in Members, pods'[i].phase # "None"
      PROVE  /\ pods'[i].attempt <= job'.retryCount
             /\ job'.nextRetry => pods'[i].attempt < job'.retryCount
  <2>1. CASE pods'[i] = pods[i]
    BY <1>1, <1>3, <2>1, SMTT(30)
  <2>2. CASE pods'[i] # pods[i]
    <3>1. jobLog' = jobLog /\ PodChange(i, pods'[i])
      BY <1>0, <2>2, NextPods DEF PodStep
    <3>2. CASE pods'[i] = NoPod
      BY <1>3, <3>2 DEF NoPod
    <3>3. CASE pods[i].phase # "None" /\ pods'[i].attempt = pods[i].attempt
      BY <1>1, <3>3, SMTT(30)
    <3>4. CASE \E o \in Operators : pc[o] = "createPods" /\ pods'[i] = buildPod(held(o))
      BY <1>2, <3>1, <3>4, SMTT(30) DEF buildPod
    <3>. QED
      BY <3>1, <3>2, <3>3, <3>4 DEF PodChange
  <2>. QED
    BY <2>1, <2>2
<1>. QED
  BY <1>3 DEF Attempts, existing

\* What a reconcile works on is a stored version, which never changes.
LEMMA HeldKept ==
  ASSUME IInv, [Next]_vars, NEW m \in Operators, pc[m] # "idle", ver'[m] = ver[m]
  PROVE  held(m)' = held(m) /\ held(m) \in JobObject
<1>1. TypeOK /\ Grows
  BY NextGrows DEF IInv
<1>. QED
  BY <1>1, HeldType DEF held, Grows

\* Waited is kept: Reconcile starts a retry only once the deadline has passed, and
\* the clock does not go back.
LEMMA WaitedStep == ASSUME PodInv, [Next]_vars PROVE Waited'
<1>. IInv /\ TypeOK
  BY DEF PodInv, IInv
<1>1. clock \in Nat /\ clock' \in Nat /\ clock <= clock'
  <2>1. clock \in Nat
    BY TypeParts DEF EnvTyped
  <2>2. clock' = clock \/ clock' = clock + 1
    BY Zenon DEF Next, Step, Reconcile, Conflict, reconcileDelete, addFinalizer,
         ensureCheckpointPVC, getPool, listPods, createPod, setPending, syncStatus,
         clearRetryTimer, listRetryPods, deleteRetryPod, SyncJob, SyncPods, SyncPVC,
         PodProgress, PodGone, CollectPod, Disrupt, DeleteJob, PoolChanges, BackoffElapses,
         ApiError, Crash, LeaseMoves, env, vars
  <2>. QED
    BY <2>1, <2>2
<1>2. ASSUME NEW n \in Nat, n <= clock PROVE n <= clock'
  BY <1>1, <1>2
<1>3. ASSUME NEW m \in Operators, pc'[m] \in {"startRetry", "listRetry", "deletePods"}
      PROVE  held(m)'.retryCount <= clock'
  <2>1. CASE /\ ver'[m] = ver[m] /\ pc[m] # "idle"
             /\ pc[m] \in {"startRetry", "listRetry", "deletePods"}
    <3>1. held(m)' = held(m) /\ held(m) \in JobObject
      BY <2>1, HeldKept
    <3>2. held(m).retryCount \in Nat /\ held(m).retryCount <= clock
      BY <2>1, <3>1, Zenon DEF PodInv, Waited, JobObject
    <3>. QED
      BY <1>2, <3>1, <3>2, Zenon
  <2>2. CASE held(m)' \in JobObject /\ held(m)'.retryCount <= clock
    <3>1. held(m)'.retryCount \in Nat
      BY <2>2, Zenon DEF JobObject
    <3>. QED
      BY <1>2, <2>2, <3>1, Zenon
  <2>. QED
    BY <1>3, <2>1, <2>2, NextMoves, SMTT(30) DEF Moves, PastPVC
<1>. QED
  BY <1>3 DEF Waited

\* The PVC is never removed, and a cache shows only a PVC that exists.
LEMMA PVCStays ==
  ASSUME IInv, [Next]_vars
  PROVE  /\ pvc => pvc'
         /\ \A m \in Operators : pvcSeen'[m] => pvcSeen[m] \/ pvc
<1>. TypeOK
  BY DEF IInv
<1>1. pvcSeen \in [Operators -> BOOLEAN]
  BY TypeParts DEF CachesTyped
<1>2. ASSUME NEW o \in Operators, Step(o) PROVE (pvc => pvc') /\ pvcSeen' = pvcSeen
  <2>1. pvcSeen' = pvcSeen
    BY <1>2, Zenon DEF Step, Reconcile, Conflict, reconcileDelete, addFinalizer,
         ensureCheckpointPVC, getPool, listPods, createPod, setPending, syncStatus,
         clearRetryTimer, listRetryPods, deleteRetryPod, caches
  <2>2. ASSUME ensureCheckpointPVC(o) PROVE pvc' = pvc \/ pvc' = TRUE
    BY <2>2, Zenon DEF ensureCheckpointPVC, api
  <2>3. ASSUME createPod(o) \/ deleteRetryPod(o) PROVE pvc' = pvc
    BY <2>3, Zenon DEF createPod, deleteRetryPod, DeletePod, WritePod, api
  <2>4. ASSUME ~ensureCheckpointPVC(o), ~createPod(o), ~deleteRetryPod(o) PROVE pvc' = pvc
    BY <1>2, <2>4, Zenon DEF Step, Reconcile, Conflict, reconcileDelete, addFinalizer,
         getPool, listPods, setPending, syncStatus, clearRetryTimer, listRetryPods,
         WriteJob, api
  <2>5. pvc' = pvc \/ pvc' = TRUE
    BY <2>2, <2>3, <2>4, Zenon
  <2>6. pvc \in BOOLEAN
    BY TypeParts DEF StoreTyped
  <2>7. pvc => pvc'
    BY <2>5, <2>6, Zenon
  <2>. QED
    BY <2>1, <2>7, Zenon
<1>3. ASSUME NEW o \in Operators, SyncPVC(o) \/ Crash(o)
      PROVE  pvc' = pvc /\ (pvcSeen' = [pvcSeen EXCEPT ![o] = pvc])
  <2>1. CASE SyncPVC(o)
    <3>1. pvc = TRUE
      BY <2>1, TypeParts DEF SyncPVC, StoreTyped
    <3>. QED
      BY <2>1, <3>1, Zenon DEF SyncPVC, api
  <2>. QED
    BY <1>3, <2>1, Zenon DEF Crash, api
<1>4. ASSUME \/ \E o \in Operators : SyncJob(o) \/ SyncPods(o) \/ ApiError(o)
             \/ DeleteJob \/ PoolChanges \/ BackoffElapses \/ LeaseMoves \/ UNCHANGED vars
      PROVE  pvc' = pvc /\ pvcSeen' = pvcSeen
  BY <1>4, Zenon DEF SyncJob, SyncPods, ApiError, DeleteJob, WriteJob, PoolChanges,
       BackoffElapses, LeaseMoves, api, caches, vars
<1>5. ASSUME NEW i \in Members, PodProgress(i) \/ PodGone(i) \/ CollectPod(i) \/ Disrupt(i)
      PROVE  pvc' = pvc /\ pvcSeen' = pvcSeen
  BY <1>5, Zenon DEF PodProgress, PodGone, CollectPod, Disrupt, DeletePod, WritePod, caches
<1>. QED
  BY <1>1, <1>2, <1>3, <1>4, <1>5 DEF Next

\* Mounted is kept.
LEMMA MountedStep == ASSUME PodInv, [Next]_vars PROVE Mounted'
<1>. IInv /\ TypeOK /\ pods \in [Members -> PodObject]
  BY CurrentType, SMTT(30) DEF PodInv, IInv
<1>. SUFFICES ASSUME Checkpoint
              PROVE  /\ \A o \in Operators : pvcSeen'[o] \/ pc'[o] \in PastPVC => pvc'
                     /\ existing(pods)' # {} => pvc'
  BY DEF Mounted
<1>0. /\ \A o \in Operators : pvcSeen[o] \/ pc[o] \in PastPVC => pvc
      /\ existing(pods) # {} => pvc
  BY SMTT(30) DEF PodInv, Mounted
<1>1. ASSUME NEW m \in Operators, pvcSeen'[m] PROVE pvc'
  BY <1>0, <1>1, PVCStays
<1>2. ASSUME NEW m \in Operators, pc'[m] \in PastPVC PROVE pvc'
  <2>1. CASE pc[m] \in PastPVC
    BY <1>0, <2>1, PVCStays
  <2>2. CASE pvcSeen[m] \/ pvc'
    BY <1>0, <2>2, PVCStays
  <2>. QED
    BY <1>2, <2>1, <2>2, NextMoves DEF Moves, PastPVC
<1>3. ASSUME NEW i \in Members, pods'[i].phase # "None" PROVE pvc'
  <2>1. CASE pods[i].phase # "None"
    BY <1>0, <2>1, PVCStays DEF existing
  <2>2. CASE pods[i].phase = "None"
    <3>1. PodChange(i, pods'[i])
      BY <1>3, <2>2, NextPods, SMTT(30) DEF PodStep
    <3>2. PICK o \in Operators : pc[o] = "createPods"
      BY <1>3, <2>2, <3>1 DEF PodChange, NoPod
    <3>. QED
      BY <1>0, <3>2, PVCStays DEF PastPVC
  <2>. QED
    BY <2>1, <2>2
<1>. QED
  BY <1>1, <1>2, <1>3 DEF existing

\* The pods' invariant holds for any number of operators.
LEMMA PodInvHolds == Spec => []PodInv
<1>1. ASSUME Init PROVE Versions /\ Attempts /\ Waited /\ Mounted
  <2>1. /\ job = NewJob /\ Len(jobLog) = 1 /\ jobLog[1] = NewJob
        /\ NewJob.retryCount = 0 /\ NewJob.nextRetry = FALSE
        /\ pods = [i \in Members |-> NoPod] /\ NoPod.phase = "None"
        /\ \A o \in Operators : pc[o] = "idle" /\ pvcSeen[o] = FALSE
    BY <1>1, Zenon DEF Init, job, pods, NewJob, NoPod
  <2>2. existing(pods) = {}
    BY <2>1 DEF existing
  <2>3. Versions
    BY <2>1 DEF Versions
  <2>. QED
    BY <2>1, <2>2, <2>3 DEF Attempts, Waited, Mounted, PastPVC
<1>2. Init => PodInv
  BY <1>1, InitInv DEF PodInv
<1>3. PodInv /\ [Next]_vars => PodInv'
  BY NextInv, VersionsStep, AttemptsStep, WaitedStep, MountedStep DEF PodInv
<1>. QED
  BY <1>2, <1>3, PTL DEF Spec

\* The pods of a checkpointing job are created with their PVC in place, however
\* old the caches are and whoever leads.
THEOREM PVCComesFirst == Spec => []CheckpointMounted
<1>1. PodInv => CheckpointMounted
  BY DEF PodInv, Mounted, CheckpointMounted
<1>. QED
  BY <1>1, PodInvHolds, PTL

\* With a single operator, nothing else writes while it starts a retry: the attempt
\* it makes room for is the current one, and no pod is of that attempt yet.
Single == \A o, q \in Operators : o = q
Retrying ==
  \A o \in Operators : pc[o] \in {"listRetry", "deletePods"} =>
    /\ held(o).retryCount = job.retryCount
    /\ \A i \in existing(pods) : pods[i].attempt < job.retryCount

\* Only syncStatusFromPods moves the attempt counter.
LEMMA CounterMoves ==
  ASSUME IInv, [Next]_vars
  PROVE  \/ job'.retryCount = job.retryCount
         \/ \E q \in Operators : pc[q] = "syncStatus"
<1>. TypeOK /\ job \in JobObject
  BY CurrentType DEF IInv
<1>1. CASE jobLog' = jobLog
  BY <1>1 DEF job
<1>2. ASSUME NEW b \in JobObject, WriteJob(b), b.retryCount = job.retryCount
      PROVE  job'.retryCount = job.retryCount
  BY <1>2, GrowsByJob
<1>3. ASSUME NEW o \in Operators, ver[o] = Len(jobLog)
      PROVE  held(o) = job
  BY <1>3 DEF held, job
<1>4. CASE jobLog' # jobLog /\ ~\E q \in Operators : pc[q] = "syncStatus"
  <2>1. \/ DeleteJob
        \/ \E o \in Operators : \/ reconcileDelete(o) \/ addFinalizer(o)
                                \/ setPending(o) \/ clearRetryTimer(o)
    <3>1. \/ \E o \in Operators : Step(o) \/ SyncJob(o) \/ SyncPods(o) \/ SyncPVC(o)
                                  \/ ApiError(o) \/ Crash(o)
          \/ \E i \in Members : PodProgress(i) \/ PodGone(i) \/ CollectPod(i) \/ Disrupt(i)
          \/ DeleteJob \/ PoolChanges \/ BackoffElapses \/ LeaseMoves
      BY <1>4, Zenon DEF Next, vars, api
    <3>2. ASSUME NEW o \in Operators, Step(o)
          PROVE  \/ reconcileDelete(o) \/ addFinalizer(o) \/ setPending(o) \/ clearRetryTimer(o)
      BY <1>4, <3>2, Zenon
         DEF Step, Reconcile, Conflict, ensureCheckpointPVC, getPool, listPods, createPod,
             syncStatus, listRetryPods, deleteRetryPod, WritePod, DeletePod, api
    <3>3. ASSUME NEW o \in Operators,
                 SyncJob(o) \/ SyncPods(o) \/ SyncPVC(o) \/ ApiError(o) \/ Crash(o)
          PROVE  FALSE
      BY <1>4, <3>3, Zenon DEF SyncJob, SyncPods, SyncPVC, ApiError, Crash, api
    <3>4. ASSUME NEW i \in Members, PodProgress(i) \/ PodGone(i) \/ CollectPod(i) \/ Disrupt(i)
          PROVE  FALSE
      BY <1>4, <3>4, Zenon DEF PodProgress, PodGone, CollectPod, Disrupt, WritePod, DeletePod
    <3>5. ~PoolChanges /\ ~BackoffElapses /\ ~LeaseMoves
      BY <1>4, Zenon DEF PoolChanges, BackoffElapses, LeaseMoves, api
    <3> QED
      BY <3>1, <3>2, <3>3, <3>4, <3>5, Zenon
  <2>2. \E b \in JobObject : WriteJob(b) /\ b.retryCount = job.retryCount
    <3>. DEFINE b1 == [job EXCEPT !.present = FALSE]
                b2 == [job EXCEPT !.finalizer = TRUE, !.maxRetries = defaulted(@)]
                b3 == [job EXCEPT !.phase = "Pending"]
                b4 == [job EXCEPT !.nextRetry = FALSE]
                b5 == [job EXCEPT !.deleting = TRUE, !.present = job.finalizer]
    <3>1. /\ b1 \in JobObject /\ b2 \in JobObject /\ b3 \in JobObject /\ b4 \in JobObject
          /\ b5 \in JobObject
      BY EditTypes, Zenon
    <3>2. /\ b1.retryCount = job.retryCount /\ b2.retryCount = job.retryCount
          /\ b3.retryCount = job.retryCount /\ b4.retryCount = job.retryCount
          /\ b5.retryCount = job.retryCount
      BY Zenon DEF JobObject
    <3>3. WriteJob(b1) \/ WriteJob(b2) \/ WriteJob(b3) \/ WriteJob(b4) \/ WriteJob(b5)
      BY <1>3, <2>1, Zenon DEF DeleteJob, reconcileDelete, addFinalizer, setPending, clearRetryTimer
    <3>. HIDE DEF b1, b2, b3, b4, b5
    <3>. QED
      BY <3>1, <3>2, <3>3, Zenon
  <2>. QED
    BY <1>2, <2>2
<1>. QED
  BY <1>1, <1>4

\* Retrying is kept by a single operator.
LEMMA RetryingStep == ASSUME PodInv, Single, Retrying, [Next]_vars PROVE Retrying'
<1>. IInv /\ TypeOK /\ pods \in [Members -> PodObject] /\ job \in JobObject
  BY CurrentType DEF PodInv, IInv
<1>. SUFFICES ASSUME NEW m \in Operators, pc'[m] \in {"listRetry", "deletePods"}
              PROVE  /\ held(m)'.retryCount = job'.retryCount
                     /\ \A i \in Members : pods'[i].phase # "None" =>
                                             pods'[i].attempt < job'.retryCount
  BY Zenon DEF Retrying, existing
<1>1. CASE pc[m] \in {"listRetry", "deletePods"} /\ ver'[m] = ver[m]
  <2>1. \A o \in Operators : pc[o] \in {"listRetry", "deletePods"}
    BY <1>1, SMTT(30) DEF Single
  <2>2. /\ held(m).retryCount = job.retryCount
        /\ \A i \in Members : pods[i].phase # "None" => pods[i].attempt < job.retryCount
    BY <1>1, SMTT(30) DEF Retrying, existing
  <2>3. held(m)' = held(m)
    BY <1>1, HeldKept
  <2>4. job'.retryCount = job.retryCount
    BY <2>1, CounterMoves
  <2>5. ASSUME NEW i \in Members, pods'[i].phase # "None"
        PROVE  pods[i].phase # "None" /\ pods'[i].attempt = pods[i].attempt
    <3>1. CASE pods'[i] = pods[i]
      BY <2>5, <3>1, SMTT(30)
    <3>2. CASE pods'[i] # pods[i]
      <4>1. PodChange(i, pods'[i])
        BY <3>2, NextPods DEF PodStep
      <4>. QED
        BY <2>1, <2>5, <4>1 DEF PodChange, NoPod
    <3>. QED
      BY <3>1, <3>2
  <2>. QED
    BY <2>2, <2>3, <2>4, <2>5, Zenon
<1>2. CASE pc[m] = "startRetry" /\ ver'[m] = ver[m] /\ clearRetryTimer(m)
  <2>. DEFINE b == [job EXCEPT !.nextRetry = FALSE]
  <2>1. held(m) = job /\ WriteJob(b)
    BY <1>2 DEF clearRetryTimer, held, job
  <2>a. b \in JobObject
    BY EditTypes, Zenon
  <2>b. b.retryCount = job.retryCount
    BY Zenon DEF JobObject
  <2>2. b \in JobObject /\ b.retryCount = job.retryCount
    BY <2>a, <2>b, Zenon
  <2>3. job.nextRetry
    BY <1>2, <2>1, Zenon DEF IInv, InFlight, Checked
  <2>. HIDE DEF b
  <2>4. job' = b /\ podLog' = podLog
    BY <2>1, <2>2, GrowsByJob, SMTT(20)
  <2>5. held(m)' = held(m)
    BY <1>2, HeldKept
  <2>6. \A i \in Members : pods[i].phase # "None" => pods[i].attempt < job.retryCount
    BY <2>3 DEF PodInv, Attempts, existing
  <2>7. pods' = pods
    BY <2>4 DEF pods
  <2>. QED
    BY <2>1, <2>2, <2>4, <2>5, <2>6, <2>7, Zenon
<1>. QED
  BY <1>1, <1>2, NextMoves DEF Moves, PastPVC

\* Both invariants together, for a single operator.
LEMMA RetryingHolds == ASSUME Single PROVE Spec => [](PodInv /\ Retrying)
<1>1. Init => Retrying
  BY DEF Init, Retrying
<1>2. PodInv /\ Retrying /\ [Next]_vars => Retrying'
  BY RetryingStep
<1>. QED
  BY <1>1, <1>2, PodInvHolds, PTL DEF Spec

\* startRetry never deletes a pod of the attempt it starts, if there is one
\* operator: no cache is too old for that.
THEOREM NewAttemptIsSpared == ASSUME Single PROVE Spec => []RetrySparesNewAttempt
<1>1. PodInv /\ Retrying => RetrySparesNewAttempt
  <2>. SUFFICES ASSUME PodInv, Retrying PROVE RetrySparesNewAttempt
    OBVIOUS
  <2>. QED
    BY DEF Retrying, RetrySparesNewAttempt, existing
<1>. QED
  BY <1>1, RetryingHolds, PTL

\* With one operator, a failed pod stays for inspection until its job's backoff has
\* elapsed, unless the job is gone or somebody else deletes the pod.
THEOREM FailedPodsStay == ASSUME Single PROVE Spec => FailedPodsKept
<1>. DEFINE A == \A i \in Members :
                   /\ job.present /\ clock < job.retryCount
                   /\ pods[i].phase = "Failed" /\ ~pods[i].deleting
                   /\ disruptions' = disruptions
                   => pods'[i].phase = "Failed"
<1>1. PodInv /\ Retrying /\ [Next]_vars => A
  <2>. SUFFICES ASSUME PodInv, Retrying, [Next]_vars, NEW i \in Members,
                       job.present, clock < job.retryCount,
                       pods[i].phase = "Failed", ~pods[i].deleting,
                       disruptions' = disruptions, pods'[i].phase # "Failed"
                PROVE  FALSE
    OBVIOUS
  <2>. IInv /\ TypeOK /\ pods \in [Members -> PodObject] /\ job \in JobObject
    BY CurrentType DEF PodInv, IInv
  <2>1. PodChange(i, pods'[i])
    BY NextPods, SMTT(30) DEF PodStep
  <2>2. PICK o \in Operators : pc[o] = "deletePods"
    BY <2>1 DEF PodChange
  <2>3. held(o).retryCount = job.retryCount /\ held(o).retryCount <= clock
    BY <2>2 DEF Retrying, PodInv, Waited
  <2>4. clock \in Nat /\ job.retryCount \in Nat
    BY TypeParts, Zenon DEF EnvTyped, JobObject
  <2>. QED
    BY <2>3, <2>4
<1>2. PodInv /\ Retrying /\ [Next]_vars => [A]_vars
  BY <1>1
<1>. QED
  BY <1>2, RetryingHolds, PTL DEF Spec, FailedPodsKept
=============================================================================
