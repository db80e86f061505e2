--------------------------- MODULE AcceleratorJob ---------------------------
(***************************************************************************)
(* The AcceleratorJob reconciler (internal/controller) working on one job: *)
(* the job object and its pods in the Kubernetes API server, the informer  *)
(* caches every operator replica reads from, the reconcile loop of the     *)
(* leader, and the kubelet, garbage collector, users and faults around it. *)
(*                                                                         *)
(* Reconciles of different jobs share no state, so one job is the whole    *)
(* story.  Every API write is a step of its own: anything may happen       *)
(* between two writes of one reconcile.  Reads come from the cache of the  *)
(* operator's manager, which trails the API server.                        *)
(***************************************************************************)
EXTENDS Backoff, Naturals, Sequences, FiniteSets

CONSTANTS
  Operators,         \* the operator replicas, one of which holds the lease
  GangSize,          \* spec.gangSize
  MaxRetries,        \* spec.maxRetries as the job's author wrote it
  DefaultMaxRetries, \* the default of maxRetries in the CRD schema (3)
  Checkpoint,        \* spec.checkpoint
  UsesPool,          \* spec.pool # ""
  MaxLag,            \* bound: versions a cache may trail the API server by
  MaxFaults,         \* bound: API errors, operator crashes, lease losses
  MaxDisruptions     \* bound: pods deleted by someone else than the operator

ASSUME JobAssumption ==
  /\ Operators # {}
  /\ GangSize \in Nat /\ MaxRetries \in Nat /\ DefaultMaxRetries \in Nat
  /\ Checkpoint \in BOOLEAN /\ UsesPool \in BOOLEAN
  /\ MaxLag \in Nat /\ MaxFaults \in Nat /\ MaxDisruptions \in Nat

VARIABLES
  jobLog,    \* the versions of the job object; the index is resourceVersion
  podLog,    \* the versions of the set of the job's pods
  pvc,       \* the checkpoint PVC exists
  pool,      \* the AcceleratorPool the job names exists
  clock,     \* how many of the job's retry deadlines have passed
  leader,    \* the operator holding the lease
  queued,    \* the leader's workqueue holds the job's key
  jobSeen,   \* the version of the job in each operator's cache, 0 for none
  podSeen,   \* the version of the pods in each operator's cache
  pvcSeen,   \* the PVC is in each operator's cache
  pc,        \* where each operator's reconcile is
  ver,       \* the version of the job the reconcile works on
  lst,       \* the version of the pods its List returned
  todo,      \* the members it still has to create or delete
  faults, disruptions

api == <<jobLog, podLog, pvc>>
caches == <<jobSeen, podSeen, pvcSeen>>
worker == <<pc, ver, lst, todo>>
env == <<pool, clock, leader, faults, disruptions>>
vars == <<api, caches, worker, env, queued>>

Terminal == {"Succeeded", "Failed"}
PodPhases == {"None", "Pending", "Running", "Succeeded", "Failed"}

\* spec.gangSize below 1 counts as 1; member i's pod has a name of its own.
gangSize == IF GangSize < 1 THEN 1 ELSE GangSize
Members == 0 .. gangSize - 1

\* The parts of the object the reconciler reads or writes.  nextRetry says
\* that status.nextRetryTime is set; message abstracts status.message.
JobObject == [present : BOOLEAN, deleting : BOOLEAN, finalizer : BOOLEAN,
              maxRetries : Nat, phase : {"", "Pending", "Running"} \cup Terminal,
              retryCount : Nat, nextRetry : BOOLEAN,
              message : {"", "retrying", "failed"},
              startTime : BOOLEAN, completionTime : BOOLEAN]

\* owned says that the pod's controller reference names the job; attempt is
\* history only: status.retryCount when the pod was created.
PodObject == [phase : PodPhases, deleting : BOOLEAN, owned : BOOLEAN,
              attempt : Nat]
NoPod == [phase |-> "None", deleting |-> FALSE, owned |-> FALSE, attempt |-> 0]

NewJob == [present |-> TRUE, deleting |-> FALSE, finalizer |-> FALSE,
           maxRetries |-> MaxRetries, phase |-> "", retryCount |-> 0,
           nextRetry |-> FALSE, message |-> "",
           startTime |-> FALSE, completionTime |-> FALSE]

job == jobLog[Len(jobLog)]
pods == podLog[Len(podLog)]
existing(l) == {i \in Members : l[i].phase # "None"}

-----------------------------------------------------------------------------
(* Pure parts of the reconciler.                                           *)

\* Mutation: one succeeded member counts as all of them.
aggregatePhaseAny(l) ==
  LET phases == {l[i].phase : i \in existing(l)}
  IN CASE "Failed" \in phases -> "Failed"
       [] OTHER -> IF "Succeeded" \in phases THEN "Succeeded"
                   ELSE IF "Running" \in phases THEN "Running" ELSE "Pending"

\* aggregatePhase: any failure fails the job, all succeeded succeeds it, ...
aggregatePhase(l) ==
  LET phases == {l[i].phase : i \in existing(l)}
  IN CASE "Failed" \in phases -> "Failed"
       [] phases \subseteq {"Succeeded"} -> "Succeeded"
       [] OTHER -> IF phases \cap {"Running", "Succeeded"} # {}
                   THEN "Running" ELSE "Pending"

\* Mutations: one retry too many, a counter that is not advanced, a phase that is
\* not reset.
scheduleOneMore(j) ==
  IF j.retryCount > j.maxRetries
  THEN [j EXCEPT !.phase = "Failed", !.message = "failed", !.completionTime = TRUE]
  ELSE [j EXCEPT !.retryCount = @ + 1, !.phase = "Pending",
                 !.nextRetry = TRUE, !.message = "retrying"]
scheduleUncounted(j) ==
  IF j.retryCount >= j.maxRetries
  THEN [j EXCEPT !.phase = "Failed", !.message = "failed", !.completionTime = TRUE]
  ELSE [j EXCEPT !.phase = "Pending", !.nextRetry = TRUE, !.message = "retrying"]
scheduleKeepPhase(j) ==
  IF j.retryCount >= j.maxRetries
  THEN [j EXCEPT !.phase = "Failed", !.message = "failed", !.completionTime = TRUE]
  ELSE [j EXCEPT !.retryCount = @ + 1, !.nextRetry = TRUE, !.message = "retrying"]

\* The status scheduleRetryOrFail writes.
scheduleRetryOrFail(j) ==
  IF j.retryCount >= j.maxRetries
  THEN [j EXCEPT !.phase = "Failed", !.message = "failed",
                 !.completionTime = TRUE]
  ELSE [j EXCEPT !.retryCount = @ + 1, !.phase = "Pending",
                 !.nextRetry = TRUE, !.message = "retrying"]

\* The status syncStatusFromPods writes; j itself when it writes nothing.
syncStatusFromPods(j, l) ==
  LET phase == aggregatePhase(l)
  IN IF phase = "Failed" THEN scheduleRetryOrFail(j)
     ELSE [j EXCEPT !.phase = phase,
                    !.startTime = @ \/ (phase = "Running" /\ j.phase # phase),
                    !.completionTime = @ \/ phase = "Succeeded"]

\* Mutation: no owner reference.
buildOrphan(j) == [phase |-> "Pending", deleting |-> FALSE, owned |-> FALSE,
                   attempt |-> j.retryCount]

\* The pod the reconciler creates, SetControllerReference included.
buildPod(j) == [phase |-> "Pending", deleting |-> FALSE, owned |-> TRUE,
                attempt |-> j.retryCount]

\* Mutation: a retry does not wait.
backoffIgnored(j) == FALSE

\* The current backoff has not elapsed.
backoffLeft(j) == j.nextRetry /\ clock < j.retryCount

\* r.Update sends the whole object.  maxRetries is marshalled with omitempty,
\* so a 0 is left out and the API server fills in the schema's default.
defaulted(n) == IF n = 0 THEN DefaultMaxRetries ELSE n

-----------------------------------------------------------------------------
(* The API server: a write appends a version.                              *)

WriteJob(j) ==
  /\ \A o \in Operators : Len(jobLog) < jobSeen[o] + MaxLag
  /\ jobLog' = Append(jobLog, j)
  /\ UNCHANGED <<podLog, pvc>>
WritePod(i, p) ==
  /\ \A o \in Operators : Len(podLog) < podSeen[o] + MaxLag
  /\ podLog' = Append(podLog, [pods EXCEPT ![i] = p])
  /\ UNCHANGED <<jobLog, pvc>>

\* A DELETE on pod i.  A pod whose containers are done is removed at once; one
\* with a node is marked and left to its kubelet.  A Pending pod may be either.
DeletePod(i) ==
  /\ ~pods[i].deleting
  /\ \/ /\ pods[i].phase \in {"Pending", "Succeeded", "Failed"}
        /\ WritePod(i, NoPod)
     \/ /\ pods[i].phase \in {"Pending", "Running"}
        /\ WritePod(i, [pods[i] EXCEPT !.deleting = TRUE])

-----------------------------------------------------------------------------
(* The reconcile loop of operator o.                                       *)

cached(o) == IF jobSeen[o] = 0 THEN [NewJob EXCEPT !.present = FALSE]
             ELSE jobLog[jobSeen[o]]
held(o) == jobLog[ver[o]]
listed(o) == podLog[lst[o]]

Goto(o, l) == pc' = [pc EXCEPT ![o] = l]

\* Reconcile returns.  An error, Requeue and RequeueAfter all put the key back
\* on the queue of the operator that still leads; the delay is abstracted.
Return(o, requeue) ==
  /\ Goto(o, "idle")
  /\ ver' = [ver EXCEPT ![o] = 0]
  /\ lst' = [lst EXCEPT ![o] = 0]
  /\ todo' = [todo EXCEPT ![o] = {}]
  /\ queued' = (queued \/ (requeue /\ o = leader))

\* Where a reconcile goes once the checkpoint PVC is there.
afterPVC == IF UsesPool THEN "getPool" ELSE "listPods"

\* r.Get from the cache and the checks that follow it.
Reconcile(o) ==
  LET j == cached(o)
      live == j.present /\ ~j.deleting
      open == live /\ j.finalizer /\ j.phase \notin Terminal
      Begin(l) == /\ Goto(o, l)
                  /\ ver' = [ver EXCEPT ![o] = jobSeen[o]]
                  /\ queued' = FALSE
                  /\ UNCHANGED <<lst, todo>>
      Done(again) == queued' = again /\ UNCHANGED worker
  IN /\ pc[o] = "idle" /\ o = leader /\ queued
     /\ \/ ~j.present /\ Done(FALSE)
        \/ j.present /\ j.deleting /\ j.finalizer /\ Begin("reconcileDelete")
        \/ live /\ ~j.finalizer /\ Begin("addFinalizer")
        \/ live /\ j.finalizer /\ j.phase \in Terminal /\ Done(FALSE)
        \/ open /\ backoffLeft(j) /\ Done(TRUE)
        \/ open /\ j.nextRetry /\ ~backoffLeft(j) /\ Begin("startRetry")
        \/ open /\ ~j.nextRetry /\ Begin(IF Checkpoint THEN "ensurePVC" ELSE afterPVC)
     /\ UNCHANGED <<api, caches, env>>

\* A write at an older version than the stored one fails with a conflict.
Conflict(o) ==
  /\ \/ pc[o] \in {"reconcileDelete", "addFinalizer", "startRetry", "setPending"}
     \/ pc[o] = "syncStatus" /\ syncStatusFromPods(held(o), listed(o)) # held(o)
  /\ ver[o] # Len(jobLog)
  /\ Return(o, TRUE)
  /\ UNCHANGED <<api, caches, env>>

reconcileDelete(o) ==
  /\ pc[o] = "reconcileDelete" /\ ver[o] = Len(jobLog)
  /\ WriteJob([held(o) EXCEPT !.present = FALSE])
  /\ Return(o, FALSE)
  /\ UNCHANGED <<caches, env>>

addFinalizer(o) ==
  /\ pc[o] = "addFinalizer" /\ ver[o] = Len(jobLog)
  /\ WriteJob([held(o) EXCEPT !.finalizer = TRUE, !.maxRetries = defaulted(@)])
  /\ Return(o, TRUE)
  /\ UNCHANGED <<caches, env>>

\* Mutation: a missing PVC is passed over.
skipCheckpointPVC(o) ==
  /\ pc[o] = "ensurePVC"
  /\ Goto(o, afterPVC)
  /\ UNCHANGED <<api, ver, lst, todo, queued, caches, env>>

\* The PVC is created when the cache lacks it; AlreadyExists is an error.
ensureCheckpointPVC(o) ==
  /\ pc[o] = "ensurePVC"
  /\ \/ /\ pvcSeen[o]
        /\ Goto(o, afterPVC) /\ UNCHANGED <<api, ver, lst, todo, queued>>
     \/ /\ ~pvcSeen[o] /\ ~pvc
        /\ pvc' = TRUE /\ UNCHANGED <<jobLog, podLog>>
        /\ Goto(o, afterPVC) /\ UNCHANGED <<ver, lst, todo, queued>>
     \/ /\ ~pvcSeen[o] /\ pvc
        /\ Return(o, TRUE) /\ UNCHANGED api
  /\ UNCHANGED <<caches, env>>

\* Mutation: a missing pool ends the reconcile without RequeueAfter.
getPoolOnce(o) ==
  /\ pc[o] = "getPool"
  /\ \/ ~pool /\ Return(o, FALSE)
     \/ pool /\ Goto(o, "listPods") /\ UNCHANGED <<ver, lst, todo, queued>>
  /\ UNCHANGED <<api, caches, env>>

\* The pool is a soft dependency: a missing one is looked up again later.
getPool(o) ==
  /\ pc[o] = "getPool"
  /\ \/ ~pool /\ Return(o, TRUE)
     \/ pool /\ Goto(o, "listPods") /\ UNCHANGED <<ver, lst, todo, queued>>
  /\ UNCHANGED <<api, caches, env>>

\* r.List from the cache, and the members it lacks.
listPods(o) ==
  LET missing == Members \ existing(podLog[podSeen[o]])
  IN /\ pc[o] = "listPods"
     /\ Goto(o, IF missing = {} THEN "syncStatus" ELSE "createPods")
     /\ lst' = [lst EXCEPT ![o] = podSeen[o]]
     /\ todo' = [todo EXCEPT ![o] = missing]
     /\ UNCHANGED <<api, caches, env, ver, queued>>

\* One r.Create of the creation loop, which goes through the members in order
\* and stops at the first error.
createPod(o) ==
  /\ pc[o] = "createPods"
  /\ \E i \in todo[o] :
       LET rest == todo[o] \ {i}
       IN /\ \A k \in todo[o] : i <= k
          /\ \/ /\ pods[i].phase # "None"
                /\ Return(o, TRUE) /\ UNCHANGED api
             \/ /\ pods[i].phase = "None"
                /\ WritePod(i, buildPod(held(o)))
                /\ \/ /\ rest # {} \/ held(o).phase = ""
                      /\ Goto(o, IF rest # {} THEN "createPods" ELSE "setPending")
                      /\ todo' = [todo EXCEPT ![o] = rest]
                      /\ UNCHANGED <<ver, lst, queued>>
                   \/ /\ rest = {} /\ held(o).phase # ""
                      /\ Return(o, FALSE)
  /\ UNCHANGED <<caches, env>>

\* Pods were created for a job without a phase.
setPending(o) ==
  /\ pc[o] = "setPending" /\ ver[o] = Len(jobLog)
  /\ WriteJob([held(o) EXCEPT !.phase = "Pending"])
  /\ Return(o, FALSE)
  /\ UNCHANGED <<caches, env>>

\* Mutation: the status is written whatever version is stored.
syncStatusBlind(o) ==
  LET new == syncStatusFromPods(held(o), listed(o))
  IN /\ pc[o] = "syncStatus"
     /\ \/ new = held(o) /\ UNCHANGED api
        \/ new # held(o) /\ WriteJob(new)
     /\ Return(o, FALSE)
     /\ UNCHANGED <<caches, env>>

\* syncStatusFromPods: the write happens only when the status changes.
syncStatus(o) ==
  LET new == syncStatusFromPods(held(o), listed(o))
  IN /\ pc[o] = "syncStatus"
     /\ \/ new = held(o) /\ UNCHANGED api
        \/ new # held(o) /\ ver[o] = Len(jobLog) /\ WriteJob(new)
     /\ Return(o, FALSE)
     /\ UNCHANGED <<caches, env>>

\* startRetry: first the timer is cleared in the API server ...
clearRetryTimer(o) ==
  /\ pc[o] = "startRetry" /\ ver[o] = Len(jobLog)
  /\ WriteJob([held(o) EXCEPT !.nextRetry = FALSE])
  /\ Goto(o, "listRetry")
  /\ UNCHANGED <<caches, env, ver, lst, todo, queued>>

\* ... then the pods are listed from the cache ...
listRetryPods(o) ==
  LET old == existing(podLog[podSeen[o]])
  IN /\ pc[o] = "listRetry"
     /\ \/ /\ old # {}
           /\ Goto(o, "deletePods") /\ todo' = [todo EXCEPT ![o] = old]
           /\ UNCHANGED <<ver, lst, queued>>
        \/ old = {} /\ Return(o, FALSE)
     /\ UNCHANGED <<api, caches, env>>

\* ... and deleted by name one by one, in the cache's order.  NotFound is fine.
deleteRetryPod(o) ==
  /\ pc[o] = "deletePods"
  /\ \E i \in todo[o] :
       /\ \/ DeletePod(i)
          \/ (pods[i].phase = "None" \/ pods[i].deleting) /\ UNCHANGED api
       /\ \/ /\ todo[o] # {i}
             /\ todo' = [todo EXCEPT ![o] = @ \ {i}]
             /\ UNCHANGED <<pc, ver, lst, queued>>
          \/ todo[o] = {i} /\ Return(o, FALSE)
  /\ UNCHANGED <<caches, env>>

Step(o) ==
  \/ Reconcile(o) \/ Conflict(o) \/ reconcileDelete(o) \/ addFinalizer(o)
  \/ ensureCheckpointPVC(o) \/ getPool(o) \/ listPods(o) \/ createPod(o)
  \/ setPending(o) \/ syncStatus(o) \/ clearRetryTimer(o)
  \/ listRetryPods(o) \/ deleteRetryPod(o)

-----------------------------------------------------------------------------
(* Informers: each cache applies the watch events of one kind in order, and *)
(* an event on the job or on a pod it owns queues the job's key.            *)

SyncJob(o) ==
  /\ jobSeen[o] < Len(jobLog)
  /\ jobSeen' = [jobSeen EXCEPT ![o] = @ + 1]
  /\ queued' = (queued \/ o = leader)
  /\ UNCHANGED <<api, worker, env, podSeen, pvcSeen>>

SyncPods(o) ==
  /\ podSeen[o] < Len(podLog)
  /\ podSeen' = [podSeen EXCEPT ![o] = @ + 1]
  /\ LET old == podLog[podSeen[o]]
         new == podLog[podSeen[o] + 1]
     IN queued' = (queued \/ (o = leader /\ \E i \in Members :
                               old[i] # new[i] /\ (old[i].owned \/ new[i].owned)))
  /\ UNCHANGED <<api, worker, env, jobSeen, pvcSeen>>

SyncPVC(o) ==
  /\ pvc /\ ~pvcSeen[o]
  /\ pvcSeen' = [pvcSeen EXCEPT ![o] = TRUE]
  /\ UNCHANGED <<api, worker, env, jobSeen, podSeen, queued>>

-----------------------------------------------------------------------------
(* The rest of the cluster.                                                 *)

\* The kubelet reports a pod's progress.  It may report the end of a short
\* container without ever reporting Running, and it reports how a pod that is
\* being deleted ended before it lets the pod go.
PodProgress(i) ==
  /\ pods[i].phase \in {"Pending", "Running"}
  /\ \E ph \in {"Running", "Succeeded", "Failed"} \ {pods[i].phase} :
       /\ pods[i].deleting => ph # "Running"
       /\ WritePod(i, [pods[i] EXCEPT !.phase = ph])
  /\ UNCHANGED <<caches, worker, env, queued>>

PodGone(i) ==
  /\ pods[i].deleting
  /\ WritePod(i, NoPod)
  /\ UNCHANGED <<caches, worker, env, queued>>

\* The garbage collector deletes the pods of a job that is gone.
CollectPod(i) ==
  /\ ~job.present /\ pods[i].owned
  /\ DeletePod(i)
  /\ UNCHANGED <<caches, worker, env, queued>>

\* A drain, an eviction, a preemption or a user deletes a pod.
Disrupt(i) ==
  /\ disruptions < MaxDisruptions
  /\ DeletePod(i)
  /\ disruptions' = disruptions + 1
  /\ UNCHANGED <<caches, worker, pool, clock, leader, faults, queued>>

\* The job is deleted: at once without a finalizer, else by reconcileDelete.
DeleteJob ==
  /\ job.present /\ ~job.deleting
  /\ WriteJob([job EXCEPT !.deleting = TRUE, !.present = job.finalizer])
  /\ UNCHANGED <<caches, worker, env, queued>>

PoolChanges ==
  /\ UsesPool
  /\ pool' = ~pool
  /\ UNCHANGED <<api, caches, worker, clock, leader, faults, disruptions, queued>>

\* The current retry deadline passes.
BackoffElapses ==
  /\ job.nextRetry /\ clock < job.retryCount
  /\ clock' = clock + 1
  /\ UNCHANGED <<api, caches, worker, pool, leader, faults, disruptions, queued>>

\* An API call of o's reconcile fails, before or after the server acted on it.
ApiError(o) ==
  /\ faults < MaxFaults /\ pc[o] # "idle"
  /\ faults' = faults + 1
  /\ Return(o, TRUE)
  /\ UNCHANGED <<api, caches, pool, clock, leader, disruptions>>

\* o's process dies and a new one lists everything afresh.
Crash(o) ==
  /\ faults < MaxFaults
  /\ faults' = faults + 1
  /\ Return(o, TRUE)
  /\ jobSeen' = [jobSeen EXCEPT ![o] = Len(jobLog)]
  /\ podSeen' = [podSeen EXCEPT ![o] = Len(podLog)]
  /\ pvcSeen' = [pvcSeen EXCEPT ![o] = pvc]
  /\ UNCHANGED <<api, pool, clock, leader, disruptions>>

\* Another replica takes the lease and starts from its own cache.  What the
\* old leader has in flight goes on until it is done or its process dies.
LeaseMoves ==
  /\ faults < MaxFaults
  /\ \E o \in Operators \ {leader} : leader' = o
  /\ faults' = faults + 1
  /\ queued' = TRUE
  /\ UNCHANGED <<api, caches, worker, pool, clock, disruptions>>

-----------------------------------------------------------------------------
Init ==
  /\ jobLog = <<NewJob>>
  /\ podLog = <<[i \in Members |-> NoPod]>>
  /\ pvc = FALSE
  /\ pool \in (IF UsesPool THEN BOOLEAN ELSE {TRUE})
  /\ clock = 0
  /\ leader \in Operators
  /\ queued = FALSE
  /\ jobSeen = [o \in Operators |-> 0]
  /\ podSeen = [o \in Operators |-> 1]
  /\ pvcSeen = [o \in Operators |-> FALSE]
  /\ pc = [o \in Operators |-> "idle"]
  /\ ver = [o \in Operators |-> 0]
  /\ lst = [o \in Operators |-> 0]
  /\ todo = [o \in Operators |-> {}]
  /\ faults = 0
  /\ disruptions = 0

Next ==
  \/ \E o \in Operators : \/ Step(o)
                         \/ SyncJob(o) \/ SyncPods(o) \/ SyncPVC(o)
                         \/ ApiError(o) \/ Crash(o)
  \/ \E i \in Members : PodProgress(i) \/ PodGone(i) \/ CollectPod(i) \/ Disrupt(i)
  \/ DeleteJob \/ PoolChanges \/ BackoffElapses \/ LeaseMoves

Spec == Init /\ [][Next]_vars

\* What runs without being asked: the leader's worker, the informers, time,
\* kubelets and the garbage collector.  Users and faults are never forced.
Fairness ==
  /\ \A o \in Operators : /\ WF_vars(Step(o))
                          /\ WF_vars(SyncJob(o))
                          /\ WF_vars(SyncPods(o))
                          /\ WF_vars(SyncPVC(o))
  /\ \A i \in Members : /\ WF_vars(PodProgress(i))
                        /\ WF_vars(PodGone(i))
                        /\ WF_vars(CollectPod(i))
  /\ WF_vars(BackoffElapses)

FairSpec == Spec /\ Fairness

-----------------------------------------------------------------------------
(* Properties.                                                             *)

PcLabels == {"idle", "reconcileDelete", "addFinalizer", "startRetry",
             "ensurePVC", "getPool", "listPods", "createPods", "setPending",
             "syncStatus", "listRetry", "deletePods"}

\* Every variable has its type; a cache and a reconcile in flight refer to
\* versions the API server has stored.
TypeOK ==
  /\ jobLog \in Seq(JobObject) /\ Len(jobLog) > 0
  /\ podLog \in Seq([Members -> PodObject]) /\ Len(podLog) > 0
  /\ pvc \in BOOLEAN /\ pool \in BOOLEAN /\ queued \in BOOLEAN
  /\ clock \in Nat /\ faults \in Nat /\ disruptions \in Nat
  /\ leader \in Operators
  /\ jobSeen \in [Operators -> 0 .. Len(jobLog)]
  /\ podSeen \in [Operators -> 1 .. Len(podLog)]
  /\ pvcSeen \in [Operators -> BOOLEAN]
  /\ pc \in [Operators -> PcLabels]
  /\ ver \in [Operators -> 0 .. Len(jobLog)]
  /\ lst \in [Operators -> 0 .. Len(podLog)]
  /\ todo \in [Operators -> SUBSET Members]
  /\ \A o \in Operators : /\ pc[o] # "idle" => ver[o] > 0
                          /\ pc[o] = "syncStatus" => lst[o] > 0

\* What one version of the job says about itself: a retry timer belongs to a
\* pending job that has failed before, the completion time to a job that has
\* completed, and the message of a failure to a job that is Failed, with no
\* message left over from there (acceleratorjob_types.go: AcceleratorJobStatus).
Coherent(j) ==
  /\ j.nextRetry => /\ j.phase = "Pending" /\ j.retryCount > 0
                    /\ j.message = "retrying"
  /\ j.completionTime <=> j.phase \in Terminal
  /\ j.message = "failed" <=> j.phase = "Failed"

\* The status the API server stores is always coherent, whatever mix of stale
\* job and pod versions the reconciles that wrote it worked on.
StatusCoherent == Coherent(job)

\* scheduleRetryOrFail never grants more retries than the limit, and marks the
\* job Failed only once the limit is used up.
RetryBudget ==
  /\ job.retryCount <= job.maxRetries
  /\ job.phase = "Failed" => job.retryCount = job.maxRetries

\* A job is marked Succeeded only if there was a moment when the pods of all
\* members had succeeded (aggregatePhase on a list that may be old).
GangSucceeded == \E k \in 1 .. Len(podLog) : \A i \in Members :
                    podLog[k][i].phase = "Succeeded"
SucceededMeansAllRan == job.phase = "Succeeded" => GangSucceeded

\* Reconcile never leaves Succeeded or Failed again: no reconcile in flight,
\* stale cache or deposed leader can overwrite a final phase.
TerminalIsFinal == [][job.phase \in Terminal => job'.phase = job.phase]_vars

\* The pods startRetry is about to delete are of attempts before the one it
\* makes room for; it never kills the attempt it starts.  This takes a single
\* operator: startRetry deletes by name, and a deposed leader that still
\* deletes can hit the pods its successor has created.
RetrySparesNewAttempt ==
  \A o \in Operators : pc[o] \in {"listRetry", "deletePods"} =>
    \A i \in Members : pods[i].phase # "None" =>
                         pods[i].attempt < held(o).retryCount

\* scheduleRetryOrFail: "failed pods stay around for inspection" until the
\* backoff elapses, unless the job or somebody else removes them.
FailedPodsKept ==
  [][\A i \in Members :
       /\ job.present /\ clock < job.retryCount
       /\ pods[i].phase = "Failed" /\ ~pods[i].deleting
       /\ disruptions' = disruptions
       => pods'[i].phase = "Failed"]_vars

\* backoffDuration: "shift overflow also falls through to the cap": whenever a
\* job waits for a retry, this wait and all that can follow are between 5s and
\* 60s and get no shorter, also where the shift loses bits or sets the sign.
BackoffGrows ==
  job.nextRetry => \A k \in RetryCounts : k >= job.retryCount => k \in SaneCounts

\* A pod of a checkpointing job is only ever created with its PVC in place.
CheckpointMounted == Checkpoint /\ existing(pods) # {} => pvc

\* If the pool stays, the job reaches a final phase or is deleted: no wakeup
\* is lost between the workqueue, the informers and the retry timer.
JobSettles == <>[]pool => <>(job.phase \in Terminal \/ ~job.present)

\* Pods of a deleted job do not outlive it for good, even if a reconcile that
\* works on an old version creates one late.
OrphansCollected == ~job.present ~> [](existing(pods) = {})

\* The stored status takes only the steps JobStatus allows, with the limit the
\* API server ends up storing: Observe for syncStatusFromPods and setPending,
\* ScheduleRetry and Fail for scheduleRetryOrFail, StartRetry for startRetry.
Life == INSTANCE JobStatus WITH
          Limit <- defaulted(MaxRetries), phase <- job.phase,
          retries <- job.retryCount, waiting <- job.nextRetry,
          present <- job.present
Lifecycle == Life!Spec

(* What the repository's comments say and the code does not do.            *)

\* acceleratorjob_types.go: "MaxRetries is how many times a failed job is
\* retried": a Failed job has run all its attempts.
EveryRetryRan ==
  job.phase = "Failed" =>
    \A a \in 0 .. job.retryCount : \E k \in 1 .. Len(podLog), i \in Members :
      podLog[k][i].phase # "None" /\ podLog[k][i].attempt = a

\* acceleratorjob_controller.go, startRetry: "it deletes the failed
\* generation's pods": a job succeeds with pods of one attempt only.
OneGeneration ==
  job.phase = "Succeeded" =>
    \E k \in 1 .. Len(podLog) : \A i, m \in Members :
      podLog[k][i].phase = "Succeeded" /\ podLog[k][i].attempt = podLog[k][m].attempt

\* acceleratorjob_types.go: "0 means no retries".
ZeroMeansNoRetries == MaxRetries = 0 => job.retryCount = 0

\* acceleratorjob_types.go: "Message carries a human-readable explanation for
\* the current phase": a message about waiting for a retry is on a waiting job.
MessageExplainsPhase == job.message = "retrying" => job.phase = "Pending"

=============================================================================
