-------------------------- MODULE InferenceService --------------------------
(***************************************************************************)
(* The InferenceService controller (internal/controller): a Deployment and *)
(* a Service kept in line with the object, whose status follows the        *)
(* Deployment's.  Reads come from caches, writes carry the version read.   *)
(***************************************************************************)
EXTENDS Naturals

CONSTANTS
  MaxReplicas,  \* bound on spec.replicas and on ready replicas
  MaxEvents,    \* bound on what users and the cluster do to the objects
  MaxVersion    \* bound on a child's versions, reached only when children of
                \* a deleted object are created and collected in turn

ASSUME InferenceAssumption ==
  MaxReplicas \in Nat \ {0} /\ MaxEvents \in Nat /\ MaxVersion > 1 + 2 * MaxEvents

VARIABLES
  svc,         \* the InferenceService in the API server
  child,       \* its Deployment and its Service there
  svcCache,    \* the same in the controller's caches
  childCache,
  step,        \* the call the reconcile makes next
  copy,        \* the object it works on
  queued,      \* the workqueue holds the object's key
  events

store == <<svc, child>>
caches == <<svcCache, childCache>>
inferenceVars == <<store, caches, step, copy, queued, events>>

Kinds == {"deployment", "service"}
NoStatus == [phase |-> "", ready |-> 0]
NoChild == [live |-> FALSE, replicas |-> 0, owned |-> FALSE, ready |-> 0, rv |-> 0]

\* The CRD's schema has a minimum and a default of one replica.
InferenceInit ==
  /\ \E n \in 1 .. MaxReplicas :
       svc = [live |-> TRUE, replicas |-> n, status |-> NoStatus, rv |-> 1]
  /\ child = [k \in Kinds |-> NoChild]
  /\ svcCache = svc /\ childCache = child
  /\ step = "idle" /\ copy = svc /\ queued = TRUE /\ events = 0

-----------------------------------------------------------------------------
\* What the mutate functions set: fewer than one replica means one.
desired(k, s) == IF k = "service" \/ s.replicas < 1 THEN 1 ELSE s.replicas

\* Mutation: no controller reference.
builtOrphan(k, s, c) == [c EXCEPT !.live = TRUE, !.replicas = desired(k, s)]

\* The stored child after the write; the same content makes no new version.
built(k, s, c) ==
  LET d == [c EXCEPT !.live = TRUE, !.replicas = desired(k, s), !.owned = TRUE]
  IN  IF d = c THEN c ELSE [d EXCEPT !.rv = @ + 1]

\* Mutation: the status comes before the Service.
followingEarly(k) == "status"
\* The call after ensureDeployment or ensureService.
following(k) == IF k = "deployment" THEN "service" ELSE "status"

Fail == step' = "idle" /\ queued' = TRUE

Reconcile ==
  /\ step = "idle" /\ queued /\ queued' = FALSE
  /\ copy' = svcCache
  /\ step' = IF svcCache.live THEN "deployment" ELSE "idle"
  /\ UNCHANGED <<store, caches, events>>

\* ensureDeployment and ensureService: CreateOrUpdate reads the child from the
\* cache and creates or updates it.  The fields it sets lack the API server's
\* defaults, so a child that is found is always sent back.  A stale read ends
\* in AlreadyExists, NotFound or a conflict.
ensure(k) ==
  LET c == childCache[k]
      fresh == c.live = child[k].live /\ (c.live => c.rv = child[k].rv)
  IN  /\ step = k /\ child[k].rv < MaxVersion
      /\ \/ /\ fresh /\ child' = [child EXCEPT ![k] = built(k, copy, @)]
            /\ step' = following(k) /\ UNCHANGED queued
         \/ ~ fresh /\ Fail /\ UNCHANGED child
      /\ UNCHANGED <<svc, caches, copy, events>>

statusOf(d) == [phase |-> IF d.ready > 0 THEN "Ready" ELSE "Pending", ready |-> d.ready]

\* Mutation: readyReplicas left out of the comparison.
upToDatePhase(s, status) == s.status.phase = status.phase
upToDate(s, status) == s.status = status

syncStatus ==
  LET d == childCache["deployment"]
      skip == ~ d.live \/ upToDate(copy, statusOf(d))
      fresh == svc.live /\ copy.rv = svc.rv
  IN  /\ step = "status"
      /\ \/ skip /\ step' = "idle" /\ UNCHANGED <<svc, queued>>
         \/ /\ ~ skip /\ fresh /\ step' = "idle"
            /\ svc' = [svc EXCEPT !.status = statusOf(d), !.rv = @ + 1]
            /\ UNCHANGED queued
         \/ ~ skip /\ ~ fresh /\ Fail /\ UNCHANGED svc
      /\ UNCHANGED <<child, caches, copy, events>>

\* Watch events (For and Owns): the cache follows and the key is queued.
SyncSvc ==
  /\ svcCache # svc /\ svcCache' = svc /\ queued' = TRUE
  /\ UNCHANGED <<store, childCache, step, copy, events>>
SyncChild(k) ==
  /\ childCache[k] # child[k]
  /\ childCache' = [childCache EXCEPT ![k] = child[k]] /\ queued' = TRUE
  /\ UNCHANGED <<store, svcCache, step, copy, events>>

-----------------------------------------------------------------------------
(* Users and the cluster.                                                  *)
Event == events < MaxEvents /\ events' = events + 1

EditReplicas(n) ==
  /\ Event /\ svc.live /\ n # svc.replicas
  /\ svc' = [svc EXCEPT !.replicas = n, !.rv = @ + 1]
  /\ UNCHANGED <<child, caches, step, copy, queued>>
DeleteSvc ==
  /\ Event /\ svc.live /\ svc' = [svc EXCEPT !.live = FALSE]
  /\ UNCHANGED <<child, caches, step, copy, queued>>
ReadyChanges(n) ==
  LET d == child["deployment"]
  IN  /\ Event /\ d.live /\ n <= d.replicas /\ n # d.ready
      /\ child' = [child EXCEPT !["deployment"] = [d EXCEPT !.ready = n, !.rv = @ + 1]]
      /\ UNCHANGED <<svc, caches, step, copy, queued>>
DeleteChild(k) ==
  /\ child[k].live
  /\ child' = [child EXCEPT ![k] = [NoChild EXCEPT !.rv = child[k].rv + 1]]
  /\ UNCHANGED <<svc, caches, step, copy, queued>>
\* kubectl delete deployment; the garbage collector, by the owner reference.
Drift == Event /\ DeleteChild("deployment")
Collect(k) == ~ svc.live /\ child[k].owned /\ DeleteChild(k) /\ UNCHANGED events

\* The operator restarts: fresh caches, every object queued.
Restart ==
  /\ Event /\ step' = "idle" /\ queued' = TRUE
  /\ svcCache' = svc /\ childCache' = child /\ UNCHANGED <<store, copy>>

Controller == Reconcile \/ (\E k \in Kinds : ensure(k)) \/ syncStatus

InferenceNext ==
  \/ Controller \/ SyncSvc \/ DeleteSvc \/ Drift \/ Restart
  \/ \E k \in Kinds : SyncChild(k) \/ Collect(k)
  \/ \E n \in 1 .. MaxReplicas : EditReplicas(n)
  \/ \E n \in 0 .. MaxReplicas : ReadyChanges(n)

InferenceSpec == InferenceInit /\ [][InferenceNext]_inferenceVars

\* The controller works its queue off, watches deliver, and the garbage
\* collector collects.
FairSpec ==
  /\ InferenceSpec /\ WF_inferenceVars(Controller) /\ WF_inferenceVars(SyncSvc)
  /\ \A k \in Kinds : WF_inferenceVars(SyncChild(k)) /\ WF_inferenceVars(Collect(k))

-----------------------------------------------------------------------------
\* Every variable keeps its type.
InferenceTypeOK ==
  LET Status == [phase : {"", "Pending", "Ready"}, ready : 0 .. MaxReplicas]
      Svc == [live : BOOLEAN, replicas : 1 .. MaxReplicas, status : Status, rv : Nat]
      Child == [live : BOOLEAN, replicas : 0 .. MaxReplicas, owned : BOOLEAN,
                ready : 0 .. MaxReplicas, rv : Nat]
  IN  /\ {svc, svcCache, copy} \subseteq Svc
      /\ child \in [Kinds -> Child] /\ childCache \in [Kinds -> Child]
      /\ step \in {"idle", "status"} \cup Kinds /\ queued \in BOOLEAN
      /\ events \in 0 .. MaxEvents

\* Reconcile's order: while the object exists, its status names the endpoint
\* only when the Service behind the endpoint is there.
EndpointServed == svc.live /\ svc.status # NoStatus => child["service"].live

\* Once users and cluster leave the objects alone, the Deployment has the
\* replicas of the spec, the Service exists and the status tells the
\* Deployment's ready replicas, whatever was stale, lost in a restart or
\* answered with a conflict before.
Converges ==
  <>[](svc.live =>
         LET d == child["deployment"]
         IN  /\ d.live /\ d.replicas = desired("deployment", svc)
             /\ child["service"].live
             /\ svc.status = statusOf(d))

\* A deleted InferenceService leaves nothing behind, although a reconcile with
\* a stale cache may create its children again.
NothingLeftBehind == <>[](~ svc.live => \A k \in Kinds : ~ child[k].live)
=============================================================================
