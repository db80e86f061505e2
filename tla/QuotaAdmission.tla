--------------------------- MODULE QuotaAdmission ---------------------------
(***************************************************************************)
(* The validating webhook that enforces a team's QuotaPolicy when an       *)
(* AcceleratorJob is created (internal/webhook).  The API server calls it  *)
(* before it looks at its storage, and the webhook reads policies and jobs *)
(* from the operator's cache, which follows the storage later.             *)
(***************************************************************************)
EXTENDS Integers, FiniteSets, FiniteSetsExt

CONSTANTS
  Jobs,       \* names of AcceleratorJobs; two creates of one are a redelivery
  Team,       \* spec.team, [Jobs -> any set]
  Count,      \* spec.acceleratorCount, [Jobs -> Nat \ {0}]
  Gang,       \* spec.gangSize, [Jobs -> Nat \ {0}]
  Policies,   \* the QuotaPolicies, a set of records with team and max
  MaxInt,     \* the largest int32
  MaxCreates, \* bound: create calls per job
  Serial      \* creates come one by one, each after the cache caught up

ASSUME QuotaAssumption ==
  /\ IsFiniteSet(Jobs) /\ MaxInt \in Nat
  /\ Count \in [Jobs -> 1 .. MaxInt] /\ Gang \in [Jobs -> Nat \ {0}]
  /\ \A p \in Policies : p.max \in 1 .. MaxInt
  /\ MaxCreates \in Nat /\ Serial \in BOOLEAN

VARIABLES
  phase,   \* the stored job: "none", "active" (not terminal), "terminal"
  cache,   \* the same as the webhook's client lists it
  call,    \* the create call of a job: "idle", "review", "store"
  answer,  \* how the last one was answered
  creates, \* how many there were
  room     \* history: there was room for the job when the call came

vars == <<phase, cache, call, answer, creates, room>>

Phases == {"none", "active", "terminal"}

Init ==
  /\ phase = [j \in Jobs |-> "none"] /\ cache = phase
  /\ call = [j \in Jobs |-> "idle"] /\ answer = [j \in Jobs |-> "none"]
  /\ creates = [j \in Jobs |-> 0] /\ room = [j \in Jobs |-> FALSE]

-----------------------------------------------------------------------------
\* The accelerators that a set of jobs asks for.
asked(S) == UNION {{j} \X (1 .. Count[j]) : j \in S}
active(v, t) == {j \in Jobs : Team[j] = t /\ v[j] = "active"}

\* How many the team's jobs ask for that the view v says are not terminal.
used(v, t) == Cardinality(asked(active(v, t)))

\* A sum is an int32 and wraps around.
int(n) == ((n + MaxInt + 1) % (2 * MaxInt + 2)) - (MaxInt + 1)

policies(t) == {p \in Policies : p.team = t}
Fits(v, j, p) == int(used(v, Team[j]) + Count[j]) <= p.max

\* Mutations: the job's own count forgotten; terminal jobs counted.
checkQuotaUsedOnly(j, p) == used(cache, Team[j]) <= p.max
checkQuotaAllPhases(j, p) ==
  Fits([i \in Jobs |-> IF cache[i] = "none" THEN "none" ELSE "active"], j, p)

checkQuota(j, p) == Fits(cache, j, p)

\* There is room for j beside the other jobs, whichever policy is applied.
Room(j) ==
  phase[j] # "active" /\ \A p \in policies(Team[j]) : Fits(phase, j, p)

-----------------------------------------------------------------------------
(* A create call: SubmissionHandler's, or anybody else's.                  *)
Create(j) ==
  /\ call[j] = "idle" /\ creates[j] < MaxCreates
  /\ Serial => cache = phase /\ \A i \in Jobs : call[i] = "idle"
  /\ call' = [call EXCEPT ![j] = "review"]
  /\ creates' = [creates EXCEPT ![j] = @ + 1]
  /\ answer' = [answer EXCEPT ![j] = "none"]
  /\ room' = [room EXCEPT ![j] = Room(j)]
  /\ UNCHANGED <<phase, cache>>

\* The webhook applies the first policy of the team in the list, whose order is
\* that of a map: any of them.  An error of the webhook denies the create as
\* well (failurePolicy: Fail).
ValidateCreate(j) ==
  /\ call[j] = "review"
  /\ \/ /\ policies(Team[j]) = {} \/ \E p \in policies(Team[j]) : checkQuota(j, p)
        /\ call' = [call EXCEPT ![j] = "store"] /\ UNCHANGED answer
     \/ /\ \E p \in policies(Team[j]) : ~ checkQuota(j, p)
        /\ call' = [call EXCEPT ![j] = "idle"]
        /\ answer' = [answer EXCEPT ![j] = "denied"]
     \/ /\ call' = [call EXCEPT ![j] = "idle"]
        /\ answer' = [answer EXCEPT ![j] = "error"]
  /\ UNCHANGED <<phase, cache, creates, room>>

\* Only now does the API server find out that the name is taken.
Store(j) ==
  /\ call[j] = "store"
  /\ call' = [call EXCEPT ![j] = "idle"]
  /\ \/ /\ phase[j] = "none"
        /\ phase' = [phase EXCEPT ![j] = "active"]
        /\ answer' = [answer EXCEPT ![j] = "created"]
     \/ /\ phase[j] # "none"
        /\ answer' = [answer EXCEPT ![j] = "exists"] /\ UNCHANGED phase
  /\ UNCHANGED <<cache, creates, room>>

\* The job succeeds or fails for good, or is deleted.
Finish(j) ==
  /\ phase[j] = "active"
  /\ phase' = [phase EXCEPT ![j] = "terminal"]
  /\ UNCHANGED <<cache, call, answer, creates, room>>
Delete(j) ==
  /\ phase[j] # "none"
  /\ phase' = [phase EXCEPT ![j] = "none"]
  /\ UNCHANGED <<cache, call, answer, creates, room>>

\* A watch event of the job reaches the webhook's cache.
Sync(j) ==
  /\ cache[j] # phase[j]
  /\ cache' = [cache EXCEPT ![j] = phase[j]]
  /\ UNCHANGED <<phase, call, answer, creates, room>>

Next ==
  \E j \in Jobs :
    Create(j) \/ ValidateCreate(j) \/ Store(j) \/ Finish(j) \/ Delete(j) \/ Sync(j)

Spec == Init /\ [][Next]_vars

-----------------------------------------------------------------------------
\* Every variable keeps its type.
TypeOK ==
  /\ phase \in [Jobs -> Phases] /\ cache \in [Jobs -> Phases]
  /\ call \in [Jobs -> {"idle", "review", "store"}]
  /\ answer \in [Jobs -> {"none", "created", "exists", "denied", "error"}]
  /\ creates \in [Jobs -> 0 .. MaxCreates] /\ room \in [Jobs -> BOOLEAN]

\* No job asks for so many that the int32 sum with a full quota wraps around.
NoWrap(t) ==
  \A p \in policies(t), j \in Jobs : Team[j] = t => p.max + Count[j] <= MaxInt

\* A team's jobs that are not terminal never ask for more accelerators than its
\* largest policy allows, whichever policy checkQuota finds first and however
\* jobs are created, finish and are deleted, while no int32 sum wraps around.
QuotaRespected ==
  \A t \in {p.team : p \in Policies} :
    NoWrap(t) => \E p \in policies(t) : used(phase, t) <= p.max

\* checkQuota denies a create only when the other stored jobs of the team left no
\* room for it under one of its policies, or the job is stored itself (a
\* redelivery counts it twice): a job that became terminal or was deleted gives
\* back what it held, and other teams' jobs do not count.
DeniedForAReason ==
  \A j \in Jobs : answer[j] = "denied" /\ NoWrap(Team[j]) => ~ room[j]

\* What checkQuota's comment says: no policy of the team is exceeded.
EveryPolicyRespected == \A p \in Policies : used(phase, p.team) <= p.max

\* What QuotaPolicySpec's comment says: the accelerators a team holds, with
\* one pod per gang member asking for acceleratorCount, stay within its cap.
HeldWithinQuota ==
  \A p \in Policies :
    MapThenSumSet(LAMBDA j : Count[j] * Gang[j],
                  {j \in Jobs : Team[j] = p.team /\ phase[j] = "active"}) <= p.max

\* What SubmissionHandler's comment says: the create of a job that exists is
\* answered AlreadyExists, which the handler takes for success, and not denied.
RedeliveryIsNoOp ==
  [][\A j \in Jobs :
       phase[j] = "active" /\ call[j] = "review" => answer'[j] # "denied"]_vars
=============================================================================
