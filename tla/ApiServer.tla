------------------------------ MODULE ApiServer ------------------------------
(***************************************************************************)
(* Requests on their way through the API server: AuthMiddleware, the rate  *)
(* limiter (RateLimit, which this module extends), and the handlers that   *)
(* create, read and delete a job (internal/api, internal/grpcapi,          *)
(* internal/service).  A handler makes one call to Postgres or Kubernetes  *)
(* per step, so requests interleave with each other and with the job.      *)
(***************************************************************************)
EXTENDS RateLimit

CONSTANTS
  Open,       \* requests that meet no middleware: gRPC, or no JWT secret is set
  Jobs,
  JobTeam,    \* [Jobs -> Teams]
  Ops,        \* what each request may ask for, of "create", "get", "delete"
  Target,     \* [Requests -> Jobs]
  Phases,     \* what a reconciler writes to an AcceleratorJob's status.phase
  Final,      \* the phases it never leaves
  MaxErrors   \* bound: calls to Postgres or Kubernetes that fail

ASSUME ApiAssumption ==
  /\ JobTeam \in [Jobs -> Teams] /\ Target \in [Requests -> Jobs]
  /\ Ops \in [Requests -> SUBSET {"create", "get", "delete"}]
  /\ Open \subseteq Requests /\ \A r \in Open : TeamOf[r] = NoTeam
  /\ MaxErrors \in Nat /\ Final \subseteq Phases /\ Phases \cap {"", "absent"} = {}

VARIABLES
  row,      \* status in the jobs table, "none" without a row
  cr,       \* phase of the AcceleratorJob, or "absent"
  deleting, \* the AcceleratorJobs that wait for their finalizer
  audit,    \* the jobs with a "cancel" entry in the audit log
  pc,       \* the call a handler makes next
  view,     \* the status GetJob has read
  code,     \* the answer
  errors,   \* how many calls failed
  touched,  \* history: requests that changed a table or an object
  seen      \* history: the statuses a job had while GetJob read it

job == <<row, cr, deleting, audit>>
handler == <<pc, view, code, touched>>
limiter == <<limiters, tokens, lim, state, allowed, now>>
apiVars == <<limiter, job, handler, errors, seen>>

Refusals == {"400", "401", "403", "404"}

Answer(r, c) == code' = [code EXCEPT ![r] = c] /\ pc' = [pc EXCEPT ![r] = "done"]
Goto(r, l) == pc' = [pc EXCEPT ![r] = l] /\ UNCHANGED code
Touch(r) == touched' = touched \cup {r}
Error == errors < MaxErrors /\ errors' = errors + 1

-----------------------------------------------------------------------------
(* The middlewares.                                                        *)

\* AuthMiddleware: no valid token with a team in it.
unauthorized(r) ==
  /\ state[r] = "new" /\ pc[r] = "start" /\ TeamOf[r] = NoTeam /\ r \notin Open
  /\ Answer(r, "401")
  /\ UNCHANGED <<limiter, job, view, touched, errors>>

\* The rest goes through the limiter, which an open request never meets.
limit(r) ==
  /\ \/ r \in Open /\ pass(r)
     \/ lookup(r) \/ take(r)
  /\ UNCHANGED <<job, handler, errors>>

At(r, l) == state[r] = "served" /\ pc[r] = l
checkTeamAccess(r) == r \in Open \/ TeamOf[r] = JobTeam[Target[r]]

-----------------------------------------------------------------------------
(* The handlers.                                                           *)

\* Mutation: the row is written before the team is checked.
createUnchecked(r) ==
  /\ At(r, "start") /\ "create" \in Ops[r]
  /\ row' = [row EXCEPT ![Target[r]] = "Pending"] /\ Touch(r)
  /\ Answer(r, IF checkTeamAccess(r) THEN "201" ELSE "403")
  /\ UNCHANGED <<limiter, cr, deleting, audit, view, errors>>

\* handleCreateJob: the body is bad, of another team, or valid; a key that was
\* used finds its row.  SubmissionPipeline has what happens after the insert.
createJob(r) ==
  LET Insert == /\ row[Target[r]] = "none"
                /\ row' = [row EXCEPT ![Target[r]] = "Pending"] /\ Touch(r)
  IN /\ At(r, "start") /\ "create" \in Ops[r]
     /\ \/ Answer(r, "400") /\ UNCHANGED <<row, touched, errors>>
        \/ /\ ~checkTeamAccess(r)
           /\ Answer(r, "403") /\ UNCHANGED <<row, touched, errors>>
        \/ /\ checkTeamAccess(r)
           /\ Insert \/ (row[Target[r]] # "none" /\ UNCHANGED <<row, touched>>)
           /\ Answer(r, "201") /\ UNCHANGED errors
        \/ /\ checkTeamAccess(r) /\ Error
           /\ Insert \/ UNCHANGED <<row, touched>>
           /\ Answer(r, "500")
     /\ UNCHANGED <<limiter, cr, deleting, audit, view>>

\* GetJob reads the row: for a GET, or for the team of the job to DELETE.
getRow(r) ==
  LET j == Target[r]
  IN /\ At(r, "start")
     /\ "get" \in Ops[r] \/ ("delete" \in Ops[r] /\ r \notin Open)
     /\ \/ /\ row[j] = "none"
           /\ Answer(r, "404") /\ UNCHANGED <<view, errors>>
        \/ /\ row[j] # "none" /\ "get" \in Ops[r]
           /\ view' = [view EXCEPT ![r] = row[j]]
           /\ Goto(r, "overlay") /\ UNCHANGED errors
        \/ /\ row[j] # "none" /\ "delete" \in Ops[r] /\ r \notin Open
           /\ Goto(r, "authorize") /\ UNCHANGED <<view, errors>>
        \/ Error /\ Answer(r, "500") /\ UNCHANGED view
     /\ UNCHANGED <<limiter, job, touched>>

\* Mutation: an object without a phase hides the row's status.
overlaidBlind(s, phase) == IF phase = "absent" THEN s ELSE phase

overlaid(s, phase) == IF phase \in {"absent", ""} THEN s ELSE phase

\* It reads the object, ignoring an error, and handleGetJob checks the team.
overlay(r) ==
  /\ At(r, "overlay") /\ Answer(r, IF checkTeamAccess(r) THEN "200" ELSE "403")
  /\ \/ view' = [view EXCEPT ![r] = overlaid(@, cr[Target[r]])] /\ UNCHANGED errors
     \/ Error /\ UNCHANGED view
  /\ UNCHANGED <<limiter, job, touched>>

\* Mutation: a DELETE goes on whatever the team.
authorizeAll(r) ==
  /\ At(r, "authorize") /\ Goto(r, "load")
  /\ UNCHANGED <<limiter, job, view, touched, errors>>

\* handleDeleteJob checks the team (what GetJob reads of the object is not used).
authorize(r) ==
  /\ At(r, "authorize") /\ IF checkTeamAccess(r) THEN Goto(r, "load") ELSE Answer(r, "403")
  /\ UNCHANGED <<limiter, job, view, touched, errors>>

\* DeleteJob loads the object (at once if there is no team to check) ...
loadObject(r) ==
  /\ \/ At(r, "load")
     \/ At(r, "start") /\ "delete" \in Ops[r] /\ r \in Open
  /\ \/ cr[Target[r]] = "absent" /\ Answer(r, "404") /\ UNCHANGED errors
     \/ cr[Target[r]] # "absent" /\ Goto(r, "delete") /\ UNCHANGED errors
     \/ Error /\ Answer(r, "500")
  /\ UNCHANGED <<limiter, job, view, touched>>

\* Mutation: an object that is already gone ends the request.
deleteObjectGone(r) ==
  LET j == Target[r]
  IN /\ At(r, "delete")
     /\ \/ /\ cr[j] = "absent" /\ Answer(r, "204")
           /\ UNCHANGED <<deleting, touched>>
        \/ /\ cr[j] # "absent" /\ deleting' = deleting \cup {j}
           /\ Touch(r) /\ Goto(r, "status")
     /\ UNCHANGED <<limiter, row, cr, audit, view, errors>>

\* ... and deletes it: NotFound is fine, another error may hide a deletion.
deleteObject(r) ==
  LET j == Target[r]
      Delete == cr[j] # "absent" /\ deleting' = deleting \cup {j} /\ Touch(r)
  IN /\ At(r, "delete")
     /\ \/ /\ Delete \/ (cr[j] = "absent" /\ UNCHANGED <<deleting, touched>>)
           /\ Goto(r, "status") /\ UNCHANGED errors
        \/ /\ Error /\ (Delete \/ UNCHANGED <<deleting, touched>>)
           /\ Answer(r, "500")
     /\ UNCHANGED <<limiter, row, cr, audit, view>>

\* UpdateStatus, whose error is ignored.
updateStatus(r) ==
  LET j == Target[r]
  IN /\ At(r, "status") /\ Goto(r, "audit")
     /\ \/ /\ row' = IF row[j] = "none" THEN row ELSE [row EXCEPT ![j] = "Cancelled"]
           /\ Touch(r) /\ UNCHANGED errors
        \/ Error /\ UNCHANGED <<row, touched>>
     /\ UNCHANGED <<limiter, cr, deleting, audit, view>>

\* RecordAudit, whose error is only logged.
recordAudit(r) ==
  /\ At(r, "audit") /\ Answer(r, "204")
  /\ \/ audit' = audit \cup {Target[r]} /\ Touch(r) /\ UNCHANGED errors
     \/ Error /\ UNCHANGED <<audit, touched>>
  /\ UNCHANGED <<limiter, row, cr, deleting, view>>

Handle(r) ==
  \/ createJob(r) \/ getRow(r) \/ overlay(r) \/ authorize(r)
  \/ loadObject(r) \/ deleteObject(r) \/ updateStatus(r) \/ recordAudit(r)

-----------------------------------------------------------------------------
(* The job itself, and time.                                               *)

\* The consumer creates the object, again if it is redelivered after a DELETE.
Created(j) ==
  /\ row[j] # "none" /\ cr[j] = "absent"
  /\ cr' = [cr EXCEPT ![j] = ""]
  /\ UNCHANGED <<limiter, row, deleting, audit, handler, errors>>

\* The reconciler writes another phase (JobStatus).
PhaseChanges(j) ==
  /\ cr[j] \notin Final \cup {"absent"} /\ j \notin deleting
  /\ \E p \in Phases :
       p # cr[j] /\ cr' = [cr EXCEPT ![j] = p]
  /\ UNCHANGED <<limiter, row, deleting, audit, handler, errors>>

\* ... or removes the finalizer of a deleted object.
Finalized(j) ==
  /\ j \in deleting
  /\ cr' = [cr EXCEPT ![j] = "absent"] /\ deleting' = deleting \ {j}
  /\ UNCHANGED <<limiter, row, audit, handler, errors>>

Refill == Tick /\ UNCHANGED <<job, handler, errors>>

\* What a job's status is, for whoever reads both stores at once.
status(j) == IF cr[j] \in Phases THEN cr[j] ELSE row[j]
\* Every status from the read of the row to the read of the object.
Observe ==
  seen' = [r \in Requests |->
             IF pc'[r] # "overlay" THEN seen[r]
             ELSE {status(Target[r])'} \cup (IF pc[r] = "overlay" THEN seen[r] ELSE {})]

ApiInit ==
  /\ Init
  /\ row = [j \in Jobs |-> "none"] /\ cr = [j \in Jobs |-> "absent"]
  /\ deleting = {} /\ audit = {} /\ touched = {} /\ errors = 0
  /\ pc = [r \in Requests |-> "start"] /\ code = [r \in Requests |-> "none"]
  /\ view = [r \in Requests |-> "none"] /\ seen = [r \in Requests |-> {}]

ApiNext ==
  /\ \/ \E r \in Requests : unauthorized(r) \/ limit(r) \/ Handle(r)
     \/ \E j \in Jobs : Created(j) \/ PhaseChanges(j) \/ Finalized(j)
     \/ Refill
  /\ Observe

ApiSpec == ApiInit /\ [][ApiNext]_apiVars

-----------------------------------------------------------------------------
\* Every variable keeps its type.
ApiTypeOK ==
  /\ row \in [Jobs -> {"none", "Pending", "Cancelled"}]
  /\ cr \in [Jobs -> {"absent", ""} \cup Phases]
  /\ deleting \subseteq Jobs /\ audit \subseteq Jobs /\ touched \subseteq Requests
  /\ pc \in [Requests -> {"start", "overlay", "authorize", "load", "delete", "status", "audit", "done"}]
  /\ code \in [Requests -> Refusals \cup {"none", "200", "201", "204", "500"}]
  /\ view \in [Requests -> {"none", "", "Pending", "Cancelled"} \cup Phases]
  /\ errors \in 0 .. MaxErrors

\* A request that is refused (400, 401, 403, 404, 429) has changed no table and
\* no object, whatever ran between its calls.
RefusedChangesNothing ==
  \A r \in touched : code[r] \notin Refusals /\ state[r] = "served"

\* handleDeleteJob: the team is "established before anything is torn down".
\* What a request with a token changes belongs to its token's team.
OwnTeamOnly ==
  \A r \in touched \ Open : TeamOf[r] = JobTeam[Target[r]]

\* GetJob reads the row, then the object.  What it answers was the job's status
\* at some moment in between, unless the read of the object failed, or the job
\* was cancelled meanwhile: then the Pending of its row may be answered.
AnswerWasTrue ==
  \A r \in Requests : code[r] = "200" /\ errors = 0 =>
    view[r] \in seen[r] \/ (view[r] = "Pending" /\ row[Target[r]] = "Cancelled")

\* DeleteJob: when no call fails, a DELETE that is answered 204 has left its
\* mark in the jobs table and in the audit log, whoever deletes the object first.
CancelIsRecorded ==
  \A r \in Requests : code[r] = "204" /\ errors = 0 =>
    row[Target[r]] = "Cancelled" /\ Target[r] \in audit
=============================================================================
