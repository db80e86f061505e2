------------------------- MODULE SubmissionPipeline -------------------------
(***************************************************************************)
(* A job's way from POST /v1/jobs to its AcceleratorJob object: the API    *)
(* server writes a row to Postgres and publishes to the JetStream stream   *)
(* (internal/service, internal/store), the operators' consumer fetches     *)
(* batches and creates the objects (internal/queue, SubmissionHandler),    *)
(* and a message that keeps failing goes to the dead-letter subject.       *)
(*                                                                         *)
(* A request makes up a fresh id for its job, so the id is the request.    *)
(***************************************************************************)
EXTENDS FairShare, Functions

CONSTANTS
  Requests,    \* POST requests; two with one key are a client's retry
  Keys,        \* Idempotency-Key values
  KeyOf,       \* [Requests -> Keys]
  TeamOf,      \* the team of a job, [Requests -> any set]
  Operators,   \* operator replicas running the consumer; the leader fetches
  MaxDeliver,  \* deliveries per message (5 in cmd/operator)
  BatchSize,   \* FairShareBatchSize
  Faults,      \* the kinds of failures that may happen
  MaxFaults    \* bound: how many of them

\* The only failures that can cost a message: on its last delivery the
\* dead-letter subject cannot be written, or the operator dies; or it waits 24h.
LossyFaults == {"dlq", "opcrash", "age"}
AllFaults == LossyFaults \cup {"db", "publish", "apicrash", "sigterm", "ack", "lease"}

ASSUME PipelineAssumption ==
  /\ KeyOf \in [Requests -> Keys] /\ "none" \notin Requests
  /\ Operators # {} /\ Faults \subseteq AllFaults
  /\ MaxDeliver \in Nat \ {0} /\ BatchSize \in Nat \ {0} /\ MaxFaults \in Nat

VARIABLES
  row,       \* the jobs table: per key the id of its job and the status
  audit,     \* the audit_log table, a set of <<id, action>>
  req,       \* where each request is, or how it was answered
  answer,    \* the id in a 201 response
  cancel,    \* where the DELETE of a job is
  proc,      \* the API server is "up", or shuts down: "noqueue", then "nostore"
  stream,    \* what the stream's consumer knows of each message
  dc,        \* deliveries of each message so far
  dlq,       \* how often a job is in the dead-letter subject
  cr,        \* the AcceleratorJob of each id in the API server
  creations, \* history: how often it was created
  leader,    \* the operator holding the lease
  act,       \* what each operator's consumer does next
  batch,     \* the fetched messages it still has to handle, in order
  faults     \* how many failures there were, and whether one can cost a message

tables == <<row, audit>>
http == <<req, answer, cancel, proc>>
nats == <<stream, dc, dlq>>
kube == <<cr, creations>>
consumer == <<act, batch, leader>>
vars == <<tables, http, nats, kube, consumer, faults>>

NoRow == [id |-> "none", status |-> "none"]
Delivery == [id : Requests, nd : 1 .. MaxDeliver]

Fault(kind) ==
  /\ kind \in Faults /\ faults.count < MaxFaults
  /\ faults' = [count |-> faults.count + 1, lossy |-> faults.lossy \/ kind \in LossyFaults]
Answer(r, code) == req' = [req EXCEPT ![r] = code]

\* A database call or a publish fails: by a fault, or because main has returned
\* and closed the pool or the connection under the handlers still running.
DbError == (proc # "nostore" /\ Fault("db")) \/ (proc = "nostore" /\ UNCHANGED faults)
PublishError == (proc = "up" /\ Fault("publish")) \/ (proc # "up" /\ UNCHANGED faults)
DbAnswers == proc # "nostore" /\ UNCHANGED faults

-----------------------------------------------------------------------------
(* POST /v1/jobs.                                                          *)

\* Mutations: a used key's row is replaced; a replayed key is published again.
insertReplaces(r) ==
  /\ req[r] = "new"
  /\ row' = [row EXCEPT ![KeyOf[r]] = [id |-> r, status |-> "Pending"]]
  /\ Answer(r, "publish")
  /\ UNCHANGED <<audit, answer, cancel, proc, nats, kube, consumer, faults>>
insertRepublishes(r) ==
  LET k == KeyOf[r]
  IN /\ req[r] = "new"
     /\ row' = IF row[k] = NoRow THEN [row EXCEPT ![k] = [id |-> r, status |-> "Pending"]]
               ELSE row
     /\ Answer(r, "publish")
     /\ UNCHANGED <<audit, answer, cancel, proc, nats, kube, consumer, faults>>

\* Store.CreateJob: INSERT ... ON CONFLICT DO NOTHING, then the existing row.
\* An error may hide an insert that was committed.
insertJob(r) ==
  LET k == KeyOf[r]
      Insert == row' = [row EXCEPT ![k] = [id |-> r, status |-> "Pending"]]
  IN /\ req[r] = "new"
     /\ \/ /\ DbAnswers /\ row[k] = NoRow /\ Insert
           /\ Answer(r, "publish") /\ UNCHANGED answer
        \/ /\ DbAnswers /\ row[k] # NoRow
           /\ Answer(r, "201") /\ answer' = [answer EXCEPT ![r] = row[k].id]
           /\ UNCHANGED row
        \/ /\ DbError
           /\ (row[k] = NoRow /\ proc # "nostore" /\ Insert) \/ UNCHANGED row
           /\ Answer(r, "500") /\ UNCHANGED answer
     /\ UNCHANGED <<audit, cancel, proc, nats, kube, consumer>>

\* Mutation: the audit entry is written before the message is out.
publishAudited(r) ==
  /\ req[r] = "publish"
  /\ audit' = audit \cup {<<r, "create">>}
  /\ \/ /\ stream' = [stream EXCEPT ![r] = "ready"]
        /\ Answer(r, "audit") /\ UNCHANGED faults
     \/ Fault("publish") /\ Answer(r, "500") /\ UNCHANGED stream
  /\ UNCHANGED <<row, answer, cancel, proc, dc, dlq, kube, consumer>>

\* Queue.Publish.  An error may hide a message that was stored.
publish(r) ==
  /\ req[r] = "publish"
  /\ \/ /\ proc = "up" /\ stream' = [stream EXCEPT ![r] = "ready"]
        /\ Answer(r, "audit") /\ UNCHANGED faults
     \/ /\ PublishError
        /\ stream' = [stream EXCEPT ![r] = "ready"] \/ UNCHANGED stream
        /\ Answer(r, "500")
  /\ UNCHANGED <<tables, answer, cancel, proc, dc, dlq, kube, consumer>>

\* RecordAudit, whose failure is only logged, and the response.
auditCreate(r) ==
  /\ req[r] = "audit"
  /\ \/ DbAnswers /\ audit' = audit \cup {<<r, "create">>}
     \/ DbError /\ UNCHANGED audit
  /\ Answer(r, "201") /\ answer' = [answer EXCEPT ![r] = r]
  /\ UNCHANGED <<row, cancel, proc, nats, kube, consumer>>

-----------------------------------------------------------------------------
(* DELETE /v1/jobs/{id}.                                                   *)

\* The object is deleted: at once, or once the reconciler drops its finalizer.
deleteJob(id) ==
  /\ cancel[id] = "none" /\ cr[id] \in {"live", "deleting"}
  /\ \/ cr[id] = "live" /\ \E s \in {"deleting", "gone"} : cr' = [cr EXCEPT ![id] = s]
     \/ cr[id] = "deleting" /\ UNCHANGED cr
  /\ cancel' = [cancel EXCEPT ![id] = "status"]
  /\ UNCHANGED <<tables, req, answer, proc, nats, creations, consumer, faults>>

\* UpdateStatus, whose error is ignored ...
updateStatus(id) ==
  LET k == KeyOf[id]
  IN /\ cancel[id] = "status"
     /\ \/ /\ DbAnswers
           /\ row' = IF row[k].id = id THEN [row EXCEPT ![k].status = "Cancelled"] ELSE row
        \/ DbError /\ UNCHANGED row
     /\ cancel' = [cancel EXCEPT ![id] = "audit"]
     /\ UNCHANGED <<audit, req, answer, proc, nats, kube, consumer>>

\* ... and the audit entry.
auditCancel(id) ==
  /\ cancel[id] = "audit"
  /\ \/ DbAnswers /\ audit' = audit \cup {<<id, "cancel">>}
     \/ DbError /\ UNCHANGED audit
  /\ cancel' = [cancel EXCEPT ![id] = "done"]
  /\ UNCHANGED <<row, req, answer, proc, nats, kube, consumer>>

\* The reconciler removes the finalizer of a deleted job (AcceleratorJob).
finalize(id) ==
  /\ cr[id] = "deleting"
  /\ cr' = [cr EXCEPT ![id] = "gone"]
  /\ UNCHANGED <<tables, http, nats, creations, consumer, faults>>

\* The requests the API server was working on end with its process.
AbortRequests ==
  /\ req' = [r \in Requests |-> IF req[r] \in {"publish", "audit"} THEN "500" ELSE req[r]]
  /\ cancel' = [id \in Requests |-> IF cancel[id] \in {"status", "audit"} THEN "done"
                                    ELSE cancel[id]]

\* A new process takes over: Migrate and Connect keep the tables and the stream.
ApiCrash ==
  /\ Fault("apicrash")
  /\ AbortRequests /\ proc' = "up"
  /\ UNCHANGED <<tables, answer, nats, kube, consumer>>

\* On SIGTERM ListenAndServe returns as soon as Shutdown begins, and so does
\* main: its deferred q.Close and st.Close do not wait for the handlers that
\* Shutdown is draining.
Sigterm ==
  /\ proc = "up" /\ Fault("sigterm") /\ proc' = "noqueue"
  /\ UNCHANGED <<tables, req, answer, cancel, nats, kube, consumer>>

closeStore ==
  /\ proc = "noqueue" /\ proc' = "nostore"
  /\ UNCHANGED <<tables, req, answer, cancel, nats, kube, consumer, faults>>

\* The process exits and the Deployment starts another.
exit ==
  /\ proc = "nostore" /\ proc' = "up" /\ AbortRequests
  /\ UNCHANGED <<tables, answer, nats, kube, consumer, faults>>

-----------------------------------------------------------------------------
(* The consumer: ConsumeFairShare with SubmissionHandler, on operator o.   *)

head(o) == batch[o][1]

\* A message that is not acknowledged is delivered again, MaxDeliver times.
unacked(id) == IF dc[id] < MaxDeliver THEN "ready" ELSE "dropped"

\* The loop over the batch goes on to the next message, or to the next Fetch.
Continue(o) ==
  /\ batch' = [batch EXCEPT ![o] = Tail(@)]
  /\ act' = [act EXCEPT ![o] = IF Len(batch[o]) = 1 THEN "fetch" ELSE "handle"]

\* The open Fetch receives a message.  It stays open until the batch is full or
\* 2s have passed, longer than the first ack wait (1s), so it can receive a
\* message twice.
deliver(o, id) ==
  /\ act[o] = "fetch" /\ o = leader /\ Len(batch[o]) < BatchSize
  /\ stream[id] = "ready"
  /\ stream' = [stream EXCEPT ![id] = "inflight"]
  /\ dc' = [dc EXCEPT ![id] = @ + 1]
  /\ batch' = [batch EXCEPT ![o] = Append(@, [id |-> id, nd |-> dc[id] + 1])]
  /\ UNCHANGED <<tables, http, dlq, kube, act, leader, faults>>

\* The Fetch ends and the batch is put in round-robin order.
fetched(o) ==
  /\ act[o] = "fetch" /\ batch[o] # <<>>
  /\ batch' = [batch EXCEPT ![o] = interleaveByKey(@, [d \in Range(@) |-> TeamOf[d.id]])]
  /\ act' = [act EXCEPT ![o] = "handle"]
  /\ UNCHANGED <<tables, http, nats, kube, leader, faults>>

\* Mutations: the last delivery is missed, or taken one too early.
neverExhausted(d) == d.nd > MaxDeliver
exhaustedEarly(d) == d.nd >= MaxDeliver - 1

deliveriesExhausted(d) == d.nd >= MaxDeliver

\* Mutations: an object that exists is replaced; a failed Create is acknowledged.
handleReplaces(o) ==
  LET id == head(o).id
  IN /\ act[o] = "handle"
     /\ cr' = [cr EXCEPT ![id] = "live"]
     /\ creations' = [creations EXCEPT ![id] = @ + 1]
     /\ act' = [act EXCEPT ![o] = "ack"]
     /\ UNCHANGED <<tables, http, nats, batch, leader, faults>>
handleSwallows(o) ==
  LET id == head(o).id
  IN /\ act[o] = "handle"
     /\ \/ /\ cr[id] \in {"none", "gone"}
           /\ cr' = [cr EXCEPT ![id] = "live"]
           /\ creations' = [creations EXCEPT ![id] = @ + 1]
        \/ UNCHANGED kube
     /\ act' = [act EXCEPT ![o] = "ack"]
     /\ UNCHANGED <<tables, http, nats, batch, leader, faults>>

\* SubmissionHandler: Create, where AlreadyExists is no error.  An error (the
\* quota webhook denies it, the API server fails, the context is cancelled) may
\* hide an object that was created.
handle(o) ==
  LET id == head(o).id
      absent == cr[id] \in {"none", "gone"}
      Create == /\ cr' = [cr EXCEPT ![id] = "live"]
                /\ creations' = [creations EXCEPT ![id] = @ + 1]
  IN /\ act[o] = "handle"
     /\ \/ /\ (absent /\ Create) \/ (~absent /\ UNCHANGED kube)
           /\ act' = [act EXCEPT ![o] = "ack"]
        \/ /\ (absent /\ Create) \/ UNCHANGED kube
           /\ act' = [act EXCEPT ![o] = IF deliveriesExhausted(head(o)) THEN "dlq" ELSE "nak"]
     /\ UNCHANGED <<tables, http, nats, batch, leader, faults>>

\* PublishDLQ.  When it fails the message is Nak-ed instead of terminated.
publishDLQ(o) ==
  LET Publish == dlq' = [dlq EXCEPT ![head(o).id] = @ + 1]
  IN /\ act[o] = "dlq"
     /\ \/ Publish /\ act' = [act EXCEPT ![o] = "term"] /\ UNCHANGED faults
        \/ /\ Fault("dlq") /\ (Publish \/ UNCHANGED dlq)
           /\ act' = [act EXCEPT ![o] = "nak"]
     /\ UNCHANGED <<tables, http, stream, dc, kube, batch, leader>>

\* Ack, Term or Nak, sent without waiting for an answer and so possibly lost.
\* The server ignores it for a message it is done with.
settle(o) ==
  LET id == head(o).id
      new == CASE act[o] = "ack" -> "acked"
               [] act[o] = "term" -> "termed"
               [] OTHER -> unacked(id)
  IN /\ act[o] \in {"ack", "term", "nak"}
     /\ \/ /\ stream' = IF stream[id] \in {"inflight", "ready"}
                         THEN [stream EXCEPT ![id] = new] ELSE stream
           /\ UNCHANGED faults
        \/ Fault("ack") /\ UNCHANGED stream
     /\ Continue(o)
     /\ UNCHANGED <<tables, http, dc, dlq, kube, leader>>

Consume(o) ==
  \/ \E id \in Requests : deliver(o, id)
  \/ fetched(o) \/ handle(o) \/ publishDLQ(o) \/ settle(o)

-----------------------------------------------------------------------------
(* JetStream, and the operators' failures.                                 *)

AckWaitExpires(id) ==
  /\ stream[id] = "inflight"
  /\ stream' = [stream EXCEPT ![id] = unacked(id)]
  /\ UNCHANGED <<tables, http, dc, dlq, kube, consumer, faults>>

\* The stream's MaxAge of 24h: an unacknowledged message is deleted.
MaxAge(id) ==
  /\ Fault("age") /\ stream[id] \in {"ready", "inflight"}
  /\ stream' = [stream EXCEPT ![id] = "expired"]
  /\ UNCHANGED <<tables, http, dc, dlq, kube, consumer>>

OperatorCrash(o) ==
  /\ Fault("opcrash")
  /\ act' = [act EXCEPT ![o] = "fetch"]
  /\ batch' = [batch EXCEPT ![o] = <<>>]
  /\ UNCHANGED <<tables, http, nats, kube, leader>>

\* Another replica starts to consume; the old leader finishes its batch.
LeaseMoves ==
  /\ Fault("lease")
  /\ \E o \in Operators \ {leader} : leader' = o
  /\ UNCHANGED <<tables, http, nats, kube, act, batch>>

-----------------------------------------------------------------------------
Init ==
  /\ row = [k \in Keys |-> NoRow]
  /\ audit = {}
  /\ req = [r \in Requests |-> "new"]
  /\ answer = [r \in Requests |-> "none"]
  /\ cancel = [r \in Requests |-> "none"]
  /\ proc = "up"
  /\ stream = [r \in Requests |-> "none"]
  /\ dc = [r \in Requests |-> 0]
  /\ dlq = [r \in Requests |-> 0]
  /\ cr = [r \in Requests |-> "none"]
  /\ creations = [r \in Requests |-> 0]
  /\ leader \in Operators
  /\ act = [o \in Operators |-> "fetch"]
  /\ batch = [o \in Operators |-> <<>>]
  /\ faults = [count |-> 0, lossy |-> FALSE]

Next ==
  \/ \E r \in Requests :
       \/ insertJob(r) \/ publish(r) \/ auditCreate(r)
       \/ deleteJob(r) \/ updateStatus(r) \/ auditCancel(r) \/ finalize(r)
       \/ AckWaitExpires(r) \/ MaxAge(r)
  \/ \E o \in Operators : Consume(o) \/ OperatorCrash(o)
  \/ ApiCrash \/ Sigterm \/ closeStore \/ exit \/ LeaseMoves

Spec == Init /\ [][Next]_vars

\* The consumer of a replica that is up goes on, and time passes.
Fairness == /\ \A o \in Operators : WF_vars(Consume(o))
            /\ \A id \in Requests : WF_vars(AckWaitExpires(id))

FairSpec == Spec /\ Fairness

-----------------------------------------------------------------------------
(* Properties.                                                             *)

\* Every variable keeps its type, and a batch that is handled is not empty.
TypeOK ==
  /\ row \in [Keys -> {NoRow} \cup [id : Requests, status : {"Pending", "Cancelled"}]]
  /\ audit \subseteq Requests \X {"create", "cancel"}
  /\ req \in [Requests -> {"new", "publish", "audit", "201", "500"}]
  /\ answer \in [Requests -> Requests \cup {"none"}]
  /\ cancel \in [Requests -> {"none", "status", "audit", "done"}]
  /\ stream \in [Requests -> {"none", "ready", "inflight", "acked", "termed", "dropped",
                           "expired"}]
  /\ dc \in [Requests -> 0 .. MaxDeliver]
  /\ dlq \in [Requests -> Nat] /\ creations \in [Requests -> Nat]
  /\ cr \in [Requests -> {"none", "live", "deleting", "gone"}]
  /\ leader \in Operators /\ proc \in {"up", "noqueue", "nostore"}
  /\ act \in [Operators -> {"fetch", "handle", "ack", "nak", "dlq", "term"}]
  /\ batch \in [Operators -> Seq(Delivery)]
  /\ \A o \in Operators : act[o] # "fetch" => batch[o] # <<>>
  /\ faults \in [count : 0 .. MaxFaults, lossy : BOOLEAN]

\* Requests with one idempotency key that are answered with 201 name one job,
\* however they race (Store.CreateJob, and rec.ID == id in JobService.CreateJob).
SameKeySameJob ==
  \A r, s \in Requests :
    req[r] = "201" /\ req[s] = "201" /\ KeyOf[r] = KeyOf[s] => answer[r] = answer[s]

\* Whatever races, fails and is retried, the tables, the stream, the objects and
\* the dead letters take only the steps Intake allows: a key has one row, one id
\* in every 201 and at most one message, so nothing rests on JetStream's dedup
\* window (CreateJob publishes only when the row it reads back is its own).
Promise == INSTANCE Intake WITH
  owner <- [k \in Keys |-> row[k].id], reply <- answer,
  queued <- {r \in Requests : stream[r] # "none"}, object <- cr,
  dead <- {r \in Requests : dlq[r] > 0}

PromiseKept == Promise!Spec

\* An AcceleratorJob belongs to the job its key's row names, through every batch
\* it is redelivered in (SubmissionHandler).
JobOfItsRow == \A r \in Requests : cr[r] # "none" => row[KeyOf[r]].id = r

\* The audit log never shows the creation of a job that was not enqueued, nor a
\* cancellation of one that never ran.
AuditedHappened ==
  \A r \in Requests : /\ <<r, "create">> \in audit => stream[r] # "none"
                      /\ <<r, "cancel">> \in audit => creations[r] > 0

\* A redelivery creates its job anew only if the job was deleted in between
\* (SubmissionHandler takes AlreadyExists for success).
RevivedOnlyIfDeleted ==
  \A id \in Requests : creations[id] > 1 => cancel[id] # "none"

\* A message is acknowledged only once its job exists or has existed.
AckedMeansCreated == \A id \in Requests : stream[id] = "acked" => creations[id] > 0

\* A job is dead-lettered at most once, and only after all its deliveries.
DeadLetteredOnce ==
  \A id \in Requests : dlq[id] > 0 => dlq[id] = 1 /\ dc[id] = MaxDeliver

\* A message JetStream will not deliver again is still in some batch, or its job
\* was created or is dead-lettered (ConsumeFairShare: "let it redeliver rather
\* than lose it").
NothingLost ==
  \A id \in Requests : stream[id] = "dropped" =>
    \/ creations[id] > 0 \/ dlq[id] > 0
    \/ \E o \in Operators, i \in 1 .. BatchSize :
         i \in DOMAIN batch[o] /\ batch[o][i].id = id

\* ConsumeFairShare: a job that was enqueued is created or dead-lettered in the
\* end, whatever requests race, acks are lost and leases move.
EnqueuedIsSettled ==
  \A id \in Requests :
    stream[id] # "none" ~> (creations[id] > 0 \/ dlq[id] > 0 \/ faults.lossy)

(* What the repository's comments say and the code does not do.            *)

\* Store.CreateJob: "so retried submissions are safe": a client that has a 201
\* has a job that is enqueued, or about to be by the request that inserted it.
AcceptedIsEnqueued ==
  \A r \in Requests : req[r] = "201" =>
    stream[answer[r]] # "none" \/ req[answer[r]] = "publish"

\* SubmissionHandler: "It's idempotent": a redelivery creates nothing anew.
CreatedOnce == \A id \in Requests : creations[id] <= 1
=============================================================================
