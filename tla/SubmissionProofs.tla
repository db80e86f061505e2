-------------------------- MODULE SubmissionProofs ---------------------------
(***************************************************************************)
(* Proofs about SubmissionPipeline for any number of requests, keys,       *)
(* operators, deliveries and faults of every kind.                         *)
(*                                                                         *)
(* None of the properties is inductive.  What they rest on is that a       *)
(* message, and a request that is past its insert, belong to the job their *)
(* key's row names; that an object is missing exactly as long as it was    *)
(* never created, or was deleted by a DELETE; and that a consumer about to *)
(* acknowledge a message has seen its job.  For these what is in a batch   *)
(* does not matter; for dead letters it does (Deliveries).                 *)
(***************************************************************************)
EXTENDS SubmissionPipeline, FairShareProofs

USE PipelineAssumption

\* The types of the variables the argument looks at.
Typed ==
  /\ row \in [Keys -> {NoRow} \cup [id : Requests, status : {"Pending", "Cancelled"}]]
  /\ req \in [Requests -> {"new", "publish", "audit", "201", "500"}]
  /\ answer \in [Requests -> Requests \cup {"none"}]
  /\ cancel \in [Requests -> {"none", "status", "audit", "done"}]
  /\ stream \in [Requests -> {"none", "ready", "inflight", "acked", "termed", "dropped",
                           "expired"}]
  /\ cr \in [Requests -> {"none", "live", "deleting", "gone"}]
  /\ creations \in [Requests -> Nat]
  /\ act \in [Operators -> {"fetch", "handle", "ack", "nak", "dlq", "term"}]
  /\ DOMAIN batch = Operators

\* A row is of a request with its key.
RowOfKey(k) == row[k] # NoRow => KeyOf[row[k].id] = k

\* A request that goes on to publish, and a message, are of their key's job; a
\* 201 names it.
Own(r) ==
  /\ req[r] \in {"publish", "audit"} => row[KeyOf[r]].id = r
  /\ req[r] = "201" => row[KeyOf[r]] # NoRow /\ answer[r] = row[KeyOf[r]].id
  /\ stream[r] # "none" => row[KeyOf[r]].id = r
  /\ req[r] = "audit" => stream[r] # "none"
  /\ <<r, "create">> \in audit => stream[r] # "none"

\* The life of an object, and what tells of it.
Object(r) ==
  /\ cr[r] = "none" <=> creations[r] = 0
  /\ cr[r] \in {"deleting", "gone"} => cancel[r] # "none"
  /\ creations[r] > 1 => cancel[r] # "none"
  /\ cancel[r] # "none" => creations[r] > 0
  /\ <<r, "cancel">> \in audit => creations[r] > 0
  /\ stream[r] = "acked" => creations[r] > 0

\* A consumer acknowledges only what was created.
Acks(o) == act[o] = "ack" /\ head(o).id \in Requests => creations[head(o).id] > 0

Rows == (\A k \in Keys : RowOfKey(k)) /\ (\A r \in Requests : Own(r))
Objects == (\A r \in Requests : Object(r)) /\ (\A o \in Operators : Acks(o))
IInv == Typed /\ Rows /\ Objects

-----------------------------------------------------------------------------
\* Nothing has happened yet.
LEMMA InitInv == Init => IInv
<1>. SUFFICES ASSUME Init PROVE IInv
  OBVIOUS
<1>1. Typed
  BY DEF Init, Typed
<1>2. Rows
  BY DEF Init, Rows, RowOfKey, Own, NoRow
<1>3. Objects
  BY DEF Init, Objects, Object, Acks
<1>. QED
  BY <1>1, <1>2, <1>3 DEF IInv

\* NoRow is no request's row.
LEMMA NoRowId == \A r \in Requests : NoRow.id # r
  BY DEF NoRow

\* The objects are sound after a step that leaves them and their DELETE alone,
\* acknowledges nothing and logs no cancellation.
LEMMA ObjectsFrame ==
  ASSUME IInv, UNCHANGED <<cr, creations, cancel, act, batch>>,
         \A r \in Requests : <<r, "cancel">> \in audit' => <<r, "cancel">> \in audit,
         \A r \in Requests : stream'[r] = "acked" => stream[r] = "acked"
  PROVE  Objects'
<1>1. ASSUME NEW r \in Requests PROVE Object(r)'
  BY DEF IInv, Objects, Object
<1>2. ASSUME NEW o \in Operators PROVE Acks(o)'
  BY DEF IInv, Objects, Acks, head
<1>. QED
  BY <1>1, <1>2 DEF Objects

\* The rows are sound after a step that leaves them alone and at most ends
\* requests, moves messages and logs cancellations.
LEMMA RowsFrame ==
  ASSUME IInv, UNCHANGED <<row, answer>>,
         \A r \in Requests : req'[r] = req[r] \/ req'[r] = "500",
         \A r \in Requests : stream'[r] = "none" <=> stream[r] = "none",
         \A r \in Requests : <<r, "create">> \in audit' => <<r, "create">> \in audit
  PROVE  Rows'
<1>1. ASSUME NEW k \in Keys PROVE RowOfKey(k)'
  BY DEF IInv, Rows, RowOfKey
<1>2. ASSUME NEW r \in Requests PROVE Own(r)'
  <2>1. Own(r)
    BY DEF IInv, Rows
  <2>. QED
    BY <2>1 DEF Own
<1>. QED
  BY <1>1, <1>2 DEF Rows

-----------------------------------------------------------------------------
\* CreateJob's insert: only the first request of a key gets a row, and a later
\* one is answered with it.
LEMMA InsertInv == ASSUME NEW r \in Requests, IInv, insertJob(r) PROVE IInv'
<1>. DEFINE k == KeyOf[r]
            new == [id |-> r, status |-> "Pending"]
<1>0. k \in Keys /\ Typed /\ req[r] = "new"
  BY DEF IInv, insertJob
<1>1. /\ UNCHANGED <<audit, cancel, proc, nats, kube, consumer>>
      /\ row' = row \/ (row[k] = NoRow /\ row' = [row EXCEPT ![k] = new])
  BY DEF insertJob
<1>2. Typed'
  <2>1. answer' \in [Requests -> Requests \cup {"none"}]
    BY <1>0 DEF insertJob, Typed, NoRow
  <2>2. req' \in [Requests -> {"new", "publish", "audit", "201", "500"}]
    BY <1>0 DEF insertJob, Typed, Answer
  <2>3. row' \in [Keys -> {NoRow} \cup [id : Requests, status : {"Pending", "Cancelled"}]]
    BY <1>0, <1>1 DEF Typed
  <2>. QED
    BY <1>0, <1>1, <2>1, <2>2, <2>3 DEF Typed, nats, kube, consumer
<1>3. \A x \in Keys : RowOfKey(x)'
  BY <1>0, <1>1 DEF IInv, Rows, RowOfKey, Typed
<1>4. ASSUME NEW s \in Requests PROVE Own(s)'
  <2>0. Own(s) /\ KeyOf[s] \in Keys /\ stream' = stream /\ audit' = audit
    BY <1>1 DEF IInv, Rows, nats
  <2>1. row[KeyOf[s]] # NoRow => row'[KeyOf[s]] = row[KeyOf[s]]
    BY <1>0, <1>1, <2>0 DEF Typed
  <2>2. CASE s # r
    <3>1. req'[s] = req[s] /\ answer'[s] = answer[s]
      BY <1>0, <2>2 DEF insertJob, Answer, Typed
    <3>. QED
      BY <2>0, <2>1, <3>1, NoRowId DEF Own
  <2>3. CASE s = r
    <3>1. \/ req'[r] = "publish" /\ row'[k].id = r
          \/ req'[r] = "201" /\ row'[k] = row[k] /\ row[k] # NoRow /\ answer'[r] = row[k].id
          \/ req'[r] = "500"
      BY <1>0 DEF insertJob, Answer, Typed
    <3>. QED
      BY <2>0, <2>1, <2>3, <3>1, NoRowId DEF Own
  <2>. QED
    BY <2>2, <2>3
<1>5. Objects'
  BY <1>1, ObjectsFrame DEF nats, kube, consumer
<1>. QED
  BY <1>2, <1>3, <1>4, <1>5 DEF IInv, Rows

\* Publish: the message is of the job in the row.
LEMMA PublishInv == ASSUME NEW r \in Requests, IInv, publish(r) PROVE IInv'
<1>a. Typed /\ req[r] = "publish" /\ row[KeyOf[r]].id = r
  BY Zenon DEF IInv, Rows, Own, publish
<1>0. /\ Typed /\ req[r] = "publish" /\ row[KeyOf[r]].id = r
      /\ stream' = stream \/ stream' = [stream EXCEPT ![r] = "ready"]
      /\ \/ req' = [req EXCEPT ![r] = "audit"] /\ stream'[r] = "ready"
         \/ req' = [req EXCEPT ![r] = "500"]
      /\ UNCHANGED <<row, audit, answer, cancel, cr, creations, act, batch>>
  <2>1. DOMAIN stream = Requests
    BY <1>a DEF Typed
  <2>. QED
    BY <1>a, <2>1 DEF publish, Answer, tables, kube, consumer
<1>1. Typed'
  BY <1>0 DEF Typed
<1>2. ASSUME NEW s \in Requests PROVE Own(s)'
  <2>1. Own(s)
    BY DEF IInv, Rows
  <2>. QED
    BY <1>0, <2>1 DEF Own, Typed
<1>3. \A k \in Keys : RowOfKey(k)'
  BY <1>0 DEF IInv, Rows, RowOfKey
<1>4. \A s \in Requests : stream'[s] = "acked" => stream[s] = "acked"
  BY <1>0 DEF Typed
<1>5. Objects'
  BY <1>0, <1>4, ObjectsFrame
<1>. QED
  BY <1>1, <1>2, <1>3, <1>5 DEF IInv, Rows

\* The audit entry and the 201 of the request that inserted the row.
LEMMA AuditCreateInv == ASSUME NEW r \in Requests, IInv, auditCreate(r) PROVE IInv'
<1>0. /\ Typed /\ req[r] = "audit" /\ row[KeyOf[r]].id = r /\ stream[r] # "none"
      /\ audit' = audit \/ audit' = audit \cup {<<r, "create">>}
      /\ req' = [req EXCEPT ![r] = "201"] /\ answer' = [answer EXCEPT ![r] = r]
      /\ UNCHANGED <<row, cancel, stream, cr, creations, act, batch>>
  BY Zenon DEF IInv, Rows, Own, auditCreate, Answer, nats, kube, consumer
<1>1. Typed'
  BY <1>0 DEF Typed
<1>2. ASSUME NEW s \in Requests PROVE Own(s)'
  <2>1. Own(s)
    BY DEF IInv, Rows
  <2>2. CASE s = r
    BY <1>0, <2>1, <2>2, NoRowId DEF Own, Typed
  <2>3. CASE s # r
    <3>1. req'[s] = req[s] /\ answer'[s] = answer[s]
      BY <1>0, <2>3 DEF Typed
    <3>2. <<s, "create">> \in audit' => <<s, "create">> \in audit
      BY <1>0, <2>3
    <3>. QED
      BY <1>0, <2>1, <3>1, <3>2 DEF Own
  <2>. QED
    BY <2>2, <2>3
<1>3. \A k \in Keys : RowOfKey(k)'
  BY <1>0 DEF IInv, Rows, RowOfKey
<1>4. \A s \in Requests : <<s, "cancel">> \in audit' => <<s, "cancel">> \in audit
  BY <1>0
<1>5. Objects'
  BY <1>0, <1>4, ObjectsFrame
<1>. QED
  BY <1>1, <1>2, <1>3, <1>5 DEF IInv, Rows
-----------------------------------------------------------------------------
\* DELETE: the object that is deleted was created.
LEMMA DeleteInv == ASSUME NEW id \in Requests, IInv, deleteJob(id) PROVE IInv'
<1>0. /\ Typed /\ cancel[id] = "none" /\ cr[id] \in {"live", "deleting"}
      /\ \/ cr' = cr
         \/ cr' = [cr EXCEPT ![id] = "deleting"]
         \/ cr' = [cr EXCEPT ![id] = "gone"]
      /\ cancel' = [cancel EXCEPT ![id] = "status"]
      /\ UNCHANGED <<row, audit, req, answer, stream, creations, act, batch>>
  BY DEF IInv, deleteJob, tables, nats, consumer
<1>1. Typed'
  BY <1>0 DEF Typed
<1>2. Rows'
  BY <1>0, RowsFrame
<1>3. ASSUME NEW r \in Requests PROVE Object(r)'
  <2>1. Object(r)
    BY DEF IInv, Objects
  <2>2. creations[r] \in Nat
    BY <1>0 DEF Typed
  <2>3. CASE r = id
    <3>1. creations[id] > 0
      BY <1>0, <2>1, <2>2, <2>3 DEF Object
    <3>2. cancel'[id] = "status" /\ cr'[id] # "none"
      BY <1>0 DEF Typed
    <3>. QED
      BY <1>0, <2>1, <2>2, <2>3, <3>1, <3>2 DEF Object
  <2>4. CASE r # id
    <3>1. cancel'[r] = cancel[r] /\ cr'[r] = cr[r]
      BY <1>0, <2>4 DEF Typed
    <3>. QED
      BY <1>0, <2>1, <3>1 DEF Object
  <2>. QED
    BY <2>3, <2>4
<1>4. ASSUME NEW o \in Operators PROVE Acks(o)'
  BY <1>0 DEF IInv, Objects, Acks, head
<1>. QED
  BY <1>1, <1>2, <1>3, <1>4 DEF IInv, Objects

\* UpdateStatus keeps the id of the row.
LEMMA UpdateStatusInv == ASSUME NEW id \in Requests, IInv, updateStatus(id) PROVE IInv'
<1>. DEFINE k == KeyOf[id]
<1>0. /\ Typed /\ k \in Keys /\ cancel[id] = "status"
      /\ row' = row \/ (row[k].id = id /\ row' = [row EXCEPT ![k].status = "Cancelled"])
      /\ cancel' = [cancel EXCEPT ![id] = "audit"]
      /\ UNCHANGED <<audit, req, answer, stream, cr, creations, act, batch>>
  BY DEF IInv, updateStatus, nats, kube, consumer
<1>a. row[k].id = id =>
        /\ row[k] \in [id : Requests, status : {"Pending", "Cancelled"}]
        /\ [row[k] EXCEPT !.status = "Cancelled"] \in [id : Requests, status : {"Cancelled"}]
        /\ [row[k] EXCEPT !.status = "Cancelled"].id = row[k].id
  BY <1>0, NoRowId DEF Typed
<1>b. \/ row' = row
      \/ /\ row[k].id = id
         /\ row' = [row EXCEPT ![k] = [row[k] EXCEPT !.status = "Cancelled"]]
  BY <1>0
<1>1. ASSUME NEW x \in Keys
      PROVE  /\ row'[x] = NoRow <=> row[x] = NoRow
             /\ row'[x] # NoRow => row'[x].id = row[x].id
  <2>1. CASE row'[x] = row[x]
    BY <2>1
  <2>2. CASE /\ x = k /\ row[k].id = id
             /\ row'[x] = [row[k] EXCEPT !.status = "Cancelled"]
    <3>1. row'[x].id = id /\ row[x].id = id
      BY <1>a, <2>2
    <3>. QED
      BY <3>1, NoRowId
  <2>. QED
    BY <1>0, <1>b, <2>1, <2>2 DEF Typed
<1>2. Typed'
  <2>1. row' \in [Keys -> {NoRow} \cup [id : Requests, status : {"Pending", "Cancelled"}]]
    <3>1. row[k].id = id => [row[k] EXCEPT !.status = "Cancelled"]
                              \in [id : Requests, status : {"Pending", "Cancelled"}]
      BY <1>a
    <3>. DEFINE e == [row[k] EXCEPT !.status = "Cancelled"]
                T == {NoRow} \cup [id : Requests, status : {"Pending", "Cancelled"}]
    <3>2. /\ row \in [Keys -> T] /\ (row[k].id = id => e \in T)
          /\ row' = row \/ (row[k].id = id /\ row' = [row EXCEPT ![k] = e])
      BY <1>0, <1>b, <3>1 DEF Typed
    <3>. HIDE DEF e, T
    <3>3. row' \in [Keys -> T]
      BY <3>2
    <3>. QED
      BY <3>3 DEF T
  <2>. QED
    BY <1>0, <2>1 DEF Typed
<1>3. \A x \in Keys : RowOfKey(x)'
  BY <1>1 DEF IInv, Rows, RowOfKey
<1>4. ASSUME NEW r \in Requests PROVE Own(r)'
  <2>1. Own(r) /\ KeyOf[r] \in Keys
    BY DEF IInv, Rows
  <2>. QED
    BY <1>0, <1>1, <2>1, NoRowId DEF Own
<1>5. ASSUME NEW r \in Requests PROVE Object(r)'
  <2>1. Object(r)
    BY DEF IInv, Objects
  <2>2. cancel'[r] = "none" <=> cancel[r] = "none"
    BY <1>0 DEF Typed
  <2>. QED
    BY <1>0, <2>1, <2>2 DEF Object
<1>6. ASSUME NEW o \in Operators PROVE Acks(o)'
  BY <1>0 DEF IInv, Objects, Acks, head
<1>. QED
  BY <1>2, <1>3, <1>4, <1>5, <1>6 DEF IInv, Rows, Objects

\* The audit entry of a DELETE.
LEMMA AuditCancelInv == ASSUME NEW id \in Requests, IInv, auditCancel(id) PROVE IInv'
<1>0. /\ Typed /\ cancel[id] = "audit"
      /\ audit' = audit \/ audit' = audit \cup {<<id, "cancel">>}
      /\ cancel' = [cancel EXCEPT ![id] = "done"]
      /\ UNCHANGED <<row, req, answer, stream, cr, creations, act, batch>>
  BY DEF IInv, auditCancel, nats, kube, consumer
<1>1. Typed'
  BY <1>0 DEF Typed
<1>2. Rows'
  <2>1. \A r \in Requests : <<r, "create">> \in audit' => <<r, "create">> \in audit
    BY <1>0
  <2>. QED
    BY <1>0, <2>1, RowsFrame
<1>3. ASSUME NEW r \in Requests PROVE Object(r)'
  <2>1. Object(r)
    BY DEF IInv, Objects
  <2>2. cancel'[r] = "none" <=> cancel[r] = "none"
    BY <1>0 DEF Typed
  <2>3. <<r, "cancel">> \in audit' => creations[r] > 0
    BY <1>0, <2>1 DEF Object
  <2>. QED
    BY <1>0, <2>1, <2>2, <2>3 DEF Object
<1>4. ASSUME NEW o \in Operators PROVE Acks(o)'
  BY <1>0 DEF IInv, Objects, Acks, head
<1>. QED
  BY <1>1, <1>2, <1>3, <1>4 DEF IInv, Objects

\* The finalizer is dropped of an object that a DELETE has marked.
LEMMA FinalizeInv == ASSUME NEW id \in Requests, IInv, finalize(id) PROVE IInv'
<1>0. /\ Typed /\ cr[id] = "deleting" /\ cr' = [cr EXCEPT ![id] = "gone"]
      /\ UNCHANGED <<row, audit, req, answer, cancel, stream, creations, act, batch>>
  BY DEF IInv, finalize, tables, http, nats, consumer
<1>1. Typed'
  BY <1>0 DEF Typed
<1>2. Rows'
  BY <1>0, RowsFrame
<1>3. ASSUME NEW r \in Requests PROVE Object(r)'
  <2>1. Object(r)
    BY DEF IInv, Objects
  <2>2. \/ cr'[r] = cr[r]
        \/ cr[r] = "deleting" /\ cr'[r] = "gone"
    BY <1>0 DEF Typed
  <2>. QED
    BY <1>0, <2>1, <2>2 DEF Object
<1>4. ASSUME NEW o \in Operators PROVE Acks(o)'
  BY <1>0 DEF IInv, Objects, Acks, head
<1>. QED
  BY <1>1, <1>2, <1>3, <1>4 DEF IInv, Objects

\* The API server's process ends, by a crash or a shutdown.
LEMMA ProcessInv ==
  ASSUME IInv, ApiCrash \/ Sigterm \/ closeStore \/ exit
  PROVE  IInv'
<1>0. /\ Typed
      /\ UNCHANGED <<row, audit, answer, stream, cr, creations, act, batch>>
      /\ AbortRequests \/ UNCHANGED <<req, cancel>>
  BY DEF IInv, ApiCrash, Sigterm, closeStore, exit, tables, nats, kube, consumer
<1>1. /\ Typed'
      /\ \A r \in Requests : req'[r] = req[r] \/ req'[r] = "500"
      /\ \A r \in Requests : cancel'[r] = "none" <=> cancel[r] = "none"
  BY <1>0 DEF Typed, AbortRequests
<1>2. Rows'
  BY <1>0, <1>1, RowsFrame
<1>3. ASSUME NEW r \in Requests PROVE Object(r)'
  <2>1. Object(r)
    BY DEF IInv, Objects
  <2>. QED
    BY <1>0, <1>1, <2>1 DEF Object
<1>4. ASSUME NEW o \in Operators PROVE Acks(o)'
  BY <1>0 DEF IInv, Objects, Acks, head
<1>. QED
  BY <1>1, <1>2, <1>3, <1>4 DEF IInv, Objects
-----------------------------------------------------------------------------
\* A step of the queue that leaves tables, requests and objects alone, keeps
\* messages messages, and acknowledges only what was created.
LEMMA QueueFrame ==
  ASSUME IInv, UNCHANGED <<row, audit, req, answer, cancel, cr, creations>>,
         stream' \in [Requests -> {"none", "ready", "inflight", "acked", "termed", "dropped",
                                  "expired"}],
         act' \in [Operators -> {"fetch", "handle", "ack", "nak", "dlq", "term"}],
         DOMAIN batch' = Operators,
         \A r \in Requests : stream'[r] = "none" <=> stream[r] = "none",
         \A r \in Requests : stream'[r] = "acked" => creations[r] > 0,
         \A o \in Operators : act'[o] = "ack" => act[o] = "ack" /\ batch'[o] = batch[o]
  PROVE  IInv'
<1>1. Typed'
  BY DEF IInv, Typed
<1>2. Rows'
  BY RowsFrame
<1>3. ASSUME NEW r \in Requests PROVE Object(r)'
  <2>1. Object(r)
    BY DEF IInv, Objects
  <2>. QED
    BY <2>1 DEF Object
<1>4. ASSUME NEW o \in Operators PROVE Acks(o)'
  <2>1. Acks(o)
    BY DEF IInv, Objects
  <2>. QED
    BY <2>1 DEF Acks, head
<1>. QED
  BY <1>1, <1>2, <1>3, <1>4 DEF IInv, Objects

\* The part of the invariant about acknowledged messages.
LEMMA Acked == ASSUME IInv, NEW r \in Requests, stream[r] = "acked" PROVE creations[r] > 0
  BY Zenon DEF IInv, Objects, Object

\* A delivery to an open Fetch acknowledges nothing.
LEMMA DeliverInv ==
  ASSUME NEW o \in Operators, NEW id \in Requests, IInv, deliver(o, id) PROVE IInv'
<1>0. /\ Typed /\ stream[id] = "ready" /\ stream' = [stream EXCEPT ![id] = "inflight"]
      /\ act[o] = "fetch" /\ DOMAIN batch' = DOMAIN batch
      /\ \A p \in Operators : p # o => batch'[p] = batch[p]
      /\ UNCHANGED <<row, audit, req, answer, cancel, cr, creations, act>>
  BY DEF IInv, deliver, tables, http, kube, Typed
<1>1. /\ stream' \in [Requests -> {"none", "ready", "inflight", "acked", "termed", "dropped",
                                   "expired"}]
      /\ \A r \in Requests : stream'[r] = "none" <=> stream[r] = "none"
      /\ \A r \in Requests : stream'[r] = "acked" => stream[r] = "acked"
  BY <1>0, Zenon DEF Typed
<1>2. \A p \in Operators : act'[p] = "ack" => act[p] = "ack" /\ batch'[p] = batch[p]
  BY <1>0
<1>. QED
  BY <1>0, <1>1, <1>2, Acked, QueueFrame DEF Typed

\* The batch of a consumer that fetches may be reordered in any way.
LEMMA FetchedInv == ASSUME NEW o \in Operators, IInv, fetched(o) PROVE IInv'
<1>0. /\ Typed /\ act' = [act EXCEPT ![o] = "handle"] /\ DOMAIN batch' = DOMAIN batch
      /\ \A p \in Operators : p # o => batch'[p] = batch[p]
      /\ UNCHANGED <<row, audit, req, answer, cancel, cr, creations, stream>>
  BY Zenon DEF IInv, fetched, tables, http, kube, nats, Typed
<1>1. /\ act' \in [Operators -> {"fetch", "handle", "ack", "nak", "dlq", "term"}]
      /\ \A p \in Operators : act'[p] = "ack" => act[p] = "ack" /\ batch'[p] = batch[p]
  BY <1>0 DEF Typed
<1>. QED
  BY <1>0, <1>1, Acked, QueueFrame, Zenon DEF Typed

\* After the handler has failed nothing is acknowledged.
LEMMA PublishDlqInv == ASSUME NEW o \in Operators, IInv, publishDLQ(o) PROVE IInv'
<1>0. /\ Typed
      /\ act' = [act EXCEPT ![o] = "term"] \/ act' = [act EXCEPT ![o] = "nak"]
      /\ UNCHANGED <<row, audit, req, answer, cancel, cr, creations, stream, batch>>
  BY DEF IInv, publishDLQ, tables, http, kube
<1>1. /\ act' \in [Operators -> {"fetch", "handle", "ack", "nak", "dlq", "term"}]
      /\ \A p \in Operators : act'[p] = "ack" => act[p] = "ack"
  BY <1>0 DEF Typed
<1>. QED
  BY <1>0, <1>1, Acked, QueueFrame DEF Typed

\* An Ack, Term or Nak, received or lost.
LEMMA SettleInv == ASSUME NEW o \in Operators, IInv, settle(o) PROVE IInv'
<1>. DEFINE id == head(o).id
            new == CASE act[o] = "ack" -> "acked"
                     [] act[o] = "term" -> "termed"
                     [] OTHER -> unacked(id)
<1>0. /\ Typed /\ Continue(o)
      /\ \/ stream' = stream
         \/ stream[id] \in {"inflight", "ready"} /\ stream' = [stream EXCEPT ![id] = new]
      /\ UNCHANGED <<row, audit, req, answer, cancel, cr, creations>>
  BY DEF IInv, settle, tables, http, kube
<1>1. new \in {"acked", "termed", "ready", "dropped"} /\ (new = "acked" => act[o] = "ack")
  BY DEF unacked
<1>2. /\ stream' \in [Requests -> {"none", "ready", "inflight", "acked", "termed", "dropped",
                                   "expired"}]
      /\ \A r \in Requests : stream'[r] = "none" <=> stream[r] = "none"
  <2>. HIDE DEF new, id
  <2>. QED
    BY <1>0, <1>1 DEF Typed
<1>3. ASSUME NEW r \in Requests, stream'[r] = "acked" PROVE creations[r] > 0
  <2>1. CASE stream[r] = "acked"
    BY <2>1, Acked
  <2>2. CASE stream[r] # "acked"
    <3>1. r = id /\ new = "acked"
      <4>. HIDE DEF new, id
      <4>. QED
        BY <1>0, <1>3, <2>2 DEF Typed
    <3>2. Acks(o)
      BY DEF IInv, Objects
    <3>. QED
      BY <1>1, <3>1, <3>2 DEF Acks
  <2>. QED
    BY <2>1, <2>2
<1>4. /\ act' \in [Operators -> {"fetch", "handle", "ack", "nak", "dlq", "term"}]
      /\ DOMAIN batch' = Operators
      /\ \A p \in Operators : act'[p] = "ack" => act[p] = "ack" /\ batch'[p] = batch[p]
  BY <1>0 DEF Typed, Continue
<1>. QED
  BY <1>0, <1>2, <1>3, <1>4, QueueFrame

\* An ack wait that ends acknowledges nothing.
LEMMA AckWaitInv == ASSUME NEW id \in Requests, IInv, AckWaitExpires(id) PROVE IInv'
<1>0. /\ Typed /\ stream[id] = "inflight" /\ stream' = [stream EXCEPT ![id] = unacked(id)]
      /\ unacked(id) \in {"ready", "dropped"}
      /\ UNCHANGED <<row, audit, req, answer, cancel, cr, creations, act, batch>>
  BY DEF IInv, AckWaitExpires, unacked, tables, http, kube, consumer
<1>1. /\ stream' \in [Requests -> {"none", "ready", "inflight", "acked", "termed", "dropped",
                                   "expired"}]
      /\ \A r \in Requests : stream'[r] = "none" <=> stream[r] = "none"
      /\ \A r \in Requests : stream'[r] = "acked" => stream[r] = "acked"
  BY <1>0 DEF Typed
<1>. QED
  BY <1>0, <1>1, Acked, QueueFrame DEF Typed

\* Nor does the end of a message by age.
LEMMA MaxAgeInv == ASSUME NEW id \in Requests, IInv, MaxAge(id) PROVE IInv'
<1>0. /\ Typed /\ stream[id] \in {"ready", "inflight"}
      /\ stream' = [stream EXCEPT ![id] = "expired"]
      /\ UNCHANGED <<row, audit, req, answer, cancel, cr, creations, act, batch>>
  BY DEF IInv, MaxAge, tables, http, kube, consumer
<1>1. /\ stream' \in [Requests -> {"none", "ready", "inflight", "acked", "termed", "dropped",
                                   "expired"}]
      /\ \A r \in Requests : stream'[r] = "none" <=> stream[r] = "none"
      /\ \A r \in Requests : stream'[r] = "acked" => stream[r] = "acked"
  BY <1>0 DEF Typed
<1>. QED
  BY <1>0, <1>1, Acked, QueueFrame DEF Typed

\* A consumer that starts again has nothing to acknowledge.
LEMMA OperatorInv ==
  ASSUME IInv, LeaseMoves \/ \E o \in Operators : OperatorCrash(o)
  PROVE  IInv'
<1>1. CASE LeaseMoves
  <2>1. Typed /\ UNCHANGED <<row, audit, req, answer, cancel, cr, creations, stream, act, batch>>
    BY <1>1 DEF IInv, LeaseMoves, tables, http, nats, kube
  <2>. QED
    BY <2>1, Acked, QueueFrame DEF Typed
<1>2. ASSUME NEW o \in Operators, OperatorCrash(o) PROVE IInv'
  <2>1. /\ Typed /\ UNCHANGED <<row, audit, req, answer, cancel, cr, creations, stream>>
        /\ act' = [act EXCEPT ![o] = "fetch"] /\ batch' = [batch EXCEPT ![o] = <<>>]
    BY <1>2 DEF IInv, OperatorCrash, tables, http, nats, kube
  <2>2. /\ act' \in [Operators -> {"fetch", "handle", "ack", "nak", "dlq", "term"}]
        /\ DOMAIN batch' = Operators
        /\ \A p \in Operators : act'[p] = "ack" => act[p] = "ack" /\ batch'[p] = batch[p]
    BY <2>1 DEF Typed
  <2>. QED
    BY <2>1, <2>2, Acked, QueueFrame DEF Typed
<1>. QED
  BY <1>1, <1>2
-----------------------------------------------------------------------------
\* SubmissionHandler: an object is created where there is none, and the message
\* is acknowledged only if there is one now.
LEMMA HandleInv == ASSUME NEW o \in Operators, IInv, handle(o) PROVE IInv'
<1>. DEFINE id == head(o).id
            created == /\ cr[id] \in {"none", "gone"} /\ cr' = [cr EXCEPT ![id] = "live"]
                       /\ creations' = [creations EXCEPT ![id] = @ + 1]
<1>0. /\ Typed /\ act[o] = "handle"
      /\ created \/ UNCHANGED <<cr, creations>>
      /\ \/ act' = [act EXCEPT ![o] = "ack"] /\ (created \/ cr[id] \notin {"none", "gone"})
         \/ act' = [act EXCEPT ![o] = "dlq"]
         \/ act' = [act EXCEPT ![o] = "nak"]
      /\ UNCHANGED <<row, audit, req, answer, cancel, stream, batch>>
  BY DEF IInv, handle, tables, http, nats, kube
<1>. HIDE DEF id
<1>1. Typed'
  BY <1>0 DEF Typed
<1>2. Rows'
  BY <1>0, RowsFrame
<1>3. ASSUME NEW r \in Requests
      PROVE  /\ Object(r)' /\ creations'[r] >= creations[r] /\ creations[r] \in Nat
             /\ created /\ r = id => creations'[r] > 0
  <2>1. Object(r) /\ creations[r] \in Nat
    BY <1>0 DEF IInv, Objects, Typed
  <2>2. CASE created /\ r = id
    <3>1. cr'[r] = "live" /\ creations'[r] = creations[r] + 1 /\ cr[r] \in {"none", "gone"}
      BY <1>0, <2>2 DEF Typed
    <3>. QED
      BY <1>0, <2>1, <3>1 DEF Object
  <2>3. CASE ~(created /\ r = id)
    <3>1. cr'[r] = cr[r] /\ creations'[r] = creations[r]
      BY <1>0, <2>3 DEF Typed
    <3>. QED
      BY <1>0, <2>1, <2>3, <3>1 DEF Object
  <2>. QED
    BY <2>2, <2>3
<1>4. ASSUME NEW p \in Operators PROVE Acks(p)'
  <2>0. head(p)' = head(p)
    BY <1>0 DEF head
  <2>1. CASE p = o
    <3>1. SUFFICES ASSUME act'[o] = "ack", id \in Requests PROVE creations'[id] > 0
      BY <2>0, <2>1 DEF Acks, id
    <3>2. created \/ cr[id] \notin {"none", "gone"}
      BY <1>0, <3>1 DEF Typed
    <3>3. Object(id) /\ creations[id] \in Nat /\ creations'[id] \in Nat
      BY <1>0, <1>1, <3>1 DEF IInv, Objects, Typed
    <3>4. cr[id] # "none" => creations[id] > 0
      BY <3>3 DEF Object
    <3>. QED
      BY <1>3, <3>1, <3>2, <3>3, <3>4
  <2>2. CASE p # o
    <3>1. act'[p] = act[p] /\ Acks(p)
      BY <1>0, <2>2 DEF Typed, IInv, Objects
    <3>2. ASSUME head(p).id \in Requests, creations[head(p).id] > 0
          PROVE  creations'[head(p).id] > 0
      <4>1. creations'[head(p).id] \in Nat
        BY <1>1, <3>2 DEF Typed
      <4>. QED
        BY <1>3, <3>2, <4>1
    <3>. QED
      BY <2>0, <3>1, <3>2 DEF Acks
  <2>. QED
    BY <2>1, <2>2
<1>. QED
  BY <1>1, <1>2, <1>3, <1>4 DEF IInv, Objects

\* Every step keeps the invariant.
LEMMA NextInv == IInv /\ [Next]_vars => IInv'
<1>. SUFFICES ASSUME IInv, [Next]_vars PROVE IInv'
  OBVIOUS
<1>1. ASSUME NEW r \in Requests,
             \/ insertJob(r) \/ publish(r) \/ auditCreate(r)
             \/ deleteJob(r) \/ updateStatus(r) \/ auditCancel(r) \/ finalize(r)
             \/ AckWaitExpires(r) \/ MaxAge(r)
      PROVE  IInv'
  BY <1>1, InsertInv, PublishInv, AuditCreateInv, DeleteInv, UpdateStatusInv,
     AuditCancelInv, FinalizeInv, AckWaitInv, MaxAgeInv
<1>2. ASSUME NEW o \in Operators, Consume(o) PROVE IInv'
  BY <1>2, DeliverInv, FetchedInv, HandleInv, PublishDlqInv, SettleInv DEF Consume
<1>3. CASE ApiCrash \/ Sigterm \/ closeStore \/ exit
  BY <1>3, ProcessInv
<1>4. CASE LeaseMoves \/ \E o \in Operators : OperatorCrash(o)
  BY <1>4, OperatorInv
<1>5. CASE UNCHANGED vars
  <2>1. /\ Typed
        /\ UNCHANGED <<row, audit, req, answer, cancel, cr, creations, stream, act, batch>>
    BY <1>5 DEF IInv, vars, tables, http, nats, kube, consumer
  <2>. QED
    BY <2>1, Acked, QueueFrame DEF Typed
<1>. QED
  BY <1>1, <1>2, <1>3, <1>4, <1>5 DEF Next

\* The invariant holds throughout.
LEMMA InvHolds == Spec => []IInv
  BY InitInv, NextInv, PTL DEF Spec

-----------------------------------------------------------------------------
\* Requests with one idempotency key that are answered with 201 name one job,
\* whatever fails, for any number of clients and retries (CreateJob).
THEOREM SameKey == Spec => []SameKeySameJob
<1>1. IInv => SameKeySameJob
  BY Zenon DEF IInv, Rows, Own, SameKeySameJob
<1>. QED
  BY <1>1, InvHolds, PTL

\* A key leads to at most one message.
OneMessagePerKey ==
  \A r, s \in Requests :
    stream[r] # "none" /\ stream[s] # "none" /\ KeyOf[r] = KeyOf[s] => r = s

\* A key is enqueued at most once, without any help of JetStream's dedup window
\* (CreateJob publishes only what it inserted itself).
THEOREM OneMessage == Spec => []OneMessagePerKey
<1>1. IInv => OneMessagePerKey
  BY Zenon DEF IInv, Rows, Own, OneMessagePerKey
<1>. QED
  BY <1>1, InvHolds, PTL

\* The audit log tells only of what happened, although row, message, object and
\* entry are written without a transaction (CreateJob and DeleteJob).
THEOREM AuditIsTrue == Spec => []AuditedHappened
<1>1. IInv => AuditedHappened
  BY Zenon DEF IInv, Rows, Objects, Own, Object, AuditedHappened
<1>. QED
  BY <1>1, InvHolds, PTL

\* A job is created anew only after a DELETE, however often its message is
\* delivered and by however many operators (SubmissionHandler).
THEOREM RevivedAfterDelete == Spec => []RevivedOnlyIfDeleted
<1>1. IInv => RevivedOnlyIfDeleted
  BY Zenon DEF IInv, Objects, Object, RevivedOnlyIfDeleted
<1>. QED
  BY <1>1, InvHolds, PTL

\* No message is acknowledged before its job was created, for any batch size and
\* any number of consumers working at once (ConsumeFairShare).
THEOREM AckAfterCreate == Spec => []AckedMeansCreated
<1>1. IInv => AckedMeansCreated
  BY Zenon DEF IInv, Objects, Object, AckedMeansCreated
<1>. QED
  BY <1>1, InvHolds, PTL

HIDE PipelineAssumption

-----------------------------------------------------------------------------
(* Where the deliveries are.  A message is delivered at most MaxDeliver    *)
(* times, each delivery is in one batch, and interleaveByKey permutes the  *)
(* batch; so the last delivery, which may dead-letter the job, is handled  *)
(* once.                                                                   *)

\* What is known of a message: until its request has published it there is none;
\* it is ready for another delivery only if it has one left; a job and a dead
\* letter come from a message, and a dead letter is its last.
Counts(r) ==
  /\ dc[r] \in 0 .. MaxDeliver /\ dlq[r] \in Nat
  /\ req[r] \in {"new", "publish"} => stream[r] = "none"
  /\ stream[r] = "none" => dc[r] = 0
  /\ stream[r] = "ready" => dc[r] < MaxDeliver
  /\ cr[r] # "none" => stream[r] # "none"
  /\ dlq[r] > 0 => dlq[r] = 1 /\ dc[r] = MaxDeliver

\* What an operator has in its batch was delivered, and if it is the last delivery
\* of a dead letter the operator is just done with it.
Delivered(o, i) ==
  LET d == batch[o][i]
  IN /\ stream[d.id] # "none" /\ d.nd <= dc[d.id]
     /\ d.nd = MaxDeliver /\ dlq[d.id] > 0 => i = 1 /\ act[o] \in {"term", "nak"}

Loop(o) ==
  /\ batch[o] \in Seq(Delivery)
  /\ act[o] # "fetch" => batch[o] # <<>>
  /\ act[o] = "dlq" => head(o).nd = MaxDeliver

\* Every delivery is made once, to one operator.
DeliveredOnce ==
  \A o, p \in Operators : \A i \in 1 .. Len(batch[o]), j \in 1 .. Len(batch[p]) :
    batch[o][i] = batch[p][j] => o = p /\ i = j

Deliveries ==
  /\ DOMAIN dc = Requests /\ DOMAIN dlq = Requests
  /\ \A r \in Requests : Counts(r)
  /\ \A o \in Operators : Loop(o) /\ \A i \in 1 .. Len(batch[o]) : Delivered(o, i)
  /\ DeliveredOnce

\* A message is delivered at least once.
LEMMA MaxDeliverType == MaxDeliver \in Nat /\ MaxDeliver > 0
  BY PipelineAssumption

\* What Append and Tail do to a batch.
LEMMA BatchGrows ==
  ASSUME NEW S, NEW s \in Seq(S), NEW e \in S
  PROVE  /\ Append(s, e) \in Seq(S) /\ Len(Append(s, e)) = Len(s) + 1 /\ Append(s, e) # <<>>
         /\ \A i \in 1 .. Len(s) : Append(s, e)[i] = s[i]
         /\ Append(s, e)[Len(s) + 1] = e
  OBVIOUS

LEMMA BatchShrinks ==
  ASSUME NEW S, NEW s \in Seq(S), s # <<>>
  PROVE  /\ Tail(s) \in Seq(S) /\ Len(Tail(s)) = Len(s) - 1
         /\ \A i \in 1 .. Len(Tail(s)) : Tail(s)[i] = s[i + 1]
  OBVIOUS

\* What is in a batch is a delivery of a request's message.
LEMMA InBatch ==
  ASSUME Deliveries, NEW o \in Operators, NEW i \in 1 .. Len(batch[o])
  PROVE  /\ batch[o] \in Seq(Delivery) /\ Len(batch[o]) \in Nat /\ batch[o][i] \in Delivery
         /\ batch[o][i].id \in Requests /\ batch[o][i].nd \in 1 .. MaxDeliver
         /\ Delivered(o, i)
<1>1. batch[o] \in Seq(Delivery) /\ Delivered(o, i)
  BY DEF Deliveries, Loop
<1>2. batch[o][i] \in Delivery /\ Len(batch[o]) \in Nat
  BY <1>1
<1>. QED
  BY <1>1, <1>2 DEF Delivery

\* A step that leaves the batches and the counters alone.
LEMMA DeliveriesFrame ==
  ASSUME Deliveries, UNCHANGED <<dc, dlq, act, batch>>,
         \A r \in Requests : stream'[r] = "none" => stream[r] = "none",
         \A r \in Requests : req'[r] \in {"new", "publish"} => stream'[r] = "none",
         \A r \in Requests : stream'[r] = "ready" => dc[r] < MaxDeliver,
         \A r \in Requests : cr'[r] # "none" => cr[r] # "none"
  PROVE  Deliveries'
<1>1. ASSUME NEW r \in Requests PROVE Counts(r)'
  BY Zenon DEF Deliveries, Counts
<1>2. ASSUME NEW o \in Operators PROVE Loop(o)'
  BY Zenon DEF Deliveries, Loop, head
<1>3. ASSUME NEW o \in Operators, NEW i \in 1 .. Len(batch'[o]) PROVE Delivered(o, i)'
  <2>1. Delivered(o, i) /\ batch[o][i].id \in Requests
    BY InBatch
  <2>. QED
    BY <2>1 DEF Delivered
<1>4. DeliveredOnce'
  BY DEF Deliveries, DeliveredOnce
<1>. QED
  BY <1>1, <1>2, <1>3, <1>4 DEF Deliveries

\* The steps of the API server and of JetStream leave them alone.
LEMMA OthersDeliveries ==
  ASSUME IInv, Deliveries, NEW r \in Requests,
         \/ insertJob(r) \/ publish(r) \/ auditCreate(r)
         \/ deleteJob(r) \/ updateStatus(r) \/ auditCancel(r) \/ finalize(r)
         \/ AckWaitExpires(r) \/ MaxAge(r)
  PROVE  Deliveries'
<1>. Typed
  BY ZenonT(30) DEF IInv
<1>. USE MaxDeliverType
<1>0. ASSUME NEW s \in Requests
      PROVE  /\ req[s] \in {"new", "publish"} => stream[s] = "none"
             /\ stream[s] = "none" => dc[s] = 0
             /\ stream[s] = "ready" => dc[s] < MaxDeliver
  BY DEF Deliveries, Counts
<1>1. CASE insertJob(r)
  <2>1. UNCHANGED <<dc, dlq, act, batch, stream, cr>> /\ req[r] = "new"
    BY <1>1, Zenon DEF insertJob, nats, kube, consumer
  <2>2. \A s \in Requests : req'[s] \in {"new", "publish"} => req[s] \in {"new", "publish"}
    BY <1>1, <2>1 DEF insertJob, Answer, Typed
  <2>. QED
    BY <1>0, <2>1, <2>2, DeliveriesFrame, Zenon
<1>2. CASE publish(r)
  <2>1. UNCHANGED <<dc, dlq, act, batch, cr>> /\ req[r] = "publish"
    BY <1>2 DEF publish, kube, consumer
  <2>2. \A s \in Requests : s # r => stream'[s] = stream[s] /\ req'[s] = req[s]
    BY <1>2 DEF publish, Answer, Typed
  <2>3. req'[r] \notin {"new", "publish"} /\ (stream'[r] = stream[r] \/ stream'[r] = "ready")
    BY <1>2, Zenon DEF publish, Answer, Typed
  <2>4. stream[r] = "none" /\ dc[r] = 0
    BY <1>0, <2>1, Zenon
  <2>. QED
    BY <1>0, <2>1, <2>2, <2>3, <2>4, DeliveriesFrame, Zenon
<1>3. CASE auditCreate(r)
  <2>1. UNCHANGED <<dc, dlq, act, batch, stream, cr>>
    BY <1>3 DEF auditCreate, nats, kube, consumer
  <2>2. \A s \in Requests : req'[s] \in {"new", "publish"} => req[s] \in {"new", "publish"}
    BY <1>3 DEF auditCreate, Answer, Typed
  <2>. QED
    BY <1>0, <2>1, <2>2, DeliveriesFrame, Zenon
<1>4. CASE deleteJob(r) \/ finalize(r)
  <2>1. UNCHANGED <<dc, dlq, act, batch, stream, req>>
    BY <1>4 DEF deleteJob, finalize, nats, http, consumer
  <2>2. \A s \in Requests : cr'[s] # "none" => cr[s] # "none"
    BY <1>4 DEF deleteJob, finalize, Typed
  <2>. QED
    BY <1>0, <2>1, <2>2, DeliveriesFrame, Zenon
<1>5. CASE updateStatus(r) \/ auditCancel(r)
  <2>1. UNCHANGED <<dc, dlq, act, batch, stream, req, cr>>
    BY <1>5 DEF updateStatus, auditCancel, nats, kube, consumer
  <2>. QED
    BY <1>0, <2>1, DeliveriesFrame, Zenon
<1>6. CASE AckWaitExpires(r) \/ MaxAge(r)
  <2>1. UNCHANGED <<dc, dlq, act, batch, req, cr>>
    BY <1>6 DEF AckWaitExpires, MaxAge, http, kube, consumer
  <2>2. /\ \A s \in Requests : s # r => stream'[s] = stream[s]
        /\ stream[r] # "none" /\ stream'[r] # "none"
        /\ stream'[r] = "ready" => dc[r] < MaxDeliver
    <3>1. stream \in [Requests -> {"none", "ready", "inflight", "acked", "termed", "dropped",
                                  "expired"}]
      BY Zenon DEF Typed
    <3>2. CASE AckWaitExpires(r)
      BY <3>1, <3>2, Zenon DEF AckWaitExpires, unacked
    <3>3. CASE MaxAge(r)
      BY <3>1, <3>3, ZenonT(30) DEF MaxAge, unacked
    <3>. QED
      BY <1>6, <3>2, <3>3, Zenon
  <2>. QED
    BY <1>0, <2>1, <2>2, DeliveriesFrame, Zenon
<1>. QED
  BY <1>1, <1>2, <1>3, <1>4, <1>5, <1>6

\* So do the ends of the API server's process and a lease that moves.
LEMMA ProcessDeliveries ==
  ASSUME IInv, Deliveries,
         ApiCrash \/ Sigterm \/ closeStore \/ exit \/ LeaseMoves \/ UNCHANGED vars
  PROVE  Deliveries'
<1>0. ASSUME NEW s \in Requests
      PROVE  /\ req[s] \in {"new", "publish"} => stream[s] = "none"
             /\ stream[s] = "ready" => dc[s] < MaxDeliver
  BY Zenon DEF Deliveries, Counts
<1>1. UNCHANGED <<dc, dlq, act, batch, stream, cr>> /\ (AbortRequests \/ UNCHANGED req)
  BY DEF ApiCrash, Sigterm, closeStore, exit, LeaseMoves, vars, nats, kube, consumer, http
<1>2. \A s \in Requests : req'[s] \in {"new", "publish"} => req[s] \in {"new", "publish"}
  BY <1>1 DEF AbortRequests
<1>. QED
  BY <1>0, <1>1, <1>2, DeliveriesFrame

\* What operator o keeps of its batch, wherever it puts it, is delivered once.
LEMMA StillOnce ==
  ASSUME Deliveries, NEW o \in Operators, NEW f,
         \A p \in Operators : p # o => batch'[p] = batch[p],
         \A i \in 1 .. Len(batch'[o]) :
           f[i] \in 1 .. Len(batch[o]) /\ batch'[o][i] = batch[o][f[i]],
         \A i, j \in 1 .. Len(batch'[o]) : f[i] = f[j] => i = j
  PROVE  DeliveredOnce'
<1>. SUFFICES ASSUME NEW p \in Operators, NEW q \in Operators,
                     NEW i \in 1 .. Len(batch'[p]), NEW j \in 1 .. Len(batch'[q]),
                     batch'[p][i] = batch'[q][j]
              PROVE  p = q /\ i = j
  BY DEF DeliveredOnce
<1>0. DeliveredOnce
  BY DEF Deliveries
<1>1. CASE p = o /\ q = o
  <2>1. /\ f[i] \in 1 .. Len(batch[o]) /\ f[j] \in 1 .. Len(batch[o])
        /\ batch[o][f[i]] = batch[o][f[j]]
    BY <1>1
  <2>2. f[i] = f[j]
    BY <1>0, <2>1 DEF DeliveredOnce
  <2>. QED
    BY <1>1, <2>2
<1>2. CASE p = o /\ q # o
  <2>1. /\ f[i] \in 1 .. Len(batch[o]) /\ j \in 1 .. Len(batch[q])
        /\ batch[o][f[i]] = batch[q][j]
    BY <1>2
  <2>. QED
    BY <1>0, <1>2, <2>1 DEF DeliveredOnce
<1>3. CASE p # o /\ q = o
  <2>1. /\ f[j] \in 1 .. Len(batch[o]) /\ i \in 1 .. Len(batch[p])
        /\ batch[p][i] = batch[o][f[j]]
    BY <1>3
  <2>. QED
    BY <1>0, <1>3, <2>1 DEF DeliveredOnce
<1>4. CASE p # o /\ q # o
  BY <1>0, <1>4 DEF DeliveredOnce
<1>. QED
  BY <1>1, <1>2, <1>3, <1>4

\* A delivery to an open Fetch is a new one.
LEMMA DeliverDeliveries ==
  ASSUME IInv, Deliveries, NEW o \in Operators, NEW id \in Requests, deliver(o, id)
  PROVE  Deliveries'
<1>. DEFINE b == batch[o]
            d == [id |-> id, nd |-> dc[id] + 1]
<1>. USE MaxDeliverType
<1>0. /\ Typed /\ act[o] = "fetch" /\ stream[id] = "ready" /\ b \in Seq(Delivery)
      /\ DOMAIN dc = Requests /\ dc[id] \in Nat /\ dc[id] < MaxDeliver /\ Len(b) \in Nat
  BY SMTT(30) DEF IInv, Deliveries, Loop, Counts, deliver
<1>1. d \in Delivery /\ d.id = id /\ d.nd = dc[id] + 1
  BY <1>0 DEF Delivery
<1>2. /\ UNCHANGED <<req, cr, dlq, act>> /\ stream' = [stream EXCEPT ![id] = "inflight"]
      /\ dc' = [dc EXCEPT ![id] = dc[id] + 1] /\ batch' = [batch EXCEPT ![o] = Append(b, d)]
  BY DEF deliver, http, kube
<1>. HIDE DEF d
<1>3. /\ \A p \in Operators : p # o => batch'[p] = batch[p]
      /\ batch'[o] = Append(b, d) /\ DOMAIN dc' = Requests
      /\ dc'[id] = dc[id] + 1 /\ \A r \in Requests : r # id => dc'[r] = dc[r]
      /\ stream'[id] = "inflight" /\ \A r \in Requests : r # id => stream'[r] = stream[r]
  BY <1>0, <1>2 DEF Typed
<1>4. /\ batch'[o] \in Seq(Delivery) /\ Len(batch'[o]) = Len(b) + 1 /\ batch'[o] # <<>>
      /\ \A i \in 1 .. Len(b) : batch'[o][i] = b[i]
      /\ batch'[o][Len(b) + 1] = d
      /\ \A i \in 1 .. Len(batch'[o]) : i \in 1 .. Len(b) \/ i = Len(b) + 1
  <2>1. /\ Append(b, d) \in Seq(Delivery) /\ Len(Append(b, d)) = Len(b) + 1
        /\ \A i \in 1 .. Len(b) : Append(b, d)[i] = b[i]
        /\ Append(b, d)[Len(b) + 1] = d /\ Append(b, d) # <<>>
    <3>. HIDE DEF b
    <3>1. b \in Seq(Delivery) /\ d \in Delivery
      BY <1>0, <1>1
    <3>. QED
      BY <3>1, BatchGrows
  <2>. QED
    BY <1>0, <1>3, <2>1
<1>5. ASSUME NEW p \in Operators, NEW i \in 1 .. Len(batch[p])
      PROVE  batch[p][i] # d
  <2>1. batch[p][i].id = id => batch[p][i].nd <= dc[id] /\ batch[p][i].nd \in Nat
    BY InBatch DEF Delivered
  <2>. QED
    BY <1>0, <1>1, <2>1, SMTT(30)
<1>6. ASSUME NEW r \in Requests PROVE Counts(r)'
  <2>1. Counts(r)
    BY ZenonT(30) DEF Deliveries
  <2>2. CASE r = id
    <3>1. dlq[id] = 0
      BY <1>0, <2>1, <2>2 DEF Counts
    <3>. QED
      BY <1>0, <1>2, <1>3, <2>1, <2>2, <3>1 DEF Counts
  <2>. QED
    BY <1>2, <1>3, <2>1, <2>2, Zenon DEF Counts
<1>7. ASSUME NEW p \in Operators PROVE Loop(p)'
  <2>1. Loop(p)
    BY DEF Deliveries
  <2>2. CASE p = o
    BY <1>0, <1>2, <1>4, <2>2, Zenon DEF Loop
  <2>3. CASE p # o
    BY <1>2, <1>3, <2>1, <2>3, ZenonT(30) DEF Loop, head
  <2>. QED
    BY <2>2, <2>3
<1>8. ASSUME NEW p \in Operators, NEW i \in 1 .. Len(batch[p])
      PROVE  /\ stream'[batch[p][i].id] # "none" /\ batch[p][i].nd <= dc'[batch[p][i].id]
             /\ batch[p][i].nd = MaxDeliver /\ dlq'[batch[p][i].id] > 0 =>
                  i = 1 /\ act'[p] \in {"term", "nak"}
  <2>1. /\ batch[p][i].id \in Requests /\ batch[p][i].nd \in Nat /\ Delivered(p, i)
    BY InBatch
  <2>. QED
    BY <1>0, <1>2, <1>3, <2>1 DEF Delivered
<1>9. ASSUME NEW p \in Operators, NEW i \in 1 .. Len(batch'[p]) PROVE Delivered(p, i)'
  <2>0. ASSUME i \in 1 .. Len(batch[p]), batch'[p][i] = batch[p][i] PROVE Delivered(p, i)'
    <3>1. /\ stream'[batch[p][i].id] # "none" /\ batch[p][i].nd <= dc'[batch[p][i].id]
          /\ batch[p][i].nd = MaxDeliver /\ dlq'[batch[p][i].id] > 0 =>
               i = 1 /\ act'[p] \in {"term", "nak"}
      BY <1>8, <2>0, Zenon
    <3>. QED
      BY <2>0, <3>1, Zenon DEF Delivered
  <2>1. CASE p # o
    BY <1>3, <2>0, <2>1, Zenon
  <2>2. CASE p = o /\ i \in 1 .. Len(b)
    BY <1>4, <2>0, <2>2, ZenonT(30)
  <2>3. CASE p = o /\ i = Len(b) + 1
    <3>1. dlq'[id] = 0
      BY <1>0, <1>2 DEF Deliveries, Counts
    <3>. QED
      BY <1>0, <1>1, <1>3, <1>4, <2>3, <3>1 DEF Delivered
  <2>. QED
    BY <1>4, <2>1, <2>2, <2>3, Zenon
<1>10. DeliveredOnce'
  <2>. SUFFICES ASSUME NEW p \in Operators, NEW q \in Operators,
                       NEW i \in 1 .. Len(batch'[p]), NEW j \in 1 .. Len(batch'[q]),
                       batch'[p][i] = batch'[q][j]
                PROVE  p = q /\ i = j
    BY DEF DeliveredOnce
  <2>0. DeliveredOnce
    BY Zenon DEF Deliveries
  <2>1. ASSUME NEW x \in Operators, NEW k \in 1 .. Len(batch'[x])
        PROVE  \/ k \in 1 .. Len(batch[x]) /\ batch'[x][k] = batch[x][k] /\ batch'[x][k] # d
               \/ x = o /\ k = Len(b) + 1 /\ batch'[x][k] = d
    <3>1. CASE x # o
      BY <1>3, <1>5, <3>1, Zenon
    <3>2. CASE x = o
      BY <1>4, <1>5, <3>2, Zenon
    <3>. QED
      BY <3>1, <3>2, Zenon
  <2>. QED
    BY <2>0, <2>1 DEF DeliveredOnce
<1>. QED
  BY <1>2, <1>3, <1>6, <1>7, <1>9, <1>10, Zenon DEF Deliveries

\* The batch is put in another order, none of it being the last delivery of a dead
\* letter yet.
LEMMA FetchedDeliveries ==
  ASSUME IInv, Deliveries, NEW o \in Operators, fetched(o)
  PROVE  Deliveries'
<1>. DEFINE b == batch[o]
            key == [d \in Range(b) |-> TeamOf[d.id]]
            n == Len(b)
<1>0. /\ Typed /\ act[o] = "fetch" /\ b # <<>> /\ b \in Seq(Delivery) /\ n \in Nat
      /\ DOMAIN b = 1 .. n
  <2>1. Typed /\ act[o] = "fetch" /\ b # <<>>
    BY Zenon DEF IInv, fetched
  <2>2. b \in Seq(Delivery)
    BY Zenon DEF Deliveries, Loop
  <2>. QED
    BY <2>1, <2>2
<1>1. /\ UNCHANGED <<req, cr, dlq, dc, stream>> /\ act' = [act EXCEPT ![o] = "handle"]
      /\ batch' = [batch EXCEPT ![o] = interleaveByKey(b, key)]
  BY DEF fetched, http, kube, nats
<1>2. /\ \A p \in Operators : p # o => batch'[p] = batch[p] /\ act'[p] = act[p]
      /\ batch'[o] = interleaveByKey(b, key) /\ act'[o] = "handle"
  <2>. HIDE DEF b, key
  <2>. QED
    BY <1>0, <1>1 DEF Typed
<1>3. PICK q : FairOrder(b, key, n, q) /\ interleaveByKey(b, key) = [k \in 1 .. n |-> b[q[k]]]
  <2>. HIDE DEF b, key, n
  <2>. QED
    BY <1>0, InterleavingIsFair
<1>. HIDE DEF key
<1>4. /\ batch'[o] = [k \in 1 .. n |-> b[q[k]]]
      /\ \A k \in 1 .. n : q[k] \in 1 .. n /\ b[q[k]] \in Delivery
      /\ \A k, l \in 1 .. n : q[k] = q[l] => k = l
  <2>1. /\ q \in [1 .. n -> 1 .. n]
        /\ \A k, l \in 1 .. n : q[k] = q[l] => k = l
    BY <1>3, Zenon DEF FairOrder, Permutes
  <2>2. \A k \in 1 .. n : q[k] \in 1 .. n
    BY <2>1, Zenon
  <2>3. \A k \in 1 .. n : b[k] \in Delivery
    BY <1>0
  <2>4. batch'[o] = [k \in 1 .. n |-> b[q[k]]]
    BY <1>2, <1>3, Zenon
  <2>. QED
    BY <2>1, <2>2, <2>3, <2>4, Zenon
<1>5. /\ batch'[o] \in Seq(Delivery) /\ Len(batch'[o]) = n /\ batch'[o] # <<>>
      /\ \A k \in 1 .. n : q[k] \in 1 .. n /\ batch'[o][k] = b[q[k]]
  <2>1. n > 0
    BY <1>0
  <2>2. [k \in 1 .. n |-> b[q[k]]] \in Seq(Delivery)
    BY <1>0, <1>4
  <2>3. Len([k \in 1 .. n |-> b[q[k]]]) = n
    BY <1>0, <2>2
  <2>4. batch'[o] \in Seq(Delivery) /\ Len(batch'[o]) = n
    BY <1>4, <2>2, <2>3
  <2>5. batch'[o] # <<>>
    BY <2>1, <2>4
  <2>. QED
    BY <1>4, <2>4, <2>5
<1>6. DeliveredOnce'
  <2>1. \A p \in Operators : p # o => batch'[p] = batch[p]
    BY <1>2
  <2>2. /\ \A i \in 1 .. Len(batch'[o]) :
             q[i] \in 1 .. Len(batch[o]) /\ batch'[o][i] = batch[o][q[i]]
        /\ \A i, j \in 1 .. Len(batch'[o]) : q[i] = q[j] => i = j
    BY <1>4, <1>5
  <2>. QED
    BY <2>1, <2>2, StillOnce, ZenonT(30)
<1>7. ASSUME NEW p \in Operators PROVE Loop(p)'
  <2>1. Loop(p)
    BY Zenon DEF Deliveries
  <2>2. CASE p = o
    BY <1>2, <1>5, <2>2, Zenon DEF Loop
  <2>3. CASE p # o
    BY <1>2, <2>1, <2>3 DEF Loop, head
  <2>. QED
    BY <2>2, <2>3
<1>8. ASSUME NEW p \in Operators, NEW i \in 1 .. Len(batch'[p]) PROVE Delivered(p, i)'
  <2>1. CASE p # o
    <3>1. Delivered(p, i)
      BY <1>2, <2>1, InBatch, ZenonT(30)
    <3>. QED
      BY <1>1, <1>2, <2>1, <3>1 DEF Delivered
  <2>2. CASE p = o
    <3>1. q[i] \in 1 .. Len(batch[o]) /\ batch'[o][i] = batch[o][q[i]]
      BY <1>5, <2>2, Zenon
    <3>2. Delivered(o, q[i])
      BY <3>1, InBatch, Zenon
    <3>. QED
      BY <1>0, <1>1, <2>2, <3>1, <3>2 DEF Delivered
  <2>. QED
    BY <2>1, <2>2, ZenonT(30)
<1>9. ASSUME NEW r \in Requests PROVE Counts(r)'
  BY <1>1, ZenonT(30) DEF Deliveries, Counts
<1>. QED
  BY <1>1, <1>6, <1>7, <1>8, <1>9, Zenon DEF Deliveries

\* What an operator has in hand was published, and only what it will not
\* dead-letter any more is dead-lettered.
LEMMA InHand ==
  ASSUME IInv, Deliveries, NEW o \in Operators, act[o] # "fetch"
  PROVE  /\ batch[o] \in Seq(Delivery) /\ batch[o] # <<>> /\ Len(batch[o]) \in Nat
         /\ 1 \in 1 .. Len(batch[o]) /\ head(o) = batch[o][1] /\ Delivered(o, 1)
         /\ head(o).id \in Requests /\ head(o).nd \in 1 .. MaxDeliver
         /\ stream[head(o).id] # "none" /\ head(o).nd <= dc[head(o).id]
<1>1. batch[o] \in Seq(Delivery) /\ batch[o] # <<>>
  BY DEF Deliveries, Loop
<1>2. 1 \in 1 .. Len(batch[o]) /\ Len(batch[o]) \in Nat
  BY <1>1
<1>. QED
  BY <1>1, <1>2, InBatch DEF head, Delivered

\* The handler creates the job of a message, and a delivery that is not the last
\* one is not dead-lettered.
LEMMA HandleDeliveries ==
  ASSUME IInv, Deliveries, NEW o \in Operators, handle(o)
  PROVE  Deliveries'
<1>. USE MaxDeliverType
<1>. DEFINE id == head(o).id
<1>0. /\ Typed /\ act[o] = "handle" /\ UNCHANGED <<req, stream, dc, dlq, batch>>
      /\ \A p \in Operators : p # o => act'[p] = act[p]
      /\ act'[o] \in {"ack", "dlq", "nak"} /\ (act'[o] = "dlq" => deliveriesExhausted(head(o)))
      /\ \A r \in Requests : r # id => cr'[r] = cr[r]
  BY SMTT(30) DEF IInv, handle, Typed, http, nats, kube
<1>1. /\ batch[o] # <<>> /\ 1 \in 1 .. Len(batch[o]) /\ head(o) = batch[o][1]
      /\ id \in Requests /\ head(o).nd \in 1 .. MaxDeliver /\ stream[id] # "none"
  BY <1>0, InHand
<1>2. ASSUME NEW r \in Requests PROVE Counts(r)'
  BY <1>0, <1>1, Zenon DEF Deliveries, Counts
<1>3. ASSUME NEW p \in Operators PROVE Loop(p)'
  <2>1. Loop(p)
    BY Zenon DEF Deliveries
  <2>2. CASE p = o
    <3>1. act'[o] = "dlq" => head(o).nd = MaxDeliver
      BY <1>0, <1>1 DEF deliveriesExhausted
    <3>. QED
      BY <1>0, <1>1, <2>1, <2>2, <3>1, Zenon DEF Loop, head
  <2>3. CASE p # o
    BY <1>0, <2>1, <2>3 DEF Loop, head
  <2>. QED
    BY <2>2, <2>3
<1>4. ASSUME NEW p \in Operators, NEW i \in 1 .. Len(batch'[p]) PROVE Delivered(p, i)'
  <2>1. Delivered(p, i)
    BY <1>0, InBatch, Zenon
  <2>2. CASE p = o
    BY <1>0, <2>1, <2>2, Zenon DEF Delivered
  <2>3. CASE p # o
    BY <1>0, <2>1, <2>3, Zenon DEF Delivered
  <2>. QED
    BY <2>2, <2>3, Zenon
<1>5. DeliveredOnce'
  <2>1. batch' = batch
    BY <1>0
  <2>. QED
    BY <2>1 DEF Deliveries, DeliveredOnce
<1>. QED
  BY <1>0, <1>2, <1>3, <1>4, <1>5, Zenon DEF Deliveries

\* PublishDLQ: the last delivery is in hand, for the first time.
LEMMA PublishDlqDeliveries ==
  ASSUME IInv, Deliveries, NEW o \in Operators, publishDLQ(o)
  PROVE  Deliveries'
<1>. USE MaxDeliverType
<1>. DEFINE id == head(o).id
<1>0. /\ Typed /\ act[o] = "dlq" /\ UNCHANGED <<req, stream, dc, cr, batch>>
      /\ \A p \in Operators : p # o => act'[p] = act[p]
      /\ act'[o] \in {"term", "nak"}
      /\ dlq' = dlq \/ dlq' = [dlq EXCEPT ![id] = dlq[id] + 1]
  BY DEF IInv, publishDLQ, Typed, http, kube
<1>1. /\ batch[o] # <<>> /\ 1 \in 1 .. Len(batch[o]) /\ head(o) = batch[o][1]
      /\ id \in Requests /\ head(o).nd = MaxDeliver /\ stream[id] # "none"
      /\ head(o).nd <= dc[id] /\ Delivered(o, 1)
  <2>1. Loop(o)
    BY Zenon DEF Deliveries
  <2>. QED
    BY <1>0, <2>1, InHand, Zenon DEF Loop
<1>2. dlq[id] = 0 /\ dc[id] = MaxDeliver
  <2>1. Counts(id)
    BY <1>1, Zenon DEF Deliveries
  <2>2. ~(dlq[id] > 0)
    BY <1>0, <1>1, Zenon DEF Delivered
  <2>3. dc[id] \in 0 .. MaxDeliver /\ dlq[id] \in Nat
    BY <2>1, Zenon DEF Counts
  <2>4. MaxDeliver <= dc[id]
    BY <1>1, Zenon
  <2>. QED
    BY <2>2, <2>3, <2>4
<1>3. /\ DOMAIN dlq' = Requests /\ (dlq'[id] = 0 \/ dlq'[id] = 1)
      /\ \A r \in Requests : r # id => dlq'[r] = dlq[r]
  <2>1. DOMAIN dlq = Requests
    BY Zenon DEF Deliveries
  <2>2. id \in Requests
    BY <1>1, Zenon
  <2>3. CASE dlq' = dlq
    BY <1>2, <2>1, <2>3, Zenon
  <2>4. CASE dlq' = [dlq EXCEPT ![id] = dlq[id] + 1]
    <3>1. DOMAIN dlq' = Requests /\ dlq'[id] = dlq[id] + 1
      BY <2>1, <2>2, <2>4, Zenon
    <3>2. \A r \in Requests : r # id => dlq'[r] = dlq[r]
      BY <2>1, <2>4, Zenon
    <3>3. dlq[id] + 1 = 1
      BY <1>2
    <3>. QED
      BY <3>1, <3>2, <3>3, Zenon
  <2>. QED
    BY <1>0, <2>3, <2>4, Zenon
<1>4. ASSUME NEW r \in Requests PROVE Counts(r)'
  <2>1. Counts(r)
    BY Zenon DEF Deliveries
  <2>0. dc' = dc /\ stream' = stream /\ cr' = cr /\ req' = req
    BY <1>0, Zenon
  <2>2. CASE r = id
    <3>1. (dlq'[r] = 0 \/ dlq'[r] = 1) /\ dc[r] = MaxDeliver
      BY <1>2, <1>3, <2>2, Zenon
    <3>. QED
      BY <2>0, <2>1, <3>1 DEF Counts
  <2>3. CASE r # id
    <3>1. dlq'[r] = dlq[r]
      BY <1>3, <2>3, Zenon
    <3>. QED
      BY <2>0, <2>1, <3>1, Zenon DEF Counts
  <2>. QED
    BY <2>2, <2>3
<1>5. ASSUME NEW p \in Operators PROVE Loop(p)'
  <2>1. Loop(p)
    BY Zenon DEF Deliveries
  <2>2. CASE p = o
    BY <1>0, <1>1, <2>1, <2>2, Zenon DEF Loop
  <2>3. CASE p # o
    BY <1>0, <2>1, <2>3 DEF Loop, head
  <2>. QED
    BY <2>2, <2>3
<1>6. ASSUME NEW p \in Operators, NEW i \in 1 .. Len(batch'[p]) PROVE Delivered(p, i)'
  <2>0. i \in 1 .. Len(batch[p]) /\ batch' = batch
    BY <1>0
  <2>1. /\ Delivered(p, i) /\ batch[p][i] \in Delivery
        /\ batch[p][i].id \in Requests
    BY <2>0, InBatch
  <2>2. CASE batch[p][i].id = id /\ batch[p][i].nd = MaxDeliver
    <3>1. batch[o][1] \in Delivery
      BY <1>1, InBatch, Zenon
    <3>2. batch[p][i] = batch[o][1]
      BY <1>1, <2>1, <2>2, <3>1 DEF Delivery
    <3>3. p = o /\ i = 1
      BY <1>1, <2>0, <3>2 DEF Deliveries, DeliveredOnce
    <3>. QED
      BY <1>0, <1>1, <2>1, <3>3, Zenon DEF Delivered
  <2>3. CASE ~(batch[p][i].id = id /\ batch[p][i].nd = MaxDeliver)
    <3>1. batch[p][i].nd = MaxDeliver => dlq'[batch[p][i].id] = dlq[batch[p][i].id]
      BY <1>3, <2>1, <2>3, Zenon
    <3>2. p = o => ~(batch[p][i].nd = MaxDeliver /\ dlq[batch[p][i].id] > 0)
      BY <1>0, <2>1, Zenon DEF Delivered
    <3>. QED
      BY <1>0, <2>0, <2>1, <3>1, <3>2, Zenon DEF Delivered
  <2>. QED
    BY <2>2, <2>3
<1>7. DeliveredOnce'
  BY <1>0 DEF Deliveries, DeliveredOnce
<1>. QED
  BY <1>0, <1>3, <1>4, <1>5, <1>6, <1>7, Zenon DEF Deliveries

\* After Ack, Term or Nak, received or lost, the operator lets go of the delivery.
LEMMA SettleDeliveries ==
  ASSUME IInv, Deliveries, NEW o \in Operators, settle(o)
  PROVE  Deliveries'
<1>. USE MaxDeliverType
<1>. DEFINE id == head(o).id
            b == batch[o]
            new == CASE act[o] = "ack" -> "acked"
                     [] act[o] = "term" -> "termed"
                     [] OTHER -> unacked(id)
            f == [i \in 1 .. Len(batch'[o]) |-> i + 1]
<1>0. /\ Typed /\ act[o] \in {"ack", "term", "nak"} /\ UNCHANGED <<req, dc, dlq, cr>>
      /\ Continue(o)
      /\ \/ stream' = stream
         \/ stream[id] \in {"inflight", "ready"} /\ stream' = [stream EXCEPT ![id] = new]
  BY DEF IInv, settle, http, kube
<1>1. /\ b \in Seq(Delivery) /\ b # <<>> /\ Len(b) \in Nat /\ id \in Requests
  BY <1>0, InHand
<1>2. /\ \A p \in Operators : p # o => batch'[p] = batch[p] /\ act'[p] = act[p]
      /\ batch'[o] = Tail(b) /\ act'[o] = IF Len(b) = 1 THEN "fetch" ELSE "handle"
  BY <1>0, Zenon DEF Continue, Typed
<1>3. /\ batch'[o] \in Seq(Delivery) /\ Len(batch'[o]) = Len(b) - 1
      /\ \A i \in 1 .. Len(batch'[o]) : batch'[o][i] = b[i + 1]
  <2>1. /\ Tail(b) \in Seq(Delivery) /\ Len(Tail(b)) = Len(b) - 1
        /\ \A i \in 1 .. Len(Tail(b)) : Tail(b)[i] = b[i + 1]
    <3>. HIDE DEF b
    <3>. QED
      BY <1>1, BatchShrinks, Zenon
  <2>. QED
    BY <1>2, <2>1
<1>4. \A i \in 1 .. Len(batch'[o]) : i + 1 \in 1 .. Len(b) /\ i + 1 # 1 /\ f[i] = i + 1
  BY <1>1, <1>3
<1>5. /\ \A r \in Requests : stream'[r] = "none" <=> stream[r] = "none"
      /\ \A r \in Requests : stream'[r] = "ready" => stream[r] = "ready" \/ dc[r] < MaxDeliver
  <2>1. /\ new \in {"acked", "termed", "ready", "dropped"}
        /\ new = "ready" => dc[id] < MaxDeliver
    BY Zenon DEF unacked
  <2>. HIDE DEF new, id
  <2>. QED
    BY <1>0, <1>1, <2>1 DEF Typed
<1>. HIDE DEF f
<1>6. DeliveredOnce'
  <2>1. \A p \in Operators : p # o => batch'[p] = batch[p]
    BY <1>2, Zenon
  <2>2. \A i \in 1 .. Len(batch'[o]) :
          f[i] \in 1 .. Len(batch[o]) /\ batch'[o][i] = batch[o][f[i]]
    BY <1>3, <1>4
  <2>3. \A i, j \in 1 .. Len(batch'[o]) : f[i] = f[j] => i = j
    BY <1>1, <1>3, <1>4
  <2>. QED
    BY <2>1, <2>2, <2>3, StillOnce
<1>7. ASSUME NEW r \in Requests PROVE Counts(r)'
  BY <1>0, <1>5 DEF Deliveries, Counts
<1>8. ASSUME NEW p \in Operators PROVE Loop(p)'
  <2>1. Loop(p)
    BY DEF Deliveries
  <2>2. CASE p = o
    <3>1. act'[o] # "fetch" => Len(batch'[o]) # 0
      BY <1>1, <1>2, <1>3
    <3>2. act'[o] # "fetch" => batch'[o] # <<>>
      BY <3>1
    <3>. QED
      BY <1>2, <1>3, <2>2, <3>2, Zenon DEF Loop
  <2>3. CASE p # o
    BY <1>2, <2>1, <2>3 DEF Loop, head
  <2>. QED
    BY <2>2, <2>3
<1>9. ASSUME NEW p \in Operators, NEW i \in 1 .. Len(batch'[p]) PROVE Delivered(p, i)'
  <2>1. CASE p # o
    <3>1. Delivered(p, i) /\ batch[p][i].id \in Requests
      BY <1>2, <2>1, InBatch
    <3>. QED
      BY <1>0, <1>2, <1>5, <2>1, <3>1 DEF Delivered
  <2>2. CASE p = o
    <3>1. i + 1 \in 1 .. Len(batch[o]) /\ i + 1 # 1 /\ batch'[o][i] = batch[o][i + 1]
      BY <1>3, <1>4, <2>2
    <3>2. Delivered(o, i + 1) /\ batch[o][i + 1].id \in Requests
      BY <3>1, InBatch, Zenon
    <3>. QED
      BY <1>0, <1>5, <2>2, <3>1, <3>2 DEF Delivered
  <2>. QED
    BY <2>1, <2>2
<1>. QED
  BY <1>0, <1>6, <1>7, <1>8, <1>9 DEF Deliveries

\* An operator that crashes has no batch.
LEMMA CrashDeliveries ==
  ASSUME IInv, Deliveries, NEW o \in Operators, OperatorCrash(o)
  PROVE  Deliveries'
<1>0. /\ Typed /\ UNCHANGED <<req, stream, dc, dlq, cr>>
      /\ \A p \in Operators : p # o => batch'[p] = batch[p] /\ act'[p] = act[p]
      /\ act'[o] = "fetch" /\ batch'[o] = <<>>
  BY DEF IInv, OperatorCrash, http, nats, kube, Typed
<1>1. Len(batch'[o]) = 0 /\ batch'[o] \in Seq(Delivery) /\ \A i \in 1 .. Len(batch'[o]) : FALSE
  BY <1>0
<1>2. ASSUME NEW r \in Requests PROVE Counts(r)'
  BY <1>0, Zenon DEF Deliveries, Counts
<1>3. ASSUME NEW p \in Operators PROVE Loop(p)'
  BY <1>0, <1>1, Zenon DEF Deliveries, Loop, head
<1>4. ASSUME NEW p \in Operators, NEW i \in 1 .. Len(batch'[p]) PROVE Delivered(p, i)'
  <2>1. p # o
    BY <1>1
  <2>2. Delivered(p, i)
    BY <1>0, <2>1, InBatch, Zenon
  <2>. QED
    BY <1>0, <2>1, <2>2, Zenon DEF Delivered
<1>5. DeliveredOnce'
  <2>. SUFFICES ASSUME NEW p \in Operators, NEW q \in Operators,
                       NEW i \in 1 .. Len(batch'[p]), NEW j \in 1 .. Len(batch'[q]),
                       batch'[p][i] = batch'[q][j]
                PROVE  p = q /\ i = j
    BY Zenon DEF DeliveredOnce
  <2>1. p # o /\ q # o
    BY <1>1
  <2>2. batch'[p] = batch[p] /\ batch'[q] = batch[q]
    BY <1>0, <2>1, Zenon
  <2>3. /\ i \in 1 .. Len(batch[p]) /\ j \in 1 .. Len(batch[q])
        /\ batch[p][i] = batch[q][j]
    BY <2>2, Zenon
  <2>4. \A y \in 1 .. Len(batch[p]), z \in 1 .. Len(batch[q]) :
          batch[p][y] = batch[q][z] => p = q /\ y = z
    BY Zenon DEF Deliveries, DeliveredOnce
  <2>. QED
    BY <2>3, <2>4, Zenon
<1>. QED
  BY <1>0, <1>2, <1>3, <1>4, <1>5, Zenon DEF Deliveries

\* The invariant about the deliveries holds throughout.
LEMMA DeliveriesHold == Spec => []Deliveries
<1>1. Init => Deliveries
  <2>. SUFFICES ASSUME Init PROVE Deliveries
    OBVIOUS
  <2>1. \A o \in Operators : /\ batch[o] = <<>> /\ Len(batch[o]) = 0 /\ act[o] = "fetch"
                             /\ batch[o] \in Seq(Delivery)
    BY DEF Init
  <2>2. \A r \in Requests : Counts(r)
    BY MaxDeliverType DEF Init, Counts
  <2>. QED
    BY <2>1, <2>2 DEF Init, Deliveries, Loop, DeliveredOnce
<1>2. IInv /\ Deliveries /\ [Next]_vars => Deliveries'
  <2>. SUFFICES ASSUME IInv, Deliveries, [Next]_vars PROVE Deliveries'
    OBVIOUS
  <2>1. ASSUME NEW r \in Requests,
               \/ insertJob(r) \/ publish(r) \/ auditCreate(r)
               \/ deleteJob(r) \/ updateStatus(r) \/ auditCancel(r) \/ finalize(r)
               \/ AckWaitExpires(r) \/ MaxAge(r)
        PROVE  Deliveries'
    BY <2>1, OthersDeliveries
  <2>2. ASSUME NEW o \in Operators, Consume(o) PROVE Deliveries'
    BY <2>2, DeliverDeliveries, FetchedDeliveries, HandleDeliveries,
       PublishDlqDeliveries, SettleDeliveries DEF Consume
  <2>3. ASSUME NEW o \in Operators, OperatorCrash(o) PROVE Deliveries'
    BY <2>3, CrashDeliveries
  <2>4. CASE ApiCrash \/ Sigterm \/ closeStore \/ exit \/ LeaseMoves \/ UNCHANGED vars
    BY <2>4, ProcessDeliveries
  <2>. QED
    BY <2>1, <2>2, <2>3, <2>4 DEF Next
<1>. QED
  BY <1>1, <1>2, InvHolds, PTL DEF Spec

\* An AcceleratorJob belongs to the job its key's row names: nothing in a batch,
\* however it was ordered and redelivered, is anything but a published message of
\* the request that inserted the row (SubmissionHandler, interleaveByKey).
THEOREM JobIsOfItsRow == Spec => []JobOfItsRow
<1>1. IInv /\ Deliveries => JobOfItsRow
  BY Zenon DEF IInv, Rows, Own, Deliveries, Counts, JobOfItsRow
<1>. QED
  BY <1>1, InvHolds, DeliveriesHold, PTL

\* A job is dead-lettered at most once and only after its last delivery, for any
\* number of consumers, lost acks and moving leases (ConsumeFairShare).
THEOREM DeadLetteredAtMostOnce == Spec => []DeadLetteredOnce
<1>1. Deliveries => DeadLetteredOnce
  BY Zenon DEF Deliveries, Counts, DeadLetteredOnce
<1>. QED
  BY <1>1, DeliveriesHold, PTL

-----------------------------------------------------------------------------
(* What can cost a message.                                                *)

\* The last delivery of a message is in some batch until its job was created or
\* dead-lettered.
Pending(r) ==
  \/ creations[r] > 0 \/ dlq[r] > 0
  \/ \E o \in Operators : \E i \in 1 .. Len(batch[o]) :
       batch[o][i].id = r /\ batch[o][i].nd = MaxDeliver

\* Without a fault that can cost a message only an operator that has created or
\* dead-lettered its job lets go of a last delivery.
Safe ==
  /\ \A r \in Requests : dc[r] = MaxDeliver => Pending(r)
  /\ \A o \in Operators : /\ act[o] = "nak" => head(o).nd < MaxDeliver
                          /\ act[o] = "term" => dlq[head(o).id] > 0

Dropped ==
  /\ faults.lossy \in BOOLEAN /\ (~faults.lossy => Safe)
  /\ \A r \in Requests : stream[r] = "dropped" => dc[r] = MaxDeliver
  /\ \A o \in Operators : Len(batch[o]) <= BatchSize

\* A batch has a size.
LEMMA BatchSizeType == BatchSize \in Nat
  BY PipelineAssumption

\* A fault is remembered if it can cost a message.
LEMMA FaultKeeps ==
  ASSUME NEW kind, Fault(kind)
  PROVE  /\ faults'.lossy \in BOOLEAN
         /\ faults.lossy => faults'.lossy
         /\ kind \in LossyFaults => faults'.lossy
<1>1. faults'.lossy = (faults.lossy \/ kind \in LossyFaults)
  BY Zenon DEF Fault
<1>. QED
  BY <1>1, Zenon

\* Every step leaves the faults alone or adds one.
LEMMA FaultsStep ==
  ASSUME Dropped, [Next]_vars
  PROVE  faults'.lossy \in BOOLEAN /\ (faults.lossy => faults'.lossy)
<1>1. ASSUME UNCHANGED faults \/ \E kind : Fault(kind)
      PROVE  faults'.lossy \in BOOLEAN /\ (faults.lossy => faults'.lossy)
  BY <1>1, FaultKeeps, Zenon DEF Dropped
<1>2. ASSUME NEW r \in Requests,
             \/ insertJob(r) \/ publish(r) \/ auditCreate(r)
             \/ deleteJob(r) \/ updateStatus(r) \/ auditCancel(r) \/ finalize(r)
             \/ AckWaitExpires(r) \/ MaxAge(r)
      PROVE  UNCHANGED faults \/ \E kind : Fault(kind)
  BY <1>2, Zenon DEF insertJob, publish, auditCreate, deleteJob, updateStatus, auditCancel,
     finalize, AckWaitExpires, MaxAge, DbAnswers, DbError, PublishError
<1>3. ASSUME NEW o \in Operators, Consume(o) \/ OperatorCrash(o)
      PROVE  UNCHANGED faults \/ \E kind : Fault(kind)
  BY <1>3, Zenon DEF Consume, deliver, fetched, handle, publishDLQ, settle, OperatorCrash
<1>4. ASSUME ApiCrash \/ Sigterm \/ closeStore \/ exit \/ LeaseMoves \/ UNCHANGED vars
      PROVE  UNCHANGED faults \/ \E kind : Fault(kind)
  BY <1>4, ZenonT(30) DEF ApiCrash, Sigterm, closeStore, exit, LeaseMoves, vars
<1>. QED
  BY <1>1, <1>2, <1>3, <1>4 DEF Next

\* A step that keeps the batches and takes nothing back.
LEMMA DroppedFrame ==
  ASSUME Dropped, [Next]_vars, UNCHANGED <<dc, dlq, act, batch, creations>>,
         \A r \in Requests : stream'[r] = "dropped" => stream[r] = "dropped" \/ dc[r] = MaxDeliver
  PROVE  Dropped'
<1>1. faults'.lossy \in BOOLEAN /\ (faults.lossy => faults'.lossy)
  BY FaultsStep, Zenon
<1>2. ASSUME Safe PROVE Safe'
  BY <1>2, Zenon DEF Safe, Pending, head
<1>. QED
  BY <1>1, <1>2 DEF Dropped

\* The steps of the API server and of JetStream, and a lease that moves.
LEMMA OthersDropped ==
  ASSUME IInv, Deliveries, Dropped, [Next]_vars,
         \/ \E r \in Requests :
              \/ insertJob(r) \/ publish(r) \/ auditCreate(r)
              \/ deleteJob(r) \/ updateStatus(r) \/ auditCancel(r) \/ finalize(r)
              \/ AckWaitExpires(r) \/ MaxAge(r)
         \/ ApiCrash \/ Sigterm \/ closeStore \/ exit \/ LeaseMoves \/ UNCHANGED vars
  PROVE  Dropped'
<1>. Typed
  BY DEF IInv
<1>1. UNCHANGED <<dc, dlq, act, batch, creations>>
  BY Zenon DEF insertJob, publish, auditCreate, deleteJob, updateStatus, auditCancel, finalize,
         AckWaitExpires, MaxAge, ApiCrash, Sigterm, closeStore, exit, LeaseMoves, vars,
         nats, kube, consumer
<1>2. \/ UNCHANGED stream
      \/ \E r \in Requests : stream' = [stream EXCEPT ![r] = "ready"]
      \/ \E r \in Requests : stream' = [stream EXCEPT ![r] = "expired"]
      \/ \E r \in Requests : stream' = [stream EXCEPT ![r] = unacked(r)]
  BY ZenonT(30) DEF insertJob, publish, auditCreate, deleteJob, updateStatus, auditCancel, finalize,
         AckWaitExpires, MaxAge, ApiCrash, Sigterm, closeStore, exit, LeaseMoves, vars, nats
<1>3. \A r \in Requests : dc[r] \in 0 .. MaxDeliver
  BY DEF Deliveries, Counts
<1>4. \A r \in Requests : unacked(r) = "dropped" => dc[r] = MaxDeliver
  BY <1>3, MaxDeliverType DEF unacked
<1>5. \A r \in Requests : stream'[r] = "dropped" => stream[r] = "dropped" \/ dc[r] = MaxDeliver
  <2>1. DOMAIN stream = Requests
    BY Zenon DEF Typed
  <2>. QED
    BY <1>2, <1>4, <2>1
<1>. QED
  BY <1>1, <1>5, DroppedFrame, Zenon

\* A last delivery is in the batch it is made to.
LEMMA DeliverDropped ==
  ASSUME IInv, Deliveries, Dropped, [Next]_vars, NEW o \in Operators, NEW id \in Requests,
         deliver(o, id)
  PROVE  Dropped'
<1>. DEFINE b == batch[o]
            d == [id |-> id, nd |-> dc[id] + 1]
<1>0. /\ Typed /\ act[o] = "fetch" /\ b \in Seq(Delivery) /\ DOMAIN dc = Requests
      /\ dc[id] \in Nat /\ Len(b) \in Nat /\ Len(b) < BatchSize
  <2>1. /\ Typed /\ act[o] = "fetch" /\ b \in Seq(Delivery) /\ DOMAIN dc = Requests
        /\ dc[id] \in 0 .. MaxDeliver /\ Len(b) < BatchSize
    BY Zenon DEF IInv, Deliveries, Loop, Counts, deliver
  <2>2. dc[id] \in Nat
    BY <2>1, MaxDeliverType
  <2>3. Len(b) \in Nat
    BY <2>1
  <2>. QED
    BY <2>1, <2>2, <2>3
<1>1. d.id = id /\ d.nd = dc[id] + 1
  OBVIOUS
<1>2. /\ UNCHANGED <<creations, dlq, act>> /\ stream' = [stream EXCEPT ![id] = "inflight"]
      /\ dc' = [dc EXCEPT ![id] = dc[id] + 1] /\ batch' = [batch EXCEPT ![o] = Append(b, d)]
  BY Zenon DEF deliver, kube
<1>. HIDE DEF d
<1>3. /\ \A p \in Operators : p # o => batch'[p] = batch[p]
      /\ batch'[o] = Append(b, d)
      /\ dc'[id] = dc[id] + 1 /\ \A r \in Requests : r # id => dc'[r] = dc[r]
      /\ stream'[id] = "inflight" /\ \A r \in Requests : r # id => stream'[r] = stream[r]
  BY <1>0, <1>2, ZenonT(30) DEF Typed
<1>4. /\ Len(batch'[o]) = Len(b) + 1 /\ Len(b) + 1 \in 1 .. Len(batch'[o])
      /\ \A i \in 1 .. Len(b) : batch'[o][i] = b[i] /\ i \in 1 .. Len(batch'[o])
      /\ batch'[o][Len(b) + 1] = d
  BY <1>0, <1>3
<1>5. faults'.lossy \in BOOLEAN /\ (faults.lossy => faults'.lossy)
  BY FaultsStep, Zenon
<1>6. ASSUME NEW r \in Requests, Pending(r) PROVE Pending(r)'
  <2>1. ASSUME NEW p \in Operators, NEW i \in 1 .. Len(batch[p])
        PROVE  i \in 1 .. Len(batch'[p]) /\ batch'[p][i] = batch[p][i]
    <3>1. CASE p = o
      BY <1>4, <3>1, Zenon
    <3>2. CASE p # o
      BY <1>3, <3>2, Zenon
    <3>. QED
      BY <3>1, <3>2
  <2>2. UNCHANGED <<creations, dlq>>
    BY <1>2, Zenon
  <2>3. CASE creations[r] > 0 \/ dlq[r] > 0
    BY <2>2, <2>3, Zenon DEF Pending
  <2>4. CASE ~(creations[r] > 0 \/ dlq[r] > 0)
    <3>0. PICK p \in Operators : \E i \in 1 .. Len(batch[p]) :
            batch[p][i].id = r /\ batch[p][i].nd = MaxDeliver
      BY <1>6, <2>4, Zenon DEF Pending
    <3>1. PICK i \in 1 .. Len(batch[p]) : batch[p][i].id = r /\ batch[p][i].nd = MaxDeliver
      BY <3>0, Zenon
    <3>2. i \in 1 .. Len(batch'[p]) /\ batch'[p][i] = batch[p][i]
      BY <2>1, ZenonT(30)
    <3>. QED
      BY <3>1, <3>2, Zenon DEF Pending
  <2>. QED
    BY <2>3, <2>4
<1>7. ASSUME Safe PROVE Safe'
  <2>1. ASSUME NEW r \in Requests, dc'[r] = MaxDeliver PROVE Pending(r)'
    <3>1. CASE r = id
      BY <1>1, <1>3, <1>4, <2>1, <3>1 DEF Pending
    <3>2. CASE r # id
      BY <1>3, <1>6, <1>7, <2>1, <3>2, Zenon DEF Safe
    <3>. QED
      BY <3>1, <3>2, Zenon
  <2>2. \A p \in Operators : act[p] # "fetch" => head(p)' = head(p)
    BY <1>0, <1>3, ZenonT(30) DEF head
  <2>. QED
    BY <1>2, <1>7, <2>1, <2>2 DEF Safe
<1>8. \A p \in Operators : Len(batch'[p]) <= BatchSize
  <2>1. Len(batch'[o]) <= BatchSize
    BY <1>0, <1>4, BatchSizeType
  <2>. QED
    BY <1>3, <2>1 DEF Dropped
<1>9. ASSUME NEW r \in Requests, stream'[r] = "dropped" PROVE dc'[r] = MaxDeliver
  BY <1>3, <1>9, Zenon DEF Dropped
<1>. QED
  BY <1>5, <1>7, <1>8, <1>9 DEF Dropped

\* The new order of a batch is a permutation of it.
LEMMA FetchedDropped ==
  ASSUME IInv, Deliveries, Dropped, [Next]_vars, NEW o \in Operators, fetched(o)
  PROVE  Dropped'
<1>. DEFINE b == batch[o]
            key == [d \in Range(b) |-> TeamOf[d.id]]
            n == Len(b)
<1>0. /\ Typed /\ b \in Seq(Delivery) /\ n \in Nat /\ DOMAIN b = 1 .. n
  BY DEF IInv, Deliveries, Loop
<1>1. /\ UNCHANGED <<creations, dlq, dc, stream>> /\ act' = [act EXCEPT ![o] = "handle"]
      /\ batch' = [batch EXCEPT ![o] = interleaveByKey(b, key)]
  BY DEF fetched, kube, nats
<1>2. /\ \A p \in Operators : p # o => batch'[p] = batch[p] /\ act'[p] = act[p]
      /\ batch'[o] = interleaveByKey(b, key) /\ act'[o] = "handle"
  <2>. HIDE DEF b, key
  <2>. QED
    BY <1>0, <1>1 DEF Typed
<1>3. PICK q : FairOrder(b, key, n, q) /\ interleaveByKey(b, key) = [k \in 1 .. n |-> b[q[k]]]
  <2>. HIDE DEF b, key, n
  <2>. QED
    BY <1>0, InterleavingIsFair
<1>. HIDE DEF key
<1>4. /\ \A i \in 1 .. n : \E k \in 1 .. n : q[k] = i
      /\ \A k \in 1 .. n : q[k] \in 1 .. n
      /\ batch'[o] = [k \in 1 .. n |-> b[q[k]]]
  BY <1>2, <1>3, Zenon DEF FairOrder, Permutes
<1>5. Len(batch'[o]) = n
  <2>0. \A k \in 1 .. n : b[k] \in Delivery
    BY <1>0
  <2>1. \A k \in 1 .. n : b[q[k]] \in Delivery
    BY <1>4, <2>0, Zenon
  <2>2. [k \in 1 .. n |-> b[q[k]]] \in Seq(Delivery)
    BY <1>0, <2>1
  <2>. QED
    BY <1>0, <1>4, <2>2
<1>6. ASSUME NEW p \in Operators, NEW i \in 1 .. Len(batch[p])
      PROVE  \E j \in 1 .. Len(batch'[p]) : batch'[p][j] = batch[p][i]
  <2>1. CASE p # o
    BY <1>2, <2>1
  <2>2. CASE p = o
    <3>1. PICK j \in 1 .. n : q[j] = i
      BY <1>4, <2>2
    <3>2. batch'[o][j] = b[i]
      BY <1>4, <3>1, Zenon
    <3>. QED
      BY <1>5, <2>2, <3>2
  <2>. QED
    BY <2>1, <2>2
<1>7. ASSUME NEW r \in Requests, Pending(r) PROVE Pending(r)'
  BY <1>1, <1>6, <1>7 DEF Pending
<1>8. faults'.lossy \in BOOLEAN /\ (faults.lossy => faults'.lossy)
  BY FaultsStep, Zenon
<1>9. ASSUME Safe PROVE Safe'
  BY <1>1, <1>2, <1>7, <1>9, Zenon DEF Safe, head
<1>10. \A p \in Operators : Len(batch'[p]) <= BatchSize
  BY <1>2, <1>5 DEF Dropped
<1>. QED
  BY <1>1, <1>8, <1>9, <1>10, Zenon DEF Dropped

\* The handler takes nothing back, and only a delivery that is not the last one is
\* to be Nak-ed.
LEMMA HandleDropped ==
  ASSUME IInv, Deliveries, Dropped, [Next]_vars, NEW o \in Operators, handle(o)
  PROVE  Dropped'
<1>. DEFINE id == head(o).id
<1>0. /\ Typed /\ act[o] = "handle" /\ UNCHANGED <<stream, dc, dlq, batch>>
      /\ \A p \in Operators : p # o => act'[p] = act[p]
      /\ act'[o] \in {"ack", "dlq", "nak"} /\ (act'[o] = "nak" => ~deliveriesExhausted(head(o)))
      /\ creations' = creations \/ creations' = [creations EXCEPT ![id] = creations[id] + 1]
  BY DEF IInv, handle, Typed, nats, kube
<1>1. head(o).nd \in 1 .. MaxDeliver /\ id \in Requests
  BY <1>0, InHand, Zenon
<1>2. act'[o] = "nak" => head(o).nd < MaxDeliver
  <2>1. act'[o] = "nak" => ~(head(o).nd >= MaxDeliver)
    BY <1>0, Zenon DEF deliveriesExhausted
  <2>2. head(o).nd \in Int
    BY <1>1, MaxDeliverType
  <2>. QED
    BY <2>1, <2>2, MaxDeliverType
<1>. HIDE DEF id
<1>3. \A r \in Requests : creations[r] > 0 => creations'[r] > 0
  <2>1. creations \in [Requests -> Nat]
    BY <1>0, Zenon DEF Typed
  <2>2. creations' = creations \/ creations' = [creations EXCEPT ![id] = creations[id] + 1]
    BY <1>0, ZenonT(30)
  <2>. QED
    BY <1>1, <2>1, <2>2
<1>4. ASSUME NEW r \in Requests, Pending(r) PROVE Pending(r)'
  BY <1>0, <1>3, <1>4 DEF Pending
<1>5. faults'.lossy \in BOOLEAN /\ (faults.lossy => faults'.lossy)
  BY FaultsStep
<1>6. ASSUME Safe PROVE Safe'
  <2>1. ASSUME NEW p \in Operators
        PROVE  /\ act'[p] = "nak" => head(p)'.nd < MaxDeliver
               /\ act'[p] = "term" => dlq'[head(p)'.id] > 0
    <3>1. head(p)' = head(p) /\ dlq' = dlq
      BY <1>0, Zenon DEF head
    <3>2. CASE p = o
      BY <1>0, <1>2, <3>1, <3>2, Zenon
    <3>3. CASE p # o
      BY <1>0, <1>6, <3>1, <3>3, Zenon DEF Safe
    <3>. QED
      BY <3>2, <3>3, Zenon
  <2>. QED
    BY <1>0, <1>4, <1>6, <2>1, Zenon DEF Safe
<1>. QED
  BY <1>0, <1>5, <1>6, ZenonT(30) DEF Dropped

\* PublishDLQ that fails is a fault that can cost the message.
LEMMA PublishDlqDropped ==
  ASSUME IInv, Deliveries, Dropped, [Next]_vars, NEW o \in Operators, publishDLQ(o)
  PROVE  Dropped'
<1>. DEFINE id == head(o).id
<1>0. /\ Typed /\ act[o] = "dlq" /\ UNCHANGED <<stream, dc, creations, batch>>
      /\ \A p \in Operators : p # o => act'[p] = act[p]
      /\ \/ dlq' = [dlq EXCEPT ![id] = dlq[id] + 1] /\ act'[o] = "term"
         \/ Fault("dlq") /\ act'[o] = "nak"
  BY DEF IInv, publishDLQ, Typed, kube
<1>1. id \in Requests /\ DOMAIN dlq = Requests /\ \A r \in Requests : dlq[r] \in Nat
  BY <1>0, InHand, Zenon DEF Deliveries, Counts
<1>2. faults'.lossy \in BOOLEAN /\ (faults.lossy => faults'.lossy)
  BY FaultsStep
<1>3. Fault("dlq") => faults'.lossy
  BY FaultKeeps DEF LossyFaults
<1>. HIDE DEF id
<1>4. ASSUME ~faults'.lossy PROVE Safe'
  <2>0. Safe /\ dlq' = [dlq EXCEPT ![id] = dlq[id] + 1] /\ act'[o] = "term"
    BY <1>0, <1>2, <1>3, <1>4, Zenon DEF Dropped
  <2>1. dlq'[id] > 0 /\ \A r \in Requests : dlq[r] > 0 => dlq'[r] > 0
    BY <1>1, <2>0
  <2>2. ASSUME NEW r \in Requests, Pending(r) PROVE Pending(r)'
    BY <1>0, <2>1, <2>2, ZenonT(30) DEF Pending
  <2>3. ASSUME NEW p \in Operators
        PROVE  /\ act'[p] = "nak" => head(p)'.nd < MaxDeliver
               /\ act'[p] = "term" => dlq'[head(p)'.id] > 0
    <3>1. head(p)' = head(p)
      BY <1>0 DEF head
    <3>2. CASE p = o
      BY <2>0, <2>1, <3>1, <3>2 DEF id
    <3>3. CASE p # o
      <4>1. act[p] = "term" => head(p).id \in Requests
        BY InHand
      <4>. QED
        BY <1>0, <2>0, <2>1, <3>1, <3>3, <4>1, ZenonT(30) DEF Safe
    <3>. QED
      BY <3>2, <3>3
  <2>. QED
    BY <1>0, <2>0, <2>2, <2>3, Zenon DEF Safe
<1>. QED
  BY <1>0, <1>2, <1>4, Zenon DEF Dropped

\* A last delivery that is let go of is of a job that was created or dead-lettered.
LEMMA SettleDropped ==
  ASSUME IInv, Deliveries, Dropped, [Next]_vars, NEW o \in Operators, settle(o)
  PROVE  Dropped'
<1>. USE MaxDeliverType
<1>. DEFINE id == head(o).id
            b == batch[o]
            new == CASE act[o] = "ack" -> "acked"
                     [] act[o] = "term" -> "termed"
                     [] OTHER -> unacked(id)
<1>0. /\ Typed /\ act[o] \in {"ack", "term", "nak"} /\ UNCHANGED <<dc, dlq, creations>>
      /\ Continue(o)
      /\ \/ stream' = stream
         \/ stream[id] \in {"inflight", "ready"} /\ stream' = [stream EXCEPT ![id] = new]
  BY DEF IInv, settle, kube
<1>1. /\ b \in Seq(Delivery) /\ b # <<>> /\ Len(b) \in Nat /\ id \in Requests
      /\ head(o) = b[1] /\ dc[id] \in 0 .. MaxDeliver
  BY <1>0, InHand DEF Deliveries, Counts
<1>2. /\ \A p \in Operators : p # o => batch'[p] = batch[p] /\ act'[p] = act[p]
      /\ batch'[o] = Tail(b) /\ act'[o] \in {"fetch", "handle"}
  BY <1>0, ZenonT(30) DEF Continue, Typed
<1>3. /\ Len(batch'[o]) = Len(b) - 1
      /\ \A i \in 1 .. Len(batch'[o]) : batch'[o][i] = b[i + 1]
  <2>1. /\ Len(Tail(b)) = Len(b) - 1
        /\ \A i \in 1 .. Len(Tail(b)) : Tail(b)[i] = b[i + 1]
    <3>. HIDE DEF b
    <3>. QED
      BY <1>1, BatchShrinks, Zenon
  <2>. QED
    BY <1>2, <2>1
<1>4. \A r \in Requests : stream'[r] = "dropped" => stream[r] = "dropped" \/ dc[r] = MaxDeliver
  <2>1. new = "dropped" => dc[id] = MaxDeliver
    BY <1>1 DEF unacked
  <2>. HIDE DEF new, id
  <2>. QED
    BY <1>0, <1>1, <2>1 DEF Typed
<1>5. faults'.lossy \in BOOLEAN /\ (faults.lossy => faults'.lossy)
  BY FaultsStep
<1>6. ASSUME Safe, NEW r \in Requests, Pending(r) PROVE Pending(r)'
  <2>1. CASE creations[r] > 0 \/ dlq[r] > 0
    BY <1>0, <2>1 DEF Pending
  <2>2. CASE \E p \in Operators : \E i \in 1 .. Len(batch[p]) :
               batch[p][i].id = r /\ batch[p][i].nd = MaxDeliver
    <3>0. PICK p \in Operators : \E i \in 1 .. Len(batch[p]) :
               batch[p][i].id = r /\ batch[p][i].nd = MaxDeliver
      BY <2>2, Zenon
    <3>1. PICK i \in 1 .. Len(batch[p]) : batch[p][i].id = r /\ batch[p][i].nd = MaxDeliver
      BY <3>0, Zenon
    <3>2. CASE p # o
      BY <1>2, <3>1, <3>2, Zenon DEF Pending
    <3>3. CASE p = o /\ i # 1
      <4>1. i - 1 \in 1 .. Len(batch'[o]) /\ (i - 1) + 1 = i
        BY <1>1, <1>3, <3>3
      <4>2. batch'[o][i - 1] = batch[o][i]
        BY <1>3, <4>1
      <4>. QED
        BY <3>1, <3>3, <4>1, <4>2, Zenon DEF Pending
    <3>4. CASE p = o /\ i = 1
      <4>1. id = r /\ head(o).nd = MaxDeliver
        BY <1>1, <3>1, <3>4, Zenon
      <4>2. act[o] = "ack" => creations[r] > 0
        BY <1>1, <4>1, Zenon DEF IInv, Objects, Acks
      <4>3. act[o] = "term" => dlq[r] > 0
        BY <1>6, <4>1, SMTT(30) DEF Safe
      <4>4. act[o] # "nak"
        BY <1>6, <4>1 DEF Safe
      <4>. QED
        BY <1>0, <4>2, <4>3, <4>4 DEF Pending
    <3>. QED
      BY <3>2, <3>3, <3>4
  <2>. QED
    BY <1>6, <2>1, <2>2, Zenon DEF Pending
<1>7. ASSUME Safe PROVE Safe'
  BY <1>0, <1>2, <1>6, <1>7 DEF Safe, head
<1>8. \A p \in Operators : Len(batch'[p]) <= BatchSize
  <2>1. Len(batch'[o]) <= BatchSize
    BY <1>1, <1>3, BatchSizeType DEF Dropped
  <2>. QED
    BY <1>2, <2>1, Zenon DEF Dropped
<1>. QED
  BY <1>0, <1>4, <1>5, <1>7, <1>8 DEF Dropped

\* The invariant about last deliveries holds throughout.
LEMMA DroppedHolds == Spec => []Dropped
<1>1. Init => Dropped
  <2>. SUFFICES ASSUME Init PROVE Dropped
    OBVIOUS
  <2>1. \A o \in Operators : Len(batch[o]) = 0 /\ act[o] = "fetch"
    BY DEF Init
  <2>2. faults.lossy = FALSE
    BY SMTT(30) DEF Init
  <2>3. \A r \in Requests : dc[r] # MaxDeliver /\ stream[r] = "none"
    BY MaxDeliverType DEF Init
  <2>4. Safe
    BY <2>1, <2>3 DEF Safe
  <2>5. \A o \in Operators : Len(batch[o]) <= BatchSize
    BY <2>1, BatchSizeType
  <2>. QED
    BY <2>2, <2>3, <2>4, <2>5, Zenon DEF Dropped
<1>2. IInv /\ Deliveries /\ Dropped /\ [Next]_vars => Dropped'
  <2>. SUFFICES ASSUME IInv, Deliveries, Dropped, [Next]_vars PROVE Dropped'
    OBVIOUS
  <2>1. CASE \/ \E r \in Requests :
                  \/ insertJob(r) \/ publish(r) \/ auditCreate(r)
                  \/ deleteJob(r) \/ updateStatus(r) \/ auditCancel(r) \/ finalize(r)
                  \/ AckWaitExpires(r) \/ MaxAge(r)
             \/ ApiCrash \/ Sigterm \/ closeStore \/ exit \/ LeaseMoves \/ UNCHANGED vars
    BY <2>1, OthersDropped
  <2>2. ASSUME NEW o \in Operators, Consume(o) PROVE Dropped'
    BY <2>2, DeliverDropped, FetchedDropped, HandleDropped, PublishDlqDropped,
       SettleDropped DEF Consume
  <2>3. ASSUME NEW o \in Operators, OperatorCrash(o) PROVE Dropped'
    <3>1. /\ Typed /\ UNCHANGED <<stream, dc>> /\ Fault("opcrash")
          /\ \A p \in Operators : p # o => batch'[p] = batch[p]
          /\ batch'[o] = <<>>
      BY <2>3 DEF IInv, OperatorCrash, nats, Typed
    <3>2. faults'.lossy = TRUE
      <4>1. faults'.lossy \in BOOLEAN /\ faults'.lossy
        BY <3>1, FaultKeeps DEF LossyFaults
      <4>. QED
        BY <4>1
    <3>3. Len(batch'[o]) <= BatchSize
      BY <3>1, BatchSizeType
    <3>. QED
      BY <3>1, <3>2, <3>3, Zenon DEF Dropped
  <2>. QED
    BY <2>1, <2>2, <2>3 DEF Next
<1>. QED
  BY <1>1, <1>2, InvHolds, DeliveriesHold, PTL DEF Spec

\* The only failures that can cost a message are those LossyFaults names: in every
\* run without one, a message that JetStream gives up is of a job that was created
\* or dead-lettered, or is still in some operator's batch (ConsumeFairShare).
THEOREM OnlyLossyFaultsLose == Spec => [](~faults.lossy => NothingLost)
<1>1. Dropped /\ Deliveries => (~faults.lossy => NothingLost)
  <2>. SUFFICES ASSUME Dropped, Deliveries, ~faults.lossy, NEW r \in Requests,
                       stream[r] = "dropped", ~(creations[r] > 0), ~(dlq[r] > 0)
                PROVE  \E o \in Operators, i \in 1 .. BatchSize :
                         i \in DOMAIN batch[o] /\ batch[o][i].id = r
    BY Zenon DEF NothingLost
  <2>0. Pending(r)
    BY Zenon DEF Dropped, Safe
  <2>1. PICK o \in Operators : \E i \in 1 .. Len(batch[o]) : batch[o][i].id = r
    BY <2>0 DEF Pending
  <2>2. PICK i \in 1 .. Len(batch[o]) : batch[o][i].id = r
    BY <2>1, ZenonT(30)
  <2>3. batch[o] \in Seq(Delivery) /\ Len(batch[o]) \in Nat /\ Len(batch[o]) <= BatchSize
    BY <2>2, InBatch, SMTT(30) DEF Dropped
  <2>4. i \in 1 .. BatchSize /\ i \in DOMAIN batch[o]
    BY <2>3, BatchSizeType
  <2>. QED
    BY <2>2, <2>4
<1>. QED
  BY <1>1, DroppedHolds, DeliveriesHold, PTL

-----------------------------------------------------------------------------
(* The pipeline implements Intake.  Besides the two invariants this takes  *)
(* that a request that has not inserted yet is not the owner of its key,   *)
(* and that a request is answered once (Unanswered).                       *)

Fresh(r) ==
  /\ req[r] = "new" => row[KeyOf[r]].id # r
  /\ req[r] # "201" => answer[r] = "none"
Unanswered == \A r \in Requests : Fresh(r)

\* What a step may do to requests, rows and answers: nothing a client sees, the
\* end of a request that has no answer, or one of the three steps that follow.
Quiet ==
  /\ \A k \in Keys : row'[k].id = row[k].id
  /\ answer' = answer
  /\ \A r \in Requests : req'[r] = req[r] \/ (req'[r] = "500" /\ req[r] # "201")

\* Every step but an insert, a publish and the answer after it is quiet.
LEMMA QuietSteps ==
  ASSUME IInv, [Next]_vars
  PROVE  Quiet \/ \E r \in Requests : insertJob(r) \/ publish(r) \/ auditCreate(r)
<1>. Typed
  BY DEF IInv
<1>1. ASSUME UNCHANGED <<row, answer, req>> PROVE Quiet
  BY <1>1, Zenon DEF Quiet
<1>2. ASSUME NEW r \in Requests, updateStatus(r) PROVE Quiet
  <2>. DEFINE k == KeyOf[r]
              new == [row[k] EXCEPT !.status = "Cancelled"]
  <2>1. /\ row' = row \/ (row[k].id = r /\ row' = [row EXCEPT ![k] = new])
        /\ UNCHANGED <<req, answer>>
    BY <1>2, Zenon DEF updateStatus
  <2>2. \A x \in Keys : row'[x].id = row[x].id
    <3>1. CASE row' = row
      BY <3>1, Zenon
    <3>2. CASE row[k].id = r /\ row' = [row EXCEPT ![k] = new]
      <4>1. k \in Keys /\ row[k] \in [id : Requests, status : {"Pending", "Cancelled"}]
        BY <3>2, NoRowId, PipelineAssumption, Zenon DEF Typed
      <4>2. new.id = row[k].id
        BY <4>1
      <4>. QED
        BY <3>2, <4>2, Zenon DEF Typed
    <3>. QED
      BY <2>1, <3>1, <3>2, Zenon
  <2>. QED
    BY <2>1, <2>2, Zenon DEF Quiet
<1>3. ASSUME AbortRequests, UNCHANGED <<row, answer>> PROVE Quiet
  <2>1. \A r \in Requests : req'[r] = req[r] \/ (req'[r] = "500" /\ req[r] # "201")
    BY <1>3 DEF AbortRequests
  <2>. QED
    BY <1>3, <2>1, Zenon DEF Quiet
<1>4. ASSUME NEW r \in Requests,
             deleteJob(r) \/ auditCancel(r) \/ finalize(r) \/ AckWaitExpires(r) \/ MaxAge(r)
      PROVE  Quiet
  BY <1>1, <1>4, Zenon DEF deleteJob, auditCancel, finalize, AckWaitExpires, MaxAge, tables, http
<1>5. ASSUME NEW o \in Operators, Consume(o) \/ OperatorCrash(o) PROVE Quiet
  BY <1>1, <1>5, Zenon DEF Consume, deliver, fetched, handle, publishDLQ, settle, OperatorCrash,
     tables, http
<1>6. CASE ApiCrash \/ Sigterm \/ closeStore \/ exit \/ LeaseMoves \/ UNCHANGED vars
  BY <1>1, <1>3, <1>6, Zenon DEF ApiCrash, Sigterm, closeStore, exit, LeaseMoves, vars, tables, http
<1>. QED
  BY <1>2, <1>4, <1>5, <1>6, Zenon DEF Next

\* A request owns its key only once it has inserted, and is answered once.
LEMMA UnansweredHolds == Spec => []Unanswered
<1>1. Init => Unanswered
  BY NoRowId, PipelineAssumption DEF Init, Unanswered, Fresh
<1>2. IInv /\ Unanswered /\ [Next]_vars => Unanswered'
  <2>. SUFFICES ASSUME IInv, Unanswered, [Next]_vars, NEW s \in Requests PROVE Fresh(s)'
    BY Zenon DEF Unanswered
  <2>0. Typed /\ Fresh(s) /\ KeyOf[s] \in Keys
    BY PipelineAssumption DEF IInv, Unanswered
  <2>1. CASE Quiet
    <3>1. /\ row'[KeyOf[s]].id = row[KeyOf[s]].id /\ answer' = answer
          /\ req'[s] = req[s] \/ (req'[s] = "500" /\ req[s] # "201")
      BY <2>0, <2>1, Zenon DEF Quiet
    <3>. QED
      BY <2>0, <3>1 DEF Fresh
  <2>2. ASSUME NEW r \in Requests, insertJob(r) PROVE Fresh(s)'
    <3>. DEFINE k == KeyOf[r]
                new == [id |-> r, status |-> "Pending"]
    <3>0. /\ req[r] = "new" /\ k \in Keys
          /\ row' = row \/ row' = [row EXCEPT ![k] = new]
          /\ \/ req' = [req EXCEPT ![r] = "201"] /\ answer' = [answer EXCEPT ![r] = row[k].id]
             \/ req' = [req EXCEPT ![r] = "publish"] /\ answer' = answer
             \/ req' = [req EXCEPT ![r] = "500"] /\ answer' = answer
      BY <2>2, PipelineAssumption, Zenon DEF insertJob, Answer
    <3>1. CASE s = r
      BY <2>0, <3>0, <3>1, SMTT(30) DEF Fresh, Typed
    <3>2. CASE s # r
      <4>1. req'[s] = req[s] /\ answer'[s] = answer[s]
        BY <2>0, <3>0, <3>2, Zenon DEF Typed
      <4>2. row'[KeyOf[s]].id = row[KeyOf[s]].id \/ row'[KeyOf[s]].id = r
        BY <2>0, <3>0, SMTT(30) DEF Typed
      <4>. QED
        BY <2>0, <3>2, <4>1, <4>2 DEF Fresh
    <3>. QED
      BY <3>1, <3>2
  <2>3. ASSUME NEW r \in Requests, publish(r) PROVE Fresh(s)'
    <3>1. /\ UNCHANGED <<row, answer>> /\ req[r] = "publish"
          /\ req' = [req EXCEPT ![r] = "audit"] \/ req' = [req EXCEPT ![r] = "500"]
      BY <2>3, Zenon DEF publish, Answer, tables
    <3>. QED
      BY <2>0, <3>1 DEF Fresh, Typed
  <2>4. ASSUME NEW r \in Requests, auditCreate(r) PROVE Fresh(s)'
    <3>1. /\ row' = row /\ req[r] = "audit"
          /\ req' = [req EXCEPT ![r] = "201"] /\ answer' = [answer EXCEPT ![r] = r]
      BY <2>4, Zenon DEF auditCreate, Answer
    <3>. QED
      BY <2>0, <3>1 DEF Fresh, Typed
  <2>. QED
    BY <2>1, <2>2, <2>3, <2>4, QuietSteps, Zenon
<1>. QED
  BY <1>1, <1>2, InvHolds, PTL DEF Spec

\* A step that is quiet for the clients, and leaves the objects, the dead letters
\* and the set of messages alone, is no step of Intake.
LEMMA PromiseStutters ==
  ASSUME \A k \in Keys : row'[k].id = row[k].id, UNCHANGED <<answer, cr, dlq>>,
         \A r \in Requests : stream'[r] = "none" <=> stream[r] = "none"
  PROVE  UNCHANGED Promise!vars
<1>1. [k \in Keys |-> row'[k].id] = [k \in Keys |-> row[k].id]
  OBVIOUS
<1>2. {r \in Requests : stream'[r] # "none"} = {r \in Requests : stream[r] # "none"}
  OBVIOUS
<1>3. {r \in Requests : dlq'[r] > 0} = {r \in Requests : dlq[r] > 0}
  BY Zenon
<1>. QED
  BY <1>1, <1>2, <1>3, Zenon DEF Promise!vars

\* An insert takes a free key, or is answered with the job that has it, which is
\* another request's.
LEMMA InsertPromise ==
  ASSUME IInv, Unanswered, NEW r \in Requests, insertJob(r)
  PROVE  [Promise!Next]_(Promise!vars)
<1>. DEFINE k == KeyOf[r]
            new == [id |-> r, status |-> "Pending"]
            own == [x \in Keys |-> row[x].id]
<1>0. /\ Typed /\ k \in Keys /\ Fresh(r) /\ req[r] = "new"
      /\ UNCHANGED <<stream, cr, dlq>>
      /\ \/ row' = row /\ answer' = answer
         \/ row[k] = NoRow /\ row' = [row EXCEPT ![k] = new] /\ answer' = answer
         \/ row[k] # NoRow /\ row' = row /\ answer' = [answer EXCEPT ![r] = row[k].id]
  BY PipelineAssumption, Zenon DEF IInv, Unanswered, insertJob, nats, kube
<1>1. CASE row' = row /\ answer' = answer
  BY <1>0, <1>1, PromiseStutters, Zenon
<1>2. CASE row[k] = NoRow /\ row' = [row EXCEPT ![k] = new] /\ answer' = answer
  <2>1. own[k] = "none"
    BY <1>0, <1>2 DEF NoRow
  <2>2. [x \in Keys |-> row'[x].id] = [own EXCEPT ![k] = r]
    BY <1>0, <1>2, Zenon DEF Typed
  <2>3. Promise!Take(r)
    BY <1>0, <1>2, <2>1, <2>2, Zenon DEF Promise!Take
  <2>. QED
    BY <2>3, ZenonT(30) DEF Promise!Next
<1>3. CASE row[k] # NoRow /\ row' = row /\ answer' = [answer EXCEPT ![r] = row[k].id]
  <2>1. own[k] = row[k].id /\ row[k].id # r /\ answer[r] = "none"
    BY <1>0, SMTT(30) DEF Fresh
  <2>2. row[k].id # "none"
    BY <1>0, <1>3, PipelineAssumption DEF Typed
  <2>3. Promise!Reply(r)
    BY <1>0, <1>3, <2>1, <2>2, Zenon DEF Promise!Reply
  <2>. QED
    BY <2>3, Zenon DEF Promise!Next
<1>. QED
  BY <1>0, <1>1, <1>2, <1>3, Zenon

\* A publish enqueues the job that has the key, for the first time.
LEMMA PublishPromise ==
  ASSUME IInv, Deliveries, NEW r \in Requests, publish(r)
  PROVE  [Promise!Next]_(Promise!vars)
<1>0. /\ KeyOf[r] \in Keys /\ row[KeyOf[r]].id = r /\ DOMAIN stream = Requests
      /\ UNCHANGED <<row, answer, cr, dlq>>
      /\ stream' = stream \/ stream' = [stream EXCEPT ![r] = "ready"]
  BY PipelineAssumption, Zenon DEF IInv, Typed, Rows, Own, publish, tables, kube
<1>1. stream[r] = "none"
  BY Zenon DEF Deliveries, Counts, publish
<1>2. CASE stream' = stream
  BY <1>0, <1>2, PromiseStutters, Zenon
<1>3. CASE stream' = [stream EXCEPT ![r] = "ready"]
  <2>1. {s \in Requests : stream'[s] # "none"} = {s \in Requests : stream[s] # "none"} \cup {r}
    BY <1>0, <1>3
  <2>2. Promise!Enqueue(r)
    BY <1>0, <1>1, <2>1, Zenon DEF Promise!Enqueue
  <2>. QED
    BY <2>2, Zenon DEF Promise!Next
<1>. QED
  BY <1>0, <1>2, <1>3, Zenon

\* The answer of the request that took the key comes after its message.
LEMMA AnswerPromise ==
  ASSUME IInv, Unanswered, NEW r \in Requests, auditCreate(r)
  PROVE  Promise!Next
<1>0. /\ KeyOf[r] \in Keys /\ row[KeyOf[r]].id = r /\ stream[r] # "none"
      /\ UNCHANGED <<row, cr, dlq, stream>> /\ answer' = [answer EXCEPT ![r] = r]
  BY PipelineAssumption, Zenon DEF IInv, Rows, Own, auditCreate, nats, kube
<1>1. answer[r] = "none"
  <2>1. req[r] # "201"
    BY DEF auditCreate
  <2>. QED
    BY <2>1, Zenon DEF Unanswered, Fresh
<1>2. r # "none"
  BY PipelineAssumption
<1>3. Promise!Reply(r)
  BY <1>0, <1>1, <1>2, Zenon DEF Promise!Reply
<1>. QED
  BY <1>3, Zenon DEF Promise!Next

\* A DELETE and the reconciler's finalizer delete an object.
LEMMA DeletePromise ==
  ASSUME NEW r \in Requests, deleteJob(r) \/ finalize(r)
  PROVE  [Promise!Next]_(Promise!vars)
<1>0. UNCHANGED <<row, answer, stream, dlq>>
  BY Zenon DEF deleteJob, finalize, tables, http, nats
<1>1. CASE cr' = cr
  BY <1>0, <1>1, PromiseStutters, Zenon
<1>2. CASE cr' # cr
  <2>1. Promise!Delete(r)
    BY <1>0, <1>2, Zenon DEF deleteJob, finalize, Promise!Delete
  <2>. QED
    BY <2>1, Zenon DEF Promise!Next
<1>. QED
  BY <1>1, <1>2

\* The handler creates an object that is not there, of a job that was enqueued.
LEMMA HandlePromise ==
  ASSUME IInv, Deliveries, NEW o \in Operators, handle(o)
  PROVE  [Promise!Next]_(Promise!vars)
<1>. DEFINE id == head(o).id
<1>0. /\ UNCHANGED <<row, answer, stream, dlq>> /\ act[o] = "handle"
      /\ cr' = cr \/ (cr[id] \in {"none", "gone"} /\ cr' = [cr EXCEPT ![id] = "live"])
  BY ZenonT(30) DEF handle, tables, http, nats, kube
<1>1. id \in Requests /\ stream[id] # "none"
  BY <1>0, InHand
<1>2. CASE cr' = cr
  BY <1>0, <1>2, PromiseStutters, Zenon
<1>3. CASE cr[id] \in {"none", "gone"} /\ cr' = [cr EXCEPT ![id] = "live"]
  <2>1. Promise!Create(id)
    BY <1>0, <1>1, <1>3, Zenon DEF Promise!Create
  <2>. QED
    BY <1>1, <2>1, Zenon DEF Promise!Next
<1>. QED
  BY <1>0, <1>2, <1>3, Zenon

\* A job is dead-lettered for the first time, and was enqueued.
LEMMA DeadLetterPromise ==
  ASSUME IInv, Deliveries, NEW o \in Operators, publishDLQ(o)
  PROVE  [Promise!Next]_(Promise!vars)
<1>. DEFINE id == head(o).id
<1>0. /\ UNCHANGED <<row, answer, stream, cr>> /\ act[o] = "dlq"
      /\ dlq' = dlq \/ dlq' = [dlq EXCEPT ![id] = dlq[id] + 1]
  BY Zenon DEF publishDLQ, tables, http, kube
<1>1. /\ id \in Requests /\ stream[id] # "none" /\ head(o) = batch[o][1]
      /\ Delivered(o, 1) /\ DOMAIN dlq = Requests
  BY <1>0, InHand, ZenonT(30) DEF Deliveries
<1>2. dlq[id] = 0
  <2>1. head(o).nd = MaxDeliver
    BY <1>0, Zenon DEF Deliveries, Loop
  <2>2. ~(dlq[id] > 0)
    BY <1>0, <1>1, <2>1, Zenon DEF Delivered
  <2>3. dlq[id] \in Nat
    BY <1>1, Zenon DEF Deliveries, Counts
  <2>. QED
    BY <2>2, <2>3
<1>3. CASE dlq' = dlq
  BY <1>0, <1>3, PromiseStutters, Zenon
<1>4. CASE dlq' = [dlq EXCEPT ![id] = dlq[id] + 1]
  <2>1. /\ \A r \in Requests : r # id => dlq'[r] = dlq[r]
        /\ dlq'[id] = dlq[id] + 1
    BY <1>1, <1>4, Zenon
  <2>2. dlq'[id] > 0 /\ ~(dlq[id] > 0)
    BY <1>2, <2>1
  <2>3. {r \in Requests : dlq'[r] > 0} = {r \in Requests : dlq[r] > 0} \cup {id}
    BY <1>1, <2>1, <2>2, Zenon
  <2>4. ASSUME NEW r \in Requests, r = id PROVE Promise!Next
    <3>1. Promise!DeadLetter(r)
      BY <1>0, <1>1, <2>2, <2>3, <2>4, Zenon DEF Promise!DeadLetter
    <3>. QED
      BY <3>1, Zenon DEF Promise!Next
  <2>. QED
    BY <1>1, <2>4, Zenon
<1>. QED
  BY <1>0, <1>3, <1>4, Zenon

\* Deliveries, acknowledgements and their loss are nothing to a client.
LEMMA QueuePromise ==
  ASSUME IInv, Deliveries,
         \/ \E o \in Operators : (\E id \in Requests : deliver(o, id)) \/ settle(o)
         \/ \E id \in Requests : AckWaitExpires(id) \/ MaxAge(id)
  PROVE  UNCHANGED Promise!vars
<1>. DEFINE Moved == {"ready", "inflight", "acked", "termed", "dropped", "expired"}
            Moves(id) == /\ stream[id] # "none"
                         /\ \/ stream' = stream
                            \/ \E s \in Moved : stream' = [stream EXCEPT ![id] = s]
<1>1. UNCHANGED <<row, answer, cr, dlq>>
  BY Zenon DEF deliver, settle, AckWaitExpires, MaxAge, tables, http, kube
<1>2. \E id \in Requests : Moves(id)
  <2>1. ASSUME NEW o \in Operators, NEW id \in Requests, deliver(o, id) PROVE Moves(id)
    BY <2>1 DEF deliver
  <2>2. ASSUME NEW id \in Requests, AckWaitExpires(id) \/ MaxAge(id) PROVE Moves(id)
    BY <2>2 DEF AckWaitExpires, MaxAge, unacked
  <2>3. ASSUME NEW o \in Operators, settle(o) PROVE head(o).id \in Requests /\ Moves(head(o).id)
    <3>1. act[o] # "fetch"
      BY <2>3 DEF settle
    <3>2. head(o).id \in Requests /\ stream[head(o).id] # "none"
      BY <3>1, InHand, Zenon
    <3>. QED
      BY <2>3, <3>2 DEF settle, unacked
  <2>. HIDE DEF Moves
  <2>. QED
    BY <2>1, <2>2, <2>3, Zenon
<1>3. \A r \in Requests : stream'[r] = "none" <=> stream[r] = "none"
  <2>1. DOMAIN stream = Requests
    BY Zenon DEF IInv, Typed
  <2>. QED
    BY <1>2, <2>1
<1>. QED
  BY <1>1, <1>3, PromiseStutters, Zenon

\* Every step is a step of Intake or none.
LEMMA PromiseStep ==
  ASSUME IInv, Deliveries, Unanswered, [Next]_vars
  PROVE  [Promise!Next]_(Promise!vars)
<1>1. ASSUME Quiet, UNCHANGED <<cr, dlq, stream>> PROVE UNCHANGED Promise!vars
  BY <1>1, PromiseStutters, Zenon DEF Quiet
<1>2. ASSUME NEW r \in Requests,
             \/ insertJob(r) \/ publish(r) \/ auditCreate(r) \/ deleteJob(r) \/ finalize(r)
             \/ AckWaitExpires(r) \/ MaxAge(r)
      PROVE  [Promise!Next]_(Promise!vars)
  BY <1>2, InsertPromise, PublishPromise, AnswerPromise, DeletePromise, QueuePromise, Zenon
<1>3. ASSUME NEW o \in Operators,
             \/ \E id \in Requests : deliver(o, id)
             \/ handle(o) \/ publishDLQ(o) \/ settle(o)
      PROVE  [Promise!Next]_(Promise!vars)
  BY <1>3, HandlePromise, DeadLetterPromise, QueuePromise, Zenon
<1>4. CASE \/ \E r \in Requests : updateStatus(r) \/ auditCancel(r)
           \/ \E o \in Operators : fetched(o) \/ OperatorCrash(o)
           \/ ApiCrash \/ Sigterm \/ closeStore \/ exit \/ LeaseMoves \/ UNCHANGED vars
  <2>1. UNCHANGED <<cr, dlq, stream>>
    BY <1>4, Zenon DEF updateStatus, auditCancel, fetched, OperatorCrash, ApiCrash, Sigterm,
       closeStore, exit, LeaseMoves, vars, nats, kube
  <2>2. CASE Quiet
    BY <1>1, <2>1, <2>2, Zenon
  <2>3. CASE \E r \in Requests : insertJob(r) \/ publish(r) \/ auditCreate(r)
    BY <1>2, <2>3, Zenon
  <2>. QED
    BY <2>2, <2>3, QuietSteps, Zenon
<1>. QED
  BY <1>2, <1>3, <1>4, Zenon DEF Next, Consume

\* The pipeline keeps what Intake promises a client, for any number of requests,
\* keys, operators and faults of every kind: a key stands for one job for ever,
\* every 201 names it, the submitter's own only after its message is in the
\* stream, and objects and dead letters come from that message alone (CreateJob,
\* ConsumeFairShare, SubmissionHandler).
THEOREM PipelineImplementsIntake == Spec => PromiseKept
<1>1. Init => Promise!Init
  BY PipelineAssumption DEF Init, NoRow, Promise!Init
<1>. QED
  BY <1>1, PromiseStep, InvHolds, DeliveriesHold, UnansweredHolds, PTL
     DEF Spec, PromiseKept, Promise!Spec

-----------------------------------------------------------------------------
(* What it takes for a retried submission to be safe.                      *)

\* The failures of the API server's process and of what it talks to.
ApiFaults == {"db", "publish", "apicrash", "sigterm"}

\* A key's job is enqueued, or the request that inserted it is about to.
Enqueuing ==
  /\ proc = "up"
  /\ \A k \in Keys :
       row[k].id \in Requests => req[row[k].id] = "publish" \/ stream[row[k].id] # "none"

\* What was enqueued stays so, as in Intake.
LEMMA MessagesStay ==
  ASSUME IInv, Deliveries, Unanswered, [Next]_vars, NEW r \in Requests, stream[r] # "none"
  PROVE  stream'[r] # "none"
<1>. DEFINE Q == {s \in Requests : stream[s] # "none"}
<1>1. r \in Q
  OBVIOUS
<1>2. Q' = Q \/ \E s \in Requests : Q' = Q \cup {s}
  BY PromiseStep, Zenon DEF Promise!vars, Promise!Next, Promise!Take, Promise!Reply,
     Promise!Enqueue, Promise!Create, Promise!Delete, Promise!DeadLetter
<1>3. r \in Q'
  <2>. HIDE DEF Q
  <2>. QED
    BY <1>1, <1>2, Zenon
<1>. QED
  BY <1>3, Zenon

\* Without those failures the process stays up and no request is aborted.
LEMMA NoneAborted ==
  ASSUME Faults \cap ApiFaults = {}, IInv, proc = "up", [Next]_vars
  PROVE  /\ proc' = "up"
         /\ req' = req \/ \E r \in Requests : insertJob(r) \/ publish(r) \/ auditCreate(r)
<1>0. ~Fault("apicrash") /\ ~Fault("sigterm")
  BY DEF Fault, ApiFaults
<1>1. ASSUME NEW r \in Requests,
             \/ insertJob(r) \/ publish(r) \/ auditCreate(r) PROVE proc' = "up"
  BY <1>1, Zenon DEF insertJob, publish, auditCreate
<1>2. ASSUME NEW r \in Requests,
             \/ deleteJob(r) \/ updateStatus(r) \/ auditCancel(r) \/ finalize(r)
             \/ AckWaitExpires(r) \/ MaxAge(r)
      PROVE  UNCHANGED <<proc, req>>
  BY <1>2, Zenon DEF deleteJob, updateStatus, auditCancel, finalize, AckWaitExpires, MaxAge, http
<1>3. ASSUME NEW o \in Operators, Consume(o) \/ OperatorCrash(o) PROVE UNCHANGED <<proc, req>>
  BY <1>3, Zenon DEF Consume, deliver, fetched, handle, publishDLQ, settle, OperatorCrash, http
<1>4. CASE LeaseMoves \/ UNCHANGED vars
  BY <1>4, Zenon DEF LeaseMoves, vars, http
<1>5. ~(ApiCrash \/ Sigterm \/ closeStore \/ exit)
  BY <1>0 DEF ApiCrash, Sigterm, closeStore, exit
<1>. QED
  BY <1>1, <1>2, <1>3, <1>4, <1>5, Zenon DEF Next

\* Store.CreateJob's comment, "so retried submissions are safe", holds as long as
\* neither the API server nor the database nor a publish fails: every 201 then
\* names a job that is enqueued or about to be, however requests race, operators
\* crash, leases move, and acks and dead letters are lost.
THEOREM RetriesAreSafe ==
  ASSUME Faults \cap ApiFaults = {}
  PROVE  Spec => []AcceptedIsEnqueued
<1>1. Init => Enqueuing
  BY NoRowId DEF Init, Enqueuing
<1>2. IInv /\ Deliveries /\ Unanswered /\ Enqueuing /\ [Next]_vars => Enqueuing'
  <2>. SUFFICES ASSUME IInv, Deliveries, Unanswered, Enqueuing, [Next]_vars,
                       NEW k \in Keys, row'[k].id \in Requests
                PROVE  req'[row'[k].id] = "publish" \/ stream'[row'[k].id] # "none"
    BY NoneAborted, Zenon DEF Enqueuing
  <2>0. /\ Typed /\ proc = "up" /\ ~Fault("db") /\ ~Fault("publish")
        /\ row[k].id \in Requests => req[row[k].id] = "publish" \/ stream[row[k].id] # "none"
    BY DEF IInv, Enqueuing, Fault, ApiFaults
  <2>1. CASE Quiet /\ req' = req
    <3>1. row'[k].id = row[k].id
      BY <2>1, ZenonT(30) DEF Quiet
    <3>. QED
      BY <2>0, <2>1, <3>1, MessagesStay, Zenon
  <2>2. ASSUME NEW r \in Requests, insertJob(r)
        PROVE  req'[row'[k].id] = "publish" \/ stream'[row'[k].id] # "none"
    <3>1. /\ req[r] = "new" /\ stream' = stream
          /\ \/ row' = row /\ req' = [req EXCEPT ![r] = "201"]
             \/ /\ row' = [row EXCEPT ![KeyOf[r]] = [id |-> r, status |-> "Pending"]]
                /\ req' = [req EXCEPT ![r] = "publish"]
      BY <2>0, <2>2 DEF insertJob, DbError, Answer, nats
    <3>2. CASE row'[k] = row[k]
      <4>1. row[k].id # r => req'[row[k].id] = req[row[k].id]
        BY <2>0, <3>1, <3>2, SMTT(30) DEF Typed
      <4>. QED
        BY <2>0, <3>1, <3>2, <4>1, ZenonT(30)
    <3>3. CASE row'[k].id = r /\ req' = [req EXCEPT ![r] = "publish"]
      BY <2>0, <3>3, SMTT(30) DEF Typed
    <3>. QED
      BY <2>0, <3>1, <3>2, <3>3, SMTT(30) DEF Typed
  <2>3. ASSUME NEW r \in Requests, publish(r)
        PROVE  req'[row'[k].id] = "publish" \/ stream'[row'[k].id] # "none"
    <3>1. /\ row' = row /\ stream' = [stream EXCEPT ![r] = "ready"]
          /\ req' = [req EXCEPT ![r] = "audit"]
      BY <2>0, <2>3, SMTT(30) DEF publish, PublishError, Answer, tables
    <3>. QED
      BY <2>0, <3>1, SMTT(30) DEF Typed
  <2>4. ASSUME NEW r \in Requests, auditCreate(r)
        PROVE  req'[row'[k].id] = "publish" \/ stream'[row'[k].id] # "none"
    <3>1. UNCHANGED <<row, stream>> /\ req[r] = "audit" /\ req' = [req EXCEPT ![r] = "201"]
      BY <2>4, Zenon DEF auditCreate, Answer, nats
    <3>. QED
      BY <2>0, <3>1 DEF Typed
  <2>. QED
    BY <2>0, <2>1, <2>2, <2>3, <2>4, NoneAborted, QuietSteps, Zenon
<1>3. IInv /\ Enqueuing => AcceptedIsEnqueued
  <2>. SUFFICES ASSUME IInv, Enqueuing, NEW r \in Requests, req[r] = "201"
                PROVE  stream[answer[r]] # "none" \/ req[answer[r]] = "publish"
    BY Zenon DEF AcceptedIsEnqueued
  <2>1. KeyOf[r] \in Keys /\ row[KeyOf[r]] # NoRow /\ answer[r] = row[KeyOf[r]].id
    BY PipelineAssumption, Zenon DEF IInv, Rows, Own
  <2>2. row[KeyOf[r]].id \in Requests
    BY <2>1 DEF IInv, Typed
  <2>. QED
    BY <2>1, <2>2, Zenon DEF Enqueuing
<1>. QED
  BY <1>1, <1>2, <1>3, InvHolds, DeliveriesHold, UnansweredHolds, PTL DEF Spec

-----------------------------------------------------------------------------
(* The types of all variables.                                             *)

\* What the invariants above leave open.
Rest ==
  /\ audit \in SUBSET (Requests \X {"create", "cancel"}) /\ leader \in Operators
  /\ proc \in {"up", "noqueue", "nostore"}
  /\ faults \in [count : 0 .. MaxFaults, lossy : BOOLEAN]
  /\ dc = [r \in Requests |-> dc[r]] /\ dlq = [r \in Requests |-> dlq[r]]
  /\ batch = [o \in Operators |-> batch[o]]

\* The log, the lease and the process, the faults, and the functions.
LEMMA RestStep == ASSUME Rest, [Next]_vars PROVE Rest'
<1>1. ASSUME UNCHANGED faults \/ \E kind : Fault(kind)
      PROVE  faults' \in [count : 0 .. MaxFaults, lossy : BOOLEAN]
  <2>1. CASE UNCHANGED faults
    BY <2>1, Zenon DEF Rest
  <2>2. ASSUME NEW kind, Fault(kind)
        PROVE  faults' \in [count : 0 .. MaxFaults, lossy : BOOLEAN]
    <3>. DEFINE c == faults.count
                b == faults.lossy \/ kind \in LossyFaults
    <3>1. c \in 0 .. MaxFaults
      BY Zenon DEF Rest
    <3>2. c < MaxFaults /\ faults' = [count |-> c + 1, lossy |-> b]
      BY <2>2, Zenon DEF Fault
    <3>3. c + 1 \in 0 .. MaxFaults
      BY <3>1, <3>2, PipelineAssumption
    <3>4. b \in BOOLEAN
      BY Zenon
    <3>. HIDE DEF c, b
    <3>. QED
      BY <3>2, <3>3, <3>4, Zenon
  <2>. QED
    BY <1>1, <2>1, <2>2, Zenon
<1>. DEFINE Quietly == UNCHANGED <<audit, leader, proc, dc, dlq, batch>>
            Faulty == UNCHANGED faults \/ \E kind : Fault(kind)
<1>2. ASSUME Quietly, Faulty PROVE Rest'
  BY <1>1, <1>2, Zenon DEF Rest
<1>3. ASSUME NEW r \in Requests, auditCreate(r) \/ auditCancel(r) PROVE Rest'
  <2>1. /\ audit' = audit \/ audit' = audit \cup {<<r, "create">>}
           \/ audit' = audit \cup {<<r, "cancel">>}
        /\ UNCHANGED <<leader, proc, dc, dlq, batch>>
        /\ UNCHANGED faults \/ \E kind : Fault(kind)
    BY <1>3, Zenon DEF auditCreate, auditCancel, DbAnswers, DbError, nats, consumer
  <2>2. audit' \in SUBSET (Requests \X {"create", "cancel"})
    BY <2>1 DEF Rest
  <2>. QED
    BY <1>1, <2>1, <2>2, Zenon DEF Rest
<1>4. ASSUME NEW r \in Requests,
             \/ insertJob(r) \/ publish(r) \/ deleteJob(r) \/ updateStatus(r) \/ finalize(r)
             \/ AckWaitExpires(r) \/ MaxAge(r)
      PROVE  Rest'
  <2>1. Quietly /\ Faulty
    BY <1>4, Zenon DEF insertJob, publish, deleteJob, updateStatus, finalize, AckWaitExpires, MaxAge,
       DbAnswers, DbError, PublishError, tables, http, nats, consumer
  <2>. QED
    BY <1>2, <2>1, Zenon
<1>5. ASSUME NEW o \in Operators, Consume(o) \/ OperatorCrash(o) PROVE Rest'
  <2>1. UNCHANGED <<audit, leader, proc>> /\ Faulty
    BY <1>5, Zenon DEF Consume, deliver, fetched, handle, publishDLQ, settle, OperatorCrash,
       tables, http
  <2>2. /\ dc' = dc \/ \E id : dc' = [dc EXCEPT ![id] = dc[id] + 1]
        /\ dlq' = dlq \/ \E id : dlq' = [dlq EXCEPT ![id] = dlq[id] + 1]
        /\ batch' = batch \/ \E b : batch' = [batch EXCEPT ![o] = b]
    BY <1>5, Zenon DEF Consume, deliver, fetched, handle, publishDLQ, settle, OperatorCrash,
       Continue, nats
  <2>3. ASSUME NEW S, NEW g, NEW g1, g = [x \in S |-> g[x]],
               g1 = g \/ \E i : \E v : g1 = [g EXCEPT ![i] = v]
        PROVE  g1 = [x \in S |-> g1[x]]
    BY <2>3, Zenon
  <2>4. /\ dc' = [r \in Requests |-> dc'[r]] /\ dlq' = [r \in Requests |-> dlq'[r]]
        /\ batch' = [p \in Operators |-> batch'[p]]
    BY <2>2, <2>3, Zenon DEF Rest
  <2>. QED
    BY <1>1, <2>1, <2>4, Zenon DEF Rest
<1>6. CASE LeaseMoves \/ UNCHANGED vars
  <2>1. /\ leader' = leader \/ leader' \in Operators
        /\ UNCHANGED <<audit, proc, dc, dlq, batch>>
        /\ Faulty
    BY <1>6, Zenon DEF LeaseMoves, vars, tables, http, nats, consumer
  <2>. QED
    BY <1>1, <2>1, Zenon DEF Rest
<1>7. CASE ApiCrash \/ Sigterm \/ closeStore \/ exit
  <2>1. /\ proc' \in {"up", "noqueue", "nostore"}
        /\ UNCHANGED <<audit, leader, dc, dlq, batch>>
        /\ Faulty
    BY <1>7, Zenon DEF ApiCrash, Sigterm, closeStore, exit, tables, nats, consumer
  <2>. QED
    BY <1>1, <2>1, Zenon DEF Rest
<1>. QED
  BY <1>3, <1>4, <1>5, <1>6, <1>7, Zenon DEF Next

\* Every variable of the pipeline keeps its type, deliveries stay within MaxDeliver
\* and faults within their bound, and a consumer that handles a batch has one.
THEOREM PipelineTyped == Spec => []TypeOK
<1>1. Init => Rest
  <2>1. Init => faults \in [count : 0 .. MaxFaults, lossy : BOOLEAN]
    BY PipelineAssumption, SMTT(30) DEF Init
  <2>. QED
    BY <2>1, Zenon DEF Init, Rest
<1>2. Typed /\ Deliveries /\ Rest => TypeOK
  <2>. SUFFICES ASSUME Typed, Deliveries, Rest PROVE TypeOK
    OBVIOUS
  <2>1. /\ \A r \in Requests : dc[r] \in 0 .. MaxDeliver /\ dlq[r] \in Nat
        /\ \A o \in Operators : batch[o] \in Seq(Delivery) /\ (act[o] # "fetch" => batch[o] # <<>>)
    BY Zenon DEF Deliveries, Counts, Loop
  <2>2. dc \in [Requests -> 0 .. MaxDeliver] /\ dlq \in [Requests -> Nat]
    BY <2>1, Zenon DEF Rest
  <2>3. batch \in [Operators -> Seq(Delivery)]
    BY <2>1, Zenon DEF Rest
  <2>. QED
    BY <2>1, <2>2, <2>3, Zenon DEF Typed, Rest, TypeOK
<1>3. IInv => Typed
  BY Zenon DEF IInv
<1>. QED
  BY <1>1, <1>2, <1>3, RestStep, InvHolds, DeliveriesHold, PTL DEF Spec

=============================================================================
