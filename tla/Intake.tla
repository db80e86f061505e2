------------------------------- MODULE Intake -------------------------------
(***************************************************************************)
(* What the way of a job from POST /v1/jobs to its AcceleratorJob promises *)
(* a client that retries with one idempotency key: whatever races, fails   *)
(* or is delivered again, the key stands for one job for ever, every reply *)
(* names that job, and only its message makes an object or a dead letter.  *)
(***************************************************************************)
CONSTANTS Requests, Keys, KeyOf

VARIABLES
  owner,   \* the job a key stands for
  reply,   \* the job a request was told
  queued,  \* the jobs that were enqueued
  object,  \* the AcceleratorJob of each
  dead     \* the jobs that were dead-lettered

vars == <<owner, reply, queued, object, dead>>

Init ==
  /\ owner = [k \in Keys |-> "none"]
  /\ reply = [r \in Requests |-> "none"]
  /\ queued = {} /\ dead = {}
  /\ object = [r \in Requests |-> "none"]

Take(r) ==
  /\ owner[KeyOf[r]] = "none"
  /\ owner' = [owner EXCEPT ![KeyOf[r]] = r]
  /\ UNCHANGED <<reply, queued, object, dead>>

\* The client whose request took the key hears of it once the job is enqueued.
Reply(r) ==
  LET job == owner[KeyOf[r]]
  IN /\ reply[r] = "none" /\ job # "none" /\ (job = r => r \in queued)
     /\ reply' = [reply EXCEPT ![r] = job]
     /\ UNCHANGED <<owner, queued, object, dead>>

Enqueue(r) ==
  /\ owner[KeyOf[r]] = r /\ r \notin queued
  /\ queued' = queued \cup {r}
  /\ UNCHANGED <<owner, reply, object, dead>>

Create(r) ==
  /\ r \in queued /\ object[r] \in {"none", "gone"}
  /\ object' = [object EXCEPT ![r] = "live"]
  /\ UNCHANGED <<owner, reply, queued, dead>>

Delete(r) ==
  /\ \/ object[r] = "live" /\ \E s \in {"deleting", "gone"} : object' = [object EXCEPT ![r] = s]
     \/ object[r] = "deleting" /\ object' = [object EXCEPT ![r] = "gone"]
  /\ UNCHANGED <<owner, reply, queued, dead>>

DeadLetter(r) ==
  /\ r \in queued /\ r \notin dead
  /\ dead' = dead \cup {r}
  /\ UNCHANGED <<owner, reply, queued, object>>

Next ==
  \E r \in Requests :
    Take(r) \/ Reply(r) \/ Enqueue(r) \/ Create(r) \/ Delete(r) \/ DeadLetter(r)

Spec == Init /\ [][Next]_vars
=============================================================================
