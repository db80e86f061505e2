----------------------------- MODULE JobStatus ------------------------------
(***************************************************************************)
(* What the status of an AcceleratorJob promises whoever watches it: the   *)
(* life of a job as a state machine of its phase, its retry counter and    *)
(* whether a retry is waiting for its backoff.                             *)
(***************************************************************************)
EXTENDS Naturals

CONSTANT Limit  \* how many retries the job has

VARIABLES phase, retries, waiting, present

vars == <<phase, retries, waiting, present>>

Init == phase = "" /\ retries = 0 /\ waiting = FALSE /\ present = TRUE

Active == present /\ phase \in {"", "Pending", "Running"} /\ ~waiting

\* The pods are seen in another phase.
Observe ==
  /\ Active
  /\ phase' \in {"Pending", "Running", "Succeeded"} \ {phase}
  /\ UNCHANGED <<retries, waiting, present>>

\* A pod is seen failed and a retry is left.
ScheduleRetry ==
  /\ Active /\ retries < Limit
  /\ phase' = "Pending" /\ retries' = retries + 1 /\ waiting' = TRUE
  /\ UNCHANGED present

\* A pod is seen failed and none is left.
Fail ==
  /\ Active /\ retries = Limit
  /\ phase' = "Failed"
  /\ UNCHANGED <<retries, waiting, present>>

StartRetry ==
  /\ present /\ waiting
  /\ waiting' = FALSE
  /\ UNCHANGED <<phase, retries, present>>

Delete ==
  /\ present /\ present' = FALSE
  /\ UNCHANGED <<phase, retries, waiting>>

Next == Observe \/ ScheduleRetry \/ Fail \/ StartRetry \/ Delete

Spec == Init /\ [][Next]_vars
=============================================================================
