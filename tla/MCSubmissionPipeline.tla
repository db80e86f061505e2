------------------------ MODULE MCSubmissionPipeline ------------------------
(***************************************************************************)
(* Instances of SubmissionPipeline for TLC.                                *)
(***************************************************************************)
EXTENDS SubmissionPipeline

CONSTANTS k1, k2, r1, r2, r3

\* r2 is a retry of r1; r3 comes from another client.
keyOf == [r \in Requests |-> IF r = r3 THEN k2 ELSE k1]
teamOf == [r \in Requests |-> IF r = r3 THEN "other" ELSE "team"]
=============================================================================
