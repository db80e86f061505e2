---------------------------- MODULE MCApiServer ----------------------------
(***************************************************************************)
(* ApiServer for TLC: a team creates, reads and deletes a job, requests of *)
(* another team and one without a token come in between, and a DELETE      *)
(* or a create comes over gRPC.                                            *)
(***************************************************************************)
EXTENDS ApiServer

CONSTANTS r1, r2, r3, r4, r5, r6, t1, t2

teamOf == [r \in Requests |-> CASE r \in {r1, r2, r3} -> t1
                                [] r = r4 -> t2
                                [] OTHER -> NoTeam]
ops == [r \in Requests |-> CASE r = r1 -> {"create"} [] r = r2 -> {"get"}
                             [] r \in {r4, r6} -> {"create", "delete"}
                             [] OTHER -> {"delete"}]
target == [r \in Requests |-> "job"]
jobTeam == [j \in Jobs |-> t1]
=============================================================================
