-------------------------- MODULE MCQuotaAdmission --------------------------
(***************************************************************************)
(* Instances of QuotaAdmission for TLC: a team with policies, and one     *)
(* without.                                                                *)
(***************************************************************************)
EXTENDS QuotaAdmission

CONSTANTS j1, j2, j3, j4

\* j4 belongs to the team without a policy; j3 asks for as many as a 4-bit sum
\* with the larger cap can hold, or for one more.
team == [j \in Jobs |-> IF j = j4 THEN "free" ELSE "capped"]
count == [j \in Jobs |-> CASE j = j1 -> 2 [] j = j3 -> 4 [] OTHER -> 1]
countHuge == [j \in Jobs |-> CASE j = j1 -> 2 [] j = j3 -> 7 [] OTHER -> 1]
countOne == [j \in Jobs |-> IF j = j1 THEN 2 ELSE 1]
noGang == [j \in Jobs |-> 1]
gangs == [j \in Jobs |-> 2]
capThree == {[team |-> "capped", max |-> 3]}
twoCaps == {[team |-> "capped", max |-> 3], [team |-> "capped", max |-> 2]}
=============================================================================
