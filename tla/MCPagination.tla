---------------------------- MODULE MCPagination ----------------------------
(***************************************************************************)
(* Instances of Pagination for TLC.                                        *)
(***************************************************************************)
EXTENDS Pagination

row(a, i, t) == [at |-> a, id |-> i, team |-> t]

\* Jobs of two teams, three created at the same time; audit entries of
\* different times, across the step from one to two digits.
initial ==
  [jobs |-> {row(1, 8, "t1"), row(1, 10, "t1"), row(1, 12, "t2"), row(0, 11, "t1")},
   audit |-> {row(0, 8, "t1"), row(1, 9, "t1"), row(2, 10, "t1")}]
\* Audit entries written at the same time.
auditTies == [audit |-> {row(1, 9, "t1"), row(1, 10, "t1"), row(1, 11, "t1")}]
askedLimits == {-1, 1, 2, 4}
=============================================================================
