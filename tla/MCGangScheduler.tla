-------------------------- MODULE MCGangScheduler --------------------------
(***************************************************************************)
(* Instances of GangScheduler for TLC.                                     *)
(***************************************************************************)
EXTENDS GangScheduler

CONSTANTS n1, n2, a, b, s

\* One node each of one and two accelerators, and one of four alone.
capacity == [n \in Nodes |-> IF n = n1 THEN 1 ELSE 2]
capacityThree == [n \in Nodes |-> 3]
capacityFour == [n \in Nodes |-> 4]

\* a and b are gangs, s is a job with a single pod.
sizeOversized == [g \in Gangs |-> CASE g = a -> 3 [] g = b -> 4 [] g = s -> 1]
sizeThree == [g \in Gangs |-> IF g = s THEN 1 ELSE 3]
one == [g \in Gangs |-> 1]
two == [g \in Gangs |-> 2]
=============================================================================
