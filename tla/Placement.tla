------------------------------ MODULE Placement ------------------------------
(***************************************************************************)
(* The two pure functions of the scheduler extender (internal/scheduler/   *)
(* score.go).                                                              *)
(***************************************************************************)
EXTENDS Integers

\* Mutation: the strategies swapped.
scoreNodeSwapped(strategy, capacity, allocated) ==
  IF capacity <= 0 THEN 0
  ELSE LET held == IF allocated > capacity THEN capacity ELSE allocated
           ratio == (held * 10) \div capacity
       IN  IF strategy = "BinPack" THEN 10 - ratio ELSE ratio

scoreNode(strategy, capacity, allocated) ==
  IF capacity <= 0 THEN 0
  ELSE LET held == IF allocated > capacity THEN capacity ELSE allocated
           ratio == (held * 10) \div capacity
       IN  IF strategy = "Spread" THEN 10 - ratio ELSE ratio

\* Mutations: an exact fit refused; room for one more member is enough.
gangFeasibleStrict(gangSize, alreadyPlaced, requestPerPod, totalFree) ==
  \/ gangSize <= alreadyPlaced
  \/ totalFree > (gangSize - alreadyPlaced) * requestPerPod
gangFeasibleOne(gangSize, alreadyPlaced, requestPerPod, totalFree) ==
  gangSize <= alreadyPlaced \/ totalFree >= requestPerPod

gangFeasible(gangSize, alreadyPlaced, requestPerPod, totalFree) ==
  \/ gangSize <= alreadyPlaced
  \/ totalFree >= (gangSize - alreadyPlaced) * requestPerPod
=============================================================================
