SPECIFICATION Spec
CONSTANTS
  Teams = {"", "a", "b"}
  MaxMessages = 5
  BatchSize = 4
  MaxDeliver = 2
  Limit = 2
  MaxErrors = 1
INVARIANTS
  
  ArrivalOrderKept
  RoundRobin
  PeekMissesNothing
CHECK_DEADLOCK FALSE
