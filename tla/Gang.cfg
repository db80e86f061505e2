SPECIFICATION FairSpec
CONSTANTS
  n1 = n1
  n2 = n2
  a = a
  b = b
  s = s
  Nodes = {n1, n2}
  Capacity <- capacity
  Gangs = {a, b, s}
  Size <- sizeOversized
  Request <- one
  MaxErrors = 1
INVARIANTS
  OversizedNeverPlaced
PROPERTIES
  GangSeated
  ScoreFollowsStrategy
CHECK_DEADLOCK FALSE
