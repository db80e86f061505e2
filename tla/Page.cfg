SPECIFICATION Spec
CONSTANTS
  Tables = {"jobs", "audit"}
  Ids = {8, 9, 10, 11, 12, 13}
  Teams = {"t1", "t2"}
  Initial <- initial
  Ties = {"jobs"}
  MaxTime = 3
  MaxRows = 6
  Limits <- askedLimits
  DefaultPageLimit = 2
  MaxPageLimit = 3
INVARIANTS
  NewestFirst
  WalkComplete
PROPERTIES
  WalkEnds
CHECK_DEADLOCK FALSE
