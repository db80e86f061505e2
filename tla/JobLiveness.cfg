SPECIFICATION FairSpec
CONSTANTS
  Operators = {o1}
  GangSize = 1
  MaxRetries = 1
  DefaultMaxRetries = 3
  RetryCounts <- counts
  Checkpoint = FALSE
  UsesPool = TRUE
  MaxFaults = 1
  MaxDisruptions = 0
  MaxLag = 2
INVARIANTS
  BackoffGrows
PROPERTIES
  JobSettles
  OrphansCollected
CHECK_DEADLOCK FALSE
