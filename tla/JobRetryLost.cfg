SPECIFICATION Spec
CONSTANTS
  Operators = {o1}
  GangSize = 1
  MaxRetries = 1
  DefaultMaxRetries = 3
  RetryCounts <- counts
  Checkpoint = FALSE
  UsesPool = FALSE
  MaxFaults = 0
  MaxDisruptions = 0
  MaxLag = 2
INVARIANTS
  EveryRetryRan
CHECK_DEADLOCK FALSE
