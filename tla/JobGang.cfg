SPECIFICATION Spec
CONSTANTS
  Operators = {o1}
  GangSize = 2
  MaxRetries = 1
  DefaultMaxRetries = 3
  RetryCounts <- counts
  Checkpoint = TRUE
  UsesPool = FALSE
  MaxFaults = 0
  MaxDisruptions = 1
  MaxLag = 1
SYMMETRY Symmetric
VIEW recent
INVARIANTS
  SucceededMeansAllRan
  
  RetrySparesNewAttempt
PROPERTIES
  FailedPodsKept
  Lifecycle
CHECK_DEADLOCK FALSE
