SPECIFICATION Spec
CONSTANTS
  Operators = {o1, o2}
  GangSize = 1
  MaxRetries = 1
  DefaultMaxRetries = 3
  RetryCounts <- counts
  Checkpoint = FALSE
  UsesPool = FALSE
  MaxFaults = 1
  MaxDisruptions = 0
  MaxLag = 1
SYMMETRY Symmetric
VIEW recent
INVARIANTS
  StatusCoherent
  RetryBudget
PROPERTIES
  TerminalIsFinal
CHECK_DEADLOCK FALSE
