SPECIFICATION FairSpec
CONSTANTS
  MaxReplicas = 2
  MaxEvents = 2
  MaxVersion = 6
INVARIANTS
  EndpointServed
PROPERTIES
  Converges
  NothingLeftBehind
CHECK_DEADLOCK FALSE
