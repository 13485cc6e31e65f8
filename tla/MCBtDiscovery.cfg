CONSTANT
  MaxRuns = 2
SPECIFICATION FairSpec
CHECK_DEADLOCK FALSE
INVARIANTS
  AdapterCallbackSafe
  FoundIsReal
PROPERTIES
  FailureIsReal
  DiscoveryEndsTest
