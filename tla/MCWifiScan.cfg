CONSTANTS
  WIFI_MAX_AP = 2
  SCAN_RETRY = 3
  CNN_NUM = 5
  SIG_LEVEL <- MCLevel
  SSIDs <- MCSSIDs
  Tables <- MCTables
  ZIB_PASS <- MCPass
  ZIB_FAIL <- MCFail
  SpawnOutcomes <- Unreliable
  MaxTests = 3
SPECIFICATION FairSpec
CHECK_DEADLOCK FALSE
INVARIANTS
  ScanQuiescent
  VerdictExact
  PassFromOneReport
  RetestBlocked
PROPERTIES
  ImplementsFactoryTest
  FirstTestEnds
