CONSTANTS
  NetIds <- MCNetIds
  DHCP_RETRY = 3
  MaxEvents = 3
SPECIFICATION FairSpec
CHECK_DEADLOCK FALSE
INVARIANTS
  LeakExact
  LeaseVerdict
  DhcpExclusive
  JoinsOwnNetwork
PROPERTIES
  LoopFreed
