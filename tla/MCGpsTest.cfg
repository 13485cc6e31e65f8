CONSTANTS
  GPS_MAX_SVS = 5
  GPS_TEST_TIME_OUT = 1
  Reports <- MCReports
  Extensions = {}
  MaxSignals = 2
  MaxClock = 2
SPECIFICATION FairSpec
CHECK_DEADLOCK FALSE
INVARIANTS
  TypeOK
  MisuseNeedsSignal
  HalReleased
  PassEvidence
PROPERTIES
  ImplementsFactoryTest
  TestEnds
  InterruptEnds
