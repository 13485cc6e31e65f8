CONSTANTS
  MAX_RETRY = 1
  MaxServices = 3
  MaxObjects = 2
  MaxReconnects = 2
  MaxCalls = 1
  MaxEvents = 4
  MaxTests = 2
SPECIFICATION FairSpec
CHECK_DEADLOCK FALSE
INVARIANTS
  TypeOK
  FaultNeedsCause
  CallbacksSafe
  SecondNeedsDeath
  ReadyHasService
PROPERTIES
  Reconnected
