CONSTANTS
  MAX_RETRY = 1
  MaxServices = 2
  MaxObjects = 2
  MaxReconnects = 2
  MaxCalls = 1
  MaxEvents = 4
  MaxTests = 1
SPECIFICATION Spec
CHECK_DEADLOCK FALSE
INVARIANTS
  DialSent
