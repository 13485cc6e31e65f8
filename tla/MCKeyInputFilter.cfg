CONSTANTS
  Keys <- MCTwoKeys
  FunctionKeys <- MCThreeKeys
  Devices = {1, 2}
  DeviceOf <- MCPowerAlone
  FilterAsCoded = TRUE
  KEY_CLICK_GAP = 1
  KEY_LONG_PRESS_TIME = 2
  MaxEvents = 3
  MaxUnread = 1
SPECIFICATION Spec
CHECK_DEADLOCK FALSE
INVARIANTS
  FunctionKeysAnalysed
