CONSTANTS
  Keys <- MCTwoKeys
  FunctionKeys <- MCThreeKeys
  Devices = {1, 2}
  DeviceOf <- MCPowerAlone
  FilterAsCoded = FALSE
  KEY_CLICK_GAP = 1
  KEY_LONG_PRESS_TIME = 2
  MaxEvents = 5
  MaxUnread = 1
SPECIFICATION FairSpec
CHECK_DEADLOCK FALSE
INVARIANTS
  ReportJustified
PROPERTIES
  ReleaseMatches
  GestureEnds
