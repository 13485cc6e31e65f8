CONSTANTS
  Words <- FourWords
  MaxWords = 2
SPECIFICATION Spec
CHECK_DEADLOCK FALSE
INVARIANTS
  WifiNeedsW
