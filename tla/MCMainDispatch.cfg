CONSTANTS
  Words <- FourWords
  MaxWords = 4
SPECIFICATION FairSpec
CHECK_DEADLOCK FALSE
INVARIANTS
  TonesFixed
PROPERTIES
  MainEnds
