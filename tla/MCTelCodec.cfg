CONSTANTS
  RIL_MAX_CALLS = 2
  Texts <- FewTexts
  MaxTexts = 3
  SMSCs <- BothForms
SPECIFICATION CodecSpec
CHECK_DEADLOCK FALSE
INVARIANTS
  LastAidRead
  CallsRead
  SmscDecodes
