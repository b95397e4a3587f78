SPECIFICATION Spec
CONSTANTS
  Parse <- MCParse
  MaxEdits = 3
  MaxReplace = 2
  MaxRenders = 1
INVARIANTS
  Consistent
  CheckedAudioIsText
PROPERTIES
  TextIsKept
  LockedSurvives
CHECK_DEADLOCK FALSE
