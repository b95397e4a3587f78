SPECIFICATION Spec
CONSTANTS
  Parse <- MCSameParse
  MaxEdits = 3
  MaxReplace = 1
  MaxRenders = 1
INVARIANT StaleAudioIsRefused
CHECK_DEADLOCK FALSE
