SPECIFICATION FairSpec
CONSTANTS
  Job = {j1}
  SceneOf <- MCSceneOf
  Answer = {good, odd}
  Usable = {good}
  NoAnswer = NoAnswer
  LlmWorkers = 2
  MaxFaults = 1
  MaxCrashes = 1
INVARIANTS
  TypeOK
  DoneIsCached
  RefinedIsWhole
PROPERTIES
  DoneStaysDone
  JobsEnd
CHECK_DEADLOCK FALSE
