SPECIFICATION FairSpec
CONSTANTS
  j1 = j1
  j2 = j2
  j3 = j3
  e1 = e1
  e2 = e2
  Job = {j1, j2}
  Resumable = {j1}
  Engine = {e1, e2}
  MaxWorkers = 1
  MaxCrashes = 2
INVARIANTS
  RowsMatchThreads
PROPERTIES
  RowsMoveForward JobsSettle
CHECK_DEADLOCK FALSE
