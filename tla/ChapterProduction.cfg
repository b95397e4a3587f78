SPECIFICATION FairSpec
CONSTANTS
  t1 = t1
  t2 = t2
  N = 2
  Thread = {t1, t2}
  Input = {x}
  NoThread = NoThread
  ForceValues = {TRUE, FALSE}
  PatchAllowed = TRUE
  MaxRevision = 2
  MaxRenders = 2
  MaxJobs = 2
  MaxCrashes = 1
INVARIANTS
  ChaptersFollowRows
PROPERTY JobsEnd
CHECK_DEADLOCK FALSE
