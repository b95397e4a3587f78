SPECIFICATION Spec
CONSTANTS
  r1 = r1
  r2 = r2
  Chapters = 1
  Runner = {r1, r2}
  Asked = {0}
  Marks = {"ignored"}
  Watched = {"voice_narrator"}
  Movable <- MCMovable
  Take <- MCTake
  UserIssue <- MCUserIssue
  MaxRenders = 1
  MaxExports = 1
  MaxUserIssues = 1
INVARIANTS
  DeskIsTrue
PROPERTIES
  FixedFindingClears
  FailingIsFlagged
CHECK_DEADLOCK FALSE
