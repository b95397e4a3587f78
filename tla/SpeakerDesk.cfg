SPECIFICATION Spec
CONSTANTS
  Books <- MCBooks
  Cast0 <- MCCast0
  Ballots <- MCBallots
  Replies <- MCReplies
  Edits <- MCEdits
  Modes = {"v1", "v2"}
  ConfidenceV2 = TRUE
  Budgets <- MCBudgets
INVARIANTS
  UnsureIsQueued
PROPERTIES
  LockHolds
CHECK_DEADLOCK FALSE
