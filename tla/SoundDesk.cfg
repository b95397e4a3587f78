SPECIFICATION SoundSpec
CONSTANTS
  p1 = p1
  p2 = p2
  e1 = e1
  w1 = w1
  w2 = w2
  Scenes = 2
  Text <- MCText
  Frames <- MCFrames
  Explicit <- MCExplicit
  Answers <- MCAnswers
  Planner = {p1, p2}
  Extractor = {e1}
  Writer = {w1, w2}
  Mode = {"light_cinematic", "dramatized"}
  Limit = 2
  UserCue <- MCUserCue
  Touchable = {2}
  MayFail = FALSE
  Budgets <- MCBudgets
INVARIANTS
  SilenceIsKept
PROPERTIES
  PlanIsCarriedOut
  LockHolds
SYMMETRY MCPermutations
CHECK_DEADLOCK FALSE
