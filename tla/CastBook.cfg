SPECIFICATION CastSpec
CONSTANTS
  Runner = {r1, r2}
  Book <- MCBook
  Cast0 <- MCCast0
  Lines0 <- MCLines0
  Sayings <- MCSayings
  Profiles0 <- MCProfiles0
  NewNames <- MCNewNames
  Catalogue <- MCCatalogue
  Custom = 9
  Kinds = {"v1", "v2", "propose"}
  Budgets <- MCBudgets
  MaxCast = 4
INVARIANTS
  VoicesInUseExist
  NobodyIsLost
  CastIsVoiced
SYMMETRY Runners
CHECK_DEADLOCK FALSE
