SPECIFICATION FairSpec
CONSTANTS
  Caller = {c1, c2}
  Handler = {s1}
  Key = {k1, k2}
  Engines <- MCEngines
INVARIANTS
  WorkersAreSafe
PROPERTIES
  CallsEnd
CHECK_DEADLOCK FALSE
