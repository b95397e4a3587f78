SPECIFICATION FairSpec
CONSTANTS
  a1 = a1
  a2 = a2
  b1 = b1
  pa = pa
  pb = pb
  Caller = {a1, a2, b1}
  Process = {pa, pb}
  ProcessOf <- MCProcessOf
  Input = {x}
  NoCaller = NoCaller
  MaxRequests = 3
  MaxRevision = 2
  MaxCrashes = 1
INVARIANTS
  TypeOK LinearHistory KeysUnique AudioBeforeRow Serialised
PROPERTIES
  RefinesHistory RendersFinish
CHECK_DEADLOCK FALSE
