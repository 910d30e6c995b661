SPECIFICATION Spec
CONSTANTS
  Groups <- MCGroups
  Ends <- MCEnds
  MaxLoaded = 2
  MinSec = 1
  MaxSec = 11
  Size = 11
  Old = "old"
  Values = {"old", "new"}
  Requests <- MCRequests
  MayFail = TRUE
  MaxRequests = 2
  MaxCalls = 3
INVARIANTS TypeOK CacheSound CrashNeedsSecondInit KeepsContent ReadsBack
CHECK_DEADLOCK FALSE
