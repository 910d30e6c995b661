SPECIFICATION Spec
CONSTANTS
  Irps = {i1, i2}
  NoIrp = none
  Raw = {0, 1, 2}
  Media <- MCMedia
  Formatted <- MCFormatted
  Bodies <- MCBodies
  Requests <- MCRequests
  Types <- MCTypes
  MayFail = TRUE
  MaxRequests = 4
INVARIANTS TypeOK CrashNeedsStaleTest ReferencesBalanced KeepsData OpensAgain
PROPERTIES ReadsBack Answered
CHECK_DEADLOCK FALSE
