SPECIFICATION Spec
CONSTANTS
  Clients = {"a", "b"}
  Num = 2
  Base = 10
  Runs <- MCRuns
  Size = 8
  MaxQueries = 1
  AllocMayFail = TRUE
  LowerMayFail = TRUE
CHECK_DEADLOCK FALSE
INVARIANTS TypeOK LocatedRight PlainWritten CrashNeedsSharing
PROPERTIES MarksStayOff QueryEnds
