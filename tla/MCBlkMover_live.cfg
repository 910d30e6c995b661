SPECIFICATION FairSpec
CONSTANTS
  Irps = {i1}
  CtlIrp = ctlirp
  Worker = worker
  Sectors = {s1}
  NoIrp = none
  AllocMayFail = TRUE
  Ioctls = {"QUEUED", "RELOCATE"}
PROPERTY QueuedIsAnswered
CHECK_DEADLOCK FALSE
