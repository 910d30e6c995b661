SPECIFICATION Spec
CONSTANTS
  Irps = {i1}
  CtlIrp = ctlirp
  Worker = worker
  Sectors = {s1}
  NoIrp = none
  AllocMayFail = FALSE
  Ioctls = {"FREE_SPACE", "PROTECT", "FILTER", "POST_SCRIPT", "QUEUED"}
INVARIANTS TypeOK IrpAccounting WakeupNotLost StalePoolOutOfReach CrashNeedsLifecycleRace
PROPERTY UninitNeverQueues
CHECK_DEADLOCK FALSE
