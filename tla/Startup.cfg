SPECIFICATION Spec
CONSTANTS
  Starts = 3
  Files <- MCFiles
  Profiles = {"default", "other"}
  Hosts = {"s1", "s2"}
  NoHost = "0.0.0.0"
  Mac <- MCMac
  NoMac = "unknown"
  Frames <- MCFrames
  ArpTries = 3
  ArpTicks = 1
CHECK_DEADLOCK FALSE
INVARIANTS TypeOK ConfigMeans HandlesOwned ResidentReady OneResident FailedLeavesNothing
PROPERTY StartEnds
