SPECIFICATION FairSpec
CONSTANTS
  NumJobs = 1
  Workers = {w1, w2}
  DedupeKeys = {k}
  NoKey = NoKey
  NoOwner = NoOwner
  MaxAttempts = 2
  LeaseTicks = 2
  HeartbeatTicks = 1
  MaxDelay = 0
  MaxFaults = 3
  StartupRecoveryMayFail = FALSE
PROPERTIES
  EveryJobFinishes
  StopReturnsInTheEnd
