SPECIFICATION Spec
CONSTANTS
  NumJobs = 2
  Workers = {w1, w2}
  DedupeKeys = {k}
  NoKey = NoKey
  NoOwner = NoOwner
  MaxAttempts = 2
  LeaseTicks = 2
  HeartbeatTicks = 1
  MaxDelay = 1
  MaxFaults = 2
  StartupRecoveryMayFail = TRUE
INVARIANTS
  TypeOK
  AttemptsAccounted
  LeaseMatchesStatus
  AttemptsAreFenced
  DedupeKeepsOneActive
PROPERTIES
  LiveLeaseEndsByItsHolder
  ImplementsLifecycle
SYMMETRY WorkerSymmetry
