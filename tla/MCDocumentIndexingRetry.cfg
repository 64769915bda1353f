SPECIFICATION Spec
CONSTANTS
  NumJobs = 1
  Workers = {w1, w2}
  NoKey = NoKey
  NoOwner = NoOwner
  MaxAttempts = 2
  LeaseTicks = 1
  HeartbeatTicks = 1
  MaxFaults = 0
  BaselineCredits = 3
  EstimatedCredits = 1
  MaxCredits = 2
INVARIANT
  SuccessfulWorkCanSettle
SYMMETRY WorkerSymmetry
