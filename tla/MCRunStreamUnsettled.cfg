SPECIFICATION Spec
CONSTANTS
  NumRequests = 2
  BaselineCredits = 2
  EstimatedCredits = 1
  Costs = {0, 2}
  MaxAgentEvents = 2
  MaxFaults = 0
INVARIANT
  ConsumedIsSettled
CHECK_DEADLOCK FALSE
