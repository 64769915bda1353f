SPECIFICATION FairSpec
CONSTANTS
  NumRequests = 2
  BaselineCredits = 3
  EstimatedCredits = 2
  Costs = {1}
  MaxAgentEvents = 2
  MaxFaults = 1
INVARIANTS
  TypeOK
  UsageAccounted
  SeenInOrder
PROPERTIES
  ImplementsMeteredRun
  TerminalIsFinal
  RunEndsAfterDisconnect
CHECK_DEADLOCK FALSE
