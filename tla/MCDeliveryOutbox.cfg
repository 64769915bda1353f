SPECIFICATION FairSpec
CONSTANTS
  Processes = {p1, p2}
  Exports = {1}
  Emails = {2}
  MaxAttempts = 2
  MaxRefusals = 2
  MaxFaults = 1
INVARIANTS
  TypeOK
  ExclusiveDelivery
  DeliveryEvidence
  AttemptsBounded
PROPERTIES
  ImplementsDelivery
  EventuallySettled
CHECK_DEADLOCK FALSE
