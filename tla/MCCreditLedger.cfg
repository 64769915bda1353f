SPECIFICATION Spec
CONSTANTS
  NumReservations = 3
  NumKeys = 2
  MaxAmount = 2
  BaselineCredits = 2
INVARIANTS
  TypeOK
  Reconciles
  RefundsWithinCharge
PROPERTIES
  ReservationEndsOnce
  ImplementsPrepaidAccount
CHECK_DEADLOCK FALSE
