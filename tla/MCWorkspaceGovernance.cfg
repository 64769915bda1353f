SPECIFICATION FairSpec
CONSTANTS
  Users = {a, b}
  Founder = a
  Members = {b}
  Leavers = {a}
  Slots = {x1, x2}
  MaxAttempts = 2
  MaxHolds = 1
  MaxChanges = 2
  MaxFaults = 1
INVARIANTS
  TypeOK
  OwnerKept
  ErasureIsWanted
PROPERTIES
  HoldsPreserve
  DeletionSettles
CHECK_DEADLOCK FALSE
