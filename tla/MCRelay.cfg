SPECIFICATION Spec
CONSTANTS
  Sessions = {s1}
  None = none
  Cap = 1
  MaxConns = 3
  MaxSent = 6
INVARIANTS
  DeliveredInOrder
  NothingLost
  ApartOnlyAfterEnd
PROPERTY
  DeliveredOrEnded
CHECK_DEADLOCK FALSE
