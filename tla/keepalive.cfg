SPECIFICATION Spec
CONSTANTS
  KeepAlives = {0, 1, 3}
  DoubledMultiplier = 3
  Lateness = 2
  Horizon = 16
  MaxPending = 2
INVARIANTS TypeOK NoticedInTime
PROPERTIES NoEarlyTimeout DeadClientIsClosed
CHECK_DEADLOCK FALSE
