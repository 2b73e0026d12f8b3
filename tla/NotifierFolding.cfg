SPECIFICATION Spec
CONSTANTS
  k1 = k1
  k2 = k2
  Key = {k1}
  Unkeyed = u
  NoEvent = none
  Capacity = 2
  MaxAttempts = 2
  Window <- MCWindow
  MaxIdle = 3
  Spacing = 1
  Delays = {1}
  Flush = 2
  MaxEvents = 4
INVARIANTS SuppressedNeverLost
CHECK_DEADLOCK FALSE
