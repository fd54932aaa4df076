SPECIFICATION Spec
CONSTANTS
  IovMax = 2
  WriteTimeout = 0
  MaxQueue = 3
  MaxLen = 1
  MaxBytes = 4
INVARIANTS NothingLost
CHECK_DEADLOCK FALSE
