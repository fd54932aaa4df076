SPECIFICATION Spec
CONSTANTS
  IovMax = 3
  WriteTimeout = 1
  MaxQueue = 3
  MaxLen = 2
  MaxBytes = 6
PROPERTIES PartialWriteRestartsTimer
CHECK_DEADLOCK FALSE
