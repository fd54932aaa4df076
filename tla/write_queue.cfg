SPECIFICATION FairSpec
CONSTANTS
  IovMax = 4
  WriteTimeout = 1
  MaxQueue = 4
  MaxLen = 3
  MaxBytes = 9
INVARIANTS TypeOK NothingLost QueueFits WatcherMatchesQueue NoFault
PROPERTIES ImplementsStream
CHECK_DEADLOCK FALSE
