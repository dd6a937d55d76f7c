SPECIFICATION Spec
CONSTANTS
  Timeout = 2
  Drift = 1
  MaxPushes = 2
PROPERTIES
  ImplementsOneStep
  PushEndsWait
  DueTimerEndsWait
CHECK_DEADLOCK FALSE
