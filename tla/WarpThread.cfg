SPECIFICATION Spec
CONSTANTS
  Resolutions = {64, 128}
  RequestBound = 2
  LifeBound = 2
INVARIANTS
  WatchdogFollows
  SignalledSendIsRight
PROPERTIES
  LifeGoesOn
  RequestIsAnswered
CHECK_DEADLOCK FALSE
