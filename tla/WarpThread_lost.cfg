SPECIFICATION Spec
CONSTANTS
  Resolutions = {64}
  RequestBound = 1
  LifeBound = 1
PROPERTY LeavingEnds
CHECK_DEADLOCK FALSE
