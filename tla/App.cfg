\* Eight callbacks in any order that Android may choose, on time or late.
\* The application may stay asleep for ever: no deadlock check.
SPECIFICATION Spec
CHECK_DEADLOCK FALSE
CONSTANTS
  NULL = NULL
  vrMessages = 100
  EventBound = 8
  ReconfigureBound = 1
INVARIANTS
  OnlyOvrMobileHasTheWindow
  Settled
PROPERTIES
  OnlyAReturnedSurfaceLosesAMode
  FramesAreRendered
  DestroyReturns
