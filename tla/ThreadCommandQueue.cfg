\* Two producers; commands of one and two blocks wrap in a ring of five.
SPECIFICATION Spec
CONSTANTS
  Producers = {p1, p2}
  Size = 5
  PostSizes = {2}
  WaitSizes = {1}
  ExitSize = 1
  CallBound = 5
  NULL = NULL
INVARIANTS
  NeverPollsOnCommands
  RingAndPool
  ConsumedBeforeShutdown
PROPERTIES
  ImplementsCommandQueue
  WaitMeansExecuted
  CallsReturn
