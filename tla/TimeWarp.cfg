\* Five buffers in a ring of four, whole and sliced warps, spurious wakeups.
SPECIFICATION Spec
CONSTANTS
  MinVsyncChoices = {1, 2}
  Poses = {"good"}
  WarpModes = {"whole", "sliced"}
  SpuriousWakeups = TRUE
  BufferBound = 5
  VsyncBound = 5
INVARIANTS
  SourceNotTorn
  EyeTexturesIdle
  NoPileUp
  PacedFromTheClock
PROPERTIES
  NeverBackwards
  PreviousRendered
