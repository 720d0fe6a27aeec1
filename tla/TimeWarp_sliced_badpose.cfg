\* The sliced warp skips every image whose pose it rejects.
SPECIFICATION Spec
CONSTANTS
  MinVsyncChoices = {1}
  Poses = {"good", "bad"}
  WarpModes = {"sliced"}
  SpuriousWakeups = FALSE
  BufferBound = 4
  VsyncBound = 4
PROPERTIES
  SwapTerminates
