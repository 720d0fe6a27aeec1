\* What the viewer sees, images with bad poses among good ones.
SPECIFICATION TSpec
CONSTANTS
  MinVsyncChoices = {1}
  Poses = {"good", "bad"}
  WarpModes = {"whole"}
  SpuriousWakeups = FALSE
  BufferBound = 4
  VsyncBound = 4
PROPERTIES
  ScreenNeverBackwards
  SwapTerminates
  PublishedIsShown
