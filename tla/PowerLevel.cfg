\* Two rides with a hot phone, which may be pulled out and put back.
SPECIFICATION Spec
CONSTANTS
  PowerSavers = {"pui"}
  FramesOutlastSwitch = FALSE
  EventBound = 5
INVARIANTS
  
  VrModeKeepsServices
PROPERTIES
  ThrottleOutlastsRide
  UndockFinishes
  UnmountEndsThrottle
