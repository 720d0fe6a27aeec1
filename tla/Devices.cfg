\* Two threads that share two devices, one of which is plugged in or out.
SPECIFICATION Spec
CONSTANTS
  Threads = {t1, t2}
  Devices = {d1, d2}
  Manager = Manager
  PlugBound = 1
  NULL = NULL
INVARIANTS
  CountsOwners
  ThreadOutlivesDevices
PROPERTIES
  UsesCommandQueue
  ShutdownCompletes
