SPECIFICATION Spec
CONSTANTS
  Procs = {p1}
  Pids = {i1}
  Devices = {d1, d2}
  Size <- Sizes
  FlushSeconds = 1
  FlushMaxBytes = 2
  MaxBufferBytes = 3
  MayFail = FALSE
  MayCrash = FALSE
  MaxFrames = 4
  MaxTime = 2
PROPERTY ControlledStopKeepsWindow
CHECK_DEADLOCK FALSE
