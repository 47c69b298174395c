SPECIFICATION SpecAll
CONSTANTS
  t1 = t1
  t2 = t2
  i1 = i1
  i2 = i2
  Procs = {t1, t2}
  Pids = {i1, i2}
  Devices = {d1}
  Size <- Sizes
  FlushSeconds = 1
  FlushMaxBytes = 2
  MaxBufferBytes = 3
  MayFail = TRUE
  MayCrash = TRUE
  MaxFrames = 3
  MaxTime = 2
  NoLimit = NoLimit
  None = None
SYMMETRY Interchangeable
INVARIANTS
  TypesOK
  RowsCurrent
  LocationsAgree
  SubscribedAreSynced
  OnlyRacersRepeat
  AccessSound
  EachFrameOnce
  ObjectsInOrder
  BufferKeepsNewest
PROPERTIES
  MarkOutlivesOldReports
  AlertsSound
  DeactivationJustified
CHECK_DEADLOCK FALSE
