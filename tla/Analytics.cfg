SPECIFICATION SpecAll
CONSTANTS
  Dumps = {0, 1, 2}
  DeviceOf <- Sensor
  Spill = 1
  HourLength = 2
  MaxHour = 2
  Margin = 1
  Targets = {"t1"}
  SensorsOf <- SensorsOfTarget
  Faults = {"crash", "upload", "verify", "delete", "read", "publish"}
  MaxFaults = 2
  Twins = {t1, t2}
  None = None
SYMMETRY Interchangeable
INVARIANTS
  TypesOK
  BundleSound
  LearnedOnce
  PagesWhole
  AnswersExact
  RowsReachable
  WindowsOnce
  VisitsAreArrivals
  ClassificationKept
  ImportSound
  NoDumpLost
  ArchivedOnce
PROPERTIES
  ZonesComplete
CHECK_DEADLOCK FALSE
