SPECIFICATION Spec
CONSTANTS
  Dumps = {0, 1, 2}
  DeviceOf <- Sensor
  Spill = 1
  HourLength = 2
  MaxHour = 2
  Margin = 1
  Targets = {"t1"}
  SensorsOf <- SensorsOfTarget
  Faults = {"delete", "recover"}
  MaxFaults = 2
INVARIANT NoDumpLost
CHECK_DEADLOCK FALSE
