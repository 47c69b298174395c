SPECIFICATION Spec
CONSTANTS
  Workers = {w1}
  Visitors = {v1, v2}
  Hours = {0, 4}
  Length = 1
  ResidentDays = 1
  TouristHours = 3
  ChunkSize = 1
  MaxDay = 3
  MaxStays = 3
  MaxRuns = 2
INVARIANT ReclassifiedIsNotNew
CHECK_DEADLOCK FALSE
