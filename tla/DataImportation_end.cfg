SPECIFICATION Spec
CONSTANTS
  Workers = {"w1"}
  Imports = {"i1"}
  Entities = {"e1", "e2"}
  Nobody = "nobody"
  Contents <- OneFile
  Faults = {}
  MaxFaults = 0
INVARIANT EndIsReported
CHECK_DEADLOCK FALSE
