SPECIFICATION Spec
CONSTANTS
  n1 = n1
  n2 = n2
  n3 = n3
  Notifs = {n1, n2, n3}
  Workers = {w1, w2}
  Size <- Sizes
  NumDBs = 2
  MaxRetries = 1
  Deletions = {n2}
  Expired = {}
  Poison <- FirstOfN3
  CrowdFlow <- FirstOfN1
  LossyFaults <- AllLossyFaults
  MaxFaults = 2
  None = None
SYMMETRY Interchangeable
INVARIANTS
  TypeOK
  NoLoss
  JobsAfterRows
  DatabasesInOrder
  Progress
  CopiesNeedFaults
PROPERTY RefinesDelivery
