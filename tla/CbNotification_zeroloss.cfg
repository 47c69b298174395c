SPECIFICATION Spec
CONSTANTS
  n1 = n1
  n2 = n2
  n3 = n3
  Notifs = {n1, n2}
  Workers = {w1}
  Size <- SizeOne
  NumDBs = 1
  MaxRetries = 1
  Deletions = {}
  Expired = {}
  Poison = {}
  CrowdFlow = {}
  LossyFaults = {"dlq"}
  MaxFaults = 3
  None = None
INVARIANT ZeroDataLoss
