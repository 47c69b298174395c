SPECIFICATION Spec
CONSTANTS
  Workers = {w1, w2}
  Admins = {a1}
  NumMaxRetries = 2
  Window = 1
  MaxKills = 0
PROPERTY ActivationStartsFromZero
