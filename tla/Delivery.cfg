SPECIFICATION FairSpecAll
CONSTANTS
  Polls = {p1, p2}
  MaxSends = 3
  Alone = {w}
PROPERTIES
  DeliveredOnce
  Settles
  EventuallyStored
CHECK_DEADLOCK FALSE
