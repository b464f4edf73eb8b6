SPECIFICATION FairSpec
CONSTANTS
  Redemptions = {m1}
  Events = {e1, e2}
  NoEvent = NoEvent
  Workers = {w1, w2}
  Details = {"short"}
  MaxAttempts = 2
  MaxLeases = 3
  MaxDrops = 1
  Timely = TRUE
PROPERTIES
  EventSettles
CHECK_DEADLOCK FALSE
