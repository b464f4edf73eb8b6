SPECIFICATION Spec
CONSTANTS
  Redemptions = {m1}
  Events = {e1}
  NoEvent = NoEvent
  Workers = {w1}
  Details = {"short"}
  MaxAttempts = 2
  MaxLeases = 2
  MaxDrops = 1
  Timely = TRUE
INVARIANTS
  PendingMeansQueued
CHECK_DEADLOCK FALSE
