SPECIFICATION Spec
CONSTANTS
  Redemptions = {m1}
  Events = {e1}
  NoEvent = NoEvent
  Workers = {w1}
  Details = {"short", "unstorable"}
  MaxAttempts = 2
  MaxLeases = 3
  MaxDrops = 0
  Timely = TRUE
INVARIANTS
  RetriesRunOut
CHECK_DEADLOCK FALSE
