SPECIFICATION Spec
CONSTANTS
  Redemptions = {m1}
  Events = {e1, e2}
  NoEvent = NoEvent
  Workers = {w1, w2}
  Details = {"short", "unstorable"}
  MaxAttempts = 2
  MaxLeases = 3
  MaxDrops = 1
  Timely = FALSE
SYMMETRY WorkerSymmetry
INVARIANTS
  TypeOK
  OneLiveEvent
  ShownOutcomeIsReal
  OneLeaseHolder
  DeadLetterIsEarned
PROPERTIES
  TerminalIsFinal
CHECK_DEADLOCK FALSE
