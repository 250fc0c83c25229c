SPECIFICATION Spec
CONSTANTS
  s1 = s1
  s2 = s2
  e1 = e1
  e2 = e2
  Sat = {s1}
  Event = {e1, e2}
  NoEvent = NoEvent
  MaxConns = 1
  MaxQueue = 1
  MaxPresses = 1
  MaxRepeats = 1
  MaxRings = 1
INVARIANTS
  ActiveWhileUnacknowledged
CHECK_DEADLOCK FALSE
