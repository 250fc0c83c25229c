SPECIFICATION Spec
CONSTANTS
  s1 = s1
  s2 = s2
  e1 = e1
  e2 = e2
  Sat = {s1, s2}
  Event = {e1}
  NoEvent = NoEvent
  MaxConns = 1
  MaxQueue = 1
  MaxPresses = 0
  MaxRepeats = 3
  MaxRings = 1
PROPERTIES
  BroadcastIsHeard
CHECK_DEADLOCK FALSE
