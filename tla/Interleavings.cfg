SPECIFICATION Spec
CONSTANTS
  t1 = t1
  t2 = t2
  h1 = h1
  h2 = h2
  Timer = {t1, t2}
  NoTimer = NoTimer
  Kind = {"alarm"}
  KindOf <- MCKindOf
  Recurring <- MCRecurring
  MaxTime = 1
  Horizon = 3
  NextOccurrence <- MCNextOccurrence
  MaxRepeats = 3
  Grace = 1
  MaxFaults = 0
  Handler = {h1, h2}
  Ahead = 1
  DayLength = 2
  MaxCrashes = 0
INVARIANTS
  UncontestedCancelSticks
  AtMostOneAfterAck
PROPERTIES
  RingsToTheEnd
SYMMETRY MCSymmetry
CHECK_DEADLOCK FALSE
