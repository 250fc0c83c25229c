SPECIFICATION FairSpec
CONSTANTS
  t1 = t1
  t2 = t2
  h1 = h1
  h2 = h2
  Timer = {t1, t2}
  NoTimer = NoTimer
  Kind = {"alarm"}
  KindOf <- MCKindOf
  Recurring <- MCRecurring
  MaxTime = 1
  Horizon = 3
  NextOccurrence <- MCNextOccurrence
  MaxRepeats = 2
  Grace = 1
  MaxFaults = 0
  Handler = {h1}
  Ahead = 1
  DayLength = 2
  MaxCrashes = 1
PROPERTIES
  DueTimersSettle
  FiringSettles
CHECK_DEADLOCK FALSE
