SPECIFICATION Spec
CONSTANTS
  t1 = t1
  t2 = t2
  h1 = h1
  h2 = h2
  Timer = {t1, t2}
  NoTimer = NoTimer
  Kind = {"alarm"}
  KindOf <- MCKindOf
  Recurring <- MCRecurring
  MaxTime = 2
  Horizon = 4
  NextOccurrence <- MCNextOccurrence
  MaxRepeats = 1
  Grace = 1
  MaxFaults = 1
  Handler = {h1}
  Ahead = 1
  DayLength = 2
  MaxCrashes = 1
INVARIANTS
  TypeOK
  NoLostWakeup
  ConfirmedIsDurable
  DoneIsAccounted
  NoStrandedFiring
PROPERTIES
  OccurrencesAccounted
  SettledStaysSettled
  KeepsPromise
CHECK_DEADLOCK FALSE
