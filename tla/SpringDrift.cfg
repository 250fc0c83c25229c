SPECIFICATION Spec
CONSTANTS
  MinuteLength = 2
  HourMinutes = 2
  HourLength = 4
  HalfDayHours = 2
  Grace = 2
  Zones <- MCOneSpring
  Origins = {4}
  MaxTime = 50
INVARIANTS BackOnItsTime
