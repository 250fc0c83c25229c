SPECIFICATION Spec
CONSTANTS
  MinuteLength = 2
  HourMinutes = 2
  HourLength = 4
  HalfDayHours = 2
  Grace = 2
  Zones <- MCAllZones
  Origins = {4}
  MaxTime = 50
INVARIANTS
  TypeOK
  ArmedForTheNext
  ArmedAsSaid
  NoOccurrenceTwice
  MovesByTheSkippedHour
  BackLessThanAnHour
