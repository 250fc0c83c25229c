SPECIFICATION FairSpec
CONSTANTS
  pi = pi
  mac = mac
  Satellite = {pi, mac}
  Pi = {pi}
  MaxTurns = 2
  MaxBegun = 2
  OnsetFrames = 1
  QuietNeeded = 2
  MaxFrames = 6
  PrerollFrames = 2
  ChunkFrames = 3
INVARIANTS
  TypeOK
  RecordsTheUtterance
  NoStaleAudio
  TranscribesWholeUtterances
  RoutesWhatWasSaid
  NeverClosesSilently
PROPERTIES
  TurnsEnd
  SessionsEnd
CHECK_DEADLOCK FALSE
