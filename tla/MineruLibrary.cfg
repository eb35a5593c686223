CONSTANTS
  a = a
  b = b
  none = none
  nobox = nobox
  missing = missing
  NoImage = none
  NoBox = nobox
  Missing = missing
  Files <- FilesMC
  Requests <- RequestsMC
  MaxId = 3
  MaxCommands = 7
  StopInPlace = FALSE
SPECIFICATION Spec
INVARIANTS TypeOK EveryFigureServed ChunksOnTheirPages
PROPERTIES LegacyUntouched
CHECK_DEADLOCK FALSE
