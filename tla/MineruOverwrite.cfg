CONSTANTS
  a = a
  b = b
  none = none
  nobox = nobox
  missing = missing
  NoImage = none
  NoBox = nobox
  Missing = missing
  Files <- FilesMC
  Requests <- RequestsMC
  MaxId = 3
  MaxCommands = 6
  StopInPlace = TRUE
SPECIFICATION Spec
INVARIANTS EveryFigureServed
CHECK_DEADLOCK FALSE
