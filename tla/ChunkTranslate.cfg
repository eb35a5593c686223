CONSTANTS
  k1 = k1
  k2 = k2
  none = none
  NoKey = none
  BlankKey = blank
  NChunks = 4
  Keys <- KeysMC
  BodyOf <- BodyOfMC
  CaptionOf <- CaptionOfMC
  Equations <- EquationsMC
  MathKeys = {k2}
  Elsewhere = {}
  Short = {2}
  Explicit = {1, 4}
  Concurrency = 1
  MaxRetries = 1
  MathLossRetries = 1
  MaxRuns = 2
  MaxRepairs = 1
SPECIFICATION FairSpec
INVARIANTS TypeOK OneCallPerKey CacheIsAFunction WholeRows RepairStaysLocal NobodyStuck
PROPERTIES FinishedRunAccounted RunEnds
CHECK_DEADLOCK FALSE
