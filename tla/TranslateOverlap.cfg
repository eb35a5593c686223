CONSTANTS
  k1 = k1
  k2 = k2
  none = none
  NoKey = none
  NBlocks = 4
  Keys <- KeysMC
  KeyOf <- KeyOfMC
  Elsewhere <- ElsewhereMC
  Concurrency = 1
  MaxRetries = 1
  MaxRuns = 2
  Reader = {1}
  Overlap = TRUE
SPECIFICATION FairSpec
PROPERTY TranslatedRowsKept
CHECK_DEADLOCK FALSE
