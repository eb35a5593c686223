CONSTANTS
  c1 = c1
  c2 = c2
  Upload <- UploadMC
  Content <- ContentMC
  ContentOf <- ContentOfMC
  Outcomes = {"partial_translated"}
  HasEmbedder = TRUE
  MaxAtOnce = 2
  MaxStops = 1
SPECIFICATION FairSpec
PROPERTY RestartLeavesNoGhost
CHECK_DEADLOCK FALSE
