CONSTANTS
  Request <- RequestMC
  Table = {"chunk", "block"}
  TableOf <- TableOfMC
  Library <- LibraryMC
  MaxAnchor = 3
  MaxThreads = 2
  MaxReingest = 1
  Slots = 1
SPECIFICATION FairSpec
PROPERTY ReplyStaysInItsThread
CHECK_DEADLOCK FALSE
