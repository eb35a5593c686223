CONSTANTS
  bge = bge
  mock = mock
  w1 = w1
  w2 = w2
  NoClient = noclient
  all = all
  AllDocs = all
  Shelf <- ShelfMC
  Models = {bge, mock}
  Workers = {w1, w2}
  Late = {}
  Replaced = {2}
  Scopes <- ScopesMC
  Anchors <- AnchorsMC
  BatchSize = 2
  TopK = 2
  Budget = 3
  Radius = 1
  MaxVersion = 2
  MaxBackfills = 2
SYMMETRY Symmetry
SPECIFICATION Spec
INVARIANTS TypeOK SettledServesAll SearchMatchesTexts ContextFits
CHECK_DEADLOCK FALSE
