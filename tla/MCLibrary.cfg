\* Every sequence of calls, with trimming and without.
CONSTANTS
  i1 = i1
  i2 = i2
  Ids <- TwoIds
  NoId = NoId
  MaxDisc = 3
  Whole = 6
  PerSector = 2
  MostBlocks = 3
  MostOpen = 2
SPECIFICATION Spec
SYMMETRY Symmetry
INVARIANTS
  NoBlockTwice
PROPERTIES
  ReopensAsClosed
  TrimKeepsPacked
CHECK_DEADLOCK FALSE
