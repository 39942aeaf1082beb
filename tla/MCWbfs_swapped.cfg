\* Images of one and of two blocks, one of them of no Wii disc, may change
\* places, or go, between two times the program opens them.
SPECIFICATION Spec
CONSTANTS
  a = a  b = b  c = c  n = n  x = x  y = y
  NoDisc = NoDisc  NoName = NoName  Junk = Junk  Hole = Hole
  Discs <- MCAll
  WiiDiscs <- MCTwo
  MaxDisc = 2
  NBlocks = 3
  NSecs = 2
  Names <- MCOneName
  UsedSecs <- MCUsedSecs
  IsoName <- MCIsoName
  AllowFail = TRUE
  AllowSwap = TRUE
  AllowDrop = FALSE
  AllowCrash = FALSE
INVARIANTS
  SpaceCheckHolds
  MemorySound
