SPECIFICATION Spec
CONSTANTS
  a = a  b = b  c = c  n = n  x = x  y = y
  NoDisc = NoDisc  NoName = NoName  Junk = Junk  Hole = Hole
  Discs <- MCAll
  WiiDiscs <- MCTwo
  MaxDisc = 2
  NBlocks = 3
  NSecs = 2
  Names <- MCOneName
  UsedSecs <- MCUsedSecs
  IsoName <- MCIsoName
  AllowFail = TRUE
  AllowSwap = FALSE
  AllowDrop = FALSE
  AllowCrash = FALSE
INVARIANT AddCanBegin
