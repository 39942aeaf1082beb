\* Three images, three slots; nothing fails.
SPECIFICATION Spec
CONSTANTS
  a = a  b = b  c = c  n = n  x = x  y = y
  NoDisc = NoDisc  NoName = NoName  Junk = Junk  Hole = Hole
  Discs <- MCThree
  WiiDiscs <- MCThree
  MaxDisc = 3
  NBlocks = 4
  NSecs = 2
  Names <- MCNames
  UsedSecs <- MCUsedSecs
  IsoName <- MCIsoName
  AllowFail = FALSE
  AllowSwap = FALSE
  AllowDrop = FALSE
  AllowCrash = FALSE
INVARIANTS
  NoLeak
  ListComplete
