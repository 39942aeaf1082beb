\* Two Wii images, alike, and one of no Wii disc; everything may fail, but no
\* image becomes another.
SPECIFICATION Spec
CONSTANTS
  a = a  b = b  c = c  n = n  x = x  y = y
  NoDisc = NoDisc  NoName = NoName  Junk = Junk  Hole = Hole
  Discs <- MCAll
  WiiDiscs <- MCTwo
  MaxDisc = 2
  NBlocks = 2
  NSecs = 1
  Names <- MCOneName
  UsedSecs <- MCOneSec
  IsoName <- MCIsoName
  AllowFail = TRUE
  AllowSwap = FALSE
  AllowDrop = TRUE
  AllowCrash = TRUE
SYMMETRY MCAlike
INVARIANTS
  Consistent
  MemorySound
  CloseFindsNoOpenDisc
