\* Two images; the process may be killed at any step, again and again.
SPECIFICATION FairSpec
CONSTANTS
  a = a  b = b  c = c  n = n  x = x  y = y
  NoDisc = NoDisc  NoName = NoName  Junk = Junk  Hole = Hole
  Discs <- MCTwo
  WiiDiscs <- MCTwo
  MaxDisc = 2
  NBlocks = 3
  NSecs = 2
  Names <- MCNames
  UsedSecs <- MCUsedSecs
  IsoName <- MCIsoName
  AllowFail = FALSE
  AllowSwap = FALSE
  AllowDrop = FALSE
  AllowCrash = TRUE
INVARIANTS
  DiskSound
  RoundTrip
PROPERTIES
  BystandersKept
  ImplementsCatalog
  OperationsEnd
