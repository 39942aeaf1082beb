\* Three words of three bits in every state; every well-formed file table of
\* up to five entries; requests at every offset and of every length on four
\* small discs; devices below 2^31 sectors of 512 bytes.
CONSTANTS
  NWords = 3
  WordBits = 3
  None = none
  MaxEntries = 5
  WordBytes = 2
  SecWords = 2
  BlockSecs = 2
  TableLen = 5
  DeviceBlocks = 7
  Tables <- MCTables
  Devices <- MCDevices
SPECIFICATION LoopsSpec
INVARIANTS
  CountIsOfFree
  EachFileOnce
  FirstOfThatName
  ReadsInsideABlock
  NumbersFit
  AreasApart
PROPERTIES
  ImplementsPool
CHECK_DEADLOCK FALSE
