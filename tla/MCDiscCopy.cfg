\* Both passes of an add over discs with files around every edge, and over
\* tables of up to four partitions.
CONSTANTS
  Discs <- MCDiscs
  Selectors <- MCSelectors
  BlockSizes <- MCBlockSizes
  Entries <- MCEntries
  MaxParts = 4
SPECIFICATION CopySpec
INVARIANTS
  CopyIsEnough
  NothingElse
  ListsTheSelected
  ListedIsCopied
CHECK_DEADLOCK FALSE
