\* The pane over a file system that others change.
CONSTANTS
  d1 = d1
  d2 = d2
  Dirs <- TwoDirs
  Root = root
  Names <- TwoNames
  IsoNames <- OneIso
  DotNames <- OneDot
  Unreadable <- OneUnreadable
  Home = ".b"
  None = none
  File = file
  Broken = broken
  MaxItems = 2
SPECIFICATION Spec
INVARIANTS
  ListIsOfTheProcess
PROPERTIES
  FilesOfTheList
