\* Three names and room for two; two mounts, of which one fits the array.
CONSTANTS
  sda = sda
  sda1 = sda1
  sdb = sdb
  None = None
  Names <- MCAll
  Disks <- MCEach
  Rank <- MCRank
  PartsOf <- MCPartsOf
  HdSd <- MCAll
  Extended <- MCNothing
  Mountable <- MCMountable
  MaxDevices = 2
  MaxMounts = 1
SPECIFICATION Spec
INVARIANTS
  OnlyPartitionsOverflow
  LoadsTheSelection
  FormatWarned
  NothingMountedListed
  PaneShowsOpen
  ErrorIsAboutTheDevice
PROPERTIES
  SelectionSurvives
