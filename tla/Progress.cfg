\* Three acts: the dialog is mapped again, and a request on either side of
\* that.  Two updates: one before the last, and the last.
CONSTANTS
  MaxActs = 3
  MaxUpdates = 2
SPECIFICATION FairSpec
INVARIANTS
  TransferInsideCall
  StopIsKept
  OnlyLateRequestsHurt
PROPERTIES
  RunsOnce
  ShowEnds
