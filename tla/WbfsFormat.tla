---------------------------- MODULE WbfsFormat ----------------------------
(***************************************************************************)
(* What is left of the discs that were on a partition when it was          *)
(* initialised: Wbfs with a history of the discs that were wiped and not   *)
(* added again.                                                            *)
(***************************************************************************)
EXTENDS WbfsProps

VARIABLE wiped

FormatInit == Init /\ wiped = {}

\* Initialising wipes every disc; a disc whose add reaches its disc_info is
\* back for a good reason.
FormatNext ==
  /\ Next
  /\ wiped' = IF pc = "format" /\ pc' # "format" /\ job' = "reset" THEN Discs
              ELSE IF pc = "writeInfo" /\ job = "add" THEN wiped \ {info.id}
              ELSE wiped

FormatSpec == FormatInit /\ [][FormatNext]_<<vars, wiped>>

\* After the partition is initialised ("ALL PARTITION DATA WILL BE
\* PERMANENTLY LOST!", wbfs_gtk.c:754; "initialize the partition with an
\* empty wbfs", libwbfs.h) the list shows only discs added since.
WipedStaysWiped == pc = "idle" => listed \cap wiped = {}

=============================================================================
