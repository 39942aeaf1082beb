------------------------------- MODULE MCFsPane -------------------------------
(***************************************************************************)
(* Two directories, one that cannot be read, and a list with room for one  *)
(* row.                                                                    *)
(***************************************************************************)
EXTENDS FsPane

CONSTANTS d1, d2

TwoDirs == {d1, d2}
OneUnreadable == {d2}
TwoNames == {"a.iso", ".b"}
OneIso == {"a.iso"}
OneDot == {".b"}
===============================================================================
