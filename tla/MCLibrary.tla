------------------------------ MODULE MCLibrary ------------------------------
(***************************************************************************)
(* Two ids, three slots and a table that takes several sectors.            *)
(***************************************************************************)
EXTENDS Library, TLC

CONSTANTS i1, i2

TwoIds == {i1, i2}
Symmetry == Permutations(TwoIds)
==============================================================================
