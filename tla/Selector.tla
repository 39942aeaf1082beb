------------------------------ MODULE Selector ------------------------------
(***************************************************************************)
(* partition_selector_t of wiidisc.h: a type of partition, or one of three *)
(* values that stand for several types.                                    *)
(***************************************************************************)
EXTENDS Integers

CONSTANT Selectors   \* what may be selected

\* 0xffffffff - 3 and the two values behind it, as signed words.
ALL_PARTITIONS          == -4
REMOVE_UPDATE_PARTITION == -3
ONLY_GAME_PARTITION     == -2

test_parition_skip(type, sel) ==
  CASE sel = ALL_PARTITIONS          -> FALSE
    [] sel = REMOVE_UPDATE_PARTITION -> type = 1
    [] sel = ONLY_GAME_PARTITION     -> type # 0
    [] OTHER                         -> type # sel
=============================================================================
