------------------------------ MODULE MCWbfs ------------------------------
(***************************************************************************)
(* Small instances of Wbfs: images a, b and c compete for the partition, b *)
(* and c use two parts each, and n is an image without the Wii magic.      *)
(***************************************************************************)
EXTENDS WbfsProps, TLC

CONSTANTS a, b, c, n, x, y

MCThree     == {a, b, c}
MCTwo       == {a, b}
MCAll       == {a, b, n}
MCNames     == {x, y}
MCOneName   == {x}
MCUsedSecs  == [d \in Discs |-> IF d \in {b, c} THEN {0, 1} ELSE {0}]
MCOneSec    == [d \in Discs |-> {0}]
MCIsoName   == [d \in Discs |-> x]
MCAlike     == Permutations(MCTwo)
=============================================================================
