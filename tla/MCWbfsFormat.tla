--------------------------- MODULE MCWbfsFormat ---------------------------
(***************************************************************************)
(* Small instances of WbfsFormat, with the images of MCWbfs.               *)
(***************************************************************************)
EXTENDS WbfsFormat

CONSTANTS a, b, c, n, x, y

MCThree     == {a, b, c}
MCTwo       == {a, b}
MCNames     == {x, y}
MCOneName   == {x}
MCUsedSecs  == [d \in Discs |-> IF d \in {b, c} THEN {0, 1} ELSE {0}]
MCIsoName   == [d \in Discs |-> x]
=============================================================================
