------------------------------ MODULE BlockPool ------------------------------
(***************************************************************************)
(* What the free-block table promises: a set of blocks from which the      *)
(* lowest is handed out, and to which blocks are given back.               *)
(***************************************************************************)
EXTENDS Integers

CONSTANTS
  Last,   \* blocks are numbered from 1 to this
  None    \* the answer when there is no free block

VARIABLES
  free,   \* the blocks that may be handed out
  given   \* the answer to the last request

Init ==
  /\ free \in SUBSET (1 .. Last)
  /\ given = None

Take ==
  \E b \in free :
    /\ \A c \in free : b <= c
    /\ given' = b
    /\ free' = free \ {b}

Refuse ==
  /\ free = {}
  /\ given' = None
  /\ free' = free

GiveBack ==
  \E b \in 1 .. Last :
    /\ free' = free \cup {b}
    /\ given' = given

Next == Take \/ Refuse \/ GiveBack

Spec == Init /\ [][Next]_<<free, given>>
=============================================================================
