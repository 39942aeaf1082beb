----------------------------- MODULE FreeBlocks -----------------------------
(***************************************************************************)
(* The free-block table of a partition, in words of bits, as alloc_block,  *)
(* free_block and wbfs_count_usedblocks of libwbfs.c go through it.  A bit *)
(* that is set is a free block; only whole words are looked at.            *)
(***************************************************************************)
EXTENDS Integers, FiniteSets

CONSTANTS
  NWords,   \* n_wbfs_sec / (8*4)
  WordBits, \* bits of a word (32)
  None      \* ~0, the block number that means none

Words  == 0 .. NWords - 1
Bits   == 0 .. WordBits - 1
Blocks == 1 .. NWords * WordBits

ASSUME TableIsOfWords == NWords \in Nat /\ WordBits \in Nat \ {0}
ASSUME NoneIsNoBlock == None \notin Blocks

VARIABLES
  at,       \* "idle"; "words" and "bits" of alloc_block; "count"
  freeblks, \* the set bits of every word
  word, bit, \* i and j, which the loops have come to
  given,    \* what alloc_block returned last
  count     \* what wbfs_count_usedblocks has counted

table_vars == <<at, freeblks, word, bit, given, count>>

TableInit ==
  /\ at = "idle"
  /\ freeblks \in [Words -> SUBSET Bits]
  /\ word = 0 /\ bit = 0
  /\ given = None
  /\ count = 0

\* The block of bit b of word w.
Block(w, b) == w * WordBits + b + 1

Call(p) ==
  /\ at = "idle"
  /\ at' = p
  /\ word' = 0 /\ bit' = 0 /\ count' = 0
  /\ UNCHANGED <<freeblks, given>>

AllocBegins == Call("words")
CountBegins == Call("count")

\* alloc_block: the next word, for want of a bit in this one.
NextWord ==
  /\ at = "words"
  /\ word < NWords /\ freeblks[word] = {}
  /\ word' = word + 1
  /\ UNCHANGED <<at, freeblks, bit, given, count>>

\* ... the first bit of a word that has one.
EnterWord ==
  /\ at = "words"
  /\ word < NWords /\ freeblks[word] # {}
  /\ at' = "bits"
  /\ bit' = 0
  /\ UNCHANGED <<freeblks, word, given, count>>

NextBit ==
  /\ at = "bits"
  /\ bit \notin freeblks[word]
  /\ bit' = bit + 1
  /\ UNCHANGED <<at, freeblks, word, given, count>>

WordWithoutItsLowest == freeblks[word] \ {0}
WordWithout == freeblks[word] \ {bit}

Found ==
  /\ at = "bits"
  /\ bit \in freeblks[word]
  /\ freeblks' = [freeblks EXCEPT ![word] = WordWithout]
  /\ given' = Block(word, bit)
  /\ at' = "idle"
  /\ UNCHANGED <<word, bit, count>>

NoneFree ==
  /\ at = "words"
  /\ word = NWords
  /\ given' = None
  /\ at' = "idle"
  /\ UNCHANGED <<freeblks, word, bit, count>>

\* free_block, of any block of the table.
BitOf(bl)  == (bl - 1) % WordBits
WordOf(bl) == (bl - 1) \div WordBits
FreeBlock ==
  /\ at = "idle"
  /\ \E bl \in Blocks :
       freeblks' = [freeblks EXCEPT ![WordOf(bl)] = @ \cup {BitOf(bl)}]
  /\ UNCHANGED <<at, word, bit, given, count>>

\* wbfs_count_usedblocks: 32 for a full word, else bit by bit.
BitsSetOnlyFull(w) == IF w = Bits THEN WordBits ELSE 0
BitsSet(w) == IF w = Bits THEN WordBits ELSE Cardinality(w)

CountWord ==
  /\ at = "count"
  /\ word < NWords
  /\ count' = count + BitsSet(freeblks[word])
  /\ word' = word + 1
  /\ UNCHANGED <<at, freeblks, bit, given>>

Counted ==
  /\ at = "count"
  /\ word = NWords
  /\ at' = "idle"
  /\ UNCHANGED <<freeblks, word, bit, given, count>>

TableNext ==
  \/ AllocBegins \/ NextWord \/ EnterWord \/ NextBit \/ Found \/ NoneFree
  \/ FreeBlock
  \/ CountBegins \/ CountWord \/ Counted

TableSpec == TableInit /\ [][TableNext]_table_vars

-----------------------------------------------------------------------------
Free == {bl \in Blocks : BitOf(bl) \in freeblks[WordOf(bl)]}

\* The bit loop of alloc_block stays inside its word, and no block that was
\* not in the table is handed out.
TableTypeOK ==
  /\ at \in {"idle", "words", "bits", "count"}
  /\ freeblks \in [Words -> SUBSET Bits]
  /\ word \in 0 .. NWords /\ bit \in Bits
  /\ given \in Blocks \cup {None}

\* The table is a pool of blocks: whatever words and bits the loops go
\* through, they hand out the lowest free block, and none only when there is
\* none.
Pool == INSTANCE BlockPool WITH free <- Free, Last <- NWords * WordBits
ImplementsPool == Pool!Spec

\* The free space shown in the window is the number of blocks that can be
\* handed out, before the addition of the last word's as after it.
CountIsOfFree ==
  at = "count" =>
    count = Cardinality({bl \in Free : WordOf(bl) < word})
=============================================================================
