----------------------------- MODULE LoopsProofs -----------------------------
(***************************************************************************)
(* Theorems about the parts of libwbfs that are sequential algorithms of   *)
(* their own: the free-block table, for every number of words of 32 bits,  *)
(* the words of the code; the walk over a file table, for tables of any    *)
(* length and nesting; and the reads of a stored disc, for all sizes.      *)
(***************************************************************************)
EXTENDS FreeBlocks, FileTable, DiscRead, FiniteSetTheorems, FunctionTheorems, TLAPS

-----------------------------------------------------------------------------
(* The free-block table.                                                   *)

\* The bits of a word, without the interval.
LEMMA BitsAre ==
  ASSUME WordBits = 32
  PROVE  \A b : b \in Bits <=> b \in Nat /\ b < 32
BY DEF Bits

LEMMA Division ==
  ASSUME NEW m \in Nat,
         NEW q \in Nat, q = m \div 32, NEW r \in Nat, r = m % 32
  PROVE  m = 32 * q + r
BY SMT

\* A word and a bit name one block, and a block one word and one bit.
LEMMA Numbering ==
  ASSUME WordBits = 32
  PROVE  /\ \A w \in Words, b \in Bits :
              /\ Block(w, b) \in Blocks
              /\ WordOf(Block(w, b)) = w
              /\ BitOf(Block(w, b)) = b
         /\ \A bl \in Blocks :
              /\ WordOf(bl) \in Words
              /\ BitOf(bl) \in Bits
              /\ bl = Block(WordOf(bl), BitOf(bl))
<1>1. ASSUME NEW w \in Words, NEW b \in Bits
      PROVE  /\ Block(w, b) \in Blocks
             /\ WordOf(Block(w, b)) = w
             /\ BitOf(Block(w, b)) = b
  <2>1. w \in Nat /\ b \in Nat /\ w < NWords /\ b < 32 /\ NWords \in Nat
    BY TableIsOfWords, BitsAre DEF Words
  <2>2. Block(w, b) = w * 32 + b + 1 /\ Block(w, b) - 1 = w * 32 + b
    BY <2>1, SMT DEF Block
  <2>3. (w * 32 + b) \div 32 = w /\ (w * 32 + b) % 32 = b
    BY <2>1, SMT
  <2>4. w * 32 + b + 1 \in 1 .. NWords * 32
    BY <2>1, SMT
  <2> QED  BY <2>2, <2>3, <2>4 DEF WordOf, BitOf, Blocks
<1>2. ASSUME NEW bl \in Blocks
      PROVE  /\ WordOf(bl) \in Words
             /\ BitOf(bl) \in Bits
             /\ bl = Block(WordOf(bl), BitOf(bl))
  <2>1. bl \in Nat /\ 1 <= bl /\ bl <= NWords * 32 /\ NWords \in Nat
    BY TableIsOfWords DEF Blocks
  <2> DEFINE w == (bl - 1) \div 32
             b == (bl - 1) % 32
  <2>2. WordOf(bl) = w /\ BitOf(bl) = b
    BY DEF WordOf, BitOf
  <2>3. bl - 1 \in Nat
    BY <2>1
  <2>4. w \in Nat /\ b \in Nat /\ b < 32
    BY <2>3, SMT
  <2>5. bl - 1 = 32 * w + b
    BY <2>3, <2>4, Division
  <2> HIDE DEF w, b
  <2>6. w < NWords /\ bl = w * 32 + b + 1
    BY <2>1, <2>4, <2>5
  <2> QED  BY <2>1, <2>2, <2>4, <2>6, BitsAre DEF Block, Words
<1> QED  BY <1>1, <1>2

\* Blocks are in the order of their words, then of their bits.
LEMMA Order ==
  ASSUME WordBits = 32,
         NEW w \in Words, NEW b \in Bits, NEW v \in Words, NEW c \in Bits,
         w < v \/ (w = v /\ b <= c)
  PROVE  Block(w, b) <= Block(v, c)
BY TableIsOfWords, BitsAre, SMT DEF Words, Block

\* What the two loops of alloc_block know on the way.
Passed ==
  /\ at \in {"words", "bits"} => \A w \in Words : w < word => freeblks[w] = {}
  /\ at = "bits" =>
       /\ word \in Words
       /\ \E b \in freeblks[word] : b >= bit
       /\ \A b \in freeblks[word] : b >= bit

IInv == TableTypeOK /\ Passed

LEMMA InitIInv == ASSUME WordBits = 32, TableInit PROVE IInv
BY TableIsOfWords, BitsAre DEF TableInit, IInv, TableTypeOK, Passed, Words

LEMMA NextIInv ==
  ASSUME WordBits = 32, IInv, [TableNext]_table_vars PROVE IInv'
<1> USE TableIsOfWords, BitsAre DEF IInv, TableTypeOK, Passed, Words
<1>1. CASE AllocBegins
  BY <1>1 DEF AllocBegins, Call
<1>2. CASE NextWord
  BY <1>2 DEF NextWord
<1>3. CASE EnterWord
  <2>1. word \in Words /\ freeblks[word] \in SUBSET Bits
    BY <1>3 DEF EnterWord
  <2> QED  BY <1>3, <2>1 DEF EnterWord
<1>4. CASE NextBit
  <2>1. PICK b \in freeblks[word] : b >= bit
    BY <1>4 DEF NextBit
  <2>2. word \in Words /\ freeblks[word] \in SUBSET Bits
    BY <1>4 DEF NextBit
  <2>3. b \in Bits /\ b # bit /\ b >= bit + 1 /\ bit + 1 \in Bits
    BY <1>4, <2>1, <2>2 DEF NextBit
  <2>4. \A c \in freeblks[word] : c >= bit + 1
    BY <1>4, <2>2 DEF NextBit
  <2> QED  BY <1>4, <2>1, <2>2, <2>3, <2>4 DEF NextBit
<1>5. CASE Found
  <2>1. word \in Words
    BY <1>5 DEF Found
  <2>2. Block(word, bit) \in Blocks
    BY <2>1, Numbering
  <2>3. WordWithout \in SUBSET Bits
    BY <2>1 DEF WordWithout
  <2> QED  BY <1>5, <2>1, <2>2, <2>3 DEF Found
<1>6. CASE NoneFree
  BY <1>6 DEF NoneFree
<1>7. CASE FreeBlock
  <2>1. PICK bl \in Blocks :
          freeblks' = [freeblks EXCEPT ![WordOf(bl)] = @ \cup {BitOf(bl)}]
    BY <1>7 DEF FreeBlock
  <2>2. WordOf(bl) \in Words /\ BitOf(bl) \in Bits
    BY Numbering
  <2> QED  BY <1>7, <2>1, <2>2 DEF FreeBlock
<1>8. CASE CountBegins
  BY <1>8 DEF CountBegins, Call
<1>9. CASE CountWord
  BY <1>9 DEF CountWord
<1>10. CASE Counted
  BY <1>10 DEF Counted
<1>11. CASE UNCHANGED table_vars
  BY <1>11 DEF table_vars
<1> QED
  BY <1>1, <1>2, <1>3, <1>4, <1>5, <1>6, <1>7, <1>8, <1>9, <1>10, <1>11
  DEF TableNext

-----------------------------------------------------------------------------
(* The pool.                                                               *)

LEMMA InitPool == ASSUME WordBits = 32, TableInit PROVE Pool!Init
BY DEF TableInit, Pool!Init, Free, Blocks

LEMMA FoundTakes ==
  ASSUME WordBits = 32, IInv, IInv', Found PROVE Pool!Take
<1>1. word \in Words /\ bit \in Bits /\ bit \in freeblks[word]
  BY DEF Found, IInv, TableTypeOK, Passed
<1> DEFINE B == Block(word, bit)
<1>2. B \in Blocks /\ WordOf(B) = word /\ BitOf(B) = bit /\ B \in Free
  BY <1>1, Numbering DEF Free
<1>3. ASSUME NEW c \in Free PROVE B <= c
  <2>1. /\ WordOf(c) \in Words /\ BitOf(c) \in freeblks[WordOf(c)]
        /\ BitOf(c) \in Bits /\ c = Block(WordOf(c), BitOf(c))
    BY Numbering DEF Free
  <2>2. WordOf(c) >= word /\ (WordOf(c) = word => bit <= BitOf(c))
    BY <1>1, <2>1, BitsAre, TableIsOfWords DEF Found, IInv, Passed, Words
  <2>3. word < WordOf(c) \/ (word = WordOf(c) /\ bit <= BitOf(c))
    BY <1>1, <2>1, <2>2, TableIsOfWords DEF Words
  <2> QED  BY <1>1, <2>1, <2>3, Order
<1>4. Free' = Free \ {B}
  <2>1. ASSUME NEW bl \in Blocks
        PROVE  BitOf(bl) \in freeblks'[WordOf(bl)]
                 <=> BitOf(bl) \in freeblks[WordOf(bl)] /\ bl # B
    <3>1. WordOf(bl) \in Words /\ bl = Block(WordOf(bl), BitOf(bl))
      BY Numbering
    <3>2. bl = B <=> WordOf(bl) = word /\ BitOf(bl) = bit
      BY <1>2, <3>1
    <3>3. freeblks' = [freeblks EXCEPT ![word] = freeblks[word] \ {bit}]
      BY DEF Found, WordWithout
    <3>4. freeblks \in [Words -> SUBSET Bits]
      BY DEF IInv, TableTypeOK
    <3> HIDE DEF B
    <3> QED  BY <1>1, <3>1, <3>2, <3>3, <3>4
  <2> QED  BY <2>1 DEF Free
<1>5. given' = B
  BY DEF Found
<1> HIDE DEF B
<1> QED  BY <1>2, <1>3, <1>4, <1>5 DEF Pool!Take

LEMMA NoneFreeRefuses ==
  ASSUME WordBits = 32, IInv, NoneFree PROVE Pool!Refuse
<1>1. \A w \in Words : freeblks[w] = {}
  BY TableIsOfWords DEF NoneFree, IInv, Passed, Words
<1>2. Free = {}
  BY <1>1, Numbering DEF Free
<1> QED  BY <1>2 DEF NoneFree, Pool!Refuse, Free

LEMMA FreeBlockGivesBack ==
  ASSUME WordBits = 32, IInv, FreeBlock PROVE Pool!GiveBack
<1>1. PICK bl \in Blocks :
        freeblks' = [freeblks EXCEPT ![WordOf(bl)] = @ \cup {BitOf(bl)}]
  BY DEF FreeBlock
<1>2. Free' = Free \cup {bl}
  <2>1. ASSUME NEW c \in Blocks
        PROVE  BitOf(c) \in freeblks'[WordOf(c)]
                 <=> BitOf(c) \in freeblks[WordOf(c)] \/ c = bl
    <3>1. /\ WordOf(c) \in Words /\ c = Block(WordOf(c), BitOf(c))
          /\ WordOf(bl) \in Words /\ bl = Block(WordOf(bl), BitOf(bl))
      BY Numbering
    <3>2. c = bl <=> WordOf(c) = WordOf(bl) /\ BitOf(c) = BitOf(bl)
      BY <3>1
    <3>3. freeblks \in [Words -> SUBSET Bits]
      BY DEF IInv, TableTypeOK
    <3> QED  BY <1>1, <3>1, <3>2, <3>3
  <2> QED  BY <2>1 DEF Free
<1>3. bl \in 1 .. NWords * WordBits /\ given' = given
  BY DEF Blocks, FreeBlock
<1> QED  BY <1>2, <1>3 DEF Pool!GiveBack

LEMMA NextPool ==
  ASSUME WordBits = 32, IInv, IInv', [TableNext]_table_vars
  PROVE  [Pool!Next]_<<Free, given>>
<1>1. CASE Found
  BY <1>1, FoundTakes DEF Pool!Next
<1>2. CASE NoneFree
  BY <1>2, NoneFreeRefuses DEF Pool!Next
<1>3. CASE FreeBlock
  BY <1>3, FreeBlockGivesBack DEF Pool!Next
<1>4. CASE UNCHANGED <<freeblks, given>>
  BY <1>4 DEF Free
<1>5. \/ Found \/ NoneFree \/ FreeBlock
      \/ UNCHANGED <<freeblks, given>>
  BY DEF TableNext, table_vars, AllocBegins, CountBegins, Call, NextWord, EnterWord,
         NextBit, CountWord, Counted
<1> QED  BY <1>1, <1>2, <1>3, <1>4, <1>5

-----------------------------------------------------------------------------
(* The count.                                                              *)

BitsToBlocks(w, S) == {Block(w, b) : b \in S}

LEMMA AsManyBlocksAsBits ==
  ASSUME WordBits = 32, NEW w \in Words, NEW S \in SUBSET Bits
  PROVE  /\ IsFiniteSet(BitsToBlocks(w, S))
         /\ Cardinality(BitsToBlocks(w, S)) = Cardinality(S)
         /\ Cardinality(S) \in Nat
<1> DEFINE T == BitsToBlocks(w, S)
           f == [b \in S |-> Block(w, b)]
<1>1. IsFiniteSet(S) /\ Cardinality(S) \in Nat
  <2>1. IsFiniteSet(Bits)
    <3>1. 0 \in Int /\ WordBits - 1 \in Int
      OBVIOUS
    <3> QED  BY <3>1, FS_Interval DEF Bits
  <2> QED  BY <2>1, FS_Subset, FS_CardinalityType
<1>2. f \in [S -> T]
  BY DEF BitsToBlocks
<1>3. \A a, b \in S : f[a] = f[b] => a = b
  BY Numbering
<1>4. \A t \in T : \E b \in S : f[b] = t
  BY DEF BitsToBlocks
<1>5. f \in Bijection(S, T)
  <2> HIDE DEF f, T
  <2> QED  BY <1>2, <1>3, <1>4 DEF Bijection, Injection, Surjection, IsInjective
<1>6. ExistsBijection(S, T)
  BY <1>5 DEF ExistsBijection
<1> QED  BY <1>1, <1>6, FS_Bijection

\* The free blocks of the words below w.
FreeBelow(w) == {bl \in Free : WordOf(bl) < w}

LEMMA BlocksAreFinite == IsFiniteSet(FreeBelow(word))
<1>1. NWords * WordBits \in Int
  BY TableIsOfWords
<1>2. IsFiniteSet(Blocks)
  BY <1>1, FS_Interval DEF Blocks
<1> QED  BY <1>2, FS_Subset DEF FreeBelow, Free

LEMMA CountInit == ASSUME TableInit PROVE CountIsOfFree
BY DEF TableInit, CountIsOfFree

LEMMA BitsSetIsCardinality ==
  ASSUME WordBits = 32, NEW S \in SUBSET Bits
  PROVE  BitsSet(S) = Cardinality(S)
<1>1. Cardinality(Bits) = 32
  <2>1. 0 \in Int /\ WordBits - 1 \in Int /\ ~(0 > WordBits - 1)
        /\ WordBits - 1 - 0 + 1 = 32
    OBVIOUS
  <2> QED  BY <2>1, FS_Interval DEF Bits
<1> QED  BY <1>1 DEF BitsSet

LEMMA CountNext ==
  ASSUME WordBits = 32, IInv, CountIsOfFree, [TableNext]_table_vars
  PROVE  CountIsOfFree'
<1>1. CASE CountBegins
  <2>1. word' = 0 /\ count' = 0 /\ Free' = Free
    BY <1>1 DEF CountBegins, Call, Free
  <2>2. {bl \in Free : WordOf(bl) < 0} = {}
    BY Numbering, TableIsOfWords DEF Free, Words
  <2> QED  BY <2>1, <2>2, FS_EmptySet DEF CountIsOfFree
<1>2. CASE CountWord
  <2>1. word \in Words /\ freeblks[word] \in SUBSET Bits
    BY <1>2, TableIsOfWords DEF CountWord, IInv, TableTypeOK, Words
  <2> DEFINE N == BitsToBlocks(word, freeblks[word])
  <2>2. FreeBelow(word + 1) = FreeBelow(word) \cup N
    <3>1. ASSUME NEW bl \in Free, WordOf(bl) < word + 1
          PROVE  WordOf(bl) < word \/ bl \in N
      <4>1. /\ WordOf(bl) \in Words /\ bl = Block(WordOf(bl), BitOf(bl))
            /\ BitOf(bl) \in freeblks[WordOf(bl)]
        BY Numbering DEF Free
      <4>2. WordOf(bl) < word \/ WordOf(bl) = word
        BY <2>1, <3>1, <4>1, TableIsOfWords DEF Words
      <4> QED  BY <4>1, <4>2 DEF BitsToBlocks
    <3>2. ASSUME NEW bl \in N PROVE bl \in Free /\ WordOf(bl) = word
      BY <2>1, Numbering DEF BitsToBlocks, Free
    <3>3. word < word + 1 /\ \A w \in Words : w < word => w < word + 1
      BY <2>1, TableIsOfWords DEF Words
    <3>4. \A bl \in Free : WordOf(bl) \in Words
      BY Numbering DEF Free
    <3> HIDE DEF N
    <3> QED  BY <3>1, <3>2, <3>3, <3>4 DEF FreeBelow
  <2>3. FreeBelow(word) \cap N = {}
    BY <2>1, Numbering, TableIsOfWords DEF FreeBelow, BitsToBlocks, Words
  <2>4. /\ IsFiniteSet(N) /\ Cardinality(N) = Cardinality(freeblks[word])
        /\ Cardinality(N) \in Nat
    BY <2>1, AsManyBlocksAsBits
  <2>5. IsFiniteSet(FreeBelow(word)) /\ Cardinality(FreeBelow(word)) \in Nat
    BY BlocksAreFinite, FS_CardinalityType
  <2>6. Cardinality(FreeBelow(word + 1))
          = Cardinality(FreeBelow(word)) + Cardinality(N)
    <3> HIDE DEF N
    <3>1. Cardinality(FreeBelow(word) \cup N)
            = Cardinality(FreeBelow(word)) + Cardinality(N) - 0
      BY <2>3, <2>4, <2>5, FS_Union, FS_EmptySet
    <3>2. Cardinality(FreeBelow(word) \cup N)
            = Cardinality(FreeBelow(word)) + Cardinality(N)
      BY <2>4, <2>5, <3>1
    <3> QED  BY <2>2, <3>2, Zenon
  <2>7. count' = count + Cardinality(freeblks[word]) /\ word' = word + 1
        /\ count = Cardinality(FreeBelow(word))
    BY <1>2, <2>1, BitsSetIsCardinality
    DEF CountWord, CountIsOfFree, FreeBelow
  <2>8. FreeBelow(word + 1) = {bl \in Free : WordOf(bl) < word + 1} /\ Free' = Free
    BY <1>2 DEF CountWord, FreeBelow, Free
  <2> QED  BY <2>4, <2>6, <2>7, <2>8 DEF CountIsOfFree
<1>3. CASE at' = "count" /\ UNCHANGED table_vars
  BY <1>3 DEF table_vars, CountIsOfFree, Free
<1>4. \/ CountBegins \/ CountWord \/ at' # "count"
      \/ at' = "count" /\ UNCHANGED table_vars
  BY DEF TableNext, table_vars, AllocBegins, Call, NextWord, EnterWord, NextBit, Found,
         NoneFree, FreeBlock, Counted
<1>5. CASE at' # "count"
  BY <1>5 DEF CountIsOfFree
<1> QED  BY <1>1, <1>2, <1>3, <1>4, <1>5

-----------------------------------------------------------------------------
LEMMA Inductive == ASSUME WordBits = 32 PROVE TableSpec => []IInv
<1>1. TableInit => IInv
  BY InitIInv
<1>2. IInv /\ [TableNext]_table_vars => IInv'
  BY NextIInv
<1> QED  BY <1>1, <1>2, PTL DEF TableSpec

\* The loops of alloc_block stay inside the table and inside their word, and
\* hand out only blocks the table numbers.
THEOREM TableTypeCorrect == ASSUME WordBits = 32 PROVE TableSpec => []TableTypeOK
<1>1. IInv => TableTypeOK
  BY DEF IInv
<1> QED  BY <1>1, Inductive, PTL

\* Through its words and bits the table is the pool: alloc_block hands out
\* the lowest free block, ~0 only when none is free, and takes just that one
\* off; free_block adds just the one it is given.
THEOREM TableIsAPool == ASSUME WordBits = 32 PROVE TableSpec => ImplementsPool
<1>1. TableInit => Pool!Init
  BY InitPool
<1>2. IInv /\ IInv' /\ [TableNext]_table_vars => [Pool!Next]_<<Free, given>>
  BY NextPool
<1> QED  BY <1>1, <1>2, Inductive, PTL DEF TableSpec, ImplementsPool, Pool!Spec

\* wbfs_count_usedblocks counts the blocks that can be handed out, with a
\* full word taken at once or bit by bit.
THEOREM CountsTheFree == ASSUME WordBits = 32 PROVE TableSpec => []CountIsOfFree
<1>1. TableInit => CountIsOfFree
  BY CountInit
<1>2. IInv /\ CountIsOfFree /\ [TableNext]_table_vars => CountIsOfFree'
  BY CountNext
<1> QED  BY <1>1, <1>2, Inductive, PTL DEF TableSpec

-----------------------------------------------------------------------------
(* The walk over a file table.                                             *)

\* The table itself is well-formed and does not change.
TableOK ==
  /\ n \in Nat \ {0}
  /\ DOMAIN end \subseteq 0 .. n - 1
  /\ end \in [DOMAIN end -> 1 .. n]
  /\ WellFormed(end, n)
  /\ wanted \subseteq Files

\* The open directories lie one inside the other around entry j.
NestOK ==
  /\ j \in 1 .. n
  /\ calls \in Seq(DOMAIN end)
  /\ \A a \in 1 .. Len(calls) : calls[a] < j /\ j <= end[calls[a]]
  /\ \A a, b \in 1 .. Len(calls) : a < b => end[calls[b]] <= end[calls[a]]
  /\ calls # <<>> => calls[1] = 0
  /\ calls = <<>> /\ found = 0 => j = n

\* What was visited is exactly the files before j, until the search is over.
VisitsOK ==
  /\ visits \in Seq(Files)
  /\ \A v \in 1 .. Len(visits) : visits[v] < j
  /\ \A v, w \in 1 .. Len(visits) : v < w => visits[v] < visits[w]
  /\ found = 0 => \A f \in Files : f < j => \E v \in 1 .. Len(visits) : visits[v] = f

SearchOK ==
  /\ found \in {0} \cup wanted
  /\ found = 0 => \A f \in wanted : j <= f
  /\ \A f \in wanted : found # 0 => found <= f
  /\ \A v \in 1 .. Len(visits) : visits[v] \in wanted => v = Len(visits) /\ found # 0

WalkInv == TableOK /\ NestOK /\ VisitsOK /\ SearchOK

LEMMA Walks == WalkSpec => []WalkInv
<1>1. WalkInit => WalkInv
  <2> SUFFICES ASSUME WalkInit PROVE WalkInv
    OBVIOUS
  <2>1. end \in Ends(n) /\ WellFormed(end, n) /\ n \in Nat \ {0}
    BY MaxEntriesIsNat DEF WalkInit
  <2>2. PICK D \in SUBSET (1 .. n - 1) : end \in [D \cup {0} -> 1 .. n]
    BY <2>1 DEF Ends
  <2>3. TableOK
    BY <2>1, <2>2 DEF TableOK, WalkInit, Files
  <2>4. NestOK
    BY <2>1, <2>2 DEF NestOK, WalkInit, WellFormed
  <2>5. VisitsOK
    BY DEF VisitsOK, WalkInit, Files
  <2>6. SearchOK
    BY DEF SearchOK, WalkInit
  <2> QED BY <2>3, <2>4, <2>5, <2>6 DEF WalkInv
<1>2. WalkInv /\ [WalkNext]_walk_vars => WalkInv'
  <2> SUFFICES ASSUME WalkInv, [WalkNext]_walk_vars PROVE WalkInv'
    OBVIOUS
  <2> USE DEF WalkInv
  <2>0. /\ \A d \in DOMAIN end : end[d] \in 1 .. n /\ d \in Nat
        /\ \A a \in 1 .. Len(calls) : calls[a] \in DOMAIN end
        /\ \A v \in 1 .. Len(visits) : visits[v] \in Files
        /\ Len(calls) \in Nat /\ Len(visits) \in Nat /\ n \in Nat \ {0} /\ j \in 1 .. n
    BY DEF TableOK, NestOK, VisitsOK
  <2>f. \A f \in Files : f \in Nat
    BY <2>0 DEF Files
  <2>d. ASSUME NEW a \in 1 .. Len(calls) PROVE end[Dir] <= end[calls[a]]
    <3>1. CASE a = Len(calls)
      BY <3>1, <2>0 DEF Dir
    <3>2. CASE a < Len(calls)
      BY <3>2, <2>0 DEF Dir, NestOK
    <3> QED BY <3>1, <3>2, <2>0
  <2>1. CASE Enter
    <3>1. TableOK'
      BY <2>1 DEF Enter, TableOK, Files
    <3>2. calls # <<>> /\ Len(calls) \in 1 .. Len(calls) /\ Dir \in DOMAIN end
      BY <2>1 DEF Enter, NestOK, Dir
    <3>3. j < end[j] /\ end[j] <= end[Dir]
      BY <2>1, <3>2 DEF Enter, GoesOn, TableOK, WellFormed, NestOK, Dir
    <3>4. NestOK'
      <4>1. calls' \in Seq(DOMAIN end) /\ j' \in 1 .. n
        BY <2>1, <3>2 DEF Enter, NestOK, GoesOn, TableOK
      <4>a. /\ Len(calls') = Len(calls) + 1 /\ j' = j + 1
            /\ \A a \in 1 .. Len(calls') : calls'[a] = IF a <= Len(calls) THEN calls[a] ELSE j
        BY <2>1 DEF Enter, NestOK
      <4>b. \A a \in 1 .. Len(calls) : end[Dir] <= end[calls[a]]
        BY <2>d
      <4>2. \A a \in 1 .. Len(calls') : calls'[a] < j' /\ j' <= end[calls'[a]]
        <5> TAKE a \in 1 .. Len(calls')
        <5>1. CASE a <= Len(calls)
          <6>1. calls[a] \in Nat /\ calls[a] < j /\ end[Dir] <= end[calls[a]]
            BY <5>1, <4>b, <2>0 DEF NestOK
          <6>2. calls'[a] = calls[a] /\ end' = end /\ j < end[Dir]
            BY <5>1, <4>a, <2>1 DEF Enter, GoesOn
          <6>3. end[Dir] \in 1 .. n /\ end[calls[a]] \in 1 .. n
            BY <5>1, <3>2, <2>0
          <6> QED BY <6>1, <6>2, <6>3, <4>a, <2>0
        <5>2. CASE a > Len(calls)
          BY <5>2, <4>a, <3>3, <2>1, <2>0 DEF Enter
        <5> QED BY <5>1, <5>2, <2>0, <4>a
      <4>3. \A a, b \in 1 .. Len(calls') : a < b => end[calls'[b]] <= end[calls'[a]]
        <5> TAKE a, b \in 1 .. Len(calls')
        <5>1. CASE b <= Len(calls)
          <6> HAVE a < b
          <6>1. a \in 1 .. Len(calls) /\ b \in 1 .. Len(calls)
            BY <5>1, <4>a, <2>0
          <6>2. calls'[a] = calls[a] /\ calls'[b] = calls[b] /\ end' = end
            BY <5>1, <6>1, <4>a, <2>0, <2>1 DEF Enter
          <6> QED BY <6>1, <6>2, <2>0 DEF NestOK
        <5>2. CASE b > Len(calls)
          <6>1. b = Len(calls) + 1 /\ calls'[b] = j
            BY <5>2, <4>a, <2>0
          <6>2. CASE a <= Len(calls)
            <7>1. calls'[a] = calls[a] /\ end[Dir] <= end[calls[a]]
              BY <6>2, <4>a, <4>b, <2>0
            <7>2. end[Dir] \in 1 .. n /\ end[calls[a]] \in 1 .. n /\ end[j] \in 1 .. n
              BY <6>2, <3>2, <2>0, <2>1 DEF Enter
            <7> QED BY <7>1, <7>2, <6>1, <3>3, <2>0
          <6>3. CASE a > Len(calls)
            BY <6>1, <6>3, <4>a, <2>0
          <6> QED BY <6>2, <6>3, <4>a, <2>0
        <5> QED BY <5>1, <5>2, <2>0, <4>a
      <4> QED BY <2>1, <4>1, <4>2, <4>3, <3>2 DEF Enter, NestOK
    <3>5. VisitsOK'
      <4>1. Files' = Files /\ j' = j + 1 /\ visits' = visits /\ found' = found /\ j \notin Files
        BY <2>1 DEF Enter, Files
      <4>2. \A f \in Files : f < j' => f < j
        BY <4>1, <2>0, <2>f DEF Files
      <4>3. \A v \in 1 .. Len(visits) : visits[v] \in Nat /\ visits[v] < j'
        BY <4>1, <2>0, <2>f DEF VisitsOK
      <4> QED BY <4>1, <4>2, <4>3, <2>0 DEF VisitsOK
    <3>6. SearchOK'
      BY <2>1 DEF Enter, SearchOK, GoesOn, NestOK, TableOK, Files
    <3> QED BY <3>1, <3>4, <3>5, <3>6
  <2>2. CASE File
    <3>1. TableOK'
      BY <2>2 DEF File, TableOK, Files
    <3>2. calls # <<>> /\ Len(calls) \in 1 .. Len(calls) /\ Dir \in DOMAIN end
      BY <2>2 DEF File, NestOK, Dir
    <3>3. j \in Files
      BY <2>2, <3>2 DEF File, GoesOn, NestOK, TableOK, Files
    <3>4. NestOK'
      <4>1. j < end[Dir] /\ j' = j + 1 /\ calls' = calls /\ end' = end /\ n' = n
        BY <2>2 DEF File, GoesOn
      <4>2. \A a \in 1 .. Len(calls) : calls[a] < j' /\ j' <= end[calls[a]]
        <5> TAKE a \in 1 .. Len(calls)
        <5>1. end[Dir] <= end[calls[a]] /\ calls[a] < j /\ calls[a] \in Nat
          BY <2>d, <2>0 DEF NestOK
        <5>2. end[Dir] \in 1 .. n /\ end[calls[a]] \in 1 .. n
          BY <3>2, <2>0
        <5> QED BY <5>1, <5>2, <4>1, <2>0
      <4>3. j' \in 1 .. n
        BY <4>1, <3>2, <2>0
      <4> QED BY <4>1, <4>2, <4>3, <3>2 DEF NestOK
    <3>5. VisitsOK'
      <4>1. visits' \in Seq(Files') /\ Len(visits') = Len(visits) + 1
        BY <2>2, <3>3 DEF File, VisitsOK, Files
      <4>2. \A v \in 1 .. Len(visits') : visits'[v] = IF v <= Len(visits) THEN visits[v] ELSE j
        BY <2>2 DEF File, VisitsOK
      <4>3. Files' = Files /\ j' = j + 1 /\ found = 0
        BY <2>2 DEF File, Files, GoesOn
      <4>4. \A v \in 1 .. Len(visits') : visits'[v] < j'
        <5> TAKE v \in 1 .. Len(visits')
        <5>1. CASE v <= Len(visits)
          <6>1. v \in 1 .. Len(visits) /\ visits'[v] = visits[v]
            BY <5>1, <4>1, <4>2, <2>0
          <6>2. visits[v] < j /\ visits[v] \in Nat
            BY <6>1, <2>0, <2>f DEF VisitsOK
          <6> QED BY <6>1, <6>2, <4>3, <2>0
        <5>2. CASE v > Len(visits)
          BY <5>2, <4>1, <4>2, <4>3, <2>0
        <5> QED BY <5>1, <5>2, <4>1, <2>0
      <4>5. \A v, w \in 1 .. Len(visits') : v < w => visits'[v] < visits'[w]
        <5> TAKE v, w \in 1 .. Len(visits')
        <5> HAVE v < w
        <5>1. v \in 1 .. Len(visits) /\ visits'[v] = visits[v] /\ visits[v] < j
          BY <4>1, <4>2, <2>0 DEF VisitsOK
        <5>2. CASE w <= Len(visits)
          BY <5>1, <5>2, <4>1, <4>2, <2>0 DEF VisitsOK
        <5>3. CASE w > Len(visits)
          BY <5>1, <5>3, <4>1, <4>2, <2>0
        <5> QED BY <5>2, <5>3, <4>1, <2>0
      <4>6. ASSUME NEW f \in Files, f < j' PROVE \E v \in 1 .. Len(visits') : visits'[v] = f
        <5>1. CASE f = j
          BY <5>1, <4>1, <4>2, <2>0
        <5>2. CASE f < j
          <6>1. PICK v \in 1 .. Len(visits) : visits[v] = f
            BY <5>2, <4>3 DEF VisitsOK
          <6> QED BY <6>1, <4>1, <4>2, <2>0
        <5> QED BY <5>1, <5>2, <4>6, <4>3, <2>0 DEF Files
      <4> QED BY <4>1, <4>3, <4>4, <4>5, <4>6 DEF VisitsOK
    <3>6. SearchOK'
      <4>1. found = 0 /\ j \in 1 .. n
        BY <2>2 DEF File, GoesOn, NestOK
      <4>2. \A v \in 1 .. Len(visits') : visits'[v] = IF v <= Len(visits) THEN visits[v] ELSE j
        BY <2>2 DEF File, VisitsOK
      <4> QED BY <2>2, <3>3, <4>1, <4>2 DEF File, SearchOK, VisitsOK, Files, TableOK
    <3> QED BY <3>1, <3>4, <3>5, <3>6
  <2>3. CASE Leave
    <3>1. TableOK'
      BY <2>3 DEF Leave, TableOK, Files
    <3>2. calls # <<>> /\ Len(calls) \in 1 .. Len(calls) /\ Dir \in DOMAIN end
      BY <2>3 DEF Leave, NestOK, Dir
    <3>3. j <= end[Dir] /\ j' = end[Dir] /\ end[Dir] \in 1 .. n
      BY <2>3, <3>2 DEF Leave, Result, NestOK, Dir, TableOK
    <3>4. found = 0 => j' = j
      BY <2>3, <3>3 DEF Leave, GoesOn, NestOK
    <3>5. NestOK'
      <4>1. calls' \in Seq(DOMAIN end) /\ Len(calls') = Len(calls) - 1
        BY <2>3, <3>2 DEF Leave, NestOK
      <4>2. \A a \in 1 .. Len(calls') : calls'[a] = calls[a]
        BY <2>3, <3>2 DEF Leave, NestOK
      <4>3. \A a \in 1 .. Len(calls') : calls'[a] < j' /\ j' <= end[calls'[a]]
        <5> TAKE a \in 1 .. Len(calls')
        <5>1. a \in 1 .. Len(calls) /\ a < Len(calls) /\ calls'[a] = calls[a]
          BY <4>1, <4>2, <2>0
        <5>2. calls[a] \in Nat /\ calls[a] < j /\ end[Dir] <= end[calls[a]] /\ end' = end
          BY <5>1, <2>d, <2>0, <2>3 DEF NestOK, Leave
        <5> QED BY <5>1, <5>2, <3>3, <2>0
      <4>4. calls' = <<>> /\ found' = 0 => j' = n
        <5> HAVE calls' = <<>> /\ found' = 0
        <5>1. Len(calls) = 1
          BY <4>1, <2>0
        <5>2. Dir = 0 /\ end[0] = n
          BY <5>1, <3>2 DEF Dir, NestOK, TableOK, WellFormed
        <5> QED BY <5>2, <3>3
      <4> QED BY <2>3, <3>2, <3>3, <4>1, <4>2, <4>3, <4>4 DEF Leave, NestOK
    <3>6. VisitsOK'
      BY <2>3, <3>3, <3>4 DEF Leave, VisitsOK, Files, NestOK, TableOK
    <3>7. SearchOK'
      BY <2>3, <3>4 DEF Leave, SearchOK, Files
    <3> QED BY <3>1, <3>5, <3>6, <3>7
  <2>4. CASE UNCHANGED walk_vars
    BY <2>4 DEF walk_vars, TableOK, NestOK, VisitsOK, SearchOK, Files
  <2> QED BY <2>1, <2>2, <2>3, <2>4 DEF WalkNext
<1> QED BY <1>1, <1>2, PTL DEF WalkSpec

\* The walk stays inside the table, the stack holds directories only.
THEOREM WalkTypeCorrect == WalkSpec => []WalkTypeOK
<1>1. WalkInv => WalkTypeOK
  BY DEF WalkInv, TableOK, NestOK, VisitsOK, SearchOK, WalkTypeOK, Files
<1> QED BY <1>1, Walks, PTL

\* do_fst reads every file of the table once, in the order of the table.
THEOREM VisitsEachFileOnce == WalkSpec => []EachFileOnce
<1>1. WalkInv => EachFileOnce
  <2> SUFFICES ASSUME WalkInv PROVE EachFileOnce
    OBVIOUS
  <2>1. DOMAIN visits = 1 .. Len(visits)
    BY DEF WalkInv, VisitsOK
  <2>2. Done /\ found = 0 => \A f \in Files : f < j
    BY DEF WalkInv, TableOK, NestOK, Files, Done
  <2> QED BY <2>1, <2>2 DEF WalkInv, VisitsOK, EachFileOnce
<1> QED BY <1>1, Walks, PTL

\* The search ends with the first file of the name, and with none only when
\* there is none.
THEOREM FindsTheFirst == WalkSpec => []FirstOfThatName
<1>1. WalkInv => FirstOfThatName
  <2> SUFFICES ASSUME WalkInv PROVE FirstOfThatName
    OBVIOUS
  <2>1. Done /\ found = 0 => wanted = {}
    BY DEF WalkInv, TableOK, NestOK, SearchOK, Files, Done
  <2> QED BY <2>1 DEF WalkInv, SearchOK, VisitsOK, TableOK, Files, FirstOfThatName
<1> QED BY <1>1, Walks, PTL

-----------------------------------------------------------------------------
(* The reads of a stored disc.                                             *)

\* A larger number of pieces of a size is not shorter.
LEMMA Longer ==
  ASSUME NEW a \in Nat, NEW c \in Nat, NEW m \in Nat, a <= c
  PROVE  a * m \in Nat /\ a * m <= c * m
<1>1. PICK t \in Nat : c = a + t
  <2>1. c - a \in Nat /\ c = a + (c - a)
    OBVIOUS
  <2> QED
    BY <2>1
<1>2. c * m = a * m + t * m /\ a * m \in Nat /\ t * m \in Nat
  BY <1>1
<1> QED
  BY <1>2

LEMMA Fewer ==
  ASSUME NEW a \in Nat, NEW c \in Nat, NEW m \in Nat, a * m < c * m
  PROVE  a < c
<1> SUFFICES ASSUME c <= a PROVE FALSE
  OBVIOUS
<1>1. c * m \in Nat /\ a * m \in Nat /\ c * m <= a * m
  BY Longer
<1> QED
  BY <1>1

\* Dividing gives a quotient and a remainder, and only one of each.
LEMMA DivMod ==
  ASSUME NEW a \in Nat, NEW m \in Nat \ {0}
  PROVE  /\ a \div m \in Nat /\ a % m \in 0 .. m - 1
         /\ a = (a \div m) * m + (a % m)
<1>1. a \div m \in Int /\ a % m \in 0 .. m - 1
  OBVIOUS
<1>2. a = (a \div m) * m + (a % m)
  OBVIOUS
<1>3. a \div m >= 0
  <2> DEFINE q == a \div m
  <2> SUFFICES ASSUME q < 0 PROVE FALSE
    BY <1>1
  <2>1. q \in Int /\ a < q * m + m
    BY <1>1, <1>2
  <2> HIDE DEF q
  <2>2. q * m + m <= 0
    BY <2>1
  <2> QED
    BY <2>1, <2>2
<1> QED
  BY <1>1, <1>2, <1>3

LEMMA OnlyOne ==
  ASSUME NEW m \in Nat \ {0}, NEW q \in Nat, NEW r \in 0 .. m - 1,
         NEW a, a = q * m + r
  PROVE  a \div m = q /\ a % m = r
<1>0. a \in Nat
  <2>1. q * m \in Nat
    OBVIOUS
  <2> QED
    BY <2>1
<1> DEFINE qq == a \div m
           rr == a % m
<1>1. qq \in Nat /\ rr \in 0 .. m - 1 /\ a = qq * m + rr
  BY <1>0, DivMod
<1> HIDE DEF qq, rr
<1>2. CASE qq < q
  <2>1. (qq + 1) * m \in Nat /\ (qq + 1) * m <= q * m
    BY <1>1, <1>2, Longer
  <2>2. (qq + 1) * m = qq * m + m /\ qq * m \in Nat /\ q * m \in Nat
    BY <1>1
  <2> QED
    BY <1>1, <2>1, <2>2
<1>3. CASE q < qq
  <2>1. (q + 1) * m \in Nat /\ (q + 1) * m <= qq * m
    BY <1>1, <1>3, Longer
  <2>2. (q + 1) * m = q * m + m /\ qq * m \in Nat /\ q * m \in Nat
    BY <1>1
  <2> QED
    BY <1>1, <2>1, <2>2
<1>4. CASE qq = q
  <2>1. q * m \in Nat
    OBVIOUS
  <2>2. rr = r
    BY <1>1, <1>4, <2>1
  <2> QED
    BY <1>4, <2>2 DEF qq, rr
<1> QED
  BY <1>1, <1>2, <1>3, <1>4

LEMMA ReadSizes ==
  /\ WordBytes \in Nat \ {0} /\ SecWords \in Nat \ {0} /\ BlockSecs \in Nat \ {0}
  /\ TableLen \in Nat \ {0} /\ DeviceBlocks \in Nat \ {0}
  /\ SecBytes \in Nat \ {0} /\ SecBytes = WordBytes * SecWords
  /\ BlockBytes \in Nat \ {0} /\ BlockBytes = BlockSecs * SecBytes
  /\ BlockSecs <= BlockBytes /\ SecBytes <= BlockBytes
<1>1. /\ WordBytes \in Nat \ {0} /\ SecWords \in Nat \ {0} /\ BlockSecs \in Nat \ {0}
      /\ TableLen \in Nat \ {0} /\ DeviceBlocks \in Nat \ {0}
  BY SizesArePositive
<1>2. SecBytes \in Nat \ {0} /\ SecBytes = WordBytes * SecWords
  BY <1>1 DEF SecBytes
<1>3. BlockBytes \in Nat \ {0} /\ BlockBytes = BlockSecs * SecBytes
  BY <1>1, <1>2 DEF BlockBytes
<1>4. 1 * SecBytes <= BlockSecs * SecBytes
  BY <1>1, <1>2, Longer
<1>5. 1 * BlockSecs <= SecBytes * BlockSecs
  BY <1>1, <1>2, Longer
<1>6. BlockSecs <= BlockBytes /\ SecBytes <= BlockBytes
  BY <1>1, <1>2, <1>3, <1>4, <1>5
<1> QED
  BY <1>1, <1>2, <1>3, <1>6

\* Where the request begins, in bytes of the disc, and the sector's edge that
\* the loop begins at.
From == offset * WordBytes
Edge == ((From + SecBytes - 1) \div SecBytes) * SecBytes
Pos  == From + Len(got)

Request ==
  /\ table \in Tables /\ offset \in Nat /\ want \in Nat
  /\ From + want <= TableLen * BlockBytes

\* A block of the disc that is stored, and a sector of it.
OnDisc(w, l, b) ==
  w \in 0 .. TableLen - 1 /\ l \in 0 .. BlockSecs - 1 /\ b = table[w] /\ b # 0

\* The place that is read from next, in bytes of the disc.
At(w, l) == w * BlockBytes + l * SecBytes

\* It is never behind the byte that is due.
OnTheWay == OnDisc(wlba, lba, iwlba) /\ At(wlba, lba) <= Pos

\* It is that byte's, and the loop has its whole sectors still to read or none.
Exact == At(wlba, lba) = Pos /\ (len < SecBytes \/ Pos = Edge)

\* What was read comes from the right place as far as SafeLen goes, and until
\* then the place that is read from is the one of the byte that is due.
Reading ==
  /\ Request
  /\ pc \in {"first", "whole", "last", "done"}
  /\ got \in Seq(Nat) /\ len \in Nat
  /\ \A k \in 1 .. Len(got) : k <= SafeLen => got[k] = Where(k) /\ got[k] >= BlockBytes
  /\ pc # "done" => ret = 0 /\ Len(got) + len = want
  /\ pc = "done" /\ ret = 0 => Len(got) = want
  /\ pc = "first" =>
       /\ got = <<>> /\ OnDisc(wlba, lba, iwlba)
       /\ (offset % SecWords) * WordBytes \in 1 .. SecBytes - 1
       /\ From = wlba * BlockBytes + lba * SecBytes + (offset % SecWords) * WordBytes
  /\ pc \in {"whole", "last"} => len = 0 \/ OnTheWay
  /\ pc \in {"whole", "last"} => len = 0 \/ Len(got) >= SafeLen \/ Exact
  /\ pc = "last" => len # 0 /\ len < SecBytes

\* The address of a byte that lies in the block its place says.
LEMMA RightPlace ==
  ASSUME Request, NEW w, NEW l, NEW b, OnDisc(w, l, b), NEW off \in Nat, NEW size \in Nat,
         NEW m \in Nat, From + m = w * BlockBytes + l * SecBytes + off,
         NEW k \in 1 .. size, l * SecBytes + off + k <= BlockBytes
  PROVE  /\ Bytes(b, l, off, size)[k] = Where(m + k)
         /\ Bytes(b, l, off, size)[k] >= BlockBytes
<1> DEFINE x == l * SecBytes + off + k - 1
<1>1. w \in Nat /\ w <= TableLen - 1 /\ l \in Nat /\ BlockBytes \in Nat \ {0} /\ SecBytes \in Nat
      /\ TableLen \in Nat
  BY ReadSizes DEF OnDisc
<1>2. l * SecBytes \in Nat /\ w * BlockBytes \in Nat
  BY <1>1
<1>3. x \in 0 .. BlockBytes - 1 /\ x = l * SecBytes + off + k - 1
  BY <1>1, <1>2
<1>4. From \in Nat
  BY ReadSizes DEF From, Request
<1>5. From + (m + k) - 1 = w * BlockBytes + x
  BY <1>1, <1>2, <1>3, <1>4
<1> HIDE DEF x
<1>6. (From + (m + k) - 1) \div BlockBytes = w /\ (From + (m + k) - 1) % BlockBytes = x
  BY <1>1, <1>3, <1>5, OnlyOne
<1>7. Where(m + k) = b * BlockBytes + x
  BY <1>6 DEF Where, From, OnDisc
<1>8. Bytes(b, l, off, size)[k] = b * BlockBytes + l * SecBytes + off + k - 1
  BY DEF Bytes
<1>9. b \in Nat /\ b >= 1
  <2>1. table \in [0 .. TableLen - 1 -> 0 .. DeviceBlocks - 1]
    BY TablesArePlausible DEF Request
  <2>2. b \in 0 .. DeviceBlocks - 1 /\ b # 0
    BY <2>1 DEF OnDisc
  <2> QED
    BY <2>2, ReadSizes
<1>10. b * BlockBytes \in Nat /\ 1 * BlockBytes <= b * BlockBytes
  BY <1>1, <1>9, Longer
<1>11. b * BlockBytes + l * SecBytes + off + k - 1 = b * BlockBytes + x
  BY <1>1, <1>2, <1>3, <1>10
<1>12. b * BlockBytes + x >= BlockBytes
  BY <1>1, <1>3, <1>10
<1> QED
  BY <1>7, <1>8, <1>11, <1>12

\* SafeLen is a number.
LEMMA SafeLenIsInt == Request => SafeLen \in Int
<1> SUFFICES ASSUME Request PROVE SafeLen \in Int
  OBVIOUS
<1> DEFINE first == ((From + SecBytes - 1) \div SecBytes) * SecBytes
           whole == ((From + want - first) \div SecBytes) * SecBytes
<1>1. From \in Nat /\ want \in Nat /\ SecBytes \in Nat \ {0} /\ BlockBytes \in Nat \ {0}
  BY ReadSizes DEF Request, From
<1>2. first \in Int
  BY <1>1
<1>3. (first \div BlockBytes + 1) * BlockBytes - From \in Int
  BY <1>1, <1>2
<1>4. SafeLen = IF (first % BlockBytes) + whole > BlockBytes
                THEN (first \div BlockBytes + 1) * BlockBytes - From ELSE want
  BY Zenon DEF SafeLen, From
<1> QED
  BY <1>1, <1>3, <1>4

\* Where the whole sectors of a request are one run inside a block, or not.
LEMMA SafeLenIs ==
  ASSUME Request, NEW w, NEW l, NEW b, OnDisc(w, l, b), Edge = w * BlockBytes + l * SecBytes,
         NEW rest \in Nat, Edge + rest = From + want
  PROVE  SafeLen = IF l * SecBytes + (rest \div SecBytes) * SecBytes > BlockBytes
                   THEN (w + 1) * BlockBytes - From ELSE want
<1>1. w \in Nat /\ l \in 0 .. BlockSecs - 1 /\ BlockSecs \in Nat \ {0}
      /\ SecBytes \in Nat \ {0} /\ BlockBytes \in Nat \ {0} /\ BlockBytes = BlockSecs * SecBytes
  BY ReadSizes DEF OnDisc
<1>2. l * SecBytes \in 0 .. BlockBytes - 1
  <2>1. (l + 1) * SecBytes <= BlockSecs * SecBytes
    BY <1>1, Longer
  <2>2. (l + 1) * SecBytes = l * SecBytes + SecBytes /\ l * SecBytes \in Nat
    BY <1>1
  <2> QED
    BY <1>1, <2>1, <2>2
<1>3. Edge \div BlockBytes = w /\ Edge % BlockBytes = l * SecBytes
  <2> DEFINE r == l * SecBytes
  <2>1. r \in 0 .. BlockBytes - 1 /\ Edge = w * BlockBytes + r
    BY <1>2
  <2> HIDE DEF r
  <2>2. \A a : a = w * BlockBytes + r => a \div BlockBytes = w /\ a % BlockBytes = r
    BY <1>1, <2>1, OnlyOne
  <2> QED
    BY <2>1, <2>2, Zenon DEF r
<1>4. From + want - Edge = rest
  <2>1. From \in Nat /\ want \in Nat
    BY ReadSizes DEF From, Request
  <2>2. Edge \in Nat
    <3>1. w * BlockBytes \in Nat
      BY <1>1
    <3> QED
      BY <1>2, <3>1
  <2> QED
    BY <2>1, <2>2
<1>5. SafeLen = IF (Edge % BlockBytes) + ((From + want - Edge) \div SecBytes) * SecBytes > BlockBytes
                THEN (Edge \div BlockBytes + 1) * BlockBytes - From ELSE want
  BY Zenon DEF SafeLen, Edge, From
<1> QED
  BY <1>3, <1>4, <1>5

\* The sectors of a block end where the next block begins.
LEMMA InsideBlock ==
  ASSUME NEW l \in 0 .. BlockSecs - 1
  PROVE  /\ l * SecBytes \in Nat /\ l * SecBytes + SecBytes <= BlockBytes
         /\ (l + 1) * SecBytes = l * SecBytes + SecBytes
<1>1. l \in Nat /\ BlockSecs \in Nat \ {0} /\ SecBytes \in Nat \ {0} /\ BlockBytes = BlockSecs * SecBytes
      /\ l + 1 \in Nat /\ l + 1 <= BlockSecs
  BY ReadSizes
<1>2. (l + 1) * SecBytes <= BlockSecs * SecBytes
  BY <1>1, Longer
<1>3. (l + 1) * SecBytes = l * SecBytes + SecBytes /\ l * SecBytes \in Nat
  BY <1>1
<1> QED
  BY <1>1, <1>2, <1>3

\* A read brings as many bytes as it is for.
LEMMA BytesAre ==
  ASSUME NEW b \in Nat, NEW l \in Nat, NEW off \in Nat, NEW size \in Nat
  PROVE  Bytes(b, l, off, size) \in Seq(Nat) /\ Len(Bytes(b, l, off, size)) = size
<1> DEFINE c == Bytes(b, l, off, size)
<1>1. b * BlockBytes \in Nat /\ l * SecBytes \in Nat
  BY ReadSizes
<1>2. \A k \in 1 .. size : b * BlockBytes + l * SecBytes + off + k - 1 \in Nat
  BY <1>1
<1>3. c \in [1 .. size -> Nat]
  BY <1>2 DEF Bytes
<1> HIDE DEF c
<1>4. c \in Seq(Nat) /\ Len(c) = size
  BY <1>3
<1> QED
  BY <1>4 DEF c

LEMMA Joined ==
  ASSUME NEW s \in Seq(Nat), NEW c \in Seq(Nat)
  PROVE  /\ s \o c \in Seq(Nat) /\ Len(s \o c) = Len(s) + Len(c)
         /\ \A k \in 1 .. Len(s) : (s \o c)[k] = s[k]
         /\ \A k \in 1 .. Len(c) : (s \o c)[Len(s) + k] = c[k]
OBVIOUS

\* The block of an address on the device, as a number.
LEMMA BlockIsNat ==
  ASSUME Request, NEW w, NEW l, NEW b, OnDisc(w, l, b)
  PROVE  b \in Nat /\ b # 0 /\ w \in Nat /\ l \in 0 .. BlockSecs - 1 /\ l \in Nat
<1>1. table \in [0 .. TableLen - 1 -> 0 .. DeviceBlocks - 1]
  BY TablesArePlausible DEF Request
<1>2. b \in 0 .. DeviceBlocks - 1 /\ b # 0 /\ l \in 0 .. BlockSecs - 1 /\ w \in 0 .. TableLen - 1
  BY <1>1 DEF OnDisc
<1> QED
  BY <1>2, ReadSizes

\* The right bytes of what was read, and of what is read to its end from the
\* place that is due, stay right.
LEMMA AppendedRight ==
  ASSUME Reading, NEW w, NEW l, NEW b, OnDisc(w, l, b), NEW off \in Nat, NEW size \in Nat,
         Pos = w * BlockBytes + l * SecBytes + off,
         \A k \in 1 .. size : Len(got) + k <= SafeLen => l * SecBytes + off + k <= BlockBytes
  PROVE  LET g == got \o Bytes(b, l, off, size)
         IN \A k \in 1 .. Len(g) : k <= SafeLen => g[k] = Where(k) /\ g[k] >= BlockBytes
<1> DEFINE c == Bytes(b, l, off, size)
           g == got \o c
<1>1. got \in Seq(Nat) /\ Len(got) \in Nat /\ Request
  BY DEF Reading
<1>2. b \in Nat /\ l \in Nat
  BY <1>1, BlockIsNat
<1>a. c \in Seq(Nat) /\ Len(c) = size
  BY <1>2, BytesAre
<1>b. \A k \in 1 .. size : l * SecBytes + off + k <= BlockBytes \/ ~(Len(got) + k <= SafeLen)
  OBVIOUS
<1>c. g = got \o c
  OBVIOUS
<1> HIDE DEF c, g
<1>3. /\ Len(g) = Len(got) + size
      /\ \A k \in 1 .. Len(got) : g[k] = got[k]
      /\ \A k \in 1 .. size : g[Len(got) + k] = c[k]
  BY <1>1, <1>a, <1>c, Joined
<1>4. ASSUME NEW k \in 1 .. size, Len(got) + k <= SafeLen
      PROVE  c[k] = Where(Len(got) + k) /\ c[k] >= BlockBytes
  <2>1. l * SecBytes + off + k <= BlockBytes
    BY <1>4, <1>b
  <2>2. From + Len(got) = w * BlockBytes + l * SecBytes + off
    BY DEF Pos
  <2> QED
    BY <1>1, <2>1, <2>2, RightPlace DEF c
<1>5. ASSUME NEW k \in 1 .. Len(g), k <= SafeLen
      PROVE  g[k] = Where(k) /\ g[k] >= BlockBytes
  <2>1. CASE k <= Len(got)
    <3>1. k \in 1 .. Len(got)
      BY <1>1, <1>3, <2>1
    <3> QED
      BY <1>3, <1>5, <3>1 DEF Reading
  <2>2. CASE k > Len(got)
    <3>1. PICK m \in 1 .. size : k = Len(got) + m
      <4>1. k - Len(got) \in 1 .. size /\ k = Len(got) + (k - Len(got))
        BY <1>1, <1>3, <2>2
      <4> QED
        BY <4>1
    <3> QED
      BY <1>3, <1>4, <1>5, <3>1
  <2> QED
    BY <1>1, <1>3, <2>1, <2>2
<1> QED
  BY <1>5 DEF c, g

\* The two ways on from a sector.
LEMMA GoesToTheNext ==
  ASSUME NEW l, NEW rest, NextBlock(l, rest, "whole")
  PROVE  \/ pc' = "done" /\ ret' = 1
         \/ pc' = "whole" /\ ret' = ret
BY DEF NextBlock, Return

\* A read that ends in its block or with it goes on where it ended, one that
\* ends behind it goes on in the next block.
LEMMA NextIsDue ==
  ASSUME Request, NEW l0, OnDisc(wlba, l0, iwlba), NEW l \in Nat \ {0}, NEW rest \in Nat, NEW pos \in Nat,
         At(wlba, l) <= pos, pos + rest = From + want,
         NextBlock(l, rest, "whole"), pc' = "whole"
  PROVE  \/ rest = 0
         \/ /\ OnDisc(wlba', lba', iwlba') /\ At(wlba', lba') <= pos
            /\ l <= BlockSecs /\ At(wlba, l) = pos => At(wlba', lba') = pos
<1>0. /\ BlockSecs \in Nat \ {0} /\ SecBytes \in Nat \ {0} /\ BlockBytes \in Nat \ {0}
      /\ BlockBytes = BlockSecs * SecBytes /\ TableLen \in Nat \ {0}
  BY ReadSizes
<1>1. wlba \in 0 .. TableLen - 1 /\ iwlba = table[wlba] /\ iwlba # 0 /\ wlba \in Nat
  BY <1>0 DEF OnDisc
<1> SUFFICES ASSUME rest # 0
             PROVE  /\ OnDisc(wlba', lba', iwlba') /\ At(wlba', lba') <= pos
                    /\ l <= BlockSecs /\ At(wlba, l) = pos => At(wlba', lba') = pos
  OBVIOUS
<1>2. CASE l < BlockSecs
  <2>1. ~(l > lba_mask /\ rest # 0) /\ l \in 0 .. BlockSecs - 1
    BY <1>0, <1>2 DEF lba_mask
  <2>2. lba' = l /\ wlba' = wlba /\ iwlba' = iwlba
    BY <2>1 DEF NextBlock
  <2> QED
    BY <1>1, <2>1, <2>2 DEF OnDisc
<1>3. CASE ~(l < BlockSecs)
  <2>1. l > lba_mask /\ rest # 0 /\ BlockSecs <= l
    BY <1>0, <1>3 DEF lba_mask
  <2>2. lba' = 0 /\ wlba' = wlba + 1 /\ iwlba' = table[wlba + 1] /\ iwlba' # 0
    BY <2>1 DEF NextBlock, Return, IsHole
  <2>3. /\ (wlba + 1) * BlockBytes \in Nat /\ (wlba + 1) * BlockBytes <= At(wlba, l)
        /\ l = BlockSecs => At(wlba, l) = (wlba + 1) * BlockBytes
    <3>1. wlba * BlockBytes \in Nat /\ (wlba + 1) * BlockBytes = wlba * BlockBytes + BlockBytes
      BY <1>0, <1>1
    <3>2. BlockSecs * SecBytes <= l * SecBytes /\ l * SecBytes \in Nat
      BY <1>0, <2>1, Longer
    <3>3. At(wlba, l) = wlba * BlockBytes + l * SecBytes
      BY DEF At
    <3> QED
      BY <1>0, <3>1, <3>2, <3>3
  <2>a. At(wlba, l) \in Int
    BY <1>0, <1>1 DEF At
  <2>4. (wlba + 1) * BlockBytes < TableLen * BlockBytes
    <3>1. From + want <= TableLen * BlockBytes /\ From \in Nat /\ want \in Nat
      BY ReadSizes DEF Request, From
    <3>2. TableLen * BlockBytes \in Nat
      BY <1>0
    <3> QED
      BY <2>a, <2>3, <3>1, <3>2
  <2>5. wlba + 1 < TableLen
    BY <1>0, <1>1, <2>4, Fewer
  <2>6. 0 \in 0 .. BlockSecs - 1 /\ wlba + 1 \in 0 .. TableLen - 1
    BY <1>0, <1>1, <2>5
  <2>7. At(wlba + 1, 0) = (wlba + 1) * BlockBytes
    BY <1>0, <2>3 DEF At
  <2>8. At(wlba + 1, 0) <= pos
    BY <2>a, <2>3, <2>7
  <2>9. l <= BlockSecs /\ At(wlba, l) = pos => At(wlba + 1, 0) = pos
    BY <1>0, <2>1, <2>3, <2>7
  <2> QED
    BY <2>2, <2>6, <2>8, <2>9 DEF OnDisc
<1> QED
  BY <1>0, <1>2, <1>3

\* The request stays, and what it says is right.
LEMMA RequestStays ==
  ASSUME table' = table, offset' = offset, want' = want
  PROVE  /\ Request => Request'
         /\ From' = From /\ Edge' = Edge /\ SafeLen' = SafeLen
         /\ \A k : Where(k)' = Where(k)
         /\ \A w, l, c : OnDisc(w, l, c)' = OnDisc(w, l, c)
BY DEF Request, From, Edge, SafeLen, Where, OnDisc

LEMMA ReadingInit == ReadInit => Reading
<1> SUFFICES ASSUME ReadInit PROVE Reading
  OBVIOUS
<1>0. /\ BlockSecs \in Nat \ {0} /\ SecBytes \in Nat \ {0} /\ BlockBytes \in Nat \ {0}
      /\ BlockBytes = BlockSecs * SecBytes /\ TableLen \in Nat \ {0}
      /\ WordBytes \in Nat \ {0} /\ SecWords \in Nat \ {0} /\ SecBytes = WordBytes * SecWords
  BY ReadSizes
<1>1. /\ table \in Tables /\ offset \in 0 .. TableLen * BlockSecs * SecWords - 1
      /\ want \in 0 .. TableLen * BlockBytes - offset * WordBytes
      /\ wlba = offset \div (BlockSecs * SecWords) /\ lba = (offset \div SecWords) % BlockSecs
      /\ iwlba = table[wlba] /\ len = want /\ got = <<>>
  BY DEF ReadInit
<1>2. offset \in Nat /\ From \in Nat /\ want \in Nat /\ From + want <= TableLen * BlockBytes
  <2>1. offset \in Nat
    BY <1>0, <1>1
  <2>2. From \in Nat /\ TableLen * BlockBytes \in Nat
    BY <1>0, <2>1 DEF From
  <2>3. want \in 0 .. TableLen * BlockBytes - From
    BY <1>1 DEF From
  <2> QED
    BY <2>1, <2>2, <2>3
<1>3. Request
  BY <1>1, <1>2 DEF Request
<1> DEFINE s == offset \div SecWords
           r == offset % SecWords
           q == s \div BlockSecs
<1>4. s \in Nat /\ r \in 0 .. SecWords - 1 /\ offset = s * SecWords + r
  BY <1>0, <1>2, DivMod
<1>5. q \in Nat /\ lba \in 0 .. BlockSecs - 1 /\ s = q * BlockSecs + lba
  BY <1>0, <1>1, <1>4, DivMod
<1> HIDE DEF s, r, q
<1>6. wlba = q /\ lba * SecWords \in Nat
  <2> DEFINE m == BlockSecs * SecWords
             t == lba * SecWords + r
  <2>1. m \in Nat \ {0}
    BY <1>0
  <2>2. lba * SecWords \in Nat /\ t \in Nat
    BY <1>0, <1>4, <1>5
  <2>3. t \in 0 .. m - 1
    <3>1. (lba + 1) * SecWords <= BlockSecs * SecWords
      BY <1>0, <1>5, Longer
    <3>2. (lba + 1) * SecWords = lba * SecWords + SecWords
      BY <1>0, <1>5
    <3> QED
      BY <1>0, <1>4, <2>1, <2>2, <3>1, <3>2
  <2>4. offset = q * m + t
    <3>1. s * SecWords = q * BlockSecs * SecWords + lba * SecWords
      BY <1>0, <1>5
    <3>2. q * BlockSecs * SecWords = q * m
      BY <1>0, <1>5
    <3>3. q * m \in Nat
      BY <1>5, <2>1
    <3> QED
      BY <1>4, <2>2, <3>1, <3>2, <3>3
  <2>5. wlba = offset \div m
    BY <1>1
  <2> HIDE DEF m, t
  <2>6. \A a : a = q * m + t => a \div m = q
    BY <1>5, <2>1, <2>3, OnlyOne
  <2> QED
    BY <2>2, <2>4, <2>5, <2>6
<1>7. From = wlba * BlockBytes + lba * SecBytes + r * WordBytes
  <2>1. From = (s * SecWords + r) * WordBytes
    BY <1>4 DEF From
  <2>2. (s * SecWords + r) * WordBytes = s * (WordBytes * SecWords) + r * WordBytes
    BY <1>0, <1>4
  <2>3. s * SecBytes = q * (BlockSecs * SecBytes) + lba * SecBytes
    BY <1>0, <1>5
  <2> QED
    BY <1>0, <1>6, <2>1, <2>2, <2>3
<1>8. q < TableLen
  <2>1. (s * SecWords) \in Nat /\ offset < TableLen * BlockSecs * SecWords
    BY <1>0, <1>1, <1>4
  <2>2. TableLen * BlockSecs \in Nat
    BY <1>0
  <2>3. s * SecWords < (TableLen * BlockSecs) * SecWords
    BY <1>0, <1>4, <2>1, <2>2
  <2>4. s < TableLen * BlockSecs
    BY <1>0, <1>4, <2>2, <2>3, Fewer
  <2>5. q * BlockSecs \in Nat
    BY <1>0, <1>5
  <2>6. q * BlockSecs < TableLen * BlockSecs
    BY <1>5, <2>2, <2>4, <2>5
  <2> QED
    BY <1>0, <1>5, <2>6, Fewer
<1>9. OnDisc(wlba, lba, iwlba) \/ IsHole(iwlba)
  BY <1>0, <1>1, <1>5, <1>6, <1>8 DEF OnDisc, IsHole
<1>10. r # 0 => r * WordBytes \in 1 .. SecBytes - 1
  <2> SUFFICES ASSUME r # 0 PROVE r * WordBytes \in 1 .. SecBytes - 1
    OBVIOUS
  <2>1. (r + 1) * WordBytes <= SecWords * WordBytes /\ 1 * WordBytes <= r * WordBytes
    BY <1>0, <1>4, Longer
  <2>2. (r + 1) * WordBytes = r * WordBytes + WordBytes /\ r * WordBytes \in Nat
        /\ SecWords * WordBytes = SecBytes
    BY <1>0, <1>4
  <2> QED
    BY <1>0, <2>1, <2>2
<1>11. r = 0 => Edge = From
  <2> SUFFICES ASSUME r = 0 PROVE Edge = From
    OBVIOUS
  <2>1. From = s * SecBytes + 0
    <3>1. From = (s * SecWords) * WordBytes
      BY <1>0, <1>4 DEF From
    <3> QED
      BY <1>0, <1>4, <3>1
  <2>2. From + SecBytes - 1 = s * SecBytes + (SecBytes - 1)
    BY <1>0, <1>2, <1>4, <2>1
  <2>3. SecBytes - 1 \in 0 .. SecBytes - 1
    BY <1>0
  <2>4. \A a : a = s * SecBytes + (SecBytes - 1) => a \div SecBytes = s
    BY <1>0, <1>4, <2>3, OnlyOne
  <2>5. (From + SecBytes - 1) \div SecBytes = s
    BY <2>2, <2>4
  <2>6. s * SecBytes \in Nat
    BY <1>0, <1>4
  <2> QED
    BY <2>1, <2>5, <2>6 DEF Edge
<1>12. Len(got) = 0 /\ got \in Seq(Nat)
  BY <1>1
<1>13. CASE IsHole(iwlba)
  BY <1>1, <1>2, <1>3, <1>12, <1>13 DEF ReadInit, Reading
<1>14. CASE ~IsHole(iwlba) /\ r # 0
  <2>1. pc = "first" /\ ret = 0
    BY <1>14 DEF ReadInit, r
  <2> QED
    BY <1>1, <1>2, <1>3, <1>7, <1>9, <1>10, <1>12, <1>14, <2>1 DEF Reading, r
<1>15. CASE ~IsHole(iwlba) /\ r = 0
  <2>1. pc = "whole" /\ ret = 0
    BY <1>15 DEF ReadInit, r
  <2>2. Pos = At(wlba, lba) /\ Pos = Edge /\ Pos \in Nat
    <3>1. From = wlba * BlockBytes + lba * SecBytes
      <4>1. wlba * BlockBytes \in Nat /\ lba * SecBytes \in Nat /\ r * WordBytes = 0
        BY <1>0, <1>5, <1>6, <1>15
      <4> QED
        BY <1>7, <4>1
    <3> QED
      BY <1>2, <1>11, <1>12, <1>15, <3>1 DEF Pos, At
  <2>3. OnTheWay /\ Exact
    BY <1>9, <1>15, <2>2 DEF OnTheWay, Exact
  <2> QED
    BY <1>1, <1>2, <1>3, <1>12, <2>1, <2>3 DEF Reading
<1> QED
  BY <1>13, <1>14, <1>15

\* The first sector: the rest of it, or all that was asked for.
LEMMA FirstSectorReads ==
  ASSUME Reading, FirstSector PROVE Reading'
<1> DEFINE off == (offset % SecWords) * WordBytes
           m == FirstLen(off)
           c == Bytes(iwlba, lba, off, m)
<1>0. /\ SecBytes \in Nat \ {0} /\ BlockBytes \in Nat \ {0} /\ BlockSecs \in Nat \ {0}
  BY ReadSizes
<1>1. /\ pc = "first" /\ got' = c /\ len' = len - m /\ NextBlock(lba + 1, len - m, "whole")
      /\ table' = table /\ offset' = offset /\ want' = want
  BY DEF FirstSector
<1>2. /\ Request /\ got = <<>> /\ OnDisc(wlba, lba, iwlba) /\ off \in 1 .. SecBytes - 1
      /\ From = wlba * BlockBytes + lba * SecBytes + off /\ ret = 0 /\ len = want /\ len \in Nat
  <2>1. /\ Request /\ got = <<>> /\ OnDisc(wlba, lba, iwlba) /\ off \in 1 .. SecBytes - 1
        /\ From = wlba * BlockBytes + lba * SecBytes + off /\ ret = 0 /\ len \in Nat /\ want \in Nat
        /\ Len(got) + len = want
    BY <1>1 DEF Reading, Request
  <2> QED
    BY <2>1
<1>3. m = IF len < SecBytes - off THEN len ELSE SecBytes - off
  BY DEF FirstLen
<1>c. c = Bytes(iwlba, lba, off, m)
  OBVIOUS
<1> HIDE DEF off, m, c
<1>4. m \in Nat /\ m <= len /\ off + m <= SecBytes /\ off \in Nat /\ len - m \in Nat
  BY <1>0, <1>2, <1>3
<1>5. /\ iwlba \in Nat /\ wlba \in Nat /\ lba \in 0 .. BlockSecs - 1 /\ lba \in Nat
  BY <1>2, BlockIsNat
<1>6. /\ lba * SecBytes \in Nat /\ lba * SecBytes + SecBytes <= BlockBytes
      /\ (lba + 1) * SecBytes = lba * SecBytes + SecBytes
  BY <1>5, InsideBlock
<1>7. c \in Seq(Nat) /\ Len(c) = m
  BY <1>4, <1>5, <1>c, BytesAre
<1>8. got \o c = c /\ Len(got) = 0
  BY <1>2, <1>7
<1>9. \A k \in 1 .. Len(c) : k <= SafeLen => c[k] = Where(k) /\ c[k] >= BlockBytes
  <2>1. Pos = wlba * BlockBytes + lba * SecBytes + off
    <3>1. From \in Nat
      BY ReadSizes, <1>2 DEF Request, From
    <3> QED
      BY <1>2, <1>8, <3>1 DEF Pos
  <2>2. \A k \in 1 .. m : lba * SecBytes + off + k <= BlockBytes
    BY <1>0, <1>4, <1>6
  <2>3. LET g == got \o Bytes(iwlba, lba, off, m)
        IN \A k \in 1 .. Len(g) : k <= SafeLen => g[k] = Where(k) /\ g[k] >= BlockBytes
    BY <1>2, <1>4, <2>1, <2>2, AppendedRight
  <2> QED
    BY <1>8, <1>c, <2>3
<1>10. /\ Request' /\ From' = From /\ Edge' = Edge /\ SafeLen' = SafeLen
       /\ \A k : Where(k)' = Where(k)
  BY <1>1, <1>2, RequestStays
<1>11. /\ got' \in Seq(Nat) /\ len' \in Nat /\ Len(got') + len' = want'
       /\ \A k \in 1 .. Len(got') : k <= SafeLen' => got'[k] = Where(k)' /\ got'[k] >= BlockBytes
  <2>1. Len(got') + len' = want'
    BY <1>1, <1>2, <1>4, <1>7
  <2> QED
    BY <1>1, <1>4, <1>7, <1>9, <1>10, <2>1
<1>12. CASE pc' = "done" /\ ret' = 1
  BY <1>10, <1>11, <1>12 DEF Reading
<1>13. CASE pc' = "whole" /\ ret' = ret
  <2>1. len' = 0 \/ (OnTheWay' /\ Exact')
    <3> SUFFICES ASSUME len - m # 0 PROVE OnTheWay' /\ Exact'
      BY <1>1
    <3>1. m = SecBytes - off /\ lba + 1 \in Nat \ {0} /\ lba + 1 <= BlockSecs
      BY <1>0, <1>2, <1>3, <1>4, <1>5
    <3> DEFINE pos == From + m
    <3>2. pos = wlba * BlockBytes + (lba + 1) * SecBytes /\ pos \in Nat /\ From \in Nat
      <4>1. wlba * BlockBytes \in Nat
        BY <1>0, <1>5
      <4> QED
        BY <1>0, <1>2, <1>4, <1>6, <3>1, <4>1
    <3>3. pos + (len - m) = From + want
      BY <1>2, <1>4, <3>2
    <3> HIDE DEF pos
    <3>a. At(wlba, lba + 1) = pos /\ At(wlba, lba + 1) <= pos
      BY <3>2 DEF At
    <3>4. OnDisc(wlba', lba', iwlba') /\ At(wlba', lba') <= pos /\ At(wlba', lba') = pos
      BY <1>1, <1>2, <1>4, <1>13, <3>1, <3>2, <3>3, <3>a, NextIsDue
    <3>5. pos = Edge
      <4>1. From + SecBytes - 1 = pos + (off - 1)
        BY <1>0, <1>2, <1>4, <3>1, <3>2 DEF pos
      <4>2. wlba * BlockBytes = (wlba * BlockSecs) * SecBytes /\ wlba * BlockSecs \in Nat
        BY <1>0, <1>5, ReadSizes
      <4> DEFINE q == wlba * BlockSecs + (lba + 1)
      <4>3. q \in Nat /\ pos = q * SecBytes
        BY <1>0, <1>5, <3>2, <4>2
      <4>4. off - 1 \in 0 .. SecBytes - 1
        BY <1>2, <1>0
      <4> HIDE DEF q
      <4>5. \A a : a = q * SecBytes + (off - 1) => a \div SecBytes = q
        BY <1>0, <4>3, <4>4, OnlyOne
      <4>6. (From + SecBytes - 1) \div SecBytes = q
        BY <4>1, <4>3, <4>5
      <4> QED
        BY <4>3, <4>6 DEF Edge
    <3>6. Pos' = pos
      BY <1>1, <1>7, <1>10 DEF Pos, pos
    <3>7. OnDisc(wlba, lba, iwlba)'
      BY <1>1, <3>4 DEF OnDisc
    <3> QED
      BY <1>10, <3>4, <3>5, <3>6, <3>7 DEF OnTheWay, Exact, At
  <2> QED
    BY <1>2, <1>10, <1>11, <1>13, <2>1 DEF Reading
<1> QED
  BY <1>1, <1>12, <1>13, GoesToTheNext

\* The loop reads whole sectors, and never more of them than are left.
LEMMA SomeAtOnce ==
  ASSUME len \in Nat, len >= SecBytes, NEW l \in 0 .. BlockSecs - 1, l = lba
  PROVE  LET m == SectorsAtOnce
         IN /\ m \in Nat \ {0} /\ m * SecBytes \in Nat /\ m * SecBytes <= len
            /\ len \div SecBytes \in Nat
            /\ l + len \div SecBytes <= BlockSecs => m = len \div SecBytes
            /\ l + len \div SecBytes > BlockSecs => l + m >= BlockSecs
<1> DEFINE d == len \div SecBytes
           m == SectorsAtOnce
<1>0. /\ SecBytes \in Nat \ {0} /\ BlockBytes \in Nat \ {0} /\ BlockSecs \in Nat \ {0}
      /\ BlockSecs <= BlockBytes
  BY ReadSizes
<1>1. d \in Nat /\ len % SecBytes \in 0 .. SecBytes - 1 /\ len = d * SecBytes + (len % SecBytes)
  BY <1>0, DivMod
<1>2. d # 0
  BY <1>0, <1>1
<1>3. m = IF l + d > BlockBytes THEN BlockBytes - l ELSE d
  BY DEF SectorsAtOnce
<1> HIDE DEF d, m
<1>4. m \in Nat \ {0} /\ m <= d
  BY <1>0, <1>1, <1>2, <1>3
<1>5. m * SecBytes \in Nat /\ m * SecBytes <= d * SecBytes /\ d * SecBytes \in Nat
  BY <1>0, <1>1, <1>4, Longer
<1>6. m * SecBytes <= len
  BY <1>0, <1>1, <1>5
<1>7. l + d <= BlockSecs => m = d
  BY <1>0, <1>1, <1>3
<1>8. l + d > BlockSecs => l + m >= BlockSecs
  BY <1>0, <1>1, <1>3
<1> QED
  BY <1>1, <1>4, <1>5, <1>6, <1>7, <1>8 DEF d, m

\* What SafeLen is when the loop is about to begin, by the sectors it has left.
LEMMA SafeLenHere ==
  ASSUME Reading, len >= SecBytes, OnTheWay, Exact, Len(got) + len = want
  PROVE  /\ lba + len \div SecBytes <= BlockSecs => SafeLen = want
         /\ lba + len \div SecBytes > BlockSecs => From + SafeLen = (wlba + 1) * BlockBytes
<1> DEFINE d == len \div SecBytes
<1>0. /\ SecBytes \in Nat \ {0} /\ BlockBytes \in Nat \ {0} /\ BlockSecs \in Nat \ {0}
      /\ BlockBytes = BlockSecs * SecBytes
  BY ReadSizes
<1>1. Request /\ len \in Nat /\ want \in Nat /\ From \in Nat /\ Len(got) \in Nat
  BY ReadSizes DEF Reading, Request, From
<1>2. OnDisc(wlba, lba, iwlba) /\ Pos = wlba * BlockBytes + lba * SecBytes /\ Pos = Edge
  BY <1>0, <1>1 DEF OnTheWay, Exact, At
<1>3. wlba \in Nat /\ lba \in Nat
  BY <1>1, <1>2, BlockIsNat
<1>4. Edge + len = From + want
  BY <1>1, <1>2 DEF Pos
<1>5. d \in Nat
  BY <1>0, <1>1, DivMod
<1>6. SafeLen = IF lba * SecBytes + d * SecBytes > BlockBytes
                THEN (wlba + 1) * BlockBytes - From ELSE want
  BY <1>1, <1>2, <1>4, SafeLenIs
<1> HIDE DEF d
<1>7. lba * SecBytes + d * SecBytes = (lba + d) * SecBytes /\ (lba + d) * SecBytes \in Nat
  BY <1>0, <1>3, <1>5
<1>8. CASE lba + d <= BlockSecs
  <2>1. (lba + d) * SecBytes <= BlockSecs * SecBytes
    BY <1>0, <1>3, <1>5, <1>8, Longer
  <2>2. ~(lba * SecBytes + d * SecBytes > BlockBytes)
    BY <1>0, <1>7, <2>1
  <2> QED
    BY <1>0, <1>3, <1>5, <1>6, <1>8, <2>2 DEF d
<1>9. CASE lba + d > BlockSecs
  <2>1. (BlockSecs + 1) * SecBytes <= (lba + d) * SecBytes
    BY <1>0, <1>3, <1>5, <1>9, Longer
  <2>2. (BlockSecs + 1) * SecBytes = BlockSecs * SecBytes + SecBytes
    BY <1>0
  <2>3. lba * SecBytes + d * SecBytes > BlockBytes
    BY <1>0, <1>7, <2>1, <2>2
  <2>4. (wlba + 1) * BlockBytes \in Nat
    BY <1>0, <1>3
  <2>5. From + SafeLen = (wlba + 1) * BlockBytes
    BY <1>1, <1>6, <2>3, <2>4
  <2> QED
    BY <1>0, <1>3, <1>5, <1>9, <2>5 DEF d
<1> QED
  BY <1>0, <1>3, <1>5, <1>8, <1>9

\* One turn of the loop.
LEMMA WholeSectorsRead ==
  ASSUME Reading, WholeSectors PROVE Reading'
<1> DEFINE m == SectorsAtOnce
           size == m * SecBytes
           d == len \div SecBytes
           c == Bytes(iwlba, lba, 0, size)
<1>0. /\ SecBytes \in Nat \ {0} /\ BlockBytes \in Nat \ {0} /\ BlockSecs \in Nat \ {0}
      /\ BlockBytes = BlockSecs * SecBytes
  BY ReadSizes
<1>1. /\ pc = "whole" /\ len >= SecBytes /\ got' = got \o c /\ len' = len - size
      /\ NextBlock(lba + m, len - size, "whole")
      /\ table' = table /\ offset' = offset /\ want' = want
  BY DEF WholeSectors
<1>2. /\ Request /\ len \in Nat /\ want \in Nat /\ From \in Nat /\ got \in Seq(Nat) /\ Len(got) \in Nat
      /\ ret = 0 /\ Len(got) + len = want /\ len # 0
      /\ OnTheWay /\ (Len(got) >= SafeLen \/ Exact)
  <2>1. Request /\ len \in Nat /\ got \in Seq(Nat) /\ ret = 0 /\ Len(got) + len = want
    BY <1>1 DEF Reading
  <2>2. len # 0
    BY <1>0, <1>1, <2>1
  <2>3. OnTheWay /\ (Len(got) >= SafeLen \/ Exact)
    BY <1>1, <2>2 DEF Reading
  <2>4. From \in Nat /\ want \in Nat
    BY <2>1, ReadSizes DEF Request, From
  <2> QED
    BY <2>1, <2>2, <2>3, <2>4
<1>3. OnDisc(wlba, lba, iwlba) /\ At(wlba, lba) <= Pos
  BY <1>2 DEF OnTheWay
<1>4. iwlba \in Nat /\ wlba \in Nat /\ lba \in 0 .. BlockSecs - 1 /\ lba \in Nat
  BY <1>2, <1>3, BlockIsNat
<1>5. /\ m \in Nat \ {0} /\ size \in Nat /\ size <= len /\ d \in Nat
      /\ lba + d <= BlockSecs => m = d
      /\ lba + d > BlockSecs => lba + m >= BlockSecs
  BY <1>1, <1>2, <1>4, SomeAtOnce
<1>size. size = m * SecBytes
  OBVIOUS
<1>d. d = len \div SecBytes
  OBVIOUS
<1>c. c = Bytes(iwlba, lba, 0, size)
  OBVIOUS
<1> HIDE DEF m, size, d, c
<1>6. c \in Seq(Nat) /\ Len(c) = size
  BY <1>4, <1>5, <1>c, BytesAre
<1>7. got' \in Seq(Nat) /\ Len(got') = Len(got) + size /\ len' \in Nat /\ Len(got') + len' = want
  <2>1. got' \in Seq(Nat) /\ Len(got') = Len(got) + size
    BY <1>1, <1>2, <1>6, Joined
  <2>2. len - size \in Nat /\ (Len(got) + size) + (len - size) = want
    BY <1>2, <1>5
  <2> QED
    BY <1>1, <2>1, <2>2
<1>8. /\ Request' /\ From' = From /\ Edge' = Edge /\ SafeLen' = SafeLen
      /\ \A k : Where(k)' = Where(k)
  BY <1>1, <1>2, RequestStays
<1>9. /\ lba * SecBytes \in Nat /\ wlba * BlockBytes \in Nat /\ At(wlba, lba) = wlba * BlockBytes + lba * SecBytes
      /\ At(wlba, lba + m) = At(wlba, lba) + size /\ At(wlba, lba) \in Nat /\ size \in Nat
  <2>1. lba * SecBytes \in Nat /\ wlba * BlockBytes \in Nat
    BY <1>0, <1>4
  <2>2. (lba + m) * SecBytes = lba * SecBytes + size
    BY <1>0, <1>4, <1>5, <1>size
  <2> QED
    BY <1>5, <2>1, <2>2 DEF At
<1>10. Pos \in Nat /\ Pos = From + Len(got) /\ Pos' = Pos + size /\ Pos' \in Nat
  BY <1>2, <1>5, <1>7, <1>8 DEF Pos
\* Right bytes, as far as they have to be.
<1>11. ASSUME NEW k \in 1 .. Len(got'), k <= SafeLen
       PROVE  got'[k] = Where(k) /\ got'[k] >= BlockBytes
  <2>1. CASE Len(got) >= SafeLen
    <3>1. SafeLen \in Int
      BY <1>1, <1>2, SafeLenIsInt
    <3>2. k \in 1 .. Len(got)
      BY <1>2, <1>7, <1>11, <2>1, <3>1
    <3>3. got'[k] = got[k]
      BY <1>1, <1>2, <1>6, <3>2, Joined
    <3> QED
      BY <1>11, <3>2, <3>3 DEF Reading
  <2>2. CASE Exact
    <3>1. Pos = wlba * BlockBytes + lba * SecBytes + 0
      BY <1>9, <1>10, <2>2 DEF Exact
    <3>2. ASSUME NEW x \in 1 .. size, Len(got) + x <= SafeLen
          PROVE  lba * SecBytes + 0 + x <= BlockBytes
      <4>1. CASE lba + d <= BlockSecs
        <5>1. (lba + m) * SecBytes <= BlockSecs * SecBytes
          BY <1>0, <1>4, <1>5, <4>1, Longer
        <5>2. (lba + m) * SecBytes = lba * SecBytes + size
          BY <1>0, <1>4, <1>5, <1>size
        <5> QED
          BY <1>0, <1>5, <1>9, <5>1, <5>2
      <4>2. CASE lba + d > BlockSecs
        <5>1. From + SafeLen = (wlba + 1) * BlockBytes
          BY <1>1, <1>2, <1>d, <2>2, <4>2, SafeLenHere
        <5>2. (wlba + 1) * BlockBytes = wlba * BlockBytes + BlockBytes
          BY <1>0, <1>4
        <5>3. SafeLen \in Int
          BY <1>1, <1>2, SafeLenIsInt
        <5>4. From + Len(got) = wlba * BlockBytes + lba * SecBytes
          BY <1>9, <1>10, <3>1
        <5> QED
          BY <1>0, <1>2, <1>9, <3>2, <5>1, <5>2, <5>3, <5>4
      <4> QED
        BY <1>0, <1>4, <1>5, <4>1, <4>2
    <3>3. LET g == got \o Bytes(iwlba, lba, 0, size)
          IN \A y \in 1 .. Len(g) : y <= SafeLen => g[y] = Where(y) /\ g[y] >= BlockBytes
      BY <1>3, <1>5, <3>1, <3>2, AppendedRight
    <3> QED
      BY <1>1, <1>11, <1>c, <3>3
  <2> QED
    BY <1>2, <2>1, <2>2
<1>a. /\ got' \in Seq(Nat) /\ len' \in Nat /\ Len(got') + len' = want'
      /\ \A k \in 1 .. Len(got') : k <= SafeLen' => got'[k] = Where(k)' /\ got'[k] >= BlockBytes
  BY <1>1, <1>7, <1>8, <1>11
<1>12. CASE pc' = "done" /\ ret' = 1
  BY <1>8, <1>a, <1>12 DEF Reading
<1>13. CASE pc' = "whole" /\ ret' = ret
  <2>1. CASE len - size = 0
    BY <1>1, <1>2, <1>8, <1>a, <1>13, <2>1 DEF Reading
  <2>2. CASE len - size # 0
    <3>1. At(wlba, lba + m) <= Pos' /\ Pos' + (len - size) = From + want
      BY <1>2, <1>3, <1>5, <1>9, <1>10
    <3>2. lba + m \in Nat \ {0} /\ len - size \in Nat
      BY <1>2, <1>4, <1>5
    <3>3. /\ OnDisc(wlba', lba', iwlba') /\ At(wlba', lba') <= Pos'
          /\ lba + m <= BlockSecs /\ At(wlba, lba + m) = Pos' => At(wlba', lba') = Pos'
      <4> DEFINE pos == Pos'
      <4>1. pos \in Nat /\ At(wlba, lba + m) <= pos /\ pos + (len - size) = From + want
        BY <1>10, <3>1
      <4> HIDE DEF pos
      <4>2. /\ OnDisc(wlba', lba', iwlba') /\ At(wlba', lba') <= pos
            /\ lba + m <= BlockSecs /\ At(wlba, lba + m) = pos => At(wlba', lba') = pos
        BY <1>1, <1>2, <1>3, <1>13, <2>2, <3>2, <4>1, NextIsDue
      <4> QED
        BY <4>2 DEF pos
    <3>4. OnTheWay'
      BY <1>1, <3>3 DEF OnTheWay, OnDisc, At
    <3>5. Len(got') >= SafeLen \/ Exact'
      <4>1. CASE Len(got) >= SafeLen
        <5>1. SafeLen \in Int
          BY <1>1, <1>2, SafeLenIsInt
        <5> QED
          BY <1>2, <1>5, <1>7, <4>1, <5>1
      <4>2. CASE Exact /\ lba + d > BlockSecs
        <5>1. From + SafeLen = (wlba + 1) * BlockBytes
          BY <1>1, <1>2, <1>d, <4>2, SafeLenHere
        <5>2. (wlba + 1) * BlockBytes = wlba * BlockBytes + BlockBytes
          BY <1>0, <1>4
        <5>3. BlockSecs * SecBytes <= (lba + m) * SecBytes /\ (lba + m) * SecBytes = lba * SecBytes + size
          <6>1. lba + m \in Nat /\ BlockSecs <= lba + m
            BY <1>4, <1>5, <4>2
          <6> QED
            BY <1>0, <1>4, <1>5, <1>size, <6>1, Longer
        <5>4. SafeLen \in Int
          BY <1>1, <1>2, SafeLenIsInt
        <5>5. From + Len(got) = wlba * BlockBytes + lba * SecBytes
          BY <1>9, <1>10, <4>2 DEF Exact
        <5>6. BlockBytes <= lba * SecBytes + size
          BY <1>0, <5>3
        <5>7. From + SafeLen <= From + Len(got')
          <6>1. From + Len(got') = (wlba * BlockBytes + lba * SecBytes) + size
            BY <1>2, <1>5, <1>7, <5>5
          <6> QED
            BY <1>0, <1>9, <5>1, <5>2, <5>6, <6>1
        <5> QED
          BY <1>2, <1>7, <5>4, <5>7
      <4>3. CASE Exact /\ lba + d <= BlockSecs
        <5>1. m = d
          BY <1>5, <4>3
        <5>2. len - size < SecBytes
          BY <1>0, <1>2, <1>d, <1>size, <5>1, DivMod
        <5>3. At(wlba, lba + m) = Pos'
          BY <1>9, <1>10, <4>3 DEF Exact
        <5>4. At(wlba', lba') = Pos'
          BY <1>4, <1>5, <3>3, <4>3, <5>1, <5>3
        <5> QED
          BY <1>1, <5>2, <5>4 DEF Exact, At
      <4> QED
        BY <1>0, <1>2, <1>4, <1>5, <4>1, <4>2, <4>3
    <3> QED
      BY <1>2, <1>8, <1>a, <1>13, <3>4, <3>5 DEF Reading
  <2> QED
    BY <2>1, <2>2
<1> QED
  BY <1>1, <1>12, <1>13, GoesToTheNext

\* The loop has no whole sector left.
LEMMA TheLoopEnds ==
  ASSUME Reading, LoopEnds PROVE Reading'
<1>1. /\ pc = "whole" /\ len < SecBytes
      /\ table' = table /\ offset' = offset /\ want' = want
      /\ wlba' = wlba /\ lba' = lba /\ iwlba' = iwlba /\ len' = len /\ got' = got
  BY DEF LoopEnds
<1>2. /\ Request /\ got \in Seq(Nat) /\ len \in Nat /\ ret = 0 /\ Len(got) + len = want
      /\ \A k \in 1 .. Len(got) : k <= SafeLen => got[k] = Where(k) /\ got[k] >= BlockBytes
      /\ len = 0 \/ OnTheWay
      /\ len = 0 \/ Len(got) >= SafeLen \/ Exact
  BY <1>1 DEF Reading
<1>3. /\ Request' /\ From' = From /\ Edge' = Edge /\ SafeLen' = SafeLen
      /\ \A k : Where(k)' = Where(k)
  BY <1>1, <1>2, RequestStays
<1>4. OnTheWay' = OnTheWay /\ Exact' = Exact
  BY <1>1, <1>3 DEF OnTheWay, Exact, OnDisc, At, Pos
<1>5. /\ got' \in Seq(Nat) /\ len' \in Nat /\ Len(got') + len' = want'
      /\ \A k \in 1 .. Len(got') : k <= SafeLen' => got'[k] = Where(k)' /\ got'[k] >= BlockBytes
  BY <1>1, <1>2, <1>3
<1>6. CASE len = 0
  <2>1. pc' = "done" /\ ret' = 0
    BY <1>6 DEF LoopEnds, NothingLeft, Return
  <2>2. Len(got') = want'
    BY <1>1, <1>2, <1>6
  <2> QED
    BY <1>3, <1>5, <2>1, <2>2 DEF Reading
<1>7. CASE len # 0
  <2>1. pc' = "last" /\ ret' = ret
    BY <1>7 DEF LoopEnds, NothingLeft
  <2> QED
    BY <1>1, <1>2, <1>3, <1>4, <1>5, <1>7, <2>1 DEF Reading
<1> QED
  BY <1>6, <1>7

\* The last sector: the beginning of it.
LEMMA LastSectorReads ==
  ASSUME Reading, LastSector PROVE Reading'
<1> DEFINE c == Bytes(iwlba, lba, 0, len)
<1>1. /\ pc = "last" /\ got' = got \o c /\ pc' = "done" /\ ret' = 0 /\ len' = len
      /\ table' = table /\ offset' = offset /\ want' = want
  BY DEF LastSector, Return
<1>2. /\ Request /\ got \in Seq(Nat) /\ len \in Nat /\ Len(got) + len = want
      /\ len # 0 /\ len < SecBytes /\ OnTheWay /\ (Len(got) >= SafeLen \/ Exact)
      /\ \A k \in 1 .. Len(got) : k <= SafeLen => got[k] = Where(k) /\ got[k] >= BlockBytes
  BY <1>1 DEF Reading
<1>3. OnDisc(wlba, lba, iwlba) /\ Len(got) \in Nat
  BY <1>2 DEF OnTheWay
<1>4. iwlba \in Nat /\ wlba \in Nat /\ lba \in 0 .. BlockSecs - 1 /\ lba \in Nat
  BY <1>2, <1>3, BlockIsNat
<1>5. lba * SecBytes \in Nat /\ lba * SecBytes + SecBytes <= BlockBytes
  BY <1>4, InsideBlock
<1>c. c = Bytes(iwlba, lba, 0, len)
  OBVIOUS
<1> HIDE DEF c
<1>6. c \in Seq(Nat) /\ Len(c) = len
  <2>0. len \in Nat /\ iwlba \in Nat /\ lba \in Nat /\ 0 \in Nat
    BY <1>2, <1>4
  <2>1. /\ Bytes(iwlba, lba, 0, len) \in Seq(Nat)
        /\ Len(Bytes(iwlba, lba, 0, len)) = len
    BY <2>0, BytesAre, Zenon
  <2> QED
    BY <1>c, <2>1, Zenon
<1>7. got' \in Seq(Nat) /\ Len(got') = want /\ \A k \in 1 .. Len(got) : got'[k] = got[k]
  BY <1>1, <1>2, <1>6, Joined
<1>8. ASSUME NEW k \in 1 .. Len(got'), k <= SafeLen
      PROVE  got'[k] = Where(k) /\ got'[k] >= BlockBytes
  <2>1. CASE Len(got) >= SafeLen
    <3>1. SafeLen \in Int
      BY <1>2, SafeLenIsInt
    <3>2. k \in 1 .. Len(got)
      BY <1>3, <1>7, <1>8, <2>1, <3>1
    <3> QED
      BY <1>2, <1>7, <1>8, <3>2
  <2>2. CASE Exact
    <3>1. Pos = wlba * BlockBytes + lba * SecBytes + 0
      <4>1. wlba * BlockBytes \in Nat
        BY <1>4, ReadSizes
      <4> QED
        BY <1>5, <2>2, <4>1 DEF Exact, At
    <3>2. \A x \in 1 .. len : lba * SecBytes + 0 + x <= BlockBytes
      BY <1>2, <1>5, ReadSizes
    <3>3. LET g == got \o Bytes(iwlba, lba, 0, len)
          IN \A y \in 1 .. Len(g) : y <= SafeLen => g[y] = Where(y) /\ g[y] >= BlockBytes
      BY <1>2, <1>3, <3>1, <3>2, AppendedRight
    <3> QED
      BY <1>1, <1>8, <1>c, <3>3
  <2> QED
    BY <1>2, <2>1, <2>2
<1>9. /\ Request' /\ SafeLen' = SafeLen /\ \A k : Where(k)' = Where(k)
  BY <1>1, <1>2, RequestStays
<1>10. \A k \in 1 .. Len(got') : k <= SafeLen' => got'[k] = Where(k)' /\ got'[k] >= BlockBytes
  BY <1>8, <1>9
<1> QED
  BY <1>1, <1>2, <1>7, <1>9, <1>10 DEF Reading

\* A read that fails ends it.
LEMMA FailureEnds ==
  ASSUME Reading, ReadFails PROVE Reading'
<1>1. /\ pc' = "done" /\ ret' = 1
      /\ table' = table /\ offset' = offset /\ want' = want /\ len' = len /\ got' = got
  BY DEF ReadFails, Return
<1>2. /\ Request' /\ SafeLen' = SafeLen /\ \A k : Where(k)' = Where(k)
  BY <1>1, RequestStays DEF Reading
<1> QED
  BY <1>1, <1>2 DEF Reading

LEMMA ReadingStays == Reading /\ UNCHANGED read_vars => Reading'
BY DEF Reading, Request, OnDisc, OnTheWay, Exact, At, Pos, From, Edge, SafeLen, Where, read_vars

\* A read of a stored disc brings the bytes of the request, up to where whole
\* sectors run over the end of a block, never one of the head's block, and all
\* of them when it succeeds: for every size of sector and block, every lookup
\* table and every request.
THEOREM ReadsFromTheRightPlace == ReadSpec => []ReadsInsideABlock
<1>1. ReadInit => Reading
  BY ReadingInit
<1>2. Reading /\ [ReadNext]_read_vars => Reading'
  BY FirstSectorReads, WholeSectorsRead, TheLoopEnds, LastSectorReads, FailureEnds, ReadingStays
  DEF ReadNext
<1>3. Reading => ReadsInsideABlock
  <2> SUFFICES ASSUME Reading PROVE ReadsInsideABlock
    OBVIOUS
  <2>1. DOMAIN got = 1 .. Len(got)
    BY DEF Reading
  <2> QED
    BY <2>1 DEF Reading, ReadsInsideABlock
<1> QED
  BY <1>1, <1>2, <1>3, PTL DEF ReadSpec
==============================================================================
