--------------------------- MODULE DiscCopyProofs ---------------------------
(***************************************************************************)
(* Theorems about WiiDisc, PartitionTable and the two of them together in  *)
(* DiscCopy: for all images that are laid out as WiiDisc assumes, tables   *)
(* of any length, all selectors and all sizes of a block.                  *)
(***************************************************************************)
EXTENDS DiscCopy, FiniteSetTheorems, WellFoundedInduction, TLAPS

-----------------------------------------------------------------------------
(* Induction, and what the two loops over an image come to.                *)

\* A set of natural numbers that is not empty has a least member: induction
\* over the length of a read, in the form the provers can use.
LEMMA LeastNatural ==
  ASSUME NEW T, T \subseteq Nat, T # {}
  PROVE  \E x \in T : \A y \in T : x <= y
<1>1. IsWellFoundedOn(OpToRel(<, Nat), Nat)
  BY NatLessThanWellFounded
<1>2. PICK x \in T : \A y \in T : <<y, x>> \notin OpToRel(<, Nat)
  BY <1>1, WFMin
<1>3. \A y \in T : ~(y < x)
  BY <1>2 DEF OpToRel
<1> QED
  BY <1>3

\* The number of sectors that the loop of disc_read marks.
MarksOf(len) == IF len > 2 * SectorBytes THEN (len - 1) \div SectorBytes ELSE 1

LEMMA MarkCountUnfolds ==
  \A len \in Nat : MarkCount[len] = IF len > 2 * SectorBytes
                                    THEN 1 + MarkCount[len - SectorBytes] ELSE 1
<1> DEFINE G == [len \in Nat |-> MarksOf(len)]
<1>1. G = [len \in Nat |-> IF len > 2 * SectorBytes THEN 1 + G[len - SectorBytes] ELSE 1]
  <2>1. ASSUME NEW len \in Nat
        PROVE  MarksOf(len) = IF len > 2 * SectorBytes THEN 1 + G[len - SectorBytes] ELSE 1
    BY DEF MarksOf, SectorBytes
  <2> QED
    BY <2>1
<1> HIDE DEF G
<1> QED
  BY <1>1 DEF MarkCount

LEMMA MarkCountIs == \A len \in Nat : MarkCount[len] = MarksOf(len)
<1> DEFINE T == {len \in Nat : MarkCount[len] # MarksOf(len)}
<1> SUFFICES ASSUME T # {} PROVE FALSE
  OBVIOUS
<1>1. PICK x \in T : \A y \in T : x <= y
  BY LeastNatural
<1>2. x \in Nat /\ MarkCount[x] # MarksOf(x)
  OBVIOUS
<1>3. CASE x > 2 * SectorBytes
  <2>1. x - SectorBytes \in Nat /\ x - SectorBytes < x
    BY <1>2, <1>3 DEF SectorBytes
  <2>2. MarkCount[x - SectorBytes] = MarksOf(x - SectorBytes)
    BY <1>1, <1>2, <2>1
  <2> QED
    BY <1>2, <1>3, <2>1, <2>2, MarkCountUnfolds DEF MarksOf, SectorBytes
<1>4. CASE ~(x > 2 * SectorBytes)
  BY <1>2, <1>4, MarkCountUnfolds DEF MarksOf, SectorBytes
<1> QED
  BY <1>3, <1>4

\* What a sector of a partition still holds from a place in its data on.
Left(offset) == DataBytes - 4 * (offset % DataWords)

\* One turn of the loop of partition_read: what is left behind it begins with
\* a sector, and is touched beside the sector it read from.
LEMMA OneSectorOn ==
  ASSUME NEW offset \in Nat, NEW len \in Nat \ {0}, len > Left(offset)
  PROVE  /\ Left(offset) \in 4 .. DataBytes
         /\ offset + Left(offset) \div 4 \in Nat
         /\ len - Left(offset) \in Nat \ {0} /\ len - Left(offset) < len
         /\ Touched(offset, len, DataBytes)
              = {offset \div DataWords}
                \cup Touched(offset + Left(offset) \div 4, len - Left(offset), DataBytes)
<1> DEFINE q == offset \div DataWords
           r == offset % DataWords
           l == Left(offset)
           e == (4 * offset + len - 1) \div 31744
<1>1. q \in Nat /\ r \in 0 .. 7935 /\ offset = 7936 * q + r
  BY DEF DataWords
<1>2. l = 31744 - 4 * r
  BY DEF DataBytes, Left
<1>a. len > l /\ e = (4 * offset + len - 1) \div 31744
  OBVIOUS
<1> HIDE DEF q, r, l, e
<1>3. l \in 4 .. 31744
  BY <1>1, <1>2
<1>b. l \div 4 = 7936 - r
  BY <1>1, <1>2
<1>4. offset + (l \div 4) = 7936 * (q + 1)
  BY <1>1, <1>b
<1>5. (4 * offset) \div 31744 = q
  BY <1>1
<1>6. (4 * (offset + (l \div 4))) \div 31744 = q + 1
  <2>1. (4 * (7936 * (q + 1))) \div 31744 = q + 1
    BY <1>1
  <2> QED
    BY <1>4, <2>1
<1>7. len - l \in Nat \ {0} /\ len - l < len
  BY <1>a, <1>3
<1>8. 4 * offset + len - 1 = 4 * (offset + (l \div 4)) + (len - l) - 1
  BY <1>1, <1>2, <1>4
<1>9. e \in Nat /\ e >= q + 1
  BY <1>1, <1>2, <1>a
<1>10. Touched(offset, len, DataBytes) = q .. e
  BY <1>a, <1>5 DEF Touched, DataBytes
<1>11. Touched(offset + (l \div 4), len - l, DataBytes) = q + 1 .. e
  <2>1. (4 * (offset + (l \div 4)) + (len - l) - 1) \div 31744 = e
    BY <1>a, <1>8
  <2>2. len - l # 0
    BY <1>7
  <2> QED
    BY <1>6, <2>1, <2>2 DEF Touched, DataBytes
<1>12. q .. e = {q} \cup (q + 1 .. e)
  BY <1>1, <1>9
<1>13. offset + (l \div 4) \in Nat
  BY <1>1, <1>4
<1>14. Touched(offset, len, DataBytes)
         = {q} \cup Touched(offset + (l \div 4), len - l, DataBytes)
  BY <1>10, <1>11, <1>12
<1>15. /\ l \in 4 .. DataBytes
       /\ offset + l \div 4 \in Nat
       /\ len - l \in Nat \ {0} /\ len - l < len
  BY <1>3, <1>7, <1>13 DEF DataBytes
<1> QED
  BY <1>14, <1>15 DEF q, l

\* The last turn stays in its sector.
LEMMA LastSector ==
  ASSUME NEW offset \in Nat, NEW len \in Nat \ {0},
         len <= Left(offset)
  PROVE  Touched(offset, len, DataBytes) = {offset \div DataWords}
<1> DEFINE q == offset \div DataWords
           r == offset % DataWords
<1>1. q \in Nat /\ r \in 0 .. 7935 /\ offset = 7936 * q + r
  BY DEF DataWords
<1>2. len <= 31744 - 4 * r
  BY DEF DataBytes, Left
<1> HIDE DEF q, r
<1>3. (4 * offset) \div 31744 = q /\ (4 * offset + len - 1) \div 31744 = q
  BY <1>1, <1>2
<1>4. q .. q = {q}
  BY <1>1
<1> QED
  BY <1>3, <1>4 DEF Touched, DataBytes, q

\* What one turn reads.
Now(offset, len) == IF Left(offset) > len THEN len ELSE Left(offset)

\* The loop of partition_read as an equation of the sectors it comes by.
LEMMA OneTurn ==
  ASSUME NEW offset \in Nat, NEW len \in Nat
  PROVE  /\ len # 0 => /\ offset + Now(offset, len) \div 4 \in Nat
                       /\ len - Now(offset, len) \in Nat
                       /\ len - Now(offset, len) < len
         /\ Touched(offset, len, DataBytes)
              = IF len = 0 THEN {}
                ELSE {offset \div DataWords}
                     \cup Touched(offset + Now(offset, len) \div 4, len - Now(offset, len), DataBytes)
<1>1. CASE len = 0
  BY <1>1 DEF Touched
<1>2. CASE len # 0 /\ len > Left(offset)
  <2>1. Left(offset) \in Int
    BY DEF Left, DataBytes, DataWords
  <2>2. Now(offset, len) = Left(offset)
    BY <1>2, <2>1 DEF Now
  <2> QED
    BY <1>2, <2>2, OneSectorOn
<1>3. CASE len # 0 /\ ~(len > Left(offset))
  <2>1. Left(offset) \in Int
    BY DEF Left, DataBytes, DataWords
  <2>2. Now(offset, len) = len
    BY <1>3, <2>1 DEF Now
  <2>3. Touched(offset + Now(offset, len) \div 4, len - Now(offset, len), DataBytes) = {}
    BY <2>2 DEF Touched
  <2>4. Touched(offset, len, DataBytes) = {offset \div DataWords}
    BY <1>3, <2>1, LastSector
  <2>5. offset + Now(offset, len) \div 4 \in Nat
    BY <2>2
  <2>6. len - Now(offset, len) \in Nat /\ len - Now(offset, len) < len
    BY <2>2, <1>3
  <2> QED
    BY <1>3, <2>3, <2>4, <2>5, <2>6
<1> QED
  BY <1>1, <1>2, <1>3

LEMMA DataBlocksUnfolds ==
  \A offset \in Nat, len \in Nat :
    DataBlocks[<<offset, len>>]
      = IF len = 0 THEN {}
        ELSE {offset \div DataWords}
             \cup DataBlocks[<<offset + Now(offset, len) \div 4, len - Now(offset, len)>>]
<1> DEFINE G == [r \in Nat \X Nat |-> Touched(r[1], r[2], DataBytes)]
<1>1. G = [r \in Nat \X Nat |->
             IF r[2] = 0 THEN {}
             ELSE {r[1] \div DataWords}
                  \cup G[<<r[1] + Now(r[1], r[2]) \div 4, r[2] - Now(r[1], r[2])>>]]
  <2>1. ASSUME NEW r \in Nat \X Nat
        PROVE  Touched(r[1], r[2], DataBytes)
                 = IF r[2] = 0 THEN {}
                   ELSE {r[1] \div DataWords}
                        \cup G[<<r[1] + Now(r[1], r[2]) \div 4, r[2] - Now(r[1], r[2])>>]
    <3>1. r[1] \in Nat /\ r[2] \in Nat
      OBVIOUS
    <3> QED
      BY <3>1, OneTurn
  <2> QED
    BY <2>1
<1> HIDE DEF G
<1>2. DataBlocks = [r \in Nat \X Nat |->
             IF r[2] = 0 THEN {}
             ELSE {r[1] \div DataWords}
                  \cup DataBlocks[<<r[1] + Now(r[1], r[2]) \div 4, r[2] - Now(r[1], r[2])>>]]
  BY <1>1 DEF DataBlocks, Now, Left
<1> QED
  BY <1>2

\* partition_read comes by the sectors that its bytes lie in, and no others.
LEMMA DataBlocksAre ==
  \A offset \in Nat, len \in Nat : DataBlocks[<<offset, len>>] = Touched(offset, len, DataBytes)
<1> DEFINE T == {len \in Nat : \E offset \in Nat :
                   DataBlocks[<<offset, len>>] # Touched(offset, len, DataBytes)}
<1> SUFFICES ASSUME T # {} PROVE FALSE
  OBVIOUS
<1>1. PICK n \in T : \A y \in T : n <= y
  BY LeastNatural
<1>2. PICK o \in Nat : DataBlocks[<<o, n>>] # Touched(o, n, DataBytes)
  OBVIOUS
<1>3. n \in Nat
  OBVIOUS
<1>4. CASE n = 0
  BY <1>2, <1>3, <1>4, DataBlocksUnfolds, OneTurn
<1>5. CASE n # 0
  <2> DEFINE o2 == o + Now(o, n) \div 4
             n2 == n - Now(o, n)
  <2>1. o2 \in Nat /\ n2 \in Nat /\ n2 < n
    BY <1>2, <1>3, <1>5, OneTurn
  <2>2. DataBlocks[<<o2, n2>>] = Touched(o2, n2, DataBytes)
    BY <1>1, <1>3, <2>1
  <2>3. DataBlocks[<<o, n>>] = {o \div DataWords} \cup DataBlocks[<<o2, n2>>]
    BY <1>2, <1>3, <1>5, DataBlocksUnfolds
  <2>4. Touched(o, n, DataBytes) = {o \div DataWords} \cup Touched(o2, n2, DataBytes)
    BY <1>2, <1>3, <1>5, OneTurn
  <2> QED
    BY <1>2, <2>2, <2>3, <2>4
<1> QED
  BY <1>4, <1>5

-----------------------------------------------------------------------------
(* What the reads of a disc mark.                                          *)

\* A read of the disc marks the sector that it begins in, and no sector that
\* none of its bytes lies in.
LEMMA ReadMarks ==
  ASSUME NEW offset \in Nat, NEW len \in Nat \ {0}
  PROVE  /\ offset \div SectorWords \in disc_read(offset, len)
         /\ disc_read(offset, len) \subseteq Touched(offset, len, SectorBytes)
<1> DEFINE q == offset \div SectorWords
           r == offset % SectorWords
           m == MarksOf(len)
           e == (4 * offset + len - 1) \div 32768
<1>1. q \in Nat /\ r \in 0 .. 8191 /\ offset = 8192 * q + r
  BY DEF SectorWords
<1>2. m = IF len > 65536 THEN (len - 1) \div 32768 ELSE 1
  BY DEF MarksOf, SectorBytes
<1>3. disc_read(offset, len) = q .. q + m - 1
  BY MarkCountIs DEF disc_read, Marks
<1>e. e = (4 * offset + len - 1) \div 32768
  OBVIOUS
<1> HIDE DEF q, r, m, e
<1>4. m \in Nat /\ m >= 1 /\ m - 1 <= (len - 1) \div 32768
  BY <1>2
<1>5. (4 * offset) \div 32768 = q
  BY <1>1
<1>6. e \in Nat /\ e >= q + (len - 1) \div 32768
  BY <1>1, <1>e
<1>7. Touched(offset, len, SectorBytes) = q .. e
  BY <1>5, <1>e DEF Touched, SectorBytes
<1>8. q + m - 1 <= e
  <2>1. (len - 1) \div 32768 \in Nat
    OBVIOUS
  <2> QED
    BY <1>1, <1>4, <1>6, <2>1
<1>9. q \in q .. q + m - 1 /\ q .. q + m - 1 \subseteq q .. e
  BY <1>1, <1>4, <1>6, <1>8
<1> QED
  BY <1>3, <1>7, <1>9 DEF q

\* An empty read marks nothing.
LEMMA ReadsInside ==
  ASSUME NEW offset \in Nat, NEW len \in Nat
  PROVE  disc_read(offset, len) \subseteq Touched(offset, len, SectorBytes)
BY ReadMarks DEF disc_read

\* A read that stays in a sector.
LEMMA InOneSector ==
  ASSUME NEW s \in Nat, NEW w \in Nat, NEW len \in Nat, 4 * w + len <= 32768
  PROVE  Touched(8192 * s + w, len, SectorBytes) \subseteq {s}
<1>1. CASE len = 0
  BY <1>1 DEF Touched
<1>2. CASE len # 0
  <2>1. (4 * (8192 * s + w)) \div 32768 = s
    BY <1>2
  <2>2. (4 * (8192 * s + w) + len - 1) \div 32768 = s
    BY <1>2
  <2>3. s .. s = {s}
    OBVIOUS
  <2> QED
    BY <1>2, <2>1, <2>2, <2>3 DEF Touched, SectorBytes
<1> QED
  BY <1>1, <1>2

LaidOut(p) ==
  /\ p.raw % SectorWords = 0 /\ p.h3 % SectorWords = 0 /\ p.data % SectorWords = 0
  /\ p.h3 + 3 * SectorWords = p.data
  /\ {p.tmd, p.tmd + p.tmdLen \div 4, p.cert, p.cert + p.certLen \div 4} \subseteq 0 .. SectorWords - 1
  /\ p.dol <= p.fst

LEMMA PartitionsAreLaidOut ==
  ASSUME NEW d \in Discs, NEW k \in DOMAIN d.parts
  PROVE  d.parts[k] \in Partition /\ LaidOut(d.parts[k]) /\ k \in Nat
<1>1. d.parts \in Seq(Partition)
  BY DiscsAreTyped
<1>2. d.parts[k] \in Partition /\ k \in Nat
  BY <1>1
<1>3. LaidOut(d.parts[k])
  <2> DEFINE p == d.parts[k]
  <2>1. /\ {p.raw % SectorWords, p.h3 % SectorWords, p.data % SectorWords} = {0}
        /\ p.h3 + 3 * SectorWords = p.data
        /\ {p.tmd, p.tmd + p.tmdLen \div 4, p.cert, p.cert + p.certLen \div 4}
             \subseteq 0 .. SectorWords - 1
        /\ p.dol <= p.fst
    BY DiscsAreLaidOut
  <2> QED
    BY <2>1, Zenon DEF LaidOut
<1> QED
  BY <1>2, <1>3

\* The sectors that a partition and its hashes begin with.
First(p)  == p.raw \div SectorWords
Hashes(p) == (p.raw + p.h3) \div SectorWords

LEMMA Places ==
  ASSUME NEW p \in Partition, LaidOut(p)
  PROVE  /\ First(p) \in Nat /\ p.raw = 8192 * First(p)
         /\ Hashes(p) \in Nat /\ p.raw + p.h3 = 8192 * Hashes(p)
         /\ partition_block(p) = Hashes(p) + 3
<1> DEFINE a == p.raw
           c == p.h3
           e == p.data
<1>1. a \in Nat /\ c \in Nat /\ e \in Nat
  BY DEF Partition
<1>2. a % 8192 = 0 /\ c % 8192 = 0 /\ c + 3 * 8192 = e
  <2>1. /\ a % SectorWords = 0 /\ c % SectorWords = 0
        /\ c + 3 * SectorWords = e
    BY Zenon DEF LaidOut
  <2> QED
    BY <2>1 DEF SectorWords
<1>3. First(p) = a \div 8192 /\ Hashes(p) = (a + c) \div 8192 /\ partition_block(p) = (a + e) \div 8192
  BY DEF First, Hashes, partition_block, SectorWords
<1> HIDE DEF a, c, e
<1>4. a \div 8192 \in Nat /\ a = 8192 * (a \div 8192)
  BY <1>1, <1>2
<1>5. (a + c) \div 8192 \in Nat /\ a + c = 8192 * ((a + c) \div 8192)
  BY <1>1, <1>2
<1>6. (a + e) \div 8192 = (a + c) \div 8192 + 3
  BY <1>1, <1>2
<1> QED
  BY <1>3, <1>4, <1>5, <1>6 DEF a, c

Reads(p) ==
  disc_read(p.raw, 676)
  \cup disc_read(p.raw + 169, 28)
  \cup disc_read(p.raw + p.tmd, p.tmdLen)
  \cup disc_read(p.raw + p.cert, p.certLen)
  \cup disc_mark(p.raw + p.h3, 98304)

\* Of the hashes the first two of three sectors are marked.
LEMMA HashesMark ==
  ASSUME NEW p \in Partition, LaidOut(p)
  PROVE  /\ disc_mark(p.raw + p.h3, 98304) = {Hashes(p), Hashes(p) + 1}
         /\ Touched(p.raw + p.h3, 98304, SectorBytes) = {Hashes(p), Hashes(p) + 1, Hashes(p) + 2}
<1> DEFINE h == Hashes(p)
<1>1. h \in Nat /\ p.raw + p.h3 = 8192 * h
  BY Places
<1>2. MarkCount[98304] = 2
  BY MarkCountIs DEF MarksOf, SectorBytes
<1>3. Marks(8192 * h, 98304) = (8192 * h) \div 8192 .. (8192 * h) \div 8192 + 2 - 1
  BY <1>2 DEF Marks, SectorWords
<1> HIDE DEF h
<1>5. (8192 * h) \div 8192 = h /\ (4 * (8192 * h)) \div 32768 = h
      /\ (4 * (8192 * h) + 98304 - 1) \div 32768 = h + 2
  BY <1>1
<1>6. h .. h + 2 - 1 = {h, h + 1} /\ h .. h + 2 = {h, h + 1, h + 2}
  BY <1>1
<1>7. Marks(8192 * h, 98304) = {h, h + 1}
  BY <1>3, <1>5, <1>6
<1>8. Touched(8192 * h, 98304, SectorBytes) = {h, h + 1, h + 2}
  <2>1. Touched(8192 * h, 98304, SectorBytes) = h .. h + 2
    BY <1>5 DEF Touched, SectorBytes
  <2> QED
    BY <1>1, <1>6, <2>1
<1> QED
  BY <1>1, <1>7, <1>8 DEF disc_mark, h

\* What do_partition marks, and what it should.
LEMMA StructuresMark ==
  ASSUME NEW p \in Partition, LaidOut(p)
  PROVE  /\ Reads(p) = {First(p), Hashes(p), Hashes(p) + 1}
         /\ StructureNeeds(p) = {First(p), Hashes(p), Hashes(p) + 1, Hashes(p) + 2}
<1> DEFINE s == First(p)
<1>1. s \in Nat /\ p.raw = 8192 * s
  BY Places
<1>2. p.tmd \in Nat /\ p.tmdLen \in Nat /\ p.cert \in Nat /\ p.certLen \in Nat
  BY DEF Partition
<1>3. {p.tmd, p.tmd + p.tmdLen \div 4, p.cert, p.cert + p.certLen \div 4} \subseteq 0 .. SectorWords - 1
  BY Zenon DEF LaidOut
<1>4. p.tmd + p.tmdLen \div 4 <= 8191 /\ p.cert + p.certLen \div 4 <= 8191
  <2>1. p.tmd + p.tmdLen \div 4 \in 0 .. SectorWords - 1 /\ p.cert + p.certLen \div 4 \in 0 .. SectorWords - 1
    BY <1>3, Zenon
  <2> DEFINE t == p.tmd + p.tmdLen \div 4
             c == p.cert + p.certLen \div 4
  <2>2. t \in 0 .. SectorWords - 1 /\ c \in 0 .. SectorWords - 1
    BY <2>1
  <2> HIDE DEF t, c
  <2>3. t <= 8191 /\ c <= 8191
    BY <2>2 DEF SectorWords
  <2> QED
    BY <2>3 DEF t, c
<1>5. 4 * p.tmd + p.tmdLen <= 32768 /\ 4 * p.cert + p.certLen <= 32768
  BY <1>2, <1>4
<1> HIDE DEF s
<1> DEFINE T(w, len) == Touched(p.raw + w, len, SectorBytes)
<1>6. \A w, len \in Nat : 4 * w + len <= 32768 => T(w, len) \subseteq {s}
  BY <1>1, InOneSector
<1> HIDE DEF T
<1>7. T(0, 704) \subseteq {s} /\ T(0, 676) \subseteq {s} /\ T(169, 28) \subseteq {s}
  BY <1>6
<1>8. T(p.tmd, p.tmdLen) \subseteq {s} /\ T(p.cert, p.certLen) \subseteq {s}
  BY <1>2, <1>5, <1>6
<1> USE DEF T
<1>9. p.raw \in Nat /\ p.raw + 0 = p.raw /\ p.raw + 169 \in Nat
      /\ p.raw + p.tmd \in Nat /\ p.raw + p.cert \in Nat
  BY <1>1, <1>2
<1>10. /\ disc_read(p.raw, 676) \subseteq {s}
       /\ disc_read(p.raw + 169, 28) \subseteq {s}
       /\ disc_read(p.raw + p.tmd, p.tmdLen) \subseteq {s}
       /\ disc_read(p.raw + p.cert, p.certLen) \subseteq {s}
  <2>1. \A o, n \in Nat : disc_read(o, n) \subseteq Touched(o, n, SectorBytes)
    BY ReadsInside
  <2>2. 676 \in Nat /\ 28 \in Nat /\ Touched(p.raw, 676, SectorBytes) \subseteq {s}
    BY <1>7, <1>9
  <2>3. disc_read(p.raw, 676) \subseteq Touched(p.raw, 676, SectorBytes)
    BY <1>9, <2>1, <2>2, Zenon
  <2>4. disc_read(p.raw + 169, 28) \subseteq Touched(p.raw + 169, 28, SectorBytes)
    BY <1>9, <2>1, <2>2, Zenon
  <2>5. disc_read(p.raw + p.tmd, p.tmdLen) \subseteq Touched(p.raw + p.tmd, p.tmdLen, SectorBytes)
    BY <1>2, <1>9, <2>1, Zenon
  <2>6. disc_read(p.raw + p.cert, p.certLen) \subseteq Touched(p.raw + p.cert, p.certLen, SectorBytes)
    BY <1>2, <1>9, <2>1, Zenon
  <2> QED
    BY <1>7, <1>8, <2>2, <2>3, <2>4, <2>5, <2>6
<1>11. s \in disc_read(p.raw, 676) /\ s \in Touched(p.raw, 704, SectorBytes)
  <2>1. \A n \in Nat \ {0} : /\ p.raw \div SectorWords \in disc_read(p.raw, n)
                           /\ disc_read(p.raw, n) \subseteq Touched(p.raw, n, SectorBytes)
    BY <1>9, ReadMarks
  <2>2. p.raw \div SectorWords = s
    BY DEF First, s
  <2> QED
    BY <2>1, <2>2
<1>12. Reads(p) = {s} \cup {Hashes(p), Hashes(p) + 1}
  <2>1. disc_mark(p.raw + p.h3, 98304) = {Hashes(p), Hashes(p) + 1}
    BY HashesMark
  <2> QED
    BY <1>10, <1>11, <2>1 DEF Reads
<1>13. StructureNeeds(p) = {s} \cup {Hashes(p), Hashes(p) + 1, Hashes(p) + 2}
  <2> DEFINE N(r) == Touched(p.raw + r[1], r[2], SectorBytes)
  <2>1. N(<<0, 704>>) = {s}
    BY <1>7, <1>9, <1>11
  <2>2. N(<<p.tmd, p.tmdLen>>) \subseteq {s} /\ N(<<p.cert, p.certLen>>) \subseteq {s}
    BY <1>8
  <2>3. N(<<p.h3, 98304>>) = {Hashes(p), Hashes(p) + 1, Hashes(p) + 2}
    BY HashesMark
  <2>4. StructureNeeds(p) = UNION {N(r) : r \in {<<0, 704>>, <<p.tmd, p.tmdLen>>,
                                              <<p.cert, p.certLen>>, <<p.h3, 98304>>}}
    BY DEF StructureNeeds
  <2> HIDE DEF N
  <2> QED
    BY <2>1, <2>2, <2>3, <2>4
<1> QED
  BY <1>12, <1>13 DEF s

\* Sectors have numbers.
LEMMA SectorsAreNat ==
  \A offset, len \in Nat : /\ Touched(offset, len, SectorBytes) \subseteq Nat
                           /\ Touched(offset, len, DataBytes) \subseteq Nat
BY DEF Touched, SectorBytes, DataBytes

\* What do_files marks is what it should: every sector that a structure or a
\* file of the partition's data lies in, the first one among them.
LEMMA DataMarks ==
  ASSUME NEW p \in Partition, LaidOut(p)
  PROVE  /\ UNION {partition_read(p, r[1], r[2]) : r \in Contents(p)} = DataNeeds(p)
         /\ Hashes(p) + 3 \in DataNeeds(p)
         /\ DataNeeds(p) \subseteq Nat
<1>1. Contents(p) \subseteq Nat \X Nat
  <2>1. /\ p.aplLen \in Nat /\ p.dol \in Nat /\ p.fst \in Nat /\ p.fstLen \in Nat
        /\ p.files \subseteq Nat \X Nat
    BY DEF Partition
  <2>2. p.dol <= p.fst
    BY Zenon DEF LaidOut
  <2>3. 4 * (p.fst - p.dol) \in Nat
    BY <2>1, <2>2
  <2> QED
    BY <2>1, <2>3 DEF Contents, Loader
<1>2. \A r \in Contents(p) :
        partition_read(p, r[1], r[2]) = {partition_block(p) + s : s \in Touched(r[1], r[2], DataBytes)}
  BY <1>1, DataBlocksAre DEF partition_read
<1>3. UNION {partition_read(p, r[1], r[2]) : r \in Contents(p)} = DataNeeds(p)
  <2>1. UNION {partition_read(p, r[1], r[2]) : r \in Contents(p)}
          = UNION {{partition_block(p) + s : s \in Touched(r[1], r[2], DataBytes)} : r \in Contents(p)}
    BY <1>2
  <2>2. UNION {{partition_block(p) + s : s \in Touched(r[1], r[2], DataBytes)} : r \in Contents(p)}
          = {partition_block(p) + s : s \in UNION {Touched(r[1], r[2], DataBytes) : r \in Contents(p)}}
    OBVIOUS
  <2> QED
    BY <2>1, <2>2 DEF DataNeeds
<1>4. <<0, 1152>> \in Contents(p)
  BY DEF Contents
<1>5. 0 \in Touched(0, 1152, DataBytes)
  BY DEF Touched, DataBytes
<1>6. partition_block(p) + 0 \in DataNeeds(p)
  BY <1>4, <1>5 DEF DataNeeds
<1>7. partition_block(p) = Hashes(p) + 3 /\ Hashes(p) \in Nat
  BY Places
<1>8. \A r \in Contents(p) : Touched(r[1], r[2], DataBytes) \subseteq Nat
  BY <1>1, SectorsAreNat
<1>9. DataNeeds(p) \subseteq Nat
  BY <1>7, <1>8 DEF DataNeeds
<1> QED
  BY <1>3, <1>6, <1>7, <1>9

\* The tables take a sector each.
LEMMA TablesMark ==
  ASSUME NEW d \in Discs
  PROVE  TablesNeed(d) = disc_read(0, 256) \cup disc_read(65536, 256) \cup disc_read(d.table, 256)
<1>1. ASSUME NEW offset \in Nat, offset % SectorWords <= SectorWords - 64
      PROVE  Touched(offset, 256, SectorBytes) = disc_read(offset, 256)
  <2> DEFINE s == offset \div SectorWords
             w == offset % SectorWords
  <2>1. s \in Nat /\ w \in Nat /\ offset = 8192 * s + w /\ 4 * w + 256 <= 32768
    BY <1>1 DEF SectorWords
  <2>2. Touched(8192 * s + w, 256, SectorBytes) \subseteq {s}
    <3> HIDE DEF s, w
    <3> QED
      BY <2>1, InOneSector
  <2>3. s \in disc_read(offset, 256) /\ disc_read(offset, 256) \subseteq Touched(offset, 256, SectorBytes)
    BY ReadMarks
  <2> HIDE DEF s, w
  <2> QED
    BY <2>1, <2>2, <2>3
<1>2. d.table \in Nat /\ d.table % SectorWords <= SectorWords - 64
  BY DiscsAreTyped, DiscsAreLaidOut, Zenon
<1>3. Touched(0, 256, SectorBytes) = disc_read(0, 256) /\ Touched(65536, 256, SectorBytes) = disc_read(65536, 256)
  <2>1. 0 % SectorWords <= SectorWords - 64 /\ 65536 % SectorWords <= SectorWords - 64
    BY DEF SectorWords
  <2> QED
    BY <1>1, <2>1
<1>4. Touched(d.table, 256, SectorBytes) = disc_read(d.table, 256)
  BY <1>1, <1>2
<1> QED
  BY <1>3, <1>4 DEF TablesNeed

-----------------------------------------------------------------------------
(* The inductive invariant of the parser.                                  *)

MarkedWhole(p) == Reads(p) \cup DataNeeds(p) \subseteq used

\* Nothing is marked but what is needed, and of the tables, of the partitions
\* that the loop has passed and of the one that it is at, everything is that
\* is ever marked of them.
Parsing ==
  /\ disc \in Discs /\ i \in Nat \ {0}
  /\ pc \in {"magic", "table", "partition", "structures", "files", "done", "notwii", "fatal"}
  /\ used \subseteq Needed
  /\ pc \in {"structures", "files"} => i \in DOMAIN disc.parts /\ Selected(i)
  /\ pc \in {"magic", "table"} => i = 1
  /\ pc = "table" => disc_read(0, 256) \subseteq used
  /\ pc \in {"partition", "structures", "files", "done"} => TablesNeed(disc) \subseteq used
  /\ \A k \in DOMAIN disc.parts : k < i /\ Selected(k) => MarkedWhole(disc.parts[k])
  /\ pc = "files" => Reads(disc.parts[i]) \subseteq used
  /\ pc = "done" => i > Len(disc.parts)
  /\ pc = "notwii" => ~disc.magic

LEMMA ParsingInit == Init => Parsing
<1> SUFFICES ASSUME Init PROVE Parsing
  OBVIOUS
<1>1. disc \in Discs /\ pc = "magic" /\ i = 1 /\ used = {}
  BY DEF Init
<1>2. \A k \in DOMAIN disc.parts : k \in Nat /\ k >= 1
  BY <1>1, DiscsAreTyped
<1>3. \A k \in DOMAIN disc.parts : ~(k < i)
  BY <1>1, <1>2
<1> QED
  BY <1>1, <1>3 DEF Parsing

\* What a selected partition needs is needed.
LEMMA NeededOf ==
  /\ TablesNeed(disc) \subseteq Needed
  /\ \A k \in DOMAIN disc.parts : Selected(k) => PartitionNeeds(disc.parts[k]) \subseteq Needed
BY DEF Needed

\* The image and the selector stay, and with them what is needed.
LEMMA ImageStays ==
  ASSUME disc' = disc, part_sel' = part_sel
  PROVE  /\ Needed' = Needed
         /\ \A k \in DOMAIN disc.parts : Selected(k)' = Selected(k)
BY DEF Needed, Selected, test_parition_skip, TablesNeed, PartitionNeeds, StructureNeeds, DataNeeds,
       Contents, partition_block

LEMMA ParsingNext == Parsing /\ [Next]_vars => Parsing'
<1> SUFFICES ASSUME Parsing, [Next]_vars PROVE Parsing'
  OBVIOUS
<1> USE DEF Parsing
<1>0. disc' = disc /\ part_sel' = part_sel
  BY DEF Next, ReadFails, Magic, Table, SkipPartition, TakePartition, Structures, Files, Finish, vars
<1>1. Needed' = Needed /\ \A k \in DOMAIN disc.parts : Selected(k)' = Selected(k)
  BY <1>0, ImageStays
<1>2. TablesNeed(disc)' = TablesNeed(disc) /\ \A k : disc.parts[k]' = disc.parts[k]
  BY <1>0 DEF TablesNeed
<1>a. ReadFails \/ Magic \/ Table \/ SkipPartition \/ TakePartition \/ Structures \/ Files
      \/ Finish \/ UNCHANGED vars
  BY DEF Next
<1>3. used \subseteq used'
  BY <1>a DEF ReadFails, Magic, Table, SkipPartition, TakePartition, Structures, Files, Finish, vars, Mark
<1>4. \A k \in DOMAIN disc.parts :
        MarkedWhole(disc.parts[k]) => MarkedWhole(disc.parts[k])'
  BY <1>0, <1>3 DEF MarkedWhole
<1>5. CASE ReadFails
  BY <1>5, <1>0, <1>1, <1>4 DEF ReadFails
<1>6. CASE Magic
  <2>1. used' = used \cup disc_read(0, 256) /\ i' = i /\ pc' = IF disc.magic THEN "table" ELSE "notwii"
    BY <1>6 DEF Magic, Mark
  <2>2. disc_read(0, 256) \subseteq Needed
    BY NeededOf, TablesMark
  <2> QED
    BY <1>6, <1>0, <1>1, <1>4, <2>1, <2>2 DEF Magic
<1>7. CASE Table
  <2>1. /\ used' = used \cup (disc_read(65536, 256) \cup disc_read(disc.table, 256))
        /\ i' = i /\ pc' = "partition" /\ pc = "table"
    BY <1>7 DEF Table, Mark
  <2>2. /\ TablesNeed(disc) \subseteq Needed
        /\ TablesNeed(disc) = disc_read(0, 256) \cup disc_read(65536, 256) \cup disc_read(disc.table, 256)
    BY NeededOf, TablesMark
  <2>3. used' \subseteq Needed
    BY <2>1, <2>2
  <2>4. TablesNeed(disc) \subseteq used'
    BY <2>1, <2>2
  <2> QED
    BY <1>0, <1>1, <1>2, <1>4, <2>1, <2>3, <2>4
<1>8. CASE SkipPartition
  <2>1. pc = "partition" /\ pc' = pc /\ i' = i + 1 /\ used' = used /\ ~Selected(i)
    BY <1>8 DEF SkipPartition, Skip, Selected
  <2>2. ASSUME NEW k \in DOMAIN disc.parts, k < i', Selected(k)
        PROVE  MarkedWhole(disc.parts[k])'
    <3>1. k \in Nat
      BY PartitionsAreLaidOut
    <3>2. k < i
      BY <2>1, <2>2, <3>1
    <3> QED
      BY <1>4, <2>2, <3>2
  <2>3. i' \in Nat \ {0}
    BY <2>1
  <2> QED
    BY <1>0, <1>1, <1>2, <2>1, <2>2, <2>3
<1>9. CASE TakePartition
  <2>1. pc = "partition" /\ pc' = "structures" /\ i' = i /\ used' = used
    BY <1>9 DEF TakePartition
  <2>2. i \in DOMAIN disc.parts /\ Selected(i)
    <3>1. disc.parts \in Seq(Partition)
      BY DiscsAreTyped
    <3>2. i <= Len(disc.parts) /\ Selected(i)
      BY <1>9 DEF TakePartition, Skip, Selected
    <3> QED
      BY <3>1, <3>2
  <2> QED
    BY <1>0, <1>1, <1>2, <1>4, <2>1, <2>2
<1>10. CASE Structures
  <2> DEFINE p == disc.parts[i]
  <2>1. pc = "structures" /\ pc' = "files" /\ i' = i /\ used' = used \cup Reads(p)
    BY <1>10 DEF Structures, Mark, Reads
  <2>2. i \in DOMAIN disc.parts /\ Selected(i) /\ p \in Partition /\ LaidOut(p)
    BY <2>1, PartitionsAreLaidOut
  <2>3. Reads(p) \subseteq Needed
    <3>1. Reads(p) \subseteq StructureNeeds(p)
      BY <2>2, StructuresMark
    <3>2. PartitionNeeds(p) \subseteq Needed
      BY <2>2, NeededOf
    <3> QED
      BY <3>1, <3>2 DEF PartitionNeeds
  <2>4. Reads(disc.parts[i])' = Reads(p)
    BY <1>0, <2>1
  <2> HIDE DEF p
  <2> QED
    BY <1>0, <1>1, <1>2, <1>4, <2>1, <2>2, <2>3, <2>4
<1>11. CASE Files
  <2> DEFINE p == disc.parts[i]
  <2>1. pc = "files" /\ pc' = "partition" /\ i' = i + 1
    BY <1>11 DEF Files
  <2>2. i \in DOMAIN disc.parts /\ Selected(i) /\ p \in Partition /\ LaidOut(p)
    BY <2>1, PartitionsAreLaidOut
  <2>3. used' = used \cup DataNeeds(p)
    BY <1>11, <2>2, DataMarks DEF Files, Mark
  <2>4. DataNeeds(p) \subseteq Needed
    BY <2>2, NeededOf DEF PartitionNeeds
  <2>5. ASSUME NEW k \in DOMAIN disc.parts, k = i
        PROVE  MarkedWhole(disc.parts[k])'
    <3>1. Reads(p) \cup DataNeeds(p) \subseteq used'
      BY <2>1, <2>3
    <3>2. disc'.parts[k] = p
      BY <1>0, <2>5
    <3> HIDE DEF p
    <3> QED
      BY <3>1, <3>2 DEF MarkedWhole
  <2>6. ASSUME NEW k \in DOMAIN disc.parts, k < i', Selected(k)
        PROVE  MarkedWhole(disc.parts[k])'
    <3>1. k \in Nat
      BY PartitionsAreLaidOut
    <3>2. k < i \/ k = i
      BY <2>1, <2>6, <3>1
    <3> QED
      BY <1>4, <2>5, <2>6, <3>2
  <2>7. i' \in Nat \ {0}
    BY <2>1
  <2> QED
    BY <1>0, <1>1, <1>2, <2>1, <2>3, <2>4, <2>6, <2>7
<1>12. CASE Finish
  BY <1>12, <1>0, <1>1, <1>2, <1>4 DEF Finish
<1>13. CASE UNCHANGED vars
  BY <1>13, <1>0, <1>1, <1>2, <1>4 DEF vars
<1> QED
  BY <1>a, <1>5, <1>6, <1>7, <1>8, <1>9, <1>10, <1>11, <1>12, <1>13

LEMMA ParsingAlways == Spec => []Parsing
BY ParsingInit, ParsingNext, PTL DEF Spec

-----------------------------------------------------------------------------
(* From sectors to blocks.                                                 *)

\* Dividing gives a quotient and a remainder.
LEMMA Quotient ==
  ASSUME NEW a \in Nat, NEW m \in Nat \ {0}
  PROVE  /\ a \div m \in Nat /\ a % m \in 0 .. m - 1
         /\ a = (a \div m) * m + (a % m)
<1>1. a \div m \in Int /\ a % m \in 0 .. m - 1
  OBVIOUS
<1>2. a = (a \div m) * m + (a % m)
  OBVIOUS
<1>3. a \div m >= 0
  <2> DEFINE q == a \div m
  <2> SUFFICES ASSUME q < 0 PROVE FALSE
    BY <1>1
  <2>1. q \in Int /\ a < q * m + m
    BY <1>1, <1>2
  <2> HIDE DEF q
  <2>2. q * m + m <= 0
    BY <2>1
  <2> QED
    BY <2>1, <2>2
<1> QED
  BY <1>1, <1>2, <1>3

\* The sectors of a block that is among those of a disc are among them.
LEMMA BlockOnDisc ==
  ASSUME NEW n \in Nat, NEW size \in Nat \ {0}, n < DiscSectors \div size,
         NEW k \in 0 .. size - 1
  PROVE  n * size + k < DiscSectors
<1> DEFINE all == DiscSectors \div size
<1>1. DiscSectors \in Nat
  BY DEF DiscSectors
<1>2. all \in Nat /\ all * size <= DiscSectors
  BY <1>1, Quotient
<1> HIDE DEF all
<1>3. PICK t \in Nat : all = n + 1 + t
  <2>1. all - n - 1 \in Nat /\ all = n + 1 + (all - n - 1)
    BY <1>2 DEF all
  <2> QED
    BY <2>1
<1>4. all * size = n * size + size + t * size
  BY <1>3
<1>5. t * size >= 0
  BY <1>3
<1> QED
  BY <1>1, <1>2, <1>4, <1>5

\* A sector is copied with its block when it or another of the block is marked.
LEMMA InCopiedBlock ==
  ASSUME NEW s \in Nat, NEW size \in Nat \ {0}, s \div size < DiscSectors \div size,
         NEW k \in 0 .. size - 1, (s \div size) * size + k \in used
  PROVE  Copied(s \div size, size)
<1>1. s \div size \in Nat
  BY Quotient
<1>2. (s \div size) * size + k < DiscSectors
  BY <1>1, BlockOnDisc
<1> QED
  BY <1>2 DEF Copied, block_used

LEMMA MarkedIsCopied ==
  ASSUME NEW s \in Nat, NEW size \in Nat \ {0}, s \div size < DiscSectors \div size,
         s \in used
  PROVE  Copied(s \div size, size)
<1>1. s % size \in 0 .. size - 1 /\ (s \div size) * size + (s % size) = s
  BY Quotient
<1> QED
  BY <1>1, InCopiedBlock

\* Between two marked sectors: a block of two and more has one of them.
LEMMA BetweenIsCopied ==
  ASSUME NEW s \in Nat, NEW size \in Nat \ {0, 1}, s \div size < DiscSectors \div size,
         s - 1 \in used, s + 1 \in used
  PROVE  Copied(s \div size, size)
<1> DEFINE n == s \div size
           k == s % size
<1>1. n \in Nat /\ k \in 0 .. size - 1 /\ s = n * size + k
  BY Quotient
<1>a. n * size \in Nat
  BY <1>1
<1>2. CASE k = 0
  <2>1. 1 \in 0 .. size - 1
    OBVIOUS
  <2>2. n * size + 1 = s + 1
    BY <1>1, <1>a, <1>2
  <2> QED
    BY <2>1, <2>2, InCopiedBlock
<1>3. CASE k # 0
  <2>1. k - 1 \in 0 .. size - 1
    BY <1>1, <1>3
  <2>2. n * size + (k - 1) = s - 1
    BY <1>1, <1>a
  <2> QED
    BY <2>1, <2>2, InCopiedBlock
<1> QED
  BY <1>2, <1>3

\* Whatever the images and the selector: nothing is marked that no table, no
\* structure and no file of a selected partition lies in.
THEOREM MarksNothingElse == Spec => []NothingElse
<1>1. Parsing => NothingElse
  BY DEF Parsing, NothingElse
<1> QED
  BY <1>1, ParsingAlways, PTL

\* Whatever the images, the selector and the size of a block: a disc that was
\* parsed to its end is copied with every sector that its tables and its
\* selected partitions lie in, also the last of the hashes.
THEOREM CopiesEnough == Spec => []CopyIsEnough
<1>1. Parsing => CopyIsEnough
  <2> SUFFICES ASSUME Parsing, pc = "done", NEW s \in Needed, NEW size \in BlockSizes
               PROVE  Copied(s \div size, size)
    BY DEF CopyIsEnough
  <2>1. size \in Nat \ {0, 1}
    BY BlocksAreOfSectors
  <2>2. /\ disc \in Discs /\ TablesNeed(disc) \subseteq used
        /\ \A k \in DOMAIN disc.parts : Selected(k) => MarkedWhole(disc.parts[k])
    <3>1. disc \in Discs /\ TablesNeed(disc) \subseteq used /\ i > Len(disc.parts) /\ i \in Nat
      BY DEF Parsing
    <3>2. \A k \in DOMAIN disc.parts : k < i
      BY <3>1, DiscsAreTyped
    <3> QED
      BY <3>1, <3>2 DEF Parsing
  <2>3. CASE s \in TablesNeed(disc)
    <3>1. s \div size < DiscSectors \div size
      BY <2>2, <2>3, DiscsFit
    <3>2. s \in Nat
      <4>1. 0 \in Nat /\ 65536 \in Nat /\ 256 \in Nat /\ disc.table \in Nat
        BY <2>2, DiscsAreTyped
      <4> QED
        BY <2>3, <4>1, SectorsAreNat DEF TablesNeed
    <3> QED
      BY <2>1, <2>2, <2>3, <3>1, <3>2, MarkedIsCopied
  <2>4. ASSUME NEW k \in DOMAIN disc.parts, Selected(k), s \in PartitionNeeds(disc.parts[k])
        PROVE  Copied(s \div size, size)
    <3> DEFINE p == disc.parts[k]
    <3>1. p \in Partition /\ LaidOut(p)
      BY <2>2, PartitionsAreLaidOut
    <3>2. Reads(p) \cup DataNeeds(p) \subseteq used
      BY <2>2, <2>4 DEF MarkedWhole
    <3>3. s \div size < DiscSectors \div size
      BY <2>2, <2>4, DiscsFit
    <3>4. Hashes(p) \in Nat /\ First(p) \in Nat /\ partition_block(p) = Hashes(p) + 3
      BY <3>1, Places
    <3> HIDE DEF p
    <3>5. CASE s \in DataNeeds(p)
      <4>1. s \in Nat
        BY <3>1, <3>5, DataMarks
      <4> QED
        BY <2>1, <3>2, <3>3, <3>5, <4>1, MarkedIsCopied
    <3>6. CASE s \in Reads(p)
      <4>1. s \in Nat
        BY <3>1, <3>4, <3>6, StructuresMark
      <4> QED
        BY <2>1, <3>2, <3>3, <3>6, <4>1, MarkedIsCopied
    <3>7. CASE s = Hashes(p) + 2
      <4>1. s \in Nat /\ s - 1 = Hashes(p) + 1 /\ s + 1 = Hashes(p) + 3
        BY <3>4, <3>7
      <4>2. Hashes(p) + 1 \in used
        BY <3>1, <3>2, StructuresMark
      <4>3. Hashes(p) + 3 \in used
        BY <3>1, <3>2, DataMarks
      <4> QED
        BY <2>1, <3>3, <4>1, <4>2, <4>3, BetweenIsCopied
    <3>8. s \in PartitionNeeds(p)
      BY <2>4 DEF p
    <3>9. s \in DataNeeds(p) \/ s \in Reads(p) \/ s = Hashes(p) + 2
      BY <3>1, <3>8, StructuresMark DEF PartitionNeeds
    <3> QED
      BY <3>5, <3>6, <3>7, <3>9
  <2>5. s \in TablesNeed(disc)
        \/ \E k \in DOMAIN disc.parts : Selected(k) /\ s \in PartitionNeeds(disc.parts[k])
    BY DEF Needed
  <2> QED
    BY <2>3, <2>4, <2>5
<1> QED
  BY <1>1, ParsingAlways, PTL

-----------------------------------------------------------------------------
(* The partition table.                                                    *)

KeptIn(k) == {m \in 1 .. k : Kept(m)}

\* The rank of an entry: how it grows from one entry to the next.
LEMMA RankGrows ==
  ASSUME NEW k \in Nat
  PROVE  /\ Rank(k) \in 0 .. k
         /\ Rank(0) = 0
         /\ Rank(k + 1) = IF Kept(k + 1) THEN Rank(k) + 1 ELSE Rank(k)
<1>1. IsFiniteSet(1 .. k) /\ Cardinality(1 .. k) = k
  BY FS_Interval
<1>2. KeptIn(k) \subseteq 1 .. k /\ IsFiniteSet(KeptIn(k))
  BY <1>1, FS_Subset DEF KeptIn
<1>3. Cardinality(KeptIn(k)) \in 0 .. k
  BY <1>1, <1>2, FS_Subset, FS_CardinalityType
<1>4. Rank(0) = 0
  <2>1. {m \in 1 .. 0 : Kept(m)} = {}
    OBVIOUS
  <2> QED BY <2>1, FS_EmptySet DEF Rank
<1>5. CASE Kept(k + 1)
  <2>1. {m \in 1 .. k + 1 : Kept(m)} = KeptIn(k) \cup {k + 1} /\ k + 1 \notin KeptIn(k)
    BY <1>5 DEF KeptIn
  <2>2. Cardinality(KeptIn(k) \cup {k + 1}) = Cardinality(KeptIn(k)) + 1
    BY <2>1, <1>2, FS_AddElement
  <2> QED BY <2>1, <2>2, <1>3, <1>4, <1>5 DEF Rank, KeptIn
<1>6. CASE ~Kept(k + 1)
  <2>1. {m \in 1 .. k + 1 : Kept(m)} = KeptIn(k)
    BY <1>6 DEF KeptIn
  <2> QED BY <2>1, <1>3, <1>4, <1>6 DEF Rank, KeptIn
<1> QED BY <1>5, <1>6

Len0 == Len(original)

\* The part of the table that is still to be read is as it was, and what was
\* read and selected stands at its rank, below what is still to be read; in
\* front of the place that is written next stands nothing else.
CompactInv ==
  /\ original \in Seq(Entries) /\ b \in Seq(Entries) /\ Len(b) = Len0
  /\ step \in {"check", "loop", "done", "fatal"}
  /\ from \in 0 .. Len0
  /\ to = Rank(from) /\ to \in 0 .. from
  /\ step # "done" => number = Len0
  /\ step = "check" => from = 0 /\ b = original
  /\ step = "loop" => selector # ALL_PARTITIONS
  /\ \A k \in 1 .. Len0 : k > from => b[k] = original[k]
  /\ \A k \in 1 .. from : Kept(k) => Rank(k) \in 1 .. to /\ b[Rank(k)] = original[k]
  /\ \A k \in 1 .. to : \E m \in 1 .. from : Kept(m) /\ b[k] = original[m]
  /\ step = "done" => IF selector = ALL_PARTITIONS
                    THEN b = original /\ number = Len0
                    ELSE from = Len0 /\ number = to

LEMMA Compacts == FixSpec => []CompactInv
<1>1. FixInit => CompactInv
  <2> SUFFICES ASSUME FixInit PROVE CompactInv
    OBVIOUS
  <2>1. PICK k \in Nat : original \in [1 .. k -> Entries]
    BY MaxPartsIsNat DEF FixInit
  <2>2. original \in Seq(Entries) /\ Len0 \in Nat
    BY <2>1 DEF Len0
  <2>3. Rank(0) = 0
    BY RankGrows
  <2> QED BY <2>2, <2>3 DEF FixInit, CompactInv, Len0
<1>2. CompactInv /\ [FixNext]_fix_vars => CompactInv'
  <2> SUFFICES ASSUME CompactInv, [FixNext]_fix_vars PROVE CompactInv'
    OBVIOUS
  <2>0. /\ Len0 \in Nat /\ from \in Nat /\ from <= Len0 /\ to \in Nat /\ to <= from
        /\ to = Rank(from) /\ Len(b) = Len0 /\ original \in Seq(Entries) /\ b \in Seq(Entries)
    BY DEF CompactInv, Len0
  <2>1. CASE Check
    BY <2>1 DEF Check, CompactInv, Len0, Rank, Kept
  <2>2. CASE Keep
    <3>1. /\ step = "loop" /\ number = Len0 /\ from < Len0 /\ from' = from + 1 /\ to' = to + 1
          /\ step' = step /\ number' = number /\ selector' = selector /\ original' = original
      BY <2>2 DEF Keep, Loop, CompactInv
    <3>2. b[from + 1] = original[from + 1] /\ from + 1 \in 1 .. Len0 /\ b[from + 1] \in Entries
      BY <3>1, <2>0 DEF CompactInv
    <3>3. Kept(from + 1) /\ b' = [b EXCEPT ![to + 1] = original[from + 1]]
      BY <2>2, <3>2 DEF Keep, Put, Kept
    <3>4. Rank(from + 1) = to + 1 /\ to + 1 \in 1 .. Len0
      <4>1. Rank(from + 1) = IF Kept(from + 1) THEN Rank(from) + 1 ELSE Rank(from)
        BY <2>0, RankGrows
      <4>2. to + 1 \in 1 .. Len0
        BY <3>1, <2>0
      <4> QED BY <4>1, <4>2, <3>3, <2>0
    <3>5. /\ b' \in Seq(Entries) /\ Len(b') = Len0
          /\ \A k \in 1 .. Len0 : b'[k] = IF k = to + 1 THEN original[from + 1] ELSE b[k]
      BY <3>2, <3>3, <3>4, <2>0
    <3>6. /\ Len0' = Len0
          /\ \A k : Kept(k)' = Kept(k) /\ Rank(k)' = Rank(k)
      BY <3>1 DEF Len0, Kept, Rank
    <3>7. \A k \in 1 .. Len0 : k > from' => b'[k] = original[k]
      BY <3>1, <3>5, <2>0 DEF CompactInv
    <3>8. ASSUME NEW k \in 1 .. from', Kept(k)
          PROVE  Rank(k) \in 1 .. to' /\ b'[Rank(k)] = original[k]
      <4>1. CASE k = from + 1
        BY <4>1, <3>1, <3>4, <3>5, <2>0
      <4>2. CASE k # from + 1
        <5>1. Rank(k) \in 1 .. to /\ b[Rank(k)] = original[k]
          BY <4>2, <3>1, <3>8, <2>0 DEF CompactInv
        <5> QED BY <5>1, <3>1, <3>5, <2>0
      <4> QED BY <4>1, <4>2
    <3>9. from' \in 0 .. Len0 /\ to' = Rank(from') /\ to' \in 0 .. from' /\ step' = "loop"
      BY <3>1, <3>4, <2>0
    <3>10. ASSUME NEW k \in 1 .. to'
           PROVE  \E m \in 1 .. from' : Kept(m) /\ b'[k] = original[m]
      <4>1. CASE k = to + 1
        <5>1. b'[k] = original[from + 1] /\ from + 1 \in 1 .. from'
          BY <4>1, <3>1, <3>4, <3>5, <2>0
        <5> QED BY <5>1, <3>3
      <4>2. CASE k # to + 1
        <5>1. k \in 1 .. to
          BY <4>2, <3>1, <2>0
        <5>2. PICK m \in 1 .. from : Kept(m) /\ b[k] = original[m]
          BY <5>1 DEF CompactInv
        <5>3. b'[k] = b[k] /\ m \in 1 .. from'
          BY <5>1, <4>2, <3>1, <3>4, <3>5, <2>0
        <5> QED BY <5>2, <5>3
      <4> QED BY <4>1, <4>2
    <3> QED BY <3>1, <3>5, <3>6, <3>7, <3>8, <3>9, <3>10, <2>0 DEF CompactInv
  <2>3. CASE Drop
    <3>1. /\ step = "loop" /\ number = Len0 /\ from < Len0 /\ from' = from + 1 /\ to' = to /\ b' = b
          /\ step' = step /\ number' = number /\ selector' = selector /\ original' = original
      BY <2>3 DEF Drop, Loop, CompactInv
    <3>2. b[from + 1] = original[from + 1] /\ ~Kept(from + 1)
      BY <2>3, <3>1, <2>0 DEF Drop, Kept, CompactInv
    <3>3. Rank(from + 1) = to
      BY <3>2, <2>0, RankGrows
    <3>4. /\ Len0' = Len0
          /\ \A k : Kept(k)' = Kept(k) /\ Rank(k)' = Rank(k)
      BY <3>1 DEF Len0, Kept, Rank
    <3>5. \A k \in 1 .. from' : Kept(k) => k \in 1 .. from
      BY <3>1, <3>2, <2>0
    <3>6. from' \in 0 .. Len0 /\ to' = Rank(from') /\ to' \in 0 .. from' /\ step' = "loop"
      BY <3>1, <3>3, <2>0
    <3>7. \A k \in 1 .. Len0 : k > from' => b'[k] = original[k]
      BY <3>1, <2>0 DEF CompactInv
    <3> QED BY <3>1, <3>4, <3>5, <3>6, <3>7, <2>0 DEF CompactInv
  <2>4. CASE WriteNumber
    <3>1. /\ Len0' = Len0
          /\ \A k : Kept(k)' = Kept(k) /\ Rank(k)' = Rank(k)
      BY <2>4 DEF WriteNumber, Len0, Kept, Rank
    <3>2. selector # ALL_PARTITIONS /\ from = Len0
      BY <2>4 DEF WriteNumber, CompactInv
    <3>3. /\ step' = "done" /\ number' = to /\ from' = from /\ to' = to /\ b' = b
          /\ selector' = selector /\ original' = original
      BY <2>4 DEF WriteNumber, NumberWritten
    <3> QED BY <3>1, <3>2, <3>3, <2>0 DEF CompactInv
  <2>5. CASE UNCHANGED fix_vars
    BY <2>5 DEF fix_vars, CompactInv, Len0, Rank, Kept
  <2> QED BY <2>1, <2>2, <2>3, <2>4, <2>5 DEF FixNext
<1> QED BY <1>1, <1>2, PTL DEF FixSpec

\* The table keeps its place and length in the buffer, and never more entries
\* are written than were read.
THEOREM TypeCorrect == FixSpec => []FixTypeOK
<1>1. CompactInv => FixTypeOK
  <2> SUFFICES ASSUME CompactInv PROVE FixTypeOK
    OBVIOUS
  <2>1. Len0 \in Nat
    BY DEF CompactInv, Len0
  <2> QED BY <2>1 DEF CompactInv, FixTypeOK, Len0
<1> QED BY <1>1, Compacts, PTL

\* wd_fix_partition_table lists the selected partitions, each of them and in
\* their order, whatever the table and the selector.
THEOREM CutDownToTheSelected == FixSpec => []ListsTheSelected
<1>1. CompactInv => ListsTheSelected
  <2> SUFFICES ASSUME CompactInv, step = "done"
               PROVE  /\ number = Rank(Len0)
                      /\ \A k \in 1 .. Len0 : Kept(k) => b[Rank(k)] = original[k]
    BY DEF ListsTheSelected, Len0
  <2>0. Len0 \in Nat
    BY DEF CompactInv, Len0
  <2>1. CASE selector = ALL_PARTITIONS
    <3>1. \A k : Kept(k)
      BY <2>1 DEF Kept, test_parition_skip, ALL_PARTITIONS,
                  REMOVE_UPDATE_PARTITION, ONLY_GAME_PARTITION
    <3>2. \A k \in Nat : Rank(k) = k
      <4> TAKE k \in Nat
      <4>1. {m \in 1 .. k : Kept(m)} = 1 .. k
        BY <3>1
      <4>2. Cardinality(1 .. k) = k
        BY FS_Interval
      <4> QED BY <4>1, <4>2, Zenon DEF Rank
    <3> QED BY <2>0, <2>1, <3>2 DEF CompactInv
  <2>2. CASE selector # ALL_PARTITIONS
    BY <2>2 DEF CompactInv
  <2> QED BY <2>1, <2>2
<1> QED BY <1>1, Compacts, PTL

-----------------------------------------------------------------------------
(* Both passes.                                                            *)

\* The second pass of an add is PartitionTable's, begun with the image's own
\* table and the selector of the first pass.
THEOREM FixesTheTable == CopySpec => FixSpec
<1>1. CopyInit => FixInit
  <2> SUFFICES ASSUME CopyInit PROVE FixInit
    OBVIOUS
  <2>1. /\ disc \in Discs /\ part_sel \in Selectors
        /\ original = TableOf(disc)
    BY DEF CopyInit, Init
  <2>2. original \in UNION {[1 .. k -> Entries] : k \in 0 .. MaxParts}
    BY <2>1, TablesAreKnown
  <2> QED BY <2>1, <2>2 DEF CopyInit, FixInit
<1>2. [CopyNext]_copy_vars => [FixNext]_fix_vars
  BY DEF CopyNext, Build, Fix, copy_vars, fix_vars
<1> QED BY <1>1, <1>2, PTL DEF CopySpec, FixSpec

\* However many partitions an image has, and whatever is selected: the table
\* of the copy lists the selected ones in their order.
THEOREM CopyListsTheSelected == CopySpec => []ListsTheSelected
BY FixesTheTable, CutDownToTheSelected, PTL

\* The first pass of an add is the parser's.
LEMMA ParsesTheImage == CopySpec => Spec
<1>1. CopyInit => Init
  BY DEF CopyInit
<1>2. [CopyNext]_copy_vars => [Next]_vars
  BY DEF CopyNext, Build, Fix, copy_vars
<1> QED BY <1>1, <1>2, PTL DEF CopySpec, Spec

\* The second pass is about the image and the selection of the first, and
\* begins when that one has ended.
Agree ==
  /\ selector = part_sel
  /\ original = TableOf(disc)
  /\ step # "check" => pc \in {"done", "notwii"}

LEMMA AgreeAlways == CopySpec => []Agree
<1>1. CopyInit => Agree
  BY DEF CopyInit, Agree
<1>2. Agree /\ [CopyNext]_copy_vars => Agree'
  <2> SUFFICES ASSUME Agree, [CopyNext]_copy_vars PROVE Agree'
    OBVIOUS
  <2>1. CASE Build
    <3>1. /\ selector' = selector /\ original' = original /\ step' = step
          /\ disc' = disc /\ part_sel' = part_sel
      BY <2>1 DEF Build, fix_vars, Next, ReadFails, Magic, Table, SkipPartition, TakePartition,
                  Structures, Files, Finish
    <3>2. pc \notin {"done", "notwii"}
      BY <2>1 DEF Build, Next, ReadFails, Magic, Table, SkipPartition, TakePartition,
                  Structures, Files, Finish
    <3> QED BY <3>1, <3>2 DEF Agree, TableOf
  <2>2. CASE Fix
    <3>1. selector' = selector /\ original' = original
      BY <2>2 DEF Fix, FixNext, Check, Keep, Drop, WriteNumber
    <3>2. pc' = pc /\ disc' = disc /\ part_sel' = part_sel /\ pc \in {"done", "notwii"}
      BY <2>2 DEF Fix, vars
    <3> QED BY <3>1, <3>2 DEF Agree, TableOf
  <2>3. CASE UNCHANGED copy_vars
    BY <2>3 DEF Agree, TableOf, copy_vars, vars, fix_vars
  <2> QED BY <2>1, <2>2, <2>3 DEF CopyNext
<1> QED BY <1>1, <1>2, PTL DEF CopySpec

\* What is listed in the end is an entry of the image, of a partition that was
\* selected.
LEMMA ListedIsSelected ==
  ASSUME CompactInv, step = "done", NEW k \in 1 .. number
  PROVE  \E m \in 1 .. Len(original) : Kept(m) /\ b[k] = original[m]
<1>1. CASE selector = ALL_PARTITIONS
  <2>1. \A m : Kept(m)
    BY <1>1 DEF Kept, test_parition_skip, ALL_PARTITIONS, REMOVE_UPDATE_PARTITION, ONLY_GAME_PARTITION
  <2>2. b[k] = original[k] /\ k \in 1 .. Len(original)
    BY <1>1 DEF CompactInv, Len0
  <2> QED BY <2>1, <2>2
<1>2. CASE selector # ALL_PARTITIONS
  <2>1. number = to /\ from = Len(original)
    BY <1>2 DEF CompactInv, Len0
  <2> QED BY <2>1 DEF CompactInv
<1> QED BY <1>1, <1>2

\* An image that is not a Wii disc's has no partitions.  One that had, by
\* chance, where a Wii disc has its table, is copied as if it had been parsed.
OnlyWiiHavePartitions == \A d \in Discs : d.magic \/ Len(d.parts) = 0

\* Whatever the images, the selector and the size of a block: of every
\* partition that the fixed table lists, the copy has the block it begins in.
THEOREM CopiesTheListed == OnlyWiiHavePartitions /\ CopySpec => []ListedIsCopied
<1> SUFFICES ASSUME OnlyWiiHavePartitions PROVE CopySpec => []ListedIsCopied
  OBVIOUS
<1>1. Parsing /\ CompactInv /\ Agree => ListedIsCopied
  <2> SUFFICES ASSUME Parsing, CompactInv, Agree, step = "done",
                      NEW k \in 1 .. number, NEW size \in BlockSizes
               PROVE  Copied((b[k].at \div SectorWords) \div size, size)
    BY DEF ListedIsCopied
  <2>1. PICK m \in 1 .. Len(original) : Kept(m) /\ b[k] = original[m]
    BY ListedIsSelected
  <2>2. disc \in Discs /\ disc.parts \in Seq(Partition)
    BY DiscsAreTyped DEF Parsing
  <2>3. Len(original) = Len(disc.parts) /\ m \in DOMAIN disc.parts
    BY <2>2 DEF Agree, TableOf
  <2>4. original[m].at = disc.parts[m].raw /\ original[m].type = disc.parts[m].type
    BY <2>3 DEF Agree, TableOf
  <2>5. Selected(m)
    BY <2>1, <2>4 DEF Kept, Selected, Agree
  <2>6. pc = "done"
    BY <2>2, <2>3 DEF Agree, Parsing, OnlyWiiHavePartitions
  <2> DEFINE p == disc.parts[m]
             s == First(p)
  <2>7. p \in Partition /\ LaidOut(p)
    BY <2>2, <2>3, PartitionsAreLaidOut
  <2>8. s \in Nat /\ s \in Reads(p) /\ s \in PartitionNeeds(p)
    BY <2>7, Places, StructuresMark DEF PartitionNeeds
  <2>9. m < i
    BY <2>2, <2>3, <2>6 DEF Parsing
  <2>10. s \in used
    BY <2>3, <2>5, <2>8, <2>9 DEF Parsing, MarkedWhole
  <2>11. s \div size < DiscSectors \div size
    BY <2>2, <2>3, <2>8, DiscsFit
  <2>12. Copied(s \div size, size)
    BY <2>8, <2>10, <2>11, MarkedIsCopied, BlocksAreOfSectors
  <2> QED BY <2>1, <2>4, <2>12 DEF First
<1> QED BY <1>1, ParsesTheImage, ParsingAlways, FixesTheTable, Compacts, AgreeAlways, PTL
=============================================================================
