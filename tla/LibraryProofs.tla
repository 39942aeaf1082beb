---------------------------- MODULE LibraryProofs ----------------------------
(***************************************************************************)
(* Proofs, for every size of the partition, of the table and of the device *)
(* sectors, of the properties of Library.                                  *)
(***************************************************************************)
EXTENDS Library, TLAPS

-----------------------------------------------------------------------------
(* The place of a bit.                                                     *)

\* Dividing gives a quotient and a remainder.
LEMMA Division ==
  ASSUME NEW a \in Int, NEW m \in Int, m > 0, a >= 0
  PROVE  /\ a \div m \in Int /\ a % m \in Int
         /\ a \div m >= 0
         /\ a = m * (a \div m) + (a % m)
<1>1. a \div m \in Int /\ a % m \in 0 .. m - 1
  OBVIOUS
<1>2. a = m * (a \div m) + (a % m)
  OBVIOUS
<1>3. a \div m >= 0
  <2> DEFINE q == a \div m
  <2> SUFFICES ASSUME q < 0 PROVE FALSE
    BY <1>1
  <2>1. q \in Int /\ a < m * q + m
    BY <1>1, <1>2
  <2> HIDE DEF q
  <2>2. m * q + m <= 0
    BY <2>1
  <2> QED
    BY <2>1, <2>2
<1> QED
  BY <1>1, <1>2, <1>3

\* The quotient and the remainder tell which number was divided.
LEMMA DivisionTells ==
  ASSUME NEW a \in Int, NEW b \in Int, NEW m \in Int, m > 0, a >= 0, b >= 0,
         a \div m = b \div m, a % m = b % m
  PROVE  a = b
<1> DEFINE q == a \div m
           r == a % m
<1>1. a = m * q + r
  BY Division
<1>2. b = m * (b \div m) + (b % m)
  BY Division
<1>3. b = m * q + r
  BY <1>2
<1> HIDE DEF q, r
<1> QED
  BY <1>1, <1>3

\* No two blocks have their bit at the same place, and every place is in the
\* sectors that the table takes.
LEMMA PlacesApart ==
  ASSUME NEW n \in Nat, NEW b \in BlocksOf(Whole), NEW c \in BlocksOf(Whole)
  PROVE  /\ Place(b, n) = Place(c, n) => b = c
         /\ Place(b, n)[1] <= SectorsOf(n)
<1>1. /\ b \in Int /\ c \in Int /\ b - 1 >= 0 /\ c - 1 >= 0
      /\ PerSector \in Int /\ PerSector > 0
  BY SizesArePositive DEF BlocksOf
<1>2. /\ (b - 1) \div PerSector \in Int /\ (b - 1) \div PerSector >= 0
      /\ b - 1 = PerSector * ((b - 1) \div PerSector) + ((b - 1) % PerSector)
  BY <1>1, Division
<1>3. /\ (c - 1) \div PerSector \in Int
      /\ c - 1 = PerSector * ((c - 1) \div PerSector) + ((c - 1) % PerSector)
  BY <1>1, Division
<1>4. SectorsOf(n) \in Int
  BY <1>1 DEF SectorsOf
<1>5. Place(b, n)[1] <= SectorsOf(n)
  BY <1>2, <1>4 DEF Place
<1>6. ASSUME Place(b, n) = Place(c, n) PROVE b = c
  <2>1. (b - 1) % PerSector = (c - 1) % PerSector
    BY <1>6 DEF Place
  <2>2. (b - 1) \div PerSector = (c - 1) \div PerSector
    BY <1>2, <1>3, <1>4, <1>6 DEF Place
  <2>3. b - 1 = c - 1
    BY <1>1, <2>1, <2>2, DivisionTells
  <2> QED
    BY <1>1, <2>3
<1> QED
  BY <1>5, <1>6

-----------------------------------------------------------------------------
(* The free-block table on the device.                                     *)

\* What is written at the end of the block is what a later load reads.
LEMMA WrittenIsRead ==
  ASSUME NEW F \in SUBSET BlocksOf(Whole), area' = Written(F, Whole)
  PROVE  FromArea(Whole)' = F
<1>1. Whole \in Nat
  BY SizesArePositive
<1>2. ASSUME NEW b \in BlocksOf(Whole) PROVE Place(b, Whole) \in area' <=> b \in F
  <2>1. Place(b, Whole)[1] <= SectorsOf(Whole)
    BY <1>1, PlacesApart
  <2>2. Place(b, Whole)[1] \in Int /\ SectorsOf(Whole) \in Int
    BY <1>1, SizesArePositive DEF Place, SectorsOf, BlocksOf
  <2>3. ~(Place(b, Whole)[1] > SectorsOf(Whole))
    BY <2>1, <2>2
  <2>4. Place(b, Whole) \in area' <=> \E c \in F : Place(b, Whole) = Place(c, Whole)
    BY <2>3 DEF Written
  <2> QED
    BY <1>1, <2>4, PlacesApart
<1> QED
  BY <1>2 DEF FromArea

\* Of a partition as large as it was made, loading reads nothing but its
\* blocks, whatever the size.
LEMMA LoadedAreBlocks ==
  ASSUME TypeOK
  PROVE  /\ load_freeblocks \subseteq BlocksOf(Whole) /\ load_freeblocks # Unloaded
         /\ Offered \subseteq load_freeblocks /\ Offered \subseteq BlocksOf(n_wbfs_sec)
<1>1. BlocksOf(n_wbfs_sec) \subseteq BlocksOf(Whole)
  BY SizesArePositive DEF TypeOK, BlocksOf
<1>2. load_freeblocks \subseteq BlocksOf(Whole)
  BY <1>1 DEF load_freeblocks, FromArea, TypeOK
<1>3. 0 \notin BlocksOf(Whole)
  BY DEF BlocksOf
<1> QED
  BY <1>2, <1>3 DEF Unloaded, Offered

-----------------------------------------------------------------------------
(* The invariant.                                                          *)

LEMMA SoundInit == Init => Sound
<1> SUFFICES ASSUME Init PROVE Sound
  OBVIOUS
<1>1. Whole \in 0 .. Whole
  BY SizesArePositive
<1>2. TypeOK
  BY <1>1 DEF Init, TypeOK, Cleared, Disc
<1>3. Discs = {}
  BY DEF Init, Discs
<1> QED
  BY <1>1, <1>2, <1>3
  DEF Init, Sound, SizesAgree, StruckOffIsCleared, NoBlockTwice, ClosedIsWritten

\* Discs are only reached while the partition has its first size; it has that
\* size only as long as it was never trimmed.
LEMMA UntrimmedIsWhole ==
  ASSUME Sound, NeverTrimmed
  PROVE  n_wbfs_sec = Whole /\ dsize = Whole
  BY SizesArePositive DEF Sound, TypeOK, SizesAgree, NeverTrimmed

\* What every call of an open partition does to the head.
LEMMA SyncKeepsSizes ==
  ASSUME Sound, wbfs_sync, UNCHANGED <<n_hd_sec, n_wbfs_sec>>
  PROVE  SizesAgree' /\ (NeverTrimmed' <=> NeverTrimmed)
  BY DEF Sound, SizesAgree, wbfs_sync, NeverTrimmed

\* Every call keeps the partition sound.
LEMMA SoundNext == Sound /\ [Next]_vars => Sound'
<1> SUFFICES ASSUME Sound, [Next]_vars PROVE Sound'
  OBVIOUS
<1> USE DEF device, memory, user
<1>a. TypeOK
  BY DEF Sound
<1>b. NoId \notin Ids /\ Cleared.id = NoId /\ Cleared.blocks = {}
  BY NoIdIsNone DEF Cleared, Disc
<1>1. ASSUME NEW id \in Ids, NEW n \in 1 .. MostBlocks, wbfs_add_disc(id, n)
      PROVE  Sound'
  <2>1. PICK s \in First(Slots \ table), bls \in Lowest(Offered, n) :
          /\ table' = table \cup {s}
          /\ freeblks' = load_freeblocks \ bls
          /\ info' = [info EXCEPT ![s] = Disc(id, bls)]
    BY <1>1 DEF wbfs_add_disc, Left
  <2>2. /\ p /\ p' /\ wbfs_sync /\ UNCHANGED <<n_wbfs_sec, n_hd_sec>>
    BY <1>1 DEF wbfs_add_disc
  <2>3. s \in Slots \ table /\ bls \subseteq Offered
    BY <2>1 DEF First, Lowest, kSubset
  <2>4. freeblks' \subseteq BlocksOf(Whole) /\ bls \subseteq BlocksOf(Whole)
    BY <1>a, <2>1, <2>3, LoadedAreBlocks
  <2>5. /\ info'[s] = [id |-> id, blocks |-> bls]
        /\ \A t \in Slots \ {s} : info'[t] = info[t]
    BY <1>a, <2>1, <2>3 DEF TypeOK, Disc
  <2>6. TypeOK'
    BY <1>a, <2>1, <2>2, <2>3, <2>4 DEF TypeOK, wbfs_sync, Disc
  <2>7. StruckOffIsCleared'
    BY <2>1, <2>3, <2>5 DEF Sound, StruckOffIsCleared
  <2>8. load_freeblocks' = load_freeblocks \ bls
    BY <2>1, <2>4 DEF load_freeblocks, Unloaded, BlocksOf
  <2>9. Discs' = Discs \cup {s} /\ Discs \subseteq Slots \ {s}
    BY <1>a, <2>1, <2>3, <2>5 DEF Discs, TypeOK
  <2>10. NoBlockTwice'
    <3> SUFFICES ASSUME NeverTrimmed'
                 PROVE  /\ \A t \in Discs' : info'[t].blocks \cap load_freeblocks' = {}
                        /\ \A t, u \in Discs' : t # u
                             => info'[t].blocks \cap info'[u].blocks = {}
      BY DEF NoBlockTwice
    <3>1. NoBlockTwice /\ NeverTrimmed
      BY <2>2, SyncKeepsSizes DEF Sound
    <3>2. bls \subseteq load_freeblocks
      BY <1>a, <2>3, LoadedAreBlocks
    <3> QED
      BY <2>5, <2>8, <2>9, <3>1, <3>2 DEF NoBlockTwice
  <2> QED
    BY <2>2, <2>6, <2>7, <2>10, SyncKeepsSizes DEF Sound, ClosedIsWritten
<1>2. ASSUME NEW n \in 1 .. MostBlocks, AddFails(n)
      PROVE  Sound'
  <2>1. PICK s \in First(Slots \ table) : table' = table \cup {s}
    BY <1>2 DEF AddFails
  <2>2. /\ p /\ p' /\ UNCHANGED <<info, dtable, dsize, area, n_wbfs_sec, n_hd_sec>>
        /\ freeblks' = load_freeblocks \ Offered
    BY <1>2 DEF AddFails
  <2>3. s \in Slots \ table
    BY <2>1 DEF First
  <2>4. freeblks' \subseteq BlocksOf(Whole)
    BY <1>a, <2>2, LoadedAreBlocks
  <2>5. load_freeblocks' = load_freeblocks \ Offered
    BY <2>2, <2>4 DEF load_freeblocks, Unloaded, BlocksOf
  <2>6. Discs' = Discs
    BY <1>b, <2>1, <2>2, <2>3 DEF Discs, Sound, StruckOffIsCleared
  <2> QED
    BY <1>a, <2>1, <2>2, <2>3, <2>4, <2>5, <2>6
    DEF Sound, TypeOK, SizesAgree, StruckOffIsCleared, NoBlockTwice, NeverTrimmed,
        ClosedIsWritten
<1>3. ASSUME NEW id \in Ids, wbfs_rm_disc(id)
      PROVE  Sound'
  <2>1. PICK s \in SlotWith(id) :
          /\ freeblks' = load_freeblocks \cup InBuffer(info[s].blocks, n_wbfs_sec)
          /\ info' = [info EXCEPT ![s] = Cleared]
          /\ table' = table \ {s}
    BY <1>3 DEF wbfs_rm_disc
  <2>2. /\ p /\ p' /\ wbfs_sync /\ UNCHANGED <<n_wbfs_sec, n_hd_sec>>
    BY <1>3 DEF wbfs_rm_disc
  <2>3. s \in table /\ s \in Slots /\ s \in Discs
    BY <1>a, <2>1 DEF SlotWith, First, With, TypeOK, Discs
  <2>4. InBuffer(info[s].blocks, n_wbfs_sec) \subseteq info[s].blocks
        /\ info[s].blocks \subseteq BlocksOf(Whole)
    BY <1>a, <2>3 DEF InBuffer, TypeOK
  <2>5. freeblks' \subseteq BlocksOf(Whole)
    BY <1>a, <2>1, <2>4, LoadedAreBlocks
  <2>6. info'[s] = Cleared /\ \A t \in Slots \ {s} : info'[t] = info[t]
    BY <1>a, <2>1, <2>3 DEF TypeOK
  <2>7. TypeOK'
    BY <1>a, <2>1, <2>2, <2>3, <2>5 DEF TypeOK, wbfs_sync, Cleared, Disc
  <2>8. StruckOffIsCleared'
    BY <2>1, <2>6 DEF Sound, StruckOffIsCleared
  <2>9. load_freeblocks' \subseteq load_freeblocks \cup info[s].blocks
    BY <2>1, <2>4, <2>5 DEF load_freeblocks, Unloaded, BlocksOf
  <2>10. Discs' = Discs \ {s} /\ Discs \subseteq Slots
    BY <1>a, <2>1, <2>6 DEF Discs, TypeOK
  <2>11. NoBlockTwice'
    <3> SUFFICES ASSUME NeverTrimmed'
                 PROVE  /\ \A t \in Discs' : info'[t].blocks \cap load_freeblocks' = {}
                        /\ \A t, u \in Discs' : t # u
                             => info'[t].blocks \cap info'[u].blocks = {}
      BY DEF NoBlockTwice
    <3>1. NoBlockTwice /\ NeverTrimmed
      BY <2>2, SyncKeepsSizes DEF Sound
    <3> QED
      BY <2>3, <2>6, <2>9, <2>10, <3>1 DEF NoBlockTwice
  <2> QED
    BY <2>2, <2>7, <2>8, <2>11, SyncKeepsSizes DEF Sound, ClosedIsWritten
<1>4. ASSUME NEW id \in Ids, NEW new \in Ids, wbfs_nid_disc(id, new)
      PROVE  Sound'
  <2>1. PICK s \in SlotWith(id) : info' = [info EXCEPT ![s].id = new]
    BY <1>4 DEF wbfs_nid_disc
  <2>2. /\ p /\ p' /\ wbfs_sync /\ UNCHANGED memory
    BY <1>4 DEF wbfs_nid_disc
  <2>3. s \in table /\ s \in Slots /\ info[s].id = id
    BY <1>a, <2>1 DEF SlotWith, First, With, TypeOK
  <2>4. /\ info'[s].id = new /\ \A t \in Slots : info'[t].blocks = info[t].blocks
        /\ \A t \in Slots \ {s} : info'[t] = info[t]
    BY <1>a, <2>1, <2>3 DEF TypeOK
  <2>5. TypeOK'
    BY <1>a, <2>1, <2>2, <2>3 DEF TypeOK, wbfs_sync
  <2>6. StruckOffIsCleared'
    BY <2>2, <2>3, <2>4 DEF Sound, StruckOffIsCleared
  <2>7. Discs' = Discs /\ Discs \subseteq Slots
    BY <1>a, <2>2, <2>3, <2>4 DEF Discs, TypeOK
  <2>8. load_freeblocks' = load_freeblocks
    BY <2>2 DEF load_freeblocks, wbfs_sync, FromArea
  <2>9. NoBlockTwice'
    BY <2>2, <2>4, <2>7, <2>8 DEF Sound, NoBlockTwice, NeverTrimmed
  <2> QED
    BY <2>2, <2>5, <2>6, <2>9, SyncKeepsSizes DEF Sound, ClosedIsWritten
<1>5. CASE UNCHANGED <<info, dtable, dsize, area, n_wbfs_sec, table, n_hd_sec, freeblks, p>>
  <2>1. load_freeblocks' = load_freeblocks /\ Discs' = Discs
        /\ (FromArea(Whole))' = FromArea(Whole)
    BY <1>5 DEF load_freeblocks, FromArea, Discs
  <2> QED
    BY <1>5, <2>1
    DEF Sound, TypeOK, SizesAgree, StruckOffIsCleared, NoBlockTwice, NeverTrimmed,
        ClosedIsWritten
<1>6. CASE wbfs_trim
  <2>1. PICK size \in maxbl : n_hd_sec' = size
    BY <1>6 DEF wbfs_trim
  <2>2. /\ p /\ p' /\ wbfs_sync /\ UNCHANGED <<info, n_wbfs_sec, table>>
        /\ freeblks' = load_freeblocks \ Offered
    BY <1>6 DEF wbfs_trim
  <2>3. n_wbfs_sec \in 0 .. Whole /\ Whole \in Nat \ {0}
    BY <1>a, SizesArePositive DEF TypeOK
  <2>4. size \in 0 .. Whole /\ size # Whole /\ size <= n_wbfs_sec
    <3>1. CASE Offered = {}
      BY <2>1, <2>3, <3>1 DEF maxbl, Garbage
    <3>2. CASE Offered # {}
      <4>1. size \in BlocksOf(n_wbfs_sec)
        BY <1>a, <2>1, <3>2, LoadedAreBlocks DEF maxbl, First
      <4> QED
        BY <2>3, <4>1 DEF BlocksOf
    <3> QED
      BY <3>1, <3>2
  <2>5. freeblks' \subseteq BlocksOf(Whole)
    BY <1>a, <2>2, LoadedAreBlocks
  <2>6. TypeOK' /\ SizesAgree' /\ ~NeverTrimmed'
    BY <1>a, <2>1, <2>2, <2>4, <2>5 DEF TypeOK, SizesAgree, NeverTrimmed, wbfs_sync
  <2> QED
    BY <2>2, <2>6 DEF Sound, StruckOffIsCleared, NoBlockTwice, ClosedIsWritten
<1>7. CASE wbfs_close
  <2>1. p /\ ~p' /\ p' \in BOOLEAN /\ wbfs_sync /\ UNCHANGED <<info, memory>>
    BY <1>7 DEF wbfs_close
  <2>2. TypeOK' /\ SizesAgree' /\ StruckOffIsCleared'
    BY <1>a, <2>1, SyncKeepsSizes DEF Sound, TypeOK, wbfs_sync, StruckOffIsCleared
  <2>3. load_freeblocks' = load_freeblocks /\ Discs' = Discs
    BY <2>1 DEF load_freeblocks, wbfs_sync, FromArea, Discs
  <2>4. NoBlockTwice'
    BY <2>1, <2>3 DEF Sound, NoBlockTwice, NeverTrimmed
  <2>5. ASSUME NeverTrimmed' PROVE FromArea(Whole)' = load_freeblocks'
    <3>1. n_wbfs_sec = Whole
      BY <2>1, <2>5, UntrimmedIsWhole DEF NeverTrimmed
    <3>2. CASE freeblks = Unloaded
      BY <2>1, <3>1, <3>2 DEF load_freeblocks, wbfs_sync, FromArea
    <3>3. CASE freeblks # Unloaded
      <4>1. freeblks \in SUBSET BlocksOf(Whole) /\ area' = Written(freeblks, Whole)
        BY <1>a, <2>1, <3>1, <3>3 DEF TypeOK, wbfs_sync
      <4> QED
        BY <2>1, <3>3, <4>1, WrittenIsRead DEF load_freeblocks
    <3> QED
      BY <3>2, <3>3
  <2> QED
    BY <2>1, <2>2, <2>4, <2>5 DEF Sound, ClosedIsWritten, wbfs_sync
<1>8. CASE wbfs_open_partition
  <2>1. /\ ~p /\ p' /\ p' \in BOOLEAN /\ wbfs_sync /\ UNCHANGED info
        /\ n_hd_sec' = dsize /\ n_wbfs_sec' = dsize /\ table' = dtable
        /\ freeblks' = Unloaded
    BY <1>8 DEF wbfs_open_partition
  <2>2. table' = table /\ dsize = n_hd_sec /\ area' = area
    BY <2>1 DEF Sound, ClosedIsWritten, SizesAgree, wbfs_sync
  <2>3. TypeOK' /\ SizesAgree' /\ StruckOffIsCleared'
    BY <1>a, <2>1, <2>2 DEF Sound, TypeOK, SizesAgree, wbfs_sync, StruckOffIsCleared
  <2>4. NoBlockTwice'
    <3> SUFFICES ASSUME NeverTrimmed' PROVE NoBlockTwice'
      BY DEF NoBlockTwice
    <3>1. NeverTrimmed /\ n_wbfs_sec' = Whole
      BY <2>1, <2>2 DEF NeverTrimmed
    <3>2. load_freeblocks' = load_freeblocks
      BY <2>1, <2>2, <3>1 DEF Sound, ClosedIsWritten, load_freeblocks, FromArea
    <3>3. Discs' = Discs
      BY <2>1, <2>2 DEF Discs
    <3> QED
      BY <2>1, <3>1, <3>2, <3>3 DEF Sound, NoBlockTwice
  <2> QED
    BY <2>1, <2>3, <2>4 DEF Sound, ClosedIsWritten
<1>9. ASSUME NEW id \in Ids, NidTooLong(id) \/ wbfs_open_disc(id)
      PROVE  Sound'
  BY <1>5, <1>9 DEF NidTooLong, wbfs_open_disc
<1>10. CASE wbfs_close_disc \/ Truncate
  BY <1>5, <1>10 DEF wbfs_close_disc, Truncate
<1>11. CASE UNCHANGED vars
  BY <1>5, <1>11 DEF vars
<1> QED
  BY <1>1, <1>2, <1>3, <1>4, <1>6, <1>7, <1>8, <1>9, <1>10, <1>11 DEF Next

LEMMA SoundAlways == Spec => []Sound
  BY SoundInit, SoundNext, PTL DEF Spec

-----------------------------------------------------------------------------
(* The properties.                                                         *)

\* No block belongs to two discs, or to a disc and to those that may be
\* handed out, whatever calls were made before, while the free-block table
\* stays in its place.
THEOREM NeverTwice == Spec => []NoBlockTwice
<1>1. Sound => NoBlockTwice
  BY DEF Sound
<1> QED
  BY <1>1, SoundAlways, PTL

\* Trimming a partition whose used blocks have no hole and leave one free
\* keeps every disc inside the new size.
THEOREM TrimsPacked == Spec => TrimKeepsPacked
<1>1. ASSUME Sound, [Next]_vars, Packed, trimmed' \notin {trimmed, Garbage},
             NEW s \in Discs
      PROVE  info[s].blocks \subseteq BlocksOf(n_hd_sec')
  <2> USE DEF device, memory, user
  <2>1. wbfs_trim
    BY <1>1
    DEF Next, wbfs_add_disc, AddFails, wbfs_rm_disc, wbfs_nid_disc, NidTooLong, Truncate,
        wbfs_open_disc, wbfs_close_disc, wbfs_close, wbfs_open_partition, vars
  <2>2. PICK size \in First(Offered) : n_hd_sec' = size
    BY <1>1, <2>1 DEF wbfs_trim, maxbl, Packed
  <2>3. size \in Offered /\ \A used \in info[s].blocks : used < size
    BY <1>1, <2>2 DEF First, Packed
  <2>4. size \in Int /\ info[s].blocks \subseteq 1 .. Whole - 1
    BY <1>1, <2>3, SizesArePositive DEF Offered, BlocksOf, Discs, Sound, TypeOK
  <2> QED
    BY <2>2, <2>3, <2>4, SizesArePositive DEF BlocksOf
<1>2. Sound /\ [Next]_vars =>
        [Packed /\ trimmed' \notin {trimmed, Garbage} =>
           \A s \in Discs : info[s].blocks \subseteq BlocksOf(n_hd_sec')]_vars
  BY <1>1
<1> QED
  BY <1>2, SoundAlways, PTL DEF Spec, TrimKeepsPacked

\* The next open finds the discs and the free blocks that the last close had,
\* unless the partition was trimmed.
THEOREM ReopensTheSame == Spec => ReopensAsClosed
<1>1. ASSUME Sound, [Next]_vars, ~p, p', NeverTrimmed
      PROVE  table' = table /\ load_freeblocks' = load_freeblocks
  <2> USE DEF device, memory, user
  <2>1. wbfs_open_partition
    BY <1>1
    DEF Next, wbfs_add_disc, AddFails, wbfs_rm_disc, wbfs_nid_disc, NidTooLong, Truncate,
        wbfs_open_disc, wbfs_close_disc, wbfs_close, wbfs_trim, vars
  <2>2. table' = dtable /\ freeblks' = Unloaded /\ n_wbfs_sec' = dsize /\ area' = area
    BY <2>1 DEF wbfs_open_partition, wbfs_sync
  <2>3. dtable = table /\ dsize = Whole /\ FromArea(Whole) = load_freeblocks
    BY <1>1, UntrimmedIsWhole DEF Sound, ClosedIsWritten
  <2> QED
    BY <2>2, <2>3 DEF load_freeblocks, FromArea
<1>2. Sound /\ [Next]_vars =>
        [~p /\ p' /\ NeverTrimmed =>
           table' = table /\ load_freeblocks' = load_freeblocks]_vars
  BY <1>1
<1> QED
  BY <1>2, SoundAlways, PTL DEF Spec, ReopensAsClosed

=============================================================================
