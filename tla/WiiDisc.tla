------------------------------ MODULE WiiDisc ------------------------------
(***************************************************************************)
(* wd_build_disc_usage of wiidisc.c: which sectors of a Wii disc an add    *)
(* copies.  The parser reads the disc's tables, every structure of the     *)
(* selected partitions and, without reading them, their files; what it     *)
(* comes by is marked in the usage table, a sector at a time.  libwbfs.c   *)
(* then copies every block of the partition that holds a marked sector.    *)
(*                                                                         *)
(* Offsets count words of four bytes, lengths count bytes, as in the code. *)
(* Decryption does not change which sectors are read and is left out; the  *)
(* walk over the file table is FileTable's, which visits every file.       *)
(***************************************************************************)
EXTENDS Selector, Sequences

CONSTANTS
  Discs,      \* images to try
  BlockSizes  \* sectors of a block (wii_sec_per_wbfs_sect)

SectorWords == 8192      \* 0x8000 >> 2
SectorBytes == 32768     \* 0x8000
DataWords   == 7936      \* 0x7c00 >> 2, the words of a sector of a partition
DataBytes   == 31744     \* 0x7c00   that are not hashes
DiscSectors == 286864    \* 143432 * 2

\* What is read of a partition: its type and where it begins; the place and
\* length of its TMD and certificates; the places of its hashes and its data;
\* in the data the length of the application loader, the places of the program
\* and the file table, and the places and lengths of the files.
Partition ==
  [type: Nat, raw: Nat, tmd: Nat, tmdLen: Nat, cert: Nat, certLen: Nat, h3: Nat, data: Nat,
   aplLen: Nat, dol: Nat, fst: Nat, fstLen: Nat, files: SUBSET (Nat \X Nat)]

ASSUME DiscsAreTyped ==
  Discs \subseteq [magic: BOOLEAN, table: Nat, parts: Seq(Partition)]

\* How pressed discs are laid out: partitions, their data and their h3 hashes
\* begin with a sector, and the three sectors of hashes lie before the data.
\* The structures between a partition's beginning and its hashes fit there, and
\* the partition table in the sector it begins in.  do_disc reads 0x100 bytes of
\* that table, into arrays of 32 entries, and looks at the count no further.
ASSUME DiscsAreLaidOut ==
  \A d \in Discs :
    /\ Len(d.parts) <= 32
    /\ d.table % SectorWords <= SectorWords - 64
    /\ \A p \in {d.parts[k] : k \in DOMAIN d.parts} :
         /\ {p.raw % SectorWords, p.h3 % SectorWords, p.data % SectorWords} = {0}
         /\ p.h3 + 3 * SectorWords = p.data
         /\ {p.tmd, p.tmd + p.tmdLen \div 4, p.cert, p.cert + p.certLen \div 4}
              \subseteq 0 .. SectorWords - 1
         /\ p.dol <= p.fst

ASSUME BlocksAreOfSectors == BlockSizes \subseteq Nat \ {0, 1}

VARIABLES
  pc,    \* "magic", "table", "partition", "structures", "files", "done",
         \* "notwii" after an error, or "fatal" after wbfs_fatal
  disc,
  part_sel,
  i,     \* the partition, from 1
  used   \* the sectors that sector_usage_table marks

vars == <<pc, disc, part_sel, i, used>>

Init ==
  /\ disc \in Discs
  /\ part_sel \in Selectors
  /\ pc = "magic" /\ i = 1 /\ used = {}

\* What a read of len bytes marks: the loop takes a sector off len and ends
\* when no more than one is left, so the last one is not marked.
MarkCount[len \in Nat] ==
  IF len > 2 * SectorBytes THEN 1 + MarkCount[len - SectorBytes] ELSE 1

MarksFirst(offset, len) == {offset \div SectorWords}
Marks(offset, len) ==
  LET blockno == offset \div SectorWords
  IN blockno .. blockno + MarkCount[len] - 1

\* A read into a buffer does nothing when it is empty; one without a buffer,
\* which only marks, does.
disc_read(offset, len) == IF len = 0 THEN {} ELSE Marks(offset, len)
disc_mark(offset, len) == Marks(offset, len)

\* The sectors of the partition's data that partition_read comes by, for real
\* or not, from an offset on and a length: whole sectors first from inside one,
\* then from its beginning.
DataBlocks[r \in Nat \X Nat] ==
  LET left == DataBytes - 4 * (r[1] % DataWords)
      now  == IF left > r[2] THEN r[2] ELSE left
  IN IF r[2] = 0 THEN {}
     ELSE {r[1] \div DataWords} \cup DataBlocks[<<r[1] + now \div 4, r[2] - now>>]

partition_block(p) == (p.raw + p.data) \div SectorWords

partition_read(p, offset, len) ==
  {partition_block(p) + b : b \in DataBlocks[<<offset, len>>]}

Mark(sectors) == used' = used \cup sectors

\* The read callback fails, or was told to stop: the process ends.
ReadFails ==
  /\ pc \in {"magic", "table", "structures", "files"}
  /\ pc' = "fatal"
  /\ UNCHANGED <<disc, part_sel, i, used>>

Magic ==
  /\ pc = "magic"
  /\ Mark(disc_read(0, 256))
  /\ pc' = IF disc.magic THEN "table" ELSE "notwii"
  /\ UNCHANGED <<disc, part_sel, i>>

\* Only the first of the tables that the information at 0x40000 names is read.
Table ==
  /\ pc = "table"
  /\ Mark(disc_read(65536, 256) \cup disc_read(disc.table, 256))
  /\ pc' = "partition"
  /\ UNCHANGED <<disc, part_sel, i>>

SkipNone(type) == FALSE
Skip(type) == test_parition_skip(type, part_sel)

SkipPartition ==
  /\ pc = "partition"
  /\ i <= Len(disc.parts)
  /\ Skip(disc.parts[i].type)
  /\ i' = i + 1
  /\ UNCHANGED <<pc, disc, part_sel, used>>

TakePartition ==
  /\ pc = "partition"
  /\ i <= Len(disc.parts)
  /\ ~Skip(disc.parts[i].type)
  /\ pc' = "structures"
  /\ UNCHANGED <<disc, part_sel, i, used>>

\* do_partition: ticket, offsets, TMD, certificates; the hashes are marked only.
Structures ==
  LET p == disc.parts[i]
  IN /\ pc = "structures"
     /\ Mark(disc_read(p.raw, 676)
             \cup disc_read(p.raw + 169, 28)
             \cup disc_read(p.raw + p.tmd, p.tmdLen)
             \cup disc_read(p.raw + p.cert, p.certLen)
             \cup disc_mark(p.raw + p.h3, 98304))
     /\ pc' = "files"
     /\ UNCHANGED <<disc, part_sel, i>>

\* do_files: header, application loader, program, file table and every file.
Loader == 2320   \* 0x2440 >> 2

Contents(p) ==
  {<<0, 1152>>, <<Loader, 32>>, <<Loader, 32 + p.aplLen>>,
   <<p.dol, 4 * (p.fst - p.dol)>>, <<p.fst, p.fstLen>>} \cup p.files

Files ==
  LET p == disc.parts[i]
  IN /\ pc = "files"
     /\ Mark(UNION {partition_read(p, r[1], r[2]) : r \in Contents(p)})
     /\ i' = i + 1
     /\ pc' = "partition"
     /\ UNCHANGED <<disc, part_sel>>

Finish ==
  /\ pc = "partition"
  /\ i > Len(disc.parts)
  /\ pc' = "done"
  /\ UNCHANGED <<disc, part_sel, i, used>>

Next == ReadFails \/ Magic \/ Table \/ SkipPartition \/ TakePartition
        \/ Structures \/ Files \/ Finish

Spec == Init /\ [][Next]_vars

-----------------------------------------------------------------------------
(* What libwbfs copies, in blocks of size sectors.                         *)

\* Sectors behind the end of the usage table count as unused.
block_used(b, size) ==
  \E k \in 0 .. size - 1 : b * size + k < DiscSectors /\ b * size + k \in used

\* The loops of wbfs_add_disc, wbfs_count_added_disc_blocks and
\* wbfs_estimate_disc go through n_wbfs_sec_per_disc blocks.
Copied(b, size) == b < DiscSectors \div size /\ block_used(b, size)

-----------------------------------------------------------------------------
(* What a copy needs: every sector that a structure or a file touches.     *)

Touched(offset, len, sectorBytes) ==
  IF len = 0 THEN {}
  ELSE (4 * offset) \div sectorBytes .. (4 * offset + len - 1) \div sectorBytes

TablesNeed(d) ==
  UNION {Touched(offset, 256, SectorBytes) : offset \in {0, 65536, d.table}}

StructureNeeds(p) ==
  UNION {Touched(p.raw + r[1], r[2], SectorBytes) :
           r \in {<<0, 704>>, <<p.tmd, p.tmdLen>>, <<p.cert, p.certLen>>, <<p.h3, 98304>>}}

DataNeeds(p) ==
  {partition_block(p) + s : s \in UNION {Touched(r[1], r[2], DataBytes) : r \in Contents(p)}}

PartitionNeeds(p) == StructureNeeds(p) \cup DataNeeds(p)

Selected(k) == ~test_parition_skip(disc.parts[k].type, part_sel)

Needed ==
  TablesNeed(disc)
  \cup UNION {PartitionNeeds(disc.parts[k]) : k \in {k \in DOMAIN disc.parts : Selected(k)}}

\* A block that the sectors of a disc do not fill is never copied; nothing on a
\* disc lies that far behind.
ASSUME DiscsFit ==
  \A d \in Discs, size \in BlockSizes :
    \A s \in TablesNeed(d) \cup UNION {PartitionNeeds(d.parts[k]) : k \in DOMAIN d.parts} :
      s \div size < DiscSectors \div size

\* A copied disc has every sector that its selected partitions touch.  The
\* last sector of the hashes is not marked, but it lies between one that is
\* and the first of the data, and a block has room for two.
CopyIsEnough ==
  pc = "done" =>
    \A s \in Needed, size \in BlockSizes : Copied(s \div size, size)

\* Nothing else is marked: no partition that was not selected, no sector
\* behind the end of a file.
NothingElse == pc # "notwii" => used \subseteq Needed
=============================================================================
