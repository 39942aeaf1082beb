------------------------------- MODULE Library -------------------------------
(***************************************************************************)
(* A partition as a user of libwbfs sees it who calls one function after   *)
(* another: adding, removing and re-identifying discs, trimming, closing   *)
(* and opening again.  Wbfs.tla takes the calls of the manager apart;      *)
(* here every call is a step, and the ones the manager never makes are     *)
(* among them.                                                             *)
(***************************************************************************)
EXTENDS Integers, FiniteSets, FiniteSetsExt

CONSTANTS
  Ids,         \* ids of discs
  NoId,        \* the id of a cleared disc_info
  MaxDisc,     \* slots of the table (p->max_disc)
  Whole,       \* blocks of the partition when it was made, the head's included
  PerSector,   \* bits of the free-block table in one device sector (4096)
  MostBlocks,  \* bound: blocks of a disc
  MostOpen     \* bound: n_disc_open

Slots    == 1 .. MaxDisc
Bytes    == 1 .. Whole  \* sizes, in blocks
Unloaded == {0}         \* p->freeblks == 0: no block has number 0
Garbage  == 0           \* ~0 shifted: the size of no file

ASSUME NoIdIsNone == NoId \notin Ids

\* The partition has at least the block its head is in.
ASSUME SizesArePositive == Whole \in Nat \ {0} /\ PerSector \in Nat \ {0}

VARIABLES
  file,         \* size of the file or device
  info,         \* the disc_info areas on the device
  dtable, dsize,\* disc_table and n_hd_sec of the head on the device
  area,         \* the bits set at the end of the first block
  p,            \* whether the user has the partition open
  n_wbfs_sec,   \* the fields of wbfs_t; they are kept after the close, to
  table, n_hd_sec, freeblks, n_disc_open, \* compare with the next open's
  held,         \* the discs the user has open
  left,         \* wbfs_close has returned and not closed the device
  trimmed       \* what the last wbfs_trim returned, until the file is cut

device == <<file, info, dtable, dsize, area>>
memory == <<n_wbfs_sec, table, n_hd_sec, freeblks, n_disc_open>>
user   == <<p, held, left, trimmed>>
vars   == <<device, memory, user>>

Disc(id, bls) == [id |-> id, blocks |-> bls]
Cleared       == Disc(NoId, {})

-----------------------------------------------------------------------------
(* The table is at the end of the first block and begins on a sector: with *)
(* n blocks it takes the last SectorsOf(n) sectors.  A bit on the device   *)
(* is a sector, counted from the end, and a place in it.                   *)

SectorsOf(n) == (n + PerSector - 1) \div PerSector
Place(b, n) == <<SectorsOf(n) - (b - 1) \div PerSector, (b - 1) % PerSector>>
BlocksOf(n)  == 1 .. n - 1

FromArea(n) == {b \in BlocksOf(n) : Place(b, n) \in area}

load_freeblocks == IF freeblks = Unloaded THEN FromArea(n_wbfs_sec) ELSE freeblks

\* The blocks alloc_block comes to.
Offered == load_freeblocks \cap BlocksOf(n_wbfs_sec)

\* Only the bits of those sectors are in memory: freeing a block beyond them
\* writes past the buffer, which is taken to do no more than to be lost.
InBuffer(bls, n) == {b \in bls : Place(b, n)[1] >= 1}

Written(free, n) == {pl \in area : pl[1] > SectorsOf(n)} \cup {Place(b, n) : b \in free}

wbfs_sync_of_the_head ==
  /\ dtable' = table'
  /\ dsize' = n_hd_sec'
  /\ area' = area
wbfs_sync ==
  /\ dtable' = table'
  /\ dsize' = n_hd_sec'
  /\ area' = IF freeblks' = Unloaded THEN area ELSE Written(freeblks', n_wbfs_sec)

\* What a loop that counts up comes to first; nothing when there is nothing.
First(S) == {x \in S : \A y \in S : x <= y}

\* wbfs_open_disc: the first slot with the id.
With(id) == {s \in table : info[s].id = id}
SlotWith(id) == First(With(id))

-----------------------------------------------------------------------------
\* A partition that was just made on a clean device.
Init ==
  /\ file = Whole
  /\ info = [s \in Slots |-> Cleared]
  /\ table = {} /\ dtable = {}
  /\ n_hd_sec = Whole /\ dsize = Whole /\ n_wbfs_sec = Whole
  /\ freeblks = BlocksOf(Whole)
  /\ area = {Place(b, Whole) : b \in BlocksOf(Whole)}
  /\ p = TRUE
  /\ n_disc_open = 0 /\ held = 0
  /\ left = FALSE
  /\ trimmed = Garbage

\* The first n blocks of S, when it has as many.
Lowest(S, n) == {T \in kSubset(n, S) : \A a \in T, b \in S \ T : a < b}
LeftAll(free, taken) == free
Left(free, taken) == free \ taken

\* A file that has been cut grows again when a block is written past its end.
GrownBy(bls) == Max({file} \cup {b + 1 : b \in bls})

wbfs_add_disc(id, n) ==
  /\ p
  /\ \E s \in First(Slots \ table), bls \in Lowest(Offered, n) :
       /\ table' = table \cup {s}
       /\ freeblks' = Left(load_freeblocks, bls)
       /\ info' = [info EXCEPT ![s] = Disc(id, bls)]
       /\ file' = GrownBy(bls)
  /\ UNCHANGED <<n_wbfs_sec, n_hd_sec, n_disc_open, user>>
  /\ wbfs_sync

\* "disc full", after the last block was written: the slot and the blocks stay
\* taken, in memory.
AddFails(n) ==
  /\ p
  /\ n > Cardinality(Offered)
  /\ \E s \in First(Slots \ table) : table' = table \cup {s}
  /\ freeblks' = load_freeblocks \ Offered
  /\ file' = GrownBy(Offered)
  /\ UNCHANGED <<info, dtable, dsize, area, n_wbfs_sec, n_hd_sec, n_disc_open, user>>

wbfs_rm_disc(id) ==
  /\ p
  /\ \E s \in SlotWith(id) :
       /\ freeblks' = load_freeblocks \cup InBuffer(info[s].blocks, n_wbfs_sec)
       /\ info' = [info EXCEPT ![s] = Cleared]
       /\ table' = table \ {s}
  /\ UNCHANGED <<file, n_wbfs_sec, n_hd_sec, n_disc_open, user>>
  /\ wbfs_sync

wbfs_nid_disc(id, new) ==
  /\ p
  /\ \E s \in SlotWith(id) : info' = [info EXCEPT ![s].id = new]
  /\ UNCHANGED <<file, memory, user>>
  /\ wbfs_sync

\* The new id is longer than six characters.
NidTooLong(id) ==
  /\ p /\ With(id) # {} /\ n_disc_open < MostOpen
  /\ n_disc_open' = n_disc_open + 1
  /\ UNCHANGED <<device, n_wbfs_sec, table, n_hd_sec, freeblks, user>>

\* alloc_block returns the new size, or ~0.
maxbl_of_the_used == IF Offered = {} THEN {Garbage} ELSE {Max({1, b - 1}) : b \in First(Offered)}
maxbl == IF Offered = {} THEN {Garbage} ELSE First(Offered)

wbfs_trim ==
  /\ p
  /\ \E size \in maxbl : n_hd_sec' = size /\ trimmed' = size
  /\ freeblks' = load_freeblocks \ Offered
  /\ UNCHANGED <<file, info, n_wbfs_sec, table, n_disc_open, p, held, left>>
  /\ wbfs_sync

\* "os layer will truncate the file": the library's user does.
Truncate ==
  /\ trimmed # Garbage
  /\ file' = trimmed
  /\ trimmed' = Garbage
  /\ UNCHANGED <<info, dtable, dsize, area, memory, p, held, left>>

wbfs_open_disc(id) ==
  /\ p /\ With(id) # {} /\ n_disc_open < MostOpen
  /\ n_disc_open' = n_disc_open + 1
  /\ held' = held + 1
  /\ UNCHANGED <<device, n_wbfs_sec, table, n_hd_sec, freeblks, p, left, trimmed>>

wbfs_close_disc ==
  /\ p /\ held > 0
  /\ n_disc_open' = n_disc_open - 1
  /\ held' = held - 1
  /\ UNCHANGED <<device, n_wbfs_sec, table, n_hd_sec, freeblks, p, left, trimmed>>

\* The user has closed its discs, as the function asks.
wbfs_close ==
  /\ p /\ held = 0
  /\ p' = FALSE
  /\ left' = (left \/ n_disc_open # 0)
  /\ UNCHANGED <<file, info, memory, held, trimmed>>
  /\ wbfs_sync

wbfs_open_partition ==
  /\ ~p
  /\ file = dsize
  /\ p' = TRUE
  /\ n_hd_sec' = dsize /\ n_wbfs_sec' = dsize
  /\ table' = dtable
  /\ freeblks' = Unloaded
  /\ n_disc_open' = 0
  /\ UNCHANGED <<file, info, held, left, trimmed>>
  /\ wbfs_sync

Next ==
  \/ \E id \in Ids, n \in 1 .. MostBlocks : wbfs_add_disc(id, n)
  \/ \E n \in 1 .. MostBlocks : AddFails(n)
  \/ \E id \in Ids : wbfs_rm_disc(id)
  \/ \E id, new \in Ids : wbfs_nid_disc(id, new)
  \/ \E id \in Ids : NidTooLong(id)
  \/ wbfs_trim
  \/ Truncate
  \/ \E id \in Ids : wbfs_open_disc(id)
  \/ wbfs_close_disc
  \/ wbfs_close
  \/ wbfs_open_partition

Spec == Init /\ [][Next]_vars

-----------------------------------------------------------------------------
Discs == {s \in table : info[s].id \in Ids}

\* Trimming makes the partition smaller for good.
NeverTrimmed == n_hd_sec = Whole

\* No block belongs to two discs, or to a disc and to those that may be
\* handed out, whatever calls were made, also between a failed add and the
\* next call that writes, as long as the free-block table stays in its place.
NoBlockTwice ==
  NeverTrimmed =>
    /\ \A s, t \in Discs : s # t => info[s].blocks \cap info[t].blocks = {}
    /\ \A s \in Discs : info[s].blocks \cap load_freeblocks = {}

\* Trimming a partition whose used blocks have no hole and leave one free
\* keeps every disc inside the new size.
Packed ==
  /\ Offered # {}
  /\ \A s \in Discs, b \in Offered : \A used \in info[s].blocks : used < b
TrimKeepsPacked ==
  [][Packed /\ trimmed' \notin {trimmed, Garbage} =>
       \A s \in Discs : info[s].blocks \subseteq BlocksOf(n_hd_sec')]_vars

\* "close a wbfs partition, and sync the metadatas to the disc"
\* (libwbfs.h:160): the next open finds the discs and the free blocks that
\* the last close had, unless the partition was trimmed.
ReopensAsClosed ==
  [][~p /\ p' /\ NeverTrimmed =>
       table' = table /\ load_freeblocks' = load_freeblocks]_vars

-----------------------------------------------------------------------------
(* The inductive invariant behind these properties.                        *)

\* Every disc_info names blocks of the partition as it was made; an id is
\* there, or the area was cleared; p->freeblks is not loaded or a set of such
\* blocks.
TypeOK ==
  /\ info \in [Slots -> [id: Ids \cup {NoId}, blocks: SUBSET BlocksOf(Whole)]]
  /\ table \subseteq Slots /\ dtable \subseteq Slots
  /\ freeblks = Unloaded \/ freeblks \subseteq BlocksOf(Whole)
  /\ {n_hd_sec, n_wbfs_sec} \subseteq 0 .. Whole
  /\ p \in BOOLEAN

\* The size in the head is that on the device and never more than the size
\* the free-block table was made for.
SizesAgree == dsize = n_hd_sec /\ n_hd_sec <= n_wbfs_sec

\* A slot that is not in the table has a cleared disc_info.
StruckOffIsCleared == \A s \in Slots \ table : info[s] = Cleared

\* A partition that is closed is on the device as it was in memory.
ClosedIsWritten ==
  ~p => /\ dtable = table
        /\ NeverTrimmed => FromArea(Whole) = load_freeblocks

Sound == TypeOK /\ SizesAgree /\ StruckOffIsCleared /\ NoBlockTwice /\ ClosedIsWritten
==============================================================================
