-------------------------------- MODULE Wbfs --------------------------------
(***************************************************************************)
(* One WBFS partition as the GTK manager drives it: the metadata and data  *)
(* that libwbfs/libwbfs.c keeps on the device, the copy it keeps in memory *)
(* (wbfs_t), and the handlers of wbfs_gtk.c and wbfs_ops.c that change     *)
(* them.  Every write_hdsector call is a step of its own, so the process   *)
(* can end between any two of them.                                        *)
(*                                                                         *)
(* A wbfs sector is called a block here.  A byte image is abstracted to    *)
(* what the properties tell apart: a disc_info to its code, its name,      *)
(* whether it carries the Wii magic, and its block table; a data block to  *)
(* the disc and the place in that disc it was copied from.                 *)
(*                                                                         *)
(* A definition with a second one just above it, of the same name with a   *)
(* word added, has a faulty variant there: the code with that bug in it,   *)
(* for trying whether a property would notice.                             *)
(***************************************************************************)
EXTENDS Integers, FiniteSets

CONSTANTS
  MaxDisc,     \* p->max_disc: slots of the disc table
  NBlocks,     \* blocks the free-block bitmap addresses, numbered from 1
  NSecs,       \* p->n_wbfs_sec_per_disc: entries of a wlba_table
  Discs,       \* ISO images, each known by its 6-character disc id
  WiiDiscs,    \* those whose header carries the Wii magic
  UsedSecs,    \* UsedSecs[d]: table entries of d that hold data
  Names,       \* disc titles
  IsoName,     \* IsoName[d]: title in the header of image d
  NoDisc, NoName,   \* id and title of a zeroed disc_info
  Junk,        \* content of a block nothing was copied to
  Hole,        \* a part of an extracted image that was never written
  AllowFail,   \* may a callback return 1, the user cancel, or a device not open
  AllowSwap,   \* may the image at a path become another one, or none that can
               \* be opened, between two times the program opens it
  AllowDrop,   \* may a write_hdsector call fail (its result is ignored)
  AllowCrash   \* may the process end in the middle of an operation

Slots   == 0 .. MaxDisc - 1
Blocks  == 1 .. NBlocks
Secs    == 0 .. NSecs - 1
Content == Discs \X Secs

ASSUME SizesAreNat ==
  /\ MaxDisc \in Nat \ {0}
  /\ NBlocks \in Nat
  /\ NSecs \in Nat \ {0}

\* Reading the header marks entry 0 of every image as used, and nothing but
\* the header is looked at when the Wii magic is missing.
ASSUME ImagesAreTyped ==
  /\ WiiDiscs \subseteq Discs
  /\ UsedSecs \in [Discs -> SUBSET Secs]
  /\ \A d \in Discs : 0 \in UsedSecs[d]
  /\ \A d \in Discs \ WiiDiscs : UsedSecs[d] = {0}
  /\ IsoName \in [Discs -> Names]

ASSUME MarkersAreNew ==
  /\ NoDisc \notin Discs
  /\ NoName \notin Names
  /\ Junk \notin Content
  /\ Hole \notin Content \cup {Junk}

ASSUME SwitchesAreBoolean ==
  {AllowFail, AllowSwap, AllowDrop, AllowCrash} \subseteq BOOLEAN

VARIABLES
  \* on the device
  hdMagic,   \* does the head carry WBFS_MAGIC
  hdTable,   \* slots s with head.disc_table[s] # 0
  hdFree,    \* blocks whose bit is set in the free-block table
  hdInfo,    \* the disc_info of every slot
  hdData,    \* the content of every block
  \* in memory: app_state.wbfs
  mounted,   \* app_state.wbfs # NULL
  table,     \* p->head->disc_table
  free,      \* p->freeblks
  loaded,    \* p->freeblks # NULL
  nOpen,     \* p->n_disc_open
  cancelled, \* cancel_wbfs_op
  \* the operation that is running, and its locals
  pc, job, slot, info, todo, out,
  measured,  \* the image that passed the free-space check; NoDisc if none was
             \* found at its path
  \* update_iso_list and the list it shows
  idx, count, listed,
  \* history: what has happened that the code does not recover from
  fault

device  == <<hdMagic, hdTable, hdFree, hdInfo, hdData>>
memory  == <<mounted, table, free, loaded, nOpen, cancelled>>
locals  == <<job, slot, info, todo, out, measured>>
listing == <<idx, count, listed>>
vars    == <<device, memory, pc, locals, listing, fault>>

Info == [id: Discs \cup {NoDisc}, name: Names \cup {NoName},
         magic: BOOLEAN, wlba: [Secs -> Blocks \cup {0}]]

NoBlocks == [i \in Secs |-> 0]
NoOutput == [i \in Secs |-> Hole]
Blank    == [id |-> NoDisc, name |-> NoName, magic |-> FALSE, wlba |-> NoBlocks]

\* The first member found by a loop that counts up; empty when there is none.
Lowest(S) == {x \in S : \A y \in S : x <= y}

Owned(di) == {di.wlba[i] : i \in Secs} \ {0}

\* p->freeblks after load_freeblocks.
LoadedFree == IF loaded THEN free ELSE hdFree

\* The slot wbfs_open_disc finds for a disc id: it compares ids only.
Holding(d) == {s \in table : hdInfo[s].id = d}
SlotOf(d)  == Lowest(Holding(d))

\* The slot wbfs_add_disc takes: the first one that is empty.
EmptySlotAny == Lowest(Slots)
EmptySlot == Lowest(Slots \ table)

\* alloc_block: the block it returns, and the bitmap it leaves.
FirstFree   == Lowest(free)
ClearBitLost(b) == free
ClearBit(b) == free \ {b}

\* free_block for each block of a disc, after load_freeblocks.
SetBitsNone(S) == LoadedFree
SetBits(S) == LoadedFree \cup S

\* The slot wbfs_get_disc_info reads for an index: the one with that number
\* among the entries of the table as it is now.
NthDiscFromOne(n) == {s \in table : Cardinality({t \in table : t <= s}) = n}
NthDisc(n) == {s \in table : Cardinality({t \in table : t < s}) = n}

\* Its check of the disc it found there.
MagicAt(s)  == hdInfo[s].magic

\* What is at the path of image d when the program opens it again.  Whichever
\* image that is, any may have become of it by the time of the next opening.
Opened(d) == IF AllowSwap THEN Discs ELSE {d}

\* What info_get_iso_size measures there; it returns -1 when it cannot open it.
Measured(d) == Opened(d) \cup (IF AllowSwap THEN {NoDisc} ELSE {})

\* op_add_iso looks once more whether the disc is there already.
IsNewAlways(d) == TRUE
IsNew(d) == Holding(d) = {}

\* The free-space check of confirm_add_iso_file: -1 is never too much.
FitsAlways(e) == TRUE
Fits(e) == e \in Discs => Cardinality(UsedSecs[e]) <= Cardinality(LoadedFree)

\* The header of an image, as wbfs_add_disc copies it into a disc_info.
HeaderUntitled(d) == [id |-> d, name |-> NoName, magic |-> (d \in WiiDiscs),
                      wlba |-> NoBlocks]
Header(d) == [id |-> d, name |-> IsoName[d], magic |-> (d \in WiiDiscs),
              wlba |-> NoBlocks]

Init ==
  /\ hdMagic = FALSE
  /\ hdTable = {}
  /\ hdFree \in SUBSET Blocks
  /\ hdInfo = [s \in Slots |-> Blank]
  /\ hdData = [b \in Blocks |-> Junk]
  /\ mounted = FALSE
  /\ table = {}
  /\ free = {}
  /\ loaded = FALSE
  /\ nOpen = 0
  /\ cancelled = FALSE
  /\ pc = "idle"
  /\ job = "none"
  /\ slot = 0
  /\ info = Blank
  /\ todo = {}
  /\ out = NoOutput
  /\ measured = NoDisc
  /\ idx = 0
  /\ count = 0
  /\ listed = {}
  /\ fault = {}

-----------------------------------------------------------------------------
(* Pieces shared by the operations.                                        *)

\* Outcomes of a write_hdsector call: the callers never look at them.
Landings == {TRUE} \cup (IF AllowDrop THEN {FALSE} ELSE {})

\* cancel_wbfs_op after the spinner has let GTK handle its events.
Clicks == {FALSE} \cup (IF AllowFail THEN {TRUE} ELSE {})

Blame(bad, what) == fault' = IF bad THEN fault \cup {what} ELSE fault

\* What is left to extract of a disc after part i.
Remaining(i) == todo \ {i}

\* The loop of update_iso_list counts every index, found or not.
NextIndexIfFound == IF \E s \in NthDisc(idx) : MagicAt(s) THEN idx + 1 ELSE idx
NextIndex == idx + 1

\* What wbfs_sync leaves in the free-block table on the device.
SyncedFreeNever == hdFree
SyncedFree == IF loaded THEN free ELSE hdFree

\* Removing and renaming close the disc they opened.
OpenAfterRename == IF job = "remove" THEN nOpen - 1 ELSE nOpen
OpenAfterWrite  == IF job = "add" THEN nOpen ELSE nOpen - 1

\* The locals of an operation go out of scope.
EndJob ==
  /\ job' = "none"
  /\ slot' = 0
  /\ info' = Blank
  /\ todo' = {}
  /\ out' = NoOutput
  /\ measured' = NoDisc

\* update_iso_list begins: the list store is cleared and the discs counted.
StartListing(tab) ==
  /\ pc' = "list"
  /\ idx' = 0
  /\ count' = Cardinality(tab)
  /\ listed' = {}

LoadFreeBlocks ==
  /\ free' = LoadedFree
  /\ loaded' = TRUE

-----------------------------------------------------------------------------
(* wbfs_sync: the head, then the free-block table if it was ever loaded.   *)

SyncHead ==
  /\ pc = "syncHead"
  /\ \E lands \in Landings :
       /\ hdTable' = IF lands THEN table ELSE hdTable
       /\ hdMagic' = (lands \/ hdMagic)
       /\ Blame(~lands, "dropped")
  /\ pc' = "syncFree"
  /\ UNCHANGED <<hdFree, hdInfo, hdData, memory, locals, listing>>

\* What follows wbfs_sync depends on who called it: wbfs_close frees the
\* memory copy, the other callers return to update_iso_list.
SyncFree ==
  /\ pc = "syncFree"
  /\ \E lands \in Landings :
       /\ hdFree' = IF lands THEN SyncedFree ELSE hdFree
       /\ Blame(~lands, "dropped")
  /\ IF job \in {"load", "format"}
     THEN /\ mounted' = FALSE
          /\ table' = {}
          /\ free' = {}
          /\ loaded' = FALSE
          /\ nOpen' = 0
          /\ pc' = IF job = "load" THEN "open" ELSE "format"
          /\ UNCHANGED <<cancelled, locals, listing>>
     ELSE IF job = "reset"
     THEN /\ job' = "load"
          /\ pc' = "syncHead"
          /\ UNCHANGED <<memory, slot, info, todo, out, measured, listing>>
     ELSE /\ EndJob
          /\ StartListing(table)
          /\ UNCHANGED memory
  /\ UNCHANGED <<hdMagic, hdTable, hdInfo, hdData>>

-----------------------------------------------------------------------------
(* Opening and formatting.                                                 *)

\* load_device, first half: close what is open, then open the device.
LoadDevice ==
  /\ pc = "idle"
  /\ job' = "load"
  /\ pc' = IF mounted THEN "syncHead" ELSE "open"
  /\ UNCHANGED <<device, memory, slot, info, todo, out, measured, listing,
                 fault>>

\* wbfs_open_partition without reset, then update_iso_list.  The wbfs_sync
\* in it writes back the head it has just read.
OpenPartition ==
  /\ pc = "open"
  /\ hdMagic
  /\ mounted' = TRUE
  /\ table' = hdTable
  /\ free' = {}
  /\ loaded' = FALSE
  /\ nOpen' = 0
  /\ EndJob
  /\ StartListing(hdTable)
  /\ UNCHANGED <<device, cancelled, fault>>

\* The head has no magic, or the device cannot be opened.
OpenFails ==
  /\ pc = "open"
  /\ ~hdMagic \/ AllowFail
  /\ pc' = "idle"
  /\ listed' = {}
  /\ EndJob
  /\ UNCHANGED <<device, memory, idx, count, fault>>

\* menu_init_wbfs_partition_activate_cb, after both warnings.
InitPartition ==
  /\ pc = "idle"
  /\ job' = "format"
  /\ pc' = IF mounted THEN "syncHead" ELSE "format"
  /\ UNCHANGED <<device, memory, slot, info, todo, out, measured, listing,
                 fault>>

\* wbfs_open_partition with reset: an empty table and every block free.  The
\* disc_info area is not written.  load_device then closes and reopens it.
FormatPartition ==
  /\ pc = "format"
  /\ mounted' = TRUE
  /\ table' = {}
  /\ free' = Blocks
  /\ loaded' = TRUE
  /\ nOpen' = 0
  /\ job' = "reset"
  /\ pc' = "syncHead"
  /\ UNCHANGED <<device, cancelled, slot, info, todo, out, measured, listing,
                 fault>>

\* The device cannot be opened; load_device tries again.
FormatFails ==
  /\ pc = "format"
  /\ AllowFail
  /\ job' = "load"
  /\ pc' = "open"
  /\ UNCHANGED <<device, memory, slot, info, todo, out, measured, listing,
                 fault>>

-----------------------------------------------------------------------------
(* update_iso_list: one wbfs_get_disc_info per disc counted beforehand.    *)

\* The disc that is number idx of the table as it is now.  One without the
\* Wii magic is struck off the table in memory.
GetDiscInfo ==
  /\ pc = "list"
  /\ idx < count
  /\ idx' = NextIndex
  /\ LET bad == {s \in NthDisc(idx) : ~MagicAt(s)}
     IN  /\ table' = table \ bad
         /\ listed' = listed \cup {hdInfo[s].id : s \in NthDisc(idx) \ bad}
  /\ UNCHANGED <<device, mounted, free, loaded, nOpen, cancelled, pc, locals, count,
                 fault>>

\* The space labels are filled in from wbfs_count_usedblocks.
ListingDone ==
  /\ pc = "list"
  /\ idx >= count
  /\ LoadFreeBlocks
  /\ pc' = "idle"
  /\ idx' = 0
  /\ count' = 0
  /\ UNCHANGED <<device, mounted, table, nOpen, cancelled, locals, listed, fault>>

-----------------------------------------------------------------------------
(* Adding a disc.                                                          *)

\* confirm_add_iso_file up to its question: the image is not there yet, and the
\* one opened next fits.  That one is read without resetting cancel_wbfs_op
\* first: see FatalRead.
ConfirmAdd(d) ==
  /\ pc = "idle"
  /\ mounted
  /\ Holding(d) = {}
  /\ measured' \in Measured(d)
  /\ measured' \in Discs => ~cancelled
  /\ Fits(measured')
  /\ LoadFreeBlocks
  /\ pc' = "confirm"
  /\ UNCHANGED <<device, mounted, table, nOpen, cancelled, job, slot, info, todo,
                 out, listing, fault>>

DeclineAdd ==
  /\ pc = "confirm"
  /\ pc' = "idle"
  /\ EndJob
  /\ UNCHANGED <<device, memory, listing, fault>>

\* op_add_iso and wbfs_add_disc up to its copy loop: open the image for the
\* third time, and take the first empty slot.
AddDisc ==
  /\ pc = "confirm"
  /\ \E d \in Opened(measured) :
       /\ IsNew(d)
       /\ info' = Header(d)
       /\ todo' = UsedSecs[d]
  /\ \E s \in EmptySlot :
       /\ table' = table \cup {s}
       /\ slot' = s
  /\ job' = "add"
  /\ cancelled' \in Clicks
  /\ pc' = "copy"
  /\ UNCHANGED <<device, mounted, free, loaded, nOpen, out, measured, listing, fault>>

\* The table is full, op_add_iso cannot open the image, or the one it opens is
\* there already.
AddRefused ==
  /\ pc = "confirm"
  /\ \/ AllowFail \/ AllowSwap
     \/ Slots \subseteq table
     \/ \E d \in Opened(measured) : ~IsNew(d)
  /\ EndJob
  /\ StartListing(table)
  /\ UNCHANGED <<device, memory, fault>>

\* One turn of the copy loop: alloc_block, read the image, write the block.
AddBlock ==
  /\ pc = "copy"
  /\ ~cancelled
  /\ \E i \in Lowest(todo), b \in FirstFree, lands \in Landings :
       /\ free' = ClearBit(b)
       /\ hdData' = IF lands THEN [hdData EXCEPT ![b] = <<info.id, i>>] ELSE hdData
       /\ info' = [info EXCEPT !.wlba[i] = b]
       /\ todo' = todo \ {i}
       /\ Blame(~lands, "dropped")
  /\ cancelled' \in Clicks
  /\ pc' = IF todo' = {} THEN "writeInfo" ELSE "copy"
  /\ UNCHANGED <<hdMagic, hdTable, hdFree, hdInfo, mounted, table, loaded, nOpen,
                 job, slot, out, measured, listing>>

\* No block is left, or the image cannot be read or the user cancels: the
\* blocks and the slot stay taken in memory, and nothing is synced.  The slot
\* now stands for whatever disc_info is at its place on the device.
AddFails ==
  /\ pc = "copy"
  /\ AllowFail \/ free = {}
  /\ free' = free \ FirstFree
  /\ Blame(hdInfo[slot].magic, "revived")
  /\ EndJob
  /\ StartListing(table)
  /\ UNCHANGED <<device, mounted, table, loaded, nOpen, cancelled>>

-----------------------------------------------------------------------------
(* Removing, renaming, and the disc_info write they share with adding.     *)

\* op_remove_disc on a disc of the list: its blocks are freed in memory and
\* its disc_info is cleared, ready to be written.
RemoveDisc(d) ==
  /\ pc = "idle"
  /\ mounted
  /\ d \in listed
  /\ \E s \in SlotOf(d) :
       /\ slot' = s
       /\ free' = SetBits(Owned(hdInfo[s]))
  /\ loaded' = TRUE
  /\ info' = Blank
  /\ job' = "remove"
  /\ nOpen' = nOpen + 1
  /\ pc' = "writeInfo"
  /\ UNCHANGED <<device, mounted, table, cancelled, todo, out, measured, listing,
                 fault>>

\* op_rename_disc on a disc of the list.
RenameDisc(d, n) ==
  /\ pc = "idle"
  /\ mounted
  /\ d \in listed
  /\ \E s \in SlotOf(d) :
       /\ slot' = s
       /\ info' = [hdInfo[s] EXCEPT !.name = n]
  /\ job' = "rename"
  /\ nOpen' = nOpen + 1
  /\ pc' = "writeInfo"
  /\ UNCHANGED <<device, mounted, table, free, loaded, cancelled, todo, out,
                 measured, listing, fault>>

\* The user takes the removal or the new title back; the list is made again.
DeclineChange ==
  /\ pc = "idle"
  /\ mounted
  /\ listed # {}
  /\ StartListing(table)
  /\ UNCHANGED <<device, memory, locals, fault>>

\* Removing strikes the slot off after the write.
WriteInfo ==
  /\ pc = "writeInfo"
  /\ \E lands \in Landings :
       /\ hdInfo' = IF lands THEN [hdInfo EXCEPT ![slot] = info] ELSE hdInfo
       /\ Blame(~lands, "dropped")
  /\ table' = IF job = "remove" THEN table \ {slot} ELSE table
  /\ nOpen' = OpenAfterWrite
  /\ pc' = "syncHead"
  /\ UNCHANGED <<hdMagic, hdTable, hdFree, hdData, mounted, free, loaded,
                 cancelled, locals, listing>>

-----------------------------------------------------------------------------
(* Extracting a disc: the partition is only read.                          *)

ExtractDisc(d) ==
  /\ pc = "idle"
  /\ mounted
  /\ d \in listed
  /\ \E s \in SlotOf(d) :
       /\ slot' = s
       /\ info' = hdInfo[s]
       /\ todo' = {i \in Secs : hdInfo[s].wlba[i] # 0}
  /\ job' = "extract"
  /\ nOpen' = nOpen + 1
  /\ cancelled' \in Clicks
  /\ pc' = "extract"
  /\ UNCHANGED <<device, mounted, table, free, loaded, out, measured, listing,
                 fault>>

ExtractBlock ==
  /\ pc = "extract"
  /\ ~cancelled
  /\ \E i \in Lowest(todo) :
       /\ out' = [out EXCEPT ![i] = hdData[info.wlba[i]]]
       /\ todo' = Remaining(i)
  /\ UNCHANGED <<device, memory, pc, job, slot, info, measured, listing, fault>>

\* op_extract_iso returns 0 whether or not wbfs_extract_disc got to its end.
ExtractEnds ==
  /\ pc = "extract"
  /\ AllowFail \/ todo = {}
  /\ cancelled' \in {cancelled} \cup (IF todo = {} THEN {} ELSE {TRUE})
  /\ nOpen' = nOpen - 1
  /\ pc' = "idle"
  /\ EndJob
  /\ UNCHANGED <<device, mounted, table, free, loaded, listing, fault>>

-----------------------------------------------------------------------------
(* The end of the process.  Its successor loads the partition it finds     *)
(* (main_window_realize_cb); what was only in memory is gone.              *)

ProcessEnds ==
  /\ mounted' = FALSE
  /\ table' = {}
  /\ free' = {}
  /\ loaded' = FALSE
  /\ nOpen' = 0
  /\ cancelled' = FALSE
  /\ idx' = 0
  /\ count' = 0
  /\ listed' = {}
  /\ EndJob
  /\ pc' = "open"
  /\ UNCHANGED device

\* gtk_main_quit: main returns without wbfs_close.
Quit ==
  /\ pc = "idle"
  /\ ProcessEnds
  /\ UNCHANGED fault

\* wbfs_fatal ends the process.  An image is read before anything is changed,
\* by confirm_add_iso_file and by wbfs_add_disc: a read that fails there is
\* fatal, and after a cancelled operation the first of these reads fails
\* whatever the image.  So is a partition table that cannot be fixed.
FatalRead ==
  /\ AllowFail
  /\ \/ pc = "idle" /\ mounted /\ \E d \in Discs : Holding(d) = {}
     \/ pc = "confirm"
     \/ pc = "copy" /\ 0 \in todo /\ free # {} /\ ~cancelled
  /\ ProcessEnds
  /\ UNCHANGED fault

\* The head on the device names the disc being added and its disc_info is
\* there too (a removal cut short may have left the slot in the head), while
\* the free-block table still offers its blocks.
HalfSynced == job = "add" /\ pc \in {"syncHead", "syncFree"} /\ slot \in hdTable

\* A crash or a kill.
Crash ==
  /\ AllowCrash
  /\ ProcessEnds
  /\ Blame(HalfSynced, "torn")

-----------------------------------------------------------------------------
\* What the user starts or answers; the program waits for these.
UserStep ==
  \/ LoadDevice
  \/ InitPartition
  \/ \E d \in Discs : ConfirmAdd(d)
  \/ \E d \in Discs : RemoveDisc(d)
  \/ \E d \in Discs, n \in Names : RenameDisc(d, n)
  \/ DeclineChange
  \/ \E d \in Discs : ExtractDisc(d)
  \/ Quit

\* What the program does on its own once an operation has begun.
ProgramStep ==
  \/ SyncHead \/ SyncFree
  \/ OpenPartition \/ OpenFails \/ FormatPartition \/ FormatFails
  \/ GetDiscInfo \/ ListingDone
  \/ AddBlock \/ AddFails
  \/ WriteInfo
  \/ ExtractBlock \/ ExtractEnds

Answer == AddDisc \/ AddRefused \/ DeclineAdd

Next == UserStep \/ Answer \/ ProgramStep \/ FatalRead \/ Crash

Spec == Init /\ [][Next]_vars

\* The handlers run to their end on the one GTK thread, and a modal dialog is
\* answered in the end.  Nothing forces the user to start an operation.
FairSpec == Spec /\ WF_vars(ProgramStep) /\ WF_vars(Answer)

=============================================================================
