----------------------------- MODULE WbfsProps -----------------------------
(***************************************************************************)
(* What must be true of the partition that Wbfs models.                    *)
(*                                                                         *)
(* The code has no answer to three events: a write_hdsector that fails and *)
(* is ignored ("dropped"), a failed add whose slot stands over an old      *)
(* disc_info that still looks valid ("revived"), and a process that ends   *)
(* while the device names a new disc but not the blocks it took ("torn").  *)
(* Wbfs records them in fault.  The safety properties say that nothing     *)
(* else breaks them.                                                       *)
(***************************************************************************)
EXTENDS Wbfs

\* The disc an operation has begun to build or to take down.
Underway == IF job \in {"add", "remove"} /\ pc \in {"copy", "writeInfo"}
            THEN {slot} ELSE {}

\* The discs the running program has, and those its successor would find.
Live    == {s \in table : hdInfo[s].magic} \ Underway
Durable == {s \in hdTable : hdInfo[s].magic}

Ids(S) == {hdInfo[s].id : s \in S}

Safely(P) == fault = {} => P

-----------------------------------------------------------------------------
\* Every variable has its type; a copy is of an image, and what an extraction
\* has left to read are blocks: a zero in the table is not one.
TypeOK ==
  /\ hdMagic \in BOOLEAN
  /\ hdTable \subseteq Slots
  /\ hdFree \subseteq Blocks
  /\ hdInfo \in [Slots -> Info]
  /\ hdData \in [Blocks -> Content \cup {Junk}]
  /\ mounted \in BOOLEAN
  /\ table \subseteq Slots
  /\ free \subseteq Blocks
  /\ loaded \in BOOLEAN
  /\ nOpen \in Int
  /\ cancelled \in BOOLEAN
  /\ pc \in {"idle", "confirm", "copy", "writeInfo", "syncHead", "syncFree",
             "open", "format", "list", "extract"}
  /\ job \in {"none", "load", "format", "reset", "add", "remove", "rename",
              "extract"}
  /\ slot \in Slots
  /\ info \in Info
  /\ todo \subseteq Secs
  /\ out \in [Secs -> Content \cup {Junk, Hole}]
  /\ measured \in Discs \cup {NoDisc}
  /\ pc = "confirm" => measured \in Discs \/ AllowSwap
  /\ pc = "copy"    => info.id \in Discs
  /\ pc = "extract" => \A i \in todo : info.wlba[i] # 0
  /\ idx \in Nat
  /\ count \in Nat
  /\ listed \subseteq Discs \cup {NoDisc}
  /\ fault \subseteq {"dropped", "revived", "torn"}

-----------------------------------------------------------------------------
(* Safety.                                                                 *)

\* A disc has every block its image needs, and each holds what was copied
\* from the image.
Whole(di, data) ==
  /\ di.id \in Discs
  /\ \A i \in Secs :
       /\ di.wlba[i] # 0 <=> i \in UsedSecs[di.id]
       /\ di.wlba[i] # 0 => data[di.wlba[i]] = <<di.id, i>>

\* The discs in the slots S are whole, and none is there twice.
Intact(S, infos, data) ==
  /\ \A s \in S : Whole(infos[s], data)
  /\ \A s, t \in S : infos[s].id = infos[t].id => s = t

\* Their blocks are not in the free-block table fr.
NoneFree(S, infos, fr) == \A s \in S : Owned(infos[s]) \cap fr = {}

\* While the program runs, every disc it has is whole, no disc is there
\* twice, and no block of theirs is offered to the next add: what remove
\* frees and add allocates never crosses another disc.
MemorySound ==
  Safely(Intact(Live, hdInfo, hdData) /\ NoneFree(Live, hdInfo, LoadedFree))

\* At every moment, were the process to end, the next one would find whole
\* discs, none twice, and a free-block table that offers none of their
\* blocks; only between the writes that end an add may the table lag behind.
DiskSound ==
  Safely(/\ Intact(Durable, hdInfo, hdData)
         /\ HalfSynced \/ NoneFree(Durable, hdInfo, hdFree))

\* No block belongs to two discs, or twice to one, in the disc_infos that
\* the table in memory names.
NoCrossLink ==
  Safely(\A s, t \in Live, i, j \in Secs :
           hdInfo[s].wlba[i] = hdInfo[t].wlba[j] /\ hdInfo[s].wlba[i] # 0
             => s = t /\ i = j)

\* Without crashes and failures every block is either free or owned: add and
\* remove together lose no space.
NoLeak ==
  pc = "idle" /\ mounted
    => LoadedFree \cup UNION {Owned(hdInfo[s]) : s \in Live} = Blocks

\* An add runs out of blocks only if the free-space check was not about the
\* image it copies: the program opens the image once to name it, once to
\* measure it and once to copy it.  When it is the same, the check holds to the
\* last block, whatever was cancelled, failed or was cut short before it.
SpaceCheckHolds ==
  pc = "copy" /\ measured = info.id => Cardinality(todo) <= Cardinality(free)

\* wbfs_close never meets a disc that is still open: each wbfs_open_disc of
\* an operation has had its wbfs_close_disc.
CloseFindsNoOpenDisc ==
  pc \in {"idle", "open", "format"} \/ (pc = "syncFree" /\ job \in {"load", "format"})
    => nOpen = 0

\* A finished extraction is the image that was added: every used part in its
\* place, nothing elsewhere.
RoundTrip ==
  Safely(pc = "extract" /\ todo = {}
           => \A i \in Secs : out[i] = IF i \in UsedSecs[info.id]
                                       THEN <<info.id, i>> ELSE Hole)

\* The list never shows a disc the partition does not have.
ListSound == Safely(pc \in {"list", "idle"} /\ mounted => listed \subseteq Ids(Live))

\* The list shows every disc.  It needs a table without struck-off slots:
\* wbfs_get_disc_info renumbers the discs when it strikes one off.
ListComplete == pc = "idle" /\ mounted => Ids(Live) \subseteq listed

\* A disc that is not there and fits can be added, whatever became of earlier
\* operations: the read callback returns 1 "on fatal error" (wiidisc.h), not
\* because an extraction was cancelled.
AddCanBegin ==
  pc = "idle" /\ mounted
    => \A d \in Discs : Holding(d) = {} /\ Fits(d) => ENABLED ConfirmAdd(d)

\* No operation touches the disc_info or the data of a disc other than its
\* own: what is durable stays, but for the disc being removed or renamed and
\* for a new head that empties the partition.
BystandersKept ==
  [][fault' = {} =>
       \A s \in Durable :
         \/ job \in {"remove", "rename"} /\ s = slot
         \/ job = "reset"
         \/ /\ s \in Durable'
            /\ hdInfo'[s] = hdInfo[s]
            /\ \A b \in Owned(hdInfo[s]) : hdData'[b] = hdData[b]]_vars

-----------------------------------------------------------------------------
(* The inductive invariant behind the safety properties: what each program *)
(* counter promises about the locals, and how the two views differ while   *)
(* an operation is between its writes.                                     *)

\* A disc_info has the Wii magic exactly when it is that of a Wii disc, and
\* then it has a title.
InfosTyped ==
  \A s \in Slots : /\ hdInfo[s].magic <=> hdInfo[s].id \in WiiDiscs
                   /\ hdInfo[s].magic => hdInfo[s].name \in Names

\* Which program counters an operation passes through, and what it holds.
ControlOK ==
  /\ job = "none"    => pc \in {"idle", "open", "confirm", "list"}
  /\ job = "load"    => pc \in {"syncHead", "syncFree", "open"}
  /\ job = "format"  => pc \in {"syncHead", "syncFree", "format"}
  /\ job = "reset"   => pc \in {"syncHead", "syncFree"}
  /\ job = "add"     => pc \in {"copy", "writeInfo", "syncHead", "syncFree"}
  /\ job \in {"remove", "rename"} => pc \in {"writeInfo", "syncHead", "syncFree"}
  /\ job = "extract" => pc = "extract"
  /\ pc \in {"open", "format"} => ~mounted
  /\ pc \in {"confirm", "copy", "writeInfo", "list", "extract", "syncHead",
             "syncFree"} => mounted
  /\ pc = "confirm" \/ job \in {"add", "remove"} => loaded
  /\ ~mounted => table = {} /\ ~loaded
  /\ job = "add"   => slot \in table
  /\ job = "reset" => table = {}
  /\ job # "extract" => out = NoOutput

\* Every operation that opened a disc still has exactly one open.
OpenCounted ==
  nOpen = IF pc = "extract" \/ (pc = "writeInfo" /\ job # "add") THEN 1 ELSE 0

\* The disc being copied in: what is done of it is in blocks of its own.
PartCopied ==
  /\ info.id \in Discs /\ info.name = IsoName[info.id]
  /\ info.magic <=> info.id \in WiiDiscs
  /\ todo \subseteq UsedSecs[info.id]
  /\ pc = "writeInfo" => todo = {}
  /\ info.id \notin Ids(Live)
  /\ \A i \in Secs :
       /\ info.wlba[i] # 0 <=> i \in UsedSecs[info.id] \ todo
       /\ info.wlba[i] # 0 => /\ hdData[info.wlba[i]] = <<info.id, i>>
                              /\ info.wlba[i] \notin free

\* It keeps the title of its header until the head names it.
CopySound ==
  /\ job = "add" /\ pc \in {"copy", "writeInfo"} => PartCopied
  /\ job = "add" /\ pc = "syncHead" => hdInfo[slot].name = IsoName[hdInfo[slot].id]

\* What removing and renaming are about to write.
WriteSound ==
  pc = "writeInfo" =>
    /\ job = "remove" => info = Blank /\ slot \in table
    /\ job = "rename" => /\ slot \in Live
                         /\ \E m \in Names : info = [hdInfo[slot] EXCEPT !.name = m]

\* The disc being extracted, and the parts of it that are done.
ExtractSound ==
  pc = "extract" =>
    /\ slot \in Live
    /\ info = hdInfo[slot]
    /\ todo \subseteq UsedSecs[info.id]
    /\ \A i \in Secs : out[i] = IF i \in UsedSecs[info.id] \ todo
                                THEN <<info.id, i>> ELSE Hole

\* The discs the program has are those on the device, but for the one that
\* is being added or removed, and for a new head not written yet.
ViewsAgree ==
  mounted /\ ~(job = "reset" /\ pc = "syncHead") =>
    /\ Live \subseteq Durable \cup (IF job = "add" /\ pc = "syncHead" THEN {slot} ELSE {})
    /\ Durable \subseteq Live \cup (IF job = "remove" /\ pc = "writeInfo" THEN {slot} ELSE {})
    /\ job = "add" /\ pc = "syncFree" => slot \in hdTable

\* What the list shows is there.
ListHolds ==
  mounted /\ pc \in {"list", "idle", "confirm", "extract"} =>
    listed \subseteq Ids(Live) \cap WiiDiscs

\* The state of the discs, in memory and on the device.
DiscsSound ==
  /\ InfosTyped
  /\ Intact(Live, hdInfo, hdData)
  /\ NoneFree(Live, hdInfo, LoadedFree)
  /\ Intact(Durable, hdInfo, hdData)
  /\ HalfSynced \/ NoneFree(Durable, hdInfo, hdFree)

Integrity ==
  /\ DiscsSound
  /\ CopySound
  /\ WriteSound
  /\ ExtractSound
  /\ ViewsAgree
  /\ ListHolds

Consistent == TypeOK /\ ControlOK /\ OpenCounted /\ Safely(Integrity)

-----------------------------------------------------------------------------
(* What holds besides of a partition on which nothing fails: the           *)
(* inductive invariant behind SpaceCheckHolds, NoLeak and ListComplete.    *)

\* No callback returns 1, nobody cancels, no image becomes another, every write
\* lands, the process is not killed in the middle, and every image is that of a
\* Wii disc.
NothingFails ==
  ~AllowFail /\ ~AllowSwap /\ ~AllowDrop /\ ~AllowCrash /\ WiiDiscs = Discs

\* From the free-space check to the end of the copy there is room for what
\* the image that was measured still needs.
RoomToCopy ==
  /\ pc = "confirm" /\ measured \in Discs
       => Cardinality(UsedSecs[measured]) <= Cardinality(free)
  /\ pc = "copy" /\ measured = info.id => Cardinality(todo) <= Cardinality(free)

\* The blocks that are free or belong to a disc in the slots S.
Accounted(S, fr) == fr \cup UNION {Owned(hdInfo[s]) : s \in S}

\* The blocks of the disc that is being copied in.
TakenSoFar == IF job = "add" /\ pc \in {"copy", "writeInfo"} THEN Owned(info) ELSE {}

\* Every entry of the table is a disc, and every block is free or a disc's.
NothingLost ==
  mounted => /\ \A s \in table \ Underway : hdInfo[s].magic
             /\ Blocks \subseteq Accounted(Live, LoadedFree) \cup TakenSoFar

\* The same of the partition on the device while no program has it open.
NothingLostOnDevice ==
  ~mounted /\ hdMagic => /\ \A s \in hdTable : hdInfo[s].magic
                         /\ Blocks \subseteq Accounted(hdTable, hdFree)

\* The head and the free-block table on the device differ from those in
\* memory only by what the operation that is running has yet to write.
HeadUpToDate ==
  mounted => \/ job = "reset" /\ pc = "syncHead"
             \/ /\ job = "add" /\ pc \in {"copy", "writeInfo", "syncHead"}
                /\ slot \notin hdTable /\ table = hdTable \cup {slot}
             \/ job = "remove" /\ pc = "syncHead" /\ table = hdTable \ {slot}
             \/ table = hdTable
FreeUpToDate ==
  mounted /\ loaded => job \in {"add", "remove", "reset"} \/ free = hdFree

\* update_iso_list has shown every disc whose number it has passed.
ListGrows ==
  /\ pc = "list" =>
       /\ count = Cardinality(table)
       /\ \A s \in table : Cardinality({t \in table : t < s}) < idx
                            => hdInfo[s].id \in listed
  /\ pc \in {"idle", "confirm", "extract"} /\ mounted => Ids(Live) \subseteq listed

Undisturbed ==
  /\ fault = {}
  /\ RoomToCopy
  /\ pc = "copy" => measured = info.id
  /\ pc = "copy" => todo # {}
  /\ NothingLost
  /\ NothingLostOnDevice
  /\ HeadUpToDate
  /\ FreeUpToDate
  /\ ListGrows

-----------------------------------------------------------------------------
(* Liveness.                                                               *)

\* Every operation comes back to the user, unless the process is killed again
\* and again: whatever fails or is cancelled, no loop of the program and no
\* list it walks keeps it from the end.
OperationsEnd == ([]<><<Crash>>_vars) \/ ((pc # "idle") ~> (pc = "idle"))

-----------------------------------------------------------------------------
(* The partition implements the catalog: each operation reaches the device *)
(* at one write, the head for add and format, the disc_info for remove and *)
(* rename, so a crash leaves it done or not begun.                         *)

\* The titles of the discs in the slots S.
TitleIn(S, infos, d) ==
  IF \E s \in S : infos[s].id = d
  THEN infos[CHOOSE s \in S : infos[s].id = d].name
  ELSE NoName

CatalogOf(S, infos) == [d \in Discs |-> TitleIn(S, infos, d)]

Catalog == INSTANCE DiscCatalog
  WITH Absent <- NoName, Title <- IsoName, catalog <- CatalogOf(Durable, hdInfo)

\* Seen from the device, every run is a run of the catalog.
ImplementsCatalog == Catalog!CatalogSpec

=============================================================================
