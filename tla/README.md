# A TLA+ model of linux-wbfs-manager

linux-wbfs-manager is a GTK program that keeps Wii disc images on a WBFS
partition: it lists, adds, extracts, renames and removes discs, and
initialises partitions. This directory models what the program does to the
partition, on the device and in memory, and the parts around it: the parser that
says which sectors of an image are copied, the dialog, the device list, the file
pane and the library's other calls. TLC checks the models on small instances,
and TLAPS proves the main safety properties for every size.

## 1. The system

| component | source | state it keeps | operations |
|---|---|---|---|
| libwbfs | `libwbfs/libwbfs.c`, `.h` | on the device: head with `disc_table`, a `disc_info` per slot, the free-block table, the blocks. In memory: `wbfs_t` with a copy of the head, `freeblks` (loaded on first use), `n_disc_open` | open/reset, sync, close, add, remove, rename, extract, read, trim, info, count |
| operations | `wbfs_ops.c` | `cancel_wbfs_op` | `op_*`, `info_*`: open the image, show progress, call libwbfs |
| main window | `wbfs_gtk.c` | `app_state.wbfs`, the list store, dialogs | one handler per button and menu entry, which calls an operation and then `update_iso_list` |
| progress dialog | `progress.c` | the `prog_*` pointers, `transfer_running` | `show_progress_dialog`; its map event starts the transfer; `do_update`, the spinner of libwbfs, lets GTK handle its events |
| file and sector access | `libwbfs/libwbfs_unix.c` | file handles | `wbfs_fread_sector`, `wbfs_fwrite_sector`, `wbfs_try_open_*` |
| fatal errors | `libwbfs_os.c` | none | `wbfs_fatal` shows a message and exits |
| Wii disc parser | `libwbfs/wiidisc.c` | a usage table per disc | walks partitions and file tables of an image, marks the sectors it uses |
| device list, settings | `devices.c`, `app_state.c` | the devices found, `cur_dev`, the flags of the View menu | list, check for mounts, select, load |
| messages, directory list | `message.c`, `list_dir.c` | captured output, the shown directory | show, capture, go to a directory |
| AES, Windows port, tools | `rijndael.c`, `libwbfs_win32.c`, `file2h.c`, `wbfs_gui.glade` | | |

Everything runs on one thread. A GTK handler calls `wbfs_ops`, which calls
libwbfs with callbacks: `read_wii_file` and `write_wii_sector_file` for the
image, `do_update` between blocks. The last one handles GTK events inside the
operation, which is the only place where something of the user's interleaves
with it: in the modal dialog this is the cancel flag. A change ends with
`wbfs_sync` inside libwbfs, and the handler fills in the list again from the
partition.

What is hard here:

* **Half-written metadata.** A change is three or four writes (data,
  `disc_info`, head, free-block table) with no log. The process can end between
  any two: a crash, a kill, or `wbfs_fatal`, which the library calls on a failed
  read. Quitting does not close the partition either (`wbfs_gtk.c:943`).
* **Two views.** The table and the bitmap in memory run ahead of the device
  during an operation, and stay ahead after an add that fails: `wbfs_add_disc`
  returns with the slot and the blocks taken, without a sync, and with the same
  value as after a success.
* **Ignored results.** No caller looks at what `write_hdsector` returns.
* **Reading that writes.** `wbfs_get_disc_info` strikes a slot without the Wii
  magic off the table in the middle of the loop that numbers the discs.
* **A flag that outlives its operation.** `cancel_wbfs_op` is reset at the
  start of adding and extracting, not when the image is measured before an add.
* **A system that changes.** Disks come and go, and are mounted, while the program
  holds a list of them, an index into it and an open handle.
* **A transfer inside an event handler.** The handler's `show_progress_dialog`
  runs a GTK loop, whose map event starts the transfer, which runs a loop of its
  own; the pointers the callbacks use are valid only during that call.
* **Arithmetic at its limits.** Sizes in 32 bits, block numbers in 16, a table
  that is looked at in whole words, loops that end one early, a length in
  sectors compared with one in bytes.
* **Tables rewritten while they are read.** The partition table of a copy is cut
  down in place.

PROJECT.json lists each hazard at its line with the properties about it.

What makes each part correct:

* libwbfs: a disc on the partition is whole, under its own id, once; no two
  share a block; a block of a disc is never free; all of this on the device
  too, at every moment; an operation touches only its own disc; extracting
  gives the image that was added; without faults no block is lost.
* operations and handlers: every `wbfs_open_disc` is matched by a
  `wbfs_close_disc`; the list shows what the partition holds; the space check
  before an add is enough; every operation ends and the user can go on.
* progress dialog: each call runs one transfer, inside itself, keeps a stop it
  heard and returns; its callbacks never act outside it.
* Wii disc parser: every sector an image needs is copied and no other; every file
  of a file table is visited once; the table of the copy lists the partitions
  that were copied.
* layout of a partition: the areas of the first block are apart, 16 bits number
  every block, and the table is found again where it was written.
* library calls the manager does not make: they leave the discs of others alone.
* file pane: it lists the directory that files are added from and written to.
* device list, messages: what is loaded is what is selected; nothing mounted is
  offered or formatted unasked; the pane is about what is open; no message is
  captured that the user should see.

## 2. The modules

| module | what it is |
|---|---|
| `Wbfs` | the partition and its handlers, at the grain of `write_hdsector` calls |
| `WbfsProps` | its type invariant, properties, and the inductive invariant `Consistent` |
| `DiscCatalog` | what a partition promises: a map from disc ids to titles, each from its header until renamed, that changes atomically |
| `WbfsFormat` | `Wbfs` with a history of the discs that were wiped |
| `WbfsProofs` | the theorems about `Wbfs` |
| `Progress` | the progress dialog as a stack of nested GTK loops and a queue of events, with its properties |
| `ProgressProofs` | the theorems about `Progress` |
| `Devices` | the device list, loading and initialising, the message capture, and the system around them, with their properties |
| `DevicesProofs` | the theorems about `Devices` |
| `Library` | a partition under any sequence of the library's calls, each a step |
| `WbfsGeometry`, `WbfsGeometryProofs` | how a partition is laid out on a device, with the code's own sizes |
| `LibraryProofs` | the theorems about `Library` |
| `FreeBlocks` | the free-block table in words and bits, as the loops go through it |
| `BlockPool` | what that table promises: a pool that hands out its lowest block |
| `WiiDisc`, `Selector` | which sectors of an image the parser marks and libwbfs copies |
| `FileTable` | the recursive walk over the file table of a partition |
| `PartitionTable` | the partition table of a copy, cut down in place |
| `DiscCopy` | `WiiDisc` and `PartitionTable` together: both passes of an add over an image |
| `DiscCopyProofs` | the theorems about these three |
| `DiscRead` | `wbfs_disc_read`, reading any bytes of a stored disc |
| `LoopsProofs` | the theorems about `FreeBlocks`, `FileTable` and `DiscRead` |
| `FsPane`, `FsPaneProofs` | the directory pane, the process's directory and the file system |
| `MCWbfs`, `MCWbfsFormat`, `MCDevices`, `MCLibrary`, `MCDiscCopy`, `MCFsPane` | small instances for TLC |
| `MCLoops` | one instance of `FreeBlocks`, `FileTable`, `DiscRead` and `WbfsGeometry`, which run one at a time |

How they fit together: `Wbfs` takes from `FreeBlocks` that allocating hands out the
lowest free block, from `WbfsGeometry` that blocks have numbers and the areas of
the head's block are apart, from `WiiDisc` the sets `UsedSecs`, and from `Progress`
that a handler with a dialog is one operation. `WiiDisc` takes from `FileTable`
that the walk visits every file. `Library` uses the conclusions of `FreeBlocks`
and `WbfsGeometry` with sizes small enough to be filled.

### Wbfs against the code

| variable | in the code |
|---|---|
| `hdMagic`, `hdTable` | the head sector on the device: its magic, the slots of `disc_table` that are not 0 |
| `hdFree` | the free-block table on the device: a set bit is a free block |
| `hdInfo` | the `disc_info` of every slot: id and title from the header copy, the Wii magic, `wlba_table` |
| `hdData` | the content of every block: the image and the part of it that was copied there |
| `mounted`, `table`, `free`, `loaded`, `nOpen` | `app_state.wbfs`, `p->head->disc_table`, `p->freeblks`, whether that is non-NULL, `p->n_disc_open` |
| `cancelled` | `cancel_wbfs_op` |
| `pc`, `job` | where the running handler is, and which one it is |
| `slot`, `info`, `todo`, `out` | its locals: `discn`, the `disc_info` being built, the parts still to copy, the file being written |
| `measured` | the image that passed the free-space check before the question; `NoDisc` when it could not be opened |
| `idx`, `count`, `listed` | the loop of `update_iso_list` and the list store |
| `fault` | a history variable, section 4 |

| actions | in the code |
|---|---|
| `LoadDevice`, `OpenPartition`, `OpenFails` | `load_device`, `wbfs_try_open_partition`, `wbfs_open_partition` |
| `InitPartition`, `FormatPartition`, `FormatFails` | `menu_init_wbfs_partition_activate_cb`, `op_init_partition`, `wbfs_open_partition` with reset |
| `SyncHead`, `SyncFree` | the two writes of `wbfs_sync`, and what its caller does next |
| `GetDiscInfo`, `ListingDone` | `update_iso_list`, `wbfs_get_disc_info` |
| `ConfirmAdd`, `DeclineAdd` | `confirm_add_iso_file`, `info_get_iso_size` |
| `AddDisc`, `AddRefused`, `AddBlock`, `AddFails` | `op_add_iso`, `wbfs_add_disc`, `alloc_block` |
| `RemoveDisc`, `RenameDisc` | `op_remove_disc`, `wbfs_rm_disc`, `free_block`; `op_rename_disc`, `wbfs_ren_disc` |
| `DeclineChange` | the user takes a removal or a new title back: `update_iso_list` runs all the same |
| `WriteInfo` | the `disc_info` write of add, remove and rename |
| `ExtractDisc`, `ExtractBlock`, `ExtractEnds` | `op_extract_iso`, `wbfs_extract_disc` |
| `Quit`, `FatalRead`, `Crash` | `gtk_main_quit`, `wbfs_fatal`, the end of the process at any step |

A step is what lies between two writes to the device, or between two calls that
can fail or let the user in. Inside such a stretch nothing can interleave on the
one thread, and a crash there leaves the same device behind.

Abstractions:

* A disc id stands for an image: `wbfs_open_disc` compares the six characters
  only. A title is a member of `Names`.
* `UsedSecs[d]` is what the parser marks for image `d`. The header is always
  read, so part 0 is always in it; of an image without the Wii magic nothing else
  is. The values may be any sets that obey this.
* The content of a block is "part i of image d". `wd_fix_partition_table`
  rewrites the partition table in block 0 of the copy; that is part of what is
  called the content of part 0. When it cannot, it is fatal (`FatalRead`).
* A failed read of the partition's own metadata is not modelled: the code reads
  into a buffer and goes on with what is in it.
* An add opens its image three times: for its id and title, to measure it, and to copy
  it. `Opened` says which image it finds the second and third time; with `AllowSwap` any,
  or none. The -1 that `info_get_iso_size` returns for none is less than any free space
  (`Measured`, `Fits`). From `op_add_iso`'s `fopen` on, the file stays open and its
  content is taken as fixed.
* A call of `write_hdsector` is taken as done, and durable, when it returns. The device is
  a buffered `FILE` (`libwbfs_unix.c:191`) and nothing flushes it (`libwbfs_unix.c:114`): the
  writes reach the system in the order of the calls, but a process that is killed can lose
  the last of them, and leaves the device as it was at an earlier step. What a crash of the
  whole machine does to writes that the system has not carried out is not modelled.
* `wbfs_add_disc` ignores the result of reading the header (`libwbfs.c:573`). The model
  builds the header in any case: `wd_open_disc` has read the same bytes just before, and
  a failure there is fatal (`FatalRead`).
* `Lowest(S)` is the result of each counting loop that stops at the first hit.

`MarkersAreNew` and the other `ASSUME`s are the only assumptions on the
constants: there is a slot and a part, images are typed as above, and markers
differ from real values. TLC evaluates them in every run of `MCWbfs`.

### Progress against the code

`stack` holds the calls that matter, `"show"` for `show_progress_dialog` (in
`gtk_dialog_run`), `"starter"` for the transfer, `"update"` for `do_update` and
`"error"` for a message from inside the transfer. `indicator`, `starterData` and
`running` are the statics of `progress.c` (only whether a pointer is NULL),
`looping`, `visible` and `button` what GTK knows of the dialog, `events` its
events in the order in which the X server sent them, `flag` is `cancel_wbfs_op`,
`left` the `do_update` calls still to come.

An event is handled by whichever loop is on top of the stack. `MapStarts` and
`MapIgnored` are `progress_dialog_map_event_cb`; `Stop` and `StopIsFatal` are the two
callbacks that write through the pointer. Of GTK the model takes this: events
come in order and the mapping first; Esc emits `close` and then the
`delete_event`; the response to a `delete_event` ends `gtk_dialog_run`, which
keeps the dialog alive, and outside it the dialog is destroyed; hiding the
dialog ends `gtk_dialog_run`; events already queued for a hidden dialog are still
handled; a modal message takes the input of the windows below it.

`Progress` is where `Wbfs` gets its `Clicks` from: a transfer sees its flag set at
a `do_update` and nothing else of the user's. `RunsOnce` and `TransferInsideCall`
are what lets `Wbfs` treat a handler with a dialog as one operation.

### Devices against the code

| variable | in the code |
|---|---|
| `present`, `mounted`, `magic`, `allowed` | the system: nodes under /dev, lines of /proc/mounts, devices that begin with "WBFS", what this user may open |
| `dev`, `active` | `app_state.dev` (and the list store, refilled from it), the active row of the combo box |
| `ignore_mounted_devices`, `list_partitions`, `menu` | the flags, and the check items of the View menu that set them |
| `cur_dev`, `wbfs` | of `app_state`; `wbfs` is the name it was opened on |
| `label`, `shown` | the device name above the left pane, the device whose discs it lists |
| `capturing_msgs`, `captured` | of `message.c`; `captured` is the devices the buffer tells of |
| `pc`, `target` | where the handler is, the `device` of the initialisation |
| `avoided`, `steady`, `warned` | history: what was mounted at the last listing, what has been mounted since the first warning, whether the second was answered yes |

A handler is one step down to the next message dialog, which is modal. Plugging,
unplugging, mounting and unmounting happen between any two steps, also while a
dialog is up, and between listing and loading at the start. `load_device` is a
step of its own, since three handlers end in it. `reload_device_list` includes
`app_reload_device_list` and `list_available_devices`; `def_dev` is read only by
the handler that has just had it computed, so it is the parameter `def`.

Reading can go wrong: /proc/partitions may not open (then glob is used),
/proc/mounts may not open or have more entries than the array (`read_mounts`
brings back nothing, or a part), opening a device fails, and when its head
cannot be read `wbfs_open_partition` looks at whatever the memory for it holds,
which can be the head that was there before. A head that cannot be written
goes unnoticed.

A name starts with another (`PartsOf`): `check_device_mounted` compares the length of
the name it asks about, so a disk counts as mounted when a partition on it is.
When /proc/partitions has more names than `app_state.dev` has room for, the
program writes past the array; the model does not follow it there (`"lost"`).
With no device selected, `reload_device_clicked_cb` looks up and frees a name that
was never set: the list is empty then and nothing is compared with it, and after
the free the program has crashed or goes on.

Left out: error dialogs raised inside `wbfs_close` when a device is gone (modal,
and nothing depends on when they are closed), and that formatting a disk makes
the kernel forget its partitions.

### Library against the code

Each step is a whole call: `wbfs_add_disc` (and the one that ends with "disc full"
and without a sync), `wbfs_rm_disc`, `wbfs_nid_disc` with a good id and with one
that is too long, `wbfs_trim`, `wbfs_open_disc`, `wbfs_close_disc`, `wbfs_close`,
`wbfs_open_partition`, and `Truncate` for what the comment on `wbfs_trim` leaves to
its caller. What `Wbfs` abstracts is kept here: that two discs may have one id, since
only `op_add_iso` of the manager looks for it before an add (`wbfs_ops.c:191`),
that `info` belongs to a slot whether or not the table names
it, that a failed add has written blocks, which make a file that was cut grow again (`GrownBy`),
that the number of the place of a bit in the free-block table depends on the
size in the head (`Place`), and that only the bits of the loaded part can be set
(`InBuffer`). The fields of `wbfs_t` keep their values after a close, only to
compare them with the next open's. `left` is true once `wbfs_close` has returned
without closing the device.

### WbfsGeometry against the code

`get_capacity` and the assignments of `wbfs_open_partition`, with the real
constants. A count of sectors is kept as quotient and rest by 0x8000, since 32-bit
counts of sectors do not fit the integers of TLC; the code's `int` and its wrap at
2^31 are in `Quotient` and `n_sector`. `Format`, `Open` and `Resize` let a partition
be opened on a device that has become larger or smaller since.

### FreeBlocks, FileTable, DiscRead against the code

`FreeBlocks` has one action per turn of the loops of `alloc_block` and
`wbfs_count_usedblocks`, and `free_block`. `FileTable` keeps the open calls of the
recursive `do_fst` as a stack of directories (`calls`); the actions are a turn of
the loop with a directory, one with a file, and the return. `DiscRead` has the
three parts of `wbfs_disc_read` (first sector, whole sectors, last sector) and the
change of block between them. The bytes read are the addresses they come from.

### WiiDisc, PartitionTable and DiscCopy against the code

`WiiDisc` has the offsets and lengths of the code, `MarkCount` the loop of
`disc_read` which ends one sector early, and `DataBlocks` the loop of
`partition_read`. `DiscsAreLaidOut` says how pressed discs are arranged; without it
the loop that ends early would lose a sector (`CopyIsEnough`). It also bounds a table by 32
entries, which is what `do_disc` reads and has arrays for, without a look at the count.
`PartitionTable` has one action per entry. `DiscCopy` gives both the selector and the
image's own table. `inside` is the test for a table too far behind 0x40000.

### FsPane against the code

`tree` is the file system, which others change between any two handlers. `cwd` is
the process's directory, `cur_directory` the path `getcwd` brought back, which
files are added from and written to; the two differ when a directory has been
deleted or replaced. `listed` is the directory that was read for the rows, found by that
path (`Read`), and `untouched` is history: no one else has changed what is at the path since. The rows are those that `list_dir_attr` lets through; `readdir`
has any order, and GTK sorts the rows, so the order is left out. Entries are a file,
a directory, or one that `stat` fails on.

### Faulty variants

A definition such as `ClearBit` stands below `ClearBitLost`, the same code with
a bug: the block is not taken out of the bitmap. The "mutants" of PROJECT.json
name, for every property of a run, such a variant for which TLC finds the
property violated.

## 3. What the runs check

| run | instance | asks |
|---|---|---|
| `quiet` | `Wbfs`: 3 images (two of two parts), 3 slots, 4 blocks, 2 titles, no fault | is no space lost, is the list complete |
| `crash` | `Wbfs`: 2 images, 2 slots, 3 blocks, a crash at any step, fairness | is the device sound at every write, does it implement the catalog, does extraction give back what was added, does an operation end |
| `faults` | `Wbfs`: 2 one-part images and one without the magic, 2 blocks, everything at once, ignored write errors too | is `Consistent`, the inductive invariant, what it should be, and does nothing but the recorded faults break it |
| `swapped` | `Wbfs`: images of one and two parts and one without the magic, 3 blocks; what is at a path changes between two openings, callbacks fail | is the check before an add enough for the image it was about, and does an add of another one do no harm |
| `dialog` | `Progress`: three acts of the user on one dialog, two updates | do the nested loops of the dialog do what the handlers rely on, in any order of events |
| `devices` | `Devices`: a disk whose partition comes and goes and a stick, unplugged and mounted at any moment; room for two devices and one mount | is the right device listed, selected, loaded, shown and formatted while the system changes, and which source of names can be too long |
| `parser` | `DiscCopy`: images of up to four partitions of three types; files around every edge of a sector; blocks of 2 to 2048 sectors; five selectors | is what is copied enough, is nothing else copied, does the table list what was copied |
| `library` | `Library`: 2 ids, 3 slots, 5 blocks behind the head's, 2 bits in a sector of the table | what does any sequence of calls do to the blocks, to discs of one id, to what the next open finds, and when is trimming safe |
| `pane` | `FsPane`: 2 directories, 2 names, a list with room for one row | are files taken from and put into the directory that is listed |
| `loops` | the four algorithms of `MCLoops`, from every state of their instances | are they what the other models take them for |
| `revived` | violation | the wiped disc of section 6 |
| `cancelled` | violation | the flag of section 6 |

Why these bounds. Three slots and three images leave every order of adding and
removing; with two slots (`crash`, `faults`) an image is left over
(`AddRefused`). Four blocks run out when two images need two each and a third
one, and a disc of two parts can lie in blocks that are not adjacent and were
another's before. Cross-linking needs two discs; renumbering of the list needs a
second disc behind the one that is struck off. `faults` has smaller images
because three kinds of failure at every step multiply the states; the two Wii
images differ in nothing but their names there, so they are symmetric. Nothing
else bounds the model: `idx` and `count` stay below `MaxDisc + 1` and `nOpen`
below 2 without help.
In `swapped`, an image of two parts can take the place of one that was measured with one
part, or that was not there; three blocks are one too few for it beside the other two.
In `devices`, three names are enough for a list that shifts (the disk is hidden while its
partition is mounted, and the stick moves to the first row), shrinks to nothing, and has
a name that starts with another's. They are one more than there is room for: what glob
finds is cut off, what the kernel lists is not. Two mountable names are one more
than the array of mounts holds.
In `dialog`, the dialog is uncovered (mapped again) and a request made before and
after that, around the last of two updates; a third update or act adds states
but no new order of these. `acts` counts what the user does to one dialog; it is
a bound of the model and an assumption, since `do_update` handles events as
long as there are any.
In `parser`, the sizes are the code's; the partitions begin at every place where
the edge of a block can fall among the hashes, the files have every length and
beginning around the end of a sector of data, and the tables are all those of up
to four entries. `library` needs a table of several sectors, so that trimming can
move its beginning: two bits to a sector give three. `MostBlocks` and `MostOpen`
bound the size of a disc and the discs open at once. In `pane`, the list has room
for one row and a directory for two entries. In `loops`, three words of three bits,
file tables of five entries (two directories inside each other with files before,
in and behind them), reads at every offset and of every length on five blocks of
two sectors, and devices around each size at which the block size changes.

Three configurations do not look for deadlocks: `parser` and `loops` are about algorithms
that end; in `library` a partition may have become impossible to open (a trimmed
file that was not cut, or an add that made it longer). Elsewhere the program or
the system can always go on.

Fairness. `FairSpec` of `Wbfs` has weak fairness of `ProgramStep`: once a handler
runs, its steps follow each other on the one thread without waiting for anybody.
It has weak fairness of `Answer`: the confirmation is a modal `gtk_dialog_run`, and
the program can do nothing until it is answered. No fairness is assumed for what
the user starts, nor for cancelling, crashes or failures. `OperationsEnd`
therefore says that no operation waits for something which the code does not do:
every one ends, unless the program is killed again and again. `Progress` has the
same two assumptions, for the steps of the program and for the answer to an error
message. The other models have safety properties only and no fairness.

## 4. The faults that are recorded

The code has no answer to three events, and `fault` records them:

* `"dropped"`: a `write_hdsector` that failed; nobody looks at its result;
* `"revived"`: an add that failed after it took a slot whose `disc_info` on the
  device still carries the magic of an older disc, wiped by an initialisation:
  the slot now names that disc again, with blocks which are free;
* `"torn"`: a process that ended between the head and the free-block table at
  the end of an add: the device names the new disc and offers its blocks.

The safety properties have the form `Safely(P)`, that is `fault = {} => P`. They
say that these are the *only* ways to break the partition: a crash at any
other write, a cancelled or failed add or extract, and the old `disc_info` of a
removed disc are all harmless. `BystandersKept` is about steps that add no
fault, whatever happened before. `NoLeak` and `ListComplete`, of the fault-free
`quiet` run, are not claimed of the others: a failed or cancelled add keeps its blocks
until the partition is loaded again, and a crash in an add or a removal can leave
blocks that nobody has. `SpaceCheckHolds` is about an add that copies the image it measured.

## 5. What is proved

In `WbfsProofs`, for every `MaxDisc`, `NBlocks`, `NSecs`, every set of images and
names, and every setting of the switches:

| theorem | property |
|---|---|
| `TypeCorrect` | `TypeOK` |
| `ConsistentAlways` | `Consistent`, the inductive invariant |
| `MemoryStaysSound`, `DiskStaysSound`, `NeverCrossLinked` | discs are whole, unique and apart, in memory and on the device |
| `ListStaysSound` | the list shows only discs that are there |
| `ExtractsWhatWasAdded` | extraction gives the image that was added |
| `ClosesCleanly` | `wbfs_close` meets no open disc |
| `BystandersStay` | an operation touches only its own disc |
| `PartitionIsCatalog` | while no fault has happened, the partition implements `DiscCatalog` |
| `SpaceCheckAlwaysHolds` | `SpaceCheckHolds`: an add that copies the image which passed the space check finds a block for every part |
| `NothingLeaks` | `NoLeak`, under `NothingFails` |
| `ListIsComplete` | `ListComplete`, under `NothingFails` |

The argument. `MemorySound` is not inductive: it says nothing of a disc that is
being copied in, which becomes live with the `disc_info` write, nor of a slot
that is live on the device only. `Consistent` adds what a program counter
promises: `CopySound` (the parts done are in blocks that are not free and hold
the right content), `WriteSound` (what is about to be written), `ExtractSound`,
`ViewsAgree` (the slots in memory and on the device differ only in the disc
being worked on), `ListHolds`, and `ControlOK` and `OpenCounted` for the control
flow. All but the types and the control are under `Safely`.

That blocks of two discs are apart is not part of the invariant, it follows
from it: a block records which part of which image it holds, so two whole
discs with a block in common have the same id (`BlocksApart`), and an id is
there once. This is what makes `alloc_block` safe: the block it takes is free,
so no disc owns it, and `hdData` changes nowhere that matters.

The refinement maps the catalog to the titles of `Durable`, the slots in the
head on the device whose `disc_info` has the magic. An add takes effect at the
write of the head (or at its `disc_info` write when the slot was still in the head
from a removal cut short), a removal and a rename at their `disc_info` write,
and an initialisation when its empty head is written. Every other step, a crash
included, is a stutter. The theorem is about behaviours in which `fault` stays
empty: a dropped write or a revived slot does break the catalog. TLC checks the
refinement in the run `crash`, with crashes and without the other two failures.

The space check is a count: between it and the end of the copy, the parts still to
copy are never more than the free blocks (`RoomToCopy`), if the image that is copied is
the one that was measured. A turn of the loop takes one of each, and neither the table nor
the bitmap is touched by anything else, so failures and crashes at other times do not
matter. Of an image that could not be opened to be measured, or has become another one
while the question was up, nothing is claimed: its copy may run out of blocks, and then it
is a failed add like others.

`NothingFails` switches the failures off: `AllowFail`, `AllowSwap`, `AllowDrop` and
`AllowCrash` are false, and every image has the Wii magic. It is the setting of the run `quiet`, and the two
properties are false without it. `NoLeak` speaks of the moments when the program waits; in between, an add
has taken blocks that no `disc_info` names, a removal has freed blocks whose
`disc_info` still stands, and the two tables differ from their copies on the device.
`Undisturbed` says by how much, for every program counter: `NothingLost` counts what
an add has taken so far, `HeadUpToDate` and `FreeUpToDate` name the one
slot and the operations by which memory may be ahead, and `NothingLostOnDevice` carries the
balance over to the next time the partition is opened. `ListGrows` is the invariant of
the loop in `update_iso_list`: the discs with a smaller number than `idx` are
shown. It uses that nothing is struck off in the middle of the loop, which is again
`NothingLost`. That an add does not fail for want of blocks comes from `RoomToCopy`; what it
copies is what it measured (`CopiesTheMeasured`).

In `LibraryProofs`, for any ids, any number of slots, and any sizes of the partition
and of a sector of the table:

| theorem | property |
|---|---|
| `NeverTwice` | `NoBlockTwice` |
| `TrimsPacked` | `TrimKeepsPacked` |
| `ReopensTheSame` | `ReopensAsClosed` |

The inductive invariant is `Sound` of `Library.tla`. `NoBlockTwice` compares discs with
the free blocks in memory, which after a close come back from the device. It therefore
needs `ClosedIsWritten` (a closed partition is on the device as it was in memory,
as long as it was not trimmed and the table has not moved) and `SizesAgree`; that
what `wbfs_sync` writes is what `load_freeblocks` reads rests on a block having one
place in the table and a place one block, which is division with rest by `PerSector`. The
assumptions are `SizesArePositive` and that `NoId` is no id.

In `FsPaneProofs`, for any file system that others change at any time:
`ShowsTheProcessDirectory` (`ListIsOfTheProcess`) and `FilesAreOfTheList`
(`FilesOfTheList`), from the assumption that `Names` is finite. The second rests on
`PathIsOfTheList`: as long as others leave the path alone, it leads to the directory that was
read, which every handler has to keep up, since a file is found by the path and the list by
reading it at another time. The bound on the rows is the bound of the loop of `list_dir_attr`,
whatever the size of the directory.

In `ProgressProofs`, for any number of updates and acts:

| theorem | property |
|---|---|
| `TypeCorrect`, `NestedAlways` | `TypeOK`, and `Nested`, the inductive invariant |
| `AlwaysInsideCall` | `TransferInsideCall` |
| `RunsExactlyOnce` | `RunsOnce` |
| `StopsAreKept` | `StopIsKept` |
| `OnlyLateRequests` | `OnlyLateRequestsHurt` |

None of the four is inductive: each needs to know which loop can be on top of
which. `Nested` says that there are five stacks, that the pointers are set while
`"show"` is on the stack and `transfer_running` while `"starter"` is, that the
dialog that waits to be mapped has the map event at the head of its queue and
has heard nothing yet, and that a request in the queue is one that came after
the last `do_update` to end. Most of the proof is that calls and returns lead
from one of the five stacks to another.

In `DevicesProofs`, for any devices and any order of them, and for any size of the
two arrays:

| theorem | property |
|---|---|
| `TypeCorrect` | `TypeOK` |
| `AlwaysLoadsTheSelection` | `LoadsTheSelection` |
| `FormatsWithWarning` | `FormatWarned` |
| `KeepsMountedOut` | `NothingMountedListed` |
| `PaneFollows` | `PaneShowsOpen` |
| `GlobFits` | `OnlyPartitionsOverflow` |
| `ErrorsAreAboutTheDevice`, `CapturesEnd` | `ErrorIsAboutTheDevice`, `NothingSwallowed` |
| `SelectionIsKept` | `SelectionSurvives` |

`cur_dev` is stale most of the time, so `LoadsTheSelection` is not inductive: it
needs that no name is in the list twice (from the order of the listing, lemma
`ListsAreLists`), so that looking a name up gives back its own row, and that the
row selected does not move from the first question of the initialisation to its
end. `FormatWarned` needs that what was mounted ever since is mounted now, and
`PaneShowsOpen` that the pane is right also where the user can still say no. The
assumptions are that `Names` is finite and that a name starts with itself.

Of the library's algorithms:

| theorem | for every | states |
|---|---|---|
| `LoopsProofs!TableIsAPool` | number of words (of 32 bits) | `ImplementsPool`: the table implements `BlockPool` |
| `LoopsProofs!CountsTheFree` | number of words | `CountIsOfFree` |
| `LoopsProofs!VisitsEachFileOnce`, `FindsTheFirst` | length and nesting of a file table | `EachFileOnce`, `FirstOfThatName` |
| `DiscCopyProofs!CutDownToTheSelected` | table and selector | `ListsTheSelected` |
| `DiscCopyProofs!FixesTheTable`, `CopyListsTheSelected` | set of images | the second pass of an add is `PartitionTable`; `ListsTheSelected` of the composition |
| `DiscCopyProofs!MarksNothingElse`, `CopiesEnough` | image that is laid out as pressed discs are, selector, block size | `NothingElse`, `CopyIsEnough` |
| `DiscCopyProofs!CopiesTheListed` | the same, images without the magic having no partitions | `ListedIsCopied` |
| `LoopsProofs!ReadsFromTheRightPlace` | size of word, sector, block and device, lookup table, request | `ReadsInsideABlock` |
| `WbfsGeometryProofs!SixteenBitsAreEnough`, `AreasNeverOverlap` | device of fewer than 2^31 sectors of 512 bytes (`Ordinary`) | `NumbersFit`, `AreasApart` |
| `WbfsGeometryProofs!TableFitsInTheHead`, `BlocksAreOnTheDevice`, `OpensOnlyWhatFits`, `BlockIsMinimal` | the same | the disc table fits in its sector; every block but the last is on the device; a partition is opened only with its device's size; the block size is minimal |

Their arguments. The pool: a loop in the middle of the table has passed only empty
words and cleared bits (`IInv`), so that the bit it finds is the lowest; blocks and
pairs of word and bit are in one-to-one correspondence, which is division with
rest, and linear for words of 32 bits; the count is an induction-free step, as
each word adds the free blocks that are its own. The walk: the directories on the
stack lie inside one another and around `j` (`NestOK`), a call returns where its
directory ends, and every file before `j` has been visited (`VisitsOK`).
The partition table: `to` never passes `from`, what is behind `from` is as it was,
and the entries before `to` are the selected ones before `from` in their order,
counted by `Rank`. The layout: for each of the four block sizes that an ordinary
device can have, the sizes are linear in the number of sectors, and each area is
a bound on a quotient.

The parser: `Parsing` says that nothing is marked but what is `Needed`, and that of every
partition the loop has passed everything is marked that ever is. `MarkCount` and
`DataBlocks` are recursive functions, as the loops of `disc_read` and
`partition_read` are; what they compute for every length (`MarkCountIs`,
`DataBlocksAre`) is shown by looking at the least length for which it would fail
(`LeastNatural`). `MarkCountIs` has the loop that ends one sector early, so a
read that reaches into one sector more than its whole sectors leaves that one
unmarked. `CopiesEnough` is the argument why no block is lost by it: on a pressed disc
this happens to the last sector of the h3 hashes only; the sectors before and after it
are marked, and of two neighbours one is in its block, which has at
least two sectors (`BlocksAreOfSectors`). The assumptions are the layout of discs
(`DiscsAreLaidOut`), their types, and that nothing on them lies behind the last whole
block (`DiscsFit`). `CopiesTheListed` joins this with the
fixed table: an entry that is listed was selected (`ListsTheSelected`), the first pass used
the same selector, and what it selected it has marked by its end. `OnlyWiiHavePartitions` is
needed, since the parser stops at an image without the magic and the second
pass would still cut down what it finds at 0x40000.

The read: `Reading` relates the place that is read from next (`At`, from block and
sector) to the byte that is due (`Pos`, from the request). They are equal
(`Exact`) until the loop has read over the end of a block, and from then on what was
read is at least `SafeLen` long, about which nothing more is said. Behind such a read the
place is never ahead of the byte that is due (`OnTheWay`), which is why the lookup table is
never read past its end. All sizes are constants, so this is
arithmetic with products: the lemmas `Longer`, `Fewer`, `DivMod` and `OnlyOne` have what
is needed of multiplication and of division with rest.

The theorems without a run of their own state properties that follow from an
invariant which a run checks (`NeverCrossLinked`, `ListStaysSound` from
`Consistent`), type invariants, or facts about sizes where TLC could try single
numbers only.

Only model-checked: `OperationsEnd` and `ShowEnds`, since liveness under fairness is
out of reach of the prover. Every safety property and every action property that a
passing run checks is stated by a theorem.

## 6. Where the code and its documentation disagree

TLC shows two of these as runs that find a violation:

* **A wiped disc comes back** (`revived`). `wbfs_gtk.c:754` warns that all data
  will be permanently lost; `disc_info`s survive the initialisation, and a failed add
  puts one back in the list, with blocks that are free.
* **A cancelled operation spoils the next add** (`cancelled`). The flag is not
  reset before the image is measured, the read callback returns its "fatal
  error", and `wbfs_fatal` ends the program.

The others are seen in the models, which do what the code does, and in the
conditions that their properties need:

* **A struck-off slot renumbers the list** (`Wbfs`, `GetDiscInfo`). `libwbfs.h` says
  `wbfs_get_disc_info` gets "the ith disc inside the partition"; when a slot lacks
  the magic the code drops it from the table in the middle of the loop
  (`libwbfs.c:369`), so a later index has no disc and the disc that moved down is
  not shown.
* **The pane outlives the partition** (`Devices`). `README:39`: the left pane shows
  the loaded partition. With an empty device list, the load button closes the
  partition and `load_device` returns before it clears the name and the discs
  (`wbfs_gtk.c:419`). `PaneShowsOpen` is about a pane while a device is open.
* **More than hd and sd** (`Devices`). `README:34` says that /dev/hd* and /dev/sd* are
  listed; `app_init` sets `list_partitions` (`app_state.c:22`) and `init_widgets` checks
  the item "Show all partitions" accordingly (`wbfs_gtk.c:555`), so everything in
  /proc/partitions is listed until the user unchecks it.
* **A read across the end of a block** (`DiscRead`). `wbfs_disc_read` compares a
  count of sectors with a size in bytes (`libwbfs.c:306`), so one read may go on in
  the next block of the device, which need not be the disc's next.
  `ReadsInsideABlock` is about what lies before (`SafeLen`).
* **One partition table of several** (`WiiDisc`). Only the first of the tables that a
  disc can have is read and fixed (`wiidisc.c:250`), while `wiidisc.h:58` speaks of
  the partition table.
* **Names of partition types** (`Selector`). `wiidisc.h:18-23` names types in an order
  that `wiidisc.c:226` does not follow.
* **The last block is behind the device** (`WbfsGeometry`). Blocks are counted from the
  head's, the table from the one behind it; when the count is a multiple of 32 the
  last bit is of a block that the device does not have (`libwbfs.c:161`,
  `libwbfs.c:443`). `BlocksOnDevice` leaves the last one out.
* **Large and 4k devices** (`WbfsGeometry`). The count of sectors is an `int`: from 2^31
  on it is negative and the largest block is chosen (`libwbfs.c:100`,
  `libwbfs.c:121`). With larger sectors the count is multiplied where it should be
  divided (`libwbfs_unix.c:170`; `libwbfs.h:23` says sectors of the device's size).
  `Ordinary` leaves both out.
* **A check that is passed with -1** (`Wbfs`). `info_get_iso_size` returns -1 for an image
  that it cannot open (`wbfs_ops.c:155`), and its caller, which means to check "if there's
  enough free space" (`wbfs_gtk.c:248`), compares that with the free space and goes on
  (`wbfs_gtk.c:251`). `op_add_iso` opens the image again (`wbfs_ops.c:179`), so the one it copies
  need not be the one that was measured either. `SpaceCheckHolds` names the case that is left.
* **A count of what is not used** (`FreeBlocks`). `wbfs_count_usedblocks`
  (`libwbfs.h:190`) counts free blocks, which is what its caller shows
  (`CountIsOfFree`).
* **Trimming** (`Library`). `wbfs_trim` takes the first free block for the end
  (`libwbfs.c:788`): a disc behind a hole is cut off, a full partition gets the
  size ~0, and after a trim the table is looked for at a place that depends on
  the new size. `TrimKeepsPacked` and `NeverTrimmed` name what is left.
* **A disc left open** (`Library`). When a new id is too long, `wbfs_nid_disc` returns
  with its disc open (`libwbfs.c:690`), and `wbfs_close` then does not close the
  partition.
* **Entries `stat` fails on** (`FsPane`). They pass the check of the extension, since -1
  is not "no directory" (`list_dir.c:102`).

`README:35` also names a menu item "Ignore mounted devices" to be de-selected; the
glade file has "Show mounted devices", to be selected. `NothingMountedListed` is
about the item that exists.

## 7. What is not modelled

* `rijndael.c`: a pure cipher, its tables are data. What the parser decrypts does
  not change which sectors it reads, but for the offsets that are part of an
  image in `WiiDisc`.
* `libwbfs_win32.c`: another platform's file access; the Linux program is built
  without it.
* `file2h.c`, the glade file: build tool and interface description. Which
  button exists in which dialog was read from the glade file where an action
  depends on it (the cancel flag).
* `wbfs_open_hd` and `wbfs_try_open`: they look for a partition on a whole disk or on
  any device; no handler calls them. `list_dir` is not called either, and
  `wbfs_extract_file` is only declared.
* Widget set-up, the about box and the saved window geometry of `wbfs_gtk.c`: calls to
  GTK without state of the program's.
* Failing reads of the partition's own metadata after it has been opened: the code
  goes on with what its buffer holds, which can be anything. The one such read
  that decides whether a device is opened is in `Devices`.
* The text of messages, and the length of the capture buffer: at most two
  messages come between its start and its end.

## 8. What could be added

* An abstract read of a disc as a function from offsets to bytes, which `DiscRead`
  implements as long as a request stays inside a block.
* That the loops of `FreeBlocks`, `FileTable` and `DiscRead` end in a bounded number of
  turns, as an action property on a measure.
* The catalog with failures: `PartitionIsCatalog` is about behaviours without a fault.
  A catalog that may also forget the disc of a dropped write, or bring back one
  that was wiped, would be implemented by every behaviour.
