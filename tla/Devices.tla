------------------------------ MODULE Devices ------------------------------
(***************************************************************************)
(* The list of devices, the one selected in it, and the one that is open:  *)
(* devices.c, app_state.c, and the handlers of wbfs_gtk.c that list, load  *)
(* and initialise.  A handler runs to its end or to a message dialog, whose *)
(* modal loop keeps the other handlers out.  Between two steps the system  *)
(* goes on: disks are plugged and unplugged, partitions mounted.           *)
(*                                                                         *)
(* Indices are counted from 1, and 0 stands for the -1 of the code.  The   *)
(* list store of the combo box is refilled from app_state.dev by the       *)
(* handler that fills it, so one sequence, dev, stands for both.           *)
(***************************************************************************)
EXTENDS Naturals, FiniteSets

CONSTANTS
  Names,       \* device names
  Disks,       \* which names come and go together
  Rank,        \* the order of the names, the kernel's and that of glob
  PartsOf,     \* PartsOf[d]: the names that start with d, d among them
  HdSd,        \* the names /dev/hd* and /dev/sd* match
  Extended,    \* extended partitions: 0 or 1 block in /proc/partitions
  Mountable,   \* the names a file system can be on
  MaxDevices,  \* APP_MAX_DEVICES
  MaxMounts,   \* the size of the array of mounts
  None

ASSUME NamesAreNames ==
  /\ IsFiniteSet(Names)
  /\ Disks \subseteq SUBSET Names
  /\ Rank \in [Names -> Nat]
  /\ PartsOf \in [Names -> SUBSET Names]
  /\ \A d \in Names : d \in PartsOf[d]
  /\ HdSd \subseteq Names /\ Extended \subseteq Names /\ Mountable \subseteq Names
  /\ None \notin Names

ASSUME SizesAreNat == MaxDevices \in Nat /\ MaxMounts \in Nat

VARIABLES
  \* the system
  present,     \* names with a node under /dev
  mounted,     \* names /proc/mounts shows, their nodes gone or not
  magic,       \* devices that begin with "WBFS"
  allowed,     \* devices this user may open
  \* the program
  dev,         \* app_state.dev, and what the combo box shows
  active,      \* the row selected in the combo box
  ignore_mounted_devices,
  list_partitions,
  cur_dev,
  wbfs,        \* the device app_state.wbfs was opened on
  label,       \* the name above the left pane
  shown,       \* the device whose discs the left pane lists
  capturing_msgs,
  captured,    \* the devices captured_msgs tells of
  target,      \* the local device of the initialisation
  pc,
  \* history
  menu,        \* the items of the View menu that are checked
  avoided,     \* what was mounted when dev was filled, unless it could not be read
  steady,      \* mounted ever since the initialisation was asked for
  warned       \* was the second warning answered yes

system  == <<present, mounted, magic, allowed>>
flags   == <<ignore_mounted_devices, list_partitions>>
list    == <<dev, active>>
pane    == <<label, shown>>
capture == <<capturing_msgs, captured>>
asking  == <<target, steady, warned>>
vars    == <<system, list, flags, cur_dev, wbfs, pane, capture, asking, pc,
             menu, avoided>>

MenuItems == {"mounted", "partitions"}

\* "start": in main.  "idle": in its loop.  "load": about to load_device.
\* "ask", "askMounted", "report", "error": in a message dialog.
\* "check", "format": in the initialisation.  "lost": behaviour undefined.
Steps == {"start", "idle", "load", "ask", "check", "askMounted", "format",
          "report", "error", "ended", "crashed", "lost"}
Dialogs == {"ask", "askMounted", "report", "error"}

-----------------------------------------------------------------------------
(* devices.c                                                               *)

\* What /proc/mounts names and realpath resolves.
Mounts == mounted \cap present

\* What read_mounts can bring back: all of it, as much as the array holds,
\* or nothing when /proc/mounts cannot be opened.
read_mounts ==
  {{}} \cup (IF Cardinality(Mounts) <= MaxMounts
               THEN {Mounts}
               ELSE {s \in SUBSET Mounts : Cardinality(s) = MaxMounts})

\* memcmp over the length of the name asked for: d itself, or a name that
\* goes on after d, like that of a partition of the disk d.
same_name(d, seen) == d \in seen
check_device_mounted(d, seen) == PartsOf[d] \cap seen # {}

check_partition_looks_wbfs(d) == d \in present \cap allowed \cap magic

InOrder(set) ==
  {s \in [1 .. Cardinality(set) -> set] :
     \A i, j \in DOMAIN s : i < j => Rank[s[i]] < Rank[s[j]]}

\* The names found, from /proc/partitions or from glob.
Found(kernel) == IF kernel THEN present \ Extended ELSE present \cap HdSd

Listed(kernel, seen) == {d \in Found(kernel) : ~check_device_mounted(d, seen)}

UpTo(n, s) == [i \in {j \in DOMAIN s : j <= n} |-> s[i]]

\* glob's names are stored as long as there is room, the kernel's always.
StoredAll(kernel, s) == s
Stored(kernel, s)    == IF kernel THEN s ELSE UpTo(MaxDevices, s)

\* The first device that looks like WBFS, 0 if there is none.
FirstWbfs(s) ==
  IF \E i \in DOMAIN s : check_partition_looks_wbfs(s[i])
    THEN {i \in DOMAIN s : /\ check_partition_looks_wbfs(s[i])
                           /\ \A j \in DOMAIN s :
                                j < i => ~check_partition_looks_wbfs(s[j])}
    ELSE {0}

-----------------------------------------------------------------------------
(* reload_device_list, with app_reload_device_list and                     *)
(* list_available_devices.                                                 *)

get_device_id(s, d) ==
  IF \E i \in DOMAIN s : s[i] = d THEN CHOOSE i \in DOMAIN s : s[i] = d ELSE 0

NewSelectionByRow(new, def) ==
  IF wbfs = None /\ def > 0 THEN def
  ELSE IF active \in DOMAIN new THEN active
  ELSE IF DOMAIN new = {} THEN 0 ELSE 1

\* The row selected in the new list: a device that looks like WBFS when
\* nothing is open, else the one selected before, else the first.
NewSelection(new, def) ==
  IF wbfs = None /\ def > 0 THEN def
  ELSE LET same == IF active = 0 THEN 0 ELSE get_device_id(new, dev[active])
       IN  IF same > 0 THEN same
           ELSE IF DOMAIN new = {} THEN 0 ELSE 1

\* The list is filled with new, and def is app_state.def_dev.
Refill(new, def, seen) ==
  /\ def \in FirstWbfs(new)
  /\ dev' = new
  /\ active' = NewSelection(new, def)
  /\ avoided' = IF ignore_mounted_devices' /\ seen # Mounts THEN {} ELSE Mounts

\* What one call can read, with the flags as they are after the step.
Sights == IF ignore_mounted_devices' THEN read_mounts ELSE {{}}
\* /proc/partitions may be out of reach too.
Kernels == {list_partitions', FALSE}

reload_device_list(def) ==
  \E seen \in Sights, kernel \in Kernels :
    \E all \in InOrder(Listed(kernel, seen)) :
      LET new == Stored(kernel, all) IN
      /\ DOMAIN new \subseteq 1 .. MaxDevices
      /\ Refill(new, def, seen)

\* More devices than app_state.dev has room for.
Overflow ==
  \E seen \in Sights, kernel \in Kernels :
    \E all \in InOrder(Listed(kernel, seen)) :
      ~(DOMAIN Stored(kernel, all) \subseteq 1 .. MaxDevices)

\* A handler lists the devices and goes on at step next.
Lists(def, next) ==
  \/ reload_device_list(def) /\ pc' = next
  \/ Overflow /\ pc' = "lost" /\ UNCHANGED <<list, avoided>>

-----------------------------------------------------------------------------
(* message.c: while messages are captured there is no dialog.              *)

Message(dialog, next) == pc' = IF capturing_msgs' THEN next ELSE dialog

\* captured_msgs when capturing begins, capturing_msgs when it has ended.
capture_goes_on   == captured
start_msg_capture == {}
end_msg_capture   == FALSE

-----------------------------------------------------------------------------
(* The handlers.                                                           *)

\* main_window_realize_cb, down to load_device.
main_window_realize_cb ==
  /\ pc = "start"
  /\ UNCHANGED flags
  /\ \E def \in 0 .. MaxDevices :
       /\ Lists(def, IF def > 0 THEN "load" ELSE "idle")
       /\ cur_dev' = IF pc' = "load" THEN def ELSE cur_dev
       /\ capturing_msgs' = (pc' = "load")
       /\ captured' = IF pc' = "load" THEN start_msg_capture ELSE captured
  /\ UNCHANGED <<system, wbfs, pane, asking, menu>>

\* The user selects another row.
Select ==
  /\ pc = "idle"
  /\ active' \in DOMAIN dev
  /\ UNCHANGED <<system, dev, flags, cur_dev, wbfs, pane, capture, asking, pc,
                 menu, avoided>>

Rescan ==
  /\ \E def \in 0 .. MaxDevices : Lists(def, "idle")
  /\ UNCHANGED <<system, cur_dev, wbfs, pane, capture, asking>>

reload_device_list_clicked_cb ==
  /\ pc = "idle"
  /\ UNCHANGED <<flags, menu>>
  /\ Rescan

\* The View menu.  GTK has flipped the item.
Flip(item) == menu' = (menu \cup {item}) \ (menu \cap {item})

mounted_item_inverted ==
  /\ pc = "idle"
  /\ Flip("mounted")
  /\ ignore_mounted_devices' = ("mounted" \in menu')
  /\ UNCHANGED list_partitions
  /\ Rescan
menu_ignore_mounted_devices_toggled_cb ==
  /\ pc = "idle"
  /\ Flip("mounted")
  /\ ignore_mounted_devices' = ("mounted" \notin menu')
  /\ UNCHANGED list_partitions
  /\ Rescan

menu_view_partitions_toggled_cb ==
  /\ pc = "idle"
  /\ Flip("partitions")
  /\ list_partitions' = ("partitions" \in menu')
  /\ UNCHANGED ignore_mounted_devices
  /\ Rescan

LoadedId   == IF cur_dev > 0 THEN cur_dev ELSE active
SelectedId == IF active = 0 THEN 0 ELSE get_device_id(dev, dev[active])

\* With nothing selected, the name looked for is not initialised; the list
\* is empty then and nothing is compared with it.
reload_device_clicked_cb ==
  /\ pc = "idle"
  /\ cur_dev' = SelectedId
  /\ pc' = "load"
  /\ UNCHANGED <<system, list, flags, wbfs, pane, capture, asking, menu, avoided>>

\* wbfs_close writes the head again, if it can.
Close ==
  magic' \in IF wbfs \in present THEN {magic, magic \cup {wbfs}} ELSE {magic}

\* wbfs_try_open_partition: the head is read, and when that fails whatever
\* the memory for it holds is looked at.
Opens(d, read) == d \in present \cap allowed /\ (read => d \in magic')

\* load_device, with a device to load.
LoadDevice ==
  /\ pc = "load"
  /\ cur_dev > 0
  /\ Close
  /\ capturing_msgs' = end_msg_capture
  /\ LET d == dev[cur_dev] IN
     \/ \E read \in BOOLEAN :
          /\ Opens(d, read)
          /\ wbfs' = d
          /\ label' = d
          /\ shown' = d
          /\ captured' \in {start_msg_capture, start_msg_capture \cup {d}}
          /\ pc' = "idle"
     \/ /\ wbfs' = None
        /\ label' = None
        /\ captured' = start_msg_capture
              \cup (IF d \in present \cap allowed THEN {d} ELSE {})
        /\ Message("error", "idle")
        /\ shown' = IF pc' = "idle" THEN None ELSE shown
  /\ UNCHANGED <<present, mounted, allowed, list, flags, cur_dev, asking, menu,
                 avoided>>

\* load_device with cur_dev < 0.  Its caller then frees a name that was
\* never set.
LoadNothing ==
  /\ pc = "load"
  /\ cur_dev = 0
  /\ Close
  /\ wbfs' = None
  /\ pc' \in {"idle", "crashed"}
  /\ UNCHANGED <<present, mounted, allowed, list, flags, cur_dev, pane, capture,
                 asking, menu, avoided>>

\* The message is closed, and the list of discs cleared.
ErrorClosed ==
  /\ pc = "error"
  /\ shown' = None
  /\ pc' = "idle"
  /\ UNCHANGED <<system, list, flags, cur_dev, wbfs, label, capture, asking,
                 menu, avoided>>

-----------------------------------------------------------------------------
(* menu_init_wbfs_partition_activate_cb                                    *)

InitAsked ==
  /\ pc = "idle"
  /\ active > 0
  /\ target' = dev[active]
  /\ pc' = "ask"
  /\ steady' = Mounts
  /\ warned' = FALSE
  /\ UNCHANGED <<system, list, flags, cur_dev, wbfs, pane, capture, menu, avoided>>

\* The locals of the handler are gone.
Returned ==
  /\ target' = None
  /\ steady' = {}
  /\ warned' = FALSE

Refused ==
  /\ pc \in {"ask", "askMounted"}
  /\ pc' = "idle"
  /\ Returned
  /\ UNCHANGED <<system, list, flags, cur_dev, wbfs, pane, capture, menu, avoided>>

Agreed ==
  /\ pc = "ask"
  /\ pc' = "check"
  /\ UNCHANGED <<system, list, flags, cur_dev, wbfs, pane, capture, asking,
                 menu, avoided>>

is_device_mounted ==
  /\ pc = "check"
  /\ \E seen \in read_mounts :
       /\ pc' = IF check_device_mounted(target, seen) THEN "askMounted"
                                                      ELSE "format"
       /\ steady' = IF seen = Mounts THEN steady ELSE {}
  /\ UNCHANGED <<system, list, flags, cur_dev, wbfs, pane, capture, target,
                 warned, menu, avoided>>

AgreedAgain ==
  /\ pc = "askMounted"
  /\ pc' = "format"
  /\ warned' = TRUE
  /\ UNCHANGED <<system, list, flags, cur_dev, wbfs, pane, capture, target,
                 steady, menu, avoided>>

\* op_init_partition: what is open is closed, and the device opened afresh.
\* It counts as a success when its head could not be written.
op_init_partition ==
  /\ pc = "format"
  /\ \E closed \in {{}, {wbfs} \cap present}, written \in {{}, {target}} :
       /\ magic' = magic \cup closed \cup (written \cap present \cap allowed)
       /\ wbfs' = IF target \in present \cap allowed THEN target ELSE None
  /\ UNCHANGED capture
  /\ Message("report", "load")
  /\ cur_dev' = IF pc' = "load" THEN get_device_id(dev, target) ELSE cur_dev
  /\ UNCHANGED <<present, mounted, allowed, list, flags, pane, asking, menu,
                 avoided>>

ReportedOnly ==
  /\ pc = "report"
  /\ pc' = "idle"
  /\ Returned
  /\ UNCHANGED <<system, list, flags, cur_dev, wbfs, pane, capture, menu, avoided>>

\* The report is closed, and the device loaded.
Reported ==
  /\ pc = "report"
  /\ cur_dev' = get_device_id(dev, target)
  /\ pc' = "load"
  /\ Returned
  /\ UNCHANGED <<system, list, flags, wbfs, pane, capture, menu, avoided>>

\* main_window_delete_event_cb and menu_quit_activate_cb.
Quit ==
  /\ pc = "idle"
  /\ pc' = "ended"
  /\ UNCHANGED <<system, list, flags, cur_dev, wbfs, pane, capture, asking,
                 menu, avoided>>

-----------------------------------------------------------------------------
(* The system.  A name that is mounted or open is not given to a disk that *)
(* is plugged in, and what is WBFS is not mounted.                         *)

program == <<list, flags, cur_dev, wbfs, pane, capture, target, warned, pc,
             menu, avoided>>

Plug(disk) ==
  /\ disk \cap (present \cup mounted \cup {wbfs}) = {}
  /\ present' = present \cup disk
  /\ UNCHANGED <<mounted, magic, allowed, steady, program>>

Unplug(disk) ==
  /\ disk \subseteq present
  /\ present' = present \ disk
  /\ steady' = steady \ disk
  /\ UNCHANGED <<mounted, magic, allowed, program>>

Mount(d) ==
  /\ d \in (Mountable \cap present) \ (mounted \cup magic)
  /\ mounted' = mounted \cup {d}
  /\ UNCHANGED <<present, magic, allowed, steady, program>>

Unmount(d) ==
  /\ d \in mounted
  /\ mounted' = mounted \ {d}
  /\ steady' = steady \ {d}
  /\ UNCHANGED <<present, magic, allowed, program>>

System ==
  \/ \E disk \in Disks : Plug(disk) \/ Unplug(disk)
  \/ \E d \in Names : Mount(d) \/ Unmount(d)

-----------------------------------------------------------------------------
app_init ==
  /\ ignore_mounted_devices = TRUE
  /\ list_partitions = TRUE
  /\ cur_dev = 0
  /\ wbfs = None
  /\ dev = [i \in {} |-> None]

\* init_widgets.  The signals are connected by then: checking the item that
\* list_partitions stands for calls its handler, which sets the flag to what it
\* is and fills a list that main_window_realize_cb fills again.
Windows ==
  /\ active = 0
  /\ label = None /\ shown = None
  /\ menu = IF list_partitions THEN {"partitions"} ELSE {}

Init ==
  /\ present \in SUBSET Names /\ \A disk \in Disks : disk \cap present \in {{}, disk}
  /\ mounted \in SUBSET (Mountable \cap present)
  /\ magic \in SUBSET (Mountable \ mounted)
  /\ allowed \in {{}, Names}
  /\ app_init
  /\ Windows
  /\ capturing_msgs = FALSE /\ captured = {}
  /\ target = None /\ steady = {} /\ warned = FALSE
  /\ pc = "start"
  /\ avoided = {}

Handlers ==
  \/ main_window_realize_cb
  \/ Select
  \/ reload_device_list_clicked_cb
  \/ menu_ignore_mounted_devices_toggled_cb
  \/ menu_view_partitions_toggled_cb
  \/ reload_device_clicked_cb
  \/ LoadDevice
  \/ LoadNothing
  \/ ErrorClosed
  \/ InitAsked
  \/ Refused
  \/ Agreed
  \/ is_device_mounted
  \/ AgreedAgain
  \/ op_init_partition
  \/ Reported
  \/ Quit

Next == Handlers \/ System

Spec == Init /\ [][Next]_vars

-----------------------------------------------------------------------------
(* Properties.                                                             *)

\* Indices are in the list, and what is remembered is a device.
TypeOK ==
  /\ present \subseteq Names /\ mounted \subseteq Names /\ magic \subseteq Names
  /\ allowed \subseteq Names
  /\ \E n \in 0 .. MaxDevices : dev \in [1 .. n -> Names]
  /\ active \in {0} \cup DOMAIN dev
  /\ ignore_mounted_devices \in BOOLEAN /\ list_partitions \in BOOLEAN
  /\ cur_dev \in Nat
  /\ {wbfs, label, shown, target} \subseteq Names \cup {None}
  /\ capturing_msgs \in BOOLEAN /\ captured \subseteq Names
  /\ pc \in Steps
  /\ menu \subseteq MenuItems
  /\ avoided \subseteq Names /\ steady \subseteq Names
  /\ warned \in BOOLEAN

\* cur_dev is an index into a list that rescanning reorders and shortens,
\* and nothing brings it up to date then.  Still, whenever load_device reads
\* it, it is the row selected in the window, or 0 when there is none, and
\* so the name of a device in the list.
LoadsTheSelection ==
  pc = "load" => cur_dev = active /\ cur_dev \in {0} \cup DOMAIN dev

\* If the program saw everything that was mounted, a device is formatted
\* without the second warning only if neither it nor a partition on it was
\* mounted all the while since the first.
FormatWarned ==
  pc = "format" /\ ~warned => PartsOf[target] \cap steady = {}

\* "Show mounted devices" is unchecked: nothing in the list was mounted when
\* the list was filled, nor was a partition on it, if the program could
\* read all that was mounted.
NothingMountedListed ==
  pc # "lost" /\ "mounted" \notin menu =>
    \A i \in DOMAIN dev : PartsOf[dev[i]] \cap avoided = {}

\* While a device is open and no message is up, the left pane is about it.
PaneShowsOpen ==
  pc = "idle" /\ wbfs # None => label = wbfs /\ shown = wbfs

\* Filling the list again while a device is open leaves the same device
\* selected, wherever it is in the list by then, if it still is there.
SelectionSurvives ==
  [][ dev' # dev /\ wbfs # None /\ active > 0
      /\ (\E i \in DOMAIN dev' : dev'[i] = dev[active])
        => dev'[active'] = dev[active] ]_vars

\* There is room for what glob finds.  Only a list read from
\* /proc/partitions is too long for app_state.dev.
OnlyPartitionsOverflow == pc = "lost" => list_partitions

\* The messages an error quotes are about the device it names, not left
\* from an earlier attempt on another.
ErrorIsAboutTheDevice == pc = "error" => captured \subseteq {dev[cur_dev]}

\* A capture is over before anything is said to the user: no report or
\* error goes into the buffer, whichever way the captures were nested.
NothingSwallowed == pc \in {"idle", "format"} \cup Dialogs => ~capturing_msgs

=============================================================================
