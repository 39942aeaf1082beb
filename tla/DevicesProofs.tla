--------------------------- MODULE DevicesProofs ---------------------------
(***************************************************************************)
(* Theorems about the device list, for any devices, any order of them, and *)
(* any limits.                                                             *)
(***************************************************************************)
EXTENDS Devices, FiniteSetTheorems, TLAPS

-----------------------------------------------------------------------------
(* Lists of devices.                                                       *)

IsList(s) == \E n \in 0 .. MaxDevices : s \in [1 .. n -> Names]

Distinct(s) == \A i, j \in DOMAIN s : s[i] = s[j] => i = j

\* What a list that fits is made of: distinct names that are found and not
\* covered by a mount that was seen.
LEMMA ListsAreLists ==
  ASSUME present \subseteq Names,
         NEW kernel \in BOOLEAN, NEW seen, NEW all \in InOrder(Listed(kernel, seen)),
         DOMAIN Stored(kernel, all) \subseteq 1 .. MaxDevices
  PROVE  /\ IsList(Stored(kernel, all))
         /\ Distinct(Stored(kernel, all))
         /\ \A i \in DOMAIN Stored(kernel, all) :
              PartsOf[Stored(kernel, all)[i]] \cap seen = {}
<1> DEFINE set == Listed(kernel, seen)
           n   == Cardinality(set)
           new == Stored(kernel, all)
<1>1. set \subseteq Names /\ \A d \in set : PartsOf[d] \cap seen = {}
  BY DEF Listed, Found, check_device_mounted
<1>2. n \in Nat
  BY <1>1, NamesAreNames, FS_Subset, FS_CardinalityType
<1>3. /\ all \in [1 .. n -> set]
      /\ \A i, j \in 1 .. n : i < j => Rank[all[i]] < Rank[all[j]]
  BY DEF InOrder
<1>4. MaxDevices \in Nat
  BY SizesAreNat
<1> HIDE DEF set, n
<1>5. PICK m \in Nat : /\ m <= n
                       /\ DOMAIN new = 1 .. m
                       /\ \A i \in 1 .. m : new[i] = all[i]
                       /\ new = [i \in 1 .. m |-> all[i]]
  <2>1. CASE kernel
    BY <2>1, <1>2, <1>3 DEF Stored
  <2>2. CASE ~kernel
    <3> DEFINE m == IF n <= MaxDevices THEN n ELSE MaxDevices
    <3>1. m \in Nat /\ m <= n /\ {j \in DOMAIN all : j <= MaxDevices} = 1 .. m
      BY <1>2, <1>3, <1>4
    <3>2. new = [i \in 1 .. m |-> all[i]]
      BY <3>1, <2>2 DEF Stored, UpTo
    <3> QED
      BY <3>1, <3>2
  <2> QED
    BY <2>1, <2>2
<1>6. m \in 0 .. MaxDevices
  <2>1. 1 .. m \subseteq 1 .. MaxDevices
    BY <1>5
  <2>2. CASE m = 0
    BY <2>2, <1>4
  <2>3. CASE m > 0
    <3>1. m \in 1 .. MaxDevices
      BY <2>1, <2>3, <1>5
    <3> QED
      BY <3>1
  <2> QED
    BY <2>2, <2>3, <1>5
<1>7. IsList(new)
  <2>1. new \in [1 .. m -> Names]
    BY <1>1, <1>2, <1>3, <1>5
  <2> QED
    BY <2>1, <1>6 DEF IsList
<1>8. Distinct(new)
  <2> SUFFICES ASSUME NEW i \in 1 .. m, NEW j \in 1 .. m, new[i] = new[j], i # j
               PROVE  FALSE
    BY <1>5 DEF Distinct
  <2>1. i \in 1 .. n /\ j \in 1 .. n /\ all[i] = all[j]
    BY <1>2, <1>5
  <2>2. Rank[all[i]] \in Nat
    BY <2>1, <1>1, <1>3, NamesAreNames
  <2>3. i < j \/ j < i
    BY <1>5
  <2> QED
    BY <2>1, <2>2, <2>3, <1>3
<1>9. \A i \in DOMAIN new : PartsOf[new[i]] \cap seen = {}
  BY <1>1, <1>2, <1>3, <1>5
<1> QED
  BY <1>7, <1>8, <1>9

\* get_device_id finds a device at the one index where it is.
LEMMA IdOfDevice ==
  ASSUME NEW s, Distinct(s), NEW i \in DOMAIN s
  PROVE  get_device_id(s, s[i]) = i
  BY DEF get_device_id, Distinct

\* get_device_id returns an index of the list, or 0.
LEMMA IdsAreIndices ==
  ASSUME NEW s, NEW d
  PROVE  get_device_id(s, d) \in {0} \cup DOMAIN s
  BY DEF get_device_id

\* The row selected in a new list is one of its rows, or none.
LEMMA SelectionIsARow ==
  ASSUME NEW s, IsList(s), NEW def \in FirstWbfs(s)
  PROVE  /\ def \in {0} \cup DOMAIN s
         /\ NewSelection(s, def) \in {0} \cup DOMAIN s
         /\ wbfs = None /\ def > 0 => NewSelection(s, def) = def
<1>1. PICK n \in 0 .. MaxDevices : s \in [1 .. n -> Names]
  BY DEF IsList
<1>2. def \in {0} \cup DOMAIN s
  BY DEF FirstWbfs
<1>3. DOMAIN s # {} => 1 \in DOMAIN s
  BY <1>1, SizesAreNat
<1>4. ASSUME NEW d PROVE get_device_id(s, d) \in {0} \cup DOMAIN s
  BY IdsAreIndices
<1>5. NewSelection(s, def) \in {0} \cup DOMAIN s
  BY <1>2, <1>3, <1>4 DEF NewSelection
<1> QED
  BY <1>2, <1>5 DEF NewSelection

\* What listing the devices does: the list is new, or the program is lost.
LEMMA Listing ==
  ASSUME TypeOK, NEW def, NEW next, Lists(def, next),
         list_partitions' \in BOOLEAN, ignore_mounted_devices' \in BOOLEAN
  PROVE  \/ /\ pc' = next
            /\ IsList(dev') /\ Distinct(dev')
            /\ active' \in {0} \cup DOMAIN dev'
            /\ def \in {0} \cup DOMAIN dev'
            /\ active' = NewSelection(dev', def)
            /\ wbfs = None /\ def > 0 => active' = def
            /\ avoided' \subseteq Names
            /\ ignore_mounted_devices' =>
                 \A i \in DOMAIN dev' : PartsOf[dev'[i]] \cap avoided' = {}
         \/ pc' = "lost" /\ list_partitions' /\ UNCHANGED <<list, avoided>>
<1>1. CASE reload_device_list(def) /\ pc' = next
  <2>1. PICK seen \in Sights, kernel \in Kernels :
          \E all \in InOrder(Listed(kernel, seen)) :
            /\ DOMAIN Stored(kernel, all) \subseteq 1 .. MaxDevices
            /\ Refill(Stored(kernel, all), def, seen)
    BY <1>1 DEF reload_device_list
  <2>2. PICK all \in InOrder(Listed(kernel, seen)) :
            /\ DOMAIN Stored(kernel, all) \subseteq 1 .. MaxDevices
            /\ Refill(Stored(kernel, all), def, seen)
    BY <2>1
  <2>3. present \subseteq Names /\ kernel \in BOOLEAN
    BY DEF TypeOK, Kernels
  <2>4. /\ IsList(dev') /\ Distinct(dev')
        /\ \A i \in DOMAIN dev' : PartsOf[dev'[i]] \cap seen = {}
    BY <2>2, <2>3, ListsAreLists DEF Refill
  <2>5. dev' = Stored(kernel, all) /\ active' = NewSelection(dev', def)
        /\ def \in FirstWbfs(dev')
    BY <2>2 DEF Refill
  <2>6. /\ active' \in {0} \cup DOMAIN dev'
        /\ def \in {0} \cup DOMAIN dev'
        /\ wbfs = None /\ def > 0 => active' = def
    <3> DEFINE new == Stored(kernel, all)
    <3>1. IsList(new) /\ def \in FirstWbfs(new)
      BY <2>4, <2>5
    <3>2. /\ def \in {0} \cup DOMAIN new
          /\ NewSelection(new, def) \in {0} \cup DOMAIN new
          /\ wbfs = None /\ def > 0 => NewSelection(new, def) = def
      <4> HIDE DEF new
      <4> QED
        BY <3>1, SelectionIsARow
    <3> QED
      BY <2>5, <3>2
  <2>7. /\ avoided' \in {Mounts, {}}
        /\ ignore_mounted_devices' /\ avoided' # {} => avoided' = seen
    BY <2>2 DEF Refill
  <2>8. avoided' \subseteq Names
    BY <2>3, <2>7 DEF Mounts
  <2>9. ignore_mounted_devices' =>
          \A i \in DOMAIN dev' : PartsOf[dev'[i]] \cap avoided' = {}
    BY <2>4, <2>7
  <2> QED
    BY <1>1, <2>4, <2>5, <2>6, <2>8, <2>9
<1>2. CASE Overflow /\ pc' = "lost" /\ UNCHANGED <<list, avoided>>
  <2>1. PICK seen \in Sights, kernel \in Kernels :
          \E all \in InOrder(Listed(kernel, seen)) :
            ~(DOMAIN Stored(kernel, all) \subseteq 1 .. MaxDevices)
    BY <1>2 DEF Overflow
  <2>2. PICK all \in InOrder(Listed(kernel, seen)) :
            ~(DOMAIN Stored(kernel, all) \subseteq 1 .. MaxDevices)
    BY <2>1
  <2>3. CASE ~kernel
    <3> DEFINE set == Listed(kernel, seen)
    <3>1. set \subseteq Names
      BY DEF Listed, Found, TypeOK
    <3>2. Cardinality(set) \in Nat
      BY <3>1, NamesAreNames, FS_Subset, FS_CardinalityType
    <3>3. DOMAIN all = 1 .. Cardinality(set)
      BY DEF InOrder
    <3> HIDE DEF set
    <3>4. DOMAIN Stored(kernel, all) \subseteq 1 .. MaxDevices
      BY <2>3, <3>2, <3>3, SizesAreNat DEF Stored, UpTo
    <3> QED
      BY <2>2, <3>4
  <2>4. kernel => list_partitions'
    BY DEF Kernels
  <2> QED
    BY <1>2, <2>3, <2>4
<1> QED
  BY <1>1, <1>2 DEF Lists

-----------------------------------------------------------------------------
(* What is selected and what is loaded.                                    *)

Initialising == {"ask", "check", "askMounted", "format", "report"}

\* cur_dev is right when it is used because the row selected stays put from
\* the question of the initialisation to its end, and because a name is
\* found at its own row: no name is in the list twice.
SelectionInv ==
  /\ TypeOK
  /\ Distinct(dev)
  /\ LoadsTheSelection
  /\ pc = "error" => cur_dev \in DOMAIN dev
  /\ pc \in Initialising => active \in DOMAIN dev /\ target = dev[active]
  /\ pc = "start" => wbfs = None

LEMMA SelectionInit == Init => SelectionInv
<1> SUFFICES ASSUME Init PROVE SelectionInv
  OBVIOUS
<1>1. DOMAIN dev = {} /\ Distinct(dev)
  BY DEF Init, app_init, Distinct
<1>2. dev \in [1 .. 0 -> Names] /\ 0 \in 0 .. MaxDevices
  BY SizesAreNat DEF Init, app_init
<1>3. TypeOK
  BY <1>1, <1>2, NamesAreNames DEF TypeOK, Init, app_init, Windows, Steps, MenuItems
<1> QED
  BY <1>1, <1>3 DEF SelectionInv, Init, app_init, LoadsTheSelection, Initialising

\* Scanning again, by the button or by an item of the View menu.
LEMMA SelectionRescan ==
  ASSUME SelectionInv, pc = "idle", Rescan,
         list_partitions' \in BOOLEAN, ignore_mounted_devices' \in BOOLEAN,
         menu' \subseteq MenuItems
  PROVE  SelectionInv'
<1>1. PICK def \in 0 .. MaxDevices : Lists(def, "idle")
  BY DEF Rescan
<1>2. \/ /\ pc' = "idle"
         /\ IsList(dev') /\ Distinct(dev')
         /\ active' \in {0} \cup DOMAIN dev'
         /\ avoided' \subseteq Names
      \/ pc' = "lost" /\ UNCHANGED <<list, avoided>>
  BY <1>1, Listing DEF SelectionInv
<1>3. TypeOK'
  BY <1>2 DEF SelectionInv, TypeOK, IsList, Rescan, system, pane, capture, asking,
              list, Steps
<1> QED
  BY <1>2, <1>3 DEF SelectionInv, LoadsTheSelection, Initialising, Distinct, list

LEMMA SelectionRealize ==
  ASSUME SelectionInv, main_window_realize_cb
  PROVE  SelectionInv'
<1> USE DEF main_window_realize_cb
<1>1. PICK def \in 0 .. MaxDevices :
        /\ Lists(def, IF def > 0 THEN "load" ELSE "idle")
        /\ cur_dev' = IF pc' = "load" THEN def ELSE cur_dev
        /\ capturing_msgs' = (pc' = "load")
        /\ captured' = IF pc' = "load" THEN start_msg_capture ELSE captured
  OBVIOUS
<1>2. list_partitions' \in BOOLEAN /\ ignore_mounted_devices' \in BOOLEAN
  BY DEF SelectionInv, TypeOK, flags
<1>3. \/ /\ pc' = IF def > 0 THEN "load" ELSE "idle"
         /\ IsList(dev') /\ Distinct(dev')
         /\ active' \in {0} \cup DOMAIN dev'
         /\ def \in {0} \cup DOMAIN dev'
         /\ wbfs = None /\ def > 0 => active' = def
         /\ avoided' \subseteq Names
      \/ pc' = "lost" /\ UNCHANGED <<list, avoided>>
  <2>1. Lists(def, IF def > 0 THEN "load" ELSE "idle")
    BY <1>1
  <2> QED
    BY <2>1, <1>2, Listing DEF SelectionInv
<1>4. cur_dev' \in Nat /\ capturing_msgs' \in BOOLEAN /\ captured' \subseteq Names
  BY <1>1, SizesAreNat DEF SelectionInv, TypeOK, start_msg_capture
<1>5. TypeOK'
  BY <1>2, <1>3, <1>4 DEF SelectionInv, TypeOK, IsList, system, pane, asking, list, flags, Steps
<1>6. LoadsTheSelection'
  BY <1>1, <1>3 DEF LoadsTheSelection, SelectionInv
<1> QED
  BY <1>3, <1>5, <1>6 DEF SelectionInv, Initialising, Distinct, list

\* The other handlers leave the list alone.
LEMMA SelectionHandlers ==
  ASSUME SelectionInv,
         \/ Select \/ reload_device_clicked_cb \/ LoadDevice \/ LoadNothing
         \/ ErrorClosed \/ InitAsked \/ Refused \/ Agreed \/ is_device_mounted
         \/ AgreedAgain \/ op_init_partition \/ Reported \/ Quit
  PROVE  SelectionInv'
<1> USE DEF SelectionInv, LoadsTheSelection, Initialising, list, flags, system,
            pane, capture, asking, Distinct
<1>0. PICK n \in 0 .. MaxDevices : dev \in [1 .. n -> Names]
  BY DEF TypeOK
<1>1. CASE Select
  BY <1>1 DEF Select, TypeOK
<1>2. CASE reload_device_clicked_cb
  <2>1. active > 0 => active \in DOMAIN dev
    BY <1>0 DEF TypeOK
  <2>2. cur_dev' = active
    <3>1. CASE active = 0
      BY <1>2, <3>1 DEF reload_device_clicked_cb, SelectedId
    <3>2. CASE active # 0
      <4>1. active \in DOMAIN dev
        BY <3>2 DEF TypeOK
      <4>2. get_device_id(dev, dev[active]) = active
        BY <4>1, IdOfDevice
      <4> QED
        BY <1>2, <3>2, <4>2 DEF reload_device_clicked_cb, SelectedId
    <3> QED
      BY <3>1, <3>2
  <2>3. active \in Nat
    BY <1>0 DEF TypeOK
  <2> QED
    BY <1>2, <2>2, <2>3 DEF reload_device_clicked_cb, TypeOK, Steps
<1>3. CASE LoadDevice
  <2>1. cur_dev \in DOMAIN dev
    BY <1>3 DEF LoadDevice
  <2>2. dev[cur_dev] \in Names
    BY <2>1, <1>0
  <2>3. magic' \subseteq Names
    BY <1>3 DEF LoadDevice, Close, TypeOK
  <2>4. pc' \in {"idle", "error"} /\ {wbfs', label', shown'} \subseteq Names \cup {None}
        /\ captured' \subseteq Names /\ capturing_msgs' = FALSE
    BY <1>3, <2>2 DEF LoadDevice, Message, start_msg_capture, end_msg_capture, TypeOK
  <2>5. UNCHANGED <<present, mounted, allowed, dev, active, ignore_mounted_devices,
                    list_partitions, cur_dev, target, steady, warned, menu, avoided>>
    BY <1>3 DEF LoadDevice
  <2>6. TypeOK'
    BY <2>3, <2>4, <2>5 DEF TypeOK, Steps
  <2> QED
    BY <2>1, <2>4, <2>5, <2>6
<1>4. CASE LoadNothing
  BY <1>4 DEF LoadNothing, Close, TypeOK, Steps
<1>5. CASE ErrorClosed
  BY <1>5 DEF ErrorClosed, TypeOK, Steps
<1>6. CASE InitAsked
  <2>1. active \in DOMAIN dev
    BY <1>6 DEF InitAsked, TypeOK
  <2>2. dev[active] \in Names
    BY <2>1, <1>0
  <2> QED
    BY <1>6, <2>1, <2>2 DEF InitAsked, TypeOK, Steps, Mounts
<1>7. CASE Refused
  BY <1>7 DEF Refused, Returned, TypeOK, Steps
<1>8. CASE Agreed
  BY <1>8 DEF Agreed, TypeOK, Steps
<1>9. CASE is_device_mounted
  BY <1>9 DEF is_device_mounted, TypeOK, Steps
<1>10. CASE AgreedAgain
  BY <1>10 DEF AgreedAgain, TypeOK, Steps
<1>11. CASE op_init_partition
  <2>1. active \in DOMAIN dev /\ target = dev[active]
    BY <1>11 DEF op_init_partition
  <2>2. target \in Names
    BY <2>1, <1>0
  <2>3. get_device_id(dev, target) = active
    BY <2>1, IdOfDevice
  <2>4. active \in Nat
    BY <2>1, <1>0
  <2>5. magic' \subseteq Names /\ wbfs' \in Names \cup {None}
    BY <1>11, <2>2 DEF op_init_partition, TypeOK
  <2>6. /\ pc' \in {"report", "load"}
        /\ cur_dev' = IF pc' = "load" THEN active ELSE cur_dev
        /\ UNCHANGED <<present, mounted, allowed, list, flags, pane, capture, asking,
                       menu, avoided>>
    BY <1>11, <2>3 DEF op_init_partition, Message
  <2>7. TypeOK'
    BY <2>4, <2>5, <2>6 DEF TypeOK, Steps
  <2> QED
    BY <2>1, <2>6, <2>7
<1>12. CASE Reported
  <2>1. active \in DOMAIN dev /\ target = dev[active]
    BY <1>12 DEF Reported
  <2>2. get_device_id(dev, target) = active
    BY <2>1, IdOfDevice
  <2>3. active \in Nat
    BY <2>1, <1>0
  <2> QED
    BY <1>12, <2>1, <2>2, <2>3 DEF Reported, Returned, TypeOK, Steps
<1>13. CASE Quit
  BY <1>13 DEF Quit, TypeOK, Steps
<1> QED
  BY <1>1, <1>2, <1>3, <1>4, <1>5, <1>6, <1>7, <1>8, <1>9, <1>10, <1>11, <1>12,
     <1>13

\* Nor does anything the system does.
LEMMA SelectionSystem ==
  ASSUME SelectionInv, System
  PROVE  SelectionInv'
<1> USE DEF SelectionInv, LoadsTheSelection, Initialising, program, list, flags, pane,
            capture, Distinct
<1>1. CASE \E disk \in Disks : Plug(disk) \/ Unplug(disk)
  BY <1>1, NamesAreNames DEF Plug, Unplug, TypeOK
<1>2. CASE \E d \in Names : Mount(d) \/ Unmount(d)
  BY <1>2 DEF Mount, Unmount, TypeOK
<1> QED
  BY <1>1, <1>2 DEF System

LEMMA SelectionNext == SelectionInv /\ [Next]_vars => SelectionInv'
<1> SUFFICES ASSUME SelectionInv, [Next]_vars PROVE SelectionInv'
  OBVIOUS
<1>1. CASE main_window_realize_cb
  BY <1>1, SelectionRealize
<1>2. CASE reload_device_list_clicked_cb
  BY <1>2, SelectionRescan DEF reload_device_list_clicked_cb, flags, SelectionInv, TypeOK
<1>3. CASE menu_ignore_mounted_devices_toggled_cb
  BY <1>3, SelectionRescan
     DEF menu_ignore_mounted_devices_toggled_cb, Flip, MenuItems, SelectionInv, TypeOK
<1>4. CASE menu_view_partitions_toggled_cb
  BY <1>4, SelectionRescan
     DEF menu_view_partitions_toggled_cb, Flip, MenuItems, SelectionInv, TypeOK
<1>5. CASE \/ Select \/ reload_device_clicked_cb \/ LoadDevice \/ LoadNothing
           \/ ErrorClosed \/ InitAsked \/ Refused \/ Agreed \/ is_device_mounted
           \/ AgreedAgain \/ op_init_partition \/ Reported \/ Quit
  BY <1>5, SelectionHandlers
<1>6. CASE System
  BY <1>6, SelectionSystem
<1>7. CASE UNCHANGED vars
  BY <1>7 DEF vars, system, list, flags, pane, capture, asking, SelectionInv, TypeOK,
              LoadsTheSelection, Initialising, Distinct
<1> QED
  BY <1>1, <1>2, <1>3, <1>4, <1>5, <1>6, <1>7 DEF Next, Handlers

LEMMA SelectionAlways == Spec => []SelectionInv
  BY SelectionInit, SelectionNext, PTL DEF Spec

\* Indices stay inside the list, however it shrinks, and the list inside
\* the array.
THEOREM TypeCorrect == Spec => []TypeOK
<1>1. SelectionInv => TypeOK
  BY DEF SelectionInv
<1> QED
  BY <1>1, SelectionAlways, PTL

\* load_device is never called with an index that is out of date.
THEOREM AlwaysLoadsTheSelection == Spec => []LoadsTheSelection
<1>1. SelectionInv => LoadsTheSelection
  BY DEF SelectionInv
<1> QED
  BY <1>1, SelectionAlways, PTL

-----------------------------------------------------------------------------
(* The window, the messages and the mounts.                                *)

\* What has been mounted ever since is mounted now.  The items of the menu
\* and the flags go together.  While a message is captured, a device is
\* about to be loaded.  The pane is right wherever idling can be returned
\* to without loading.
WindowInv ==
  /\ SelectionInv
  /\ steady \subseteq Mounts
  /\ FormatWarned
  /\ ignore_mounted_devices = ("mounted" \notin menu)
  /\ NothingMountedListed
  /\ pc \in {"idle", "ask", "check", "askMounted"} /\ wbfs # None =>
       label = wbfs /\ shown = wbfs
  /\ pc = "error" => wbfs = None
  /\ OnlyPartitionsOverflow
  /\ ErrorIsAboutTheDevice
  /\ capturing_msgs => pc = "load" /\ cur_dev > 0

LEMMA WindowInit == Init => WindowInv
  BY SelectionInit
     DEF Init, app_init, Windows, WindowInv, FormatWarned, NothingMountedListed,
         OnlyPartitionsOverflow, ErrorIsAboutTheDevice, Mounts

LEMMA WindowRescan ==
  ASSUME WindowInv, SelectionInv', pc = "idle", Rescan,
         ignore_mounted_devices' = ("mounted" \notin menu')
  PROVE  WindowInv'
<1>1. PICK def \in 0 .. MaxDevices : Lists(def, "idle")
  BY DEF Rescan
<1>2. TypeOK /\ list_partitions' \in BOOLEAN /\ ignore_mounted_devices' \in BOOLEAN
  BY DEF WindowInv, SelectionInv, TypeOK
<1>3. CASE /\ pc' = "idle"
           /\ ignore_mounted_devices' =>
                \A i \in DOMAIN dev' : PartsOf[dev'[i]] \cap avoided' = {}
  BY <1>3 DEF WindowInv, Rescan, system, pane, capture, asking, Mounts, FormatWarned,
              NothingMountedListed, OnlyPartitionsOverflow, ErrorIsAboutTheDevice
<1>4. CASE pc' = "lost" /\ list_partitions' /\ UNCHANGED <<list, avoided>>
  BY <1>4 DEF WindowInv, Rescan, system, pane, capture, asking, list, Mounts,
              FormatWarned, NothingMountedListed, OnlyPartitionsOverflow,
              ErrorIsAboutTheDevice
<1>5. \/ /\ pc' = "idle"
         /\ ignore_mounted_devices' =>
              \A i \in DOMAIN dev' : PartsOf[dev'[i]] \cap avoided' = {}
      \/ pc' = "lost" /\ list_partitions' /\ UNCHANGED <<list, avoided>>
  BY <1>1, <1>2, Listing
<1> QED
  BY <1>3, <1>4, <1>5

LEMMA WindowRealize ==
  ASSUME WindowInv, SelectionInv', main_window_realize_cb
  PROVE  WindowInv'
<1> USE DEF main_window_realize_cb
<1>1. PICK def \in 0 .. MaxDevices :
        /\ Lists(def, IF def > 0 THEN "load" ELSE "idle")
        /\ cur_dev' = IF pc' = "load" THEN def ELSE cur_dev
        /\ capturing_msgs' = (pc' = "load")
  OBVIOUS
<1>2. TypeOK /\ list_partitions' \in BOOLEAN /\ ignore_mounted_devices' \in BOOLEAN
  BY DEF WindowInv, SelectionInv, TypeOK, flags
<1>3. \/ /\ pc' = IF def > 0 THEN "load" ELSE "idle"
         /\ ignore_mounted_devices' =>
              \A i \in DOMAIN dev' : PartsOf[dev'[i]] \cap avoided' = {}
      \/ pc' = "lost" /\ list_partitions' /\ UNCHANGED <<list, avoided>>
  <2>1. Lists(def, IF def > 0 THEN "load" ELSE "idle")
    BY <1>1
  <2> QED
    BY <2>1, <1>2, Listing
<1>4. wbfs = None /\ wbfs' = None
  BY DEF WindowInv, SelectionInv
<1>5. capturing_msgs' => pc' = "load" /\ cur_dev' > 0
  BY <1>1, <1>3
<1>6. /\ pc' \in {"load", "idle", "lost"}
      /\ pc' = "lost" => list_partitions'
      /\ pc' # "lost" /\ ignore_mounted_devices' =>
           \A i \in DOMAIN dev' : PartsOf[dev'[i]] \cap avoided' = {}
  BY <1>3
<1>7. UNCHANGED <<present, mounted, steady, warned, target, menu, ignore_mounted_devices>>
  BY DEF system, asking, flags
<1> QED
  BY <1>4, <1>5, <1>6, <1>7
     DEF WindowInv, Mounts, FormatWarned, NothingMountedListed, OnlyPartitionsOverflow,
         ErrorIsAboutTheDevice

LEMMA WindowHandlers ==
  ASSUME WindowInv, SelectionInv',
         \/ Select \/ reload_device_clicked_cb \/ LoadDevice \/ LoadNothing
         \/ ErrorClosed \/ InitAsked \/ Refused \/ Agreed \/ is_device_mounted
         \/ AgreedAgain \/ op_init_partition \/ Reported \/ Quit
  PROVE  WindowInv'
<1> USE DEF WindowInv, FormatWarned, NothingMountedListed, OnlyPartitionsOverflow,
            ErrorIsAboutTheDevice, Mounts, list, flags, system, pane, capture, asking
<1>1. CASE Select
  BY <1>1 DEF Select
<1>2. CASE reload_device_clicked_cb
  BY <1>2 DEF reload_device_clicked_cb
<1>3. CASE LoadDevice
  <2>1. /\ capturing_msgs' = FALSE
        /\ UNCHANGED <<present, mounted, list, flags, cur_dev, asking, menu, avoided>>
    BY <1>3 DEF LoadDevice, end_msg_capture
  <2>2. \/ /\ pc' = "idle"
           /\ wbfs' # None => label' = wbfs' /\ shown' = wbfs'
        \/ /\ pc' = "error" /\ wbfs' = None
           /\ captured' \subseteq {dev[cur_dev]}
    BY <1>3, <2>1 DEF LoadDevice, Message, start_msg_capture
  <2>3. steady' \subseteq Mounts'
    BY <2>1
  <2>4. dev' = dev /\ avoided' = avoided /\ menu' = menu /\ cur_dev' = cur_dev
        /\ ignore_mounted_devices' = ignore_mounted_devices
    BY <2>1
  <2>5. NothingMountedListed' /\ FormatWarned' /\ OnlyPartitionsOverflow'
    BY <1>3, <2>2, <2>4 DEF LoadDevice
  <2>6. ErrorIsAboutTheDevice'
    BY <2>2, <2>4
  <2> QED
    BY <2>1, <2>2, <2>3, <2>4, <2>5, <2>6
<1>4. CASE LoadNothing
  <2>1. cur_dev = 0 /\ ~capturing_msgs
    BY <1>4 DEF LoadNothing
  <2> QED
    BY <1>4, <2>1 DEF LoadNothing
<1>5. CASE ErrorClosed
  BY <1>5 DEF ErrorClosed
<1>6. CASE InitAsked
  BY <1>6 DEF InitAsked
<1>7. CASE Refused
  BY <1>7 DEF Refused, Returned
<1>8. CASE Agreed
  BY <1>8 DEF Agreed
<1>9. CASE is_device_mounted
  <2>1. PICK seen \in read_mounts :
          /\ pc' = IF check_device_mounted(target, seen) THEN "askMounted" ELSE "format"
          /\ steady' = IF seen = Mounts THEN steady ELSE {}
    BY <1>9 DEF is_device_mounted
  <2>2. steady' \subseteq Mounts'
    BY <1>9, <2>1 DEF is_device_mounted
  <2>3. FormatWarned'
    <3>1. CASE seen = Mounts /\ pc' = "format"
      <4>1. PartsOf[target] \cap Mounts = {}
        BY <2>1, <3>1 DEF check_device_mounted
      <4> QED
        BY <1>9, <2>2, <4>1 DEF is_device_mounted
    <3>2. CASE ~(seen = Mounts /\ pc' = "format")
      BY <2>1, <3>2
    <3> QED
      BY <3>1, <3>2
  <2> QED
    BY <1>9, <2>1, <2>2, <2>3 DEF is_device_mounted
<1>10. CASE AgreedAgain
  BY <1>10 DEF AgreedAgain
<1>11. CASE op_init_partition
  <2>1. pc = "format" /\ ~capturing_msgs
    BY <1>11 DEF op_init_partition
  <2>2. pc' = "report" /\ ~capturing_msgs'
    BY <1>11, <2>1 DEF op_init_partition, Message
  <2>3. UNCHANGED <<present, mounted, list, flags, asking, menu, avoided>>
    BY <1>11 DEF op_init_partition
  <2> QED
    BY <2>1, <2>2, <2>3
<1>12. CASE Reported
  BY <1>12 DEF Reported, Returned
<1>13. CASE Quit
  BY <1>13 DEF Quit
<1> QED
  BY <1>1, <1>2, <1>3, <1>4, <1>5, <1>6, <1>7, <1>8, <1>9, <1>10, <1>11, <1>12,
     <1>13

LEMMA WindowSystem ==
  ASSUME WindowInv, SelectionInv', System
  PROVE  WindowInv'
<1> USE DEF WindowInv, FormatWarned, NothingMountedListed, OnlyPartitionsOverflow,
            ErrorIsAboutTheDevice, Mounts, program, list, flags, pane, capture
<1>1. CASE \E disk \in Disks : Plug(disk) \/ Unplug(disk)
  BY <1>1 DEF Plug, Unplug
<1>2. CASE \E d \in Names : Mount(d) \/ Unmount(d)
  BY <1>2 DEF Mount, Unmount
<1> QED
  BY <1>1, <1>2 DEF System

LEMMA WindowNext == WindowInv /\ [Next]_vars => WindowInv'
<1> SUFFICES ASSUME WindowInv, [Next]_vars PROVE WindowInv'
  OBVIOUS
<1>0. SelectionInv'
  BY SelectionNext DEF WindowInv
<1>1. CASE main_window_realize_cb
  BY <1>0, <1>1, WindowRealize
<1>2. CASE reload_device_list_clicked_cb
  BY <1>0, <1>2, WindowRescan DEF reload_device_list_clicked_cb, flags, WindowInv
<1>3. CASE menu_ignore_mounted_devices_toggled_cb
  BY <1>0, <1>3, WindowRescan DEF menu_ignore_mounted_devices_toggled_cb
<1>4. CASE menu_view_partitions_toggled_cb
  BY <1>0, <1>4, WindowRescan DEF menu_view_partitions_toggled_cb, Flip, WindowInv
<1>5. CASE \/ Select \/ reload_device_clicked_cb \/ LoadDevice \/ LoadNothing
           \/ ErrorClosed \/ InitAsked \/ Refused \/ Agreed \/ is_device_mounted
           \/ AgreedAgain \/ op_init_partition \/ Reported \/ Quit
  BY <1>0, <1>5, WindowHandlers
<1>6. CASE System
  BY <1>0, <1>6, WindowSystem
<1>7. CASE UNCHANGED vars
  BY <1>0, <1>7
     DEF vars, system, list, flags, pane, capture, asking, WindowInv, FormatWarned,
         NothingMountedListed, OnlyPartitionsOverflow, ErrorIsAboutTheDevice, Mounts
<1> QED
  BY <1>1, <1>2, <1>3, <1>4, <1>5, <1>6, <1>7 DEF Next, Handlers

LEMMA WindowAlways == Spec => []WindowInv
  BY WindowInit, WindowNext, PTL DEF Spec

\* No mounted file system is overwritten after one question only.
THEOREM FormatsWithWarning == Spec => []FormatWarned
<1>1. WindowInv => FormatWarned
  BY DEF WindowInv
<1> QED
  BY <1>1, WindowAlways, PTL

\* The list keeps what is mounted out.
THEOREM KeepsMountedOut == Spec => []NothingMountedListed
<1>1. WindowInv => NothingMountedListed
  BY DEF WindowInv
<1> QED
  BY <1>1, WindowAlways, PTL

\* The pane follows what is open.
THEOREM PaneFollows == Spec => []PaneShowsOpen
<1>1. WindowInv => PaneShowsOpen
  BY DEF WindowInv, PaneShowsOpen
<1> QED
  BY <1>1, WindowAlways, PTL

\* Only the kernel's list is too long.
THEOREM GlobFits == Spec => []OnlyPartitionsOverflow
<1>1. WindowInv => OnlyPartitionsOverflow
  BY DEF WindowInv
<1> QED
  BY <1>1, WindowAlways, PTL

\* The messages of one load do not get into the error of another.
THEOREM ErrorsAreAboutTheDevice == Spec => []ErrorIsAboutTheDevice
<1>1. WindowInv => ErrorIsAboutTheDevice
  BY DEF WindowInv
<1> QED
  BY <1>1, WindowAlways, PTL

\* The capture of main_window_realize_cb ends with the load inside it.
THEOREM CapturesEnd == Spec => []NothingSwallowed
<1>1. WindowInv => NothingSwallowed
  BY DEF WindowInv, NothingSwallowed, Dialogs
<1> QED
  BY <1>1, WindowAlways, PTL

-----------------------------------------------------------------------------
(* The selection is carried over by name.                                  *)

LEMMA CarriedOver ==
  ASSUME NEW new, IsList(new), NEW def, wbfs # None, active > 0,
         NEW i \in DOMAIN new, new[i] = dev[active]
  PROVE  new[NewSelection(new, def)] = dev[active]
<1>1. PICK n \in 0 .. MaxDevices : new \in [1 .. n -> Names]
  BY DEF IsList
<1> DEFINE j == get_device_id(new, dev[active])
<1>2. j \in DOMAIN new /\ new[j] = dev[active]
  BY DEF get_device_id
<1>3. j > 0
  BY <1>1, <1>2
<1>4. active # 0
  OBVIOUS
<1>5. NewSelection(new, def) = j
  BY <1>3, <1>4 DEF NewSelection
<1> QED
  BY <1>2, <1>5

\* A list that is filled again with the device that was selected in it has
\* that device selected, as long as one is open.
THEOREM SelectionIsKept == Spec => SelectionSurvives
<1> DEFINE Survives == dev' # dev /\ wbfs # None /\ active > 0
                       /\ (\E i \in DOMAIN dev' : dev'[i] = dev[active])
                         => dev'[active'] = dev[active]
<1>1. WindowInv /\ [Next]_vars => Survives
  <2> SUFFICES ASSUME WindowInv, [Next]_vars, dev' # dev, wbfs # None, active > 0,
                      NEW i \in DOMAIN dev', dev'[i] = dev[active]
               PROVE  dev'[active'] = dev[active]
    OBVIOUS
  <2>1. TypeOK /\ list_partitions' \in BOOLEAN /\ ignore_mounted_devices' \in BOOLEAN
    <3>1. SelectionInv'
      BY SelectionNext DEF WindowInv
    <3> QED
      BY <3>1 DEF WindowInv, SelectionInv, TypeOK
  <2>2. PICK def, next : Lists(def, next)
    <3>1. CASE main_window_realize_cb
      BY <3>1 DEF WindowInv, SelectionInv, main_window_realize_cb
    <3>2. CASE Rescan
      BY <3>2 DEF Rescan
    <3>3. ~(\/ Select \/ reload_device_clicked_cb \/ LoadDevice \/ LoadNothing
            \/ ErrorClosed \/ InitAsked \/ Refused \/ Agreed \/ is_device_mounted
            \/ AgreedAgain \/ op_init_partition \/ Reported \/ Quit)
      BY DEF Select, reload_device_clicked_cb, LoadDevice, LoadNothing, ErrorClosed,
             InitAsked, Refused, Agreed, is_device_mounted, AgreedAgain,
             op_init_partition, Reported, Quit, list
    <3>4. ~System /\ ~UNCHANGED vars
      BY DEF System, Plug, Unplug, Mount, Unmount, program, list, vars
    <3> QED
      BY <3>1, <3>2, <3>3, <3>4
         DEF Next, Handlers, reload_device_list_clicked_cb,
             menu_ignore_mounted_devices_toggled_cb, menu_view_partitions_toggled_cb
  <2>3. IsList(dev') /\ active' = NewSelection(dev', def)
    <3>1. ~UNCHANGED <<list, avoided>>
      BY DEF list
    <3> QED
      BY <2>1, <2>2, <3>1, Listing
  <2>4. \A new : IsList(new) /\ i \in DOMAIN new /\ new[i] = dev[active]
                  => new[NewSelection(new, def)] = dev[active]
    BY CarriedOver
  <2>5. dev'[NewSelection(dev', def)] = dev[active]
    BY <2>3, <2>4
  <2> QED
    BY <2>3, <2>5
<1>2. Spec => [][WindowInv /\ Survives]_vars
  BY <1>1, WindowAlways, PTL DEF Spec
<1> QED
  BY <1>2, PTL DEF SelectionSurvives

=============================================================================
