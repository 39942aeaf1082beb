----------------------------- MODULE WbfsProofs -----------------------------
(***************************************************************************)
(* Proofs, for every partition size and every set of images, of the type   *)
(* invariant of Wbfs and of the safety properties of WbfsProps.            *)
(***************************************************************************)
EXTENDS WbfsProps, FiniteSetTheorems, TLAPS

-----------------------------------------------------------------------------
(* Facts about the helpers.                                                *)

\* The number of discs that wbfs_count_discs counts is a natural number.
LEMMA TableCount ==
  ASSUME NEW T \in SUBSET Slots
  PROVE  Cardinality(T) \in Nat
<1>1. IsFiniteSet(Slots)
  BY SizesAreNat, FS_Interval DEF Slots
<1> QED
  BY <1>1, FS_Subset, FS_CardinalityType

\* Blank, the cleared disc_info, is a disc_info.
LEMMA BlankIsInfo == Blank \in Info
  BY DEF Blank, Info, NoBlocks

\* The header of an image is a disc_info with no blocks yet.
LEMMA HeaderIsInfo ==
  ASSUME NEW d \in Discs
  PROVE  Header(d) \in Info
  BY ImagesAreTyped DEF Header, Info, NoBlocks

\* The blocks of a disc_info are blocks of the partition.
LEMMA OwnedAreBlocks ==
  ASSUME NEW di \in Info
  PROVE  Owned(di) \subseteq Blocks
  BY DEF Owned, Info

\* A search that counts up finds only members of the set it searches.
LEMMA LowestIsMember ==
  ASSUME NEW S
  PROVE  Lowest(S) \subseteq S
  BY DEF Lowest

-----------------------------------------------------------------------------
(* Types.                                                                  *)

\* Every variable begins with its type.
LEMMA TypeInit == Init => TypeOK
<1> SUFFICES ASSUME Init PROVE TypeOK
  OBVIOUS
<1>1. 0 \in Slots
  BY SizesAreNat DEF Slots
<1>2. hdInfo \in [Slots -> Info] /\ hdData \in [Blocks -> Content \cup {Junk}]
  BY BlankIsInfo DEF Init
<1>3. out \in [Secs -> Content \cup {Junk, Hole}] /\ info \in Info /\ slot \in Slots
  BY <1>1, BlankIsInfo DEF Init, NoOutput
<1>4. {mounted, loaded, hdMagic, cancelled} \subseteq BOOLEAN
  BY DEF Init
<1> QED
  BY <1>2, <1>3, <1>4 DEF Init, TypeOK

\* The locals have their types once an operation is over.
LEMMA EndJobTypes ==
  ASSUME EndJob
  PROVE  /\ job' = "none"
         /\ measured' = NoDisc
         /\ slot' \in Slots
         /\ info' \in Info
         /\ todo' \subseteq Secs
         /\ out' \in [Secs -> Content \cup {Junk, Hole}]
<1>1. 0 \in Slots
  BY SizesAreNat DEF Slots
<1> QED
  BY <1>1, BlankIsInfo DEF EndJob, NoOutput

\* So does the listing when it begins.
LEMMA StartListingTypes ==
  ASSUME NEW T \in SUBSET Slots, StartListing(T)
  PROVE  /\ pc' = "list"
         /\ idx' \in Nat
         /\ count' \in Nat
         /\ listed' \subseteq Discs \cup {NoDisc}
  BY TableCount DEF StartListing

\* The cancel flag is a Boolean whatever the user does.
LEMMA ClicksAreBoolean == Clicks \subseteq BOOLEAN
  BY DEF Clicks

\* What is recorded in fault is one of the three events.
LEMMA BlameTypes ==
  ASSUME fault \subseteq {"dropped", "revived", "torn"},
         NEW P, NEW w \in {"dropped", "revived", "torn"}, Blame(P, w)
  PROVE  fault' \subseteq {"dropped", "revived", "torn"}
  BY DEF Blame

\* What the program opens after the question is an image.
LEMMA OpenedAreImages ==
  ASSUME TypeOK, pc = "confirm"
  PROVE  Opened(measured) \subseteq Discs
  BY SwitchesAreBoolean DEF Opened, TypeOK

\* Every step of the program and of the user keeps the types.
LEMMA TypeNext == TypeOK /\ [Next]_vars => TypeOK'
<1> SUFFICES ASSUME TypeOK, [Next]_vars PROVE TypeOK'
  OBVIOUS
<1> USE DEF device, memory, locals, listing
<1>1. CASE SyncHead
  <2>1. fault' \subseteq {"dropped", "revived", "torn"}
    BY <1>1, BlameTypes DEF SyncHead, TypeOK
  <2> QED
    BY <1>1, <2>1 DEF SyncHead, TypeOK, Landings
<1>2. CASE SyncFree
  <2>1. fault' \subseteq {"dropped", "revived", "torn"}
    BY <1>2, BlameTypes DEF SyncFree, TypeOK
  <2>2. hdFree' \subseteq Blocks
    BY <1>2 DEF SyncFree, SyncedFree, TypeOK
  <2>3. CASE job \in {"load", "format"}
    <3>1. {mounted', loaded', cancelled'} \subseteq BOOLEAN
      BY <1>2, <2>3 DEF SyncFree, TypeOK
    <3>2. table' = {} /\ free' = {} /\ nOpen' = 0 /\ pc' \in {"open", "format"}
      BY <1>2, <2>3 DEF SyncFree
    <3>3. UNCHANGED <<hdMagic, hdTable, hdInfo, hdData, locals, listing>>
      BY <1>2, <2>3 DEF SyncFree
    <3> QED
      BY <2>1, <2>2, <3>1, <3>2, <3>3 DEF TypeOK
  <2>4. CASE job = "reset"
    BY <1>2, <2>1, <2>2, <2>4 DEF SyncFree, TypeOK
  <2>5. CASE job \notin {"load", "format", "reset"}
    <3>1. EndJob /\ StartListing(table) /\ UNCHANGED memory
      BY <1>2, <2>5 DEF SyncFree
    <3> QED
      BY <1>2, <2>1, <2>2, <3>1, EndJobTypes, StartListingTypes DEF SyncFree, TypeOK
  <2> QED
    BY <2>3, <2>4, <2>5
<1>3. CASE LoadDevice
  BY <1>3 DEF LoadDevice, TypeOK
<1>4. CASE OpenPartition
  <2>1. EndJob /\ StartListing(hdTable) /\ hdTable \in SUBSET Slots
    BY <1>4 DEF OpenPartition, TypeOK
  <2>2. mounted' \in BOOLEAN /\ loaded' \in BOOLEAN
    BY <1>4 DEF OpenPartition
  <2> QED
    BY <1>4, <2>1, <2>2, EndJobTypes, StartListingTypes DEF OpenPartition, TypeOK
<1>5. CASE OpenFails
  BY <1>5, EndJobTypes DEF OpenFails, TypeOK
<1>6. CASE InitPartition
  BY <1>6 DEF InitPartition, TypeOK
<1>7. CASE FormatPartition
  BY <1>7 DEF FormatPartition, TypeOK
<1>8. CASE GetDiscInfo
  <2>1. \A s \in table : hdInfo[s].id \in Discs \cup {NoDisc}
    BY DEF TypeOK, Info
  <2>2. listed' \subseteq Discs \cup {NoDisc}
    BY <1>8, <2>1 DEF GetDiscInfo, NextIndex, NthDisc, TypeOK
  <2>3. table' \subseteq Slots /\ idx' \in Nat
    BY <1>8 DEF GetDiscInfo, NextIndex, TypeOK
  <2> QED
    BY <1>8, <2>2, <2>3 DEF GetDiscInfo, NextIndex, TypeOK
<1>9. CASE ListingDone
  BY <1>9 DEF ListingDone, LoadFreeBlocks, LoadedFree, TypeOK
<1>10. ASSUME NEW d \in Discs, ConfirmAdd(d) PROVE TypeOK'
  <2>1. measured' \in Discs \cup {NoDisc} /\ (measured' \in Discs \/ AllowSwap)
    BY <1>10, SwitchesAreBoolean DEF ConfirmAdd, Measured, Opened
  <2> QED
    BY <1>10, <2>1 DEF ConfirmAdd, LoadFreeBlocks, LoadedFree, TypeOK
<1>11. CASE DeclineAdd
  BY <1>11, EndJobTypes DEF DeclineAdd, TypeOK
<1>12. CASE AddDisc
  <2>1. PICK d \in Discs : info' = Header(d) /\ todo' = UsedSecs[d]
    BY <1>12, OpenedAreImages DEF AddDisc
  <2>2. cancelled' \in BOOLEAN
    BY <1>12, ClicksAreBoolean DEF AddDisc
  <2>3. info' \in Info /\ info'.id \in Discs /\ todo' \subseteq Secs
    BY <2>1, HeaderIsInfo, ImagesAreTyped DEF Header
  <2> QED
    BY <1>12, <2>2, <2>3, LowestIsMember DEF AddDisc, EmptySlot, TypeOK
<1>13. CASE AddRefused
  <2>1. EndJob /\ StartListing(table) /\ table \in SUBSET Slots
    BY <1>13 DEF AddRefused, TypeOK
  <2> QED
    BY <1>13, <2>1, EndJobTypes, StartListingTypes DEF AddRefused, TypeOK
<1>14. CASE AddBlock
  <2>1. PICK i \in Lowest(todo), b \in FirstFree, lands \in Landings :
          /\ free' = ClearBit(b)
          /\ hdData' = IF lands THEN [hdData EXCEPT ![b] = <<info.id, i>>] ELSE hdData
          /\ info' = [info EXCEPT !.wlba[i] = b]
          /\ todo' = todo \ {i}
          /\ Blame(~lands, "dropped")
    BY <1>14 DEF AddBlock
  <2>2. i \in Secs /\ b \in Blocks
    BY <2>1, LowestIsMember DEF FirstFree, TypeOK
  <2>3. info' \in Info /\ info'.id \in Discs
    BY <1>14, <2>1, <2>2 DEF AddBlock, TypeOK, Info
  <2>4. fault' \subseteq {"dropped", "revived", "torn"}
    BY <2>1, BlameTypes DEF TypeOK
  <2>5. hdData' \in [Blocks -> Content \cup {Junk}]
    BY <1>14, <2>1, <2>2 DEF AddBlock, TypeOK, Content
  <2>6. free' \subseteq Blocks /\ todo' \subseteq Secs
    BY <2>1 DEF ClearBit, TypeOK
  <2>7. pc' \in {"writeInfo", "copy"}
    BY <1>14 DEF AddBlock
  <2>8. cancelled' \in BOOLEAN
    BY <1>14, ClicksAreBoolean DEF AddBlock
  <2> QED
    BY <1>14, <2>3, <2>4, <2>5, <2>6, <2>7, <2>8 DEF AddBlock, TypeOK
<1>15. CASE AddFails
  <2>1. EndJob /\ StartListing(table) /\ table \in SUBSET Slots
    BY <1>15 DEF AddFails, TypeOK
  <2>2. fault' \subseteq {"dropped", "revived", "torn"}
    BY <1>15, BlameTypes DEF AddFails, TypeOK
  <2> QED
    BY <1>15, <2>1, <2>2, EndJobTypes, StartListingTypes DEF AddFails, TypeOK
<1>16. ASSUME NEW d \in Discs, RemoveDisc(d) PROVE TypeOK'
  <2>1. PICK s \in SlotOf(d) : slot' = s /\ free' = SetBits(Owned(hdInfo[s]))
    BY <1>16 DEF RemoveDisc
  <2>2. s \in Slots
    BY <2>1, LowestIsMember DEF SlotOf, Holding, TypeOK
  <2>3. free' \subseteq Blocks
    BY <2>1, <2>2, OwnedAreBlocks DEF SetBits, LoadedFree, TypeOK
  <2> QED
    BY <1>16, <2>1, <2>2, <2>3, BlankIsInfo DEF RemoveDisc, TypeOK
<1>17. ASSUME NEW d \in Discs, NEW m \in Names, RenameDisc(d, m) PROVE TypeOK'
  <2>1. PICK s \in SlotOf(d) : slot' = s /\ info' = [hdInfo[s] EXCEPT !.name = m]
    BY <1>17 DEF RenameDisc
  <2>2. s \in Slots
    BY <2>1, LowestIsMember DEF SlotOf, Holding, TypeOK
  <2>3. info' \in Info
    BY <2>1, <2>2 DEF TypeOK, Info
  <2> QED
    BY <1>17, <2>1, <2>2, <2>3 DEF RenameDisc, TypeOK
<1>18. CASE WriteInfo
  <2>1. fault' \subseteq {"dropped", "revived", "torn"}
    BY <1>18, BlameTypes DEF WriteInfo, TypeOK
  <2>2. hdInfo' \in [Slots -> Info]
    BY <1>18 DEF WriteInfo, TypeOK
  <2> QED
    BY <1>18, <2>1, <2>2 DEF WriteInfo, OpenAfterWrite, TypeOK
<1>19. ASSUME NEW d \in Discs, ExtractDisc(d) PROVE TypeOK'
  <2>1. PICK s \in SlotOf(d) :
          /\ slot' = s
          /\ info' = hdInfo[s]
          /\ todo' = {i \in Secs : hdInfo[s].wlba[i] # 0}
    BY <1>19 DEF ExtractDisc
  <2>2. s \in Slots
    BY <2>1, LowestIsMember DEF SlotOf, Holding, TypeOK
  <2>3. cancelled' \in BOOLEAN
    BY <1>19, ClicksAreBoolean DEF ExtractDisc
  <2> QED
    BY <1>19, <2>1, <2>2, <2>3 DEF ExtractDisc, TypeOK
<1>20. CASE ExtractBlock
  <2>1. PICK i \in Lowest(todo) :
          /\ out' = [out EXCEPT ![i] = hdData[info.wlba[i]]]
          /\ todo' = Remaining(i)
    BY <1>20 DEF ExtractBlock
  <2> QED
    BY <1>20, <2>1, LowestIsMember DEF ExtractBlock, Remaining, TypeOK, Info
<1>21. CASE ExtractEnds
  <2>1. cancelled' \in BOOLEAN
    BY <1>21 DEF ExtractEnds, TypeOK
  <2> QED
    BY <1>21, <2>1, EndJobTypes DEF ExtractEnds, TypeOK
<1>22. CASE Quit \/ FatalRead \/ Crash
  <2>1. ProcessEnds /\ fault' \subseteq {"dropped", "revived", "torn"}
    BY <1>22, BlameTypes DEF Quit, FatalRead, Crash, TypeOK
  <2> QED
    <3>1. {mounted', loaded', cancelled'} \subseteq BOOLEAN
      BY <2>1 DEF ProcessEnds
    <3>2. table' \subseteq Slots /\ free' \subseteq Blocks /\ nOpen' \in Int
      BY <2>1 DEF ProcessEnds
    <3>3. idx' \in Nat /\ count' \in Nat /\ listed' \subseteq Discs \cup {NoDisc}
      BY <2>1 DEF ProcessEnds
    <3>4. pc' = "open" /\ UNCHANGED device
      BY <2>1 DEF ProcessEnds
    <3> QED
      BY <2>1, <3>1, <3>2, <3>3, <3>4, EndJobTypes DEF ProcessEnds, TypeOK
<1>23. CASE UNCHANGED vars
  BY <1>23 DEF vars, TypeOK
<1>24. CASE FormatFails
  BY <1>24 DEF FormatFails, TypeOK
<1>25. CASE DeclineChange
  <2>1. StartListing(table) /\ table \in SUBSET Slots
    BY <1>25 DEF DeclineChange, TypeOK
  <2> QED
    BY <1>25, <2>1, StartListingTypes DEF DeclineChange, TypeOK
<1> QED
  BY <1>1, <1>2, <1>3, <1>4, <1>5, <1>6, <1>7, <1>8, <1>9, <1>10, <1>11, <1>12,
     <1>13, <1>14, <1>15, <1>16, <1>17, <1>18, <1>19, <1>20, <1>21, <1>22, <1>23,
     <1>24, <1>25
  DEF Next, UserStep, Answer, ProgramStep

\* Every variable keeps its type, on partitions of every size.
THEOREM TypeCorrect == Spec => []TypeOK
<1> QED
  BY TypeInit, TypeNext, PTL DEF Spec

-----------------------------------------------------------------------------
(* Control: which program counters an operation passes, what is in memory  *)
(* there, and how many discs it has open.                                  *)

\* The process begins idle, with no disc open.
LEMMA ControlInit == Init => ControlOK /\ OpenCounted
  BY DEF Init, ControlOK, OpenCounted

\* Every step follows the program order of its operation and keeps count of
\* the discs it opened.
LEMMA ControlNext ==
  TypeOK /\ ControlOK /\ OpenCounted /\ [Next]_vars => ControlOK' /\ OpenCounted'
<1> SUFFICES ASSUME TypeOK, ControlOK, OpenCounted, [Next]_vars
             PROVE  ControlOK' /\ OpenCounted'
  OBVIOUS
<1> USE DEF memory, locals, listing
<1>1. CASE SyncHead
  BY <1>1 DEF SyncHead, ControlOK, OpenCounted, TypeOK
<1>2. CASE SyncFree
  BY <1>2 DEF SyncFree, EndJob, StartListing, ControlOK, OpenCounted, TypeOK
<1>3. CASE LoadDevice
  BY <1>3 DEF LoadDevice, ControlOK, OpenCounted, TypeOK
<1>4. CASE OpenPartition
  BY <1>4 DEF OpenPartition, EndJob, StartListing, ControlOK, OpenCounted, TypeOK
<1>5. CASE OpenFails
  BY <1>5 DEF OpenFails, EndJob, ControlOK, OpenCounted, TypeOK
<1>6. CASE InitPartition
  BY <1>6 DEF InitPartition, ControlOK, OpenCounted, TypeOK
<1>7. CASE FormatPartition
  BY <1>7 DEF FormatPartition, ControlOK, OpenCounted, TypeOK
<1>8. CASE GetDiscInfo
  BY <1>8 DEF GetDiscInfo, NextIndex, ControlOK, OpenCounted, TypeOK
<1>9. CASE ListingDone
  BY <1>9 DEF ListingDone, LoadFreeBlocks, ControlOK, OpenCounted, TypeOK
<1>10. ASSUME NEW d \in Discs, ConfirmAdd(d) PROVE ControlOK' /\ OpenCounted'
  BY <1>10 DEF ConfirmAdd, LoadFreeBlocks, ControlOK, OpenCounted, TypeOK
<1>11. CASE DeclineAdd
  BY <1>11 DEF DeclineAdd, EndJob, ControlOK, OpenCounted, TypeOK
<1>12. CASE AddDisc
  BY <1>12 DEF AddDisc, EmptySlot, ControlOK, OpenCounted, TypeOK
<1>13. CASE AddRefused
  BY <1>13 DEF AddRefused, EndJob, StartListing, ControlOK, OpenCounted, TypeOK
<1>14. CASE AddBlock
  BY <1>14 DEF AddBlock, ControlOK, OpenCounted, TypeOK
<1>15. CASE AddFails
  BY <1>15 DEF AddFails, EndJob, StartListing, ControlOK, OpenCounted, TypeOK
<1>16. ASSUME NEW d \in Discs, RemoveDisc(d) PROVE ControlOK' /\ OpenCounted'
  BY <1>16 DEF RemoveDisc, SlotOf, ControlOK, OpenCounted, TypeOK
<1>17. ASSUME NEW d \in Discs, NEW m \in Names, RenameDisc(d, m) PROVE ControlOK' /\ OpenCounted'
  BY <1>17 DEF RenameDisc, ControlOK, OpenCounted, TypeOK
<1>18. CASE WriteInfo
  BY <1>18 DEF WriteInfo, OpenAfterWrite, ControlOK, OpenCounted, TypeOK
<1>19. ASSUME NEW d \in Discs, ExtractDisc(d) PROVE ControlOK' /\ OpenCounted'
  BY <1>19 DEF ExtractDisc, ControlOK, OpenCounted, TypeOK
<1>20. CASE ExtractBlock
  BY <1>20 DEF ExtractBlock, ControlOK, OpenCounted, TypeOK
<1>21. CASE ExtractEnds
  BY <1>21 DEF ExtractEnds, EndJob, ControlOK, OpenCounted, TypeOK
<1>22. CASE Quit
  BY <1>22 DEF Quit, ProcessEnds, EndJob, ControlOK, OpenCounted, TypeOK
<1>23. CASE Crash
  BY <1>23 DEF Crash, ProcessEnds, EndJob, ControlOK, OpenCounted, TypeOK
<1>24. CASE UNCHANGED vars
  BY <1>24 DEF vars, ControlOK, OpenCounted
<1>25. CASE FormatFails
  BY <1>25 DEF FormatFails, ControlOK, OpenCounted, TypeOK
<1>26. CASE FatalRead
  BY <1>26 DEF FatalRead, ProcessEnds, EndJob, ControlOK, OpenCounted, TypeOK
<1>27. CASE DeclineChange
  BY <1>27 DEF DeclineChange, StartListing, ControlOK, OpenCounted, TypeOK
<1> QED
  BY <1>1, <1>2, <1>3, <1>4, <1>5, <1>6, <1>7, <1>8, <1>9, <1>10, <1>11, <1>12,
     <1>13, <1>14, <1>15, <1>16, <1>17, <1>18, <1>19, <1>20, <1>21, <1>22, <1>23,
     <1>24, <1>25, <1>26, <1>27
  DEF Next, UserStep, Answer, ProgramStep

-----------------------------------------------------------------------------
(* Whole discs and their blocks.                                           *)

\* Two discs of an intact set share no block, nor does one use a block twice:
\* a block says which part of which disc it holds.
LEMMA BlocksApart ==
  ASSUME NEW S, NEW infos, NEW data, Intact(S, infos, data),
         NEW s \in S, NEW t \in S, NEW i \in Secs, NEW j \in Secs,
         infos[s].wlba[i] # 0, infos[s].wlba[i] = infos[t].wlba[j]
  PROVE  s = t /\ i = j
<1>1. data[infos[s].wlba[i]] = <<infos[s].id, i>>
  BY DEF Intact, Whole
<1>2. data[infos[t].wlba[j]] = <<infos[t].id, j>>
  BY DEF Intact, Whole
<1> QED
  BY <1>1, <1>2 DEF Intact

\* Writing a block that belongs to none of the discs leaves them intact.
LEMMA IntactAfterData ==
  ASSUME NEW S, NEW infos, NEW data \in [Blocks -> Content \cup {Junk}],
         NEW v, NEW b \in Blocks,
         Intact(S, infos, data),
         \A s \in S : infos[s] \in Info /\ b \notin Owned(infos[s])
  PROVE  Intact(S, infos, [data EXCEPT ![b] = v])
<1> DEFINE after == [data EXCEPT ![b] = v]
<1>1. ASSUME NEW s \in S, NEW i \in Secs, infos[s].wlba[i] # 0
      PROVE  after[infos[s].wlba[i]] = data[infos[s].wlba[i]]
  <2>1. infos[s].wlba[i] \in Blocks /\ infos[s].wlba[i] # b
    BY <1>1 DEF Owned, Info
  <2> QED
    BY <2>1
<1> SUFFICES Intact(S, infos, after)
  OBVIOUS
<1> HIDE DEF after
<1> QED
  BY <1>1 DEF Intact, Whole

\* A whole disc with an id of its own joins an intact set.
LEMMA IntactWithNew ==
  ASSUME NEW S \in SUBSET Slots, NEW infos \in [Slots -> Info], NEW data,
         NEW t \in Slots \ S, NEW di \in Info,
         Intact(S, infos, data), Whole(di, data),
         \A s \in S : infos[s].id # di.id
  PROVE  Intact(S \cup {t}, [infos EXCEPT ![t] = di], data)
<1> DEFINE after == [infos EXCEPT ![t] = di]
<1>1. \A s \in S : after[s] = infos[s]
  OBVIOUS
<1>2. after[t] = di
  OBVIOUS
<1> HIDE DEF after
<1> QED
  BY <1>1, <1>2 DEF Intact

\* A disc_info outside an intact set may change.
LEMMA IntactElsewhere ==
  ASSUME NEW S \in SUBSET Slots, NEW infos \in [Slots -> Info], NEW data,
         NEW t \in Slots \ S, NEW di, Intact(S, infos, data)
  PROVE  Intact(S, [infos EXCEPT ![t] = di], data)
<1> DEFINE after == [infos EXCEPT ![t] = di]
<1>1. \A s \in S : after[s] = infos[s]
  OBVIOUS
<1> HIDE DEF after
<1> QED
  BY <1>1 DEF Intact

\* Retitling a disc of an intact set leaves it intact.
LEMMA IntactRetitled ==
  ASSUME NEW S \in SUBSET Slots, NEW infos \in [Slots -> Info], NEW data,
         NEW t \in Slots, NEW m, Intact(S, infos, data)
  PROVE  Intact(S, [infos EXCEPT ![t] = [infos[t] EXCEPT !.name = m]], data)
<1> DEFINE after == [infos EXCEPT ![t] = [infos[t] EXCEPT !.name = m]]
<1>1. \A s \in Slots : after[s].id = infos[s].id /\ after[s].wlba = infos[s].wlba
  BY DEF Info
<1> SUFFICES Intact(S, after, data)
  OBVIOUS
<1> HIDE DEF after
<1>2. ASSUME NEW s \in S PROVE Whole(after[s], data)
  <2>1. Whole(infos[s], data) /\ s \in Slots
    BY DEF Intact
  <2> QED
    BY <1>1, <2>1 DEF Whole
<1>3. \A s, u \in S : after[s].id = after[u].id => s = u
  BY <1>1 DEF Intact
<1> QED
  BY <1>2, <1>3 DEF Intact

\* A part of an intact set is intact.
LEMMA IntactPart ==
  ASSUME NEW S, NEW infos, NEW data, NEW T \in SUBSET S, Intact(S, infos, data)
  PROVE  Intact(T, infos, data)
  BY DEF Intact

-----------------------------------------------------------------------------
(* Integrity: the discs, in memory and on the device.                      *)

\* An empty partition is sound.
LEMMA IntegrityInit == Init => Integrity
<1> SUFFICES ASSUME Init PROVE Integrity
  OBVIOUS
<1>1. Live = {} /\ Durable = {}
  BY DEF Init, Live, Durable
<1>2. InfosTyped
  BY ImagesAreTyped, MarkersAreNew DEF Init, InfosTyped, Blank
<1> QED
  BY <1>1, <1>2
  DEF Init, Integrity, DiscsSound, Intact, NoneFree, CopySound, WriteSound,
      ExtractSound, ViewsAgree, ListHolds

\* A step that writes nothing, loses discs at most, and frees no block, keeps
\* the discs sound.
LEMMA DiscsKept ==
  ASSUME DiscsSound, UNCHANGED device, Live' \subseteq Live,
         Live' = {} \/ LoadedFree' \subseteq LoadedFree, ~HalfSynced
  PROVE  DiscsSound'
<1>1. Durable' = Durable /\ InfosTyped'
  BY DEF device, Durable, DiscsSound, InfosTyped
<1>2. Intact(Live', hdInfo, hdData) /\ NoneFree(Live', hdInfo, LoadedFree')
  BY DEF DiscsSound, Intact, NoneFree
<1> QED
  BY <1>1, <1>2 DEF DiscsSound, device, Intact, NoneFree

\* Every step that records no fault keeps the discs sound, in memory and on
\* the device.
LEMMA IntegrityNext ==
  ASSUME TypeOK, ControlOK, OpenCounted, Integrity, [Next]_vars,
         TypeOK', ControlOK', OpenCounted', fault' = {}, fault = {}
  PROVE  Integrity'
<1> USE DEF memory, locals, listing
<1>1. CASE SyncHead
  <2>1. hdTable' = table /\ job' = job /\ slot' = slot /\ table' = table
    BY <1>1 DEF SyncHead, Blame
  <2>2. Live' = Live /\ Durable' = Live /\ LoadedFree' = LoadedFree
    BY <1>1, <2>1 DEF SyncHead, Live, Durable, Underway, LoadedFree
  <2>3. HalfSynced' \/ NoneFree(Live, hdInfo, hdFree)
    <3>1. CASE job = "add"
      BY <1>1, <2>1, <3>1 DEF SyncHead, HalfSynced, ControlOK
    <3>2. CASE job = "reset"
      BY <3>2 DEF ControlOK, Live, NoneFree
    <3>3. CASE job \notin {"add", "reset"}
      <4>1. Live \subseteq Durable
        BY <1>1, <3>3 DEF SyncHead, Integrity, ViewsAgree, ControlOK
      <4> QED
        BY <3>3, <4>1 DEF Integrity, DiscsSound, HalfSynced, NoneFree
    <3> QED
      BY <3>1, <3>2, <3>3
  <2>4. DiscsSound'
    BY <1>1, <2>2, <2>3
    DEF SyncHead, Integrity, DiscsSound, InfosTyped, Intact, NoneFree
  <2>5. ViewsAgree'
    BY <1>1, <2>1, <2>2 DEF SyncHead, ViewsAgree, ControlOK
  <2> QED
    BY <1>1, <2>4, <2>5
    DEF SyncHead, Integrity, CopySound, WriteSound, ExtractSound, ListHolds
<1>2. CASE SyncFree
  <2>1. hdFree' = SyncedFree /\ UNCHANGED <<hdTable, hdInfo, hdData>>
    BY <1>2 DEF SyncFree, Blame
  <2>2. Durable' = Durable /\ Live \subseteq Durable /\ Durable \subseteq Live
    BY <1>2, <2>1 DEF SyncFree, Durable, Integrity, ViewsAgree, ControlOK
  <2>3. NoneFree(Durable, hdInfo, hdFree')
    <3>1. CASE loaded
      BY <2>1, <2>2, <3>1
      DEF Integrity, DiscsSound, SyncedFree, LoadedFree, NoneFree
    <3>2. CASE ~loaded
      BY <2>1, <3>2 DEF Integrity, DiscsSound, SyncedFree, HalfSynced, ControlOK
    <3> QED
      BY <3>1, <3>2
  <2>4. CASE job \in {"load", "format"}
    <3>1. Live' = {} /\ pc' \in {"open", "format"} /\ mounted' = FALSE /\ job' = job
      BY <1>2, <2>4 DEF SyncFree, Live
    <3>2. DiscsSound'
      BY <2>1, <2>2, <2>3, <3>1
      DEF Integrity, DiscsSound, InfosTyped, Intact, NoneFree
    <3> QED
      BY <2>4, <3>1, <3>2
      DEF Integrity, CopySound, WriteSound, ExtractSound, ViewsAgree, ListHolds
  <2>5. CASE job \notin {"load", "format"}
    <3>1. /\ UNCHANGED memory
          /\ \/ pc' = "syncHead" /\ job' = "load"
             \/ pc' = "list" /\ job' = "none" /\ listed' = {}
      BY <1>2, <2>5 DEF SyncFree, EndJob, StartListing
    <3>2. Live' = Live
      BY <1>2, <2>1, <3>1 DEF SyncFree, Live, Underway
    <3>3. NoneFree(Live, hdInfo, LoadedFree')
      BY <2>1, <2>2, <2>3, <3>1 DEF Integrity, DiscsSound, LoadedFree, NoneFree, SyncedFree
    <3>4. DiscsSound'
      BY <2>1, <2>2, <2>3, <3>2, <3>3
      DEF Integrity, DiscsSound, InfosTyped, Intact, NoneFree
    <3> QED
      BY <2>1, <2>2, <3>1, <3>2, <3>4
      DEF Integrity, CopySound, WriteSound, ExtractSound, ViewsAgree, ListHolds
  <2> QED
    BY <2>4, <2>5
<1>3. CASE LoadDevice \/ InitPartition
  <2>1. /\ UNCHANGED device /\ UNCHANGED memory /\ pc = "idle"
        /\ job' \in {"load", "format"} /\ pc' \in {"syncHead", "open", "format"}
    BY <1>3 DEF LoadDevice, InitPartition
  <2>2. Live' = Live /\ Durable' = Durable /\ LoadedFree' = LoadedFree
    BY <2>1 DEF Live, Durable, Underway, LoadedFree, device
  <2>3. DiscsSound'
    BY <2>1, <2>2, DiscsKept DEF Integrity, HalfSynced
  <2> QED
    BY <2>1, <2>2, <2>3
    DEF Integrity, CopySound, WriteSound, ExtractSound, ViewsAgree, ListHolds
<1>4. CASE OpenPartition
  <2>1. /\ UNCHANGED device /\ pc' = "list" /\ job' = "none" /\ listed' = {}
        /\ table' = hdTable /\ loaded' = FALSE
    BY <1>4 DEF OpenPartition, EndJob, StartListing
  <2>2. Live' = Durable /\ Durable' = Durable /\ LoadedFree' = hdFree
    BY <2>1 DEF Live, Durable, Underway, LoadedFree, device
  <2>3. ~HalfSynced
    BY <1>4 DEF OpenPartition, HalfSynced
  <2>4. DiscsSound'
    BY <2>1, <2>2, <2>3
    DEF Integrity, DiscsSound, InfosTyped, Intact, NoneFree, device
  <2> QED
    BY <2>1, <2>2, <2>4
    DEF Integrity, CopySound, WriteSound, ExtractSound, ViewsAgree, ListHolds
<1>5. CASE OpenFails
  <2>1. /\ UNCHANGED device /\ UNCHANGED memory /\ pc = "open" /\ pc' = "idle"
        /\ job' = "none"
    BY <1>5 DEF OpenFails, EndJob
  <2>2. ~mounted /\ ~mounted' /\ Live' = {}
    BY <2>1 DEF ControlOK, Live
  <2>3. DiscsSound'
    BY <2>1, <2>2, DiscsKept DEF Integrity, HalfSynced
  <2> QED
    BY <2>1, <2>2, <2>3
    DEF Integrity, CopySound, WriteSound, ExtractSound, ViewsAgree, ListHolds
<1>6. CASE FormatPartition
  <2>1. /\ UNCHANGED device /\ table' = {} /\ pc = "format" /\ pc' = "syncHead"
        /\ job' = "reset"
    BY <1>6 DEF FormatPartition
  <2>2. Live' = {}
    BY <2>1 DEF Live
  <2>3. DiscsSound'
    BY <2>1, <2>2, DiscsKept DEF Integrity, HalfSynced
  <2> QED
    BY <2>1, <2>3
    DEF Integrity, CopySound, WriteSound, ExtractSound, ViewsAgree, ListHolds
<1>7. CASE GetDiscInfo
  <2> DEFINE bad == {s \in NthDisc(idx) : ~MagicAt(s)}
  <2>1. /\ UNCHANGED device /\ UNCHANGED <<mounted, free, loaded, pc, locals>>
        /\ pc = "list" /\ table' = table \ bad
        /\ listed' = listed \cup {hdInfo[s].id : s \in NthDisc(idx) \ bad}
    BY <1>7 DEF GetDiscInfo, NextIndex
  <2>2. bad \subseteq {s \in table : ~hdInfo[s].magic} /\ NthDisc(idx) \subseteq table
    BY DEF NthDisc, MagicAt
  <2>3. Live' = Live /\ Durable' = Durable /\ LoadedFree' = LoadedFree
    BY <2>1, <2>2 DEF Live, Durable, Underway, LoadedFree, device
  <2>4. DiscsSound'
    BY <2>1, <2>3, DiscsKept DEF Integrity, HalfSynced
  <2>5. NthDisc(idx) \ bad \subseteq Live
    BY <2>1, <2>2 DEF Live, Underway, MagicAt
  <2>6. {hdInfo[s].id : s \in NthDisc(idx) \ bad} \subseteq Ids(Live) \cap WiiDiscs
    BY <2>2, <2>5 DEF Ids, Live, Integrity, DiscsSound, InfosTyped, TypeOK
  <2>7. ListHolds'
    BY <2>1, <2>3, <2>6 DEF Integrity, ListHolds, Ids, device
  <2> QED
    BY <2>1, <2>3, <2>4, <2>7
    DEF Integrity, CopySound, WriteSound, ExtractSound, ViewsAgree
<1>8. ASSUME ListingDone \/ (\E d \in Discs : ConfirmAdd(d))
      PROVE  Integrity'
  <2>1. /\ UNCHANGED device /\ UNCHANGED <<mounted, table, job, slot, listed>>
        /\ LoadFreeBlocks /\ pc \in {"list", "idle"} /\ pc' \in {"idle", "confirm"}
    BY <1>8 DEF ListingDone, ConfirmAdd
  <2>2. Live' = Live /\ Durable' = Durable /\ LoadedFree' = LoadedFree
    BY <2>1 DEF Live, Durable, Underway, LoadedFree, LoadFreeBlocks, device
  <2>3. DiscsSound'
    BY <2>1, <2>2, DiscsKept DEF Integrity, HalfSynced
  <2> QED
    BY <2>1, <2>2, <2>3
    DEF Integrity, CopySound, WriteSound, ExtractSound, ViewsAgree, ListHolds,
        Ids, device
<1>9. CASE DeclineAdd
  <2>1. /\ UNCHANGED device /\ UNCHANGED memory /\ UNCHANGED listing
        /\ pc = "confirm" /\ pc' = "idle" /\ job' = "none"
    BY <1>9 DEF DeclineAdd, EndJob
  <2>2. Live' = Live /\ Durable' = Durable /\ LoadedFree' = LoadedFree
    BY <2>1 DEF Live, Durable, Underway, LoadedFree, device
  <2>3. DiscsSound'
    BY <2>1, <2>2, DiscsKept DEF Integrity, HalfSynced
  <2> QED
    BY <2>1, <2>2, <2>3
    DEF Integrity, CopySound, WriteSound, ExtractSound, ViewsAgree, ListHolds,
        Ids, device, ControlOK
<1>10. CASE AddDisc
  <2>1. PICK s \in EmptySlot : table' = table \cup {s} /\ slot' = s
    BY <1>10 DEF AddDisc
  <2>2. /\ UNCHANGED device /\ UNCHANGED <<mounted, free, loaded>>
        /\ pc = "confirm" /\ pc' = "copy" /\ job' = "add"
    BY <1>10 DEF AddDisc
  <2>9. PICK d \in Discs : info' = Header(d) /\ todo' = UsedSecs[d] /\ Holding(d) = {}
    BY <1>10, OpenedAreImages DEF AddDisc, IsNew
  <2>3. s \in Slots /\ s \notin table
    BY <2>1, LowestIsMember DEF EmptySlot
  <2>4. Live' = Live /\ Durable' = Durable /\ LoadedFree' = LoadedFree
    BY <2>1, <2>2, <2>3 DEF Live, Durable, Underway, LoadedFree, device
  <2>5. DiscsSound'
    BY <2>2, <2>4, DiscsKept DEF Integrity, HalfSynced
  <2>6. /\ info'.id = d /\ info'.name = IsoName[d]
        /\ info'.magic <=> d \in WiiDiscs
        /\ \A i \in Secs : info'.wlba[i] = 0
    BY <2>9, ImagesAreTyped DEF Header, NoBlocks
  <2>7. d \notin Ids(Live)
    BY <2>9 DEF Ids, Live, Holding
  <2>8. CopySound'
    BY <2>2, <2>9, <2>4, <2>6, <2>7 DEF CopySound, PartCopied, Ids, device
  <2> QED
    BY <2>2, <2>4, <2>5, <2>8
    DEF Integrity, WriteSound, ExtractSound, ViewsAgree, ListHolds
<1>11. CASE AddRefused
  <2>1. /\ UNCHANGED device /\ UNCHANGED memory
        /\ pc = "confirm" /\ pc' = "list" /\ job' = "none" /\ listed' = {}
    BY <1>11 DEF AddRefused, EndJob, StartListing
  <2>2. Live' = Live /\ Durable' = Durable /\ LoadedFree' = LoadedFree
    BY <2>1 DEF Live, Durable, Underway, LoadedFree, device
  <2>3. DiscsSound'
    BY <2>1, <2>2, DiscsKept DEF Integrity, HalfSynced
  <2> QED
    BY <2>1, <2>2, <2>3
    DEF Integrity, CopySound, WriteSound, ExtractSound, ViewsAgree, ListHolds,
        ControlOK
<1>12. CASE AddBlock
  <2>1. PICK i \in Lowest(todo), b \in FirstFree, lands \in Landings :
          /\ free' = ClearBit(b)
          /\ hdData' = IF lands THEN [hdData EXCEPT ![b] = <<info.id, i>>] ELSE hdData
          /\ info' = [info EXCEPT !.wlba[i] = b]
          /\ todo' = todo \ {i}
          /\ Blame(~lands, "dropped")
    BY <1>12 DEF AddBlock
  <2>2. /\ UNCHANGED <<hdMagic, hdTable, hdFree, hdInfo>>
        /\ UNCHANGED <<mounted, table, loaded, job, slot, out, listed>>
        /\ pc = "copy" /\ pc' = IF todo' = {} THEN "writeInfo" ELSE "copy"
    BY <1>12 DEF AddBlock
  <2>3. job = "add" /\ loaded /\ mounted
    BY <2>2 DEF ControlOK, TypeOK
  <2>4. i \in todo /\ i \in Secs /\ b \in free /\ b \in Blocks /\ b # 0
    BY <2>1, LowestIsMember DEF FirstFree, TypeOK, Blocks
  <2>5. hdData' = [hdData EXCEPT ![b] = <<info.id, i>>]
    BY <2>1 DEF Blame, Landings
  <2>6. /\ info' \in Info /\ info'.id = info.id /\ info'.magic = info.magic
        /\ info'.name = info.name
        /\ info'.wlba[i] = b /\ \A j \in Secs \ {i} : info'.wlba[j] = info.wlba[j]
    BY <2>1, <2>4 DEF TypeOK, Info
  <2>7. Live' = Live /\ Durable' = Durable
    BY <2>2, <2>3 DEF Live, Durable, Underway
  <2>8. Live \subseteq Slots /\ Durable \subseteq Live
    BY <2>2, <2>3 DEF Live, TypeOK, Integrity, ViewsAgree
  <2>9. \A s \in Live : b \notin Owned(hdInfo[s])
    BY <2>3, <2>4 DEF Integrity, DiscsSound, NoneFree, LoadedFree
  <2>10. Intact(Live, hdInfo, hdData')
    BY <2>4, <2>5, <2>8, <2>9, IntactAfterData DEF Integrity, DiscsSound, TypeOK
  <2>11. Intact(Durable, hdInfo, hdData')
    BY <2>8, <2>10, IntactPart
  <2>12. NoneFree(Live, hdInfo, LoadedFree')
    BY <2>1, <2>2, <2>3 DEF Integrity, DiscsSound, NoneFree, LoadedFree, ClearBit
  <2>13. NoneFree(Durable, hdInfo, hdFree)
    BY <2>2 DEF Integrity, DiscsSound, HalfSynced
  <2>14. DiscsSound'
    BY <2>2, <2>7, <2>10, <2>11, <2>12, <2>13
    DEF Integrity, DiscsSound, InfosTyped, Intact, NoneFree
  <2>15. PartCopied
    BY <2>2, <2>3 DEF Integrity, CopySound
  <2>16. ASSUME NEW j \in Secs
         PROVE  /\ info'.wlba[j] # 0 <=> j \in UsedSecs[info'.id] \ todo'
                /\ info'.wlba[j] # 0 => /\ hdData'[info'.wlba[j]] = <<info'.id, j>>
                                        /\ info'.wlba[j] \notin free'
    <3>1. CASE j = i
      BY <2>1, <2>2, <2>3, <2>4, <2>5, <2>6, <2>15, <3>1
      DEF PartCopied, ClearBit, TypeOK
    <3>2. CASE j # i
      <4>1. info'.wlba[j] = info.wlba[j] /\ (j \in todo' <=> j \in todo)
        BY <2>1, <2>6, <3>2
      <4>2. info.wlba[j] # 0 => info.wlba[j] # b /\ info.wlba[j] \in Blocks
        BY <2>2, <2>3, <2>4, <2>15 DEF PartCopied, TypeOK, Info
      <4> QED
        BY <2>1, <2>2, <2>3, <2>5, <2>6, <2>15, <4>1, <4>2
        DEF PartCopied, ClearBit, TypeOK
    <3> QED
      BY <3>1, <3>2
  <2>17. CopySound'
    <3>1. Ids(Live)' = Ids(Live)
      BY <2>2, <2>7 DEF Ids
    <3> QED
      BY <2>1, <2>2, <2>3, <2>6, <2>15, <2>16, <3>1 DEF CopySound, PartCopied
  <2>18. ViewsAgree'
    BY <2>2, <2>3, <2>7 DEF Integrity, ViewsAgree
  <2> QED
    BY <2>2, <2>3, <2>14, <2>17, <2>18
    DEF Integrity, WriteSound, ExtractSound, ListHolds
<1>13. CASE AddFails
  <2>1. /\ UNCHANGED device /\ UNCHANGED <<mounted, table, loaded>>
        /\ free' \subseteq free
        /\ pc = "copy" /\ pc' = "list" /\ job' = "none" /\ listed' = {}
    BY <1>13 DEF AddFails, EndJob, StartListing
  <2>2. job = "add" /\ loaded
    BY <2>1 DEF ControlOK, TypeOK
  <2>3. ~hdInfo[slot].magic
    BY <1>13 DEF AddFails, Blame
  <2>4. Live' = Live /\ Durable' = Durable /\ LoadedFree' \subseteq LoadedFree
    BY <2>1, <2>2, <2>3 DEF Live, Durable, Underway, LoadedFree, device
  <2>5. DiscsSound'
    BY <2>1, <2>2, <2>4, DiscsKept DEF Integrity, HalfSynced
  <2> QED
    BY <2>1, <2>2, <2>4, <2>5
    DEF Integrity, CopySound, WriteSound, ExtractSound, ViewsAgree, ListHolds
<1>14. ASSUME NEW d \in Discs, RemoveDisc(d) PROVE Integrity'
  <2>1. PICK s \in SlotOf(d) : slot' = s /\ free' = SetBits(Owned(hdInfo[s]))
    BY <1>14 DEF RemoveDisc
  <2>2. /\ UNCHANGED device /\ UNCHANGED <<mounted, table>>
        /\ pc = "idle" /\ pc' = "writeInfo" /\ job' = "remove" /\ info' = Blank
        /\ loaded' = TRUE /\ mounted /\ d \in listed
    BY <1>14 DEF RemoveDisc
  <2>3. s \in table /\ hdInfo[s].id = d
    BY <2>1, LowestIsMember DEF SlotOf, Holding
  <2>4. s \in Live
    BY <2>2, <2>3 DEF Live, Underway, Integrity, DiscsSound, InfosTyped, ListHolds, TypeOK
  <2>5. Live' = Live \ {s} /\ Durable' = Durable
    BY <2>1, <2>2, <2>4 DEF Live, Durable, Underway, device
  <2>6. LoadedFree' = LoadedFree \cup Owned(hdInfo[s])
    BY <2>1, <2>2 DEF LoadedFree, SetBits
  <2>7. ASSUME NEW t \in Live \ {s} PROVE Owned(hdInfo[t]) \cap LoadedFree' = {}
    <3>1. Owned(hdInfo[t]) \cap LoadedFree = {}
      BY DEF Integrity, DiscsSound, NoneFree
    <3>2. Owned(hdInfo[t]) \cap Owned(hdInfo[s]) = {}
      BY <2>4, BlocksApart DEF Integrity, DiscsSound, Owned
    <3> QED
      BY <2>6, <3>1, <3>2
  <2>8. DiscsSound'
    <3>1. Intact(Live', hdInfo, hdData)
      BY <2>5, IntactPart DEF Integrity, DiscsSound
    <3>2. NoneFree(Live', hdInfo, LoadedFree')
      BY <2>5, <2>7 DEF NoneFree
    <3>3. NoneFree(Durable, hdInfo, hdFree)
      BY <2>2 DEF Integrity, DiscsSound, HalfSynced
    <3> QED
      BY <2>2, <2>5, <3>1, <3>2, <3>3
      DEF Integrity, DiscsSound, InfosTyped, Intact, NoneFree, device
  <2>9. ViewsAgree'
    BY <2>1, <2>2, <2>4, <2>5 DEF Integrity, ViewsAgree
  <2> QED
    BY <2>1, <2>2, <2>3, <2>8, <2>9
    DEF Integrity, CopySound, WriteSound, ExtractSound, ListHolds
<1>15. ASSUME NEW d \in Discs, NEW m \in Names, RenameDisc(d, m) PROVE Integrity'
  <2>1. PICK s \in SlotOf(d) : slot' = s /\ info' = [hdInfo[s] EXCEPT !.name = m]
    BY <1>15 DEF RenameDisc
  <2>2. /\ UNCHANGED device /\ UNCHANGED <<mounted, table, free, loaded>>
        /\ pc = "idle" /\ pc' = "writeInfo" /\ job' = "rename"
        /\ mounted /\ d \in listed
    BY <1>15 DEF RenameDisc
  <2>3. s \in table /\ hdInfo[s].id = d
    BY <2>1, LowestIsMember DEF SlotOf, Holding
  <2>4. s \in Live
    BY <2>2, <2>3 DEF Live, Underway, Integrity, DiscsSound, InfosTyped, ListHolds, TypeOK
  <2>5. Live' = Live /\ Durable' = Durable /\ LoadedFree' = LoadedFree
    BY <2>2 DEF Live, Durable, Underway, LoadedFree, device
  <2>6. DiscsSound'
    BY <2>2, <2>5, DiscsKept DEF Integrity, HalfSynced
  <2>7. WriteSound'
    BY <2>1, <2>2, <2>4, <2>5 DEF WriteSound, device
  <2> QED
    BY <2>2, <2>5, <2>6, <2>7
    DEF Integrity, CopySound, ExtractSound, ViewsAgree, ListHolds
<1>16. ASSUME NEW d \in Discs, ExtractDisc(d) PROVE Integrity'
  <2>1. PICK s \in SlotOf(d) :
          /\ slot' = s
          /\ info' = hdInfo[s]
          /\ todo' = {i \in Secs : hdInfo[s].wlba[i] # 0}
    BY <1>16 DEF ExtractDisc
  <2>2. /\ UNCHANGED device /\ UNCHANGED <<mounted, table, free, loaded, out, listed>>
        /\ pc = "idle" /\ pc' = "extract" /\ job' = "extract"
        /\ mounted /\ d \in listed
    BY <1>16 DEF ExtractDisc
  <2>3. s \in table /\ hdInfo[s].id = d
    BY <2>1, LowestIsMember DEF SlotOf, Holding
  <2>4. s \in Live
    BY <2>2, <2>3 DEF Live, Underway, Integrity, DiscsSound, InfosTyped, ListHolds, TypeOK
  <2>5. Live' = Live /\ Durable' = Durable /\ LoadedFree' = LoadedFree
    BY <2>2 DEF Live, Durable, Underway, LoadedFree, device
  <2>6. DiscsSound'
    BY <2>2, <2>5, DiscsKept DEF Integrity, HalfSynced
  <2>7. todo' = UsedSecs[info'.id]
    <3>1. Whole(hdInfo[s], hdData)
      BY <2>4 DEF Integrity, DiscsSound, Intact
    <3>2. UsedSecs[hdInfo[s].id] \subseteq Secs
      BY <3>1, ImagesAreTyped DEF Whole
    <3> QED
      BY <2>1, <3>1, <3>2 DEF Whole
  <2>8. out' = NoOutput
    BY <2>2 DEF ControlOK
  <2>9. ExtractSound'
    BY <2>1, <2>2, <2>4, <2>5, <2>7, <2>8 DEF ExtractSound, NoOutput, device
  <2> QED
    BY <2>2, <2>5, <2>6, <2>9
    DEF Integrity, CopySound, WriteSound, ViewsAgree, ListHolds, Ids, device
<1>17. CASE ExtractBlock
  <2>1. PICK i \in Lowest(todo) :
          /\ out' = [out EXCEPT ![i] = hdData[info.wlba[i]]]
          /\ todo' = Remaining(i)
    BY <1>17 DEF ExtractBlock
  <2>2. /\ UNCHANGED device /\ UNCHANGED memory
        /\ UNCHANGED <<pc, job, slot, info, listed>> /\ pc = "extract"
    BY <1>17 DEF ExtractBlock
  <2>3. i \in todo /\ i \in Secs
    BY <2>1, LowestIsMember DEF TypeOK
  <2>4. Live' = Live /\ Durable' = Durable /\ LoadedFree' = LoadedFree
    BY <2>2 DEF Live, Durable, Underway, LoadedFree, device
  <2>5. DiscsSound'
    BY <2>2, <2>4, DiscsKept DEF Integrity, HalfSynced
  <2>6. ExtractSound
    BY DEF Integrity
  <2>7. hdData[info.wlba[i]] = <<info.id, i>>
    <3>1. Whole(info, hdData)
      BY <2>2, <2>6 DEF ExtractSound, Integrity, DiscsSound, Intact
    <3> QED
      BY <2>2, <2>3, <2>6, <3>1 DEF Whole, ExtractSound
  <2>8. ExtractSound'
    BY <2>1, <2>2, <2>3, <2>4, <2>6, <2>7 DEF ExtractSound, Remaining, TypeOK, device
  <2> QED
    BY <2>2, <2>4, <2>5, <2>8
    DEF Integrity, CopySound, WriteSound, ViewsAgree, ListHolds, Ids, device
<1>18. CASE ExtractEnds
  <2>1. /\ UNCHANGED device /\ UNCHANGED <<mounted, table, free, loaded, listed>>
        /\ pc = "extract" /\ pc' = "idle" /\ job' = "none"
    BY <1>18 DEF ExtractEnds, EndJob
  <2>2. Live' = Live /\ Durable' = Durable /\ LoadedFree' = LoadedFree
    BY <2>1 DEF Live, Durable, Underway, LoadedFree, device
  <2>3. DiscsSound'
    BY <2>1, <2>2, DiscsKept DEF Integrity, HalfSynced
  <2> QED
    BY <2>1, <2>2, <2>3
    DEF Integrity, CopySound, WriteSound, ExtractSound, ViewsAgree, ListHolds,
        Ids, device, ControlOK
<1>19. CASE Quit \/ FatalRead \/ Crash
  <2>1. /\ UNCHANGED device /\ table' = {} /\ ~mounted' /\ pc' = "open"
        /\ job' = "none"
    BY <1>19 DEF Quit, FatalRead, Crash, ProcessEnds, EndJob
  <2>2. ~HalfSynced
    BY <1>19 DEF Quit, FatalRead, Crash, HalfSynced, Blame
  <2>3. Live' = {}
    BY <2>1 DEF Live
  <2>4. DiscsSound'
    BY <2>1, <2>2, <2>3, DiscsKept DEF Integrity
  <2> QED
    BY <2>1, <2>4
    DEF Integrity, CopySound, WriteSound, ExtractSound, ViewsAgree, ListHolds
<1>22. CASE FormatFails
  <2>1. /\ UNCHANGED device /\ UNCHANGED memory /\ pc = "format" /\ pc' = "open"
        /\ job' = "load"
    BY <1>22 DEF FormatFails
  <2>2. ~mounted /\ ~mounted' /\ Live' = {} /\ LoadedFree' = LoadedFree
    BY <2>1 DEF ControlOK, Live, LoadedFree, device
  <2>3. DiscsSound'
    BY <2>1, <2>2, DiscsKept DEF Integrity, HalfSynced
  <2> QED
    BY <2>1, <2>2, <2>3
    DEF Integrity, CopySound, WriteSound, ExtractSound, ViewsAgree, ListHolds
<1>23. CASE DeclineChange
  <2>1. /\ UNCHANGED device /\ UNCHANGED memory /\ UNCHANGED job
        /\ pc = "idle" /\ pc' = "list" /\ listed' = {}
    BY <1>23 DEF DeclineChange, StartListing
  <2>2. Live' = Live /\ Durable' = Durable /\ LoadedFree' = LoadedFree
    BY <2>1 DEF Live, Durable, Underway, LoadedFree, device
  <2>3. DiscsSound'
    BY <2>1, <2>2, DiscsKept DEF Integrity, HalfSynced
  <2> QED
    BY <2>1, <2>2, <2>3
    DEF Integrity, CopySound, WriteSound, ExtractSound, ViewsAgree, ListHolds,
        ControlOK
<1>20. CASE UNCHANGED vars
  BY <1>20
  DEF vars, device, Integrity, DiscsSound, InfosTyped, CopySound, PartCopied, WriteSound,
      ExtractSound, ViewsAgree, ListHolds, Live, Durable, Underway, LoadedFree,
      HalfSynced, Ids, Intact, NoneFree
<1>21. CASE WriteInfo
  <2>1. /\ hdInfo' = [hdInfo EXCEPT ![slot] = info]
        /\ UNCHANGED <<hdMagic, hdTable, hdFree, hdData, mounted, free, loaded, locals>>
        /\ table' = IF job = "remove" THEN table \ {slot} ELSE table
        /\ pc = "writeInfo" /\ pc' = "syncHead"
    BY <1>21 DEF WriteInfo, Blame
  <2>2. job \in {"add", "remove", "rename"} /\ mounted
    BY <2>1 DEF ControlOK, TypeOK
  <2>3. /\ Live \subseteq Slots /\ Durable \subseteq Slots
        /\ slot \in Slots /\ info \in Info /\ hdInfo \in [Slots -> Info]
    BY DEF TypeOK, Live, Durable
  <2>4. NoneFree(Durable, hdInfo, hdFree)
    BY <2>1 DEF Integrity, DiscsSound, HalfSynced
  <2>5. LoadedFree' = LoadedFree
    BY <2>1 DEF LoadedFree
  <2>6. CASE job = "add"
    <3>1. PartCopied /\ todo = {} /\ slot \in table /\ loaded
      BY <2>1, <2>6 DEF Integrity, CopySound, PartCopied, ControlOK
    <3>2. slot \notin Live /\ slot \notin Durable /\ Durable = Live
      <4>1. slot \notin Live
        BY <2>1, <2>6 DEF Live, Underway
      <4>2. Live \subseteq Durable /\ Durable \subseteq Live
        BY <2>1, <2>2, <2>6 DEF Integrity, ViewsAgree
      <4> QED
        BY <4>1, <4>2
    <3>3. Live' = Live \cup (IF info.magic THEN {slot} ELSE {})
      BY <2>1, <2>3, <2>6, <3>1 DEF Live, Underway, TypeOK
    <3>4. Durable' = Durable \cup (IF info.magic /\ slot \in hdTable THEN {slot} ELSE {})
      BY <2>1, <2>3, <3>2 DEF Durable, TypeOK
    <3>5. Whole(info, hdData)
      BY <2>1, <3>1 DEF PartCopied, Whole
    <3>6. \A s \in Live : hdInfo[s].id # info.id
      BY <2>1, <3>1 DEF PartCopied, Ids
    <3>7. Intact(Live \cup {slot}, hdInfo', hdData)
      BY <2>1, <2>3, <3>2, <3>5, <3>6, IntactWithNew DEF Integrity, DiscsSound
    <3>8. Intact(Live', hdInfo', hdData) /\ Intact(Durable', hdInfo', hdData)
      BY <3>2, <3>3, <3>4, <3>7, IntactPart
    <3>9. Owned(info) \cap LoadedFree = {}
      BY <2>1, <3>1 DEF PartCopied, Owned, LoadedFree
    <3>10. NoneFree(Live', hdInfo', LoadedFree)
      BY <2>1, <2>3, <3>2, <3>3, <3>9 DEF Integrity, DiscsSound, NoneFree
    <3>11. HalfSynced' \/ NoneFree(Durable', hdInfo', hdFree)
      BY <2>1, <2>3, <2>4, <2>6, <3>2, <3>4 DEF HalfSynced, NoneFree
    <3>12. InfosTyped'
      BY <2>1, <2>3, <3>1, ImagesAreTyped DEF Integrity, DiscsSound, InfosTyped, PartCopied
    <3>13. DiscsSound'
      BY <2>1, <2>5, <3>8, <3>10, <3>11, <3>12 DEF DiscsSound
    <3>14. ViewsAgree'
      BY <2>1, <2>6, <3>1, <3>2, <3>3, <3>4 DEF ViewsAgree
    <3> QED
      BY <2>1, <2>3, <2>6, <3>1, <3>13, <3>14
      DEF Integrity, CopySound, PartCopied, WriteSound, ExtractSound, ListHolds
  <2>7. CASE job = "remove"
    <3>1. info = Blank /\ slot \in table
      BY <2>1, <2>7 DEF Integrity, WriteSound
    <3>2. Live' = Live /\ slot \notin Live
      BY <2>1, <2>3, <2>7 DEF Live, Underway
    <3>3. Durable' = Durable \ {slot}
      BY <2>1, <2>3, <3>1 DEF Durable, Blank
    <3>4. Live \subseteq Durable /\ Durable \subseteq Live \cup {slot}
      BY <2>1, <2>2, <2>7 DEF Integrity, ViewsAgree
    <3>5. \A s \in Slots \ {slot} : hdInfo'[s] = hdInfo[s]
      BY <2>1, <2>3
    <3>6. Intact(Live, hdInfo', hdData)
      BY <2>1, <2>3, <3>2, IntactElsewhere DEF Integrity, DiscsSound
    <3>7. Intact(Durable', hdInfo', hdData)
      BY <3>3, <3>4, <3>6, IntactPart
    <3>8. NoneFree(Live, hdInfo', LoadedFree) /\ NoneFree(Durable', hdInfo', hdFree)
      BY <2>3, <2>4, <3>2, <3>3, <3>5 DEF Integrity, DiscsSound, NoneFree
    <3>9. InfosTyped'
      BY <2>1, <2>3, <3>1, ImagesAreTyped, MarkersAreNew
      DEF Integrity, DiscsSound, InfosTyped, Blank
    <3>10. DiscsSound'
      BY <2>1, <2>5, <3>2, <3>6, <3>7, <3>8, <3>9 DEF DiscsSound
    <3>11. ViewsAgree'
      BY <2>1, <2>7, <3>2, <3>3, <3>4 DEF ViewsAgree
    <3> QED
      BY <2>1, <2>7, <3>10, <3>11
      DEF Integrity, CopySound, WriteSound, ExtractSound, ListHolds
  <2>8. CASE job = "rename"
    <3>1. PICK m \in Names : info = [hdInfo[slot] EXCEPT !.name = m]
      BY <2>1, <2>8 DEF Integrity, WriteSound
    <3>2. \A s \in Slots : /\ hdInfo'[s].id = hdInfo[s].id
                           /\ hdInfo'[s].magic = hdInfo[s].magic
                           /\ hdInfo'[s].wlba = hdInfo[s].wlba
                           /\ hdInfo'[s].name \in {hdInfo[s].name, m}
      BY <2>1, <2>3, <3>1 DEF Info
    <3>3. Live' = Live /\ Durable' = Durable
      BY <2>1, <2>8, <3>2 DEF Live, Durable, Underway, TypeOK
    <3>4. Intact(Live, hdInfo', hdData) /\ Intact(Durable, hdInfo', hdData)
      BY <2>1, <2>3, <3>1, IntactRetitled DEF Integrity, DiscsSound
    <3>5. NoneFree(Live, hdInfo', LoadedFree) /\ NoneFree(Durable, hdInfo', hdFree)
      BY <2>3, <2>4, <3>2 DEF Integrity, DiscsSound, NoneFree, Owned
    <3>6. InfosTyped'
      BY <3>2 DEF Integrity, DiscsSound, InfosTyped
    <3>7. DiscsSound'
      BY <2>1, <2>5, <3>3, <3>4, <3>5, <3>6 DEF DiscsSound
    <3>8. ViewsAgree'
      BY <2>1, <2>8, <3>3 DEF Integrity, ViewsAgree
    <3> QED
      BY <2>1, <2>8, <3>7, <3>8
      DEF Integrity, CopySound, WriteSound, ExtractSound, ListHolds
  <2> QED
    BY <2>2, <2>6, <2>7, <2>8
<1> QED
  BY <1>1, <1>2, <1>3, <1>4, <1>5, <1>6, <1>7, <1>8, <1>9, <1>10, <1>11, <1>12,
     <1>13, <1>14, <1>15, <1>16, <1>17, <1>18, <1>19, <1>20, <1>21, <1>22,
     <1>23
  DEF Next, UserStep, Answer, ProgramStep

-----------------------------------------------------------------------------
(* Theorems.                                                               *)

\* No step takes a fault back.
LEMMA FaultsStay == [Next]_vars /\ fault' = {} => fault = {}
  BY DEF Next, UserStep, Answer, ProgramStep, vars, Blame,
         SyncHead, SyncFree, LoadDevice, OpenPartition, OpenFails, InitPartition,
         FormatPartition, FormatFails, GetDiscInfo, ListingDone, ConfirmAdd,
         DeclineAdd,
         AddDisc, AddRefused, DeclineChange, AddBlock, AddFails, RemoveDisc, RenameDisc,
         WriteInfo, ExtractDisc, ExtractBlock, ExtractEnds, Quit, FatalRead, Crash

\* The inductive invariant: types, control, and the integrity of the discs as
\* long as no write was dropped, no old disc_info revived, no add torn.
THEOREM ConsistentAlways == Spec => []Consistent
<1>1. Init => Consistent
  BY TypeInit, ControlInit, IntegrityInit DEF Consistent, Safely
<1>2. Consistent /\ [Next]_vars => Consistent'
  <2> SUFFICES ASSUME Consistent, [Next]_vars PROVE Consistent'
    OBVIOUS
  <2>1. TypeOK' /\ ControlOK' /\ OpenCounted'
    BY TypeNext, ControlNext DEF Consistent
  <2>2. ASSUME fault' = {} PROVE Integrity'
    BY <2>1, <2>2, FaultsStay, IntegrityNext DEF Consistent, Safely
  <2> QED
    BY <2>1, <2>2 DEF Consistent, Safely
<1> QED
  BY <1>1, <1>2, PTL DEF Spec

\* While the program runs, its discs are whole, none is there twice, and none
\* of their blocks is free.
THEOREM MemoryStaysSound == Spec => []MemorySound
<1>1. Consistent => MemorySound
  BY DEF Consistent, Safely, Integrity, DiscsSound, MemorySound
<1> QED
  BY <1>1, ConsistentAlways, PTL

\* Whenever the process ends, the next one finds whole discs.
THEOREM DiskStaysSound == Spec => []DiskSound
<1>1. Consistent => DiskSound
  BY DEF Consistent, Safely, Integrity, DiscsSound, DiskSound
<1> QED
  BY <1>1, ConsistentAlways, PTL

\* No two parts of any two discs are in the same block.
THEOREM NeverCrossLinked == Spec => []NoCrossLink
<1>1. Consistent => NoCrossLink
  BY BlocksApart DEF Consistent, Safely, Integrity, DiscsSound, NoCrossLink
<1> QED
  BY <1>1, ConsistentAlways, PTL

\* The list shows only discs that are there.
THEOREM ListStaysSound == Spec => []ListSound
<1>1. Consistent => ListSound
  BY DEF Consistent, Safely, Integrity, ListHolds, ListSound
<1> QED
  BY <1>1, ConsistentAlways, PTL

\* What is extracted is what was added.
THEOREM ExtractsWhatWasAdded == Spec => []RoundTrip
<1>1. Consistent => RoundTrip
  BY DEF Consistent, Safely, Integrity, ExtractSound, RoundTrip
<1> QED
  BY <1>1, ConsistentAlways, PTL

\* wbfs_close never finds a disc open.
THEOREM ClosesCleanly == Spec => []CloseFindsNoOpenDisc
<1>1. Consistent => CloseFindsNoOpenDisc
  BY DEF Consistent, OpenCounted, ControlOK, TypeOK, CloseFindsNoOpenDisc
<1> QED
  BY <1>1, ConsistentAlways, PTL

\* The part of BystandersKept that one step must satisfy.
LEMMA BystandersStep ==
  ASSUME Consistent, [Next]_vars, fault' = {}, NEW s \in Durable,
         ~(job \in {"remove", "rename"} /\ s = slot), job # "reset"
  PROVE  /\ s \in Durable'
         /\ hdInfo'[s] = hdInfo[s]
         /\ \A b \in Owned(hdInfo[s]) : hdData'[b] = hdData[b]
<1>1. Integrity /\ fault = {} /\ TypeOK /\ ControlOK
  BY FaultsStay DEF Consistent, Safely
<1>2. s \in hdTable /\ s \in Slots /\ hdInfo[s].magic
  BY <1>1 DEF Durable, TypeOK
<1> USE DEF memory, locals, listing
<1>3. CASE UNCHANGED <<hdTable, hdInfo, hdData>>
  BY <1>3 DEF Durable
<1>4. CASE SyncHead
  <2>1. hdTable' = table /\ UNCHANGED <<hdInfo, hdData>>
    BY <1>4 DEF SyncHead, Blame
  <2>2. s \in Live
    BY <1>1, <1>4 DEF SyncHead, Integrity, ViewsAgree, ControlOK
  <2> QED
    BY <1>2, <2>1, <2>2 DEF Live, Durable
<1>5. CASE AddBlock
  <2>1. PICK i \in Lowest(todo), b \in FirstFree, lands \in Landings :
          hdData' = IF lands THEN [hdData EXCEPT ![b] = <<info.id, i>>] ELSE hdData
    BY <1>5 DEF AddBlock
  <2>2. /\ UNCHANGED <<hdTable, hdInfo>> /\ job = "add" /\ loaded /\ mounted
        /\ pc = "copy" /\ b \in free
    BY <1>1, <1>5, <2>1, LowestIsMember DEF AddBlock, ControlOK, TypeOK, FirstFree
  <2>3. s \in Live
    BY <1>1, <2>2 DEF Integrity, ViewsAgree
  <2>4. b \notin Owned(hdInfo[s]) /\ Owned(hdInfo[s]) \subseteq Blocks
    BY <1>1, <1>2, <2>2, <2>3, OwnedAreBlocks
    DEF Integrity, DiscsSound, NoneFree, LoadedFree, TypeOK
  <2>5. \A c \in Owned(hdInfo[s]) : hdData'[c] = hdData[c]
    BY <1>1, <2>1, <2>4 DEF TypeOK
  <2> QED
    BY <2>2, <2>5 DEF Durable
<1>6. CASE WriteInfo
  <2>1. /\ hdInfo' = [hdInfo EXCEPT ![slot] = info] /\ UNCHANGED <<hdTable, hdData>>
        /\ pc = "writeInfo" /\ mounted
    BY <1>1, <1>6 DEF WriteInfo, Blame, ControlOK
  <2>2. s # slot
    <3>1. CASE job = "add"
      <4>1. slot \notin Live /\ s \in Live
        BY <1>1, <2>1, <3>1 DEF Live, Underway, Integrity, ViewsAgree
      <4> QED
        BY <4>1
    <3>2. CASE job # "add"
      BY <1>1, <2>1, <3>2 DEF ControlOK, TypeOK
    <3> QED
      BY <3>1, <3>2
  <2> QED
    BY <1>1, <1>2, <2>1, <2>2 DEF Durable, TypeOK
<1>7. SyncHead \/ AddBlock \/ WriteInfo \/ UNCHANGED <<hdTable, hdInfo, hdData>>
  BY DEF Next, UserStep, Answer, ProgramStep, vars, device, ProcessEnds,
         SyncFree, LoadDevice, OpenPartition, OpenFails, InitPartition,
         FormatPartition, FormatFails, GetDiscInfo, ListingDone, ConfirmAdd,
         DeclineAdd,
         AddDisc, AddRefused, DeclineChange, AddFails, RemoveDisc, RenameDisc,
         ExtractDisc, ExtractBlock, ExtractEnds, Quit, FatalRead, Crash
<1> QED
  BY <1>3, <1>4, <1>5, <1>6, <1>7

\* No operation touches a disc other than its own.
THEOREM BystandersStay == Spec => BystandersKept
<1>1. Consistent /\ [Next]_vars =>
        (fault' = {} =>
          \A s \in Durable :
            \/ job \in {"remove", "rename"} /\ s = slot
            \/ job = "reset"
            \/ /\ s \in Durable'
               /\ hdInfo'[s] = hdInfo[s]
               /\ \A b \in Owned(hdInfo[s]) : hdData'[b] = hdData[b])
  BY BystandersStep
<1> QED
  BY <1>1, ConsistentAlways, PTL DEF Spec, BystandersKept

-----------------------------------------------------------------------------
(* The partition implements the catalog.                                   *)

\* The catalog has the title of each disc, whichever slot the disc is in, and
\* nothing else.
LEMMA CatalogShows ==
  ASSUME NEW S, NEW infos, NEW data, Intact(S, infos, data)
  PROVE  /\ \A s \in S : CatalogOf(S, infos)[infos[s].id] = infos[s].name
         /\ \A d \in Discs : (\A s \in S : infos[s].id # d)
                               => CatalogOf(S, infos)[d] = NoName
<1>1. ASSUME NEW s \in S
      PROVE  CatalogOf(S, infos)[infos[s].id] = infos[s].name
  <2>1. \A t \in S : infos[t].id = infos[s].id => t = s
    BY DEF Intact
  <2>2. (CHOOSE t \in S : infos[t].id = infos[s].id) = s
    BY <2>1
  <2>3. TitleIn(S, infos, infos[s].id) = infos[s].name
    BY <2>2 DEF TitleIn
  <2> QED
    BY <2>3 DEF CatalogOf, Intact, Whole
<1> QED
  BY <1>1 DEF CatalogOf, TitleIn

\* A function that shows the same is the catalog.
LEMMA CatalogIs ==
  ASSUME NEW S, NEW infos, NEW data, Intact(S, infos, data),
         NEW c, c = [d \in Discs |-> c[d]],
         \A s \in S : c[infos[s].id] = infos[s].name,
         \A d \in Discs : (\A s \in S : infos[s].id # d) => c[d] = NoName
  PROVE  CatalogOf(S, infos) = c
<1>1. ASSUME NEW d \in Discs PROVE CatalogOf(S, infos)[d] = c[d]
  <2>1. CASE \E s \in S : infos[s].id = d
    BY <2>1, CatalogShows
  <2>2. CASE \A s \in S : infos[s].id # d
    BY <2>2, CatalogShows
  <2> QED
    BY <2>1, <2>2
<1> QED
  BY <1>1 DEF CatalogOf

\* A catalog with another title for d.
Titled(c, d, m) == [c EXCEPT ![d] = m]

\* One more disc on the device is one more title in the catalog.
LEMMA CatalogGains ==
  ASSUME NEW T, NEW infos, NEW infos2, NEW data, NEW t \in T,
         Intact(T \ {t}, infos, data), Intact(T, infos2, data),
         \A s \in T \ {t} : infos2[s] = infos[s]
  PROVE  CatalogOf(T, infos2)
           = Titled(CatalogOf(T \ {t}, infos), infos2[t].id, infos2[t].name)
<1> DEFINE S == T \ {t}
           c == [CatalogOf(S, infos) EXCEPT ![infos2[t].id] = infos2[t].name]
<1>1. infos2[t].id \in Discs /\ \A s \in S : infos[s].id # infos2[t].id
  BY DEF Intact, Whole
<1>2. /\ c = [d \in Discs |-> c[d]]
      /\ c[infos2[t].id] = infos2[t].name
      /\ \A d \in Discs \ {infos2[t].id} : c[d] = CatalogOf(S, infos)[d]
  BY <1>1 DEF CatalogOf
<1>3. Intact(S, infos, data) /\ T = S \cup {t} /\ \A s \in S : infos2[s] = infos[s]
  OBVIOUS
<1> HIDE DEF c, S
<1>4. \A s \in T : c[infos2[s].id] = infos2[s].name
  <2>1. \A s \in S : infos[s].id \in Discs
    BY <1>3 DEF Intact, Whole
  <2> QED
    BY <1>1, <1>2, <1>3, <2>1, CatalogShows
<1>5. \A d \in Discs : (\A s \in T : infos2[s].id # d) => c[d] = NoName
  BY <1>2, <1>3, CatalogShows
<1>6. CatalogOf(T, infos2) = c
  BY <1>2, <1>4, <1>5, CatalogIs
<1> QED
  BY <1>6 DEF c, S, Titled

\* One disc less is one title less.
LEMMA CatalogLoses ==
  ASSUME NEW S \in SUBSET Slots, NEW infos, NEW infos2, NEW data, NEW t \in S,
         Intact(S, infos, data), Intact(S \ {t}, infos2, data),
         \A s \in S \ {t} : infos2[s] = infos[s]
  PROVE  CatalogOf(S \ {t}, infos2)
           = Titled(CatalogOf(S, infos), infos[t].id, NoName)
<1> DEFINE c == [CatalogOf(S, infos) EXCEPT ![infos[t].id] = NoName]
<1>1. infos[t].id \in Discs /\ \A s \in S \ {t} : infos[s].id # infos[t].id
  BY DEF Intact, Whole
<1>2. /\ c = [d \in Discs |-> c[d]]
      /\ c[infos[t].id] = NoName
      /\ \A d \in Discs \ {infos[t].id} : c[d] = CatalogOf(S, infos)[d]
  BY <1>1 DEF CatalogOf
<1>3. \A s \in S \ {t} : c[infos2[s].id] = infos2[s].name
  <2>1. \A s \in S : infos[s].id \in Discs
    BY DEF Intact, Whole
  <2> HIDE DEF c
  <2> QED
    BY <1>1, <1>2, <2>1, CatalogShows
<1>4. \A d \in Discs : (\A s \in S \ {t} : infos2[s].id # d) => c[d] = NoName
  <2> HIDE DEF c
  <2> QED
    BY <1>2, CatalogShows
<1> HIDE DEF c
<1>5. CatalogOf(S \ {t}, infos2) = c
  BY <1>2, <1>3, <1>4, CatalogIs
<1> QED
  BY <1>5 DEF c, Titled

\* Retitling a disc changes its title.
LEMMA CatalogRetitles ==
  ASSUME NEW S \in SUBSET Slots, NEW infos, NEW infos2, NEW data, NEW t \in S, NEW m,
         Intact(S, infos, data), Intact(S, infos2, data),
         \A s \in S : infos2[s].id = infos[s].id,
         \A s \in S \ {t} : infos2[s].name = infos[s].name,
         infos2[t].name = m
  PROVE  CatalogOf(S, infos2) = Titled(CatalogOf(S, infos), infos[t].id, m)
<1> DEFINE c == [CatalogOf(S, infos) EXCEPT ![infos[t].id] = m]
<1>1. infos[t].id \in Discs /\ \A s \in S \ {t} : infos[s].id # infos[t].id
  BY DEF Intact, Whole
<1>2. /\ c = [d \in Discs |-> c[d]]
      /\ c[infos[t].id] = m
      /\ \A d \in Discs \ {infos[t].id} : c[d] = CatalogOf(S, infos)[d]
  BY <1>1 DEF CatalogOf
<1>3. \A s \in S : c[infos2[s].id] = infos2[s].name
  <2>1. \A s \in S : infos[s].id \in Discs
    BY DEF Intact, Whole
  <2> HIDE DEF c
  <2> QED
    BY <1>1, <1>2, <2>1, CatalogShows
<1>4. \A d \in Discs : (\A s \in S : infos2[s].id # d) => c[d] = NoName
  <2> HIDE DEF c
  <2> QED
    BY <1>2, CatalogShows
<1> HIDE DEF c
<1>5. c = [d \in Discs |-> c[d]]
  BY <1>2
<1>6. CatalogOf(S, infos2) = c
  BY ONLY Intact(S, infos2, data), <1>3, <1>4, <1>5, CatalogIs
<1> QED
  BY <1>6 DEF c, Titled

\* A partition that was never initialised has an empty catalog.
LEMMA CatalogBegins == Init => Catalog!CatalogInit
<1> SUFFICES ASSUME Init PROVE Catalog!CatalogInit
  OBVIOUS
<1>1. Durable = {}
  BY DEF Init, Durable
<1> QED
  BY <1>1 DEF CatalogOf, TitleIn, Catalog!CatalogInit

\* Seen from the device, a step without fault is one of the catalog or none.
LEMMA CatalogStep ==
  ASSUME Consistent, Consistent', [Next]_vars, fault = {}, fault' = {}
  PROVE  [Catalog!CatalogNext]_(CatalogOf(Durable, hdInfo))
<1> SUFFICES \/ Catalog!CatalogNext
             \/ CatalogOf(Durable, hdInfo)' = CatalogOf(Durable, hdInfo)
  OBVIOUS
<1> USE DEF memory, locals, listing
<1>1. Integrity /\ TypeOK /\ ControlOK
  BY DEF Consistent, Safely
<1>2. Integrity' /\ TypeOK' /\ ControlOK'
  BY DEF Consistent, Safely
<1>3. /\ Intact(Durable, hdInfo, hdData) /\ Durable \subseteq Slots
      /\ \A s \in Durable : hdInfo[s].id \in Discs /\ hdInfo[s].name \in Names
  BY <1>1 DEF Integrity, DiscsSound, Durable, TypeOK, InfosTyped, Intact, Whole
<1>4. /\ Intact(Durable', hdInfo', hdData')
      /\ \A s \in Durable' : hdInfo'[s].id \in Discs /\ hdInfo'[s].name \in Names
  BY <1>2 DEF Integrity, DiscsSound, Durable, TypeOK, InfosTyped, Intact, Whole
<1>5. CASE UNCHANGED <<hdTable, hdInfo>>
  BY <1>5 DEF CatalogOf, TitleIn, Durable
<1>6. CASE SyncHead
  <2>1. /\ hdTable' = table /\ UNCHANGED <<hdInfo, hdData, table, job, slot>>
        /\ pc = "syncHead" /\ mounted
    BY <1>1, <1>6 DEF SyncHead, Blame, ControlOK
  <2>2. Durable' = Live
    BY <2>1 DEF Live, Durable, Underway
  <2>3. CASE job = "reset"
    <3>1. Durable' = {}
      BY <1>1, <2>2, <2>3 DEF ControlOK, Live
    <3>2. CatalogOf(Durable, hdInfo)' = [d \in Discs |-> NoName]
      BY <3>1 DEF CatalogOf, TitleIn
    <3> QED
      BY <3>2 DEF Catalog!CatalogNext, Catalog!Wipe
  <2>4. CASE job # "reset"
    <3>1. Durable \subseteq Live /\ Live \subseteq Durable \cup {slot}
      BY <1>1, <2>1, <2>4 DEF Integrity, ViewsAgree
    <3>2. CASE slot \in Durable \/ slot \notin Live
      <4>1. Durable' = Durable
        BY <2>2, <3>1, <3>2
      <4> QED
        BY <2>1, <4>1 DEF CatalogOf, TitleIn
    <3>3. CASE slot \notin Durable /\ slot \in Live
      <4>1. Durable' = Durable \cup {slot} /\ slot \notin Durable
        BY <1>1, <2>2, <3>1, <3>3 DEF TypeOK
      <4>2. Intact(Durable', hdInfo, hdData)
        BY <1>4, <2>1
      <4>3. /\ CatalogOf(Durable, hdInfo)[hdInfo[slot].id] = NoName
            /\ CatalogOf(Durable', hdInfo)
                 = Titled(CatalogOf(Durable, hdInfo), hdInfo[slot].id,
                          hdInfo[slot].name)
        <5>1. Durable' \ {slot} = Durable /\ slot \in Durable'
          BY <4>1
        <5>2. Intact(Durable' \ {slot}, hdInfo, hdData)
          BY <1>3, <5>1
        <5>3. \A s \in Durable' \ {slot} : hdInfo[s] = hdInfo[s]
          OBVIOUS
        <5>4. CatalogOf(Durable', hdInfo)
                = Titled(CatalogOf(Durable' \ {slot}, hdInfo), hdInfo[slot].id,
                         hdInfo[slot].name)
          BY <4>2, <5>1, <5>2, <5>3, CatalogGains
        <5>5. hdInfo[slot].id \in Discs /\ \A s \in Durable : hdInfo[s].id # hdInfo[slot].id
          BY <4>1, <4>2 DEF Intact, Whole
        <5> QED
          BY <1>3, <5>1, <5>4, <5>5, CatalogShows
      <4>4. hdInfo[slot].name = IsoName[hdInfo[slot].id]
        BY <1>1, <2>1, <2>4, <3>3 DEF Integrity, ViewsAgree, CopySound
      <4>5. hdInfo[slot].id \in Discs
        BY <1>4, <2>1, <4>1
      <4>6. Catalog!Put(hdInfo[slot].id)
        BY <2>1, <4>1, <4>3, <4>4 DEF Catalog!Put, CatalogOf, TitleIn, Titled
      <4> QED
        BY <4>5, <4>6 DEF Catalog!CatalogNext
    <3> QED
      BY <3>2, <3>3
  <2> QED
    BY <2>3, <2>4
<1>7. CASE WriteInfo
  <2>1. /\ hdInfo' = [hdInfo EXCEPT ![slot] = info]
        /\ UNCHANGED <<hdTable, hdData, job, slot>> /\ pc = "writeInfo" /\ mounted
    BY <1>1, <1>7 DEF WriteInfo, Blame, ControlOK
  <2>2. hdInfo'[slot] = info /\ \A s \in Slots \ {slot} : hdInfo'[s] = hdInfo[s]
    BY <1>1, <2>1 DEF TypeOK
  <2>3. \A s \in Durable \ {slot} : s \in Durable' /\ hdInfo'[s] = hdInfo[s]
    BY <1>3, <2>1, <2>2 DEF Durable
  <2>4. Durable' \subseteq Durable \cup {slot}
    BY <1>1, <2>1, <2>2 DEF Durable, TypeOK
  <2>5. CASE job = "add"
    <3>1. slot \notin Durable
      <4>1. Durable \subseteq Live /\ slot \notin Live
        BY <1>1, <2>1, <2>5 DEF Integrity, ViewsAgree, Live, Underway
      <4> QED
        BY <4>1
    <3>2. CASE slot \notin Durable'
      <4>1. Durable' = Durable /\ \A s \in Durable : hdInfo'[s] = hdInfo[s]
        BY <2>3, <2>4, <3>1, <3>2
      <4>2. CatalogOf(Durable', hdInfo') = CatalogOf(Durable, hdInfo)
        <5>1. /\ CatalogOf(Durable, hdInfo) = [d \in Discs |-> CatalogOf(Durable, hdInfo)[d]]
              /\ \A s \in Durable : CatalogOf(Durable, hdInfo)[hdInfo'[s].id] = hdInfo'[s].name
              /\ \A d \in Discs : (\A s \in Durable : hdInfo'[s].id # d)
                                    => CatalogOf(Durable, hdInfo)[d] = NoName
          BY <1>3, <4>1, CatalogShows DEF CatalogOf
        <5>2. Intact(Durable, hdInfo', hdData')
          BY <1>4, <4>1
        <5>3. CatalogOf(Durable, hdInfo') = CatalogOf(Durable, hdInfo)
          BY ONLY <5>1, <5>2, CatalogIs
        <5> QED
          BY <4>1, <5>3
      <4> QED
        BY <4>2 DEF CatalogOf, TitleIn
    <3>3. CASE slot \in Durable'
      <4>1. Durable' = Durable \cup {slot} /\ slot \notin Durable
        BY <1>1, <2>3, <2>4, <3>1, <3>3 DEF TypeOK
      <4>2. Intact(Durable', hdInfo', hdData)
        BY <1>4, <2>1
      <4>3. /\ CatalogOf(Durable, hdInfo)[hdInfo'[slot].id] = NoName
            /\ CatalogOf(Durable', hdInfo')
                 = Titled(CatalogOf(Durable, hdInfo), hdInfo'[slot].id,
                          hdInfo'[slot].name)
        <5>1. Durable' \ {slot} = Durable /\ slot \in Durable'
          BY <4>1
        <5>2. Intact(Durable' \ {slot}, hdInfo, hdData)
          BY <1>3, <5>1
        <5>3. \A s \in Durable' \ {slot} : hdInfo'[s] = hdInfo[s]
          BY <2>3, <5>1
        <5>4. CatalogOf(Durable', hdInfo')
                = Titled(CatalogOf(Durable' \ {slot}, hdInfo), hdInfo'[slot].id,
                         hdInfo'[slot].name)
          BY <4>2, <5>1, <5>2, <5>3, CatalogGains
        <5>5. /\ hdInfo'[slot].id \in Discs
              /\ \A s \in Durable : hdInfo[s].id # hdInfo'[slot].id
          BY <2>3, <4>1, <4>2 DEF Intact, Whole
        <5> QED
          BY <1>3, <5>1, <5>4, <5>5, CatalogShows
      <4>4. hdInfo'[slot].name = IsoName[hdInfo'[slot].id]
        BY <1>1, <2>1, <2>2, <2>5 DEF Integrity, CopySound, PartCopied
      <4>5. hdInfo'[slot].id \in Discs
        BY <1>4, <3>3
      <4>6. Catalog!Put(hdInfo'[slot].id)
        BY <4>1, <4>3, <4>4 DEF Catalog!Put, CatalogOf, TitleIn, Titled
      <4> QED
        BY <4>5, <4>6 DEF Catalog!CatalogNext
    <3> QED
      BY <3>2, <3>3
  <2>6. CASE job = "remove"
    <3>1. info = Blank
      BY <1>1, <2>1, <2>6 DEF Integrity, WriteSound
    <3>2. slot \notin Durable'
      BY <2>2, <3>1 DEF Durable, Blank
    <3>3. CASE slot \in Durable
      <4>1. Durable' = Durable \ {slot}
        BY <2>3, <2>4, <3>2
      <4>2. Intact(Durable \ {slot}, hdInfo', hdData)
        BY <1>4, <2>1, <4>1
      <4>3. CatalogOf(Durable \ {slot}, hdInfo')
              = Titled(CatalogOf(Durable, hdInfo), hdInfo[slot].id, NoName)
        BY <1>3, <2>3, <3>3, <4>2, CatalogLoses
      <4>4. hdInfo[slot].id \in Discs
        BY <1>3, <3>3
      <4>5. CatalogOf(Durable, hdInfo)[hdInfo[slot].id] # NoName
        BY <1>3, <3>3, CatalogShows, MarkersAreNew
      <4>6. Catalog!Delete(hdInfo[slot].id)
        BY <4>1, <4>3, <4>5 DEF Catalog!Delete, CatalogOf, TitleIn, Titled
      <4> QED
        BY <4>4, <4>6 DEF Catalog!CatalogNext
    <3>4. CASE slot \notin Durable
      <4>1. Durable \subseteq Live \cup {slot} /\ Live \subseteq Durable
        BY <1>1, <2>1, <2>6 DEF Integrity, ViewsAgree
      <4>2. Durable' = Durable /\ \A s \in Durable : hdInfo'[s] = hdInfo[s]
        BY <2>3, <2>4, <3>2, <3>4
      <4>3. /\ CatalogOf(Durable, hdInfo) = [d \in Discs |-> CatalogOf(Durable, hdInfo)[d]]
            /\ \A s \in Durable : CatalogOf(Durable, hdInfo)[hdInfo'[s].id] = hdInfo'[s].name
            /\ \A d \in Discs : (\A s \in Durable : hdInfo'[s].id # d)
                                  => CatalogOf(Durable, hdInfo)[d] = NoName
        BY <1>3, <4>2, CatalogShows DEF CatalogOf
      <4>4. Intact(Durable, hdInfo', hdData')
        BY <1>4, <4>2
      <4>5. CatalogOf(Durable, hdInfo') = CatalogOf(Durable, hdInfo)
        BY ONLY <4>3, <4>4, CatalogIs
      <4> QED
        BY <4>2, <4>5 DEF CatalogOf, TitleIn
    <3> QED
      BY <3>3, <3>4
  <2>7. CASE job = "rename"
    <3>1. /\ slot \in Live
          /\ \E m \in Names : info = [hdInfo[slot] EXCEPT !.name = m]
      BY <1>1, <2>1, <2>7 DEF Integrity, WriteSound
    <3>2. PICK m \in Names : info = [hdInfo[slot] EXCEPT !.name = m]
      BY <3>1
    <3>3. slot \in Durable
      BY <1>1, <2>1, <2>7, <3>1 DEF Integrity, ViewsAgree
    <3>4. /\ hdInfo[slot] \in Info
          /\ info.id = hdInfo[slot].id /\ info.magic = hdInfo[slot].magic
          /\ info.name = m
      BY <1>1, <1>3, <3>2, <3>3 DEF TypeOK, Info
    <3>5. Durable' = Durable
      BY <2>1, <2>2, <2>3, <2>4, <3>3, <3>4 DEF Durable
    <3>6. /\ \A s \in Durable : hdInfo'[s].id = hdInfo[s].id
          /\ \A s \in Durable \ {slot} : hdInfo'[s].name = hdInfo[s].name
          /\ hdInfo'[slot].name = m
      BY <2>2, <2>3, <3>4
    <3>7. Intact(Durable, hdInfo', hdData)
      BY <1>4, <2>1, <3>5
    <3>8. CatalogOf(Durable, hdInfo')
            = Titled(CatalogOf(Durable, hdInfo), hdInfo[slot].id, m)
      <4>1. Intact(Durable, hdInfo, hdData) /\ Durable \in SUBSET Slots
        BY <1>3
      <4> QED
        BY ONLY <3>3, <3>6, <3>7, <4>1, CatalogRetitles
    <3>9. hdInfo[slot].id \in Discs
      BY <1>3, <3>3
    <3>10. CatalogOf(Durable, hdInfo)[hdInfo[slot].id] # NoName
      BY <1>3, <3>3, CatalogShows, MarkersAreNew
    <3>11. Catalog!Rename(hdInfo[slot].id, m)
      BY <3>5, <3>8, <3>10 DEF Catalog!Rename, CatalogOf, TitleIn, Titled
    <3> QED
      BY <3>9, <3>11 DEF Catalog!CatalogNext
  <2> QED
    BY <1>1, <2>1, <2>5, <2>6, <2>7 DEF ControlOK, TypeOK
<1>8. SyncHead \/ WriteInfo \/ UNCHANGED <<hdTable, hdInfo>>
  BY DEF Next, UserStep, Answer, ProgramStep, vars, device, ProcessEnds,
         SyncFree, LoadDevice, OpenPartition, OpenFails, InitPartition,
         FormatPartition, FormatFails, GetDiscInfo, ListingDone, ConfirmAdd,
         DeclineAdd,
         AddDisc, AddRefused, DeclineChange, AddBlock, AddFails, RemoveDisc, RenameDisc,
         ExtractDisc, ExtractBlock, ExtractEnds, Quit, FatalRead, Crash
<1> QED
  BY <1>5, <1>6, <1>7, <1>8

\* Every run without a dropped write, a revived disc_info or a torn add is a
\* run of the catalog: whatever crashes interrupt, an operation is done or
\* not begun.
THEOREM PartitionIsCatalog == Spec /\ [](fault = {}) => ImplementsCatalog
<1>1. Consistent /\ Consistent' /\ [Next]_vars /\ fault = {} /\ (fault = {})' =>
        [Catalog!CatalogNext]_(CatalogOf(Durable, hdInfo))
  BY CatalogStep
<1> QED
  BY <1>1, CatalogBegins, ConsistentAlways, PTL
  DEF Spec, ImplementsCatalog, Catalog!CatalogSpec

-----------------------------------------------------------------------------
(* Room for the copy.                                                      *)

\* The sets that are counted are finite.
LEMMA SetsAreFinite ==
  /\ \A S \in SUBSET Slots  : IsFiniteSet(S) /\ Cardinality(S) \in Nat
  /\ \A S \in SUBSET Secs   : IsFiniteSet(S) /\ Cardinality(S) \in Nat
  /\ \A S \in SUBSET Blocks : IsFiniteSet(S) /\ Cardinality(S) \in Nat
<1>1. IsFiniteSet(Slots) /\ IsFiniteSet(Secs) /\ IsFiniteSet(Blocks)
  BY SizesAreNat, FS_Interval DEF Slots, Secs, Blocks
<1> QED
  BY <1>1, FS_Subset, FS_CardinalityType

\* Each turn of the copy loop takes one block and settles one part.
LEMMA RoomNext ==
  TypeOK /\ TypeOK' /\ ControlOK /\ RoomToCopy /\ [Next]_vars => RoomToCopy'
<1> SUFFICES ASSUME TypeOK, TypeOK', ControlOK, RoomToCopy, [Next]_vars
             PROVE  RoomToCopy'
  OBVIOUS
<1> USE DEF memory, locals, listing
<1>1. CASE \E d \in Discs : ConfirmAdd(d)
  BY <1>1 DEF ConfirmAdd, Fits, LoadFreeBlocks, RoomToCopy
<1>2. CASE AddDisc
  <2>1. PICK d \in Discs : info' = Header(d) /\ todo' = UsedSecs[d]
    BY <1>2, OpenedAreImages DEF AddDisc
  <2> QED
    BY <1>2, <2>1 DEF AddDisc, Header, RoomToCopy
<1>3. CASE AddBlock
  <2>1. PICK i \in Lowest(todo), b \in FirstFree : free' = ClearBit(b) /\ todo' = todo \ {i}
    BY <1>3 DEF AddBlock
  <2>2. i \in todo /\ b \in free
    BY <2>1, LowestIsMember DEF FirstFree
  <2>3. IsFiniteSet(todo) /\ Cardinality(todo) \in Nat
    BY SetsAreFinite DEF TypeOK
  <2>4. IsFiniteSet(free) /\ Cardinality(free) \in Nat
    BY SetsAreFinite DEF TypeOK
  <2>5. Cardinality(todo') = Cardinality(todo) - 1
    BY <2>1, <2>2, <2>3, FS_RemoveElement
  <2>6. Cardinality(free') = Cardinality(free) - 1
    BY <2>1, <2>2, <2>4, FS_RemoveElement DEF ClearBit
  <2>7. measured' = info'.id => Cardinality(todo) <= Cardinality(free)
    BY <1>3 DEF AddBlock, RoomToCopy, TypeOK, Info
  <2>8. pc' \in {"writeInfo", "copy"}
    BY <1>3 DEF AddBlock
  <2> QED
    BY <2>3, <2>4, <2>5, <2>6, <2>7, <2>8 DEF RoomToCopy
<1>4. CASE UNCHANGED vars
  BY <1>4 DEF vars, RoomToCopy
<1>5. CASE SyncHead \/ SyncFree \/ OpenPartition \/ OpenFails \/ FormatPartition
           \/ FormatFails \/ ListingDone \/ AddFails \/ WriteInfo \/ ExtractEnds
  BY <1>5 DEF SyncHead, SyncFree, OpenPartition, OpenFails, FormatPartition,
     FormatFails, ListingDone, AddFails, WriteInfo, ExtractEnds, StartListing, RoomToCopy
<1>6. CASE GetDiscInfo \/ ExtractBlock
  BY <1>6 DEF GetDiscInfo, ExtractBlock, RoomToCopy
<1>7. CASE AddRefused \/ DeclineAdd \/ FatalRead \/ Crash
  BY <1>7 DEF AddRefused, DeclineAdd, FatalRead, Crash, ProcessEnds, StartListing, RoomToCopy
<1>8. CASE LoadDevice \/ InitPartition \/ DeclineChange \/ Quit
  BY <1>8 DEF LoadDevice, InitPartition, DeclineChange, Quit, ProcessEnds, StartListing,
     RoomToCopy
<1>9. ASSUME NEW d \in Discs, \/ RemoveDisc(d) \/ ExtractDisc(d)
                              \/ \E m \in Names : RenameDisc(d, m)
      PROVE  RoomToCopy'
  BY <1>9 DEF RemoveDisc, ExtractDisc, RenameDisc, RoomToCopy
<1> QED
  BY <1>1, <1>2, <1>3, <1>4, <1>5, <1>6, <1>7, <1>8, <1>9
  DEF Next, UserStep, Answer, ProgramStep

\* An add whose image is the one that was measured has room to its last block,
\* whatever failed or was cancelled before it.  An image that could not be
\* opened to be measured, or that is another one by then, may have none.
THEOREM SpaceCheckAlwaysHolds == Spec => []SpaceCheckHolds
<1>1. Init => RoomToCopy
  BY DEF Init, RoomToCopy
<1>2. RoomToCopy => SpaceCheckHolds
  BY DEF RoomToCopy, SpaceCheckHolds
<1> QED
  BY <1>1, <1>2, TypeInit, TypeNext, ControlInit, ControlNext, RoomNext, PTL DEF Spec

-----------------------------------------------------------------------------
(* A partition on which nothing fails.                                     *)

\* The lowest entries of a table are fewer than all of it.
LEMMA RankBelowCount ==
  ASSUME NEW T \in SUBSET Slots, NEW s \in T
  PROVE  /\ Cardinality({t \in T : t < s}) \in Nat
         /\ Cardinality({t \in T : t < s}) < Cardinality(T)
<1>1. IsFiniteSet(T) /\ Cardinality(T) \in Nat
  BY SetsAreFinite
<1>2. {t \in T : t < s} \subseteq T \ {s}
  BY DEF Slots
<1>3. IsFiniteSet(T \ {s}) /\ Cardinality(T \ {s}) = Cardinality(T) - 1
  BY <1>1, FS_RemoveElement
<1>4. IsFiniteSet({t \in T : t < s})
      /\ Cardinality({t \in T : t < s}) <= Cardinality(T \ {s})
  BY <1>2, <1>3, FS_Subset
<1>5. Cardinality({t \in T : t < s}) \in Nat
  BY <1>4, FS_CardinalityType
<1> QED
  BY <1>1, <1>3, <1>4, <1>5

\* In the beginning nothing is lost.
LEMMA UndisturbedInit == Init => Undisturbed
  BY DEF Init, Undisturbed, RoomToCopy, NothingLost, NothingLostOnDevice,
     HeadUpToDate, FreeUpToDate, ListGrows

\* Nothing goes wrong by itself.
LEMMA NoFaultNext ==
  ASSUME NothingFails, TypeOK, ControlOK, Undisturbed, Integrity, [Next]_vars
  PROVE  fault' = {} /\ ~AddFails
<1>1. ~AddFails
  <2> SUFFICES ASSUME AddFails PROVE FALSE
    OBVIOUS
  <2>1. pc = "copy" /\ free = {} /\ todo # {} /\ measured = info.id
    BY DEF AddFails, NothingFails, Undisturbed
  <2>2. IsFiniteSet(todo) /\ Cardinality(todo) \in Nat
    BY SetsAreFinite DEF TypeOK
  <2>3. Cardinality(free) = 0 /\ Cardinality(todo) # 0
    BY <2>1, <2>2, FS_EmptySet
  <2> QED
    BY <2>1, <2>2, <2>3 DEF Undisturbed, RoomToCopy
<1>2. Landings = {TRUE}
  BY DEF Landings, NothingFails
<1>3. CASE SyncHead \/ SyncFree \/ AddBlock \/ WriteInfo
  BY <1>1, <1>2, <1>3 DEF SyncHead, SyncFree, AddBlock, WriteInfo, Blame, Undisturbed
<1>4. CASE UNCHANGED fault
  BY <1>1, <1>4 DEF Undisturbed
<1>5. ~Crash
  BY DEF Crash, NothingFails
<1> QED
  BY <1>1, <1>3, <1>4, <1>5
  DEF Next, UserStep, Answer, ProgramStep, LoadDevice, InitPartition, ConfirmAdd,
      RemoveDisc, RenameDisc, DeclineChange, ExtractDisc, Quit, FatalRead, OpenPartition,
      OpenFails, FormatPartition, FormatFails, GetDiscInfo, ListingDone, ExtractBlock,
      ExtractEnds, AddDisc, AddRefused, DeclineAdd, vars

\* Between two operations, and while one only reads, memory and device show
\* the same partition.
LEMMA AtRest ==
  ASSUME TypeOK, ControlOK, Undisturbed, mounted, job \in {"none", "load", "format", "rename", "extract"}
  PROVE  /\ table = hdTable /\ LoadedFree = hdFree
         /\ Underway = {} /\ TakenSoFar = {} /\ Live = table
         /\ \A s \in table : hdInfo[s].magic
         /\ Blocks \subseteq Accounted(table, LoadedFree)
<1>1. Underway = {} /\ TakenSoFar = {}
  BY DEF Underway, TakenSoFar
<1>2. \A s \in table : hdInfo[s].magic
  BY <1>1 DEF Undisturbed, NothingLost
<1>3. Live = table
  BY <1>1, <1>2 DEF Live
<1>4. table = hdTable
  BY DEF Undisturbed, HeadUpToDate
<1>5. LoadedFree = hdFree
  BY DEF Undisturbed, FreeUpToDate, LoadedFree
<1> QED
  BY <1>1, <1>2, <1>3, <1>4, <1>5 DEF Undisturbed, NothingLost

\* A step between two states of rest that leaves the partition as it is.
Settled == /\ UNCHANGED <<device, mounted, table>> /\ LoadedFree' = LoadedFree
           /\ {job, job'} \subseteq {"none", "load", "format", "rename", "extract"}

LEMMA SettledStays ==
  ASSUME TypeOK, ControlOK, Undisturbed, mounted, Settled
  PROVE  Live' = Live /\ NothingLost' /\ NothingLostOnDevice' /\ HeadUpToDate'
<1>1. Underway' = {} /\ TakenSoFar' = {} /\ LoadedFree' = LoadedFree
  BY DEF Settled, Underway, TakenSoFar
<1>2. Live' = Live
  BY <1>1, AtRest DEF Settled, Live, device
<1> QED
  BY <1>1, <1>2, AtRest
  DEF Settled, device, NothingLost, NothingLostOnDevice, HeadUpToDate, Accounted

\* Without a swap the image that is copied is the one that was measured.
LEMMA CopiesTheMeasured ==
  ASSUME NothingFails, TypeOK, pc = "copy" => measured = info.id, [Next]_vars
  PROVE  pc' = "copy" => measured' = info'.id
<1> SUFFICES ASSUME pc' = "copy" PROVE measured' = info'.id
  OBVIOUS
<1> USE DEF memory, locals, listing
<1>1. CASE AddDisc
  <2>1. PICK d \in Opened(measured) : info' = Header(d)
    BY <1>1 DEF AddDisc
  <2> QED
    BY <1>1, <2>1 DEF AddDisc, Opened, NothingFails, Header
<1>2. CASE AddBlock
  BY <1>2 DEF AddBlock, TypeOK, Info
<1>3. CASE UNCHANGED vars
  BY <1>3 DEF vars
<1>4. ~(SyncHead \/ SyncFree \/ OpenPartition \/ OpenFails \/ FormatPartition
          \/ FormatFails \/ ListingDone \/ AddFails \/ WriteInfo \/ ExtractEnds
          \/ GetDiscInfo \/ ExtractBlock)
  BY DEF SyncHead, SyncFree, OpenPartition, OpenFails, FormatPartition, FormatFails,
     ListingDone, AddFails, WriteInfo, ExtractEnds, GetDiscInfo, ExtractBlock, StartListing
<1>5. ~(AddRefused \/ DeclineAdd \/ FatalRead \/ Crash)
  BY DEF AddRefused, DeclineAdd, FatalRead, Crash, ProcessEnds, StartListing
<1>6. ~UserStep
  BY DEF UserStep, LoadDevice, InitPartition, ConfirmAdd, RemoveDisc, RenameDisc,
     DeclineChange, ExtractDisc, Quit, ProcessEnds, StartListing
<1> QED
  BY <1>1, <1>2, <1>3, <1>4, <1>5, <1>6 DEF Next, Answer, ProgramStep

\* Every step of such a partition keeps it so.
LEMMA UndisturbedNext ==
  ASSUME NothingFails, TypeOK, TypeOK', ControlOK, Integrity, Undisturbed, [Next]_vars
  PROVE  Undisturbed'
<1> USE DEF memory, locals, listing, device
<1>1. /\ fault' = {} /\ RoomToCopy' /\ ~AddFails
      /\ pc' = "copy" => measured' = info'.id
  BY NoFaultNext, RoomNext, CopiesTheMeasured DEF Undisturbed
<1> DEFINE Rest == /\ pc = "copy" => todo # {}
                   /\ NothingLost
                   /\ NothingLostOnDevice
                   /\ HeadUpToDate
                   /\ FreeUpToDate
                   /\ ListGrows
<1> SUFFICES Rest'
  BY <1>1 DEF Undisturbed
<1>2. CASE SyncHead
  <2>1. /\ hdTable' = table /\ UNCHANGED <<hdFree, hdInfo, memory, job, slot, info>>
        /\ pc = "syncHead" /\ pc' = "syncFree" /\ mounted'
    BY <1>2 DEF SyncHead, NothingFails, Landings, ControlOK
  <2>2. Underway' = Underway /\ TakenSoFar' = TakenSoFar
    BY <2>1 DEF Underway, TakenSoFar
  <2>3. Live' = Live /\ LoadedFree' = LoadedFree
    BY <2>1, <2>2 DEF Live, LoadedFree
  <2>4. NothingLost'
    BY <2>1, <2>2, <2>3 DEF Undisturbed, NothingLost, Accounted
  <2> QED
    BY <2>1, <2>4
    DEF NothingLostOnDevice, HeadUpToDate, FreeUpToDate, ListGrows, Undisturbed
<1>3. CASE SyncFree
  <2>1. /\ hdFree' = SyncedFree /\ UNCHANGED <<hdMagic, hdTable, hdInfo>>
        /\ pc = "syncFree" /\ mounted
    BY <1>3 DEF SyncFree, NothingFails, Landings, ControlOK
  <2>2. hdFree' = LoadedFree
    BY <2>1 DEF SyncedFree, LoadedFree
  <2>3. table = hdTable /\ Underway = {} /\ TakenSoFar = {}
    BY <2>1 DEF Underway, TakenSoFar, Undisturbed, HeadUpToDate
  <2>4. Live = table /\ \A s \in table : hdInfo[s].magic
    BY <2>1, <2>3 DEF Live, Undisturbed, NothingLost
  <2>5. Blocks \subseteq Accounted(table, LoadedFree)
    BY <2>1, <2>3, <2>4 DEF Undisturbed, NothingLost
  <2>6. CASE job \in {"load", "format"}
    <3>1. ~mounted' /\ pc' \in {"open", "format"}
      BY <1>3, <2>6 DEF SyncFree
    <3>2. NothingLostOnDevice'
      BY <2>1, <2>2, <2>3, <2>4, <2>5 DEF NothingLostOnDevice, Accounted
    <3> QED
      BY <3>1, <3>2 DEF NothingLost, HeadUpToDate, FreeUpToDate, ListGrows
  <2>7. CASE job \notin {"load", "format"}
    <3>1. /\ UNCHANGED memory
          /\ \/ pc' = "syncHead" /\ job' = "load"
             \/ pc' = "list" /\ job' = "none" /\ StartListing(table)
      BY <1>3, <2>7 DEF SyncFree, EndJob, StartListing
    <3>2. Underway' = {} /\ TakenSoFar' = {} /\ Live' = table
      BY <2>1, <2>4, <3>1 DEF Underway, TakenSoFar, Live
    <3>3. LoadedFree' = LoadedFree /\ (loaded' => free' = hdFree')
      BY <2>1, <2>2, <3>1 DEF LoadedFree
    <3>4. NothingLost'
      BY <2>1, <2>4, <2>5, <3>1, <3>2, <3>3 DEF NothingLost, Accounted
    <3>5. ListGrows'
      BY <3>1, TableCount DEF ListGrows, StartListing, TypeOK
    <3> QED
      BY <2>1, <2>3, <3>1, <3>3, <3>4, <3>5
      DEF NothingLostOnDevice, HeadUpToDate, FreeUpToDate
  <2> QED
    BY <2>6, <2>7
<1>4. CASE LoadDevice \/ InitPartition \/ FormatFails
  <2>1. /\ UNCHANGED device /\ UNCHANGED memory /\ job \in {"none", "format"}
        /\ job' \in {"load", "format"} /\ pc' \in {"syncHead", "open", "format"}
    BY <1>4 DEF LoadDevice, InitPartition, FormatFails, ControlOK, TypeOK
  <2>2. NothingLost' /\ HeadUpToDate' /\ FreeUpToDate'
    <3> SUFFICES ASSUME mounted PROVE NothingLost' /\ HeadUpToDate' /\ FreeUpToDate'
      BY <2>1 DEF NothingLost, HeadUpToDate, FreeUpToDate
    <3>1. Underway' = {} /\ TakenSoFar' = {} /\ Live' = Live /\ LoadedFree' = LoadedFree
      BY <2>1, AtRest DEF Underway, TakenSoFar, Live, LoadedFree
    <3> QED
      BY <2>1, <3>1, AtRest
      DEF NothingLost, HeadUpToDate, FreeUpToDate, Accounted, LoadedFree
  <2> QED
    BY <2>1, <2>2 DEF Undisturbed, NothingLostOnDevice, Accounted, ListGrows
<1>5. CASE OpenPartition
  <2>1. /\ UNCHANGED device /\ mounted' /\ table' = hdTable /\ ~loaded' /\ hdMagic
        /\ StartListing(hdTable) /\ job' = "none" /\ ~mounted
    BY <1>5 DEF OpenPartition, EndJob, ControlOK
  <2>2. \A s \in hdTable : hdInfo[s].magic
    BY <2>1 DEF Undisturbed, NothingLostOnDevice
  <2>3. Underway' = {} /\ TakenSoFar' = {} /\ Live' = hdTable /\ LoadedFree' = hdFree
    BY <2>1, <2>2 DEF Underway, TakenSoFar, Live, LoadedFree
  <2>4. NothingLost'
    BY <2>1, <2>2, <2>3 DEF NothingLost, Undisturbed, NothingLostOnDevice, Accounted
  <2>5. ListGrows' /\ pc' = "list"
    BY <2>1, TableCount DEF ListGrows, StartListing, TypeOK
  <2> QED
    BY <2>1, <2>4, <2>5 DEF NothingLostOnDevice, HeadUpToDate, FreeUpToDate
<1>6. CASE OpenFails
  <2>1. UNCHANGED device /\ ~mounted' /\ ~mounted /\ pc' = "idle"
    BY <1>6 DEF OpenFails, ControlOK
  <2> QED
    BY <2>1 DEF Undisturbed, NothingLost, NothingLostOnDevice, HeadUpToDate, FreeUpToDate,
       ListGrows, Accounted
<1>7. CASE FormatPartition
  <2>1. /\ mounted' /\ table' = {} /\ free' = Blocks /\ loaded' /\ job' = "reset"
        /\ pc' = "syncHead"
    BY <1>7 DEF FormatPartition
  <2> QED
    BY <2>1 DEF NothingLost, NothingLostOnDevice, HeadUpToDate, FreeUpToDate, ListGrows,
       Accounted, LoadedFree
<1>8. CASE GetDiscInfo
  <2>1. /\ pc = "list" /\ pc' = "list" /\ job = "none" /\ mounted /\ idx' = idx + 1
        /\ UNCHANGED <<device, mounted, free, loaded, job, slot, info, count>>
    BY <1>8 DEF GetDiscInfo, NextIndex, ControlOK, TypeOK
  <2>2. \A s \in NthDisc(idx) : MagicAt(s)
    BY <2>1, AtRest DEF NthDisc, MagicAt
  <2>3. table' = table /\ listed' = listed \cup {hdInfo[s].id : s \in NthDisc(idx)}
    BY <1>8, <2>2 DEF GetDiscInfo
  <2>4. ASSUME NEW s \in table', Cardinality({t \in table' : t < s}) < idx'
        PROVE  hdInfo'[s].id \in listed'
    <3>1. Cardinality({t \in table : t < s}) \in Nat /\ s \in table
      BY <2>3, <2>4, RankBelowCount DEF TypeOK
    <3>2. CASE Cardinality({t \in table : t < s}) = idx
      BY <2>1, <2>3, <3>1, <3>2 DEF NthDisc
    <3>3. CASE Cardinality({t \in table : t < s}) < idx
      BY <2>1, <2>3, <3>1, <3>3 DEF Undisturbed, ListGrows
    <3> QED
      BY <2>1, <2>3, <2>4, <3>1, <3>2, <3>3 DEF TypeOK
  <2>5. ListGrows'
    BY <2>1, <2>3, <2>4 DEF Undisturbed, ListGrows
  <2>6. /\ Live' = Live /\ Underway' = Underway /\ TakenSoFar' = TakenSoFar
        /\ LoadedFree' = LoadedFree
    BY <2>1, <2>3 DEF Live, Underway, TakenSoFar, LoadedFree
  <2>7. NothingLost'
    BY <2>1, <2>3, <2>6 DEF Undisturbed, NothingLost, Accounted
  <2> QED
    BY <2>1, <2>3, <2>5, <2>7
    DEF Undisturbed, NothingLostOnDevice, HeadUpToDate, FreeUpToDate
<1>9. CASE ListingDone \/ \E d \in Discs : ConfirmAdd(d)
  <2>1. /\ UNCHANGED <<device, mounted, table, job, listed>> /\ LoadFreeBlocks
        /\ pc \in {"list", "idle"} /\ pc' \in {"idle", "confirm"}
        /\ pc = "list" => idx >= count
    BY <1>9 DEF ListingDone, ConfirmAdd
  <2>2. mounted /\ job = "none"
    BY <1>9, <2>1 DEF ListingDone, ConfirmAdd, ControlOK, TypeOK
  <2>3. Settled /\ FreeUpToDate'
    BY <2>1, <2>2, AtRest DEF Settled, LoadFreeBlocks, LoadedFree, FreeUpToDate
  <2>4. Ids(Live) \subseteq listed
    <3>1. CASE pc = "list"
      <4>1. ASSUME NEW s \in table PROVE hdInfo[s].id \in listed
        <5>1. /\ Cardinality({t \in table : t < s}) \in Nat
              /\ Cardinality({t \in table : t < s}) < Cardinality(table)
              /\ Cardinality(table) \in Nat
          BY RankBelowCount, TableCount DEF TypeOK
        <5> QED
          BY <2>1, <3>1, <5>1 DEF Undisturbed, ListGrows, TypeOK
      <4> QED
        BY <4>1 DEF Ids, Live
    <3>2. CASE pc = "idle"
      BY <2>2, <3>2 DEF Undisturbed, ListGrows
    <3> QED
      BY <2>1, <3>1, <3>2
  <2>5. ListGrows'
    BY <2>1, <2>2, <2>3, <2>4, SettledStays DEF ListGrows, Ids
  <2> QED
    BY <2>1, <2>2, <2>3, <2>5, SettledStays
<1>10. CASE \/ DeclineAdd \/ AddRefused \/ DeclineChange
            \/ (\E d \in Discs : ExtractDisc(d)) \/ ExtractBlock \/ ExtractEnds
            \/ (\E d \in Discs, m \in Names : RenameDisc(d, m))
  <2>1. /\ UNCHANGED <<device, mounted, table, free, loaded>> /\ mounted
        /\ job \in {"none", "extract"} /\ job' \in {"none", "extract", "rename"}
        /\ \/ pc \in {"idle", "confirm", "extract"} /\ pc' \in {"idle", "extract"} /\ listed' = listed
           \/ pc' = "writeInfo"
           \/ StartListing(table)
    BY <1>10 DEF DeclineAdd, AddRefused, DeclineChange, ExtractDisc, ExtractBlock,
       ExtractEnds, RenameDisc, EndJob, ControlOK, TypeOK
  <2>2. Settled /\ FreeUpToDate'
    BY <2>1 DEF Settled, LoadedFree, Undisturbed, FreeUpToDate
  <2>3. ListGrows' /\ pc' # "copy"
    BY <2>1, <2>2, SettledStays, TableCount
    DEF Undisturbed, ListGrows, StartListing, Ids, TypeOK
  <2> QED
    BY <2>1, <2>2, <2>3, SettledStays
<1>11. CASE AddDisc
  <2>1. PICK s \in EmptySlot : table' = table \cup {s} /\ slot' = s
    BY <1>11 DEF AddDisc
  <2>2. /\ UNCHANGED <<device, mounted, free, loaded>> /\ mounted /\ job = "none"
        /\ pc' = "copy" /\ job' = "add"
    BY <1>11 DEF AddDisc, ControlOK, TypeOK
  <2>8. PICK d \in Discs : info' = Header(d) /\ todo' = UsedSecs[d]
    BY <1>11, OpenedAreImages DEF AddDisc
  <2>3. s \notin table
    BY <2>1, LowestIsMember DEF EmptySlot
  <2>4. /\ Underway' = {s} /\ LoadedFree' = LoadedFree /\ Live' = table
        /\ \A t \in table : hdInfo[t].magic
    BY <2>1, <2>2, <2>3, AtRest DEF Underway, LoadedFree, Live
  <2>5. NothingLost'
    BY <2>1, <2>2, <2>4, AtRest DEF NothingLost, Accounted
  <2>6. HeadUpToDate'
    BY <2>1, <2>2, <2>3, AtRest DEF HeadUpToDate
  <2>7. todo' # {}
    BY <2>8, ImagesAreTyped
  <2> QED
    BY <2>2, <2>5, <2>6, <2>7 DEF NothingLostOnDevice, FreeUpToDate, ListGrows
<1>12. CASE AddBlock
  <2>1. PICK i \in Lowest(todo), b \in FirstFree :
          free' = free \ {b} /\ info' = [info EXCEPT !.wlba[i] = b]
    BY <1>12 DEF AddBlock, ClearBit
  <2>2. /\ UNCHANGED <<hdMagic, hdTable, hdInfo, mounted, table, loaded, slot>>
        /\ pc = "copy" /\ pc' \in {"copy", "writeInfo"} /\ mounted
        /\ job = "add" /\ job' = "add" /\ (pc' = "copy" => todo' # {})
    BY <1>12 DEF AddBlock, ControlOK, TypeOK
  <2>3. i \in todo /\ i \in Secs /\ b # 0 /\ loaded
    BY <2>1, <2>2, LowestIsMember DEF FirstFree, TypeOK, Blocks, ControlOK
  <2>4. info.wlba[i] = 0
    BY <2>2, <2>3 DEF Integrity, CopySound, PartCopied
  <2>5. Owned(info) \cup {b} \subseteq Owned(info')
    BY <2>1, <2>3, <2>4 DEF Owned, TypeOK, Info
  <2>6. Live' = Live /\ Underway' = Underway
    BY <2>2 DEF Live, Underway
  <2>7. NothingLost'
    BY <2>1, <2>2, <2>3, <2>5, <2>6
    DEF Undisturbed, NothingLost, Accounted, TakenSoFar, LoadedFree
  <2> QED
    BY <2>2, <2>7
    DEF Undisturbed, NothingLostOnDevice, HeadUpToDate, FreeUpToDate, ListGrows
<1>13. CASE \E d \in Discs : RemoveDisc(d)
  <2>1. PICK d \in Discs : RemoveDisc(d)
    BY <1>13
  <2>2. PICK s \in SlotOf(d) : slot' = s /\ free' = LoadedFree \cup Owned(hdInfo[s])
    BY <2>1 DEF RemoveDisc, SetBits
  <2>3. /\ UNCHANGED <<device, mounted, table>> /\ mounted /\ job = "none"
        /\ pc' = "writeInfo" /\ job' = "remove" /\ loaded'
    BY <2>1 DEF RemoveDisc, ControlOK, TypeOK
  <2>4. Underway' = {s} /\ Live' = table \ {s} /\ TakenSoFar' = {}
    BY <2>2, <2>3, AtRest DEF Underway, Live, TakenSoFar
  <2>5. NothingLost'
    BY <2>2, <2>3, <2>4, AtRest DEF NothingLost, Accounted, LoadedFree
  <2> QED
    BY <2>3, <2>5, AtRest DEF NothingLostOnDevice, HeadUpToDate, FreeUpToDate, ListGrows
<1>14. CASE WriteInfo
  <2>1. /\ pc = "writeInfo" /\ pc' = "syncHead" /\ mounted /\ job \in {"add", "remove", "rename"}
        /\ UNCHANGED <<hdMagic, hdTable, hdFree, mounted, free, loaded, job, slot>>
        /\ hdInfo' = [hdInfo EXCEPT ![slot] = info]
        /\ table' = IF job = "remove" THEN table \ {slot} ELSE table
    BY <1>14 DEF WriteInfo, NothingFails, Landings, ControlOK, TypeOK
  <2>2. Underway' = {} /\ TakenSoFar' = {} /\ LoadedFree' = LoadedFree
    BY <2>1 DEF Underway, TakenSoFar, LoadedFree
  <2>3. slot \in table /\ slot \in Slots
    BY <2>1 DEF Integrity, WriteSound, Live, ControlOK, TypeOK
  <2>4. \A s \in Slots \ {slot} : hdInfo'[s] = hdInfo[s]
    BY <2>1 DEF TypeOK
  <2>5. hdInfo'[slot] = info
    BY <2>1, <2>3 DEF TypeOK
  <2>6. HeadUpToDate' /\ FreeUpToDate' /\ ListGrows' /\ NothingLostOnDevice'
    BY <2>1 DEF Undisturbed, HeadUpToDate, FreeUpToDate, ListGrows, NothingLostOnDevice
  <2>7. CASE job = "add"
    <3>1. info.magic
      BY <2>1, <2>7 DEF NothingFails, Integrity, CopySound, PartCopied
    <3>2. Live' = Live \cup {slot} /\ slot \notin Live /\ Underway = {slot}
      BY <2>1, <2>2, <2>3, <2>4, <2>5, <2>7, <3>1 DEF Live, Underway, TypeOK
    <3>3. TakenSoFar = Owned(info)
      BY <2>1, <2>7 DEF TakenSoFar
    <3>4. NothingLost'
      BY <2>1, <2>2, <2>3, <2>4, <2>5, <2>7, <3>1, <3>2, <3>3
      DEF Undisturbed, NothingLost, Accounted, Live, TypeOK
    <3> QED
      BY <2>1, <2>6, <3>4
  <2>8. CASE job = "remove"
    <3>1. Live' = Live /\ slot \notin Live /\ Underway = {slot} /\ TakenSoFar = {}
      BY <2>1, <2>2, <2>3, <2>4, <2>8 DEF Live, Underway, TakenSoFar, TypeOK
    <3>2. NothingLost'
      BY <2>1, <2>2, <2>3, <2>4, <2>8, <3>1
      DEF Undisturbed, NothingLost, Accounted, Live, TypeOK
    <3> QED
      BY <2>1, <2>6, <3>2
  <2>9. CASE job = "rename"
    <3>1. PICK m \in Names : info = [hdInfo[slot] EXCEPT !.name = m]
      BY <2>1, <2>9 DEF Integrity, WriteSound
    <3>2. info.magic = hdInfo[slot].magic /\ info.wlba = hdInfo[slot].wlba
      BY <2>3, <3>1 DEF TypeOK, Info
    <3>3. \A s \in table : /\ hdInfo'[s].magic = hdInfo[s].magic
                           /\ Owned(hdInfo'[s]) = Owned(hdInfo[s])
      BY <2>4, <2>5, <3>2 DEF Owned, TypeOK
    <3>4. Underway = {} /\ TakenSoFar = {} /\ Live' = Live /\ Live \subseteq table
      BY <2>1, <2>2, <2>9, <3>3 DEF Live, Underway, TakenSoFar
    <3>5. NothingLost'
      BY <2>1, <2>2, <2>9, <3>3, <3>4 DEF Undisturbed, NothingLost, Accounted
    <3> QED
      BY <2>1, <2>6, <3>5
  <2> QED
    BY <2>1, <2>7, <2>8, <2>9
<1>15. CASE Quit
  <2>1. UNCHANGED device /\ ~mounted' /\ pc' = "open" /\ job = "none"
    BY <1>15 DEF Quit, ProcessEnds, ControlOK, TypeOK
  <2>2. NothingLostOnDevice'
    BY <2>1, AtRest DEF Undisturbed, NothingLostOnDevice, Accounted
  <2> QED
    BY <2>1, <2>2 DEF NothingLost, HeadUpToDate, FreeUpToDate, ListGrows
<1>16. CASE UNCHANGED vars
  <2>1. /\ Live' = Live /\ Underway' = Underway /\ TakenSoFar' = TakenSoFar
        /\ LoadedFree' = LoadedFree
    BY <1>16 DEF vars, Live, Underway, TakenSoFar, LoadedFree
  <2> QED
    BY <1>16, <2>1 DEF vars, Undisturbed, NothingLost, NothingLostOnDevice, HeadUpToDate,
       FreeUpToDate, ListGrows, Accounted, Ids
<1> QED
  BY <1>1, <1>2, <1>3, <1>4, <1>5, <1>6, <1>7, <1>8, <1>9, <1>10, <1>11, <1>12, <1>13,
     <1>14, <1>15, <1>16
  DEF Next, UserStep, Answer, ProgramStep, FatalRead, Crash, NothingFails

\* In such a partition every state is sound and nothing has been lost.
LEMMA UndisturbedAlways == NothingFails /\ Spec => []Undisturbed
<1> SUFFICES ASSUME NothingFails PROVE Spec => []Undisturbed
  OBVIOUS
<1>1. Consistent /\ Consistent' /\ Undisturbed /\ [Next]_vars => Undisturbed'
  BY UndisturbedNext DEF Consistent, Safely, Undisturbed
<1> QED
  BY <1>1, UndisturbedInit, ConsistentAlways, PTL DEF Spec

\* Add and remove together lose no space: while nothing fails, every block is
\* free or owned whenever the program waits for the user.
THEOREM NothingLeaks == NothingFails /\ Spec => []NoLeak
<1>1. Consistent /\ Undisturbed => NoLeak
  <2> SUFFICES ASSUME TypeOK, ControlOK, Undisturbed, pc = "idle", mounted
               PROVE  Accounted(Live, LoadedFree) = Blocks
    BY DEF NoLeak, Accounted, Consistent
  <2>1. job = "none"
    BY DEF ControlOK, TypeOK
  <2>2. Accounted(Live, LoadedFree) \subseteq Blocks
    BY OwnedAreBlocks DEF Accounted, LoadedFree, Live, TypeOK
  <2> QED
    BY <2>1, <2>2, AtRest
<1> QED
  BY <1>1, UndisturbedAlways, ConsistentAlways, PTL

\* While nothing fails, the list shows every disc of the partition.
THEOREM ListIsComplete == NothingFails /\ Spec => []ListComplete
<1>1. Undisturbed => ListComplete
  BY DEF Undisturbed, ListGrows, ListComplete
<1> QED
  BY <1>1, UndisturbedAlways, PTL

=============================================================================
