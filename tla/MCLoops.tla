------------------------------ MODULE MCLoops ------------------------------
(***************************************************************************)
(* The parts of libwbfs that are sequential algorithms of their own, one   *)
(* at a time: subject says which of them runs, and the others rest.        *)
(***************************************************************************)
EXTENDS FreeBlocks, FileTable, DiscRead, WbfsGeometry

VARIABLE subject

TableOf(s) == [w \in 0 .. Len(s) - 1 |-> s[w + 1]]

\* A disc in order, one whose blocks are scattered, and two with holes.  Five
\* blocks of two sectors are long enough to reach the bound of the read
\* loop, eight sectors.
MCTables == {TableOf(<<1, 2, 3, 4, 5>>), TableOf(<<3, 4, 1, 6, 2>>),
             TableOf(<<1, 2, 0, 0, 3>>), TableOf(<<0, 6, 5, 0, 1>>)}

\* Devices from one block to 2^31 sectors: where the size of a block changes,
\* where the number of blocks is a multiple of 32, and where it is not.
MCQuotients == {4, 5, 7, 1000, 8191, 8192, 16383, 16384, 32767, 32768, 65535}
MCRests     == {0, 4095, 4096, 32767}
MCDevices   == [g : MCQuotients, r : MCRests, ssz : {512}]

\* The one state of an algorithm that is not the subject.
TableRests  == freeblks = [w \in Words |-> {}] /\ TableInit
WalkRests   == n = 1 /\ wanted = {} /\ WalkInit
ReadRests   == table = TableOf(<<1, 2, 3, 4, 5>>) /\ offset = 0 /\ want = 0 /\ ReadInit
LayoutRests == dev = [g |-> 4, r |-> 0, ssz |-> 512] /\ LayoutInit

LoopsInit ==
  \/ subject = "table"  /\ TableInit  /\ WalkRests /\ ReadRests /\ LayoutRests
  \/ subject = "walk"   /\ TableRests /\ WalkInit  /\ ReadRests /\ LayoutRests
  \/ subject = "read"   /\ TableRests /\ WalkRests /\ ReadInit  /\ LayoutRests
  \/ subject = "layout" /\ TableRests /\ WalkRests /\ ReadRests /\ LayoutInit

LoopsNext ==
  /\ UNCHANGED subject
  /\ \/ /\ subject = "table" /\ TableNext
        /\ UNCHANGED <<walk_vars, read_vars, layout_vars>>
     \/ /\ subject = "walk" /\ WalkNext
        /\ UNCHANGED <<table_vars, read_vars, layout_vars>>
     \/ /\ subject = "read" /\ ReadNext
        /\ UNCHANGED <<table_vars, walk_vars, layout_vars>>
     \/ /\ subject = "layout" /\ LayoutNext
        /\ UNCHANGED <<table_vars, walk_vars, read_vars>>

LoopsSpec ==
  LoopsInit /\ [][LoopsNext]_<<subject, table_vars, walk_vars, read_vars, layout_vars>>
=============================================================================
