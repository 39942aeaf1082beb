------------------------------ MODULE DiscCopy ------------------------------
(***************************************************************************)
(* What wbfs_add_disc has the parser do with an image: wd_build_disc_usage *)
(* says which sectors are copied, and in the copy of the first block       *)
(* wd_fix_partition_table cuts the table down.  Both get the selector of   *)
(* the add, and they have to agree.                                        *)
(***************************************************************************)
EXTENDS WiiDisc, PartitionTable

TableOf(d) ==
  [k \in DOMAIN d.parts |-> [at |-> d.parts[k].raw, type |-> d.parts[k].type]]

\* The tables of the images are ones that PartitionTable knows.
ASSUME TablesAreKnown ==
  \A d \in Discs : /\ TableOf(d) \in [1 .. Len(d.parts) -> Entries]
                   /\ Len(d.parts) \in 0 .. MaxParts

copy_vars == <<vars, fix_vars>>

\* The words at 0x40000 are those of the image; a table before that place is
\* far behind it for the unsigned comparison.
CopyInit ==
  /\ Init
  /\ selector = part_sel
  /\ inside = (disc.table \in 65536 .. 65616)
  /\ original = TableOf(disc)
  /\ b = original
  /\ number = Len(original)
  /\ step = "check" /\ from = 0 /\ to = 0

Build == Next /\ UNCHANGED fix_vars

\* An image that is not a Wii disc's is copied too, as far as it was marked.
Fix == pc \in {"done", "notwii"} /\ FixNext /\ UNCHANGED vars

CopyNext == Build \/ Fix

CopySpec == CopyInit /\ [][CopyNext]_copy_vars

-----------------------------------------------------------------------------
\* "effectively remove not copied partition from the partition table"
\* (wiidisc.h:58): of every partition that the fixed table lists, the copy
\* has the block it begins in, whatever the size of a block.
ListedIsCopied ==
  step = "done" =>
    \A k \in 1 .. number, size \in BlockSizes :
      Copied((b[k].at \div SectorWords) \div size, size)
=============================================================================
