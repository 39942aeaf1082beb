---------------------------- MODULE WbfsGeometry ----------------------------
(***************************************************************************)
(* How a partition is laid out on a device: get_capacity of                *)
(* libwbfs_unix.c and the arithmetic of wbfs_open_partition in libwbfs.c,  *)
(* with the sizes of the code.                                             *)
(*                                                                         *)
(* A number of device sectors is a record of its quotient g by 0x8000 and  *)
(* the rest r, since 32-bit words of sectors do not fit TLC's integers.    *)
(***************************************************************************)
EXTENDS Integers

CONSTANT Devices   \* [g, r, ssz]: 512-byte sectors, and the size of its own

Quotients      == 0 .. 131071   \* of a word
SmallQuotients == 0 .. 65535    \* of an int that is not negative
Rests          == 0 .. 32767
U16            == {n \in Nat : n < 65536}
NoBlock        == 65535   \* alloc_block's ~0 in 16 bits

ASSUME DevicesHaveWords ==
  Devices \subseteq [g : Quotients, r : Rests, ssz : {512, 4096}]

VARIABLES
  dev,    \* the device, or what its partition was made to be
  head,   \* the head on the device: [n, hd_sec_sz, sz_s], or NoHead
  p       \* the open partition, or NoPartition

layout_vars == <<dev, head, p>>

NoHead      == [n |-> [g |-> 0, r |-> 0], hd_sec_sz |-> 0, sz_s |-> 0]
NoPartition == [open |-> FALSE]

-----------------------------------------------------------------------------
\* get_capacity: the ioctl counts sectors of 512 bytes whatever their size;
\* that is multiplied for larger ones, in 32 bits.
n_sector(d) ==
  IF d.ssz = 512 THEN [g |-> d.g, r |-> d.r]
  ELSE [g |-> (8 * d.g + (8 * d.r) \div 32768) % 131072, r |-> (8 * d.r) % 32768]

\* num_hd_sector is an int: from 2^31 on it is negative, and its quotient is
\* rounded to zero.  The product is an unsigned word then: a large one.
Quotient(n) ==
  IF n.g < 65536 THEN n.g ELSE IF n.r = 0 THEN n.g - 131072 ELSE n.g - 131071

Below(x, limit) == 0 <= x /\ x < limit

\* 1 << sz_s, Wii sectors of a block.
BlockSize(s) == <<64, 128, 256, 512, 1024, 2048>>[s - 5]

\* The loop of reset: the first size with less than 2^16 blocks, or 11.
FirstSize(fits) ==
  IF 6 \in fits THEN 6 ELSE IF 7 \in fits THEN 7 ELSE IF 8 \in fits THEN 8
  ELSE IF 9 \in fits THEN 9 ELSE IF 10 \in fits THEN 10 ELSE 11

ChosenSizeAtMost(n) ==
  FirstSize({s \in 6 .. 10 : Below(n, 65536 * BlockSize(s) + 1)})
ChosenSize(n) ==
  FirstSize({s \in 6 .. 10 : Below(n, 65536 * BlockSize(s))})

-----------------------------------------------------------------------------
(* The fields of wbfs_t, from the head.                                    *)

n_wii_sec(h)   == h.n.g * h.hd_sec_sz
AllBlocks(h)   == n_wii_sec(h) \div BlockSize(h.sz_s)
n_wbfs_sec(h)  == AllBlocks(h) % 65536
wbfs_sec_sz(h) == 32768 * BlockSize(h.sz_s)
n_wbfs_sec_per_disc(h) == 286864 \div BlockSize(h.sz_s)

Sectors(bytes, h) == (bytes + h.hd_sec_sz - 1) \div h.hd_sec_sz   \* ALIGN_LBA

info_secs(h)   == Sectors(256 + 2 * n_wbfs_sec_per_disc(h), h)
table_secs(h)  == Sectors(n_wbfs_sec(h) \div 8, h)
freeblks_lba_up(h) == Sectors(wbfs_sec_sz(h) - n_wbfs_sec(h) \div 8, h)
freeblks_lba(h) == (wbfs_sec_sz(h) - n_wbfs_sec(h) \div 8) \div h.hd_sec_sz

\* As many discs as there are places for, and as fit in the head's table.
max_disc(h) ==
  LET room == (freeblks_lba(h) - 1) \div info_secs(h)
  IN IF room > h.hd_sec_sz - 12 THEN h.hd_sec_sz - 12 ELSE room

Partition(h) ==
  [open |-> TRUE, n_hd_sec |-> h.n, hd_sec_sz |-> h.hd_sec_sz,
   block_secs |-> wbfs_sec_sz(h) \div h.hd_sec_sz,
   n_wbfs_sec |-> n_wbfs_sec(h), info_secs |-> info_secs(h),
   max_disc |-> max_disc(h), freeblks_lba |-> freeblks_lba(h),
   table_secs |-> table_secs(h)]

-----------------------------------------------------------------------------
LayoutInit ==
  /\ dev \in Devices
  /\ head = NoHead
  /\ p = NoPartition

NewHead ==
  [n |-> n_sector(dev), hd_sec_sz |-> dev.ssz,
   sz_s |-> ChosenSize(Quotient(n_sector(dev)) * dev.ssz)]

\* wbfs_open_partition with reset.
Format ==
  /\ ~p.open
  /\ head' = NewHead
  /\ p' = Partition(NewHead)
  /\ UNCHANGED dev

\* Without reset: what the head says must be what the device is.
Matches == head.hd_sec_sz = dev.ssz /\ head.n = n_sector(dev)

Open ==
  /\ ~p.open
  /\ head # NoHead /\ Matches
  /\ p' = Partition(head)
  /\ UNCHANGED <<dev, head>>

Close ==
  /\ p.open
  /\ p' = NoPartition
  /\ UNCHANGED <<dev, head>>

\* Between two openings the device's partition is made larger or smaller.
Resize ==
  /\ ~p.open
  /\ dev' \in Devices
  /\ UNCHANGED <<head, p>>

LayoutNext == Format \/ Open \/ Close \/ Resize

LayoutSpec == LayoutInit /\ [][LayoutNext]_layout_vars

\* Sectors of 512 bytes, less than 2^31 of them: the devices that the
\* arithmetic is right for.
Ordinary == Devices \subseteq [g : SmallQuotients, r : Rests, ssz : {512}]

-----------------------------------------------------------------------------
LayoutTypeOK ==
  /\ dev \in Devices
  /\ head = NoHead \/ (head.hd_sec_sz \in {512, 4096} /\ head.sz_s \in 6 .. 11)
  /\ p.open => /\ p.n_wbfs_sec \in U16 /\ p.max_disc \in Nat
               /\ p.freeblks_lba \in 1 .. p.block_secs

\* The blocks that the free-block table has a bit for: only its whole words
\* are looked at.
Addressed == 1 .. 32 * (p.n_wbfs_sec \div 32)

\* The partition is all of the device's blocks, no number of one is 0, which
\* means none, or 0xffff, which alloc_block returns when there is none.
NumbersFit ==
  p.open => /\ p.n_wbfs_sec = AllBlocks(head)
            /\ Addressed \subseteq 1 .. NoBlock - 1

\* Head, disc_infos and free-block table lie in this order in the first block
\* and do not overlap; the table ends with the block.
AreasApart ==
  p.open => /\ 1 + p.max_disc * p.info_secs <= p.freeblks_lba
            /\ p.freeblks_lba + p.table_secs = p.block_secs

\* The bytes of the head's sector behind its fields hold the disc table.
SlotsFit == p.open => p.max_disc \in 1 .. p.hd_sec_sz - 12

\* Every block that can be handed out lies on the device, but for the last.
EndOf(b) == (b + 1) * (p.block_secs \div 4096)   \* in units of 4096 sectors
Room     == 8 * dev.g + dev.r \div 4096
BlocksOnDevice ==
  p.open => \A b \in {32 * (p.n_wbfs_sec \div 32) - 1} :
              b > 0 => EndOf(b) <= Room

\* A partition is never opened with a size that is not the device's, so that
\* the table is found where it was written.
OpenFits ==
  p.open => p = Partition(head) /\ p.n_hd_sec = [g |-> dev.g, r |-> dev.r]

\* "choose minimum wblk_sz that fits this partition size" (libwbfs.c:121).
MinimumChosen ==
  p.open /\ head.sz_s > 6 => n_wii_sec(head) >= 65536 * BlockSize(head.sz_s - 1)
=============================================================================
