------------------------------ MODULE DiscRead ------------------------------
(***************************************************************************)
(* wbfs_disc_read of libwbfs.c: bytes of a stored disc, from any word      *)
(* offset on.  The disc lies in blocks (wbfs sectors) of the partition,    *)
(* found by its lookup table; the device is read in whole sectors.         *)
(*                                                                         *)
(* A byte of the device is known by its address: what is read is right     *)
(* when it is the sequence of addresses where the request lies.            *)
(***************************************************************************)
EXTENDS Integers, Sequences

CONSTANTS
  WordBytes,   \* offsets count words of this size (4)
  SecWords,    \* words of a sector of the device (hd_sec_sz / 4)
  BlockSecs,   \* sectors of a block (wbfs_sec_sz / hd_sec_sz)
  TableLen,    \* blocks of a disc (n_wbfs_sec_per_disc)
  DeviceBlocks,\* blocks of the device, the one with the head included
  Tables       \* lookup tables to try: wlba_table, 0 for a hole

ASSUME SizesArePositive ==
  {WordBytes, SecWords, BlockSecs, TableLen, DeviceBlocks} \subseteq Nat \ {0}
ASSUME TablesArePlausible ==
  Tables \subseteq [0 .. TableLen - 1 -> 0 .. DeviceBlocks - 1]

SecBytes   == WordBytes * SecWords   \* hd_sec_sz
BlockBytes == BlockSecs * SecBytes   \* wbfs_sec_sz

\* (wbfs_sec_sz-1) >> hd_sec_sz_s, the last sector of a block.
lba_mask_one_more == BlockSecs
lba_mask == BlockSecs - 1

VARIABLES
  pc,      \* "first", "whole", "last", or "done"
  table,   \* d->header->wlba_table
  offset, want,   \* the request: its first word, its length in bytes
  wlba, lba,      \* which block of the disc, which sector of the block
  iwlba,   \* the block of the device
  len,     \* bytes still to read
  got,     \* addresses of the bytes that were copied to data
  ret      \* what is returned

read_vars == <<pc, table, offset, want, wlba, lba, iwlba, len, got, ret>>

\* The addresses of n bytes from byte off of sector s of block b on.
Bytes(b, s, off, n) ==
  [k \in 1 .. n |-> b * BlockBytes + s * SecBytes + off + k - 1]

\* A read past the end of the device fails, as any may.
OnDevice(b, s, n) == b * BlockSecs + s + n <= DeviceBlocks * BlockSecs

IsHole(b) == b = 0

\* A request for bytes of the disc.  A hole under its first byte is refused.
ReadInit ==
  /\ table \in Tables
  /\ offset \in 0 .. TableLen * BlockSecs * SecWords - 1
  /\ want \in 0 .. TableLen * BlockBytes - offset * WordBytes
  /\ wlba = offset \div (BlockSecs * SecWords)
  /\ lba = (offset \div SecWords) % BlockSecs
  /\ iwlba = table[wlba]
  /\ len = want
  /\ got = <<>>
  /\ IF IsHole(iwlba) THEN pc = "done" /\ ret = 1
     ELSE /\ pc = IF offset % SecWords # 0 THEN "first" ELSE "whole"
          /\ ret = 0

Return(r) == pc' = "done" /\ ret' = r

\* Past the last sector of the block and something left: the next block.
NextBlock(l, rest, then) ==
  IF l > lba_mask /\ rest # 0
  THEN /\ lba' = 0
       /\ wlba' = wlba + 1
       /\ iwlba' = table[wlba + 1]
       /\ IF IsHole(iwlba') THEN Return(1) ELSE pc' = then /\ ret' = ret
  ELSE /\ lba' = l
       /\ UNCHANGED <<wlba, iwlba, ret>>
       /\ pc' = then

\* read_hdsector fails: its error is returned.
ReadFails ==
  /\ pc \in {"first", "whole", "last"}
  /\ pc = "whole" => len >= SecBytes
  /\ Return(1)
  /\ UNCHANGED <<table, offset, want, wlba, lba, iwlba, len, got>>

\* How much of the first sector is copied: to its end, or to the request's.
FirstLen(off) == IF len < SecBytes - off THEN len ELSE SecBytes - off

\* The first sector, when the request begins inside it.
FirstSector ==
  LET off == (offset % SecWords) * WordBytes
      n   == FirstLen(off)
  IN /\ pc = "first"
     /\ OnDevice(iwlba, lba, 1)
     /\ got' = Bytes(iwlba, lba, off, n)
     /\ len' = len - n
     /\ NextBlock(lba + 1, len - n, "whole")
     /\ UNCHANGED <<table, offset, want>>

\* How many whole sectors the loop reads at once: the comparison is with
\* wbfs_sec_sz, the size of a block in bytes.
SectorsAtOnce ==
  LET nlb == len \div SecBytes
  IN IF lba + nlb > BlockBytes THEN BlockBytes - lba ELSE nlb

WholeSectors ==
  LET nlb == SectorsAtOnce
  IN /\ pc = "whole"
     /\ len >= SecBytes
     /\ OnDevice(iwlba, lba, nlb)
     /\ got' = got \o Bytes(iwlba, lba, 0, nlb * SecBytes)
     /\ len' = len - nlb * SecBytes
     /\ NextBlock(lba + nlb, len', "whole")
     /\ UNCHANGED <<table, offset, want>>

NothingLeft == len = 0

LoopEnds ==
  /\ pc = "whole"
  /\ len < SecBytes
  /\ IF NothingLeft THEN Return(0) ELSE pc' = "last" /\ ret' = ret
  /\ UNCHANGED <<table, offset, want, wlba, lba, iwlba, len, got>>

\* The rest, less than a sector.
LastSector ==
  /\ pc = "last"
  /\ OnDevice(iwlba, lba, 1)
  /\ got' = got \o Bytes(iwlba, lba, 0, len)
  /\ Return(0)
  /\ UNCHANGED <<table, offset, want, wlba, lba, iwlba, len>>

ReadNext == FirstSector \/ WholeSectors \/ LoopEnds \/ LastSector \/ ReadFails

ReadSpec == ReadInit /\ [][ReadNext]_read_vars

-----------------------------------------------------------------------------
(* What a read should bring.                                               *)

\* Where byte k of the request lies on the device.
Where(k) ==
  LET at == offset * WordBytes + k - 1
  IN table[at \div BlockBytes] * BlockBytes + (at % BlockBytes)

\* Bytes of the request that the whole sectors do not push over the end of a
\* block: all of it, unless the loop has more sectors to read than its block.
SafeLen ==
  LET from  == offset * WordBytes
      first == ((from + SecBytes - 1) \div SecBytes) * SecBytes
      whole == ((from + want - first) \div SecBytes) * SecBytes
  IN IF (first % BlockBytes) + whole > BlockBytes
     THEN (first \div BlockBytes + 1) * BlockBytes - from
     ELSE want

\* A read brings the bytes that were asked for and no other.  The first
\* sector, cut at both ends, the last one, and any number of sectors inside
\* one block come from the right place, also when the request goes on in
\* another block behind them; a part of the disc that is not stored is never
\* read as block 0, which is the head's; and a read that succeeds leaves
\* nothing out and writes nothing behind the end.
ReadsInsideABlock ==
  /\ \A k \in DOMAIN got : k <= SafeLen => got[k] = Where(k) /\ got[k] >= BlockBytes
  /\ pc = "done" /\ ret = 0 => Len(got) = want
=============================================================================
