--------------------------- MODULE PartitionTable ---------------------------
(***************************************************************************)
(* wd_fix_partition_table of wiidisc.c: the partition table of a copied    *)
(* disc is cut down, in place, to the partitions that were copied.         *)
(***************************************************************************)
EXTENDS Selector, Sequences, FiniteSets

CONSTANTS
  Entries,   \* what an entry says: where a partition begins, and its type
  MaxParts   \* bound on the entries of a table

ASSUME EntriesHaveTypes == Entries \subseteq [at : Nat, type : Nat]
ASSUME MaxPartsIsNat == MaxParts \in Nat

VARIABLES
  step,     \* "check", "loop", "done", or "fatal" after wbfs_fatal
  selector,
  inside,   \* the table lies in the 0x50 words that may be modified
  original, \* the table as it was on the image
  b,        \* the table in the copy buffer
  number,   \* its first word, the number of partitions
  from, to  \* i and j, entries read and entries written

fix_vars == <<step, selector, inside, original, b, number, from, to>>

FixInit ==
  /\ original \in UNION {[1 .. k -> Entries] : k \in 0 .. MaxParts}
  /\ selector \in Selectors
  /\ inside \in BOOLEAN
  /\ b = original
  /\ number = Len(original)
  /\ step = "check" /\ from = 0 /\ to = 0

\* Nothing to remove, or a table too far behind the sector's beginning.
Check ==
  /\ step = "check"
  /\ step' = CASE selector = ALL_PARTITIONS -> "done"
             [] selector # ALL_PARTITIONS /\ ~inside -> "fatal"
             [] OTHER -> "loop"
  /\ UNCHANGED <<selector, inside, original, b, number, from, to>>

Loop == step = "loop" /\ from < number /\ from' = from + 1

\* The entry read is written over one that is not behind it.
PutInPlace(e) == [b EXCEPT ![from + 1] = e]
Put(e) == [b EXCEPT ![to + 1] = e]

Keep ==
  /\ Loop
  /\ ~test_parition_skip(b[from + 1].type, selector)
  /\ b' = Put(b[from + 1])
  /\ to' = to + 1
  /\ UNCHANGED <<step, selector, inside, original, number>>

Drop ==
  /\ Loop
  /\ test_parition_skip(b[from + 1].type, selector)
  /\ UNCHANGED <<step, selector, inside, original, b, number, to>>

\* The number of partitions is written last.
NumberRead    == from
NumberWritten == to

WriteNumber ==
  /\ step = "loop"
  /\ from = number
  /\ number' = NumberWritten
  /\ step' = "done"
  /\ UNCHANGED <<selector, inside, original, b, from, to>>

FixNext == Check \/ Keep \/ Drop \/ WriteNumber

FixSpec == FixInit /\ [][FixNext]_fix_vars

-----------------------------------------------------------------------------
FixTypeOK ==
  /\ step \in {"check", "loop", "done", "fatal"}
  /\ b \in Seq(Entries) /\ Len(b) = Len(original)
  /\ number \in 0 .. Len(original)
  /\ from \in 0 .. Len(original) /\ to \in 0 .. from

Kept(k) == ~test_parition_skip(original[k].type, selector)
Rank(k) == Cardinality({m \in 1 .. k : Kept(m)})

\* "effectively remove not copied partition from the partition table"
\* (wiidisc.h:58): what is listed in the end are the selected partitions, each
\* of them, in the order of the image, although the table is read and
\* written at the same time.
ListsTheSelected ==
  step = "done" =>
    /\ number = Rank(Len(original))
    /\ \A k \in 1 .. Len(original) : Kept(k) => b[Rank(k)] = original[k]
=============================================================================
