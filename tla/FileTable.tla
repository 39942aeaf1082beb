----------------------------- MODULE FileTable -----------------------------
(***************************************************************************)
(* do_fst of wiidisc.c: the walk over the file table of a partition.  The  *)
(* table is a list of entries; entry 0 is the root, and the entry of a     *)
(* directory says where the directory ends in the list.  The walk is       *)
(* recursive, so the calls that are open are a stack.                      *)
(***************************************************************************)
EXTENDS Integers, Sequences

CONSTANT MaxEntries   \* bound on the length of a table

ASSUME MaxEntriesIsNat == MaxEntries \in Nat

VARIABLES
  n,       \* n_files, the entries of the table
  end,     \* of a directory, the entry behind its last one (size)
  wanted,  \* the files whose name is extract_pathname
  j,       \* the entry do_fst comes to next
  calls,   \* the directories of the open calls
  visits,  \* the files that were read, for real or not, in order
  found    \* the file in extracted_buffer, 0 for none

walk_vars == <<n, end, wanted, j, calls, visits, found>>

\* Directories lie one inside the other or apart.
WellFormed(e, len) ==
  /\ 0 \in DOMAIN e /\ e[0] = len
  /\ \A d \in DOMAIN e : d < e[d]
  /\ \A d, f \in DOMAIN e : d < f /\ f < e[d] => e[f] <= e[d]

Ends(len) == UNION {[D \cup {0} -> 1 .. len] : D \in SUBSET (1 .. len - 1)}
Files == 1 .. n - 1 \ DOMAIN end

WalkInit ==
  /\ n \in 1 .. MaxEntries
  /\ end \in {e \in Ends(n) : WellFormed(e, n)}
  /\ wanted \in SUBSET (1 .. n - 1 \ DOMAIN end)
  /\ j = 1
  /\ calls = <<0>>
  /\ visits = <<>>
  /\ found = 0

Dir == calls[Len(calls)]

\* The condition of both loops.
GoesOnAfterAll == j < end[Dir]
GoesOn == j < end[Dir] /\ found = 0

Enter ==
  /\ calls # <<>>
  /\ GoesOn
  /\ j \in DOMAIN end
  /\ calls' = Append(calls, j)
  /\ j' = j + 1
  /\ UNCHANGED <<n, end, wanted, visits, found>>

\* partition_read: for real into extracted_buffer, else only to mark sectors.
File ==
  /\ calls # <<>>
  /\ GoesOn
  /\ j \notin DOMAIN end
  /\ visits' = Append(visits, j)
  /\ found' = IF j \in wanted THEN j ELSE found
  /\ j' = j + 1
  /\ UNCHANGED <<n, end, wanted, calls>>

\* A directory returns its end, however far its loop has come.
ResultItself(d) == d
Result(d) == end[d]

Leave ==
  /\ calls # <<>>
  /\ ~GoesOn
  /\ j' = Result(Dir)
  /\ calls' = SubSeq(calls, 1, Len(calls) - 1)
  /\ UNCHANGED <<n, end, wanted, visits, found>>

WalkNext == Enter \/ File \/ Leave

WalkSpec == WalkInit /\ [][WalkNext]_walk_vars

-----------------------------------------------------------------------------
Done == calls = <<>>

WalkTypeOK ==
  /\ n \in Nat /\ j \in 1 .. n
  /\ DOMAIN end \subseteq 0 .. n - 1 /\ end \in [DOMAIN end -> 1 .. n]
  /\ wanted \subseteq Files
  /\ calls \in Seq(DOMAIN end)
  /\ visits \in Seq(Files)
  /\ found \in {0} \cup Files

\* The usage table is built from this walk: no file of the table is left out
\* or read twice, whatever the nesting of the directories.
EachFileOnce ==
  /\ \A v, w \in DOMAIN visits : v < w => visits[v] < visits[w]
  /\ Done /\ found = 0 => \A f \in Files : \E v \in DOMAIN visits : visits[v] = f

\* "first file found with that name is returned" (wiidisc.c:285), from any
\* depth, and nothing is read after it.
FirstOfThatName ==
  /\ \A f \in wanted : found # 0 => found <= f
  /\ Done => (found = 0 <=> wanted = {})
  /\ \A v \in DOMAIN visits : visits[v] \in wanted => v = Len(visits)
=============================================================================
