---------------------------- MODULE DiscCatalog ----------------------------
(***************************************************************************)
(* What a WBFS partition promises about the discs on it: a function from   *)
(* disc ids to titles that changes one whole operation at a time, whatever *)
(* happens to the process that makes the changes.                          *)
(***************************************************************************)
CONSTANTS
  Discs, Names,
  Title,   \* Title[d]: the one in the header of disc d
  Absent

VARIABLE catalog

CatalogType == catalog \in [Discs -> Names \cup {Absent}]

CatalogInit == catalog = [d \in Discs |-> Absent]

\* A disc is added under the title in its header.
Put(d) ==
  /\ catalog[d] = Absent
  /\ catalog' = [catalog EXCEPT ![d] = Title[d]]

Delete(d) ==
  /\ catalog[d] # Absent
  /\ catalog' = [catalog EXCEPT ![d] = Absent]

Rename(d, n) ==
  /\ catalog[d] # Absent
  /\ catalog' = [catalog EXCEPT ![d] = n]

\* The partition is initialised.
Wipe == catalog' = [d \in Discs |-> Absent]

CatalogNext ==
  \/ \E d \in Discs : Put(d) \/ Delete(d)
  \/ \E d \in Discs, n \in Names : Rename(d, n)
  \/ Wipe

CatalogSpec == CatalogInit /\ [][CatalogNext]_catalog

=============================================================================
