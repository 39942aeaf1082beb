----------------------------- MODULE MCDiscCopy -----------------------------
(***************************************************************************)
(* Discs laid out as pressed ones are, with the code's own sizes.          *)
(***************************************************************************)
EXTENDS DiscCopy

\* A partition that begins with sector s.
Part(type, s) ==
  [type |-> type, raw |-> s * SectorWords,
   tmd |-> 176, tmdLen |-> 520, cert |-> 312, certLen |-> 2560,
   h3 |-> SectorWords, data |-> 4 * SectorWords,
   aplLen |-> 60000, dol |-> 20000, fst |-> 40000, fstLen |-> 1200,
   files |-> {<<45000, 70000>>}]

\* Files that begin and end around the edge between two sectors of data, of
\* every length that matters there.
Edge == 8 * DataWords
FileSets ==
  {{}} \cup {{<<Edge + a, n>>} : a \in {-1, 0, 1},
             n \in {0, 1, 4, 5, DataBytes - 4, DataBytes, DataBytes + 5, 2 * DataBytes + 1}}

\* Beginnings that put the edge of a block of 64 sectors at every sector of
\* the hashes.
Variants(type) ==
  {Part(type, s) : s \in {10, 59, 60, 61, 62, 63, 64}}
  \cup {[Part(type, 60) EXCEPT !.files = f] : f \in FileSets}
  \cup {[Part(type, 61) EXCEPT !.tmdLen = 0, !.certLen = 0],
        [Part(type, 61) EXCEPT !.aplLen = 0, !.dol = 40000, !.fstLen = 0]}

Disc(parts) == [magic |-> TRUE, table |-> 65544, parts |-> parts]

\* Tables of up to four partitions of three types.
Places     == <<10, 500, 1000, 1500>>
Listing(t) == [k \in DOMAIN t |-> Part(t[k], Places[k])]
Several    == {Disc(Listing(t)) : t \in UNION {[1 .. k -> 0 .. 2] : k \in 0 .. 4}}

One    == {Disc(<<p>>) : p \in Variants(0)}
NotWii == {[Disc(<<>>) EXCEPT !.magic = FALSE, !.table = t] : t \in {0, 65544}}
Far    == {[Disc(Listing(<<0, 1>>)) EXCEPT !.table = t] : t \in {65616, 65617}}

MCDiscs   == One \cup Several \cup NotWii \cup Far
MCEntries == {[at |-> p.raw, type |-> p.type] :
                p \in UNION {{d.parts[k] : k \in DOMAIN d.parts} : d \in MCDiscs}}

\* The three special selectors, a type that is there and one that is not.
MCSelectors ==
  {ALL_PARTITIONS, REMOVE_UPDATE_PARTITION, ONLY_GAME_PARTITION, 2, 7}

\* sz_s from 6 to 11, and a block of two sectors, the smallest that will do.
MCBlockSizes == {2, 64, 128, 2048}
=============================================================================
