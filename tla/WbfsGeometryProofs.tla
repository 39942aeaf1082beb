------------------------- MODULE WbfsGeometryProofs -------------------------
(***************************************************************************)
(* The layout is right for every ordinary device: theorems about           *)
(* WbfsGeometry, for every number of sectors below 2^31.                   *)
(***************************************************************************)
EXTENDS WbfsGeometry, TLAPS

LEMMA Sizes ==
  /\ BlockSize(6) = 64 /\ BlockSize(7) = 128 /\ BlockSize(8) = 256
  /\ BlockSize(9) = 512 /\ BlockSize(10) = 1024
  BY SMT DEF BlockSize

SizeFor(g) == ChosenSize(g * 512)

\* The block is the smallest of four for which 16 bits are enough.
LEMMA SizeFits ==
  ASSUME NEW g \in SmallQuotients
  PROVE  \/ SizeFor(g) = 6 /\ g \in Nat /\ 0 <= g /\ g < 8192
         \/ SizeFor(g) = 7 /\ g \in Nat /\ 8192 <= g /\ g < 16384
         \/ SizeFor(g) = 8 /\ g \in Nat /\ 16384 <= g /\ g < 32768
         \/ SizeFor(g) = 9 /\ g \in Nat /\ 32768 <= g /\ g < 65536
<1>1. g \in Nat /\ g < 65536
  BY SMT DEF SmallQuotients
<1> QED BY SMT, <1>1, Sizes DEF SizeFor, ChosenSize, FirstSize, Below

LEMMA QuotientIsItself ==
  ASSUME NEW g \in SmallQuotients, NEW r PROVE Quotient([g |-> g, r |-> r]) = g
  BY SMT DEF Quotient, SmallQuotients

LEMMA RestCounts ==
  ASSUME NEW g \in SmallQuotients, NEW r \in Rests
  PROVE  8 * g \in Nat /\ 8 * g + r \div 4096 \in Nat /\ 8 * g <= 8 * g + r \div 4096
<1>1. g \in Nat /\ r \in Nat
  BY SMT DEF SmallQuotients, Rests
<1> QED BY SMT, <1>1

\* Rounding to sectors: up from the beginning, down to the end of the block.
LEMMA DivIs ==
  ASSUME NEW a \in Int, NEW q \in Int, 512 * q <= a, a < 512 * q + 512
  PROVE  a \div 512 = q
  BY SMT

LEMMA RoundedUp ==
  ASSUME NEW x \in Nat, x < 8192
  PROVE  LET up == (x + 512 - 1) \div 512
         IN up \in 0 .. 16 /\ x <= 512 * up /\ 512 * up < x + 512
  BY SMT

LEMMA TableEnds ==
  ASSUME NEW x \in Nat, x < 8192, NEW size \in Nat
  PROVE  LET up == (x + 512 - 1) \div 512
         IN (512 * size - x) \div 512 = size - up
<1> DEFINE up == (x + 512 - 1) \div 512
<1>1. up \in 0 .. 16 /\ x <= 512 * up /\ 512 * up < x + 512
  BY RoundedUp
<1> HIDE DEF up
<1>2. 512 * size - x \in Int /\ size - up \in Int /\ up \in 0 .. 16
  BY SMT, <1>1
<1>3. 512 * (size - up) <= 512 * size - x
  BY SMT, <1>1
<1>4. 512 * size - x < 512 * (size - up) + 512
  BY SMT, <1>1
<1>5. (512 * size - x) \div 512 = size - up
  BY <1>2, <1>3, <1>4, DivIs
<1> QED BY <1>2, <1>5 DEF up

\* A head that formatting an ordinary device writes.
HeadOf(g, r) == [n |-> [g |-> g, r |-> r], hd_sec_sz |-> 512, sz_s |-> SizeFor(g)]

Formatted(h) == \E g \in SmallQuotients, r \in Rests : h = HeadOf(g, r)

\* What is where in a partition, for each of the four sizes of a block.
Laid(h) ==
  /\ n_wbfs_sec(h) = AllBlocks(h) /\ AllBlocks(h) \in Nat /\ AllBlocks(h) < 65536
  /\ wbfs_sec_sz(h) \div 512 \in Nat
  /\ freeblks_lba(h) \in 4000 .. wbfs_sec_sz(h) \div 512
  /\ freeblks_lba(h) + table_secs(h) = wbfs_sec_sz(h) \div 512
  /\ max_disc(h) \in 1 .. 500
  /\ 1 + max_disc(h) * info_secs(h) <= freeblks_lba(h)
  /\ h.sz_s > 6 => n_wii_sec(h) >= 65536 * BlockSize(h.sz_s - 1)

\* The blocks of the partition, in units of 4096 sectors, are on the device.
InDevice(h) ==
  \A m \in Nat : m <= AllBlocks(h) =>
    m * ((wbfs_sec_sz(h) \div 512) \div 4096) <= 8 * h.n.g

LEMMA Laid6 ==
  ASSUME NEW g, NEW r, NEW h, h = HeadOf(g, r), SizeFor(g) = 6,
         g \in Nat, 0 <= g, g < 8192
  PROVE  Laid(h) /\ InDevice(h)
<1>0. h.n.g = g /\ h.hd_sec_sz = 512 /\ h.sz_s = 6
  BY DEF HeadOf
<1>1. BlockSize(h.sz_s) = 64
  BY SMT, <1>0, Sizes
<1>2. wbfs_sec_sz(h) = 2097152 /\ n_wbfs_sec_per_disc(h) = 4482
  BY SMT, <1>0, <1>1 DEF wbfs_sec_sz, n_wbfs_sec_per_disc
<1>3. n_wii_sec(h) = g * 512
  BY SMT, <1>0 DEF n_wii_sec
<1>4. AllBlocks(h) = (g * 512) \div 64
  BY SMT, <1>0, <1>1, <1>3 DEF AllBlocks
<1> DEFINE n == AllBlocks(h)
<1>a. g \in Nat /\ g < 8192
  BY SMT
<1>5. n \in Nat /\ n < 65536
  BY SMT, <1>4, <1>a
<1>6. n_wbfs_sec(h) = n
  BY SMT, <1>5 DEF n_wbfs_sec
<1>7. \A bytes : Sectors(bytes, h) = (bytes + 512 - 1) \div 512
  BY SMT, <1>0 DEF Sectors
<1>8. info_secs(h) = 19
  BY SMT, <1>2, <1>7 DEF info_secs
<1> DEFINE at == freeblks_lba(h)
<1>9. at = (2097152 - n \div 8) \div 512
  BY SMT, <1>0, <1>2, <1>6 DEF freeblks_lba
<1>10. table_secs(h) = (n \div 8 + 512 - 1) \div 512
  BY SMT, <1>6, <1>7 DEF table_secs
<1> HIDE DEF n, at
<1>b. n \div 8 \in Nat /\ n \div 8 < 8192
  BY SMT, <1>5
<1>e. (512 * 4096 - n \div 8) \div 512 = 4096 - (n \div 8 + 512 - 1) \div 512
  BY <1>b, TableEnds, 4096 \in Nat
<1>g. (n \div 8 + 512 - 1) \div 512 \in 0 .. 16
  BY <1>b, RoundedUp
<1>f. at = 4096 - table_secs(h) /\ table_secs(h) \in 0 .. 16
  BY SMT, <1>9, <1>10, <1>e, <1>g
<1>11. at \in 4000 .. 4096 /\ at + table_secs(h) = 4096
  BY SMT, <1>f
<1>12. max_disc(h) = IF (at - 1) \div 19 > 500 THEN 500 ELSE (at - 1) \div 19
  BY SMT, <1>0, <1>8 DEF max_disc, at
<1>13. max_disc(h) \in 1 .. 500 /\ 1 + max_disc(h) * 19 <= at
  BY SMT, <1>11, <1>12
<1>14. wbfs_sec_sz(h) \div 512 = 4096
  BY SMT, <1>2
<1>15. 1 + max_disc(h) * info_secs(h) <= at
  BY SMT, <1>8, <1>13
<1>16. at \in 4000 .. wbfs_sec_sz(h) \div 512 /\ at + table_secs(h) = wbfs_sec_sz(h) \div 512
  BY SMT, <1>11, <1>14
<1>17. max_disc(h) \in 1 .. 500
  BY <1>13
<1>c. h.sz_s = 6 \/ BlockSize(h.sz_s - 1) = 32
  BY SMT, <1>0, Sizes
<1>d. h.sz_s = 6 \/ n_wii_sec(h) >= 65536 * 32
  BY SMT, <1>0, <1>3
<1>18. h.sz_s > 6 => n_wii_sec(h) >= 65536 * BlockSize(h.sz_s - 1)
  BY SMT, <1>c, <1>d
<1>19. Laid(h)
  BY SMT, <1>5, <1>6, <1>14, <1>15, <1>16, <1>17, <1>18 DEF Laid, n, at
<1>20. (wbfs_sec_sz(h) \div 512) \div 4096 = 1
  BY SMT, <1>14
<1>21. ASSUME NEW m \in Nat, m <= n
       PROVE  m * 1 <= 8 * g
  BY SMT, <1>4, <1>21, <1>a DEF n
<1> QED BY SMT, <1>0, <1>19, <1>20, <1>21 DEF InDevice, n

LEMMA Laid7 ==
  ASSUME NEW g, NEW r, NEW h, h = HeadOf(g, r), SizeFor(g) = 7,
         g \in Nat, 8192 <= g, g < 16384
  PROVE  Laid(h) /\ InDevice(h)
<1>0. h.n.g = g /\ h.hd_sec_sz = 512 /\ h.sz_s = 7
  BY DEF HeadOf
<1>1. BlockSize(h.sz_s) = 128
  BY SMT, <1>0, Sizes
<1>2. wbfs_sec_sz(h) = 4194304 /\ n_wbfs_sec_per_disc(h) = 2241
  BY SMT, <1>0, <1>1 DEF wbfs_sec_sz, n_wbfs_sec_per_disc
<1>3. n_wii_sec(h) = g * 512
  BY SMT, <1>0 DEF n_wii_sec
<1>4. AllBlocks(h) = (g * 512) \div 128
  BY SMT, <1>0, <1>1, <1>3 DEF AllBlocks
<1> DEFINE n == AllBlocks(h)
<1>a. g \in Nat /\ g < 16384
  BY SMT
<1>5. n \in Nat /\ n < 65536
  BY SMT, <1>4, <1>a
<1>6. n_wbfs_sec(h) = n
  BY SMT, <1>5 DEF n_wbfs_sec
<1>7. \A bytes : Sectors(bytes, h) = (bytes + 512 - 1) \div 512
  BY SMT, <1>0 DEF Sectors
<1>8. info_secs(h) = 10
  BY SMT, <1>2, <1>7 DEF info_secs
<1> DEFINE at == freeblks_lba(h)
<1>9. at = (4194304 - n \div 8) \div 512
  BY SMT, <1>0, <1>2, <1>6 DEF freeblks_lba
<1>10. table_secs(h) = (n \div 8 + 512 - 1) \div 512
  BY SMT, <1>6, <1>7 DEF table_secs
<1> HIDE DEF n, at
<1>b. n \div 8 \in Nat /\ n \div 8 < 8192
  BY SMT, <1>5
<1>e. (512 * 8192 - n \div 8) \div 512 = 8192 - (n \div 8 + 512 - 1) \div 512
  BY <1>b, TableEnds, 8192 \in Nat
<1>g. (n \div 8 + 512 - 1) \div 512 \in 0 .. 16
  BY <1>b, RoundedUp
<1>f. at = 8192 - table_secs(h) /\ table_secs(h) \in 0 .. 16
  BY SMT, <1>9, <1>10, <1>e, <1>g
<1>11. at \in 4000 .. 8192 /\ at + table_secs(h) = 8192
  BY SMT, <1>f
<1>12. max_disc(h) = IF (at - 1) \div 10 > 500 THEN 500 ELSE (at - 1) \div 10
  BY SMT, <1>0, <1>8 DEF max_disc, at
<1>13. max_disc(h) \in 1 .. 500 /\ 1 + max_disc(h) * 10 <= at
  BY SMT, <1>11, <1>12
<1>14. wbfs_sec_sz(h) \div 512 = 8192
  BY SMT, <1>2
<1>15. 1 + max_disc(h) * info_secs(h) <= at
  BY SMT, <1>8, <1>13
<1>16. at \in 4000 .. wbfs_sec_sz(h) \div 512 /\ at + table_secs(h) = wbfs_sec_sz(h) \div 512
  BY SMT, <1>11, <1>14
<1>17. max_disc(h) \in 1 .. 500
  BY <1>13
<1>c. h.sz_s = 6 \/ BlockSize(h.sz_s - 1) = 64
  BY SMT, <1>0, Sizes
<1>d. h.sz_s = 6 \/ n_wii_sec(h) >= 65536 * 64
  BY SMT, <1>0, <1>3
<1>18. h.sz_s > 6 => n_wii_sec(h) >= 65536 * BlockSize(h.sz_s - 1)
  BY SMT, <1>c, <1>d
<1>19. Laid(h)
  BY SMT, <1>5, <1>6, <1>14, <1>15, <1>16, <1>17, <1>18 DEF Laid, n, at
<1>20. (wbfs_sec_sz(h) \div 512) \div 4096 = 2
  BY SMT, <1>14
<1>21. ASSUME NEW m \in Nat, m <= n
       PROVE  m * 2 <= 8 * g
  BY SMT, <1>4, <1>21, <1>a DEF n
<1> QED BY SMT, <1>0, <1>19, <1>20, <1>21 DEF InDevice, n

LEMMA Laid8 ==
  ASSUME NEW g, NEW r, NEW h, h = HeadOf(g, r), SizeFor(g) = 8,
         g \in Nat, 16384 <= g, g < 32768
  PROVE  Laid(h) /\ InDevice(h)
<1>0. h.n.g = g /\ h.hd_sec_sz = 512 /\ h.sz_s = 8
  BY DEF HeadOf
<1>1. BlockSize(h.sz_s) = 256
  BY SMT, <1>0, Sizes
<1>2. wbfs_sec_sz(h) = 8388608 /\ n_wbfs_sec_per_disc(h) = 1120
  BY SMT, <1>0, <1>1 DEF wbfs_sec_sz, n_wbfs_sec_per_disc
<1>3. n_wii_sec(h) = g * 512
  BY SMT, <1>0 DEF n_wii_sec
<1>4. AllBlocks(h) = (g * 512) \div 256
  BY SMT, <1>0, <1>1, <1>3 DEF AllBlocks
<1> DEFINE n == AllBlocks(h)
<1>a. g \in Nat /\ g < 32768
  BY SMT
<1>5. n \in Nat /\ n < 65536
  BY SMT, <1>4, <1>a
<1>6. n_wbfs_sec(h) = n
  BY SMT, <1>5 DEF n_wbfs_sec
<1>7. \A bytes : Sectors(bytes, h) = (bytes + 512 - 1) \div 512
  BY SMT, <1>0 DEF Sectors
<1>8. info_secs(h) = 5
  BY SMT, <1>2, <1>7 DEF info_secs
<1> DEFINE at == freeblks_lba(h)
<1>9. at = (8388608 - n \div 8) \div 512
  BY SMT, <1>0, <1>2, <1>6 DEF freeblks_lba
<1>10. table_secs(h) = (n \div 8 + 512 - 1) \div 512
  BY SMT, <1>6, <1>7 DEF table_secs
<1> HIDE DEF n, at
<1>b. n \div 8 \in Nat /\ n \div 8 < 8192
  BY SMT, <1>5
<1>e. (512 * 16384 - n \div 8) \div 512 = 16384 - (n \div 8 + 512 - 1) \div 512
  BY <1>b, TableEnds, 16384 \in Nat
<1>g. (n \div 8 + 512 - 1) \div 512 \in 0 .. 16
  BY <1>b, RoundedUp
<1>f. at = 16384 - table_secs(h) /\ table_secs(h) \in 0 .. 16
  BY SMT, <1>9, <1>10, <1>e, <1>g
<1>11. at \in 4000 .. 16384 /\ at + table_secs(h) = 16384
  BY SMT, <1>f
<1>12. max_disc(h) = IF (at - 1) \div 5 > 500 THEN 500 ELSE (at - 1) \div 5
  BY SMT, <1>0, <1>8 DEF max_disc, at
<1>13. max_disc(h) \in 1 .. 500 /\ 1 + max_disc(h) * 5 <= at
  BY SMT, <1>11, <1>12
<1>14. wbfs_sec_sz(h) \div 512 = 16384
  BY SMT, <1>2
<1>15. 1 + max_disc(h) * info_secs(h) <= at
  BY SMT, <1>8, <1>13
<1>16. at \in 4000 .. wbfs_sec_sz(h) \div 512 /\ at + table_secs(h) = wbfs_sec_sz(h) \div 512
  BY SMT, <1>11, <1>14
<1>17. max_disc(h) \in 1 .. 500
  BY <1>13
<1>c. h.sz_s = 6 \/ BlockSize(h.sz_s - 1) = 128
  BY SMT, <1>0, Sizes
<1>d. h.sz_s = 6 \/ n_wii_sec(h) >= 65536 * 128
  BY SMT, <1>0, <1>3
<1>18. h.sz_s > 6 => n_wii_sec(h) >= 65536 * BlockSize(h.sz_s - 1)
  BY SMT, <1>c, <1>d
<1>19. Laid(h)
  BY SMT, <1>5, <1>6, <1>14, <1>15, <1>16, <1>17, <1>18 DEF Laid, n, at
<1>20. (wbfs_sec_sz(h) \div 512) \div 4096 = 4
  BY SMT, <1>14
<1>21. ASSUME NEW m \in Nat, m <= n
       PROVE  m * 4 <= 8 * g
  BY SMT, <1>4, <1>21, <1>a DEF n
<1> QED BY SMT, <1>0, <1>19, <1>20, <1>21 DEF InDevice, n

LEMMA Laid9 ==
  ASSUME NEW g, NEW r, NEW h, h = HeadOf(g, r), SizeFor(g) = 9,
         g \in Nat, 32768 <= g, g < 65536
  PROVE  Laid(h) /\ InDevice(h)
<1>0. h.n.g = g /\ h.hd_sec_sz = 512 /\ h.sz_s = 9
  BY DEF HeadOf
<1>1. BlockSize(h.sz_s) = 512
  BY SMT, <1>0, Sizes
<1>2. wbfs_sec_sz(h) = 16777216 /\ n_wbfs_sec_per_disc(h) = 560
  BY SMT, <1>0, <1>1 DEF wbfs_sec_sz, n_wbfs_sec_per_disc
<1>3. n_wii_sec(h) = g * 512
  BY SMT, <1>0 DEF n_wii_sec
<1>4. AllBlocks(h) = (g * 512) \div 512
  BY SMT, <1>0, <1>1, <1>3 DEF AllBlocks
<1> DEFINE n == AllBlocks(h)
<1>a. g \in Nat /\ g < 65536
  BY SMT
<1>5. n \in Nat /\ n < 65536
  BY SMT, <1>4, <1>a
<1>6. n_wbfs_sec(h) = n
  BY SMT, <1>5 DEF n_wbfs_sec
<1>7. \A bytes : Sectors(bytes, h) = (bytes + 512 - 1) \div 512
  BY SMT, <1>0 DEF Sectors
<1>8. info_secs(h) = 3
  BY SMT, <1>2, <1>7 DEF info_secs
<1> DEFINE at == freeblks_lba(h)
<1>9. at = (16777216 - n \div 8) \div 512
  BY SMT, <1>0, <1>2, <1>6 DEF freeblks_lba
<1>10. table_secs(h) = (n \div 8 + 512 - 1) \div 512
  BY SMT, <1>6, <1>7 DEF table_secs
<1> HIDE DEF n, at
<1>b. n \div 8 \in Nat /\ n \div 8 < 8192
  BY SMT, <1>5
<1>e. (512 * 32768 - n \div 8) \div 512 = 32768 - (n \div 8 + 512 - 1) \div 512
  BY <1>b, TableEnds, 32768 \in Nat
<1>g. (n \div 8 + 512 - 1) \div 512 \in 0 .. 16
  BY <1>b, RoundedUp
<1>f. at = 32768 - table_secs(h) /\ table_secs(h) \in 0 .. 16
  BY SMT, <1>9, <1>10, <1>e, <1>g
<1>11. at \in 4000 .. 32768 /\ at + table_secs(h) = 32768
  BY SMT, <1>f
<1>12. max_disc(h) = IF (at - 1) \div 3 > 500 THEN 500 ELSE (at - 1) \div 3
  BY SMT, <1>0, <1>8 DEF max_disc, at
<1>13. max_disc(h) \in 1 .. 500 /\ 1 + max_disc(h) * 3 <= at
  BY SMT, <1>11, <1>12
<1>14. wbfs_sec_sz(h) \div 512 = 32768
  BY SMT, <1>2
<1>15. 1 + max_disc(h) * info_secs(h) <= at
  BY SMT, <1>8, <1>13
<1>16. at \in 4000 .. wbfs_sec_sz(h) \div 512 /\ at + table_secs(h) = wbfs_sec_sz(h) \div 512
  BY SMT, <1>11, <1>14
<1>17. max_disc(h) \in 1 .. 500
  BY <1>13
<1>c. h.sz_s = 6 \/ BlockSize(h.sz_s - 1) = 256
  BY SMT, <1>0, Sizes
<1>d. h.sz_s = 6 \/ n_wii_sec(h) >= 65536 * 256
  BY SMT, <1>0, <1>3
<1>18. h.sz_s > 6 => n_wii_sec(h) >= 65536 * BlockSize(h.sz_s - 1)
  BY SMT, <1>c, <1>d
<1>19. Laid(h)
  BY SMT, <1>5, <1>6, <1>14, <1>15, <1>16, <1>17, <1>18 DEF Laid, n, at
<1>20. (wbfs_sec_sz(h) \div 512) \div 4096 = 8
  BY SMT, <1>14
<1>21. ASSUME NEW m \in Nat, m <= n
       PROVE  m * 8 <= 8 * g
  BY SMT, <1>4, <1>21, <1>a DEF n
<1> QED BY SMT, <1>0, <1>19, <1>20, <1>21 DEF InDevice, n

LEMMA LaidOut ==
  ASSUME NEW g \in SmallQuotients, NEW r \in Rests, NEW h, h = HeadOf(g, r)
  PROVE  /\ Laid(h) /\ InDevice(h)
         /\ h.sz_s \in {6, 7, 8, 9} /\ h.hd_sec_sz = 512 /\ h.n = [g |-> g, r |-> r]
<1>1. h.n.g = g /\ h.n = [g |-> g, r |-> r] /\ h.hd_sec_sz = 512 /\ h.sz_s = SizeFor(g)
  BY DEF HeadOf
<1>2. Laid(h) /\ InDevice(h)
  <2>1. CASE SizeFor(g) = 6 /\ g \in Nat /\ 0 <= g /\ g < 8192
    BY SMT, <2>1, Laid6
  <2>2. CASE SizeFor(g) = 7 /\ g \in Nat /\ 8192 <= g /\ g < 16384
    BY SMT, <2>2, Laid7
  <2>3. CASE SizeFor(g) = 8 /\ g \in Nat /\ 16384 <= g /\ g < 32768
    BY SMT, <2>3, Laid8
  <2>4. CASE SizeFor(g) = 9 /\ g \in Nat /\ 32768 <= g /\ g < 65536
    BY SMT, <2>4, Laid9
  <2> QED BY SMT, <2>1, <2>2, <2>3, <2>4, SizeFits
<1>3. SizeFor(g) \in {6, 7, 8, 9}
  BY SMT, SizeFits
<1> QED BY <1>1, <1>2, <1>3

\* What is on the device was written by formatting an ordinary one, this or
\* an earlier; what is open is laid out for the device as it is.
GeoInv ==
  /\ dev \in Devices
  /\ head = NoHead \/ Formatted(head)
  /\ \/ p = NoPartition
     \/ p = Partition(head) /\ Formatted(head) /\ head.n = [g |-> dev.g, r |-> dev.r]

LEMMA Geometry == ASSUME Ordinary PROVE LayoutSpec => []GeoInv
<1>1. LayoutInit => GeoInv
  BY DEF LayoutInit, GeoInv
<1>2. GeoInv /\ [LayoutNext]_layout_vars => GeoInv'
  <2> SUFFICES ASSUME GeoInv, [LayoutNext]_layout_vars PROVE GeoInv'
    OBVIOUS
  <2>1. dev.g \in SmallQuotients /\ dev.r \in Rests /\ dev.ssz = 512
    BY DEF GeoInv, Ordinary
  <2>2. n_sector(dev) = [g |-> dev.g, r |-> dev.r]
    BY <2>1 DEF n_sector
  <2>3. CASE Format
    <3>1. Quotient(n_sector(dev)) = dev.g
      BY <2>1, <2>2, QuotientIsItself
    <3>2. head' = HeadOf(dev.g, dev.r)
      BY <2>1, <2>2, <2>3, <3>1 DEF Format, NewHead, HeadOf, SizeFor
    <3>3. Formatted(head') /\ head'.n = [g |-> dev.g, r |-> dev.r]
      BY <2>1, <3>2 DEF Formatted, HeadOf
    <3>4. p' = Partition(head') /\ dev' = dev
      BY <2>3 DEF Format
    <3> QED BY <3>3, <3>4 DEF GeoInv
  <2>4. CASE Open
    <3>1. Formatted(head) /\ head.n = n_sector(dev) /\ p' = Partition(head)
          /\ dev' = dev /\ head' = head
      BY <2>4 DEF Open, Matches, GeoInv
    <3> QED BY <2>2, <3>1 DEF GeoInv
  <2>5. CASE Close
    BY <2>5 DEF Close, GeoInv
  <2>6. CASE Resize
    <3>1. p = NoPartition
      BY <2>6 DEF Resize, GeoInv, Partition
    <3> QED BY <2>6, <3>1 DEF Resize, GeoInv
  <2>7. CASE UNCHANGED layout_vars
    BY <2>7 DEF layout_vars, GeoInv
  <2> QED BY <2>3, <2>4, <2>5, <2>6, <2>7 DEF LayoutNext
<1> QED BY <1>1, <1>2, PTL DEF LayoutSpec

\* What is open has the fields that its head stands for.
LEMMA OpenIsLaidOut ==
  ASSUME GeoInv, p.open
  PROVE  /\ Laid(head) /\ InDevice(head) /\ head.sz_s \in {6, 7, 8, 9}
         /\ p = Partition(head) /\ head.hd_sec_sz = 512
         /\ head.n = [g |-> dev.g, r |-> dev.r]
<1>1. p = Partition(head) /\ head.n = [g |-> dev.g, r |-> dev.r] /\ Formatted(head)
  BY DEF GeoInv, NoPartition
<1>2. PICK g \in SmallQuotients, r \in Rests : head = HeadOf(g, r)
  BY <1>1 DEF Formatted
<1>3. head.n = [g |-> g, r |-> r] /\ Laid(head) /\ InDevice(head)
      /\ head.sz_s \in {6, 7, 8, 9} /\ head.hd_sec_sz = 512
  BY <1>2, LaidOut
<1> QED BY <1>1, <1>3

(* The fields of an open partition keep their ranges, and the table begins *)
(* inside the first block, behind its head.                                *)
THEOREM TypeCorrect == ASSUME Ordinary PROVE LayoutSpec => []LayoutTypeOK
<1>1. GeoInv => LayoutTypeOK
  <2> SUFFICES ASSUME GeoInv PROVE LayoutTypeOK
    OBVIOUS
  <2>1. head = NoHead \/ (head.hd_sec_sz \in {512, 4096} /\ head.sz_s \in 6 .. 11)
    <3>1. CASE Formatted(head)
      <4>1. PICK g \in SmallQuotients, r \in Rests : head = HeadOf(g, r)
        BY <3>1 DEF Formatted
      <4>2. /\ Laid(head) /\ InDevice(head) /\ head.sz_s \in {6, 7, 8, 9}
            /\ head.hd_sec_sz = 512 /\ head.n = [g |-> g, r |-> r]
        BY <4>1, LaidOut
      <4> QED BY SMT, <4>2
    <3> QED BY <3>1 DEF GeoInv
  <2>2. ASSUME p.open
        PROVE  /\ p.n_wbfs_sec \in U16 /\ p.max_disc \in Nat
               /\ p.freeblks_lba \in 1 .. p.block_secs
    <3>1. /\ n_wbfs_sec(head) \in U16 /\ max_disc(head) \in Nat
          /\ freeblks_lba(head) \in 1 .. wbfs_sec_sz(head) \div 512
      <4>1. /\ n_wbfs_sec(head) \in Nat /\ n_wbfs_sec(head) < 65536 /\ max_disc(head) \in Nat
            /\ freeblks_lba(head) \in 1 .. wbfs_sec_sz(head) \div 512
        BY SMT, <2>2, OpenIsLaidOut DEF Laid
      <4>2. \A n \in Nat : n < 65536 => n \in U16
        BY SMT DEF U16
      <4> QED BY SMT, <4>1, <4>2
    <3>2. /\ p.n_wbfs_sec = n_wbfs_sec(head) /\ p.max_disc = max_disc(head)
          /\ p.freeblks_lba = freeblks_lba(head)
          /\ p.block_secs = wbfs_sec_sz(head) \div head.hd_sec_sz /\ head.hd_sec_sz = 512
      BY <2>2, OpenIsLaidOut DEF Partition
    <3> QED BY <3>1, <3>2
  <2> QED BY <2>1, <2>2 DEF LayoutTypeOK, GeoInv
<1> QED BY <1>1, Geometry, PTL

\* No block is numbered 0 or 0xffff, and 16 bits hold how many there are, for
\* every ordinary device.
THEOREM SixteenBitsAreEnough == ASSUME Ordinary PROVE LayoutSpec => []NumbersFit
<1>1. GeoInv => NumbersFit
  <2> SUFFICES ASSUME GeoInv, p.open
               PROVE  p.n_wbfs_sec = AllBlocks(head) /\ Addressed \subseteq 1 .. NoBlock - 1
    BY DEF NumbersFit
  <2>1. p.n_wbfs_sec = AllBlocks(head) /\ p.n_wbfs_sec \in Nat /\ p.n_wbfs_sec < 65536
    BY SMT, OpenIsLaidOut DEF Laid, Partition
  <2> DEFINE n == p.n_wbfs_sec
  <2> HIDE DEF n
  <2>2. n \in Nat /\ n < 65536
    BY <2>1 DEF n
  <2>3. 1 .. 32 * (n \div 32) \subseteq 1 .. NoBlock - 1
    <3>1. 32 * (n \div 32) \in Nat /\ 32 * (n \div 32) <= NoBlock - 1 /\ NoBlock \in Nat
      BY SMT, <2>2 DEF NoBlock
    <3> QED BY SMT, <3>1
  <2> QED BY <2>1, <2>3 DEF Addressed, n
<1> QED BY <1>1, Geometry, PTL

\* Head, disc_infos and free-block table never overlap.
THEOREM AreasNeverOverlap == ASSUME Ordinary PROVE LayoutSpec => []AreasApart
<1>1. GeoInv => AreasApart
  BY SMT, OpenIsLaidOut DEF AreasApart, Laid, Partition
<1> QED BY <1>1, Geometry, PTL

\* The disc table fits in the head, and holds a disc at least.
THEOREM TableFitsInTheHead == ASSUME Ordinary PROVE LayoutSpec => []SlotsFit
<1>1. GeoInv => SlotsFit
  BY SMT, OpenIsLaidOut DEF SlotsFit, Laid, Partition
<1> QED BY <1>1, Geometry, PTL

\* All the addressed blocks but the last lie on the device.
THEOREM BlocksAreOnTheDevice == ASSUME Ordinary PROVE LayoutSpec => []BlocksOnDevice
<1>1. GeoInv => BlocksOnDevice
  <2> SUFFICES ASSUME GeoInv, p.open,
                      NEW b \in {32 * (p.n_wbfs_sec \div 32) - 1}, b > 0
               PROVE  EndOf(b) <= Room
    BY DEF BlocksOnDevice
  <2>1. /\ p.n_wbfs_sec = AllBlocks(head) /\ p.n_wbfs_sec \in Nat
        /\ p.block_secs = wbfs_sec_sz(head) \div 512 /\ head.n.g = dev.g
    BY SMT, OpenIsLaidOut DEF Laid, Partition
  <2>2. b + 1 \in Nat /\ b + 1 <= AllBlocks(head)
    BY SMT, <2>1
  <2>3. EndOf(b) <= 8 * dev.g
    BY <2>1, <2>2, OpenIsLaidOut DEF InDevice, EndOf
  <2>4. PICK g \in SmallQuotients, r \in Rests : dev.g = g /\ dev.r = r
    BY DEF GeoInv, Ordinary
  <2>5. Room = 8 * g + r \div 4096 /\ EndOf(b) <= 8 * g
    BY <2>3, <2>4 DEF Room
  <2>6. EndOf(b) \in Int
    BY SMT, <2>1, <2>2, OpenIsLaidOut DEF EndOf, Laid
  <2> QED BY SMT, <2>5, <2>6, RestCounts
<1> QED BY <1>1, Geometry, PTL

\* Opening never takes a partition whose size is not the device's.
THEOREM OpensOnlyWhatFits == ASSUME Ordinary PROVE LayoutSpec => []OpenFits
<1>1. GeoInv => OpenFits
  <2>1. Partition(head).n_hd_sec = head.n
    BY DEF Partition
  <2> QED BY <2>1, OpenIsLaidOut DEF OpenFits
<1> QED BY <1>1, Geometry, PTL

\* Below 2^31 sectors the block is the smallest that 16 bits are enough for.
THEOREM BlockIsMinimal == ASSUME Ordinary PROVE LayoutSpec => []MinimumChosen
<1>1. GeoInv => MinimumChosen
  BY SMT, OpenIsLaidOut DEF MinimumChosen, Laid
<1> QED BY <1>1, Geometry, PTL
=============================================================================
