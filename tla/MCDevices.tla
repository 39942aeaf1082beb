----------------------------- MODULE MCDevices -----------------------------
(***************************************************************************)
(* A disk sda whose partition sda1 is taken away and made again, and a     *)
(* stick sdb without partitions that is unplugged and plugged in again.    *)
(* Mounting sda1 takes sda off the list and moves sdb up in it.            *)
(***************************************************************************)
EXTENDS Devices

CONSTANTS sda, sda1, sdb

MCAll       == {sda, sda1, sdb}
MCEach      == {{sda1}, {sdb}}
MCRank      == [d \in Names |-> CASE d = sda -> 1 [] d = sda1 -> 2 [] d = sdb -> 3]
MCPartsOf   == [d \in Names |-> IF d = sda THEN {sda, sda1} ELSE {d}]
MCMountable == {sda1, sdb}
MCNothing   == {}
=============================================================================
