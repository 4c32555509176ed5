---------------------------- MODULE MCBlkDevice ----------------------------
EXTENDS BlkDevice, TLC

CONSTANTS blk, stat

(* Two sectors per cluster; the disk in clusters 4 and 2 (out of order,    *)
(* with another file's cluster between), the power state in cluster 3.     *)
MCchain == (blk :> <<4, 2>>) @@ (stat :> <<3>>)
MCfat == [c \in 2 .. 4 |-> IF c = 4 THEN 2 ELSE 5]
MCsymmetry == Permutations(Data)
MCfsize == (blk :> 4) @@ (stat :> 1)
=============================================================================
