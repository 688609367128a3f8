------------------------------ MODULE MCCapture ------------------------------
(* Two rows of one table, on two partitions. *)
EXTENDS Capture

CONSTANTS r1, r2, t1, p1, p2

MCTableOf == [r \in Rows |-> t1]
MCPartitionOf == [r \in Rows |-> IF r = r1 THEN p1 ELSE p2]

=============================================================================
