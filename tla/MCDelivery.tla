----------------------------- MODULE MCDelivery -----------------------------
(* Three rows: two of one table on different partitions, and one of another *)
(* table that shares a partition with the first.                            *)
EXTENDS Delivery

CONSTANTS r1, r2, r3, t1, t2, p1, p2

MCTableOf == [r \in Rows |-> IF r = r3 THEN t2 ELSE t1]
MCPartitionOf == [r \in Rows |-> IF r = r2 THEN p2 ELSE p1]

=============================================================================
