------------------------------ MODULE MCVerify ------------------------------
(* Two tables: one of two rows, which are on one partition with the other's. *)
EXTENDS Verify

CONSTANTS r1, r2, r3, t1, t2, p1

MCTableOf == [r \in Rows |-> IF r = r3 THEN t2 ELSE t1]
MCPartitionOf == [r \in Rows |-> p1]

=============================================================================
