----------------------------- MODULE MCPipeline -----------------------------
(* Two rows of one table, on one partition or on two. *)
EXTENDS Pipeline

CONSTANTS r1, r2, t1, p1, p2

MCTableOf == [r \in Rows |-> t1]
MCPartitionOf == [r \in Rows |-> IF r = r2 /\ p2 \in Partitions THEN p2 ELSE p1]

=============================================================================
