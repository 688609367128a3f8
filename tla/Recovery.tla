------------------------------ MODULE Recovery ------------------------------
(***************************************************************************)
(* What a kill of any component must leave behind (README, Architecture):  *)
(* the events that a restarted pipeline will deliver again, applied to the *)
(* destination as it is, give the source table as it is.  This module      *)
(* defines the pieces of that statement for the modules that state it.     *)
(***************************************************************************)
EXTENDS Source, Writer

\* The events of a sequence of transactions, in order.
EventsOfTxns(txns) ==
    FlattenSeq([n \in DOMAIN txns |->
        FlattenSeq([k \in DOMAIN txns[n] |-> EventsOf(txns[n][k])])])

\* Rows differ between partitions, so their order does not matter.
OverPartitions(events) ==
    FlattenSeq([i \in 1..Cardinality(Partitions) |-> events[SetToSeq(Partitions)[i]]])

\* What the group's committed offsets have the next consumer fetch.
Redelivered ==
    OverPartitions([p \in Partitions |-> SubSeq(log[p], committed[p] + 1, Len(log[p]))])

\* The destination once everything still owed has been applied.
AfterRecovery(owed) == ApplyAll(ApplyAll(dest, Redelivered), owed)

(* "The writer must preserve the destination's existing value, never write *)
(* NULL" (event.go:30-32): the application never stores Null, so no row of *)
(* the destination may hold it.                                            *)
NeverWritesNull ==
    \A r \in Rows : dest[r] # Absent => \A c \in Cols : dest[r][c] # Null

=============================================================================
