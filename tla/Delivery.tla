------------------------------ MODULE Delivery ------------------------------
(***************************************************************************)
(* The delivery half of the pipeline: the topic, the writer and the        *)
(* destination, fed by a reader that makes no mistake and never dies, so   *)
(* that a transaction is in the topic as soon as it commits.  What is left *)
(* to go wrong is the writer's own.                                        *)
(***************************************************************************)
EXTENDS Recovery

vars == <<sourceVars, sinkVars, writerVars, faults>>

(* The ideal reader. *)

\* The rows that existed before reach the topic as snapshot reads.
SeedEvents(p) ==
    LET seeded == SetToSeq({r \in Rows : table[r] # Absent /\ PartitionOf[r] = p})
    IN  [i \in DOMAIN seeded |-> rowToEvent(seeded[i], table[seeded[i]])]

EventsAt(txns, p) == OfRows(EventsOfTxns(txns), {r \in Rows : PartitionOf[r] = p})

Feed ==
    /\ SourceStep
    /\ log' = [p \in Partitions |-> log[p] \o EventsAt(<<wal'[Len(wal')]>>, p)]
    /\ UNCHANGED <<unsent, failed, late, writerVars, faults>>

Init ==
    /\ SourceInit
    /\ log = [p \in Partitions |-> SeedEvents(p)]
    /\ unsent = NoEvents
    /\ failed = FALSE
    /\ late = NoEvents
    /\ WriterInit
    /\ FaultsInit

Next == Feed \/ (WriterStep /\ UNCHANGED <<sourceVars, sinkVars>>)

\* The loop in Run always takes its next step: FetchMessage is bounded by the
\* age of the buffer, and a writer that died is started again.
Fairness ==
    /\ WF_vars(WriterStart /\ UNCHANGED <<sourceVars, sinkVars>>)
    /\ WF_vars(FlushInterval /\ UNCHANGED <<sourceVars, sinkVars>>)
    /\ WF_vars(CommitOffsets /\ UNCHANGED <<sourceVars, sinkVars>>)
    /\ \A p \in Partitions : WF_vars(Fetch(p) /\ UNCHANGED <<sourceVars, sinkVars>>)
    /\ \A t \in Tables : WF_vars(FlushTable(t) /\ UNCHANGED <<sourceVars, sinkVars>>)

Spec == Init /\ [][Next]_vars

FairSpec == Spec /\ Fairness

-----------------------------------------------------------------------------

(* The types of every variable of the writer, the topic and the source. *)
TypeOK ==
    /\ SourceTypeOK
    /\ SinkTypeOK
    /\ FaultsTypeOK
    /\ WriterTypeOK

(* The buffer holds exactly the events between the committed offset and    *)
(* the newest message, each row's in log order, so "the offset commit      *)
(* after a flush covers exactly what was applied" (buffer.go:11-13).       *)
BufferIsUncommitted ==
    writerPC = "run" =>
        \A r \in Rows : LET p == PartitionOf[r] IN
            OfRow(perTable[TableOf[r]], r)
                = OfRow(SubSeq(log[p], committed[p] + 1, OffsetsTaken[p]), r)

(* Collapsing a batch and merging what is left has the effect of merging   *)
(* its events one by one (flush.go:46-53): no TOAST value is lost with an  *)
(* event that dedupe drops.                                                *)
FoldLosesNothing ==
    \A t \in Tables : flushTable(dest, perTable[t]) = ApplyAll(dest, perTable[t])

(* A kill at this very moment loses nothing: what the next consumer will   *)
(* be given brings the destination to the source's contents                *)
(* (writer.go:58-61, "a crash anywhere re-delivers the batch").            *)
Recoverable == AfterRecovery(<<>>) = table

(* The group's offsets never move back. *)
OffsetsNeverRewind == [][\A p \in Partitions : committed'[p] >= committed[p]]_vars

(* Once the source is quiet the destination converges to it and stays, and *)
(* the group ends at the end of the topic: nothing remains uncommitted.    *)
Converges ==
    <>[](dest = table /\ \A p \in Partitions : committed[p] = Len(log[p]))

=============================================================================
