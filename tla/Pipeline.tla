------------------------------ MODULE Pipeline ------------------------------
(***************************************************************************)
(* The whole pipeline: source database, reader, topic, writer and          *)
(* destination, with the faults of both processes and of what lies between *)
(* them.                                                                   *)
(***************************************************************************)
EXTENDS Reader, Recovery

vars == <<sourceVars, sinkVars, readerVars, writerVars, faults>>

Init == SourceInit /\ SinkInit /\ ReaderInit /\ WriterInit /\ FaultsInit

Next ==
    \/ SourceStep /\ UNCHANGED <<sinkVars, readerVars, writerVars, faults>>
    \/ CaptureStep /\ UNCHANGED <<sourceVars, writerVars>>
    \/ WriterStep /\ UNCHANGED <<sourceVars, sinkVars, readerVars>>

BeforeWriter == <<sourceVars, sinkVars, readerVars>>

\* As for the halves: see Capture and Delivery.
Fairness ==
    /\ WF_vars(ReaderProgress /\ UNCHANGED <<sourceVars, writerVars>>)
    /\ WF_vars(sendStandbyUpdate /\ UNCHANGED <<sourceVars, writerVars>>)
    /\ \A p \in Partitions :
        /\ WF_vars(BatchAcked(p) /\ UNCHANGED <<sourceVars, readerVars, writerVars>>)
        /\ WF_vars(Fetch(p) /\ UNCHANGED BeforeWriter)
    /\ WF_vars(WriterStart /\ UNCHANGED BeforeWriter)
    /\ WF_vars(FlushInterval /\ UNCHANGED BeforeWriter)
    /\ WF_vars(CommitOffsets /\ UNCHANGED BeforeWriter)
    /\ \A t \in Tables : WF_vars(FlushTable(t) /\ UNCHANGED BeforeWriter)

Spec == Init /\ [][Next]_vars

FairSpec == Spec /\ Fairness

-----------------------------------------------------------------------------

\* Rows the reader is still going to copy from the contents given.
ReadsOf(contents, rows) ==
    LET left == SetToSeq({r \in rows : contents[r] # Absent})
    IN  [i \in DOMAIN left |-> rowToEvent(left[i], contents[left[i]])]

\* What a running backfill still owes; one that died owes nothing any more.
BackfillOwed ==
    IF InBackfill THEN OverPartitions(unsent) \o ReadsOf(snapshot, Rows \ copied) ELSE <<>>

\* The stream resumes from the slot, whatever the reader had in hand.
StreamOwed == EventsOfTxns(SubSeq(wal, confirmed + 1, Len(wal)))

ReaderOwes == IF slotExists THEN BackfillOwed \o StreamOwed ELSE ReadsOf(table, Rows)

(* "Those two rules are what make a kill of any component survivable"      *)
(* (README.md:25): if everything stopped at this very moment, what Kafka   *)
(* and Postgres would deliver again brings the destination to the source's *)
(* contents, row by row and column by column.                              *)
Recoverable == AfterRecovery(ReaderOwes) = table

(* Once the source is quiet the destination converges to it and stays, and *)
(* neither the topic nor the stream holds anything back.                   *)
Converges ==
    <>[](/\ dest = table
         /\ StreamAcknowledged
         /\ \A p \in Partitions : committed[p] = Len(log[p]))

=============================================================================
