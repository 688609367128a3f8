------------------------------- MODULE Writer -------------------------------
(***************************************************************************)
(* The writer process (internal/writer): it fetches from the topic into a  *)
(* buffer, flushes the buffer by size or by age, one destination           *)
(* transaction per table, and commits the consumer group's offsets when    *)
(* every table's transaction is durable.  The group's committed offsets    *)
(* belong to Kafka and dest to the destination database; the rest is lost  *)
(* when the process dies.                                                  *)
(***************************************************************************)
EXTENDS Merge, Sink

CONSTANT FlushMax       \* flushMaxEvents

ASSUME FlushAssumption == FlushMax \in Nat \ {0}

VARIABLES
    writerPC,       \* run: in FetchMessage, flush: in flushAll after TakeAll
    fetchPos,       \* per partition, how many messages the consumer handed out
    perTable,       \* Buffer.perTable, and in flushAll the tables still to do
    newest,         \* Buffer.newest: an offset plus one, 0 for no message
    committed,      \* per partition, the group's committed offset
    dest,           \* contents of the destination tables
    destTables      \* the tables that exist there

bufferVars == <<perTable, newest>>
destVars == <<dest, destTables>>
writerVars == <<writerPC, fetchPos, bufferVars, committed, destVars>>

WriterPCs == {"down", "run", "flush"}

EmptyBuffer == [t \in Tables |-> <<>>]

NoMessage == [p \in Partitions |-> 0]

WriterInit ==
    /\ writerPC = "down"
    /\ fetchPos = NoMessage
    /\ perTable = EmptyBuffer
    /\ newest = NoMessage
    /\ committed = NoMessage
    /\ dest = [r \in Rows |-> Absent]
    /\ destTables = {}

-----------------------------------------------------------------------------

Count == FoldLeft(LAMBDA n, t : n + Len(perTable[t]), 0, SetToSeq(Tables))

\* A new process joins the group and resumes at the committed offsets.
WriterStart ==
    /\ writerPC = "down"
    /\ writerPC' = "run"
    /\ fetchPos' = committed
    /\ UNCHANGED <<bufferVars, committed, destVars>>
    /\ NoFault

\* Faulty variant: the first message of a batch is the one remembered.
FirstSeen(a, b) == IF a = 0 THEN b ELSE a

Larger(a, b) == IF a > b THEN a ELSE b

\* Buffer.Add: newest keeps the largest offset it has seen.
Add(evt, p, offset) ==
    /\ perTable' = [perTable EXCEPT ![TableOf[evt.row]] = Append(@, evt)]
    /\ newest' = [newest EXCEPT ![p] = Larger(@, offset)]

Fetch(p) ==
    /\ writerPC = "run"
    /\ fetchPos[p] < Len(log[p])
    /\ Add(log[p][fetchPos[p] + 1], p, fetchPos[p] + 1)
    /\ fetchPos' = [fetchPos EXCEPT ![p] = @ + 1]
    /\ writerPC' = IF Count + 1 < FlushMax THEN "run" ELSE "flush"
    /\ UNCHANGED <<committed, destVars>>
    /\ NoFault

\* Faulty variant: only a full buffer is flushed.
FlushWhenFull ==
    /\ writerPC = "run"
    /\ Count >= FlushMax
    /\ writerPC' = "flush"
    /\ UNCHANGED <<fetchPos, bufferVars, committed, destVars>>
    /\ NoFault

\* The buffer aged out with no new messages.
FlushInterval ==
    /\ writerPC = "run"
    /\ perTable # EmptyBuffer
    /\ writerPC' = "flush"
    /\ UNCHANGED <<fetchPos, bufferVars, committed, destVars>>
    /\ NoFault

\* CREATE TABLE IF NOT EXISTS, committed at once.  created only saves asking
\* again.
ensureTable(t) == destTables \cup {t}

\* One table's transaction, in a table that exists by then; the tables come in
\* no particular order.
FlushTable(t) ==
    /\ writerPC = "flush"
    /\ perTable[t] # <<>>
    /\ destTables' = ensureTable(t)
    /\ dest' = flushTable(dest, perTable[t])
    /\ perTable' = [perTable EXCEPT ![t] = <<>>]
    /\ UNCHANGED <<writerPC, fetchPos, newest, committed>>
    /\ NoFault

\* Faulty variant: a partition without a message is committed at 0.
NewestOnly == newest

\* The offsets taken with the batch; a partition without a message keeps its own.
OffsetsTaken == [p \in Partitions |-> IF newest[p] = 0 THEN committed[p] ELSE newest[p]]

\* Faulty variant: a table that failed to flush is skipped.
CommitAnyway ==
    /\ writerPC = "flush"
    /\ committed' = OffsetsTaken
    /\ perTable' = EmptyBuffer
    /\ newest' = NoMessage
    /\ writerPC' = "run"
    /\ UNCHANGED <<fetchPos, destVars>>
    /\ NoFault

CommitOffsets ==
    /\ writerPC = "flush"
    /\ perTable = EmptyBuffer
    /\ committed' = OffsetsTaken
    /\ newest' = NoMessage
    /\ writerPC' = "run"
    /\ UNCHANGED <<fetchPos, perTable, destVars>>
    /\ NoFault

\* Killed, or an error ended Run: a flush that failed was rolled back, though
\* not the table it had created; the tables flushed before it stay, and the
\* offsets are where they were.
WriterCrash ==
    /\ writerPC # "down"
    /\ Fault("writerCrash")
    /\ writerPC' = "down"
    /\ fetchPos' = NoMessage
    /\ perTable' = EmptyBuffer
    /\ newest' = NoMessage
    /\ \/ UNCHANGED destTables
       \/ \E t \in Tables :
            writerPC = "flush" /\ perTable[t] # <<>> /\ destTables' = ensureTable(t)
    /\ UNCHANGED <<committed, dest>>

\* A new generation of the group: the consumer drops what it has queued and
\* fetches again from the committed offsets.  The buffer does not notice.
Rebalance ==
    /\ writerPC # "down"
    /\ Fault("rebalance")
    /\ fetchPos' = committed
    /\ UNCHANGED <<writerPC, bufferVars, committed, destVars>>

WriterProgress ==
    \/ WriterStart
    \/ \E p \in Partitions : Fetch(p)
    \/ \E t \in Tables : FlushTable(t)
    \/ CommitOffsets

WriterStep == WriterProgress \/ FlushInterval \/ WriterCrash \/ Rebalance

WriterTypeOK ==
    /\ writerPC \in WriterPCs
    /\ fetchPos \in [Partitions -> Nat]
    /\ perTable \in [Tables -> Seq(Event)]
    /\ newest \in [Partitions -> Nat]
    /\ committed \in [Partitions -> Nat]
    /\ dest \in Contents
    /\ destTables \subseteq Tables

=============================================================================
