------------------------------- MODULE Reader -------------------------------
(***************************************************************************)
(* The reader process (internal/reader, internal/backfill): it creates or  *)
(* finds the replication slot, copies the exported snapshot if the slot is *)
(* fresh, and then follows the stream, publishing one transaction at a     *)
(* time and acknowledging to Postgres only what Kafka has confirmed.       *)
(*                                                                         *)
(* The slot and the walsender belong to Postgres and outlive the process;  *)
(* everything else is lost when it dies.                                   *)
(***************************************************************************)
EXTENDS Source, Sink

CONSTANT ChunkSize      \* rows in a backfill publish

ASSUME ChunkAssumption == ChunkSize \in Nat \ {0}

VARIABLES
    readerPC,       \* where Run is, see ReaderPCs
    slotExists,
    slotStart,      \* the slot's consistent point, of which the snapshot is taken
    confirmed,      \* the slot's confirmed_flush_lsn
    snapshot,       \* the exported snapshot, valid while the reader is copying it
    copied,         \* rows of the snapshot already handed to Publish
    rels,           \* RelCache: tables whose Relation message was received
    txn,            \* the transaction the walsender is streaming
    msg,            \* its messages delivered: 0 none, 1 Begin, 1 + n the n-th change
    txnBuffer,      \* events of that transaction, grouped by partition
    ackedLSN        \* the position a standby update reports

slotVars == <<slotExists, slotStart, confirmed>>
snapshotVars == <<snapshot, copied>>
streamVars == <<rels, txn, msg, txnBuffer>>
readerVars == <<readerPC, slotVars, snapshotVars, streamVars, ackedLSN>>

\* start: New returned and the slot existed.   backfill: between two chunks.
\* copying: in the Publish of a chunk.         stream: waiting for a message.
\* committing: in the Publish of a transaction.
ReaderPCs == {"down", "start", "backfill", "copying", "stream", "committing"}

NoRows == [r \in Rows |-> Absent]

ReaderInit ==
    /\ readerPC = "down"
    /\ slotExists = FALSE
    /\ slotStart = 0
    /\ confirmed = 0
    /\ snapshot = NoRows
    /\ copied = {}
    /\ rels = {}
    /\ txn = 0
    /\ msg = 0
    /\ txnBuffer = NoEvents
    /\ ackedLSN = 0

-----------------------------------------------------------------------------
(* Starting: New, ensureSlot, StartReplication.                            *)

\* The slot does not exist: CREATE_REPLICATION_SLOT makes it at the current
\* end of the WAL and exports a snapshot of exactly that point.
CreateSlot ==
    /\ readerPC = "down"
    /\ ~slotExists
    /\ slotExists' = TRUE
    /\ slotStart' = Len(wal)
    /\ confirmed' = Len(wal)
    /\ snapshot' = table
    /\ copied' = {}
    /\ readerPC' = "backfill"
    /\ UNCHANGED <<streamVars, ackedLSN, sinkVars>>
    /\ NoFault

\* Faulty variant: an existing slot is taken for a fresh one.
FindSlotFresh ==
    /\ readerPC = "down"
    /\ slotExists
    /\ readerPC' = "backfill"
    /\ snapshot' = table
    /\ copied' = {}
    /\ UNCHANGED <<slotVars, streamVars, ackedLSN, sinkVars>>
    /\ NoFault

\* Faulty variant: the position reported starts at the slot's creation.
FindSlotSeeded ==
    /\ readerPC = "down"
    /\ slotExists
    /\ readerPC' = "start"
    /\ ackedLSN' = slotStart
    /\ UNCHANGED <<slotVars, snapshotVars, streamVars, sinkVars>>
    /\ NoFault

\* The slot exists (42710, duplicate_object): resume, no snapshot.
FindSlot ==
    /\ readerPC = "down"
    /\ slotExists
    /\ readerPC' = "start"
    /\ UNCHANGED <<slotVars, snapshotVars, streamVars, ackedLSN, sinkVars>>
    /\ NoFault

New == CreateSlot \/ FindSlot

Uncopied(t) == {r \in Rows : TableOf[r] = t /\ snapshot[r] # Absent} \ copied

\* Faulty variant: what is left of a chunk after the scan is not published.
FullChunksDone == \A t \in Tables : Cardinality(Uncopied(t)) < ChunkSize

BackfillDone == \A t \in Tables : Uncopied(t) = {}

\* Faulty variant: the stream begins at the end of the WAL.
StartAtEnd ==
    /\ \/ readerPC = "start"
       \/ readerPC = "backfill" /\ BackfillDone
    /\ readerPC' = "stream"
    /\ snapshot' = NoRows
    /\ copied' = {}
    /\ txn' = Len(wal) + 1
    /\ msg' = 0
    /\ UNCHANGED <<slotVars, rels, txnBuffer, ackedLSN, sinkVars>>
    /\ NoFault

\* StartReplication at 0 means the slot's confirmed position: the stream
\* begins with the first transaction that commits after it.
StartReplication ==
    /\ \/ readerPC = "start"
       \/ readerPC = "backfill" /\ BackfillDone
    /\ readerPC' = "stream"
    /\ snapshot' = NoRows
    /\ copied' = {}
    /\ txn' = confirmed + 1
    /\ msg' = 0
    /\ UNCHANGED <<slotVars, rels, txnBuffer, ackedLSN, sinkVars>>
    /\ NoFault

-----------------------------------------------------------------------------
(* The backfill: copyTable, one chunk per Publish.                         *)

\* Rows come off the scan in some order that no row's history depends on.
ScanOrder(S) ==
    CHOOSE q \in [1..Cardinality(S) -> S] : \A r \in S : \E i \in DOMAIN q : q[i] = r

ReadEvents(S) == [i \in DOMAIN ScanOrder(S) |->
                    rowToEvent(ScanOrder(S)[i], snapshot[ScanOrder(S)[i]])]

ChunkEvents(S) == [p \in Partitions |-> ReadEvents({r \in S : PartitionOf[r] = p})]

\* A chunk is chunkSize rows of a table, or what is left of it; a table is
\* finished before the next begins.
IsChunk(S, t) ==
    /\ S # {}
    /\ S \subseteq Uncopied(t)
    /\ Cardinality(S) = ChunkSize \/ (Cardinality(S) < ChunkSize /\ S = Uncopied(t))
    /\ \A u \in Tables \ {t} :
            Uncopied(u) = {} \/ \A r \in copied : TableOf[r] # u

CopyChunk ==
    /\ readerPC = "backfill"
    /\ \E t \in Tables : \E S \in SUBSET Uncopied(t) :
            /\ IsChunk(S, t)
            /\ Publish(ChunkEvents(S))
            /\ copied' = copied \cup S
    /\ readerPC' = "copying"
    /\ UNCHANGED <<log, late, slotVars, snapshot, streamVars, ackedLSN>>
    /\ NoFault

ChunkPublished ==
    /\ readerPC = "copying"
    /\ PublishReturned
    /\ ~failed
    /\ readerPC' = "backfill"
    /\ UNCHANGED <<sinkVars, slotVars, snapshotVars, streamVars, ackedLSN>>
    /\ NoFault

-----------------------------------------------------------------------------
(* The stream: handleWALMessage.  The Begin message is msg 0, then come    *)
(* the changes, and the Commit message is the one after the last change.   *)

AtMessage == readerPC = "stream" /\ txn <= Len(wal) /\ Streamed(txn)

AtChange == AtMessage /\ msg \in 1..Len(wal[txn])

CurrentChange == wal[txn][msg]

\* Put in the buffer of the partition its key hashes to, order kept.
Put(buf, evt) ==
    [buf EXCEPT ![PartitionOf[evt.row]] = Append(@, evt)]

HandleBegin ==
    /\ AtMessage
    /\ msg = 0
    /\ msg' = 1
    /\ txnBuffer' = NoEvents
    /\ UNCHANGED <<readerPC, slotVars, snapshotVars, rels, txn, ackedLSN, sinkVars>>
    /\ NoFault

\* The walsender describes a table once per connection, before the first
\* message that refers to it.
HandleRelation ==
    /\ AtChange
    /\ TableOf[CurrentChange.row] \notin rels
    /\ rels' = rels \cup {TableOf[CurrentChange.row]}
    /\ UNCHANGED <<readerPC, slotVars, snapshotVars, txn, msg, txnBuffer, ackedLSN, sinkVars>>
    /\ NoFault

\* What the four row messages have in common.
HandleRow(kind) ==
    /\ AtChange
    /\ CurrentChange.kind = kind
    /\ TableOf[CurrentChange.row] \in rels
    /\ msg' = msg + 1
    /\ UNCHANGED <<readerPC, slotVars, snapshotVars, rels, txn, ackedLSN, sinkVars>>
    /\ NoFault

HandleInsert ==
    /\ HandleRow("insert")
    /\ txnBuffer' = Put(txnBuffer, buildChangeEvent("c", CurrentChange.row, CurrentChange.tuple))

\* The old row must die or it lingers downstream.
RekeyEvents(buf, ch, evt) ==
    Put(Put(buf, buildDeleteEvent(ch.row)), [evt EXCEPT !.op = "c"])

\* Faulty variant: a change of the key is treated as any update.
KeyIgnored(buf, ch) == Put(buf, buildChangeEvent("u", ch.to, ch.tuple))

UpdateEvents(buf, ch) ==
    LET evt == buildChangeEvent("u", ch.to, ch.tuple)
    IN  IF oldKeyIfChanged(ch.row, ch.to) THEN RekeyEvents(buf, ch, evt) ELSE Put(buf, evt)

HandleUpdate ==
    /\ HandleRow("update")
    /\ txnBuffer' = UpdateEvents(txnBuffer, CurrentChange)

HandleDelete ==
    /\ HandleRow("delete")
    /\ txnBuffer' = Put(txnBuffer, buildDeleteEvent(CurrentChange.row))

\* The default branch: Truncate messages are skipped.
HandleTruncate ==
    /\ HandleRow("truncate")
    /\ UNCHANGED txnBuffer

\* Of a transaction that is not streamed the reader hears by keepalives, if
\* at all, and takes from them only whether a reply is asked for: the
\* walsender has passed it over, the position to report stays.
HandleKeepalive ==
    /\ readerPC = "stream"
    /\ txn <= Len(wal)
    /\ ~Streamed(txn)
    /\ msg = 0
    /\ txn' = txn + 1
    /\ UNCHANGED <<readerPC, slotVars, snapshotVars, rels, msg, txnBuffer, ackedLSN, sinkVars>>
    /\ NoFault

AtCommit == AtMessage /\ msg = Len(wal[txn]) + 1

\* Faulty variant: the Commit message's position is not yet in ackedLSN.
StampedWithAcked(buf, lsn) ==
    [p \in Partitions |-> [i \in DOMAIN buf[p] |-> [buf[p][i] EXCEPT !.lsn = ackedLSN]]]

Stamped(buf, lsn) ==
    [p \in Partitions |-> [i \in DOMAIN buf[p] |-> [buf[p][i] EXCEPT !.lsn = lsn]]]

\* Kafka has the transaction, or there was nothing in it for Kafka.
Acknowledge ==
    /\ ackedLSN' = txn
    /\ txn' = txn + 1
    /\ msg' = 0
    /\ txnBuffer' = NoEvents

HandleCommit ==
    /\ AtCommit
    /\ txnBuffer # NoEvents
    /\ Publish(Stamped(txnBuffer, txn))
    /\ readerPC' = "committing"
    /\ UNCHANGED <<log, late, slotVars, snapshotVars, streamVars, ackedLSN>>
    /\ NoFault

\* Faulty variant: only a transaction with events is acknowledged.
EmptyCommitSkipped ==
    /\ AtCommit
    /\ txnBuffer = NoEvents
    /\ txn' = txn + 1
    /\ msg' = 0
    /\ UNCHANGED <<readerPC, slotVars, snapshotVars, rels, txnBuffer, ackedLSN, sinkVars>>
    /\ NoFault

\* Nothing but TRUNCATEs was in it.
HandleEmptyCommit ==
    /\ AtCommit
    /\ txnBuffer = NoEvents
    /\ Acknowledge
    /\ UNCHANGED <<readerPC, slotVars, snapshotVars, rels, sinkVars>>
    /\ NoFault

\* Faulty variant: Publish's error is not looked at.
TxnPublishedUnchecked ==
    /\ readerPC = "committing"
    /\ PublishReturned
    /\ Acknowledge
    /\ readerPC' = "stream"
    /\ UNCHANGED <<slotVars, snapshotVars, rels, sinkVars>>
    /\ NoFault

TxnPublished ==
    /\ readerPC = "committing"
    /\ PublishReturned
    /\ ~failed
    /\ Acknowledge
    /\ readerPC' = "stream"
    /\ UNCHANGED <<slotVars, snapshotVars, rels, sinkVars>>
    /\ NoFault

\* Every standbyInterval, and whenever a keepalive asks for a reply.
\* Postgres stores the flush position as it is told, except that it ignores 0.
sendStandbyUpdate ==
    /\ readerPC = "stream"
    /\ ackedLSN # 0
    /\ confirmed' = ackedLSN
    /\ UNCHANGED <<readerPC, slotExists, slotStart, snapshotVars, streamVars, ackedLSN, sinkVars>>
    /\ NoFault

-----------------------------------------------------------------------------
(* Publishing, failing and dying.                                          *)

InBackfill == readerPC \in {"backfill", "copying"}

\* A reader that dies in the backfill cannot resume it; whether that may
\* happen is the configuration's choice.
MayDieHere == InBackfill => "backfillCrash" \in Faults

PublishStep ==
    /\ readerPC \in {"copying", "committing"}
    /\ SinkStep
    /\ failed' => MayDieHere
    /\ UNCHANGED readerVars

\* Run returns or the process is killed: all that is left is Postgres' own.
Exit ==
    /\ readerPC' = "down"
    /\ snapshot' = NoRows
    /\ copied' = {}
    /\ rels' = {}
    /\ txn' = 0
    /\ msg' = 0
    /\ txnBuffer' = NoEvents
    /\ ackedLSN' = 0
    /\ UNCHANGED <<slotExists, slotStart>>
    /\ SinkLost

PublishError ==
    /\ readerPC \in {"copying", "committing"}
    /\ PublishReturned
    /\ failed
    /\ Exit
    /\ UNCHANGED confirmed
    /\ NoFault

ReaderCrash ==
    /\ readerPC # "down"
    /\ Fault(IF InBackfill THEN "backfillCrash" ELSE "readerCrash")
    /\ Exit
    /\ UNCHANGED confirmed

\* The server goes down and takes the connection with it.  A slot is written
\* to disk when it is created and then only now and again, so it may come
\* back with an older position.
SourceRestart ==
    /\ slotExists
    /\ MayDieHere
    /\ Fault("sourceRestart")
    /\ confirmed' \in slotStart..confirmed
    /\ Exit

StreamStep ==
    \/ HandleBegin  \/ HandleRelation \/ HandleInsert \/ HandleUpdate
    \/ HandleDelete \/ HandleTruncate \/ HandleCommit \/ HandleEmptyCommit
    \/ HandleKeepalive

ReaderProgress ==
    \/ New \/ CopyChunk \/ ChunkPublished \/ StartReplication
    \/ StreamStep \/ TxnPublished \/ PublishError

ReaderStep ==
    ReaderProgress \/ sendStandbyUpdate \/ PublishStep \/ ReaderCrash \/ SourceRestart

\* The reader, and what of it is still on its way to the topic.
CaptureStep == ReaderStep \/ (LateStep /\ UNCHANGED readerVars)

\* Postgres has been told of every transaction that was streamed.
StreamAcknowledged == \A n \in DOMAIN wal : Streamed(n) => n <= confirmed

ReaderTypeOK ==
    /\ readerPC \in ReaderPCs
    /\ slotExists \in BOOLEAN
    /\ slotStart \in Nat
    /\ confirmed \in Nat
    /\ snapshot \in Contents
    /\ copied \subseteq Rows
    /\ rels \subseteq Tables
    /\ txn \in Nat
    /\ msg \in Nat
    /\ txnBuffer \in [Partitions -> Seq(Event)]
    /\ ackedLSN \in Nat

=============================================================================
