------------------------------- MODULE Capture -------------------------------
(***************************************************************************)
(* The capture half of the pipeline: the source database, the reader and   *)
(* the topic it publishes to.  What the reader promises to whoever reads   *)
(* the topic, and to Postgres.                                             *)
(***************************************************************************)
EXTENDS Reader

vars == <<sourceVars, sinkVars, readerVars, faults>>

Init == SourceInit /\ SinkInit /\ ReaderInit /\ FaultsInit

Next ==
    \/ SourceStep /\ UNCHANGED <<sinkVars, readerVars, faults>>
    \/ CaptureStep /\ UNCHANGED sourceVars

\* The loop in Run always takes its next step, the Writer keeps sending and a
\* reader that died is started again (scripts/crash-test.sh).
Fairness ==
    /\ WF_vars(ReaderProgress /\ UNCHANGED sourceVars)
    /\ WF_vars(sendStandbyUpdate /\ UNCHANGED sourceVars)
    /\ \A p \in Partitions :
        WF_vars(BatchAcked(p) /\ UNCHANGED <<sourceVars, readerVars>>)

Spec == Init /\ [][Next]_vars

FairSpec == Spec /\ Fairness

-----------------------------------------------------------------------------

(* The types of every variable of the source, the topic, the reader and    *)
(* the slot.                                                               *)
TypeOK ==
    /\ SourceTypeOK
    /\ SinkTypeOK
    /\ FaultsTypeOK
    /\ ReaderTypeOK

Holds(queues, evt) ==
    \E i \in DOMAIN queues[PartitionOf[evt.row]] : queues[PartitionOf[evt.row]][i] = evt

InTopic(evt) == Holds(log, evt)

\* The i-th event of the k-th change of transaction n, as it is published.
PublishedEvent(n, k, i) == [EventsOf(wal[n][k])[i] EXCEPT !.lsn = n]

TxnInTopic(n) ==
    \A k \in DOMAIN wal[n] : \A i \in DOMAIN EventsOf(wal[n][k]) :
        InTopic(PublishedEvent(n, k, i))

\* The events of a transaction, as they are published.
TxnEvents(n) ==
    UNION {{PublishedEvent(n, k, i) : i \in DOMAIN EventsOf(wal[n][k])} : k \in DOMAIN wal[n]}

\* Contents as snapshot reads.
Reads(contents) == {rowToEvent(r, contents[r]) : r \in {r \in Rows : contents[r] # Absent}}

Streaming == readerPC \in {"stream", "committing"}

Feed == INSTANCE AtLeastOnce WITH
    Strays  <- "lateStore" \in Faults,
    history <- [n \in 1..Len(wal) |-> TxnEvents(n)],
    present <- Reads(table),
    open    <- slotExists,
    start   <- slotStart,
    acked   <- confirmed,
    next    <- IF Streaming THEN txn ELSE confirmed + 1,
    seeding <- InBackfill,
    seed    <- Reads(snapshot)

(* Whoever reads the topic, and Postgres, need know no more of the reader  *)
(* than AtLeastOnce says: snapshot first and whole, then transactions in   *)
(* order, each whole before the next and before it is acknowledged         *)
(* (README.md:25, docs/phase-4-backfill.md:87).  A reader that may die in  *)
(* the backfill does not keep that promise.                                *)
ImplementsFeed == Feed!Spec

(* The reader's first rule: whatever position it has told Postgres, or is  *)
(* about to tell it, every event of every transaction up to there is in    *)
(* the topic, so Postgres may discard that WAL (reader.go:211-213).        *)
AckedIsPublished ==
    \A n \in DOMAIN wal :
        slotStart < n /\ (n <= confirmed \/ n <= ackedLSN) => TxnInTopic(n)

(* A consumer sees a row's history in order: an event of an earlier        *)
(* transaction, or a snapshot read, comes after an event of a later one    *)
(* only as a repeat of an event it has already seen (event.go:40-41, and   *)
(* "why order survives" in docs/phase-4-backfill.md).                      *)
PublishedInOrder ==
    \A p \in Partitions : \A i, j \in DOMAIN log[p] :
        (i < j /\ log[p][i].row = log[p][j].row /\ log[p][i].lsn > log[p][j].lsn)
            => \E h \in 1..(i - 1) : log[p][h] = log[p][j]

(* The stream of a fresh slot begins only when every row of the exported   *)
(* snapshot is in the topic (reader.go:60-69).                             *)
BackfillBeforeStream ==
    [][(readerPC = "backfill" /\ readerPC' = "stream") =>
        \A r \in Rows : snapshot[r] # Absent => InTopic(rowToEvent(r, snapshot[r]))]_vars

(* A standby update never moves the slot backwards: after a restart the    *)
(* reader's position starts again at 0, and must not reach Postgres before *)
(* it is past what was confirmed before (reader.go:213, 223-227).          *)
UpdateNeverRewinds == [][sendStandbyUpdate => confirmed' >= confirmed]_vars

(* Every transaction is eventually captured, by the snapshot or by the     *)
(* stream, whatever faults struck on the way.                              *)
EveryTxnCaptured ==
    \A n \in 1..MaxTxns :
        n \in DOMAIN wal ~>
            slotExists /\ n \in DOMAIN wal /\ (n <= slotStart \/ TxnInTopic(n))

(* Once the source is quiet, Postgres may discard every transaction it has *)
(* streamed, also one of which no event was published (reader.go:211-213). *)
(* Work on other tables behind the last of them Postgres does retain: the  *)
(* slot need not end up at the end of the WAL.                             *)
SlotCatchesUp == <>[](slotExists /\ StreamAcknowledged)

=============================================================================
