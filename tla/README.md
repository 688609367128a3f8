# Bartie (minicdc) in TLA+

Bartie keeps a live copy of PostgreSQL tables in another PostgreSQL database.
A *reader* follows the source's logical replication stream and publishes every
row change to one Kafka topic; a *writer* consumes the topic in batches and
merges each batch into the destination. Two rules carry the whole design
(repository `README.md`, Architecture): the reader acknowledges a position to
Postgres only after Kafka has everything up to it, and the writer commits an
offset only after the destination transaction is durable. These modules check
what follows from the two rules, and where it does not.

## 1. Inventory

| Component | State it keeps | Operations |
|---|---|---|
| Source database (external) | table contents, WAL, the replication slot with its confirmed position | statements, COMMIT, slot creation with exported snapshot, crash recovery |
| Reader loop `internal/reader/reader.go` | `txnBuffer`, `ackedLSN` | `New`, `Run`, `handleWALMessage` (one branch per message kind), `sendStandbyUpdate` |
| Slot `internal/reader/slot.go` | `SlotState{Fresh, SnapshotName}` | `ensureSlot` |
| Relation cache `internal/reader/relcache.go` | relation id to column names | `Store`, `Get` |
| Tuple decoder `internal/reader/decode.go` | none | `buildChangeEvent`, `buildDeleteEvent`, `oldKeyIfChanged` |
| Backfill `internal/backfill` | the snapshot transaction, the current chunk, the column list of the table | `Run`, `copyTable`, `rowToEvent`, `loadColumns` |
| Envelope `internal/events` | none | `Key`, `Marshal`, `Decode` |
| Sink `internal/sink/kafka.go` | kafka-go's queues per partition | `Publish` |
| Topic (external) | a log per partition, the group's offsets | produce, fetch, commit, rebalance |
| Writer loop `internal/writer/writer.go` | age of the buffer | `Run`, `flushAll` |
| Buffer `internal/writer/buffer.go` | `perTable`, `newest`, `count` | `Add`, `Count`, `TakeAll` |
| Fold and merge `internal/writer/flush.go`, `staging.go` | the destination transaction | `dedupe`, `fold`, `representative`, `flushTable`, `loadStaging`, `mergeStaging` |
| Destination DDL `internal/writer/ddl.go`, `typemap.go` | the destination's tables and their columns; `created`, a cache of names | `ensureTable`, `orderedColumns`, `destType` |
| Value conversion `internal/pgval` | none | `TextToValue`, `TypeNameForOID`; then JSON and `toParam` |
| Verify `internal/verify` | the table in hand, its source digest, the mismatches of the pass | `Run`, `compareAll`, `checksum` |
| Bench, config, CLI | none | one query, flags, environment |

**How they interact.** The reader talks to Postgres by replication messages and
standby updates and to Kafka by blocking `Publish` calls; the writer talks to
Kafka by `FetchMessage` and `CommitMessages` and to the destination by one
transaction per table. Reader and writer share nothing but the topic. `cdcctl
verify` shares nothing with either: it queries both databases. Each
process is single-threaded apart from what kafka-go runs for it: a sender per
partition in the reader, a fetcher and a group member in the writer.

**What is hard.** Every step of either process can be its last. A `Publish` of
one transaction is several produce requests, to several partitions, each of
which can be stored, stored and not acknowledged, stored long after its sender gave it
up, or never stored. A restarted
reader replays from a position that may be behind what it published; a
restarted server may bring the slot back with an older position than it was
told. Work on tables that are not published moves the end of the WAL and not the
reader. A flush is one transaction *per table* followed by the offset commit, so
a kill leaves any part of it done. Replayed events meet a destination that is
already ahead of them. The snapshot and the stream must meet at one point. A
batch is cut by size or age, anywhere in a transaction. And the events are not
whole rows: an update leaves out TOAST columns it did not touch, a key change
becomes a delete and a create. The table's columns may change between two events
of one batch, and a value has two ways into an event (the backfill's `::text` and
pgoutput's text), which must meet in one. Verify compares two databases that both
move while it reads them.

**What makes each component correct.**

- Reader: acknowledged implies published; a row's events reach the topic in
  order, apart from repeats; the slot is never moved back; every transaction is
  captured; the slot catches up with all that was streamed when the source is idle.
- Backfill: every row of the snapshot is in the topic before the stream begins.
- Sink: an error is reported whenever a batch was dropped.
- Writer and buffer: the offset commit covers exactly what was applied; offsets
  never move back; a kill at any moment loses nothing.
- Fold and merge: a batch collapsed has the effect of the batch one by one; the
  same batch merged twice is the batch merged once; no NULL is invented.
- Destination DDL and values: what was delivered is at the destination in every
  column or the batch is refused; a row has one key whichever way its events
  came; a column prints at the destination as at the source.
- Verify: a MATCH misses nothing, and comes once the pipeline has caught up.
- Whole pipeline: what would be delivered again always leads to the source's
  contents; the destination converges.

## 2. Modules

Who extends whom (`MC*` modules extend the module they are named after):

```
Source, Sink, Merge, AtLeastOnce   extend  ChangeEvents   (Sink also Faults)
Reader                             extends Source, Sink
Capture                            extends Reader, instantiates AtLeastOnce
Writer                             extends Merge, Sink
Recovery                           extends Source, Writer
Delivery                           extends Recovery
Pipeline                           extends Reader, Recovery
Verify                             extends Delivery
Schema                             extends Values
CaptureProofs, AtLeastOnceProofs   extend the module they are about
FoldProofs                         lemmas about folds, concatenations and filters
WriterProofs                       extends Recovery, FoldProofs
DeliveryProofs                     extends Delivery, WriterProofs
VerifyProofs                       extends Verify, DeliveryProofs
PipelineProofs                     extends Pipeline, WriterProofs
SchemaProofs                       extends Schema, FoldProofs
```

| Module | Models | Correspondence with the code |
|---|---|---|
| `ChangeEvents` | `internal/events`, `decode.go`, `rowToEvent` | one record per `ChangeEvent`; `buildChangeEvent`, `buildDeleteEvent`, `oldKeyIfChanged` keep their names |
| `Faults` | what may go wrong, and how often | a configuration picks kinds and a number |
| `Source` | Postgres as the reader sees it (external) | `wal[n]` is the n-th committed transaction, n stands for its commit LSN |
| `Sink` | `Publish` on top of kafka-go's `Writer` | `unsent[p]` is what the call in progress still owes partition p; a batch is acknowledged, stored with its acknowledgement lost, or given up; `late[p]` is a request that timed out and is still on its way |
| `Reader` | `reader.go`, `slot.go`, `relcache.go`, `backfill.go` | `readerPC` is the place in `Run`; one action per message kind; the two `Publish` calls are left and entered at `copying` and `committing` |
| `AtLeastOnce` | the abstract promise of the reader | a feed with a cursor: the first contents whole, then transactions in order, at least once; nothing of how the reader does it |
| `Capture` | Source + Reader + Sink | the reader's own guarantees, and the mapping `Feed` to `AtLeastOnce` |
| `Merge` | `flush.go`, `staging.go` | `fold` and `dedupe` on events, `mergeRow` is the MERGE statement for one row |
| `Writer` | `writer.go`, `buffer.go` | `writerPC = "flush"` is `flushAll` after `TakeAll`; `FlushTable(t)` is one destination transaction, `CommitOffsets` the `CommitMessages` after the last |
| `Recovery` | nothing of its own | defines "what would be delivered again, applied to the destination" |
| `Delivery` | Writer behind an ideal reader | the writer's own guarantees |
| `Pipeline` | everything composed | end-to-end guarantees |
| `Verify` | `verify.go`, `checksum.go` beside `Delivery` | `verifyPC` is the place in `compareAll`: one action per query, source and destination of one table after the other; a digest stands for what it digests |
| `Values` | `pgval.go`, `typemap.go`, the JSON of an event, `toParam` | one operator per conversion, on small sets of values of a type |
| `Schema` | `ddl.go`, the column lists of `relcache.go` and `schema.go`, `representative`, `loadStaging` | one typed table with ALTER TABLEs; an event carries the columns it was decoded with; `Flush` is `flushTable` and the commit, if the process lives to do it |

**Abstractions.** A row is a table and a primary key. Its other columns hold
*versions*, the number of the write that stored them, so any stale or lost
value is visible; `Null` is version 0, which the application never writes, so
it shows up only where a value was lost. Column `c2` is TOASTed in every
configuration, `c1` is not. (`Schema` and `Values` are about what this leaves
out: there a column has a type and a value is its text.) A delete event carries no columns. Logging, SQL
text, JSON, time stamps and batch statistics are left out. `FetchMessage`
hands out one message of some partition; kafka-go's own queue in front of it
changes no order within a partition. `Add` decodes the message in the same step
(what `Marshal` wrote `Decode` reads; what becomes of a value on the way is in
`Values`).

**Operators named "faulty variant"** stand before some definitions. Each is the
definition with a plausible slip in it (a dropped check, a wrong starting
value, a commit too early). No specification uses one. They document which
mistake each property is there to catch: with the variant in place of the
definition TLC finds the property violated.

**Postgres behaviours the modules rely on.** A slot created with
`EXPORT_SNAPSHOT` has its consistent point exactly at the snapshot. A stream
started at 0 begins with the first transaction that commits after the confirmed
position. The server stores the flush position it is told, except 0. A slot's
position is written to disk when it is created and then only now and again, so
after a crash of the server it may be anything from the creation point to the
last value confirmed: `SourceRestart`. Of a transaction without published changes
pgoutput sends nothing since PostgreSQL 15 (`deploy/docker-compose.yml` runs 16),
neither Begin nor Commit: `CommitOther` and `Streamed`. The reader hears of it by
keepalives at most, whose `ServerWALEnd` it ignores (`reader.go:119-129`):
`HandleKeepalive`. A TRUNCATE of a published table is a published change, and a
transaction of nothing else reaches `reader.go:201-214` with no event:
`HandleEmptyCommit`.

## 3. Faults

| Kind | Meaning | Where the code meets it |
|---|---|---|
| `readerCrash` | kill -9, or any error that ends `Run`, outside the backfill | `reader.go:101-116`, `scripts/crash-test.sh` |
| `backfillCrash` | the same during the backfill | `slot.go:37-39` |
| `lostAck` | the broker stored a batch and kafka-go sends it again | `kafka.go:19-33`, retries, not idempotent |
| `batchFail` | a batch ran out of attempts, `WriteMessages` returns an error | `kafka.go:50-53` |
| `sourceRestart` | the source server went down, the slot may come back older | `reader.go:104-113` |
| `lateStore` | a produce request is not answered in time; kafka-go sends it again, and the first one reaches the broker whenever it does, even after the reader died | `kafka.go:19-33`, not idempotent |
| `writerCrash` | kill -9, or any error that ends the writer's `Run` | `writer.go:88-97` |
| `rebalance` | a new generation of the consumer group in a live process | `writer.go:29-51` |

`MaxFaults` bounds their number in a behaviour, which stands for "faults stop
eventually"; it is what liveness needs and what keeps the state space finite.
The configurations that ask for `Recoverable` or for liveness leave out
`backfillCrash`, and `MayDieHere` then also keeps every other way to die out of
the backfill: the repository itself says that a crash there is not resumable
(`docs/phase-4-backfill.md:96`). What happens when it does is a run of its own.

## 4. Runs

Bounds: `MaxTxns` is the length of the WAL, `PairTxns` which transactions may
hold two changes, `OtherTxns` which may be work on unpublished tables; `BatchSize`
is 1, so that every publish of more than one event is several requests;
`ChunkSize` is 2 in `capture`, whose table has two rows, one or none when it is
copied (a full chunk, a last one that is not full, no chunk), and 1 in `pipeline`,
where every table of more than one row is several chunks; `FlushMax` is 2 or 3, so that batches are cut both by size and by
age. Two rows on two partitions are the least with which requests to different
partitions can be reordered; two transactions after a seeded table are the least
with which a row has a history (snapshot, older, newer) that replay can permute;
two faults are the least with which one strikes during the recovery from
another. `CHECK_DEADLOCK FALSE` everywhere: a source that has committed `MaxTxns`
transactions and a pipeline that has caught up really have nothing left to do.

| Run | Instance | What it shows |
|---|---|---|
| `capture` | 2 rows, 2 partitions, 2 transactions (the first of up to two changes) of updates, deletes and truncates or on other tables, **2** faults of any kind but `backfillCrash`, fairness | `AckedIsPublished`, `PublishedInOrder`, `BackfillBeforeStream`, `UpdateNeverRewinds`, `EveryTxnCaptured`, `SlotCatchesUp`, and `ImplementsFeed`: `Capture` refines `AtLeastOnce` |
| `delivery` | 3 rows, 2 tables sharing a partition, every row statement, 1 kill, fairness | `BufferIsUncommitted`, `FoldLosesNothing`, `Recoverable`, `OffsetsNeverRewind`, `Converges` of the writer alone |
| `pipeline` | 2 rows, 2 partitions, inserts, TOAST-preserving updates and key changes, the first transaction possibly on other tables, 1 fault of any kind but `backfillCrash`, `lateStore` and `rebalance`, fairness | `Recoverable` and `Converges` end to end |
| `verify` | 3 rows in 2 tables, inserts and deletes, 1 rebalance, fairness | `MatchMissesNothing`, `EventuallyMatches`; also `Converges` with a rebalance |
| `schema` | a bigint key on both sides of 2^53, columns that may be added, dropped or renamed, `MaxDDL` = 2 ALTER TABLEs, 3 events, batches of up to 2 | `NothingDropped`, `OneKeyPerRow`, `SamePrintout` |
| `rekey_toast` | no fault | **violated**: finding 1 |
| `replay_null` | 1 kill | **violated**: finding 2 |
| `rebalance` | 1 rebalance | **violated**: finding 3 |
| `backfill_kill` | 1 kill in the backfill | **violated**: finding 4 |
| `late_request` | 1 late request | **violated**: finding 5 |
| `values` | a boolean column, no ALTER TABLE | **violated**: finding 6 |
| `verify_empty` | a table without rows, no fault | **violated**: finding 7 |

What the central properties say:

- `ImplementsFeed`: whoever reads the topic, and Postgres, need know no more of
  the reader than `AtLeastOnce`: it delivers the contents of the moment the slot
  was created, whole, and then transactions in order, each whole before the next
  begins and before it is acknowledged; after any failure it falls back to what
  Postgres remembers of its acknowledgements, not before its start. A request of
  long ago (`DeliverStray`) may store again what is in the topic, or an event
  whose predecessors all are, never one that runs ahead. The mapping takes the
  slot for the feed and the transaction in hand (or the one after the confirmed
  position) for its cursor; buffers, chunks, batches and message positions are
  the reader's own affair. `AtLeastOnceProofs` proves what that is worth to a
  consumer.
- `AckedIsPublished`: every event of every transaction between the slot's
  creation and the position the reader reports, or has reported, is in the topic.
- `PublishedInOrder`: an event of an earlier transaction follows one of a later
  transaction of the same row only as a *repeat*. It compares transactions by
  LSN. Within one transaction the code promises less: a `Publish` that fails
  half-way may store a later batch of the same partition and not an earlier one;
  the replay then publishes the whole transaction again, in order. And a repeat
  is not harmless by itself: when it comes late it may be the *last* event of
  the row (finding 5).
- `Recoverable`: in *every* reachable state, if everything stopped now, the
  events that Kafka and Postgres would deliver again (log suffix behind the
  committed offsets, then the WAL behind the slot, and what a running backfill
  still owes) bring the destination to exactly the source's contents, row by row
  and column by column. This is "no data loss at any kill" as a state predicate:
  it is violated in the first state in which something is lost, not only once
  the loss becomes visible.
- `SlotCatchesUp`: Postgres may in the end discard every transaction that it has
  streamed, those of nothing but TRUNCATEs included. It may not discard the work on
  other tables behind the last of them (section 7).
- `FoldLosesNothing`: collapsing whatever the buffer holds and merging the rest
  equals merging one event at a time, for the destination as it is.
- `Converges`: eventually and for ever the destination equals the source, the
  slot is past every transaction streamed and every offset at the end of its
  partition.
- `MatchMissesNothing`: a MATCH of a pass during which the source was quiet, in a
  run without faults, means that every row the source has is at the destination
  with the source's values. It deliberately does not say that the databases are
  equal, for they need not be: a row that was inserted and deleted at the source
  is missing on both sides while both its events are under way, and when the
  insert is applied behind the comparison the destination has a row more than the
  source until the delete follows. With a batch applied again even rows that
  were compared can go back for a while; `Converges` says that this ends. It rests
  on every image being new: a digest cannot tell a row that went back to an
  earlier image (x updated and updated back) from one that was never touched, so
  a MATCH may meet the older of two equal images and the destination leave it
  again. In the model every write is a new version; what remains is a table of
  nothing but its key, where TLC finds insert, delete, insert with `Cols = {}`.
- `EventuallyMatches`: if every published table has had an event, and as long as
  neither the deadline nor an error of the source (`verify.go:73-75`) ends it, verify ends with a MATCH, whatever mismatches the
  passes before it saw.
- `NothingDropped`: behind the committed offset, the newest event of a key is at
  the destination with all the columns it has: a batch that mixes events from
  before and after an ALTER TABLE is applied whole or refused. Its premise
  `OneIsFuller`, that of any two events in the topic one has all the columns of the other, is
  the limit of what `representative` can do: after a rename it fails.
- `OneKeyPerRow`: no batch makes the MERGE touch a row twice, which is what would
  happen if backfill and stream disagreed on a key. `dedupe` compares keys as they
  are printed, the MERGE with the `=` of their type (`staging.go:107-110`,
  `Alike`). For the bigint of the run that is the same; for a numeric it is not
  (section 7).
- `SamePrintout`: once everything is delivered, keys and the columns common to
  both sides print the same, which is what verify digests. It is stated for one
  ALTER TABLE at most; the run goes on to a second, after which it can fail: a
  column dropped and added again is NULL at the source and keeps its old values
  at the destination, and one renamed before the destination's table is created
  arrives there without the values it had.

### Fairness

Liveness is asked only under fairness. `Run` of the reader and of the writer
are loops that always take their next step, hence weak fairness of the reader's
progress and of each of the writer's steps. `FetchMessage` is bounded by the age
of the buffer (`writer.go:63-71`), hence fairness of `FlushInterval`; it hands
out messages of every partition, hence fairness per partition. kafka-go's
`Writer` keeps retrying, hence fairness of `BatchAcked`. A standby update goes
out every `standbyInterval`, hence fairness of `sendStandbyUpdate`. A process
that died is started again, as `scripts/crash-test.sh:39-51` does: `New` is part
of the reader's progress, `WriterStart` of the writer's. `compareAll` takes its
next query, hence fairness of `VerifyProgress`; of the deadline nothing is assumed,
`EventuallyMatches` says itself that it must not pass and that the source must answer. Nothing is assumed of the
source (it may commit or not), of late requests (they may arrive or not) and
nothing of the faults.

## 5. Findings

1. **A key change with unchanged TOAST columns loses them** (`rekey_toast`,
   `reader.go:182-187`). It is published as delete(old) + create(new); the
   create lacks the unchanged columns, the new row does not exist at the
   destination, and the MERGE inserts it with NULL. No fault is needed and
   nothing repairs it. `event.go:30-32` and `README.md:75` say otherwise.
2. **A replayed update can resurrect a deleted row with NULLs**
   (`replay_null`, `staging.go:141`) when the writer dies between applying a
   delete and committing its offset. The delete behind it in the log removes the
   row again, so this one is transient.
3. **After a rebalance an offset can be committed ahead of what was applied
   last** (`rebalance`, `buffer.go:34`). The buffer keeps its events and its
   `newest` while the consumer fetches them a second time; a flush cut by size
   may apply an older event after a newer one and commit the newer offset. A
   kill at that point loses the newer event. Without the kill the consumer
   fetches the rest again and the destination heals, which `verify` shows.
4. **A kill during the backfill is not survivable** (`backfill_kill`,
   `reader.go:63`, `slot.go:37-39`): the restart finds the slot, takes it for
   resumable and never copies the rest. `docs/phase-4-backfill.md:96` admits it,
   `README.md:25` does not.
5. **A late produce request can leave the destination at an older state**
   (`late_request`, `kafka.go:21`). The producer is not idempotent, so a request
   that timed out may be stored after its repetition and after the row's next
   event. Every offset and the slot end up at the end, and the older event is the
   one applied last; `kafka.go:13-14`, `event.go:40-41` and `README.md:73` promise
   per-row order and harmless replays.
6. **A true boolean is copied as false** (`values`, `pgval.go:25`). The backfill's
   `::text` prints `true`, `TextToValue` compares with `t`. The stream's own values
   are right, so the row is repaired when it is next updated.
7. **Verify does not wait out an empty table** (`verify_empty`, `verify.go:80`). A
   table without rows has no event and so no table at the destination, which is a
   mismatch in every pass, until the deadline.

A TRUNCATE of a published table is skipped (`reader.go:216-219`), with a comment
that says so: the destination keeps the rows. The configurations that compare the
two databases therefore issue none; `capture` does, to show that the reader goes
on and acknowledges such a transaction.

## 6. Proofs

Proved for all values of the constants (any rows, tables, partitions, history,
batch and chunk size, faults of any number), under the assumptions named in the
modules: `ShapeAssumption` (the row-to-table and row-to-partition maps are
functions, finitely many rows and partitions), `SentinelAssumption` (the markers
are not versions), `SourceAssumption`, `BatchAssumption`, `ChunkAssumption`,
`FlushAssumption`, `FaultsAssumption`, `VerifyAssumption` (finitely many tables and at least one:
`verify.go:38-40` refuses a publication of none), `SchemaAssumption` (finitely
many keys and columns, and what the types' sample values are). The premises of a
theorem are about the constants only, and name what the code does not survive.

`CaptureProofs`, for faults of every kind:

- `TypeCorrect`: `Spec => []TypeOK`.
- `AckedPublished`: `Spec => []AckedIsPublished`, the reader's first rule.
- `NeverRewinds`: `Spec => UpdateNeverRewinds`.

`AckedIsPublished` is not inductive: it says nothing of how events get into the
topic. The invariant that is, `IInv`, adds

- `SlotInv`: a reader runs only on a slot; the slot's start is at most its
  confirmed position, which is at most the length of the WAL;
- `PositionInv`: while streaming, the transaction in hand lies past the slot's
  confirmed position and at most one past the end of the WAL, and the position to
  report is 0, or before the transaction in hand and not before the slot's
  confirmed position (from which `UpdateNeverRewinds` follows); otherwise the
  position to report is 0;
- `BehindInv`: every transaction between the slot's start and either its confirmed
  position or the transaction in hand is in the topic;
- `BufferInv`: after the m-th message, the buffer holds every event of the changes
  delivered so far;
- `PublishInv`: while a transaction is being published and no batch was given up,
  each of its events is in the topic or still unsent.

Each step then only has to show that events move along buffer, unsent, topic
without getting lost; that the WAL and the topic only grow does the rest.

`AtLeastOnceProofs`, about the abstract feed alone:

- `FeedInOrder`: `Spec => []InOrder`. The strengthening says where an entry of the
  topic comes from (`OriginInv`), that before an entry of a transaction stands
  everything of the earlier ones in its partition (`PriorInv`), and that a snapshot
  read behind an entry of a transaction repeats one before it (`ReadsInv`).

`CaptureProofs` again, about the refinement:

- `BackfillFirst`: `Spec => BackfillBeforeStream`, under every fault. A reader that
  dies in the backfill never comes to the stream of a *fresh* slot: its next life
  finds the slot;
- `Refinement`: `Spec => ImplementsFeed`, if `"backfillCrash"` is not among the
  faults. With it the statement is false: a feed that is opened delivers its
  first contents whole (finding 4);
- `InOrder`: `Spec => []PublishedInOrder`, under the same premise, by `Refinement` and `FeedInOrder`, with
  `AtLeastOnceProofs` instantiated under the same mapping.

`IInv` says that nothing is missing; a step of the feed also needs that nothing is
there that should not be. `RInv` adds it: the snapshot is held exactly as long as
it is being copied (`SnapshotInv`) and what was copied is in the topic or still
unsent (`CopiedInv`); buffer and `unsent` hold events of the transaction, or of
the snapshot, in hand and of nothing else (`NothingElseInv`); a late request holds
only events that are in the topic already or whose turn it is (`LateInv`). The
simulation is one lemma per kind of step: `CreateSlot` opens the feed,
`StartReplication` ends its seeding or changes nothing, a stored batch delivers,
`TxnPublished` and `HandleEmptyCommit` advance it, a standby update acknowledges,
every way to die falls back, a late request is a stray, and the rest is the
reader's own affair.

`FoldProofs` is what the proofs about batches rest on. The library's induction
theorems take an operator as a parameter, which no installed prover instantiates;
so induction is stated here over *sets* of numbers (`SetInduction`, `SeqInduction`),
and from it what the community modules' `FoldLeft`, `FlattenSeq` and
`SetToSeq` do to a sequence that grows at its end (`FoldFAppend`,
`FlattenAppend`, `SetToSeqLists`). Batches of every length are covered this way.

`WriterProofs`, about batches, buffer and offsets, whatever stands before the topic:

- `FoldMerges`: merging two events of a row one after the other is merging their
  `fold`, for every stored image and any two well-formed events, provided no
  partial event follows a delete. The proviso is real: the create of a key change
  is exactly such an event when TOAST columns are unchanged (finding 1).
- `CollapsedBatch`: the same for a whole batch of any length and any rows: what
  `dedupe` leaves of it, merged, is the batch merged event by event
  (`ApplyAll`), provided no partial event directly follows its row's delete
  (`NoneResurrected`). The argument goes row by row: a batch acts on a row as the
  row's own events do (`RowWise`), and collapsing acts on those as `fold` does.
- `ReplayedBatch`: merging a staged batch a second time changes nothing, which is
  what a writer killed between flush and commit relies on.
- `ReplayedStretch`: nor does delivering a whole stretch of the topic again, event
  by event, however it was cut into batches; here partial events may follow
  deletes.

`DeliveryProofs`, about `Delivery`:

| Theorem | States | If no | Why the premise |
|---|---|---|---|
| `TypeCorrect` | `[]TypeOK` | - | |
| `NeverRewinds` | `OffsetsNeverRewind` | rebalance | finding 3 |
| `BufferCovers` | `[]BufferIsUncommitted` | rebalance | finding 3 |
| `FoldIsLossless` | `[]FoldLosesNothing` | rebalance, `rekeyTouch` | a partial event behind a delete, handed out twice or created so |
| `KillLosesNothing` | `[]Recoverable` | rebalance, `rekeyTouch`, `truncate` | findings 3 and 1; a TRUNCATE is not in the stream |

Without any one of these premises TLC finds the property violated on the instance
of `delivery`, so none is there for the proof's sake. Kills of the writer are not
restricted, in number or place. The invariants, each needing the ones before it:

- `Types`: `TypeOK`, and that the topic holds only events a reader builds, of rows
  of its partition, and the offsets only points of it;
- `IInv`: the offsets a flush would commit (`OffsetsTaken`) are the consumer's
  position, never behind the committed one. A rebalance breaks it: it moves the
  consumer back and leaves the buffer alone;
- `BufferInv`: row by row, the buffer of a table still to flush holds what lies
  between the committed offset and the one the commit would store (`Taken`), in
  the log's order. Row by row, since the order of different rows is not the log's
  once they come from two partitions;
- `HistoryInv`: among the events of a row in the topic no partial update directly
  follows a delete, and a row that the source has does not end with one (`Lives`).
  From it `NoneResurrected` of every stretch;
- `DestInv`: what the group has not committed, applied to what the destination
  has, gives the source's image of every row; and a table that is already
  flushed is not changed by what the commit will cover. The second part is why a
  kill between two tables' transactions is harmless, by `ReplayedStretch`.

`VerifyProofs`, about `Verify`:

- `VerifyTypeCorrect`: `VerifiedSpec => []VerifyTypeOK`, with every fault.
- `MatchIsTrustworthy`: `VerifiedSpec => []MatchMissesNothing`, without `rekeyTouch`,
  and if there is a column outside the key. The second premise is needed (section
  4); of the first TLC finds no counterexample on small instances, but the proof
  uses `NoneResurrected`. Faults are not excluded: the property itself speaks of
  runs in which none has happened yet.

A MATCH is put together from reads of different moments, so equality of what was
read says nothing about the destination afterwards. What does is the history of
each row (`SettledInv`): replayed from the start, it comes to the source's
image only to stay there, as every write stores a version that was not there
before. `ReplayInv` says that the destination *is* such a replay while no batch is
applied twice, up to the committed offset or up to what a commit would cover;
`MatchInv`, that the tables passed so far hold every row of the source. A row that
was at its final image when it was compared is therefore at it when the MATCH is
printed, whatever the writer has applied in between.

`SchemaProofs`, about `Values` and `Schema`:

- `StreamedArrives`: a streamed value prints at the destination as at the source,
  for every type and value, numbers beyond 2^53 included;
- `CopiedArrives`: a copied one arrives as the cast to text wrote it, and so as the
  streamed one exactly where the cast writes what the type prints: most types have
  no cast of their own, bpchar and inet do (`TextCasts` stands for all of those). A
  boolean arrives as false whatever it was (finding 6);
- `TypeCorrect`: `Spec => []TypeOK`;
- `RowsTouchedOnce`: `Spec => []OneKeyPerRow`, if `KeyPrintsOnce`: no two printouts of
  the key are equal for its type, where the destination compares it as that type.
  So for integers, text, uuid, dates and whatever lands as text, and for a boolean,
  finding 6 notwithstanding: two events with different keys are also stored under
  different ones. Not so for numeric, jsonb and the floats (section 7);
- `ColumnsArrive`: `Spec => []NothingDropped`, if `KeyPrintsOnce`, for any number of ALTER
  TABLEs and of deaths. That `representative` finds the widest event of a batch is
  `FoldFindsFullest`; that the table it creates or meets has the columns is
  `TableParts`;
- `PrintsTheSame`: `Spec => []SamePrintout` if `PlainValues`: what is copied is no
  boolean and of a type whose cast to text writes what it prints, and `KeyPrintsOnce`
  (finding 6 and section 7). The invariant ties three column lists together
  (`ColumnsInv`: with one ALTER TABLE the events, the source and the destination know
  one of two lists, the older one first), the last event of each key to the source's
  row (`RowInv`) and, behind the offset, to the destination's (`DestInv`).

`PipelineProofs`, about the whole `Pipeline`, if neither `rekeyTouch` nor `truncate`
is among the statements, and neither `rebalance` nor `lateStore` nor `backfillCrash`
among the faults:

- `KillsAreSurvivable`: `Spec => []Recoverable`. Kills of reader and writer,
  restarts of the source, lost acknowledgements and batches given up may strike in
  any number and at any place, for any sizes of chunk, request, batch and history.
- `DeliveredIsTheSource`: whenever the slot has confirmed all that was streamed and the
  group's offsets the whole topic, the destination is the source's table
  (`Spec => [](NothingOwed => dest = table)`), the safety half of `Converges`.

Without any one of the five premises TLC finds `Recoverable` violated on the
instance of `pipeline` (findings 1, 3, 4, 5, and a TRUNCATE, which the stream does
not carry). The form of the other proofs does not do here: the topic has
repeats, so the history of a row in it is not the source's, events stand in it
behind later ones, partial updates follow deletes, and replaying it goes back to older
images. What survives repeats is less than a history: for each *part* of a row (a
column, or whether the row is there) the last value the topic tells of it. So the
proof is about what a sequence of events *tells* of a part (`Tells`): laid end to
end, the later sequence overrules the earlier (`TellsConcat`), and merging it stores
what it tells (`EffectTells`), collapsed by `dedupe` or not (`FlushTells`), with one
thing left open: the columns of a row that is told gone and is not there. The
invariant `PipelineInv` has two halves:

- `ReaderInv`. The WAL as a whole tells nothing of a part or what the table holds
  (`WalRest`), and a later position tells no more than an earlier one
  (`WalAnywhere`), so falling back in it does no harm. Where the rest of the WAL
  behind a position leaves a part alone, the topic tells the part as the table has it
  (`Published`, at the transaction in hand); while the backfill runs, the topic
  together with what is in hand and what is not copied yet does (`Backfilling`);
  while a transaction is being published, the topic together with what is unsent
  does at the position behind it, and what is unsent is only of parts that the WAL
  tells again from the position before it (`Committing`), which is why a `Publish`
  that fails half-way may leave the topic as it is.
- `WriterInv`. `IInv` and `BufferInv` as in `DeliveryProofs`, and, in place of the
  history: a part that is not told again behind an offset is at the destination
  as it was told last up to there (`Holds`), at the committed offsets and, for
  tables that are already flushed, at those the commit will store (`StoredTale`). Of a
  column whose row was told gone nothing is claimed: after a kill between flush and
  commit it may hold what a later event stored (finding 2).

`Recoverable` follows (`InvRecovers`): of each part, either what is delivered again
tells something, and then the last of it is what the table holds, or it does not, and
then the destination has been told already.

The inductive invariants were also checked by TLC on small instances, where a wrong
one is found sooner than by a proof that fails.

**Only model-checked:** all liveness (`SlotCatchesUp`, `EveryTxnCaptured`, `Converges`,
`EventuallyMatches`), which is out of the prover's reach. Every invariant and every
property of single steps that a passing run checks is proved.

## 7. Not modelled

- `internal/bench`, `internal/config`, `cmd/cdcctl`, scripts, deployment: one
  query, flags, environment, test drivers; no state of the pipeline.
- `created` in `ddl.go` is no variable: it only skips a CREATE TABLE IF NOT EXISTS
  that would do nothing.
- Of the decoder, the checks of arity and of missing keys (`decode.go:21-33`),
  which no message of Postgres fails.
- What orders the rows of a digest (`checksum.go:95`): a text, bpchar or enum key
  may sort differently at the destination, whose types and collation are others.
  A digest stands for what it digests.
- Column DEFAULTs and generated columns: the columns of `Schema` are stored ones,
  and a column that is added starts as NULL. PostgreSQL 16 lists a generated column
  in the catalogue and does not stream it.
- Outside the instance of `schema`, because `SamePrintout` does not hold there: values
  of a type whose cast to text is not its output, bpchar (no padding) and inet
  ("/32"), which are in `TextCasts` and land as text. A copied column then differs
  until the row changes; a copied key is another key than the streamed one, and the
  destination keeps both rows, against `backfill.go:73-75`. The MERGE still touches
  neither twice (`RowsTouchedOnce`).
- Outside it too, because `OneKeyPerRow` does not hold there: a key whose type takes
  two printouts for equal, numeric (1.0 and 1.00), jsonb, the floats (0 and -0).
  With `KeyType` numeric and a `KeyForm` that makes the two one, TLC finds it in
  seven states: 1.00 is at both ends, is deleted, 1.0 is inserted, and the batch of
  the two is refused, as `dedupe` keeps both and the MERGE matches both to the one
  row. The writer dies, and fetches the batch again.
- By the premises of `NothingDropped` and `SamePrintout`, two events neither of which
  has all the columns of the other, as a rename makes them, and what a second ALTER
  TABLE does.
- Two equal images of one row: see `MatchMissesNothing` in section 4.
- A `Publish` that lasts longer than the server's `wal_sender_timeout`, for which
  the reader sends no standby update meanwhile: the connection drops, which is a
  case of `sourceRestart`; that it may do so every time is left out.
- The WAL that work on unpublished tables makes the slot retain. The model has such
  work; but `SlotCatchesUp` and `Converges` speak of what was streamed, for of the
  rest the reader's position knows nothing (`reader.go:119-129`), whatever the
  comment at `reader.go:211-212` says of transactions "empty for our tables". With
  the end of the WAL in place of the last streamed transaction TLC finds the slot
  behind for ever after one such transaction, with no fault. Nothing is lost by it;
  the next change of a published table moves the slot past all of it.
- What a TRUNCATE does at the destination: nothing (section 5). The properties of
  `capture` say that the reader goes on; those that compare the databases are checked
  and proved for histories without one.
- Errors that are retried for ever with no progress (a destination that is down
  for good): covered only by "a process that died is started again".

## 8. Plan

1. The delivery half behind `AtLeastOnce` in place of its ideal reader, so that
   `Pipeline` can be read as the composition of two refinements.
2. `Schema` with several rows of different columns in one batch and with bpchar
   keys, where its properties have to be weakened to what the code does.
