--------------------------- MODULE CaptureProofs ---------------------------
(***************************************************************************)
(* Proofs about Capture, for any number of rows, tables, partitions,       *)
(* transactions, faults and any sizes of batch and chunk: its types and    *)
(* positions, that nothing is missing from the topic, and that it          *)
(* implements AtLeastOnce.                                                 *)
(***************************************************************************)
EXTENDS Capture, FiniteSetTheorems, TLAPS

(* The slot lies within the WAL, and a reader runs only on a slot.         *)
SlotInv ==
    /\ slotStart <= confirmed
    /\ confirmed <= Len(wal)
    /\ readerPC # "down" => slotExists

(* While streaming, the reader is past what the slot has confirmed, and    *)
(* what it would report is 0 or a transaction between the two.             *)
PositionInv ==
    /\ Streaming =>
        /\ confirmed < txn
        /\ txn <= Len(wal) + 1
        /\ ackedLSN = 0 \/ (confirmed <= ackedLSN /\ ackedLSN < txn)
    /\ ~Streaming => ackedLSN = 0
    /\ readerPC = "committing" => txn <= Len(wal)
    /\ readerPC = "stream" /\ msg # 0 => txn <= Len(wal) /\ msg <= Len(wal[txn]) + 1

(* All transactions behind the reader or the slot are in the topic.        *)
BehindInv ==
    \A n \in DOMAIN wal :
        slotStart < n /\ (n <= confirmed \/ (Streaming /\ n < txn)) => TxnInTopic(n)

(* The buffer holds the events of the changes already delivered.           *)
BufferInv ==
    readerPC = "stream" /\ msg # 0 =>
        \A k \in 1..(msg - 1) : \A i \in DOMAIN EventsOf(wal[txn][k]) :
            Holds(txnBuffer, EventsOf(wal[txn][k])[i])

(* In the Publish of a transaction, each of its events is in the topic or  *)
(* still to be sent, unless a batch was given up.                          *)
PublishInv ==
    readerPC = "committing" /\ ~failed =>
        \A k \in DOMAIN wal[txn] : \A i \in DOMAIN EventsOf(wal[txn][k]) :
            InTopic(PublishedEvent(txn, k, i)) \/ Holds(unsent, PublishedEvent(txn, k, i))

IInv == TypeOK /\ SlotInv /\ PositionInv /\ BehindInv /\ BufferInv /\ PublishInv

-----------------------------------------------------------------------------
(* Types of what the operators build.                                      *)

(* The decoder builds well-formed events from well-formed tuples.          *)
LEMMA EventTypes ==
    ASSUME NEW row \in Rows
    PROVE  /\ \A op \in Ops, tuple \in Tuple : buildChangeEvent(op, row, tuple) \in Event
           /\ buildDeleteEvent(row) \in Event
           /\ \A image \in Image : rowToEvent(row, image) \in Event
<1>1. ASSUME NEW op \in Ops, NEW tuple \in Tuple
      PROVE  buildChangeEvent(op, row, tuple) \in Event
  <2>1. After(tuple) \in [Cols -> Nat \cup {Missing}]
    BY <1>1 DEF After, Tuple
  <2>2. UnchangedCols(tuple) \in SUBSET Cols
    BY DEF UnchangedCols
  <2> QED
    BY <1>1, <2>1, <2>2 DEF buildChangeEvent, Event
<1>2. buildDeleteEvent(row) \in Event
  BY DEF buildDeleteEvent, Event, NoColumns, Ops
<1>3. ASSUME NEW image \in Image
      PROVE  rowToEvent(row, image) \in Event
  BY <1>3 DEF rowToEvent, Event, Image, Ops
<1> QED
  BY <1>1, <1>2, <1>3

(* Stamping an event with a position leaves it an event of the same row.   *)
LEMMA StampType ==
    ASSUME NEW evt \in Event, NEW n \in Nat
    PROVE  /\ [evt EXCEPT !.lsn = n] \in Event
           /\ [evt EXCEPT !.lsn = n].row = evt.row
BY DEF Event

(* Every change of the source that a statement can make is a Change.       *)
LEMMA ChangesType ==
    ASSUME NEW tbl \in Contents, NEW v \in Nat
    PROVE  Changes(tbl, v) \subseteq Change
<1>1. Written(v) \in Tuple /\ Written(Null) \in Tuple /\ Touched(v) \in Tuple
  BY DEF Written, Touched, Tuple, Null
<1>2. Inserts(tbl, v) \subseteq Change /\ Deletes(tbl) \subseteq Change
      /\ Truncates(tbl) \subseteq Change
  BY <1>1 DEF Inserts, Deletes, Truncates, Change
<1>3. ASSUME NEW tuple \in Tuple
      PROVE  Updates(tbl, tuple) \subseteq Change /\ Rekeys(tbl, tuple) \subseteq Change
  BY <1>3 DEF Updates, Rekeys, Change
<1> QED
  BY <1>1, <1>2, <1>3, SourceAssumption DEF Changes

(* A statement leaves well-formed contents.                                *)
LEMMA EffectType ==
    ASSUME NEW tbl \in Contents, NEW v \in Nat, NEW ch \in Changes(tbl, v)
    PROVE  Effect(tbl, ch) \in Contents
<1>1. Written(v) \in Image
  BY DEF Written, Image
<1>2. ch \in Change
  BY ChangesType
<1>3. CASE ch.kind = "insert"
  <2>1. ch.tuple \in Image
    BY <1>1, <1>3, SourceAssumption
    DEF Changes, Inserts, Updates, Rekeys, Deletes, Truncates
  <2> QED
    BY <1>2, <1>3, <2>1 DEF Effect, Contents, Change
<1>4. CASE ch.kind = "update"
  <2>1. tbl[ch.row] # Absent
    BY <1>4, SourceAssumption DEF Changes, Inserts, Updates, Rekeys, Deletes, Truncates
  <2>2. tbl[ch.row] \in Image
    BY <1>2, <2>1 DEF Contents, Change
  <2>3. NewImage(tbl[ch.row], ch.tuple) \in Image
    BY <1>2, <2>2 DEF NewImage, Image, Change, Tuple
  <2> QED
    BY <1>2, <1>4, <2>3 DEF Effect, Contents, Change
<1>5. CASE ch.kind = "delete"
  BY <1>2, <1>5 DEF Effect, Contents, Change
<1>6. CASE ch.kind = "truncate"
  BY <1>2, <1>6 DEF Effect, Contents, Change
<1> QED
  BY <1>2, <1>3, <1>4, <1>5, <1>6 DEF Change

(* What a consumer needs is a sequence of events.                          *)
LEMMA EventsOfType ==
    ASSUME NEW ch \in Change
    PROVE  EventsOf(ch) \in Seq(Event)
<1>1. ch.row \in Rows /\ ch.to \in Rows /\ ch.tuple \in Tuple
  BY DEF Change
<1>2. /\ buildChangeEvent("c", ch.row, ch.tuple) \in Event
      /\ buildChangeEvent("u", ch.to, ch.tuple) \in Event
      /\ buildChangeEvent("c", ch.to, ch.tuple) \in Event
      /\ buildDeleteEvent(ch.row) \in Event
  BY <1>1, EventTypes DEF Ops
<1> QED
  BY <1>2 DEF EventsOf, Change

-----------------------------------------------------------------------------
(* What the operations on the per-partition queues keep and add.           *)

Queues == [Partitions -> Seq(Event)]

(* The empty queues are queues.                                            *)
LEMMA NoEventsType == NoEvents \in Queues
BY DEF NoEvents, Queues

(* Appending to a row's partition adds that event and keeps the others.    *)
LEMMA PutLemma ==
    ASSUME NEW buf \in Queues, NEW evt \in Event
    PROVE  /\ Put(buf, evt) \in Queues
           /\ Holds(Put(buf, evt), evt)
           /\ \A e \in Event : Holds(buf, e) => Holds(Put(buf, evt), e)
<1> DEFINE p == PartitionOf[evt.row]
<1>1. p \in Partitions /\ buf[p] \in Seq(Event)
  BY ShapeAssumption DEF Event, Queues
<1>2. Append(buf[p], evt) \in Seq(Event)
  BY <1>1
<1>3. Put(buf, evt) \in Queues
  BY <1>1, <1>2 DEF Put, Queues
<1>4. Put(buf, evt)[p] = Append(buf[p], evt)
  BY <1>1 DEF Put, Queues
<1>5. Holds(Put(buf, evt), evt)
  <2>1. Len(buf[p]) + 1 \in DOMAIN Append(buf[p], evt)
        /\ Append(buf[p], evt)[Len(buf[p]) + 1] = evt
    BY <1>1
  <2> QED
    BY <1>4, <2>1 DEF Holds
<1>6. ASSUME NEW e \in Event, Holds(buf, e)
      PROVE  Holds(Put(buf, evt), e)
  <2> DEFINE q == PartitionOf[e.row]
  <2>1. q \in Partitions /\ buf[q] \in Seq(Event)
    BY ShapeAssumption DEF Event, Queues
  <2>2. PICK i \in DOMAIN buf[q] : buf[q][i] = e
    BY <1>6 DEF Holds
  <2>3. CASE q = p
    <3>1. i \in DOMAIN Append(buf[p], evt) /\ Append(buf[p], evt)[i] = e
      BY <1>1, <2>2, <2>3
    <3> QED
      BY <1>4, <2>3, <3>1 DEF Holds
  <2>4. CASE q # p
    <3>1. Put(buf, evt)[q] = buf[q]
      BY <2>1, <2>4 DEF Put, Queues
    <3> QED
      BY <2>2, <3>1 DEF Holds
  <2> QED
    BY <2>3, <2>4
<1> QED
  BY <1>3, <1>5, <1>6

(* Handling an update puts in the buffer every event a consumer needs: the *)
(* delete of the old key and the create of the new one, or the update.     *)
LEMMA UpdateLemma ==
    ASSUME NEW buf \in Queues, NEW ch \in Change, ch.kind = "update"
    PROVE  /\ UpdateEvents(buf, ch) \in Queues
           /\ \A i \in DOMAIN EventsOf(ch) : Holds(UpdateEvents(buf, ch), EventsOf(ch)[i])
           /\ \A e \in Event : Holds(buf, e) => Holds(UpdateEvents(buf, ch), e)
<1> DEFINE upd == buildChangeEvent("u", ch.to, ch.tuple)
           del == buildDeleteEvent(ch.row)
           new == buildChangeEvent("c", ch.to, ch.tuple)
<1>1. ch.row \in Rows /\ ch.to \in Rows /\ ch.tuple \in Tuple
  BY DEF Change
<1>2. upd \in Event /\ del \in Event /\ new \in Event
  BY <1>1, EventTypes DEF Ops
<1>3. [upd EXCEPT !.op = "c"] = new
  BY DEF buildChangeEvent
<1>4. CASE ch.row = ch.to
  <2>1. UpdateEvents(buf, ch) = Put(buf, upd)
    BY <1>4 DEF UpdateEvents, oldKeyIfChanged
  <2>2. EventsOf(ch) = <<upd>>
    BY <1>4 DEF EventsOf
  <2> HIDE DEF upd
  <2>3. \A i \in DOMAIN EventsOf(ch) : EventsOf(ch)[i] = upd
    BY <2>2
  <2> QED
    BY <1>2, <2>1, <2>3, PutLemma
<1>5. CASE ch.row # ch.to
  <2>1. UpdateEvents(buf, ch) = Put(Put(buf, del), new)
    BY <1>3, <1>5 DEF UpdateEvents, oldKeyIfChanged, RekeyEvents
  <2>2. EventsOf(ch) = <<del, new>>
    BY <1>5 DEF EventsOf
  <2> HIDE DEF upd, del, new
  <2>3. \A i \in DOMAIN EventsOf(ch) : EventsOf(ch)[i] = del \/ EventsOf(ch)[i] = new
    BY <2>2
  <2>4. Put(buf, del) \in Queues /\ Holds(Put(buf, del), del)
        /\ \A e \in Event : Holds(buf, e) => Holds(Put(buf, del), e)
    BY <1>2, PutLemma
  <2>5. Put(Put(buf, del), new) \in Queues
        /\ Holds(Put(Put(buf, del), new), new)
        /\ \A e \in Event : Holds(Put(buf, del), e) => Holds(Put(Put(buf, del), new), e)
    BY <1>2, <2>4, PutLemma
  <2> QED
    BY <1>2, <2>1, <2>3, <2>4, <2>5
<1> QED
  BY <1>4, <1>5

(* The Commit message stamps every buffered event and loses none.          *)
LEMMA StampedLemma ==
    ASSUME NEW buf \in Queues, NEW n \in Nat
    PROVE  /\ Stamped(buf, n) \in Queues
           /\ \A e \in Event : Holds(buf, e) => Holds(Stamped(buf, n), [e EXCEPT !.lsn = n])
<1>1. ASSUME NEW p \in Partitions
      PROVE  [i \in DOMAIN buf[p] |-> [buf[p][i] EXCEPT !.lsn = n]] \in Seq(Event)
  <2>1. buf[p] \in Seq(Event)
    BY DEF Queues
  <2>2. \A i \in DOMAIN buf[p] : [buf[p][i] EXCEPT !.lsn = n] \in Event
    BY <2>1, StampType
  <2>3. DOMAIN buf[p] = 1..Len(buf[p]) /\ Len(buf[p]) \in Nat
    BY <2>1
  <2> QED
    BY <2>2, <2>3
<1>2. Stamped(buf, n) \in Queues
  BY <1>1 DEF Stamped, Queues
<1>3. ASSUME NEW e \in Event, Holds(buf, e)
      PROVE  Holds(Stamped(buf, n), [e EXCEPT !.lsn = n])
  <2> DEFINE q == PartitionOf[e.row]
  <2>1. q \in Partitions
    BY ShapeAssumption DEF Event
  <2>2. PICK i \in DOMAIN buf[q] : buf[q][i] = e
    BY <1>3 DEF Holds
  <2>3. i \in DOMAIN Stamped(buf, n)[q] /\ Stamped(buf, n)[q][i] = [e EXCEPT !.lsn = n]
    BY <2>1, <2>2 DEF Stamped
  <2>4. [e EXCEPT !.lsn = n].row = e.row
    BY StampType
  <2> QED
    BY <2>3, <2>4 DEF Holds
<1> QED
  BY <1>2, <1>3

(* A batch and what is behind it are the queue: nothing falls between.     *)
LEMMA BatchLemma ==
    ASSUME NEW p \in Partitions, unsent \in Queues
    PROVE  /\ Batch(p) \in Seq(Event)
           /\ BehindBatch(p) \in Seq(Event)
           /\ \A i \in DOMAIN unsent[p] :
                \/ \E j \in DOMAIN Batch(p) : Batch(p)[j] = unsent[p][i]
                \/ \E j \in DOMAIN BehindBatch(p) : BehindBatch(p)[j] = unsent[p][i]
<1> DEFINE q == unsent[p]
           b == BatchLen(p)
<1>1. q \in Seq(Event) /\ Len(q) \in Nat
  BY DEF Queues
<1>2. b \in Nat /\ b <= Len(q)
  BY <1>1, BatchAssumption DEF BatchLen
<1> HIDE DEF b
<1>3. /\ SubSeq(q, 1, b) \in Seq(Event)
      /\ Len(SubSeq(q, 1, b)) = b
      /\ \A j \in 1..b : SubSeq(q, 1, b)[j] = q[j]
  BY <1>1, <1>2
<1>4. /\ SubSeq(q, b + 1, Len(q)) \in Seq(Event)
      /\ Len(SubSeq(q, b + 1, Len(q))) = Len(q) - b
      /\ \A j \in 1..(Len(q) - b) : SubSeq(q, b + 1, Len(q))[j] = q[b + j]
  BY <1>1, <1>2
<1>5. Batch(p) = SubSeq(q, 1, b) /\ BehindBatch(p) = SubSeq(q, b + 1, Len(q))
  BY DEF Batch, BehindBatch, b
<1>6. ASSUME NEW i \in DOMAIN q
      PROVE  \/ \E j \in DOMAIN Batch(p) : Batch(p)[j] = q[i]
             \/ \E j \in DOMAIN BehindBatch(p) : BehindBatch(p)[j] = q[i]
  <2>1. i \in 1..Len(q)
    BY <1>1
  <2>2. CASE i <= b
    <3>1. i \in DOMAIN SubSeq(q, 1, b) /\ SubSeq(q, 1, b)[i] = q[i]
      BY <1>2, <1>3, <2>1, <2>2
    <3> QED
      BY <1>5, <3>1
  <2>3. CASE i > b
    <3>1. i - b \in 1..(Len(q) - b) /\ b + (i - b) = i
      BY <1>1, <1>2, <2>1, <2>3
    <3>2. i - b \in DOMAIN SubSeq(q, b + 1, Len(q))
          /\ SubSeq(q, b + 1, Len(q))[i - b] = q[i]
      BY <1>4, <3>1
    <3> QED
      BY <1>5, <3>2
  <2> QED
    BY <1>2, <2>1, <2>2, <2>3
<1> QED
  BY <1>3, <1>4, <1>5, <1>6

(* Storing a batch appends it: the topic keeps what it has.                *)
LEMMA StoreLemma ==
    ASSUME NEW p \in Partitions, log \in Queues, unsent \in Queues, Store(p)
    PROVE  /\ log' \in Queues
           /\ \A e \in Event : InTopic(e) => InTopic(e)'
           /\ \A e \in Event : PartitionOf[e.row] = p /\ (\E j \in DOMAIN Batch(p) : Batch(p)[j] = e)
                => InTopic(e)'
<1>1. log[p] \in Seq(Event) /\ Batch(p) \in Seq(Event)
  BY BatchLemma DEF Queues
<1>2. log' = [log EXCEPT ![p] = log[p] \o Batch(p)]
  BY DEF Store
<1> DEFINE both == log[p] \o Batch(p)
<1>3. /\ both \in Seq(Event)
      /\ Len(both) = Len(log[p]) + Len(Batch(p))
      /\ \A i \in 1..Len(log[p]) : both[i] = log[p][i]
      /\ \A j \in 1..Len(Batch(p)) : both[Len(log[p]) + j] = Batch(p)[j]
  BY <1>1
<1>4. log' \in Queues /\ log'[p] = both
  BY <1>2, <1>3 DEF Queues
<1> HIDE DEF both
<1>5. ASSUME NEW e \in Event, InTopic(e)
      PROVE  InTopic(e)'
  <2> DEFINE q == PartitionOf[e.row]
  <2>1. q \in Partitions
    BY ShapeAssumption DEF Event
  <2>2. PICK i \in DOMAIN log[q] : log[q][i] = e
    BY <1>5 DEF InTopic, Holds
  <2>3. CASE q = p
    <3>1. i \in 1..Len(log[p]) /\ log[p][i] = e
      BY <1>1, <2>2, <2>3
    <3>2. i \in DOMAIN both /\ both[i] = e
      BY <1>1, <1>3, <3>1
    <3> QED
      BY <1>4, <2>3, <3>2 DEF InTopic, Holds
  <2>4. CASE q # p
    <3>1. log'[q] = log[q]
      BY <1>2, <2>1, <2>4 DEF Queues
    <3> QED
      BY <2>2, <3>1 DEF InTopic, Holds
  <2> QED
    BY <2>3, <2>4
<1>6. ASSUME NEW e \in Event, PartitionOf[e.row] = p, NEW j \in DOMAIN Batch(p), Batch(p)[j] = e
      PROVE  InTopic(e)'
  <2>1. Len(log[p]) + j \in DOMAIN both /\ both[Len(log[p]) + j] = e
    BY <1>1, <1>3, <1>6
  <2> QED
    BY <1>4, <1>6, <2>1 DEF InTopic, Holds
<1> QED
  BY <1>4, <1>5, <1>6

(* A batch that is stored and taken off the queue takes none of the        *)
(* queue's events with it into nothing.                                    *)
LEMMA AckedLemma ==
    ASSUME NEW p \in Partitions, log \in Queues, unsent \in Queues,
           Store(p), BatchDone(p), NEW e \in Event, Holds(unsent, e)
    PROVE  InTopic(e)' \/ Holds(unsent', e)
<1> DEFINE q == PartitionOf[e.row]
<1>1. q \in Partitions
  BY ShapeAssumption DEF Event
<1>2. PICK i \in DOMAIN unsent[q] : unsent[q][i] = e
  BY DEF Holds
<1>3. unsent' = [unsent EXCEPT ![p] = BehindBatch(p)]
  BY DEF BatchDone
<1>4. CASE q = p
  <2>1. CASE \E j \in DOMAIN Batch(p) : Batch(p)[j] = e
    BY <1>4, <2>1, StoreLemma
  <2>2. CASE \E j \in DOMAIN BehindBatch(p) : BehindBatch(p)[j] = e
    <3>1. unsent'[q] = BehindBatch(p)
      BY <1>1, <1>3, <1>4 DEF Queues
    <3> QED
      BY <2>2, <3>1 DEF Holds
  <2> QED
    BY <1>2, <1>4, <2>1, <2>2, BatchLemma
<1>5. CASE q # p
  <2>1. unsent'[q] = unsent[q]
    BY <1>1, <1>3, <1>5 DEF Queues
  <2> QED
    BY <1>2, <2>1 DEF Holds
<1> QED
  BY <1>4, <1>5

(* Appending a sequence to one queue keeps what the queues hold.           *)
LEMMA AppendLemma ==
    ASSUME NEW queues \in Queues, NEW p \in Partitions, NEW s \in Seq(Event)
    PROVE  /\ [queues EXCEPT ![p] = @ \o s] \in Queues
           /\ \A e \in Event : Holds(queues, e) => Holds([queues EXCEPT ![p] = @ \o s], e)
<1> DEFINE both == queues[p] \o s
           grown == [queues EXCEPT ![p] = both]
<1>1. queues[p] \in Seq(Event)
  BY DEF Queues
<1>2. both \in Seq(Event) /\ \A i \in DOMAIN queues[p] : i \in DOMAIN both /\ both[i] = queues[p][i]
  BY <1>1
<1> HIDE DEF both
<1>3. grown \in Queues
  BY <1>2 DEF Queues
<1>4. ASSUME NEW e \in Event, Holds(queues, e)
      PROVE  Holds(grown, e)
  <2> DEFINE q == PartitionOf[e.row]
  <2>1. q \in Partitions
    BY ShapeAssumption DEF Event
  <2>2. PICK i \in DOMAIN queues[q] : queues[q][i] = e
    BY <1>4 DEF Holds
  <2>3. i \in DOMAIN grown[q] /\ grown[q][i] = e
    BY <1>2, <2>1, <2>2 DEF Queues
  <2> QED
    BY <2>3 DEF Holds
<1> QED
  BY <1>3, <1>4 DEF both

(* A request that arrives late adds to the topic and takes nothing off it. *)
LEMMA LateLemma ==
    ASSUME SinkTypeOK, LateStep
    PROVE  /\ SinkTypeOK'
           /\ \A e \in Event : InTopic(e) => InTopic(e)'
<1>1. PICK p \in Partitions : LateStored(p)
  BY DEF LateStep
<1>2. log \in Queues /\ late \in Queues /\ late[p] \in Seq(Event)
  BY DEF SinkTypeOK, Queues
<1>3. log' = [log EXCEPT ![p] = @ \o late[p]]
  BY <1>1 DEF LateStored
<1>4. log' \in Queues /\ \A e \in Event : Holds(log, e) => Holds(log', e)
  BY <1>2, <1>3, AppendLemma
<1>5. late' \in Queues
  BY <1>1, <1>2 DEF LateStored, Queues
<1>6. unsent' \in Queues
  BY <1>1 DEF LateStored, SinkTypeOK, Queues
<1>7. failed' \in BOOLEAN
  BY <1>1, Zenon DEF LateStored, SinkTypeOK
<1> QED
  BY <1>4, <1>5, <1>6, <1>7 DEF SinkTypeOK, Queues, InTopic

-----------------------------------------------------------------------------
(* Type correctness.                                                       *)

(* The rows of a chunk come off the scan once each.                        *)
LEMMA ScanLemma ==
    ASSUME NEW S \in SUBSET Rows
    PROVE  /\ Cardinality(S) \in Nat
           /\ ScanOrder(S) \in [1..Cardinality(S) -> S]
           /\ \A r \in S : \E i \in DOMAIN ScanOrder(S) : ScanOrder(S)[i] = r
<1>1. IsFiniteSet(S)
  BY ShapeAssumption, FS_Subset
<1>2. Cardinality(S) \in Nat /\ ExistsBijection(1..Cardinality(S), S)
  BY <1>1, FS_CardinalityType
<1>3. PICK q \in Bijection(1..Cardinality(S), S) : TRUE
  BY <1>2 DEF ExistsBijection
<1>4. q \in [1..Cardinality(S) -> S] /\ \A r \in S : \E i \in 1..Cardinality(S) : q[i] = r
  BY <1>3 DEF Bijection, Surjection, Injection
<1>5. \A r \in S : \E i \in DOMAIN q : q[i] = r
  BY <1>4
<1> QED
  BY <1>2, <1>4, <1>5 DEF ScanOrder

(* A chunk's events are well-formed.                                       *)
LEMMA ChunkLemma ==
    ASSUME snapshot \in Contents, NEW S \in SUBSET Rows, \A r \in S : snapshot[r] # Absent
    PROVE  ChunkEvents(S) \in Queues
<1>1. ASSUME NEW p \in Partitions
      PROVE  ReadEvents({r \in S : PartitionOf[r] = p}) \in Seq(Event)
  <2> DEFINE T == {r \in S : PartitionOf[r] = p}
             q == ScanOrder(T)
  <2>1. T \in SUBSET Rows
    OBVIOUS
  <2>2. Cardinality(T) \in Nat /\ q \in [1..Cardinality(T) -> T]
    BY <2>1, ScanLemma
  <2>3. ASSUME NEW i \in DOMAIN q
        PROVE  rowToEvent(q[i], snapshot[q[i]]) \in Event
    <3>1. q[i] \in Rows /\ snapshot[q[i]] \in Image
      BY <2>2, <2>3 DEF Contents
    <3> QED
      BY <3>1, EventTypes
  <2> DEFINE n == Cardinality(T)
  <2>5. n \in Nat /\ DOMAIN q = 1..n
    BY <2>2
  <2> HIDE DEF q, n
  <2>4. [i \in DOMAIN q |-> rowToEvent(q[i], snapshot[q[i]])] \in Seq(Event)
    <3>1. [i \in 1..n |-> rowToEvent(q[i], snapshot[q[i]])] \in [1..n -> Event]
      BY <2>3, <2>5
    <3> QED
      BY <2>5, <3>1
  <2> QED
    BY <2>4 DEF ReadEvents, q
<1> QED
  BY <1>1 DEF ChunkEvents, Queues

(* The initial states are well-typed.                                      *)
LEMMA TypeInit == Init => TypeOK
<1> SUFFICES ASSUME Init PROVE TypeOK
  OBVIOUS
<1>1. SourceTypeOK
  <2>1. Written(1) \in Image
    BY DEF Written, Image
  <2> QED
    BY <2>1 DEF Init, SourceInit, SourceTypeOK, Contents
<1>2. SinkTypeOK
  <2>1. log \in Queues /\ unsent \in Queues /\ late \in Queues
    BY NoEventsType DEF Init, SinkInit
  <2>2. failed \in BOOLEAN
    BY Zenon DEF Init, SinkInit
  <2> QED
    BY <2>1, <2>2 DEF SinkTypeOK, Queues
<1>3. FaultsTypeOK
  BY FaultsAssumption DEF Init, FaultsInit, FaultsTypeOK
<1>4. slotExists \in BOOLEAN
  BY Zenon DEF Init, ReaderInit
<1>5. /\ snapshot \in Contents
      /\ txnBuffer \in [Partitions -> Seq(Event)]
  BY NoEventsType DEF Init, ReaderInit, NoRows, Contents, Queues
<1>6. /\ readerPC \in ReaderPCs
      /\ slotStart \in Nat /\ confirmed \in Nat
      /\ copied \subseteq Rows /\ rels \subseteq Tables
      /\ txn \in Nat /\ msg \in Nat /\ ackedLSN \in Nat
  <2> USE DEF Init, ReaderInit
  <2>1. readerPC = "down" /\ slotStart = 0 /\ confirmed = 0 /\ copied = {} /\ rels = {}
    OBVIOUS
  <2>2. txn = 0 /\ msg = 0 /\ ackedLSN = 0
    OBVIOUS
  <2> QED
    BY <2>1, <2>2 DEF ReaderPCs
<1> QED
  BY <1>1, <1>2, <1>3, <1>4, <1>5, <1>6 DEF TypeOK, ReaderTypeOK

(* A transaction of the source keeps the source well-typed.                *)
LEMMA SourceType ==
    ASSUME SourceTypeOK, SourceStep
    PROVE  SourceTypeOK'
<1>1. CASE CommitOne
  <2>1. PICK ch \in Changes(table, version + 1) :
            table' = Effect(table, ch) /\ wal' = Append(wal, <<ch>>)
    BY <1>1 DEF CommitOne
  <2>2. version + 1 \in Nat /\ version' = version + 1
    BY <1>1 DEF CommitOne, SourceTypeOK
  <2>3. ch \in Change /\ Effect(table, ch) \in Contents
    BY <2>2, ChangesType, EffectType DEF SourceTypeOK
  <2>4. <<ch>> \in Seq(Change)
    BY <2>3
  <2> QED
    BY <2>1, <2>2, <2>3, <2>4 DEF SourceTypeOK
<1>2. CASE CommitPair
  <2>1. PICK first \in Changes(table, version + 1) :
            \E second \in Changes(Effect(table, first), version + 2) :
                /\ table' = Effect(Effect(table, first), second)
                /\ wal' = Append(wal, <<first, second>>)
    BY <1>2 DEF CommitPair
  <2>2. PICK second \in Changes(Effect(table, first), version + 2) :
                /\ table' = Effect(Effect(table, first), second)
                /\ wal' = Append(wal, <<first, second>>)
    BY <2>1
  <2>3. version + 1 \in Nat /\ version + 2 \in Nat /\ version' = version + 2
    BY <1>2 DEF CommitPair, SourceTypeOK
  <2>4. first \in Change /\ Effect(table, first) \in Contents
    BY <2>3, ChangesType, EffectType DEF SourceTypeOK
  <2>5. second \in Change /\ Effect(Effect(table, first), second) \in Contents
    BY <2>3, <2>4, ChangesType, EffectType
  <2>6. <<first, second>> \in Seq(Change)
    BY <2>4, <2>5
  <2> QED
    BY <2>2, <2>3, <2>5, <2>6 DEF SourceTypeOK
<1>3. CASE CommitOther
  BY <1>3 DEF CommitOther, SourceTypeOK
<1> QED
  BY <1>1, <1>2, <1>3 DEF SourceStep

(* While the stream delivers a message, the transaction is in the WAL.     *)
LEMMA CurrentLemma ==
    ASSUME IInv, AtMessage
    PROVE  /\ txn \in DOMAIN wal
           /\ wal[txn] \in Seq(Change)
           /\ AtChange => CurrentChange \in Change
<1>1. txn \in 1..Len(wal)
  BY DEF IInv, TypeOK, ReaderTypeOK, PositionInv, SlotInv, AtMessage, Streaming
<1>2. wal \in Seq(Seq(Change)) /\ txn \in DOMAIN wal
  BY <1>1 DEF IInv, TypeOK, SourceTypeOK
<1>3. wal[txn] \in Seq(Change)
  BY <1>2
<1>4. ASSUME AtChange PROVE CurrentChange \in Change
  BY <1>3, <1>4 DEF AtChange, CurrentChange
<1> QED
  BY <1>2, <1>3, <1>4

(* However a step counts faults, the count stays within its bound.         *)
LEMMA FaultsType ==
    ASSUME FaultsTypeOK, NoFault \/ \E kind \in FaultKinds : Fault(kind)
    PROVE  FaultsTypeOK'
BY FaultsAssumption DEF FaultsTypeOK, NoFault, Fault

(* Dying leaves everything well-typed.                                     *)
LEMMA ExitType ==
    ASSUME TypeOK, Exit, confirmed' \in Nat
    PROVE  SinkTypeOK' /\ ReaderTypeOK'
<1>1. SinkTypeOK'
  <2>1. log' \in Queues /\ unsent' \in Queues /\ late' \in Queues
    BY NoEventsType DEF Exit, SinkLost, TypeOK, SinkTypeOK, Queues
  <2>2. failed' \in BOOLEAN
    BY Zenon DEF Exit, SinkLost
  <2> QED
    BY <2>1, <2>2 DEF SinkTypeOK, Queues
<1>2. ReaderTypeOK'
  <2>1. slotExists' \in BOOLEAN
    BY Zenon DEF Exit, TypeOK, ReaderTypeOK
  <2>2. snapshot' \in Contents /\ txnBuffer' \in [Partitions -> Seq(Event)]
    BY NoEventsType DEF Exit, NoRows, Contents, Queues
  <2>3. /\ readerPC' \in ReaderPCs
        /\ slotStart' \in Nat
        /\ copied' \subseteq Rows /\ rels' \subseteq Tables
        /\ txn' \in Nat /\ msg' \in Nat /\ ackedLSN' \in Nat
    BY DEF Exit, TypeOK, ReaderTypeOK, ReaderPCs
  <2> QED
    BY <2>1, <2>2, <2>3 DEF ReaderTypeOK
<1> QED
  BY <1>1, <1>2

(* Every step keeps the types.                                             *)
LEMMA TypeNext ==
    ASSUME IInv, [Next]_vars
    PROVE  TypeOK'
<1> USE DEF IInv, TypeOK
<1>1. CASE SourceStep /\ UNCHANGED <<sinkVars, readerVars, faults>>
  <2>1. SinkTypeOK' /\ FaultsTypeOK' /\ ReaderTypeOK'
    BY <1>1 DEF SinkTypeOK, FaultsTypeOK, ReaderTypeOK, sinkVars, readerVars, slotVars,
                snapshotVars, streamVars
  <2> QED
    BY <1>1, <2>1, SourceType
<1>2. CASE UNCHANGED vars
  BY <1>2 DEF SourceTypeOK, SinkTypeOK, FaultsTypeOK, ReaderTypeOK, vars, sourceVars, sinkVars,
              readerVars, slotVars, snapshotVars, streamVars
<1>4. CASE LateStep /\ UNCHANGED <<sourceVars, readerVars>>
  <2>1. SinkTypeOK'
    BY <1>4, LateLemma
  <2>2. SourceTypeOK' /\ ReaderTypeOK'
    BY <1>4 DEF SourceTypeOK, ReaderTypeOK, sourceVars, readerVars, slotVars, snapshotVars, streamVars
  <2>3. FaultsTypeOK'
    BY <1>4, FaultsType DEF LateStep, LateStored
  <2> QED
    BY <2>1, <2>2, <2>3
<1>3. CASE ReaderStep /\ UNCHANGED sourceVars
  <2>1. SourceTypeOK'
    BY <1>3 DEF SourceTypeOK, sourceVars
  <2> USE DEF sinkVars, slotVars, snapshotVars, streamVars
  <2>2. ASSUME CreateSlot PROVE TypeOK'
    BY <2>1, <2>2, FaultsType DEF CreateSlot, SinkTypeOK, ReaderTypeOK, ReaderPCs, SourceTypeOK
  <2>3. ASSUME FindSlot PROVE TypeOK'
    BY <2>1, <2>3, FaultsType DEF FindSlot, SinkTypeOK, ReaderTypeOK, ReaderPCs
  <2>4. ASSUME StartReplication PROVE TypeOK'
    BY <2>1, <2>4, FaultsType DEF StartReplication, SinkTypeOK, ReaderTypeOK, ReaderPCs, NoRows, Contents
  <2>5. ASSUME ChunkPublished PROVE TypeOK'
    BY <2>1, <2>5, FaultsType DEF ChunkPublished, SinkTypeOK, ReaderTypeOK, ReaderPCs
  <2>6. ASSUME CopyChunk PROVE TypeOK'
    <3>1. PICK t \in Tables : \E S \in SUBSET Uncopied(t) :
                unsent' = ChunkEvents(S) /\ copied' = copied \cup S
      BY <2>6 DEF CopyChunk, Publish
    <3>2. PICK S \in SUBSET Uncopied(t) : unsent' = ChunkEvents(S) /\ copied' = copied \cup S
      BY <3>1
    <3>3. S \in SUBSET Rows /\ \A r \in S : snapshot[r] # Absent
      BY DEF Uncopied
    <3>4. unsent' \in Queues
      BY <3>2, <3>3, ChunkLemma DEF ReaderTypeOK
    <3>5. failed' \in BOOLEAN
      BY <2>6, Zenon DEF CopyChunk, Publish
    <3>6. SinkTypeOK'
      BY <2>6, <3>4, <3>5 DEF CopyChunk, SinkTypeOK, Queues
    <3>7. ReaderTypeOK'
      BY <2>6, <3>2, <3>3 DEF CopyChunk, ReaderTypeOK, ReaderPCs
    <3>8. FaultsTypeOK'
      BY <2>6, FaultsType DEF CopyChunk
    <3> QED
      BY <2>1, <3>6, <3>7, <3>8
  <2>7. ASSUME HandleBegin PROVE TypeOK'
    BY <2>1, <2>7, FaultsType, NoEventsType
    DEF HandleBegin, SinkTypeOK, ReaderTypeOK, ReaderPCs, Queues
  <2>8. ASSUME HandleRelation PROVE TypeOK'
    <3>1. TableOf[CurrentChange.row] \in Tables
      BY <2>8, CurrentLemma, ShapeAssumption DEF HandleRelation, AtChange, Change
    <3> QED
      BY <2>1, <2>8, <3>1, FaultsType DEF HandleRelation, SinkTypeOK, ReaderTypeOK
  <2>9. ASSUME NEW kind, HandleRow(kind), txnBuffer' \in Queues PROVE TypeOK'
    BY <2>1, <2>9, FaultsType DEF HandleRow, SinkTypeOK, ReaderTypeOK, Queues
  <2>10. ASSUME NEW kind, HandleRow(kind)
         PROVE  CurrentChange \in Change /\ txnBuffer \in Queues
    BY <2>10, CurrentLemma DEF HandleRow, AtChange, ReaderTypeOK, Queues
  <2>11. ASSUME HandleInsert PROVE TypeOK'
    <3>1. buildChangeEvent("c", CurrentChange.row, CurrentChange.tuple) \in Event
      BY <2>10, <2>11, EventTypes DEF HandleInsert, Change, Ops
    <3>2. txnBuffer' \in Queues
      BY <2>10, <2>11, <3>1, PutLemma DEF HandleInsert
    <3> QED
      BY <2>9, <2>11, <3>2 DEF HandleInsert
  <2>12. ASSUME HandleUpdate PROVE TypeOK'
    <3>1. txnBuffer' \in Queues
      BY <2>10, <2>12, UpdateLemma DEF HandleUpdate, HandleRow
    <3> QED
      BY <2>9, <2>12, <3>1 DEF HandleUpdate
  <2>13. ASSUME HandleDelete PROVE TypeOK'
    <3>1. buildDeleteEvent(CurrentChange.row) \in Event
      BY <2>10, <2>13, EventTypes DEF HandleDelete, Change
    <3>2. txnBuffer' \in Queues
      BY <2>10, <2>13, <3>1, PutLemma DEF HandleDelete
    <3> QED
      BY <2>9, <2>13, <3>2 DEF HandleDelete
  <2>14. ASSUME HandleTruncate PROVE TypeOK'
    BY <2>9, <2>10, <2>14 DEF HandleTruncate
  <2>15. ASSUME HandleCommit PROVE TypeOK'
    <3>1. unsent' \in Queues
      BY <2>15, StampedLemma DEF HandleCommit, Publish, ReaderTypeOK, Queues
    <3>2. failed' \in BOOLEAN
      BY <2>15, Zenon DEF HandleCommit, Publish
    <3> QED
      BY <2>1, <2>15, <3>1, <3>2, FaultsType
      DEF HandleCommit, SinkTypeOK, ReaderTypeOK, ReaderPCs, Queues
  <2>16. ASSUME HandleEmptyCommit PROVE TypeOK'
    BY <2>1, <2>16, FaultsType, NoEventsType
    DEF HandleEmptyCommit, Acknowledge, SinkTypeOK, ReaderTypeOK, Queues
  <2>23. ASSUME HandleKeepalive PROVE TypeOK'
    BY <2>1, <2>23, FaultsType DEF HandleKeepalive, SinkTypeOK, ReaderTypeOK
  <2>17. ASSUME TxnPublished PROVE TypeOK'
    BY <2>1, <2>17, FaultsType, NoEventsType
    DEF TxnPublished, Acknowledge, SinkTypeOK, ReaderTypeOK, ReaderPCs, Queues
  <2>18. ASSUME sendStandbyUpdate PROVE TypeOK'
    BY <2>1, <2>18, FaultsType DEF sendStandbyUpdate, SinkTypeOK, ReaderTypeOK
  <2>19. ASSUME PublishStep PROVE TypeOK'
    <3>1. ReaderTypeOK'
      BY <2>19 DEF PublishStep, ReaderTypeOK, readerVars
    <3>2. PICK p \in Partitions :
              BatchAcked(p) \/ AckLost(p) \/ SendTimesOut(p) \/ BatchGivenUp(p)
      BY <2>19 DEF PublishStep, SinkStep
    <3>3. log \in Queues /\ unsent \in Queues /\ late \in Queues
      BY DEF SinkTypeOK, Queues
    <3>4. FaultsTypeOK'
      BY <3>2, FaultsType DEF BatchAcked, AckLost, SendTimesOut, BatchGivenUp, FaultKinds
    <3>5. log' \in Queues
      BY <3>2, <3>3, StoreLemma DEF BatchAcked, AckLost, SendTimesOut, BatchGivenUp
    <3>6. unsent' \in Queues
      BY <3>2, <3>3, BatchLemma DEF BatchAcked, AckLost, SendTimesOut, BatchGivenUp, BatchDone, Queues
    <3>7. failed' \in BOOLEAN
      BY <3>2, Zenon DEF BatchAcked, AckLost, SendTimesOut, BatchGivenUp, SinkTypeOK
    <3>8. late' \in Queues
      BY <3>2, <3>3, BatchLemma DEF BatchAcked, AckLost, SendTimesOut, BatchGivenUp, Queues
    <3> QED
      BY <2>1, <3>1, <3>4, <3>5, <3>6, <3>7, <3>8 DEF SinkTypeOK, Queues
  <2>20. ASSUME PublishError PROVE TypeOK'
    <3>1. confirmed' \in Nat
      BY <2>20 DEF PublishError, ReaderTypeOK
    <3> QED
      BY <2>1, <2>20, <3>1, FaultsType, ExitType DEF PublishError
  <2>21. ASSUME ReaderCrash PROVE TypeOK'
    <3>1. confirmed' \in Nat
      BY <2>21 DEF ReaderCrash, ReaderTypeOK
    <3>2. FaultsTypeOK'
      BY <2>21, FaultsType DEF ReaderCrash, FaultKinds
    <3> QED
      BY <2>1, <2>21, <3>1, <3>2, ExitType DEF ReaderCrash
  <2>22. ASSUME SourceRestart PROVE TypeOK'
    <3>1. confirmed' \in Nat
      BY <2>22 DEF SourceRestart, ReaderTypeOK
    <3>2. FaultsTypeOK'
      BY <2>22, FaultsType DEF SourceRestart, FaultKinds
    <3> QED
      BY <2>1, <2>22, <3>1, <3>2, ExitType DEF SourceRestart
  <2> QED
    BY <1>3, <2>2, <2>3, <2>4, <2>5, <2>6, <2>7, <2>8, <2>11, <2>12, <2>13, <2>14, <2>15, <2>16,
       <2>17, <2>18, <2>19, <2>20, <2>21, <2>22, <2>23
    DEF ReaderStep, ReaderProgress, StreamStep, New
<1> QED
  BY <1>1, <1>2, <1>3, <1>4 DEF Next, CaptureStep

-----------------------------------------------------------------------------
(* The inductive invariant.                                                *)

(* The initial states satisfy the invariant: there is no slot and no WAL.  *)
LEMMA InvInit == Init => IInv
<1> SUFFICES ASSUME Init PROVE IInv
  OBVIOUS
<1>1. TypeOK
  BY TypeInit
<1>2. readerPC = "down" /\ slotStart = 0 /\ confirmed = 0 /\ ackedLSN = 0 /\ wal = <<>>
  BY DEF Init, ReaderInit, SourceInit
<1>3. SlotInv /\ PositionInv /\ BehindInv /\ BufferInv /\ PublishInv
  BY <1>2 DEF SlotInv, PositionInv, BehindInv, BufferInv, PublishInv, Streaming
<1> QED
  BY <1>1, <1>3 DEF IInv

(* The WAL only grows.                                                     *)
LEMMA WalGrows ==
    ASSUME TypeOK, [Next]_vars
    PROVE  /\ Len(wal) \in Nat /\ Len(wal') \in Nat /\ Len(wal) <= Len(wal')
           /\ \A n \in DOMAIN wal : n \in DOMAIN wal' /\ wal'[n] = wal[n]
           /\ DOMAIN wal = 1..Len(wal) /\ DOMAIN wal' = 1..Len(wal')
<1>1. wal \in Seq(Seq(Change))
  BY DEF TypeOK, SourceTypeOK
<1>2. CASE UNCHANGED wal
  BY <1>1, <1>2
<1>3. CASE SourceStep
  <2>1. PICK t \in Seq(Change) : wal' = Append(wal, t)
    <3>1. CASE CommitOne
      <4>1. PICK ch \in Changes(table, version + 1) : wal' = Append(wal, <<ch>>)
        BY <3>1 DEF CommitOne
      <4>2. ch \in Change
        BY ChangesType DEF TypeOK, SourceTypeOK
      <4>3. <<ch>> \in Seq(Change)
        BY <4>2
      <4> QED
        BY <4>1, <4>3
    <3>2. CASE CommitPair
      <4>1. PICK first \in Changes(table, version + 1) :
                \E second \in Changes(Effect(table, first), version + 2) :
                    wal' = Append(wal, <<first, second>>)
        BY <3>2 DEF CommitPair
      <4>2. PICK second \in Changes(Effect(table, first), version + 2) :
                    wal' = Append(wal, <<first, second>>)
        BY <4>1
      <4>3. first \in Change /\ Effect(table, first) \in Contents
        BY ChangesType, EffectType DEF TypeOK, SourceTypeOK
      <4>4. second \in Change
        BY <4>3, ChangesType DEF TypeOK, SourceTypeOK
      <4>5. <<first, second>> \in Seq(Change)
        BY <4>3, <4>4
      <4> QED
        BY <4>2, <4>5
    <3>3. CASE CommitOther
      <4>1. <<>> \in Seq(Change)
        OBVIOUS
      <4> QED
        BY <3>3, <4>1 DEF CommitOther
    <3> QED
      BY <1>3, <3>1, <3>2, <3>3 DEF SourceStep
  <2> QED
    BY <1>1, <2>1
<1> QED
  BY <1>2, <1>3 DEF Next, CaptureStep, vars, sourceVars

(* So does the topic.                                                      *)
LEMMA TopicGrows ==
    ASSUME TypeOK, [Next]_vars, NEW e \in Event, InTopic(e)
    PROVE  InTopic(e)'
<1>1. CASE UNCHANGED log
  BY <1>1 DEF InTopic, Holds
<1>3. CASE LateStep
  BY <1>3, LateLemma DEF TypeOK
<1>2. CASE PublishStep
  <2>1. PICK p \in Partitions :
            BatchAcked(p) \/ AckLost(p) \/ SendTimesOut(p) \/ BatchGivenUp(p)
    BY <1>2 DEF PublishStep, SinkStep
  <2>2. CASE Store(p)
    BY <2>2, StoreLemma DEF TypeOK, SinkTypeOK, Queues
  <2> QED
    BY <1>1, <2>1, <2>2 DEF BatchAcked, AckLost, SendTimesOut, BatchGivenUp
<1> QED
  BY <1>1, <1>2, <1>3
  DEF Next, CaptureStep, vars, sinkVars, ReaderStep, ReaderProgress, StreamStep, New, CreateSlot, FindSlot,
      StartReplication, CopyChunk, ChunkPublished, HandleBegin, HandleRelation, HandleInsert,
      HandleUpdate, HandleDelete, HandleTruncate, HandleRow, HandleCommit, HandleEmptyCommit,
      HandleKeepalive,
      TxnPublished, sendStandbyUpdate, PublishError, ReaderCrash, SourceRestart, Exit, SinkLost

(* What a transaction publishes are events.                                *)
LEMMA PublishedType ==
    ASSUME TypeOK, NEW n \in DOMAIN wal, NEW k \in DOMAIN wal[n],
           NEW i \in DOMAIN EventsOf(wal[n][k])
    PROVE  EventsOf(wal[n][k])[i] \in Event /\ PublishedEvent(n, k, i) \in Event
<1>1. wal[n] \in Seq(Change) /\ n \in Nat
  BY DEF TypeOK, SourceTypeOK
<1>2. wal[n][k] \in Change
  BY <1>1
<1>3. EventsOf(wal[n][k])[i] \in Event
  BY <1>2, EventsOfType
<1> QED
  BY <1>1, <1>3, StampType DEF PublishedEvent

(* A transaction that is in the topic stays there.                         *)
LEMMA TxnStays ==
    ASSUME TypeOK, [Next]_vars, NEW n \in DOMAIN wal, TxnInTopic(n)
    PROVE  TxnInTopic(n)'
<1>1. wal'[n] = wal[n]
  BY WalGrows
<1>2. SUFFICES ASSUME NEW k \in DOMAIN wal[n], NEW i \in DOMAIN EventsOf(wal[n][k])
               PROVE  InTopic(PublishedEvent(n, k, i))'
  BY <1>1 DEF TxnInTopic
<1>3. InTopic(PublishedEvent(n, k, i)) /\ PublishedEvent(n, k, i) \in Event
  BY PublishedType DEF TxnInTopic
<1>4. PublishedEvent(n, k, i)' = PublishedEvent(n, k, i)
  BY <1>1 DEF PublishedEvent
<1>5. \A e \in Event : InTopic(e) => InTopic(e)'
  BY TopicGrows
<1> QED
  BY <1>3, <1>4, <1>5 DEF InTopic

-----------------------------------------------------------------------------
(* The invariant is inductive, part by part.                               *)

(* A step of the source leaves the reader, the topic and the slot alone.   *)
LEMMA SourceFrame ==
    ASSUME SourceStep /\ UNCHANGED <<sinkVars, readerVars, faults>>
    PROVE  /\ UNCHANGED <<log, unsent, failed, readerPC, slotExists, slotStart, confirmed>>
           /\ UNCHANGED <<snapshot, copied, rels, txn, msg, txnBuffer, ackedLSN>>
BY DEF sinkVars, readerVars, slotVars, snapshotVars, streamVars

(* So does a request that arrives late, except for the topic.              *)
LEMMA LateFrame ==
    ASSUME LateStep /\ UNCHANGED <<sourceVars, readerVars>>
    PROVE  /\ UNCHANGED <<wal, table, version, unsent, failed>>
           /\ UNCHANGED <<readerPC, slotExists, slotStart, confirmed>>
           /\ UNCHANGED <<snapshot, copied, rels, txn, msg, txnBuffer, ackedLSN>>
BY DEF LateStep, LateStored, sourceVars, readerVars, slotVars, snapshotVars, streamVars

(* Every step keeps the slot within the WAL, and a reader on a slot.       *)
LEMMA SlotNext ==
    ASSUME IInv, [Next]_vars
    PROVE  SlotInv'
<1> USE DEF SlotInv, IInv
<1>1. slotStart \in Nat /\ confirmed \in Nat /\ ackedLSN \in Nat /\ txn \in Nat
  BY DEF TypeOK, ReaderTypeOK
<1>2. Len(wal) \in Nat /\ Len(wal') \in Nat /\ Len(wal) <= Len(wal')
  BY WalGrows
<1>3. CASE SourceStep /\ UNCHANGED <<sinkVars, readerVars, faults>>
  <2>1. slotStart' <= confirmed' /\ confirmed' <= Len(wal')
    BY <1>1, <1>2, <1>3, SourceFrame
  <2>2. readerPC' # "down" => slotExists'
    BY <1>3, SourceFrame, Zenon
  <2> QED
    BY <2>1, <2>2
<1>4. CASE UNCHANGED vars
  BY <1>4 DEF vars, readerVars, slotVars, sourceVars
<1>5. CASE ReaderStep /\ UNCHANGED sourceVars
  <2> USE DEF slotVars
  <2>1. wal' = wal
    BY <1>5 DEF sourceVars
  <2>2. CASE CreateSlot
    BY <1>1, <1>2, <2>1, <2>2 DEF CreateSlot
  <2>3. CASE FindSlot
    BY <2>1, <2>3 DEF FindSlot
  <2>4. CASE StartReplication
    BY <2>1, <2>4 DEF StartReplication
  <2>5. CASE CopyChunk
    BY <2>1, <2>5 DEF CopyChunk
  <2>6. CASE ChunkPublished
    BY <2>1, <2>6 DEF ChunkPublished
  <2>7. CASE StreamStep
    <3>1. UNCHANGED <<slotExists, slotStart, confirmed>>
          /\ (readerPC' = readerPC \/ readerPC = "stream")
      BY <2>7 DEF StreamStep, HandleBegin, HandleRelation, HandleInsert, HandleUpdate,
                  HandleDelete, HandleTruncate, HandleRow, HandleCommit, HandleEmptyCommit,
                  HandleKeepalive, AtCommit, AtMessage
    <3> QED
      BY <2>1, <3>1
  <2>8. CASE TxnPublished
    BY <2>1, <2>8 DEF TxnPublished
  <2>9. CASE PublishError
    BY <2>1, <2>9 DEF PublishError, Exit
  <2>10. CASE sendStandbyUpdate
    <3>1. ackedLSN <= Len(wal) /\ confirmed <= ackedLSN
      BY <1>1, <1>2, <2>10 DEF sendStandbyUpdate, PositionInv, Streaming
    <3>2. slotStart' <= confirmed' /\ confirmed' <= Len(wal')
      BY <1>1, <1>2, <2>1, <2>10, <3>1 DEF sendStandbyUpdate
    <3> QED
      BY <2>10, <3>2 DEF sendStandbyUpdate
  <2>11. CASE PublishStep
    BY <2>1, <2>11 DEF PublishStep, readerVars
  <2>12. CASE ReaderCrash
    BY <2>1, <2>12 DEF ReaderCrash, Exit
  <2>13. CASE SourceRestart
    <3>1. slotStart' <= confirmed' /\ confirmed' <= Len(wal')
      BY <1>1, <1>2, <2>1, <2>13 DEF SourceRestart, Exit
    <3> QED
      BY <2>13, <3>1 DEF SourceRestart, Exit
  <2> QED
    BY <1>5, <2>2, <2>3, <2>4, <2>5, <2>6, <2>7, <2>8, <2>9, <2>10, <2>11, <2>12, <2>13
    DEF ReaderStep, ReaderProgress, New
<1>6. CASE LateStep /\ UNCHANGED <<sourceVars, readerVars>>
  BY <1>6, LateFrame
<1> QED
  BY <1>3, <1>4, <1>5, <1>6 DEF Next, CaptureStep

(* Every step keeps the reader past what the slot has confirmed, restarts  *)
(* of reader and server included.                                          *)
LEMMA PositionNext ==
    ASSUME IInv, [Next]_vars
    PROVE  PositionInv'
<1> USE DEF PositionInv, Streaming, IInv
<1>1. /\ slotStart \in Nat /\ confirmed \in Nat /\ ackedLSN \in Nat /\ txn \in Nat /\ msg \in Nat
      /\ readerPC \in ReaderPCs
  BY DEF TypeOK, ReaderTypeOK
<1>2. /\ Len(wal) \in Nat /\ Len(wal') \in Nat /\ Len(wal) <= Len(wal')
      /\ \A n \in 1..Len(wal) : wal'[n] = wal[n]
  BY WalGrows
<1>3. CASE SourceStep /\ UNCHANGED <<sinkVars, readerVars, faults>>
  <2>1. readerPC = "stream" /\ msg # 0 => wal'[txn] = wal[txn]
    BY <1>1, <1>2
  <2> QED
    BY <1>1, <1>2, <1>3, <2>1, SourceFrame
<1>4. CASE UNCHANGED vars
  BY <1>4 DEF vars, readerVars, slotVars, streamVars, sourceVars
<1>5. CASE ReaderStep /\ UNCHANGED sourceVars
  <2> USE DEF slotVars, streamVars
  <2>1. wal' = wal
    BY <1>5 DEF sourceVars
  <2>2. CASE CreateSlot \/ FindSlot
    BY <2>2 DEF CreateSlot, FindSlot
  <2>3. CASE StartReplication
    BY <1>1, <1>2, <2>1, <2>3 DEF StartReplication, SlotInv
  <2>4. CASE CopyChunk \/ ChunkPublished
    BY <2>4 DEF CopyChunk, ChunkPublished
  <2>5. CASE HandleBegin
    <3>1. Len(wal[txn]) \in Nat
      BY <1>1, <2>5 DEF HandleBegin, AtMessage, TypeOK, SourceTypeOK
    <3> QED
      BY <1>1, <1>2, <2>1, <2>5, <3>1 DEF HandleBegin, AtMessage
  <2>6. CASE HandleRelation
    BY <2>1, <2>6 DEF HandleRelation
  <2>7. CASE HandleInsert \/ HandleUpdate \/ HandleDelete \/ HandleTruncate
    <3>1. PICK kind : HandleRow(kind)
      BY <2>7 DEF HandleInsert, HandleUpdate, HandleDelete, HandleTruncate
    <3>2. Len(wal[txn]) \in Nat
      BY <1>1, <3>1 DEF HandleRow, AtChange, AtMessage, TypeOK, SourceTypeOK
    <3> QED
      BY <1>1, <1>2, <2>1, <3>1, <3>2 DEF HandleRow, AtChange, AtMessage
  <2>8. CASE HandleCommit
    BY <2>1, <2>8 DEF HandleCommit, AtCommit, AtMessage
  <2>9. CASE HandleEmptyCommit
    BY <1>1, <1>2, <2>1, <2>9 DEF HandleEmptyCommit, Acknowledge, AtCommit, AtMessage
  <2>14. CASE HandleKeepalive
    BY <1>1, <1>2, <2>1, <2>14 DEF HandleKeepalive
  <2>10. CASE TxnPublished
    BY <1>1, <1>2, <2>1, <2>10 DEF TxnPublished, Acknowledge
  <2>11. CASE sendStandbyUpdate
    BY <1>1, <1>2, <2>1, <2>11 DEF sendStandbyUpdate
  <2>12. CASE PublishStep
    BY <2>1, <2>12 DEF PublishStep, readerVars
  <2>13. CASE PublishError \/ ReaderCrash \/ SourceRestart
    BY <2>13 DEF PublishError, ReaderCrash, SourceRestart, Exit
  <2> QED
    BY <1>5, <2>2, <2>3, <2>4, <2>5, <2>6, <2>7, <2>8, <2>9, <2>10, <2>11, <2>12, <2>13, <2>14
    DEF ReaderStep, ReaderProgress, StreamStep, New
<1>6. CASE LateStep /\ UNCHANGED <<sourceVars, readerVars>>
  BY <1>6, LateFrame
<1> QED
  BY <1>3, <1>4, <1>5, <1>6 DEF Next, CaptureStep

(* A row message puts every event of its change in the buffer.             *)
LEMMA RowLemma ==
    ASSUME IInv, HandleInsert \/ HandleUpdate \/ HandleDelete \/ HandleTruncate
    PROVE  /\ \A e \in Event : Holds(txnBuffer, e) => Holds(txnBuffer', e)
           /\ \A i \in DOMAIN EventsOf(CurrentChange) :
                Holds(txnBuffer', EventsOf(CurrentChange)[i])
<1>1. txnBuffer \in Queues
  BY DEF IInv, TypeOK, ReaderTypeOK, Queues
<1>2. CurrentChange \in Change
  BY CurrentLemma
  DEF IInv, HandleInsert, HandleUpdate, HandleDelete, HandleTruncate, HandleRow, AtChange
<1> DEFINE ch == CurrentChange
           new == buildChangeEvent("c", ch.row, ch.tuple)
           del == buildDeleteEvent(ch.row)
<1>3. new \in Event /\ del \in Event
  BY <1>2, EventTypes DEF Change, Ops
<1>4. CASE HandleInsert
  <2>1. EventsOf(ch) = <<new>> /\ txnBuffer' = Put(txnBuffer, new)
    BY <1>4 DEF HandleInsert, HandleRow, EventsOf
  <2> HIDE DEF new, ch
  <2> QED
    BY <1>1, <1>3, <2>1, PutLemma DEF ch
<1>5. CASE HandleUpdate
  BY <1>1, <1>2, <1>5, UpdateLemma DEF HandleUpdate, HandleRow
<1>6. CASE HandleDelete
  <2>1. EventsOf(ch) = <<del>> /\ txnBuffer' = Put(txnBuffer, del)
    BY <1>6 DEF HandleDelete, HandleRow, EventsOf
  <2> HIDE DEF del, ch
  <2> QED
    BY <1>1, <1>3, <2>1, PutLemma DEF ch
<1>7. CASE HandleTruncate
  BY <1>7 DEF HandleTruncate, HandleRow, EventsOf
<1> QED
  BY <1>4, <1>5, <1>6, <1>7

(* Every step keeps the events of the delivered changes in the buffer.     *)
LEMMA BufferNext ==
    ASSUME IInv, [Next]_vars
    PROVE  BufferInv'
<1> USE DEF IInv
<1>1. txn \in Nat /\ msg \in Nat /\ confirmed \in Nat /\ readerPC \in ReaderPCs
  BY DEF TypeOK, ReaderTypeOK
<1>2. /\ Len(wal) \in Nat /\ Len(wal') \in Nat /\ Len(wal) <= Len(wal')
      /\ DOMAIN wal = 1..Len(wal) /\ \A n \in DOMAIN wal : wal'[n] = wal[n]
  BY WalGrows
<1>3. CASE SourceStep /\ UNCHANGED <<sinkVars, readerVars, faults>>
  <2>1. readerPC = "stream" /\ msg # 0 => txn \in DOMAIN wal
    BY <1>1, <1>2 DEF PositionInv, Streaming
  <2> QED
    BY <1>2, <1>3, <2>1, SourceFrame DEF BufferInv
<1>4. CASE UNCHANGED vars
  BY <1>4 DEF vars, readerVars, streamVars, sourceVars, BufferInv
<1>5. CASE ReaderStep /\ UNCHANGED sourceVars
  <2>1. wal' = wal
    BY <1>5 DEF sourceVars
  <2>2. CASE HandleInsert \/ HandleUpdate \/ HandleDelete \/ HandleTruncate
    <3>1. AtChange /\ msg' = msg + 1 /\ txn' = txn /\ readerPC' = readerPC
      BY <2>2 DEF HandleInsert, HandleUpdate, HandleDelete, HandleTruncate, HandleRow
    <3>2. txn \in DOMAIN wal /\ msg \in 1..Len(wal[txn]) /\ readerPC = "stream" /\ msg # 0
      BY <1>1, <1>2, <3>1 DEF AtChange, AtMessage, PositionInv, Streaming
    <3>3. SUFFICES ASSUME NEW k \in 1..msg, NEW i \in DOMAIN EventsOf(wal[txn][k])
                   PROVE  Holds(txnBuffer', EventsOf(wal[txn][k])[i])
      BY <1>1, <2>1, <3>1 DEF BufferInv
    <3>4. CASE k = msg
      BY <2>2, <3>3, <3>4, RowLemma DEF CurrentChange
    <3>5. CASE k # msg
      <4>1. k \in 1..(msg - 1) /\ k \in 1..Len(wal[txn])
        BY <1>1, <3>2, <3>5
      <4>2. k \in DOMAIN wal[txn]
        BY <3>2, <4>1 DEF TypeOK, SourceTypeOK
      <4>3. EventsOf(wal[txn][k])[i] \in Event
        BY <3>2, <4>2, PublishedType
      <4>4. Holds(txnBuffer, EventsOf(wal[txn][k])[i])
        BY <3>2, <4>1 DEF BufferInv
      <4> QED
        BY <2>2, <4>3, <4>4, RowLemma
    <3> QED
      BY <3>4, <3>5
  <2>3. CASE HandleBegin
    BY <2>3 DEF HandleBegin, BufferInv
  <2>4. CASE HandleRelation
    BY <2>1, <2>4 DEF HandleRelation, BufferInv
  <2>5. CASE HandleCommit \/ HandleEmptyCommit \/ HandleKeepalive \/ TxnPublished
    BY <2>5
    DEF HandleCommit, HandleEmptyCommit, HandleKeepalive, TxnPublished, Acknowledge, BufferInv
  <2>6. CASE New \/ StartReplication \/ CopyChunk \/ ChunkPublished
    BY <2>6 DEF New, CreateSlot, FindSlot, StartReplication, CopyChunk, ChunkPublished, BufferInv
  <2>7. CASE sendStandbyUpdate \/ PublishStep
    BY <2>1, <2>7 DEF sendStandbyUpdate, PublishStep, readerVars, streamVars, BufferInv
  <2>8. CASE PublishError \/ ReaderCrash \/ SourceRestart
    BY <2>8 DEF PublishError, ReaderCrash, SourceRestart, Exit, BufferInv
  <2> QED
    BY <1>5, <2>2, <2>3, <2>4, <2>5, <2>6, <2>7, <2>8
    DEF ReaderStep, ReaderProgress, StreamStep
<1>6. CASE LateStep /\ UNCHANGED <<sourceVars, readerVars>>
  BY <1>6, LateFrame DEF BufferInv
<1> QED
  BY <1>3, <1>4, <1>5, <1>6 DEF Next, CaptureStep

(* The Publish of a transaction starts out with all its events.            *)
LEMMA CommitLemma ==
    ASSUME IInv, HandleCommit
    PROVE  \A k \in DOMAIN wal[txn] : \A i \in DOMAIN EventsOf(wal[txn][k]) :
                Holds(unsent', PublishedEvent(txn, k, i))
<1> USE DEF IInv
<1>1. txn \in Nat /\ txnBuffer \in Queues
  BY DEF TypeOK, ReaderTypeOK, Queues
<1>2. readerPC = "stream" /\ txn <= Len(wal) /\ msg = Len(wal[txn]) + 1
  BY DEF HandleCommit, AtCommit, AtMessage
<1>3. txn \in DOMAIN wal
  BY <1>1, <1>2 DEF TypeOK, SourceTypeOK, PositionInv, Streaming, SlotInv, ReaderTypeOK
<1>4. Len(wal[txn]) \in Nat /\ DOMAIN wal[txn] = 1..Len(wal[txn])
  BY <1>3 DEF TypeOK, SourceTypeOK
<1> SUFFICES ASSUME NEW k \in DOMAIN wal[txn], NEW i \in DOMAIN EventsOf(wal[txn][k])
             PROVE  Holds(unsent', PublishedEvent(txn, k, i))
  OBVIOUS
<1>5. Holds(txnBuffer, EventsOf(wal[txn][k])[i])
  <2>1. msg # 0 /\ k \in 1..(msg - 1)
    BY <1>2, <1>4
  <2> QED
    BY <1>2, <2>1 DEF BufferInv
<1>6. EventsOf(wal[txn][k])[i] \in Event
  BY <1>3, PublishedType
<1>7. unsent' = Stamped(txnBuffer, txn)
  BY DEF HandleCommit, Publish
<1> QED
  BY <1>1, <1>5, <1>6, <1>7, StampedLemma DEF PublishedEvent

(* Every step keeps the events of a transaction being published in the     *)
(* topic or unsent, unless a batch was given up.                           *)
LEMMA PublishNext ==
    ASSUME IInv, [Next]_vars
    PROVE  PublishInv'
<1> USE DEF IInv
<1>1. txn \in Nat /\ confirmed \in Nat /\ readerPC \in ReaderPCs
  BY DEF TypeOK, ReaderTypeOK
<1>2. /\ Len(wal) \in Nat /\ Len(wal') \in Nat /\ Len(wal) <= Len(wal')
      /\ DOMAIN wal = 1..Len(wal) /\ \A n \in DOMAIN wal : wal'[n] = wal[n]
  BY WalGrows
<1>3. readerPC = "committing" => txn \in DOMAIN wal
  BY <1>1, <1>2 DEF PositionInv, Streaming
<1>4. CASE UNCHANGED <<log, unsent, failed, readerPC, txn>>
  <2> SUFFICES ASSUME readerPC = "committing", ~failed,
                      NEW k \in DOMAIN wal[txn], NEW i \in DOMAIN EventsOf(wal[txn][k])
               PROVE  (InTopic(PublishedEvent(txn, k, i)) \/ Holds(unsent, PublishedEvent(txn, k, i)))'
    BY <1>2, <1>3, <1>4 DEF PublishInv
  <2>1. PublishedEvent(txn, k, i)' = PublishedEvent(txn, k, i)
    BY <1>2, <1>3, <1>4 DEF PublishedEvent
  <2> QED
    BY <1>4, <2>1 DEF PublishInv, InTopic
<1>5. CASE HandleCommit /\ UNCHANGED sourceVars
  <2>1. wal' = wal /\ txn' = txn
    BY <1>5 DEF sourceVars, HandleCommit, streamVars
  <2> QED
    BY <1>5, <2>1, CommitLemma DEF PublishInv, PublishedEvent
<1>6. CASE PublishStep /\ UNCHANGED sourceVars
  <2>1. wal' = wal /\ txn' = txn /\ readerPC' = readerPC
    BY <1>6 DEF sourceVars, PublishStep, readerVars, streamVars
  <2>2. PICK p \in Partitions :
            BatchAcked(p) \/ AckLost(p) \/ SendTimesOut(p) \/ BatchGivenUp(p)
    BY <1>6 DEF PublishStep, SinkStep
  <2>5. CASE SendTimesOut(p)
    BY <1>4, <2>1, <2>5 DEF SendTimesOut
  <2>3. CASE BatchGivenUp(p)
    <3>1. failed'
      BY <2>3, Zenon DEF BatchGivenUp
    <3> QED
      BY <3>1 DEF PublishInv
  <2>4. CASE BatchAcked(p) \/ AckLost(p)
    <3>1. failed' = failed
      BY <2>4, Zenon DEF BatchAcked, AckLost
    <3> SUFFICES ASSUME readerPC = "committing", ~failed,
                        NEW k \in DOMAIN wal[txn], NEW i \in DOMAIN EventsOf(wal[txn][k])
                 PROVE  (InTopic(PublishedEvent(txn, k, i)) \/ Holds(unsent, PublishedEvent(txn, k, i)))'
      BY <2>1, <3>1 DEF PublishInv
    <3> DEFINE e == PublishedEvent(txn, k, i)
    <3>2. e \in Event /\ e' = e
      BY <1>3, <2>1, PublishedType DEF PublishedEvent
    <3>3. InTopic(e) \/ Holds(unsent, e)
      BY DEF PublishInv
    <3>4. log \in Queues /\ unsent \in Queues
      BY DEF TypeOK, SinkTypeOK, Queues
    <3> HIDE DEF e
    <3>5. CASE InTopic(e)
      <4>1. Store(p)
        BY <2>4 DEF BatchAcked, AckLost
      <4>2. \A x \in Event : InTopic(x) => InTopic(x)'
        BY <3>4, <4>1, StoreLemma
      <4> QED
        BY <3>2, <3>5, <4>2 DEF e, InTopic
    <3>6. CASE Holds(unsent, e) /\ BatchAcked(p)
      <4>1. \A x \in Event : Holds(unsent, x) => InTopic(x)' \/ Holds(unsent', x)
        BY <3>4, <3>6, AckedLemma DEF BatchAcked
      <4> QED
        BY <3>2, <3>6, <4>1 DEF e, InTopic
    <3>7. CASE Holds(unsent, e) /\ AckLost(p)
      <4>1. unsent' = unsent
        BY <3>7 DEF AckLost
      <4> QED
        BY <3>2, <3>7, <4>1 DEF e
    <3> QED
      BY <2>4, <3>3, <3>5, <3>6, <3>7
  <2> QED
    BY <2>2, <2>3, <2>4, <2>5
<1>7. CASE readerPC' # "committing"
  BY <1>7 DEF PublishInv
<1>8. CASE SourceStep /\ UNCHANGED <<sinkVars, readerVars, faults>>
  BY <1>4, <1>8, SourceFrame
<1>9. CASE UNCHANGED vars
  BY <1>4, <1>9 DEF vars, sinkVars, readerVars, streamVars
<1>10. CASE (ReaderStep /\ ~HandleCommit /\ ~PublishStep) /\ UNCHANGED sourceVars
  BY <1>7, <1>10
  DEF ReaderStep, ReaderProgress, New, CreateSlot, FindSlot, StartReplication, CopyChunk,
      ChunkPublished, StreamStep, HandleBegin, HandleRelation, HandleInsert, HandleUpdate,
      HandleDelete, HandleTruncate, HandleRow, AtChange, AtMessage, HandleEmptyCommit,
      HandleKeepalive, AtCommit,
      TxnPublished, sendStandbyUpdate, PublishError, ReaderCrash, SourceRestart, Exit
<1>11. CASE LateStep /\ UNCHANGED <<sourceVars, readerVars>>
  <2> SUFFICES ASSUME readerPC = "committing", ~failed,
                      NEW k \in DOMAIN wal[txn], NEW i \in DOMAIN EventsOf(wal[txn][k])
               PROVE  (InTopic(PublishedEvent(txn, k, i)) \/ Holds(unsent, PublishedEvent(txn, k, i)))'
    BY <1>11, LateFrame DEF PublishInv
  <2> DEFINE e == PublishedEvent(txn, k, i)
  <2>1. e \in Event /\ e' = e
    BY <1>3, <1>11, LateFrame, PublishedType DEF PublishedEvent
  <2>2. InTopic(e) \/ Holds(unsent, e)
    BY DEF PublishInv
  <2>3. \A x \in Event : InTopic(x) => InTopic(x)'
    BY <1>11, LateLemma DEF TypeOK
  <2>4. unsent' = unsent
    BY <1>11, LateFrame
  <2> HIDE DEF e
  <2> QED
    BY <2>1, <2>2, <2>3, <2>4 DEF e, InTopic
<1> QED
  BY <1>5, <1>6, <1>8, <1>9, <1>10, <1>11 DEF Next, CaptureStep

(* A transaction that came to its Commit with an empty buffer has nothing  *)
(* to publish.                                                             *)
LEMMA EmptyCommitLemma ==
    ASSUME IInv, HandleEmptyCommit
    PROVE  TxnInTopic(txn)
<1> SUFFICES ASSUME NEW k \in DOMAIN wal[txn], NEW i \in DOMAIN EventsOf(wal[txn][k])
             PROVE  FALSE
  BY DEF TxnInTopic
<1> USE DEF IInv
<1>1. readerPC = "stream" /\ txn <= Len(wal) /\ msg = Len(wal[txn]) + 1 /\ txnBuffer = NoEvents
  BY DEF HandleEmptyCommit, AtCommit, AtMessage
<1>2. txn \in DOMAIN wal
  BY <1>1 DEF TypeOK, SourceTypeOK, PositionInv, Streaming, ReaderTypeOK
<1>3. Len(wal[txn]) \in Nat /\ DOMAIN wal[txn] = 1..Len(wal[txn])
  BY <1>2 DEF TypeOK, SourceTypeOK
<1>4. EventsOf(wal[txn][k])[i] \in Event
  BY <1>2, PublishedType
<1>5. Holds(NoEvents, EventsOf(wal[txn][k])[i])
  <2>1. msg # 0 /\ k \in 1..(msg - 1)
    BY <1>1, <1>3
  <2> QED
    BY <1>1, <2>1 DEF BufferInv
<1> QED
  BY <1>4, <1>5, ShapeAssumption DEF Holds, NoEvents, Event

(* A Publish that returns without an error left all of the transaction in  *)
(* the topic.                                                              *)
LEMMA TxnPublishedLemma ==
    ASSUME IInv, TxnPublished
    PROVE  TxnInTopic(txn)
<1> SUFFICES ASSUME NEW k \in DOMAIN wal[txn], NEW i \in DOMAIN EventsOf(wal[txn][k])
             PROVE  InTopic(PublishedEvent(txn, k, i))
  BY DEF TxnInTopic
<1> USE DEF IInv
<1>1. readerPC = "committing" /\ ~failed /\ PublishReturned
  BY DEF TxnPublished
<1>2. txn \in DOMAIN wal
  BY <1>1 DEF TypeOK, SourceTypeOK, PositionInv, Streaming, ReaderTypeOK
<1>3. PublishedEvent(txn, k, i) \in Event
  BY <1>2, PublishedType
<1>4. ~Holds(unsent, PublishedEvent(txn, k, i))
  BY <1>1, <1>3, ShapeAssumption DEF Holds, PublishReturned, Event
<1> QED
  BY <1>1, <1>4 DEF PublishInv

(* Every step keeps the transactions behind the reader and behind the slot *)
(* in the topic.                                                           *)
LEMMA BehindNext ==
    ASSUME IInv, [Next]_vars
    PROVE  BehindInv'
<1> USE DEF IInv
<1>1. /\ slotStart \in Nat /\ confirmed \in Nat /\ ackedLSN \in Nat /\ txn \in Nat
      /\ readerPC \in ReaderPCs
  BY DEF TypeOK, ReaderTypeOK
<1>2. /\ Len(wal) \in Nat /\ Len(wal') \in Nat /\ Len(wal) <= Len(wal')
      /\ DOMAIN wal = 1..Len(wal) /\ DOMAIN wal' = 1..Len(wal')
  BY WalGrows
<1> SUFFICES ASSUME NEW n \in DOMAIN wal', slotStart' < n,
                    n <= confirmed' \/ (Streaming' /\ n < txn')
             PROVE  TxnInTopic(n)'
  BY DEF BehindInv
<1>3. n \in Nat
  BY <1>2
<1>4. CASE n \in DOMAIN wal /\ TxnInTopic(n)
  BY <1>4, TxnStays
<1>5. CASE slotStart < n /\ (n <= confirmed \/ (Streaming /\ n < txn))
  <2>1. n \in DOMAIN wal
    BY <1>1, <1>2, <1>3, <1>5 DEF SlotInv, PositionInv
  <2> QED
    BY <1>4, <1>5, <2>1 DEF BehindInv
<1> USE DEF Streaming
<1>6. CASE SourceStep /\ UNCHANGED <<sinkVars, readerVars, faults>>
  BY <1>5, <1>6, SourceFrame
<1>7. CASE UNCHANGED vars
  BY <1>5, <1>7 DEF vars, readerVars, slotVars, streamVars
<1>8. CASE ReaderStep /\ UNCHANGED sourceVars
  <2> USE DEF slotVars, streamVars
  <2>1. CASE CreateSlot
    BY <1>2, <1>3, <2>1 DEF CreateSlot
  <2>2. CASE FindSlot \/ CopyChunk \/ ChunkPublished
    BY <1>5, <2>2 DEF FindSlot, CopyChunk, ChunkPublished
  <2>3. CASE StartReplication
    BY <1>1, <1>3, <1>5, <2>3 DEF StartReplication
  <2>4. CASE HandleBegin \/ HandleRelation \/ HandleInsert \/ HandleUpdate \/ HandleDelete
             \/ HandleTruncate \/ HandleCommit
    BY <1>5, <2>4
    DEF HandleBegin, HandleRelation, HandleInsert, HandleUpdate, HandleDelete, HandleTruncate,
        HandleRow, HandleCommit, AtCommit, AtMessage
  <2>5. CASE HandleEmptyCommit
    <3>1. TxnInTopic(txn)
      BY <2>5, EmptyCommitLemma
    <3>2. txn \in DOMAIN wal
      BY <1>1, <1>2, <2>5 DEF HandleEmptyCommit, AtCommit, AtMessage, PositionInv
    <3>3. n <= confirmed \/ n < txn \/ n = txn
      BY <1>1, <1>3, <2>5 DEF HandleEmptyCommit, Acknowledge
    <3> QED
      BY <1>4, <1>5, <2>5, <3>1, <3>2, <3>3 DEF HandleEmptyCommit, AtCommit, AtMessage
  <2>11. CASE HandleKeepalive
    <3>1. txn \in DOMAIN wal /\ wal[txn] = <<>>
      BY <1>1, <1>2, <2>11 DEF HandleKeepalive, Streamed, PositionInv
    <3>2. TxnInTopic(txn)
      BY <3>1 DEF TxnInTopic
    <3>3. n <= confirmed \/ n < txn \/ n = txn
      BY <1>1, <1>3, <2>11 DEF HandleKeepalive
    <3> QED
      BY <1>4, <1>5, <2>11, <3>1, <3>2, <3>3 DEF HandleKeepalive
  <2>6. CASE TxnPublished
    <3>1. TxnInTopic(txn)
      BY <2>6, TxnPublishedLemma
    <3>2. txn \in DOMAIN wal
      BY <1>1, <1>2, <2>6 DEF TxnPublished, PositionInv
    <3>3. n <= confirmed \/ n < txn \/ n = txn
      BY <1>1, <1>3, <2>6 DEF TxnPublished, Acknowledge
    <3> QED
      BY <1>4, <1>5, <2>6, <3>1, <3>2, <3>3 DEF TxnPublished
  <2>7. CASE sendStandbyUpdate
    <3>1. n <= confirmed \/ n < txn
      BY <1>1, <1>3, <2>7 DEF sendStandbyUpdate, PositionInv
    <3> QED
      BY <1>5, <2>7, <3>1 DEF sendStandbyUpdate
  <2>8. CASE PublishStep
    BY <1>5, <2>8 DEF PublishStep, readerVars
  <2>9. CASE PublishError \/ ReaderCrash
    BY <1>5, <2>9 DEF PublishError, ReaderCrash, Exit
  <2>10. CASE SourceRestart
    BY <1>1, <1>3, <1>5, <2>10 DEF SourceRestart, Exit, SlotInv
  <2> QED
    BY <1>8, <2>1, <2>2, <2>3, <2>4, <2>5, <2>6, <2>7, <2>8, <2>9, <2>10, <2>11
    DEF ReaderStep, ReaderProgress, StreamStep, New
<1>9. CASE LateStep /\ UNCHANGED <<sourceVars, readerVars>>
  BY <1>5, <1>9, LateFrame
<1> QED
  BY <1>6, <1>7, <1>8, <1>9 DEF Next, CaptureStep

-----------------------------------------------------------------------------
(* The theorems.                                                           *)

(* The invariant holds in every reachable state.                           *)
THEOREM Invariance == Spec => []IInv
<1>1. Init => IInv
  BY InvInit
<1>2. IInv /\ [Next]_vars => IInv'
  BY TypeNext, SlotNext, PositionNext, BehindNext, BufferNext, PublishNext DEF IInv
<1> QED
  BY <1>1, <1>2, PTL DEF Spec

(* The state of reader, slot, source and topic is always well formed: in   *)
(* particular every queued, buffered or published record is an event.      *)
THEOREM TypeCorrect == Spec => []TypeOK
<1>1. IInv => TypeOK
  BY DEF IInv
<1> QED
  BY <1>1, Invariance, PTL

(* No position is ever acknowledged to Postgres, or about to be, before    *)
(* every event of every transaction up to it is in the topic               *)
(* (reader.go:204-214, 223-234).                                           *)
THEOREM AckedPublished == Spec => []AckedIsPublished
<1>1. IInv => AckedIsPublished
  <2> SUFFICES ASSUME IInv, NEW n \in DOMAIN wal, slotStart < n, n <= confirmed \/ n <= ackedLSN
               PROVE  TxnInTopic(n)
    BY DEF AckedIsPublished
  <2>1. n \in Nat /\ n > 0 /\ txn \in Nat /\ ackedLSN \in Nat
    BY DEF IInv, TypeOK, SourceTypeOK, ReaderTypeOK
  <2>2. n <= ackedLSN => Streaming /\ n < txn
    BY <2>1 DEF IInv, PositionInv
  <2> QED
    BY <2>2 DEF IInv, BehindInv
<1> QED
  BY <1>1, Invariance, PTL

(* No standby update moves the slot backwards (reader.go:223-234).         *)
THEOREM NeverRewinds == Spec => UpdateNeverRewinds
<1>1. IInv => (sendStandbyUpdate => confirmed' >= confirmed)
  <2> SUFFICES ASSUME IInv, sendStandbyUpdate PROVE confirmed' >= confirmed
    OBVIOUS
  <2>1. confirmed \in Nat /\ txn \in Nat /\ ackedLSN \in Nat
    BY DEF IInv, TypeOK, ReaderTypeOK
  <2> QED
    BY <2>1 DEF sendStandbyUpdate, IInv, PositionInv, Streaming
<1> QED
  BY <1>1, Invariance, PTL DEF UpdateNeverRewinds

-----------------------------------------------------------------------------
(* The reader implements the abstract feed of AtLeastOnce, for any number  *)
(* of rows, tables, partitions, transactions and faults of any kind but    *)
(* one: a death in the backfill, which the reader does not survive (see    *)
(* the run backfill_kill).  What is above says that nothing is missing;    *)
(* what is added here is that nothing is there that should not be.         *)

(* The queues hold nothing but events of a set, each in its partition.     *)
Within(queues, evts) ==
    \A p \in Partitions : \A i \in DOMAIN queues[p] :
        queues[p][i] \in evts /\ PartitionOf[queues[p][i].row] = p

EventsIn(txnChanges, changes) ==
    UNION {{EventsOf(txnChanges[k])[i] : i \in DOMAIN EventsOf(txnChanges[k])} : k \in changes}

\* The events of some changes of transaction n, not stamped yet.
Decoded(n, changes) == EventsIn(wal[n], changes)

(* The snapshot is held as long as it is being copied.                     *)
SnapshotInv ==
    /\ ~InBackfill => snapshot = NoRows /\ copied = {}
    /\ InBackfill => copied \subseteq {r \in Rows : snapshot[r] # Absent}
    /\ readerPC = "copying" /\ failed => "backfillCrash" \in Faults

(* Rows handed to Publish are in the topic, or still to be sent, unless a  *)
(* batch was given up.                                                     *)
CopiedInv ==
    InBackfill => \A r \in copied :
        LET evt == rowToEvent(r, snapshot[r])
        IN  InTopic(evt) \/ (readerPC = "copying" /\ (failed \/ Holds(unsent, evt)))

(* Nothing but events of the delivered changes is in the buffer, and       *)
(* nothing but the transaction, or the snapshot, in a Publish.             *)
NothingElseInv ==
    /\ readerPC = "stream" /\ msg # 0 => Within(txnBuffer, Decoded(txn, 1..(msg - 1)))
    /\ readerPC = "committing" => Within(unsent, TxnEvents(txn))
    /\ readerPC = "copying" => Within(unsent, Reads(snapshot))

(* An event that may reach the topic without being out of turn.            *)
InSeason(evt) ==
    \/ InTopic(evt)
    \/ InBackfill /\ evt \in Reads(snapshot)
    \/ \E n \in DOMAIN wal :
        /\ slotStart < n /\ ~InBackfill
        /\ evt \in TxnEvents(n)
        /\ \A m \in (slotStart + 1)..(n - 1) : TxnInTopic(m)

(* Requests that nobody waits for any more hold only such events.          *)
LateInv ==
    \A p \in Partitions : \A i \in DOMAIN late[p] :
        /\ "lateStore" \in Faults
        /\ slotExists
        /\ PartitionOf[late[p][i].row] = p
        /\ InSeason(late[p][i])

RInv == SnapshotInv /\ CopiedInv /\ NothingElseInv /\ LateInv

-----------------------------------------------------------------------------
(* What the operations on the queues add, and no more.                     *)

(* Appending an event to the queue of its partition adds that event only.  *)
LEMMA PutWithin ==
    ASSUME NEW buf \in Queues, NEW evt \in Event, NEW evts, Within(buf, evts)
    PROVE  Within(Put(buf, evt), evts \cup {evt})
<1> DEFINE p == PartitionOf[evt.row]
<1>1. p \in Partitions /\ \A q \in Partitions : buf[q] \in Seq(Event)
  BY ShapeAssumption DEF Event, Queues
<1>2. ASSUME NEW q \in Partitions, NEW i \in DOMAIN Put(buf, evt)[q]
      PROVE  /\ Put(buf, evt)[q][i] \in evts \cup {evt}
             /\ PartitionOf[Put(buf, evt)[q][i].row] = q
  <2>1. CASE q = p
    <3>1. Put(buf, evt)[q] = Append(buf[q], evt)
      BY <1>1, <2>1 DEF Put, Queues
    <3>2. (i \in DOMAIN buf[q] /\ Append(buf[q], evt)[i] = buf[q][i]) \/ Append(buf[q], evt)[i] = evt
      BY <1>1, <1>2, <3>1
    <3> QED
      BY <2>1, <3>1, <3>2 DEF Within
  <2>2. CASE q # p
    <3>1. Put(buf, evt)[q] = buf[q]
      BY <1>1, <2>2 DEF Put, Queues
    <3> QED
      BY <1>2, <3>1 DEF Within
  <2> QED
    BY <2>1, <2>2
<1> QED
  BY <1>2 DEF Within

(* More is allowed when the set is larger.                                 *)
LEMMA WithinMore ==
    ASSUME NEW queues, NEW evts, NEW more, evts \subseteq more, Within(queues, evts)
    PROVE  Within(queues, more)
BY DEF Within

(* A batch, and what is behind it, is taken from the queue.                *)
LEMMA BatchTaken ==
    ASSUME NEW p \in Partitions, unsent \in Queues
    PROVE  /\ Batch(p) \in Seq(Event) /\ BehindBatch(p) \in Seq(Event)
           /\ \A j \in DOMAIN Batch(p) : \E i \in DOMAIN unsent[p] : Batch(p)[j] = unsent[p][i]
           /\ \A j \in DOMAIN BehindBatch(p) : \E i \in DOMAIN unsent[p] :
                BehindBatch(p)[j] = unsent[p][i]
           /\ unsent[p] # <<>> => Len(Batch(p)) > 0
<1> DEFINE q == unsent[p]
           b == BatchLen(p)
<1>1. q \in Seq(Event) /\ Len(q) \in Nat /\ DOMAIN q = 1..Len(q)
  BY DEF Queues
<1>2. b \in Nat /\ b <= Len(q) /\ (q # <<>> => b > 0)
  BY <1>1, BatchAssumption DEF BatchLen
<1> HIDE DEF b
<1>3. /\ SubSeq(q, 1, b) \in Seq(Event)
      /\ Len(SubSeq(q, 1, b)) = b
      /\ \A j \in 1..b : SubSeq(q, 1, b)[j] = q[j]
  BY <1>1, <1>2
<1>4. /\ SubSeq(q, b + 1, Len(q)) \in Seq(Event)
      /\ Len(SubSeq(q, b + 1, Len(q))) = Len(q) - b
      /\ \A j \in 1..(Len(q) - b) : SubSeq(q, b + 1, Len(q))[j] = q[b + j]
  BY <1>1, <1>2
<1>5. Batch(p) = SubSeq(q, 1, b) /\ BehindBatch(p) = SubSeq(q, b + 1, Len(q))
  BY DEF Batch, BehindBatch, b
<1>6. ASSUME NEW j \in DOMAIN Batch(p)
      PROVE  \E i \in DOMAIN q : Batch(p)[j] = q[i]
  <2>1. j \in 1..b /\ Batch(p)[j] = q[j]
    BY <1>3, <1>5, <1>6
  <2>2. j \in DOMAIN q
    BY <1>1, <1>2, <2>1
  <2> QED
    BY <2>1, <2>2
<1>7. ASSUME NEW j \in DOMAIN BehindBatch(p)
      PROVE  \E i \in DOMAIN q : BehindBatch(p)[j] = q[i]
  <2>1. j \in 1..(Len(q) - b) /\ BehindBatch(p)[j] = q[b + j]
    BY <1>4, <1>5, <1>7
  <2>2. b + j \in DOMAIN q
    BY <1>1, <1>2, <2>1
  <2> QED
    BY <2>1, <2>2
<1> QED
  BY <1>2, <1>3, <1>4, <1>5, <1>6, <1>7

(* What is left of a queue after a batch is within what the queue was.     *)
LEMMA BehindWithin ==
    ASSUME NEW p \in Partitions, unsent \in Queues, BatchDone(p), NEW evts, Within(unsent, evts)
    PROVE  Within(unsent', evts)
<1>1. ASSUME NEW q \in Partitions, NEW i \in DOMAIN unsent'[q]
      PROVE  \E j \in DOMAIN unsent[q] : unsent'[q][i] = unsent[q][j]
  <2>1. CASE q = p
    <3>1. unsent'[q] = BehindBatch(p)
      BY <2>1 DEF BatchDone, Queues
    <3> QED
      BY <1>1, <2>1, <3>1, BatchTaken
  <2>2. CASE q # p
    <3>1. unsent'[q] = unsent[q]
      BY <2>2 DEF BatchDone, Queues
    <3> QED
      BY <1>1, <3>1
  <2> QED
    BY <2>1, <2>2
<1> QED
  BY <1>1 DEF Within

(* The Commit message stamps the events of the transaction.                *)
LEMMA StampedWithin ==
    ASSUME TypeOK, NEW n \in DOMAIN wal, NEW buf \in Queues,
           Within(buf, Decoded(n, DOMAIN wal[n]))
    PROVE  Within(Stamped(buf, n), TxnEvents(n))
<1>0. n \in Nat
  BY DEF TypeOK, SourceTypeOK
<1>1. ASSUME NEW p \in Partitions, NEW i \in DOMAIN Stamped(buf, n)[p]
      PROVE  /\ Stamped(buf, n)[p][i] \in TxnEvents(n)
             /\ PartitionOf[Stamped(buf, n)[p][i].row] = p
  <2>1. i \in DOMAIN buf[p] /\ Stamped(buf, n)[p][i] = [buf[p][i] EXCEPT !.lsn = n]
    BY <1>1 DEF Stamped
  <2>2. buf[p][i] \in Event
    BY <2>1 DEF Queues
  <2>3. buf[p][i] \in Decoded(n, DOMAIN wal[n]) /\ PartitionOf[buf[p][i].row] = p
    BY <2>1 DEF Within
  <2>4. PICK k \in DOMAIN wal[n] : \E j \in DOMAIN EventsOf(wal[n][k]) :
            buf[p][i] = EventsOf(wal[n][k])[j]
    BY <2>3 DEF Decoded, EventsIn
  <2>5. PICK j \in DOMAIN EventsOf(wal[n][k]) : buf[p][i] = EventsOf(wal[n][k])[j]
    BY <2>4
  <2>6. Stamped(buf, n)[p][i] = PublishedEvent(n, k, j)
    BY <2>1, <2>5 DEF PublishedEvent
  <2>7. Stamped(buf, n)[p][i].row = buf[p][i].row
    BY <1>0, <2>1, <2>2, StampType
  <2> QED
    BY <2>3, <2>6, <2>7 DEF TxnEvents
<1> QED
  BY <1>1 DEF Within

(* The events of a chunk are reads of the snapshot, and all its rows'.     *)
LEMMA ChunkWithin ==
    ASSUME snapshot \in Contents, NEW S \in SUBSET Rows, \A r \in S : snapshot[r] # Absent
    PROVE  /\ Within(ChunkEvents(S), Reads(snapshot))
           /\ \A r \in S : Holds(ChunkEvents(S), rowToEvent(r, snapshot[r]))
<1> DEFINE T(p) == {r \in S : PartitionOf[r] = p}
<1>1. ASSUME NEW p \in Partitions
      PROVE  /\ DOMAIN ChunkEvents(S)[p] = DOMAIN ScanOrder(T(p))
             /\ \A i \in DOMAIN ScanOrder(T(p)) :
                    ChunkEvents(S)[p][i] = rowToEvent(ScanOrder(T(p))[i], snapshot[ScanOrder(T(p))[i]])
             /\ \A i \in DOMAIN ScanOrder(T(p)) : ScanOrder(T(p))[i] \in T(p)
             /\ \A r \in T(p) : \E i \in DOMAIN ScanOrder(T(p)) : ScanOrder(T(p))[i] = r
  <2>1. T(p) \in SUBSET Rows
    OBVIOUS
  <2>2. /\ ScanOrder(T(p)) \in [1..Cardinality(T(p)) -> T(p)]
        /\ \A r \in T(p) : \E i \in DOMAIN ScanOrder(T(p)) : ScanOrder(T(p))[i] = r
    BY <2>1, ScanLemma
  <2>3. ChunkEvents(S)[p] = ReadEvents(T(p))
    BY DEF ChunkEvents
  <2> QED
    BY <2>2, <2>3 DEF ReadEvents
<1>2. \A r : rowToEvent(r, snapshot[r]).row = r
  BY DEF rowToEvent
<1>3. Within(ChunkEvents(S), Reads(snapshot))
  <2> SUFFICES ASSUME NEW p \in Partitions, NEW i \in DOMAIN ChunkEvents(S)[p]
               PROVE  /\ ChunkEvents(S)[p][i] \in Reads(snapshot)
                      /\ PartitionOf[ChunkEvents(S)[p][i].row] = p
    BY DEF Within
  <2>2. i \in DOMAIN ScanOrder(T(p))
    BY <1>1
  <2>3. /\ ScanOrder(T(p))[i] \in T(p)
        /\ ChunkEvents(S)[p][i] = rowToEvent(ScanOrder(T(p))[i], snapshot[ScanOrder(T(p))[i]])
    BY <1>1, <2>2
  <2>1. PICK r \in T(p) : ChunkEvents(S)[p][i] = rowToEvent(r, snapshot[r])
    BY <2>3
  <2> QED
    BY <1>2, <2>1 DEF Reads
<1>4. ASSUME NEW r \in S
      PROVE  Holds(ChunkEvents(S), rowToEvent(r, snapshot[r]))
  <2>1. PartitionOf[r] \in Partitions /\ r \in T(PartitionOf[r])
    BY ShapeAssumption
  <2>2. PICK i \in DOMAIN ScanOrder(T(PartitionOf[r])) : ScanOrder(T(PartitionOf[r]))[i] = r
    BY <1>1, <2>1
  <2>3. i \in DOMAIN ChunkEvents(S)[PartitionOf[r]]
        /\ ChunkEvents(S)[PartitionOf[r]][i] = rowToEvent(r, snapshot[r])
    BY <1>1, <2>1, <2>2
  <2> QED
    BY <1>2, <2>3 DEF Holds
<1> QED
  BY <1>3, <1>4

-----------------------------------------------------------------------------
(* The additional invariant is inductive.                                  *)

(* What stands for a transaction does not change once it is committed.     *)
LEMMA TxnFixed ==
    ASSUME TypeOK, [Next]_vars, NEW n \in DOMAIN wal
    PROVE  /\ n \in DOMAIN wal' /\ wal'[n] = wal[n]
           /\ TxnEvents(n)' = TxnEvents(n)
           /\ \A changes : Decoded(n, changes)' = Decoded(n, changes)
<1>1. n \in DOMAIN wal' /\ wal'[n] = wal[n]
  BY WalGrows
<1> QED
  BY <1>1 DEF TxnEvents, Decoded, PublishedEvent

(* Reads of contents, and events of transactions, are events.              *)
LEMMA ReadsType ==
    ASSUME NEW contents \in Contents
    PROVE  \A evt \in Reads(contents) : evt \in Event /\ evt.lsn = 0
<1> SUFFICES ASSUME NEW r \in Rows, contents[r] # Absent
             PROVE  rowToEvent(r, contents[r]) \in Event /\ rowToEvent(r, contents[r]).lsn = 0
  BY DEF Reads
<1>1. contents[r] \in Image
  BY DEF Contents
<1> QED
  BY <1>1, EventTypes DEF rowToEvent

(* The events of a transaction are events of the feed and carry its        *)
(* number.                                                                 *)
LEMMA TxnEventsType ==
    ASSUME TypeOK, NEW n \in DOMAIN wal
    PROVE  \A evt \in TxnEvents(n) : evt \in Event /\ evt.lsn = n
<1> SUFFICES ASSUME NEW k \in DOMAIN wal[n], NEW i \in DOMAIN EventsOf(wal[n][k])
             PROVE  PublishedEvent(n, k, i) \in Event /\ PublishedEvent(n, k, i).lsn = n
  BY DEF TxnEvents
<1>1. PublishedEvent(n, k, i) \in Event /\ EventsOf(wal[n][k])[i] \in Event
  BY PublishedType
<1> QED
  BY <1>1 DEF PublishedEvent, Event

(* The first state has nothing queued.                                     *)
LEMMA RInit == Init => RInv
<1> SUFFICES ASSUME Init PROVE RInv
  OBVIOUS
<1>1. readerPC = "down" /\ snapshot = NoRows /\ copied = {} /\ late = NoEvents
  BY DEF Init, ReaderInit, SinkInit
<1>2. \A p \in Partitions : DOMAIN late[p] = {}
  BY <1>1 DEF NoEvents
<1> QED
  BY <1>1, <1>2 DEF RInv, SnapshotInv, CopiedInv, NothingElseInv, LateInv, InBackfill

(* A backfill ends only in the stream; it begins only with the slot.       *)
LEMMA BackfillFrame ==
    ASSUME "backfillCrash" \notin Faults, IInv, RInv, [Next]_vars
    PROVE  /\ slotExists => slotExists' /\ slotStart' = slotStart
           /\ slotExists /\ ~InBackfill => ~InBackfill'
           /\ InBackfill /\ InBackfill' => snapshot' = snapshot
           /\ InBackfill /\ ~InBackfill' => readerPC = "backfill" /\ BackfillDone /\ UNCHANGED log
<1> USE DEF InBackfill
<1>1. CASE SourceStep /\ UNCHANGED <<sinkVars, readerVars, faults>>
  BY <1>1, SourceFrame
<1>2. CASE UNCHANGED vars
  BY <1>2 DEF vars, readerVars, slotVars, snapshotVars
<1>3. CASE LateStep /\ UNCHANGED <<sourceVars, readerVars>>
  BY <1>3, LateFrame
<1>4. CASE ReaderStep /\ UNCHANGED sourceVars
  <2> USE DEF slotVars, snapshotVars
  <2>1. CASE CreateSlot \/ FindSlot
    BY <2>1 DEF CreateSlot, FindSlot
  <2>2. CASE StartReplication
    BY <2>2 DEF StartReplication, sinkVars
  <2>3. CASE CopyChunk \/ ChunkPublished
    BY <2>3 DEF CopyChunk, ChunkPublished
  <2>4. CASE StreamStep
    BY <2>4 DEF StreamStep, HandleBegin, HandleRelation, HandleInsert, HandleUpdate, HandleDelete,
                HandleTruncate, HandleRow, AtChange, HandleCommit, HandleEmptyCommit,
                HandleKeepalive, AtCommit, AtMessage
  <2>5. CASE TxnPublished \/ sendStandbyUpdate
    BY <2>5 DEF TxnPublished, sendStandbyUpdate
  <2>6. CASE PublishStep
    BY <2>6 DEF PublishStep, readerVars
  <2>7. CASE PublishError
    BY <2>7 DEF PublishError, Exit, RInv, SnapshotInv
  <2>8. CASE ReaderCrash
    BY <2>8 DEF ReaderCrash, Exit, Fault
  <2>9. CASE SourceRestart
    BY <2>9 DEF SourceRestart, Exit, MayDieHere
  <2> QED
    BY <1>4, <2>1, <2>2, <2>3, <2>4, <2>5, <2>6, <2>7, <2>8, <2>9 DEF ReaderStep, ReaderProgress, New
<1> QED
  BY <1>1, <1>2, <1>3, <1>4 DEF Next, CaptureStep

(* A Publish of a chunk is given up only where a death in the backfill is  *)
(* possible, and it stays given up.                                        *)
LEMMA GivenUp ==
    ASSUME TypeOK, PublishStep, readerPC = "copying"
    PROVE  /\ failed' => "backfillCrash" \in Faults
           /\ ~failed' => ~failed
<1>1. failed' => "backfillCrash" \in Faults
  BY DEF PublishStep, MayDieHere, InBackfill
<1>2. ~failed' => ~failed
  BY Zenon DEF PublishStep, SinkStep, BatchAcked, AckLost, SendTimesOut, BatchGivenUp
<1> QED
  BY <1>1, <1>2

(* Every step keeps the snapshot while it is copied.                       *)
LEMMA SnapshotNext ==
    ASSUME IInv, SnapshotInv, [Next]_vars
    PROVE  SnapshotInv'
<1> USE DEF IInv, SnapshotInv, InBackfill
<1>1. CASE SourceStep /\ UNCHANGED <<sinkVars, readerVars, faults>>
  BY <1>1, SourceFrame
<1>2. CASE UNCHANGED vars
  BY <1>2 DEF vars, readerVars, snapshotVars, sinkVars
<1>3. CASE LateStep /\ UNCHANGED <<sourceVars, readerVars>>
  BY <1>3, LateFrame
<1>4. CASE ReaderStep /\ UNCHANGED sourceVars
  <2> USE DEF snapshotVars
  <2>1. CASE CreateSlot \/ FindSlot
    BY <2>1 DEF CreateSlot, FindSlot
  <2>2. CASE StartReplication
    BY <2>2 DEF StartReplication
  <2>3. CASE CopyChunk
    <3>1. PICK t \in Tables : \E S \in SUBSET Uncopied(t) : copied' = copied \cup S
      BY <2>3 DEF CopyChunk
    <3>2. copied' \subseteq {r \in Rows : snapshot[r] # Absent}
      BY <2>3, <3>1 DEF CopyChunk, Uncopied
    <3>3. ~failed'
      BY <2>3, Zenon DEF CopyChunk, Publish
    <3> QED
      BY <2>3, <3>2, <3>3 DEF CopyChunk
  <2>4. CASE ChunkPublished
    BY <2>4 DEF ChunkPublished
  <2>5. CASE StreamStep
    BY <2>5 DEF StreamStep, HandleBegin, HandleRelation, HandleInsert, HandleUpdate, HandleDelete,
                HandleTruncate, HandleRow, AtChange, HandleCommit, HandleEmptyCommit,
                HandleKeepalive, AtCommit, AtMessage
  <2>6. CASE TxnPublished \/ sendStandbyUpdate
    BY <2>6 DEF TxnPublished, sendStandbyUpdate
  <2>7. CASE PublishStep
    BY <2>7, GivenUp DEF PublishStep, readerVars
  <2>8. CASE PublishError \/ ReaderCrash \/ SourceRestart
    BY <2>8 DEF PublishError, ReaderCrash, SourceRestart, Exit
  <2> QED
    BY <1>4, <2>1, <2>2, <2>3, <2>4, <2>5, <2>6, <2>7, <2>8 DEF ReaderStep, ReaderProgress, New
<1> QED
  BY <1>1, <1>2, <1>3, <1>4 DEF Next, CaptureStep

(* An event of a Publish that is not given up stays in it until it is in   *)
(* the topic.                                                              *)
LEMMA UnsentStays ==
    ASSUME TypeOK, PublishStep, ~failed', NEW evt \in Event, InTopic(evt) \/ Holds(unsent, evt)
    PROVE  InTopic(evt)' \/ Holds(unsent', evt)
<1>1. PICK p \in Partitions :
          BatchAcked(p) \/ AckLost(p) \/ SendTimesOut(p) \/ BatchGivenUp(p)
  BY DEF PublishStep, SinkStep
<1>2. log \in Queues /\ unsent \in Queues
  BY DEF TypeOK, SinkTypeOK, Queues
<1>3. CASE BatchAcked(p)
  BY <1>2, <1>3, StoreLemma, AckedLemma DEF BatchAcked
<1>4. CASE AckLost(p)
  <2>1. unsent' = unsent
    BY <1>4 DEF AckLost
  <2> QED
    BY <1>2, <1>4, <2>1, StoreLemma DEF AckLost
<1>5. CASE SendTimesOut(p)
  <2>1. log' = log /\ unsent' = unsent
    BY <1>5 DEF SendTimesOut
  <2> QED
    BY <2>1 DEF InTopic
<1>6. ~BatchGivenUp(p)
  BY Zenon DEF BatchGivenUp
<1> QED
  BY <1>1, <1>3, <1>4, <1>5, <1>6

(* A row that was handed to Publish is not lost on the way.                *)
LEMMA CopiedNext ==
    ASSUME IInv, SnapshotInv, CopiedInv, [Next]_vars
    PROVE  CopiedInv'
<1> USE DEF IInv
<1> DEFINE Read(r) == rowToEvent(r, snapshot[r])
<1>1. snapshot \in Contents
  BY DEF TypeOK, ReaderTypeOK
<1>2. \A r \in Rows : snapshot[r] # Absent => Read(r) \in Event
  BY <1>1, ReadsType DEF Reads
<1>3. \A evt \in Event : InTopic(evt) => InTopic(evt)'
  BY TopicGrows
<1>4. CASE ~InBackfill'
  BY <1>4 DEF CopiedInv
<1>5. CASE InBackfill /\ UNCHANGED <<snapshot, copied, readerPC, unsent, failed>>
  <2> SUFFICES ASSUME NEW r \in copied, NEW evt, evt = Read(r)
               PROVE  InTopic(evt)' \/ (readerPC = "copying" /\ (failed \/ Holds(unsent, evt)))
    BY <1>5 DEF CopiedInv, InBackfill, InTopic
  <2>1. evt \in Event
    BY <1>2, <1>5 DEF SnapshotInv
  <2>2. InTopic(evt) \/ (readerPC = "copying" /\ (failed \/ Holds(unsent, evt)))
    BY <1>5 DEF CopiedInv
  <2> QED
    BY <1>3, <2>1, <2>2
<1>6. CASE SourceStep /\ UNCHANGED <<sinkVars, readerVars, faults>>
  BY <1>4, <1>5, <1>6, SourceFrame DEF InBackfill
<1>7. CASE UNCHANGED vars
  BY <1>4, <1>5, <1>7 DEF vars, readerVars, snapshotVars, sinkVars, InBackfill
<1>8. CASE LateStep /\ UNCHANGED <<sourceVars, readerVars>>
  BY <1>4, <1>5, <1>8, LateFrame DEF InBackfill
<1>9. CASE ReaderStep /\ UNCHANGED sourceVars
  <2>1. CASE CreateSlot
    BY <2>1 DEF CreateSlot, CopiedInv
  <2>2. CASE CopyChunk
    <3>1. PICK t \in Tables : \E S \in SUBSET Uncopied(t) :
                unsent' = ChunkEvents(S) /\ copied' = copied \cup S
      BY <2>2 DEF CopyChunk, Publish
    <3>2. PICK S \in SUBSET Uncopied(t) : unsent' = ChunkEvents(S) /\ copied' = copied \cup S
      BY <3>1
    <3>3. S \in SUBSET Rows /\ \A r \in S : snapshot[r] # Absent
      BY DEF Uncopied
    <3>4. snapshot' = snapshot /\ readerPC = "backfill" /\ readerPC' = "copying" /\ log' = log
      BY <2>2 DEF CopyChunk
    <3>5. ASSUME NEW r \in copied PROVE InTopic(Read(r))'
      <4>1. InTopic(Read(r))
        BY <3>4 DEF CopiedInv, InBackfill
      <4> QED
        BY <3>4, <4>1 DEF InTopic
    <3>6. ASSUME NEW r \in S PROVE Holds(unsent', Read(r))
      BY <1>1, <3>2, <3>3, ChunkWithin
    <3> QED
      BY <3>2, <3>4, <3>5, <3>6 DEF CopiedInv
  <2>3. CASE ChunkPublished
    <3>1. UNCHANGED <<snapshot, copied, log>> /\ readerPC = "copying" /\ PublishReturned /\ ~failed
      BY <2>3 DEF ChunkPublished, snapshotVars, sinkVars
    <3> SUFFICES ASSUME NEW r \in copied PROVE InTopic(Read(r))
      BY <3>1 DEF CopiedInv, InTopic
    <3>2. Read(r) \in Event
      BY <1>2, <3>1 DEF SnapshotInv, InBackfill
    <3>3. ~Holds(unsent, Read(r))
      BY <3>1, <3>2, ShapeAssumption DEF Holds, PublishReturned, Event
    <3> QED
      BY <3>1, <3>3 DEF CopiedInv, InBackfill
  <2>4. CASE PublishStep /\ readerPC = "copying"
    <3>1. UNCHANGED <<snapshot, copied, readerPC>>
      BY <2>4 DEF PublishStep, readerVars, snapshotVars
    <3> SUFFICES ASSUME ~failed', NEW r \in copied, NEW evt, evt = Read(r)
                 PROVE  InTopic(evt)' \/ Holds(unsent', evt)
      BY <2>4, <3>1 DEF CopiedInv, InTopic
    <3>2. ~failed
      BY <2>4, GivenUp
    <3>3. evt \in Event
      BY <1>2, <2>4 DEF SnapshotInv, InBackfill
    <3>4. InTopic(evt) \/ Holds(unsent, evt)
      BY <2>4, <3>2 DEF CopiedInv, InBackfill
    <3> QED
      BY <2>4, <3>2, <3>3, <3>4, UnsentStays
  <2>5. CASE PublishStep /\ readerPC # "copying"
    BY <1>4, <2>5 DEF PublishStep, readerVars, InBackfill
  <2>6. CASE StreamStep
    BY <1>4, <2>6
    DEF StreamStep, HandleBegin, HandleRelation, HandleInsert, HandleUpdate, HandleDelete, InBackfill,
        HandleTruncate, HandleRow, AtChange, HandleCommit, HandleEmptyCommit, HandleKeepalive,
        AtCommit, AtMessage
  <2>7. CASE FindSlot \/ StartReplication \/ TxnPublished \/ sendStandbyUpdate
    BY <1>4, <2>7 DEF FindSlot, StartReplication, TxnPublished, sendStandbyUpdate, InBackfill
  <2>8. CASE PublishError \/ ReaderCrash \/ SourceRestart
    BY <1>4, <2>8 DEF PublishError, ReaderCrash, SourceRestart, Exit, InBackfill
  <2> QED
    BY <1>9, <2>1, <2>2, <2>3, <2>4, <2>5, <2>6, <2>7, <2>8 DEF ReaderStep, ReaderProgress, New
<1> QED
  BY <1>6, <1>7, <1>8, <1>9 DEF Next, CaptureStep

(* A row message adds the events of its change, and no others.             *)
LEMMA RowWithin ==
    ASSUME IInv, HandleInsert \/ HandleUpdate \/ HandleDelete \/ HandleTruncate,
           NEW evts, Within(txnBuffer, evts)
    PROVE  Within(txnBuffer', evts \cup {EventsOf(CurrentChange)[i] : i \in DOMAIN EventsOf(CurrentChange)})
<1> DEFINE ch == CurrentChange
           new == buildChangeEvent("c", ch.to, ch.tuple)
           upd == buildChangeEvent("u", ch.to, ch.tuple)
           ins == buildChangeEvent("c", ch.row, ch.tuple)
           del == buildDeleteEvent(ch.row)
           more == {EventsOf(ch)[i] : i \in DOMAIN EventsOf(ch)}
<1>1. txnBuffer \in Queues
  BY DEF IInv, TypeOK, ReaderTypeOK, Queues
<1>2. ch \in Change
  BY CurrentLemma
  DEF IInv, HandleInsert, HandleUpdate, HandleDelete, HandleTruncate, HandleRow, AtChange
<1>3. new \in Event /\ upd \in Event /\ ins \in Event /\ del \in Event
  BY <1>2, EventTypes DEF Change, Ops
<1>4. [upd EXCEPT !.op = "c"] = new
  BY DEF buildChangeEvent
<1> HIDE DEF new, upd, ins, del
<1>5. CASE HandleInsert
  <2>1. txnBuffer' = Put(txnBuffer, ins)
    BY <1>5 DEF HandleInsert, ins
  <2>2. EventsOf(ch) = <<ins>>
    BY <1>5 DEF HandleInsert, HandleRow, EventsOf, ins
  <2>3. evts \cup {ins} \subseteq evts \cup more
    BY <2>2
  <2> QED
    BY <1>1, <1>3, <2>1, <2>3, PutWithin, WithinMore
<1>6. CASE HandleUpdate /\ ch.row = ch.to
  <2>1. txnBuffer' = Put(txnBuffer, upd)
    BY <1>6 DEF HandleUpdate, UpdateEvents, oldKeyIfChanged, upd
  <2>2. EventsOf(ch) = <<upd>>
    BY <1>6 DEF HandleUpdate, HandleRow, EventsOf, upd
  <2>3. evts \cup {upd} \subseteq evts \cup more
    BY <2>2
  <2> QED
    BY <1>1, <1>3, <2>1, <2>3, PutWithin, WithinMore
<1>7. CASE HandleUpdate /\ ch.row # ch.to
  <2>1. txnBuffer' = Put(Put(txnBuffer, del), new)
    BY <1>4, <1>7 DEF HandleUpdate, UpdateEvents, oldKeyIfChanged, RekeyEvents, upd, del
  <2>2. EventsOf(ch) = <<del, new>>
    BY <1>7 DEF HandleUpdate, HandleRow, EventsOf, del, new
  <2>3. (evts \cup {del}) \cup {new} \subseteq evts \cup more
    BY <2>2
  <2>4. Put(txnBuffer, del) \in Queues /\ Within(Put(txnBuffer, del), evts \cup {del})
    BY <1>1, <1>3, PutLemma, PutWithin
  <2>5. Within(txnBuffer', (evts \cup {del}) \cup {new})
    BY <1>3, <2>1, <2>4, PutWithin
  <2> QED
    BY <2>3, <2>5, WithinMore
<1>8. CASE HandleDelete
  <2>1. txnBuffer' = Put(txnBuffer, del)
    BY <1>8 DEF HandleDelete, del
  <2>2. EventsOf(ch) = <<del>>
    BY <1>8 DEF HandleDelete, HandleRow, EventsOf, del
  <2>3. evts \cup {del} \subseteq evts \cup more
    BY <2>2
  <2> QED
    BY <1>1, <1>3, <2>1, <2>3, PutWithin, WithinMore
<1>9. CASE HandleTruncate
  <2>1. txnBuffer' = txnBuffer
    BY <1>9 DEF HandleTruncate
  <2> QED
    BY <2>1, WithinMore
<1> QED
  BY <1>5, <1>6, <1>7, <1>8, <1>9

(* Every step keeps what does not belong there out of buffer and Publish.  *)
LEMMA NothingElseNext ==
    ASSUME "backfillCrash" \notin Faults, IInv, RInv, [Next]_vars
    PROVE  NothingElseInv'
<1> USE DEF IInv, RInv
<1>1. /\ txn \in Nat /\ msg \in Nat /\ confirmed \in Nat /\ readerPC \in ReaderPCs
      /\ txnBuffer \in Queues /\ unsent \in Queues /\ snapshot \in Contents
  BY DEF TypeOK, ReaderTypeOK, SinkTypeOK, Queues
<1>2. Len(wal) \in Nat /\ DOMAIN wal = 1..Len(wal)
  BY WalGrows
<1>3. (readerPC = "stream" /\ msg # 0) \/ readerPC = "committing" => txn \in DOMAIN wal
  BY <1>1, <1>2 DEF PositionInv, Streaming
<1>4. CASE UNCHANGED <<readerPC, txn, msg, txnBuffer, unsent, snapshot>>
  <2>1. readerPC = "stream" /\ msg # 0 => Within(txnBuffer, Decoded(txn, 1..(msg - 1))')
    BY <1>3, <1>4, TxnFixed DEF NothingElseInv
  <2>2. readerPC = "committing" => Within(unsent, TxnEvents(txn)')
    BY <1>3, <1>4, TxnFixed DEF NothingElseInv
  <2> QED
    BY <1>4, <2>1, <2>2 DEF NothingElseInv, Within
<1>5. CASE readerPC' \notin {"stream", "committing", "copying"} \/ (readerPC' = "stream" /\ msg' = 0)
  BY <1>5 DEF NothingElseInv
<1>6. CASE SourceStep /\ UNCHANGED <<sinkVars, readerVars, faults>>
  BY <1>4, <1>6, SourceFrame
<1>7. CASE UNCHANGED vars
  BY <1>4, <1>7 DEF vars, readerVars, snapshotVars, streamVars, sinkVars
<1>8. CASE LateStep /\ UNCHANGED <<sourceVars, readerVars>>
  BY <1>4, <1>8, LateFrame
<1>9. CASE ReaderStep /\ UNCHANGED sourceVars
  <2>1. wal' = wal
    BY <1>9 DEF sourceVars
  <2> USE DEF snapshotVars, streamVars, sinkVars
  <2>2. CASE New \/ StartReplication \/ ChunkPublished \/ TxnPublished \/ HandleEmptyCommit
    BY <1>5, <2>2
    DEF New, CreateSlot, FindSlot, StartReplication, ChunkPublished, TxnPublished, HandleEmptyCommit,
        Acknowledge, AtCommit, AtMessage
  <2>3. CASE PublishError \/ ReaderCrash \/ SourceRestart
    BY <1>5, <2>3 DEF PublishError, ReaderCrash, SourceRestart, Exit
  <2>4. CASE HandleRelation \/ sendStandbyUpdate
    BY <1>4, <2>4 DEF HandleRelation, sendStandbyUpdate
  <2>11. CASE HandleKeepalive
    BY <1>5, <2>11 DEF HandleKeepalive
  <2>5. CASE HandleBegin
    <3>1. readerPC' = "stream" /\ txnBuffer' = NoEvents
      BY <2>5 DEF HandleBegin, AtMessage
    <3> QED
      BY <3>1 DEF NothingElseInv, Within, NoEvents
  <2>6. CASE HandleInsert \/ HandleUpdate \/ HandleDelete \/ HandleTruncate
    <3>1. AtChange /\ msg' = msg + 1 /\ txn' = txn /\ readerPC' = "stream" /\ readerPC = "stream"
      BY <2>6 DEF HandleInsert, HandleUpdate, HandleDelete, HandleTruncate, HandleRow, AtChange, AtMessage
    <3>2. msg \in 1..Len(wal[txn]) /\ msg # 0
      BY <1>1, <3>1 DEF AtChange
    <3> DEFINE evts == Decoded(txn, 1..(msg - 1))
    <3>3. Within(txnBuffer, evts)
      BY <3>1, <3>2 DEF NothingElseInv
    <3>4. evts \cup {EventsOf(CurrentChange)[i] : i \in DOMAIN EventsOf(CurrentChange)}
            \subseteq Decoded(txn, 1..msg)
      <4>1. 1..(msg - 1) \subseteq 1..msg /\ msg \in 1..msg
        BY <1>1, <3>2
      <4>2. evts \subseteq Decoded(txn, 1..msg)
        BY <4>1 DEF Decoded, EventsIn
      <4>3. ASSUME NEW i \in DOMAIN EventsOf(CurrentChange)
            PROVE  EventsOf(CurrentChange)[i] \in Decoded(txn, 1..msg)
        BY <4>1, <4>3 DEF Decoded, EventsIn, CurrentChange
      <4> QED
        BY <4>2, <4>3
    <3> HIDE DEF evts
    <3>5. Within(txnBuffer', Decoded(txn, 1..msg))
      BY <2>6, <3>3, <3>4, RowWithin, WithinMore
    <3>6. Decoded(txn, 1..(msg - 1))' = Decoded(txn, 1..msg)
      <4>1. 1..(msg' - 1) = 1..msg
        BY <1>1, <3>1
      <4>2. txn' = txn
        BY <3>1
      <4> QED
        BY <2>1, <4>1, <4>2 DEF Decoded
    <3> QED
      BY <3>1, <3>5, <3>6 DEF NothingElseInv, Within
  <2>7. CASE HandleCommit
    <3>1. /\ readerPC = "stream" /\ msg = Len(wal[txn]) + 1 /\ txn <= Len(wal)
          /\ unsent' = Stamped(txnBuffer, txn) /\ readerPC' = "committing" /\ txn' = txn
      BY <2>7 DEF HandleCommit, AtCommit, AtMessage, Publish
    <3>2. txn \in DOMAIN wal
      BY <1>1, <1>2, <3>1 DEF PositionInv, Streaming
    <3>3. Len(wal[txn]) \in Nat /\ DOMAIN wal[txn] = 1..Len(wal[txn])
      BY <3>2 DEF TypeOK, SourceTypeOK
    <3>4. msg # 0 /\ 1..(msg - 1) = DOMAIN wal[txn]
      BY <3>1, <3>3
    <3>5. Within(unsent', TxnEvents(txn))
      BY <1>1, <3>1, <3>2, <3>4, StampedWithin DEF NothingElseInv
    <3>6. TxnEvents(txn)' = TxnEvents(txn)
      BY <2>1, <3>1 DEF TxnEvents, PublishedEvent
    <3> QED
      BY <3>1, <3>5, <3>6 DEF NothingElseInv, Within
  <2>8. CASE CopyChunk
    <3>1. PICK t \in Tables : \E S \in SUBSET Uncopied(t) : unsent' = ChunkEvents(S)
      BY <2>8 DEF CopyChunk, Publish
    <3>2. PICK S \in SUBSET Uncopied(t) : unsent' = ChunkEvents(S)
      BY <3>1
    <3>3. S \in SUBSET Rows /\ \A r \in S : snapshot[r] # Absent
      BY DEF Uncopied
    <3>4. snapshot' = snapshot /\ readerPC' = "copying"
      BY <2>8 DEF CopyChunk
    <3>5. Within(unsent', Reads(snapshot))
      BY <1>1, <3>2, <3>3, ChunkWithin
    <3> QED
      BY <3>4, <3>5 DEF NothingElseInv, Within
  <2>9. CASE PublishStep
    <3>1. UNCHANGED <<readerPC, txn, msg, txnBuffer, snapshot>> /\ readerPC \in {"copying", "committing"}
      BY <2>9 DEF PublishStep, readerVars
    <3>2. PICK p \in Partitions :
              BatchAcked(p) \/ AckLost(p) \/ SendTimesOut(p) \/ BatchGivenUp(p)
      BY <2>9 DEF PublishStep, SinkStep
    <3>3. CASE AckLost(p) \/ SendTimesOut(p)
      BY <1>4, <3>1, <3>3 DEF AckLost, SendTimesOut
    <3>4. CASE BatchAcked(p) \/ BatchGivenUp(p)
      <4>1. BatchDone(p)
        BY <3>4 DEF BatchAcked, BatchGivenUp
      <4>2. \A evts : Within(unsent, evts) => Within(unsent', evts)
        BY <1>1, <4>1, BehindWithin
      <4>3. TxnEvents(txn)' = TxnEvents(txn)
        BY <2>1, <3>1 DEF TxnEvents, PublishedEvent
      <4> QED
        BY <3>1, <4>2, <4>3 DEF NothingElseInv, Within
    <3> QED
      BY <3>2, <3>3, <3>4
  <2> QED
    BY <1>9, <2>2, <2>3, <2>4, <2>5, <2>6, <2>7, <2>8, <2>9, <2>11
    DEF ReaderStep, ReaderProgress, StreamStep
<1> QED
  BY <1>6, <1>7, <1>8, <1>9 DEF Next, CaptureStep

(* The end of a backfill finds the whole snapshot in the topic.            *)
LEMMA WholeSnapshot ==
    ASSUME CopiedInv, readerPC = "backfill", BackfillDone
    PROVE  \A evt \in Reads(snapshot) : InTopic(evt)
<1> SUFFICES ASSUME NEW r \in Rows, snapshot[r] # Absent
             PROVE  InTopic(rowToEvent(r, snapshot[r]))
  BY DEF Reads
<1>1. r \in copied
  BY ShapeAssumption DEF BackfillDone, Uncopied
<1> QED
  BY <1>1 DEF CopiedInv, InBackfill

(* What was in season once stays so.                                       *)
LEMMA SeasonStays ==
    ASSUME "backfillCrash" \notin Faults, IInv, RInv, [Next]_vars,
           slotExists, NEW evt \in Event, InSeason(evt)
    PROVE  InSeason(evt)'
<1> USE DEF IInv
<1>1. CASE InTopic(evt)
  BY <1>1, TopicGrows DEF InSeason
<1>2. CASE InBackfill /\ evt \in Reads(snapshot)
  <2>1. CASE InBackfill'
    BY <1>2, <2>1, BackfillFrame DEF InSeason
  <2>2. CASE ~InBackfill'
    BY <1>1, <1>2, <2>2, BackfillFrame, WholeSnapshot DEF RInv
  <2> QED
    BY <2>1, <2>2
<1>3. CASE \E n \in DOMAIN wal :
            /\ slotStart < n /\ ~InBackfill
            /\ evt \in TxnEvents(n)
            /\ \A m \in (slotStart + 1)..(n - 1) : TxnInTopic(m)
  <2>1. PICK n \in DOMAIN wal :
            /\ slotStart < n /\ ~InBackfill
            /\ evt \in TxnEvents(n)
            /\ \A m \in (slotStart + 1)..(n - 1) : TxnInTopic(m)
    BY <1>3
  <2>2. ~InBackfill' /\ slotStart' = slotStart
    BY <2>1, BackfillFrame
  <2>3. n \in DOMAIN wal' /\ evt \in TxnEvents(n)'
    BY <2>1, TxnFixed
  <2>4. ASSUME NEW m \in (slotStart + 1)..(n - 1) PROVE TxnInTopic(m)'
    <3>1. m \in DOMAIN wal
      BY <2>1, WalGrows DEF TypeOK, ReaderTypeOK
    <3> QED
      BY <2>1, <2>4, <3>1, TxnStays
  <2> QED
    BY <2>1, <2>2, <2>3, <2>4 DEF InSeason
<1> QED
  BY <1>1, <1>2, <1>3 DEF InSeason

(* What a Publish sends is in season.                                      *)
LEMMA UnsentInSeason ==
    ASSUME IInv, RInv, NEW p \in Partitions, NEW i \in DOMAIN unsent[p],
           readerPC \in {"copying", "committing"}
    PROVE  PartitionOf[unsent[p][i].row] = p /\ InSeason(unsent[p][i])
<1> USE DEF IInv, RInv
<1>1. CASE readerPC = "copying"
  BY <1>1 DEF NothingElseInv, Within, InSeason, InBackfill
<1>2. CASE readerPC = "committing"
  <2>1. /\ txn \in Nat /\ confirmed \in Nat /\ slotStart \in Nat
        /\ Len(wal) \in Nat /\ DOMAIN wal = 1..Len(wal)
    BY DEF TypeOK, ReaderTypeOK, SourceTypeOK
  <2>2. txn \in DOMAIN wal /\ slotStart < txn /\ ~InBackfill
    BY <1>2, <2>1 DEF PositionInv, SlotInv, Streaming, InBackfill
  <2>3. ASSUME NEW m \in (slotStart + 1)..(txn - 1) PROVE TxnInTopic(m)
    <3>1. m \in DOMAIN wal /\ slotStart < m /\ m < txn
      BY <2>1, <2>2
    <3> QED
      BY <1>2, <3>1 DEF BehindInv, Streaming
  <2>4. unsent[p][i] \in TxnEvents(txn) /\ PartitionOf[unsent[p][i].row] = p
    BY <1>2 DEF NothingElseInv, Within
  <2> QED
    BY <2>2, <2>3, <2>4 DEF InSeason
<1> QED
  BY <1>1, <1>2

(* Every step keeps the requests of long ago in season.                    *)
LEMMA LateNext ==
    ASSUME "backfillCrash" \notin Faults, IInv, RInv, [Next]_vars
    PROVE  LateInv'
<1> USE DEF IInv, RInv
<1>1. late \in Queues /\ unsent \in Queues
  BY DEF TypeOK, SinkTypeOK, Queues
<1>2. ASSUME NEW p \in Partitions, NEW i \in DOMAIN late[p]
      PROVE  /\ "lateStore" \in Faults
             /\ slotExists'
             /\ PartitionOf[late[p][i].row] = p
             /\ InSeason(late[p][i])
             /\ slotExists
             /\ late[p][i] \in Event
  <2>1. /\ "lateStore" \in Faults /\ slotExists
        /\ PartitionOf[late[p][i].row] = p /\ InSeason(late[p][i])
    BY DEF LateInv
  <2>2. late[p][i] \in Event
    BY <1>1 DEF Queues
  <2> QED
    BY <2>1, <2>2, BackfillFrame
<1>3. ASSUME NEW evt \in Event, slotExists, InSeason(evt) PROVE InSeason(evt)'
  BY <1>3, SeasonStays
\* Each entry of late' is one of late, or of a batch being sent.
<1>4. SUFFICES ASSUME NEW p \in Partitions, NEW i \in DOMAIN late'[p], NEW evt, evt = late'[p][i]
               PROVE  /\ "lateStore" \in Faults /\ slotExists'
                      /\ PartitionOf[evt.row] = p /\ InSeason(evt)'
  BY DEF LateInv, InSeason, InTopic
<1>5. CASE \E j \in DOMAIN late[p] : evt = late[p][j]
  BY <1>2, <1>3, <1>5
<1>6. CASE UNCHANGED late
  BY <1>4, <1>5, <1>6
<1>7. CASE PublishStep
  <2>1. PICK q \in Partitions :
            BatchAcked(q) \/ AckLost(q) \/ SendTimesOut(q) \/ BatchGivenUp(q)
    BY <1>7 DEF PublishStep, SinkStep
  <2>2. CASE SendTimesOut(q) /\ p = q
    <3>1. "lateStore" \in Faults /\ late' = [late EXCEPT ![q] = Batch(q)]
      BY <2>2 DEF SendTimesOut, Fault
    <3>2. late'[p] = Batch(p)
      BY <1>1, <2>2, <3>1 DEF Queues
    <3>3. PICK j \in DOMAIN unsent[p] : evt = unsent[p][j]
      BY <1>1, <1>4, <3>2, BatchTaken
    <3>4. readerPC \in {"copying", "committing"} /\ slotExists /\ slotExists'
      BY <1>7 DEF PublishStep, SlotInv, readerVars, slotVars
    <3>5. PartitionOf[evt.row] = p /\ InSeason(evt)
      BY <3>3, <3>4, UnsentInSeason
    <3>6. evt \in Event
      BY <1>1, <3>3 DEF Queues
    <3> QED
      BY <1>3, <3>1, <3>4, <3>5, <3>6
  <2>3. CASE SendTimesOut(q) /\ p # q
    <3>1. late'[p] = late[p]
      BY <1>1, <2>3 DEF SendTimesOut, Queues
    <3> QED
      BY <1>4, <1>5, <3>1
  <2>4. CASE BatchAcked(q) \/ AckLost(q) \/ BatchGivenUp(q)
    BY <1>6, <2>4 DEF BatchAcked, AckLost, BatchGivenUp
  <2> QED
    BY <2>1, <2>2, <2>3, <2>4
<1>8. CASE LateStep
  <2>1. PICK q \in Partitions : LateStored(q)
    BY <1>8 DEF LateStep
  <2>2. late'[p] = late[p] \/ late'[p] = <<>>
    BY <1>1, <2>1 DEF LateStored, Queues
  <2> QED
    BY <1>4, <1>5, <2>2
<1>9. CASE SourceStep /\ UNCHANGED <<sinkVars, readerVars, faults>>
  BY <1>6, <1>9 DEF sinkVars
<1>10. CASE UNCHANGED vars
  BY <1>6, <1>10 DEF vars, sinkVars
<1>11. CASE ReaderStep /\ ~PublishStep
  BY <1>6, <1>11
  DEF ReaderStep, ReaderProgress, StreamStep, New, CreateSlot, FindSlot, StartReplication, CopyChunk,
      ChunkPublished, HandleBegin, HandleRelation, HandleInsert, HandleUpdate, HandleDelete,
      HandleTruncate, HandleRow, HandleCommit, HandleEmptyCommit,
      HandleKeepalive, TxnPublished, sendStandbyUpdate,
      PublishError, ReaderCrash, SourceRestart, Exit, SinkLost, sinkVars
<1> QED
  BY <1>7, <1>8, <1>9, <1>10, <1>11 DEF Next, CaptureStep

(* Together.                                                               *)
LEMMA RNext ==
    ASSUME "backfillCrash" \notin Faults, IInv, RInv, [Next]_vars
    PROVE  RInv'
BY SnapshotNext, CopiedNext, NothingElseNext, LateNext DEF RInv

-----------------------------------------------------------------------------
(* Every step of the capture half is a step of the feed, or none.          *)

\* The feed's history and cursor, see Feed in Capture.
History == [n \in 1..Len(wal) |-> TxnEvents(n)]
NextUp == IF Streaming THEN txn ELSE confirmed + 1

(* The feed knows the same events.                                         *)
LEMMA FeedEvent == Feed!Event = Event
BY DEF Feed!Event, Event, Feed!Ops, Ops

HistoryOK ==
    /\ Len(wal) \in Nat /\ DOMAIN wal = 1..Len(wal)
    /\ History \in Seq(SUBSET Event) /\ Len(History) = Len(wal)
    /\ DOMAIN History = 1..Len(wal)
    /\ \A n \in 1..Len(wal) : History[n] = TxnEvents(n)
    /\ \A n \in 1..Len(wal) : \A evt \in TxnEvents(n) : evt.lsn = n

(* The history is a sequence of sets of events, each of its transaction.   *)
LEMMA HistoryType == TypeOK => HistoryOK
<1> SUFFICES ASSUME TypeOK PROVE HistoryOK
  OBVIOUS
<1>1. Len(wal) \in Nat /\ DOMAIN wal = 1..Len(wal)
  BY DEF TypeOK, SourceTypeOK
<1>2. \A n \in 1..Len(wal) :
        TxnEvents(n) \in SUBSET Event /\ \A evt \in TxnEvents(n) : evt.lsn = n
  BY <1>1, TxnEventsType
<1> DEFINE len == Len(wal)
<1> HIDE DEF len
<1>3. len \in Nat /\ [n \in 1..len |-> TxnEvents(n)] \in [1..len -> SUBSET Event]
  BY <1>1, <1>2 DEF len
<1>4. [n \in 1..len |-> TxnEvents(n)] \in Seq(SUBSET Event)
  BY <1>3
<1>5. Len([n \in 1..len |-> TxnEvents(n)]) = len
  BY <1>3
<1> QED
  BY <1>1, <1>2, <1>4, <1>5 DEF HistoryOK, History, len

(* Likewise in the next state.                                             *)
LEMMA HistoryTypeNext == TypeOK' => HistoryOK'
BY HistoryType, PTL

(* To be in the log means the same on both sides.                          *)
LEMMA InLogLemma ==
    /\ \A evt : Feed!InLog(evt) <=> InTopic(evt)
    /\ \A n : Feed!AllInLog(TxnEvents(n)) <=> TxnInTopic(n)
BY DEF Feed!InLog, Feed!AllInLog, InTopic, Holds, TxnEvents, TxnInTopic

(* A step that touches none of this is no step of the feed.                *)
LEMMA SourceSame ==
    ASSUME UNCHANGED <<wal, table>>
    PROVE  UNCHANGED Feed!sourceState
BY DEF Feed!sourceState, TxnEvents, PublishedEvent

(* A step that changes nothing the feed can see is a step of the feed that *)
(* does nothing.                                                           *)
LEMMA Stutter ==
    ASSUME UNCHANGED <<wal, table>>, UNCHANGED <<log, slotExists, slotStart, confirmed>>,
           UNCHANGED snapshot, NextUp' = NextUp, InBackfill' <=> InBackfill
    PROVE  UNCHANGED Feed!vars
<1>1. UNCHANGED Feed!sourceState
  BY SourceSame
<1>2. Reads(snapshot)' = Reads(snapshot)
  BY DEF Reads
<1>3. InBackfill' = InBackfill
  BY DEF InBackfill
<1>4. UNCHANGED Feed!cursor
  BY <1>2, <1>3 DEF Feed!cursor, NextUp
<1> QED
  BY <1>1, <1>4 DEF Feed!vars

(* Initial states.                                                         *)
LEMMA InitMaps == Init => Feed!Init
<1> SUFFICES ASSUME Init PROVE Feed!Init
  OBVIOUS
<1>1. /\ readerPC = "down" /\ slotExists = FALSE /\ slotStart = 0 /\ confirmed = 0
      /\ snapshot = NoRows /\ log = NoEvents /\ wal = <<>>
  BY DEF Init, ReaderInit, SinkInit, SourceInit
<1>2. Reads(snapshot) = {}
  BY <1>1 DEF Reads, NoRows
<1>3. Feed!SnapshotReads(Reads(table))
  BY TypeInit, ReadsType, FeedEvent DEF Feed!SnapshotReads, TypeOK, SourceTypeOK
<1>4. [n \in 1..Len(wal) |-> TxnEvents(n)] = <<>>
  BY <1>1
<1> QED
  BY <1>1, <1>2, <1>3, <1>4 DEF Feed!Init, InBackfill, Streaming, NoEvents

(* The source commits.                                                     *)
LEMMA SourceMaps ==
    ASSUME IInv, [Next]_vars, SourceStep, UNCHANGED <<sinkVars, readerVars, faults>>
    PROVE  Feed!Commit
<1> USE DEF IInv
<1>1. TypeOK'
  BY TypeNext
<1>2. Len(wal') = Len(wal) + 1
  BY DEF SourceStep, CommitOne, CommitPair, CommitOther, TypeOK, SourceTypeOK
<1>3. HistoryOK
  BY HistoryType
<1>4. HistoryOK'
  BY <1>1, HistoryTypeNext
<1>5. \A n \in DOMAIN History : History'[n] = History[n]
  <2> SUFFICES ASSUME NEW n \in 1..Len(wal) PROVE History'[n] = History[n]
    BY <1>3 DEF HistoryOK
  <2>1. n \in 1..Len(wal') /\ n \in DOMAIN wal
    BY <1>2, <1>3 DEF HistoryOK
  <2> QED
    BY <1>3, <1>4, <2>1, TxnFixed DEF HistoryOK
<1>6. \A evt \in History'[Len(History')] : evt.lsn = Len(History')
  BY <1>2, <1>3, <1>4 DEF HistoryOK
<1>7. Feed!SnapshotReads(Reads(table)')
  <2>1. table' \in Contents
    BY <1>1 DEF TypeOK, SourceTypeOK
  <2> QED
    BY <2>1, ReadsType, FeedEvent DEF Feed!SnapshotReads, Reads
<1>8. UNCHANGED <<log, Feed!cursor>>
  BY SourceFrame DEF Feed!cursor, InBackfill, Streaming, Reads
<1> QED
  BY <1>2, <1>3, <1>4, <1>5, <1>6, <1>7, <1>8, FeedEvent DEF Feed!Commit, History, HistoryOK

(* The slot is created.                                                    *)
LEMMA OpenMaps ==
    ASSUME IInv, CreateSlot, UNCHANGED sourceVars
    PROVE  Feed!Open
<1>1. /\ ~slotExists /\ slotExists' = TRUE /\ slotStart' = Len(wal) /\ confirmed' = Len(wal)
      /\ snapshot' = table /\ readerPC' = "backfill" /\ log' = log /\ wal' = wal /\ table' = table
  BY DEF CreateSlot, sinkVars, sourceVars
<1>2. UNCHANGED Feed!sourceState
  BY <1>1, SourceSame
<1>3. Len(History) = Len(wal)
  BY HistoryType DEF IInv, HistoryOK
<1>4. Reads(snapshot)' = Reads(table)
  BY <1>1 DEF Reads
<1> QED
  BY <1>1, <1>2, <1>3, <1>4 DEF Feed!Open, InBackfill, Streaming, History

(* The stream starts, of a fresh slot or of an old one.                    *)
LEMMA StartMaps ==
    ASSUME IInv, RInv, StartReplication, UNCHANGED sourceVars
    PROVE  Feed!Seeded \/ UNCHANGED Feed!vars
<1>1. /\ readerPC' = "stream" /\ snapshot' = NoRows /\ txn' = confirmed + 1
      /\ UNCHANGED <<log, slotExists, slotStart, confirmed, wal, table>>
  BY DEF StartReplication, slotVars, sinkVars, sourceVars
<1>2. NextUp' = confirmed + 1
  BY <1>1 DEF NextUp, Streaming
<1>3. CASE readerPC = "start"
  BY <1>1, <1>2, <1>3, Stutter DEF NextUp, Streaming, InBackfill, RInv, SnapshotInv
<1>4. CASE readerPC = "backfill" /\ BackfillDone
  <2>1. UNCHANGED Feed!sourceState
    BY <1>1, SourceSame
  <2>2. Feed!AllInLog(Reads(snapshot))
    BY <1>4, WholeSnapshot, InLogLemma DEF RInv, Feed!AllInLog
  <2>3. Reads(snapshot)' = {}
    BY <1>1 DEF Reads, NoRows
  <2>4. NextUp = confirmed + 1 /\ InBackfill /\ ~InBackfill'
    BY <1>1, <1>4 DEF NextUp, Streaming, InBackfill
  <2> QED
    BY <1>1, <1>2, <2>1, <2>2, <2>3, <2>4 DEF Feed!Seeded, NextUp
<1> QED
  BY <1>3, <1>4 DEF StartReplication

(* A transaction is done with.                                             *)
LEMMA AdvanceMaps ==
    ASSUME IInv, HandleEmptyCommit \/ HandleKeepalive \/ TxnPublished, UNCHANGED sourceVars
    PROVE  Feed!Advance
<1> USE DEF IInv
<1>1. /\ Streaming /\ txn' = txn + 1 /\ Streaming'
      /\ UNCHANGED <<log, slotExists, slotStart, confirmed, wal, table, snapshot>>
  BY DEF HandleEmptyCommit,
    HandleKeepalive, TxnPublished, Acknowledge, AtCommit, AtMessage, Streaming, slotVars,
         snapshotVars, sinkVars, sourceVars
<1>2. UNCHANGED Feed!sourceState
  BY <1>1, SourceSame
<1>3. /\ txn \in Nat /\ txn <= Len(wal) /\ confirmed \in Nat /\ slotExists
  BY <1>1 DEF TypeOK, ReaderTypeOK, PositionInv, SlotInv, HandleEmptyCommit, HandleKeepalive,
              TxnPublished, AtCommit, AtMessage, Streaming
<1>4. txn \in DOMAIN History /\ History[txn] = TxnEvents(txn)
  BY <1>1, <1>3, HistoryType DEF PositionInv, HistoryOK
<1>5. Feed!AllInLog(TxnEvents(txn))
  <2>1. CASE HandleKeepalive
    BY <2>1 DEF HandleKeepalive, Streamed, TxnEvents, Feed!AllInLog
  <2> QED
    BY <2>1, EmptyCommitLemma, TxnPublishedLemma, InLogLemma
<1>6. ~InBackfill /\ ~InBackfill'
  BY <1>1 DEF InBackfill, Streaming
<1>7. InBackfill' = InBackfill /\ Reads(snapshot)' = Reads(snapshot)
  BY <1>1, <1>6 DEF Reads, InBackfill
<1> QED
  BY <1>1, <1>2, <1>3, <1>4, <1>5, <1>6, <1>7 DEF Feed!Advance, Feed!Following, History

(* Postgres is told.                                                       *)
LEMMA AcknowledgeMaps ==
    ASSUME IInv, sendStandbyUpdate, UNCHANGED sourceVars
    PROVE  Feed!Acknowledge
<1> USE DEF IInv
<1>1. /\ Streaming /\ Streaming' /\ txn' = txn /\ confirmed' = ackedLSN /\ ackedLSN # 0
      /\ UNCHANGED <<log, slotExists, slotStart, wal, table, snapshot>>
  BY DEF sendStandbyUpdate, Streaming, snapshotVars, streamVars, sinkVars, sourceVars
<1>2. UNCHANGED Feed!sourceState
  BY <1>1, SourceSame
<1>3. confirmed' \in confirmed..(txn - 1) /\ slotExists
  BY <1>1 DEF TypeOK, ReaderTypeOK, PositionInv, SlotInv, Streaming
<1>4. ~InBackfill /\ InBackfill' = InBackfill /\ Reads(snapshot)' = Reads(snapshot)
  BY <1>1 DEF Reads, InBackfill, Streaming
<1> QED
  BY <1>1, <1>2, <1>3, <1>4 DEF Feed!Acknowledge

(* The reader dies, or loses its connection, and will resume from the slot. *)
LEMMA FallBackMaps ==
    ASSUME "backfillCrash" \notin Faults, IInv, RInv,
           PublishError \/ ReaderCrash \/ SourceRestart, UNCHANGED sourceVars
    PROVE  Feed!FallBack
<1> USE DEF IInv
<1>1. /\ readerPC' = "down" /\ snapshot' = NoRows
      /\ UNCHANGED <<log, slotExists, slotStart, wal, table>>
  BY DEF PublishError, ReaderCrash, SourceRestart, Exit, SinkLost, sourceVars
<1>2. UNCHANGED Feed!sourceState
  BY <1>1, SourceSame
<1>3. slotExists /\ confirmed' \in slotStart..confirmed
  BY DEF PublishError, ReaderCrash, SourceRestart, TypeOK, ReaderTypeOK, SlotInv
<1>4. ~InBackfill
  BY DEF PublishError, ReaderCrash, SourceRestart, MayDieHere, Fault, InBackfill, RInv, SnapshotInv
<1>5. InBackfill' = InBackfill /\ Reads(snapshot)' = Reads(snapshot)
  BY <1>1, <1>4 DEF InBackfill, Reads, RInv, SnapshotInv
<1>6. ~Streaming'
  BY <1>1 DEF Streaming
<1> QED
  BY <1>1, <1>2, <1>3, <1>4, <1>5, <1>6 DEF Feed!FallBack

(* Storing a request is a delivery of what it holds.                       *)
LEMMA DeliverMaps ==
    ASSUME log \in Queues, NEW p \in Partitions, NEW s \in Seq(Event), s # <<>>,
           log' = [log EXCEPT ![p] = @ \o s], NEW evts,
           \A i \in DOMAIN s : s[i] \in evts /\ PartitionOf[s[i].row] = p,
           UNCHANGED <<Feed!sourceState, Feed!cursor>>
    PROVE  Feed!Deliver(p, evts)
<1> DEFINE both == log[p] \o s
<1>1. log[p] \in Seq(Event) /\ Len(log[p]) \in Nat /\ DOMAIN log[p] = 1..Len(log[p])
  BY DEF Queues
<1>2. Len(s) \in Nat /\ Len(s) > 0 /\ DOMAIN s = 1..Len(s)
  OBVIOUS
<1>3. /\ both \in Seq(Event)
      /\ Len(both) = Len(log[p]) + Len(s)
      /\ \A i \in 1..Len(log[p]) : both[i] = log[p][i]
      /\ \A i \in (Len(log[p]) + 1)..(Len(log[p]) + Len(s)) : both[i] = s[i - Len(log[p])]
  BY <1>1, <1>2
<1>4. /\ log' \in [Partitions -> Seq(Event)]
      /\ log'[p] = both
      /\ \A q \in Partitions \ {p} : log'[q] = log[q]
  BY <1>3 DEF Queues
<1> HIDE DEF both
<1>5. ASSUME NEW i \in (Len(log[p]) + 1)..(Len(log[p]) + Len(s))
      PROVE  both[i] \in evts /\ PartitionOf[both[i].row] = p
  <2>1. i - Len(log[p]) \in DOMAIN s
    BY <1>1, <1>2
  <2> QED
    BY <1>3, <2>1
<1> QED
  BY <1>1, <1>2, <1>3, <1>4, <1>5, FeedEvent DEF Feed!Deliver, Feed!Of

(* What the feed sees of a reader whose state stays.                       *)
LEMMA ReaderSame ==
    ASSUME UNCHANGED <<sourceVars, readerVars>>
    PROVE  /\ UNCHANGED <<Feed!sourceState, Feed!cursor>>
           /\ UNCHANGED <<snapshot, slotExists, slotStart, confirmed, wal, table>>
           /\ NextUp' = NextUp /\ (InBackfill' <=> InBackfill)
<1>1. /\ UNCHANGED <<wal, table>>
      /\ UNCHANGED <<readerPC, slotExists, slotStart, confirmed, snapshot, txn>>
  BY DEF sourceVars, readerVars, slotVars, snapshotVars, streamVars
<1>2. UNCHANGED Feed!sourceState
  BY <1>1, SourceSame
<1> QED
  BY <1>1, <1>2 DEF Feed!cursor, InBackfill, Streaming, Reads, NextUp

(* A Publish at work delivers from the snapshot or the transaction.        *)
LEMMA PublishMaps ==
    ASSUME IInv, RInv, PublishStep, UNCHANGED sourceVars
    PROVE  \/ \E p \in Partitions : Feed!DeliverSeed(p) \/ Feed!DeliverNext(p)
           \/ UNCHANGED Feed!vars
<1> USE DEF IInv, RInv
<1>1. PICK p \in Partitions :
            BatchAcked(p) \/ AckLost(p) \/ SendTimesOut(p) \/ BatchGivenUp(p)
  BY DEF PublishStep, SinkStep
<1>2. UNCHANGED <<sourceVars, readerVars>>
  BY DEF PublishStep
<1>3. log \in Queues /\ unsent \in Queues
  BY DEF TypeOK, SinkTypeOK, Queues
<1>4. CASE BatchAcked(p) \/ AckLost(p)
  <2>1. unsent[p] # <<>> /\ log' = [log EXCEPT ![p] = @ \o Batch(p)]
    BY <1>4 DEF BatchAcked, AckLost, Store
  <2>2. Batch(p) \in Seq(Event) /\ Batch(p) # <<>>
    BY <1>3, <2>1, BatchTaken
  <2>3. UNCHANGED <<Feed!sourceState, Feed!cursor>>
    BY <1>2, ReaderSame
  <2>4. CASE readerPC = "copying"
    <3>1. \A i \in DOMAIN Batch(p) :
            Batch(p)[i] \in Reads(snapshot) /\ PartitionOf[Batch(p)[i].row] = p
      BY <1>3, <2>4, BatchTaken DEF NothingElseInv, Within
    <3>2. Feed!Deliver(p, Reads(snapshot))
      BY <1>3, <2>1, <2>2, <2>3, <3>1, DeliverMaps
    <3> QED
      BY <2>4, <3>2 DEF Feed!DeliverSeed, InBackfill
  <2>5. CASE readerPC = "committing"
    <3>1. \A i \in DOMAIN Batch(p) :
            Batch(p)[i] \in TxnEvents(txn) /\ PartitionOf[Batch(p)[i].row] = p
      BY <1>3, <2>5, BatchTaken DEF NothingElseInv, Within
    <3>2. Feed!Deliver(p, TxnEvents(txn))
      BY <1>3, <2>1, <2>2, <2>3, <3>1, DeliverMaps
    <3>3. /\ txn \in Nat /\ confirmed \in Nat /\ confirmed < txn /\ txn <= Len(wal)
          /\ slotExists /\ ~InBackfill /\ Streaming
      BY <2>5 DEF TypeOK, ReaderTypeOK, PositionInv, SlotInv, Streaming, InBackfill
    <3>4. txn \in 1..Len(wal) /\ DOMAIN History = 1..Len(wal) /\ History[txn] = TxnEvents(txn)
      BY <3>3, HistoryType DEF HistoryOK
    <3> QED
      BY <3>2, <3>3, <3>4 DEF Feed!DeliverNext, Feed!Following, History
  <2> QED
    BY <2>4, <2>5 DEF PublishStep
<1>5. CASE SendTimesOut(p) \/ BatchGivenUp(p)
  <2>1. log' = log
    BY <1>5 DEF SendTimesOut, BatchGivenUp
  <2> QED
    BY <1>2, <2>1, ReaderSame, Stutter
<1> QED
  BY <1>1, <1>4, <1>5

(* A request of long ago arrives.                                          *)
LEMMA LateMaps ==
    ASSUME IInv, RInv, LateStep, UNCHANGED <<sourceVars, readerVars>>
    PROVE  \E p \in Partitions : Feed!DeliverStray(p)
<1> USE DEF IInv, RInv
<1>1. PICK p \in Partitions : LateStored(p)
  BY DEF LateStep
<1>2. log \in Queues /\ late \in Queues /\ late[p] \in Seq(Event)
  BY DEF TypeOK, SinkTypeOK, Queues
<1>3. late[p] # <<>> /\ log' = [log EXCEPT ![p] = @ \o late[p]]
  BY <1>1 DEF LateStored
<1>4. 1 \in DOMAIN late[p]
  BY <1>2, <1>3
<1>5. "lateStore" \in Faults /\ slotExists
  BY <1>4 DEF LateInv
<1> DEFINE evts == {log[p][i] : i \in DOMAIN log[p]} \cup Reads(snapshot)
                      \cup UNION {History[n] : n \in Feed!InTurn}
<1>6. ASSUME NEW i \in DOMAIN late[p]
      PROVE  late[p][i] \in evts /\ PartitionOf[late[p][i].row] = p
  <2> DEFINE evt == late[p][i]
  <2>1. InSeason(evt) /\ PartitionOf[evt.row] = p
    BY DEF LateInv
  <2>2. CASE InTopic(evt)
    BY <2>1, <2>2 DEF InTopic, Holds
  <2>3. CASE evt \in Reads(snapshot)
    BY <2>1, <2>3
  <2>4. CASE \E n \in DOMAIN wal :
            /\ slotStart < n /\ ~InBackfill
            /\ evt \in TxnEvents(n)
            /\ \A m \in (slotStart + 1)..(n - 1) : TxnInTopic(m)
    <3>1. PICK n \in DOMAIN wal :
            /\ slotStart < n /\ ~InBackfill
            /\ evt \in TxnEvents(n)
            /\ \A m \in (slotStart + 1)..(n - 1) : TxnInTopic(m)
      BY <2>4
    <3>2. HistoryOK
      BY HistoryType
    <3>3. n \in DOMAIN History /\ History[n] = TxnEvents(n) /\ n \in Nat /\ n <= Len(wal)
      BY <3>1, <3>2 DEF HistoryOK
    <3>4. ASSUME NEW m \in (slotStart + 1)..(n - 1) PROVE Feed!AllInLog(History[m])
      <4>1. m \in 1..Len(wal)
        BY <3>2, <3>3 DEF HistoryOK, TypeOK, ReaderTypeOK
      <4>2. History[m] = TxnEvents(m)
        BY <3>2, <4>1 DEF HistoryOK
      <4> QED
        BY <3>1, <4>2, InLogLemma
    <3>5. n \in Feed!InTurn
      BY <3>1, <3>3, <3>4 DEF Feed!InTurn, History
    <3> QED
      BY <2>1, <3>1, <3>3, <3>5
  <2> QED
    BY <2>1, <2>2, <2>3, <2>4 DEF InSeason
<1>7. Feed!Deliver(p, evts)
  <2>1. UNCHANGED <<Feed!sourceState, Feed!cursor>>
    BY ReaderSame
  <2> HIDE DEF evts
  <2> QED
    BY <1>2, <1>3, <1>6, <2>1, DeliverMaps
<1> QED
  BY <1>5, <1>7 DEF Feed!DeliverStray, History

(* The rest of what the reader does is its own affair.                     *)
LEMMA OwnAffair ==
    ASSUME IInv, UNCHANGED sourceVars,
           \/ FindSlot \/ CopyChunk \/ ChunkPublished
           \/ HandleBegin \/ HandleRelation \/ HandleInsert \/ HandleUpdate
           \/ HandleDelete \/ HandleTruncate \/ HandleCommit
    PROVE  UNCHANGED Feed!vars
<1>1. UNCHANGED <<wal, table>>
  BY DEF sourceVars
<1>2. UNCHANGED <<log, slotExists, slotStart, confirmed>> /\ UNCHANGED snapshot
  BY DEF FindSlot, CopyChunk, ChunkPublished, HandleBegin, HandleRelation, HandleInsert,
         HandleUpdate, HandleDelete, HandleTruncate, HandleRow, HandleCommit, slotVars,
         snapshotVars, sinkVars
<1>3. NextUp' = NextUp /\ (InBackfill' <=> InBackfill)
  BY DEF FindSlot, CopyChunk, ChunkPublished, HandleBegin, HandleRelation, HandleInsert,
         HandleUpdate, HandleDelete, HandleTruncate, HandleRow, HandleCommit, AtCommit, AtChange,
         AtMessage, slotVars, streamVars, NextUp, Streaming, InBackfill
<1> QED
  BY <1>1, <1>2, <1>3, Stutter

(* Each step of the capture half is a step of the feed, or none.           *)
LEMMA StepMaps ==
    ASSUME "backfillCrash" \notin Faults, IInv, RInv, [Next]_vars
    PROVE  [Feed!Next]_(Feed!vars)
<1>1. CASE SourceStep /\ UNCHANGED <<sinkVars, readerVars, faults>>
  BY <1>1, SourceMaps DEF Feed!Next
<1>2. CASE LateStep /\ UNCHANGED <<sourceVars, readerVars>>
  BY <1>2, LateMaps DEF Feed!Next
<1>3. CASE PublishStep /\ UNCHANGED sourceVars
  BY <1>3, PublishMaps DEF Feed!Next
<1>4. CASE (PublishError \/ ReaderCrash \/ SourceRestart) /\ UNCHANGED sourceVars
  BY <1>4, FallBackMaps DEF Feed!Next
<1>5. CASE sendStandbyUpdate /\ UNCHANGED sourceVars
  BY <1>5, AcknowledgeMaps DEF Feed!Next
<1>6. CASE (HandleEmptyCommit \/ HandleKeepalive \/ TxnPublished) /\ UNCHANGED sourceVars
  BY <1>6, AdvanceMaps DEF Feed!Next
<1>7. CASE CreateSlot /\ UNCHANGED sourceVars
  BY <1>7, OpenMaps DEF Feed!Next
<1>8. CASE StartReplication /\ UNCHANGED sourceVars
  BY <1>8, StartMaps DEF Feed!Next
<1>9. CASE /\ \/ FindSlot \/ CopyChunk \/ ChunkPublished
              \/ HandleBegin \/ HandleRelation \/ HandleInsert \/ HandleUpdate
              \/ HandleDelete \/ HandleTruncate \/ HandleCommit
           /\ UNCHANGED sourceVars
  BY <1>9, OwnAffair
<1>10. CASE UNCHANGED vars
  <2>1. UNCHANGED <<sourceVars, readerVars>> /\ log' = log
    BY <1>10 DEF vars, sinkVars
  <2> QED
    BY <2>1, ReaderSame, Stutter
<1> QED
  BY <1>1, <1>2, <1>3, <1>4, <1>5, <1>6, <1>7, <1>8, <1>9, <1>10
  DEF Next, CaptureStep, ReaderStep, ReaderProgress, New, StreamStep

-----------------------------------------------------------------------------
(* The theorems.                                                           *)

(* Rows on their way from the snapshot to the topic are accounted for,     *)
(* also where a reader may die in the backfill: the next one finds the     *)
(* slot and copies nothing.                                                *)
LEMMA CopyInvariance == Spec => [](SnapshotInv /\ CopiedInv)
<1>1. Init => SnapshotInv /\ CopiedInv
  BY RInit DEF RInv
<1>2. IInv /\ (SnapshotInv /\ CopiedInv) /\ [Next]_vars => (SnapshotInv /\ CopiedInv)'
  BY SnapshotNext, CopiedNext
<1> QED
  BY <1>1, <1>2, Invariance, PTL DEF Spec

(* The strengthened invariant holds, unless a death in the backfill is     *)
(* possible.                                                               *)
THEOREM RInvariance == "backfillCrash" \notin Faults => (Spec => []RInv)
<1> SUFFICES ASSUME "backfillCrash" \notin Faults PROVE Spec => []RInv
  OBVIOUS
<1>1. Init => RInv
  BY RInit
<1>2. IInv /\ RInv /\ [Next]_vars => RInv'
  BY RNext
<1> QED
  BY <1>1, <1>2, Invariance, PTL DEF Spec

(* The reader implements the abstract feed: the snapshot first and whole,  *)
(* then transactions in order, each whole before the next begins and       *)
(* before Postgres is told of it, with a fall back to the acknowledged     *)
(* position after every failure.                                           *)
THEOREM Refinement == "backfillCrash" \notin Faults => (Spec => ImplementsFeed)
<1> SUFFICES ASSUME "backfillCrash" \notin Faults PROVE Spec => ImplementsFeed
  OBVIOUS
<1>1. Init => Feed!Init
  BY InitMaps
<1>2. IInv /\ RInv /\ [Next]_vars => [Feed!Next]_(Feed!vars)
  BY StepMaps
<1> QED
  BY <1>1, <1>2, Invariance, RInvariance, PTL DEF Spec, ImplementsFeed, Feed!Spec

(* The stream of a fresh slot begins only when every row of the snapshot   *)
(* is in the topic (reader.go:60-69).                                      *)
THEOREM BackfillFirst == Spec => BackfillBeforeStream
<1>1. ASSUME CopiedInv, [Next]_vars, readerPC = "backfill", readerPC' = "stream"
      PROVE  \A r \in Rows : snapshot[r] # Absent => InTopic(rowToEvent(r, snapshot[r]))
  <2>1. BackfillDone
    BY <1>1
    DEF Next, CaptureStep, ReaderStep, ReaderProgress, StreamStep, New, CreateSlot, FindSlot,
        StartReplication, CopyChunk, ChunkPublished, HandleBegin, HandleRelation, HandleInsert,
        HandleUpdate, HandleDelete, HandleTruncate, HandleRow, HandleCommit, HandleEmptyCommit,
        HandleKeepalive,
        AtCommit, AtChange, AtMessage, TxnPublished, sendStandbyUpdate, PublishStep, PublishError,
        ReaderCrash, SourceRestart, Exit, readerVars, vars
  <2> QED
    BY <1>1, <2>1, WholeSnapshot DEF Reads
<1>2. CopiedInv /\ [Next]_vars =>
        [(readerPC = "backfill" /\ readerPC' = "stream") =>
            \A r \in Rows : snapshot[r] # Absent => InTopic(rowToEvent(r, snapshot[r]))]_vars
  BY <1>1
<1> QED
  BY <1>2, CopyInvariance, PTL DEF Spec, BackfillBeforeStream

-----------------------------------------------------------------------------
(* What AtLeastOnceProofs proves of the feed holds of the reader.          *)

FeedP == INSTANCE AtLeastOnceProofs WITH
    Strays  <- "lateStore" \in Faults,
    history <- [n \in 1..Len(wal) |-> TxnEvents(n)],
    present <- Reads(table),
    open    <- slotExists,
    start   <- slotStart,
    acked   <- confirmed,
    next    <- IF Streaming THEN txn ELSE confirmed + 1,
    seeding <- InBackfill,
    seed    <- Reads(snapshot)

(* The feed's assumptions are those of the reader.                         *)
LEMMA FeedShape == FeedP!ShapeAssumption
BY ShapeAssumption DEF FeedP!ShapeAssumption, FeedP!IsFiniteSet, IsFiniteSet

(* So are those about the sentinels.                                       *)
LEMMA FeedSentinel == FeedP!SentinelAssumption
BY SentinelAssumption DEF FeedP!SentinelAssumption

(* It is the same feed.                                                    *)
LEMMA SameInit == Feed!Init => FeedP!Init
BY DEF Feed!Init, FeedP!Init, Feed!SnapshotReads, FeedP!SnapshotReads, Feed!Event, FeedP!Event,
       Feed!Ops, FeedP!Ops

(* With the same steps.                                                    *)
LEMMA SameNext == [Feed!Next]_(Feed!vars) => [FeedP!Next]_(FeedP!vars)
<1>1. /\ Feed!Event = FeedP!Event
      /\ (Feed!vars' = Feed!vars) => (FeedP!vars' = FeedP!vars)
      /\ (Feed!cursor' = Feed!cursor) => (FeedP!cursor' = FeedP!cursor)
      /\ (Feed!sourceState' = Feed!sourceState) => (FeedP!sourceState' = FeedP!sourceState)
  BY DEF Feed!Event, FeedP!Event, Feed!Ops, FeedP!Ops, Feed!vars, FeedP!vars, Feed!cursor,
         FeedP!cursor, Feed!sourceState, FeedP!sourceState
<1>2. \A evts : Feed!AllInLog(evts) <=> FeedP!AllInLog(evts)
  BY DEF Feed!AllInLog, FeedP!AllInLog, Feed!InLog, FeedP!InLog
<1>3. \A evts : Feed!SnapshotReads(evts) <=> FeedP!SnapshotReads(evts)
  BY <1>1 DEF Feed!SnapshotReads, FeedP!SnapshotReads
<1>4. \A p, evts : Feed!Deliver(p, evts) => FeedP!Deliver(p, evts)
  BY <1>1 DEF Feed!Deliver, FeedP!Deliver, Feed!Of, FeedP!Of
<1>5. Feed!InTurn = FeedP!InTurn
  BY <1>2 DEF Feed!InTurn, FeedP!InTurn
<1>6. Feed!Following <=> FeedP!Following
  BY DEF Feed!Following, FeedP!Following
<1>7. /\ Feed!Commit => FeedP!Commit
      /\ Feed!Open => FeedP!Open
      /\ Feed!Seeded => FeedP!Seeded
      /\ Feed!Advance => FeedP!Advance
      /\ Feed!Acknowledge => FeedP!Acknowledge
      /\ Feed!FallBack => FeedP!FallBack
  BY <1>1, <1>2, <1>3, <1>6
  DEF Feed!Commit, FeedP!Commit, Feed!Open, FeedP!Open, Feed!Seeded, FeedP!Seeded, Feed!Advance,
      FeedP!Advance, Feed!Acknowledge, FeedP!Acknowledge, Feed!FallBack, FeedP!FallBack
<1>8. ASSUME Feed!Next PROVE FeedP!Next
  <2>1. CASE \E p \in Partitions :
                Feed!DeliverSeed(p) \/ Feed!DeliverNext(p) \/ Feed!DeliverStray(p)
    <3>1. PICK p \in Partitions :
                Feed!DeliverSeed(p) \/ Feed!DeliverNext(p) \/ Feed!DeliverStray(p)
      BY <2>1
    <3>2. FeedP!DeliverSeed(p) \/ FeedP!DeliverNext(p) \/ FeedP!DeliverStray(p)
      BY <1>4, <1>5, <1>6, <3>1
      DEF Feed!DeliverSeed, FeedP!DeliverSeed, Feed!DeliverNext, FeedP!DeliverNext,
          Feed!DeliverStray, FeedP!DeliverStray
    <3> QED
      BY <3>2 DEF FeedP!Next
  <2> QED
    BY <1>7, <1>8, <2>1 DEF Feed!Next, FeedP!Next
<1>9. UNCHANGED Feed!vars => UNCHANGED FeedP!vars
  BY <1>1
<1> QED
  BY <1>8, <1>9

(* A row's history is in the topic in order, up to repeats of what a       *)
(* consumer has already seen (event.go:40-41).                             *)
THEOREM InOrder == "backfillCrash" \notin Faults => (Spec => []PublishedInOrder)
<1> SUFFICES ASSUME "backfillCrash" \notin Faults PROVE Spec => []PublishedInOrder
  OBVIOUS
<1>1. Spec => Feed!Spec
  BY Refinement DEF ImplementsFeed
<1>2. Feed!Spec => FeedP!Spec
  BY SameInit, SameNext, PTL DEF Feed!Spec, FeedP!Spec
<1>3. FeedP!Spec => []FeedP!InOrder
  BY FeedP!FeedInOrder, FeedShape, FeedSentinel
<1>4. FeedP!InOrder => PublishedInOrder
  BY DEF FeedP!InOrder, PublishedInOrder
<1> QED
  BY <1>1, <1>2, <1>3, <1>4, PTL

=============================================================================
