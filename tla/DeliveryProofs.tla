--------------------------- MODULE DeliveryProofs ---------------------------
(***************************************************************************)
(* The delivery half, for all constants: the types of its variables, the   *)
(* group's offsets, what is in the buffer, what the topic tells of each    *)
(* row, and what a kill leaves to be delivered again. The last three hold  *)
(* of one row at a time: a row's events are in one partition and one       *)
(* table, and no other row's events touch it.                              *)
(***************************************************************************)
EXTENDS Delivery, WriterProofs

-----------------------------------------------------------------------------

(* A new writer starts with an empty buffer at the committed offsets.      *)
LEMMA InvInit == Init => IInv
BY DEF Init, WriterInit, NoMessage, Offsets, IInv, TakenInv

(* Every step of Next but a rebalance keeps the invariant.                 *)
LEMMA InvNext ==
    ASSUME ~Rebalance, IInv, [Next]_vars
    PROVE  IInv'
<1>1. CASE UNCHANGED vars
  BY <1>1, OffsetsRest DEF vars
<1>2. CASE Feed
  BY <1>2, OffsetsRest DEF Feed
<1>3. CASE WriterStep
  BY <1>3, OffsetsStep
<1> QED
  BY <1>1, <1>2, <1>3 DEF Next

(* Nor does it move an offset back.                                        *)
LEMMA StepForward ==
    ASSUME ~Rebalance, IInv, [Next]_vars
    PROVE  [\A p \in Partitions : committed'[p] >= committed[p]]_vars
<1>1. CASE UNCHANGED vars
  BY <1>1
<1>2. CASE CommitOffsets
  BY <1>2 DEF CommitOffsets, IInv, TakenInv, Offsets
<1>3. CASE UNCHANGED committed
  BY <1>3 DEF IInv, Offsets
<1>4. Next => CommitOffsets \/ UNCHANGED committed
  BY DEF Next, Feed, WriterStep, WriterProgress, WriterStart, Fetch, FlushTable,
              FlushInterval, WriterCrash, writerVars
<1> QED
  BY <1>1, <1>2, <1>3, <1>4

(* A flush cut by size, by age or by a kill never commits an offset before *)
(* the group's own (buffer.go:34-36, 50-62 and writer.go:114-116), unless  *)
(* a rebalance hands messages out a second time.                           *)
THEOREM NeverRewinds ==
    ASSUME "rebalance" \notin Faults
    PROVE  Spec => OffsetsNeverRewind
<1>1. Init => IInv
  BY InvInit
<1>2. IInv /\ [Next]_vars => IInv'
  BY LeftInPeace, InvNext
<1>3. IInv /\ [Next]_vars => [\A p \in Partitions : committed'[p] >= committed[p]]_vars
  BY LeftInPeace, StepForward
<1> QED
  BY <1>1, <1>2, <1>3, PTL DEF Spec, OffsetsNeverRewind

-----------------------------------------------------------------------------
(* Types.                                                                  *)

\* Nothing is being published.
Quiet == unsent = NoEvents /\ failed = FALSE /\ late = NoEvents

Types == SourceTypeOK /\ WriterTypes /\ Quiet /\ FaultsTypeOK

(* These are more than the types of Delivery.                              *)
LEMMA TypesEnough == Types => TypeOK
<1> SUFFICES ASSUME Types PROVE TypeOK
  OBVIOUS
<1>1. Seq(Built) \subseteq Seq(Event)
  BY SeqMonotonic DEF Built
<1>2. NoEvents \in [Partitions -> Seq(Event)]
  BY EmptySeq DEF NoEvents
<1>3. SinkTypeOK
  <2>1. log \in [Partitions -> Seq(Event)]
    BY <1>1 DEF Types, WriterTypes, LogOK
  <2>2. unsent \in [Partitions -> Seq(Event)] /\ late \in [Partitions -> Seq(Event)]
    BY <1>2 DEF Types, Quiet
  <2>3. failed \in BOOLEAN
    BY Zenon DEF Types, Quiet
  <2> QED
    BY <2>1, <2>2, <2>3 DEF SinkTypeOK
<1>4. WriterTypeOK
  BY <1>1 DEF Types, WriterTypes, BufferOK, PositionsOK, WriterOK, WriterTypeOK, Offsets
<1> QED
  BY <1>3, <1>4 DEF Types, TypeOK

(* What a step of the source feeds to a partition is about its rows.       *)
LEMMA FedType ==
    ASSUME SourceTypeOK, NEW txn, Committed(txn)
    PROVE  /\ EventsOfTxns(<<txn>>) \in Seq(Built)
           /\ \A p \in Partitions : EventsAt(<<txn>>, p) \in Seq(ForRows(At(p)))
<1>0. version + 1 \in Nat /\ version + 2 \in Nat /\ table \in Contents
  BY DEF SourceTypeOK
<1>1. EventsOfTxns(<<txn>>) \in Seq(Built)
  <2>1. ASSUME NEW ch \in Changes(table, version + 1), txn = <<ch>>
        PROVE  EventsOfTxns(<<txn>>) \in Seq(Built)
    <3>1. ch \in Change
      BY <1>0, ChangesType
    <3> QED
      BY <2>1, <3>1, EventsOfOne, EventsOfType
  <2>2. ASSUME NEW first \in Changes(table, version + 1),
               NEW second \in Changes(Effect(table, first), version + 2), txn = <<first, second>>
        PROVE  EventsOfTxns(<<txn>>) \in Seq(Built)
    <3>1. first \in Change /\ Effect(table, first) \in Contents
      BY <1>0, ChangesType, EffectType
    <3>2. second \in Change
      BY <1>0, <3>1, ChangesType
    <3>3. EventsOf(first) \o EventsOf(second) \in Seq(Built)
      BY <3>1, <3>2, EventsOfType, ConcatProperties
    <3> QED
      BY <2>2, <3>1, <3>2, <3>3, EventsOfPair
  <2>3. ASSUME txn = <<>>
        PROVE  EventsOfTxns(<<txn>>) \in Seq(Built)
    BY <2>3, EventsOfNone, EmptySeq
  <2> QED
    BY <2>1, <2>2, <2>3 DEF Committed
<1>2. \A p \in Partitions : EventsAt(<<txn>>, p) \in Seq(ForRows(At(p)))
  BY <1>1, OfRowsWithin DEF EventsAt, At
<1> QED
  BY <1>1, <1>2

\* The rows that a partition is seeded with.
SeededAt(p) == {r \in Rows : table[r] # Absent /\ PartitionOf[r] = p}

SeedOK(p) ==
    /\ SeedEvents(p) \in Seq(ForRows(At(p)))
    /\ \A r \in Rows : OfRow(SeedEvents(p), r)
            = IF r \in SeededAt(p) THEN <<rowToEvent(r, table[r])>> ELSE <<>>

(* The seed has one snapshot read for each of them.                        *)
LEMMA SeedLemma ==
    ASSUME table \in Contents, NEW p \in Partitions
    PROVE  SeedOK(p)
<1> DEFINE seeded == SetToSeq(SeededAt(p))
           s == SeedEvents(p)
<1>1. Lists(seeded, SeededAt(p))
  <2>1. IsFiniteSet(SeededAt(p))
    BY ShapeAssumption, FS_Subset DEF SeededAt
  <2> QED
    BY <2>1, SetToSeqLists
<1>2. s = [i \in DOMAIN seeded |-> rowToEvent(seeded[i], table[seeded[i]])]
  BY DEF SeedEvents, SeededAt
<1> HIDE DEF seeded, s
<1>3. Len(seeded) \in Nat /\ DOMAIN seeded = 1..Len(seeded) /\ \A i \in 1..Len(seeded) : seeded[i] \in SeededAt(p)
  BY <1>1, LenProperties, ElementOfSeq DEF Lists
<1>4. \A r \in SeededAt(p) : rowToEvent(r, table[r]) \in ForRows(At(p)) /\ rowToEvent(r, table[r]).row = r
  <2> SUFFICES ASSUME NEW r \in SeededAt(p)
               PROVE  rowToEvent(r, table[r]) \in ForRows(At(p)) /\ rowToEvent(r, table[r]).row = r
    OBVIOUS
  <2>1. r \in Rows /\ r \in At(p) /\ table[r] \in Image
    BY DEF SeededAt, At, Contents
  <2>2. WellFormed(rowToEvent(r, table[r])) /\ rowToEvent(r, table[r]).row = r
    BY <2>1, DecoderWellFormed DEF rowToEvent
  <2> QED
    BY <2>1, <2>2 DEF ForRows, Built, WellFormed
<1>5. s \in Seq(ForRows(At(p))) /\ Len(s) = Len(seeded)
  BY <1>2, <1>3, <1>4
<1>6. \A i \in 1..Len(s) : s[i] = rowToEvent(seeded[i], table[seeded[i]]) /\ s[i].row = seeded[i]
  BY <1>2, <1>3, <1>4, <1>5
<1>7. s \in Seq(Built)
  BY <1>5, SeqMonotonic DEF ForRows
<1>8. ASSUME NEW r \in SeededAt(p)
      PROVE  OfRow(s, r) = <<rowToEvent(r, table[r])>>
  <2>1. PICK k \in 1..Len(s) : seeded[k] = r
    BY <1>1, <1>5 DEF Lists
  <2>2. Single(s, k, r)
    BY <1>1, <1>5, <1>6, <2>1 DEF Single, Lists
  <2>3. s[k] = rowToEvent(r, table[r])
    BY <1>6, <2>1
  <2> QED
    BY <1>7, <2>2, <2>3, OfRowSingle
<1>9. ASSUME NEW r \in Rows, r \notin SeededAt(p)
      PROVE  OfRow(s, r) = <<>>
  <2>1. \A i \in 1..Len(s) : s[i] \in ForRows(SeededAt(p))
    BY <1>3, <1>4, <1>5, <1>6 DEF ForRows
  <2>2. s \in Seq(ForRows(SeededAt(p)))
    BY <1>5, <2>1
  <2> QED
    BY <1>9, <2>2, NoneOfRow
<1>10. SeedOK(p)
  BY <1>5, <1>8, <1>9 DEF SeedOK, s
<1> QED
  BY <1>10

(* The initial states are well-formed, seeded rows included.               *)
LEMMA TypesInit == Init => Types
<1> SUFFICES ASSUME Init PROVE Types
  OBVIOUS
<1>1. SourceTypeOK
  <2>1. Written(1) \in Image
    BY DEF Written, Image
  <2> QED
    BY <2>1 DEF Init, SourceInit, SourceTypeOK, Contents
<1>2. LogOK
  <2>1. \A p \in Partitions : SeedEvents(p) \in Seq(ForRows(At(p)))
    BY <1>1, SeedLemma DEF SourceTypeOK, SeedOK
  <2>2. \A p \in Partitions : SeedEvents(p) \in Seq(Built)
    BY <2>1, SeqMonotonic DEF ForRows
  <2> QED
    BY <2>1, <2>2 DEF Init, LogOK
<1>3. Quiet
  <2>1. unsent = NoEvents /\ late = NoEvents
    BY DEF Init
  <2>2. failed = FALSE
    BY Zenon DEF Init
  <2> QED
    BY <2>1, <2>2 DEF Quiet
<1>4. BufferOK
  BY EmptySeq DEF Init, WriterInit, EmptyBuffer, BufferOK
<1>5. PositionsOK
  <2>1. \A p \in Partitions : Len(log[p]) \in Nat
    BY <1>2, LenProperties DEF LogOK
  <2> QED
    BY <2>1 DEF Init, WriterInit, NoMessage, PositionsOK, Offsets
<1>6. WriterOK
  BY DEF Init, WriterInit, WriterOK, WriterPCs, Contents
<1>7. FaultsTypeOK
  BY FaultsAssumption DEF Init, FaultsInit, FaultsTypeOK
<1> QED
  BY <1>1, <1>2, <1>3, <1>4, <1>5, <1>6, <1>7 DEF Types, WriterTypes

\* What Feed appends to a partition.
Fed(p) == EventsAt(<<wal'[Len(wal')]>>, p)

(* Feeding the topic.                                                      *)
LEMMA FeedLemma ==
    ASSUME Types, Feed
    PROVE  /\ SourceTypeOK' /\ Committed(wal'[Len(wal')])
           /\ \A p \in Partitions :
                /\ Fed(p) \in Seq(ForRows(At(p))) /\ Fed(p) \in Seq(Built)
                /\ log'[p] = log[p] \o Fed(p)
                /\ log'[p] \in Seq(ForRows(At(p))) /\ log'[p] \in Seq(Built)
                /\ Len(log[p]) \in Nat /\ Len(log'[p]) >= Len(log[p])
<1>1. SourceTypeOK' /\ Committed(wal'[Len(wal')])
  BY LastCommitted DEF Feed, Types
<1>2. ASSUME NEW p \in Partitions
      PROVE  /\ Fed(p) \in Seq(ForRows(At(p))) /\ Fed(p) \in Seq(Built)
             /\ log'[p] = log[p] \o Fed(p)
             /\ log'[p] \in Seq(ForRows(At(p))) /\ log'[p] \in Seq(Built)
             /\ Len(log[p]) \in Nat /\ Len(log'[p]) >= Len(log[p])
  <2>1. Fed(p) \in Seq(ForRows(At(p)))
    BY <1>1, FedType DEF Types, Fed
  <2>2. log'[p] = log[p] \o Fed(p) /\ log[p] \in Seq(ForRows(At(p)))
    BY DEF Feed, Fed, Types, WriterTypes, LogOK
  <2>3. log'[p] \in Seq(ForRows(At(p))) /\ Len(log'[p]) = Len(log[p]) + Len(Fed(p))
    BY <2>1, <2>2, ConcatProperties
  <2>4. Len(log[p]) \in Nat /\ Len(Fed(p)) \in Nat
    BY <2>1, <2>2, LenProperties
  <2>5. ForRows(At(p)) \subseteq Built
    BY DEF ForRows
  <2> QED
    BY <2>1, <2>2, <2>3, <2>4, <2>5, SeqMonotonic
<1> QED
  BY <1>1, <1>2

(* Every step, of whatever kind, leaves them well-formed.                  *)
LEMMA TypesNext ==
    ASSUME Types, [Next]_vars
    PROVE  Types'
<1>1. CASE UNCHANGED vars
  <2>1. WriterTypes'
    BY <1>1 DEF vars, sinkVars, writerVars, bufferVars, destVars, Types, WriterTypes,
                LogOK, BufferOK, PositionsOK, WriterOK
  <2> QED
    BY <1>1, <2>1 DEF vars, sourceVars, sinkVars, Types, SourceTypeOK, Quiet, NoEvents, FaultsTypeOK
<1>2. CASE Feed
  <2>1. UNCHANGED <<unsent, failed, late, writerVars, faults>>
    BY <1>2 DEF Feed
  <2>2. \A p \in Partitions :
            log'[p] \in Seq(ForRows(At(p))) /\ log'[p] \in Seq(Built) /\ Len(log'[p]) >= Len(log[p])
    BY <1>2, FeedLemma
  <2>3. LogOK'
    BY <1>2, <2>2 DEF Feed, LogOK
  <2>4. WriterTypes'
    BY <2>1, <2>2, <2>3, WriterTypesGrow DEF Types
  <2>5. SourceTypeOK'
    BY <1>2, FeedLemma
  <2> QED
    BY <2>1, <2>4, <2>5 DEF Types, Quiet, NoEvents, FaultsTypeOK
<1>3. CASE UNCHANGED <<sourceVars, sinkVars>> /\ WriterStep
  <2>1. SourceTypeOK' /\ Quiet' /\ log' = log
    BY <1>3 DEF Types, SourceTypeOK, Quiet, NoEvents, sourceVars, sinkVars
  <2>2. WriterTypes' /\ FaultsTypeOK'
    BY <1>3, <2>1, WriterTypesStep, WriterFaults DEF Types
  <2> QED
    BY <2>1, <2>2 DEF Types
<1> QED
  BY <1>1, <1>2, <1>3 DEF Next

(* Every variable keeps its type, whatever faults strike and whatever the  *)
(* application does.                                                       *)
THEOREM TypeCorrect == Spec => []TypeOK
<1>1. Types /\ [Next]_vars => Types'
  BY TypesNext
<1> QED
  BY TypesInit, TypesEnough, <1>1, PTL DEF Spec

-----------------------------------------------------------------------------
(* The buffer.                                                             *)

(* Feeding the topic adds to what is owed, not to what is taken.           *)
LEMMA FeedTaken ==
    ASSUME Types, IInv, Feed, NEW p \in Partitions
    PROVE  Taken(p)' = Taken(p) /\ Owed(p)' = Owed(p) \o Fed(p)
<1>1. log'[p] = log[p] \o Fed(p) /\ Fed(p) \in Seq(Built)
  BY FeedLemma
<1> HIDE DEF Fed
<1> QED
  BY <1>1, GrowTaken DEF Feed, Types

(* At first there is nothing in the buffer.                                *)
LEMMA BufferInit == Init => BufferInv
<1> SUFFICES ASSUME Init PROVE BufferInv
  OBVIOUS
<1>1. writerPC = "down" /\ perTable = EmptyBuffer
  BY DEF Init, WriterInit
<1> QED
  BY <1>1, ShapeAssumption DEF BufferInv, EmptyBuffer

(* Every step but a rebalance keeps the buffer what the commit would       *)
(* cover.                                                                  *)
LEMMA BufferNext ==
    ASSUME ~Rebalance, Types, IInv, BufferInv, [Next]_vars
    PROVE  BufferInv'
<1>1. CASE UNCHANGED vars
  <2>1. \A p \in Partitions : Taken(p)' = Taken(p)
    BY <1>1 DEF Taken, OffsetsTaken, vars, sinkVars, writerVars, bufferVars
  <2> QED
    BY <1>1, <2>1, ShapeAssumption DEF vars, writerVars, bufferVars, BufferInv
<1>2. CASE Feed
  <2>1. \A p \in Partitions : Taken(p)' = Taken(p)
    BY <1>2, FeedTaken
  <2> QED
    BY <1>2, <2>1, ShapeAssumption DEF Feed, writerVars, bufferVars, BufferInv
<1>3. CASE UNCHANGED <<sourceVars, sinkVars>> /\ WriterStep
  <2>1. log' = log
    BY <1>3 DEF sinkVars
  <2> QED
    BY <1>3, <2>1, BufferStep DEF Types
<1> QED
  BY <1>1, <1>2, <1>3 DEF Next

(* Types, offsets and buffer hold in every state.                          *)
LEMMA BufferHolds ==
    ASSUME "rebalance" \notin Faults
    PROVE  Spec => [](Types /\ IInv /\ BufferInv)
<1>1. Init => Types /\ IInv /\ BufferInv
  BY TypesInit, InvInit, BufferInit
<1>2. Types /\ IInv /\ BufferInv /\ [Next]_vars => (Types /\ IInv /\ BufferInv)'
  BY LeftInPeace, TypesNext, InvNext, BufferNext
<1> QED
  BY <1>1, <1>2, PTL DEF Spec

(* A flush applies exactly what its commit will cover: every message once, *)
(* each row's in log order (buffer.go:11-13), unless a rebalance hands     *)
(* messages out a second time.                                             *)
THEOREM BufferCovers ==
    ASSUME "rebalance" \notin Faults
    PROVE  Spec => []BufferIsUncommitted
<1>1. BufferInv => BufferIsUncommitted
  BY DEF BufferInv, BufferIsUncommitted, Taken
<1> QED
  BY <1>1, BufferHolds, PTL

-----------------------------------------------------------------------------
(* What a change's events do to a row.                                     *)

\* The history of a row that holds image: no partial update right after a
\* delete, and nothing deleted that is there.
Lives(h, image) ==
    /\ FullAfterDelete(h)
    /\ image # Absent => h # <<>> /\ h[Len(h)].op # "d"

(* An event that the row needs continues such a history.                   *)
LEMMA LivesOn ==
    ASSUME NEW h \in Seq(Built), NEW evt \in Built, NEW old, NEW new,
           Lives(h, old), Takes(evt, old, new)
    PROVE  Lives(Append(h, evt), new)
<1> DEFINE w == Append(h, evt)
<1>0. /\ Len(h) \in Nat /\ w # <<>> /\ Len(w) = Len(h) + 1
      /\ (\A i \in 1..Len(h) : w[i] = h[i]) /\ w[Len(h)+1] = evt
  BY LenProperties, AppendProperties
<1> HIDE DEF w
<1>1. ASSUME NEW i \in 1..Len(h), w[i].op = "d"
      PROVE  w[i+1].unchanged = {}
  <2>1. CASE i = Len(h)
    <3>1. h # <<>> /\ h[Len(h)].op = "d"
      BY <1>0, <1>1, <2>1, EmptySeq
    <3>2. evt.unchanged = {}
      BY <3>1 DEF Lives, Takes
    <3> QED
      BY <1>0, <2>1, <3>2
  <2>2. CASE i # Len(h)
    <3>1. i \in 1..(Len(h) - 1) /\ i + 1 \in 1..Len(h)
      BY <1>0, <2>2
    <3>2. h[i].op = "d" => h[i+1].unchanged = {}
      BY <3>1 DEF Lives, FullAfterDelete
    <3> QED
      BY <1>0, <1>1, <3>1, <3>2
  <2> QED
    BY <2>1, <2>2
<1>2. Len(w) - 1 = Len(h)
  BY <1>0
<1>3. FullAfterDelete(w)
  BY <1>1, <1>2 DEF FullAfterDelete
<1>4. new # Absent => w # <<>> /\ w[Len(w)].op # "d"
  BY <1>0 DEF Takes
<1>5. Lives(w, new)
  BY <1>3, <1>4 DEF Lives
<1> QED
  BY <1>5 DEF w

\* What a sequence of events adds to a row's history.
Continues(h, old, evts, r, new) == Lives(h, old) => Lives(h \o OfRow(evts, r), new)

(* So do the events of a change, and of a transaction.                     *)
LEMMA ChangeContinues ==
    ASSUME "rekeyTouch" \notin ChangeKinds,
           NEW tbl \in Contents, NEW v \in Nat, NEW ch \in Changes(tbl, v), NEW r \in Rows,
           NEW h \in Seq(Built)
    PROVE  Continues(h, tbl[r], EventsOf(ch), r, Effect(tbl, ch)[r])
<1>1. OneEvent(tbl, ch, r)
  BY ChangeOnRow
<1>2. CASE OfRow(EventsOf(ch), r) = <<>> /\ (Effect(tbl, ch)[r] # Absent => tbl[r] # Absent)
  BY <1>2, ConcatEmptySeq DEF Continues, Lives
<1>3. ASSUME NEW evt \in Built, OfRow(EventsOf(ch), r) = <<evt>>, Takes(evt, tbl[r], Effect(tbl, ch)[r])
      PROVE  Continues(h, tbl[r], EventsOf(ch), r, Effect(tbl, ch)[r])
  <2>1. h \o <<evt>> = Append(h, evt)
    OBVIOUS
  <2>2. Lives(h, tbl[r]) => Lives(Append(h, evt), Effect(tbl, ch)[r])
    BY <1>3, LivesOn
  <2> QED
    BY <1>3, <2>1, <2>2 DEF Continues
<1> QED
  BY <1>1, <1>2, <1>3 DEF OneEvent

(* So does a transaction of one change or two.                             *)
LEMMA CommitContinues ==
    ASSUME "rekeyTouch" \notin ChangeKinds,
           SourceTypeOK, NEW txn, Committed(txn), NEW r \in Rows, NEW h \in Seq(Built)
    PROVE  Continues(h, table[r], EventsOfTxns(<<txn>>), r, table'[r])
<1>0. version + 1 \in Nat /\ version + 2 \in Nat /\ table \in Contents
  BY DEF SourceTypeOK
<1>1. ASSUME NEW ch \in Changes(table, version + 1), txn = <<ch>>, table' = Effect(table, ch)
      PROVE  Continues(h, table[r], EventsOfTxns(<<txn>>), r, table'[r])
  <2>1. ch \in Change
    BY <1>0, ChangesType
  <2> QED
    BY <1>0, <1>1, <2>1, EventsOfOne, ChangeContinues
<1>2. ASSUME NEW first \in Changes(table, version + 1),
             NEW second \in Changes(Effect(table, first), version + 2),
             txn = <<first, second>>, table' = Effect(Effect(table, first), second)
      PROVE  Continues(h, table[r], EventsOfTxns(<<txn>>), r, table'[r])
  <2> DEFINE a == EventsOf(first)
             b == EventsOf(second)
             tbl == Effect(table, first)
  <2>1. first \in Change /\ tbl \in Contents
    BY <1>0, ChangesType, EffectType
  <2>2. second \in Change
    BY <1>0, <2>1, ChangesType
  <2>3. a \in Seq(Built) /\ b \in Seq(Built) /\ EventsOfTxns(<<txn>>) = a \o b
    BY <1>2, <2>1, <2>2, EventsOfType, EventsOfPair
  <2>4. Continues(h, table[r], a, r, tbl[r])
    BY <1>0, ChangeContinues
  <2>5. OfRow(a, r) \in Seq(Built) /\ OfRow(b, r) \in Seq(Built) /\ h \o OfRow(a, r) \in Seq(Built)
    BY <2>3, OfRowType, ConcatProperties
  <2>6. Continues(h \o OfRow(a, r), tbl[r], b, r, table'[r])
    BY <1>0, <1>2, <2>1, <2>5, ChangeContinues
  <2>7. Splits(a, b, r)
    BY <2>3, OfRowConcat
  <2>8. (h \o OfRow(a, r)) \o OfRow(b, r) = h \o (OfRow(a, r) \o OfRow(b, r))
    BY <2>5, ConcatAssociative
  <2> HIDE DEF a, b, tbl
  <2> QED
    BY <2>3, <2>4, <2>6, <2>7, <2>8 DEF Continues, Splits
<1>3. ASSUME txn = <<>>, table' = table
      PROVE  Continues(h, table[r], EventsOfTxns(<<txn>>), r, table'[r])
  <2>1. OfRow(EventsOfTxns(<<txn>>), r) = <<>> /\ h \o <<>> = h
    BY <1>3, EventsOfNone, OfRowType, ConcatEmptySeq
  <2> QED
    BY <1>3, <2>1 DEF Continues
<1> QED
  BY <1>1, <1>2, <1>3 DEF Committed

(* Without a truncate, the events of a change have its effect on the row.  *)
LEMMA ChangeEffect ==
    ASSUME "rekeyTouch" \notin ChangeKinds, "truncate" \notin ChangeKinds,
           NEW tbl \in Contents, NEW v \in Nat, NEW ch \in Changes(tbl, v), NEW r \in Rows
    PROVE  RowEffect(tbl[r], EventsOf(ch), r) = Effect(tbl, ch)[r]
<1>0. EventsOf(ch) \in Seq(Built) /\ tbl[r] \in Stored
  BY ChangesType, EventsOfType DEF Contents, Stored
<1>1. ch.kind # "truncate"
  BY SourceAssumption DEF Changes, Inserts, Updates, Rekeys, Deletes, Truncates
<1>2. OneEvent(tbl, ch, r) /\ RowEffect(tbl[r], OfRow(EventsOf(ch), r), r) = RowEffect(tbl[r], EventsOf(ch), r)
  BY <1>0, ChangeOnRow, OnlyItsEvents
<1>3. CASE OfRow(EventsOf(ch), r) = <<>> /\ Effect(tbl, ch)[r] = tbl[r]
  BY <1>0, <1>3, Untouched
<1>4. ASSUME NEW evt \in Built, OfRow(EventsOf(ch), r) = <<evt>>, evt.row = r,
             Takes(evt, tbl[r], Effect(tbl, ch)[r])
      PROVE  RowEffect(tbl[r], EventsOf(ch), r) = Effect(tbl, ch)[r]
  <2>1. <<evt>> = Append(<<>>, evt) /\ <<>> \in Seq(Built)
    BY EmptySeq
  <2>2. RowEffect(tbl[r], Append(<<>>, evt), r) = Stepped(RowEffect(tbl[r], <<>>, r), evt, r)
    BY <1>0, <2>1, RowEffectSteps
  <2>3. RowEffect(tbl[r], <<evt>>, r) = mergeRow(tbl[r], evt)
    BY <1>0, <1>4, <2>1, <2>2, RowEffectSteps DEF Stepped
  <2> QED
    BY <1>2, <1>4, <2>3 DEF Takes
<1> QED
  BY <1>1, <1>2, <1>3, <1>4 DEF OneEvent

(* And so have those of a transaction.                                     *)
LEMMA CommitEffect ==
    ASSUME "rekeyTouch" \notin ChangeKinds, "truncate" \notin ChangeKinds,
           SourceTypeOK, NEW txn, Committed(txn), NEW r \in Rows
    PROVE  RowEffect(table[r], EventsOfTxns(<<txn>>), r) = table'[r]
<1>0. version + 1 \in Nat /\ version + 2 \in Nat /\ table \in Contents
  BY DEF SourceTypeOK
<1>1. ASSUME NEW ch \in Changes(table, version + 1), txn = <<ch>>, table' = Effect(table, ch)
      PROVE  RowEffect(table[r], EventsOfTxns(<<txn>>), r) = table'[r]
  <2>1. ch \in Change
    BY <1>0, ChangesType
  <2> QED
    BY <1>0, <1>1, <2>1, EventsOfOne, ChangeEffect
<1>2. ASSUME NEW first \in Changes(table, version + 1),
             NEW second \in Changes(Effect(table, first), version + 2),
             txn = <<first, second>>, table' = Effect(Effect(table, first), second)
      PROVE  RowEffect(table[r], EventsOfTxns(<<txn>>), r) = table'[r]
  <2> DEFINE a == EventsOf(first)
             b == EventsOf(second)
             tbl == Effect(table, first)
  <2>1. first \in Change /\ tbl \in Contents /\ table[r] \in Stored
    BY <1>0, ChangesType, EffectType DEF Contents, Stored
  <2>2. second \in Change
    BY <1>0, <2>1, ChangesType
  <2>3. a \in Seq(Built) /\ b \in Seq(Built) /\ EventsOfTxns(<<txn>>) = a \o b
    BY <1>2, <2>1, <2>2, EventsOfType, EventsOfPair
  <2>4. RowEffect(table[r], a, r) = tbl[r]
    BY <1>0, ChangeEffect
  <2>5. RowEffect(tbl[r], b, r) = table'[r]
    BY <1>0, <1>2, <2>1, ChangeEffect
  <2>6. RowEffect(table[r], a \o b, r) = RowEffect(RowEffect(table[r], a, r), b, r)
    BY <2>1, <2>3, RowEffectConcat
  <2> QED
    BY <2>3, <2>4, <2>5, <2>6
<1>3. ASSUME txn = <<>>, table' = table
      PROVE  RowEffect(table[r], EventsOfTxns(<<txn>>), r) = table'[r]
  <2>1. table[r] \in Stored
    BY <1>0 DEF Contents, Stored
  <2> QED
    BY <1>3, <2>1, EventsOfNone, RowEffectSteps
<1> QED
  BY <1>1, <1>2, <1>3 DEF Committed

-----------------------------------------------------------------------------
(* What the topic tells of each row.                                       *)

\* All events of a row, in its partition of the topic.
History(r) == OfRow(log[PartitionOf[r]], r)

HistoryInv == \A r \in Rows : Lives(History(r), table[r])

(* A row finds in what is fed all its events of the transaction.           *)
LEMMA FedRow ==
    ASSUME Types, Feed, NEW r \in Rows
    PROVE  /\ OfRow(Fed(PartitionOf[r]), r) = OfRow(EventsOfTxns(<<wal'[Len(wal')]>>), r)
           /\ Fed(PartitionOf[r]) \in Seq(Built)
           /\ EventsOfTxns(<<wal'[Len(wal')]>>) \in Seq(Built)
           /\ log'[PartitionOf[r]] = log[PartitionOf[r]] \o Fed(PartitionOf[r])
<1>1. PartitionOf[r] \in Partitions /\ r \in At(PartitionOf[r])
  BY ShapeAssumption DEF At
<1>2. EventsOfTxns(<<wal'[Len(wal')]>>) \in Seq(Built)
  BY FeedLemma, FedType DEF Types
<1>3. Fed(PartitionOf[r]) = OfRows(EventsOfTxns(<<wal'[Len(wal')]>>), At(PartitionOf[r]))
  BY DEF Fed, EventsAt, At
<1> QED
  BY <1>1, <1>2, <1>3, OfRowOfRows, FeedLemma

(* A seeded row begins with its snapshot read.                             *)
LEMMA HistoryInit == Init => HistoryInv
<1> SUFFICES ASSUME Init, NEW r \in Rows PROVE Lives(History(r), table[r])
  BY DEF HistoryInv
<1> DEFINE p == PartitionOf[r]
<1>1. p \in Partitions /\ table \in Contents /\ log[p] = SeedEvents(p)
  BY TypesInit, ShapeAssumption DEF Types, SourceTypeOK, Init
<1>2. SeedOK(p)
  BY <1>1, SeedLemma
<1>3. CASE table[r] # Absent
  <2> DEFINE evt == rowToEvent(r, table[r])
  <2>1. History(r) = <<evt>>
    BY <1>1, <1>2, <1>3 DEF SeedOK, SeededAt, History
  <2>2. evt.op # "d"
    BY DEF rowToEvent
  <2> HIDE DEF evt
  <2>3. Len(<<evt>>) = 1 /\ <<evt>>[1] = evt /\ <<evt>> # <<>>
    OBVIOUS
  <2> QED
    BY <2>1, <2>2, <2>3 DEF Lives, FullAfterDelete
<1>4. CASE table[r] = Absent
  <2>1. History(r) = <<>>
    BY <1>1, <1>2, <1>4 DEF SeedOK, SeededAt, History
  <2> QED
    BY <1>4, <2>1 DEF Lives, FullAfterDelete
<1> QED
  BY <1>3, <1>4

(* Feeding the topic continues every history; nothing else changes one.    *)
LEMMA HistoryNext ==
    ASSUME "rekeyTouch" \notin ChangeKinds, Types, HistoryInv, [Next]_vars
    PROVE  HistoryInv'
<1>1. CASE UNCHANGED <<table, log>>
  BY <1>1 DEF HistoryInv, History
<1>2. CASE Feed
  <2> SUFFICES ASSUME NEW r \in Rows PROVE Lives(History(r)', table'[r])
    BY DEF HistoryInv
  <2> DEFINE p == PartitionOf[r]
             evts == EventsOfTxns(<<wal'[Len(wal')]>>)
  <2>1. p \in Partitions /\ log[p] \in Seq(Built) /\ History(r) \in Seq(Built)
    BY ShapeAssumption, OfRowType DEF Types, WriterTypes, LogOK, History
  <2>2. Continues(History(r), table[r], evts, r, table'[r])
    BY <1>2, <2>1, FeedLemma, CommitContinues DEF Types
  <2>3. OfRow(Fed(p), r) = OfRow(evts, r) /\ Fed(p) \in Seq(Built) /\ log'[p] = log[p] \o Fed(p)
    BY <1>2, FedRow
  <2>4. Splits(log[p], Fed(p), r)
    BY <2>1, <2>3, OfRowConcat
  <2> HIDE DEF evts
  <2>5. History(r)' = History(r) \o OfRow(evts, r)
    BY <2>3, <2>4 DEF Splits, History
  <2> QED
    BY <2>2, <2>5 DEF HistoryInv, Continues
<1> QED
  BY <1>1, <1>2 DEF Next, vars, sourceVars, sinkVars

(* No table's batch has a partial update right after a delete.             *)
LEMMA BatchFull ==
    ASSUME Types, IInv, BufferInv, HistoryInv, NEW t \in Tables
    PROVE  perTable[t] \in Seq(Built) /\ NoneResurrected(perTable[t])
<1>1. perTable[t] \in Seq(Built) /\ perTable[t] \in Seq(ForRows(OfTable(t)))
  BY DEF Types, WriterTypes, BufferOK
<1>2. FullAfterDelete(<<>>)
  BY DEF FullAfterDelete
<1>3. ASSUME NEW r \in Rows
      PROVE  FullAfterDelete(OfRow(perTable[t], r))
  <2>1. CASE TableOf[r] # t
    BY <1>1, <1>2, <2>1, NoneOfRow DEF OfTable
  <2>2. CASE perTable[t] = <<>>
    BY <1>2, <2>2, OfRowType
  <2>3. CASE TableOf[r] = t /\ perTable[t] # <<>>
    <3> DEFINE p == PartitionOf[r]
               m == committed[p] + 1
               n == OffsetsTaken[p]
    <3>1. p \in Partitions
      BY ShapeAssumption
    <3>2. OfRow(perTable[t], r) = OfRow(SubSeq(log[p], m, n), r)
      BY <2>3 DEF BufferInv, Taken
    <3>3. log[p] \in Seq(Built) /\ m \in 1..(Len(log[p]) + 1) /\ n \in (m-1)..Len(log[p])
      <4>1. /\ log[p] \in Seq(Built) /\ committed[p] \in Nat /\ Len(log[p]) \in Nat
            /\ OffsetsTaken[p] \in committed[p]..Len(log[p])
        BY <3>1, TakenType DEF Types
      <4> QED
        BY <4>1
    <3>4. FullAfterDelete(OfRow(log[p], r))
      BY DEF HistoryInv, Lives, History
    <3> HIDE DEF p, m, n
    <3> QED
      BY <3>2, <3>3, <3>4, StretchFull
  <2> QED
    BY <2>1, <2>2, <2>3
<1> QED
  BY <1>1, <1>3 DEF NoneResurrected

(* Collapsing a batch and merging what is left has the effect of merging   *)
(* its events one by one (flush.go:46-53), whatever was in the topic, was  *)
(* flushed or was lost in a kill before.  Not so after a rebalance, or for *)
(* a row whose new key came without its TOAST values.                      *)
THEOREM FoldIsLossless ==
    ASSUME "rebalance" \notin Faults, "rekeyTouch" \notin ChangeKinds
    PROVE  Spec => []FoldLosesNothing
<1>1. Types /\ HistoryInv /\ [Next]_vars => HistoryInv'
  BY HistoryNext
<1>2. Types /\ IInv /\ BufferInv /\ HistoryInv => FoldLosesNothing
  BY BatchFull, CollapsedBatch DEF Types, WriterTypes, WriterOK, FoldLosesNothing
<1> QED
  BY BufferHolds, HistoryInit, <1>1, <1>2, PTL DEF Spec

-----------------------------------------------------------------------------
(* The destination.                                                        *)

\* What is owed completes the destination; a table that is already flushed
\* has what the commit will cover.
DestInv ==
    \A r \in Rows :
        /\ RowEffect(dest[r], Owed(PartitionOf[r]), r) = table[r]
        /\ writerPC # "down" /\ perTable[TableOf[r]] = <<>> =>
            RowEffect(dest[r], Taken(PartitionOf[r]), r) = dest[r]

(* At first everything is owed: the snapshot reads give the seeded rows.   *)
LEMMA DestInit == Init => DestInv
<1> SUFFICES ASSUME Init, NEW r \in Rows
             PROVE  RowEffect(dest[r], Owed(PartitionOf[r]), r) = table[r]
  BY DEF DestInv, Init, WriterInit
<1> DEFINE p == PartitionOf[r]
<1>1. /\ p \in Partitions /\ table \in Contents /\ log[p] = SeedEvents(p) /\ log[p] \in Seq(Built)
      /\ dest[r] = Absent /\ committed[p] = 0
  BY TypesInit, ShapeAssumption DEF Types, SourceTypeOK, WriterTypes, LogOK, Init, WriterInit, NoMessage
<1>2. SeedOK(p)
  BY <1>1, SeedLemma
<1>3. Owed(p) = log[p]
  BY <1>1, SubSeqFull DEF Owed
<1>4. Absent \in Stored
  BY DEF Stored
<1>5. CASE table[r] # Absent
  <2> DEFINE evt == rowToEvent(r, table[r])
  <2>1. OfRow(log[p], r) = <<evt>>
    BY <1>1, <1>2, <1>5 DEF SeedOK, SeededAt
  <2>2. table[r] \in Image
    BY <1>1, <1>5 DEF Contents
  <2>3. WellFormed(evt) /\ evt.op = "r" /\ evt.row = r /\ evt.after = table[r]
    BY <2>2, DecoderWellFormed DEF rowToEvent
  <2>4. evt \in Built
    BY <2>3 DEF Built, WellFormed
  <2> HIDE DEF evt
  <2>5. mergeRow(Absent, evt) = table[r]
    <3>1. \A c \in Cols : evt.after[c] \in Nat /\ evt.after[c] # Missing
      BY <2>2, <2>3, SentinelAssumption DEF Image
    <3>2. Inserted(evt) = [c \in Cols |-> evt.after[c]]
      BY <3>1 DEF Inserted, columnValue
    <3>3. Inserted(evt) = table[r]
      BY <2>2, <2>3, <3>2 DEF Image
    <3> QED
      BY <2>3, <3>3 DEF mergeRow
  <2>6. <<evt>> = Append(<<>>, evt) /\ <<>> \in Seq(Built)
    BY EmptySeq
  <2>7. RowEffect(Absent, Append(<<>>, evt), r) = Stepped(RowEffect(Absent, <<>>, r), evt, r)
    BY <1>4, <2>4, <2>6, RowEffectSteps
  <2>8. RowEffect(Absent, <<evt>>, r) = table[r]
    BY <1>4, <2>3, <2>5, <2>6, <2>7, RowEffectSteps DEF Stepped
  <2>9. RowEffect(Absent, OfRow(log[p], r), r) = RowEffect(Absent, log[p], r)
    BY <1>1, <1>4, OnlyItsEvents
  <2> QED
    BY <1>1, <1>3, <2>1, <2>8, <2>9
<1>6. CASE table[r] = Absent
  <2>1. OfRow(log[p], r) = <<>>
    BY <1>1, <1>2, <1>6 DEF SeedOK, SeededAt
  <2> QED
    BY <1>1, <1>3, <1>4, <1>6, <2>1, Untouched
<1> QED
  BY <1>5, <1>6

(* Feeding the topic.                                                      *)
LEMMA FeedDest ==
    ASSUME "rekeyTouch" \notin ChangeKinds, "truncate" \notin ChangeKinds,
           Types, IInv, DestInv, Feed
    PROVE  DestInv'
<1>0. UNCHANGED <<writerPC, perTable, dest>>
  BY DEF Feed, writerVars, bufferVars, destVars
<1> SUFFICES ASSUME NEW r \in Rows
             PROVE  /\ RowEffect(dest[r], Owed(PartitionOf[r])', r) = table'[r]
                    /\ Taken(PartitionOf[r])' = Taken(PartitionOf[r])
  BY <1>0 DEF DestInv
<1> DEFINE p == PartitionOf[r]
           evts == EventsOfTxns(<<wal'[Len(wal')]>>)
<1>1. p \in Partitions /\ dest[r] \in Stored /\ table[r] \in Stored
  BY ShapeAssumption DEF Types, WriterTypes, WriterOK, SourceTypeOK, Contents, Stored
<1>2. Taken(p)' = Taken(p) /\ Owed(p)' = Owed(p) \o Fed(p) /\ Owed(p) \in Seq(Built)
  BY <1>1, FeedTaken, TakenType DEF Types
<1>3. OfRow(Fed(p), r) = OfRow(evts, r) /\ Fed(p) \in Seq(Built) /\ evts \in Seq(Built)
  BY FedRow
<1>4. RowEffect(table[r], evts, r) = table'[r]
  BY FeedLemma, CommitEffect DEF Types
<1> HIDE DEF evts
<1>5. RowEffect(table[r], Fed(p), r) = table'[r]
  BY <1>1, <1>3, <1>4, SameEvents
<1>6. RowEffect(dest[r], Owed(p), r) = table[r]
  BY DEF DestInv
<1>7. RowEffect(dest[r], Owed(p) \o Fed(p), r) = RowEffect(RowEffect(dest[r], Owed(p), r), Fed(p), r)
  BY <1>1, <1>2, <1>3, RowEffectConcat
<1> QED
  BY <1>2, <1>5, <1>6, <1>7

(* A table's transaction applies what the commit will cover, and what is   *)
(* owed still completes the destination: applying it twice is harmless.    *)
LEMMA FlushDest ==
    ASSUME Types, IInv, BufferInv, HistoryInv, DestInv, log' = log, table' = table,
           NEW t \in Tables, FlushTable(t)
    PROVE  DestInv'
<1>1. /\ perTable[t] # <<>> /\ writerPC = "flush" /\ writerPC' = "flush"
      /\ perTable' = [perTable EXCEPT ![t] = <<>>] /\ perTable \in [Tables -> Seq(Built)]
      /\ UNCHANGED <<newest, committed>>
  BY DEF FlushTable, Types, WriterTypes, BufferOK
<1>2. \A p \in Partitions : Taken(p)' = Taken(p) /\ Owed(p)' = Owed(p)
  BY <1>1 DEF Taken, Owed, OffsetsTaken
<1>3. perTable[t] \in Seq(Built) /\ dest \in Contents /\ dest' = ApplyAll(dest, perTable[t])
  BY BatchFull, CollapsedBatch DEF FlushTable, Types, WriterTypes, WriterOK
<1> SUFFICES ASSUME NEW r \in Rows
             PROVE  /\ RowEffect(dest'[r], Owed(PartitionOf[r])', r) = table'[r]
                    /\ writerPC' # "down" /\ perTable'[TableOf[r]] = <<>> =>
                        RowEffect(dest'[r], Taken(PartitionOf[r])', r) = dest'[r]
  BY DEF DestInv
<1> DEFINE p == PartitionOf[r]
<1>4. p \in Partitions /\ TableOf[r] \in Tables /\ dest[r] \in Stored
  BY <1>3, ShapeAssumption DEF Contents, Stored
<1>5. dest'[r] = RowEffect(dest[r], perTable[t], r)
  BY <1>3, RowWise
<1>6. RowEffect(dest[r], Owed(p), r) = table[r]
  BY DEF DestInv
<1>7. CASE TableOf[r] = t
  <2>1. Taken(p) \in Seq(Built) /\ Left(p) \in Seq(Built) /\ Owed(p) = Taken(p) \o Left(p)
    BY <1>4, TakenType DEF Types
  <2>2. OfRow(perTable[t], r) = OfRow(Taken(p), r)
    BY <1>1, <1>7 DEF BufferInv
  <2>3. dest'[r] = RowEffect(dest[r], Taken(p), r)
    BY <1>3, <1>4, <1>5, <2>1, <2>2, SameEvents
  <2>4. RowEffect(dest'[r], Taken(p), r) = dest'[r] /\ dest'[r] \in Stored
    BY <1>4, <2>1, <2>3, RowTwice, RowEffectSteps
  <2>5. RowEffect(dest[r], Taken(p) \o Left(p), r) = RowEffect(RowEffect(dest[r], Taken(p), r), Left(p), r)
    BY <1>4, <2>1, RowEffectConcat
  <2>6. RowEffect(dest'[r], Taken(p) \o Left(p), r) = RowEffect(RowEffect(dest'[r], Taken(p), r), Left(p), r)
    BY <2>1, <2>4, RowEffectConcat
  <2>7. RowEffect(dest'[r], Owed(p), r) = table[r]
    BY <1>6, <2>1, <2>3, <2>4, <2>5, <2>6
  <2> QED
    BY <1>2, <1>4, <2>4, <2>7
<1>8. CASE TableOf[r] # t
  <2>1. OfRow(perTable[t], r) = <<>>
    BY <1>8, NoneOfRow DEF OfTable, Types, WriterTypes, BufferOK
  <2>2. dest'[r] = dest[r]
    BY <1>3, <1>4, <1>5, <2>1, Untouched
  <2>3. perTable'[TableOf[r]] = perTable[TableOf[r]]
    BY <1>1, <1>4, <1>8
  <2> QED
    BY <1>1, <1>2, <1>4, <1>6, <2>2, <2>3 DEF DestInv
<1> QED
  BY <1>7, <1>8

(* The commit gives up nothing that is not in the destination.             *)
LEMMA CommitDest ==
    ASSUME Types, IInv, DestInv, log' = log, table' = table, CommitOffsets
    PROVE  DestInv'
<1>1. /\ writerPC = "flush" /\ perTable = EmptyBuffer /\ committed' = OffsetsTaken
      /\ newest' = NoMessage /\ dest' = dest /\ newest' = NoMessage
  BY DEF CommitOffsets, destVars
<1> SUFFICES ASSUME NEW r \in Rows
             PROVE  /\ RowEffect(dest[r], Owed(PartitionOf[r])', r) = table[r]
                    /\ RowEffect(dest[r], Taken(PartitionOf[r])', r) = dest[r]
  BY <1>1 DEF DestInv
<1> DEFINE p == PartitionOf[r]
<1>2. p \in Partitions /\ TableOf[r] \in Tables /\ dest[r] \in Stored
  BY ShapeAssumption DEF Types, WriterTypes, WriterOK, Contents, Stored
<1>3. /\ Taken(p) \in Seq(Built) /\ Left(p) \in Seq(Built) /\ Owed(p) = Taken(p) \o Left(p)
      /\ OffsetsTaken[p] \in Nat
  <2>1. committed[p] \in Nat /\ Len(log[p]) \in Nat /\ OffsetsTaken[p] \in committed[p]..Len(log[p])
    BY <1>2, TakenType DEF Types
  <2>2. Taken(p) \in Seq(Built) /\ Left(p) \in Seq(Built) /\ Owed(p) = Taken(p) \o Left(p)
    BY <1>2, TakenType DEF Types
  <2> QED
    BY <2>1, <2>2
<1>4. Owed(p)' = Left(p)
  BY <1>1 DEF Owed, Left
<1>5. Taken(p)' = <<>>
  <2>1. OffsetsTaken'[p] = committed'[p] /\ committed'[p] \in Nat
    BY <1>1, <1>2, <1>3 DEF OffsetsTaken, NoMessage
  <2> QED
    BY <2>1, SubSeqEmpty DEF Taken
<1>6. RowEffect(dest[r], Taken(p), r) = dest[r] /\ RowEffect(dest[r], Owed(p), r) = table[r]
  BY <1>1, <1>2 DEF DestInv, EmptyBuffer
<1>7. RowEffect(dest[r], Taken(p) \o Left(p), r) = RowEffect(RowEffect(dest[r], Taken(p), r), Left(p), r)
  BY <1>2, <1>3, RowEffectConcat
<1>8. RowEffect(dest[r], <<>>, r) = dest[r]
  BY <1>2, RowEffectSteps
<1> QED
  BY <1>3, <1>4, <1>5, <1>6, <1>7, <1>8

(* Every step but a rebalance keeps that, a kill included.                 *)
LEMMA DestNext ==
    ASSUME "rebalance" \notin Faults, "rekeyTouch" \notin ChangeKinds, "truncate" \notin ChangeKinds,
           Types, IInv, BufferInv, HistoryInv, DestInv, [Next]_vars
    PROVE  DestInv'
<1>0. IInv' /\ \A r \in Rows : /\ TableOf[r] \in Tables /\ PartitionOf[r] \in Partitions
                              /\ dest[r] \in Stored
  BY LeftInPeace, InvNext, ShapeAssumption DEF Types, WriterTypes, WriterOK, Contents, Stored
<1>1. ASSUME UNCHANGED <<table, dest, log, committed>>,
             \A r \in Rows : writerPC' # "down" /\ perTable'[TableOf[r]] = <<>> =>
                RowEffect(dest[r], Taken(PartitionOf[r])', r) = dest[r]
      PROVE  DestInv'
  BY <1>1 DEF DestInv, Owed
<1>2. CASE UNCHANGED vars
  <2>1. UNCHANGED <<table, dest, log, committed, writerPC, perTable>>
        /\ \A p \in Partitions : Taken(p)' = Taken(p)
    BY <1>2 DEF Taken, OffsetsTaken, vars, sourceVars, sinkVars, writerVars, bufferVars, destVars
  <2> QED
    BY <1>0, <1>1, <2>1 DEF DestInv
<1>3. CASE Feed
  BY <1>3, FeedDest
<1>4. CASE UNCHANGED <<sourceVars, sinkVars>> /\ WriterStep
  <2>0. log' = log /\ table' = table
    BY <1>4 DEF sourceVars, sinkVars
  <2>1. CASE WriterStart
    <3>1. \A p \in Partitions : newest'[p] = 0 /\ committed'[p] \in Nat
      BY <2>1 DEF WriterStart, bufferVars, IInv, TakenInv, NoMessage, Offsets
    <3>2. \A p \in Partitions : Taken(p)' = <<>>
      BY <3>1, SubSeqEmpty DEF Taken, OffsetsTaken
    <3>3. \A r \in Rows : RowEffect(dest[r], <<>>, r) = dest[r]
      BY <1>0, RowEffectSteps
    <3>4. UNCHANGED <<dest, committed>>
      BY <2>1 DEF WriterStart, destVars
    <3> QED
      BY <1>0, <1>1, <2>0, <3>2, <3>3, <3>4
  <2>2. ASSUME NEW p \in Partitions, Fetch(p)
        PROVE  DestInv'
    <3> DEFINE evt == Message(p)
    <3>1. /\ evt \in Built /\ evt.row \in Rows /\ PartitionOf[evt.row] = p
          /\ perTable' = [perTable EXCEPT ![TableOf[evt.row]] = Append(@, evt)]
      BY <2>2, FetchLemma DEF Types
    <3>2. \A q \in Partitions : Taken(q)' = IF q = p THEN Append(Taken(p), evt) ELSE Taken(q)
      BY <1>0, <2>0, <2>2, FetchTaken DEF Types
    <3>3. writerPC = "run" /\ UNCHANGED <<dest, committed>> /\ perTable \in [Tables -> Seq(Built)]
      BY <2>2 DEF Fetch, destVars, Types, WriterTypes, BufferOK
    <3>4. \A q \in Partitions : Taken(q) \in Seq(Built)
      BY TakenType DEF Types
    <3> HIDE DEF evt
    <3>5. ASSUME NEW r \in Rows, perTable'[TableOf[r]] = <<>>
          PROVE  RowEffect(dest[r], Taken(PartitionOf[r])', r) = dest[r]
      <4>1. TableOf[r] # TableOf[evt.row]
        <5> SUFFICES ASSUME TableOf[r] = TableOf[evt.row] PROVE FALSE
          OBVIOUS
        <5> DEFINE s == perTable[TableOf[r]]
        <5>1. perTable'[TableOf[r]] = Append(s, evt) /\ s \in Seq(Built)
          BY <1>0, <3>1, <3>3
        <5> HIDE DEF s
        <5>2. Append(s, evt) # <<>>
          BY <3>1, <5>1, AppendProperties
        <5> QED
          BY <3>5, <5>1, <5>2
      <4>2. perTable[TableOf[r]] = <<>>
        BY <1>0, <3>1, <3>3, <3>5, <4>1
      <4>3. RowEffect(dest[r], Taken(PartitionOf[r]), r) = dest[r]
        BY <3>3, <4>2 DEF DestInv
      <4>4. CASE PartitionOf[r] = p
        <5>1. RowEffect(dest[r], Append(Taken(p), evt), r) = Stepped(RowEffect(dest[r], Taken(p), r), evt, r)
          BY <1>0, <3>1, <3>4, RowEffectSteps
        <5>2. evt.row # r
          BY <4>1
        <5> QED
          BY <1>0, <3>2, <4>3, <4>4, <5>1, <5>2 DEF Stepped
      <4>5. CASE PartitionOf[r] # p
        BY <1>0, <3>2, <4>3, <4>5
      <4> QED
        BY <4>4, <4>5
    <3> QED
      BY <1>1, <2>0, <3>3, <3>5
  <2>3. CASE FlushInterval
    <3>1. UNCHANGED <<dest, committed, perTable>> /\ writerPC = "run"
          /\ \A p \in Partitions : Taken(p)' = Taken(p)
      BY <2>0, <2>3 DEF FlushInterval, bufferVars, destVars, Taken, OffsetsTaken
    <3> QED
      BY <1>0, <1>1, <2>0, <3>1 DEF DestInv
  <2>4. ASSUME NEW t \in Tables, FlushTable(t)
        PROVE  DestInv'
    BY <2>0, <2>4, FlushDest
  <2>5. CASE CommitOffsets
    BY <2>0, <2>5, CommitDest
  <2>6. CASE WriterCrash
    BY <1>1, <2>0, <2>6 DEF WriterCrash
  <2>7. ~Rebalance
    BY DEF Rebalance, Fault
  <2> QED
    BY <1>4, <2>1, <2>2, <2>3, <2>4, <2>5, <2>6, <2>7 DEF WriterStep, WriterProgress
<1> QED
  BY <1>2, <1>3, <1>4 DEF Next

(* Wherever a kill strikes, and however often, what the next consumer will *)
(* be given brings the destination to the source's contents, row by row    *)
(* and column by column (writer.go:58-61).  A truncate is not in the       *)
(* stream, a row may take a new key without its TOAST values, and a        *)
(* rebalance may hand out a message twice: these are left out.             *)
THEOREM KillLosesNothing ==
    ASSUME "rebalance" \notin Faults, "rekeyTouch" \notin ChangeKinds, "truncate" \notin ChangeKinds
    PROVE  Spec => []Recoverable
<1>1. Types /\ HistoryInv /\ [Next]_vars => HistoryInv'
  BY HistoryNext
<1>2. Types /\ IInv /\ BufferInv /\ HistoryInv /\ DestInv /\ [Next]_vars => DestInv'
  BY DestNext
<1>3. Types /\ IInv /\ DestInv => Recoverable
  <2> SUFFICES ASSUME Types, IInv, DestInv PROVE AfterRecovery(<<>>) = table
    BY DEF Recoverable
  <2>1. dest \in Contents /\ table \in Contents /\ Redelivered \in Seq(Built)
    BY RedeliveredRows DEF Types, WriterTypes, WriterOK, SourceTypeOK
  <2>2. AfterRecovery(<<>>) = ApplyAll(dest, Redelivered) /\ ApplyAll(dest, Redelivered) \in Contents
    BY <2>1, ApplyAllSteps DEF AfterRecovery
  <2>3. ASSUME NEW r \in Rows
        PROVE  ApplyAll(dest, Redelivered)[r] = table[r]
    <3>1. dest[r] \in Stored /\ Owed(PartitionOf[r]) \in Seq(Built)
      BY <2>1, ShapeAssumption, TakenType DEF Contents, Stored, Types
    <3>2. RowEffect(dest[r], Redelivered, r) = RowEffect(dest[r], Owed(PartitionOf[r]), r)
      BY <2>1, <3>1, RedeliveredRows, SameEvents DEF Types
    <3>3. ApplyAll(dest, Redelivered)[r] = RowEffect(dest[r], Redelivered, r)
      BY <2>1, RowWise
    <3> QED
      BY <3>2, <3>3 DEF DestInv
  <2> QED
    BY <2>1, <2>2, <2>3 DEF Contents
<1> QED
  BY BufferHolds, HistoryInit, DestInit, <1>1, <1>2, <1>3, PTL DEF Spec

=============================================================================
