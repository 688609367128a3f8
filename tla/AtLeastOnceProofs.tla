-------------------------- MODULE AtLeastOnceProofs --------------------------
(***************************************************************************)
(* What the promises of AtLeastOnce add up to for a consumer: a row's      *)
(* history in order.  For any number of partitions and transactions, with  *)
(* requests of long ago or without.                                        *)
(***************************************************************************)
EXTENDS AtLeastOnce, TLAPS

(* The types, and what an event's lsn says: the transaction it is of, or 0 *)
(* for a snapshot read.                                                    *)
TypeInv ==
    /\ history \in Seq(SUBSET Event)
    /\ \A n \in DOMAIN history : \A evt \in history[n] : evt.lsn = n
    /\ SnapshotReads(present)
    /\ SnapshotReads(seed)
    /\ log \in [Partitions -> Seq(Event)]
    /\ start \in Nat /\ acked \in Nat /\ next \in Nat

(* Where the cursor can be.                                                *)
CursorInv ==
    /\ seeding => open /\ next = start + 1
    /\ ~seeding => seed = {}
    /\ ~open => log = [p \in Partitions |-> <<>>] /\ next = start + 1
    /\ open => start <= acked /\ acked < next /\ next <= Len(history) + 1

(* The topic holds all that the cursor has passed.                         *)
PassedInv == \A m \in (start + 1)..(next - 1) : AllInLog(history[m])

(* Every entry is a snapshot read or belongs to a transaction after the    *)
(* start, and is in the partition of its row; while the first contents are *)
(* being delivered there is nothing else.                                  *)
OriginInv ==
    \A p \in Partitions : \A i \in DOMAIN log[p] : LET evt == log[p][i] IN
        /\ PartitionOf[evt.row] = p
        /\ evt.lsn # 0 =>
            /\ ~seeding
            /\ evt.lsn \in DOMAIN history /\ start < evt.lsn
            /\ evt \in history[evt.lsn]

Before(p, i, evt) == \E h \in 1..(i - 1) : log[p][h] = evt

(* Before an entry of one transaction stands everything of the earlier     *)
(* ones.                                                                   *)
PriorInv ==
    \A p \in Partitions : \A i \in DOMAIN log[p] :
        \A m \in (start + 1)..(log[p][i].lsn - 1) :
            \A evt \in Of(history[m], p) : Before(p, i, evt)

(* A snapshot read after an entry of a transaction is a repeat of one      *)
(* before it.                                                              *)
ReadsInv ==
    \A p \in Partitions : \A i, j \in DOMAIN log[p] :
        i < j /\ log[p][i].lsn # 0 /\ log[p][j].lsn = 0 => Before(p, i, log[p][j])

IInv == TypeInv /\ CursorInv /\ PassedInv /\ OriginInv /\ PriorInv /\ ReadsInv

-----------------------------------------------------------------------------

(* What may be appended to a partition: a repeat, a snapshot read while    *)
(* there is nothing else, or an event of a transaction whose predecessors  *)
(* are all in the topic.                                                   *)
Repeat(p, evt) == \E k \in DOMAIN log[p] : log[p][k] = evt

InTime(evt) ==
    \E n \in DOMAIN history :
        /\ start < n /\ ~seeding
        /\ evt \in history[n]
        /\ \A m \in (start + 1)..(n - 1) : AllInLog(history[m])

Allowed(p, evt) ==
    /\ PartitionOf[evt.row] = p
    /\ Repeat(p, evt) \/ (seeding /\ evt.lsn = 0) \/ InTime(evt)

(* Each of the three deliveries appends only what may be appended.         *)
LEMMA DeliverLemma ==
    ASSUME IInv, NEW p \in Partitions, DeliverSeed(p) \/ DeliverNext(p) \/ DeliverStray(p)
    PROVE  \E evts : Deliver(p, evts) /\ \A evt \in Of(evts, p) : Allowed(p, evt)
<1> USE DEF IInv
<1>1. CASE DeliverSeed(p)
  BY <1>1 DEF DeliverSeed, Of, Allowed, TypeInv, SnapshotReads
<1>2. CASE DeliverNext(p)
  <2>1. /\ Deliver(p, history[next])
        /\ next \in DOMAIN history /\ start < next /\ ~seeding
    BY <1>2 DEF DeliverNext, Following, CursorInv, TypeInv
  <2>2. \A evt \in history[next] : InTime(evt)
    BY <2>1 DEF InTime, PassedInv
  <2> QED
    BY <2>1, <2>2 DEF Of, Allowed
<1>3. CASE DeliverStray(p)
  <2> DEFINE evts == {log[p][i] : i \in DOMAIN log[p]} \cup seed
                        \cup UNION {history[n] : n \in InTurn}
  <2>1. Deliver(p, evts)
    BY <1>3 DEF DeliverStray
  <2>2. ASSUME NEW evt \in Of(evts, p)
        PROVE  Allowed(p, evt)
    <3>1. evt \in evts /\ PartitionOf[evt.row] = p
      BY DEF Of
    <3>2. CASE \E i \in DOMAIN log[p] : evt = log[p][i]
      BY <3>1, <3>2 DEF Allowed, Repeat
    <3>3. CASE evt \in seed
      BY <3>1, <3>3 DEF Allowed, CursorInv, TypeInv, SnapshotReads
    <3>4. CASE \E n \in InTurn : evt \in history[n]
      BY <3>1, <3>4 DEF Allowed, InTime, InTurn
    <3> QED
      BY <3>1, <3>2, <3>3, <3>4
  <2> QED
    BY <2>1, <2>2
<1> QED
  BY <1>1, <1>2, <1>3

(* The entries of a partition that a delivery to it leaves and adds.       *)
LEMMA GrowLemma ==
    ASSUME log \in [Partitions -> Seq(Event)], NEW p \in Partitions, NEW evts, Deliver(p, evts)
    PROVE  /\ log' \in [Partitions -> Seq(Event)]
           /\ \A q \in Partitions :
                /\ DOMAIN log[q] = 1..Len(log[q]) /\ DOMAIN log'[q] = 1..Len(log'[q])
                /\ Len(log[q]) \in Nat /\ Len(log'[q]) \in Nat
                /\ Len(log[q]) <= Len(log'[q])
                /\ \A i \in DOMAIN log[q] : i \in DOMAIN log'[q] /\ log'[q][i] = log[q][i]
                /\ q # p => log'[q] = log[q]
           /\ \A i \in DOMAIN log'[p] : i \notin DOMAIN log[p] =>
                i > Len(log[p]) /\ log'[p][i] \in Of(evts, p)
<1>1. log' \in [Partitions -> Seq(Event)]
  BY DEF Deliver
<1>2. ASSUME NEW q \in Partitions
      PROVE  /\ DOMAIN log[q] = 1..Len(log[q]) /\ DOMAIN log'[q] = 1..Len(log'[q])
             /\ Len(log[q]) \in Nat /\ Len(log'[q]) \in Nat
  BY <1>1
<1>3. ASSUME NEW q \in Partitions
      PROVE  /\ Len(log[q]) <= Len(log'[q])
             /\ \A i \in DOMAIN log[q] : i \in DOMAIN log'[q] /\ log'[q][i] = log[q][i]
             /\ q # p => log'[q] = log[q]
  <2>1. CASE q = p
    BY <1>2, <2>1 DEF Deliver
  <2>2. CASE q # p
    BY <1>2, <2>2 DEF Deliver
  <2> QED
    BY <2>1, <2>2
<1>4. ASSUME NEW i \in DOMAIN log'[p], i \notin DOMAIN log[p]
      PROVE  i > Len(log[p]) /\ log'[p][i] \in Of(evts, p)
  <2>1. i \in 1..Len(log'[p]) /\ i \notin 1..Len(log[p])
    BY <1>2, <1>4
  <2>2. i \in (Len(log[p]) + 1)..Len(log'[p])
    BY <1>2, <2>1
  <2> QED
    BY <1>2, <2>2 DEF Deliver
<1> QED
  BY <1>1, <1>2, <1>3, <1>4

(* A delivery keeps what is in the topic there.                            *)
LEMMA KeepLemma ==
    ASSUME log \in [Partitions -> Seq(Event)], NEW p \in Partitions, NEW evts, Deliver(p, evts),
           NEW set \in SUBSET Event, AllInLog(set)
    PROVE  AllInLog(set)'
<1> SUFFICES ASSUME NEW evt \in set PROVE InLog(evt)'
  BY DEF AllInLog
<1>1. PartitionOf[evt.row] \in Partitions
  BY ShapeAssumption DEF Event
<1>2. InLog(evt)
  BY DEF AllInLog
<1> QED
  BY <1>1, <1>2, GrowLemma DEF InLog

(* So the invariant survives a delivery.                                   *)
LEMMA DeliverNextInv ==
    ASSUME IInv, NEW p \in Partitions, NEW evts, Deliver(p, evts),
           \A evt \in Of(evts, p) : Allowed(p, evt), open
    PROVE  IInv'
<1> USE DEF IInv
<1>1. log \in [Partitions -> Seq(Event)] /\ start \in Nat /\ history \in Seq(SUBSET Event)
  BY DEF TypeInv
<1>2. UNCHANGED <<history, present, open, start, acked, next, seeding, seed>>
  BY DEF Deliver, sourceState, cursor
<1>3. TypeInv'
  BY <1>1, <1>2, GrowLemma DEF TypeInv, SnapshotReads
<1>4. CursorInv'
  BY <1>2 DEF CursorInv
<1>5. PassedInv'
  <2> SUFFICES ASSUME NEW m \in (start + 1)..(next - 1) PROVE AllInLog(history[m])'
    BY <1>2 DEF PassedInv
  <2>1. m \in DOMAIN history
    BY <1>1 DEF CursorInv, TypeInv
  <2>2. history[m] \in SUBSET Event /\ AllInLog(history[m])
    BY <1>1, <2>1 DEF PassedInv
  <2> QED
    BY <1>1, <1>2, <2>2, KeepLemma DEF AllInLog, InLog
\* The entries that are new.
<1>6. ASSUME NEW i \in DOMAIN log'[p], i \notin DOMAIN log[p]
      PROVE  i > Len(log[p]) /\ Allowed(p, log'[p][i])
  BY <1>1, <1>6, GrowLemma
<1>7. OriginInv'
  <2> SUFFICES ASSUME NEW q \in Partitions, NEW i \in DOMAIN log'[q]
               PROVE  /\ PartitionOf[log'[q][i].row] = q
                      /\ log'[q][i].lsn # 0 =>
                            /\ ~seeding
                            /\ log'[q][i].lsn \in DOMAIN history /\ start < log'[q][i].lsn
                            /\ log'[q][i] \in history[log'[q][i].lsn]
    BY <1>2 DEF OriginInv
  <2>1. CASE i \in DOMAIN log[q]
    <3>1. log'[q][i] = log[q][i]
      BY <1>1, <2>1, GrowLemma
    <3> QED
      BY <2>1, <3>1 DEF OriginInv
  <2>2. CASE i \notin DOMAIN log[q]
    <3>1. q = p
      BY <1>1, <2>2, GrowLemma
    <3>2. Allowed(p, log'[p][i])
      BY <1>6, <2>2, <3>1
    <3>3. CASE Repeat(p, log'[p][i])
      BY <3>1, <3>3 DEF Repeat, OriginInv
    <3>4. CASE seeding /\ log'[p][i].lsn = 0
      BY <3>1, <3>2, <3>4 DEF Allowed
    <3>5. CASE InTime(log'[p][i])
      BY <3>1, <3>2, <3>5 DEF Allowed, InTime, TypeInv
    <3> QED
      BY <3>2, <3>3, <3>4, <3>5 DEF Allowed
  <2> QED
    BY <2>1, <2>2
\* What stood before an entry still does, and so does the topic before a new one.
<1>8. ASSUME NEW q \in Partitions, NEW i \in DOMAIN log[q], NEW evt, Before(q, i, evt)
      PROVE  Before(q, i, evt)'
  <2>1. PICK h \in 1..(i - 1) : log[q][h] = evt
    BY <1>8 DEF Before
  <2>2. h \in DOMAIN log[q]
    BY <1>1, GrowLemma
  <2>3. log'[q][h] = evt
    BY <1>1, <2>1, <2>2, GrowLemma
  <2> QED
    BY <2>3 DEF Before
<1>9. ASSUME NEW i \in DOMAIN log'[p], i \notin DOMAIN log[p], NEW evt, Repeat(p, evt)
      PROVE  Before(p, i, evt)'
  <2>0. PICK k \in DOMAIN log[p] : log[p][k] = evt
    BY <1>9 DEF Repeat
  <2>1. k \in 1..(i - 1) /\ log'[p][k] = evt
    BY <1>1, <1>6, <1>9, <2>0, GrowLemma
  <2> QED
    BY <2>1 DEF Before
<1>10. PriorInv'
  <2> SUFFICES ASSUME NEW q \in Partitions, NEW i \in DOMAIN log'[q],
                      NEW m \in (start + 1)..(log'[q][i].lsn - 1),
                      NEW evt \in Of(history[m], q)
               PROVE  Before(q, i, evt)'
    BY <1>2 DEF PriorInv, Of
  <2>1. CASE i \in DOMAIN log[q]
    <3>1. log'[q][i] = log[q][i]
      BY <1>1, <2>1, GrowLemma
    <3>2. Before(q, i, evt)
      BY <2>1, <3>1 DEF PriorInv
    <3> QED
      BY <1>8, <2>1, <3>2
  <2>2. CASE i \notin DOMAIN log[q]
    <3>1. q = p
      BY <1>1, <2>2, GrowLemma
    <3>2. Allowed(p, log'[p][i])
      BY <1>6, <2>2, <3>1
    <3>3. SUFFICES Repeat(p, evt)
      BY <1>9, <2>2, <3>1
    <3>4. CASE Repeat(p, log'[p][i])
      <4>1. PICK k \in DOMAIN log[p] : log[p][k] = log'[p][i]
        BY <3>4 DEF Repeat
      <4>2. Before(p, k, evt)
        BY <3>1, <4>1 DEF PriorInv
      <4>3. PICK h \in 1..(k - 1) : log[p][h] = evt
        BY <4>2 DEF Before
      <4>4. h \in DOMAIN log[p]
        BY <1>1, GrowLemma
      <4> QED
        BY <4>3, <4>4 DEF Repeat
    <3>5. CASE seeding /\ log'[p][i].lsn = 0
      BY <1>1, <3>1, <3>5
    <3>6. CASE InTime(log'[p][i])
      <4>1. PICK n \in DOMAIN history :
                /\ log'[p][i] \in history[n]
                /\ \A l \in (start + 1)..(n - 1) : AllInLog(history[l])
        BY <3>6 DEF InTime
      <4>2. log'[p][i].lsn = n
        BY <4>1 DEF TypeInv
      <4>3. InLog(evt) /\ PartitionOf[evt.row] = p
        BY <3>1, <4>1, <4>2 DEF AllInLog, Of
      <4> QED
        BY <4>3 DEF InLog, Repeat
    <3> QED
      BY <3>2, <3>4, <3>5, <3>6 DEF Allowed
  <2> QED
    BY <2>1, <2>2
<1>11. ReadsInv'
  <2> SUFFICES ASSUME NEW q \in Partitions, NEW i \in DOMAIN log'[q], NEW j \in DOMAIN log'[q],
                      NEW evt, evt = log'[q][j],
                      i < j, log'[q][i].lsn # 0, evt.lsn = 0
               PROVE  Before(q, i, evt)'
    BY DEF ReadsInv, Before
  <2>1. DOMAIN log[q] = 1..Len(log[q]) /\ DOMAIN log'[q] = 1..Len(log'[q])
        /\ Len(log[q]) \in Nat /\ Len(log'[q]) \in Nat
        /\ \A k \in DOMAIN log[q] : log'[q][k] = log[q][k]
    BY <1>1, GrowLemma
  <2>2. CASE j \in DOMAIN log[q]
    <3>1. i \in DOMAIN log[q]
      BY <2>1, <2>2
    <3>2. Before(q, i, evt)
      BY <2>1, <2>2, <3>1 DEF ReadsInv
    <3> QED
      BY <1>8, <3>1, <3>2
  <2>3. CASE j \notin DOMAIN log[q]
    <3>1. q = p
      BY <1>1, <2>3, GrowLemma
    <3>2. Allowed(p, evt) /\ ~seeding
      BY <1>2, <1>6, <1>7, <2>3, <3>1 DEF OriginInv
    <3>3. ~InTime(evt)
      <4>1. \A n \in DOMAIN history : n # 0
        BY <1>1
      <4> QED
        BY <4>1 DEF InTime, TypeInv
    <3>4. Repeat(p, evt)
      BY <3>2, <3>3 DEF Allowed
    <3>5. CASE i \notin DOMAIN log[p]
      BY <1>9, <3>1, <3>4, <3>5
    <3>6. CASE i \in DOMAIN log[p]
      <4>1. PICK k \in DOMAIN log[p] : log[p][k] = evt
        BY <3>4 DEF Repeat
      <4>2. i # k /\ i \in Nat /\ k \in Nat
        BY <2>1, <3>1, <3>6, <4>1
      <4>3. CASE k < i
        <5>1. k \in 1..(i - 1)
          BY <2>1, <3>1, <4>3
        <5> QED
          BY <1>8, <3>1, <3>6, <4>1, <5>1 DEF Before
      <4>4. CASE i < k
        <5>1. log[p][i].lsn # 0
          BY <2>1, <3>1, <3>6
        <5>2. Before(p, i, evt)
          BY <3>6, <4>1, <4>4, <5>1 DEF ReadsInv
        <5> QED
          BY <1>8, <3>1, <3>6, <5>2
      <4> QED
        BY <4>2, <4>3, <4>4
    <3> QED
      BY <3>5, <3>6
  <2> QED
    BY <2>2, <2>3
<1> QED
  BY <1>3, <1>4, <1>5, <1>7, <1>10, <1>11

-----------------------------------------------------------------------------

(* It holds at first.                                                      *)
LEMMA InvInit == Init => IInv
<1> SUFFICES ASSUME Init PROVE IInv
  OBVIOUS
<1>1. history = <<>> /\ seed = {} /\ ~open /\ ~seeding /\ start = 0 /\ acked = 0 /\ next = 1
      /\ log = [p \in Partitions |-> <<>>] /\ SnapshotReads(present)
  BY DEF Init
<1>2. TypeInv
  BY <1>1 DEF TypeInv, SnapshotReads
<1>3. CursorInv /\ PassedInv
  BY <1>1 DEF CursorInv, PassedInv
<1>4. \A p \in Partitions : DOMAIN log[p] = {}
  BY <1>1
<1> QED
  BY <1>2, <1>3, <1>4 DEF IInv, OriginInv, PriorInv, ReadsInv

(* Every other step leaves the topic alone.                                *)
LEMMA CursorNext ==
    ASSUME IInv, Commit \/ Open \/ Seeded \/ Advance \/ Acknowledge \/ FallBack
    PROVE  IInv'
<1> USE DEF IInv, cursor, sourceState
<1>1. /\ log \in [Partitions -> Seq(Event)] /\ history \in Seq(SUBSET Event)
      /\ start \in Nat /\ acked \in Nat /\ next \in Nat
      /\ DOMAIN history = 1..Len(history) /\ Len(history) \in Nat
  BY DEF TypeInv
<1>2. log' = log
  BY DEF Commit, Open, Seeded, Advance, Acknowledge, FallBack
<1>3. CASE Commit
  <2>1. UNCHANGED cursor
    BY <1>3 DEF Commit
  <2>2. /\ history' \in Seq(SUBSET Event)
        /\ DOMAIN history' = 1..(Len(history) + 1) /\ Len(history') = Len(history) + 1
        /\ \A n \in DOMAIN history : n \in DOMAIN history' /\ history'[n] = history[n]
    BY <1>1, <1>3 DEF Commit
  <2>3. TypeInv'
    <3>1. ASSUME NEW n \in DOMAIN history' PROVE \A evt \in history'[n] : evt.lsn = n
      <4>1. n \in DOMAIN history \/ n = Len(history')
        BY <1>1, <2>2
      <4> QED
        BY <1>3, <2>2, <4>1 DEF Commit, TypeInv
    <3> QED
      BY <1>2, <1>3, <2>1, <2>2, <3>1 DEF Commit, TypeInv, SnapshotReads
  <2>4. CursorInv'
    BY <1>1, <1>2, <2>1, <2>2 DEF CursorInv
  <2>5. \A m \in 1..Len(history) : history'[m] = history[m]
    BY <1>1, <2>2
  <2>6. PassedInv'
    <3> SUFFICES ASSUME NEW m \in (start + 1)..(next - 1) PROVE AllInLog(history[m])'
      BY <2>1 DEF PassedInv
    <3>1. AllInLog(history[m])
      BY DEF PassedInv
    <3>2. m \in 1..Len(history)
      BY <1>1 DEF CursorInv
    <3>3. history'[m] = history[m]
      BY <2>5, <3>2
    <3> QED
      BY <1>2, <3>1, <3>3 DEF AllInLog, InLog
  <2>7. OriginInv'
    BY <1>2, <2>1, <2>2 DEF OriginInv
  <2>8. PriorInv'
    <3> SUFFICES ASSUME NEW p \in Partitions, NEW i \in DOMAIN log[p],
                        NEW m \in (start + 1)..(log[p][i].lsn - 1),
                        NEW evt \in Of(history'[m], p)
                 PROVE  Before(p, i, evt)
      BY <1>2, <2>1 DEF PriorInv, Before, Of
    <3>0. log[p][i] \in Event
      BY <1>1
    <3>1. log[p][i].lsn \in Nat
      BY <3>0 DEF Event
    <3>2. log[p][i].lsn \in DOMAIN history
      BY <1>1, <3>1 DEF OriginInv
    <3>3. history'[m] = history[m]
      BY <1>1, <2>5, <3>2
    <3> QED
      BY <3>3 DEF PriorInv, Of
  <2>9. ReadsInv'
    BY <1>2 DEF ReadsInv, Before
  <2> QED
    BY <2>3, <2>4, <2>6, <2>7, <2>8, <2>9
<1>4. CASE Open
  <2>1. UNCHANGED sourceState /\ start' = Len(history) /\ acked' = start' /\ next' = start' + 1
        /\ seed' = present /\ open' /\ seeding'
    BY <1>4 DEF Open
  <2>2. \A p \in Partitions : DOMAIN log'[p] = {}
    BY <1>2, <1>4 DEF Open, CursorInv
  <2>3. TypeInv'
    BY <1>1, <1>2, <2>1 DEF TypeInv, SnapshotReads
  <2>4. CursorInv' /\ PassedInv'
    BY <1>1, <2>1 DEF CursorInv, PassedInv
  <2> QED
    BY <2>2, <2>3, <2>4 DEF OriginInv, PriorInv, ReadsInv
<1>5. CASE Seeded \/ Advance \/ Acknowledge \/ FallBack
  <2>1. UNCHANGED sourceState /\ UNCHANGED <<open, start>> /\ (seeding' => seeding)
        /\ seed' \subseteq seed
    BY <1>5 DEF Seeded, Advance, Acknowledge, FallBack
  <2>2. TypeInv'
    <3>1. acked' \in Nat /\ next' \in Nat
      BY <1>1, <1>5 DEF Seeded, Advance, Acknowledge, FallBack
    <3> QED
      BY <1>2, <2>1, <3>1 DEF TypeInv, SnapshotReads
  <2>3. CursorInv'
    BY <1>1, <1>2, <1>5, <2>1
    DEF Seeded, Advance, Acknowledge, FallBack, CursorInv, Following
  <2>4. PassedInv'
    <3> SUFFICES ASSUME NEW m \in (start + 1)..(next' - 1) PROVE AllInLog(history[m])
      BY <1>2, <2>1 DEF PassedInv, AllInLog, InLog
    <3>1. CASE m \in (start + 1)..(next - 1)
      BY <3>1 DEF PassedInv
    <3>2. CASE m = next /\ Advance
      BY <3>2 DEF Advance
    <3> QED
      BY <1>1, <1>5, <3>1, <3>2 DEF Seeded, Advance, Acknowledge, FallBack, CursorInv
  <2>5. OriginInv' /\ PriorInv' /\ ReadsInv'
    BY <1>2, <2>1 DEF OriginInv, PriorInv, ReadsInv, Before
  <2> QED
    BY <2>2, <2>3, <2>4, <2>5
<1> QED
  BY <1>3, <1>4, <1>5

(* A delivery needs an open feed.                                          *)
LEMMA DeliverOpen ==
    ASSUME IInv, NEW p \in Partitions, DeliverSeed(p) \/ DeliverNext(p) \/ DeliverStray(p)
    PROVE  open
BY DEF IInv, CursorInv, DeliverSeed, DeliverNext, DeliverStray, Following

(* The invariant holds in every reachable state.                           *)
THEOREM Invariance == Spec => []IInv
<1>1. Init => IInv
  BY InvInit
<1>2. ASSUME IInv, [Next]_vars PROVE IInv'
  <2>1. CASE UNCHANGED vars
    BY <1>2, <2>1
    DEF vars, sourceState, cursor, IInv, TypeInv, CursorInv, PassedInv, OriginInv, PriorInv,
        ReadsInv, Before, SnapshotReads, AllInLog, InLog
  <2>2. CASE Commit \/ Open \/ Seeded \/ Advance \/ Acknowledge \/ FallBack
    BY <1>2, <2>2, CursorNext
  <2>3. CASE \E p \in Partitions : DeliverSeed(p) \/ DeliverNext(p) \/ DeliverStray(p)
    <3>1. PICK p \in Partitions : DeliverSeed(p) \/ DeliverNext(p) \/ DeliverStray(p)
      BY <2>3
    <3>2. open
      BY <1>2, <3>1, DeliverOpen
    <3>3. PICK evts : Deliver(p, evts) /\ \A evt \in Of(evts, p) : Allowed(p, evt)
      BY <1>2, <3>1, DeliverLemma
    <3> QED
      BY <1>2, <3>2, <3>3, DeliverNextInv
  <2> QED
    BY <1>2, <2>1, <2>2, <2>3 DEF Next
<1> QED
  BY <1>1, <1>2, PTL DEF Spec

(* Whoever relies on the feed alone sees every row's history in order      *)
(* (event.go:40-41).                                                       *)
THEOREM FeedInOrder == Spec => []InOrder
<1>1. IInv => InOrder
  <2> SUFFICES ASSUME IInv, NEW p \in Partitions, NEW i \in DOMAIN log[p], NEW j \in DOMAIN log[p],
                      i < j, log[p][i].lsn > log[p][j].lsn
               PROVE  Before(p, i, log[p][j])
    BY DEF InOrder, Before
  <2> USE DEF IInv
  <2>0. log[p][i] \in Event /\ log[p][j] \in Event
    BY DEF TypeInv
  <2>1. start \in Nat /\ log[p][i].lsn \in Nat /\ log[p][j].lsn \in Nat
    BY <2>0 DEF TypeInv, Event
  <2>2. CASE log[p][j].lsn = 0
    BY <2>1, <2>2 DEF ReadsInv
  <2>3. CASE log[p][j].lsn # 0
    <3>1. /\ start < log[p][j].lsn
          /\ log[p][j] \in Of(history[log[p][j].lsn], p)
      BY <2>3 DEF OriginInv, Of
    <3>2. log[p][j].lsn \in (start + 1)..(log[p][i].lsn - 1)
      BY <2>1, <3>1
    <3> QED
      BY <3>1, <3>2 DEF PriorInv
  <2> QED
    BY <2>2, <2>3
<1> QED
  BY <1>1, Invariance, PTL

=============================================================================
