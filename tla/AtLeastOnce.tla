----------------------------- MODULE AtLeastOnce -----------------------------
(***************************************************************************)
(* What a consumer of the topic may count on, and what Postgres may: the   *)
(* reader as a feed that delivers every transaction at least once.  Of the *)
(* reader's own state nothing is left but a cursor: the next transaction   *)
(* to deliver.                                                             *)
(*                                                                         *)
(*   - it opens once, at a transaction boundary, and first delivers the    *)
(*     source's contents of that moment, whole, before anything else;      *)
(*   - then it delivers transactions in order: the cursor moves on only    *)
(*     when the topic holds all of the one it is at;                       *)
(*   - it acknowledges only what the cursor has passed;                    *)
(*   - it may fall back, to where it had acknowledged or, when Postgres    *)
(*     forgets an acknowledgement, further, but not before its start;      *)
(*   - with Strays, a request of long ago may still arrive, but never one  *)
(*     that runs ahead of the order.                                       *)
(***************************************************************************)
EXTENDS ChangeEvents

CONSTANT Strays     \* whether requests outlive the wait for their answer

VARIABLES
    history,    \* per transaction committed at the source, its events
    present,    \* the source's contents, as snapshot reads
    log,        \* the topic
    open,       \* whether the feed exists
    start,      \* the transactions that its first contents account for
    acked,      \* the transactions Postgres has been told of
    next,       \* the transaction being delivered
    seeding,    \* whether the first contents are still being delivered
    seed        \* these contents

sourceState == <<history, present>>
cursor == <<open, start, acked, next, seeding, seed>>
vars == <<sourceState, log, cursor>>

InLog(evt) == \E i \in DOMAIN log[PartitionOf[evt.row]] : log[PartitionOf[evt.row]][i] = evt

AllInLog(evts) == \A evt \in evts : InLog(evt)

SnapshotReads(evts) == evts \subseteq Event /\ \A evt \in evts : evt.lsn = 0

Init ==
    /\ history = <<>>
    /\ log = [p \in Partitions |-> <<>>]
    /\ ~open
    /\ start = 0
    /\ acked = 0
    /\ next = 1
    /\ ~seeding
    /\ seed = {}
    /\ SnapshotReads(present)

\* The source does as it likes, except with what it has committed.
Commit ==
    /\ history' \in Seq(SUBSET Event)
    /\ Len(history') = Len(history) + 1
    /\ \A n \in DOMAIN history : history'[n] = history[n]
    /\ \A evt \in history'[Len(history')] : evt.lsn = Len(history')
    /\ SnapshotReads(present')
    /\ UNCHANGED <<log, cursor>>

Open ==
    /\ ~open /\ open'
    /\ start' = Len(history)
    /\ acked' = Len(history)
    /\ next' = Len(history) + 1
    /\ seeding'
    /\ seed' = present
    /\ UNCHANGED <<sourceState, log>>

Of(evts, p) == {evt \in evts : PartitionOf[evt.row] = p}

\* Partition p grows by some of its events among those given, in any order.
Deliver(p, evts) ==
    /\ log' \in [Partitions -> Seq(Event)]
    /\ Len(log'[p]) > Len(log[p])
    /\ \A i \in DOMAIN log[p] : log'[p][i] = log[p][i]
    /\ \A i \in (Len(log[p]) + 1)..Len(log'[p]) : log'[p][i] \in Of(evts, p)
    /\ \A q \in Partitions \ {p} : log'[q] = log[q]
    /\ UNCHANGED <<sourceState, cursor>>

DeliverSeed(p) == seeding /\ Deliver(p, seed)

Seeded ==
    /\ seeding /\ ~seeding'
    /\ AllInLog(seed)
    /\ seed' = {}
    /\ UNCHANGED <<sourceState, log, open, start, acked, next>>

Following == open /\ ~seeding /\ next \in DOMAIN history

DeliverNext(p) == Following /\ Deliver(p, history[next])

Advance ==
    /\ Following
    /\ AllInLog(history[next])
    /\ next' = next + 1
    /\ UNCHANGED <<sourceState, log, open, start, acked, seeding, seed>>

Acknowledge ==
    /\ open /\ ~seeding
    /\ acked' \in acked..(next - 1)
    /\ UNCHANGED <<sourceState, log, open, start, next, seeding, seed>>

FallBack ==
    /\ open /\ ~seeding
    /\ acked' \in start..acked
    /\ next' = acked' + 1
    /\ UNCHANGED <<sourceState, log, open, start, seeding, seed>>

\* Transactions whose predecessors are all in the topic.
InTurn ==
    {n \in DOMAIN history :
        /\ start < n /\ ~seeding
        /\ \A m \in (start + 1)..(n - 1) : AllInLog(history[m])}

DeliverStray(p) ==
    /\ Strays
    /\ open
    /\ Deliver(p, {log[p][i] : i \in DOMAIN log[p]} \cup seed
                    \cup UNION {history[n] : n \in InTurn})

Next ==
    \/ Commit \/ Open \/ Seeded \/ Advance \/ Acknowledge \/ FallBack
    \/ \E p \in Partitions : DeliverSeed(p) \/ DeliverNext(p) \/ DeliverStray(p)

Spec == Init /\ [][Next]_vars

-----------------------------------------------------------------------------

(* What follows for a consumer: a row's history in order, up to repeats of *)
(* events it has already seen (event.go:40-41).                            *)
InOrder ==
    \A p \in Partitions : \A i, j \in DOMAIN log[p] :
        (i < j /\ log[p][i].row = log[p][j].row /\ log[p][i].lsn > log[p][j].lsn)
            => \E h \in 1..(i - 1) : log[p][h] = log[p][j]

=============================================================================
