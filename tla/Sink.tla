-------------------------------- MODULE Sink --------------------------------
(***************************************************************************)
(* internal/sink: Publish hands a slice of events to a kafka-go Writer and *)
(* blocks until the broker has acknowledged or refused every one of them.  *)
(* The Writer splits the slice by partition, and each partition's share    *)
(* into batches that are sent one after the other; the partitions proceed  *)
(* independently.  A batch whose acknowledgement is lost is sent again,    *)
(* and a batch that runs out of attempts is dropped while the batches      *)
(* behind it are still sent.  A request that was sent and not answered in  *)
(* time may still be on its way: the producer is not idempotent, and the   *)
(* broker stores the request whenever it arrives, be its sender still      *)
(* there or not.  The topic itself is one log per partition.               *)
(***************************************************************************)
EXTENDS ChangeEvents, Faults

CONSTANT BatchSize      \* messages in a produce batch

ASSUME BatchAssumption == BatchSize \in Nat \ {0}

VARIABLES
    log,        \* the topic: per partition, the events in offset order
    unsent,     \* of the Publish in progress: per partition, not yet acked
    failed,     \* whether a batch of that Publish was given up
    late        \* per partition, a request nobody waits for any more

sinkVars == <<log, unsent, failed, late>>

NoEvents == [p \in Partitions |-> <<>>]

SinkInit ==
    /\ log = NoEvents
    /\ unsent = NoEvents
    /\ failed = FALSE
    /\ late = NoEvents

SinkTypeOK ==
    /\ log \in [Partitions -> Seq(Event)]
    /\ unsent \in [Partitions -> Seq(Event)]
    /\ failed \in BOOLEAN
    /\ late \in [Partitions -> Seq(Event)]

-----------------------------------------------------------------------------

\* evts are the events of the call, grouped by the partition of their key.
Publish(evts) ==
    /\ unsent' = evts
    /\ failed' = FALSE

BatchLen(p) == IF Len(unsent[p]) < BatchSize THEN Len(unsent[p]) ELSE BatchSize

Batch(p) == SubSeq(unsent[p], 1, BatchLen(p))

BehindBatch(p) == SubSeq(unsent[p], BatchLen(p) + 1, Len(unsent[p]))

Store(p) == log' = [log EXCEPT ![p] = @ \o Batch(p)]

BatchDone(p) == unsent' = [unsent EXCEPT ![p] = BehindBatch(p)]

\* The broker stores the batch and the acknowledgement arrives.
BatchAcked(p) ==
    /\ unsent[p] # <<>>
    /\ Store(p)
    /\ BatchDone(p)
    /\ NoFault
    /\ UNCHANGED <<failed, late>>

\* The broker stores the batch but the Writer never hears of it, and will
\* send it once more.
AckLost(p) ==
    /\ unsent[p] # <<>>
    /\ Fault("lostAck")
    /\ Store(p)
    /\ UNCHANGED <<unsent, failed, late>>

\* No answer in time: the Writer will send the batch once more, while the
\* request it gave up on is still in the network.
SendTimesOut(p) ==
    /\ unsent[p] # <<>>
    /\ late[p] = <<>>
    /\ Fault("lateStore")
    /\ late' = [late EXCEPT ![p] = Batch(p)]
    /\ UNCHANGED <<log, unsent, failed>>

\* Such a request reaches the broker.
LateStored(p) ==
    /\ late[p] # <<>>
    /\ log' = [log EXCEPT ![p] = @ \o late[p]]
    /\ late' = [late EXCEPT ![p] = <<>>]
    /\ UNCHANGED <<unsent, failed>>
    /\ NoFault

\* MaxAttempts reached: the batch is dropped, WriteMessages will report it.
BatchGivenUp(p) ==
    /\ unsent[p] # <<>>
    /\ Fault("batchFail")
    /\ failed' = TRUE
    /\ BatchDone(p)
    /\ UNCHANGED <<log, late>>

\* WriteMessages returns when every batch was acked or given up.
PublishReturned == \A p \in Partitions : unsent[p] = <<>>

\* The process is gone: what it had not sent is never sent.
SinkLost ==
    /\ unsent' = NoEvents
    /\ failed' = FALSE
    /\ UNCHANGED <<log, late>>

SinkStep ==
    \E p \in Partitions :
        BatchAcked(p) \/ AckLost(p) \/ SendTimesOut(p) \/ BatchGivenUp(p)

LateStep == \E p \in Partitions : LateStored(p)

=============================================================================
