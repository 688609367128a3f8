------------------------------- MODULE Faults -------------------------------
(***************************************************************************)
(* The faults that may strike the pipeline, and a bound on how many.  A    *)
(* configuration chooses the kinds; MaxFaults bounds their number in a     *)
(* behaviour, so that recovery can be asked to finish.                     *)
(***************************************************************************)
EXTENDS Naturals

FaultKinds == {"readerCrash",    \* kill -9, or any error that ends Run
               "backfillCrash",  \* the same while the backfill is running
               "lostAck",        \* broker stored a batch, the ack was lost
               "batchFail",      \* a batch exhausted its attempts
               "lateStore",      \* a produce request outlives its sender's wait
               "sourceRestart",  \* the source server crashed and came back
               "writerCrash",    \* kill -9, or any error that ends Run
               "rebalance"}      \* a new generation of the consumer group

CONSTANTS Faults, MaxFaults

ASSUME FaultsAssumption == Faults \subseteq FaultKinds /\ MaxFaults \in Nat

VARIABLE faults     \* how many have struck

FaultsInit == faults = 0

FaultsTypeOK == faults \in 0..MaxFaults

Fault(kind) ==
    /\ kind \in Faults
    /\ faults < MaxFaults
    /\ faults' = faults + 1

NoFault == UNCHANGED faults

=============================================================================
