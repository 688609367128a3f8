SPECIFICATION FairSpec
CONSTANTS
    r1 = r1
    r2 = r2
    t1 = t1
    p1 = p1
    p2 = p2
    Rows = {r1, r2}
    Tables = {t1}
    Partitions = {p1, p2}
    TableOf <- MCTableOf
    PartitionOf <- MCPartitionOf
    Cols = {c1, c2}
    Toast = {c2}
    Absent = Absent
    UnchangedMark = UnchangedMark
    Missing = Missing
    ChangeKinds = {"touch", "delete", "truncate"}
    MaxTxns = 2
    PairTxns = {1}
    OtherTxns = {1, 2}
    BatchSize = 1
    ChunkSize = 2
    Faults = {"readerCrash", "lostAck", "lateStore", "batchFail", "sourceRestart"}
    MaxFaults = 2
CHECK_DEADLOCK FALSE
INVARIANTS
    TypeOK
    AckedIsPublished
    PublishedInOrder
PROPERTIES
    BackfillBeforeStream
    UpdateNeverRewinds
    EveryTxnCaptured
    SlotCatchesUp
    ImplementsFeed
