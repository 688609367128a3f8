SPECIFICATION FairSpec
CONSTANTS
    r1 = r1
    r2 = r2
    r3 = r3
    t1 = t1
    t2 = t2
    p1 = p1
    p2 = p2
    Rows = {r1, r2, r3}
    Tables = {t1, t2}
    Partitions = {p1, p2}
    TableOf <- MCTableOf
    PartitionOf <- MCPartitionOf
    Cols = {c1, c2}
    Toast = {c2}
    Absent = Absent
    UnchangedMark = UnchangedMark
    Missing = Missing
    ChangeKinds = {"insert", "update", "touch", "rekey", "delete"}
    MaxTxns = 2
    PairTxns = {}
    OtherTxns = {}
    BatchSize = 1
    FlushMax = 3
    Faults = {"writerCrash"}
    MaxFaults = 1
CHECK_DEADLOCK FALSE
INVARIANTS
    TypeOK
    BufferIsUncommitted
    FoldLosesNothing
    Recoverable
PROPERTIES
    OffsetsNeverRewind
    Converges
