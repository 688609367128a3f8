SPECIFICATION Spec
CONSTANTS
    r1 = r1
    r2 = r2
    t1 = t1
    p1 = p1
    p2 = p2
    Rows = {r1, r2}
    Tables = {t1}
    Partitions = {p1, p2}
    TableOf <- MCTableOf
    PartitionOf <- MCPartitionOf
    Cols = {c1, c2}
    Toast = {c2}
    Absent = Absent
    UnchangedMark = UnchangedMark
    Missing = Missing
    ChangeKinds = {"touch"}
    MaxTxns = 2
    PairTxns = {}
    OtherTxns = {}
    BatchSize = 1
    ChunkSize = 1
    FlushMax = 2
    Faults = {"lateStore"}
    MaxFaults = 1
CHECK_DEADLOCK FALSE
INVARIANTS
    Recoverable
