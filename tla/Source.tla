------------------------------- MODULE Source -------------------------------
(***************************************************************************)
(* The source database, as far as the reader can see it: the committed     *)
(* contents of the published tables, and the transactions in the WAL in    *)
(* commit order.  Postgres is not part of the repository; this module is   *)
(* read off the messages that internal/reader handles, off the columns     *)
(* that internal/backfill selects and off the load that scripts/load.sh    *)
(* runs.  A transaction's place in wal stands for its commit LSN.          *)
(***************************************************************************)
EXTENDS ChangeEvents

CONSTANTS
    ChangeKinds,    \* the statements the application issues
    MaxTxns,        \* bound on the length of the WAL
    PairTxns,       \* which transactions may hold two changes
    OtherTxns       \* which may be work on tables that are not published

ASSUME SourceAssumption ==
    /\ ChangeKinds \subseteq {"insert", "update", "touch", "rekey", "rekeyTouch",
                              "delete", "truncate"}
    /\ MaxTxns \in Nat
    /\ PairTxns \subseteq 1..MaxTxns
    /\ OtherTxns \subseteq 1..MaxTxns

VARIABLES
    table,      \* committed contents
    wal,        \* committed transactions, each a sequence of changes
    version     \* the last version written

sourceVars == <<table, wal, version>>

\* row is the old key, to the new one; they differ when the key changed.
Change == [kind : {"insert", "update", "delete", "truncate"},
           row : Rows, to : Rows, tuple : Tuple]

-----------------------------------------------------------------------------
(* The changes a statement can make to contents tbl, writing version v.    *)

Written(v) == [c \in Cols |-> v]

\* An update that leaves the TOAST columns alone does not retransmit them.
Touched(v) == [c \in Cols |-> IF c \in Toast THEN UnchangedMark ELSE v]

Inserts(tbl, v) ==
    {[kind |-> "insert", row |-> r, to |-> r, tuple |-> Written(v)] :
        r \in {r \in Rows : tbl[r] = Absent}}

Updates(tbl, tuple) ==
    {[kind |-> "update", row |-> r, to |-> r, tuple |-> tuple] :
        r \in {r \in Rows : tbl[r] # Absent}}

Rekeys(tbl, tuple) ==
    {[kind |-> "update", row |-> p[1], to |-> p[2], tuple |-> tuple] :
        p \in {p \in Rows \X Rows : /\ tbl[p[1]] # Absent
                                    /\ tbl[p[2]] = Absent
                                    /\ TableOf[p[1]] = TableOf[p[2]]}}

\* With the default replica identity the old tuple carries the key only.
Deletes(tbl) ==
    {[kind |-> "delete", row |-> r, to |-> r, tuple |-> Written(Null)] :
        r \in {r \in Rows : tbl[r] # Absent}}

\* TRUNCATE names a table; the row stands for the table it is in.
Truncates(tbl) ==
    {[kind |-> "truncate", row |-> r, to |-> r, tuple |-> Written(Null)] :
        r \in {r \in Rows : tbl[r] # Absent}}

Changes(tbl, v) ==
    UNION {CASE kind = "insert"     -> Inserts(tbl, v)
             [] kind = "update"     -> Updates(tbl, Written(v))
             [] kind = "touch"      -> Updates(tbl, Touched(v))
             [] kind = "rekey"      -> Rekeys(tbl, Written(v))
             [] kind = "rekeyTouch" -> Rekeys(tbl, Touched(v))
             [] kind = "delete"     -> Deletes(tbl)
             [] kind = "truncate"   -> Truncates(tbl) : kind \in ChangeKinds}

\* The image an update leaves: what the tuple carries, and the old value of
\* the columns it does not.
NewImage(old, tuple) ==
    [c \in Cols |-> IF tuple[c] = UnchangedMark THEN old[c] ELSE tuple[c]]

Effect(tbl, ch) ==
    CASE ch.kind = "insert" -> [tbl EXCEPT ![ch.row] = ch.tuple]
      [] ch.kind = "update" ->
            [r \in Rows |-> IF r = ch.to THEN NewImage(tbl[ch.row], ch.tuple)
                            ELSE IF r = ch.row THEN Absent ELSE tbl[r]]
      [] ch.kind = "delete" -> [tbl EXCEPT ![ch.row] = Absent]
      [] ch.kind = "truncate" ->
            [r \in Rows |-> IF TableOf[r] = TableOf[ch.row] THEN Absent ELSE tbl[r]]

-----------------------------------------------------------------------------
(* For the properties only: the events a consumer needs to reproduce a     *)
(* change, as the envelope's comments and docs/phase-2-correctness.md      *)
(* describe them.                                                          *)

EventsOf(ch) ==
    CASE ch.kind = "insert" -> <<buildChangeEvent("c", ch.row, ch.tuple)>>
      [] ch.kind = "update" ->
            IF ch.row = ch.to THEN <<buildChangeEvent("u", ch.to, ch.tuple)>>
            ELSE <<buildDeleteEvent(ch.row), buildChangeEvent("c", ch.to, ch.tuple)>>
      [] ch.kind = "delete" -> <<buildDeleteEvent(ch.row)>>
      [] ch.kind = "truncate" -> <<>>

-----------------------------------------------------------------------------

\* Some rows may exist before the pipeline does.
SourceInit ==
    /\ \E seeded \in SUBSET Rows :
            table = [r \in Rows |-> IF r \in seeded THEN Written(1) ELSE Absent]
    /\ wal = <<>>
    /\ version = 1

CommitOne ==
    /\ Len(wal) < MaxTxns
    /\ \E ch \in Changes(table, version + 1) :
            /\ table' = Effect(table, ch)
            /\ wal' = Append(wal, <<ch>>)
    /\ version' = version + 1

CommitPair ==
    /\ Len(wal) + 1 \in PairTxns
    /\ Len(wal) < MaxTxns
    /\ \E first \in Changes(table, version + 1) :
        \E second \in Changes(Effect(table, first), version + 2) :
            /\ table' = Effect(Effect(table, first), second)
            /\ wal' = Append(wal, <<first, second>>)
    /\ version' = version + 2

\* Work on tables outside the publication takes its place in the WAL.
CommitOther ==
    /\ Len(wal) + 1 \in OtherTxns
    /\ Len(wal) < MaxTxns
    /\ wal' = Append(wal, <<>>)
    /\ UNCHANGED <<table, version>>

SourceStep == CommitOne \/ CommitPair \/ CommitOther

\* pgoutput of PostgreSQL 15 and later sends nothing of such a transaction,
\* not even its Begin and Commit.  A TRUNCATE it does send.
Streamed(n) == wal[n] # <<>>

SourceTypeOK ==
    /\ table \in Contents
    /\ wal \in Seq(Seq(Change))
    /\ version \in Nat

=============================================================================
