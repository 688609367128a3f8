---------------------------- MODULE ChangeEvents ----------------------------
(***************************************************************************)
(* The envelope every change travels in (internal/events) and the decoder  *)
(* that builds it from pgoutput tuples (internal/reader/decode.go,         *)
(* internal/backfill rowToEvent).                                          *)
(*                                                                         *)
(* Data is abstracted to what the pipeline tells apart.  A row is a table  *)
(* and a primary key; its other columns hold versions (the number of the   *)
(* write that stored them), so that two writes are never confused.  Null   *)
(* is SQL NULL: the application never writes it, so it reaches the         *)
(* destination only when a value was lost.  A tuple on the wire carries a  *)
(* value per column, or UnchangedMark for a TOAST column that the update   *)
(* did not touch.                                                          *)
(***************************************************************************)
EXTENDS Naturals, Sequences, FiniteSets

CONSTANTS
    Tables,         \* published tables
    Rows,           \* a row is a table plus a primary key
    TableOf,        \* [Rows -> Tables]
    Partitions,     \* partitions of the one topic
    PartitionOf,    \* [Rows -> Partitions]: the Hash balancer on Key()
    Cols,           \* the columns outside the primary key
    Toast,          \* those stored out of line
    Absent,         \* "this table has no such row"
    UnchangedMark,  \* pgoutput's 'u' in place of a column's data
    Missing         \* "After has no entry for this column"

ASSUME ShapeAssumption ==
    /\ TableOf \in [Rows -> Tables]
    /\ PartitionOf \in [Rows -> Partitions]
    /\ Toast \subseteq Cols
    /\ IsFiniteSet(Rows) /\ IsFiniteSet(Partitions)

ASSUME SentinelAssumption ==
    /\ UnchangedMark \notin Nat
    /\ Missing \notin Nat
    /\ Absent \notin [Cols -> Nat]

Null == 0
Image == [Cols -> Nat]
Contents == [Rows -> Image \cup {Absent}]
Tuple == [Cols -> Nat \cup {UnchangedMark}]
Ops == {"c", "u", "d", "r"}

\* lsn is the position of the transaction in the WAL, 0 before the Commit
\* message stamps it and in snapshot reads.  A delete carries no columns.
Event == [op : Ops, row : Rows, after : [Cols -> Nat \cup {Missing}],
          unchanged : SUBSET Cols, lsn : Nat]

-----------------------------------------------------------------------------
(* The decoder.                                                            *)

UnchangedCols(tuple) == {c \in Cols : tuple[c] = UnchangedMark}

\* Faulty variant: the marker is taken for a value.
AfterKeepsMark(tuple) == tuple

After(tuple) == [c \in Cols |-> IF tuple[c] = UnchangedMark THEN Missing ELSE tuple[c]]

NoColumns == [c \in Cols |-> Missing]

\* An insert never carries UnchangedMark, so the decoder's refusal of one is
\* not reachable and is left out; a key-changing update is built as an update
\* first and so passes that check whatever its tuple holds.
buildChangeEvent(op, row, tuple) ==
    [op |-> op, row |-> row, after |-> After(tuple),
     unchanged |-> UnchangedCols(tuple), lsn |-> 0]

buildDeleteEvent(row) ==
    [op |-> "d", row |-> row, after |-> NoColumns, unchanged |-> {}, lsn |-> 0]

\* A change of the key ships the old tuple; from is the old row, to the new.
oldKeyIfChanged(from, to) == from # to

\* A row of the snapshot.
rowToEvent(row, image) ==
    [op |-> "r", row |-> row, after |-> image, unchanged |-> {}, lsn |-> 0]

=============================================================================
