------------------------------- MODULE Schema -------------------------------
(***************************************************************************)
(* One typed table whose columns may change under the pipeline: what the   *)
(* relation cache, the backfill's column list, ensureTable, representative *)
(* and the staging table make of it (internal/reader/relcache.go,          *)
(* internal/backfill/schema.go, internal/writer ddl.go, flush.go and       *)
(* staging.go).  Reader and topic make no mistakes here; transactions,     *)
(* partitions and TOAST are left to the other modules.                     *)
(***************************************************************************)
EXTENDS Values, SequencesExt

CONSTANTS
    Keys,           \* values of the primary key
    KeyType,
    KeyForm,        \* [texts of KeyType -> text], for those that are not the
                    \* only ones its = takes for equal: one text for all
    Columns,        \* every other column the table may ever have
    InitialCols,    \* those it starts with
    ColType,        \* [Columns -> types]
    Sample,         \* [types -> sets of values]
    DDL,            \* the kinds of ALTER TABLE issued
    MaxDDL,         \* bound on their number
    MaxEvents,      \* bound on the length of the topic
    FlushMax        \* flushMaxEvents

ASSUME SchemaAssumption ==
    /\ IsFiniteSet(Keys) /\ Null \notin Keys
    /\ IsFiniteSet(Columns) /\ "no such table" \notin Columns
    /\ InitialCols \subseteq Columns
    /\ DDL \subseteq {"add", "drop", "rename"}
    /\ MaxDDL \in Nat /\ MaxEvents \in Nat /\ FlushMax \in Nat \ {0}
    /\ Cardinality(Keys) <= MaxEvents

VARIABLES
    srcCols,    \* the table's columns at the source, beside the key
    rows,       \* its rows: partial function from Keys
    altered,    \* how many ALTER TABLEs there were
    topic,      \* the events, as the writer decodes them
    offset,     \* the group's committed offset
    taken,      \* messages in the buffer
    destCols,   \* the columns at the destination, NoTable before there is one
    destRows    \* its rows: partial function from stored keys

sourceVars == <<srcCols, rows, altered, topic>>
writerVars == <<offset, taken, destCols, destRows>>
vars == <<sourceVars, writerVars>>

NoTable == {"no such table"}
NoRows == [k \in {} |-> Null]

-----------------------------------------------------------------------------
(* Events.                                                                 *)

Value(text, type) == Decode(TextToValue(text, type))

\* A column value that came by the stream, or by the snapshot.
Streamed(v, type) == IF v = Null THEN Nil ELSE Value(TupleText(type, v), type)

\* Faulty variant: the snapshot's text is shipped as it is.
CopiedAsText(v, type) == IF v = Null THEN Nil ELSE String(CastText(type, v))

Copied(v, type) == IF v = Null THEN Nil ELSE Value(CastText(type, v), type)

rowToEvent(k, image) ==
    [op |-> "r", pk |-> Copied(k, KeyType), types |-> DOMAIN image,
     after |-> [c \in DOMAIN image |-> Copied(image[c], ColType[c])]]

\* The Relation message gives the columns the tuple is decoded with.
buildChangeEvent(op, k, image) ==
    [op |-> op, pk |-> Streamed(k, KeyType), types |-> DOMAIN image,
     after |-> [c \in DOMAIN image |-> Streamed(image[c], ColType[c])]]

buildDeleteEvent(k, cols) ==
    [op |-> "d", pk |-> Streamed(k, KeyType), types |-> cols, after |-> NoRows]

-----------------------------------------------------------------------------
(* The source.                                                             *)

Images(cols) ==
    {image \in [cols -> UNION {Sample[ColType[c]] : c \in Columns}] :
        \A c \in cols : image[c] \in Sample[ColType[c]]}

\* The key type's =, here and at the destination.  What lands as text is
\* compared as text.
Compared(k) ==
    IF destType(TypeNameForOID(KeyType)) # "text" /\ k \in DOMAIN KeyForm THEN KeyForm[k] ELSE k

Alike(k, l) == Compared(k) = Compared(l)

\* The columns the catalogue has in the snapshot.
loadColumns == srcCols

\* The rows there are have been copied.
Init ==
    /\ srcCols = InitialCols
    /\ \E seeded \in SUBSET Keys :
            /\ \A k, l \in seeded : Alike(k, l) => k = l
            /\ rows \in [seeded -> Images(InitialCols)]
    /\ altered = 0
    /\ topic = LET ks == SetToSeq(DOMAIN rows)
               IN  [i \in DOMAIN ks |->
                        rowToEvent(ks[i], [c \in loadColumns |-> rows[ks[i]][c]])]
    /\ offset = 0
    /\ taken = 0
    /\ destCols = NoTable
    /\ destRows = NoRows

Write ==
    /\ Len(topic) < MaxEvents
    /\ \E k \in Keys, image \in Images(srcCols) :
            /\ \A l \in DOMAIN rows : Alike(k, l) => k = l
            /\ rows' = [x \in DOMAIN rows \cup {k} |-> IF x = k THEN image ELSE rows[x]]
            /\ topic' = Append(topic, buildChangeEvent(IF k \in DOMAIN rows THEN "u" ELSE "c", k, image))
    /\ UNCHANGED <<srcCols, altered, writerVars>>

Delete ==
    /\ Len(topic) < MaxEvents
    /\ \E k \in DOMAIN rows :
            /\ rows' = [x \in DOMAIN rows \ {k} |-> rows[x]]
            /\ topic' = Append(topic, buildDeleteEvent(k, srcCols))
    /\ UNCHANGED <<srcCols, altered, writerVars>>

\* ALTER TABLE puts nothing in the stream.
Alter(kind, cols, image(_)) ==
    /\ kind \in DDL
    /\ altered < MaxDDL
    /\ altered' = altered + 1
    /\ srcCols' = cols
    /\ rows' = [k \in DOMAIN rows |-> image(rows[k])]
    /\ UNCHANGED <<topic, writerVars>>

AddColumn(c) ==
    /\ c \notin srcCols
    /\ Alter("add", srcCols \cup {c},
             LAMBDA row : [x \in srcCols \cup {c} |-> IF x = c THEN Null ELSE row[x]])

DropColumn(c) ==
    /\ c \in srcCols
    /\ Alter("drop", srcCols \ {c}, LAMBDA row : [x \in srcCols \ {c} |-> row[x]])

RenameColumn(a, b) ==
    /\ a \in srcCols /\ b \notin srcCols /\ ColType[a] = ColType[b]
    /\ Alter("rename", (srcCols \ {a}) \cup {b},
             LAMBDA row : [x \in (srcCols \ {a}) \cup {b} |-> IF x = b THEN row[a] ELSE row[x]])

-----------------------------------------------------------------------------
(* The writer.                                                             *)

Fetch ==
    /\ taken < FlushMax
    /\ offset + taken < Len(topic)
    /\ taken' = taken + 1
    /\ UNCHANGED <<sourceVars, offset, destCols, destRows>>

Batch == SubSeq(topic, offset + 1, offset + taken)

Fuller(rep, evt) == IF Cardinality(evt.types) > Cardinality(rep.types) THEN evt ELSE rep

\* Faulty variant: any event will do.
FirstEvent(evts) == Head(evts)

\* The event with the most columns, the first of those.
representative(evts) == FoldLeft(Fuller, Head(evts), Tail(evts))

\* The columns a flush of the batch works with.
orderedColumns == representative(Batch).types

\* Faulty variant: the table is created anew.
TableRecreated == orderedColumns

\* An existing table is left as it is.
ensureTable == IF destCols = NoTable THEN orderedColumns ELSE destCols

\* No TOAST here: fold keeps the last event of a key.
dedupe(evts) ==
    {evts[i] : i \in {i \in DOMAIN evts : \A j \in (i + 1)..Len(evts) : evts[j].pk # evts[i].pk}}

StoredKey(evt) == Stored(evt.pk, KeyType)

columnValue(evt, c) == IF c \in DOMAIN evt.after THEN evt.after[c] ELSE Nil

Staged(evt, c) == Stored(columnValue(evt, c), ColType[c])

\* ON t.pk = s.pk
Matched(evt) == {k \in DOMAIN destRows : Alike(k, StoredKey(evt))}

\* MERGE may touch a row once, and a key may be inserted once.
TouchedTwice(e, f) ==
    /\ e # f
    /\ Alike(StoredKey(e), StoredKey(f))
    /\ Matched(e) # {} \/ (e.op # "d" /\ f.op # "d")

Refused ==
    \/ ~(orderedColumns \subseteq ensureTable)
    \/ \E e, f \in dedupe(Batch) : TouchedTwice(e, f)

\* An UPDATE sets no key column: a matched row keeps the key it has.
Target(evt) == IF Matched(evt) = {} THEN StoredKey(evt) ELSE CHOOSE k \in Matched(evt) : TRUE

\* The row an event leaves at the destination.
mergeRow(evt) ==
    [c \in ensureTable |->
        IF c \in orderedColumns THEN Staged(evt, c)
        ELSE IF Matched(evt) # {} THEN destRows[Target(evt)][c]
        ELSE Null]

mergeStaging ==
    LET batch == dedupe(Batch)
        kept == DOMAIN destRows \ UNION {Matched(e) : e \in batch}
        set == {e \in batch : e.op # "d"}
    IN  [k \in kept \cup {Target(e) : e \in set} |->
            IF k \in kept THEN destRows[k]
            ELSE mergeRow(CHOOSE e \in set : Target(e) = k)]

\* flushTable.  The process may die before the offset is committed.
Flush ==
    /\ taken > 0
    /\ ~Refused
    /\ destCols' = ensureTable
    /\ destRows' = mergeStaging
    /\ offset' \in {offset, offset + taken}
    /\ taken' = 0
    /\ UNCHANGED sourceVars

\* The transaction fails, the table just created stays, and Run returns: a new
\* process fetches the batch again.
FlushFails ==
    /\ taken > 0
    /\ Refused
    /\ destCols' = ensureTable
    /\ taken' = 0
    /\ UNCHANGED <<sourceVars, offset, destRows>>

Next ==
    \/ Write \/ Delete
    \/ \E c \in Columns : AddColumn(c) \/ DropColumn(c)
    \/ \E a, b \in Columns : RenameColumn(a, b)
    \/ Fetch \/ Flush \/ FlushFails

Spec == Init /\ [][Next]_vars

-----------------------------------------------------------------------------

(* The types of every variable. *)
TypeOK ==
    /\ srcCols \subseteq Columns
    /\ DOMAIN rows \subseteq Keys
    /\ \A k \in DOMAIN rows : DOMAIN rows[k] = srcCols
    /\ altered \in 0..MaxDDL
    /\ Len(topic) <= MaxEvents
    /\ offset + taken <= Len(topic)
    /\ taken <= FlushMax
    /\ destCols = NoTable \/ destCols \subseteq Columns
    /\ \A k \in DOMAIN destRows : DOMAIN destRows[k] = destCols

LastOfKey(i) == \A j \in (i + 1)..Len(topic) : topic[j].pk # topic[i].pk

\* Of any two events in the topic one has all the columns of the other.
OneIsFuller ==
    \A i, j \in DOMAIN topic :
        topic[i].types \subseteq topic[j].types \/ topic[j].types \subseteq topic[i].types

Arrived(evt) ==
    /\ StoredKey(evt) \in DOMAIN destRows
    /\ \A c \in DOMAIN evt.after :
            c \in destCols /\ destRows[StoredKey(evt)][c] = Staged(evt, c)

(* A committed offset means that the columns of the events before it are   *)
(* at the destination: a batch that mixes events from before and after an  *)
(* ALTER TABLE is applied with all its columns or refused, never with some *)
(* of them (flush.go:106-108: representative "guards against mixed         *)
(* batches").  It does as long as, of any two events in the topic, one     *)
(* has all the columns of the other, which a rename breaks.                *)
NothingDropped ==
    OneIsFuller =>
        \A i \in 1..offset : LastOfKey(i) /\ topic[i].op # "d" => Arrived(topic[i])

(* "If they disagree, one row produces two dedupe keys and the writer's    *)
(* MERGE fails" (pgval.go:2-5): no row of a batch is touched twice,        *)
(* whichever way its events came.  A key type whose = takes two printouts  *)
(* for equal, as numeric does 1.0 and 1.00, breaks it by itself: the       *)
(* dedupe keys are printouts, the MERGE compares values.                   *)
OneKeyPerRow == taken > 0 => \A e, f \in dedupe(Batch) : ~TouchedTwice(e, f)

(* What verify digests: once everything is delivered, source and           *)
(* destination hold the same keys, and print the same in every column both *)
(* have (backfill.go:73-75: a row is "identical from both paths").  It     *)
(* takes a second ALTER TABLE to break that: a column dropped and added    *)
(* again keeps its old values at the destination, and one renamed before   *)
(* the table is created there comes without the values it had.             *)
SamePrintout ==
    altered <= 1 /\ offset = Len(topic) =>
        /\ DOMAIN destRows = DOMAIN rows
        /\ \A k \in DOMAIN rows : \A c \in srcCols \cap destCols :
                destRows[k][c] = rows[k][c]

=============================================================================
