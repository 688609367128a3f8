-------------------------------- MODULE Merge --------------------------------
(***************************************************************************)
(* What the writer does to one batch of one table (internal/writer         *)
(* flush.go, staging.go): collapse it to one event per row, stage those,   *)
(* and MERGE the staging table into the target.                            *)
(***************************************************************************)
EXTENDS ChangeEvents, SequencesExt

(* fold, for a row the batch has already seen.                             *)

\* Faulty variant: the last event wins whatever it lacks.
LastWins(prev, next) == TRUE

NothingToFill(prev, next) ==
    next.op = "d" \/ prev.op = "d" \/ next.unchanged = {}

Fillable(prev, next) == {c \in next.unchanged : prev.after[c] # Missing}

Filled(prev, next) ==
    [next EXCEPT !.after = [c \in Cols |-> IF c \in Fillable(prev, next)
                                           THEN prev.after[c] ELSE @[c]],
                 !.unchanged = @ \ Fillable(prev, next)]

fold(prev, next) == IF NothingToFill(prev, next) THEN next ELSE Filled(prev, next)

\* The map of dedupe after one more event.
DedupeStep(state, evt) ==
    [r \in DOMAIN state \cup {evt.row} |->
        IF r # evt.row THEN state[r]
        ELSE IF r \in DOMAIN state THEN fold(state[r], evt)
        ELSE evt]

\* One event per row of the batch.
dedupe(evts) == FoldLeft(DedupeStep, [r \in {} |-> NoColumns], evts)

-----------------------------------------------------------------------------
(* The MERGE statement, row by row.                                        *)

\* Faulty variant: the column is staged whether After holds it or not.
columnUnchecked(evt, c) == evt.after[c]

\* A column After does not hold is NULL in staging.
columnValue(evt, c) == IF evt.after[c] = Missing THEN Null ELSE evt.after[c]

Inserted(evt) == [c \in Cols |-> columnValue(evt, c)]

\* Faulty variant: the MERGE sets every column.
OverwrittenAll(image, evt) == [c \in Cols |-> columnValue(evt, c)]

Overwritten(image, evt) ==
    [c \in Cols |-> IF c \in evt.unchanged THEN image[c] ELSE columnValue(evt, c)]

mergeRow(image, evt) ==
    CASE image # Absent /\ evt.op = "d" -> Absent
      [] image # Absent /\ evt.op # "d" -> Overwritten(image, evt)
      [] image = Absent /\ evt.op # "d" -> Inserted(evt)
      [] image = Absent /\ evt.op = "d" -> Absent

mergeStaging(contents, staged) ==
    [r \in Rows |-> IF r \in DOMAIN staged THEN mergeRow(contents[r], staged[r])
                    ELSE contents[r]]

flushTable(contents, evts) == mergeStaging(contents, dedupe(evts))

-----------------------------------------------------------------------------
(* A reference for the batch: the events applied one flush at a time.      *)

ApplyOne(contents, evt) == [contents EXCEPT ![evt.row] = mergeRow(@, evt)]

ApplyAll(contents, evts) == FoldLeft(ApplyOne, contents, evts)

\* The events of the rows given, in their order.
OfRows(evts, rows) ==
    FoldLeft(LAMBDA kept, evt : IF evt.row \in rows THEN Append(kept, evt) ELSE kept,
             <<>>, evts)

OfRow(evts, r) == OfRows(evts, {r})

=============================================================================
