---------------------------- MODULE WriterProofs ----------------------------
(***************************************************************************)
(* Proofs about the writer, for all constants.  First what fold and the    *)
(* MERGE statement do to one row, and from that what a collapsed batch, a  *)
(* batch applied twice and a stretch of the topic applied again do to a    *)
(* table; the folds of Merge are turned into functions for that            *)
(* (FoldProofs), and facts about sequences are proved of the set of        *)
(* sequences that satisfy them.  Then the types of the writer's variables, *)
(* the group's offsets and the buffer, along any step of the writer,       *)
(* whoever feeds the topic.  Last what a change of the source does to a    *)
(* row, and what its events do.                                            *)
(***************************************************************************)
EXTENDS Recovery, FoldProofs

\* What the decoder builds: a column is either sent or marked unchanged.
WellFormed(evt) ==
    /\ evt \in Event
    /\ evt.op # "d" => \A c \in Cols : c \in evt.unchanged <=> evt.after[c] = Missing

Stored == Image \cup {Absent}

(* Every event of the decoder and of the backfill is well formed.          *)
LEMMA DecoderWellFormed ==
    ASSUME NEW row \in Rows
    PROVE  /\ \A op \in Ops, tuple \in Tuple : WellFormed(buildChangeEvent(op, row, tuple))
           /\ WellFormed(buildDeleteEvent(row))
           /\ \A image \in Image : WellFormed(rowToEvent(row, image))
<1>1. ASSUME NEW op \in Ops, NEW tuple \in Tuple
      PROVE  WellFormed(buildChangeEvent(op, row, tuple))
  <2>1. After(tuple) \in [Cols -> Nat \cup {Missing}]
    BY <1>1 DEF After, Tuple
  <2>2. UnchangedCols(tuple) \in SUBSET Cols
    BY DEF UnchangedCols
  <2>3. buildChangeEvent(op, row, tuple) \in Event
    BY <1>1, <2>1, <2>2 DEF buildChangeEvent, Event
  <2>4. \A c \in Cols : c \in UnchangedCols(tuple) <=> After(tuple)[c] = Missing
    BY <1>1, SentinelAssumption DEF UnchangedCols, After, Tuple
  <2> QED
    BY <2>3, <2>4 DEF WellFormed, buildChangeEvent
<1>2. WellFormed(buildDeleteEvent(row))
  BY DEF buildDeleteEvent, Event, NoColumns, Ops, WellFormed
<1>3. ASSUME NEW image \in Image
      PROVE  WellFormed(rowToEvent(row, image))
  BY <1>3, SentinelAssumption DEF rowToEvent, Event, Image, Ops, WellFormed
<1> QED
  BY <1>1, <1>2, <1>3

(* fold returns a well-formed event of the later event's kind.             *)
LEMMA FoldWellFormed ==
    ASSUME NEW prev, NEW next, WellFormed(prev), WellFormed(next)
    PROVE  WellFormed(fold(prev, next)) /\ fold(prev, next).op = next.op
<1>1. CASE NothingToFill(prev, next)
  BY <1>1 DEF fold
<1>2. CASE ~NothingToFill(prev, next)
  <2> DEFINE aft == [c \in Cols |-> IF c \in Fillable(prev, next) THEN prev.after[c] ELSE next.after[c]]
             unc == next.unchanged \ Fillable(prev, next)
  <2>1. fold(prev, next) = [next EXCEPT !.after = aft, !.unchanged = unc]
    BY <1>2 DEF fold, Filled, WellFormed, Event
  <2>2. aft \in [Cols -> Nat \cup {Missing}] /\ unc \in SUBSET Cols
    BY DEF WellFormed, Event
  <2>3. ASSUME NEW c \in Cols
        PROVE  c \in unc <=> aft[c] = Missing
    <3>1. c \in next.unchanged <=> next.after[c] = Missing
      BY <1>2 DEF WellFormed, NothingToFill
    <3>2. c \in Fillable(prev, next) <=> c \in next.unchanged /\ prev.after[c] # Missing
      BY DEF Fillable
    <3> QED
      BY <3>1, <3>2
  <2> HIDE DEF aft, unc
  <2> DEFINE both == [next EXCEPT !.after = aft, !.unchanged = unc]
  <2>4. both \in Event
    BY <2>2 DEF WellFormed, Event
  <2>5. both.op = next.op /\ both.after = aft /\ both.unchanged = unc
    BY DEF WellFormed, Event
  <2> HIDE DEF both
  <2>6. WellFormed(both)
    BY <2>3, <2>4, <2>5 DEF WellFormed
  <2> QED
    BY <2>1, <2>5, <2>6 DEF both
<1> QED
  BY <1>1, <1>2

(* Column by column, fold takes from the earlier event what the later one  *)
(* leaves out.                                                             *)
LEMMA FoldColumns ==
    ASSUME NEW prev, NEW next, WellFormed(prev), WellFormed(next),
           prev.op # "d", next.op # "d", NEW c \in Cols
    PROVE  /\ c \in fold(prev, next).unchanged <=> c \in next.unchanged /\ prev.after[c] = Missing
           /\ fold(prev, next).after[c] = IF c \in next.unchanged THEN prev.after[c] ELSE next.after[c]
<1>1. next.after[c] = Missing <=> c \in next.unchanged
  BY DEF WellFormed
<1>2. CASE NothingToFill(prev, next)
  <2>1. next.unchanged = {} /\ fold(prev, next) = next
    BY <1>2 DEF NothingToFill, fold
  <2> QED
    BY <2>1
<1>3. CASE ~NothingToFill(prev, next)
  <2>1. fold(prev, next).after[c] = IF c \in Fillable(prev, next) THEN prev.after[c] ELSE next.after[c]
    BY <1>3 DEF fold, Filled, WellFormed, Event
  <2>2. fold(prev, next).unchanged = next.unchanged \ Fillable(prev, next)
    BY <1>3 DEF fold, Filled, WellFormed, Event
  <2>3. c \in Fillable(prev, next) <=> c \in next.unchanged /\ prev.after[c] # Missing
    BY DEF Fillable
  <2> QED
    BY <1>1, <2>1, <2>2, <2>3
<1> QED
  BY <1>2, <1>3

(* A merged row is a stored row: staging turns what is missing into NULL.  *)
LEMMA InsertedType ==
    ASSUME NEW evt, WellFormed(evt)
    PROVE  Inserted(evt) \in Image
BY DEF Inserted, columnValue, Image, WellFormed, Event, Null

(* An updated row is a stored row: unchanged columns keep what was stored. *)
LEMMA OverwrittenType ==
    ASSUME NEW image \in Image, NEW evt, WellFormed(evt)
    PROVE  Overwritten(image, evt) \in Image
BY DEF Overwritten, columnValue, Image, WellFormed, Event, Null

(* Merging two events of a row one after the other is merging their fold,  *)
(* whatever the destination holds: no TOAST value is lost with the event   *)
(* that is dropped (flush.go:50-53).  An update that leaves columns out    *)
(* does not directly follow the row's delete.                              *)
THEOREM FoldMerges ==
    ASSUME NEW image \in Stored, NEW prev, NEW next,
           WellFormed(prev), WellFormed(next),
           prev.op = "d" => next.unchanged = {}
    PROVE  mergeRow(mergeRow(image, prev), next) = mergeRow(image, fold(prev, next))
<1>1. Inserted(prev) \in Image
  BY InsertedType
<1>2. CASE next.op = "d"
  <2>1. fold(prev, next) = next
    BY <1>2 DEF fold, NothingToFill
  <2>2. mergeRow(mergeRow(image, prev), next) = Absent /\ mergeRow(image, next) = Absent
    BY <1>2 DEF mergeRow
  <2> QED
    BY <2>1, <2>2
<1>3. CASE next.op # "d" /\ prev.op = "d"
  <2>1. fold(prev, next) = next /\ mergeRow(image, prev) = Absent
    BY <1>3 DEF fold, NothingToFill, mergeRow
  <2>2. Overwritten(image, next) = Inserted(next)
    BY <1>3 DEF Overwritten, Inserted
  <2> QED
    BY <1>3, <2>1, <2>2 DEF mergeRow
<1>4. CASE next.op # "d" /\ prev.op # "d"
  <2> DEFINE both == fold(prev, next)
  <2>1. \A c \in Cols : c \in both.unchanged <=> c \in next.unchanged /\ prev.after[c] = Missing
    BY <1>4, FoldColumns
  <2>2. \A c \in Cols : both.after[c] = IF c \in next.unchanged THEN prev.after[c] ELSE next.after[c]
    BY <1>4, FoldColumns
  <2>3. both.op # "d"
    BY <1>4, FoldWellFormed
  <2> HIDE DEF both
  <2>4. CASE image = Absent
    <3>1. \A c \in Cols : Overwritten(Inserted(prev), next)[c] = Inserted(both)[c]
      BY <2>2 DEF Overwritten, Inserted, columnValue
    <3>2. Overwritten(Inserted(prev), next) = Inserted(both)
      BY <3>1 DEF Overwritten, Inserted
    <3> QED
      BY <1>1, <1>4, <2>3, <2>4, <3>2, SentinelAssumption DEF mergeRow, Image, both
  <2>5. CASE image # Absent
    <3>1. Overwritten(image, prev) # Absent
      BY <2>5, OverwrittenType, SentinelAssumption DEF Stored, Image
    <3>2. \A c \in Cols : Overwritten(Overwritten(image, prev), next)[c] = Overwritten(image, both)[c]
      BY <1>4, <2>1, <2>2 DEF Overwritten, columnValue, WellFormed
    <3>3. Overwritten(Overwritten(image, prev), next) = Overwritten(image, both)
      BY <3>2 DEF Overwritten
    <3> QED
      BY <1>4, <2>3, <2>5, <3>1, <3>3 DEF mergeRow, both
  <2> QED
    BY <2>4, <2>5
<1> QED
  BY <1>2, <1>3, <1>4

(* Delivering a batch that was already merged changes nothing: "replaying  *)
(* the same batch re-asserts the same final states" (flush.go:14-15).      *)
THEOREM ReplayedBatch ==
    ASSUME NEW contents \in Contents, NEW staged,
           \A r \in DOMAIN staged : WellFormed(staged[r])
    PROVE  mergeStaging(mergeStaging(contents, staged), staged) = mergeStaging(contents, staged)
<1>1. ASSUME NEW image \in Stored, NEW evt, WellFormed(evt)
      PROVE  mergeRow(mergeRow(image, evt), evt) = mergeRow(image, evt)
  <2>1. CASE evt.op = "d"
    BY <2>1 DEF mergeRow
  <2>2. CASE evt.op # "d" /\ image = Absent
    <3>1. Inserted(evt) # Absent
      BY <1>1, InsertedType, SentinelAssumption DEF Image
    <3>2. Overwritten(Inserted(evt), evt) = Inserted(evt)
      BY DEF Overwritten, Inserted
    <3> QED
      BY <2>2, <3>1, <3>2 DEF mergeRow
  <2>3. CASE evt.op # "d" /\ image # Absent
    <3>1. Overwritten(image, evt) # Absent
      BY <1>1, <2>3, OverwrittenType, SentinelAssumption DEF Stored, Image
    <3>2. Overwritten(Overwritten(image, evt), evt) = Overwritten(image, evt)
      BY DEF Overwritten
    <3> QED
      BY <2>3, <3>1, <3>2 DEF mergeRow
  <2> QED
    BY <2>1, <2>2, <2>3
<1>2. \A r \in Rows : contents[r] \in Stored
  BY DEF Contents, Stored
<1> QED
  BY <1>1, <1>2 DEF mergeStaging

-----------------------------------------------------------------------------
(* Batches.                                                                *)

\* The events the decoder and the backfill build.
Built == {evt \in Event : WellFormed(evt)}

(* Merging an event leaves a stored row, or none.                          *)
LEMMA MergeRowType ==
    ASSUME NEW image \in Stored, NEW evt \in Built
    PROVE  mergeRow(image, evt) \in Stored
<1>1. WellFormed(evt)
  BY DEF Built
<1>2. Inserted(evt) \in Image
  BY <1>1, InsertedType
<1>3. CASE image = Absent
  BY <1>2, <1>3 DEF mergeRow, Stored
<1>4. CASE image # Absent
  <2>1. Overwritten(image, evt) \in Image
    BY <1>1, <1>4, OverwrittenType DEF Stored
  <2> QED
    BY <1>4, <2>1 DEF mergeRow, Stored
<1> QED
  BY <1>3, <1>4

\* ApplyOne as a function.
ApplyF == [p \in Contents \X Built |-> ApplyOne(p[1], p[2])]

(* Merging an event into well-formed contents leaves them well-formed.     *)
LEMMA ApplyOneType ==
    ASSUME NEW contents \in Contents, NEW evt \in Built
    PROVE  /\ ApplyOne(contents, evt) \in Contents
           /\ ApplyF[<<contents, evt>>] = ApplyOne(contents, evt)
<1>1. evt.row \in Rows /\ contents[evt.row] \in Stored
  BY DEF Built, Event, Contents, Stored
<1>2. mergeRow(contents[evt.row], evt) \in Stored
  BY <1>1, MergeRowType
<1> QED
  BY <1>1, <1>2 DEF ApplyOne, ApplyF, Contents, Stored

(* ApplyF is a function that a fold may use.                               *)
LEMMA ApplyFType == ApplyF \in [Contents \X Built -> Contents]
<1>1. \A p \in Contents \X Built : ApplyOne(p[1], p[2]) \in Contents
  BY ApplyOneType
<1> QED
  BY <1>1 DEF ApplyF

(* ApplyAll is the fold of that function.                                  *)
LEMMA ApplyAllIsFold ==
    ASSUME NEW c \in Contents, NEW s \in Seq(Built)
    PROVE  ApplyAll(c, s) = FoldF(ApplyF, c, s)
<1> DEFINE Body(it) == [S \in SUBSET DOMAIN s |->
                          IF S = {} THEN c ELSE ApplyOne(it[S \ {Max(S)}], s[Max(S)])]
           chosen == CHOOSE it : it = Body(it)
<1>0. Len(s) \in Nat /\ DOMAIN s = 1..Len(s) /\ \A n \in DOMAIN s : s[n] \in Built
  BY LenProperties, ElementOfSeq
<1>1. \E it : it = Body(it)
  <2>1. Unfolding(Contents, ApplyF, c, s)
    BY ApplyFType, FoldExists
  <2>2. PICK it \in [SUBSET (DOMAIN s) -> Contents] : Solves(it, ApplyF, c, s)
    BY <2>1 DEF Unfolding
  <2>3. ASSUME NEW S \in SUBSET (DOMAIN s), S # {}
        PROVE  it[S] = ApplyOne(it[S \ {Max(S)}], s[Max(S)])
    <3>1. Max(S) \in S /\ it[S] = ApplyF[<<it[S \ {Max(S)}], s[Max(S)]>>]
      BY <2>2, <2>3 DEF Solves
    <3>2. it[S \ {Max(S)}] \in Contents /\ s[Max(S)] \in Built
      BY <1>0, <3>1
    <3> QED
      BY <3>1, <3>2, ApplyOneType
  <2>4. it[{}] = c
    BY <2>2 DEF Solves
  <2>5. it = Body(it)
    BY <2>3, <2>4
  <2> QED
    BY <2>5
<1>2. chosen = Body(chosen)
  BY <1>1
<1>3. ApplyAll(c, s) = chosen[DOMAIN s]
  BY DEF ApplyAll, FoldLeft, MapThenFoldSet
<1> HIDE DEF chosen
<1>4. chosen[{}] = c
  BY <1>2
<1>5. ASSUME NEW n \in 1..Len(s), chosen[1..(n-1)] \in Contents
      PROVE  chosen[1..n] = ApplyF[<<chosen[1..(n-1)], s[n]>>]
  <2>1. chosen[1..n] = ApplyOne(chosen[(1..n) \ {Max(1..n)}], s[Max(1..n)])
    BY <1>0, <1>2, UpToInDomain
  <2>2. Max(1..n) = n /\ (1..n) \ {n} = 1..(n-1)
    BY <1>0, UpToInDomain
  <2>3. s[n] \in Built
    BY <1>0
  <2> QED
    BY <1>5, <2>1, <2>2, <2>3, ApplyOneType
<1>6. Iterated(chosen, Contents, ApplyF, c, s)
  BY <1>4, <1>5 DEF Iterated
<1>7. Folds(chosen, ApplyF, c, s)
  BY <1>6, ApplyFType, FoldFUnique
<1> QED
  BY <1>3, <1>7 DEF Folds

\* The map of dedupe.
Maps == UNION {[D -> Built] : D \in SUBSET Rows}

NoEvent == [r \in {} |-> NoColumns]

DedupeF == [p \in Maps \X Built |-> DedupeStep(p[1], p[2])]

(* The map of dedupe stays a map from rows to well-formed events.          *)
LEMMA DedupeStepType ==
    ASSUME NEW state \in Maps, NEW evt \in Built
    PROVE  /\ DedupeStep(state, evt) \in Maps
           /\ DedupeF[<<state, evt>>] = DedupeStep(state, evt)
<1>1. PICK D \in SUBSET Rows : state \in [D -> Built]
  BY DEF Maps
<1>2. evt.row \in Rows /\ WellFormed(evt)
  BY DEF Built, Event
<1>3. ASSUME NEW r \in D
      PROVE  fold(state[r], evt) \in Built
  BY <1>1, <1>2, FoldWellFormed DEF Built, WellFormed
<1>4. DedupeStep(state, evt) \in [D \cup {evt.row} -> Built]
  BY <1>1, <1>3 DEF DedupeStep
<1>5. D \cup {evt.row} \in SUBSET Rows
  BY <1>2
<1> QED
  BY <1>4, <1>5 DEF Maps, DedupeF

(* So does DedupeF, from the empty map on.                                 *)
LEMMA DedupeFType == DedupeF \in [Maps \X Built -> Maps] /\ NoEvent \in Maps
<1>1. \A p \in Maps \X Built : DedupeStep(p[1], p[2]) \in Maps
  BY DedupeStepType
<1>2. NoEvent \in [{} -> Built]
  BY DEF NoEvent
<1> QED
  BY <1>1, <1>2 DEF DedupeF, Maps

(* dedupe is the fold of that function.                                    *)
LEMMA DedupeIsFold ==
    ASSUME NEW s \in Seq(Built)
    PROVE  dedupe(s) = FoldF(DedupeF, NoEvent, s)
<1> DEFINE Body(it) == [S \in SUBSET DOMAIN s |->
                          IF S = {} THEN NoEvent ELSE DedupeStep(it[S \ {Max(S)}], s[Max(S)])]
           chosen == CHOOSE it : it = Body(it)
<1>0. /\ Len(s) \in Nat /\ DOMAIN s = 1..Len(s) /\ \A n \in DOMAIN s : s[n] \in Built
      /\ DedupeF \in [Maps \X Built -> Maps] /\ NoEvent \in Maps
  BY LenProperties, ElementOfSeq, DedupeFType
<1>1. \E it : it = Body(it)
  <2>1. Unfolding(Maps, DedupeF, NoEvent, s)
    BY <1>0, FoldExists
  <2>2. PICK it \in [SUBSET (DOMAIN s) -> Maps] : Solves(it, DedupeF, NoEvent, s)
    BY <2>1 DEF Unfolding
  <2>3. ASSUME NEW S \in SUBSET (DOMAIN s), S # {}
        PROVE  it[S] = DedupeStep(it[S \ {Max(S)}], s[Max(S)])
    <3>1. Max(S) \in S /\ it[S] = DedupeF[<<it[S \ {Max(S)}], s[Max(S)]>>]
      BY <2>2, <2>3 DEF Solves
    <3>2. it[S \ {Max(S)}] \in Maps /\ s[Max(S)] \in Built
      BY <1>0, <3>1
    <3> QED
      BY <3>1, <3>2, DedupeStepType
  <2>4. it[{}] = NoEvent
    BY <2>2 DEF Solves
  <2>5. it = Body(it)
    BY <2>3, <2>4
  <2> QED
    BY <2>5
<1>2. chosen = Body(chosen)
  BY <1>1
<1>3. dedupe(s) = chosen[DOMAIN s]
  BY DEF dedupe, NoEvent, FoldLeft, MapThenFoldSet
<1> HIDE DEF chosen
<1>4. chosen[{}] = NoEvent
  BY <1>2
<1>5. ASSUME NEW n \in 1..Len(s), chosen[1..(n-1)] \in Maps
      PROVE  chosen[1..n] = DedupeF[<<chosen[1..(n-1)], s[n]>>]
  <2>1. chosen[1..n] = DedupeStep(chosen[(1..n) \ {Max(1..n)}], s[Max(1..n)])
    BY <1>0, <1>2, UpToInDomain
  <2>2. Max(1..n) = n /\ (1..n) \ {n} = 1..(n-1)
    BY <1>0, UpToInDomain
  <2>3. s[n] \in Built
    BY <1>0
  <2> QED
    BY <1>5, <2>1, <2>2, <2>3, DedupeStepType
<1>6. Iterated(chosen, Maps, DedupeF, NoEvent, s)
  BY <1>4, <1>5 DEF Iterated
<1>7. Folds(chosen, DedupeF, NoEvent, s)
  BY <1>0, <1>6, FoldFUnique
<1> QED
  BY <1>3, <1>7 DEF Folds

\* One step of OfRows.
Kept(rows, kept, evt) == IF evt.row \in rows THEN Append(kept, evt) ELSE kept

KeptF(rows) == [p \in Seq(Built) \X Built |-> Kept(rows, p[1], p[2])]

(* A step of OfRows keeps the sequence well-formed.                        *)
LEMMA KeptType ==
    ASSUME NEW rows, NEW kept \in Seq(Built), NEW evt \in Built
    PROVE  /\ Kept(rows, kept, evt) \in Seq(Built)
           /\ KeptF(rows)[<<kept, evt>>] = Kept(rows, kept, evt)
BY AppendProperties DEF Kept, KeptF

(* KeptF is a function that a fold may use.                                *)
LEMMA KeptFType ==
    ASSUME NEW rows
    PROVE  KeptF(rows) \in [Seq(Built) \X Built -> Seq(Built)] /\ <<>> \in Seq(Built)
<1>1. \A p \in Seq(Built) \X Built : Kept(rows, p[1], p[2]) \in Seq(Built)
  BY KeptType
<1> QED
  BY <1>1, EmptySeq DEF KeptF

(* OfRows is the fold of that function.                                    *)
LEMMA OfRowsIsFold ==
    ASSUME NEW rows, NEW s \in Seq(Built)
    PROVE  OfRows(s, rows) = FoldF(KeptF(rows), <<>>, s)
<1> DEFINE Body(it) == [S \in SUBSET DOMAIN s |->
                          IF S = {} THEN <<>> ELSE Kept(rows, it[S \ {Max(S)}], s[Max(S)])]
           chosen == CHOOSE it : it = Body(it)
<1>0. /\ Len(s) \in Nat /\ DOMAIN s = 1..Len(s) /\ \A n \in DOMAIN s : s[n] \in Built
      /\ KeptF(rows) \in [Seq(Built) \X Built -> Seq(Built)] /\ <<>> \in Seq(Built)
  BY LenProperties, ElementOfSeq, KeptFType
<1>1. \E it : it = Body(it)
  <2>1. Unfolding(Seq(Built), KeptF(rows), <<>>, s)
    BY <1>0, FoldExists
  <2>2. PICK it \in [SUBSET (DOMAIN s) -> Seq(Built)] : Solves(it, KeptF(rows), <<>>, s)
    BY <2>1 DEF Unfolding
  <2>3. ASSUME NEW S \in SUBSET (DOMAIN s), S # {}
        PROVE  it[S] = Kept(rows, it[S \ {Max(S)}], s[Max(S)])
    <3>1. Max(S) \in S /\ it[S] = KeptF(rows)[<<it[S \ {Max(S)}], s[Max(S)]>>]
      BY <2>2, <2>3 DEF Solves
    <3>2. it[S \ {Max(S)}] \in Seq(Built) /\ s[Max(S)] \in Built
      BY <1>0, <3>1
    <3> QED
      BY <3>1, <3>2, KeptType
  <2>4. it[{}] = <<>>
    BY <2>2 DEF Solves
  <2>5. it = Body(it)
    BY <2>3, <2>4
  <2> QED
    BY <2>5
<1>2. chosen = Body(chosen)
  BY <1>1
<1>3. OfRows(s, rows) = chosen[DOMAIN s]
  BY DEF OfRows, Kept, FoldLeft, MapThenFoldSet
<1> HIDE DEF chosen
<1>4. chosen[{}] = <<>>
  BY <1>2
<1>5. ASSUME NEW n \in 1..Len(s), chosen[1..(n-1)] \in Seq(Built)
      PROVE  chosen[1..n] = KeptF(rows)[<<chosen[1..(n-1)], s[n]>>]
  <2>1. chosen[1..n] = Kept(rows, chosen[(1..n) \ {Max(1..n)}], s[Max(1..n)])
    BY <1>0, <1>2, UpToInDomain
  <2>2. Max(1..n) = n /\ (1..n) \ {n} = 1..(n-1)
    BY <1>0, UpToInDomain
  <2>3. s[n] \in Built
    BY <1>0
  <2>4. KeptF(rows)[<<chosen[1..(n-1)], s[n]>>] = Kept(rows, chosen[1..(n-1)], s[n])
    BY <1>5, <2>3, KeptType
  <2> QED
    BY <2>1, <2>2, <2>4
<1>6. Iterated(chosen, Seq(Built), KeptF(rows), <<>>, s)
  BY <1>4, <1>5 DEF Iterated
<1>7. Folds(chosen, KeptF(rows), <<>>, s)
  BY <1>0, <1>6, FoldFUnique
<1> QED
  BY <1>3, <1>7 DEF Folds

(* The three folds, one event at a time.                                   *)
LEMMA ApplyAllSteps ==
    ASSUME NEW c \in Contents
    PROVE  /\ ApplyAll(c, <<>>) = c
           /\ \A s \in Seq(Built) :
                /\ ApplyAll(c, s) \in Contents
                /\ \A evt \in Built : ApplyAll(c, Append(s, evt)) = ApplyOne(ApplyAll(c, s), evt)
<1>1. ApplyAll(c, <<>>) = c
  <2>1. <<>> \in Seq(Built)
    BY EmptySeq
  <2>2. ApplyAll(c, <<>>) = FoldF(ApplyF, c, <<>>)
    BY <2>1, ApplyAllIsFold
  <2>3. FoldF(ApplyF, c, <<>>) = c
    BY ApplyFType, FoldFEmpty
  <2> QED
    BY <2>2, <2>3
<1>2. ASSUME NEW s \in Seq(Built)
      PROVE  ApplyAll(c, s) \in Contents
  <2>1. FoldF(ApplyF, c, s) \in Contents
    BY ApplyFType, FoldFType
  <2> QED
    BY <2>1, ApplyAllIsFold
<1>3. ASSUME NEW s \in Seq(Built), NEW evt \in Built
      PROVE  ApplyAll(c, Append(s, evt)) = ApplyOne(ApplyAll(c, s), evt)
  <2>1. OneMore(ApplyF, c, s, evt)
    BY ApplyFType, FoldFAppend
  <2>2. Append(s, evt) \in Seq(Built)
    BY AppendProperties
  <2>3. ApplyAll(c, Append(s, evt)) = FoldF(ApplyF, c, Append(s, evt))
    BY <2>2, ApplyAllIsFold
  <2>4. ApplyAll(c, s) = FoldF(ApplyF, c, s)
    BY ApplyAllIsFold
  <2>5. ApplyF[<<ApplyAll(c, s), evt>>] = ApplyOne(ApplyAll(c, s), evt)
    BY <1>2, ApplyOneType
  <2> QED
    BY <2>1, <2>3, <2>4, <2>5 DEF OneMore
<1> QED
  BY <1>1, <1>2, <1>3

(* dedupe, one event at a time.                                            *)
LEMMA DedupeSteps ==
    /\ dedupe(<<>>) = NoEvent
    /\ \A s \in Seq(Built) :
        /\ dedupe(s) \in Maps
        /\ \A evt \in Built : dedupe(Append(s, evt)) = DedupeStep(dedupe(s), evt)
<1>1. dedupe(<<>>) = NoEvent
  <2>1. <<>> \in Seq(Built)
    BY EmptySeq
  <2>2. dedupe(<<>>) = FoldF(DedupeF, NoEvent, <<>>)
    BY <2>1, DedupeIsFold
  <2>3. FoldF(DedupeF, NoEvent, <<>>) = NoEvent
    BY DedupeFType, FoldFEmpty
  <2> QED
    BY <2>2, <2>3
<1>2. ASSUME NEW s \in Seq(Built)
      PROVE  dedupe(s) \in Maps
  <2>1. FoldF(DedupeF, NoEvent, s) \in Maps
    BY DedupeFType, FoldFType
  <2> QED
    BY <2>1, DedupeIsFold
<1>3. ASSUME NEW s \in Seq(Built), NEW evt \in Built
      PROVE  dedupe(Append(s, evt)) = DedupeStep(dedupe(s), evt)
  <2>1. OneMore(DedupeF, NoEvent, s, evt)
    BY DedupeFType, FoldFAppend
  <2>2. Append(s, evt) \in Seq(Built)
    BY AppendProperties
  <2>3. dedupe(Append(s, evt)) = FoldF(DedupeF, NoEvent, Append(s, evt))
    BY <2>2, DedupeIsFold
  <2>4. dedupe(s) = FoldF(DedupeF, NoEvent, s)
    BY DedupeIsFold
  <2>5. DedupeF[<<dedupe(s), evt>>] = DedupeStep(dedupe(s), evt)
    BY <1>2, DedupeStepType
  <2> QED
    BY <2>1, <2>3, <2>4, <2>5 DEF OneMore
<1> QED
  BY <1>1, <1>2, <1>3

(* OfRows, one event at a time.                                            *)
LEMMA OfRowsSteps ==
    ASSUME NEW rows
    PROVE  /\ OfRows(<<>>, rows) = <<>>
           /\ \A s \in Seq(Built) :
                /\ OfRows(s, rows) \in Seq(Built)
                /\ \A evt \in Built : OfRows(Append(s, evt), rows) = Kept(rows, OfRows(s, rows), evt)
<1>1. OfRows(<<>>, rows) = <<>>
  <2>1. <<>> \in Seq(Built)
    BY EmptySeq
  <2> QED
    BY <2>1, KeptFType, OfRowsIsFold, FoldFEmpty
<1>2. ASSUME NEW s \in Seq(Built)
      PROVE  OfRows(s, rows) \in Seq(Built)
  <2>1. FoldF(KeptF(rows), <<>>, s) \in Seq(Built)
    BY KeptFType, FoldFType
  <2> QED
    BY <2>1, OfRowsIsFold
<1>3. ASSUME NEW s \in Seq(Built), NEW evt \in Built
      PROVE  OfRows(Append(s, evt), rows) = Kept(rows, OfRows(s, rows), evt)
  <2>1. OneMore(KeptF(rows), <<>>, s, evt)
    BY KeptFType, FoldFAppend
  <2>2. Append(s, evt) \in Seq(Built)
    BY AppendProperties
  <2>3. OfRows(Append(s, evt), rows) = FoldF(KeptF(rows), <<>>, Append(s, evt))
    BY <2>2, OfRowsIsFold
  <2>4. OfRows(s, rows) = FoldF(KeptF(rows), <<>>, s)
    BY OfRowsIsFold
  <2>5. KeptF(rows)[<<OfRows(s, rows), evt>>] = Kept(rows, OfRows(s, rows), evt)
    BY <1>2, KeptType
  <2> QED
    BY <2>1, <2>3, <2>4, <2>5 DEF OneMore
<1> QED
  BY <1>1, <1>2, <1>3

-----------------------------------------------------------------------------
(* One row at a time.                                                      *)

\* What an event makes of row r, when it stored image.
Stepped(image, evt, r) == IF evt.row = r THEN mergeRow(image, evt) ELSE image

\* What a sequence of events makes of it.
RowEffect(image, s, r) == ApplyAll([q \in Rows |-> image], s)[r]

(* A row stores an image or nothing after any event.                       *)
LEMMA SteppedType ==
    ASSUME NEW image \in Stored, NEW evt \in Built, NEW r
    PROVE  Stepped(image, evt, r) \in Stored
BY MergeRowType DEF Stepped

(* The effect on a row, one event at a time.                               *)
LEMMA RowEffectSteps ==
    ASSUME NEW image \in Stored, NEW r \in Rows
    PROVE  /\ RowEffect(image, <<>>, r) = image
           /\ \A s \in Seq(Built) :
                /\ RowEffect(image, s, r) \in Stored
                /\ \A evt \in Built :
                    RowEffect(image, Append(s, evt), r) = Stepped(RowEffect(image, s, r), evt, r)
<1> DEFINE c == [q \in Rows |-> image]
<1>1. c \in Contents /\ c[r] = image
  BY DEF Contents, Stored
<1> HIDE DEF c
<1>2. RowEffect(image, <<>>, r) = image
  BY <1>1, ApplyAllSteps DEF RowEffect, c
<1>3. ASSUME NEW s \in Seq(Built)
      PROVE  RowEffect(image, s, r) \in Stored
  <2>1. ApplyAll(c, s) \in Contents
    BY <1>1, ApplyAllSteps
  <2> QED
    BY <2>1 DEF RowEffect, Contents, Stored, c
<1>4. ASSUME NEW s \in Seq(Built), NEW evt \in Built
      PROVE  RowEffect(image, Append(s, evt), r) = Stepped(RowEffect(image, s, r), evt, r)
  <2>1. ApplyAll(c, s) \in Contents /\ ApplyAll(c, Append(s, evt)) = ApplyOne(ApplyAll(c, s), evt)
    BY <1>1, ApplyAllSteps
  <2>2. ApplyOne(ApplyAll(c, s), evt)[r] = Stepped(ApplyAll(c, s)[r], evt, r)
    BY <2>1 DEF ApplyOne, Stepped, Contents
  <2> QED
    BY <2>1, <2>2 DEF RowEffect, c
<1> QED
  BY <1>2, <1>3, <1>4

(* ApplyAll treats every row by itself.                                    *)
LEMMA RowWise ==
    ASSUME NEW c \in Contents, NEW s \in Seq(Built), NEW r \in Rows
    PROVE  ApplyAll(c, s)[r] = RowEffect(c[r], s, r)
<1> DEFINE S == {u \in Seq(Built) : ApplyAll(c, u)[r] = RowEffect(c[r], u, r)}
<1>0. c[r] \in Stored
  BY DEF Contents, Stored
<1>1. <<>> \in S
  BY <1>0, EmptySeq, ApplyAllSteps, RowEffectSteps
<1>2. ASSUME NEW u \in Seq(Built), NEW evt \in Built, u \in S
      PROVE  Append(u, evt) \in S
  <2>1. ApplyAll(c, u) \in Contents /\ ApplyAll(c, Append(u, evt)) = ApplyOne(ApplyAll(c, u), evt)
    BY ApplyAllSteps
  <2>2. ApplyOne(ApplyAll(c, u), evt)[r] = Stepped(ApplyAll(c, u)[r], evt, r)
    BY <2>1 DEF ApplyOne, Stepped, Contents
  <2>3. RowEffect(c[r], Append(u, evt), r) = Stepped(RowEffect(c[r], u, r), evt, r)
    BY <1>0, RowEffectSteps
  <2>4. Append(u, evt) \in Seq(Built)
    BY AppendProperties
  <2> QED
    BY <1>2, <2>1, <2>2, <2>3, <2>4
<1>3. Seq(Built) \subseteq S
  <2> HIDE DEF S
  <2> QED BY <1>1, <1>2, SeqInduction
<1> QED
  BY <1>3

(* One sequence after the other.                                           *)
LEMMA RowEffectConcat ==
    ASSUME NEW image \in Stored, NEW s \in Seq(Built), NEW u \in Seq(Built), NEW r \in Rows
    PROVE  RowEffect(image, s \o u, r) = RowEffect(RowEffect(image, s, r), u, r)
<1> DEFINE S == {v \in Seq(Built) : RowEffect(image, s \o v, r) = RowEffect(RowEffect(image, s, r), v, r)}
<1>0. RowEffect(image, s, r) \in Stored
  BY RowEffectSteps
<1>1. <<>> \in S
  BY <1>0, EmptySeq, ConcatEmptySeq, RowEffectSteps
<1>2. ASSUME NEW v \in Seq(Built), NEW evt \in Built, v \in S
      PROVE  Append(v, evt) \in S
  <2>1. s \o Append(v, evt) = Append(s \o v, evt)
    BY ConcatAppend
  <2>2. s \o v \in Seq(Built) /\ Append(v, evt) \in Seq(Built)
    BY ConcatProperties, AppendProperties
  <2>3. RowEffect(image, Append(s \o v, evt), r) = Stepped(RowEffect(image, s \o v, r), evt, r)
    BY <2>2, RowEffectSteps
  <2>4. RowEffect(RowEffect(image, s, r), Append(v, evt), r)
          = Stepped(RowEffect(RowEffect(image, s, r), v, r), evt, r)
    BY <1>0, RowEffectSteps
  <2> QED
    BY <1>2, <2>1, <2>2, <2>3, <2>4
<1>3. Seq(Built) \subseteq S
  <2> HIDE DEF S
  <2> QED BY <1>1, <1>2, SeqInduction
<1> QED
  BY <1>3

(* Merging an event again changes nothing.                                 *)
LEMMA MergedTwice ==
    ASSUME NEW image \in Stored, NEW evt, WellFormed(evt)
    PROVE  mergeRow(mergeRow(image, evt), evt) = mergeRow(image, evt)
<1>1. CASE evt.op = "d"
  BY <1>1 DEF mergeRow
<1>2. CASE evt.op # "d" /\ image = Absent
  <2>1. Inserted(evt) # Absent
    BY InsertedType, SentinelAssumption DEF Image
  <2>2. Overwritten(Inserted(evt), evt) = Inserted(evt)
    BY DEF Overwritten, Inserted
  <2> QED
    BY <1>2, <2>1, <2>2 DEF mergeRow
<1>3. CASE evt.op # "d" /\ image # Absent
  <2>1. Overwritten(image, evt) # Absent
    BY <1>3, OverwrittenType, SentinelAssumption DEF Stored, Image
  <2>2. Overwritten(Overwritten(image, evt), evt) = Overwritten(image, evt)
    BY DEF Overwritten
  <2> QED
    BY <1>3, <2>1, <2>2 DEF mergeRow
<1> QED
  BY <1>1, <1>2, <1>3

\* What a batch does to row r: nothing, or one event's merge, or it leaves the
\* same image whatever was there.
Collapses(s, r) ==
    \/ \A x \in Stored : RowEffect(x, s, r) = x
    \/ \E y \in Stored : \A x \in Stored : RowEffect(x, s, r) = y
    \/ \E evt \in Built : evt.op # "d" /\ \A x \in Stored : RowEffect(x, s, r) = mergeRow(x, evt)

(* Whatever the batch, it collapses: a delete forgets what came before, and *)
(* two partial updates merge into one.                                      *)
LEMMA EveryBatchCollapses ==
    ASSUME NEW s \in Seq(Built), NEW r \in Rows
    PROVE  Collapses(s, r)
<1> DEFINE S == {u \in Seq(Built) : Collapses(u, r)}
<1>1. <<>> \in S
  BY EmptySeq, RowEffectSteps DEF Collapses
<1>2. ASSUME NEW u \in Seq(Built), NEW evt \in Built, Collapses(u, r)
      PROVE  Collapses(Append(u, evt), r)
  <2>1. \A x \in Stored : RowEffect(x, Append(u, evt), r) = Stepped(RowEffect(x, u, r), evt, r)
    BY RowEffectSteps
  <2>2. CASE evt.row # r
    <3>1. \A x \in Stored : RowEffect(x, Append(u, evt), r) = RowEffect(x, u, r)
      BY <2>1, <2>2 DEF Stepped
    <3> QED
      BY <1>2, <3>1 DEF Collapses
  <2>3. CASE evt.row = r /\ evt.op = "d"
    <3>1. \A x \in Stored : RowEffect(x, Append(u, evt), r) = Absent
      BY <2>1, <2>3 DEF Stepped, mergeRow
    <3> QED
      BY <3>1 DEF Collapses, Stored
  <2>4. CASE evt.row = r /\ evt.op # "d"
    <3>0. \A x \in Stored : RowEffect(x, Append(u, evt), r) = mergeRow(RowEffect(x, u, r), evt)
      BY <2>1, <2>4 DEF Stepped
    <3>1. CASE \A x \in Stored : RowEffect(x, u, r) = x
      <4>1. \A x \in Stored : RowEffect(x, Append(u, evt), r) = mergeRow(x, evt)
        BY <3>0, <3>1
      <4> QED
        BY <2>4, <4>1 DEF Collapses
    <3>2. CASE \E y \in Stored : \A x \in Stored : RowEffect(x, u, r) = y
      <4>1. PICK y \in Stored : \A x \in Stored : RowEffect(x, u, r) = y
        BY <3>2
      <4>2. mergeRow(y, evt) \in Stored
        BY MergeRowType
      <4>3. \A x \in Stored : RowEffect(x, Append(u, evt), r) = mergeRow(y, evt)
        BY <3>0, <4>1
      <4> QED
        BY <4>2, <4>3 DEF Collapses
    <3>3. CASE \E prev \in Built :
                    prev.op # "d" /\ \A x \in Stored : RowEffect(x, u, r) = mergeRow(x, prev)
      <4>1. PICK prev \in Built :
                    prev.op # "d" /\ \A x \in Stored : RowEffect(x, u, r) = mergeRow(x, prev)
        BY <3>3
      <4>2. WellFormed(prev) /\ WellFormed(evt)
        BY DEF Built
      <4>3. fold(prev, evt) \in Built /\ fold(prev, evt).op # "d"
        BY <2>4, <4>2, FoldWellFormed DEF Built, WellFormed
      <4>4. \A x \in Stored : mergeRow(mergeRow(x, prev), evt) = mergeRow(x, fold(prev, evt))
        BY <4>1, <4>2, FoldMerges
      <4>5. \A x \in Stored : RowEffect(x, Append(u, evt), r) = mergeRow(x, fold(prev, evt))
        BY <3>0, <4>1, <4>4
      <4> QED
        BY <4>3, <4>5 DEF Collapses
    <3> QED
      BY <1>2, <3>1, <3>2, <3>3 DEF Collapses
  <2> QED
    BY <2>2, <2>3, <2>4
<1>3. Seq(Built) \subseteq S
  <2>1. \A u \in Seq(Built), evt \in Built : u \in S => Append(u, evt) \in S
    BY <1>2, AppendProperties
  <2> HIDE DEF S
  <2> QED BY <1>1, <2>1, SeqInduction
<1> QED
  BY <1>3

(* A batch applied to a row a second time changes nothing, whatever it     *)
(* holds.                                                                  *)
LEMMA RowTwice ==
    ASSUME NEW image \in Stored, NEW s \in Seq(Built), NEW r \in Rows
    PROVE  RowEffect(RowEffect(image, s, r), s, r) = RowEffect(image, s, r)
<1>1. Collapses(s, r) /\ RowEffect(image, s, r) \in Stored
  BY EveryBatchCollapses, RowEffectSteps
<1>2. CASE \E evt \in Built : evt.op # "d" /\ \A x \in Stored : RowEffect(x, s, r) = mergeRow(x, evt)
  BY <1>1, <1>2, MergedTwice DEF Built
<1> QED
  BY <1>1, <1>2 DEF Collapses

(* However a stretch of the topic was cut into batches, delivering all of  *)
(* it once more changes nothing (flush.go:14-15, writer.go:58-61): also    *)
(* one in which partial updates follow deletes.                            *)
THEOREM ReplayedStretch ==
    ASSUME NEW c \in Contents, NEW s \in Seq(Built)
    PROVE  ApplyAll(ApplyAll(c, s), s) = ApplyAll(c, s)
<1>1. ApplyAll(c, s) \in Contents /\ ApplyAll(ApplyAll(c, s), s) \in Contents
  BY ApplyAllSteps
<1>2. ASSUME NEW r \in Rows
      PROVE  ApplyAll(ApplyAll(c, s), s)[r] = ApplyAll(c, s)[r]
  <2>1. c[r] \in Stored
    BY DEF Contents, Stored
  <2>2. ApplyAll(c, s)[r] = RowEffect(c[r], s, r)
    BY RowWise
  <2>3. ApplyAll(ApplyAll(c, s), s)[r] = RowEffect(ApplyAll(c, s)[r], s, r)
    BY <1>1, RowWise
  <2> QED
    BY <2>1, <2>2, <2>3, RowTwice
<1> QED
  BY <1>1, <1>2 DEF Contents

-----------------------------------------------------------------------------
(* The events of one row.                                                  *)

(* The events of a row, one event at a time.                               *)
LEMMA OfRowAppend ==
    ASSUME NEW s \in Seq(Built), NEW evt \in Built, NEW r
    PROVE  OfRow(Append(s, evt), r) = IF evt.row = r THEN Append(OfRow(s, r), evt) ELSE OfRow(s, r)
BY OfRowsSteps DEF OfRow, Kept

(* The events of a row are well-formed if all are.                         *)
LEMMA OfRowType ==
    ASSUME NEW r
    PROVE  /\ OfRow(<<>>, r) = <<>>
           /\ \A s \in Seq(Built) : OfRow(s, r) \in Seq(Built)
BY OfRowsSteps DEF OfRow

Splits(s, u, r) == OfRow(s \o u, r) = OfRow(s, r) \o OfRow(u, r)

(* The events of a row in two stretches laid end to end.                   *)
LEMMA OfRowConcat ==
    ASSUME NEW s \in Seq(Built), NEW u \in Seq(Built), NEW r
    PROVE  Splits(s, u, r)
<1> DEFINE S == {v \in Seq(Built) : OfRow(s \o v, r) = OfRow(s, r) \o OfRow(v, r)}
<1>0. OfRow(s, r) \in Seq(Built)
  BY OfRowType
<1>1. <<>> \in S
  BY <1>0, EmptySeq, ConcatEmptySeq, OfRowType
<1>2. ASSUME NEW v \in Seq(Built), NEW evt \in Built, v \in S
      PROVE  Append(v, evt) \in S
  <2>1. s \o Append(v, evt) = Append(s \o v, evt)
    BY ConcatAppend
  <2>2. s \o v \in Seq(Built) /\ Append(v, evt) \in Seq(Built) /\ OfRow(v, r) \in Seq(Built)
    BY ConcatProperties, AppendProperties, OfRowType
  <2>3. OfRow(Append(s \o v, evt), r)
          = IF evt.row = r THEN Append(OfRow(s \o v, r), evt) ELSE OfRow(s \o v, r)
    BY <2>2, OfRowAppend
  <2>4. OfRow(Append(v, evt), r) = IF evt.row = r THEN Append(OfRow(v, r), evt) ELSE OfRow(v, r)
    BY OfRowAppend
  <2>5. OfRow(s, r) \o Append(OfRow(v, r), evt) = Append(OfRow(s, r) \o OfRow(v, r), evt)
    BY <1>0, <2>2, ConcatAppend
  <2> QED
    BY <1>2, <2>1, <2>2, <2>3, <2>4, <2>5
<1>3. Seq(Built) \subseteq S
  <2> HIDE DEF S
  <2> QED BY <1>1, <1>2, SeqInduction
<1> QED
  BY <1>3 DEF Splits

(* The other rows' events do not matter to a row.                          *)
LEMMA OnlyItsEvents ==
    ASSUME NEW image \in Stored, NEW s \in Seq(Built), NEW r \in Rows
    PROVE  RowEffect(image, OfRow(s, r), r) = RowEffect(image, s, r)
<1> DEFINE S == {v \in Seq(Built) : RowEffect(image, OfRow(v, r), r) = RowEffect(image, v, r)}
<1>1. <<>> \in S
  BY EmptySeq, OfRowType
<1>2. ASSUME NEW v \in Seq(Built), NEW evt \in Built, v \in S
      PROVE  Append(v, evt) \in S
  <2>0. OfRow(v, r) \in Seq(Built) /\ Append(v, evt) \in Seq(Built)
    BY OfRowType, AppendProperties
  <2>1. RowEffect(image, Append(v, evt), r) = Stepped(RowEffect(image, v, r), evt, r)
    BY RowEffectSteps
  <2>2. RowEffect(image, Append(OfRow(v, r), evt), r) = Stepped(RowEffect(image, OfRow(v, r), r), evt, r)
    BY <2>0, RowEffectSteps
  <2>3. OfRow(Append(v, evt), r) = IF evt.row = r THEN Append(OfRow(v, r), evt) ELSE OfRow(v, r)
    BY OfRowAppend
  <2>4. RowEffect(image, OfRow(Append(v, evt), r), r) = RowEffect(image, Append(v, evt), r)
    <3>1. CASE evt.row = r
      <4>1. OfRow(Append(v, evt), r) = Append(OfRow(v, r), evt)
        BY <2>3, <3>1
      <4> QED
        BY <1>2, <2>1, <2>2, <4>1
    <3>2. CASE evt.row # r
      <4>1. OfRow(Append(v, evt), r) = OfRow(v, r)
        BY <2>3, <3>2
      <4>2. RowEffect(image, Append(v, evt), r) = RowEffect(image, v, r)
        BY <2>1, <3>2 DEF Stepped
      <4> QED
        BY <1>2, <4>1, <4>2
    <3> QED
      BY <3>1, <3>2
  <2> QED
    BY <2>0, <2>4
<1>3. Seq(Built) \subseteq S
  <2> HIDE DEF S
  <2> QED BY <1>1, <1>2, SeqInduction
<1> QED
  BY <1>3

(* A row without events keeps what it stores.                              *)
LEMMA Untouched ==
    ASSUME NEW image \in Stored, NEW s \in Seq(Built), NEW r \in Rows, OfRow(s, r) = <<>>
    PROVE  RowEffect(image, s, r) = image
BY OnlyItsEvents, RowEffectSteps

(* Sequences with the same events of a row have the same effect on it.     *)
LEMMA SameEvents ==
    ASSUME NEW image \in Stored, NEW s \in Seq(Built), NEW u \in Seq(Built), NEW r \in Rows,
           OfRow(s, r) = OfRow(u, r)
    PROVE  RowEffect(image, s, r) = RowEffect(image, u, r)
<1>1. RowEffect(image, OfRow(s, r), r) = RowEffect(image, s, r)
  BY OnlyItsEvents
<1>2. RowEffect(image, OfRow(u, r), r) = RowEffect(image, u, r)
  BY OnlyItsEvents
<1> QED
  BY <1>1, <1>2

-----------------------------------------------------------------------------
(* The collapsed batch.                                                    *)

\* In the events of one row, no update that leaves columns out directly
\* follows a delete.
FullAfterDelete(mine) ==
    \A i \in 1..(Len(mine) - 1) : mine[i].op = "d" => mine[i+1].unchanged = {}

NoneResurrected(s) == \A r \in Rows : FullAfterDelete(OfRow(s, r))

(* In what comes before the last event no partial update follows a delete  *)
(* either, and the last event is none if a delete comes before it.         *)
LEMMA PrefixFull ==
    ASSUME NEW s \in Seq(Built), NEW evt \in Built, FullAfterDelete(Append(s, evt))
    PROVE  /\ FullAfterDelete(s)
           /\ s # <<>> /\ s[Len(s)].op = "d" => evt.unchanged = {}
<1> DEFINE t == Append(s, evt)
<1>0. /\ Len(s) \in Nat /\ Len(t) = Len(s) + 1
      /\ (\A i \in 1..Len(s) : t[i] = s[i]) /\ t[Len(s)+1] = evt
  BY LenProperties, AppendProperties
<1>1. \A i \in 1..Len(s) : t[i].op = "d" => t[i+1].unchanged = {}
  <2>1. FullAfterDelete(t)
    OBVIOUS
  <2> HIDE DEF t
  <2>2. Len(t) - 1 = Len(s)
    BY <1>0
  <2> QED
    BY <2>1, <2>2 DEF FullAfterDelete
<1> HIDE DEF t
<1>2. FullAfterDelete(s)
  <2> SUFFICES ASSUME NEW i \in 1..(Len(s) - 1), s[i].op = "d" PROVE s[i+1].unchanged = {}
    BY DEF FullAfterDelete
  <2>1. i \in 1..Len(s) /\ i + 1 \in 1..Len(s)
    BY <1>0
  <2> QED
    BY <1>0, <1>1, <2>1
<1>3. ASSUME s # <<>>, s[Len(s)].op = "d"
      PROVE  evt.unchanged = {}
  <2>1. Len(s) \in 1..Len(s)
    BY <1>0, <1>3, EmptySeq
  <2> QED
    BY <1>0, <1>1, <1>3, <2>1
<1> QED
  BY <1>2, <1>3

\* What dedupe keeps of row r stands for all its events.
Represented(s, r) ==
    IF OfRow(s, r) = <<>>
    THEN r \notin DOMAIN dedupe(s)
    ELSE /\ r \in DOMAIN dedupe(s)
         /\ dedupe(s)[r] \in Built
         /\ dedupe(s)[r].op = OfRow(s, r)[Len(OfRow(s, r))].op
         /\ \A x \in Stored : RowEffect(x, s, r) = mergeRow(x, dedupe(s)[r])

(* dedupe keeps, for each row of the batch, one event with the effect and  *)
(* the last operation of all its events.                                   *)
LEMMA DedupeRepresents ==
    ASSUME NEW s \in Seq(Built), NEW r \in Rows, FullAfterDelete(OfRow(s, r))
    PROVE  Represented(s, r)
<1> DEFINE S == {v \in Seq(Built) : FullAfterDelete(OfRow(v, r)) => Represented(v, r)}
<1>1. <<>> \in S
  BY EmptySeq, OfRowType, DedupeSteps DEF Represented, NoEvent
<1>2. ASSUME NEW v \in Seq(Built), NEW evt \in Built, v \in S, FullAfterDelete(OfRow(Append(v, evt), r))
      PROVE  Represented(Append(v, evt), r)
  <2> DEFINE mine == OfRow(v, r)
             state == dedupe(v)
             w == Append(v, evt)
  <2>0. mine \in Seq(Built) /\ state \in Maps
    BY OfRowType, DedupeSteps
  <2>1. OfRow(w, r) = IF evt.row = r THEN Append(mine, evt) ELSE mine
    BY OfRowAppend
  <2>2. dedupe(w) = DedupeStep(state, evt)
    BY DedupeSteps
  <2>3. \A x \in Stored : RowEffect(x, w, r) = Stepped(RowEffect(x, v, r), evt, r)
    BY RowEffectSteps
  <2>4. CASE evt.row # r
    <3>1. Represented(v, r)
      BY <1>2, <2>1, <2>4
    <3>2. r \in DOMAIN dedupe(w) <=> r \in DOMAIN state
      BY <2>2, <2>4 DEF DedupeStep
    <3>3. r \in DOMAIN state => dedupe(w)[r] = state[r]
      BY <2>2, <2>4 DEF DedupeStep
    <3>4. \A x \in Stored : RowEffect(x, w, r) = RowEffect(x, v, r)
      BY <2>3, <2>4 DEF Stepped
    <3>5. OfRow(w, r) = mine
      BY <2>1, <2>4
    <3>6. Represented(w, r)
      <4> HIDE DEF w, state, mine
      <4>1. state = dedupe(v) /\ mine = OfRow(v, r)
        BY DEF state, mine
      <4> QED
        BY <3>1, <3>2, <3>3, <3>4, <3>5, <4>1 DEF Represented
    <3> QED
      BY <3>6
  <2>5. CASE evt.row = r
    <3>1. OfRow(w, r) = Append(mine, evt)
      BY <2>1, <2>5
    <3>2. FullAfterDelete(mine) /\ (mine # <<>> /\ mine[Len(mine)].op = "d" => evt.unchanged = {})
      <4>1. FullAfterDelete(Append(mine, evt))
        BY <1>2, <3>1
      <4> HIDE DEF mine
      <4> QED
        BY <2>0, <4>1, PrefixFull
    <3>3. Represented(v, r)
      BY <1>2, <3>2
    <3>4. Append(mine, evt) # <<>> /\ Append(mine, evt)[Len(Append(mine, evt))] = evt
      BY <2>0, AppendProperties
    <3>5. WellFormed(evt) /\ r \in DOMAIN dedupe(w)
      BY <2>2, <2>5 DEF Built, DedupeStep
    <3>6. dedupe(w)[r] = IF r \in DOMAIN state THEN fold(state[r], evt) ELSE evt
      BY <2>2, <2>5 DEF DedupeStep
    <3>7. \A x \in Stored : RowEffect(x, w, r) = mergeRow(RowEffect(x, v, r), evt)
      BY <2>3, <2>5 DEF Stepped
    <3>8. CASE mine = <<>>
      <4>1. dedupe(w)[r] = evt
        BY <3>3, <3>6, <3>8 DEF Represented
      <4>2. \A x \in Stored : RowEffect(x, w, r) = mergeRow(x, evt)
        BY <3>7, <3>8, Untouched
      <4>3. Represented(w, r)
        <5> DEFINE all == Append(mine, evt)
        <5>1. OfRow(w, r) = all /\ all # <<>> /\ all[Len(all)] = evt
          BY <3>1, <3>4
        <5> HIDE DEF w, all
        <5> QED
          BY <3>5, <4>1, <4>2, <5>1 DEF Represented
      <4> QED
        BY <4>3
    <3>9. CASE mine # <<>>
      <4>1. /\ r \in DOMAIN state /\ state[r] \in Built
            /\ state[r].op = mine[Len(mine)].op
            /\ \A x \in Stored : RowEffect(x, v, r) = mergeRow(x, state[r])
        BY <3>3, <3>9 DEF Represented
      <4>2. WellFormed(state[r]) /\ (state[r].op = "d" => evt.unchanged = {})
        BY <3>2, <3>9, <4>1 DEF Built
      <4>3. \A x \in Stored : mergeRow(mergeRow(x, state[r]), evt) = mergeRow(x, fold(state[r], evt))
        BY <3>5, <4>2, FoldMerges
      <4>4. dedupe(w)[r] = fold(state[r], evt)
        BY <3>6, <4>1
      <4>5. fold(state[r], evt) \in Built /\ fold(state[r], evt).op = evt.op
        BY <3>5, <4>2, FoldWellFormed DEF Built, WellFormed
      <4>6. \A x \in Stored : RowEffect(x, w, r) = mergeRow(x, dedupe(w)[r])
        BY <3>7, <4>1, <4>3, <4>4
      <4>7. Represented(w, r)
        <5> DEFINE all == Append(mine, evt)
        <5>1. OfRow(w, r) = all /\ all # <<>> /\ all[Len(all)] = evt
          BY <3>1, <3>4
        <5> HIDE DEF w, all, state
        <5> QED
          BY <3>5, <4>4, <4>5, <4>6, <5>1 DEF Represented
      <4> QED
        BY <4>7
    <3> QED
      BY <3>8, <3>9
  <2> QED
    BY <2>4, <2>5
<1>3. Seq(Built) \subseteq S
  <2>1. \A v \in Seq(Built), evt \in Built : v \in S => Append(v, evt) \in S
    BY <1>2, AppendProperties
  <2> HIDE DEF S
  <2> QED BY <1>1, <2>1, SeqInduction
<1> QED
  BY <1>3

(* A flush leaves stored rows, whatever the batch.                         *)
LEMMA FlushType ==
    ASSUME NEW c \in Contents, NEW s \in Seq(Built)
    PROVE  flushTable(c, s) \in Contents
<1>1. PICK D \in SUBSET Rows : dedupe(s) \in [D -> Built]
  BY DedupeSteps DEF Maps
<1>2. ASSUME NEW r \in Rows
      PROVE  (IF r \in DOMAIN dedupe(s) THEN mergeRow(c[r], dedupe(s)[r]) ELSE c[r]) \in Stored
  <2>1. c[r] \in Stored
    BY DEF Contents, Stored
  <2>2. r \in DOMAIN dedupe(s) => mergeRow(c[r], dedupe(s)[r]) \in Stored
    BY <1>1, <2>1, MergeRowType
  <2> QED
    BY <2>1, <2>2
<1> QED
  BY <1>2 DEF flushTable, mergeStaging, Contents, Stored

(* Collapsing a batch and merging what is left has the effect of merging   *)
(* its events one by one (flush.go:46-53), for every batch in which no     *)
(* partial update directly follows its row's delete.                       *)
THEOREM CollapsedBatch ==
    ASSUME NEW c \in Contents, NEW s \in Seq(Built), NoneResurrected(s)
    PROVE  flushTable(c, s) = ApplyAll(c, s)
<1>1. ApplyAll(c, s) \in Contents
  BY ApplyAllSteps
<1>2. ASSUME NEW r \in Rows
      PROVE  flushTable(c, s)[r] = ApplyAll(c, s)[r]
  <2>1. c[r] \in Stored
    BY DEF Contents, Stored
  <2>2. ApplyAll(c, s)[r] = RowEffect(c[r], s, r)
    BY RowWise
  <2>3. Represented(s, r)
    BY DedupeRepresents DEF NoneResurrected
  <2>4. flushTable(c, s)[r] = IF r \in DOMAIN dedupe(s) THEN mergeRow(c[r], dedupe(s)[r]) ELSE c[r]
    BY DEF flushTable, mergeStaging
  <2> QED
    BY <2>1, <2>2, <2>3, <2>4, Untouched DEF Represented
<1>3. flushTable(c, s) = [r \in Rows |-> flushTable(c, s)[r]]
  BY DEF flushTable, mergeStaging
<1> QED
  BY <1>1, <1>2, <1>3 DEF Contents

-----------------------------------------------------------------------------
(* Where the events of a row are: in a topic divided over partitions, in a *)
(* buffer divided over tables, in a stretch of a log.                      *)

ForRows(R) == {evt \in Built : evt.row \in R}

(* What is picked for some rows is about those rows.                       *)
LEMMA OfRowsWithin ==
    ASSUME NEW R, NEW s \in Seq(Built)
    PROVE  OfRows(s, R) \in Seq(ForRows(R))
<1> DEFINE S == {v \in Seq(Built) : OfRows(v, R) \in Seq(ForRows(R))}
<1>1. <<>> \in S
  BY EmptySeq, OfRowsSteps
<1>2. ASSUME NEW v \in Seq(Built), NEW evt \in Built, v \in S
      PROVE  Append(v, evt) \in S
  <2>1. OfRows(Append(v, evt), R) = Kept(R, OfRows(v, R), evt)
    BY OfRowsSteps
  <2>2. evt.row \in R => evt \in ForRows(R)
    BY DEF ForRows
  <2>3. Kept(R, OfRows(v, R), evt) \in Seq(ForRows(R))
    BY <1>2, <2>2, AppendProperties DEF Kept
  <2> QED
    BY <2>1, <2>3, AppendProperties
<1>3. Seq(Built) \subseteq S
  <2> HIDE DEF S
  <2> QED BY <1>1, <1>2, SeqInduction
<1> QED
  BY <1>3

(* A sequence of other rows' events has none of this row.                  *)
LEMMA NoneOfRow ==
    ASSUME NEW R, NEW r, r \notin R, NEW s \in Seq(ForRows(R))
    PROVE  OfRow(s, r) = <<>>
<1> DEFINE S == {v \in Seq(ForRows(R)) : OfRow(v, r) = <<>>}
<1>1. <<>> \in S
  BY EmptySeq, OfRowType
<1>2. ASSUME NEW v \in Seq(ForRows(R)), NEW evt \in ForRows(R), v \in S
      PROVE  Append(v, evt) \in S
  <2>1. v \in Seq(Built) /\ evt \in Built /\ evt.row # r
    BY SeqMonotonic DEF ForRows
  <2>2. OfRow(Append(v, evt), r) = OfRow(v, r)
    BY <2>1, OfRowAppend
  <2> QED
    BY <1>2, <2>2, AppendProperties
<1>3. Seq(ForRows(R)) \subseteq S
  <2> HIDE DEF S
  <2> QED BY <1>1, <1>2, SeqInduction
<1> QED
  BY <1>3

(* Picking for some rows keeps all events of each of them.                 *)
LEMMA OfRowOfRows ==
    ASSUME NEW R, NEW r \in R, NEW s \in Seq(Built)
    PROVE  OfRow(OfRows(s, R), r) = OfRow(s, r)
<1> DEFINE S == {v \in Seq(Built) : OfRow(OfRows(v, R), r) = OfRow(v, r)}
<1>1. <<>> \in S
  BY EmptySeq, OfRowsSteps DEF OfRow
<1>2. ASSUME NEW v \in Seq(Built), NEW evt \in Built, v \in S
      PROVE  Append(v, evt) \in S
  <2>1. OfRows(v, R) \in Seq(Built) /\ OfRows(Append(v, evt), R) = Kept(R, OfRows(v, R), evt)
    BY OfRowsSteps
  <2>2. OfRow(Append(OfRows(v, R), evt), r)
          = IF evt.row = r THEN Append(OfRow(OfRows(v, R), r), evt) ELSE OfRow(OfRows(v, R), r)
    BY <2>1, OfRowAppend
  <2>3. OfRow(Append(v, evt), r) = IF evt.row = r THEN Append(OfRow(v, r), evt) ELSE OfRow(v, r)
    BY OfRowAppend
  <2>4. OfRow(OfRows(Append(v, evt), R), r) = OfRow(Append(v, evt), r)
    <3>1. CASE evt.row \in R
      <4>1. OfRows(Append(v, evt), R) = Append(OfRows(v, R), evt)
        BY <2>1, <3>1 DEF Kept
      <4>2. CASE evt.row = r
        BY <1>2, <2>2, <2>3, <4>1, <4>2
      <4>3. CASE evt.row # r
        BY <1>2, <2>2, <2>3, <4>1, <4>3
      <4> QED
        BY <4>2, <4>3
    <3>2. CASE evt.row \notin R
      <4>1. OfRows(Append(v, evt), R) = OfRows(v, R)
        BY <2>1, <3>2 DEF Kept
      <4>2. OfRow(Append(v, evt), r) = OfRow(v, r)
        BY <2>3, <3>2
      <4> QED
        BY <1>2, <4>1, <4>2
    <3> QED
      BY <3>1, <3>2
  <2> QED
    BY <2>4, AppendProperties
<1>3. Seq(Built) \subseteq S
  <2> HIDE DEF S
  <2> QED BY <1>1, <1>2, SeqInduction
<1> QED
  BY <1>3

(* One event is its row's.                                                 *)
LEMMA OfRowOne ==
    ASSUME NEW evt \in Built, NEW r
    PROVE  OfRow(<<evt>>, r) = IF evt.row = r THEN <<evt>> ELSE <<>>
<1>1. <<evt>> = Append(<<>>, evt) /\ <<>> \in Seq(Built)
  BY EmptySeq
<1>2. OfRow(Append(<<>>, evt), r) = IF evt.row = r THEN Append(OfRow(<<>>, r), evt) ELSE OfRow(<<>>, r)
  BY <1>1, OfRowAppend
<1> QED
  BY <1>1, <1>2, OfRowType

\* Of the sequences in ss, at most the k-th has events of row r.
AtMost(ss, k, r) == \A i \in 1..Len(ss) : i # k => OfRow(ss[i], r) = <<>>

Isolated(ss, r) ==
    /\ AtMost(ss, 0, r) => OfRow(FlattenSeq(ss), r) = <<>>
    /\ \A k \in 1..Len(ss) : AtMost(ss, k, r) => OfRow(FlattenSeq(ss), r) = OfRow(ss[k], r)

(* Laying sequences end to end, a row finds its events where they were.    *)
LEMMA OfRowFlatten ==
    ASSUME NEW ss \in Seq(Seq(Built)), NEW r
    PROVE  Isolated(ss, r)
<1> DEFINE S == {vv \in Seq(Seq(Built)) : Isolated(vv, r)}
<1>1. <<>> \in S
  <2>1. <<>> \in Seq(Seq(Built)) /\ Len(<<>>) = 0
    BY EmptySeq
  <2>2. OfRow(FlattenSeq(<<>>), r) = <<>>
    BY FlattenEmpty, OfRowType
  <2> QED
    BY <2>1, <2>2 DEF Isolated
<1>2. ASSUME NEW vv \in Seq(Seq(Built)), NEW v \in Seq(Built), Isolated(vv, r)
      PROVE  Isolated(Append(vv, v), r)
  <2> DEFINE ww == Append(vv, v)
             n == Len(vv)
             flat == FlattenSeq(vv)
  <2>1. /\ ww \in Seq(Seq(Built)) /\ n \in Nat /\ Len(ww) = n + 1
        /\ (\A i \in 1..n : ww[i] = vv[i]) /\ ww[n+1] = v
    BY LenProperties, AppendProperties
  <2>2. flat \in Seq(Built) /\ OfRow(flat, r) \in Seq(Built) /\ OfRow(v, r) \in Seq(Built)
    BY FlattenType, OfRowType
  <2>3. OfRow(FlattenSeq(ww), r) = OfRow(flat, r) \o OfRow(v, r)
    <3>1. FlattenSeq(ww) = flat \o v
      BY FlattenAppend
    <3> HIDE DEF flat
    <3>2. OfRow(flat \o v, r) = OfRow(flat, r) \o OfRow(v, r)
      <4>1. Splits(flat, v, r)
        BY <2>2, OfRowConcat
      <4> QED
        BY <4>1 DEF Splits
    <3> QED
      BY <3>1, <3>2
  <2>4. OfRow(flat, r) \o <<>> = OfRow(flat, r) /\ <<>> \o OfRow(v, r) = OfRow(v, r)
    BY <2>2, ConcatEmptySeq
  <2> HIDE DEF ww
  <2>5. AtMost(ww, 0, r) => AtMost(vv, 0, r) /\ OfRow(v, r) = <<>>
    BY <2>1 DEF AtMost
  <2>6. AtMost(ww, n + 1, r) => AtMost(vv, 0, r)
    BY <2>1 DEF AtMost
  <2>7. \A k \in 1..n : AtMost(ww, k, r) => AtMost(vv, k, r) /\ OfRow(v, r) = <<>>
    BY <2>1 DEF AtMost
  <2>8. AtMost(ww, 0, r) => OfRow(FlattenSeq(ww), r) = <<>>
    BY <1>2, <2>3, <2>4, <2>5 DEF Isolated
  <2>9. ASSUME NEW k \in 1..Len(ww), AtMost(ww, k, r)
        PROVE  OfRow(FlattenSeq(ww), r) = OfRow(ww[k], r)
    <3>1. CASE k = n + 1
      BY <1>2, <2>1, <2>3, <2>4, <2>6, <2>9, <3>1 DEF Isolated
    <3>2. CASE k # n + 1
      <4>1. k \in 1..n
        BY <2>1, <3>2
      <4>2. OfRow(flat, r) = OfRow(vv[k], r) /\ OfRow(v, r) = <<>>
        BY <1>2, <2>7, <2>9, <4>1 DEF Isolated
      <4>3. ww[k] = vv[k]
        BY <2>1, <4>1
      <4> QED
        BY <2>3, <2>4, <4>2, <4>3
    <3> QED
      BY <3>1, <3>2
  <2>10. Isolated(ww, r)
    BY <2>8, <2>9 DEF Isolated
  <2> QED
    BY <2>10 DEF ww
<1>3. Seq(Seq(Built)) \subseteq S
  <2>1. \A vv \in Seq(Seq(Built)), v \in Seq(Built) : vv \in S => Append(vv, v) \in S
    BY <1>2, AppendProperties
  <2> HIDE DEF S
  <2> QED BY <1>1, <2>1, SeqInduction
<1> QED
  BY <1>3

\* Of the events in s, the k-th is the only one of row r.
Single(s, k, r) == \A i \in 1..Len(s) : s[i].row = r <=> i = k

(* Then it is all there is of the row.                                     *)
LEMMA OfRowSingle ==
    ASSUME NEW s \in Seq(Built), NEW k \in 1..Len(s), NEW r, Single(s, k, r)
    PROVE  OfRow(s, r) = <<s[k]>>
<1> DEFINE n == Len(s)
           R == {q \in Rows : q # r}
           before == SubSeq(s, 1, k-1)
           after == SubSeq(s, k+1, n)
<1>0. n \in Nat /\ k \in 1..n /\ \A i \in 1..n : s[i] \in Built
  BY LenProperties, ElementOfSeq
<1>1. \A i \in 1..n : i # k => s[i] \in ForRows(R)
  BY <1>0 DEF Single, ForRows, Built, Event
<1>2. before \in Seq(ForRows(R))
  <2>1. \A i \in 1..(k-1) : s[i] \in ForRows(R)
    BY <1>0, <1>1
  <2>2. 1 \in Int /\ k-1 \in Int
    BY <1>0
  <2> QED
    BY <2>1, <2>2, SubSeqProperties
<1>3. after \in Seq(ForRows(R))
  <2>1. \A i \in (k+1)..n : s[i] \in ForRows(R)
    BY <1>0, <1>1
  <2>2. k+1 \in Int /\ n \in Int
    BY <1>0
  <2> QED
    BY <2>1, <2>2, SubSeqProperties
<1>4. OfRow(before, r) = <<>> /\ OfRow(after, r) = <<>>
  BY <1>2, <1>3, NoneOfRow
<1>5. before \in Seq(Built) /\ after \in Seq(Built) /\ <<s[k]>> \in Seq(Built)
  <2>1. <<s[k]>> = Append(<<>>, s[k]) /\ <<>> \in Seq(Built)
    BY EmptySeq
  <2>2. ForRows(R) \subseteq Built
    BY DEF ForRows
  <2> QED
    BY <1>0, <1>2, <1>3, <2>1, <2>2, SeqMonotonic, AppendProperties
<1>6. s = (before \o <<s[k]>>) \o after
  <2>1. SubSeq(s, 1, k) = before \o <<s[k]>>
    BY <1>0, SubSeqRecursiveSecond
  <2>2. SubSeq(s, 1, k) \o after = SubSeq(s, 1, n)
    BY <1>0, ConcatAdjacentSubSeq
  <2>3. SubSeq(s, 1, n) = s
    BY SubSeqFull
  <2> QED
    BY <2>1, <2>2, <2>3
<1>7. OfRow(<<s[k]>>, r) = <<s[k]>>
  BY <1>0, OfRowOne DEF Single
<1> HIDE DEF before, after
<1> DEFINE it == <<s[k]>>
           upTo == before \o it
<1> HIDE DEF it
<1>8. upTo \in Seq(Built) /\ it \in Seq(Built) /\ s = upTo \o after
  BY <1>5, <1>6, ConcatProperties DEF it
<1>9. OfRow(upTo, r) = OfRow(before, r) \o OfRow(it, r)
  <2>1. Splits(before, it, r)
    BY <1>5, <1>8, OfRowConcat
  <2> QED
    BY <2>1 DEF Splits
<1> HIDE DEF upTo
<1>10. OfRow(upTo \o after, r) = OfRow(upTo, r) \o OfRow(after, r)
  <2>1. Splits(upTo, after, r)
    BY <1>5, <1>8, OfRowConcat
  <2> QED
    BY <2>1 DEF Splits
<1>11. OfRow(s, r) = (<<>> \o it) \o <<>>
  BY <1>4, <1>7, <1>8, <1>9, <1>10 DEF it
<1> QED
  BY <1>8, <1>11, ConcatEmptySeq DEF it

-----------------------------------------------------------------------------
(* Stretches of a history.                                                 *)

(* Either half of a sequence without a resurrected row has none.           *)
LEMMA HalvesFull ==
    ASSUME NEW s \in Seq(Built), NEW u \in Seq(Built), FullAfterDelete(s \o u)
    PROVE  FullAfterDelete(s) /\ FullAfterDelete(u)
<1> DEFINE w == s \o u
<1>0. /\ Len(s) \in Nat /\ Len(u) \in Nat /\ Len(w) = Len(s) + Len(u)
      /\ (\A i \in 1..Len(s) : w[i] = s[i])
      /\ \A i \in 1..Len(u) : w[Len(s) + i] = u[i]
  BY LenProperties, ConcatProperties
<1>1. FullAfterDelete(w)
  OBVIOUS
<1> HIDE DEF w
<1>2. \A i \in 1..(Len(s) + Len(u) - 1) : w[i].op = "d" => w[i+1].unchanged = {}
  BY <1>0, <1>1 DEF FullAfterDelete
<1>3. ASSUME NEW i \in 1..(Len(s) - 1), s[i].op = "d"
      PROVE  s[i+1].unchanged = {}
  <2>1. i \in 1..Len(s) /\ i + 1 \in 1..Len(s) /\ i \in 1..(Len(s) + Len(u) - 1)
    BY <1>0
  <2> QED
    BY <1>0, <1>2, <1>3, <2>1
<1>4. ASSUME NEW i \in 1..(Len(u) - 1), u[i].op = "d"
      PROVE  u[i+1].unchanged = {}
  <2>1. /\ i \in 1..Len(u) /\ i + 1 \in 1..Len(u) /\ Len(s) + i \in 1..(Len(s) + Len(u) - 1)
        /\ Len(s) + (i + 1) = (Len(s) + i) + 1
    BY <1>0
  <2> QED
    BY <1>0, <1>2, <1>4, <2>1
<1> QED
  BY <1>3, <1>4 DEF FullAfterDelete

(* Nor does a stretch of it.                                               *)
LEMMA StretchFull ==
    ASSUME NEW s \in Seq(Built), NEW r, FullAfterDelete(OfRow(s, r)),
           NEW m \in 1..(Len(s) + 1), NEW n \in (m-1)..Len(s)
    PROVE  FullAfterDelete(OfRow(SubSeq(s, m, n), r))
<1> DEFINE a == SubSeq(s, 1, m-1)
           b == SubSeq(s, m, n)
           c == SubSeq(s, n+1, Len(s))
<1>0. Len(s) \in Nat /\ \A i \in 1..Len(s) : s[i] \in Built
  BY LenProperties, ElementOfSeq
<1>1. a \in Seq(Built) /\ b \in Seq(Built) /\ c \in Seq(Built)
  BY <1>0, SubSeqProperties
<1>2. SubSeq(s, 1, n) = a \o b
  <2>1. 1 \in 1..(Len(s)+1) /\ m-1 \in (1-1)..Len(s) /\ n \in (m-1)..Len(s) /\ (m-1)+1 = m
    BY <1>0
  <2> QED
    BY <2>1, ConcatAdjacentSubSeq
<1>3. s = (a \o b) \o c
  <2>1. 1 \in 1..(Len(s)+1) /\ n \in (1-1)..Len(s) /\ Len(s) \in n..Len(s)
    BY <1>0
  <2>2. SubSeq(s, 1, n) \o c = SubSeq(s, 1, Len(s))
    BY <2>1, ConcatAdjacentSubSeq
  <2> QED
    BY <1>2, <2>2, SubSeqFull
<1> HIDE DEF a, b, c
<1>4. /\ OfRow(a, r) \in Seq(Built) /\ OfRow(b, r) \in Seq(Built) /\ OfRow(c, r) \in Seq(Built)
      /\ a \o b \in Seq(Built) /\ OfRow(a, r) \o OfRow(b, r) \in Seq(Built)
  BY <1>1, OfRowType, ConcatProperties
<1>5. OfRow(s, r) = (OfRow(a, r) \o OfRow(b, r)) \o OfRow(c, r)
  <2> DEFINE ab == a \o b
  <2>1. OfRow(ab, r) = OfRow(a, r) \o OfRow(b, r)
    <3>1. Splits(a, b, r)
      BY <1>1, OfRowConcat
    <3> QED
      BY <3>1 DEF Splits
  <2>2. ab \in Seq(Built) /\ s = ab \o c
    BY <1>3, <1>4
  <2> HIDE DEF ab
  <2>3. OfRow(ab \o c, r) = OfRow(ab, r) \o OfRow(c, r)
    <3>1. Splits(ab, c, r)
      BY <1>1, <2>2, OfRowConcat
    <3> QED
      BY <3>1 DEF Splits
  <2> QED
    BY <2>1, <2>2, <2>3
<1>6. FullAfterDelete(OfRow(a, r) \o OfRow(b, r))
  BY <1>4, <1>5, HalvesFull
<1>7. FullAfterDelete(OfRow(b, r))
  BY <1>4, <1>6, HalvesFull
<1> QED
  BY <1>7 DEF b

-----------------------------------------------------------------------------
(* The group's offsets.                                                    *)

Offsets == [Partitions -> Nat]

(* What a flush would commit is what the consumer has handed out, no more  *)
(* and no less, and that is not behind the group's own offset.             *)
TakenInv ==
    /\ writerPC # "down" => \A p \in Partitions :
        /\ OffsetsTaken[p] = fetchPos[p]
        /\ committed[p] <= fetchPos[p]
    /\ writerPC = "down" => newest = NoMessage

IInv ==
    /\ fetchPos \in Offsets /\ newest \in Offsets /\ committed \in Offsets
    /\ TakenInv

(* Buffer.Add keeps the larger offset, and the message just fetched has    *)
(* the larger one.                                                         *)
LEMMA FetchKeeps ==
    ASSUME IInv, NEW p \in Partitions, Fetch(p)
    PROVE  IInv'
<1>1. newest' = [newest EXCEPT ![p] = fetchPos[p] + 1]
  <2>1. newest[p] <= fetchPos[p]
    BY DEF IInv, TakenInv, Fetch, OffsetsTaken, Offsets
  <2>2. Larger(newest[p], fetchPos[p] + 1) = fetchPos[p] + 1
    BY <2>1 DEF Larger, IInv, Offsets
  <2> QED
    BY <2>2 DEF Fetch, Add
<1>2. /\ fetchPos' = [fetchPos EXCEPT ![p] = fetchPos[p] + 1]
      /\ committed' = committed
      /\ writerPC = "run"
      /\ writerPC' # "down"
  BY DEF Fetch
<1>3. fetchPos' \in Offsets /\ newest' \in Offsets /\ committed' \in Offsets
  BY <1>1, <1>2 DEF IInv, Offsets
<1>4. ASSUME NEW q \in Partitions
      PROVE  OffsetsTaken'[q] = fetchPos'[q] /\ committed'[q] <= fetchPos'[q]
  <2>1. OffsetsTaken[q] = fetchPos[q] /\ committed[q] <= fetchPos[q]
    BY <1>2 DEF IInv, TakenInv
  <2> QED
    BY <2>1, <1>1, <1>2 DEF OffsetsTaken, IInv, Offsets
<1> QED
  BY <1>2, <1>3, <1>4 DEF IInv, TakenInv

(* Committing what was taken leaves the consumer exactly at the group's    *)
(* offset.                                                                 *)
LEMMA CommitKeeps ==
    ASSUME IInv, CommitOffsets
    PROVE  IInv'
<1>1. \A p \in Partitions : committed'[p] = fetchPos[p] /\ newest'[p] = 0
  BY DEF CommitOffsets, IInv, TakenInv, NoMessage
<1>2. fetchPos' \in Offsets /\ newest' \in Offsets /\ committed' \in Offsets
  BY DEF CommitOffsets, IInv, OffsetsTaken, NoMessage, Offsets
<1>3. \A p \in Partitions : OffsetsTaken'[p] = fetchPos'[p] /\ committed'[p] <= fetchPos'[p]
  BY <1>1, <1>2 DEF CommitOffsets, OffsetsTaken, Offsets
<1> QED
  BY <1>2, <1>3 DEF CommitOffsets, IInv, TakenInv

(* A group is left in peace if rebalances are not among the faults.        *)
LEMMA LeftInPeace ==
    ASSUME "rebalance" \notin Faults
    PROVE  ~Rebalance
BY DEF Rebalance, Fault

(* Every step of the writer but a rebalance keeps the invariant.           *)
LEMMA OffsetsStep ==
    ASSUME ~Rebalance, IInv, WriterStep
    PROVE  IInv'
<1>3. CASE WriterStart
  <2>1. \A p \in Partitions : newest'[p] = 0 /\ fetchPos'[p] = committed'[p] /\ committed'[p] \in Nat
    BY <1>3 DEF WriterStart, bufferVars, IInv, TakenInv, NoMessage, Offsets
  <2> QED
    BY <1>3, <2>1 DEF WriterStart, bufferVars, IInv, TakenInv, OffsetsTaken
<1>4. ASSUME NEW p \in Partitions, Fetch(p)
      PROVE  IInv'
  BY <1>4, FetchKeeps
<1>5. CASE FlushInterval
  BY <1>5 DEF FlushInterval, bufferVars, IInv, TakenInv, OffsetsTaken
<1>6. ASSUME NEW t \in Tables, FlushTable(t)
      PROVE  IInv'
  BY <1>6 DEF FlushTable, IInv, TakenInv, OffsetsTaken
<1>7. CASE CommitOffsets
  BY <1>7, CommitKeeps
<1>8. CASE WriterCrash
  BY <1>8 DEF WriterCrash, NoMessage, IInv, TakenInv, Offsets
<1> QED
  BY <1>3, <1>4, <1>5, <1>6, <1>7, <1>8 DEF WriterStep, WriterProgress

(* So does every step of others.                                           *)
LEMMA OffsetsRest ==
    ASSUME IInv, UNCHANGED writerVars
    PROVE  IInv'
BY DEF writerVars, bufferVars, IInv, TakenInv, OffsetsTaken

-----------------------------------------------------------------------------
(* Types.                                                                  *)

\* The rows of a partition and of a table.
At(p) == {r \in Rows : PartitionOf[r] = p}
OfTable(t) == {r \in Rows : TableOf[r] = t}

\* The topic holds well-formed events, each in its row's partition.
LogOK ==
    /\ log \in [Partitions -> Seq(Built)]
    /\ \A p \in Partitions : log[p] \in Seq(ForRows(At(p)))

\* The buffer holds each table's own events, and a dead writer has none.
BufferOK ==
    /\ perTable \in [Tables -> Seq(Built)]
    /\ \A t \in Tables : perTable[t] \in Seq(ForRows(OfTable(t)))
    /\ writerPC = "down" => perTable = EmptyBuffer

\* No position lies beyond the end of the topic.
PositionsOK ==
    /\ fetchPos \in Offsets /\ newest \in Offsets /\ committed \in Offsets
    /\ \A p \in Partitions :
        fetchPos[p] <= Len(log[p]) /\ newest[p] <= Len(log[p]) /\ committed[p] <= Len(log[p])

WriterOK ==
    /\ writerPC \in WriterPCs
    /\ dest \in Contents
    /\ destTables \subseteq Tables

WriterTypes == LogOK /\ BufferOK /\ PositionsOK /\ WriterOK

\* The message that Fetch(p) hands out.
Message(p) == log[p][fetchPos[p] + 1]

(* It is an event of a row of that partition and goes to its table.        *)
LEMMA FetchLemma ==
    ASSUME WriterTypes, NEW p \in Partitions, Fetch(p)
    PROVE  /\ Message(p) \in Built /\ Message(p).row \in Rows
           /\ PartitionOf[Message(p).row] = p
           /\ TableOf[Message(p).row] \in Tables
           /\ perTable' = [perTable EXCEPT ![TableOf[Message(p).row]] = Append(@, Message(p))]
           /\ fetchPos[p] \in Nat /\ Len(log[p]) \in Nat /\ fetchPos[p] + 1 <= Len(log[p])
<1>1. fetchPos[p] \in Nat /\ log[p] \in Seq(ForRows(At(p)))
  BY DEF WriterTypes, PositionsOK, LogOK, Offsets
<1>2. Len(log[p]) \in Nat /\ fetchPos[p] < Len(log[p])
  BY <1>1, LenProperties DEF Fetch
<1>3. Message(p) \in ForRows(At(p))
  BY <1>1, <1>2, ElementOfSeq DEF Message
<1>4. perTable' = [perTable EXCEPT ![TableOf[Message(p).row]] = Append(@, Message(p))]
  BY DEF Fetch, Add, Message
<1>5. Message(p) \in Built /\ Message(p).row \in Rows /\ PartitionOf[Message(p).row] = p
  BY <1>3 DEF ForRows, At
<1> QED
  BY <1>1, <1>2, <1>4, <1>5, ShapeAssumption

(* Every step of the writer, of whatever kind, leaves them well-formed.    *)
LEMMA WriterTypesStep ==
    ASSUME WriterTypes, WriterStep, log' = log
    PROVE  WriterTypes'
<1>0. /\ LogOK' /\ log' = log
      /\ EmptyBuffer \in [Tables -> Seq(Built)]
      /\ \A t \in Tables : EmptyBuffer[t] \in Seq(ForRows(OfTable(t)))
  BY EmptySeq DEF EmptyBuffer, WriterTypes, LogOK
<1>1. CASE WriterStart
  BY <1>0, <1>1
     DEF WriterStart, bufferVars, destVars, WriterTypes, BufferOK, PositionsOK, WriterOK, WriterPCs
<1>2. ASSUME NEW p \in Partitions, Fetch(p)
      PROVE  WriterTypes'
  <2> DEFINE evt == Message(p)
             t == TableOf[evt.row]
  <2>1. /\ evt \in Built /\ evt.row \in Rows /\ t \in Tables
        /\ perTable' = [perTable EXCEPT ![t] = Append(@, evt)]
        /\ fetchPos[p] \in Nat /\ Len(log[p]) \in Nat /\ fetchPos[p] + 1 <= Len(log[p])
    BY <1>2, FetchLemma
  <2>2. UNCHANGED <<committed, dest, destTables>> /\ writerPC' \in {"run", "flush"}
    BY <1>2 DEF Fetch, destVars
  <2>3. BufferOK'
    <3>1. evt \in ForRows(OfTable(t))
      BY <2>1 DEF ForRows, OfTable
    <3>2. Append(perTable[t], evt) \in Seq(Built) /\ Append(perTable[t], evt) \in Seq(ForRows(OfTable(t)))
      BY <2>1, <3>1, AppendProperties DEF WriterTypes, BufferOK
    <3> HIDE DEF evt, t
    <3> QED
      BY <2>1, <2>2, <3>2 DEF WriterTypes, BufferOK
  <2>4. PositionsOK'
    <3>1. newest' = [newest EXCEPT ![p] = Larger(@, fetchPos[p] + 1)]
          /\ fetchPos' = [fetchPos EXCEPT ![p] = @ + 1]
      BY <1>2 DEF Fetch, Add
    <3>2. Larger(newest[p], fetchPos[p] + 1) \in {newest[p], fetchPos[p] + 1}
      BY DEF Larger
    <3> QED
      BY <1>0, <2>1, <2>2, <3>1, <3>2 DEF WriterTypes, PositionsOK, Offsets
  <2> QED
    BY <1>0, <2>2, <2>3, <2>4 DEF WriterTypes, WriterOK, WriterPCs
<1>3. CASE FlushInterval
  BY <1>0, <1>3
     DEF FlushInterval, bufferVars, destVars, WriterTypes, BufferOK, PositionsOK, WriterOK, WriterPCs
<1>4. ASSUME NEW t \in Tables, FlushTable(t)
      PROVE  WriterTypes'
  <2>1. dest' = flushTable(dest, perTable[t]) /\ dest' \in Contents
    BY <1>4, FlushType DEF FlushTable, WriterTypes, BufferOK, WriterOK
  <2>2. destTables' \subseteq Tables
    BY <1>4 DEF FlushTable, ensureTable, WriterTypes, WriterOK
  <2>3. /\ perTable' = [perTable EXCEPT ![t] = <<>>] /\ writerPC = "flush"
        /\ UNCHANGED <<writerPC, fetchPos, newest, committed>>
    BY <1>4 DEF FlushTable
  <2>4. BufferOK'
    BY <2>3, EmptySeq DEF WriterTypes, BufferOK
  <2> QED
    BY <1>0, <2>1, <2>2, <2>3, <2>4 DEF WriterTypes, PositionsOK, WriterOK
<1>5. CASE CommitOffsets
  <2>1. PositionsOK'
    BY <1>0, <1>5 DEF CommitOffsets, OffsetsTaken, NoMessage, WriterTypes, PositionsOK, Offsets
  <2> QED
    BY <1>0, <1>5, <2>1
       DEF CommitOffsets, destVars, WriterTypes, BufferOK, WriterOK, WriterPCs
<1>6. CASE WriterCrash
  <2>1. writerPC' = "down" /\ fetchPos' = NoMessage /\ perTable' = EmptyBuffer
        /\ newest' = NoMessage /\ UNCHANGED <<committed, dest>>
    BY <1>6 DEF WriterCrash
  <2>2. destTables' \subseteq Tables
    BY <1>6 DEF WriterCrash, ensureTable, WriterTypes, WriterOK
  <2>3. \A p \in Partitions : Len(log[p]) \in Nat
    BY LenProperties DEF WriterTypes, LogOK
  <2>4. PositionsOK'
    BY <1>0, <2>1, <2>3 DEF NoMessage, WriterTypes, PositionsOK, Offsets
  <2> QED
    BY <1>0, <2>1, <2>2, <2>4 DEF WriterTypes, BufferOK, WriterOK, WriterPCs
<1>7. CASE Rebalance
  BY <1>0, <1>7 DEF Rebalance, bufferVars, destVars, WriterTypes, BufferOK, PositionsOK, WriterOK
<1> QED
  BY <1>1, <1>2, <1>3, <1>4, <1>5, <1>6, <1>7 DEF WriterStep, WriterProgress

(* So does whatever makes the topic longer.                                *)
LEMMA WriterTypesGrow ==
    ASSUME WriterTypes, UNCHANGED writerVars, LogOK',
           \A p \in Partitions : Len(log'[p]) >= Len(log[p])
    PROVE  WriterTypes'
<1>1. UNCHANGED <<writerPC, fetchPos, perTable, newest, committed, dest, destTables>>
  BY DEF writerVars, bufferVars, destVars
<1>2. \A p \in Partitions : Len(log[p]) \in Nat /\ Len(log'[p]) \in Nat
  BY LenProperties DEF WriterTypes, LogOK
<1>3. PositionsOK'
  BY <1>1, <1>2 DEF WriterTypes, PositionsOK, Offsets
<1> QED
  BY <1>1, <1>3 DEF WriterTypes, BufferOK, WriterOK

(* The writer's faults are counted within the bound.                       *)
LEMMA WriterFaults ==
    ASSUME FaultsTypeOK, WriterStep
    PROVE  FaultsTypeOK'
<1>1. faults' = faults \/ (faults < MaxFaults /\ faults' = faults + 1)
  BY DEF WriterStep, WriterProgress, WriterStart, Fetch, FlushTable, CommitOffsets, FlushInterval,
         WriterCrash, Rebalance, Fault, NoFault
<1> QED
  BY <1>1, FaultsAssumption DEF FaultsTypeOK

-----------------------------------------------------------------------------
(* The buffer.                                                             *)

\* Of a partition: what a commit would cover, what is left after that, and
\* what the next consumer would be given.
Taken(p) == SubSeq(log[p], committed[p] + 1, OffsetsTaken[p])
Left(p) == SubSeq(log[p], OffsetsTaken[p] + 1, Len(log[p]))
Owed(p) == SubSeq(log[p], committed[p] + 1, Len(log[p]))

\* A table still to flush holds, row by row, what the commit would cover; a
\* writer that is not flushing has not dropped any.
BufferInv ==
    \A r \in Rows : writerPC = "run" \/ perTable[TableOf[r]] # <<>> =>
        OfRow(perTable[TableOf[r]], r) = OfRow(Taken(PartitionOf[r]), r)

(* The offset a commit would store lies between the committed one and the  *)
(* end of the partition, which it cuts in two.                             *)
LEMMA TakenType ==
    ASSUME WriterTypes, IInv, NEW p \in Partitions
    PROVE  /\ log[p] \in Seq(Built) /\ Len(log[p]) \in Nat /\ committed[p] \in Nat
           /\ OffsetsTaken[p] \in committed[p]..Len(log[p])
           /\ Taken(p) \in Seq(Built) /\ Left(p) \in Seq(Built) /\ Owed(p) \in Seq(Built)
           /\ Owed(p) = Taken(p) \o Left(p)
<1>1. log[p] \in Seq(Built) /\ committed[p] \in Nat /\ committed[p] <= Len(log[p])
  BY DEF WriterTypes, LogOK, PositionsOK, Offsets
<1>2. Len(log[p]) \in Nat /\ \A i \in 1..Len(log[p]) : log[p][i] \in Built
  BY <1>1, LenProperties, ElementOfSeq
<1>3. OffsetsTaken[p] \in committed[p]..Len(log[p])
  <2>1. CASE writerPC = "down"
    BY <1>1, <1>2, <2>1 DEF IInv, TakenInv, OffsetsTaken, NoMessage
  <2>2. CASE writerPC # "down"
    BY <1>1, <1>2, <2>2 DEF IInv, TakenInv, WriterTypes, PositionsOK, Offsets
  <2> QED
    BY <2>1, <2>2
<1>4. Taken(p) \in Seq(Built) /\ Left(p) \in Seq(Built) /\ Owed(p) \in Seq(Built)
  <2>1. \A m \in 1..(Len(log[p])+1), n \in 0..Len(log[p]) : SubSeq(log[p], m, n) \in Seq(Built)
    BY <1>2, SubSeqProperties
  <2>2. committed[p] + 1 \in 1..(Len(log[p])+1) /\ OffsetsTaken[p] + 1 \in 1..(Len(log[p])+1)
        /\ OffsetsTaken[p] \in 0..Len(log[p]) /\ Len(log[p]) \in 0..Len(log[p])
    BY <1>1, <1>2, <1>3
  <2> QED
    BY <2>1, <2>2 DEF Taken, Left, Owed
<1>5. Owed(p) = Taken(p) \o Left(p)
  <2> DEFINE m == committed[p] + 1
             k == OffsetsTaken[p]
             n == Len(log[p])
  <2>1. m \in 1..(n+1) /\ k \in (m-1)..n /\ n \in k..n
    BY <1>1, <1>2, <1>3
  <2> HIDE DEF m, k
  <2>2. SubSeq(log[p], m, k) \o SubSeq(log[p], k+1, n) = SubSeq(log[p], m, n)
    BY <1>1, <2>1, ConcatAdjacentSubSeq
  <2> QED
    BY <2>2 DEF Owed, Taken, Left, m, k
<1> QED
  BY <1>1, <1>2, <1>3, <1>4, <1>5

(* A longer topic adds to what is owed, not to what is taken.              *)
LEMMA GrowTaken ==
    ASSUME WriterTypes, IInv, UNCHANGED writerVars,
           NEW p \in Partitions, NEW s \in Seq(Built), log'[p] = log[p] \o s
    PROVE  Taken(p)' = Taken(p) /\ Owed(p)' = Owed(p) \o s
<1>1. /\ log[p] \in Seq(Built) /\ Len(log[p]) \in Nat /\ committed[p] \in Nat
      /\ OffsetsTaken[p] \in committed[p]..Len(log[p])
  BY TakenType
<1>2. committed' = committed /\ newest' = newest /\ OffsetsTaken' = OffsetsTaken
  BY DEF writerVars, bufferVars, OffsetsTaken
<1>3. Extended(log[p], s, committed[p] + 1)
  <2>1. committed[p] + 1 \in 1..(Len(log[p]) + 1)
    BY <1>1
  <2> QED
    BY <1>1, <2>1, SubSeqOfConcat
<1>4. OffsetsTaken[p] \in 0..Len(log[p])
  BY <1>1
<1> QED
  BY <1>2, <1>3, <1>4 DEF Extended, Taken, Owed

(* A fetch takes the message.                                              *)
LEMMA FetchTaken ==
    ASSUME WriterTypes, IInv, IInv', NEW p \in Partitions, Fetch(p), log' = log, NEW q \in Partitions
    PROVE  Taken(q)' = IF q = p THEN Append(Taken(p), Message(p)) ELSE Taken(q)
<1>1. /\ log[p] \in Seq(Built) /\ Len(log[p]) \in Nat /\ committed[p] \in Nat
      /\ OffsetsTaken[p] \in committed[p]..Len(log[p]) /\ Taken(p) \in Seq(Built)
  BY TakenType
<1>2. Message(p) \in Built /\ fetchPos[p] \in Nat /\ fetchPos[p] + 1 <= Len(log[p])
  BY FetchLemma
<1>3. committed' = committed /\ fetchPos' = [fetchPos EXCEPT ![p] = @ + 1] /\ writerPC = "run" /\ writerPC' # "down"
      /\ newest' = [newest EXCEPT ![p] = Larger(@, fetchPos[p] + 1)]
  BY DEF Fetch, Add
<1>4. CASE q = p
  <2>1. OffsetsTaken[p] = fetchPos[p] /\ OffsetsTaken'[p] = fetchPos[p] + 1
    BY <1>3 DEF IInv, TakenInv, Offsets
  <2>2. committed[p] + 1 \in 1..Len(log[p]) /\ fetchPos[p] + 1 \in (committed[p] + 1)..Len(log[p])
    BY <1>1, <1>2, <2>1
  <2>3. SubSeq(log[p], committed[p] + 1, fetchPos[p] + 1)
          = SubSeq(log[p], committed[p] + 1, (fetchPos[p] + 1) - 1) \o <<log[p][fetchPos[p] + 1]>>
    BY <1>1, <2>2, SubSeqRecursiveSecond
  <2>4. (fetchPos[p] + 1) - 1 = fetchPos[p]
    BY <1>2
  <2>5. Taken(p)' = Taken(p) \o <<Message(p)>>
    BY <1>3, <2>1, <2>3, <2>4 DEF Taken, Message
  <2>6. Taken(p) \o <<Message(p)>> = Append(Taken(p), Message(p))
    <3> HIDE DEF Taken, Message
    <3> QED
      BY <1>1, <1>2
  <2> QED
    BY <1>4, <2>5, <2>6
<1>5. CASE q # p
  <2>1. newest'[q] = newest[q] /\ OffsetsTaken'[q] = OffsetsTaken[q]
    BY <1>3, <1>5 DEF IInv, Offsets, OffsetsTaken
  <2> QED
    BY <1>3, <1>5, <2>1 DEF Taken
<1> QED
  BY <1>4, <1>5

(* Every step of the writer but a rebalance keeps the buffer what the      *)
(* commit would cover.                                                     *)
LEMMA BufferStep ==
    ASSUME ~Rebalance, WriterTypes, IInv, BufferInv, WriterStep, log' = log
    PROVE  BufferInv'
<1>0. WriterTypes' /\ IInv' /\ \A r \in Rows : TableOf[r] \in Tables /\ PartitionOf[r] \in Partitions
  BY WriterTypesStep, OffsetsStep, ShapeAssumption
<1>e. \A r \in Rows : EmptyBuffer[TableOf[r]] = <<>> /\ OfRow(<<>>, r) = <<>>
  BY <1>0, OfRowType DEF EmptyBuffer
<1>l. log' = log
  OBVIOUS
<1>1. CASE WriterStart
  <2>1. \A p \in Partitions : newest'[p] = 0 /\ committed'[p] \in Nat
    BY <1>1 DEF WriterStart, bufferVars, IInv, TakenInv, NoMessage, Offsets
  <2>2. \A p \in Partitions : Taken(p)' = <<>>
    BY <2>1, SubSeqEmpty DEF Taken, OffsetsTaken
  <2>3. perTable' = EmptyBuffer
    BY <1>1 DEF WriterStart, bufferVars, WriterTypes, BufferOK
  <2> QED
    BY <1>0, <1>e, <2>2, <2>3 DEF BufferInv
<1>2. ASSUME NEW p \in Partitions, Fetch(p)
      PROVE  BufferInv'
  <2> DEFINE evt == Message(p)
             t == TableOf[evt.row]
  <2>1. /\ evt \in Built /\ evt.row \in Rows /\ PartitionOf[evt.row] = p
        /\ perTable' = [perTable EXCEPT ![t] = Append(@, evt)]
    BY <1>2, FetchLemma
  <2>2. \A q \in Partitions : Taken(q)' = IF q = p THEN Append(Taken(p), evt) ELSE Taken(q)
    BY <1>0, <1>l, <1>2, FetchTaken
  <2>3. writerPC = "run"
    BY <1>2 DEF Fetch
  <2>4. \A q \in Partitions : Taken(q) \in Seq(Built)
    BY TakenType
  <2> HIDE DEF evt
  <2>5. SUFFICES ASSUME NEW r \in Rows
                 PROVE  OfRow(perTable'[TableOf[r]], r) = OfRow(Taken(PartitionOf[r])', r)
    BY <1>0 DEF BufferInv
  <2>6. OfRow(perTable[TableOf[r]], r) = OfRow(Taken(PartitionOf[r]), r)
    BY <2>3 DEF BufferInv
  <2>7. perTable[TableOf[r]] \in Seq(Built) /\ perTable \in [Tables -> Seq(Built)]
    BY <1>0 DEF WriterTypes, BufferOK
  <2>8. OfRow(perTable'[TableOf[r]], r)
          = IF evt.row = r THEN Append(OfRow(perTable[TableOf[r]], r), evt) ELSE OfRow(perTable[TableOf[r]], r)
    <3>1. CASE TableOf[r] = t
      <4>1. perTable'[TableOf[r]] = Append(perTable[TableOf[r]], evt)
        BY <1>0, <2>1, <2>7, <3>1
      <4> DEFINE s == perTable[TableOf[r]]
      <4>2. evt \in Built /\ s \in Seq(Built)
        BY <2>1, <2>7
      <4> HIDE DEF s
      <4>3. OfRow(Append(s, evt), r) = IF evt.row = r THEN Append(OfRow(s, r), evt) ELSE OfRow(s, r)
        BY <4>2, OfRowAppend
      <4> QED
        BY <4>1, <4>3 DEF s
    <3>2. CASE TableOf[r] # t
      BY <1>0, <2>1, <2>7, <3>2
    <3> QED
      BY <3>1, <3>2
  <2>9. OfRow(Taken(PartitionOf[r])', r)
          = IF evt.row = r THEN Append(OfRow(Taken(PartitionOf[r]), r), evt) ELSE OfRow(Taken(PartitionOf[r]), r)
    <3>1. CASE PartitionOf[r] = p
      <4>1. Taken(PartitionOf[r])' = Append(Taken(p), evt)
        BY <1>0, <2>2, <3>1
      <4> QED
        BY <1>0, <2>1, <2>4, <3>1, <4>1, OfRowAppend
    <3>2. CASE PartitionOf[r] # p
      BY <1>0, <2>1, <2>2, <3>2
    <3> QED
      BY <3>1, <3>2
  <2> QED
    BY <2>6, <2>8, <2>9
<1>3. CASE FlushInterval
  <2>1. writerPC = "run" /\ perTable' = perTable
    BY <1>3 DEF FlushInterval, bufferVars
  <2>2. \A p \in Partitions : Taken(p)' = Taken(p)
    BY <1>l, <1>3 DEF FlushInterval, bufferVars, Taken, OffsetsTaken
  <2> QED
    BY <1>0, <2>1, <2>2 DEF BufferInv
<1>4. ASSUME NEW t \in Tables, FlushTable(t)
      PROVE  BufferInv'
  <2>1. writerPC' = "flush" /\ perTable' = [perTable EXCEPT ![t] = <<>>]
    BY <1>4 DEF FlushTable
  <2>2. \A p \in Partitions : Taken(p)' = Taken(p)
    BY <1>l, <1>4 DEF FlushTable, Taken, OffsetsTaken
  <2>3. \A r \in Rows : perTable'[TableOf[r]] # <<>> => perTable'[TableOf[r]] = perTable[TableOf[r]]
    BY <1>0, <2>1 DEF WriterTypes, BufferOK
  <2> QED
    BY <1>0, <2>1, <2>2, <2>3 DEF BufferInv
<1>5. CASE CommitOffsets
  <2>1. \A p \in Partitions : newest'[p] = 0 /\ committed'[p] \in Nat
    BY <1>0, <1>5 DEF CommitOffsets, IInv, NoMessage, Offsets
  <2>2. \A p \in Partitions : Taken(p)' = <<>>
    BY <2>1, SubSeqEmpty DEF Taken, OffsetsTaken
  <2>3. perTable' = EmptyBuffer
    BY <1>5 DEF CommitOffsets
  <2> QED
    BY <1>0, <1>e, <2>2, <2>3 DEF BufferInv
<1>6. CASE WriterCrash
  <2>1. writerPC' = "down" /\ perTable' = EmptyBuffer
    BY <1>6 DEF WriterCrash
  <2> QED
    BY <1>0, <1>e, <2>1 DEF BufferInv
<1> QED
  BY <1>1, <1>2, <1>3, <1>4, <1>5, <1>6 DEF WriterStep, WriterProgress

(* So does whatever makes the topic longer.                                *)
LEMMA BufferGrow ==
    ASSUME WriterTypes, IInv, BufferInv, UNCHANGED writerVars,
           \A p \in Partitions : \E s \in Seq(Built) : log'[p] = log[p] \o s
    PROVE  BufferInv'
<1>1. \A p \in Partitions : Taken(p)' = Taken(p)
  BY GrowTaken
<1>2. UNCHANGED <<writerPC, perTable>>
  BY DEF writerVars, bufferVars
<1> QED
  BY <1>1, <1>2, ShapeAssumption DEF BufferInv

(* Laid end to end, what the partitions hold is, for each row, what its    *)
(* own partition holds.                                                    *)
LEMMA PartitionsRows ==
    ASSUME NEW evts, \A q \in Partitions : evts[q] \in Seq(ForRows(At(q)))
    PROVE  /\ OverPartitions(evts) \in Seq(Built)
           /\ \A r \in Rows : OfRow(OverPartitions(evts), r) = OfRow(evts[PartitionOf[r]], r)
<1> DEFINE parts == SetToSeq(Partitions)
           N == Cardinality(Partitions)
           ss == [i \in 1..N |-> evts[parts[i]]]
<1>1. Lists(parts, Partitions)
  BY ShapeAssumption, SetToSeqLists
<1>2. OverPartitions(evts) = FlattenSeq(ss)
  BY DEF OverPartitions
<1> HIDE DEF parts
<1>3. /\ Len(parts) = N /\ N \in Nat
      /\ \A i \in 1..N : parts[i] \in Partitions
  BY <1>1, LenProperties, ElementOfSeq DEF Lists
<1>4. \A q \in Partitions : evts[q] \in Seq(Built)
  BY SeqMonotonic DEF ForRows
<1>5. ss \in Seq(Seq(Built)) /\ Len(ss) = N /\ \A i \in 1..N : ss[i] = evts[parts[i]]
  BY <1>3, <1>4
<1> HIDE DEF ss
<1>6. ASSUME NEW r \in Rows
      PROVE  OfRow(OverPartitions(evts), r) = OfRow(evts[PartitionOf[r]], r)
  <2>1. PICK k \in 1..N : parts[k] = PartitionOf[r]
    BY <1>1, <1>3, ShapeAssumption DEF Lists
  <2>2. AtMost(ss, k, r)
    <3> SUFFICES ASSUME NEW i \in 1..N, i # k PROVE OfRow(ss[i], r) = <<>>
      BY <1>5 DEF AtMost
    <3>1. parts[i] # PartitionOf[r] /\ parts[i] \in Partitions
      BY <1>1, <1>3, <2>1 DEF Lists
    <3>2. r \notin At(parts[i]) /\ evts[parts[i]] \in Seq(ForRows(At(parts[i])))
      BY <3>1 DEF At
    <3>3. OfRow(evts[parts[i]], r) = <<>>
      BY <3>2, NoneOfRow
    <3> QED
      BY <1>5, <3>3
  <2>3. Isolated(ss, r)
    BY <1>5, OfRowFlatten
  <2> QED
    BY <1>2, <1>5, <2>1, <2>2, <2>3 DEF Isolated
<1> QED
  BY <1>2, <1>5, <1>6, FlattenType

(* So it is with what they hold for the next consumer.                     *)
LEMMA RedeliveredRows ==
    ASSUME WriterTypes
    PROVE  /\ Redelivered \in Seq(Built)
           /\ \A r \in Rows : OfRow(Redelivered, r) = OfRow(Owed(PartitionOf[r]), r)
<1> DEFINE evts == [p \in Partitions |-> Owed(p)]
<1>1. ASSUME NEW q \in Partitions
      PROVE  evts[q] \in Seq(ForRows(At(q))) /\ evts[q] = Owed(q)
  <2>1. log[q] \in Seq(ForRows(At(q))) /\ committed[q] \in Nat
    BY DEF WriterTypes, LogOK, PositionsOK, Offsets
  <2>2. Len(log[q]) \in Nat /\ \A i \in (committed[q] + 1)..Len(log[q]) : log[q][i] \in ForRows(At(q))
    BY <2>1, LenProperties, ElementOfSeq
  <2>3. Owed(q) \in Seq(ForRows(At(q)))
    BY <2>1, <2>2, SubSeqProperties DEF Owed
  <2> QED
    BY <2>3
<1>2. Redelivered = OverPartitions(evts)
  BY DEF Redelivered, Owed
<1> HIDE DEF evts
<1> QED
  BY <1>1, <1>2, PartitionsRows, ShapeAssumption

-----------------------------------------------------------------------------
(* What a statement changes, and its events.                               *)

(* Every change of the source that a statement can make is a Change.       *)
LEMMA ChangesType ==
    ASSUME NEW tbl \in Contents, NEW v \in Nat
    PROVE  Changes(tbl, v) \subseteq Change
<1>1. Written(v) \in Tuple /\ Written(Null) \in Tuple /\ Touched(v) \in Tuple
  BY DEF Written, Touched, Tuple, Null
<1>2. Inserts(tbl, v) \subseteq Change /\ Deletes(tbl) \subseteq Change /\ Truncates(tbl) \subseteq Change
  BY <1>1 DEF Inserts, Deletes, Truncates, Change
<1>3. ASSUME NEW tuple \in Tuple
      PROVE  Updates(tbl, tuple) \subseteq Change /\ Rekeys(tbl, tuple) \subseteq Change
  BY <1>3 DEF Updates, Rekeys, Change
<1> QED
  BY <1>1, <1>2, <1>3, SourceAssumption DEF Changes

\* What tells the changes of contents tbl apart: an insert is of a row that
\* is not there, the others of one that is, and a key moves to a free key.
Statement(tbl, ch) ==
    /\ ch.kind = "insert" => tbl[ch.row] = Absent /\ ch.tuple \in Image
    /\ ch.kind # "insert" => tbl[ch.row] # Absent
    /\ ch.kind = "update" /\ ch.row # ch.to => tbl[ch.to] = Absent

(* The application's statements are such changes.                          *)
LEMMA StatementsOnly ==
    ASSUME NEW tbl \in Contents, NEW v \in Nat, NEW ch \in Changes(tbl, v)
    PROVE  Statement(tbl, ch)
<1>1. Written(v) \in Image
  BY DEF Written, Image
<1>2. /\ ch \in Inserts(tbl, v) => Statement(tbl, ch)
      /\ ch \in Deletes(tbl) \cup Truncates(tbl) => Statement(tbl, ch)
  BY <1>1 DEF Inserts, Deletes, Truncates, Statement
<1>3. \A tuple : ch \in Updates(tbl, tuple) \cup Rekeys(tbl, tuple) => Statement(tbl, ch)
  BY DEF Updates, Rekeys, Statement
<1>4. \/ ch \in Inserts(tbl, v) \/ ch \in Deletes(tbl) \/ ch \in Truncates(tbl)
      \/ \E tuple : ch \in Updates(tbl, tuple) \cup Rekeys(tbl, tuple)
  BY SourceAssumption DEF Changes
<1> QED
  BY <1>2, <1>3, <1>4

(* A statement leaves well-formed contents.                                *)
LEMMA EffectType ==
    ASSUME NEW tbl \in Contents, NEW v \in Nat, NEW ch \in Changes(tbl, v)
    PROVE  Effect(tbl, ch) \in Contents
<1>1. ch \in Change /\ Statement(tbl, ch)
  BY ChangesType, StatementsOnly
<1>2. CASE ch.kind = "insert"
  BY <1>1, <1>2 DEF Effect, Contents, Change, Statement
<1>3. CASE ch.kind = "update"
  <2>1. tbl[ch.row] \in Image
    BY <1>1, <1>3 DEF Contents, Change, Statement
  <2>2. NewImage(tbl[ch.row], ch.tuple) \in Image
    BY <1>1, <2>1 DEF NewImage, Image, Change, Tuple
  <2> QED
    BY <1>1, <1>3, <2>2 DEF Effect, Contents, Change
<1>4. CASE ch.kind = "delete"
  BY <1>1, <1>4 DEF Effect, Contents, Change
<1>5. CASE ch.kind = "truncate"
  BY <1>1, <1>5 DEF Effect, Contents, Change
<1> QED
  BY <1>1, <1>2, <1>3, <1>4, <1>5 DEF Change

(* The events of a change are what the decoder builds.                     *)
LEMMA EventsOfType ==
    ASSUME NEW ch \in Change
    PROVE  EventsOf(ch) \in Seq(Built)
<1>1. ch.row \in Rows /\ ch.to \in Rows /\ ch.tuple \in Tuple
  BY DEF Change
<1>2. /\ buildChangeEvent("c", ch.row, ch.tuple) \in Built
      /\ buildChangeEvent("u", ch.to, ch.tuple) \in Built
      /\ buildChangeEvent("c", ch.to, ch.tuple) \in Built
      /\ buildDeleteEvent(ch.row) \in Built
  BY <1>1, DecoderWellFormed DEF Ops, Built, WellFormed
<1> QED
  BY <1>2 DEF EventsOf, Change

\* The transaction that a step of the source commits: one change or two, or
\* none to a published table.
Committed(txn) ==
    \/ txn = <<>> /\ table' = table
    \/ \E ch \in Changes(table, version + 1) : txn = <<ch>> /\ table' = Effect(table, ch)
    \/ \E first \in Changes(table, version + 1) :
        \E second \in Changes(Effect(table, first), version + 2) :
            txn = <<first, second>> /\ table' = Effect(Effect(table, first), second)

(* The transaction is the last in the WAL.                                 *)
LEMMA LastCommitted ==
    ASSUME SourceTypeOK, SourceStep
    PROVE  Committed(wal'[Len(wal')]) /\ SourceTypeOK'
<1>1. version + 1 \in Nat /\ version + 2 \in Nat /\ table \in Contents /\ wal \in Seq(Seq(Change))
  BY DEF SourceTypeOK
<1>2. \A txn : wal' = Append(wal, txn) => wal'[Len(wal')] = txn
  BY <1>1
<1>3. CASE CommitOne
  <2>1. PICK ch \in Changes(table, version + 1) :
            table' = Effect(table, ch) /\ wal' = Append(wal, <<ch>>)
    BY <1>3 DEF CommitOne
  <2>2. ch \in Change /\ Effect(table, ch) \in Contents
    BY <1>1, ChangesType, EffectType
  <2>3. <<ch>> \in Seq(Change) /\ version' = version + 1
    BY <1>3, <2>2 DEF CommitOne
  <2> QED
    BY <1>1, <1>2, <2>1, <2>2, <2>3 DEF Committed, SourceTypeOK
<1>4. CASE CommitPair
  <2>1. PICK first \in Changes(table, version + 1) :
            \E second \in Changes(Effect(table, first), version + 2) :
                /\ table' = Effect(Effect(table, first), second)
                /\ wal' = Append(wal, <<first, second>>)
    BY <1>4 DEF CommitPair
  <2>2. PICK second \in Changes(Effect(table, first), version + 2) :
                /\ table' = Effect(Effect(table, first), second)
                /\ wal' = Append(wal, <<first, second>>)
    BY <2>1
  <2>3. first \in Change /\ Effect(table, first) \in Contents
    BY <1>1, ChangesType, EffectType
  <2>4. second \in Change /\ Effect(Effect(table, first), second) \in Contents
    BY <1>1, <2>3, ChangesType, EffectType
  <2>5. <<first, second>> \in Seq(Change) /\ version' = version + 2
    BY <1>4, <2>3, <2>4 DEF CommitPair
  <2>6. Committed(<<first, second>>)
    BY <2>2 DEF Committed
  <2> QED
    BY <1>1, <1>2, <2>2, <2>4, <2>5, <2>6 DEF SourceTypeOK
<1>5. CASE CommitOther
  <2>1. wal' = Append(wal, <<>>) /\ <<>> \in Seq(Change) /\ UNCHANGED <<table, version>>
    BY <1>5, EmptySeq DEF CommitOther
  <2> QED
    BY <1>1, <1>2, <2>1 DEF Committed, SourceTypeOK
<1> QED
  BY <1>3, <1>4, <1>5 DEF SourceStep

(* A transaction without a change has no events.                           *)
LEMMA EventsOfNone == EventsOfTxns(<<<<>>>>) = <<>>
<1>1. [n \in DOMAIN <<<<>>>> |->
        FlattenSeq([k \in DOMAIN <<<<>>>>[n] |-> EventsOf(<<<<>>>>[n][k])])] = <<<<>>>>
  <2>1. \A n \in DOMAIN <<<<>>>> : FlattenSeq([k \in DOMAIN <<<<>>>>[n] |-> EventsOf(<<<<>>>>[n][k])]) = <<>>
    <3>1. [k \in DOMAIN <<>> |-> EventsOf(<<>>[k])] = <<>>
      OBVIOUS
    <3> QED
      BY <3>1, FlattenEmpty
  <2> QED
    BY <2>1
<1>2. <<>> \in Seq(Built)
  BY EmptySeq
<1> QED
  BY <1>1, <1>2, FlattenOne DEF EventsOfTxns

(* The events of one transaction: its changes' events end to end.          *)
LEMMA EventsOfOne ==
    ASSUME NEW ch \in Change
    PROVE  EventsOfTxns(<<<<ch>>>>) = EventsOf(ch)
<1>1. EventsOf(ch) \in Seq(Built)
  BY EventsOfType
<1>2. [k \in DOMAIN <<ch>> |-> EventsOf(<<ch>>[k])] = <<EventsOf(ch)>>
  OBVIOUS
<1>3. FlattenSeq(<<EventsOf(ch)>>) = EventsOf(ch)
  BY <1>1, FlattenOne
<1>4. [n \in DOMAIN <<<<ch>>>> |->
        FlattenSeq([k \in DOMAIN <<<<ch>>>>[n] |-> EventsOf(<<<<ch>>>>[n][k])])] = <<EventsOf(ch)>>
  BY <1>2, <1>3
<1> QED
  BY <1>3, <1>4 DEF EventsOfTxns

(* The same for a transaction of two changes.                              *)
LEMMA EventsOfPair ==
    ASSUME NEW first \in Change, NEW second \in Change
    PROVE  EventsOfTxns(<<<<first, second>>>>) = EventsOf(first) \o EventsOf(second)
<1> DEFINE txn == <<first, second>>
           both == EventsOf(first) \o EventsOf(second)
<1>1. EventsOf(first) \in Seq(Built) /\ EventsOf(second) \in Seq(Built) /\ both \in Seq(Built)
  BY EventsOfType, ConcatProperties
<1>2. [k \in DOMAIN txn |-> EventsOf(txn[k])] = <<EventsOf(first), EventsOf(second)>>
  OBVIOUS
<1>3. FlattenSeq(<<EventsOf(first), EventsOf(second)>>) = both
  BY <1>1, FlattenTwo
<1>4. FlattenSeq([k \in DOMAIN txn |-> EventsOf(txn[k])]) = both
  BY <1>2, <1>3
<1> HIDE DEF txn, both
<1>5. [n \in DOMAIN <<txn>> |-> FlattenSeq([k \in DOMAIN <<txn>>[n] |-> EventsOf(<<txn>>[n][k])])]
        = <<both>>
  BY <1>4
<1>6. EventsOfTxns(<<txn>>) = both
  BY <1>1, <1>5, FlattenOne DEF EventsOfTxns
<1> QED
  BY <1>6 DEF txn, both

(* Without "rekeyTouch" a row that takes a new key is sent whole.          *)
LEMMA WholeRekeys ==
    ASSUME "rekeyTouch" \notin ChangeKinds,
           NEW tbl \in Contents, NEW v \in Nat, NEW ch \in Changes(tbl, v), ch.row # ch.to
    PROVE  ch.tuple \in Image /\ ch.kind = "update"
<1>1. Written(v) \in Image
  BY DEF Written, Image
<1>2. ch \in Rekeys(tbl, Written(v))
  BY SourceAssumption DEF Changes, Inserts, Updates, Deletes, Truncates
<1> QED
  BY <1>1, <1>2 DEF Rekeys

(* An event that carries a whole row stores that row.                      *)
LEMMA WholeRow ==
    ASSUME NEW op \in {"c", "u"}, NEW row \in Rows, NEW tuple \in Image
    PROVE  LET evt == buildChangeEvent(op, row, tuple)
           IN  evt.op = op /\ evt.row = row /\ evt.unchanged = {} /\ mergeRow(Absent, evt) = tuple
<1> DEFINE evt == buildChangeEvent(op, row, tuple)
<1>1. \A c \in Cols : tuple[c] \in Nat /\ tuple[c] # UnchangedMark /\ tuple[c] # Missing
  BY SentinelAssumption DEF Image
<1>2. evt.op = op /\ evt.row = row /\ evt.unchanged = {} /\ evt.after = [c \in Cols |-> tuple[c]]
  BY <1>1 DEF buildChangeEvent, UnchangedCols, After
<1> HIDE DEF evt
<1>3. Inserted(evt) = [c \in Cols |-> tuple[c]]
  BY <1>1, <1>2 DEF Inserted, columnValue
<1>4. [c \in Cols |-> tuple[c]] = tuple
  BY DEF Image
<1>5. mergeRow(Absent, evt) = tuple
  BY <1>2, <1>3, <1>4 DEF mergeRow
<1> QED
  BY <1>2, <1>5 DEF evt

(* An update leaves what NewImage says.                                    *)
LEMMA UpdatedRow ==
    ASSUME NEW image \in Image, NEW row \in Rows, NEW tuple \in Tuple
    PROVE  LET evt == buildChangeEvent("u", row, tuple)
           IN  evt.op = "u" /\ evt.row = row /\ mergeRow(image, evt) = NewImage(image, tuple)
<1> DEFINE evt == buildChangeEvent("u", row, tuple)
<1>1. \A c \in Cols : tuple[c] \in Nat \cup {UnchangedMark} /\ (tuple[c] # UnchangedMark => tuple[c] # Missing)
  BY SentinelAssumption DEF Tuple
<1>2. /\ evt.op = "u" /\ evt.row = row
      /\ evt.unchanged = {c \in Cols : tuple[c] = UnchangedMark}
      /\ evt.after = [c \in Cols |-> IF tuple[c] = UnchangedMark THEN Missing ELSE tuple[c]]
  BY DEF buildChangeEvent, UnchangedCols, After
<1> HIDE DEF evt
<1>3. Overwritten(image, evt) = NewImage(image, tuple)
  BY <1>1, <1>2 DEF Overwritten, columnValue, NewImage
<1>4. image # Absent
  BY SentinelAssumption DEF Image
<1>5. mergeRow(image, evt) = NewImage(image, tuple)
  BY <1>2, <1>3, <1>4 DEF mergeRow
<1> QED
  BY <1>2, <1>5 DEF evt

\* The event that takes row r from image old to image new.
Takes(evt, old, new) ==
    /\ mergeRow(old, evt) = new
    /\ evt.op = "d" <=> new = Absent
    /\ evt.unchanged # {} => old # Absent

\* A change has no event for a row, and leaves it unless it truncates its
\* table, or it has the one event that the row needs.
OneEvent(tbl, ch, r) ==
    \/ /\ OfRow(EventsOf(ch), r) = <<>>
       /\ ch.kind # "truncate" => Effect(tbl, ch)[r] = tbl[r]
       /\ Effect(tbl, ch)[r] # Absent => tbl[r] # Absent
    \/ \E evt \in Built : /\ OfRow(EventsOf(ch), r) = <<evt>> /\ evt.row = r
                          /\ Takes(evt, tbl[r], Effect(tbl, ch)[r])

(* Every change has at most one event for a row, and it is the one the row *)
(* needs.                                                                  *)
LEMMA ChangeOnRow ==
    ASSUME "rekeyTouch" \notin ChangeKinds,
           NEW tbl \in Contents, NEW v \in Nat, NEW ch \in Changes(tbl, v), NEW r \in Rows
    PROVE  OneEvent(tbl, ch, r)
<1>1. ch \in Change /\ Statement(tbl, ch) /\ ch.row \in Rows /\ ch.to \in Rows /\ ch.tuple \in Tuple
  BY ChangesType, StatementsOnly DEF Change
<1>2. ch.kind \in {"insert", "update", "delete", "truncate"}
  BY <1>1 DEF Change
<1>3. \A x \in Image : x # Absent
  BY SentinelAssumption DEF Image
<1>4. CASE ch.kind = "insert"
  <2> DEFINE evt == buildChangeEvent("c", ch.row, ch.tuple)
  <2>1. ch.tuple \in Image /\ tbl[ch.row] = Absent
    BY <1>1, <1>4 DEF Statement
  <2>2. evt.op = "c" /\ evt.row = ch.row /\ evt.unchanged = {} /\ mergeRow(Absent, evt) = ch.tuple
    BY <1>1, <2>1, WholeRow
  <2>3. evt \in Built
    BY <1>1, DecoderWellFormed DEF Ops, Built, WellFormed
  <2> HIDE DEF evt
  <2>4. EventsOf(ch) = <<evt>> /\ Effect(tbl, ch) = [tbl EXCEPT ![ch.row] = ch.tuple]
    BY <1>4 DEF EventsOf, Effect, evt
  <2>5. OfRow(<<evt>>, r) = IF evt.row = r THEN <<evt>> ELSE <<>>
    BY <2>3, OfRowOne
  <2>6. CASE ch.row = r
    <3>1. Takes(evt, tbl[r], Effect(tbl, ch)[r])
      BY <1>3, <2>1, <2>2, <2>4, <2>6 DEF Takes, Contents
    <3> QED
      BY <2>2, <2>3, <2>4, <2>5, <2>6, <3>1 DEF OneEvent
  <2>7. CASE ch.row # r
    BY <2>2, <2>4, <2>5, <2>7 DEF OneEvent, Contents
  <2> QED
    BY <2>6, <2>7
<1>5. CASE ch.kind = "update" /\ ch.row = ch.to
  <2> DEFINE evt == buildChangeEvent("u", ch.to, ch.tuple)
  <2>1. tbl[ch.row] \in Image /\ tbl[ch.row] # Absent
    BY <1>1, <1>5 DEF Statement, Contents
  <2>2. evt.op = "u" /\ evt.row = ch.row /\ mergeRow(tbl[ch.row], evt) = NewImage(tbl[ch.row], ch.tuple)
    BY <1>1, <1>5, <2>1, UpdatedRow
  <2>3. evt \in Built
    BY <1>1, DecoderWellFormed DEF Ops, Built, WellFormed
  <2>4. NewImage(tbl[ch.row], ch.tuple) \in Image
    BY <1>1, <2>1 DEF NewImage, Image, Tuple
  <2> HIDE DEF evt
  <2>5. /\ EventsOf(ch) = <<evt>>
        /\ Effect(tbl, ch)[r] = IF r = ch.row THEN NewImage(tbl[ch.row], ch.tuple) ELSE tbl[r]
    BY <1>5 DEF EventsOf, Effect, evt
  <2>6. OfRow(<<evt>>, r) = IF evt.row = r THEN <<evt>> ELSE <<>>
    BY <2>3, OfRowOne
  <2>7. CASE ch.row = r
    <3>1. Takes(evt, tbl[r], Effect(tbl, ch)[r])
      BY <1>3, <2>1, <2>2, <2>4, <2>5, <2>7 DEF Takes
    <3> QED
      BY <2>2, <2>3, <2>5, <2>6, <2>7, <3>1 DEF OneEvent
  <2>8. CASE ch.row # r
    BY <2>2, <2>5, <2>6, <2>8 DEF OneEvent
  <2> QED
    BY <2>7, <2>8
<1>6. CASE ch.kind = "update" /\ ch.row # ch.to
  <2> DEFINE del == buildDeleteEvent(ch.row)
             evt == buildChangeEvent("c", ch.to, ch.tuple)
  <2>1. ch.tuple \in Image /\ tbl[ch.to] = Absent /\ tbl[ch.row] \in Image
    BY <1>1, <1>6, WholeRekeys DEF Statement, Contents
  <2>2. evt.op = "c" /\ evt.row = ch.to /\ evt.unchanged = {} /\ mergeRow(Absent, evt) = ch.tuple
    BY <1>1, <2>1, WholeRow
  <2>3. del.op = "d" /\ del.row = ch.row /\ del.unchanged = {}
    BY DEF buildDeleteEvent
  <2>4. evt \in Built /\ del \in Built
    BY <1>1, DecoderWellFormed DEF Ops, Built, WellFormed
  <2>5. NewImage(tbl[ch.row], ch.tuple) = ch.tuple
    <3>1. \A c \in Cols : ch.tuple[c] # UnchangedMark
      BY <2>1, SentinelAssumption DEF Image
    <3> QED
      BY <2>1, <3>1 DEF NewImage, Image
  <2> HIDE DEF evt, del
  <2>6. /\ EventsOf(ch) = <<del, evt>>
        /\ Effect(tbl, ch)[r] = IF r = ch.to THEN ch.tuple ELSE IF r = ch.row THEN Absent ELSE tbl[r]
    BY <1>6, <2>5 DEF EventsOf, Effect, evt, del
  <2>7. OfRow(<<del, evt>>, r)
          = IF evt.row = r THEN Append(OfRow(<<del>>, r), evt) ELSE OfRow(<<del>>, r)
    <3> DEFINE one == <<del>>
    <3>1. <<del, evt>> = Append(one, evt) /\ one \in Seq(Built)
      BY <2>4
    <3> HIDE DEF one
    <3>2. OfRow(Append(one, evt), r) = IF evt.row = r THEN Append(OfRow(one, r), evt) ELSE OfRow(one, r)
      BY <2>4, <3>1, OfRowAppend
    <3> QED
      BY <3>1, <3>2 DEF one
  <2>8. OfRow(<<del>>, r) = IF del.row = r THEN <<del>> ELSE <<>>
    BY <2>4, OfRowOne
  <2>9. CASE r = ch.to
    <3>1. OfRow(EventsOf(ch), r) = <<evt>>
      BY <1>6, <2>2, <2>3, <2>6, <2>7, <2>8, <2>9
    <3>2. Takes(evt, tbl[r], Effect(tbl, ch)[r])
      BY <1>3, <2>1, <2>2, <2>6, <2>9 DEF Takes
    <3> QED
      BY <2>2, <2>4, <2>9, <3>1, <3>2 DEF OneEvent
  <2>10. CASE r = ch.row
    <3>1. OfRow(EventsOf(ch), r) = <<del>>
      BY <1>6, <2>2, <2>3, <2>6, <2>7, <2>8, <2>10
    <3>2. Takes(del, tbl[r], Effect(tbl, ch)[r])
      BY <1>6, <2>3, <2>6, <2>10 DEF Takes, mergeRow
    <3> QED
      BY <2>3, <2>4, <2>10, <3>1, <3>2 DEF OneEvent
  <2>11. CASE r # ch.row /\ r # ch.to
    BY <2>2, <2>3, <2>6, <2>7, <2>8, <2>11 DEF OneEvent
  <2> QED
    BY <2>9, <2>10, <2>11
<1>7. CASE ch.kind = "delete"
  <2> DEFINE del == buildDeleteEvent(ch.row)
  <2>1. del.op = "d" /\ del.row = ch.row /\ del.unchanged = {}
    BY DEF buildDeleteEvent
  <2>2. del \in Built
    BY <1>1, DecoderWellFormed DEF Built, WellFormed
  <2> HIDE DEF del
  <2>3. EventsOf(ch) = <<del>> /\ Effect(tbl, ch) = [tbl EXCEPT ![ch.row] = Absent]
    BY <1>7 DEF EventsOf, Effect, del
  <2>4. OfRow(<<del>>, r) = IF del.row = r THEN <<del>> ELSE <<>>
    BY <2>2, OfRowOne
  <2>5. CASE ch.row = r
    <3>1. Takes(del, tbl[r], Effect(tbl, ch)[r])
      BY <2>1, <2>3, <2>5 DEF Takes, mergeRow, Contents
    <3> QED
      BY <2>1, <2>2, <2>3, <2>4, <2>5, <3>1 DEF OneEvent
  <2>6. CASE ch.row # r
    BY <2>1, <2>3, <2>4, <2>6 DEF OneEvent, Contents
  <2> QED
    BY <2>5, <2>6
<1>8. CASE ch.kind = "truncate"
  <2>1. EventsOf(ch) = <<>> /\ Effect(tbl, ch)[r] \in {Absent, tbl[r]}
    BY <1>8 DEF EventsOf, Effect
  <2> QED
    BY <1>8, <2>1, OfRowType DEF OneEvent
<1> QED
  BY <1>2, <1>4, <1>5, <1>6, <1>7, <1>8

=============================================================================
