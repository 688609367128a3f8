--------------------------- MODULE PipelineProofs ---------------------------
(***************************************************************************)
(* The whole pipeline, for all constants: a kill of any component loses    *)
(* nothing.  What has to be shown is about sequences of events of every    *)
(* length that overlap in every way, so the proof is about what a sequence *)
(* tells of one part of one row: of a column, its last value; of the row   *)
(* itself, whether it is there.  A sequence tells of a part what its last  *)
(* event that has something to say of it says, and to lay sequences end to *)
(* end is to let the later one overrule the earlier.  The topic and what   *)
(* the reader still owes tell of every part what the source stores in it,  *)
(* at every step of the reader and of the source; and what the writer has  *)
(* applied it has applied as far as it was told.                           *)
(***************************************************************************)
EXTENDS Pipeline, WriterProofs, Integers

-----------------------------------------------------------------------------
(* What an event tells of a row.                                           *)

\* Nothing, or that the row is not there.
Silent == -2
Gone == -1

Said == Nat \cup {Silent, Gone}

\* A part of a row is one of its columns, or <<>>: that it is there.
Parts == {<<>>} \cup {<<c>> : c \in Cols}

Part(image, k) == IF image = Absent THEN Gone ELSE IF k = <<>> THEN 0 ELSE image[k[1]]

Says(evt, r, k) ==
    IF evt.row # r THEN Silent
    ELSE IF evt.op = "d" THEN Gone
    ELSE IF k = <<>> THEN 0
    ELSE IF evt.after[k[1]] = Missing THEN Silent ELSE evt.after[k[1]]

\* What is said later overrules what was said before.
Over(u, v) == IF v = Silent THEN u ELSE v

SaysF(r, k) == [p \in Said \X Built |-> Over(p[1], Says(p[2], r, k))]

Tells(s, r, k) == FoldF(SaysF(r, k), Silent, s)

(* A part holds a value or its row is gone.                                *)
LEMMA PartType ==
    ASSUME NEW image \in Stored, NEW k \in Parts
    PROVE  Part(image, k) \in Said /\ Part(image, k) # Silent
BY DEF Part, Parts, Stored, Image, Said, Silent, Gone

(* An event says of a part one of these.                                   *)
LEMMA SaysType ==
    ASSUME NEW evt \in Built, NEW r, NEW k \in Parts
    PROVE  Says(evt, r, k) \in Said
BY DEF Says, Parts, Built, Event, Said

(* So does one of two, the other overruled.                                *)
LEMMA OverType ==
    ASSUME NEW u \in Said, NEW v \in Said
    PROVE  Over(u, v) \in Said
BY DEF Over

(* SaysF is a function that a fold may use.                                *)
LEMMA SaysFType ==
    ASSUME NEW r, NEW k \in Parts
    PROVE  /\ SaysF(r, k) \in [Said \X Built -> Said]
           /\ Silent \in Said
           /\ \A u \in Said, evt \in Built : SaysF(r, k)[<<u, evt>>] = Over(u, Says(evt, r, k))
<1>1. \A p \in Said \X Built : Over(p[1], Says(p[2], r, k)) \in Said
  BY SaysType, OverType
<1> QED
  BY <1>1 DEF SaysF, Said

(* What a sequence tells, one event at a time.                             *)
LEMMA TellsSteps ==
    ASSUME NEW r, NEW k \in Parts
    PROVE  /\ Tells(<<>>, r, k) = Silent
           /\ \A s \in Seq(Built) :
                /\ Tells(s, r, k) \in Said
                /\ \A evt \in Built : Tells(Append(s, evt), r, k) = Over(Tells(s, r, k), Says(evt, r, k))
<1>1. Tells(<<>>, r, k) = Silent
  <2>1. \A F \in [Said \X Built -> Said], u \in Said : FoldF(F, u, <<>>) = u
    BY FoldFEmpty, Zenon
  <2>2. FoldF(SaysF(r, k), Silent, <<>>) = Silent
    BY <2>1, SaysFType
  <2> QED
    BY <2>2 DEF Tells
<1>2. ASSUME NEW s \in Seq(Built)
      PROVE  Tells(s, r, k) \in Said
  BY SaysFType, FoldFType DEF Tells
<1>3. ASSUME NEW s \in Seq(Built), NEW evt \in Built
      PROVE  Tells(Append(s, evt), r, k) = Over(Tells(s, r, k), Says(evt, r, k))
  <2>1. OneMore(SaysF(r, k), Silent, s, evt)
    BY SaysFType, FoldFAppend
  <2>2. Tells(s, r, k) \in Said
    BY <1>2
  <2>3. SaysF(r, k)[<<Tells(s, r, k), evt>>] = Over(Tells(s, r, k), Says(evt, r, k))
    BY <2>2, SaysFType
  <2> QED
    BY <2>1, <2>3 DEF OneMore, Tells
<1> QED
  BY <1>1, <1>2, <1>3

(* One event.                                                              *)
LEMMA TellsOne ==
    ASSUME NEW r, NEW k \in Parts, NEW evt \in Built
    PROVE  Tells(<<evt>>, r, k) = Says(evt, r, k)
<1>1. <<evt>> = Append(<<>>, evt) /\ <<>> \in Seq(Built)
  BY EmptySeq
<1>2. Tells(Append(<<>>, evt), r, k) = Over(Silent, Says(evt, r, k))
  BY <1>1, TellsSteps
<1> QED
  BY <1>1, <1>2 DEF Over

(* Two events: the second over the first.                                  *)
LEMMA TellsTwo ==
    ASSUME NEW r, NEW k \in Parts, NEW first \in Built, NEW second \in Built
    PROVE  Tells(<<first, second>>, r, k) = Over(Says(first, r, k), Says(second, r, k))
<1> DEFINE one == <<first>>
<1>1. <<first, second>> = Append(one, second) /\ one \in Seq(Built)
  OBVIOUS
<1>2. Tells(one, r, k) = Says(first, r, k)
  BY TellsOne
<1> HIDE DEF one
<1>3. Tells(Append(one, second), r, k) = Over(Tells(one, r, k), Says(second, r, k))
  BY <1>1, TellsSteps
<1> QED
  BY <1>1, <1>2, <1>3

\* A later sequence overrules an earlier one.
Overrules(s, u, r, k) == Tells(s \o u, r, k) = Over(Tells(s, r, k), Tells(u, r, k))

(* Sequences laid end to end.                                              *)
LEMMA TellsConcat ==
    ASSUME NEW s \in Seq(Built), NEW u \in Seq(Built), NEW r, NEW k \in Parts
    PROVE  Overrules(s, u, r, k)
<1> DEFINE S == {v \in Seq(Built) : Overrules(s, v, r, k)}
<1>1. <<>> \in S
  <2>1. s \o <<>> = s /\ <<>> \in Seq(Built)
    BY ConcatEmptySeq, EmptySeq
  <2> QED
    BY <2>1, TellsSteps DEF Overrules, Over
<1>2. ASSUME NEW v \in Seq(Built), NEW evt \in Built, v \in S
      PROVE  Append(v, evt) \in S
  <2>1. s \o Append(v, evt) = Append(s \o v, evt)
    BY ConcatAppend
  <2>2. s \o v \in Seq(Built) /\ Append(v, evt) \in Seq(Built)
    BY ConcatProperties, AppendProperties
  <2>3. Tells(Append(s \o v, evt), r, k) = Over(Tells(s \o v, r, k), Says(evt, r, k))
    BY <2>2, TellsSteps
  <2>4. Tells(Append(v, evt), r, k) = Over(Tells(v, r, k), Says(evt, r, k))
    BY TellsSteps
  <2>5. Tells(s \o v, r, k) = Over(Tells(s, r, k), Tells(v, r, k))
    BY <1>2 DEF Overrules
  <2>6. Overrules(s, Append(v, evt), r, k)
    BY <2>1, <2>3, <2>4, <2>5 DEF Over, Overrules
  <2> QED
    BY <2>2, <2>6
<1>3. Seq(Built) \subseteq S
  <2> HIDE DEF S
  <2> QED BY <1>1, <1>2, SeqInduction
<1> QED
  BY <1>3

(* The other rows' events have nothing to tell of a row.                   *)
LEMMA TellsOfRow ==
    ASSUME NEW s \in Seq(Built), NEW r, NEW k \in Parts
    PROVE  Tells(OfRow(s, r), r, k) = Tells(s, r, k)
<1> DEFINE S == {v \in Seq(Built) : Tells(OfRow(v, r), r, k) = Tells(v, r, k)}
<1>1. <<>> \in S
  BY EmptySeq, OfRowType
<1>2. ASSUME NEW v \in Seq(Built), NEW evt \in Built, v \in S
      PROVE  Append(v, evt) \in S
  <2>1. OfRow(v, r) \in Seq(Built) /\ Append(v, evt) \in Seq(Built)
    BY OfRowType, AppendProperties
  <2>2. Tells(Append(v, evt), r, k) = Over(Tells(v, r, k), Says(evt, r, k))
    BY TellsSteps
  <2>3. Tells(Append(OfRow(v, r), evt), r, k) = Over(Tells(OfRow(v, r), r, k), Says(evt, r, k))
    BY <2>1, TellsSteps
  <2>4. Tells(OfRow(Append(v, evt), r), r, k) = Tells(Append(v, evt), r, k)
    <3>1. CASE evt.row = r
      <4>1. OfRow(Append(v, evt), r) = Append(OfRow(v, r), evt)
        BY <3>1, OfRowAppend
      <4> QED
        BY <1>2, <2>2, <2>3, <4>1
    <3>2. CASE evt.row # r
      <4>1. OfRow(Append(v, evt), r) = OfRow(v, r)
        BY <3>2, OfRowAppend
      <4>2. Tells(Append(v, evt), r, k) = Tells(v, r, k)
        BY <2>2, <3>2 DEF Says, Over
      <4> QED
        BY <1>2, <4>1, <4>2
    <3> QED
      BY <3>1, <3>2
  <2> QED
    BY <2>1, <2>4
<1>3. Seq(Built) \subseteq S
  <2> HIDE DEF S
  <2> QED BY <1>1, <1>2, SeqInduction
<1> QED
  BY <1>3

(* A sequence without a row's events tells nothing of it.                  *)
LEMMA TellsNothing ==
    ASSUME NEW s \in Seq(Built), NEW r, NEW k \in Parts, OfRow(s, r) = <<>>
    PROVE  Tells(s, r, k) = Silent
BY TellsOfRow, TellsSteps

-----------------------------------------------------------------------------
(* What is told and what is stored.                                        *)

\* What part k holds once x has been told of it, if it held u before: for a
\* column of a row that is not there this is left open.
Told(u, x, v, k) == (k = <<>> \/ Over(u, x) # Gone) => v = Over(u, x)

(* A merged event stores what it says.                                     *)
LEMMA MergeTells ==
    ASSUME NEW image \in Stored, NEW evt \in Built, NEW r, evt.row = r, NEW k \in Parts
    PROVE  Told(Part(image, k), Says(evt, r, k), Part(mergeRow(image, evt), k), k)
<1>1. \A x \in Image : x # Absent
  BY SentinelAssumption DEF Image
<1>2. WellFormed(evt) /\ (k # <<>> => k[1] \in Cols)
  BY DEF Built, Parts
<1>3. CASE evt.op = "d"
  BY <1>3 DEF mergeRow, Part, Says, Told, Over, Silent, Gone
<1>4. CASE evt.op # "d" /\ image = Absent
  <2>1. Inserted(evt) \in Image /\ mergeRow(image, evt) = Inserted(evt)
    BY <1>2, <1>4, InsertedType DEF mergeRow
  <2>2. CASE k = <<>>
    BY <1>1, <1>4, <2>1, <2>2 DEF Part, Says, Told, Over, Silent, Gone
  <2>3. CASE k # <<>>
    <3>1. Part(image, k) = Gone /\ Part(mergeRow(image, evt), k) = columnValue(evt, k[1])
      BY <1>1, <1>2, <1>4, <2>1, <2>3 DEF Part, Inserted
    <3> QED
      BY <1>2, <1>4, <2>3, <3>1 DEF Says, Told, Over, columnValue
  <2> QED
    BY <2>2, <2>3
<1>5. CASE evt.op # "d" /\ image # Absent
  <2>1. Overwritten(image, evt) \in Image /\ mergeRow(image, evt) = Overwritten(image, evt)
    BY <1>2, <1>5, OverwrittenType DEF mergeRow, Stored
  <2>2. CASE k = <<>>
    BY <1>1, <1>5, <2>1, <2>2 DEF Part, Says, Told, Over, Silent, Gone
  <2>3. CASE k # <<>>
    <3>1. /\ Part(image, k) = image[k[1]]
          /\ Part(mergeRow(image, evt), k)
                = IF k[1] \in evt.unchanged THEN image[k[1]] ELSE columnValue(evt, k[1])
      BY <1>1, <1>2, <1>5, <2>1, <2>3 DEF Part, Overwritten
    <3>2. k[1] \in evt.unchanged <=> evt.after[k[1]] = Missing
      BY <1>2, <1>5, <2>3 DEF WellFormed
    <3>3. evt.after[k[1]] # Missing => evt.after[k[1]] # Silent
      BY <1>2, <2>3 DEF WellFormed, Event, Silent
    <3> QED
      BY <1>5, <2>3, <3>1, <3>2, <3>3 DEF Says, Told, Over, columnValue
  <2> QED
    BY <2>2, <2>3
<1> QED
  BY <1>3, <1>4, <1>5

\* The events of s took a row from image x to image y.
Carried(x, s, y, r) == \A k \in Parts : Told(Part(x, k), Tells(s, r, k), Part(y, k), k)

(* Events merged one by one store what they tell.                          *)
LEMMA EffectTells ==
    ASSUME NEW image \in Stored, NEW s \in Seq(Built), NEW r \in Rows
    PROVE  Carried(image, s, RowEffect(image, s, r), r)
<1> DEFINE S == {v \in Seq(Built) : Carried(image, v, RowEffect(image, v, r), r)}
<1>1. <<>> \in S
  <2>1. RowEffect(image, <<>>, r) = image /\ <<>> \in Seq(Built)
    BY RowEffectSteps, EmptySeq
  <2>2. \A k \in Parts : Tells(<<>>, r, k) = Silent
    BY TellsSteps
  <2> QED
    BY <2>1, <2>2 DEF Carried, Told, Over
<1>2. ASSUME NEW v \in Seq(Built), NEW evt \in Built, v \in S
      PROVE  Append(v, evt) \in S
  <2> DEFINE old == RowEffect(image, v, r)
             new == RowEffect(image, Append(v, evt), r)
  <2>1. old \in Stored /\ new = Stepped(old, evt, r) /\ Append(v, evt) \in Seq(Built)
    BY RowEffectSteps, AppendProperties
  <2>2. Carried(image, v, old, r)
    BY <1>2
  <2> HIDE DEF old, new
  <2>3. ASSUME NEW k \in Parts
        PROVE  Told(Part(image, k), Tells(Append(v, evt), r, k), Part(new, k), k)
    <3>1. Tells(Append(v, evt), r, k) = Over(Tells(v, r, k), Says(evt, r, k))
      BY TellsSteps
    <3>2. Told(Part(image, k), Tells(v, r, k), Part(old, k), k)
      BY <2>2 DEF Carried
    <3>3. CASE evt.row # r
      BY <2>1, <3>1, <3>2, <3>3 DEF Stepped, Says, Over
    <3>4. CASE evt.row = r
      <4>1. Told(Part(old, k), Says(evt, r, k), Part(new, k), k)
        BY <2>1, <3>4, MergeTells DEF Stepped
      <4>2. k = <<>> => Says(evt, r, k) # Silent
        BY <3>4 DEF Says, Silent, Gone
      <4> QED
        BY <3>1, <3>2, <4>1, <4>2 DEF Told, Over
    <3> QED
      BY <3>3, <3>4
  <2>4. Carried(image, Append(v, evt), RowEffect(image, Append(v, evt), r), r)
    BY <2>3 DEF Carried, new
  <2> QED
    BY <2>1, <2>4
<1>3. Seq(Built) \subseteq S
  <2> HIDE DEF S
  <2> QED BY <1>1, <1>2, SeqInduction
<1> QED
  BY <1>3

\* evt stands for all of a row's events in s: what it says of a part is what
\* they tell, except that a column last heard of before a delete it may keep.
Stands(evt, s, r) ==
    /\ evt \in Built /\ evt.row = r
    /\ \A k \in Parts :
        /\ k = <<>> \/ Tells(s, r, k) \notin {Silent, Gone} => Says(evt, r, k) = Tells(s, r, k)
        /\ Tells(s, r, k) = Silent => Says(evt, r, k) = Silent
        /\ evt.op = "d" => Tells(s, r, k) = Gone

(* The later event stands for both where fold takes it as it is.           *)
LEMMA LaterStands ==
    ASSUME NEW s \in Seq(Built), NEW r, NEW prev, Stands(prev, s, r),
           NEW evt \in Built, evt.row = r, NothingToFill(prev, evt)
    PROVE  Stands(evt, Append(s, evt), r)
<1> SUFFICES ASSUME NEW k \in Parts
             PROVE  /\ k = <<>> \/ Tells(Append(s, evt), r, k) \notin {Silent, Gone}
                            => Says(evt, r, k) = Tells(Append(s, evt), r, k)
                    /\ Tells(Append(s, evt), r, k) = Silent => Says(evt, r, k) = Silent
                    /\ evt.op = "d" => Tells(Append(s, evt), r, k) = Gone
  BY DEF Stands
<1>1. Tells(Append(s, evt), r, k) = Over(Tells(s, r, k), Says(evt, r, k))
  BY TellsSteps
<1>2. evt.op = "d" => Says(evt, r, k) = Gone
  BY DEF Says
<1>3. k = <<>> => Says(evt, r, k) # Silent
  BY DEF Says, Silent, Gone
<1>4. CASE Says(evt, r, k) # Silent
  BY <1>1, <1>2, <1>4 DEF Over
<1>5. CASE Says(evt, r, k) = Silent
  <2>1. evt.op # "d" /\ k # <<>> /\ k[1] \in Cols
    BY <1>2, <1>3, <1>5 DEF Silent, Gone, Parts
  <2>2. evt.after[k[1]] = Missing
    <3>1. evt.after[k[1]] \in Nat \cup {Missing}
      BY <2>1 DEF Built, Event
    <3> QED
      BY <1>5, <2>1, <3>1 DEF Says, Silent
  <2>3. evt.unchanged # {}
    BY <2>1, <2>2 DEF Built, WellFormed
  <2>4. Tells(s, r, k) = Gone
    BY <2>1, <2>3 DEF NothingToFill, Stands
  <2> QED
    BY <1>1, <1>5, <2>1, <2>4 DEF Over, Silent, Gone
<1> QED
  BY <1>4, <1>5

(* And the filled one where fold fills it.                                 *)
LEMMA FilledStands ==
    ASSUME NEW s \in Seq(Built), NEW r, NEW prev, Stands(prev, s, r),
           NEW evt \in Built, evt.row = r, ~NothingToFill(prev, evt)
    PROVE  Stands(Filled(prev, evt), Append(s, evt), r)
<1> DEFINE both == Filled(prev, evt)
<1>1. prev.op # "d" /\ evt.op # "d" /\ WellFormed(prev) /\ WellFormed(evt) /\ prev.row = r
  BY DEF NothingToFill, Stands, Built
<1>2. both \in Built
  <2>1. WellFormed(fold(prev, evt)) /\ fold(prev, evt) = both
    BY <1>1, FoldWellFormed DEF fold
  <2> QED
    BY <2>1 DEF Built, WellFormed
<1>3. /\ both.op = evt.op /\ both.row = r
      /\ \A c \in Cols : both.after[c] = IF c \in evt.unchanged /\ prev.after[c] # Missing
                                         THEN prev.after[c] ELSE evt.after[c]
  BY <1>1 DEF Filled, Fillable, WellFormed, Event
<1> HIDE DEF both
<1>4. ASSUME NEW k \in Parts
      PROVE  /\ k = <<>> \/ Tells(Append(s, evt), r, k) \notin {Silent, Gone}
                     => Says(both, r, k) = Tells(Append(s, evt), r, k)
             /\ Tells(Append(s, evt), r, k) = Silent => Says(both, r, k) = Silent
             /\ both.op = "d" => Tells(Append(s, evt), r, k) = Gone
  <2>1. Tells(Append(s, evt), r, k) = Over(Tells(s, r, k), Says(evt, r, k))
    BY TellsSteps
  <2>2. CASE k = <<>>
    BY <1>1, <1>3, <2>1, <2>2 DEF Says, Over, Silent, Gone
  <2>3. CASE k # <<>> /\ k[1] \notin evt.unchanged
    <3>1. k[1] \in Cols
      BY <2>3 DEF Parts
    <3>2. both.after[k[1]] = evt.after[k[1]] /\ evt.after[k[1]] # Missing /\ evt.after[k[1]] \in Nat
      BY <1>1, <1>3, <2>3, <3>1 DEF WellFormed, Event
    <3> QED
      BY <1>1, <1>3, <2>1, <2>3, <3>2 DEF Says, Over, Silent
  <2>4. CASE k # <<>> /\ k[1] \in evt.unchanged
    <3>1. k[1] \in Cols
      BY <2>4 DEF Parts
    <3>2. evt.after[k[1]] = Missing
      BY <1>1, <2>4, <3>1 DEF WellFormed
    <3>3. Tells(Append(s, evt), r, k) = Tells(s, r, k)
      BY <1>1, <2>1, <2>4, <3>2 DEF Says, Over
    <3>4. Says(both, r, k) = Says(prev, r, k)
      BY <1>1, <1>3, <2>4, <3>1, <3>2 DEF Says
    <3> QED
      BY <1>1, <1>3, <3>3, <3>4 DEF Stands
  <2> QED
    BY <2>2, <2>3, <2>4
<1>5. Stands(both, Append(s, evt), r)
  BY <1>2, <1>3, <1>4 DEF Stands
<1> QED
  BY <1>5 DEF both

\* What dedupe keeps of a row stands for all its events.
StandsFor(s, r) ==
    IF r \in DOMAIN dedupe(s) THEN Stands(dedupe(s)[r], s, r)
    ELSE \A k \in Parts : Tells(s, r, k) = Silent

(* dedupe keeps, for each row of the batch, one event that stands for all  *)
(* of them, whatever follows its row's delete.                             *)
LEMMA DedupeStands ==
    ASSUME NEW s \in Seq(Built), NEW r
    PROVE  StandsFor(s, r)
<1> DEFINE S == {v \in Seq(Built) : StandsFor(v, r)}
<1>1. <<>> \in S
  <2>1. r \notin DOMAIN dedupe(<<>>)
    BY DedupeSteps DEF NoEvent
  <2> QED
    BY <2>1, EmptySeq, TellsSteps DEF StandsFor
<1>2. ASSUME NEW v \in Seq(Built), NEW evt \in Built, v \in S
      PROVE  Append(v, evt) \in S
  <2> DEFINE state == dedupe(v)
             w == Append(v, evt)
  <2>1. w \in Seq(Built) /\ dedupe(w) = DedupeStep(state, evt) /\ StandsFor(v, r)
    BY <1>2, AppendProperties, DedupeSteps
  <2>2. \A k \in Parts : Tells(w, r, k) = Over(Tells(v, r, k), Says(evt, r, k))
    BY TellsSteps
  <2>3. CASE evt.row # r
    <3>1. \A k \in Parts : Tells(w, r, k) = Tells(v, r, k)
      BY <2>2, <2>3 DEF Says, Over
    <3>2. /\ r \in DOMAIN dedupe(w) <=> r \in DOMAIN state
          /\ r \in DOMAIN state => dedupe(w)[r] = state[r]
      BY <2>1, <2>3 DEF DedupeStep
    <3> HIDE DEF w
    <3>3. StandsFor(w, r)
      BY <2>1, <3>1, <3>2 DEF StandsFor, Stands, state
    <3> QED
      BY <2>1, <3>3 DEF w
  <2>4. CASE evt.row = r /\ r \in DOMAIN state
    <3>1. r \in DOMAIN dedupe(w) /\ dedupe(w)[r] = fold(state[r], evt)
      BY <2>1, <2>4 DEF DedupeStep
    <3>2. Stands(state[r], v, r)
      BY <2>1, <2>4 DEF StandsFor
    <3>3. Stands(fold(state[r], evt), w, r)
      <4> HIDE DEF state
      <4> QED
        BY <2>4, <3>2, LaterStands, FilledStands DEF fold
    <3>4. StandsFor(w, r)
      <4> HIDE DEF w, state
      <4> QED
        BY <3>1, <3>3 DEF StandsFor
    <3> QED
      BY <2>1, <3>4
  <2>5. CASE evt.row = r /\ r \notin DOMAIN state
    <3>1. r \in DOMAIN dedupe(w) /\ dedupe(w)[r] = evt
      BY <2>1, <2>5 DEF DedupeStep
    <3>2. \A k \in Parts : Tells(w, r, k) = Says(evt, r, k)
      BY <2>1, <2>2, <2>5 DEF StandsFor, Over
    <3>3. \A k \in Parts : evt.op = "d" => Says(evt, r, k) = Gone
      BY <2>5 DEF Says
    <3> HIDE DEF w
    <3>4. StandsFor(w, r)
      BY <2>5, <3>1, <3>2, <3>3 DEF StandsFor, Stands
    <3> QED
      BY <2>1, <3>4 DEF w
  <2> QED
    BY <2>3, <2>4, <2>5
<1>3. Seq(Built) \subseteq S
  <2> HIDE DEF S
  <2> QED BY <1>1, <1>2, SeqInduction
<1> QED
  BY <1>3

(* A flush stores what its batch tells, whatever the batch: the event kept *)
(* of a row where a partial update follows a delete may leave a column     *)
(* behind, but only one that nothing has been told of since the delete.    *)
LEMMA FlushTells ==
    ASSUME NEW c \in Contents, NEW s \in Seq(Built), NEW r \in Rows
    PROVE  Carried(c[r], s, flushTable(c, s)[r], r)
<1>1. c[r] \in Stored
  BY DEF Contents, Stored
<1>2. flushTable(c, s)[r] = IF r \in DOMAIN dedupe(s) THEN mergeRow(c[r], dedupe(s)[r]) ELSE c[r]
  BY DEF flushTable, mergeStaging
<1>3. StandsFor(s, r)
  BY DedupeStands
<1>4. CASE r \notin DOMAIN dedupe(s)
  BY <1>2, <1>3, <1>4 DEF StandsFor, Carried, Told, Over
<1>5. CASE r \in DOMAIN dedupe(s)
  <2> DEFINE evt == dedupe(s)[r]
             new == mergeRow(c[r], evt)
  <2>1. Stands(evt, s, r) /\ flushTable(c, s)[r] = new
    BY <1>2, <1>3, <1>5 DEF StandsFor
  <2> HIDE DEF evt
  <2>2. \A k \in Parts : Told(Part(c[r], k), Says(evt, r, k), Part(new, k), k)
    BY <1>1, <2>1, MergeTells DEF Stands
  <2> HIDE DEF new
  <2>3. \A k \in Parts : Told(Part(c[r], k), Tells(s, r, k), Part(new, k), k)
    BY <2>1, <2>2 DEF Stands, Told, Over, Silent, Gone
  <2> QED
    BY <2>1, <2>3 DEF Carried
<1> QED
  BY <1>4, <1>5

-----------------------------------------------------------------------------
(* Snapshot reads.                                                         *)

\* If all of s that say something of a part say v, so do they together.
Agreed(s, r, k, v) ==
    (\A i \in 1..Len(s) : Says(s[i], r, k) \in {Silent, v})
        => Tells(s, r, k) = IF \E i \in 1..Len(s) : Says(s[i], r, k) = v THEN v ELSE Silent

(* Events that agree tell what each of them says.                          *)
LEMMA Unanimous ==
    ASSUME NEW s \in Seq(Built), NEW r, NEW k \in Parts, NEW v, v # Silent
    PROVE  Agreed(s, r, k, v)
<1> DEFINE S == {u \in Seq(Built) : Agreed(u, r, k, v)}
<1>1. <<>> \in S
  <2>1. Len(<<>>) = 0 /\ <<>> \in Seq(Built)
    BY EmptySeq
  <2> QED
    BY <2>1, TellsSteps DEF Agreed
<1>2. ASSUME NEW u \in Seq(Built), NEW evt \in Built, u \in S
      PROVE  Append(u, evt) \in S
  <2> DEFINE w == Append(u, evt)
  <2>1. /\ w \in Seq(Built) /\ Len(u) \in Nat /\ Len(w) = Len(u) + 1 /\ w[Len(u) + 1] = evt
        /\ \A i \in 1..Len(u) : w[i] = u[i]
    BY AppendProperties, LenProperties
  <2>2. Tells(w, r, k) = Over(Tells(u, r, k), Says(evt, r, k))
    BY TellsSteps
  <2> HIDE DEF w
  <2>3. ASSUME \A i \in 1..Len(w) : Says(w[i], r, k) \in {Silent, v}
        PROVE  Tells(w, r, k) = IF \E i \in 1..Len(w) : Says(w[i], r, k) = v THEN v ELSE Silent
    <3>1. \A i \in 1..Len(u) : Says(u[i], r, k) \in {Silent, v}
      <4> TAKE i \in 1..Len(u)
      <4>1. i \in 1..Len(w)
        BY <2>1
      <4> QED
        BY <2>1, <2>3, <4>1
    <3>2. Says(evt, r, k) \in {Silent, v}
      <4>1. Len(u) + 1 \in 1..Len(w)
        BY <2>1
      <4> QED
        BY <2>1, <2>3, <4>1
    <3>3. Tells(u, r, k) = IF \E i \in 1..Len(u) : Says(u[i], r, k) = v THEN v ELSE Silent
      BY <1>2, <3>1 DEF Agreed
    <3>4. (\E i \in 1..Len(w) : Says(w[i], r, k) = v)
              <=> Says(evt, r, k) = v \/ \E i \in 1..Len(u) : Says(u[i], r, k) = v
      BY <2>1
    <3> QED
      BY <2>2, <3>2, <3>3, <3>4 DEF Over
  <2>4. Agreed(w, r, k, v)
    BY <2>3 DEF Agreed
  <2> QED
    BY <2>1, <2>4 DEF w
<1>3. Seq(Built) \subseteq S
  <2> HIDE DEF S
  <2> QED BY <1>1, <1>2, SeqInduction
<1> QED
  BY <1>3

\* What reads of rows R of contents tell.
ReadTells(s, contents, R) ==
    /\ s \in Seq(ForRows(R))
    /\ \A r, k : k \in Parts => Tells(s, r, k) = IF r \in R THEN Part(contents[r], k) ELSE Silent

(* Reads of rows, in any order, tell what the rows hold.                   *)
LEMMA ReadsTell ==
    ASSUME NEW contents \in Contents, NEW R \in SUBSET Rows, \A r \in R : contents[r] # Absent,
           NEW q \in Seq(R), \A r \in R : \E i \in 1..Len(q) : q[i] = r
    PROVE  ReadTells([i \in DOMAIN q |-> rowToEvent(q[i], contents[q[i]])], contents, R)
<1> DEFINE s == [i \in DOMAIN q |-> rowToEvent(q[i], contents[q[i]])]
<1>1. Len(q) \in Nat /\ DOMAIN q = 1..Len(q) /\ \A i \in 1..Len(q) : q[i] \in R
  BY LenProperties, ElementOfSeq
<1>2. \A r \in R : contents[r] \in Image /\ rowToEvent(r, contents[r]) \in ForRows(R)
  <2> TAKE r \in R
  <2>1. contents[r] \in Image
    BY DEF Contents
  <2>2. WellFormed(rowToEvent(r, contents[r])) /\ rowToEvent(r, contents[r]).row = r
    BY <2>1, DecoderWellFormed DEF rowToEvent
  <2> QED
    BY <2>1, <2>2 DEF ForRows, Built, WellFormed
<1>3. s \in Seq(ForRows(R)) /\ Len(s) = Len(q)
      /\ \A i \in 1..Len(q) : s[i] = rowToEvent(q[i], contents[q[i]])
  BY <1>1, <1>2
<1> HIDE DEF s
<1>4. s \in Seq(Built)
  BY <1>3, SeqMonotonic DEF ForRows
<1>5. ASSUME NEW r, NEW k \in Parts
      PROVE  Tells(s, r, k) = IF r \in R THEN Part(contents[r], k) ELSE Silent
  <2>1. \A x \in R : Says(rowToEvent(x, contents[x]), r, k) = IF x = r THEN Part(contents[x], k) ELSE Silent
    <3> TAKE x \in R
    <3>1. contents[x] \in Image /\ contents[x] # Absent
      BY <1>2
    <3>2. k # <<>> => contents[x][k[1]] # Missing
      BY <3>1, SentinelAssumption DEF Image, Parts
    <3> QED
      BY <3>1, <3>2 DEF rowToEvent, Says, Part
  <2>2. CASE r \in R
    <3> DEFINE v == Part(contents[r], k)
    <3>1. contents[r] \in Stored
      BY <1>2, <2>2 DEF Stored
    <3>2. v # Silent
      BY <3>1, PartType
    <3>3. \A i \in 1..Len(s) : Says(s[i], r, k) \in {Silent, v}
      BY <1>1, <1>3, <2>1
    <3>4. \E i \in 1..Len(s) : Says(s[i], r, k) = v
      <4>1. PICK i \in 1..Len(q) : q[i] = r
        BY <2>2
      <4> QED
        BY <1>1, <1>3, <2>1, <4>1
    <3> HIDE DEF v
    <3>5. Agreed(s, r, k, v)
      BY <1>4, <3>2, Unanimous
    <3> QED
      BY <2>2, <3>3, <3>4, <3>5 DEF Agreed, v
  <2>3. CASE r \notin R
    <3>1. OfRow(s, r) = <<>>
      BY <1>3, <2>3, NoneOfRow
    <3> QED
      BY <1>4, <2>3, <3>1, TellsNothing
  <2> QED
    BY <2>2, <2>3
<1>6. ReadTells(s, contents, R)
  BY <1>3, <1>5 DEF ReadTells
<1> QED
  BY <1>6 DEF s

(* What is left of a snapshot to copy.                                     *)
LEMMA ReadsOfTell ==
    ASSUME NEW contents \in Contents, NEW rows \in SUBSET Rows
    PROVE  ReadTells(ReadsOf(contents, rows), contents, {r \in rows : contents[r] # Absent})
<1> DEFINE R == {r \in rows : contents[r] # Absent}
           q == SetToSeq(R)
<1>1. R \in SUBSET Rows /\ IsFiniteSet(R) /\ \A r \in R : contents[r] # Absent
  BY ShapeAssumption, FS_Subset
<1>2. ReadsOf(contents, rows) = [i \in DOMAIN q |-> rowToEvent(q[i], contents[q[i]])]
  BY DEF ReadsOf
<1> HIDE DEF R
<1>3. Lists(q, R)
  BY <1>1, SetToSeqLists
<1> HIDE DEF q
<1>4. q \in Seq(R) /\ \A r \in R : \E i \in 1..Len(q) : q[i] = r
  BY <1>3 DEF Lists
<1>5. ReadTells([i \in DOMAIN q |-> rowToEvent(q[i], contents[q[i]])], contents, R)
  BY <1>1, <1>4, ReadsTell
<1> QED
  BY <1>2, <1>5 DEF R

(* One partition's share of a chunk.                                       *)
LEMMA ReadEventsTell ==
    ASSUME snapshot \in Contents, NEW R \in SUBSET Rows, \A r \in R : snapshot[r] # Absent
    PROVE  ReadTells(ReadEvents(R), snapshot, R)
<1> DEFINE q == ScanOrder(R)
           n == Cardinality(R)
<1>1. IsFiniteSet(R)
  BY ShapeAssumption, FS_Subset
<1>2. Lists(SetToSeq(R), R) /\ n \in Nat
  BY <1>1, SetToSeqLists, FS_CardinalityType
<1>3. SetToSeq(R) \in [1..n -> R] /\ \A r \in R : \E i \in DOMAIN SetToSeq(R) : SetToSeq(R)[i] = r
  BY <1>2, LenProperties, ElementOfSeq DEF Lists
<1>4. q \in [1..n -> R] /\ \A r \in R : \E i \in DOMAIN q : q[i] = r
  BY <1>3 DEF ScanOrder
<1>5. ReadEvents(R) = [i \in DOMAIN q |-> rowToEvent(q[i], snapshot[q[i]])]
  BY DEF ReadEvents
<1> HIDE DEF q, n
<1>6. q \in Seq(R) /\ \A r \in R : \E i \in 1..Len(q) : q[i] = r
  BY <1>2, <1>4
<1>7. ReadTells([i \in DOMAIN q |-> rowToEvent(q[i], snapshot[q[i]])], snapshot, R)
  BY <1>6, ReadsTell
<1> QED
  BY <1>5, <1>7

-----------------------------------------------------------------------------
(* The WAL.                                                                *)

\* The events of s, one after the other, f giving those of an element.
Mapped(f, s) == FlattenSeq([k \in DOMAIN s |-> f[s[k]]])

(* What a longer sequence has more.                                        *)
LEMMA MappedSteps ==
    ASSUME NEW A, NEW B, NEW f \in [A -> Seq(B)]
    PROVE  /\ Mapped(f, <<>>) = <<>>
           /\ \A s \in Seq(A) :
                /\ Mapped(f, s) \in Seq(B)
                /\ \A x \in A : Mapped(f, Append(s, x)) = Mapped(f, s) \o f[x]
<1>1. Mapped(f, <<>>) = <<>>
  <2>1. [k \in DOMAIN <<>> |-> f[<<>>[k]]] = <<>>
    OBVIOUS
  <2> QED
    BY <2>1, FlattenEmpty DEF Mapped
<1>2. ASSUME NEW s \in Seq(A)
      PROVE  /\ Mapped(f, s) \in Seq(B)
             /\ \A x \in A : Mapped(f, Append(s, x)) = Mapped(f, s) \o f[x]
  <2> DEFINE ss == [k \in DOMAIN s |-> f[s[k]]]
  <2>1. Len(s) \in Nat /\ DOMAIN s = 1..Len(s) /\ \A k \in 1..Len(s) : s[k] \in A
    BY LenProperties, ElementOfSeq
  <2>2. ss \in Seq(Seq(B)) /\ Len(ss) = Len(s) /\ \A k \in 1..Len(s) : ss[k] = f[s[k]]
    BY <2>1
  <2>3. ASSUME NEW x \in A
        PROVE  Mapped(f, Append(s, x)) = Mapped(f, s) \o f[x]
    <3> DEFINE w == Append(s, x)
               ww == [k \in DOMAIN w |-> f[w[k]]]
    <3>1. /\ w \in Seq(A) /\ Len(w) = Len(s) + 1 /\ DOMAIN w = 1..(Len(s) + 1)
          /\ (\A k \in 1..Len(s) : w[k] = s[k]) /\ w[Len(s) + 1] = x
      BY AppendProperties, LenProperties
    <3> HIDE DEF w
    <3>2. /\ ww \in Seq(Seq(B)) /\ Len(ww) = Len(s) + 1
          /\ (\A k \in 1..Len(s) : ww[k] = ss[k]) /\ ww[Len(s) + 1] = f[x]
      <4>1. \A k \in 1..(Len(s) + 1) : w[k] \in A
        BY <3>1, ElementOfSeq
      <4> QED
        BY <2>1, <2>2, <3>1, <4>1
    <3> HIDE DEF ss, ww
    <3>3. f[x] \in Seq(B) /\ Append(ss, f[x]) \in Seq(Seq(B))
      BY <2>2, AppendProperties
    <3>4. /\ Len(Append(ss, f[x])) = Len(s) + 1 /\ Append(ss, f[x])[Len(s) + 1] = f[x]
          /\ \A k \in 1..Len(s) : Append(ss, f[x])[k] = ss[k]
      <4> DEFINE l == Len(s)
      <4>1. ss \in Seq(Seq(B)) /\ Len(ss) = l
        BY <2>2
      <4>2. /\ Len(Append(ss, f[x])) = Len(ss) + 1 /\ Append(ss, f[x])[Len(ss) + 1] = f[x]
            /\ \A k \in 1..Len(ss) : Append(ss, f[x])[k] = ss[k]
        <5> HIDE DEF l
        <5> QED BY <3>3, <4>1, AppendProperties
      <4> QED
        BY <4>1, <4>2
    <3>5. ww = Append(ss, f[x])
      <4>1. \A k \in 1..(Len(s) + 1) : ww[k] = Append(ss, f[x])[k]
        BY <2>1, <3>2, <3>4
      <4> QED
        BY <3>2, <3>3, <3>4, <4>1, SeqEqual
    <3>6. FlattenSeq(ww) = FlattenSeq(ss) \o f[x]
      BY <2>2, <3>3, <3>5, FlattenAppend
    <3> QED
      BY <3>6 DEF Mapped, w, ww, ss
  <2>4. FlattenSeq(ss) \in Seq(B)
    BY <2>2, FlattenType
  <2> QED
    BY <2>3, <2>4 DEF Mapped
<1> QED
  BY <1>1, <1>2

EventsF == [ch \in Change |-> EventsOf(ch)]

\* The events of the transaction chs.
TxnEvents(chs) == FlattenSeq([k \in DOMAIN chs |-> EventsOf(chs[k])])

(* The events of a transaction, change by change.                          *)
LEMMA TxnEventsSteps ==
    /\ TxnEvents(<<>>) = <<>>
    /\ \A chs \in Seq(Change) :
        /\ TxnEvents(chs) \in Seq(Built)
        /\ \A ch \in Change : TxnEvents(Append(chs, ch)) = TxnEvents(chs) \o EventsOf(ch)
<1>1. EventsF \in [Change -> Seq(Built)]
  BY EventsOfType DEF EventsF
<1>2. \A chs \in Seq(Change) : TxnEvents(chs) = Mapped(EventsF, chs)
  <2> TAKE chs \in Seq(Change)
  <2>1. \A k \in DOMAIN chs : chs[k] \in Change
    BY ElementOfSeq, LenProperties
  <2>2. [k \in DOMAIN chs |-> EventsOf(chs[k])] = [k \in DOMAIN chs |-> EventsF[chs[k]]]
    BY <2>1 DEF EventsF
  <2> QED
    BY <2>2 DEF TxnEvents, Mapped
<1>3. /\ Mapped(EventsF, <<>>) = <<>>
      /\ \A chs \in Seq(Change) :
            /\ Mapped(EventsF, chs) \in Seq(Built)
            /\ \A ch \in Change : Mapped(EventsF, Append(chs, ch)) = Mapped(EventsF, chs) \o EventsF[ch]
  BY <1>1, MappedSteps
<1>4. <<>> \in Seq(Change) /\ \A chs \in Seq(Change), ch \in Change : Append(chs, ch) \in Seq(Change)
  BY EmptySeq, AppendProperties
<1>5. \A ch \in Change : EventsF[ch] = EventsOf(ch)
  BY DEF EventsF
<1> QED
  BY <1>2, <1>3, <1>4, <1>5

TxnEventsF == [chs \in Seq(Change) |-> TxnEvents(chs)]

(* The events of a stretch of the WAL, transaction by transaction.         *)
LEMMA EventsOfTxnsSteps ==
    /\ EventsOfTxns(<<>>) = <<>>
    /\ \A txns \in Seq(Seq(Change)) :
        /\ EventsOfTxns(txns) \in Seq(Built)
        /\ \A chs \in Seq(Change) : EventsOfTxns(Append(txns, chs)) = EventsOfTxns(txns) \o TxnEvents(chs)
<1>1. TxnEventsF \in [Seq(Change) -> Seq(Built)]
  BY TxnEventsSteps DEF TxnEventsF
<1>2. \A txns \in Seq(Seq(Change)) : EventsOfTxns(txns) = Mapped(TxnEventsF, txns)
  <2> TAKE txns \in Seq(Seq(Change))
  <2>1. \A n \in DOMAIN txns : txns[n] \in Seq(Change)
    BY ElementOfSeq, LenProperties
  <2>2. [n \in DOMAIN txns |-> TxnEvents(txns[n])] = [n \in DOMAIN txns |-> TxnEventsF[txns[n]]]
    BY <2>1 DEF TxnEventsF
  <2> QED
    BY <2>2 DEF EventsOfTxns, TxnEvents, Mapped
<1>3. /\ Mapped(TxnEventsF, <<>>) = <<>>
      /\ \A txns \in Seq(Seq(Change)) :
            /\ Mapped(TxnEventsF, txns) \in Seq(Built)
            /\ \A chs \in Seq(Change) :
                Mapped(TxnEventsF, Append(txns, chs)) = Mapped(TxnEventsF, txns) \o TxnEventsF[chs]
  BY <1>1, MappedSteps
<1>4. /\ <<>> \in Seq(Seq(Change))
      /\ \A txns \in Seq(Seq(Change)), chs \in Seq(Change) : Append(txns, chs) \in Seq(Seq(Change))
  BY EmptySeq, AppendProperties
<1>5. \A chs \in Seq(Change) : TxnEventsF[chs] = TxnEvents(chs)
  BY DEF TxnEventsF
<1> QED
  BY <1>2, <1>3, <1>4, <1>5

(* One transaction.                                                        *)
LEMMA EventsOfOneTxn ==
    ASSUME NEW chs \in Seq(Change)
    PROVE  EventsOfTxns(<<chs>>) = TxnEvents(chs)
<1>1. <<>> \in Seq(Seq(Change)) /\ <<chs>> = Append(<<>>, chs)
  BY EmptySeq
<1>2. EventsOfTxns(Append(<<>>, chs)) = <<>> \o TxnEvents(chs)
  BY <1>1, EventsOfTxnsSteps
<1>3. TxnEvents(chs) \in Seq(Built)
  BY TxnEventsSteps
<1> QED
  BY <1>1, <1>2, <1>3, ConcatEmptySeq

\* What stretches of the WAL tell.
TxnsTell(txns, r, k) == Tells(EventsOfTxns(txns), r, k)

TxnTells(chs, r, k) == Tells(TxnEvents(chs), r, k)

(* Stretches laid end to end.                                              *)
LEMMA TxnsConcat ==
    ASSUME NEW a \in Seq(Seq(Change)), NEW b \in Seq(Seq(Change)), NEW r, NEW k \in Parts
    PROVE  /\ TxnsTell(a, r, k) \in Said
           /\ TxnsTell(a \o b, r, k) = Over(TxnsTell(a, r, k), TxnsTell(b, r, k))
<1> DEFINE S == {c \in Seq(Seq(Change)) : TxnsTell(a \o c, r, k) = Over(TxnsTell(a, r, k), TxnsTell(c, r, k))}
<1>0. EventsOfTxns(a) \in Seq(Built)
  BY EventsOfTxnsSteps
<1>1. <<>> \in S
  <2>1. a \o <<>> = a /\ <<>> \in Seq(Seq(Change))
    BY ConcatEmptySeq, EmptySeq
  <2>2. TxnsTell(<<>>, r, k) = Silent
    BY EventsOfTxnsSteps, TellsSteps DEF TxnsTell
  <2> QED
    BY <2>1, <2>2 DEF Over
<1>2. ASSUME NEW c \in Seq(Seq(Change)), NEW chs \in Seq(Change), c \in S
      PROVE  Append(c, chs) \in S
  <2>1. a \o Append(c, chs) = Append(a \o c, chs)
    BY ConcatAppend
  <2>2. a \o c \in Seq(Seq(Change)) /\ Append(c, chs) \in Seq(Seq(Change))
    BY ConcatProperties, AppendProperties
  <2>3. /\ EventsOfTxns(Append(a \o c, chs)) = EventsOfTxns(a \o c) \o TxnEvents(chs)
        /\ EventsOfTxns(Append(c, chs)) = EventsOfTxns(c) \o TxnEvents(chs)
        /\ EventsOfTxns(a \o c) \in Seq(Built) /\ EventsOfTxns(c) \in Seq(Built)
    BY <2>2, EventsOfTxnsSteps
  <2>4. TxnEvents(chs) \in Seq(Built)
    BY TxnEventsSteps
  <2>5. /\ TxnsTell(Append(a \o c, chs), r, k) = Over(TxnsTell(a \o c, r, k), TxnTells(chs, r, k))
        /\ TxnsTell(Append(c, chs), r, k) = Over(TxnsTell(c, r, k), TxnTells(chs, r, k))
    BY <2>3, <2>4, TellsConcat DEF Overrules, TxnsTell, TxnTells
  <2>6. TxnsTell(a \o Append(c, chs), r, k) = Over(TxnsTell(a, r, k), TxnsTell(Append(c, chs), r, k))
    BY <1>2, <2>1, <2>5 DEF Over
  <2> QED
    BY <2>2, <2>6
<1>3. Seq(Seq(Change)) \subseteq S
  <2> HIDE DEF S
  <2> QED BY <1>1, <1>2, SeqInduction
<1> QED
  BY <1>0, <1>3, TellsSteps DEF TxnsTell

\* What the WAL tells from one position to another, and to its end.
Between(m, n, r, k) == TxnsTell(SubSeq(wal, m + 1, n), r, k)

WalTells(n, r, k) == Between(n, Len(wal), r, k)

(* A stretch of one.                                                       *)
LEMMA SubSeqOne ==
    ASSUME NEW B, NEW s \in Seq(B), NEW n \in 1..Len(s)
    PROVE  SubSeq(s, n, n) = <<s[n]>>
<1> DEFINE one == <<s[n]>>
<1>1. /\ Len(SubSeq(s, n, n)) = 1 /\ SubSeq(s, n, n)[1] = s[n]
      /\ SubSeq(s, n, n) \in Seq(B)
  <2>1. n \in Int /\ n <= n + 1 /\ \A i \in n..n : s[i] \in B
    BY LenProperties, ElementOfSeq
  <2> QED
    BY <2>1, SubSeqProperties
<1>2. one \in Seq(B) /\ Len(one) = 1 /\ one[1] = s[n]
  BY ElementOfSeq
<1> HIDE DEF one
<1>3. SubSeq(s, n, n) = one
  BY <1>1, <1>2, SeqEqual
<1> QED
  BY <1>3 DEF one

(* The rest of the WAL, cut in two.                                        *)
LEMMA WalSplit ==
    ASSUME SourceTypeOK, NEW m \in 0..Len(wal), NEW n \in m..Len(wal), NEW r, NEW k \in Parts
    PROVE  /\ WalTells(m, r, k) = Over(Between(m, n, r, k), WalTells(n, r, k))
           /\ Between(m, n, r, k) \in Said /\ WalTells(n, r, k) \in Said
           /\ n = m + 1 => Between(m, n, r, k) = TxnTells(wal[n], r, k)
           /\ n = Len(wal) => WalTells(n, r, k) = Silent
<1>1. wal \in Seq(Seq(Change)) /\ Len(wal) \in Nat /\ \A i \in 1..Len(wal) : wal[i] \in Seq(Change)
  BY LenProperties, ElementOfSeq DEF SourceTypeOK
<1> DEFINE a == SubSeq(wal, m + 1, n)
           b == SubSeq(wal, n + 1, Len(wal))
<1>2. a \in Seq(Seq(Change)) /\ b \in Seq(Seq(Change))
  <2>1. /\ \A i \in (m + 1)..n : wal[i] \in Seq(Change)
        /\ \A i \in (n + 1)..Len(wal) : wal[i] \in Seq(Change)
        /\ m + 1 \in Int /\ n \in Int /\ n + 1 \in Int /\ Len(wal) \in Int
    BY <1>1
  <2> QED
    BY <2>1, SubSeqProperties
<1>3. a \o b = SubSeq(wal, m + 1, Len(wal))
  <2> DEFINE l == m + 1
  <2>1. l \in 1..(Len(wal) + 1) /\ n \in (l - 1)..Len(wal) /\ Len(wal) \in n..Len(wal)
    BY <1>1
  <2> HIDE DEF l
  <2>2. SubSeq(wal, l, n) \o SubSeq(wal, n + 1, Len(wal)) = SubSeq(wal, l, Len(wal))
    BY <1>1, <2>1, ConcatAdjacentSubSeq
  <2> QED
    BY <2>2 DEF l
<1>4. ASSUME n = m + 1
      PROVE  Between(m, n, r, k) = TxnTells(wal[n], r, k)
  <2>1. n \in 1..Len(wal)
    BY <1>1, <1>4
  <2>2. SubSeq(wal, n, n) = <<wal[n]>>
    BY <1>1, <2>1, SubSeqOne
  <2> QED
    BY <1>1, <1>4, <2>1, <2>2, EventsOfOneTxn DEF Between, TxnsTell, TxnTells
<1>5. ASSUME n = Len(wal)
      PROVE  WalTells(n, r, k) = Silent
  <2>1. b = <<>>
    BY <1>1, <1>5, SubSeqEmpty
  <2> QED
    BY <1>5, <2>1, EventsOfTxnsSteps, TellsSteps DEF WalTells, Between, TxnsTell
<1> HIDE DEF a, b
<1>6. /\ TxnsTell(a \o b, r, k) = Over(TxnsTell(a, r, k), TxnsTell(b, r, k))
      /\ TxnsTell(a, r, k) \in Said /\ TxnsTell(b, r, k) \in Said
  BY <1>2, TxnsConcat
<1> QED
  BY <1>3, <1>4, <1>5, <1>6 DEF WalTells, Between, a, b

-----------------------------------------------------------------------------
(* A transaction commits: what its events tell is what it makes the table. *)

(* Nobody truncates who may not.                                           *)
LEMMA NoTruncate ==
    ASSUME "truncate" \notin ChangeKinds,
           NEW tbl \in Contents, NEW v \in Nat, NEW ch \in Changes(tbl, v)
    PROVE  ch.kind # "truncate"
<1>1. \A tuple : ch \in Inserts(tbl, v) \cup Updates(tbl, tuple) \cup Rekeys(tbl, tuple)
                        \cup Deletes(tbl) => ch.kind # "truncate"
  BY DEF Inserts, Updates, Rekeys, Deletes
<1>2. \E tuple : ch \in Inserts(tbl, v) \cup Updates(tbl, tuple) \cup Rekeys(tbl, tuple)
                        \cup Deletes(tbl)
  BY SourceAssumption DEF Changes
<1> QED
  BY <1>1, <1>2

(* Nothing but a delete takes a row away, and an event that leaves a       *)
(* column out finds the row there: the event tells the new contents in     *)
(* full, by itself or over the old ones.                                   *)
LEMMA TakesTells ==
    ASSUME NEW old \in Stored, NEW new \in Stored, NEW evt \in Built, NEW r, evt.row = r,
           Takes(evt, old, new), NEW k \in Parts
    PROVE  Part(new, k) = Over(Part(old, k), Says(evt, r, k))
<1>1. Told(Part(old, k), Says(evt, r, k), Part(new, k), k)
  BY MergeTells DEF Takes
<1>2. CASE k = <<>> \/ Over(Part(old, k), Says(evt, r, k)) # Gone
  BY <1>1, <1>2 DEF Told
<1>3. CASE k # <<>> /\ Over(Part(old, k), Says(evt, r, k)) = Gone
  <2>1. k[1] \in Cols /\ WellFormed(evt)
    BY <1>3 DEF Parts, Built
  <2>2. \A x \in Image : x[k[1]] # Gone
    BY <2>1 DEF Image, Gone
  <2>3. CASE evt.op = "d"
    BY <2>3 DEF Takes, Part, Says, Over, Gone, Silent
  <2>4. CASE evt.op # "d"
    <3>1. evt.after[k[1]] # Missing => evt.after[k[1]] \notin {Gone, Silent}
      BY <2>1 DEF WellFormed, Event, Gone, Silent
    <3>2. evt.after[k[1]] = Missing /\ Part(old, k) = Gone
      BY <1>3, <2>4, <3>1 DEF Says, Over
    <3>3. k[1] \in evt.unchanged /\ old = Absent
      BY <1>3, <2>1, <2>2, <2>4, <3>2 DEF WellFormed, Part, Stored
    <3> QED
      BY <3>3 DEF Takes
  <2> QED
    BY <2>3, <2>4
<1> QED
  BY <1>2, <1>3

(* One change.                                                             *)
LEMMA ChangeTells ==
    ASSUME "rekeyTouch" \notin ChangeKinds, "truncate" \notin ChangeKinds,
           NEW tbl \in Contents, NEW v \in Nat, NEW ch \in Changes(tbl, v),
           NEW r \in Rows, NEW k \in Parts
    PROVE  /\ ch \in Change /\ Effect(tbl, ch) \in Contents /\ EventsOf(ch) \in Seq(Built)
           /\ Part(Effect(tbl, ch)[r], k) = Over(Part(tbl[r], k), Tells(EventsOf(ch), r, k))
<1>1. ch \in Change /\ Effect(tbl, ch) \in Contents /\ ch.kind # "truncate"
  BY ChangesType, EffectType, NoTruncate
<1>2. EventsOf(ch) \in Seq(Built)
  BY <1>1, EventsOfType
<1>3. tbl[r] \in Stored /\ Effect(tbl, ch)[r] \in Stored
  BY <1>1 DEF Contents, Stored
<1>4. CASE OfRow(EventsOf(ch), r) = <<>> /\ Effect(tbl, ch)[r] = tbl[r]
  <2>1. Tells(EventsOf(ch), r, k) = Silent
    BY <1>2, <1>4, TellsNothing
  <2> QED
    BY <1>1, <1>2, <1>4, <2>1 DEF Over
<1>5. ASSUME NEW evt \in Built, OfRow(EventsOf(ch), r) = <<evt>>, evt.row = r,
             Takes(evt, tbl[r], Effect(tbl, ch)[r])
      PROVE  Part(Effect(tbl, ch)[r], k) = Over(Part(tbl[r], k), Tells(EventsOf(ch), r, k))
  <2>1. Tells(EventsOf(ch), r, k) = Says(evt, r, k)
    BY <1>2, <1>5, TellsOfRow, TellsOne
  <2> QED
    BY <1>3, <1>5, <2>1, TakesTells
<1>6. OneEvent(tbl, ch, r)
  BY ChangeOnRow
<1> QED
  BY <1>1, <1>2, <1>4, <1>5, <1>6 DEF OneEvent

\* The transaction makes of the table what its events tell.
Delivers(t) ==
    /\ t \in Seq(Change)
    /\ \A r \in Rows, k \in Parts :
        /\ TxnTells(t, r, k) \in Said
        /\ Part(table'[r], k) = Over(Part(table[r], k), TxnTells(t, r, k))

(* The one or two changes of a transaction.                                *)
LEMMA CommitTells ==
    ASSUME "rekeyTouch" \notin ChangeKinds, "truncate" \notin ChangeKinds,
           SourceTypeOK, NEW t, Committed(t)
    PROVE  Delivers(t)
<1>0. version + 1 \in Nat /\ version + 2 \in Nat /\ table \in Contents
  BY DEF SourceTypeOK
<1>1. ASSUME NEW ch \in Changes(table, version + 1), t = <<ch>>, table' = Effect(table, ch)
      PROVE  Delivers(t)
  <2>1. ch \in Change
    BY <1>0, ChangesType
  <2>2. t \in Seq(Change) /\ TxnEvents(t) = EventsOf(ch) /\ EventsOf(ch) \in Seq(Built)
    <3>1. t \in Seq(Change)
      BY <1>1, <2>1
    <3>2. EventsOfTxns(<<t>>) = TxnEvents(t)
      BY <3>1, EventsOfOneTxn
    <3>3. EventsOfTxns(<<t>>) = EventsOf(ch)
      BY <1>1, <2>1, EventsOfOne
    <3> QED
      BY <2>1, <3>1, <3>2, <3>3, EventsOfType
  <2>3. ASSUME NEW r \in Rows, NEW k \in Parts
        PROVE  /\ TxnTells(t, r, k) \in Said
               /\ Part(table'[r], k) = Over(Part(table[r], k), TxnTells(t, r, k))
    BY <1>0, <1>1, <2>2, ChangeTells, TellsSteps DEF TxnTells
  <2> QED
    BY <2>2, <2>3 DEF Delivers
<1>2. ASSUME NEW first \in Changes(table, version + 1),
             NEW second \in Changes(Effect(table, first), version + 2),
             t = <<first, second>>, table' = Effect(Effect(table, first), second)
      PROVE  Delivers(t)
  <2>1. first \in Change /\ Effect(table, first) \in Contents
    BY <1>0, ChangesType, EffectType
  <2>2. second \in Change
    BY <1>0, <2>1, ChangesType
  <2>3. EventsOf(first) \in Seq(Built) /\ EventsOf(second) \in Seq(Built)
    BY <2>1, <2>2, EventsOfType
  <2>4. t \in Seq(Change) /\ TxnEvents(t) = EventsOf(first) \o EventsOf(second)
    <3>1. t \in Seq(Change)
      BY <1>2, <2>1, <2>2
    <3>2. EventsOfTxns(<<t>>) = TxnEvents(t)
      BY <3>1, EventsOfOneTxn
    <3>3. EventsOfTxns(<<t>>) = EventsOf(first) \o EventsOf(second)
      BY <1>2, <2>1, <2>2, EventsOfPair
    <3> QED
      BY <3>1, <3>2, <3>3
  <2>5. ASSUME NEW r \in Rows, NEW k \in Parts
        PROVE  /\ TxnTells(t, r, k) \in Said
               /\ Part(table'[r], k) = Over(Part(table[r], k), TxnTells(t, r, k))
    <3>1. Part(Effect(table, first)[r], k) = Over(Part(table[r], k), Tells(EventsOf(first), r, k))
      BY <1>0, ChangeTells
    <3>2. Part(table'[r], k) = Over(Part(Effect(table, first)[r], k), Tells(EventsOf(second), r, k))
      BY <1>0, <1>2, <2>1, ChangeTells
    <3>3. TxnTells(t, r, k) = Over(Tells(EventsOf(first), r, k), Tells(EventsOf(second), r, k))
      BY <2>3, <2>4, TellsConcat DEF Overrules, TxnTells
    <3>4. TxnTells(t, r, k) \in Said
      BY <2>3, <2>4, ConcatProperties, TellsSteps DEF TxnTells
    <3> QED
      BY <3>1, <3>2, <3>3, <3>4 DEF Over
  <2> QED
    BY <2>4, <2>5 DEF Delivers
<1>3. ASSUME t = <<>>, table' = table
      PROVE  Delivers(t)
  <2>1. t \in Seq(Change) /\ TxnEvents(t) = <<>>
    BY <1>3, EmptySeq, TxnEventsSteps
  <2>2. ASSUME NEW r \in Rows, NEW k \in Parts
        PROVE  TxnTells(t, r, k) = Silent
    BY <2>1, TellsSteps DEF TxnTells
  <2> QED
    BY <1>3, <2>1, <2>2 DEF Delivers, Over, Said
<1> QED
  BY <1>1, <1>2, <1>3 DEF Committed

\* The transaction a source step adds to the WAL.
Latest == wal'[Len(wal')]

\* What is left of the WAL behind every position grows by that transaction.
LongerWal ==
    /\ wal' \in Seq(Seq(Change)) /\ Len(wal') = Len(wal) + 1
    /\ \A n \in 1..Len(wal) : wal'[n] = wal[n]
    /\ Delivers(Latest)
    /\ \A n \in 0..Len(wal), r \in Rows, k \in Parts :
            WalTells(n, r, k)' = Over(WalTells(n, r, k), TxnTells(Latest, r, k))

(* A commit, seen from anywhere in the WAL.                                *)
LEMMA WalLonger ==
    ASSUME "rekeyTouch" \notin ChangeKinds, "truncate" \notin ChangeKinds,
           SourceTypeOK, SourceStep
    PROVE  LongerWal
<1>1. Committed(Latest) /\ SourceTypeOK'
  BY LastCommitted DEF Latest
<1>2. Delivers(Latest)
  BY <1>1, CommitTells
<1>3. Latest \in Seq(Change) /\ wal \in Seq(Seq(Change)) /\ Len(wal) \in Nat
  BY <1>2, LenProperties DEF Delivers, SourceTypeOK
<1>4. wal' = Append(wal, Latest)
  <2>1. \A x : wal' = Append(wal, x) => wal'[Len(wal')] = x
    BY <1>3
  <2>2. \E x : wal' = Append(wal, x)
    BY DEF SourceStep, CommitOne, CommitPair, CommitOther
  <2> QED
    BY <2>1, <2>2 DEF Latest
<1> DEFINE t == Latest
<1>5. /\ wal' \in Seq(Seq(Change)) /\ Len(wal') = Len(wal) + 1
      /\ \A n \in 1..Len(wal) : wal'[n] = wal[n]
  <2>1. t \in Seq(Change) /\ wal' = Append(wal, t)
    BY <1>3, <1>4
  <2> HIDE DEF t
  <2> QED
    BY <1>3, <2>1, AppendProperties
<1>6. ASSUME NEW n \in 0..Len(wal), NEW r \in Rows, NEW k \in Parts
      PROVE  WalTells(n, r, k)' = Over(WalTells(n, r, k), TxnTells(t, r, k))
  <2> DEFINE a == SubSeq(wal, n + 1, Len(wal))
             one == <<t>>
  <2>1. t \in Seq(Change) /\ one \in Seq(Seq(Change)) /\ wal' = wal \o one
    <3>1. t \in Seq(Change) /\ wal' = Append(wal, t)
      BY <1>3, <1>4
    <3> HIDE DEF t
    <3> QED
      BY <1>3, <3>1, AppendIsConcat
  <2>2. n + 1 \in 1..(Len(wal) + 1) /\ n + 1 \in Int /\ Len(wal) \in Int
    BY <1>3
  <2>3. a \in Seq(Seq(Change))
    <3>1. \A i \in (n + 1)..Len(wal) : wal[i] \in Seq(Change)
      BY <1>3, ElementOfSeq
    <3> QED
      BY <2>2, <3>1, SubSeqProperties
  <2>4. SubSeq(wal', n + 1, Len(wal')) = a \o one
    <3> DEFINE m == n + 1
    <3>1. m \in 1..(Len(wal) + 1)
      BY <2>2
    <3> HIDE DEF m, one
    <3>2. Extended(wal, one, m)
      BY <1>3, <2>1, <3>1, SubSeqOfConcat
    <3> QED
      BY <2>1, <3>2 DEF Extended, m
  <2> HIDE DEF a, one
  <2>5. TxnsTell(a \o one, r, k) = Over(TxnsTell(a, r, k), TxnsTell(one, r, k))
    BY <2>1, <2>3, TxnsConcat
  <2>6. TxnsTell(one, r, k) = TxnTells(t, r, k)
    BY <2>1, EventsOfOneTxn DEF one, TxnsTell, TxnTells
  <2> QED
    BY <2>4, <2>5, <2>6 DEF WalTells, Between, TxnsTell, a
<1> QED
  BY <1>2, <1>5, <1>6 DEF LongerWal

-----------------------------------------------------------------------------
(* What the reader holds, in the order of its partitions.                  *)

\* Events on their way to the topic, each with the partition of its row.
Sorted(evts) ==
    /\ evts \in [Partitions -> Seq(Built)]
    /\ \A p \in Partitions : evts[p] \in Seq(ForRows(At(p)))

\* What they tell of a part of a row.
InHand(evts, r, k) == Tells(evts[PartitionOf[r]], r, k)

(* Nothing in hand, nothing told.                                          *)
LEMMA NoneInHand ==
    /\ Sorted(NoEvents)
    /\ \A r \in Rows, k \in Parts : InHand(NoEvents, r, k) = Silent
<1>1. \A r \in Rows : PartitionOf[r] \in Partitions
  BY ShapeAssumption
<1>2. \A S : <<>> \in Seq(S)
  BY EmptySeq
<1> QED
  BY <1>1, <1>2, TellsSteps DEF Sorted, NoEvents, InHand

(* One more event, at the end of its partition's.                          *)
LEMMA PutTells ==
    ASSUME NEW buf, Sorted(buf), NEW evt \in Built
    PROVE  /\ Sorted(Put(buf, evt))
           /\ \A r \in Rows, k \in Parts :
                InHand(Put(buf, evt), r, k) = Over(InHand(buf, r, k), Says(evt, r, k))
<1> DEFINE q == PartitionOf[evt.row]
           b == Put(buf, evt)
<1>1. evt.row \in Rows /\ q \in Partitions /\ evt \in ForRows(At(q))
  BY ShapeAssumption DEF Built, WellFormed, Event, ForRows, At
<1>2. /\ b \in [Partitions -> Seq(Built)]
      /\ b[q] = Append(buf[q], evt)
      /\ \A p \in Partitions \ {q} : b[p] = buf[p]
  BY <1>1, AppendProperties DEF Sorted, Put
<1> HIDE DEF b, q
<1>3. Append(buf[q], evt) \in Seq(ForRows(At(q)))
  BY <1>1, AppendProperties DEF Sorted
<1>4. ASSUME NEW r \in Rows, NEW k \in Parts
      PROVE  InHand(b, r, k) = Over(InHand(buf, r, k), Says(evt, r, k))
  <2>1. CASE PartitionOf[r] = q
    BY <1>1, <1>2, <2>1, TellsSteps DEF InHand, Sorted
  <2>2. CASE PartitionOf[r] # q
    <3>1. PartitionOf[r] \in Partitions /\ evt.row # r
      BY <2>2, ShapeAssumption DEF q
    <3> QED
      BY <1>2, <2>2, <3>1 DEF InHand, Says, Over
  <2> QED
    BY <2>1, <2>2
<1> QED
  BY <1>2, <1>3, <1>4 DEF Sorted, b

Alike(s, u, r, k) == Len(s) = Len(u) /\ \A i \in 1..Len(s) : Says(s[i], r, k) = Says(u[i], r, k)

(* Sequences whose events say the same tell the same.                      *)
LEMMA AlikeTell ==
    ASSUME NEW r, NEW k \in Parts, NEW s \in Seq(Built), NEW u \in Seq(Built), Alike(s, u, r, k)
    PROVE  Tells(s, r, k) = Tells(u, r, k)
<1> DEFINE F == SaysF(r, k)
<1>1. /\ F \in [Said \X Built -> Said] /\ Silent \in Said
      /\ \A v \in Said, evt \in Built : F[<<v, evt>>] = Over(v, Says(evt, r, k))
  BY SaysFType
<1>2. /\ Len(s) \in Nat /\ Len(u) = Len(s)
      /\ \A i \in 1..Len(s) : s[i] \in Built /\ u[i] \in Built /\ Says(s[i], r, k) = Says(u[i], r, k)
  BY LenProperties, ElementOfSeq DEF Alike
<1> HIDE DEF F
<1>3. Computed(Said, F, Silent, s) /\ Computed(Said, F, Silent, u)
  BY <1>1, FoldFRuns
<1>4. PICK g \in [0..Len(s) -> Said] : Runs(g, F, Silent, s) /\ FoldF(F, Silent, s) = g[Len(s)]
  BY <1>3 DEF Computed
<1>5. PICK h \in [0..Len(u) -> Said] : Runs(h, F, Silent, u) /\ FoldF(F, Silent, u) = h[Len(u)]
  BY <1>3 DEF Computed
<1>6. RunsIn(h, Said, F, Silent, s)
  <2>1. ASSUME NEW n \in 1..Len(s), h[n-1] \in Said
        PROVE  h[n] = F[<<h[n-1], s[n]>>]
    <3>1. h[n] = F[<<h[n-1], u[n]>>]
      BY <1>2, <1>5 DEF Runs
    <3> QED
      BY <1>1, <1>2, <2>1, <3>1
  <2> QED
    BY <1>5, <2>1 DEF Runs, RunsIn
<1>7. Agree(g, h, s)
  BY <1>1, <1>4, <1>6, RunsUnique
<1>8. g[Len(s)] = h[Len(s)]
  BY <1>2, <1>7 DEF Agree
<1> QED
  BY <1>2, <1>4, <1>5, <1>8 DEF Tells, F

(* The stamp of the Commit message changes nothing that is told.           *)
LEMMA StampedTells ==
    ASSUME NEW buf, Sorted(buf), NEW lsn \in Nat
    PROVE  /\ Sorted(Stamped(buf, lsn))
           /\ \A r \in Rows, k \in Parts : InHand(Stamped(buf, lsn), r, k) = InHand(buf, r, k)
<1>1. ASSUME NEW evt \in Built
      PROVE  /\ [evt EXCEPT !.lsn = lsn] \in Built /\ [evt EXCEPT !.lsn = lsn].row = evt.row
             /\ \A r, k : Says([evt EXCEPT !.lsn = lsn], r, k) = Says(evt, r, k)
  <2>1. [evt EXCEPT !.lsn = lsn] \in Event
    BY DEF Built, Event
  <2>2. /\ [evt EXCEPT !.lsn = lsn].row = evt.row /\ [evt EXCEPT !.lsn = lsn].op = evt.op
        /\ [evt EXCEPT !.lsn = lsn].after = evt.after
        /\ [evt EXCEPT !.lsn = lsn].unchanged = evt.unchanged
    BY DEF Built, Event
  <2>3. [evt EXCEPT !.lsn = lsn] \in Built
    BY <2>1, <2>2 DEF Built, WellFormed
  <2> QED
    BY <2>2, <2>3 DEF Says
<1>2. ASSUME NEW p \in Partitions
      PROVE  /\ Stamped(buf, lsn)[p] \in Seq(ForRows(At(p))) /\ Stamped(buf, lsn)[p] \in Seq(Built)
             /\ \A r, k : Alike(Stamped(buf, lsn)[p], buf[p], r, k)
  <2> DEFINE s == buf[p]
             u == [i \in DOMAIN s |-> [s[i] EXCEPT !.lsn = lsn]]
  <2>1. /\ Len(s) \in Nat /\ DOMAIN s = 1..Len(s)
        /\ \A i \in 1..Len(s) : s[i] \in Built /\ s[i] \in ForRows(At(p))
    BY LenProperties, ElementOfSeq DEF Sorted
  <2>2. \A i \in 1..Len(s) : u[i] \in Built /\ u[i] \in ForRows(At(p)) /\ u[i] = [s[i] EXCEPT !.lsn = lsn]
    BY <1>1, <2>1 DEF ForRows
  <2>3. u \in Seq(Built) /\ u \in Seq(ForRows(At(p))) /\ Len(u) = Len(s)
    <3>1. u = [i \in 1..Len(s) |-> u[i]]
      BY <2>1
    <3> HIDE DEF s, u
    <3> QED
      BY <2>1, <2>2, <3>1
  <2>4. Stamped(buf, lsn)[p] = u
    BY DEF Stamped
  <2> HIDE DEF s, u
  <2>5. \A r, k : Alike(u, s, r, k)
    <3>1. ASSUME NEW r, NEW k, NEW i \in 1..Len(s)
          PROVE  Says(u[i], r, k) = Says(s[i], r, k)
      <4>1. s[i] \in Built /\ u[i] = [s[i] EXCEPT !.lsn = lsn]
        BY <2>1, <2>2
      <4> QED
        BY ONLY <1>1, <4>1
    <3> QED
      BY <2>3, <3>1 DEF Alike
  <2> QED
    BY <2>3, <2>4, <2>5 DEF s
<1>3. Stamped(buf, lsn) \in [Partitions -> Seq(Built)]
  <2>1. \E f : Stamped(buf, lsn) = [p \in Partitions |-> f[p]]
    <3>1. Stamped(buf, lsn) = [p \in Partitions |-> Stamped(buf, lsn)[p]]
      BY DEF Stamped
    <3> QED
      BY <3>1
  <2> QED
    BY <1>2, <2>1
<1>4. ASSUME NEW r \in Rows, NEW k \in Parts
      PROVE  InHand(Stamped(buf, lsn), r, k) = InHand(buf, r, k)
  <2>1. PartitionOf[r] \in Partitions
    BY ShapeAssumption
  <2> QED
    BY <1>2, <2>1, AlikeTell DEF InHand, Sorted
<1> QED
  BY <1>2, <1>3, <1>4 DEF Sorted

-----------------------------------------------------------------------------
(* The reader's invariant: where it is in the WAL, what it has in hand,    *)
(* and that the topic, what it has in hand and what it has not read yet    *)
(* tell of every row, between them, what the table holds.                  *)

Streaming == readerPC \in {"stream", "committing"}

ReaderTypes ==
    /\ readerPC \in ReaderPCs
    /\ slotStart \in Nat /\ confirmed \in Nat /\ txn \in Nat /\ msg \in Nat /\ ackedLSN \in Nat
    /\ snapshot \in Contents /\ copied \subseteq Rows
    /\ Sorted(unsent) /\ Sorted(txnBuffer) /\ late = NoEvents

Positions ==
    /\ slotStart <= confirmed /\ confirmed <= Len(wal)
    /\ readerPC # "down" => slotExists
    /\ Streaming =>
        /\ confirmed < txn /\ txn <= Len(wal) + 1
        /\ ackedLSN = 0 \/ (confirmed <= ackedLSN /\ ackedLSN < txn)
    /\ ~Streaming => ackedLSN = 0
    /\ readerPC = "committing" => txn <= Len(wal)
    /\ readerPC = "stream" /\ msg # 0 => txn <= Len(wal) /\ msg <= Len(wal[txn]) + 1

\* A Publish holds events only while it runs; that of a chunk never fails.
Idle ==
    /\ ~slotExists => log = NoEvents
    /\ readerPC \notin {"copying", "committing"} => unsent = NoEvents
    /\ readerPC = "copying" => ~failed

Shape == SourceTypeOK /\ LogOK /\ ReaderTypes /\ Positions /\ Idle

\* Where the rest of the WAL, which tells w, leaves a part of a row alone,
\* x tells it as it is in image.
Covers(w, x, image, k) == w = Silent => Over(Gone, x) = Part(image, k)

Topic(r, k) == InHand(log, r, k)

Sending(r, k) == Over(Topic(r, k), InHand(unsent, r, k))

ToCopy(r, k) == IF r \notin copied /\ snapshot[r] # Absent THEN Part(snapshot[r], k) ELSE Silent

\* The WAL up to here is in the topic.
ReadTo == IF Streaming THEN txn - 1 ELSE confirmed

\* The WAL as a whole tells nothing of a part of a row, or how it is.
WalRest(r, k) == WalTells(0, r, k) \in {Silent, Part(table[r], k)}

Backfilling(r, k) ==
    InBackfill => Covers(WalTells(confirmed, r, k), Over(Sending(r, k), ToCopy(r, k)), table[r], k)

Published(r, k) ==
    slotExists /\ ~InBackfill => Covers(WalTells(ReadTo, r, k), Topic(r, k), table[r], k)

\* What a Publish has in hand comes from the transaction being committed.
Committing(r, k) == readerPC = "committing" =>
    /\ ~failed => Covers(WalTells(txn, r, k), Sending(r, k), table[r], k)
    /\ InHand(unsent, r, k) # Silent => WalTells(txn - 1, r, k) # Silent

Buffered(r, k) == readerPC = "stream" /\ msg # 0 =>
    InHand(txnBuffer, r, k) = TxnTells(SubSeq(wal[txn], 1, msg - 1), r, k)

Tale(r, k) ==
    WalRest(r, k) /\ Backfilling(r, k) /\ Published(r, k) /\ Committing(r, k) /\ Buffered(r, k)

ReaderInv == Shape /\ \A r \in Rows, k \in Parts : Tale(r, k)

(* What the topic and a Publish tell.                                      *)
LEMMA InHandType ==
    ASSUME NEW r \in Rows, NEW k \in Parts
    PROVE  /\ \A evts : Sorted(evts) => InHand(evts, r, k) \in Said
           /\ LogOK <=> Sorted(log)
<1>1. PartitionOf[r] \in Partitions
  BY ShapeAssumption
<1> QED
  BY <1>1, TellsSteps DEF Sorted, InHand, LogOK

(* Every position of the WAL is like its beginning, and one further on     *)
(* tells no more than one further back.                                    *)
LEMMA WalAnywhere ==
    ASSUME SourceTypeOK, NEW r, NEW k \in Parts, WalRest(r, k), NEW n \in 0..Len(wal)
    PROVE  /\ WalTells(n, r, k) \in {Silent, Part(table[r], k)}
           /\ \A m \in 0..n : WalTells(m, r, k) = Silent => WalTells(n, r, k) = Silent
<1>1. Len(wal) \in Nat /\ 0 \in 0..Len(wal) /\ n \in 0..Len(wal)
  BY LenProperties DEF SourceTypeOK
<1>2. WalTells(0, r, k) = Over(Between(0, n, r, k), WalTells(n, r, k))
  BY <1>1, WalSplit
<1>3. ASSUME NEW m \in 0..n
      PROVE  WalTells(m, r, k) = Over(Between(m, n, r, k), WalTells(n, r, k))
  <2>1. m \in 0..Len(wal) /\ n \in m..Len(wal)
    BY <1>1
  <2> QED
    BY <2>1, WalSplit
<1> QED
  BY <1>2, <1>3 DEF Over, WalRest

(* What one transaction tells, between two positions.                      *)
LEMMA WalNext ==
    ASSUME SourceTypeOK, NEW r, NEW k \in Parts, NEW n \in 1..Len(wal)
    PROVE  /\ wal[n] \in Seq(Change) /\ TxnTells(wal[n], r, k) \in Said
           /\ WalTells(n - 1, r, k) = Over(TxnTells(wal[n], r, k), WalTells(n, r, k))
<1>1. wal \in Seq(Seq(Change)) /\ Len(wal) \in Nat
  BY LenProperties DEF SourceTypeOK
<1> DEFINE m == n - 1
<1>2. m \in 0..Len(wal) /\ n \in m..Len(wal) /\ n = m + 1
  BY <1>1
<1> HIDE DEF m
<1>3. /\ WalTells(m, r, k) = Over(Between(m, n, r, k), WalTells(n, r, k))
      /\ Between(m, n, r, k) = TxnTells(wal[n], r, k) /\ Between(m, n, r, k) \in Said
  BY <1>2, WalSplit
<1>4. wal[n] \in Seq(Change)
  BY <1>1, ElementOfSeq
<1> QED
  BY <1>3, <1>4 DEF m

(* A transaction commits while the reader is anywhere.                     *)
LEMMA SourceKeeps ==
    ASSUME "rekeyTouch" \notin ChangeKinds, "truncate" \notin ChangeKinds,
           ReaderInv, SourceStep, UNCHANGED <<sinkVars, readerVars>>
    PROVE  ReaderInv'
<1> USE DEF ReaderInv, Shape
<1>1. LongerWal /\ SourceTypeOK'
  BY WalLonger, LastCommitted
<1>2. Len(wal) \in Nat
  BY LenProperties DEF SourceTypeOK
<1>3. LogOK' /\ ReaderTypes'
  BY DEF sinkVars, readerVars, slotVars, snapshotVars, streamVars, LogOK, ReaderTypes
<1>4. Positions' /\ Idle'
  <2>1. /\ UNCHANGED <<slotStart, confirmed, readerPC, slotExists, txn, msg, ackedLSN>>
        /\ UNCHANGED <<log, unsent, failed>>
    BY DEF sinkVars, readerVars, slotVars, snapshotVars, streamVars
  <2>2. Len(wal') = Len(wal) + 1 /\ \A n \in 1..Len(wal) : wal'[n] = wal[n]
    BY <1>1 DEF LongerWal
  <2>3. txn \in Nat /\ confirmed \in Nat
    BY DEF ReaderTypes
  <2>4. Positions'
    BY <1>2, <2>1, <2>2, <2>3 DEF Positions, Streaming
  <2> QED
    BY <2>1, <2>4 DEF Idle
<1>5. ASSUME NEW r \in Rows, NEW k \in Parts
      PROVE  Tale(r, k)'
  <2> DEFINE t == TxnTells(Latest, r, k)
  <2>1. /\ t \in Said /\ Part(table'[r], k) = Over(Part(table[r], k), t)
        /\ \A n \in 0..Len(wal) : WalTells(n, r, k)' = Over(WalTells(n, r, k), t)
    BY <1>1 DEF LongerWal, Delivers
  <2> HIDE DEF t
  <2>2. /\ InBackfill' = InBackfill /\ Streaming' = Streaming /\ ReadTo' = ReadTo
        /\ Topic(r, k)' = Topic(r, k) /\ Sending(r, k)' = Sending(r, k) /\ ToCopy(r, k)' = ToCopy(r, k)
        /\ InHand(unsent, r, k)' = InHand(unsent, r, k)
        /\ InHand(txnBuffer, r, k)' = InHand(txnBuffer, r, k)
        /\ UNCHANGED <<slotExists, confirmed, readerPC, failed, txn, msg>>
    BY DEF sinkVars, readerVars, slotVars, snapshotVars, streamVars, InBackfill, Streaming,
           ReadTo, Topic, Sending, ToCopy, InHand
  <2>4. Tale(r, k) /\ confirmed \in 0..Len(wal) /\ 0 \in 0..Len(wal)
    BY <1>2 DEF Positions, ReaderTypes
  <2>5. WalRest(r, k)'
    BY <2>1, <2>4 DEF Tale, WalRest, Over
  <2>6. Backfilling(r, k)'
    <3>1. WalTells(confirmed, r, k)' = Over(WalTells(confirmed, r, k), t)
      BY <2>1, <2>2, <2>4 DEF WalTells, Between
    <3>2. \A x : Covers(WalTells(confirmed, r, k), x, table[r], k)
                    => Covers(WalTells(confirmed, r, k)', x, table'[r], k)
      BY <2>1, <3>1 DEF Covers, Over
    <3> QED
      BY <2>2, <2>4, <3>2 DEF Tale, Backfilling
  <2>7. Published(r, k)'
    <3>1. ReadTo \in 0..Len(wal)
      BY <1>2, <2>4 DEF Positions, ReaderTypes, ReadTo
    <3>2. WalTells(ReadTo, r, k)' = Over(WalTells(ReadTo, r, k), t)
      <4>1. PICK n \in 0..Len(wal) : n = ReadTo
        BY <3>1
      <4>2. ReadTo' = n
        BY <2>2, <4>1
      <4>3. WalTells(n, r, k)' = Over(WalTells(n, r, k), t)
        BY <2>1
      <4> QED
        BY <4>1, <4>2, <4>3 DEF WalTells, Between
    <3>3. \A x : Covers(WalTells(ReadTo, r, k), x, table[r], k)
                    => Covers(WalTells(ReadTo, r, k)', x, table'[r], k)
      BY <2>1, <3>2 DEF Covers, Over
    <3> QED
      BY <2>2, <2>4, <3>3 DEF Tale, Published
  <2>8. Committing(r, k)'
    <3> SUFFICES ASSUME readerPC = "committing"
                 PROVE  Committing(r, k)'
      BY <2>2 DEF Committing
    <3>1. txn \in 0..Len(wal) /\ txn - 1 \in 0..Len(wal)
      BY <1>2, <2>4 DEF Positions, ReaderTypes, Streaming
    <3>2. /\ WalTells(txn, r, k)' = Over(WalTells(txn, r, k), t)
          /\ WalTells(txn - 1, r, k)' = Over(WalTells(txn - 1, r, k), t)
      BY <2>1, <2>2, <3>1 DEF WalTells, Between
    <3>3. \A x : Covers(WalTells(txn, r, k), x, table[r], k)
                    => Covers(WalTells(txn, r, k)', x, table'[r], k)
      BY <2>1, <3>2 DEF Covers, Over
    <3>4. WalTells(txn - 1, r, k) # Silent => WalTells(txn - 1, r, k)' # Silent
      BY <3>2 DEF Over
    <3>5. Committing(r, k)
      BY <2>4 DEF Tale
    <3> QED
      BY <2>2, <3>3, <3>4, <3>5 DEF Committing
  <2>9. Buffered(r, k)'
    <3>1. readerPC = "stream" /\ msg # 0 => wal'[txn] = wal[txn]
      BY <1>1, <1>2 DEF Positions, Streaming, ReaderTypes, LongerWal
    <3> QED
      BY <2>2, <2>4, <3>1 DEF Tale, Buffered
  <2> QED
    BY <2>5, <2>6, <2>7, <2>8, <2>9 DEF Tale
<1> QED
  BY <1>1, <1>3, <1>4, <1>5

(* Nothing happens on the reader's side.                                   *)
LEMMA ReaderRest ==
    ASSUME ReaderInv, UNCHANGED <<sourceVars, sinkVars, readerVars>>
    PROVE  ReaderInv'
<1>1. /\ UNCHANGED <<table, wal, version, log, unsent, failed, late>>
      /\ UNCHANGED <<readerPC, slotExists, slotStart, confirmed, snapshot, copied>>
      /\ UNCHANGED <<rels, txn, msg, txnBuffer, ackedLSN>>
  BY DEF sourceVars, sinkVars, readerVars, slotVars, snapshotVars, streamVars
<1>2. Shape'
  BY <1>1 DEF ReaderInv, Shape, SourceTypeOK, LogOK, ReaderTypes, Positions, Streaming, Idle
<1>3. ASSUME NEW r \in Rows, NEW k \in Parts
      PROVE  Tale(r, k)'
  <2>1. Tale(r, k)
    BY DEF ReaderInv
  <2> QED
    BY <1>1, <2>1 DEF Tale, WalRest, Backfilling, Published, Committing, Buffered, Covers,
        WalTells, Between, ReadTo, Streaming, InBackfill, Topic, Sending, ToCopy, InHand
<1> QED
  BY <1>2, <1>3 DEF ReaderInv

-----------------------------------------------------------------------------
(* Starting.                                                               *)

(* A fresh slot: the WAL before it is in the snapshot.                     *)
LEMMA CreateSlotKeeps ==
    ASSUME ReaderInv, CreateSlot, UNCHANGED sourceVars
    PROVE  ReaderInv'
<1>1. /\ UNCHANGED <<table, wal, version, log, unsent, failed, late, rels, txn, msg>>
      /\ UNCHANGED <<txnBuffer, ackedLSN>>
      /\ readerPC = "down" /\ ~slotExists /\ slotExists' /\ readerPC' = "backfill"
      /\ slotStart' = Len(wal) /\ confirmed' = Len(wal) /\ snapshot' = table /\ copied' = {}
  BY DEF CreateSlot, sourceVars, sinkVars, streamVars
<1>2. /\ SourceTypeOK /\ LogOK /\ ReaderTypes /\ Positions /\ Idle /\ Len(wal) \in Nat
      /\ table \in Contents
  BY LenProperties DEF ReaderInv, Shape, SourceTypeOK
<1>3. ReaderTypes'
  BY <1>1, <1>2 DEF ReaderTypes, ReaderPCs
<1>4. Positions' /\ Idle'
  BY <1>1, <1>2 DEF Positions, Streaming, Idle
<1>5. SourceTypeOK' /\ LogOK'
  BY <1>1, <1>2 DEF SourceTypeOK, LogOK
<1>6. ASSUME NEW r \in Rows, NEW k \in Parts
      PROVE  Tale(r, k)'
  <2>1. Topic(r, k)' = Silent /\ InHand(unsent, r, k)' = Silent
    BY <1>1, <1>2, NoneInHand DEF Idle, Topic, InHand
  <2>2. Sending(r, k)' = Silent
    BY <2>1 DEF Sending, Over, Topic, InHand
  <2>3. ToCopy(r, k)' = IF table[r] # Absent THEN Part(table[r], k) ELSE Silent
    BY <1>1 DEF ToCopy
  <2>4. Over(Gone, Over(Sending(r, k), ToCopy(r, k))') = Part(table[r], k)
    <3>1. Part(table[r], k) # Silent
      BY <1>2, PartType DEF Contents, Stored
    <3> QED
      BY <2>2, <2>3, <3>1 DEF Over, Part
  <2>5. Backfilling(r, k)'
    BY <1>1, <2>4 DEF Backfilling, Covers
  <2>6. Published(r, k)' /\ Committing(r, k)' /\ Buffered(r, k)'
    BY <1>1 DEF Published, Committing, Buffered, InBackfill
  <2>7. WalRest(r, k)'
    <3>1. WalRest(r, k)
      BY DEF ReaderInv, Tale
    <3> QED
      BY <1>1, <3>1 DEF WalRest, WalTells, Between
  <2> QED
    BY <2>5, <2>6, <2>7 DEF Tale
<1> QED
  BY <1>3, <1>4, <1>5, <1>6 DEF ReaderInv, Shape

(* An old slot: nothing changes hands.                                     *)
LEMMA FindSlotKeeps ==
    ASSUME ReaderInv, FindSlot, UNCHANGED sourceVars
    PROVE  ReaderInv'
<1>1. /\ UNCHANGED <<table, wal, version, log, unsent, failed, late, rels, txn, msg>>
      /\ UNCHANGED <<txnBuffer, ackedLSN, slotExists, slotStart, confirmed, snapshot, copied>>
      /\ readerPC = "down" /\ slotExists /\ readerPC' = "start"
  BY DEF FindSlot, sourceVars, sinkVars, streamVars, slotVars, snapshotVars
<1>2. SourceTypeOK /\ LogOK /\ ReaderTypes /\ Positions /\ Idle
  BY DEF ReaderInv, Shape
<1>3. ReaderTypes'
  BY <1>1, <1>2 DEF ReaderTypes, ReaderPCs
<1>4. Positions' /\ Idle'
  BY <1>1, <1>2 DEF Positions, Streaming, Idle
<1>5. SourceTypeOK' /\ LogOK'
  BY <1>1, <1>2 DEF SourceTypeOK, LogOK
<1>6. ASSUME NEW r \in Rows, NEW k \in Parts
      PROVE  Tale(r, k)'
  <2>1. Tale(r, k)
    BY DEF ReaderInv
  <2> QED
    BY <1>1, <2>1 DEF Tale, WalRest, Backfilling, Published, Committing, Buffered, Covers,
        WalTells, Between, ReadTo, Streaming, InBackfill, Topic, InHand
<1> QED
  BY <1>3, <1>4, <1>5, <1>6 DEF ReaderInv, Shape

(* The stream begins behind the snapshot, or behind what was confirmed.    *)
LEMMA StartKeeps ==
    ASSUME ReaderInv, StartReplication, UNCHANGED sourceVars
    PROVE  ReaderInv'
<1>1. /\ UNCHANGED <<table, wal, version, log, unsent, failed, late, rels>>
      /\ UNCHANGED <<txnBuffer, ackedLSN, slotExists, slotStart, confirmed>>
      /\ readerPC = "start" \/ (readerPC = "backfill" /\ BackfillDone)
      /\ readerPC' = "stream" /\ snapshot' = NoRows /\ copied' = {}
      /\ txn' = confirmed + 1 /\ msg' = 0
  BY DEF StartReplication, sourceVars, sinkVars, slotVars
<1>2. SourceTypeOK /\ LogOK /\ ReaderTypes /\ Positions /\ Idle /\ Len(wal) \in Nat
  BY LenProperties DEF ReaderInv, Shape, SourceTypeOK
<1>3. ReaderTypes'
  <2>1. NoRows \in Contents
    BY DEF NoRows, Contents
  <2> QED
    BY <1>1, <1>2, <2>1 DEF ReaderTypes, ReaderPCs
<1>4. Positions' /\ Idle'
  BY <1>1, <1>2 DEF Positions, Streaming, Idle, ReaderTypes
<1>5. SourceTypeOK' /\ LogOK'
  BY <1>1, <1>2 DEF SourceTypeOK, LogOK
<1>6. ASSUME NEW r \in Rows, NEW k \in Parts
      PROVE  Tale(r, k)'
  <2>1. Tale(r, k)
    BY DEF ReaderInv
  <2>2. Covers(WalTells(confirmed, r, k), Topic(r, k), table[r], k)
    <3>1. CASE readerPC = "start"
      BY <1>2, <2>1, <3>1 DEF Tale, Published, ReadTo, Streaming, InBackfill, Positions
    <3>2. CASE readerPC = "backfill" /\ BackfillDone
      <4>1. InHand(unsent, r, k) = Silent
        BY <1>2, <3>2, NoneInHand DEF Idle
      <4>2. ToCopy(r, k) = Silent
        <5>1. Uncopied(TableOf[r]) = {}
          BY <3>2, ShapeAssumption DEF BackfillDone
        <5> QED
          BY <5>1 DEF Uncopied, ToCopy
      <4>3. Over(Sending(r, k), ToCopy(r, k)) = Topic(r, k)
        BY <4>1, <4>2 DEF Sending, Over
      <4> QED
        BY <2>1, <3>2, <4>3 DEF Tale, Backfilling, InBackfill
    <3> QED
      BY <1>1, <3>1, <3>2
  <2>3. Published(r, k)'
    <3>1. ReadTo' = confirmed
      BY <1>1, <1>2 DEF ReadTo, Streaming, ReaderTypes
    <3> QED
      BY <1>1, <2>2, <3>1 DEF Published, Covers, WalTells, Between, Topic, InHand
  <2>4. Backfilling(r, k)' /\ Committing(r, k)' /\ Buffered(r, k)'
    BY <1>1 DEF Backfilling, Committing, Buffered, InBackfill
  <2>5. WalRest(r, k)'
    BY <1>1, <2>1 DEF Tale, WalRest, WalTells, Between
  <2> QED
    BY <2>3, <2>4, <2>5 DEF Tale
<1> QED
  BY <1>3, <1>4, <1>5, <1>6 DEF ReaderInv, Shape

-----------------------------------------------------------------------------
(* The backfill.                                                           *)

(* What a chunk takes out of the snapshot is what it publishes.            *)
LEMMA ChunkTells ==
    ASSUME snapshot \in Contents, NEW S \in SUBSET Rows, \A r \in S : snapshot[r] # Absent
    PROVE  /\ Sorted(ChunkEvents(S))
           /\ \A r \in Rows, k \in Parts : InHand(ChunkEvents(S), r, k)
                = IF r \in S THEN Part(snapshot[r], k) ELSE Silent
<1> DEFINE R(p) == {r \in S : PartitionOf[r] = p}
<1>1. ASSUME NEW p \in Partitions
      PROVE  /\ ReadTells(ReadEvents(R(p)), snapshot, R(p))
             /\ ChunkEvents(S)[p] = ReadEvents(R(p))
             /\ ChunkEvents(S)[p] \in Seq(Built) /\ ChunkEvents(S)[p] \in Seq(ForRows(At(p)))
  <2>1. R(p) \in SUBSET Rows /\ \A r \in R(p) : snapshot[r] # Absent
    OBVIOUS
  <2>2. ChunkEvents(S)[p] = ReadEvents(R(p))
    BY DEF ChunkEvents
  <2>3. ForRows(R(p)) \subseteq ForRows(At(p)) /\ ForRows(R(p)) \subseteq Built
    BY DEF ForRows, At
  <2> HIDE DEF R
  <2>4. ReadTells(ReadEvents(R(p)), snapshot, R(p))
    BY <2>1, ReadEventsTell
  <2>5. ReadEvents(R(p)) \in Seq(ForRows(R(p)))
    BY <2>4 DEF ReadTells
  <2> QED
    BY <2>2, <2>3, <2>4, <2>5, SeqMonotonic
<1>2. ChunkEvents(S) \in [Partitions -> Seq(Built)]
  <2>1. ChunkEvents(S) = [p \in Partitions |-> ChunkEvents(S)[p]]
    BY DEF ChunkEvents
  <2> QED
    BY <1>1, <2>1
<1>3. ASSUME NEW r \in Rows, NEW k \in Parts
      PROVE  InHand(ChunkEvents(S), r, k) = IF r \in S THEN Part(snapshot[r], k) ELSE Silent
  <2> DEFINE p == PartitionOf[r]
  <2>1. p \in Partitions /\ (r \in R(p) <=> r \in S)
    BY ShapeAssumption
  <2> HIDE DEF p, R
  <2>2. Tells(ChunkEvents(S)[p], r, k) = IF r \in R(p) THEN Part(snapshot[r], k) ELSE Silent
    BY <1>1, <2>1 DEF ReadTells
  <2> QED
    BY <2>1, <2>2 DEF InHand, p
<1> QED
  BY <1>1, <1>2, <1>3 DEF Sorted

(* A chunk goes from what is left of the snapshot into a Publish.          *)
LEMMA CopyKeeps ==
    ASSUME ReaderInv, CopyChunk, UNCHANGED sourceVars
    PROVE  ReaderInv'
<1>a. PICK t \in Tables : \E S \in SUBSET Uncopied(t) :
        Publish(ChunkEvents(S)) /\ copied' = copied \cup S
  BY DEF CopyChunk
<1>0. PICK S \in SUBSET Uncopied(t) : Publish(ChunkEvents(S)) /\ copied' = copied \cup S
  BY <1>a
<1>1. /\ UNCHANGED <<table, wal, version, log, late, rels, txn, msg, txnBuffer, ackedLSN>>
      /\ UNCHANGED <<slotExists, slotStart, confirmed, snapshot>>
      /\ readerPC = "backfill" /\ readerPC' = "copying"
      /\ unsent' = ChunkEvents(S) /\ failed' = FALSE
  BY <1>0 DEF CopyChunk, Publish, sourceVars, slotVars, streamVars
<1>2. SourceTypeOK /\ LogOK /\ ReaderTypes /\ Positions /\ Idle
  BY DEF ReaderInv, Shape
<1>3. S \in SUBSET Rows /\ \A r \in S : snapshot[r] # Absent /\ r \notin copied
  BY DEF Uncopied
<1>4. /\ Sorted(ChunkEvents(S))
      /\ \A r \in Rows, k \in Parts : InHand(ChunkEvents(S), r, k)
                = IF r \in S THEN Part(snapshot[r], k) ELSE Silent
  BY <1>2, <1>3, ChunkTells DEF ReaderTypes
<1>5. ReaderTypes'
  BY <1>0, <1>1, <1>2, <1>3, <1>4 DEF ReaderTypes, ReaderPCs
<1>6. Positions' /\ Idle'
  BY <1>1, <1>2 DEF Positions, Streaming, Idle
<1>7. SourceTypeOK' /\ LogOK'
  BY <1>1, <1>2 DEF SourceTypeOK, LogOK
<1>8. ASSUME NEW r \in Rows, NEW k \in Parts
      PROVE  Tale(r, k)'
  <2>1. Tale(r, k)
    BY DEF ReaderInv
  <2>2. InHand(unsent, r, k) = Silent /\ Topic(r, k)' = Topic(r, k)
    BY <1>1, <1>2, NoneInHand DEF Idle, Topic, InHand
  <2>3. InHand(unsent, r, k)' = IF r \in S THEN Part(snapshot[r], k) ELSE Silent
    <3>1. InHand(unsent, r, k)' = InHand(ChunkEvents(S), r, k)
      BY <1>1 DEF InHand
    <3> QED
      BY <1>4, <3>1
  <2>4. ToCopy(r, k)' = IF r \in S THEN Silent ELSE ToCopy(r, k)
    BY <1>0, <1>1 DEF ToCopy
  <2>5. r \in S => ToCopy(r, k) = Part(snapshot[r], k)
    BY <1>3 DEF ToCopy
  <2>6. Sending(r, k) = Topic(r, k) /\ Sending(r, k)' = Over(Topic(r, k), InHand(unsent, r, k)')
    BY <2>2 DEF Sending, Over
  <2>7. Over(Sending(r, k)', ToCopy(r, k)') = Over(Sending(r, k), ToCopy(r, k))
    BY <2>3, <2>4, <2>5, <2>6 DEF Over
  <2>8. Backfilling(r, k)'
    BY <1>1, <2>1, <2>7 DEF Tale, Backfilling, InBackfill, Covers, WalTells, Between
  <2>9. Published(r, k)' /\ Committing(r, k)' /\ Buffered(r, k)'
    BY <1>1 DEF Published, Committing, Buffered, InBackfill
  <2>10. WalRest(r, k)'
    BY <1>1, <2>1 DEF Tale, WalRest, WalTells, Between
  <2> QED
    BY <2>8, <2>9, <2>10 DEF Tale
<1> QED
  BY <1>5, <1>6, <1>7, <1>8 DEF ReaderInv, Shape

(* A Publish that is over holds nothing.                                   *)
LEMMA ReturnedEmpty ==
    ASSUME Sorted(unsent), PublishReturned
    PROVE  unsent = NoEvents
BY DEF Sorted, PublishReturned, NoEvents

(* A chunk is in the topic.                                                *)
LEMMA ChunkPublishedKeeps ==
    ASSUME ReaderInv, ChunkPublished, UNCHANGED sourceVars
    PROVE  ReaderInv'
<1>1. /\ UNCHANGED <<table, wal, version, log, unsent, failed, late, rels, txn, msg>>
      /\ UNCHANGED <<txnBuffer, ackedLSN, slotExists, slotStart, confirmed, snapshot, copied>>
      /\ readerPC = "copying" /\ readerPC' = "backfill"
  BY DEF ChunkPublished, sourceVars, sinkVars, streamVars, slotVars, snapshotVars
<1>2. SourceTypeOK /\ LogOK /\ ReaderTypes /\ Positions /\ Idle
  BY DEF ReaderInv, Shape
<1>3. ReaderTypes'
  BY <1>1, <1>2 DEF ReaderTypes, ReaderPCs
<1>4. Positions' /\ Idle'
  <2>1. unsent = NoEvents
    BY <1>2, ReturnedEmpty DEF ChunkPublished, ReaderTypes
  <2> QED
    BY <1>1, <1>2, <2>1 DEF Positions, Streaming, Idle
<1>5. SourceTypeOK' /\ LogOK'
  BY <1>1, <1>2 DEF SourceTypeOK, LogOK
<1>6. ASSUME NEW r \in Rows, NEW k \in Parts
      PROVE  Tale(r, k)'
  <2>1. Tale(r, k)
    BY DEF ReaderInv
  <2> QED
    BY <1>1, <2>1 DEF Tale, WalRest, Backfilling, Published, Committing, Buffered, Covers,
        WalTells, Between, ReadTo, Streaming, InBackfill, Topic, Sending, ToCopy, InHand
<1> QED
  BY <1>3, <1>4, <1>5, <1>6 DEF ReaderInv, Shape

-----------------------------------------------------------------------------
(* The stream.                                                             *)

\* What every step of the stream but a Commit message's leaves alone.
Followed ==
    /\ UNCHANGED <<table, wal, version, log, unsent, failed, late, slotExists, slotStart>>
    /\ UNCHANGED <<confirmed, snapshot, copied, txn, ackedLSN, readerPC>>

(* Between two messages only the buffer matters.                           *)
LEMMA FollowedKeeps ==
    ASSUME ReaderInv, Followed, readerPC = "stream", txn <= Len(wal),
           msg' \in Nat, msg' <= Len(wal[txn]) + 1, Sorted(txnBuffer'),
           \A r \in Rows, k \in Parts : Buffered(r, k)'
    PROVE  ReaderInv'
<1>1. SourceTypeOK /\ LogOK /\ ReaderTypes /\ Positions /\ Idle
  BY DEF ReaderInv, Shape
<1>2. Sorted(txnBuffer)' /\ Sorted(unsent)'
  BY <1>1 DEF Followed, ReaderTypes, Sorted
<1>3. ReaderTypes'
  BY <1>1, <1>2 DEF Followed, ReaderTypes
<1>4. Positions' /\ Idle'
  BY <1>1 DEF Followed, Positions, Streaming, Idle
<1>5. SourceTypeOK' /\ LogOK'
  BY <1>1 DEF Followed, SourceTypeOK, LogOK
<1>6. ASSUME NEW r \in Rows, NEW k \in Parts
      PROVE  Tale(r, k)'
  <2>1. Tale(r, k)
    BY DEF ReaderInv
  <2> QED
    BY <2>1 DEF Followed, Tale, WalRest, Backfilling, Published, Committing, Covers,
        WalTells, Between, ReadTo, Streaming, InBackfill, Topic, Sending, ToCopy, InHand
<1> QED
  BY <1>3, <1>4, <1>5, <1>6 DEF ReaderInv, Shape

(* The walsender is at a transaction of the WAL.                           *)
LEMMA AtTxn ==
    ASSUME ReaderInv, AtMessage
    PROVE  /\ readerPC = "stream" /\ txn \in 1..Len(wal) /\ Len(wal) \in Nat /\ msg \in Nat
           /\ wal[txn] \in Seq(Change) /\ Len(wal[txn]) \in Nat
           /\ Sorted(txnBuffer) /\ SourceTypeOK /\ Len(wal) \in Nat
<1>1. wal \in Seq(Seq(Change)) /\ Len(wal) \in Nat
  BY LenProperties DEF ReaderInv, Shape, SourceTypeOK
<1>2. txn \in 1..Len(wal) /\ readerPC = "stream"
  BY <1>1 DEF ReaderInv, Shape, Positions, Streaming, ReaderTypes, AtMessage
<1>3. wal[txn] \in Seq(Change)
  BY <1>1, <1>2, ElementOfSeq
<1> QED
  BY <1>1, <1>2, <1>3, LenProperties DEF ReaderInv, Shape, ReaderTypes

(* The Begin message: an empty buffer, and nothing of the transaction yet. *)
LEMMA BeginKeeps ==
    ASSUME ReaderInv, HandleBegin, UNCHANGED sourceVars
    PROVE  ReaderInv'
<1>1. AtMessage /\ Followed /\ msg' = 1 /\ txnBuffer' = NoEvents
  BY DEF HandleBegin, Followed, sourceVars, sinkVars, slotVars, snapshotVars
<1>2. /\ readerPC = "stream" /\ txn <= Len(wal) /\ msg' \in Nat /\ msg' <= Len(wal[txn]) + 1
      /\ Sorted(txnBuffer')
  BY <1>1, AtTxn, NoneInHand
<1>3. ASSUME NEW r \in Rows, NEW k \in Parts
      PROVE  Buffered(r, k)'
  <2>1. SubSeq(wal[txn], 1, msg' - 1) = <<>>
    <3>1. msg' - 1 = 0 /\ 1 \in Int /\ 0 \in Int
      BY <1>1
    <3> QED
      BY <3>1, SubSeqEmpty
  <2>2. TxnTells(SubSeq(wal[txn], 1, msg' - 1), r, k) = Silent
    BY <2>1, TxnEventsSteps, TellsSteps DEF TxnTells
  <2>3. InHand(txnBuffer, r, k)' = Silent
    <3>1. InHand(txnBuffer, r, k)' = InHand(NoEvents, r, k)
      BY <1>1 DEF InHand
    <3> QED
      BY <3>1, NoneInHand
  <2> QED
    BY <1>1, <2>2, <2>3 DEF Buffered, Followed
<1> QED
  BY <1>1, <1>2, <1>3, FollowedKeeps

(* A Relation message.                                                     *)
LEMMA RelationKeeps ==
    ASSUME ReaderInv, HandleRelation, UNCHANGED sourceVars
    PROVE  ReaderInv'
<1>1. AtMessage /\ Followed /\ msg' = msg /\ txnBuffer' = txnBuffer /\ msg \in 1..Len(wal[txn])
  BY DEF HandleRelation, AtChange, Followed, sourceVars, sinkVars, slotVars, snapshotVars
<1>2. /\ readerPC = "stream" /\ txn <= Len(wal) /\ msg' \in Nat /\ msg' <= Len(wal[txn]) + 1
      /\ Sorted(txnBuffer')
  BY <1>1, AtTxn
<1>3. ASSUME NEW r \in Rows, NEW k \in Parts
      PROVE  Buffered(r, k)'
  <2>1. Buffered(r, k)
    BY DEF ReaderInv, Tale
  <2> QED
    BY <1>1, <2>1 DEF Buffered, Followed, InHand
<1> QED
  BY <1>1, <1>2, <1>3, FollowedKeeps

\* The buffer takes the events of a change.
BufferTakes(ch) ==
    /\ Sorted(txnBuffer')
    /\ \A r \in Rows, k \in Parts :
        InHand(txnBuffer', r, k) = Over(InHand(txnBuffer, r, k), Tells(EventsOf(ch), r, k))

(* Each of the row messages puts the events of its change in the buffer.   *)
LEMMA RowBuffered ==
    ASSUME Sorted(txnBuffer), CurrentChange \in Change,
           HandleInsert \/ HandleUpdate \/ HandleDelete \/ HandleTruncate
    PROVE  BufferTakes(CurrentChange)
<1> DEFINE ch == CurrentChange
<1>1. ch \in Change /\ ch.row \in Rows /\ ch.to \in Rows /\ ch.tuple \in Tuple
  BY DEF Change
<1>2. /\ \A op \in Ops, row \in Rows : buildChangeEvent(op, row, ch.tuple) \in Built
      /\ \A row \in Rows : buildDeleteEvent(row) \in Built
  BY <1>1, DecoderWellFormed DEF Built, WellFormed
<1>3. CASE HandleInsert
  <2> DEFINE evt == buildChangeEvent("c", ch.row, ch.tuple)
  <2>1. evt \in Built /\ EventsOf(ch) = <<evt>> /\ txnBuffer' = Put(txnBuffer, evt)
    BY <1>1, <1>2, <1>3 DEF HandleInsert, HandleRow, EventsOf, Ops
  <2> HIDE DEF evt
  <2> QED
    BY <2>1, PutTells, TellsOne DEF BufferTakes
<1>4. CASE HandleUpdate /\ ch.row = ch.to
  <2> DEFINE evt == buildChangeEvent("u", ch.to, ch.tuple)
  <2>1. evt \in Built /\ EventsOf(ch) = <<evt>> /\ txnBuffer' = Put(txnBuffer, evt)
    BY <1>1, <1>2, <1>4 DEF HandleUpdate, HandleRow, EventsOf, Ops, UpdateEvents, oldKeyIfChanged
  <2> HIDE DEF evt
  <2> QED
    BY <2>1, PutTells, TellsOne DEF BufferTakes
<1>5. CASE HandleUpdate /\ ch.row # ch.to
  <2> DEFINE del == buildDeleteEvent(ch.row)
             evt == buildChangeEvent("c", ch.to, ch.tuple)
  <2>1. /\ del \in Built /\ evt \in Built /\ EventsOf(ch) = <<del, evt>>
        /\ txnBuffer' = Put(Put(txnBuffer, del), evt)
    <3>1. [buildChangeEvent("u", ch.to, ch.tuple) EXCEPT !.op = "c"] = evt
      BY DEF buildChangeEvent
    <3> QED
      BY <1>1, <1>2, <1>5, <3>1 DEF HandleUpdate, HandleRow, EventsOf, Ops, UpdateEvents,
            oldKeyIfChanged, RekeyEvents
  <2> HIDE DEF del, evt
  <2>2. Sorted(Put(txnBuffer, del)) /\ Sorted(Put(Put(txnBuffer, del), evt))
    BY <2>1, PutTells
  <2>3. ASSUME NEW r \in Rows, NEW k \in Parts
        PROVE  InHand(txnBuffer', r, k) = Over(InHand(txnBuffer, r, k), Tells(EventsOf(ch), r, k))
    <3>1. InHand(txnBuffer', r, k) = Over(Over(InHand(txnBuffer, r, k), Says(del, r, k)), Says(evt, r, k))
      BY <2>1, <2>2, PutTells
    <3>2. Tells(<<del, evt>>, r, k) = Over(Says(del, r, k), Says(evt, r, k))
      BY <2>1, TellsTwo
    <3> QED
      BY <2>1, <3>1, <3>2 DEF Over
  <2> QED
    BY <2>1, <2>2, <2>3 DEF BufferTakes
<1>6. CASE HandleDelete
  <2> DEFINE evt == buildDeleteEvent(ch.row)
  <2>1. evt \in Built /\ EventsOf(ch) = <<evt>> /\ txnBuffer' = Put(txnBuffer, evt)
    BY <1>1, <1>2, <1>6 DEF HandleDelete, HandleRow, EventsOf
  <2> HIDE DEF evt
  <2> QED
    BY <2>1, PutTells, TellsOne DEF BufferTakes
<1>7. CASE HandleTruncate
  <2>1. EventsOf(ch) = <<>> /\ txnBuffer' = txnBuffer
    BY <1>7 DEF HandleTruncate, HandleRow, EventsOf
  <2> QED
    BY <2>1, TellsSteps DEF BufferTakes, Over
<1> QED
  BY <1>3, <1>4, <1>5, <1>6, <1>7

(* A row message.                                                          *)
LEMMA RowKeeps ==
    ASSUME ReaderInv, HandleInsert \/ HandleUpdate \/ HandleDelete \/ HandleTruncate,
           UNCHANGED sourceVars
    PROVE  ReaderInv'
<1>1. AtMessage /\ Followed /\ msg' = msg + 1 /\ msg \in 1..Len(wal[txn])
  BY DEF HandleInsert, HandleUpdate, HandleDelete, HandleTruncate, HandleRow, AtChange, Followed,
         sourceVars, sinkVars, slotVars, snapshotVars
<1>2. /\ readerPC = "stream" /\ txn \in 1..Len(wal) /\ txn <= Len(wal)
      /\ msg \in Nat /\ msg' \in Nat /\ msg' <= Len(wal[txn]) + 1
      /\ Sorted(txnBuffer) /\ wal[txn] \in Seq(Change) /\ Len(wal[txn]) \in Nat
  BY <1>1, AtTxn
<1>3. CurrentChange \in Change /\ CurrentChange = wal[txn][msg]
  BY <1>1, <1>2, ElementOfSeq DEF CurrentChange
<1>4. BufferTakes(CurrentChange)
  BY <1>2, <1>3, RowBuffered
<1>5. ASSUME NEW r \in Rows, NEW k \in Parts
      PROVE  Buffered(r, k)'
  <2> DEFINE s == wal[txn]
             a == SubSeq(s, 1, msg - 1)
             ch == CurrentChange
  <2>1. s \in Seq(Change) /\ msg \in 1..Len(s) /\ ch = s[msg] /\ ch \in Change /\ Len(s) \in Nat
    BY <1>1, <1>2, <1>3
  <2> HIDE DEF s, ch
  <2>2. a \in Seq(Change)
    <3>1. \A i \in 1..(msg - 1) : s[i] \in Change
      BY <2>1, ElementOfSeq
    <3>2. 1 \in Int /\ msg - 1 \in Int
      BY <2>1
    <3> QED
      BY <3>1, <3>2, SubSeqProperties
  <2>3. SubSeq(s, 1, msg) = Append(a, ch)
    <3>1. 1 \in 1..Len(s) /\ msg \in 1..Len(s)
      BY <2>1
    <3>2. SubSeq(s, 1, msg) = a \o <<s[msg]>>
      BY <2>1, <3>1, SubSeqRecursiveSecond
    <3> HIDE DEF a
    <3> QED
      BY <2>1, <2>2, <3>2, AppendIsConcat
  <2> HIDE DEF a
  <2>4. TxnTells(Append(a, ch), r, k) = Over(TxnTells(a, r, k), Tells(EventsOf(ch), r, k))
    <3>1. TxnEvents(Append(a, ch)) = TxnEvents(a) \o EventsOf(ch) /\ TxnEvents(a) \in Seq(Built)
      BY <2>1, <2>2, TxnEventsSteps
    <3>2. EventsOf(ch) \in Seq(Built)
      BY <2>1, EventsOfType
    <3> QED
      BY <3>1, <3>2, TellsConcat DEF Overrules, TxnTells
  <2>5. InHand(txnBuffer, r, k) = TxnTells(a, r, k)
    <3>1. Buffered(r, k)
      BY DEF ReaderInv, Tale
    <3> QED
      BY <1>2, <2>1, <3>1 DEF Buffered, a, s
  <2>6. InHand(txnBuffer', r, k) = TxnTells(SubSeq(s, 1, msg), r, k)
    BY <1>4, <2>3, <2>4, <2>5 DEF BufferTakes, ch
  <2>7. wal'[txn'] = s /\ msg' - 1 = msg
    BY <1>1, <1>2 DEF Followed, s
  <2> QED
    BY <2>6, <2>7 DEF Buffered, InHand
<1> QED
  BY <1>1, <1>2, <1>4, <1>5, FollowedKeeps DEF BufferTakes

(* At the Commit message the buffer tells what the transaction does.       *)
LEMMA WholeTxn ==
    ASSUME ReaderInv, AtCommit
    PROVE  /\ AtMessage
           /\ \A r \in Rows, k \in Parts : InHand(txnBuffer, r, k) = TxnTells(wal[txn], r, k)
<1>1. AtMessage /\ msg = Len(wal[txn]) + 1
  BY DEF AtCommit
<1>2. /\ readerPC = "stream" /\ wal[txn] \in Seq(Change) /\ Len(wal[txn]) \in Nat
  BY <1>1, AtTxn
<1>3. SubSeq(wal[txn], 1, msg - 1) = wal[txn] /\ msg # 0
  <2>1. msg - 1 = Len(wal[txn]) /\ msg # 0
    BY <1>1, <1>2
  <2> QED
    BY <1>2, <2>1, SubSeqFull
<1>4. ASSUME NEW r \in Rows, NEW k \in Parts
      PROVE  InHand(txnBuffer, r, k) = TxnTells(wal[txn], r, k)
  <2>1. Buffered(r, k)
    BY DEF ReaderInv, Tale
  <2> QED
    BY <1>2, <1>3, <2>1 DEF Buffered
<1> QED
  BY <1>1, <1>4

(* The Commit message: the transaction is in hand.                         *)
LEMMA CommitKeepsReader ==
    ASSUME ReaderInv, HandleCommit, UNCHANGED sourceVars
    PROVE  ReaderInv'
<1>1. /\ UNCHANGED <<table, wal, version, log, late, slotExists, slotStart, confirmed>>
      /\ UNCHANGED <<snapshot, copied, rels, txn, msg, txnBuffer, ackedLSN>>
      /\ readerPC = "stream" /\ readerPC' = "committing" /\ AtMessage /\ AtCommit
      /\ unsent' = Stamped(txnBuffer, txn) /\ failed' = FALSE
  BY DEF HandleCommit, AtCommit, AtMessage, Publish, sourceVars, slotVars, snapshotVars, streamVars
<1>2. SourceTypeOK /\ LogOK /\ ReaderTypes /\ Positions /\ Idle
  BY DEF ReaderInv, Shape
<1>3. txn \in 1..Len(wal) /\ Sorted(txnBuffer) /\ txn \in Nat /\ Len(wal) \in Nat
  BY <1>1, <1>2, AtTxn DEF ReaderTypes
<1>4. /\ Sorted(unsent')
      /\ \A r \in Rows, k \in Parts : InHand(unsent', r, k) = TxnTells(wal[txn], r, k)
  BY <1>1, <1>3, StampedTells, WholeTxn
<1>5. ReaderTypes'
  BY <1>1, <1>2, <1>4 DEF ReaderTypes, ReaderPCs
<1>6. Positions' /\ Idle'
  BY <1>1, <1>2, <1>3 DEF Positions, Streaming, Idle
<1>7. SourceTypeOK' /\ LogOK'
  BY <1>1, <1>2 DEF SourceTypeOK, LogOK
<1>8. ASSUME NEW r \in Rows, NEW k \in Parts
      PROVE  Tale(r, k)'
  <2>1. Tale(r, k)
    BY DEF ReaderInv
  <2> DEFINE t == TxnTells(wal[txn], r, k)
             w == WalTells(txn, r, k)
             before == WalTells(txn - 1, r, k)
  <2>2. t \in Said /\ before = Over(t, w)
    BY <1>2, <1>3, WalNext
  <2>3. before \in {Silent, Part(table[r], k)}
    <3>1. txn - 1 \in 0..Len(wal)
      BY <1>3
    <3> QED
      BY <1>2, <2>1, <3>1, WalAnywhere DEF Tale
  <2>4. Covers(before, Topic(r, k), table[r], k)
    <3>1. ReadTo = txn - 1 /\ slotExists /\ ~InBackfill
      BY <1>1, <1>2 DEF ReadTo, Streaming, InBackfill, Positions
    <3> QED
      BY <2>1, <3>1 DEF Tale, Published
  <2>5. InHand(unsent, r, k)' = t /\ Topic(r, k)' = Topic(r, k) /\ Sending(r, k)' = Over(Topic(r, k), t)
    BY <1>1, <1>4 DEF InHand, Topic, Sending
  <2> HIDE DEF t, w, before
  <2>6. Covers(w, Over(Topic(r, k), t), table[r], k)
    BY <2>2, <2>3, <2>4 DEF Covers, Over
  <2>7. t # Silent => before # Silent
    BY <2>2 DEF Over
  <2>8. Committing(r, k)'
    BY <1>1, <2>5, <2>6, <2>7 DEF Committing, w, before, WalTells, Between
  <2>9. Published(r, k)'
    <3>1. ReadTo' = txn - 1
      BY <1>1 DEF ReadTo, Streaming
    <3> QED
      BY <1>1, <2>4, <2>5, <3>1 DEF Published, before, WalTells, Between
  <2>10. Backfilling(r, k)' /\ Buffered(r, k)'
    BY <1>1 DEF Backfilling, Buffered, InBackfill
  <2>11. WalRest(r, k)'
    BY <1>1, <2>1 DEF Tale, WalRest, WalTells, Between
  <2> QED
    BY <2>8, <2>9, <2>10, <2>11 DEF Tale
<1> QED
  BY <1>5, <1>6, <1>7, <1>8 DEF ReaderInv, Shape

\* What the two ways to get behind a transaction have in common.
Acknowledged ==
    /\ UNCHANGED <<table, wal, version, log, unsent, failed, late, slotExists, slotStart>>
    /\ UNCHANGED <<confirmed, snapshot, copied>>
    /\ txn \in 1..Len(wal) /\ Streaming /\ unsent = NoEvents
    /\ readerPC' = "stream" /\ Acknowledge
    /\ \A r \in Rows, k \in Parts : Covers(WalTells(txn, r, k), Topic(r, k), table[r], k)

(* A transaction is over when the topic tells what it does.                *)
LEMMA AcknowledgedKeeps ==
    ASSUME ReaderInv, Acknowledged
    PROVE  ReaderInv'
<1>1. SourceTypeOK /\ LogOK /\ ReaderTypes /\ Positions /\ Idle /\ Len(wal) \in Nat
  BY LenProperties DEF ReaderInv, Shape, SourceTypeOK
<1>2. ackedLSN' = txn /\ txn' = txn + 1 /\ msg' = 0 /\ txnBuffer' = NoEvents /\ txn \in Nat
  BY <1>1 DEF Acknowledged, Acknowledge, ReaderTypes
<1>3. ReaderTypes'
  <2>1. Sorted(txnBuffer)' /\ Sorted(unsent)'
    BY <1>1, <1>2, NoneInHand DEF Acknowledged, Sorted, ReaderTypes
  <2> QED
    BY <1>1, <1>2, <2>1 DEF Acknowledged, ReaderTypes, ReaderPCs
<1>4. Positions' /\ Idle'
  BY <1>1, <1>2 DEF Acknowledged, Positions, Streaming, Idle, ReaderTypes
<1>5. SourceTypeOK' /\ LogOK'
  BY <1>1 DEF Acknowledged, SourceTypeOK, LogOK
<1>6. ASSUME NEW r \in Rows, NEW k \in Parts
      PROVE  Tale(r, k)'
  <2>1. ReadTo' = txn
    BY <1>2 DEF Acknowledged, ReadTo, Streaming
  <2>2. Published(r, k)'
    BY <2>1 DEF Acknowledged, Published, WalTells, Between, Topic, InHand
  <2>3. Backfilling(r, k)' /\ Buffered(r, k)' /\ Committing(r, k)'
    BY <1>2 DEF Acknowledged, Backfilling, Buffered, Committing, InBackfill
  <2>4. WalRest(r, k)'
    <3>1. WalRest(r, k)
      BY DEF ReaderInv, Tale
    <3> QED
      BY <3>1 DEF Acknowledged, WalRest, WalTells, Between
  <2> QED
    BY <2>2, <2>3, <2>4 DEF Tale
<1> QED
  BY <1>3, <1>4, <1>5, <1>6 DEF ReaderInv, Shape

(* A transaction without an event: it tells nothing.                       *)
LEMMA EmptyCommitKeeps ==
    ASSUME ReaderInv, HandleEmptyCommit, UNCHANGED sourceVars
    PROVE  ReaderInv'
<1>1. /\ UNCHANGED <<table, wal, version, log, unsent, failed, late, slotExists, slotStart>>
      /\ UNCHANGED <<confirmed, snapshot, copied, readerPC>>
      /\ AtCommit /\ AtMessage /\ readerPC = "stream" /\ txnBuffer = NoEvents /\ Acknowledge
  BY DEF HandleEmptyCommit, AtCommit, AtMessage, sourceVars, sinkVars, slotVars, snapshotVars
<1>2. SourceTypeOK /\ LogOK /\ ReaderTypes /\ Positions /\ Idle
  BY DEF ReaderInv, Shape
<1>3. txn \in 1..Len(wal) /\ txn \in Nat /\ Len(wal) \in Nat
  BY <1>1, <1>2, AtTxn DEF ReaderTypes
<1>4. ASSUME NEW r \in Rows, NEW k \in Parts
      PROVE  Covers(WalTells(txn, r, k), Topic(r, k), table[r], k)
  <2>1. TxnTells(wal[txn], r, k) = Silent
    BY <1>1, WholeTxn, NoneInHand
  <2>2. WalTells(txn - 1, r, k) = Over(TxnTells(wal[txn], r, k), WalTells(txn, r, k))
    BY <1>2, <1>3, WalNext
  <2>3. Covers(WalTells(txn - 1, r, k), Topic(r, k), table[r], k)
    <3>1. ReadTo = txn - 1 /\ slotExists /\ ~InBackfill /\ Tale(r, k)
      BY <1>1, <1>2 DEF ReadTo, Streaming, InBackfill, Positions, ReaderInv
    <3> QED
      BY <3>1 DEF Tale, Published
  <2> QED
    BY <2>1, <2>2, <2>3 DEF Covers, Over
<1>5. Acknowledged
  BY <1>1, <1>2, <1>3, <1>4 DEF Acknowledged, Streaming, Idle
<1> QED
  BY <1>5, AcknowledgedKeeps

(* A transaction that is not streamed: there is nothing in it to tell.     *)
LEMMA KeepaliveKeeps ==
    ASSUME ReaderInv, HandleKeepalive, UNCHANGED sourceVars
    PROVE  ReaderInv'
<1>1. /\ UNCHANGED <<table, wal, version, log, unsent, failed, late, slotExists, slotStart>>
      /\ UNCHANGED <<confirmed, snapshot, copied, readerPC, msg, txnBuffer, ackedLSN>>
      /\ readerPC = "stream" /\ txn <= Len(wal) /\ wal[txn] = <<>> /\ msg = 0 /\ txn' = txn + 1
  BY DEF HandleKeepalive, Streamed, sourceVars, sinkVars, slotVars, snapshotVars
<1>2. SourceTypeOK /\ LogOK /\ ReaderTypes /\ Positions /\ Idle /\ Len(wal) \in Nat
  BY LenProperties DEF ReaderInv, Shape, SourceTypeOK
<1>3. txn \in 1..Len(wal) /\ txn \in Nat
  BY <1>1, <1>2 DEF Positions, Streaming, ReaderTypes
<1>4. SourceTypeOK' /\ LogOK' /\ ReaderTypes'
  BY <1>1, <1>2, <1>3 DEF SourceTypeOK, LogOK, ReaderTypes
<1>5. Positions' /\ Idle'
  BY <1>1, <1>2, <1>3 DEF Positions, Streaming, Idle, ReaderTypes
<1>6. ASSUME NEW r \in Rows, NEW k \in Parts
      PROVE  Tale(r, k)'
  <2>1. TxnTells(wal[txn], r, k) = Silent
    BY <1>1, TxnEventsSteps, TellsSteps DEF TxnTells
  <2>2. WalTells(txn - 1, r, k) = WalTells(txn, r, k)
    BY <1>2, <1>3, <2>1, WalNext DEF Over
  <2>3. Tale(r, k)
    BY DEF ReaderInv
  <2>4. ReadTo = txn - 1 /\ ReadTo' = txn
    BY <1>1, <1>3 DEF ReadTo, Streaming
  <2>5. Published(r, k)'
    BY <1>1, <2>2, <2>3, <2>4 DEF Tale, Published, InBackfill, WalTells, Between, Topic, InHand
  <2>6. Backfilling(r, k)' /\ Buffered(r, k)' /\ Committing(r, k)'
    BY <1>1 DEF Backfilling, Buffered, Committing, InBackfill
  <2>7. WalRest(r, k)'
    BY <1>1, <2>3 DEF Tale, WalRest, WalTells, Between
  <2> QED
    BY <2>5, <2>6, <2>7 DEF Tale
<1> QED
  BY <1>4, <1>5, <1>6 DEF ReaderInv, Shape

(* A transaction is in the topic.                                          *)
LEMMA TxnPublishedKeeps ==
    ASSUME ReaderInv, TxnPublished, UNCHANGED sourceVars
    PROVE  ReaderInv'
<1>1. /\ UNCHANGED <<table, wal, version, log, unsent, failed, late, slotExists, slotStart>>
      /\ UNCHANGED <<confirmed, snapshot, copied>>
      /\ readerPC = "committing" /\ readerPC' = "stream" /\ PublishReturned /\ ~failed /\ Acknowledge
  BY DEF TxnPublished, sourceVars, sinkVars, slotVars, snapshotVars
<1>2. SourceTypeOK /\ LogOK /\ ReaderTypes /\ Positions /\ Idle /\ Len(wal) \in Nat
  BY LenProperties DEF ReaderInv, Shape, SourceTypeOK
<1>3. txn \in 1..Len(wal)
  BY <1>1, <1>2 DEF Positions, Streaming, ReaderTypes
<1>4. unsent = NoEvents
  BY <1>1, <1>2, ReturnedEmpty DEF ReaderTypes
<1>5. ASSUME NEW r \in Rows, NEW k \in Parts
      PROVE  Covers(WalTells(txn, r, k), Topic(r, k), table[r], k)
  <2>1. Committing(r, k)
    BY DEF ReaderInv, Tale
  <2>2. Covers(WalTells(txn, r, k), Sending(r, k), table[r], k)
    BY <1>1, <2>1 DEF Committing
  <2>3. Sending(r, k) = Topic(r, k)
    BY <1>4, NoneInHand DEF Sending, Over
  <2> QED
    BY <2>2, <2>3
<1>6. Acknowledged
  BY <1>1, <1>3, <1>4, <1>5 DEF Acknowledged, Streaming
<1> QED
  BY <1>6, AcknowledgedKeeps

(* A standby update: the slot catches up with the topic.                   *)
LEMMA StandbyKeeps ==
    ASSUME ReaderInv, sendStandbyUpdate, UNCHANGED sourceVars
    PROVE  ReaderInv'
<1>1. /\ UNCHANGED <<table, wal, version, log, unsent, failed, late, slotExists, slotStart>>
      /\ UNCHANGED <<snapshot, copied, readerPC, txn, msg, txnBuffer, ackedLSN>>
      /\ readerPC = "stream" /\ ackedLSN # 0 /\ confirmed' = ackedLSN
  BY DEF sendStandbyUpdate, sourceVars, sinkVars, snapshotVars, streamVars
<1>2. SourceTypeOK /\ LogOK /\ ReaderTypes /\ Positions /\ Idle /\ Len(wal) \in Nat
  BY LenProperties DEF ReaderInv, Shape, SourceTypeOK
<1>3. ReaderTypes'
  BY <1>1, <1>2 DEF ReaderTypes
<1>4. Positions' /\ Idle'
  BY <1>1, <1>2 DEF Positions, Streaming, Idle, ReaderTypes
<1>5. SourceTypeOK' /\ LogOK'
  BY <1>1, <1>2 DEF SourceTypeOK, LogOK
<1>6. ASSUME NEW r \in Rows, NEW k \in Parts
      PROVE  Tale(r, k)'
  <2>1. Tale(r, k)
    BY DEF ReaderInv
  <2> QED
    BY <1>1, <2>1 DEF Tale, WalRest, Backfilling, Published, Committing, Buffered, Covers,
        WalTells, Between, ReadTo, Streaming, InBackfill, Topic, Sending, ToCopy, InHand
<1> QED
  BY <1>3, <1>4, <1>5, <1>6 DEF ReaderInv, Shape

-----------------------------------------------------------------------------
(* Dying, and the Publish in progress.                                     *)

\* The process is gone, and not out of a backfill.
Died ==
    /\ UNCHANGED <<table, wal, version>>
    /\ Exit /\ slotExists /\ ~InBackfill
    /\ confirmed' \in slotStart..confirmed

(* What the slot has confirmed, and more, is in the topic.                 *)
LEMMA DiedKeeps ==
    ASSUME ReaderInv, Died
    PROVE  ReaderInv'
<1>1. /\ UNCHANGED <<table, wal, version, log, late, slotExists, slotStart>>
      /\ readerPC' = "down" /\ snapshot' = NoRows /\ copied' = {} /\ txn' = 0 /\ msg' = 0
      /\ txnBuffer' = NoEvents /\ ackedLSN' = 0 /\ unsent' = NoEvents /\ failed' = FALSE
      /\ slotExists /\ ~InBackfill /\ confirmed' \in slotStart..confirmed
  BY DEF Died, Exit, SinkLost
<1>2. SourceTypeOK /\ LogOK /\ ReaderTypes /\ Positions /\ Idle /\ Len(wal) \in Nat
  BY LenProperties DEF ReaderInv, Shape, SourceTypeOK
<1>3. confirmed' \in Nat /\ slotStart <= confirmed' /\ confirmed' <= confirmed
  BY <1>1, <1>2 DEF ReaderTypes
<1>4. ReaderTypes'
  <2>1. NoRows \in Contents
    BY DEF NoRows, Contents
  <2>2. Sorted(unsent)' /\ Sorted(txnBuffer)'
    BY <1>1, NoneInHand DEF Sorted
  <2> QED
    BY <1>1, <1>2, <1>3, <2>1, <2>2 DEF ReaderTypes, ReaderPCs
<1>5. Positions' /\ Idle'
  BY <1>1, <1>2, <1>3 DEF Positions, Streaming, Idle, ReaderTypes
<1>6. SourceTypeOK' /\ LogOK'
  BY <1>1, <1>2 DEF SourceTypeOK, LogOK
<1>7. ASSUME NEW r \in Rows, NEW k \in Parts
      PROVE  Tale(r, k)'
  <2>1. Tale(r, k)
    BY DEF ReaderInv
  <2>2. ReadTo \in 0..Len(wal) /\ confirmed' \in 0..ReadTo
    BY <1>2, <1>3 DEF ReadTo, Positions, ReaderTypes
  <2>3. Covers(WalTells(ReadTo, r, k), Topic(r, k), table[r], k)
    BY <1>1, <2>1 DEF Tale, Published
  <2>4. PICK m \in 0..ReadTo : m = confirmed'
    BY <2>2
  <2>5. PICK n \in 0..Len(wal) : n = ReadTo
    BY <2>2
  <2>6. WalTells(m, r, k) = Silent => WalTells(n, r, k) = Silent
    BY <1>2, <2>1, <2>4, <2>5, WalAnywhere DEF Tale
  <2>7. Covers(WalTells(m, r, k), Topic(r, k), table[r], k)
    BY <2>3, <2>5, <2>6 DEF Covers
  <2>8. Published(r, k)'
    <3>1. ReadTo' = m
      BY <1>1, <2>4 DEF ReadTo, Streaming
    <3> QED
      BY <1>1, <2>7, <3>1 DEF Published, WalTells, Between, Topic, InHand
  <2>9. Backfilling(r, k)' /\ Committing(r, k)' /\ Buffered(r, k)'
    BY <1>1 DEF Backfilling, Committing, Buffered, InBackfill
  <2>10. WalRest(r, k)'
    BY <1>1, <2>1 DEF Tale, WalRest, WalTells, Between
  <2> QED
    BY <2>8, <2>9, <2>10 DEF Tale
<1> QED
  BY <1>4, <1>5, <1>6, <1>7 DEF ReaderInv, Shape

(* Every way to die that the faults leave open.                            *)
LEMMA ExitKeeps ==
    ASSUME "backfillCrash" \notin Faults, ReaderInv,
           PublishError \/ ReaderCrash \/ SourceRestart, UNCHANGED sourceVars
    PROVE  ReaderInv'
<1>1. ReaderTypes /\ Positions /\ Idle /\ UNCHANGED <<table, wal, version>>
  BY DEF ReaderInv, Shape, sourceVars
<1>2. confirmed \in slotStart..confirmed
  BY <1>1 DEF Positions, ReaderTypes
<1>3. CASE PublishError
  <2>1. readerPC = "committing"
    BY <1>1, <1>3 DEF PublishError, Idle
  <2> QED
    BY <1>1, <1>2, <1>3, <2>1, DiedKeeps DEF PublishError, Died, Positions, InBackfill
<1>4. CASE ReaderCrash
  <2>1. ~InBackfill
    BY <1>4 DEF ReaderCrash, Fault
  <2> QED
    BY <1>1, <1>2, <1>4, <2>1, DiedKeeps DEF ReaderCrash, Died, Positions
<1>5. CASE SourceRestart
  BY <1>1, <1>5, DiedKeeps DEF SourceRestart, Died, MayDieHere
<1> QED
  BY <1>3, <1>4, <1>5

\* A partition's share, cut where the batch ends.
Cut(p) ==
    /\ Batch(p) \in Seq(Built) /\ Batch(p) \in Seq(ForRows(At(p)))
    /\ BehindBatch(p) \in Seq(Built) /\ BehindBatch(p) \in Seq(ForRows(At(p)))
    /\ unsent[p] = Batch(p) \o BehindBatch(p)

(* The batch and what is behind it make up the share.                      *)
LEMMA BatchCut ==
    ASSUME Sorted(unsent), NEW p \in Partitions
    PROVE  Cut(p)
<1> DEFINE s == unsent[p]
           n == BatchLen(p)
<1>1. s \in Seq(Built) /\ s \in Seq(ForRows(At(p))) /\ Len(s) \in Nat
  BY LenProperties DEF Sorted
<1>2. n \in 0..Len(s) /\ BatchSize \in Nat
  BY <1>1, BatchAssumption DEF BatchLen
<1>3. Batch(p) = SubSeq(s, 1, n) /\ BehindBatch(p) = SubSeq(s, n + 1, Len(s))
  BY DEF Batch, BehindBatch
<1> HIDE DEF s, n
<1>4. ASSUME NEW B, s \in Seq(B)
      PROVE  SubSeq(s, 1, n) \in Seq(B) /\ SubSeq(s, n + 1, Len(s)) \in Seq(B)
  <2>1. /\ \A i \in 1..n : s[i] \in B
        /\ \A i \in (n + 1)..Len(s) : s[i] \in B
        /\ 1 \in Int /\ n \in Int /\ n + 1 \in Int /\ Len(s) \in Int
    BY <1>1, <1>2, <1>4, ElementOfSeq
  <2> QED
    BY <2>1, SubSeqProperties
<1>5. s = SubSeq(s, 1, n) \o SubSeq(s, n + 1, Len(s))
  <2>1. 1 \in 1..(Len(s) + 1) /\ n \in (1 - 1)..Len(s) /\ Len(s) \in n..Len(s)
    BY <1>1, <1>2
  <2>2. SubSeq(s, 1, n) \o SubSeq(s, n + 1, Len(s)) = SubSeq(s, 1, Len(s))
    BY <1>1, <2>1, ConcatAdjacentSubSeq
  <2> QED
    BY <1>1, <2>2, SubSeqFull
<1> QED
  BY <1>1, <1>3, <1>4, <1>5 DEF Cut, s

\* The batch of p reaches the topic, or leaves the Publish, or both.
Stores(p) == log' = [log EXCEPT ![p] = @ \o Batch(p)]
Drops(p) == unsent' = [unsent EXCEPT ![p] = BehindBatch(p)]

(* The topic, with the batch or without it.                                *)
LEMMA StoredTells ==
    ASSUME Sorted(log), Sorted(unsent), NEW p \in Partitions, NEW r \in Rows, NEW k \in Parts
    PROVE  \E b \in Said, rest \in Said :
            /\ InHand(unsent, r, k) = Over(b, rest)
            /\ Stores(p) => InHand(log', r, k) = Over(InHand(log, r, k), b)
            /\ Drops(p) => InHand(unsent', r, k) = rest
<1>1. Cut(p)
  BY BatchCut
<1>2. PartitionOf[r] \in Partitions
  BY ShapeAssumption
<1>3. CASE PartitionOf[r] = p
  <2> DEFINE b == Tells(Batch(p), r, k)
             rest == Tells(BehindBatch(p), r, k)
  <2>1. b \in Said /\ rest \in Said
    BY <1>1, TellsSteps DEF Cut
  <2>2. InHand(unsent, r, k) = Over(b, rest)
    <3>1. Overrules(Batch(p), BehindBatch(p), r, k) /\ unsent[p] = Batch(p) \o BehindBatch(p)
      BY <1>1, TellsConcat DEF Cut
    <3> QED
      BY <1>3, <3>1 DEF Overrules, InHand
  <2>3. Stores(p) => InHand(log', r, k) = Over(InHand(log, r, k), b)
    BY <1>1, <1>3, TellsConcat DEF Cut, Overrules, InHand, Stores, Sorted
  <2>4. Drops(p) => InHand(unsent', r, k) = rest
    BY <1>3 DEF InHand, Drops, Sorted
  <2> QED
    BY <2>1, <2>2, <2>3, <2>4
<1>4. CASE PartitionOf[r] # p
  <2> DEFINE b == Silent
             rest == InHand(unsent, r, k)
  <2>1. b \in Said /\ rest \in Said
    BY InHandType DEF Said
  <2>2. InHand(unsent, r, k) = Over(b, rest)
    BY DEF Over
  <2>3. Stores(p) => InHand(log', r, k) = Over(InHand(log, r, k), b)
    BY <1>2, <1>4 DEF InHand, Stores, Sorted, Over
  <2>4. Drops(p) => InHand(unsent', r, k) = rest
    BY <1>2, <1>4 DEF InHand, Drops, Sorted
  <2> QED
    BY <2>1, <2>2, <2>3, <2>4
<1> QED
  BY <1>3, <1>4

(* A batch is stored, or dropped, or both: a Publish that has not failed   *)
(* goes on telling what it was to tell, and before the transaction is told *)
(* in full the WAL will tell it again.                                     *)
LEMMA PublishKeeps ==
    ASSUME "lateStore" \notin Faults, "backfillCrash" \notin Faults,
           ReaderInv, PublishStep, UNCHANGED sourceVars
    PROVE  ReaderInv'
<1>1. /\ UNCHANGED <<table, wal, version, readerPC, slotExists, slotStart, confirmed>>
      /\ UNCHANGED <<snapshot, copied, rels, txn, msg, txnBuffer, ackedLSN>>
      /\ readerPC \in {"copying", "committing"}
      /\ failed' => ~InBackfill
  BY DEF PublishStep, MayDieHere, sourceVars, readerVars, slotVars, snapshotVars, streamVars
<1>2. /\ SourceTypeOK /\ LogOK /\ ReaderTypes /\ Positions /\ Idle
      /\ Sorted(log) /\ Sorted(unsent)
  BY DEF ReaderInv, Shape, ReaderTypes, LogOK, Sorted
<1>3. PICK p \in Partitions : BatchAcked(p) \/ AckLost(p) \/ BatchGivenUp(p)
  BY DEF PublishStep, SinkStep, SendTimesOut, Fault
<1>4. /\ late' = late
      /\ \/ Stores(p) /\ Drops(p) /\ failed' = failed
         \/ Stores(p) /\ unsent' = unsent /\ failed' = failed
         \/ log' = log /\ Drops(p) /\ failed'
  BY <1>3 DEF BatchAcked, AckLost, BatchGivenUp, Store, BatchDone, Stores, Drops
<1>5. Cut(p)
  BY <1>2, BatchCut
<1>6. Sorted(log)' /\ Sorted(unsent)'
  <2>1. Stores(p) => Sorted(log)'
    <3>1. log[p] \o Batch(p) \in Seq(Built) /\ log[p] \o Batch(p) \in Seq(ForRows(At(p)))
      BY <1>2, <1>5, ConcatProperties DEF Cut, Sorted
    <3> QED
      BY <1>2, <3>1 DEF Stores, Sorted
  <2>2. Drops(p) => Sorted(unsent)'
    BY <1>2, <1>5 DEF Drops, Sorted, Cut
  <2>3. (log' = log => Sorted(log)') /\ (unsent' = unsent => Sorted(unsent)')
    BY <1>2 DEF Sorted
  <2> QED
    BY <1>4, <2>1, <2>2, <2>3
<1>7. LogOK' /\ SourceTypeOK'
  BY <1>1, <1>2, <1>6 DEF LogOK, Sorted, SourceTypeOK
<1>8. ReaderTypes'
  BY <1>1, <1>2, <1>4, <1>6 DEF ReaderTypes, Sorted
<1>9. Positions' /\ Idle'
  BY <1>1, <1>2, <1>4 DEF Positions, Streaming, Idle, InBackfill
<1>10. ASSUME NEW r \in Rows, NEW k \in Parts
       PROVE  Tale(r, k)'
  <2>1. Tale(r, k)
    BY DEF ReaderInv
  <2> DEFINE l == Topic(r, k)
             u == InHand(unsent, r, k)
             l2 == InHand(log', r, k)
             u2 == InHand(unsent', r, k)
  <2>2. PICK b \in Said, rest \in Said :
            /\ u = Over(b, rest)
            /\ Stores(p) => l2 = Over(l, b)
            /\ Drops(p) => u2 = rest
    BY <1>2, StoredTells DEF Topic
  <2>3. (log' = log => l2 = l) /\ (unsent' = unsent => u2 = u)
    BY DEF Topic
  <2>4. Topic(r, k)' = l2 /\ InHand(unsent, r, k)' = u2
    BY DEF Topic, InHand
  <2>5. Sending(r, k) = Over(l, u) /\ Sending(r, k)' = Over(l2, u2)
    BY <2>4 DEF Sending
  <2> HIDE DEF l, u, l2, u2
  <2>6. u2 # Silent => u # Silent
    BY <1>4, <2>2, <2>3 DEF Over
  <2>7. ~failed' => Over(l2, u2) = Over(l, u) /\ ~failed
    BY <1>4, <2>2, <2>3 DEF Over
  <2>8. u = Silent => l2 = l
    BY <1>4, <2>2, <2>3 DEF Over
  <2>9. Backfilling(r, k)'
    <3> SUFFICES ASSUME InBackfill'
                 PROVE  Backfilling(r, k)'
      BY DEF Backfilling
    <3>1. InBackfill /\ ~failed'
      BY <1>1 DEF InBackfill
    <3>2. Covers(WalTells(confirmed, r, k), Over(Over(l, u), ToCopy(r, k)), table[r], k)
      BY <2>1, <2>5, <3>1 DEF Tale, Backfilling
    <3>3. ToCopy(r, k)' = ToCopy(r, k)
      BY <1>1 DEF ToCopy
    <3> QED
      BY <1>1, <2>5, <2>7, <3>1, <3>2, <3>3 DEF Backfilling, WalTells, Between
  <2>10. Committing(r, k)'
    <3> SUFFICES ASSUME readerPC = "committing"
                 PROVE  Committing(r, k)'
      BY <1>1 DEF Committing
    <3>1. /\ ~failed => Covers(WalTells(txn, r, k), Over(l, u), table[r], k)
          /\ u # Silent => WalTells(txn - 1, r, k) # Silent
      BY <2>1, <2>5 DEF Tale, Committing, u
    <3> QED
      BY <1>1, <2>4, <2>5, <2>6, <2>7, <3>1 DEF Committing, WalTells, Between
  <2>11. Published(r, k)'
    <3> SUFFICES ASSUME readerPC = "committing", slotExists
                 PROVE  Published(r, k)'
      BY <1>1 DEF Published, InBackfill
    <3>1. ReadTo = txn - 1 /\ ReadTo' = txn - 1 /\ ~InBackfill
      BY <1>1 DEF ReadTo, Streaming, InBackfill
    <3>2. Covers(WalTells(txn - 1, r, k), l, table[r], k)
      BY <2>1, <3>1 DEF Tale, Published, l
    <3>3. u # Silent => WalTells(txn - 1, r, k) # Silent
      BY <2>1 DEF Tale, Committing, u
    <3>4. Covers(WalTells(txn - 1, r, k), l2, table[r], k)
      BY <2>8, <3>2, <3>3 DEF Covers
    <3> QED
      BY <1>1, <2>4, <3>1, <3>4 DEF Published, WalTells, Between
  <2>12. WalRest(r, k)' /\ Buffered(r, k)'
    BY <1>1, <2>1 DEF Tale, WalRest, WalTells, Between, Buffered
  <2> QED
    BY <2>9, <2>10, <2>11, <2>12 DEF Tale
<1> QED
  BY <1>7, <1>8, <1>9, <1>10 DEF ReaderInv, Shape

(* Every step of the capture half.                                         *)
LEMMA CaptureKeeps ==
    ASSUME "lateStore" \notin Faults, "backfillCrash" \notin Faults,
           ReaderInv, CaptureStep, UNCHANGED sourceVars
    PROVE  ReaderInv'
<1>1. ~LateStep
  BY DEF LateStep, LateStored, ReaderInv, Shape, ReaderTypes, NoEvents
<1>2. CASE CreateSlot \/ FindSlot \/ StartReplication
  BY <1>2, CreateSlotKeeps, FindSlotKeeps, StartKeeps
<1>3. CASE CopyChunk \/ ChunkPublished
  BY <1>3, CopyKeeps, ChunkPublishedKeeps
<1>4. CASE HandleBegin \/ HandleRelation
  BY <1>4, BeginKeeps, RelationKeeps
<1>5. CASE HandleInsert \/ HandleUpdate \/ HandleDelete \/ HandleTruncate
  BY <1>5, RowKeeps
<1>6. CASE HandleCommit \/ HandleEmptyCommit \/ TxnPublished
  BY <1>6, CommitKeepsReader, EmptyCommitKeeps, TxnPublishedKeeps
<1>7. CASE sendStandbyUpdate \/ PublishStep
  BY <1>7, StandbyKeeps, PublishKeeps
<1>8. CASE PublishError \/ ReaderCrash \/ SourceRestart
  BY <1>8, ExitKeeps
<1>9. CASE HandleKeepalive
  BY <1>9, KeepaliveKeeps
<1> QED
  BY <1>1, <1>2, <1>3, <1>4, <1>5, <1>6, <1>7, <1>8, <1>9
     DEF CaptureStep, ReaderStep, ReaderProgress, New, StreamStep

(* The initial states: no slot yet.                                        *)
LEMMA ReaderStarts == Init => ReaderInv
<1> SUFFICES ASSUME Init PROVE ReaderInv
  OBVIOUS
<1>1. SourceTypeOK /\ wal = <<>> /\ Len(wal) = 0
  <2>1. Written(1) \in Image
    BY DEF Written, Image
  <2> QED
    BY <2>1, EmptySeq DEF Init, SourceInit, SourceTypeOK, Contents
<1>2. /\ readerPC = "down" /\ slotExists = FALSE /\ slotStart = 0 /\ confirmed = 0
      /\ snapshot = NoRows /\ copied = {} /\ txn = 0 /\ msg = 0 /\ txnBuffer = NoEvents
      /\ ackedLSN = 0 /\ log = NoEvents /\ unsent = NoEvents /\ late = NoEvents
  BY DEF Init, ReaderInit, SinkInit
<1>3. LogOK /\ ReaderTypes
  <2>1. NoRows \in Contents
    BY DEF NoRows, Contents
  <2> QED
    BY <1>2, <2>1, NoneInHand DEF ReaderTypes, ReaderPCs, LogOK, Sorted
<1>4. Positions /\ Idle
  BY <1>1, <1>2 DEF Positions, Streaming, Idle
<1>5. ASSUME NEW r \in Rows, NEW k \in Parts
      PROVE  Tale(r, k)
  <2>1. WalTells(0, r, k) = Silent
    <3>1. 0 \in 0..Len(wal)
      BY <1>1
    <3> QED
      BY <1>1, <3>1, WalSplit
  <2> QED
    BY <1>2, <2>1 DEF Tale, WalRest, Backfilling, Published, Committing, Buffered, InBackfill
<1> QED
  BY <1>1, <1>3, <1>4, <1>5 DEF ReaderInv, Shape

-----------------------------------------------------------------------------
(* The destination's invariant: behind every offset from which a partition *)
(* may be delivered again, a part of a row that is not told again is as it *)
(* was told last.  A column of a row that was told gone has no such value: *)
(* it may already hold what a later flush stored.                          *)

\* What a partition l tells up to an offset, and beyond it.
Upto(l, n, r, k) == Tells(SubSeq(l, 1, n), r, k)
Beyond(l, n, r, k) == Tells(SubSeq(l, n + 1, Len(l)), r, k)

Holds(l, image, n, r, k) ==
    /\ Beyond(l, n, r, k) = Silent
    /\ k = <<>> \/ Over(Gone, Upto(l, n, r, k)) # Gone
    => Part(image, k) = Over(Gone, Upto(l, n, r, k))

(* From one offset to a later one.                                         *)
LEMMA Further ==
    ASSUME NEW l \in Seq(Built), NEW m \in 0..Len(l), NEW n \in m..Len(l), NEW r, NEW k \in Parts
    PROVE  LET told == Tells(SubSeq(l, m + 1, n), r, k)
           IN  /\ told \in Said
               /\ Upto(l, n, r, k) = Over(Upto(l, m, r, k), told)
               /\ Beyond(l, m, r, k) = Over(told, Beyond(l, n, r, k))
<1> DEFINE first == SubSeq(l, 1, m)
           mid == SubSeq(l, m + 1, n)
           last == SubSeq(l, n + 1, Len(l))
<1>1. Len(l) \in Nat /\ \A i \in 1..Len(l) : l[i] \in Built
  BY LenProperties, ElementOfSeq
<1>2. first \in Seq(Built) /\ mid \in Seq(Built) /\ last \in Seq(Built)
  <2>1. /\ \A i \in 1..m : l[i] \in Built
        /\ \A i \in (m + 1)..n : l[i] \in Built
        /\ \A i \in (n + 1)..Len(l) : l[i] \in Built
        /\ 1 \in Int /\ m \in Int /\ m + 1 \in Int /\ n \in Int /\ n + 1 \in Int /\ Len(l) \in Int
    BY <1>1
  <2> QED
    BY <2>1, SubSeqProperties
<1>3. SubSeq(l, 1, n) = first \o mid
  <2>1. 1 \in 1..(Len(l) + 1) /\ m \in (1 - 1)..Len(l) /\ n \in m..Len(l)
    BY <1>1
  <2> QED
    BY <2>1, ConcatAdjacentSubSeq
<1>4. SubSeq(l, m + 1, Len(l)) = mid \o last
  <2> DEFINE i == m + 1
  <2>1. i \in 1..(Len(l) + 1) /\ n \in (i - 1)..Len(l) /\ Len(l) \in n..Len(l)
    BY <1>1
  <2> HIDE DEF i
  <2>2. SubSeq(l, i, n) \o SubSeq(l, n + 1, Len(l)) = SubSeq(l, i, Len(l))
    BY <2>1, ConcatAdjacentSubSeq
  <2> QED
    BY <2>2 DEF i
<1> HIDE DEF first, mid, last
<1>5. /\ Tells(first \o mid, r, k) = Over(Tells(first, r, k), Tells(mid, r, k))
      /\ Tells(mid \o last, r, k) = Over(Tells(mid, r, k), Tells(last, r, k))
      /\ Tells(mid, r, k) \in Said
  <2>1. Overrules(first, mid, r, k) /\ Overrules(mid, last, r, k)
    BY <1>2, TellsConcat
  <2> QED
    BY <1>2, <2>1, TellsSteps DEF Overrules
<1> QED
  BY <1>3, <1>4, <1>5 DEF Upto, Beyond, first, mid, last

(* A flush that stores what lies between two offsets takes the destination *)
(* from one to the other, and does no harm at the first: what it stored is *)
(* told again from there.                                                  *)
LEMMA HoldsFurther ==
    ASSUME NEW l \in Seq(Built), NEW m \in 0..Len(l), NEW n \in m..Len(l), NEW r, NEW k \in Parts,
           NEW old, NEW new, Holds(l, old, m, r, k),
           Told(Part(old, k), Tells(SubSeq(l, m + 1, n), r, k), Part(new, k), k)
    PROVE  Holds(l, new, m, r, k) /\ Holds(l, new, n, r, k)
<1> DEFINE told == Tells(SubSeq(l, m + 1, n), r, k)
<1>1. /\ told \in Said
      /\ Upto(l, n, r, k) = Over(Upto(l, m, r, k), told)
      /\ Beyond(l, m, r, k) = Over(told, Beyond(l, n, r, k))
  BY Further
<1>2. Told(Part(old, k), told, Part(new, k), k)
  OBVIOUS
<1> HIDE DEF told
<1>3. CASE told = Silent
  BY <1>1, <1>2, <1>3 DEF Holds, Told, Over
<1>4. CASE told # Silent
  BY <1>1, <1>2, <1>4 DEF Holds, Told, Over
<1> QED
  BY <1>3, <1>4

(* A flush of other rows' events does no harm at any offset.               *)
LEMMA HoldsApart ==
    ASSUME NEW l, NEW n, NEW r, NEW k \in Parts, NEW old, NEW new, Holds(l, old, n, r, k),
           Told(Part(old, k), Silent, Part(new, k), k)
    PROVE  Holds(l, new, n, r, k)
BY DEF Holds, Told, Over

(* Nor does a longer log.                                                  *)
LEMMA HoldsLonger ==
    ASSUME NEW l \in Seq(Built), NEW s \in Seq(Built), NEW n \in 0..Len(l), NEW r, NEW k \in Parts,
           NEW image, Holds(l, image, n, r, k)
    PROVE  Holds(l \o s, image, n, r, k)
<1>1. Len(l) \in Nat /\ 1 \in 1..(Len(l) + 1) /\ n + 1 \in 1..(Len(l) + 1)
  BY LenProperties
<1>2. Extended(l, s, 1)
  BY <1>1, SubSeqOfConcat
<1>3. Upto(l \o s, n, r, k) = Upto(l, n, r, k)
  BY <1>2 DEF Upto, Extended
<1> DEFINE m == n + 1
           rest == SubSeq(l, m, Len(l))
<1>4. SubSeq(l \o s, m, Len(l \o s)) = rest \o s
  <2> HIDE DEF m
  <2>1. Extended(l, s, m)
    BY <1>1, SubSeqOfConcat DEF m
  <2> QED
    BY <2>1 DEF Extended
<1>5. rest \in Seq(Built)
  <2>1. \A i \in m..Len(l) : l[i] \in Built
    BY <1>1, ElementOfSeq
  <2>2. m \in Int /\ Len(l) \in Int
    BY <1>1
  <2> QED
    BY <2>1, <2>2, SubSeqProperties
<1> HIDE DEF rest
<1>6. Tells(rest \o s, r, k) = Over(Tells(rest, r, k), Tells(s, r, k))
  BY <1>5, TellsConcat DEF Overrules
<1>7. Beyond(l \o s, n, r, k) = Silent => Beyond(l, n, r, k) = Silent
  BY <1>4, <1>6 DEF Beyond, Over, rest
<1> QED
  BY <1>3, <1>7 DEF Holds

\* At the committed offsets, and once a table is flushed at those to come.
StoredTale(r, k) ==
    LET p == PartitionOf[r]
    IN  /\ Holds(log[p], dest[r], committed[p], r, k)
        /\ writerPC # "down" /\ perTable[TableOf[r]] = <<>>
                => Holds(log[p], dest[r], OffsetsTaken[p], r, k)

DestInv == \A r \in Rows, k \in Parts : StoredTale(r, k)

WriterInv == WriterTypes /\ IInv /\ BufferInv /\ DestInv

(* Nothing of the buffer's is told of a row that has nothing in it.        *)
LEMMA BufferTells ==
    ASSUME WriterInv, NEW t \in Tables, perTable[t] # <<>>, NEW r \in Rows, NEW k \in Parts
    PROVE  /\ TableOf[r] = t => Tells(perTable[t], r, k) = Tells(Taken(PartitionOf[r]), r, k)
           /\ TableOf[r] # t => Tells(perTable[t], r, k) = Silent
<1>1. perTable[t] \in Seq(Built) /\ perTable[t] \in Seq(ForRows(OfTable(t)))
  BY DEF WriterInv, WriterTypes, BufferOK
<1>2. PartitionOf[r] \in Partitions
  BY ShapeAssumption
<1>3. ASSUME TableOf[r] = t
      PROVE  Tells(perTable[t], r, k) = Tells(Taken(PartitionOf[r]), r, k)
  <2>1. OfRow(perTable[t], r) = OfRow(Taken(PartitionOf[r]), r)
    BY <1>3 DEF WriterInv, BufferInv
  <2>2. Taken(PartitionOf[r]) \in Seq(Built)
    BY <1>2, TakenType DEF WriterInv
  <2> QED
    BY <1>1, <2>1, <2>2, TellsOfRow
<1>4. ASSUME TableOf[r] # t
      PROVE  Tells(perTable[t], r, k) = Silent
  <2>1. r \notin OfTable(t)
    BY <1>4 DEF OfTable
  <2>2. OfRow(perTable[t], r) = <<>>
    BY <1>1, <2>1, NoneOfRow
  <2> QED
    BY <1>1, <2>2, TellsNothing
<1> QED
  BY <1>3, <1>4

(* A message is fetched: it is for another row, or its table has something *)
(* to flush.                                                               *)
LEMMA FetchStored ==
    ASSUME WriterInv, IInv', NEW p \in Partitions, Fetch(p), log' = log
    PROVE  DestInv'
<1>1. /\ log[p] \in Seq(Built) /\ Len(log[p]) \in Nat
      /\ Message(p) \in Built /\ TableOf[Message(p).row] \in Tables
      /\ perTable' = [perTable EXCEPT ![TableOf[Message(p).row]] = Append(@, Message(p))]
      /\ perTable \in [Tables -> Seq(Built)]
      /\ fetchPos[p] \in Nat /\ fetchPos[p] + 1 <= Len(log[p])
  BY FetchLemma, LenProperties DEF WriterInv, WriterTypes, LogOK, BufferOK
<1>2. /\ writerPC = "run" /\ UNCHANGED <<committed, dest, log>>
      /\ fetchPos' = [fetchPos EXCEPT ![p] = @ + 1] /\ writerPC' # "down"
  BY DEF Fetch, destVars
<1>3. /\ \A q \in Partitions : OffsetsTaken[q] = fetchPos[q] /\ OffsetsTaken'[q] = fetchPos'[q]
      /\ fetchPos \in Offsets
  BY <1>2 DEF WriterInv, IInv, TakenInv
<1>4. ASSUME NEW r \in Rows, NEW k \in Parts
      PROVE  StoredTale(r, k)'
  <2> DEFINE q == PartitionOf[r]
  <2>1. q \in Partitions /\ TableOf[r] \in Tables
    BY ShapeAssumption
  <2>2. StoredTale(r, k)
    BY DEF WriterInv, DestInv
  <2>3. Holds(log[q], dest[r], committed[q], r, k)
    BY <2>2 DEF StoredTale
  <2>4. ASSUME perTable'[TableOf[r]] = <<>>
        PROVE  Holds(log[q], dest[r], fetchPos'[q], r, k)
    <3>1. Message(p).row # r /\ perTable[TableOf[r]] = <<>>
      <4>1. perTable'[TableOf[r]] = IF TableOf[r] = TableOf[Message(p).row]
                THEN Append(perTable[TableOf[r]], Message(p)) ELSE perTable[TableOf[r]]
        BY <1>1, <2>1
      <4>2. Append(perTable[TableOf[r]], Message(p)) # <<>>
        BY <1>1, <2>1, AppendProperties
      <4> QED
        BY <2>4, <4>1, <4>2
    <3>2. Holds(log[q], dest[r], fetchPos[q], r, k)
      BY <1>2, <1>3, <2>1, <2>2, <3>1 DEF StoredTale
    <3>3. CASE q # p
      BY <1>2, <1>3, <2>1, <3>2, <3>3 DEF Offsets
    <3>4. CASE q = p
      <4> DEFINE m == fetchPos[p]
                 n == m + 1
      <4>1. m \in 0..Len(log[p]) /\ n \in m..Len(log[p]) /\ n \in 1..Len(log[p])
        BY <1>1
      <4>2. Tells(SubSeq(log[p], m + 1, n), r, k) = Silent
        <5>1. SubSeq(log[p], n, n) = <<log[p][n]>>
          <6> HIDE DEF n
          <6> QED BY <1>1, <4>1, SubSeqOne
        <5>2. log[p][n] = Message(p)
          BY DEF Message
        <5>3. Says(Message(p), r, k) = Silent
          BY <3>1 DEF Says
        <5> QED
          BY <1>1, <5>1, <5>2, <5>3, TellsOne
      <4>3. Told(Part(dest[r], k), Silent, Part(dest[r], k), k)
        BY DEF Told, Over
      <4>4. fetchPos'[q] = n
        BY <1>2, <1>3, <3>4 DEF Offsets
      <4> HIDE DEF m, n
      <4>5. Holds(log[p], dest[r], n, r, k)
        BY <1>1, <3>2, <3>4, <4>1, <4>2, <4>3, HoldsFurther DEF m
      <4> QED
        BY <3>4, <4>4, <4>5
    <3> QED
      BY <3>3, <3>4
  <2> QED
    BY <1>2, <1>3, <2>1, <2>3, <2>4 DEF StoredTale
<1> QED
  BY <1>4 DEF DestInv

(* A table is flushed: what it holds now is what was fetched.              *)
LEMMA FlushStored ==
    ASSUME WriterInv, NEW t \in Tables, FlushTable(t), log' = log
    PROVE  DestInv'
<1>1. /\ writerPC = "flush" /\ perTable[t] # <<>> /\ dest' = flushTable(dest, perTable[t])
      /\ perTable' = [perTable EXCEPT ![t] = <<>>]
      /\ UNCHANGED <<log, writerPC, newest, committed>>
  BY DEF FlushTable
<1>2. /\ perTable \in [Tables -> Seq(Built)] /\ dest \in Contents
      /\ log \in [Partitions -> Seq(Built)]
  BY DEF WriterInv, WriterTypes, BufferOK, WriterOK, LogOK
<1>3. OffsetsTaken' = OffsetsTaken
  BY <1>1 DEF OffsetsTaken
<1>4. ASSUME NEW r \in Rows, NEW k \in Parts
      PROVE  StoredTale(r, k)'
  <2> DEFINE q == PartitionOf[r]
             l == log[q]
             m == committed[q]
             n == OffsetsTaken[q]
  <2>1. q \in Partitions /\ TableOf[r] \in Tables
    BY ShapeAssumption
  <2>2. l \in Seq(Built) /\ m \in 0..Len(l) /\ n \in m..Len(l) /\ Taken(q) = SubSeq(l, m + 1, n)
    <3>1. log[q] \in Seq(Built) /\ Len(log[q]) \in Nat /\ committed[q] \in Nat
          /\ OffsetsTaken[q] \in committed[q]..Len(log[q])
      BY <2>1, TakenType DEF WriterInv
    <3> QED
      BY <3>1 DEF Taken
  <2>3. StoredTale(r, k)
    BY DEF WriterInv, DestInv
  <2>4. Told(Part(dest[r], k), Tells(perTable[t], r, k), Part(dest'[r], k), k)
    <3>1. Carried(dest[r], perTable[t], flushTable(dest, perTable[t])[r], r)
      BY <1>2, FlushTells
    <3> QED
      BY <1>1, <3>1 DEF Carried
  <2>5. Holds(l, dest[r], m, r, k)
    BY <2>3 DEF StoredTale
  <2>6. CASE TableOf[r] = t
    <3>1. Tells(perTable[t], r, k) = Tells(SubSeq(l, m + 1, n), r, k)
      BY <1>1, <2>2, <2>6, BufferTells
    <3> HIDE DEF q, l, m, n
    <3>2. Holds(l, dest'[r], m, r, k) /\ Holds(l, dest'[r], n, r, k)
      BY <2>2, <2>4, <2>5, <3>1, HoldsFurther
    <3> QED
      BY <1>1, <1>3, <3>2 DEF StoredTale, q, l, m, n
  <2>7. CASE TableOf[r] # t
    <3>1. Told(Part(dest[r], k), Silent, Part(dest'[r], k), k)
      BY <1>1, <2>4, <2>7, BufferTells
    <3>2. perTable'[TableOf[r]] = perTable[TableOf[r]]
      BY <1>1, <1>2, <2>1, <2>7
    <3>3. perTable[TableOf[r]] = <<>> => Holds(l, dest[r], n, r, k)
      BY <1>1, <2>3 DEF StoredTale
    <3> HIDE DEF q, l, m, n
    <3>4. /\ Holds(l, dest'[r], m, r, k)
          /\ Holds(l, dest[r], n, r, k) => Holds(l, dest'[r], n, r, k)
      BY <2>5, <3>1, HoldsApart
    <3> QED
      BY <1>1, <1>3, <3>2, <3>3, <3>4 DEF StoredTale, q, l, m, n
  <2> QED
    BY <2>6, <2>7
<1> QED
  BY <1>4 DEF DestInv

(* Every step of the writer.                                               *)
LEMMA WriterKeeps ==
    ASSUME ~Rebalance, WriterInv, WriterStep, log' = log
    PROVE  WriterInv'
<1>1. WriterTypes' /\ IInv' /\ BufferInv'
  BY WriterTypesStep, OffsetsStep, BufferStep DEF WriterInv
<1> SUFFICES DestInv'
  BY <1>1 DEF WriterInv
<1>2. ASSUME NEW p \in Partitions, Fetch(p)
      PROVE  DestInv'
  BY <1>1, <1>2, FetchStored
<1>3. ASSUME NEW t \in Tables, FlushTable(t)
      PROVE  DestInv'
  BY <1>3, FlushStored
<1>4. \A r \in Rows : PartitionOf[r] \in Partitions /\ TableOf[r] \in Tables
  BY ShapeAssumption
<1>5. CASE WriterStart
  <2>1. /\ UNCHANGED <<log, dest, committed>>
        /\ \A p \in Partitions : OffsetsTaken'[p] = committed[p]
    BY <1>5 DEF WriterStart, destVars, bufferVars, OffsetsTaken, WriterInv, IInv, TakenInv, NoMessage
  <2> QED
    BY <1>4, <2>1 DEF DestInv, StoredTale, WriterInv
<1>6. CASE CommitOffsets
  <2>1. /\ UNCHANGED <<log, dest, perTable>> /\ committed' = OffsetsTaken
        /\ \A p \in Partitions : OffsetsTaken'[p] = OffsetsTaken[p]
    BY <1>6 DEF CommitOffsets, destVars, OffsetsTaken, NoMessage
  <2>2. writerPC # "down" /\ \A r \in Rows : perTable[TableOf[r]] = <<>>
    BY <1>4, <1>6 DEF CommitOffsets, EmptyBuffer
  <2> QED
    BY <1>4, <2>1, <2>2 DEF DestInv, StoredTale, WriterInv
<1>7. CASE FlushInterval
  <2>1. UNCHANGED <<log, dest, committed, perTable, newest>> /\ writerPC # "down"
    BY <1>7 DEF FlushInterval, destVars, bufferVars
  <2> QED
    BY <2>1 DEF DestInv, StoredTale, OffsetsTaken, WriterInv
<1>8. CASE WriterCrash
  <2>1. UNCHANGED <<log, dest, committed>> /\ writerPC' = "down"
    BY <1>8 DEF WriterCrash
  <2> QED
    BY <2>1 DEF DestInv, StoredTale, WriterInv
<1> QED
  BY <1>2, <1>3, <1>5, <1>6, <1>7, <1>8 DEF WriterStep, WriterProgress

-----------------------------------------------------------------------------
(* The pipeline's invariant.                                               *)

PipelineInv == ReaderInv /\ WriterInv

\* The topic only grows.
Grown == \A p \in Partitions : \E s \in Seq(Built) : log'[p] = log[p] \o s

(* Only a batch is ever added to the topic.                                *)
LEMMA CaptureGrows ==
    ASSUME "lateStore" \notin Faults, ReaderInv, CaptureStep
    PROVE  Grown
<1>1. Sorted(log) /\ Sorted(unsent) /\ late = NoEvents
  BY DEF ReaderInv, Shape, ReaderTypes, LogOK, Sorted
<1>2. ~LateStep
  BY <1>1 DEF LateStep, LateStored, NoEvents
<1>3. log' = log \/ \E p \in Partitions : Stores(p)
  <2>1. CASE PublishStep
    <3>1. PICK p \in Partitions : BatchAcked(p) \/ AckLost(p) \/ SendTimesOut(p) \/ BatchGivenUp(p)
      BY <2>1 DEF PublishStep, SinkStep
    <3> QED
      BY <3>1 DEF BatchAcked, AckLost, SendTimesOut, BatchGivenUp, Store, Stores
  <2>2. CASE sendStandbyUpdate \/ ReaderCrash \/ SourceRestart
    BY <2>2 DEF sendStandbyUpdate, ReaderCrash, SourceRestart, Exit, SinkLost, sinkVars
  <2>3. CASE New \/ CopyChunk \/ ChunkPublished \/ StartReplication
    BY <2>3 DEF New, CreateSlot, FindSlot, CopyChunk, ChunkPublished, StartReplication, sinkVars
  <2>4. CASE TxnPublished \/ PublishError
    BY <2>4 DEF TxnPublished, PublishError, Exit, SinkLost, sinkVars
  <2>5. CASE StreamStep
    BY <2>5 DEF StreamStep, HandleBegin, HandleRelation, HandleInsert, HandleUpdate, HandleDelete,
        HandleTruncate, HandleRow, HandleCommit, HandleEmptyCommit, HandleKeepalive, sinkVars
  <2> QED
    BY <1>2, <2>1, <2>2, <2>3, <2>4, <2>5 DEF CaptureStep, ReaderStep, ReaderProgress
<1>4. CASE log' = log
  <2>1. ASSUME NEW p \in Partitions
        PROVE  <<>> \in Seq(Built) /\ log'[p] = log[p] \o <<>>
    BY <1>1, <1>4, EmptySeq, ConcatEmptySeq DEF Sorted
  <2> QED
    BY <2>1 DEF Grown
<1>5. ASSUME NEW q \in Partitions, Stores(q)
      PROVE  Grown
  <2>1. Cut(q)
    BY <1>1, BatchCut
  <2>2. ASSUME NEW p \in Partitions
        PROVE  \E s \in Seq(Built) : log'[p] = log[p] \o s
    <3>1. CASE p = q
      BY <1>1, <1>5, <2>1, <3>1 DEF Cut, Stores, Sorted
    <3>2. CASE p # q
      <4>1. log'[p] = log[p] /\ log[p] \in Seq(Built)
        BY <1>1, <1>5, <3>2 DEF Stores, Sorted
      <4> QED
        BY <4>1, EmptySeq, ConcatEmptySeq
    <3> QED
      BY <3>1, <3>2
  <2> QED
    BY <2>2 DEF Grown
<1> QED
  BY <1>3, <1>4, <1>5

(* The writer's part does not mind a longer topic.                         *)
LEMMA WriterGrows ==
    ASSUME WriterInv, UNCHANGED writerVars, LogOK', Grown
    PROVE  WriterInv'
<1>1. \A p \in Partitions : log[p] \in Seq(Built) /\ Len(log[p]) \in Nat
  BY LenProperties DEF WriterInv, WriterTypes, LogOK
<1>2. WriterTypes'
  <2>1. ASSUME NEW p \in Partitions
        PROVE  Len(log'[p]) >= Len(log[p])
    <3>1. PICK s \in Seq(Built) : log'[p] = log[p] \o s
      BY DEF Grown
    <3>2. Len(log'[p]) = Len(log[p]) + Len(s) /\ Len(s) \in Nat
      BY <1>1, <3>1, ConcatProperties, LenProperties
    <3> QED
      BY <1>1, <3>2
  <2> QED
    BY <2>1, WriterTypesGrow DEF WriterInv
<1>3. IInv' /\ BufferInv'
  BY OffsetsRest, BufferGrow DEF WriterInv, Grown
<1>4. ASSUME NEW r \in Rows, NEW k \in Parts
      PROVE  StoredTale(r, k)'
  <2> DEFINE q == PartitionOf[r]
             m == committed[q]
             n == OffsetsTaken[q]
  <2>1. q \in Partitions
    BY ShapeAssumption
  <2>2. /\ UNCHANGED <<dest, committed, newest, perTable, writerPC>> /\ OffsetsTaken' = OffsetsTaken
    BY DEF writerVars, destVars, bufferVars, OffsetsTaken
  <2>3. m \in 0..Len(log[q]) /\ n \in 0..Len(log[q])
    BY <1>1, <2>1, TakenType DEF WriterInv
  <2>4. PICK s \in Seq(Built) : log'[q] = log[q] \o s
    BY <2>1 DEF Grown
  <2>5. /\ Holds(log[q], dest[r], m, r, k)
        /\ writerPC # "down" /\ perTable[TableOf[r]] = <<>> => Holds(log[q], dest[r], n, r, k)
    BY DEF WriterInv, DestInv, StoredTale
  <2> HIDE DEF q, m, n
  <2>6. \A i \in 0..Len(log[q]) :
            Holds(log[q], dest[r], i, r, k) => Holds(log'[q], dest[r], i, r, k)
    BY <1>1, <2>1, <2>4, HoldsLonger
  <2> QED
    BY <2>2, <2>3, <2>5, <2>6 DEF StoredTale, q, m, n
<1> QED
  BY <1>2, <1>3, <1>4 DEF WriterInv, DestInv

(* The invariant holds at first: an empty topic, an empty destination.     *)
LEMMA PipelineStarts == Init => PipelineInv
<1> SUFFICES ASSUME Init PROVE PipelineInv
  OBVIOUS
<1>1. ReaderInv
  BY ReaderStarts
<1>2. /\ writerPC = "down" /\ fetchPos = NoMessage /\ perTable = EmptyBuffer /\ newest = NoMessage
      /\ committed = NoMessage /\ dest = [r \in Rows |-> Absent] /\ destTables = {}
      /\ log = NoEvents
  BY DEF Init, WriterInit, SinkInit
<1>3. IInv
  BY <1>2 DEF NoMessage, Offsets, IInv, TakenInv
<1>4. WriterTypes
  <2>1. LogOK
    BY <1>1 DEF ReaderInv, Shape
  <2>2. BufferOK
    BY <1>2, EmptySeq DEF BufferOK, EmptyBuffer
  <2>3. PositionsOK
    <3>1. \A p \in Partitions : log[p] = <<>>
      BY <1>2 DEF NoEvents
    <3> QED
      BY <1>2, <3>1, EmptySeq DEF PositionsOK, NoMessage, Offsets
  <2>4. WriterOK
    BY <1>2 DEF WriterOK, WriterPCs, Contents
  <2> QED
    BY <2>1, <2>2, <2>3, <2>4 DEF WriterTypes
<1>5. \A r \in Rows : PartitionOf[r] \in Partitions /\ TableOf[r] \in Tables
  BY ShapeAssumption
<1>6. BufferInv
  BY <1>2, <1>5 DEF BufferInv, EmptyBuffer
<1>7. ASSUME NEW r \in Rows, NEW k \in Parts
      PROVE  StoredTale(r, k)
  <2> DEFINE p == PartitionOf[r]
             none == log[p]
  <2>1. none = <<>> /\ committed[p] = 0
    BY <1>2, <1>5 DEF NoEvents, NoMessage
  <2>2. SubSeq(<<>>, 1, 0) = <<>>
    BY SubSeqEmpty
  <2>3. Upto(<<>>, 0, r, k) = Silent
    BY <2>2, TellsSteps DEF Upto
  <2>4. Holds(none, dest[r], committed[p], r, k)
    BY <1>2, <2>1, <2>3 DEF Holds, Over, Part
  <2> QED
    BY <1>2, <2>4 DEF StoredTale
<1> QED
  BY <1>1, <1>3, <1>4, <1>6, <1>7 DEF PipelineInv, WriterInv, DestInv

(* Every step keeps it.                                                    *)
LEMMA PipelineNext ==
    ASSUME "rekeyTouch" \notin ChangeKinds, "truncate" \notin ChangeKinds,
           "rebalance" \notin Faults, "lateStore" \notin Faults, "backfillCrash" \notin Faults,
           PipelineInv, [Next]_vars
    PROVE  PipelineInv'
<1> USE DEF PipelineInv
<1>1. \A p \in Partitions : log[p] \in Seq(Built) /\ log[p] = log[p] \o <<>> /\ <<>> \in Seq(Built)
  <2>1. \A p \in Partitions : log[p] \in Seq(Built)
    BY DEF WriterInv, WriterTypes, LogOK
  <2> QED
    BY <2>1, EmptySeq, ConcatEmptySeq
<1>2. CASE SourceStep /\ UNCHANGED <<sinkVars, readerVars, writerVars, faults>>
  <2>1. ReaderInv'
    BY <1>2, SourceKeeps
  <2>2. LogOK' /\ Grown
    BY <1>1, <1>2, <2>1 DEF ReaderInv, Shape, sinkVars, Grown
  <2> QED
    BY <1>2, <2>1, <2>2, WriterGrows
<1>3. CASE CaptureStep /\ UNCHANGED <<sourceVars, writerVars>>
  <2>1. ReaderInv'
    BY <1>3, CaptureKeeps
  <2>2. LogOK' /\ Grown
    BY <1>3, <2>1, CaptureGrows DEF ReaderInv, Shape
  <2> QED
    BY <1>3, <2>1, <2>2, WriterGrows
<1>4. CASE WriterStep /\ UNCHANGED <<sourceVars, sinkVars, readerVars>>
  <2>1. ReaderInv'
    BY <1>4, ReaderRest
  <2>2. WriterInv'
    BY <1>4, LeftInPeace, WriterKeeps DEF sinkVars
  <2> QED
    BY <2>1, <2>2
<1>5. CASE UNCHANGED vars
  <2>1. ReaderInv'
    BY <1>5, ReaderRest DEF vars
  <2>2. LogOK' /\ Grown
    BY <1>1, <1>5, <2>1 DEF ReaderInv, Shape, vars, sinkVars, Grown
  <2> QED
    BY <1>5, <2>1, <2>2, WriterGrows DEF vars
<1> QED
  BY <1>2, <1>3, <1>4, <1>5 DEF Next

-----------------------------------------------------------------------------
(* What a kill leaves behind.                                              *)

\* With owed after it, the topic tells what the table holds.
Completes(owed, r, k) == Over(Gone, Over(Topic(r, k), Tells(owed, r, k))) = Part(table[r], k)

(* The stream tells what lies behind the position that the slot confirmed. *)
LEMMA StreamOwedTells ==
    ASSUME ReaderInv
    PROVE  /\ StreamOwed \in Seq(Built)
           /\ \A r, k : k \in Parts => Tells(StreamOwed, r, k) = WalTells(confirmed, r, k)
<1>1. wal \in Seq(Seq(Change)) /\ Len(wal) \in Nat /\ confirmed \in Nat
  BY LenProperties DEF ReaderInv, Shape, SourceTypeOK, ReaderTypes
<1> DEFINE rest == SubSeq(wal, confirmed + 1, Len(wal))
<1>2. rest \in Seq(Seq(Change))
  <2>1. /\ \A i \in (confirmed + 1)..Len(wal) : wal[i] \in Seq(Change)
        /\ confirmed + 1 \in Int /\ Len(wal) \in Int
    BY <1>1, ElementOfSeq
  <2> QED
    BY <2>1, SubSeqProperties
<1>3. StreamOwed = EventsOfTxns(rest)
  BY DEF StreamOwed
<1>4. \A r, k : WalTells(confirmed, r, k) = Tells(EventsOfTxns(rest), r, k)
  BY DEF WalTells, Between, TxnsTell
<1> HIDE DEF rest
<1> QED
  BY <1>2, <1>3, <1>4, EventsOfTxnsSteps

(* Before there is a slot, the first start copies the table as it is then. *)
LEMMA OwedFromScratch ==
    ASSUME ReaderInv, ~slotExists
    PROVE  /\ ReaderOwes \in Seq(Built)
           /\ \A r \in Rows, k \in Parts : Completes(ReaderOwes, r, k)
<1> DEFINE reads == ReadsOf(table, Rows)
<1>1. ReaderOwes = reads
  BY DEF ReaderOwes
<1>2. table \in Contents
  BY DEF ReaderInv, Shape, SourceTypeOK
<1>3. ReadTells(reads, table, {r \in Rows : table[r] # Absent})
  BY <1>2, ReadsOfTell
<1> HIDE DEF reads
<1>4. reads \in Seq(Built)
  <2>1. \A rows : ForRows(rows) \subseteq Built
    BY DEF ForRows
  <2> QED
    BY <1>3, <2>1, SeqMonotonic DEF ReadTells
<1>5. ASSUME NEW r \in Rows, NEW k \in Parts
      PROVE  Completes(reads, r, k)
  <2>1. Topic(r, k) = Silent
    BY NoneInHand DEF Topic, ReaderInv, Shape, Idle
  <2>2. Tells(reads, r, k) = IF table[r] # Absent THEN Part(table[r], k) ELSE Silent
    BY <1>3 DEF ReadTells
  <2>3. Part(table[r], k) # Silent
    BY <1>2, PartType DEF Contents, Stored
  <2> QED
    BY <2>1, <2>2, <2>3 DEF Completes, Over, Part
<1> QED
  BY <1>1, <1>4, <1>5

(* While the backfill runs: what it has in hand, what it has not copied    *)
(* yet, and then the WAL from where the slot was made.                     *)
LEMMA OwedInBackfill ==
    ASSUME ReaderInv, slotExists, InBackfill
    PROVE  /\ ReaderOwes \in Seq(Built)
           /\ \A r \in Rows, k \in Parts : Completes(ReaderOwes, r, k)
<1> DEFINE flying == OverPartitions(unsent)
           reads == ReadsOf(snapshot, Rows \ copied)
           chunks == flying \o reads
           stream == StreamOwed
<1>1. ReaderOwes = chunks \o stream
  BY DEF ReaderOwes, BackfillOwed
<1>2. SourceTypeOK /\ ReaderTypes /\ Positions /\ LogOK
  BY DEF ReaderInv, Shape
<1>3. ReadTells(reads, snapshot, {r \in Rows \ copied : snapshot[r] # Absent})
  BY <1>2, ReadsOfTell DEF ReaderTypes
<1>4. /\ flying \in Seq(Built)
      /\ \A r \in Rows : OfRow(flying, r) = OfRow(unsent[PartitionOf[r]], r)
  BY <1>2, PartitionsRows DEF ReaderTypes, Sorted
<1>5. stream \in Seq(Built) /\ \A r, k : k \in Parts => Tells(stream, r, k) = WalTells(confirmed, r, k)
  BY StreamOwedTells
<1> HIDE DEF flying, reads, stream
<1>6. reads \in Seq(Built)
  <2>1. \A rows : ForRows(rows) \subseteq Built
    BY DEF ForRows
  <2> QED
    BY <1>3, <2>1, SeqMonotonic DEF ReadTells
<1>7. chunks \in Seq(Built)
  BY <1>4, <1>6, ConcatProperties
<1>8. ASSUME NEW r \in Rows, NEW k \in Parts
      PROVE  Tells(chunks, r, k) = Over(InHand(unsent, r, k), ToCopy(r, k))
  <2>1. PartitionOf[r] \in Partitions
    BY ShapeAssumption
  <2>2. unsent[PartitionOf[r]] \in Seq(Built)
    BY <1>2, <2>1 DEF ReaderTypes, Sorted
  <2>3. Tells(flying, r, k) = InHand(unsent, r, k)
    <3>1. OfRow(flying, r) = OfRow(unsent[PartitionOf[r]], r)
      BY <1>4
    <3>2. Tells(OfRow(flying, r), r, k) = Tells(flying, r, k)
      BY <1>4, TellsOfRow
    <3>3. Tells(OfRow(unsent[PartitionOf[r]], r), r, k) = Tells(unsent[PartitionOf[r]], r, k)
      BY <2>2, TellsOfRow
    <3> QED
      BY <3>1, <3>2, <3>3 DEF InHand
  <2>4. Tells(reads, r, k) = ToCopy(r, k)
    BY <1>3 DEF ReadTells, ToCopy
  <2>5. Overrules(flying, reads, r, k)
    BY <1>4, <1>6, TellsConcat
  <2> QED
    BY <2>3, <2>4, <2>5 DEF Overrules
<1> HIDE DEF chunks
<1>9. ASSUME NEW r \in Rows, NEW k \in Parts
      PROVE  Completes(chunks \o stream, r, k)
  <2>1. Overrules(chunks, stream, r, k)
    BY <1>5, <1>7, TellsConcat
  <2>2. Tells(chunks \o stream, r, k) = Over(Over(InHand(unsent, r, k), ToCopy(r, k)), WalTells(confirmed, r, k))
    BY <1>5, <1>8, <2>1 DEF Overrules
  <2>3. PICK n \in 0..Len(wal) : n = confirmed
    BY <1>2 DEF ReaderTypes, Positions
  <2>4. Tale(r, k)
    BY DEF ReaderInv
  <2>5. WalTells(confirmed, r, k) \in {Silent, Part(table[r], k)}
    BY <1>2, <2>3, <2>4, WalAnywhere DEF Tale
  <2>6. Covers(WalTells(confirmed, r, k), Over(Sending(r, k), ToCopy(r, k)), table[r], k)
    BY <2>4 DEF Tale, Backfilling
  <2> QED
    BY <2>2, <2>5, <2>6 DEF Completes, Covers, Sending, Over
<1> QED
  BY <1>1, <1>5, <1>7, <1>9, ConcatProperties

(* Once the backfill is over: the WAL from the position confirmed, whether *)
(* or not the reader had got further.                                      *)
LEMMA OwedByStream ==
    ASSUME ReaderInv, slotExists, ~InBackfill
    PROVE  /\ ReaderOwes \in Seq(Built)
           /\ \A r \in Rows, k \in Parts : Completes(ReaderOwes, r, k)
<1> DEFINE stream == StreamOwed
<1>1. stream \in Seq(Built) /\ \A r, k : k \in Parts => Tells(stream, r, k) = WalTells(confirmed, r, k)
  BY StreamOwedTells
<1>2. SourceTypeOK /\ ReaderTypes /\ Positions /\ Len(wal) \in Nat
  BY LenProperties DEF ReaderInv, Shape, SourceTypeOK
<1>3. ReaderOwes = <<>> \o stream
  BY DEF ReaderOwes, BackfillOwed
<1> HIDE DEF stream
<1>4. ReaderOwes = stream
  BY <1>1, <1>3, ConcatEmptySeq
<1>5. ASSUME NEW r \in Rows, NEW k \in Parts
      PROVE  Completes(stream, r, k)
  <2>1. Tale(r, k)
    BY DEF ReaderInv
  <2>2. PICK n \in 0..Len(wal) : n = ReadTo
    BY <1>2 DEF ReadTo, Positions, ReaderTypes
  <2>3. PICK m \in 0..n : m = confirmed
    BY <1>2, <2>2 DEF ReadTo, Positions, ReaderTypes
  <2>4. m \in 0..Len(wal)
    BY <1>2, <2>2, <2>3
  <2>5. WalTells(m, r, k) = Silent => WalTells(n, r, k) = Silent
    BY <1>2, <2>1, <2>2, <2>3, WalAnywhere DEF Tale
  <2>6. WalTells(m, r, k) \in {Silent, Part(table[r], k)}
    BY <1>2, <2>1, <2>4, WalAnywhere DEF Tale
  <2>7. Covers(WalTells(n, r, k), Topic(r, k), table[r], k)
    BY <2>1, <2>2 DEF Tale, Published
  <2>8. Tells(stream, r, k) = WalTells(m, r, k)
    BY <1>1, <2>3
  <2> QED
    BY <2>5, <2>6, <2>7, <2>8 DEF Completes, Covers, Over
<1> QED
  BY <1>1, <1>4, <1>5

(* In every case, what the reader owes completes the topic.                *)
LEMMA OwedCompletes ==
    ASSUME ReaderInv
    PROVE  /\ ReaderOwes \in Seq(Built)
           /\ \A r \in Rows, k \in Parts : Completes(ReaderOwes, r, k)
BY OwedFromScratch, OwedInBackfill, OwedByStream

(* What is redelivered is what lies behind the committed offsets.          *)
LEMMA RedeliveredTells ==
    ASSUME WriterInv
    PROVE  /\ Redelivered \in Seq(Built)
           /\ \A r \in Rows, k \in Parts :
                LET p == PartitionOf[r]
                IN  /\ Tells(Redelivered, r, k) = Beyond(log[p], committed[p], r, k)
                    /\ Topic(r, k) = Over(Upto(log[p], committed[p], r, k), Beyond(log[p], committed[p], r, k))
<1>1. WriterTypes /\ IInv
  BY DEF WriterInv
<1>2. ASSUME NEW r \in Rows, NEW k \in Parts
      PROVE  LET p == PartitionOf[r]
             IN  /\ Tells(Redelivered, r, k) = Beyond(log[p], committed[p], r, k)
                 /\ Topic(r, k) = Over(Upto(log[p], committed[p], r, k), Beyond(log[p], committed[p], r, k))
  <2> DEFINE p == PartitionOf[r]
             l == log[p]
             m == committed[p]
             n == Len(l)
  <2>1. p \in Partitions
    BY ShapeAssumption
  <2>2. /\ l \in Seq(Built) /\ n \in Nat /\ m \in 0..n /\ n \in m..n
        /\ Owed(p) \in Seq(Built)
    BY <1>1, <2>1, TakenType
  <2>3. Tells(Redelivered, r, k) = Beyond(l, m, r, k)
    <3>1. Tells(OfRow(Redelivered, r), r, k) = Tells(Redelivered, r, k)
      BY <1>1, RedeliveredRows, TellsOfRow
    <3>2. Tells(OfRow(Owed(p), r), r, k) = Tells(Owed(p), r, k)
      BY <2>2, TellsOfRow
    <3>3. OfRow(Redelivered, r) = OfRow(Owed(p), r)
      BY <1>1, RedeliveredRows
    <3> QED
      BY <3>1, <3>2, <3>3 DEF Owed, Beyond
  <2>4. Topic(r, k) = Upto(l, n, r, k)
    <3>1. SubSeq(l, 1, n) = l
      BY <2>2, SubSeqFull
    <3> QED
      BY <3>1 DEF Topic, InHand, Upto
  <2>5. n = Len(l)
    OBVIOUS
  <2>6. Topic(r, k) = Tells(l, r, k)
    BY DEF Topic, InHand
  <2> HIDE DEF p, l, m, n
  <2>7. Upto(l, n, r, k) = Over(Upto(l, m, r, k), Tells(SubSeq(l, m + 1, n), r, k))
    BY <2>2, <2>5, Further
  <2>8. Tells(SubSeq(l, m + 1, n), r, k) = Beyond(l, m, r, k)
    BY <2>5 DEF Beyond
  <2> QED
    BY <2>3, <2>4, <2>7, <2>8 DEF p, l, m
<1> QED
  BY <1>1, <1>2, RedeliveredRows

(* A row is known by its parts.                                            *)
LEMMA SameParts ==
    ASSUME NEW x \in Stored, NEW y \in Stored,
           Part(x, <<>>) = Part(y, <<>>),
           \A c \in Cols : y # Absent => Part(x, <<c>>) = Part(y, <<c>>)
    PROVE  x = y
<1>1. \A z \in Stored : Part(z, <<>>) = IF z = Absent THEN Gone ELSE 0
  BY DEF Part
<1>2. x = Absent <=> y = Absent
  BY <1>1 DEF Gone
<1>3. CASE y = Absent
  BY <1>2, <1>3
<1>4. CASE y # Absent
  <2>1. x \in Image /\ y \in Image
    BY <1>2, <1>4 DEF Stored
  <2>2. \A c \in Cols : <<c>> # <<>> /\ <<c>>[1] = c
    OBVIOUS
  <2>3. \A c \in Cols : x[c] = y[c]
    BY <1>2, <1>4, <2>2 DEF Part
  <2> QED
    BY <2>1, <2>3 DEF Image
<1> QED
  BY <1>3, <1>4

(* In every state the invariant describes, what is redelivered and what is *)
(* still owed bring the destination to the source's contents.              *)
LEMMA InvRecovers ==
    ASSUME PipelineInv
    PROVE  Recoverable
<1> DEFINE again == Redelivered
           owed == ReaderOwes
           all == again \o owed
           result == AfterRecovery(owed)
<1>1. again \in Seq(Built) /\ owed \in Seq(Built)
  BY RedeliveredTells, OwedCompletes DEF PipelineInv
<1>2. dest \in Contents /\ table \in Contents
  BY DEF PipelineInv, WriterInv, WriterTypes, WriterOK, ReaderInv, Shape, SourceTypeOK
<1>3. result \in Contents /\ ApplyAll(dest, again) \in Contents
      /\ result = ApplyAll(ApplyAll(dest, again), owed)
  <2>1. ApplyAll(dest, again) \in Contents
    BY <1>1, <1>2, ApplyAllSteps
  <2>2. ApplyAll(ApplyAll(dest, again), owed) \in Contents
    BY <1>1, <2>1, ApplyAllSteps
  <2> QED
    BY <2>1, <2>2 DEF AfterRecovery
<1>4. Recoverable <=> result = table
  BY DEF Recoverable
<1>5. /\ \A r \in Rows, k \in Parts :
            LET p == PartitionOf[r]
            IN  /\ Tells(again, r, k) = Beyond(log[p], committed[p], r, k)
                /\ Topic(r, k) = Over(Upto(log[p], committed[p], r, k), Beyond(log[p], committed[p], r, k))
      /\ \A r \in Rows, k \in Parts : Completes(owed, r, k)
  BY RedeliveredTells, OwedCompletes DEF PipelineInv
<1> HIDE DEF again, owed, result
<1>6. all \in Seq(Built)
  BY <1>1, ConcatProperties
<1>7. ASSUME NEW r \in Rows
      PROVE  result[r] = table[r]
  <2> DEFINE x == dest[r]
             y == table[r]
             z == result[r]
             p == PartitionOf[r]
  <2>1. x \in Stored /\ y \in Stored /\ z \in Stored
    BY <1>2, <1>3 DEF Contents, Stored
  <2>2. z = RowEffect(x, all, r)
    <3>1. z = RowEffect(ApplyAll(dest, again)[r], owed, r)
      BY <1>1, <1>3, RowWise
    <3>2. ApplyAll(dest, again)[r] = RowEffect(x, again, r)
      BY <1>1, <1>2, RowWise
    <3> HIDE DEF x, z
    <3> QED
      BY <1>1, <2>1, <3>1, <3>2, RowEffectConcat
  <2>3. \A k \in Parts : Holds(log[p], x, committed[p], r, k)
    BY DEF PipelineInv, WriterInv, DestInv, StoredTale
  <2>4. \A k \in Parts : /\ Tells(again, r, k) = Beyond(log[p], committed[p], r, k)
                         /\ Topic(r, k) = Over(Upto(log[p], committed[p], r, k), Beyond(log[p], committed[p], r, k))
                         /\ Completes(owed, r, k)
    BY <1>5
  <2> HIDE DEF x, z, p, all
  <2>5. Carried(x, all, z, r)
    BY <1>6, <2>1, <2>2, EffectTells
  <2>6. ASSUME NEW k \in Parts, k = <<>> \/ Part(y, k) # Gone
        PROVE  Part(z, k) = Part(y, k)
    <3>1. Tells(all, r, k) = Over(Tells(again, r, k), Tells(owed, r, k))
      BY <1>1, TellsConcat DEF Overrules, all
    <3>2. Told(Part(x, k), Tells(all, r, k), Part(z, k), k)
      BY <2>5 DEF Carried
    <3>3. Over(Gone, Over(Topic(r, k), Tells(owed, r, k))) = Part(y, k)
      BY <2>4 DEF Completes
    <3>4. CASE Tells(all, r, k) # Silent
      BY <2>4, <2>6, <3>1, <3>2, <3>3, <3>4 DEF Told, Over
    <3>5. CASE Tells(all, r, k) = Silent
      <4>1. Tells(owed, r, k) = Silent /\ Beyond(log[p], committed[p], r, k) = Silent
        BY <2>4, <3>1, <3>5 DEF Over
      <4>2. Over(Gone, Upto(log[p], committed[p], r, k)) = Part(y, k)
        BY <2>4, <3>3, <4>1 DEF Over
      <4>3. Part(x, k) = Part(y, k)
        BY <2>3, <2>6, <4>1, <4>2 DEF Holds
      <4> QED
        BY <2>6, <3>2, <3>5, <4>3 DEF Told, Over
    <3> QED
      BY <3>4, <3>5
  <2> HIDE DEF y
  <2>7. <<>> \in Parts /\ \A c \in Cols : <<c>> \in Parts
    BY DEF Parts
  <2>8. Part(z, <<>>) = Part(y, <<>>)
    BY <2>6, <2>7
  <2>9. ASSUME NEW c \in Cols, y # Absent
        PROVE  Part(z, <<c>>) = Part(y, <<c>>)
    <3>1. y \in Image
      BY <2>1, <2>9 DEF Stored
    <3>2. Part(y, <<c>>) = y[c] /\ y[c] \in Nat
      BY <2>9, <3>1 DEF Part, Image
    <3> QED
      BY <2>6, <2>7, <3>2 DEF Gone
  <2>10. z = y
    BY <2>1, <2>8, <2>9, SameParts
  <2> QED
    BY <2>10 DEF z, y
<1>8. result = table
  BY <1>2, <1>3, <1>7 DEF Contents
<1> QED
  BY <1>4, <1>8

(* "Those two rules are what make a kill of any component survivable"      *)
(* (README.md:25), whatever the rows, the transactions and the faults: at  *)
(* every moment, what Kafka and Postgres would deliver again brings the    *)
(* destination to the source's contents, row by row and column by column.  *)
(* Excepted are a crash of the backfill, a rebalance, a request stored     *)
(* late, an update of a key that leaves a TOASTed column alone, and a      *)
(* TRUNCATE: what they do to it the runs show, but for the TRUNCATE, which *)
(* nothing in the pipeline carries.                                        *)
THEOREM KillsAreSurvivable ==
    ASSUME "rekeyTouch" \notin ChangeKinds, "truncate" \notin ChangeKinds,
           "rebalance" \notin Faults, "lateStore" \notin Faults, "backfillCrash" \notin Faults
    PROVE  Spec => []Recoverable
<1>1. Init => PipelineInv
  BY PipelineStarts
<1>2. PipelineInv /\ [Next]_vars => PipelineInv'
  BY PipelineNext
<1>3. PipelineInv => Recoverable
  BY InvRecovers
<1> QED
  BY <1>1, <1>2, <1>3, PTL DEF Spec

\* Nothing is on its way any more: the slot has confirmed every transaction
\* that is streamed, and the group's offsets the whole topic.
NothingOwed ==
    /\ slotExists /\ ~InBackfill /\ StreamAcknowledged
    /\ \A p \in Partitions : committed[p] = Len(log[p])

(* A stretch of transactions that are not streamed has no events.          *)
LEMMA NothingStreamed ==
    ASSUME wal \in Seq(Seq(Change)), confirmed \in Nat,
           \A n \in 1..Len(wal) : n > confirmed => wal[n] = <<>>
    PROVE  StreamOwed = <<>>
<1> DEFINE rest == SubSeq(wal, confirmed + 1, Len(wal))
           Quietly(s) == \A i \in DOMAIN s : s[i] = <<>>
           S == {s \in Seq(Seq(Change)) : Quietly(s) => EventsOfTxns(s) = <<>>}
<1>1. <<>> \in S
  BY EventsOfTxnsSteps, EmptySeq
<1>2. ASSUME NEW s \in Seq(Seq(Change)), NEW chs \in Seq(Change), s \in S
      PROVE  Append(s, chs) \in S
  <2>1. /\ Append(s, chs) \in Seq(Seq(Change)) /\ Len(Append(s, chs)) = Len(s) + 1
        /\ Append(s, chs)[Len(s) + 1] = chs
        /\ \A i \in 1..Len(s) : Append(s, chs)[i] = s[i]
    BY AppendProperties
  <2>2. /\ Len(s) \in Nat /\ DOMAIN s = 1..Len(s)
        /\ DOMAIN Append(s, chs) = 1..(Len(s) + 1)
    BY <2>1, LenProperties
  <2> SUFFICES ASSUME Quietly(Append(s, chs))
               PROVE  EventsOfTxns(Append(s, chs)) = <<>>
    BY <2>1
  <2>3. Quietly(s) /\ chs = <<>>
    <3> DEFINE u == Append(s, chs)
    <3>1. /\ DOMAIN u = 1..(Len(s) + 1) /\ u[Len(s) + 1] = chs
          /\ \A i \in 1..Len(s) : u[i] = s[i]
      BY <2>1, <2>2
    <3> HIDE DEF u
    <3>2. \A i \in 1..(Len(s) + 1) : u[i] = <<>>
      BY <3>1 DEF u
    <3> QED
      BY <2>2, <3>1, <3>2
  <2>4. EventsOfTxns(s) = <<>> /\ TxnEvents(chs) = <<>>
    BY <1>2, <2>3, TxnEventsSteps
  <2>5. <<>> \o <<>> = <<>>
    BY EmptySeq, ConcatEmptySeq
  <2> QED
    BY <2>4, <2>5, EventsOfTxnsSteps
<1>3. Seq(Seq(Change)) \subseteq S
  <2> HIDE DEF S
  <2> QED
    BY <1>1, <1>2, SeqInduction
<1>4. rest \in Seq(Seq(Change)) /\ Quietly(rest)
  <2>1. Len(wal) \in Nat
    BY LenProperties
  <2> QED
    BY <2>1
<1> QED
  BY <1>3, <1>4 DEF StreamOwed

(* Then nothing is delivered again, and the destination must already hold  *)
(* the source's contents.                                                  *)
LEMMA InvArrives ==
    ASSUME PipelineInv, NothingOwed
    PROVE  dest = table
<1>1. WriterTypes /\ dest \in Contents /\ wal \in Seq(Seq(Change)) /\ Len(wal) \in Nat
  BY LenProperties DEF PipelineInv, WriterInv, WriterTypes, WriterOK, ReaderInv, Shape, SourceTypeOK
<1>2. ReaderOwes = <<>>
  <2>1. ASSUME NEW n \in 1..Len(wal), n > confirmed
        PROVE  wal[n] = <<>>
    BY <1>1, <2>1, LenProperties DEF NothingOwed, StreamAcknowledged, Streamed,
      PipelineInv, ReaderInv, Shape, ReaderTypes
  <2>2. StreamOwed = <<>>
    BY <1>1, <2>1, NothingStreamed DEF PipelineInv, ReaderInv, Shape, ReaderTypes
  <2>3. <<>> \o <<>> = <<>>
    BY EmptySeq, ConcatEmptySeq
  <2> QED
    BY <2>2, <2>3 DEF ReaderOwes, BackfillOwed, NothingOwed
<1> DEFINE again == ApplyAll(dest, Redelivered)
<1>3. Redelivered \in Seq(Built) /\ again \in Contents
  BY <1>1, RedeliveredRows, ApplyAllSteps
<1>4. ASSUME NEW r \in Rows
      PROVE  again[r] = dest[r]
  <2> DEFINE p == PartitionOf[r]
  <2>1. p \in Partitions
    BY ShapeAssumption
  <2>2. committed[p] = Len(log[p]) /\ Len(log[p]) \in Nat
    BY <1>1, <2>1, LenProperties DEF NothingOwed, WriterTypes, LogOK
  <2>3. Owed(p) = <<>>
    <3> HIDE DEF p
    <3> QED
      BY <2>2, SubSeqEmpty DEF Owed
  <2>4. OfRow(Redelivered, r) = <<>>
    BY <1>1, <2>3, RedeliveredRows, OfRowType
  <2>5. dest[r] \in Stored
    BY <1>1 DEF Contents, Stored
  <2>6. RowEffect(dest[r], Redelivered, r) = dest[r]
    BY <1>3, <2>4, <2>5, Untouched
  <2> QED
    BY <1>1, <1>3, <2>6, RowWise
<1>5. again = dest
  BY <1>1, <1>3, <1>4 DEF Contents
<1>6. ApplyAll(again, <<>>) = again
  BY <1>3, ApplyAllSteps
<1> QED
  BY <1>2, <1>5, <1>6, InvRecovers DEF Recoverable, AfterRecovery

(* The safety half of convergence: whenever nothing is left to deliver,    *)
(* the destination is the source's table, whatever was killed, lost or     *)
(* sent twice on the way (README.md:18-25).  That it gets there is         *)
(* liveness, which a run checks.                                           *)
THEOREM DeliveredIsTheSource ==
    ASSUME "rekeyTouch" \notin ChangeKinds, "truncate" \notin ChangeKinds,
           "rebalance" \notin Faults, "lateStore" \notin Faults, "backfillCrash" \notin Faults
    PROVE  Spec => [](NothingOwed => dest = table)
<1>1. Init => PipelineInv
  BY PipelineStarts
<1>2. PipelineInv /\ [Next]_vars => PipelineInv'
  BY PipelineNext
<1>3. PipelineInv => (NothingOwed => dest = table)
  BY InvArrives
<1> QED
  BY <1>1, <1>2, <1>3, PTL DEF Spec

=============================================================================
