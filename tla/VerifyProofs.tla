---------------------------- MODULE VerifyProofs ----------------------------
(***************************************************************************)
(* Verify beside the pipeline, for all constants.  What a MATCH means does *)
(* not follow from the two reads of a table: between them, and after the   *)
(* last of them, the writer goes on applying batches.  It follows from the *)
(* history of each row: while no batch is applied again, the destination   *)
(* replays it from the start, and a replay that has reached the row's      *)
(* final image never leaves it.                                            *)
(***************************************************************************)
EXTENDS Verify, DeliveryProofs

(* Verify takes the published tables one by one.                           *)
LEMMA TablesInTurn ==
    /\ Len(shapes) \in Nat /\ Len(shapes) >= 1
    /\ \A i \in 1..Len(shapes) : shapes[i] \in Tables
    /\ \A t \in Tables : \E i \in 1..Len(shapes) : shapes[i] = t
<1>1. Lists(shapes, Tables)
  BY VerifyAssumption, SetToSeqLists DEF shapes
<1> HIDE DEF shapes
<1>2. Len(shapes) \in Nat /\ \A i \in 1..Len(shapes) : shapes[i] \in Tables
  BY <1>1, LenProperties, ElementOfSeq DEF Lists
<1>3. \A t \in Tables : \E i \in 1..Len(shapes) : shapes[i] = t
  BY <1>1 DEF Lists
<1>4. Len(shapes) >= 1
  <2>1. PICK t : t \in Tables
    BY VerifyAssumption
  <2> QED
    BY <1>2, <1>3, <2>1
<1> QED
  BY <1>2, <1>3, <1>4

(* A step of the source adds one transaction.                              *)
LEMMA WalGrows ==
    ASSUME SourceTypeOK, SourceStep
    PROVE  Len(wal') = Len(wal) + 1 /\ Len(wal) \in Nat
<1>1. wal \in Seq(Seq(Change)) /\ version + 1 \in Nat /\ version + 2 \in Nat /\ table \in Contents
  BY DEF SourceTypeOK
<1>2. \A txn : wal' = Append(wal, txn) => Len(wal') = Len(wal) + 1
  BY <1>1
<1>3. Len(wal) \in Nat
  BY <1>1, LenProperties
<1> QED
  BY <1>2, <1>3 DEF SourceStep, CommitOne, CommitPair, CommitOther

(* A step of verify beside a step or a rest of the pipeline.               *)
LEMMA EitherMoves ==
    ASSUME [VerifiedNext]_allVars
    PROVE  /\ [Next]_vars
           /\ UNCHANGED verifyVars \/ (VerifyStep /\ UNCHANGED vars)
BY DEF VerifiedNext, allVars

(* ReadDest moves on to a table there is, or is through.                   *)
LEMMA ReadDestMoves ==
    ASSUME checking \in 1..Len(shapes), ReadDest
    PROVE  /\ checking' \in 1..Len(shapes)
           /\ verifyPC' = "source" => checking # Len(shapes) /\ checking' = checking + 1
           /\ verifyPC' = "match" => checking = Len(shapes) /\ mismatches' = {}
           /\ verifyPC' \in {"source", "match", "retry"}
BY TablesInTurn DEF ReadDest, AtLastTable

(* Every step of verify or of the pipeline keeps the types.                *)
LEMMA VerifyTypeNext ==
    ASSUME Types, VerifyTypeOK, [VerifiedNext]_allVars
    PROVE  VerifyTypeOK'
<1>0. wal \in Seq(Seq(Change)) /\ Len(wal) \in Nat /\ began \in 0..Len(wal)
  BY LenProperties DEF Types, SourceTypeOK, VerifyTypeOK
<1>1. CASE UNCHANGED verifyVars
  <2>1. Len(wal') >= Len(wal) /\ Len(wal') \in Nat
    <3>1. CASE Feed
      BY <3>1, WalGrows DEF Feed, Types
    <3>2. CASE wal' = wal
      BY <1>0, <3>2
    <3> QED
      BY EitherMoves, <3>1, <3>2 DEF Next, vars, sourceVars
  <2>2. began' \in 0..Len(wal')
    BY <1>0, <1>1, <2>1 DEF verifyVars
  <2> QED
    BY <1>1, <2>2 DEF verifyVars, VerifyTypeOK
<1>2. CASE VerifyStep /\ UNCHANGED vars
  <2>0. wal' = wal /\ Len(wal) \in 0..Len(wal)
    BY <1>0, <1>2 DEF vars, sourceVars
  <2>1. CASE BeginPass
    BY <1>0, <2>0, <2>1, TablesInTurn DEF BeginPass, VerifyTypeOK, VerifyPCs
  <2>2. CASE ReadSource
    BY <1>0, <2>0, <2>2 DEF ReadSource, VerifyTypeOK, VerifyPCs, checksum
  <2>3. CASE ReadDest
    BY <1>0, <2>0, <2>3, TablesInTurn, ReadDestMoves DEF ReadDest, VerifyTypeOK, VerifyPCs, NoChecksum
  <2>4. CASE SourceUnreadable
    BY <1>0, <2>0, <2>4 DEF SourceUnreadable, VerifyTypeOK, VerifyPCs
  <2>5. CASE DeadlinePassed
    BY <1>0, <2>0, <2>5 DEF DeadlinePassed, VerifyTypeOK, VerifyPCs
  <2> QED
    BY <1>2, <2>1, <2>2, <2>3, <2>4, <2>5 DEF VerifyStep, VerifyProgress, Run, Retry
<1> QED
  BY EitherMoves, <1>1, <1>2

(* Verify's own variables keep their types, and so do the pipeline's.      *)
THEOREM VerifyTypeCorrect == VerifiedSpec => []VerifyTypeOK
<1>1. VerifiedInit => Types /\ VerifyTypeOK
  <2> SUFFICES ASSUME VerifiedInit PROVE Types /\ VerifyTypeOK
    OBVIOUS
  <2>1. Types /\ wal = <<>>
    BY TypesInit DEF VerifiedInit, Init, SourceInit
  <2>2. 0 \in 0..Len(wal)
    BY <2>1
  <2> QED
    BY <2>1, <2>2, TablesInTurn DEF VerifiedInit, VerifyInit, VerifyTypeOK, VerifyPCs, NoChecksum
<1>2. Types /\ VerifyTypeOK /\ [VerifiedNext]_allVars => (Types /\ VerifyTypeOK)'
  BY EitherMoves, TypesNext, VerifyTypeNext
<1> QED
  BY <1>1, <1>2, PTL DEF VerifiedSpec

-----------------------------------------------------------------------------
(* Replaying the history of a row.                                         *)

\* What the destination holds of row r after the first i events of h.
Replayed(h, i, r) == RowEffect(Absent, SubSeq(h, 1, i), r)

\* The image holds nothing newer than version v.
UpTo(image, v) == image # Absent => \A c \in Cols : image[c] <= v

\* The replay of h only holds versions up to v and ends in image, unless that
\* is Absent; and from the first time it reaches image it stays there.
Settles(h, image, v, r) ==
    /\ UpTo(image, v) /\ \A i \in 0..Len(h) : UpTo(Replayed(h, i, r), v)
    /\ image # Absent =>
        /\ Replayed(h, Len(h), r) = image
        /\ \A i \in 0..Len(h) : Replayed(h, i, r) = image => \A j \in i..Len(h) : Replayed(h, j, r) = image

(* One more event changes nothing of the replay up to it.                  *)
LEMMA ReplayAppend ==
    ASSUME NEW h \in Seq(Built), NEW evt \in Built, NEW r \in Rows, evt.row = r
    PROVE  /\ Len(h) \in Nat /\ Len(Append(h, evt)) = Len(h) + 1
           /\ \A i \in 0..Len(h) : Replayed(Append(h, evt), i, r) = Replayed(h, i, r)
           /\ Replayed(Append(h, evt), Len(h) + 1, r) = mergeRow(Replayed(h, Len(h), r), evt)
           /\ \A i \in 0..Len(h) : Replayed(h, i, r) \in Stored
<1> DEFINE w == Append(h, evt)
<1>1. /\ Len(h) \in Nat /\ Len(w) = Len(h) + 1 /\ w \in Seq(Built)
      /\ \A i \in 1..Len(h) : w[i] = h[i] /\ h[i] \in Built
  BY LenProperties, AppendProperties, ElementOfSeq
<1>2. SubSeq(h, 1, Len(h)) = h /\ SubSeq(w, 1, Len(w)) = w
  BY <1>1, SubSeqFull
<1>3. Absent \in Stored
  BY DEF Stored
<1>4. RowEffect(Absent, w, r) = mergeRow(RowEffect(Absent, h, r), evt)
  BY <1>3, RowEffectSteps DEF Stepped
<1> HIDE DEF w
<1>5. ASSUME NEW i \in 0..Len(h)
      PROVE  SubSeq(w, 1, i) = SubSeq(h, 1, i) /\ SubSeq(h, 1, i) \in Seq(Built)
  BY <1>1
<1>6. \A i \in 0..Len(h) : Replayed(h, i, r) \in Stored
  BY <1>3, <1>5, RowEffectSteps DEF Replayed
<1> QED
  BY <1>1, <1>2, <1>4, <1>5, <1>6 DEF Replayed, w

(* An event that gives the row a version it never had, or leaves it as it  *)
(* is, or removes it, keeps the replay settling.                           *)
LEMMA SettlesOn ==
    ASSUME NEW h \in Seq(Built), NEW evt \in Built, NEW r \in Rows, evt.row = r,
           NEW v \in Nat, NEW old \in Stored, NEW new \in Stored,
           Settles(h, old, v, r), Takes(evt, old, new), UpTo(new, v + 1),
           new \notin {Absent, old} => \E c \in Cols : new[c] = v + 1
    PROVE  Settles(Append(h, evt), new, v + 1, r)
<1> DEFINE w == Append(h, evt)
           n == Len(h)
<1>1. /\ n \in Nat /\ Len(w) = n + 1
      /\ \A i \in 0..n : Replayed(w, i, r) = Replayed(h, i, r) /\ Replayed(h, i, r) \in Stored
      /\ Replayed(w, n + 1, r) = mergeRow(Replayed(h, n, r), evt)
  BY ReplayAppend
<1> HIDE DEF w, n
<1>2. old # Absent => Replayed(h, n, r) = old
  BY DEF Settles, n
<1>3. Replayed(w, n + 1, r) = new
  <2>1. CASE evt.op = "d"
    BY <1>1, <2>1 DEF Takes, mergeRow
  <2>2. CASE evt.op # "d" /\ old # Absent
    BY <1>1, <1>2, <2>2 DEF Takes
  <2>3. CASE evt.op # "d" /\ old = Absent
    <3>1. new = Inserted(evt) /\ evt.unchanged = {}
      BY <2>3 DEF Takes, mergeRow
    <3>2. \A image : Overwritten(image, evt) = Inserted(evt)
      BY <3>1 DEF Overwritten, Inserted
    <3> QED
      BY <1>1, <2>3, <3>1, <3>2 DEF mergeRow
  <2> QED
    BY <2>1, <2>2, <2>3
<1>4. \A i \in 0..(n + 1) : i \in 0..n \/ i = n + 1
  BY <1>1
<1>5. \A image \in Stored : UpTo(image, v) => UpTo(image, v + 1)
  <2> SUFFICES ASSUME NEW image \in Stored, UpTo(image, v), image # Absent, NEW c \in Cols
               PROVE  image[c] <= v + 1
    BY DEF UpTo
  <2>1. image[c] \in Nat /\ image[c] <= v
    BY DEF UpTo, Stored, Image
  <2> QED
    BY <2>1
<1>6. \A i \in 0..(n + 1) : UpTo(Replayed(w, i, r), v + 1)
  <2>1. \A i \in 0..n : UpTo(Replayed(h, i, r), v)
    BY DEF Settles, n
  <2> QED
    BY <1>1, <1>3, <1>4, <1>5, <2>1
<1>7. ASSUME new # Absent, NEW i \in 0..(n + 1), Replayed(w, i, r) = new, NEW j \in i..(n + 1)
      PROVE  Replayed(w, j, r) = new
  <2>1. CASE j = n + 1
    BY <1>3, <2>1
  <2>2. CASE j # n + 1
    <3>1. i \in 0..n /\ j \in i..n /\ j \in 0..n
      BY <1>1, <2>2
    <3>2. new = old
      <4> SUFFICES ASSUME new # old PROVE FALSE
        OBVIOUS
      <4>1. PICK c \in Cols : new[c] = v + 1
        BY <1>7
      <4>2. UpTo(Replayed(h, i, r), v)
        BY <3>1 DEF Settles, n
      <4>3. new[c] <= v
        BY <1>1, <1>7, <3>1, <4>2 DEF UpTo
      <4> QED
        BY <4>1, <4>3
    <3>3. Replayed(h, i, r) = old
      BY <1>1, <1>7, <3>1, <3>2
    <3>4. Replayed(h, j, r) = old
      BY <1>7, <3>1, <3>2, <3>3 DEF Settles, n
    <3> QED
      BY <1>1, <3>1, <3>2, <3>4
  <2> QED
    BY <2>1, <2>2
<1>8. Settles(w, new, v + 1, r)
  BY <1>1, <1>3, <1>6, <1>7 DEF Settles
<1> QED
  BY <1>8 DEF w

\* A statement that writes version v stores it in the row, or leaves the row
\* as it is, or removes it.
Fresh(old, new, v) ==
    /\ UpTo(new, v)
    /\ new \notin {Absent, old} => \E c \in Cols : new[c] = v

(* What a statement that writes version v can have written.                *)
LEMMA WrittenTuples ==
    ASSUME "rekeyTouch" \notin ChangeKinds,
           NEW tbl \in Contents, NEW v \in Nat, NEW ch \in Changes(tbl, v)
    PROVE  /\ ch.kind = "insert" => ch.tuple = Written(v)
           /\ ch.kind = "update" => ch.tuple \in {Written(v), Touched(v)}
           /\ ch.kind = "update" /\ ch.row # ch.to => ch.tuple = Written(v)
<1>1. \/ ch \in Inserts(tbl, v) \/ ch \in Deletes(tbl) \/ ch \in Truncates(tbl)
      \/ ch \in Updates(tbl, Written(v)) \/ ch \in Updates(tbl, Touched(v))
      \/ ch \in Rekeys(tbl, Written(v))
  BY SourceAssumption DEF Changes
<1> QED
  BY <1>1 DEF Inserts, Deletes, Truncates, Updates, Rekeys

(* Statements write fresh versions, if there is a column to hold one.      *)
LEMMA StatementsAreFresh ==
    ASSUME "rekeyTouch" \notin ChangeKinds, Cols # {},
           NEW tbl \in Contents, NEW v \in Nat, \A q \in Rows : UpTo(tbl[q], v),
           NEW ch \in Changes(tbl, v + 1), NEW r \in Rows
    PROVE  Fresh(tbl[r], Effect(tbl, ch)[r], v + 1)
<1>0. v + 1 \in Nat /\ ch \in Change /\ Statement(tbl, ch)
  BY ChangesType, StatementsOnly
<1>1. /\ ch.kind = "insert" => ch.tuple = Written(v + 1)
      /\ ch.kind = "update" => ch.tuple \in {Written(v + 1), Touched(v + 1)}
      /\ ch.kind = "update" /\ ch.row # ch.to => ch.tuple = Written(v + 1)
  BY <1>0, WrittenTuples
<1>2. PICK any : any \in Cols
  OBVIOUS
<1>3. \A q \in Rows : tbl[q] # Absent => \A c \in Cols : tbl[q][c] \in Nat /\ tbl[q][c] <= v + 1
  BY DEF UpTo, Contents, Image
<1>4. Fresh(tbl[r], tbl[r], v + 1) /\ Fresh(tbl[r], Absent, v + 1)
  BY <1>3 DEF Fresh, UpTo
<1>5. Fresh(tbl[r], Written(v + 1), v + 1)
  BY <1>0, <1>2 DEF Fresh, UpTo, Written
<1>6. ASSUME NEW q \in Rows, tbl[q] # Absent
      PROVE  /\ Fresh(tbl[r], NewImage(tbl[q], Written(v + 1)), v + 1)
             /\ Fresh(tbl[q], NewImage(tbl[q], Touched(v + 1)), v + 1)
  <2>1. Written(v + 1) = [c \in Cols |-> v + 1]
    BY DEF Written
  <2>2. NewImage(tbl[q], Written(v + 1)) = Written(v + 1)
    BY <1>0, <2>1, SentinelAssumption DEF NewImage
  <2>3. NewImage(tbl[q], Touched(v + 1)) = [c \in Cols |-> IF c \in Toast THEN tbl[q][c] ELSE v + 1]
    BY <1>0, SentinelAssumption DEF NewImage, Touched
  <2>4. UpTo(NewImage(tbl[q], Touched(v + 1)), v + 1)
    BY <1>0, <1>3, <1>6, <2>3 DEF UpTo
  <2>5. CASE Cols \subseteq Toast
    <3>1. tbl[q] = [c \in Cols |-> tbl[q][c]]
      BY <1>6 DEF Contents, Image
    <3>2. NewImage(tbl[q], Touched(v + 1)) = tbl[q]
      BY <2>3, <2>5, <3>1
    <3> QED
      BY <1>5, <2>2, <2>4, <3>2 DEF Fresh
  <2>6. CASE \E c \in Cols : c \notin Toast
    BY <1>5, <2>2, <2>3, <2>4, <2>6 DEF Fresh
  <2> QED
    BY <2>5, <2>6
<1>7. CASE ch.kind = "insert"
  BY <1>0, <1>1, <1>4, <1>5, <1>7 DEF Effect, Change, Contents
<1>8. CASE ch.kind = "update"
  <2>1. ch.row \in Rows /\ ch.to \in Rows /\ tbl[ch.row] # Absent
    BY <1>0, <1>8 DEF Change, Statement
  <2>2. Effect(tbl, ch)[r] = IF r = ch.to THEN NewImage(tbl[ch.row], ch.tuple)
                             ELSE IF r = ch.row THEN Absent ELSE tbl[r]
    BY <1>8 DEF Effect
  <2>3. CASE ch.row = ch.to
    BY <1>1, <1>4, <1>6, <1>8, <2>1, <2>2, <2>3
  <2>4. CASE ch.row # ch.to
    BY <1>1, <1>4, <1>6, <1>8, <2>1, <2>2, <2>4
  <2> QED
    BY <2>3, <2>4
<1>9. CASE ch.kind = "delete"
  BY <1>0, <1>4, <1>9 DEF Effect, Change, Contents
<1>10. CASE ch.kind = "truncate"
  BY <1>0, <1>4, <1>10 DEF Effect, Change, Contents
<1> QED
  BY <1>0, <1>7, <1>8, <1>9, <1>10 DEF Change

\* What a sequence of events does to the replay of row r.
Settling(h, old, v, evts, r, new, w) ==
    Settles(h, old, v, r) => Settles(h \o OfRow(evts, r), new, w, r)

(* So a change keeps every row's replay settling, and so does a            *)
(* transaction.                                                            *)
LEMMA ChangeSettles ==
    ASSUME "rekeyTouch" \notin ChangeKinds, Cols # {},
           NEW tbl \in Contents, NEW v \in Nat, \A q \in Rows : UpTo(tbl[q], v),
           NEW ch \in Changes(tbl, v + 1), NEW r \in Rows, NEW h \in Seq(Built)
    PROVE  /\ Settling(h, tbl[r], v, EventsOf(ch), r, Effect(tbl, ch)[r], v + 1)
           /\ UpTo(Effect(tbl, ch)[r], v + 1)
<1> DEFINE new == Effect(tbl, ch)[r]
           old == tbl[r]
<1>0. v + 1 \in Nat /\ old \in Stored /\ new \in Stored
  BY EffectType DEF Contents, Stored
<1>1. OneEvent(tbl, ch, r) /\ Fresh(old, new, v + 1)
  BY <1>0, ChangeOnRow, StatementsAreFresh
<1>2. CASE OfRow(EventsOf(ch), r) = <<>> /\ new \in {Absent, old}
  <2>1. h \o <<>> = h
    BY ConcatEmptySeq
  <2>2. ASSUME NEW image \in Stored, UpTo(image, v) PROVE UpTo(image, v + 1)
    BY <2>2 DEF UpTo, Stored, Image
  <2>3. \A i \in 0..Len(h) : Replayed(h, i, r) \in Stored
    <3>1. Absent \in Stored
      BY DEF Stored
    <3>2. \A i \in 0..Len(h) : SubSeq(h, 1, i) \in Seq(Built)
      OBVIOUS
    <3> QED
      BY <3>1, <3>2, RowEffectSteps DEF Replayed
  <2> HIDE DEF new, old
  <2>4. Settles(h, old, v, r) => Settles(h, new, v + 1, r)
    BY <1>0, <1>1, <1>2, <2>2, <2>3 DEF Settles, Fresh
  <2> QED
    BY <1>1, <1>2, <2>1, <2>4 DEF Settling, Fresh, new, old
<1>3. ASSUME NEW evt \in Built, OfRow(EventsOf(ch), r) = <<evt>>, evt.row = r, Takes(evt, old, new)
      PROVE  Settling(h, old, v, EventsOf(ch), r, new, v + 1)
  <2>1. h \o <<evt>> = Append(h, evt)
    OBVIOUS
  <2> HIDE DEF new, old
  <2>2. Settles(h, old, v, r) => Settles(Append(h, evt), new, v + 1, r)
    BY <1>0, <1>1, <1>3, SettlesOn DEF Fresh
  <2> QED
    BY <1>3, <2>1, <2>2 DEF Settling
<1>4. ch.kind = "truncate" => new \in {Absent, old}
  BY DEF Effect
<1> QED
  BY <1>1, <1>2, <1>3, <1>4 DEF OneEvent, Fresh

(* The same for a transaction of one change or two.                        *)
LEMMA CommitSettles ==
    ASSUME "rekeyTouch" \notin ChangeKinds, Cols # {},
           SourceTypeOK, SourceStep, \A q \in Rows : UpTo(table[q], version),
           NEW r \in Rows, NEW h \in Seq(Built)
    PROVE  Settling(h, table[r], version, EventsOfTxns(<<wal'[Len(wal')]>>), r, table'[r], version')
<1>0. /\ version \in Nat /\ version + 1 \in Nat /\ version + 2 \in Nat /\ (version + 1) + 1 = version + 2
      /\ table \in Contents /\ wal \in Seq(Seq(Change))
  BY DEF SourceTypeOK
<1>1. \A txn : wal' = Append(wal, txn) => wal'[Len(wal')] = txn
  BY <1>0
<1>2. CASE CommitOne
  <2>1. PICK ch \in Changes(table, version + 1) :
            table' = Effect(table, ch) /\ wal' = Append(wal, <<ch>>)
    BY <1>2 DEF CommitOne
  <2>2. ch \in Change /\ version' = version + 1 /\ wal'[Len(wal')] = <<ch>>
    BY <1>0, <1>1, <1>2, <2>1, ChangesType DEF CommitOne
  <2>3. EventsOfTxns(<<<<ch>>>>) = EventsOf(ch)
    BY <2>2, EventsOfOne
  <2> QED
    BY <1>0, <2>1, <2>2, <2>3, ChangeSettles
<1>3. CASE CommitPair
  <2>1. PICK first \in Changes(table, version + 1) :
            \E second \in Changes(Effect(table, first), version + 2) :
                /\ table' = Effect(Effect(table, first), second)
                /\ wal' = Append(wal, <<first, second>>)
    BY <1>3 DEF CommitPair
  <2>2. PICK second \in Changes(Effect(table, first), version + 2) :
                /\ table' = Effect(Effect(table, first), second)
                /\ wal' = Append(wal, <<first, second>>)
    BY <2>1
  <2> DEFINE a == EventsOf(first)
             b == EventsOf(second)
             tbl == Effect(table, first)
  <2>3. first \in Change /\ tbl \in Contents
    BY <1>0, ChangesType, EffectType
  <2>4. second \in Change /\ version' = version + 2 /\ wal'[Len(wal')] = <<first, second>>
    BY <1>0, <1>1, <1>3, <2>2, <2>3, ChangesType DEF CommitPair
  <2>5. a \in Seq(Built) /\ b \in Seq(Built) /\ EventsOfTxns(<<wal'[Len(wal')]>>) = a \o b
    BY <2>3, <2>4, EventsOfType, EventsOfPair
  <2>6. Settling(h, table[r], version, a, r, tbl[r], version + 1)
    BY <1>0, ChangeSettles
  <2>7. \A q \in Rows : UpTo(tbl[q], version + 1)
    BY <1>0, ChangeSettles
  <2>8. OfRow(a, r) \in Seq(Built) /\ OfRow(b, r) \in Seq(Built) /\ h \o OfRow(a, r) \in Seq(Built)
    BY <2>5, OfRowType, ConcatProperties
  <2>9. second \in Changes(tbl, (version + 1) + 1) /\ table'[r] = Effect(tbl, second)[r]
    BY <1>0, <2>2
  <2> HIDE DEF tbl, b
  <2>10. Settling(h \o OfRow(a, r), tbl[r], version + 1, EventsOf(second), r,
                  Effect(tbl, second)[r], (version + 1) + 1)
    BY <1>0, <2>3, <2>7, <2>8, <2>9, ChangeSettles
  <2>11. Settling(h \o OfRow(a, r), tbl[r], version + 1, b, r, table'[r], version + 2)
    BY <1>0, <2>9, <2>10 DEF b
  <2>12. Splits(a, b, r)
    BY <2>5, OfRowConcat
  <2>13. (h \o OfRow(a, r)) \o OfRow(b, r) = h \o (OfRow(a, r) \o OfRow(b, r))
    BY <2>8, ConcatAssociative
  <2> HIDE DEF a
  <2> QED
    BY <2>4, <2>5, <2>6, <2>11, <2>12, <2>13 DEF Settling, Splits
<1>4. CASE CommitOther
  <2>1. wal'[Len(wal')] = <<>> /\ UNCHANGED <<table, version>>
    BY <1>1, <1>4 DEF CommitOther
  <2>2. OfRow(EventsOfTxns(<<wal'[Len(wal')]>>), r) = <<>>
    BY <2>1, EventsOfNone, OfRowType
  <2>3. h \o <<>> = h
    BY ConcatEmptySeq
  <2> QED
    BY <2>1, <2>2, <2>3 DEF Settling
<1> QED
  BY <1>2, <1>3, <1>4 DEF SourceStep

\* The topic's history of every row settles on what the source has.
SettledInv == \A r \in Rows : Settles(History(r), table[r], version, r)

(* A seeded row has one event, and that is its image.                      *)
LEMMA SettledInit == Init => SettledInv
<1> SUFFICES ASSUME Init, NEW r \in Rows PROVE Settles(History(r), table[r], version, r)
  BY DEF SettledInv
<1> DEFINE p == PartitionOf[r]
           h == History(r)
<1>1. /\ p \in Partitions /\ table \in Contents /\ log[p] = SeedEvents(p) /\ log[p] \in Seq(Built)
      /\ dest[r] = Absent /\ committed[p] = 0 /\ version = 1
  BY TypesInit, ShapeAssumption
     DEF Types, SourceTypeOK, WriterTypes, LogOK, Init, SourceInit, WriterInit, NoMessage
<1>2. SeedOK(p)
  BY <1>1, SeedLemma
<1>3. h = IF table[r] # Absent THEN <<rowToEvent(r, table[r])>> ELSE <<>>
  BY <1>1, <1>2 DEF SeedOK, SeededAt, History
<1>4. h \in Seq(Built) /\ Len(h) \in {0, 1} /\ SubSeq(h, 1, Len(h)) = h
  <2>1. h \in Seq(Built)
    BY <1>1, OfRowType DEF History
  <2>2. Len(h) \in {0, 1}
    BY <1>3
  <2> QED
    BY <2>1, <2>2, SubSeqFull
<1>5. Absent \in Stored /\ RowEffect(Absent, <<>>, r) = Absent
  BY RowEffectSteps DEF Stored
<1>6. Replayed(h, Len(h), r) = table[r]
  <2>0. Owed(p) = log[p]
    BY <1>1, SubSeqFull DEF Owed
  <2>1. RowEffect(Absent, log[p], r) = table[r]
    BY <1>1, <2>0, DestInit DEF DestInv
  <2>2. RowEffect(Absent, h, r) = RowEffect(Absent, log[p], r)
    BY <1>1, <1>5, OnlyItsEvents DEF History
  <2> QED
    BY <1>4, <2>1, <2>2 DEF Replayed
<1>7. Replayed(h, 0, r) = Absent
  <2>1. SubSeq(h, 1, 0) = <<>>
    BY <1>4
  <2> QED
    BY <1>5, <2>1 DEF Replayed
<1>8. table[r] \in {Absent, Written(1)}
  BY <1>1 DEF Init, SourceInit
<1>9. UpTo(table[r], 1) /\ UpTo(Absent, 1)
  BY <1>8 DEF UpTo, Written
<1> HIDE DEF h
<1>10. \A i \in 0..Len(h) : i = 0 \/ i = Len(h)
  <2>1. CASE Len(h) = 0
    BY <2>1
  <2>2. CASE Len(h) = 1
    BY <2>2
  <2> QED
    BY <1>4, <2>1, <2>2
<1>11. \A i \in 0..Len(h) : UpTo(Replayed(h, i, r), 1)
  BY <1>6, <1>7, <1>9, <1>10
<1>12. ASSUME table[r] # Absent, NEW i \in 0..Len(h), Replayed(h, i, r) = table[r], NEW j \in i..Len(h)
       PROVE  Replayed(h, j, r) = table[r]
  <2>1. i = Len(h) /\ Len(h) \in Nat
    <3>1. i # 0
      BY <1>7, <1>12
    <3>2. Len(h) \in Nat
      BY <1>4
    <3> QED
      BY <1>10, <3>1, <3>2
  <2>2. j = Len(h)
    BY <1>12, <2>1
  <2> QED
    BY <1>6, <2>2
<1>13. Settles(h, table[r], 1, r)
  BY <1>6, <1>9, <1>11, <1>12 DEF Settles
<1> QED
  BY <1>1, <1>13 DEF h

(* Every step keeps every history settling.                                *)
LEMMA SettledNext ==
    ASSUME "rekeyTouch" \notin ChangeKinds, Cols # {}, Types, SettledInv, [Next]_vars
    PROVE  SettledInv'
<1>1. CASE UNCHANGED <<table, version, log>>
  BY <1>1 DEF SettledInv, History
<1>2. CASE Feed
  <2> SUFFICES ASSUME NEW r \in Rows PROVE Settles(History(r)', table'[r], version', r)
    BY DEF SettledInv
  <2> DEFINE p == PartitionOf[r]
             evts == EventsOfTxns(<<wal'[Len(wal')]>>)
  <2>1. p \in Partitions /\ log[p] \in Seq(Built) /\ History(r) \in Seq(Built)
    BY ShapeAssumption, OfRowType DEF Types, WriterTypes, LogOK, History
  <2>2. SourceTypeOK /\ SourceStep /\ \A q \in Rows : UpTo(table[q], version)
    BY <1>2 DEF Types, Feed, SettledInv, Settles
  <2>3. Settling(History(r), table[r], version, evts, r, table'[r], version')
    BY <2>1, <2>2, CommitSettles
  <2>4. OfRow(Fed(p), r) = OfRow(evts, r) /\ Fed(p) \in Seq(Built) /\ log'[p] = log[p] \o Fed(p)
    BY <1>2, FedRow
  <2>5. Splits(log[p], Fed(p), r)
    BY <2>1, <2>4, OfRowConcat
  <2> HIDE DEF evts
  <2>6. History(r)' = History(r) \o OfRow(evts, r)
    BY <2>4, <2>5 DEF Splits, History
  <2> QED
    BY <2>3, <2>6 DEF SettledInv, Settling
<1> QED
  BY <1>1, <1>2 DEF Next, vars, sourceVars, sinkVars

-----------------------------------------------------------------------------
(* The destination replays the topic.                                      *)

\* What the group has committed of a partition.
Past(p) == SubSeq(log[p], 1, committed[p])

\* A table that has a batch waiting is where the last commit left it; one
\* that has none is where the next commit will leave it.
ReplayInv ==
    \A r \in Rows : LET p == PartitionOf[r] IN
        dest[r] = RowEffect(Absent, IF perTable[TableOf[r]] = <<>> THEN Past(p) \o Taken(p) ELSE Past(p), r)

\* The writer has not been disturbed in any other way than by waiting.
Undisturbed == faults = 0 => IInv /\ BufferInv /\ ReplayInv

(* A partition is what is past, what is taken and what is left.            *)
LEMMA PastTaken ==
    ASSUME Types, IInv, NEW p \in Partitions
    PROVE  /\ Past(p) \in Seq(Built) /\ log[p] = Past(p) \o (Taken(p) \o Left(p))
           /\ SubSeq(log[p], 1, OffsetsTaken[p]) = Past(p) \o Taken(p)
<1> DEFINE m == committed[p]
           k == OffsetsTaken[p]
           n == Len(log[p])
           s == log[p]
<1>1. s \in Seq(Built) /\ n \in Nat /\ m \in Nat /\ k \in m..n /\ Owed(p) = Taken(p) \o Left(p)
  BY TakenType DEF Types
<1>2. Past(p) = SubSeq(s, 1, m) /\ Taken(p) = SubSeq(s, m + 1, k) /\ Owed(p) = SubSeq(s, m + 1, n)
  BY DEF Past, Taken, Owed
<1>3. s = SubSeq(s, 1, n)
  BY <1>1, SubSeqFull
<1> HIDE DEF m, k, n
<1>4. 1 \in 1..(n + 1) /\ m \in (1 - 1)..n /\ n \in m..n /\ m \in (1 - 1)..k /\ m \in 0..n
  BY <1>1
<1>5. n = Len(s)
  BY DEF n
<1> HIDE DEF s
<1>6. SubSeq(s, 1, m) \o SubSeq(s, m + 1, n) = SubSeq(s, 1, n)
  BY <1>1, <1>4, <1>5, ConcatAdjacentSubSeq
<1>7. SubSeq(s, 1, m) \o SubSeq(s, m + 1, k) = SubSeq(s, 1, k)
  BY <1>1, <1>4, <1>5, ConcatAdjacentSubSeq
<1>8. Past(p) \in Seq(Built)
  <2>1. \A i \in 1..m : s[i] \in Built
    BY <1>1, <1>4, <1>5, ElementOfSeq
  <2> QED
    BY <1>1, <1>2, <2>1
<1> QED
  BY <1>1, <1>2, <1>3, <1>6, <1>7, <1>8 DEF s, k

(* At first the destination has replayed nothing.                          *)
LEMMA ReplayInit == Init => ReplayInv
<1> SUFFICES ASSUME Init, NEW r \in Rows
             PROVE  LET p == PartitionOf[r] IN dest[r] = RowEffect(Absent, Past(p) \o Taken(p), r)
  BY ShapeAssumption DEF ReplayInv, Init, WriterInit, EmptyBuffer
<1> DEFINE p == PartitionOf[r]
<1>1. /\ p \in Partitions /\ committed[p] = 0 /\ OffsetsTaken[p] = 0 /\ dest[r] = Absent
      /\ log[p] \in Seq(Built)
  BY TypesInit, ShapeAssumption DEF Types, WriterTypes, LogOK, Init, WriterInit, NoMessage, OffsetsTaken
<1>2. Past(p) = <<>> /\ Taken(p) = <<>>
  BY <1>1, SubSeqEmpty DEF Past, Taken
<1>3. Past(p) \o Taken(p) = <<>>
  BY <1>2
<1>4. RowEffect(Absent, <<>>, r) = Absent
  BY RowEffectSteps DEF Stored
<1> QED
  BY <1>1, <1>3, <1>4

(* A flush of a row's table takes it from what is past to what was taken.  *)
LEMMA FlushReplays ==
    ASSUME Types, IInv, BufferInv, HistoryInv, ReplayInv, NEW t \in Tables, FlushTable(t),
           NEW r \in Rows
    PROVE  LET p == PartitionOf[r] IN
           /\ TableOf[r] = t => /\ dest[r] = RowEffect(Absent, Past(p), r)
                                /\ dest'[r] = RowEffect(Absent, Past(p) \o Taken(p), r)
           /\ TableOf[r] # t => dest'[r] = dest[r] /\ perTable'[TableOf[r]] = perTable[TableOf[r]]
<1> DEFINE p == PartitionOf[r]
<1>1. perTable[t] # <<>> /\ perTable' = [perTable EXCEPT ![t] = <<>>] /\ perTable \in [Tables -> Seq(Built)]
  BY DEF FlushTable, Types, WriterTypes, BufferOK
<1>2. perTable[t] \in Seq(Built) /\ dest \in Contents /\ dest' = ApplyAll(dest, perTable[t])
  BY BatchFull, CollapsedBatch DEF FlushTable, Types, WriterTypes, WriterOK
<1>3. p \in Partitions /\ TableOf[r] \in Tables /\ dest[r] \in Stored /\ Absent \in Stored
  BY <1>2, ShapeAssumption DEF Contents, Stored
<1>4. dest'[r] = RowEffect(dest[r], perTable[t], r)
  BY <1>2, RowWise
<1>5. CASE TableOf[r] = t
  <2>1. Taken(p) \in Seq(Built) /\ Past(p) \in Seq(Built)
    BY <1>3, TakenType, PastTaken DEF Types
  <2>2. dest[r] = RowEffect(Absent, Past(p), r)
    BY <1>1, <1>5 DEF ReplayInv
  <2>3. OfRow(perTable[t], r) = OfRow(Taken(p), r)
    BY <1>1, <1>5 DEF BufferInv
  <2>4. dest'[r] = RowEffect(dest[r], Taken(p), r)
    BY <1>2, <1>3, <1>4, <2>1, <2>3, SameEvents
  <2>5. RowEffect(Absent, Past(p) \o Taken(p), r) = RowEffect(RowEffect(Absent, Past(p), r), Taken(p), r)
    BY <1>3, <2>1, RowEffectConcat
  <2> QED
    BY <1>5, <2>2, <2>4, <2>5
<1>6. CASE TableOf[r] # t
  <2>1. OfRow(perTable[t], r) = <<>>
    BY <1>6, NoneOfRow DEF OfTable, Types, WriterTypes, BufferOK
  <2>2. dest'[r] = dest[r]
    BY <1>2, <1>3, <1>4, <2>1, Untouched
  <2> QED
    BY <1>1, <1>3, <1>6, <2>2
<1> QED
  BY <1>5, <1>6

(* Every step but a kill and a rebalance goes on with the replay.          *)
LEMMA ReplayNext ==
    ASSUME ~Rebalance, ~WriterCrash, Types, IInv, BufferInv, HistoryInv, ReplayInv, [Next]_vars
    PROVE  ReplayInv'
<1>0. /\ IInv'
      /\ \A r \in Rows : TableOf[r] \in Tables /\ PartitionOf[r] \in Partitions
      /\ Absent \in Stored /\ perTable \in [Tables -> Seq(Built)]
      /\ \A p \in Partitions : Past(p) \in Seq(Built) /\ Taken(p) \in Seq(Built)
  BY InvNext, ShapeAssumption, TakenType, PastTaken DEF Stored, Types, WriterTypes, BufferOK
<1>1. CASE UNCHANGED <<dest, perTable>> /\ \A p \in Partitions : Past(p)' = Past(p) /\ Taken(p)' = Taken(p)
  BY <1>0, <1>1 DEF ReplayInv
<1>2. CASE UNCHANGED vars
  <2>1. UNCHANGED <<dest, perTable, log, committed, newest>>
    BY <1>2 DEF vars, sinkVars, writerVars, bufferVars, destVars
  <2> QED
    BY <1>1, <2>1 DEF Past, Taken, OffsetsTaken
<1>3. CASE Feed
  <2>1. UNCHANGED <<dest, perTable, committed>>
    BY <1>3 DEF Feed, writerVars, bufferVars, destVars
  <2>2. ASSUME NEW p \in Partitions PROVE Past(p)' = Past(p)
    <3>1. /\ log'[p] = log[p] \o Fed(p) /\ log[p] \in Seq(Built) /\ Fed(p) \in Seq(Built)
          /\ Len(log[p]) \in Nat /\ committed[p] \in Nat /\ committed[p] <= Len(log[p])
      BY <1>3, FeedLemma, TakenType DEF Types, WriterTypes, LogOK, PositionsOK
    <3> HIDE DEF Fed
    <3> QED
      BY <2>1, <3>1 DEF Past
  <2> QED
    BY <1>1, <1>3, <2>1, <2>2, FeedTaken
<1>4. CASE UNCHANGED <<sourceVars, sinkVars>> /\ WriterStep
  <2>0. log' = log
    BY <1>4 DEF sinkVars
  <2>1. CASE WriterStart \/ FlushInterval
    <3>1. UNCHANGED <<dest, perTable, committed, newest>>
      BY <2>1 DEF WriterStart, FlushInterval, bufferVars, destVars
    <3> QED
      BY <1>1, <2>0, <3>1 DEF Past, Taken, OffsetsTaken
  <2>2. ASSUME NEW p \in Partitions, Fetch(p)
        PROVE  ReplayInv'
    <3> DEFINE evt == Message(p)
    <3>1. /\ evt \in Built /\ evt.row \in Rows /\ PartitionOf[evt.row] = p
          /\ perTable' = [perTable EXCEPT ![TableOf[evt.row]] = Append(@, evt)]
      BY <2>2, FetchLemma DEF Types
    <3>2. \A q \in Partitions : Taken(q)' = IF q = p THEN Append(Taken(p), evt) ELSE Taken(q)
      BY <1>0, <2>0, <2>2, FetchTaken DEF Types
    <3>3. writerPC = "run" /\ UNCHANGED <<dest, committed>> /\ \A q \in Partitions : Past(q)' = Past(q)
      BY <2>0, <2>2 DEF Fetch, destVars, Past
    <3> HIDE DEF evt
    <3> SUFFICES ASSUME NEW r \in Rows
                 PROVE  LET q == PartitionOf[r] IN
                        dest[r] = RowEffect(Absent, IF perTable'[TableOf[r]] = <<>> THEN Past(q) \o Taken(q)'
                                                    ELSE Past(q), r)
      BY <1>0, <3>3 DEF ReplayInv
    <3> DEFINE q == PartitionOf[r]
    <3>4. CASE TableOf[r] = TableOf[evt.row]
      <4>1. perTable'[TableOf[r]] # <<>>
        <5> DEFINE s == perTable[TableOf[r]]
        <5>1. perTable'[TableOf[r]] = Append(s, evt) /\ s \in Seq(Built)
          BY <1>0, <3>1, <3>4
        <5> HIDE DEF s
        <5> QED
          BY <3>1, <5>1, AppendProperties
      <4>2. CASE perTable[TableOf[r]] # <<>>
        BY <4>1, <4>2 DEF ReplayInv
      <4>3. CASE perTable[TableOf[r]] = <<>>
        <5>1. dest[r] = RowEffect(Absent, Past(q) \o Taken(q), r)
          BY <4>3 DEF ReplayInv
        <5>2. OfRow(Taken(q), r) = <<>>
          BY <3>3, <4>3, OfRowType DEF BufferInv
        <5>3. RowEffect(Absent, Past(q) \o Taken(q), r) = RowEffect(RowEffect(Absent, Past(q), r), Taken(q), r)
          BY <1>0, RowEffectConcat
        <5>4. RowEffect(Absent, Past(q), r) \in Stored
          BY <1>0, RowEffectSteps
        <5>5. RowEffect(RowEffect(Absent, Past(q), r), Taken(q), r) = RowEffect(Absent, Past(q), r)
          BY <1>0, <5>2, <5>4, Untouched
        <5> QED
          BY <4>1, <5>1, <5>3, <5>5
      <4> QED
        BY <4>2, <4>3
    <3>5. CASE TableOf[r] # TableOf[evt.row]
      <4>1. perTable'[TableOf[r]] = perTable[TableOf[r]] /\ evt.row # r
        BY <1>0, <3>1, <3>5
      <4>2. RowEffect(Absent, Past(q) \o Taken(q)', r) = RowEffect(Absent, Past(q) \o Taken(q), r)
        <5>1. CASE q = p
          <6>1. Past(q) \o Append(Taken(q), evt) = Append(Past(q) \o Taken(q), evt)
            BY <1>0, <3>1, ConcatAppend
          <6>2. Past(q) \o Taken(q) \in Seq(Built)
            BY <1>0, ConcatProperties
          <6>3. RowEffect(Absent, Append(Past(q) \o Taken(q), evt), r)
                  = Stepped(RowEffect(Absent, Past(q) \o Taken(q), r), evt, r)
            BY <1>0, <3>1, <6>2, RowEffectSteps
          <6>4. Taken(q)' = Append(Taken(q), evt)
            BY <1>0, <3>2, <5>1
          <6> QED
            BY <4>1, <6>1, <6>3, <6>4 DEF Stepped
        <5>2. CASE q # p
          BY <1>0, <3>2, <5>2
        <5> QED
          BY <5>1, <5>2
      <4> QED
        BY <4>1, <4>2 DEF ReplayInv
    <3> QED
      BY <3>4, <3>5
  <2>3. ASSUME NEW t \in Tables, FlushTable(t)
        PROVE  ReplayInv'
    <3>1. UNCHANGED <<committed, newest>> /\ perTable' = [perTable EXCEPT ![t] = <<>>]
      BY <2>3 DEF FlushTable
    <3>2. \A p \in Partitions : Past(p)' = Past(p) /\ Taken(p)' = Taken(p)
      BY <2>0, <3>1 DEF Past, Taken, OffsetsTaken
    <3>3. ASSUME NEW r \in Rows
          PROVE  LET p == PartitionOf[r] IN
                 dest'[r] = RowEffect(Absent, IF perTable'[TableOf[r]] = <<>> THEN Past(p) \o Taken(p)
                                              ELSE Past(p), r)
      <4>1. CASE TableOf[r] = t
        <5>1. perTable'[TableOf[r]] = <<>>
          BY <1>0, <3>1, <4>1
        <5> QED
          BY <2>3, <4>1, <5>1, FlushReplays
      <4>2. CASE TableOf[r] # t
        <5>1. dest'[r] = dest[r] /\ perTable'[TableOf[r]] = perTable[TableOf[r]]
          BY <2>3, <4>2, FlushReplays
        <5> QED
          BY <5>1 DEF ReplayInv
      <4> QED
        BY <4>1, <4>2
    <3> QED
      BY <1>0, <3>2, <3>3 DEF ReplayInv
  <2>4. CASE CommitOffsets
    <3>1. /\ perTable = EmptyBuffer /\ perTable' = perTable /\ committed' = OffsetsTaken
          /\ newest' = NoMessage /\ dest' = dest
      BY <2>4 DEF CommitOffsets, destVars
    <3>2. ASSUME NEW p \in Partitions
          PROVE  Past(p)' \o Taken(p)' = Past(p) \o Taken(p)
      <4>1. Past(p)' = Past(p) \o Taken(p) /\ Past(p)' \in Seq(Built)
        BY <1>0, <2>0, <3>1, PastTaken, ConcatProperties DEF Past
      <4>2. OffsetsTaken'[p] = committed'[p] /\ committed'[p] \in Nat
        BY <1>0, <3>1 DEF OffsetsTaken, NoMessage, IInv, Offsets
      <4>3. Taken(p)' = <<>>
        BY <4>2, SubSeqEmpty DEF Taken
      <4> QED
        BY <4>1, <4>3, ConcatEmptySeq
    <3>3. \A r \in Rows : perTable[TableOf[r]] = <<>>
      BY <1>0, <3>1 DEF EmptyBuffer
    <3> QED
      BY <1>0, <3>1, <3>2, <3>3 DEF ReplayInv
  <2> QED
    BY <1>4, <2>1, <2>2, <2>3, <2>4 DEF WriterStep, WriterProgress
<1> QED
  BY <1>2, <1>3, <1>4 DEF Next

(* A pipeline without a fault behind it had none before its last step.     *)
LEMMA NotYetDisturbed ==
    ASSUME Types, [Next]_vars, faults' = 0
    PROVE  faults = 0 /\ ~Rebalance /\ ~WriterCrash
<1>1. faults \in Nat
  BY FaultsAssumption DEF Types, FaultsTypeOK
<1>2. ~Rebalance /\ ~WriterCrash
  BY <1>1 DEF Rebalance, WriterCrash, Fault
<1>3. faults' = faults
  BY <1>2 DEF Next, Feed, vars, WriterStep, WriterProgress, WriterStart, Fetch, FlushTable,
              FlushInterval, CommitOffsets, NoFault
<1> QED
  BY <1>2, <1>3

(* So until the first fault the buffer and the destination are what they   *)
(* should be.                                                              *)
LEMMA UndisturbedNext ==
    ASSUME Types, HistoryInv, Undisturbed, [Next]_vars
    PROVE  Undisturbed'
<1> SUFFICES ASSUME faults' = 0 PROVE IInv' /\ BufferInv' /\ ReplayInv'
  BY DEF Undisturbed
<1>1. faults = 0 /\ ~Rebalance /\ ~WriterCrash
  BY NotYetDisturbed
<1> QED
  BY <1>1, InvNext, BufferNext, ReplayNext DEF Undisturbed

(* A replay that has reached a settled image in its first part is still    *)
(* there after the second.                                                 *)
LEMMA SettledOnce ==
    ASSUME NEW a \in Seq(Built), NEW b \in Seq(Built), NEW c \in Seq(Built), NEW r \in Rows,
           NEW image, NEW v, image # Absent, Settles(a \o (b \o c), image, v, r),
           RowEffect(Absent, a, r) = image
    PROVE  RowEffect(Absent, a \o b, r) = image
<1> DEFINE h == a \o (b \o c)
           m == Len(a)
           k == Len(a) + Len(b)
<1>1. m \in Nat /\ k \in Nat /\ Len(c) \in Nat /\ Len(h) = k + Len(c) /\ m <= k
  OBVIOUS
<1>2. SubSeq(h, 1, m) = a /\ SubSeq(h, 1, k) = a \o b
  OBVIOUS
<1> HIDE DEF h, m, k
<1>3. m \in 0..Len(h) /\ k \in m..Len(h)
  BY <1>1
<1>4. Replayed(h, m, r) = image
  BY <1>2 DEF Replayed
<1>5. Replayed(h, k, r) = image
  BY <1>3, <1>4 DEF Settles, h
<1> QED
  BY <1>2, <1>5 DEF Replayed

(* A row that is at the destination as the source has it stays so while    *)
(* the source rests: no batch on its way touches it again.                 *)
LEMMA StaysArrived ==
    ASSUME Types, HistoryInv, SettledInv, Undisturbed, [Next]_vars, faults' = 0,
           UNCHANGED <<wal, table>>, NEW r \in Rows, table[r] # Absent, dest[r] = table[r]
    PROVE  dest'[r] = dest[r]
<1>0. faults = 0 /\ ~Rebalance /\ ~WriterCrash /\ IInv /\ BufferInv /\ ReplayInv
  BY NotYetDisturbed DEF Undisturbed
<1>1. CASE dest' = dest
  BY <1>1
<1>2. ASSUME NEW t \in Tables, FlushTable(t)
      PROVE  dest'[r] = dest[r]
  <2> DEFINE p == PartitionOf[r]
             a == OfRow(Past(p), r)
             b == OfRow(Taken(p), r)
             c == OfRow(Left(p), r)
  <2>1. p \in Partitions /\ Absent \in Stored
    BY ShapeAssumption DEF Stored
  <2>2. /\ Past(p) \in Seq(Built) /\ Taken(p) \in Seq(Built) /\ Left(p) \in Seq(Built)
        /\ Taken(p) \o Left(p) \in Seq(Built) /\ Past(p) \o Taken(p) \in Seq(Built)
        /\ log[p] = Past(p) \o (Taken(p) \o Left(p))
    BY <1>0, <2>1, TakenType, PastTaken, ConcatProperties DEF Types
  <2>3. a \in Seq(Built) /\ b \in Seq(Built) /\ c \in Seq(Built)
    BY <2>2, OfRowType
  <2>4. History(r) = a \o (b \o c)
    <3>1. OfRow(Taken(p) \o Left(p), r) = b \o c
      BY <2>2, OfRowConcat DEF Splits
    <3>2. Splits(Past(p), Taken(p) \o Left(p), r)
      BY <2>2, OfRowConcat
    <3> QED
      BY <2>2, <3>1, <3>2 DEF Splits, History
  <2>5. OfRow(Past(p) \o Taken(p), r) = a \o b
    BY <2>2, OfRowConcat DEF Splits
  <2>6. CASE TableOf[r] = t
    <3>1. dest[r] = RowEffect(Absent, Past(p), r) /\ dest'[r] = RowEffect(Absent, Past(p) \o Taken(p), r)
      BY <1>0, <1>2, <2>6, FlushReplays
    <3>2. RowEffect(Absent, a, r) = dest[r] /\ RowEffect(Absent, a \o b, r) = dest'[r]
      <4>1. RowEffect(Absent, OfRow(Past(p), r), r) = RowEffect(Absent, Past(p), r)
        BY <2>1, <2>2, OnlyItsEvents
      <4>2. RowEffect(Absent, OfRow(Past(p) \o Taken(p), r), r) = RowEffect(Absent, Past(p) \o Taken(p), r)
        BY <2>1, <2>2, OnlyItsEvents
      <4> QED
        BY <2>5, <3>1, <4>1, <4>2
    <3>3. Settles(a \o (b \o c), table[r], version, r)
      BY <2>4 DEF SettledInv
    <3> HIDE DEF a, b, c
    <3>4. RowEffect(Absent, a \o b, r) = table[r]
      BY <2>3, <3>2, <3>3, SettledOnce
    <3> QED
      BY <3>2, <3>4
  <2>7. CASE TableOf[r] # t
    BY <1>0, <1>2, <2>7, FlushReplays
  <2> QED
    BY <2>6, <2>7
<1> QED
  BY <1>0, <1>1, <1>2 DEF Next, Feed, vars, writerVars, destVars, WriterStep, WriterProgress, WriterStart,
                          Fetch, FlushInterval, CommitOffsets

-----------------------------------------------------------------------------
(* What a MATCH means.                                                     *)

\* The tables that this pass has found equal.
Passed(t) ==
    /\ t \notin mismatches
    /\ \/ verifyPC = "match"
       \/ verifyPC \in {"source", "dest"} /\ \E i \in 1..(checking - 1) : shapes[i] = t

\* Of a pass that has not been overtaken by the source or by a fault: the
\* digest it holds is of the source as it is, and the rows of the tables it
\* has found equal have arrived.
MatchInv ==
    began = Len(wal) /\ faults = 0 =>
        /\ verifyPC = "dest" => srcCS = checksum(table, shapes[checking])
        /\ verifyPC = "match" => mismatches = {}
        /\ \A r \in Rows : Passed(TableOf[r]) /\ table[r] # Absent => dest[r] = table[r]

(* A comparison that finds a table equal has found its rows at the         *)
(* destination.                                                            *)
LEMMA ReadDestPasses ==
    ASSUME Types, VerifyTypeOK, MatchInv, began = Len(wal), faults = 0, ReadDest, UNCHANGED vars,
           NEW r \in Rows, Passed(TableOf[r])', table[r] # Absent
    PROVE  dest[r] = table[r]
<1> DEFINE t == TableOf[r]
           i == checking
<1>0. t \in Tables /\ i \in 1..Len(shapes) /\ Len(shapes) \in Nat /\ verifyPC = "dest"
  BY ShapeAssumption, TablesInTurn DEF VerifyTypeOK, ReadDest
<1>1. mismatches \subseteq mismatches' /\ (~Agrees(shapes[i]) => shapes[i] \in mismatches')
  BY DEF ReadDest
<1>2. t \notin mismatches /\ t \notin mismatches'
  BY <1>1 DEF Passed
<1>3. \E j \in 1..i : shapes[j] = t
  <2>1. CASE verifyPC' = "match"
    <3>1. i = Len(shapes)
      BY <1>0, <2>1, ReadDestMoves
    <3> QED
      BY <1>0, <3>1, TablesInTurn
  <2>2. CASE verifyPC' # "match"
    <3>1. verifyPC' = "source" /\ \E j \in 1..(checking' - 1) : shapes[j] = t
      BY <1>0, <2>2, ReadDestMoves DEF Passed
    <3>2. checking' = i + 1
      BY <1>0, <3>1, ReadDestMoves
    <3> QED
      BY <1>0, <3>1, <3>2
  <2> QED
    BY <2>1, <2>2
<1>4. PICK j \in 1..i : shapes[j] = t
  BY <1>3
<1>5. CASE j = i
  <2>1. Agrees(t)
    BY <1>1, <1>2, <1>4, <1>5
  <2>2. checksum(dest, t) = checksum(table, t)
    BY <1>0, <1>4, <1>5, <2>1 DEF Agrees, MatchInv
  <2>3. checksum(dest, t)[r] = dest[r] /\ checksum(table, t)[r] = table[r]
    BY DEF checksum
  <2> QED
    BY <2>2, <2>3
<1>6. CASE j # i
  <2>1. j \in 1..(i - 1)
    BY <1>0, <1>6
  <2>2. Passed(t)
    BY <1>0, <1>2, <1>4, <2>1 DEF Passed
  <2> QED
    BY <2>2 DEF MatchInv
<1> QED
  BY <1>5, <1>6

(* Neither a query of verify nor a batch that the writer applies meanwhile *)
(* changes what the pass has found.                                        *)
LEMMA MatchNext ==
    ASSUME Types, VerifyTypeOK, HistoryInv, SettledInv, Undisturbed, MatchInv, [VerifiedNext]_allVars
    PROVE  MatchInv'
<1> SUFFICES ASSUME began' = Len(wal'), faults' = 0
             PROVE  /\ verifyPC' = "dest" => srcCS' = checksum(table', shapes[checking'])
                    /\ verifyPC' = "match" => mismatches' = {}
                    /\ \A r \in Rows : Passed(TableOf[r])' /\ table'[r] # Absent => dest'[r] = table'[r]
  BY DEF MatchInv
<1>1. CASE UNCHANGED verifyVars
  <2>1. faults = 0 /\ [Next]_vars
    BY EitherMoves, NotYetDisturbed
  <2>2. UNCHANGED <<wal, table>>
    <3>1. CASE Feed
      <4>1. Len(wal') = Len(wal) + 1 /\ Len(wal) \in Nat
        BY <3>1, WalGrows DEF Feed, Types
      <4>2. began \in 0..Len(wal) /\ began' = began
        BY <1>1 DEF VerifyTypeOK, verifyVars
      <4> QED
        BY <4>1, <4>2
    <3>2. CASE ~Feed
      BY <2>1, <3>2 DEF Next, vars, sourceVars
    <3> QED
      BY <3>1, <3>2
  <2>3. began = Len(wal) /\ UNCHANGED <<verifyPC, srcCS, checking, mismatches>> /\ \A t : Passed(t)' = Passed(t)
    BY <1>1, <2>2 DEF verifyVars, Passed
  <2>4. ASSUME NEW r \in Rows, Passed(TableOf[r]), table[r] # Absent
        PROVE  dest'[r] = table'[r]
    <3>1. dest[r] = table[r]
      BY <2>1, <2>3, <2>4 DEF MatchInv
    <3> QED
      BY <2>1, <2>2, <2>4, <3>1, StaysArrived
  <2> QED
    BY <2>1, <2>2, <2>3, <2>4 DEF MatchInv
<1>2. CASE VerifyStep /\ UNCHANGED vars
  <2>0. UNCHANGED <<wal, table, dest, faults>> /\ faults = 0
    BY <1>2 DEF vars, sourceVars, writerVars, destVars
  <2>1. CASE BeginPass
    <3>1. verifyPC' = "source" /\ checking' = 1
      BY <2>1 DEF BeginPass
    <3>2. \A t : ~Passed(t)'
      BY <3>1 DEF Passed
    <3> QED
      BY <3>1, <3>2
  <2>2. CASE ReadSource
    <3>1. /\ srcCS' = checksum(table, shapes[checking]) /\ verifyPC = "source" /\ verifyPC' = "dest"
          /\ UNCHANGED <<checking, mismatches, began>>
      BY <2>2 DEF ReadSource
    <3>2. \A t : Passed(t)' => Passed(t)
      BY <3>1 DEF Passed
    <3> QED
      BY <2>0, <3>1, <3>2 DEF MatchInv
  <2>3. CASE ReadDest
    <3>1. verifyPC' # "dest" /\ began = Len(wal)
      BY <2>0, <2>3 DEF ReadDest, AtLastTable
    <3> QED
      BY <1>2, <2>0, <2>3, <3>1, ReadDestPasses, ReadDestMoves DEF VerifyTypeOK
  <2>4. CASE SourceUnreadable
    BY <2>4 DEF SourceUnreadable, Passed
  <2>5. CASE DeadlinePassed
    BY <2>5 DEF DeadlinePassed, Passed
  <2> QED
    BY <1>2, <2>1, <2>2, <2>3, <2>4, <2>5 DEF VerifyStep, VerifyProgress, Run, Retry
<1> QED
  BY EitherMoves, <1>1, <1>2

(* "Which is what makes its MATCH trustworthy" (verify.go:18-19): after a  *)
(* pass during which the source was quiet, every row that the source has   *)
(* is at the destination with the source's values, and stays there,        *)
(* whatever the writer still has to apply, until a kill or a rebalance     *)
(* makes it apply a batch again.  Every table needs a column outside its   *)
(* key: without one, a row that was removed and inserted again cannot be   *)
(* told from the one it was.                                               *)
THEOREM MatchIsTrustworthy ==
    ASSUME "rekeyTouch" \notin ChangeKinds, Cols # {}
    PROVE  VerifiedSpec => []MatchMissesNothing
<1>1. VerifiedInit => Types /\ HistoryInv /\ SettledInv /\ Undisturbed /\ MatchInv
  <2> SUFFICES ASSUME VerifiedInit PROVE Types /\ HistoryInv /\ SettledInv /\ Undisturbed /\ MatchInv
    OBVIOUS
  <2>1. Init /\ verifyPC = "off"
    BY DEF VerifiedInit, VerifyInit
  <2> QED
    BY <2>1, TypesInit, HistoryInit, SettledInit, InvInit, BufferInit, ReplayInit
       DEF Undisturbed, MatchInv, Passed
<1>2. Types /\ VerifyTypeOK /\ HistoryInv /\ SettledInv /\ Undisturbed /\ MatchInv /\ [VerifiedNext]_allVars
        => Types' /\ HistoryInv' /\ SettledInv' /\ Undisturbed' /\ MatchInv'
  BY EitherMoves, TypesNext, HistoryNext, SettledNext, UndisturbedNext, MatchNext
<1>3. MatchInv => MatchMissesNothing
  BY DEF MatchInv, MatchMissesNothing, Passed
<1> QED
  BY VerifyTypeCorrect, <1>1, <1>2, <1>3, PTL DEF VerifiedSpec

=============================================================================
