---------------------------- MODULE SchemaProofs ----------------------------
(***************************************************************************)
(* Where a value comes out unchanged: for every value and type by the      *)
(* stream, and where Postgres casts it to what it prints by a copy; and,   *)
(* on top of that, what the writer makes of a table whose columns change.  *)
(***************************************************************************)
EXTENDS Schema, FoldProofs

-----------------------------------------------------------------------------
(* Values.                                                                 *)

\* The way of a text through the event to the destination column.
Arrival(s, type) == Stored(Decode(TextToValue(s, type)), type)

(* Only a boolean gets a boolean column.                                   *)
LEMMA ColumnType ==
    ASSUME NEW type, type # "bool"
    PROVE  destType(TypeNameForOID(type)) # "boolean"
<1>1. TypeNameForOID(type) # "boolean"
  <2>1. CASE type \in {"int2", "int4", "int8", "float4", "float8"}
    BY <2>1 DEF TypeNameForOID
  <2>2. CASE type \in {"date", "timestamp", "timestamptz", "numeric", "uuid", "jsonb"}
    BY <2>2 DEF TypeNameForOID
  <2>3. CASE type \notin {"int2", "int4", "int8", "float4", "float8", "date", "timestamp",
                          "timestamptz", "numeric", "uuid", "jsonb"}
    BY <2>3 DEF TypeNameForOID
  <2> QED
    BY <2>1, <2>2, <2>3
<1> QED
  BY <1>1 DEF destType

(* A text that is not a boolean's keeps its digits and letters through     *)
(* pgval, JSON, the bind parameter and the cast.                           *)
LEMMA TextKept ==
    ASSUME NEW type, type # "bool", NEW s
    PROVE  Arrival(s, type) = s
<1>1. CASE type \in {"int2", "int4", "int8"}
  <2>1. TextToValue(s, type) = Integer(s)
    BY <1>1 DEF TextToValue
  <2>2. Decode(Integer(s)) = [kind |-> "json.Number", text |-> s]
    BY DEF Decode, Integer
  <2>3. toParam([kind |-> "json.Number", text |-> s]) = String(s)
    BY DEF toParam
  <2> QED
    BY <2>1, <2>2, <2>3, ColumnType DEF Arrival, Stored, Cast, String, Nil
<1>2. CASE type \notin {"int2", "int4", "int8"}
  <2>1. TextToValue(s, type) = String(s)
    BY <1>2 DEF TextToValue
  <2>2. Decode(String(s)) = String(s) /\ toParam(String(s)) = String(s)
    BY DEF Decode, String, toParam
  <2> QED
    BY <2>1, <2>2, ColumnType DEF Arrival, Stored, Cast, String, Nil
<1> QED
  BY <1>1, <1>2

(* A boolean's own text survives, as 't' and 'f'; any other is false.      *)
LEMMA BooleanKept ==
    ASSUME NEW s
    PROVE  Arrival(s, "bool") = IF s = "t" THEN "t" ELSE "f"
<1>1. TextToValue(s, "bool") = Boolean(s = "t")
  BY DEF TextToValue
<1>2. Decode(Boolean(s = "t")) = Boolean(s = "t") /\ toParam(Boolean(s = "t")) = Boolean(s = "t")
  BY DEF Decode, Boolean, toParam
<1>3. destType(TypeNameForOID("bool")) = "boolean"
  BY DEF destType, TypeNameForOID
<1> QED
  BY <1>1, <1>2, <1>3 DEF Arrival, Stored, Cast, Boolean, Nil

(* What the stream carries arrives as the source prints it, for every type *)
(* and every number, however large (event.go:59, staging.go:157-178).      *)
THEOREM StreamedArrives ==
    ASSUME NEW type, NEW v, type = "bool" => v \in {"t", "f"}
    PROVE  Arrival(TupleText(type, v), type) = v
<1>1. CASE type = "bool"
  BY <1>1, BooleanKept DEF TupleText
<1>2. CASE type # "bool"
  BY <1>2, TextKept DEF TupleText
<1> QED
  BY <1>1, <1>2

(* A copied value arrives as the cast to text wrote it.  So the backfill   *)
(* and the stream agree on it exactly where the cast writes what the type  *)
(* prints (pgval.go:2-5, backfill.go:74-75), which leaves bpchar, inet and *)
(* their like apart; and a boolean arrives as false.                       *)
THEOREM CopiedArrives ==
    ASSUME NEW type, NEW v, type = "bool" => v \in {"t", "f"}
    PROVE  /\ type # "bool" =>
                /\ Arrival(CastText(type, v), type) = CastText(type, v)
                /\ Arrival(CastText(type, v), type) = Arrival(TupleText(type, v), type)
                        <=> CastText(type, v) = v
           /\ type = "bool" => Arrival(CastText(type, v), type) = "f"
<1>1. CASE type = "bool"
  <2>1. CastText(type, v) \in {"true", "false"}
    BY <1>1 DEF CastText
  <2> QED
    BY <1>1, <2>1, BooleanKept
<1>2. CASE type # "bool"
  <2>1. Arrival(CastText(type, v), type) = CastText(type, v) /\ Arrival(v, type) = v
    BY <1>2, TextKept
  <2> QED
    BY <1>2, <2>1 DEF TupleText
<1> QED
  BY <1>1, <1>2

-----------------------------------------------------------------------------
(* Events.                                                                 *)

\* What a column can hold.
Held(cols) ==
    {image \in [cols -> (UNION {Sample[ColType[c]] : c \in Columns}) \cup {Null}] :
        \A c \in cols : image[c] \in Sample[ColType[c]] \cup {Null}}

\* The rows there can be.
AllImages == UNION {Held(cols) : cols \in SUBSET Columns}

\* What the three builders make of them.
Events ==
    {rowToEvent(k, image) : k \in Keys, image \in AllImages}
    \cup {buildChangeEvent(op, k, image) : op \in {"c", "u"}, k \in Keys, image \in AllImages}
    \cup {buildDeleteEvent(k, cols) : k \in Keys, cols \in SUBSET Columns}


(* No two keys are stored as one, whichever way they came.                 *)
LEMMA ValueInjective ==
    ASSUME NEW type, NEW s, NEW t, Value(s, type) # Value(t, type)
    PROVE  Stored(Value(s, type), type) # Stored(Value(t, type), type)
<1>0. /\ Stored(Value(s, type), type) = Arrival(s, type)
      /\ Stored(Value(t, type), type) = Arrival(t, type)
  BY DEF Value, Arrival
<1>1. CASE type = "bool"
  <2>1. (s = "t") # (t = "t")
    <3>1. SUFFICES ASSUME (s = "t") <=> (t = "t") PROVE FALSE
      OBVIOUS
    <3>2. Boolean(s = "t") = Boolean(t = "t")
      BY <3>1 DEF Boolean
    <3> QED
      BY <1>1, <3>2 DEF Value, TextToValue
  <2>2. Arrival(s, type) = (IF s = "t" THEN "t" ELSE "f")
    BY <1>1, BooleanKept
  <2>3. Arrival(t, type) = (IF t = "t" THEN "t" ELSE "f")
    BY <1>1, BooleanKept
  <2> QED
    BY <1>0, <2>1, <2>2, <2>3
<1>2. CASE type # "bool"
  BY <1>0, <1>2, TextKept
<1> QED
  BY <1>1, <1>2

(* What the builders put into an event.                                    *)
LEMMA EventParts ==
    ASSUME NEW e \in Events
    PROVE  /\ e.op \in {"r", "c", "u", "d"}
           /\ e.types \in SUBSET Columns
           /\ IsFiniteSet(e.types) /\ Cardinality(e.types) \in Nat
           /\ DOMAIN e.after = IF e.op = "d" THEN {} ELSE e.types
           /\ \E s : e.pk = Value(s, KeyType)
<1>1. \A k \in Keys : k # Null
  BY SchemaAssumption
<1>2. \A image \in AllImages : DOMAIN image \in SUBSET Columns
  BY DEF AllImages, Held
<1>3. ASSUME NEW k \in Keys, NEW image \in AllImages, e = rowToEvent(k, image)
      PROVE  /\ e.op = "r" /\ e.types = DOMAIN image /\ DOMAIN e.after = DOMAIN image
             /\ e.pk = Value(CastText(KeyType, k), KeyType)
  BY <1>1, <1>3 DEF rowToEvent, Copied
<1>4. ASSUME NEW op \in {"c", "u"}, NEW k \in Keys, NEW image \in AllImages,
             e = buildChangeEvent(op, k, image)
      PROVE  /\ e.op = op /\ e.types = DOMAIN image /\ DOMAIN e.after = DOMAIN image
             /\ e.pk = Value(TupleText(KeyType, k), KeyType)
  BY <1>1, <1>4 DEF buildChangeEvent, Streamed
<1>5. ASSUME NEW k \in Keys, NEW cols \in SUBSET Columns, e = buildDeleteEvent(k, cols)
      PROVE  /\ e.op = "d" /\ e.types = cols /\ DOMAIN e.after = {}
             /\ e.pk = Value(TupleText(KeyType, k), KeyType)
  BY <1>1, <1>5 DEF buildDeleteEvent, Streamed, NoRows
<1>6. /\ e.op \in {"r", "c", "u", "d"}
      /\ e.types \in SUBSET Columns
      /\ DOMAIN e.after = IF e.op = "d" THEN {} ELSE e.types
      /\ \E s : e.pk = Value(s, KeyType)
  <2>1. CASE \E k \in Keys, image \in AllImages : e = rowToEvent(k, image)
    BY <2>1, <1>2, <1>3
  <2>2. CASE \E op \in {"c", "u"}, k \in Keys, image \in AllImages : e = buildChangeEvent(op, k, image)
    BY <2>2, <1>2, <1>4
  <2>3. CASE \E k \in Keys, cols \in SUBSET Columns : e = buildDeleteEvent(k, cols)
    BY <2>3, <1>5
  <2> QED
    BY <2>1, <2>2, <2>3 DEF Events
<1>7. IsFiniteSet(e.types) /\ Cardinality(e.types) \in Nat
  BY <1>6, SchemaAssumption, FS_Subset, FS_CardinalityType
<1> QED
  BY <1>6, <1>7

(* Events of different keys are stored under different keys.               *)
LEMMA KeysApart ==
    ASSUME NEW e \in Events, NEW f \in Events, e.pk # f.pk
    PROVE  StoredKey(e) # StoredKey(f)
<1>1. PICK s : e.pk = Value(s, KeyType)
  BY EventParts
<1>2. PICK t : f.pk = Value(t, KeyType)
  BY EventParts
<1> QED
  BY <1>1, <1>2, ValueInjective DEF StoredKey

-----------------------------------------------------------------------------
(* The representative of a batch.                                          *)

FullerF == [p \in Events \X Events |-> Fuller(p[1], p[2])]

(* Fuller picks one of two events, the first one if there is no need.      *)
LEMMA FullerType ==
    /\ FullerF \in [Events \X Events -> Events]
    /\ \A e, f \in Events : FullerF[<<e, f>>] = Fuller(e, f) /\ Fuller(e, f) \in {e, f}
<1>1. \A e, f \in Events : Fuller(e, f) \in {e, f}
  BY DEF Fuller
<1>2. \A p \in Events \X Events : Fuller(p[1], p[2]) \in Events
  BY <1>1
<1>3. FullerF \in [Events \X Events -> Events]
  BY <1>2 DEF FullerF
<1>4. ASSUME NEW e \in Events, NEW f \in Events
      PROVE  FullerF[<<e, f>>] = Fuller(e, f)
  BY DEF FullerF
<1> QED
  BY <1>1, <1>3, <1>4

(* The fold of representative is that function's.                          *)
LEMMA FullestIsFold ==
    ASSUME NEW base \in Events, NEW s \in Seq(Events)
    PROVE  FoldLeft(Fuller, base, s) = FoldF(FullerF, base, s)
<1> DEFINE Body(it) == [S \in SUBSET DOMAIN s |->
                          IF S = {} THEN base ELSE Fuller(it[S \ {Max(S)}], s[Max(S)])]
           chosen == CHOOSE it : it = Body(it)
<1>0. Len(s) \in Nat /\ DOMAIN s = 1..Len(s) /\ \A n \in DOMAIN s : s[n] \in Events
  BY LenProperties, ElementOfSeq
<1>1. \E it : it = Body(it)
  <2>1. Unfolding(Events, FullerF, base, s)
    BY FullerType, FoldExists
  <2>2. PICK it \in [SUBSET (DOMAIN s) -> Events] : Solves(it, FullerF, base, s)
    BY <2>1 DEF Unfolding
  <2>3. ASSUME NEW S \in SUBSET (DOMAIN s), S # {}
        PROVE  it[S] = Fuller(it[S \ {Max(S)}], s[Max(S)])
    <3>1. Max(S) \in S /\ it[S] = FullerF[<<it[S \ {Max(S)}], s[Max(S)]>>]
      BY <2>2, <2>3 DEF Solves
    <3>2. it[S \ {Max(S)}] \in Events /\ s[Max(S)] \in Events
      BY <1>0, <3>1
    <3> QED
      BY <3>1, <3>2, FullerType
  <2>4. it[{}] = base
    BY <2>2 DEF Solves
  <2>5. it = Body(it)
    BY <2>3, <2>4
  <2> QED
    BY <2>5
<1>2. chosen = Body(chosen)
  BY <1>1
<1>3. FoldLeft(Fuller, base, s) = chosen[DOMAIN s]
  BY DEF FoldLeft, MapThenFoldSet
<1> HIDE DEF chosen
<1>4. chosen[{}] = base
  BY <1>2
<1>5. ASSUME NEW n \in 1..Len(s), chosen[1..(n-1)] \in Events
      PROVE  chosen[1..n] = FullerF[<<chosen[1..(n-1)], s[n]>>]
  <2>1. chosen[1..n] = Fuller(chosen[(1..n) \ {Max(1..n)}], s[Max(1..n)])
    BY <1>0, <1>2, UpToInDomain
  <2>2. Max(1..n) = n /\ (1..n) \ {n} = 1..(n-1)
    BY <1>0, UpToInDomain
  <2>3. s[n] \in Events
    BY <1>0
  <2>4. chosen[1..n] = Fuller(chosen[1..(n-1)], s[n])
    BY <2>1, <2>2
  <2>5. FullerF[<<chosen[1..(n-1)], s[n]>>] = Fuller(chosen[1..(n-1)], s[n])
    BY <1>5, <2>3, FullerType
  <2> QED
    BY <2>4, <2>5
<1>6. Iterated(chosen, Events, FullerF, base, s)
  BY <1>4, <1>5 DEF Iterated
<1>7. Folds(chosen, FullerF, base, s)
  BY <1>6, FullerType, FoldFUnique
<1> QED
  BY <1>3, <1>7 DEF Folds

Width(e) == Cardinality(e.types)

\* What the fold has found behind base in s.
Fullest(e, base, s) ==
    /\ e \in Events
    /\ e = base \/ \E i \in 1..Len(s) : s[i] = e
    /\ Width(e) >= Width(base)
    /\ \A i \in 1..Len(s) : Width(e) >= Width(s[i])
    /\ Width(e) = Width(base) => e = base

(* The fold finds the first of the widest events.                          *)
LEMMA FoldFindsFullest ==
    ASSUME NEW base \in Events, NEW s \in Seq(Events)
    PROVE  Fullest(FoldF(FullerF, base, s), base, s)
<1> DEFINE G == {t \in Seq(Events) : Fullest(FoldF(FullerF, base, t), base, t)}
<1>0. Width(base) \in Nat
  BY EventParts DEF Width
<1>1. <<>> \in G
  <2>1. FoldF(FullerF, base, <<>>) = base
    BY FullerType, FoldFEmpty
  <2>2. <<>> \in Seq(Events) /\ Len(<<>>) = 0
    BY EmptySeq
  <2> QED
    BY <1>0, <2>1, <2>2 DEF Fullest
<1>2. ASSUME NEW t \in Seq(Events), NEW f \in Events, t \in G
      PROVE  Append(t, f) \in G
  <2> DEFINE e == FoldF(FullerF, base, t)
             u == Append(t, f)
  <2>1. Fullest(e, base, t)
    BY <1>2
  <2>2. OneMore(FullerF, base, t, f)
    BY FullerType, FoldFAppend
  <2>3. FoldF(FullerF, base, u) = FullerF[<<e, f>>]
    BY <2>2 DEF OneMore
  <2>4. u \in Seq(Events) /\ Len(u) = Len(t) + 1 /\ u[Len(t)+1] = f /\ \A n \in 1..Len(t) : u[n] = t[n]
    BY AppendProperties
  <2>5. Len(t) \in Nat
    BY LenProperties
  <2> HIDE DEF e, u
  <2>6. FoldF(FullerF, base, u) = Fuller(e, f)
    BY <2>1, <2>3, FullerType DEF Fullest
  <2>7. Width(e) \in Nat /\ Width(f) \in Nat /\ \A n \in 1..Len(t) : Width(t[n]) \in Nat
    BY <2>1, EventParts, ElementOfSeq DEF Width, Fullest
  <2>8. CASE Width(f) > Width(e)
    <3>1. Fuller(e, f) = f
      BY <2>8 DEF Fuller, Width
    <3>2. \A n \in 1..Len(u) : Width(f) >= Width(u[n])
      BY <2>1, <2>4, <2>5, <2>7, <2>8 DEF Fullest
    <3>3. \E i \in 1..Len(u) : u[i] = f
      BY <2>4, <2>5
    <3>4. Width(f) > Width(base)
      BY <1>0, <2>1, <2>7, <2>8 DEF Fullest
    <3>5. Fullest(f, base, u)
      BY <1>0, <2>7, <3>2, <3>3, <3>4 DEF Fullest
    <3> QED
      BY <2>4, <2>6, <3>1, <3>5 DEF u
  <2>9. CASE ~(Width(f) > Width(e))
    <3>1. Fuller(e, f) = e
      BY <2>9 DEF Fuller, Width
    <3>2. \A n \in 1..Len(u) : Width(e) >= Width(u[n])
      BY <2>1, <2>4, <2>5, <2>7, <2>9 DEF Fullest
    <3>3. e = base \/ \E i \in 1..Len(u) : u[i] = e
      BY <2>1, <2>4, <2>5 DEF Fullest
    <3>5. Fullest(e, base, u)
      BY <2>1, <3>2, <3>3 DEF Fullest
    <3> QED
      BY <2>4, <2>6, <3>1, <3>5 DEF u
  <2> QED
    BY <2>8, <2>9
<1>3. Seq(Events) \subseteq G
  <2> HIDE DEF G
  <2> QED BY <1>1, <1>2, SeqInduction
<1> QED
  BY <1>3

(* The representative of a batch is an event of the batch, none has more   *)
(* columns, and it is the first one if all have as many (flush.go:106-118). *)
LEMMA Representative ==
    ASSUME NEW s \in Seq(Events), s # <<>>
    PROVE  /\ representative(s) \in Events
           /\ \E i \in 1..Len(s) : representative(s) = s[i]
           /\ \A i \in 1..Len(s) : Width(representative(s)) >= Width(s[i])
           /\ (\A i \in 1..Len(s) : Width(s[i]) = Width(s[1])) => representative(s) = s[1]
<1> DEFINE t == Tail(s)
           e == representative(s)
<1>0. Len(s) \in Nat \ {0}
  BY EmptySeq, LenProperties
<1>1. s[1] \in Events /\ t \in Seq(Events) /\ Len(t) = Len(s) - 1 /\ Head(s) = s[1]
      /\ \A i \in 1..Len(t) : t[i] = s[i+1]
  BY <1>0, HeadTailProperties, ElementOfSeq
<1>2. Fullest(e, s[1], t)
  BY <1>1, FullestIsFold, FoldFindsFullest DEF representative
<1> HIDE DEF t, e
<1>3. e = s[1] \/ \E i \in 1..Len(s) : e = s[i]
  <2>1. ASSUME NEW i \in 1..Len(t), t[i] = e
        PROVE  i + 1 \in 1..Len(s) /\ e = s[i+1]
    BY <1>0, <1>1, <2>1
  <2> QED
    BY <1>2, <2>1 DEF Fullest
<1>4. ASSUME NEW i \in 1..Len(s)
      PROVE  Width(e) >= Width(s[i])
  <2>1. CASE i = 1
    BY <1>2, <2>1 DEF Fullest
  <2>2. CASE i # 1
    <3>1. i - 1 \in 1..Len(t) /\ t[i-1] = s[i]
      BY <1>0, <1>1, <2>2
    <3> QED
      BY <1>2, <3>1 DEF Fullest
  <2> QED
    BY <2>1, <2>2
<1>5. 1 \in 1..Len(s)
  BY <1>0
<1>6. (\A i \in 1..Len(s) : Width(s[i]) = Width(s[1])) => e = s[1]
  BY <1>2, <1>3, <1>5 DEF Fullest
<1> QED
  BY <1>2, <1>3, <1>4, <1>5, <1>6 DEF e, Fullest

-----------------------------------------------------------------------------
(* Types.                                                                  *)

SourceTypes ==
    /\ srcCols \in SUBSET Columns
    /\ DOMAIN rows \in SUBSET Keys
    /\ rows \in [DOMAIN rows -> Held(srcCols)]
    /\ altered \in 0..MaxDDL
    /\ topic \in Seq(Events)
    /\ Len(topic) <= MaxEvents

WriterTypes ==
    /\ offset \in Nat /\ taken \in 0..FlushMax
    /\ offset + taken <= Len(topic)
    /\ destCols \in (SUBSET Columns) \cup {NoTable}
    /\ destCols = NoTable => DOMAIN destRows = {} /\ offset = 0
    /\ \A k \in DOMAIN destRows : DOMAIN destRows[k] = destCols

Types == SourceTypes /\ WriterTypes

(* A function over 1..n is a sequence.                                     *)
LEMMA TabulatedSeq ==
    ASSUME NEW S, NEW n \in Nat, NEW f \in [1..n -> S]
    PROVE  f \in Seq(S) /\ Len(f) = n
OBVIOUS

(* The numbers among the constants.                                        *)
LEMMA Bounds ==
    /\ MaxDDL \in Nat /\ MaxEvents \in Nat /\ FlushMax \in Nat /\ FlushMax >= 1
    /\ Cardinality(Keys) <= MaxEvents
    /\ InitialCols \in SUBSET Columns
<1>1. MaxDDL \in Nat /\ MaxEvents \in Nat
  BY SchemaAssumption
<1>2. FlushMax \in Nat \ {0}
  BY SchemaAssumption
<1>3. Cardinality(Keys) <= MaxEvents
  BY SchemaAssumption
<1>4. InitialCols \in SUBSET Columns
  BY SchemaAssumption
<1> QED
  BY <1>1, <1>2, <1>3, <1>4

(* What is copied before anything else has its type.                       *)
LEMMA TypesInit == Init => Types
<1> SUFFICES ASSUME Init PROVE Types
  OBVIOUS
<1> DEFINE ks == SetToSeq(DOMAIN rows)
           Row(i) == [c \in loadColumns |-> rows[ks[i]][c]]
<1>1. PICK seeded \in SUBSET Keys : rows \in [seeded -> Images(InitialCols)]
  BY DEF Init
<1>2. /\ DOMAIN rows \in SUBSET Keys
      /\ IsFiniteSet(DOMAIN rows) /\ Cardinality(DOMAIN rows) <= Cardinality(Keys)
      /\ Cardinality(DOMAIN rows) \in Nat /\ Cardinality(Keys) \in Nat
  BY <1>1, SchemaAssumption, FS_Subset, FS_CardinalityType
<1>3. Images(InitialCols) \subseteq Held(InitialCols)
  BY DEF Images, Held
<1>4. srcCols = InitialCols /\ rows \in [DOMAIN rows -> Held(srcCols)]
  BY <1>1, <1>3 DEF Init
<1>5. Lists(ks, DOMAIN rows)
  BY <1>2, SetToSeqLists
<1>6. ks \in Seq(DOMAIN rows) /\ Len(ks) = Cardinality(DOMAIN rows) /\ DOMAIN ks = 1..Len(ks)
  BY <1>5, LenProperties DEF Lists
<1>7. topic = [i \in DOMAIN ks |-> rowToEvent(ks[i], Row(i))]
  BY DEF Init
<1> HIDE DEF ks, Row
<1>8. ASSUME NEW i \in DOMAIN ks
      PROVE  rowToEvent(ks[i], Row(i)) \in Events
  <2>1. ks[i] \in DOMAIN rows /\ ks[i] \in Keys
    BY <1>2, <1>6, ElementOfSeq
  <2>2. Row(i) = rows[ks[i]] /\ rows[ks[i]] \in Held(srcCols)
    BY <1>4, <2>1 DEF loadColumns, Held, Row
  <2>3. Row(i) \in AllImages
    BY <1>4, <2>2, Bounds DEF AllImages
  <2>4. \A k \in Keys, image \in AllImages : rowToEvent(k, image) \in Events
    BY DEF Events
  <2> QED
    BY <2>1, <2>3, <2>4
<1>9. topic \in [1..Len(ks) -> Events]
  BY <1>6, <1>7, <1>8
<1>10. topic \in Seq(Events) /\ Len(topic) <= MaxEvents /\ Len(topic) \in Nat
  <2>0. Cardinality(Keys) <= MaxEvents /\ MaxEvents \in Nat
    BY Bounds
  <2>3. Len(ks) \in Nat /\ Len(ks) <= Cardinality(Keys) /\ Cardinality(Keys) \in Nat
    BY <1>2, <1>6
  <2>1. Len(ks) \in Nat /\ Len(ks) <= MaxEvents
    BY <2>0, <2>3
  <2> QED
    BY <1>9, <2>1, TabulatedSeq
<1>11. SourceTypes
  <2>1. srcCols \in SUBSET Columns /\ altered \in 0..MaxDDL
    BY Bounds DEF Init
  <2> QED
    BY <1>2, <1>4, <1>10, <2>1 DEF SourceTypes
<1>12. WriterTypes
  <2>1. offset = 0 /\ taken = 0 /\ taken \in 0..FlushMax
    BY Bounds DEF Init
  <2>2. destCols = NoTable /\ DOMAIN destRows = {}
    BY DEF Init, NoRows
  <2>3. offset \in Nat /\ offset + taken <= Len(topic)
    BY <1>10, <2>1
  <2> QED
    BY <2>1, <2>2, <2>3 DEF WriterTypes
<1> QED
  BY <1>11, <1>12 DEF Types

-----------------------------------------------------------------------------
(* The steps.                                                              *)

(* A new column is NULL in every row, the others keep their values.        *)
LEMMA AddEffect ==
    ASSUME Types, NEW c \in Columns, AddColumn(c)
    PROVE  /\ c \notin srcCols /\ srcCols' = srcCols \cup {c} /\ srcCols' \in SUBSET Columns
           /\ altered' = altered + 1 /\ altered' \in 0..MaxDDL
           /\ UNCHANGED <<topic, offset, taken, destCols, destRows>>
           /\ rows' \in [DOMAIN rows -> Held(srcCols')]
           /\ \A k \in DOMAIN rows : rows'[k][c] = Null /\ \A x \in srcCols : rows'[k][x] = rows[k][x]
<1> DEFINE new(row) == [x \in srcCols \cup {c} |-> IF x = c THEN Null ELSE row[x]]
<1>1. /\ c \notin srcCols /\ srcCols' = srcCols \cup {c}
      /\ altered < MaxDDL /\ altered' = altered + 1
      /\ UNCHANGED <<topic, offset, taken, destCols, destRows>>
      /\ rows' = [k \in DOMAIN rows |-> new(rows[k])]
  BY DEF AddColumn, Alter, writerVars
<1>2. altered' \in 0..MaxDDL
  BY <1>1, Bounds DEF Types, SourceTypes
<1>3. srcCols' \in SUBSET Columns
  BY <1>1 DEF Types, SourceTypes
<1>4. ASSUME NEW k \in DOMAIN rows
      PROVE  /\ rows'[k] \in Held(srcCols')
             /\ rows'[k][c] = Null /\ \A x \in srcCols : rows'[k][x] = rows[k][x]
  <2>1. rows[k] \in Held(srcCols)
    BY DEF Types, SourceTypes
  <2> DEFINE Contents == (UNION {Sample[ColType[x]] : x \in Columns}) \cup {Null}
  <2>3. rows[k] \in [srcCols -> Contents] /\ \A x \in srcCols : rows[k][x] \in Sample[ColType[x]] \cup {Null}
    BY <2>1 DEF Held
  <2>4. Null \in Contents
    OBVIOUS
  <2> HIDE DEF Contents
  <2>5. new(rows[k]) \in [srcCols \cup {c} -> Contents]
    BY <2>3, <2>4
  <2>6. \A x \in srcCols \cup {c} : new(rows[k])[x] \in Sample[ColType[x]] \cup {Null}
    BY <2>3
  <2>2. new(rows[k]) \in Held(srcCols \cup {c})
    BY <2>5, <2>6 DEF Held, Contents
  <2> QED
    BY <1>1, <2>2
<1>5. DOMAIN rows' = DOMAIN rows /\ rows' \in [DOMAIN rows -> Held(srcCols')]
  BY <1>1, <1>4
<1> QED
  BY <1>1, <1>2, <1>3, <1>4, <1>5

(* The rows keep the other columns.                                        *)
LEMMA DropEffect ==
    ASSUME Types, NEW c \in Columns, DropColumn(c)
    PROVE  /\ c \in srcCols /\ srcCols' = srcCols \ {c} /\ srcCols' \in SUBSET Columns
           /\ altered' = altered + 1 /\ altered' \in 0..MaxDDL
           /\ UNCHANGED <<topic, offset, taken, destCols, destRows>>
           /\ rows' \in [DOMAIN rows -> Held(srcCols')]
           /\ \A k \in DOMAIN rows : \A x \in srcCols' : rows'[k][x] = rows[k][x]
<1> DEFINE new(row) == [x \in srcCols \ {c} |-> row[x]]
<1>1. /\ c \in srcCols /\ srcCols' = srcCols \ {c}
      /\ altered < MaxDDL /\ altered' = altered + 1
      /\ UNCHANGED <<topic, offset, taken, destCols, destRows>>
      /\ rows' = [k \in DOMAIN rows |-> new(rows[k])]
  BY DEF DropColumn, Alter, writerVars
<1>2. altered' \in 0..MaxDDL
  BY <1>1, Bounds DEF Types, SourceTypes
<1>3. srcCols' \in SUBSET Columns
  BY <1>1 DEF Types, SourceTypes
<1>4. ASSUME NEW k \in DOMAIN rows
      PROVE  rows'[k] \in Held(srcCols') /\ \A x \in srcCols' : rows'[k][x] = rows[k][x]
  <2>1. rows[k] \in Held(srcCols)
    BY DEF Types, SourceTypes
  <2>2. new(rows[k]) \in Held(srcCols \ {c})
    BY <1>1, <2>1 DEF Held
  <2> QED
    BY <1>1, <2>2
<1>5. DOMAIN rows' = DOMAIN rows /\ rows' \in [DOMAIN rows -> Held(srcCols')]
  BY <1>1, <1>4
<1> QED
  BY <1>1, <1>2, <1>3, <1>4, <1>5

(* The values move to the new name.                                        *)
LEMMA RenameEffect ==
    ASSUME Types, NEW a \in Columns, NEW b \in Columns, RenameColumn(a, b)
    PROVE  /\ a \in srcCols /\ b \notin srcCols /\ srcCols' = (srcCols \ {a}) \cup {b}
           /\ srcCols' \in SUBSET Columns
           /\ altered' = altered + 1 /\ altered' \in 0..MaxDDL
           /\ UNCHANGED <<topic, offset, taken, destCols, destRows>>
           /\ rows' \in [DOMAIN rows -> Held(srcCols')]
           /\ \A k \in DOMAIN rows : \A x \in srcCols \ {a} : rows'[k][x] = rows[k][x]
<1> DEFINE new(row) == [x \in (srcCols \ {a}) \cup {b} |-> IF x = b THEN row[a] ELSE row[x]]
<1>1. /\ a \in srcCols /\ b \notin srcCols /\ srcCols' = (srcCols \ {a}) \cup {b}
      /\ ColType[a] = ColType[b]
      /\ altered < MaxDDL /\ altered' = altered + 1
      /\ UNCHANGED <<topic, offset, taken, destCols, destRows>>
      /\ rows' = [k \in DOMAIN rows |-> new(rows[k])]
  BY DEF RenameColumn, Alter, writerVars
<1>2. altered' \in 0..MaxDDL
  BY <1>1, Bounds DEF Types, SourceTypes
<1>3. srcCols' \in SUBSET Columns
  BY <1>1 DEF Types, SourceTypes
<1>4. ASSUME NEW k \in DOMAIN rows
      PROVE  rows'[k] \in Held(srcCols') /\ \A x \in srcCols \ {a} : rows'[k][x] = rows[k][x]
  <2>1. rows[k] \in Held(srcCols)
    BY DEF Types, SourceTypes
  <2>2. new(rows[k]) \in Held((srcCols \ {a}) \cup {b})
    BY <1>1, <2>1 DEF Held
  <2> QED
    BY <1>1, <2>2
<1>5. DOMAIN rows' = DOMAIN rows /\ rows' \in [DOMAIN rows -> Held(srcCols')]
  BY <1>1, <1>4
<1> QED
  BY <1>1, <1>2, <1>3, <1>4, <1>5

\* What a step of the source that is in the stream does.
Sent(e) ==
    /\ e \in Events
    /\ e.types = srcCols
    /\ topic' = Append(topic, e)
    /\ Len(topic) < MaxEvents
    /\ UNCHANGED <<srcCols, altered, offset, taken, destCols, destRows>>

(* A write leaves one row as its event says, the others as they are.       *)
LEMMA WriteEffect ==
    ASSUME Types, Write
    PROVE  \E k \in Keys, image \in Images(srcCols), op \in {"c", "u"} :
              /\ Sent(buildChangeEvent(op, k, image))
              /\ image \in Held(srcCols)
              /\ rows' = [x \in DOMAIN rows \cup {k} |-> IF x = k THEN image ELSE rows[x]]
              /\ rows' \in [DOMAIN rows \cup {k} -> Held(srcCols)]
<1>1. PICK k \in Keys, image \in Images(srcCols) :
        /\ rows' = [x \in DOMAIN rows \cup {k} |-> IF x = k THEN image ELSE rows[x]]
        /\ topic' = Append(topic, buildChangeEvent(IF k \in DOMAIN rows THEN "u" ELSE "c", k, image))
  BY DEF Write
<1> DEFINE op == IF k \in DOMAIN rows THEN "u" ELSE "c"
           e == buildChangeEvent(op, k, image)
<1>2. image \in Held(srcCols)
  BY DEF Images, Held
<1>3. image \in AllImages
  BY <1>2 DEF AllImages, Types, SourceTypes
<1>4. op \in {"c", "u"}
  OBVIOUS
<1>5. rows' \in [DOMAIN rows \cup {k} -> Held(srcCols)]
  BY <1>1, <1>2 DEF Types, SourceTypes
<1> HIDE DEF op
<1>6. e \in Events
  BY <1>3, <1>4 DEF Events
<1>7. e.types = srcCols
  BY <1>2 DEF buildChangeEvent, Held
<1>8. Sent(e)
  BY <1>1, <1>6, <1>7 DEF Sent, Write, writerVars, op
<1> QED
  BY <1>1, <1>2, <1>4, <1>5, <1>8

(* A delete takes one row away.                                            *)
LEMMA DeleteEffect ==
    ASSUME Types, Delete
    PROVE  \E k \in DOMAIN rows :
              /\ k \in Keys
              /\ Sent(buildDeleteEvent(k, srcCols))
              /\ rows' = [x \in DOMAIN rows \ {k} |-> rows[x]]
              /\ rows' \in [DOMAIN rows \ {k} -> Held(srcCols)]
<1>1. PICK k \in DOMAIN rows :
        /\ rows' = [x \in DOMAIN rows \ {k} |-> rows[x]]
        /\ topic' = Append(topic, buildDeleteEvent(k, srcCols))
  BY DEF Delete
<1> DEFINE e == buildDeleteEvent(k, srcCols)
<1>2. k \in Keys /\ srcCols \in SUBSET Columns
  BY DEF Types, SourceTypes
<1>3. e \in Events /\ e.types = srcCols
  BY <1>2 DEF Events, buildDeleteEvent
<1>4. rows' \in [DOMAIN rows \ {k} -> Held(srcCols)]
  BY <1>1 DEF Types, SourceTypes
<1>5. Sent(e)
  BY <1>1, <1>3 DEF Sent, Delete, writerVars
<1> QED
  BY <1>1, <1>2, <1>4, <1>5

(* The buffer.                                                             *)
LEMMA BatchParts ==
    ASSUME Types, taken > 0
    PROVE  /\ offset \in Nat /\ taken \in Nat /\ Len(topic) \in Nat
           /\ Batch \in Seq(Events) /\ Batch # <<>> /\ Len(Batch) = taken
           /\ DOMAIN Batch = 1..taken
           /\ \A i \in 1..taken : Batch[i] = topic[offset + i] /\ Batch[i] \in Events
           /\ \A i \in 1..taken : offset + i \in 1..Len(topic)
<1>1. /\ topic \in Seq(Events) /\ Len(topic) \in Nat /\ offset \in Nat /\ taken \in Nat
      /\ offset + taken <= Len(topic)
  BY Bounds, LenProperties DEF Types, SourceTypes, WriterTypes
<1>2. \A i \in (offset + 1)..(offset + taken) : topic[i] \in Events
  BY <1>1, ElementOfSeq
<1>3. Batch \in Seq(Events) /\ Len(Batch) = taken /\ \A i \in 1..taken : Batch[i] = topic[offset + i]
  <2>1. /\ SubSeq(topic, offset + 1, offset + taken) \in Seq(Events)
        /\ Len(SubSeq(topic, offset + 1, offset + taken)) =
                IF offset + 1 <= offset + taken THEN (offset + taken) - (offset + 1) + 1 ELSE 0
        /\ \A i \in 1..((offset + taken) - (offset + 1) + 1) :
                SubSeq(topic, offset + 1, offset + taken)[i] = topic[(offset + 1) + i - 1]
    BY <1>1, <1>2, SubSeqProperties
  <2>2. /\ (offset + taken) - (offset + 1) + 1 = taken /\ offset + 1 <= offset + taken
        /\ \A i \in 1..taken : (offset + 1) + i - 1 = offset + i
    BY <1>1
  <2> QED
    BY <2>1, <2>2 DEF Batch
<1>4. Batch # <<>> /\ DOMAIN Batch = 1..taken /\ \A i \in 1..taken : Batch[i] \in Events
  BY <1>1, <1>3, EmptySeq, LenProperties, ElementOfSeq
<1>5. \A i \in 1..taken : offset + i \in 1..Len(topic)
  BY <1>1
<1> QED
  BY <1>1, <1>3, <1>4, <1>5

\* The events of the batch that are staged, by their place in the topic.
StagedAt(i) == i \in (offset + 1)..(offset + taken)
               /\ \A j \in (i + 1)..(offset + taken) : topic[j].pk # topic[i].pk

(* What is staged of a batch: one event per key, the last one.             *)
LEMMA DedupeParts ==
    ASSUME Types, taken > 0
    PROVE  /\ \A e \in dedupe(Batch) : e \in Events /\ \E i : StagedAt(i) /\ e = topic[i]
           /\ \A i : StagedAt(i) => topic[i] \in dedupe(Batch)
           /\ \A e, f \in dedupe(Batch) : e # f => StoredKey(e) # StoredKey(f)
<1>1. /\ offset \in Nat /\ taken \in Nat /\ DOMAIN Batch = 1..taken /\ Len(Batch) = taken
      /\ \A i \in 1..taken : Batch[i] = topic[offset + i] /\ Batch[i] \in Events
  BY BatchParts
<1> DEFINE Newest(i) == i \in 1..taken /\ \A j \in (i + 1)..taken : Batch[j].pk # Batch[i].pk
<1>2. \A e : e \in dedupe(Batch) <=> \E i : Newest(i) /\ e = Batch[i]
  BY <1>1 DEF dedupe
<1>3. ASSUME NEW i, Newest(i)
      PROVE  StagedAt(offset + i)
  <2>1. offset + i \in (offset + 1)..(offset + taken)
    BY <1>1, <1>3
  <2>2. ASSUME NEW j \in (offset + i + 1)..(offset + taken)
        PROVE  topic[j].pk # topic[offset + i].pk
    <3>1. j - offset \in (i + 1)..taken /\ j - offset \in 1..taken /\ offset + (j - offset) = j
      BY <1>1, <1>3
    <3> QED
      BY <1>1, <1>3, <3>1
  <2> QED
    BY <2>1, <2>2 DEF StagedAt
<1>4. ASSUME NEW i, StagedAt(i)
      PROVE  i - offset \in 1..taken /\ offset + (i - offset) = i /\ Newest(i - offset)
  <2>1. i - offset \in 1..taken /\ offset + (i - offset) = i
    BY <1>1, <1>4 DEF StagedAt
  <2>2. ASSUME NEW j \in ((i - offset) + 1)..taken
        PROVE  Batch[j].pk # Batch[i - offset].pk
    <3>1. offset + j \in (i + 1)..(offset + taken) /\ j \in 1..taken
      BY <1>1, <2>1
    <3> QED
      BY <1>1, <1>4, <2>1, <3>1 DEF StagedAt
  <2> QED
    BY <2>1, <2>2
<1>5. ASSUME NEW e \in dedupe(Batch)
      PROVE  e \in Events /\ \E i : StagedAt(i) /\ e = topic[i]
  <2>1. PICK i : Newest(i) /\ e = Batch[i]
    BY <1>2
  <2> QED
    BY <1>1, <1>3, <2>1
<1>6. ASSUME NEW i, StagedAt(i)
      PROVE  topic[i] \in dedupe(Batch)
  BY <1>1, <1>2, <1>4, <1>6
<1>7. ASSUME NEW e \in dedupe(Batch), NEW f \in dedupe(Batch), e # f
      PROVE  StoredKey(e) # StoredKey(f)
  <2>1. PICK i : Newest(i) /\ e = Batch[i]
    BY <1>2
  <2>2. PICK j : Newest(j) /\ f = Batch[j]
    BY <1>2
  <2>3. e.pk # f.pk
    <3>1. CASE i < j
      BY <1>1, <2>1, <2>2, <3>1
    <3>2. CASE j < i
      BY <1>1, <2>1, <2>2, <3>2
    <3> QED
      BY <1>1, <1>7, <2>1, <2>2, <3>1, <3>2
  <2> QED
    BY <1>5, <1>7, <2>3, KeysApart
<1> QED
  BY <1>5, <1>6, <1>7

\* Values of the key type that print differently are different.
KeyPrintsOnce ==
    destType(TypeNameForOID(KeyType)) = "text" \/ \A k \in DOMAIN KeyForm : KeyForm[k] = k

(* Then an event meets the row that is stored under its key, and no other. *)
LEMMA OneMatch ==
    ASSUME KeyPrintsOnce
    PROVE  /\ \A k, l : Alike(k, l) <=> k = l
           /\ \A e : /\ Matched(e) = {StoredKey(e)} \cap DOMAIN destRows
                     /\ Target(e) = StoredKey(e)
<1>1. \A k : Compared(k) = k
  BY DEF KeyPrintsOnce, Compared
<1>2. \A k, l : Alike(k, l) <=> k = l
  BY <1>1 DEF Alike
<1>3. \A e : Matched(e) = {StoredKey(e)} \cap DOMAIN destRows
  BY <1>2 DEF Matched
<1>4. ASSUME NEW e
      PROVE  Target(e) = StoredKey(e)
  <2>1. CASE Matched(e) = {}
    BY <2>1 DEF Target
  <2>2. CASE Matched(e) # {}
    <3>1. Matched(e) = {StoredKey(e)}
      BY <1>3, <2>2
    <3>2. (CHOOSE k \in {StoredKey(e)} : TRUE) = StoredKey(e)
      OBVIOUS
    <3> QED
      BY <2>2, <3>1, <3>2 DEF Target
  <2> QED
    BY <2>1, <2>2
<1> QED
  BY <1>2, <1>3, <1>4

(* The keys of a batch are stored under different keys, so the MERGE       *)
(* touches no row twice.                                                   *)
LEMMA NoneTwice ==
    ASSUME KeyPrintsOnce, Types, taken > 0
    PROVE  \A e, f \in dedupe(Batch) : ~TouchedTwice(e, f)
BY DedupeParts, OneMatch DEF TouchedTwice

(* What the MERGE makes of the destination, key by key.                    *)
LEMMA MergeByKey ==
    ASSUME KeyPrintsOnce
    PROVE  LET batch == dedupe(Batch)
               kept == DOMAIN destRows \ {StoredKey(e) : e \in batch}
               set == {e \in batch : e.op # "d"}
           IN  mergeStaging = [k \in kept \cup {StoredKey(e) : e \in set} |->
                    IF k \in kept THEN destRows[k]
                    ELSE mergeRow(CHOOSE e \in set : StoredKey(e) = k)]
<1> DEFINE batch == dedupe(Batch)
           set == {e \in batch : e.op # "d"}
           kept == DOMAIN destRows \ UNION {Matched(e) : e \in batch}
<1>1. kept = DOMAIN destRows \ {StoredKey(e) : e \in batch}
  <2> HIDE DEF batch
  <2> QED
    BY OneMatch
<1>2. {Target(e) : e \in set} = {StoredKey(e) : e \in set}
  <2> HIDE DEF set
  <2> QED
    BY OneMatch
<1>3. \A k : (CHOOSE e \in set : Target(e) = k) = (CHOOSE e \in set : StoredKey(e) = k)
  <2> HIDE DEF set
  <2> QED
    BY OneMatch
<1>4. mergeStaging = [k \in kept \cup {Target(e) : e \in set} |->
            IF k \in kept THEN destRows[k] ELSE mergeRow(CHOOSE e \in set : Target(e) = k)]
  BY DEF mergeStaging
<1> DEFINE others == DOMAIN destRows \ {StoredKey(e) : e \in batch}
           written == {StoredKey(e) : e \in set}
           Written(k) == mergeRow(CHOOSE e \in set : Target(e) = k)
           ByKey(k) == mergeRow(CHOOSE e \in set : StoredKey(e) = k)
<1>5. ASSUME NEW k
      PROVE  Written(k) = ByKey(k)
  <2> DEFINE a == CHOOSE e \in set : Target(e) = k
             b == CHOOSE e \in set : StoredKey(e) = k
  <2>1. a = b
    BY <1>3
  <2> HIDE DEF a, b
  <2>2. mergeRow(a) = mergeRow(b)
    BY <2>1
  <2> QED
    BY <2>2 DEF a, b
<1>6. mergeStaging = [k \in others \cup written |-> IF k \in others THEN destRows[k] ELSE ByKey(k)]
  <2>1. kept = others /\ {Target(e) : e \in set} = written
    BY <1>1, <1>2
  <2>2. mergeStaging = [k \in kept \cup {Target(e) : e \in set} |->
            IF k \in kept THEN destRows[k] ELSE Written(k)]
    BY <1>4
  <2> HIDE DEF kept, set, others, written, Written, ByKey
  <2> QED
    BY <1>5, <2>1, <2>2
<1> QED
  BY <1>6

(* What the MERGE makes of the destination.                                *)
LEMMA MergeParts ==
    ASSUME KeyPrintsOnce, Types, taken > 0
    PROVE  /\ \A k \in DOMAIN mergeStaging :
                \/ k \in DOMAIN destRows /\ \A e \in dedupe(Batch) : StoredKey(e) # k
                \/ \E e \in dedupe(Batch) : e.op # "d" /\ StoredKey(e) = k
           /\ \A k \in DOMAIN destRows : (\A e \in dedupe(Batch) : StoredKey(e) # k) =>
                k \in DOMAIN mergeStaging /\ mergeStaging[k] = destRows[k]
           /\ \A e \in dedupe(Batch) : e.op # "d" =>
                StoredKey(e) \in DOMAIN mergeStaging /\ mergeStaging[StoredKey(e)] = mergeRow(e)
           /\ \A e \in dedupe(Batch) : e.op = "d" => StoredKey(e) \notin DOMAIN mergeStaging
<1> DEFINE batch == dedupe(Batch)
           kept == DOMAIN destRows \ {StoredKey(e) : e \in batch}
           set == {e \in batch : e.op # "d"}
           Row(k) == IF k \in kept THEN destRows[k] ELSE mergeRow(CHOOSE e \in set : StoredKey(e) = k)
<1>1. mergeStaging = [k \in kept \cup {StoredKey(e) : e \in set} |-> Row(k)]
  BY MergeByKey
<1>2. \A e, f \in batch : e # f => StoredKey(e) # StoredKey(f)
  BY DedupeParts
<1> HIDE DEF batch
<1>3. ASSUME NEW e \in set
      PROVE  Row(StoredKey(e)) = mergeRow(e)
  <2>1. StoredKey(e) \notin kept
    OBVIOUS
  <2>2. \A f \in set : StoredKey(f) = StoredKey(e) => f = e
    BY <1>2
  <2>3. (CHOOSE f \in set : StoredKey(f) = StoredKey(e)) = e
    BY <2>2
  <2> QED
    BY <2>1, <2>3
<1>4. DOMAIN mergeStaging = kept \cup {StoredKey(e) : e \in set}
  BY <1>1
<1>5. \A k \in DOMAIN mergeStaging : mergeStaging[k] = Row(k)
  BY <1>1
<1>6. ASSUME NEW e \in batch, e.op # "d"
      PROVE  StoredKey(e) \in DOMAIN mergeStaging /\ mergeStaging[StoredKey(e)] = mergeRow(e)
  <2>1. e \in set
    BY <1>6
  <2>2. StoredKey(e) \in DOMAIN mergeStaging
    BY <1>4, <2>1
  <2> HIDE DEF Row, set
  <2> QED
    BY <1>3, <1>5, <2>1, <2>2
<1>7. ASSUME NEW e \in batch, e.op = "d"
      PROVE  StoredKey(e) \notin DOMAIN mergeStaging
  BY <1>2, <1>4, <1>7
<1>8. \A k \in kept : Row(k) = destRows[k]
  OBVIOUS
<1>9. ASSUME NEW k \in DOMAIN destRows, \A e \in batch : StoredKey(e) # k
      PROVE  k \in DOMAIN mergeStaging /\ mergeStaging[k] = destRows[k]
  <2>1. k \in kept
    BY <1>9
  <2> HIDE DEF Row, kept
  <2> QED
    BY <1>4, <1>5, <1>8, <2>1
<1>10. ASSUME NEW k \in DOMAIN mergeStaging
       PROVE  \/ k \in DOMAIN destRows /\ \A e \in batch : StoredKey(e) # k
              \/ \E e \in batch : e.op # "d" /\ StoredKey(e) = k
  BY <1>4
<1> QED
  BY <1>6, <1>7, <1>9, <1>10 DEF batch

\* A flush makes the table if it is not there, and leaves it alone otherwise.
TableMade ==
    /\ destCols' \in SUBSET Columns /\ destCols' # NoTable
    /\ destCols # NoTable => destCols' = destCols
    /\ destCols = NoTable => destCols' = orderedColumns
    /\ orderedColumns \in SUBSET Columns

(* ensureTable of a batch.                                                 *)
LEMMA TableParts ==
    ASSUME Types, taken > 0, destCols' = ensureTable
    PROVE  TableMade
<1>1. Batch \in Seq(Events) /\ Batch # <<>>
  BY BatchParts
<1>2. representative(Batch) \in Events
  BY <1>1, Representative
<1>3. orderedColumns \in SUBSET Columns
  BY <1>2, EventParts DEF orderedColumns
<1>4. \A cols \in SUBSET Columns : cols # NoTable
  BY SchemaAssumption DEF NoTable
<1>5. destCols # NoTable => destCols \in SUBSET Columns
  BY DEF Types, WriterTypes
<1> QED
  BY <1>3, <1>4, <1>5 DEF TableMade, ensureTable

(* A flush leaves every variable its type.                                 *)
LEMMA TypesFlush ==
    ASSUME Types, Flush
    PROVE  /\ WriterTypes' /\ TableMade /\ UNCHANGED sourceVars
           /\ taken > 0 /\ destRows' = mergeStaging
           /\ orderedColumns \subseteq destCols'
           /\ offset' \in {offset, offset + taken} /\ taken' = 0
<1>1. /\ taken > 0 /\ UNCHANGED sourceVars /\ destRows' = mergeStaging /\ destCols' = ensureTable
      /\ offset' \in {offset, offset + taken} /\ taken' = 0
      /\ orderedColumns \subseteq destCols'
  BY DEF Flush, Refused
<1>2. TableMade
  BY <1>1, TableParts
<1>3. /\ offset \in Nat /\ taken \in Nat /\ Len(topic) \in Nat /\ offset + taken <= Len(topic)
      /\ topic' = topic
  BY <1>1, BatchParts DEF Types, WriterTypes, sourceVars
<1>4. offset' \in Nat /\ taken' \in 0..FlushMax /\ offset' + taken' <= Len(topic')
  <2>1. offset' \in Nat /\ offset' <= Len(topic)
    BY <1>1, <1>3
  <2> QED
    BY <1>1, <1>3, <2>1, Bounds
<1>5. \A e : DOMAIN mergeRow(e) = destCols'
  BY <1>1 DEF mergeRow
<1>6. ASSUME NEW k \in DOMAIN mergeStaging
      PROVE  DOMAIN mergeStaging[k] = destCols'
  <2>1. (k \in DOMAIN destRows /\ mergeStaging[k] = destRows[k]) \/ \E e : mergeStaging[k] = mergeRow(e)
    BY <1>6 DEF mergeStaging
  <2>2. CASE k \in DOMAIN destRows /\ mergeStaging[k] = destRows[k]
    <3>1. destCols # NoTable /\ DOMAIN destRows[k] = destCols
      BY <2>2 DEF Types, WriterTypes
    <3> QED
      BY <1>2, <2>2, <3>1 DEF TableMade
  <2> QED
    BY <1>5, <2>1, <2>2
<1>7. destCols' \in (SUBSET Columns) \cup {NoTable} /\ destCols' # NoTable
  BY <1>2 DEF TableMade
<1>8. WriterTypes'
  BY <1>1, <1>4, <1>6, <1>7 DEF WriterTypes
<1> QED
  BY <1>1, <1>2, <1>8

(* Appending an event leaves the topic its type.                           *)
LEMMA TypesSent ==
    ASSUME Types, NEW e, Sent(e)
    PROVE  /\ topic' \in Seq(Events) /\ Len(topic') <= MaxEvents
           /\ Len(topic) \in Nat /\ Len(topic') = Len(topic) + 1
           /\ topic'[Len(topic) + 1] = e /\ \A i \in 1..Len(topic) : topic'[i] = topic[i]
           /\ WriterTypes'
<1>1. topic \in Seq(Events) /\ Len(topic) \in Nat
  BY LenProperties DEF Types, SourceTypes
<1>2. topic' \in Seq(Events) /\ Len(topic') = Len(topic) + 1
      /\ topic'[Len(topic) + 1] = e /\ \A i \in 1..Len(topic) : topic'[i] = topic[i]
  BY <1>1, AppendProperties DEF Sent
<1>3. Len(topic') <= MaxEvents
  BY <1>1, <1>2, Bounds DEF Sent
<1>4. offset' \in Nat /\ taken' \in 0..FlushMax /\ offset' + taken' <= Len(topic')
  BY <1>1, <1>2, Bounds DEF Types, WriterTypes, Sent
<1>5. WriterTypes'
  BY <1>4 DEF Types, WriterTypes, Sent
<1> QED
  BY <1>1, <1>2, <1>3, <1>5

(* Every step keeps the types.                                             *)
LEMMA TypesNext ==
    ASSUME Types, [Next]_vars
    PROVE  Types'
<1>1. CASE Write
  <2>1. PICK k \in Keys, image \in Images(srcCols), op \in {"c", "u"} :
              /\ Sent(buildChangeEvent(op, k, image))
              /\ rows' \in [DOMAIN rows \cup {k} -> Held(srcCols)]
    BY <1>1, WriteEffect
  <2>2. topic' \in Seq(Events) /\ Len(topic') <= MaxEvents /\ WriterTypes'
    BY <2>1, TypesSent
  <2>3. srcCols' = srcCols /\ altered' = altered
    BY <2>1 DEF Sent
  <2> QED
    BY <2>1, <2>2, <2>3 DEF Types, SourceTypes
<1>2. CASE Delete
  <2>1. PICK k \in DOMAIN rows :
              /\ Sent(buildDeleteEvent(k, srcCols))
              /\ rows' \in [DOMAIN rows \ {k} -> Held(srcCols)]
    BY <1>2, DeleteEffect
  <2>2. topic' \in Seq(Events) /\ Len(topic') <= MaxEvents /\ WriterTypes'
    BY <2>1, TypesSent
  <2>3. srcCols' = srcCols /\ altered' = altered
    BY <2>1 DEF Sent
  <2> QED
    BY <2>1, <2>2, <2>3 DEF Types, SourceTypes
<1>3. ASSUME NEW c \in Columns, AddColumn(c) \/ DropColumn(c)
      PROVE  Types'
  <2>1. /\ srcCols' \in SUBSET Columns /\ altered' \in 0..MaxDDL
        /\ UNCHANGED <<topic, offset, taken, destCols, destRows>>
        /\ rows' \in [DOMAIN rows -> Held(srcCols')]
    BY <1>3, AddEffect, DropEffect
  <2> QED
    BY <2>1 DEF Types, SourceTypes, WriterTypes
<1>4. ASSUME NEW a \in Columns, NEW b \in Columns, RenameColumn(a, b)
      PROVE  Types'
  <2>1. /\ srcCols' \in SUBSET Columns /\ altered' \in 0..MaxDDL
        /\ UNCHANGED <<topic, offset, taken, destCols, destRows>>
        /\ rows' \in [DOMAIN rows -> Held(srcCols')]
    BY <1>4, RenameEffect
  <2> QED
    BY <2>1 DEF Types, SourceTypes, WriterTypes
<1>5. CASE Fetch
  <2>1. taken < FlushMax /\ offset + taken < Len(topic) /\ taken' = taken + 1
        /\ UNCHANGED <<srcCols, rows, altered, topic, offset, destCols, destRows>>
    BY <1>5 DEF Fetch, sourceVars
  <2>2. taken' \in 0..FlushMax /\ offset + taken' <= Len(topic)
    BY <2>1, Bounds, LenProperties DEF Types, SourceTypes, WriterTypes
  <2> QED
    BY <2>1, <2>2 DEF Types, SourceTypes, WriterTypes
<1>6. CASE Flush
  <2>1. WriterTypes' /\ UNCHANGED sourceVars
    BY <1>6, TypesFlush
  <2> QED
    BY <2>1 DEF Types, SourceTypes, sourceVars
<1>7. CASE FlushFails
  <2>1. /\ taken > 0 /\ destCols' = ensureTable /\ taken' = 0
        /\ UNCHANGED <<srcCols, rows, altered, topic, offset, destRows>>
    BY <1>7 DEF FlushFails, sourceVars
  <2>2. TableMade
    BY <2>1, TableParts
  <2>3. taken' \in 0..FlushMax /\ offset + taken' <= Len(topic)
    BY <2>1, Bounds, LenProperties DEF Types, SourceTypes, WriterTypes
  <2>4. \A k \in DOMAIN destRows : DOMAIN destRows[k] = destCols'
    BY <2>2 DEF Types, WriterTypes, TableMade
  <2>5. destCols' \in (SUBSET Columns) \cup {NoTable} /\ destCols' # NoTable
    BY <2>2 DEF TableMade
  <2>6. WriterTypes'
    BY <2>1, <2>3, <2>4, <2>5 DEF Types, WriterTypes
  <2> QED
    BY <2>1, <2>6 DEF Types, SourceTypes
<1>8. CASE UNCHANGED vars
  BY <1>8 DEF vars, sourceVars, writerVars, Types, SourceTypes, WriterTypes
<1> QED
  BY <1>1, <1>2, <1>3, <1>4, <1>5, <1>6, <1>7, <1>8 DEF Next

(* Every variable keeps its type, whatever the columns become.             *)
THEOREM TypeCorrect == Spec => []TypeOK
<1>1. Types => TypeOK
  BY LenProperties DEF Types, SourceTypes, WriterTypes, TypeOK, Held
<1>2. Init => Types
  BY TypesInit
<1>3. Types /\ [Next]_vars => Types'
  BY TypesNext
<1> QED
  BY <1>1, <1>2, <1>3, PTL DEF Spec

(* No batch makes the MERGE touch a row twice (pgval.go:2-5, flush.go:58), *)
(* for every type of the key whose values print differently where they are *)
(* different for its =: what is deduped by printouts is then matched by    *)
(* printouts.  Integers, texts, uuids and dates are such; numeric, jsonb   *)
(* and the floats are not.                                                 *)
THEOREM RowsTouchedOnce ==
    ASSUME KeyPrintsOnce
    PROVE  Spec => []OneKeyPerRow
<1>1. Types => OneKeyPerRow
  BY NoneTwice DEF OneKeyPerRow
<1>2. Init => Types
  BY TypesInit
<1>3. Types /\ [Next]_vars => Types'
  BY TypesNext
<1> QED
  BY <1>1, <1>2, <1>3, PTL DEF Spec

-----------------------------------------------------------------------------
(* Nothing dropped.                                                        *)

(* An event that is the last of its key was so before another was sent.    *)
LEMMA LastBefore ==
    ASSUME Types, NEW e, Sent(e), NEW i \in 1..Len(topic), LastOfKey(i)'
    PROVE  LastOfKey(i) /\ topic[i].pk # e.pk /\ topic'[i] = topic[i]
<1>1. /\ Len(topic) \in Nat /\ Len(topic') = Len(topic) + 1
      /\ topic'[Len(topic) + 1] = e /\ \A j \in 1..Len(topic) : topic'[j] = topic[j]
  BY TypesSent
<1>2. \A j \in (i + 1)..Len(topic') : topic'[j].pk # topic'[i].pk
  BY DEF LastOfKey
<1>3. \A j \in (i + 1)..Len(topic) : j \in 1..Len(topic) /\ j \in (i + 1)..Len(topic')
  BY <1>1
<1>4. Len(topic) + 1 \in (i + 1)..Len(topic')
  BY <1>1
<1> QED
  BY <1>1, <1>2, <1>3, <1>4 DEF LastOfKey

(* The last event of a key behind the batch is not touched by the batch.   *)
LEMMA LastUntouched ==
    ASSUME Types, taken > 0, NEW i \in 1..offset, LastOfKey(i)
    PROVE  \A e \in dedupe(Batch) : StoredKey(e) # StoredKey(topic[i])
<1> SUFFICES ASSUME NEW e \in dedupe(Batch)
             PROVE  StoredKey(e) # StoredKey(topic[i])
  OBVIOUS
<1>1. PICK j : StagedAt(j) /\ e = topic[j]
  BY DedupeParts
<1>2. /\ topic \in Seq(Events) /\ offset \in Nat /\ taken \in Nat /\ Len(topic) \in Nat
      /\ offset + taken <= Len(topic)
  BY BatchParts DEF Types, SourceTypes, WriterTypes
<1>3. j \in (i + 1)..Len(topic) /\ j \in 1..Len(topic) /\ i \in 1..Len(topic)
  BY <1>1, <1>2 DEF StagedAt
<1>4. topic[j].pk # topic[i].pk
  BY <1>3 DEF LastOfKey
<1>5. topic[j] \in Events /\ topic[i] \in Events
  BY <1>2, <1>3, ElementOfSeq
<1> QED
  BY <1>1, <1>4, <1>5, KeysApart

(* If the last event of a key is in the batch, it is staged.               *)
LEMMA LastStaged ==
    ASSUME Types, taken > 0, NEW i \in (offset + 1)..(offset + taken), LastOfKey(i)
    PROVE  topic[i] \in dedupe(Batch)
<1>1. /\ offset \in Nat /\ taken \in Nat /\ Len(topic) \in Nat /\ offset + taken <= Len(topic)
  BY BatchParts DEF Types, WriterTypes
<1>2. \A j \in (i + 1)..(offset + taken) : j \in (i + 1)..Len(topic)
  BY <1>1
<1>3. StagedAt(i)
  BY <1>2 DEF StagedAt, LastOfKey
<1> QED
  BY <1>3, DedupeParts

(* None of the batch's events has more columns than the batch is applied   *)
(* with.                                                                   *)
LEMMA WidestOfBatch ==
    ASSUME Types, taken > 0, NEW i \in (offset + 1)..(offset + taken)
    PROVE  /\ topic[i] \in Events
           /\ Cardinality(orderedColumns) >= Cardinality(topic[i].types)
           /\ \E m \in (offset + 1)..(offset + taken) :
                    m \in DOMAIN topic /\ topic[m] \in Events /\ topic[m].types = orderedColumns
<1>1. /\ offset \in Nat /\ taken \in Nat /\ Len(topic) \in Nat
      /\ Batch \in Seq(Events) /\ Batch # <<>> /\ Len(Batch) = taken
      /\ \A n \in 1..taken : Batch[n] = topic[offset + n] /\ Batch[n] \in Events
      /\ \A n \in 1..taken : offset + n \in 1..Len(topic)
  BY BatchParts
<1>2. /\ \E n \in 1..taken : representative(Batch) = Batch[n]
      /\ \A n \in 1..taken : Width(representative(Batch)) >= Width(Batch[n])
  BY <1>1, Representative
<1>3. i - offset \in 1..taken /\ offset + (i - offset) = i
  BY <1>1
<1>4. PICK n \in 1..taken : representative(Batch) = Batch[n]
  BY <1>2
<1>5. DOMAIN topic = 1..Len(topic)
  BY DEF Types, SourceTypes
<1>6. /\ offset + n \in (offset + 1)..(offset + taken) /\ offset + n \in DOMAIN topic
      /\ topic[offset + n] \in Events /\ topic[offset + n].types = orderedColumns
  BY <1>1, <1>4, <1>5 DEF orderedColumns
<1>7. topic[i] \in Events /\ Width(representative(Batch)) >= Width(topic[i])
  BY <1>1, <1>2, <1>3
<1> QED
  BY <1>6, <1>7 DEF Width, orderedColumns

(* If one of any two events has all columns of the other, they have all.   *)
LEMMA BatchHasAll ==
    ASSUME Types, taken > 0, OneIsFuller, NEW i \in (offset + 1)..(offset + taken)
    PROVE  topic[i].types \subseteq orderedColumns
<1>1. /\ topic[i] \in Events
      /\ Cardinality(orderedColumns) >= Cardinality(topic[i].types)
  BY WidestOfBatch
<1>2. PICK m \in (offset + 1)..(offset + taken) :
            m \in DOMAIN topic /\ topic[m] \in Events /\ topic[m].types = orderedColumns
  BY WidestOfBatch
<1>3. i \in DOMAIN topic
  BY BatchParts DEF Types, SourceTypes, WriterTypes
<1>4. topic[i].types \subseteq orderedColumns \/ orderedColumns \subseteq topic[i].types
  BY <1>2, <1>3 DEF OneIsFuller
<1>5. /\ IsFiniteSet(topic[i].types) /\ Cardinality(topic[i].types) \in Nat
      /\ Cardinality(orderedColumns) \in Nat
  BY <1>1, <1>2, EventParts
<1>6. ASSUME orderedColumns \subseteq topic[i].types
      PROVE  orderedColumns = topic[i].types
  <2>1. /\ Cardinality(orderedColumns) <= Cardinality(topic[i].types)
        /\ Cardinality(orderedColumns) = Cardinality(topic[i].types) => orderedColumns = topic[i].types
    BY <1>5, <1>6, FS_Subset
  <2> QED
    BY <1>1, <1>5, <2>1
<1> QED
  BY <1>4, <1>6

(* What a flush commits has arrived with all its columns.                  *)
LEMMA FlushDelivers ==
    ASSUME KeyPrintsOnce, Types, NothingDropped, Flush
    PROVE  NothingDropped'
<1>1. /\ TableMade /\ UNCHANGED sourceVars /\ taken > 0 /\ destRows' = mergeStaging
      /\ orderedColumns \subseteq destCols'
      /\ offset' \in {offset, offset + taken}
  BY TypesFlush
<1>2. topic' = topic
  BY <1>1 DEF sourceVars
<1>3. /\ offset \in Nat /\ taken \in Nat /\ Len(topic) \in Nat
  BY <1>1, BatchParts
<1> SUFFICES ASSUME OneIsFuller, NEW i \in 1..offset', LastOfKey(i), topic[i].op # "d"
             PROVE  Arrived(topic[i])'
  BY <1>2 DEF NothingDropped, OneIsFuller, LastOfKey
<1> DEFINE k == StoredKey(topic[i])
<1>4. CASE i <= offset
  <2>0. i \in 1..offset
    BY <1>1, <1>3, <1>4
  <2>1. Arrived(topic[i])
    BY <2>0 DEF NothingDropped
  <2>2. \A e \in dedupe(Batch) : StoredKey(e) # k
    BY <1>1, <2>0, LastUntouched
  <2>3. k \in DOMAIN destRows
    BY <2>1 DEF Arrived
  <2>4. k \in DOMAIN destRows' /\ destRows'[k] = destRows[k]
    BY <1>1, <2>2, <2>3, MergeParts
  <2>5. destCols' = destCols
    BY <1>1, <2>3 DEF TableMade, Types, WriterTypes
  <2> QED
    BY <1>2, <2>1, <2>4, <2>5 DEF Arrived
<1>5. CASE ~(i <= offset)
  <2>0. i \in (offset + 1)..(offset + taken)
    BY <1>1, <1>3, <1>5
  <2>1. topic[i] \in dedupe(Batch)
    BY <1>1, <2>0, LastStaged
  <2>2. k \in DOMAIN destRows' /\ destRows'[k] = mergeRow(topic[i])
    BY <1>1, <2>1, MergeParts
  <2>3. topic[i].types \subseteq orderedColumns
    BY <1>1, <2>0, BatchHasAll
  <2>4. topic[i] \in Events
    BY <1>1, <2>0, WidestOfBatch
  <2>5. DOMAIN topic[i].after = topic[i].types
    BY <2>4, EventParts
  <2>6. ensureTable = destCols'
    BY DEF Flush
  <2>7. ASSUME NEW c \in DOMAIN topic[i].after
        PROVE  c \in destCols' /\ destRows'[k][c] = Staged(topic[i], c)
    <3>1. c \in orderedColumns /\ c \in destCols'
      BY <1>1, <2>3, <2>5
    <3>2. mergeRow(topic[i])[c] = Staged(topic[i], c)
      BY <2>6, <3>1 DEF mergeRow
    <3> QED
      BY <2>2, <3>1, <3>2
  <2> QED
    BY <1>2, <2>2, <2>7 DEF Arrived
<1> QED
  BY <1>3, <1>4, <1>5

(* No step takes an arrived column back.                                   *)
LEMMA DroppedNext ==
    ASSUME KeyPrintsOnce, Types, NothingDropped, [Next]_vars
    PROVE  NothingDropped'
<1>1. ASSUME NEW e, Sent(e)
      PROVE  NothingDropped'
  <2>0. /\ Len(topic) \in Nat /\ Len(topic') = Len(topic) + 1
        /\ topic' \in Seq(Events) /\ \A j \in 1..Len(topic) : topic'[j] = topic[j]
    BY <1>1, TypesSent
  <2>1. UNCHANGED <<offset, destCols, destRows>>
    BY <1>1 DEF Sent
  <2>2. DOMAIN topic = 1..Len(topic) /\ DOMAIN topic' = 1..Len(topic')
    BY <2>0 DEF Types, SourceTypes
  <2>3. OneIsFuller' => OneIsFuller
    <3>1. \A i \in DOMAIN topic : i \in DOMAIN topic' /\ topic'[i] = topic[i]
      BY <2>0, <2>2
    <3> QED
      BY <3>1 DEF OneIsFuller
  <2>4. ASSUME NEW i \in 1..offset, LastOfKey(i)', topic'[i].op # "d", OneIsFuller'
        PROVE  Arrived(topic[i])'
    <3>1. i \in 1..Len(topic)
      BY <2>0 DEF Types, WriterTypes
    <3>2. LastOfKey(i) /\ topic'[i] = topic[i]
      BY <1>1, <2>4, <3>1, LastBefore
    <3>3. Arrived(topic[i])
      BY <2>3, <2>4, <3>2 DEF NothingDropped
    <3> QED
      BY <2>1, <3>2, <3>3 DEF Arrived
  <2> QED
    BY <2>1, <2>4 DEF NothingDropped
<1>2. ASSUME UNCHANGED <<topic, offset, destCols, destRows>>
      PROVE  NothingDropped'
  BY <1>2 DEF NothingDropped, OneIsFuller, LastOfKey, Arrived
<1>3. CASE Write
  BY <1>1, <1>3, WriteEffect
<1>4. CASE Delete
  BY <1>1, <1>4, DeleteEffect
<1>5. ASSUME NEW c \in Columns, AddColumn(c) \/ DropColumn(c)
      PROVE  NothingDropped'
  BY <1>2, <1>5, AddEffect, DropEffect
<1>6. ASSUME NEW a \in Columns, NEW b \in Columns, RenameColumn(a, b)
      PROVE  NothingDropped'
  BY <1>2, <1>6, RenameEffect
<1>7. CASE Fetch
  BY <1>2, <1>7 DEF Fetch, sourceVars
<1>8. CASE Flush
  BY <1>8, FlushDelivers
<1>9. CASE FlushFails
  <2>1. /\ taken > 0 /\ destCols' = ensureTable
        /\ UNCHANGED <<topic, offset, destRows>>
    BY <1>9 DEF FlushFails, sourceVars
  <2>2. CASE destCols = NoTable
    <3>1. 1..offset = {}
      BY <2>2 DEF Types, WriterTypes
    <3>2. 1..offset' = {}
      BY <2>1, <3>1
    <3> QED
      BY <3>2 DEF NothingDropped
  <2>3. CASE destCols # NoTable
    BY <1>2, <2>1, <2>3 DEF ensureTable
  <2> QED
    BY <2>2, <2>3
<1>10. CASE UNCHANGED vars
  BY <1>2, <1>10 DEF vars, sourceVars, writerVars
<1> QED
  BY <1>3, <1>4, <1>5, <1>6, <1>7, <1>8, <1>9, <1>10 DEF Next

(* A batch that mixes events from before and after an ALTER TABLE is       *)
(* applied with all its columns, for any number of ALTER TABLEs, batches   *)
(* and deaths, while one of any two events in the topic has all columns of *)
(* the other (flush.go:106-108), and if no two values of the key that      *)
(* print differently are equal.                                            *)
THEOREM ColumnsArrive ==
    ASSUME KeyPrintsOnce
    PROVE  Spec => []NothingDropped
<1>1. Init => Types /\ NothingDropped
  <2>1. Init => NothingDropped
    <3>1. 1..0 = {}
      OBVIOUS
    <3> QED
      BY <3>1 DEF Init, NothingDropped
  <2> QED
    BY <2>1, TypesInit
<1>2. Types /\ NothingDropped /\ [Next]_vars => (Types /\ NothingDropped)'
  BY TypesNext, DroppedNext
<1> QED
  BY <1>1, <1>2, PTL DEF Spec

-----------------------------------------------------------------------------
(* The same printout.                                                      *)

\* Where both paths agree: what is copied the cast to text writes as the type
\* prints it, and no boolean is copied.  Booleans are printed as Postgres prints
\* them, and keys that print differently are different.
PlainValues ==
    /\ KeyType # "bool" /\ \A k \in Keys : CastText(KeyType, k) = k
    /\ \A c \in InitialCols :
        ColType[c] # "bool" /\ \A v \in Sample[ColType[c]] : CastText(ColType[c], v) = v
    /\ \A c \in Columns : ColType[c] = "bool" => Sample[ColType[c]] \subseteq {"t", "f"}
    /\ KeyPrintsOnce

KeyOf(i) == StoredKey(topic[i])

\* A rename takes one column and gives another.
Renamed == ~(srcCols \subseteq InitialCols) /\ ~(InitialCols \subseteq srcCols)

\* With one ALTER TABLE there are two lists of columns, one after the other.
ColumnsInv ==
    /\ altered = 0 => srcCols = InitialCols
    /\ Renamed => Cardinality(srcCols) = Cardinality(InitialCols)
    /\ \A i \in DOMAIN topic : topic[i].types \in {InitialCols, srcCols}
    /\ \A i, j \in DOMAIN topic : i < j /\ topic[i].types = srcCols => topic[j].types = srcCols
    /\ destCols \in {NoTable, InitialCols, srcCols}
    /\ destCols = srcCols /\ Renamed => \A i \in DOMAIN topic : topic[i].types = srcCols

\* The last event of a key tells what the source has.
RowInv ==
    /\ \A k \in DOMAIN rows : \E i \in DOMAIN topic : KeyOf(i) = k
    /\ \A i \in DOMAIN topic : LastOfKey(i) =>
        IF topic[i].op = "d" THEN KeyOf(i) \notin DOMAIN rows
        ELSE /\ KeyOf(i) \in DOMAIN rows
             /\ \A c \in srcCols :
                    IF c \in topic[i].types THEN Staged(topic[i], c) = rows[KeyOf(i)][c]
                    ELSE Renamed \/ rows[KeyOf(i)][c] = Null

\* What the destination has, and how far it is.
DestInv ==
    /\ \A k \in DOMAIN destRows : \E i \in DOMAIN topic : KeyOf(i) = k
    /\ \A k \in DOMAIN destRows, c \in destCols :
            (\A i \in DOMAIN topic : KeyOf(i) = k => c \notin topic[i].types) => destRows[k][c] = Null
    /\ \A i \in 1..offset : LastOfKey(i) =>
            IF topic[i].op = "d" THEN KeyOf(i) \notin DOMAIN destRows
            ELSE /\ KeyOf(i) \in DOMAIN destRows
                 /\ \A c \in destCols \cap topic[i].types : destRows[KeyOf(i)][c] = Staged(topic[i], c)

PrintInv == altered <= 1 => ColumnsInv /\ RowInv /\ DestInv

(* NULL arrives as NULL.                                                   *)
LEMMA NilStored ==
    ASSUME NEW type
    PROVE  Stored(Nil, type) = Null
<1>1. toParam(Nil) = Nil
  BY DEF toParam, Nil
<1> QED
  BY <1>1 DEF Stored, Cast

(* A streamed value arrives as it is.                                      *)
LEMMA StreamedStored ==
    ASSUME NEW type, NEW v, type = "bool" => v \in {"t", "f", Null}
    PROVE  Stored(Streamed(v, type), type) = v
<1>1. CASE v = Null
  BY <1>1, NilStored DEF Streamed
<1>2. CASE v # Null
  <2>1. Arrival(TupleText(type, v), type) = v
    BY <1>2, StreamedArrives
  <2> QED
    BY <1>2, <2>1 DEF Streamed, Value, Arrival
<1> QED
  BY <1>1, <1>2

(* So does a copied one that the cast writes as it is.                     *)
LEMMA CopiedStored ==
    ASSUME NEW type, NEW v, type # "bool", v = Null \/ CastText(type, v) = v
    PROVE  Stored(Copied(v, type), type) = v
<1>1. CASE v = Null
  BY <1>1, NilStored DEF Copied
<1>2. CASE v # Null
  <2>1. Arrival(CastText(type, v), type) = v
    BY <1>2, CopiedArrives
  <2> QED
    BY <1>2, <2>1 DEF Copied, Value, Arrival
<1> QED
  BY <1>1, <1>2

(* A copied row arrives under its key, with its values.                    *)
LEMMA CopiedRow ==
    ASSUME PlainValues, NEW k \in Keys, NEW image \in Held(InitialCols)
    PROVE  /\ StoredKey(rowToEvent(k, image)) = k
           /\ \A c \in InitialCols : Staged(rowToEvent(k, image), c) = image[c]
<1> DEFINE e == rowToEvent(k, image)
<1>1. e.pk = Copied(k, KeyType) /\ DOMAIN image = InitialCols
      /\ e.after = [c \in DOMAIN image |-> Copied(image[c], ColType[c])]
  BY DEF rowToEvent, Held
<1> HIDE DEF e
<1>2. StoredKey(e) = k
  BY <1>1, CopiedStored DEF StoredKey, PlainValues
<1>3. ASSUME NEW c \in InitialCols
      PROVE  Staged(e, c) = image[c]
  <2>1. columnValue(e, c) = Copied(image[c], ColType[c])
    BY <1>1 DEF columnValue
  <2>2. ColType[c] # "bool" /\ (image[c] = Null \/ CastText(ColType[c], image[c]) = image[c])
    BY DEF PlainValues, Held
  <2> QED
    BY <2>1, <2>2, CopiedStored DEF Staged
<1> QED
  BY <1>2, <1>3 DEF e

(* A streamed row too, whatever its columns are by then.                   *)
LEMMA StreamedRow ==
    ASSUME PlainValues, NEW k \in Keys, NEW cols \in SUBSET Columns, NEW image \in Held(cols), NEW op
    PROVE  /\ StoredKey(buildChangeEvent(op, k, image)) = k
           /\ buildChangeEvent(op, k, image).op = op
           /\ \A c \in cols : Staged(buildChangeEvent(op, k, image), c) = image[c]
<1> DEFINE e == buildChangeEvent(op, k, image)
<1>1. e.pk = Streamed(k, KeyType) /\ DOMAIN image = cols /\ e.op = op
      /\ e.after = [c \in DOMAIN image |-> Streamed(image[c], ColType[c])]
  BY DEF buildChangeEvent, Held
<1> HIDE DEF e
<1>2. StoredKey(e) = k
  BY <1>1, StreamedStored DEF StoredKey, PlainValues
<1>3. ASSUME NEW c \in cols
      PROVE  Staged(e, c) = image[c]
  <2>1. columnValue(e, c) = Streamed(image[c], ColType[c])
    BY <1>1 DEF columnValue
  <2>2. image[c] \in Sample[ColType[c]] \cup {Null}
    BY DEF Held
  <2>3. ColType[c] = "bool" => image[c] \in {"t", "f", Null}
    BY <2>2 DEF PlainValues
  <2> QED
    BY <2>1, <2>3, StreamedStored DEF Staged
<1> QED
  BY <1>1, <1>2, <1>3 DEF e

(* A delete names its row.                                                 *)
LEMMA DeletedRow ==
    ASSUME PlainValues, NEW k \in Keys, NEW cols
    PROVE  StoredKey(buildDeleteEvent(k, cols)) = k /\ buildDeleteEvent(k, cols).op = "d"
<1>1. buildDeleteEvent(k, cols).pk = Streamed(k, KeyType) /\ buildDeleteEvent(k, cols).op = "d"
  BY DEF buildDeleteEvent
<1> QED
  BY <1>1, StreamedStored DEF StoredKey, PlainValues

(* A row's key is its key in every event, copied or streamed.              *)
LEMMA SameKey ==
    ASSUME Types, NEW i \in DOMAIN topic, NEW j \in DOMAIN topic
    PROVE  topic[i] \in Events /\ (KeyOf(i) = KeyOf(j) <=> topic[i].pk = topic[j].pk)
<1>1. topic[i] \in Events /\ topic[j] \in Events
  BY ElementOfSeq, LenProperties DEF Types, SourceTypes
<1>2. topic[i].pk = topic[j].pk => KeyOf(i) = KeyOf(j)
  BY DEF KeyOf, StoredKey
<1> QED
  BY <1>1, <1>2, KeysApart DEF KeyOf

(* The snapshot: every row once, nothing delivered.                        *)
LEMMA PrintInit ==
    ASSUME PlainValues, Init
    PROVE  PrintInv
<1> DEFINE ks == SetToSeq(DOMAIN rows)
           Row(i) == [c \in loadColumns |-> rows[ks[i]][c]]
<1>1. Types /\ srcCols = InitialCols
  BY TypesInit DEF Init
<1>2. /\ DOMAIN rows \in SUBSET Keys /\ IsFiniteSet(DOMAIN rows)
      /\ rows \in [DOMAIN rows -> Held(InitialCols)]
  <2>1. DOMAIN rows \in SUBSET Keys
    BY <1>1 DEF Types, SourceTypes
  <2>2. IsFiniteSet(DOMAIN rows)
    BY <2>1, SchemaAssumption, FS_Subset
  <2> QED
    BY <1>1, <2>1, <2>2 DEF Types, SourceTypes
<1>3. Lists(ks, DOMAIN rows)
  BY <1>2, SetToSeqLists
<1>4. /\ ks \in Seq(DOMAIN rows) /\ DOMAIN ks = 1..Len(ks)
      /\ \A k \in DOMAIN rows : \E i \in 1..Len(ks) : ks[i] = k
      /\ \A i, j \in 1..Len(ks) : ks[i] = ks[j] => i = j
  BY <1>3, LenProperties DEF Lists
<1>5. topic = [i \in DOMAIN ks |-> rowToEvent(ks[i], Row(i))]
  BY DEF Init
<1> HIDE DEF ks
<1>6. ASSUME NEW i \in DOMAIN ks
      PROVE  /\ ks[i] \in DOMAIN rows /\ ks[i] \in Keys
             /\ topic[i] = rowToEvent(ks[i], rows[ks[i]])
             /\ rows[ks[i]] \in Held(InitialCols)
  <2>1. ks[i] \in DOMAIN rows /\ ks[i] \in Keys
    BY <1>2, <1>4, ElementOfSeq
  <2>2. rows[ks[i]] \in Held(InitialCols)
    BY <1>2, <2>1
  <2>3. Row(i) = rows[ks[i]]
    BY <1>1, <2>2 DEF loadColumns, Held
  <2>4. topic[i] = rowToEvent(ks[i], Row(i))
    BY <1>5
  <2> QED
    BY <2>1, <2>2, <2>3, <2>4
<1>7. DOMAIN topic = DOMAIN ks
  BY <1>5
<1>8. ASSUME NEW i \in DOMAIN topic
      PROVE  /\ KeyOf(i) = ks[i] /\ topic[i].op = "r" /\ topic[i].types = InitialCols
             /\ \A c \in InitialCols : Staged(topic[i], c) = rows[ks[i]][c]
  <2>1. KeyOf(i) = ks[i] /\ \A c \in InitialCols : Staged(topic[i], c) = rows[ks[i]][c]
    BY <1>6, <1>7, CopiedRow DEF KeyOf
  <2>2. topic[i].op = "r" /\ topic[i].types = InitialCols
    BY <1>6, <1>7 DEF rowToEvent, Held
  <2> QED
    BY <2>1, <2>2
<1>9. ColumnsInv
  BY <1>1, <1>8 DEF ColumnsInv, Renamed, Init
<1>10. RowInv
  <2>1. \A k \in DOMAIN rows : \E i \in DOMAIN topic : KeyOf(i) = k
    BY <1>4, <1>7, <1>8
  <2>2. ASSUME NEW i \in DOMAIN topic
        PROVE  /\ topic[i].op # "d" /\ KeyOf(i) \in DOMAIN rows
               /\ \A c \in srcCols : c \in topic[i].types /\ Staged(topic[i], c) = rows[KeyOf(i)][c]
    BY <1>1, <1>6, <1>7, <1>8
  <2> QED
    BY <2>1, <2>2 DEF RowInv
<1>11. DestInv
  <2>1. DOMAIN destRows = {} /\ 1..offset = {}
    BY DEF Init, NoRows
  <2> QED
    BY <2>1 DEF DestInv
<1> QED
  BY <1>9, <1>10, <1>11 DEF PrintInv

(* An event is the source's last word on its row, and says nothing of the  *)
(* others.                                                                 *)
LEMMA PrintSent ==
    ASSUME Types, ColumnsInv, RowInv, DestInv, NEW e, Sent(e),
           \A k \in DOMAIN rows' : k = StoredKey(e) \/ (k \in DOMAIN rows /\ rows'[k] = rows[k]),
           \A k \in DOMAIN rows : k = StoredKey(e) \/ (k \in DOMAIN rows' /\ rows'[k] = rows[k]),
           IF e.op = "d" THEN StoredKey(e) \notin DOMAIN rows'
           ELSE /\ StoredKey(e) \in DOMAIN rows'
                /\ \A c \in srcCols : Staged(e, c) = rows'[StoredKey(e)][c]
    PROVE  (ColumnsInv /\ RowInv /\ DestInv)'
<1> DEFINE n == Len(topic) + 1
<1>1. /\ Len(topic) \in Nat /\ Len(topic') = n /\ topic'[n] = e
      /\ topic' \in Seq(Events) /\ \A i \in 1..Len(topic) : topic'[i] = topic[i]
  BY TypesSent
<1>2. /\ e \in Events /\ e.types = srcCols
      /\ UNCHANGED <<srcCols, altered, offset, taken, destCols, destRows>>
  BY DEF Sent
<1>3. DOMAIN topic = 1..Len(topic) /\ DOMAIN topic' = 1..n
  BY <1>1 DEF Types, SourceTypes
<1>4. \A i \in DOMAIN topic' : i = n \/ (i \in DOMAIN topic /\ topic'[i] = topic[i] /\ i < n)
  BY <1>1, <1>3
<1>5. \A i \in DOMAIN topic : i \in DOMAIN topic' /\ topic'[i] = topic[i]
  BY <1>1, <1>3
<1>6. n \in DOMAIN topic' /\ n \in Nat
  BY <1>1, <1>3
<1> HIDE DEF n
<1>7. ColumnsInv'
  <2>1. \A i \in DOMAIN topic' : topic'[i].types \in {InitialCols, srcCols}
    BY <1>1, <1>2, <1>4 DEF ColumnsInv
  <2>2. ASSUME NEW i \in DOMAIN topic', NEW j \in DOMAIN topic', i < j, topic'[i].types = srcCols
        PROVE  topic'[j].types = srcCols
    <3>1. CASE j = n
      BY <1>1, <1>2, <3>1
    <3>2. CASE j # n
      <4>1. i # n
        BY <1>3, <1>4, <1>6, <2>2, <3>2
      <4> QED
        BY <1>4, <2>2, <3>2, <4>1 DEF ColumnsInv
    <3> QED
      BY <3>1, <3>2
  <2>3. destCols = srcCols /\ Renamed => \A i \in DOMAIN topic' : topic'[i].types = srcCols
    BY <1>1, <1>2, <1>4 DEF ColumnsInv
  <2>4. Renamed' = Renamed
    BY <1>2 DEF Renamed
  <2> QED
    BY <1>2, <2>1, <2>2, <2>3, <2>4 DEF ColumnsInv
<1>8. RowInv'
  <2>1. ASSUME NEW k \in DOMAIN rows'
        PROVE  \E i \in DOMAIN topic' : KeyOf(i)' = k
    <3>1. CASE k = StoredKey(e)
      BY <1>1, <1>6, <3>1 DEF KeyOf
    <3>2. CASE k # StoredKey(e)
      <4>1. PICK i \in DOMAIN topic : KeyOf(i) = k
        BY <3>2 DEF RowInv
      <4>2. i \in DOMAIN topic' /\ KeyOf(i)' = k
        BY <1>5, <4>1 DEF KeyOf
      <4> QED
        BY <4>2
    <3> QED
      BY <3>1, <3>2
  <2>2. ASSUME NEW i \in DOMAIN topic', LastOfKey(i)'
        PROVE  IF topic'[i].op = "d" THEN StoredKey(topic'[i]) \notin DOMAIN rows'
               ELSE /\ StoredKey(topic'[i]) \in DOMAIN rows'
                    /\ \A c \in srcCols :
                        IF c \in topic'[i].types THEN Staged(topic'[i], c) = rows'[StoredKey(topic'[i])][c]
                        ELSE Renamed \/ rows'[StoredKey(topic'[i])][c] = Null
    <3>1. CASE i = n
      BY <1>1, <1>2, <3>1
    <3>2. CASE i # n
      <4>1. i \in 1..Len(topic)
        BY <1>3, <1>4, <3>2
      <4>2. LastOfKey(i) /\ topic[i].pk # e.pk /\ topic'[i] = topic[i]
        BY <2>2, <4>1, LastBefore
      <4>3. topic[i] \in Events
        BY <1>3, <4>1, SameKey
      <4>4. KeyOf(i) # StoredKey(e)
        BY <1>2, <4>2, <4>3, KeysApart DEF KeyOf
      <4>5. /\ KeyOf(i) \in DOMAIN rows <=> KeyOf(i) \in DOMAIN rows'
            /\ KeyOf(i) \in DOMAIN rows => rows'[KeyOf(i)] = rows[KeyOf(i)]
        BY <4>4
      <4>6. IF topic[i].op = "d" THEN KeyOf(i) \notin DOMAIN rows
            ELSE /\ KeyOf(i) \in DOMAIN rows
                 /\ \A c \in srcCols :
                        IF c \in topic[i].types THEN Staged(topic[i], c) = rows[KeyOf(i)][c]
                        ELSE Renamed \/ rows[KeyOf(i)][c] = Null
        BY <1>3, <4>1, <4>2 DEF RowInv
      <4> QED
        BY <4>2, <4>5, <4>6 DEF KeyOf
    <3> QED
      BY <3>1, <3>2
  <2>3. Renamed' = Renamed /\ srcCols' = srcCols
    BY <1>2 DEF Renamed
  <2> QED
    BY <2>1, <2>2, <2>3 DEF RowInv, KeyOf
<1>9. DestInv'
  <2>1. ASSUME NEW k \in DOMAIN destRows
        PROVE  \E i \in DOMAIN topic' : KeyOf(i)' = k
    <3>1. PICK i \in DOMAIN topic : KeyOf(i) = k
      BY DEF DestInv
    <3> QED
      BY <1>5, <3>1 DEF KeyOf
  <2>2. ASSUME NEW k \in DOMAIN destRows, NEW c \in destCols,
               \A i \in DOMAIN topic' : KeyOf(i)' = k => c \notin topic'[i].types
        PROVE  destRows[k][c] = Null
    <3>1. \A i \in DOMAIN topic : KeyOf(i) = k => c \notin topic[i].types
      BY <1>5, <2>2 DEF KeyOf
    <3> QED
      BY <3>1 DEF DestInv
  <2>3. ASSUME NEW i \in 1..offset, LastOfKey(i)'
        PROVE  /\ topic'[i] = topic[i]
               /\ IF topic[i].op = "d" THEN KeyOf(i) \notin DOMAIN destRows
                  ELSE /\ KeyOf(i) \in DOMAIN destRows
                       /\ \A c \in destCols \cap topic[i].types : destRows[KeyOf(i)][c] = Staged(topic[i], c)
    <3>1. i \in 1..Len(topic)
      BY <1>1 DEF Types, WriterTypes
    <3>2. LastOfKey(i) /\ topic'[i] = topic[i]
      BY <2>3, <3>1, LastBefore
    <3> QED
      BY <3>2 DEF DestInv
  <2> QED
    BY <1>2, <2>1, <2>2, <2>3 DEF DestInv, KeyOf
<1> QED
  BY <1>7, <1>8, <1>9

(* The only ALTER TABLE: none of its columns has been sent.                *)
LEMMA PrintAltered ==
    ASSUME Types, ColumnsInv, RowInv, DestInv, altered = 0,
           UNCHANGED <<topic, offset, taken, destCols, destRows>>,
           DOMAIN rows' = DOMAIN rows, altered' = 1,
           srcCols' \in SUBSET Columns, srcCols' # InitialCols,
           Renamed' => Cardinality(srcCols') = Cardinality(InitialCols),
           \A k \in DOMAIN rows, c \in srcCols' :
                IF c \in InitialCols THEN rows'[k][c] = rows[k][c] ELSE Renamed' \/ rows'[k][c] = Null
    PROVE  (ColumnsInv /\ RowInv /\ DestInv)'
<1>1. srcCols = InitialCols /\ (\A i \in DOMAIN topic : topic[i].types = InitialCols)
  BY DEF ColumnsInv
<1>2. destCols \in {NoTable, InitialCols} /\ destCols # srcCols'
  <2>1. srcCols' # NoTable
    BY SchemaAssumption DEF NoTable
  <2> QED
    BY <1>1, <2>1 DEF ColumnsInv
<1>3. ColumnsInv'
  BY <1>1, <1>2 DEF ColumnsInv
<1>4. RowInv'
  <2>1. \A k \in DOMAIN rows' : \E i \in DOMAIN topic : KeyOf(i) = k
    BY DEF RowInv
  <2>2. ASSUME NEW i \in DOMAIN topic, LastOfKey(i)
        PROVE  IF topic[i].op = "d" THEN KeyOf(i) \notin DOMAIN rows'
               ELSE /\ KeyOf(i) \in DOMAIN rows'
                    /\ \A c \in srcCols' :
                        IF c \in topic[i].types THEN Staged(topic[i], c) = rows'[KeyOf(i)][c]
                        ELSE Renamed' \/ rows'[KeyOf(i)][c] = Null
    <3>1. IF topic[i].op = "d" THEN KeyOf(i) \notin DOMAIN rows
          ELSE /\ KeyOf(i) \in DOMAIN rows
               /\ \A c \in srcCols : c \in topic[i].types => Staged(topic[i], c) = rows[KeyOf(i)][c]
      BY <2>2 DEF RowInv
    <3> QED
      BY <1>1, <3>1
  <2> QED
    BY <2>1, <2>2 DEF RowInv, KeyOf, LastOfKey
<1>5. DestInv'
  BY DEF DestInv, KeyOf, LastOfKey
<1> QED
  BY <1>3, <1>4, <1>5

(* The table is made of the first list of columns, unless no event had it. *)
LEMMA PrintTable ==
    ASSUME Types, ColumnsInv, taken > 0, TableMade, UNCHANGED <<srcCols, altered, topic>>
    PROVE  ColumnsInv'
<1>1. CASE destCols # NoTable
  <2>1. destCols' = destCols
    BY <1>1 DEF TableMade
  <2> QED
    BY <2>1 DEF ColumnsInv, Renamed
<1>2. CASE destCols = NoTable
  <2>1. offset = 0 /\ destCols' = orderedColumns
    BY <1>2 DEF TableMade, Types, WriterTypes
  <2>2. /\ taken \in Nat /\ Batch \in Seq(Events) /\ Batch # <<>> /\ Len(Batch) = taken
        /\ \A i \in 1..taken : Batch[i] = topic[i] /\ i \in 1..Len(topic)
    <3>1. \A i \in 1..taken : 0 + i = i
      BY BatchParts
    <3> QED
      BY <2>1, <3>1, BatchParts
  <2>3. DOMAIN topic = 1..Len(topic) /\ Len(topic) \in Nat
    BY LenProperties DEF Types, SourceTypes
  <2>4. PICK m \in 1..taken : representative(Batch) = Batch[m]
    BY <2>2, Representative
  <2>5. destCols' = topic[m].types /\ m \in DOMAIN topic
    BY <2>1, <2>2, <2>3, <2>4 DEF orderedColumns
  <2>6. destCols' \in {NoTable, InitialCols, srcCols}
    BY <2>5 DEF ColumnsInv
  <2>7. ASSUME destCols' = srcCols, Renamed
        PROVE  \A i \in DOMAIN topic : topic[i].types = srcCols
    <3>1. \A i \in 1..taken : Width(Batch[i]) = Cardinality(srcCols)
      BY <2>2, <2>3, <2>7 DEF Width, ColumnsInv
    <3>2. 1 \in 1..taken
      BY <2>2, BatchParts
    <3>3. representative(Batch) = Batch[1]
      BY <2>2, <3>1, <3>2, Representative
    <3>4. topic[1].types = srcCols
      BY <2>1, <2>2, <2>7, <3>2, <3>3 DEF orderedColumns
    <3>5. \A i \in DOMAIN topic : i = 1 \/ 1 < i
      BY <2>3
    <3>6. 1 \in DOMAIN topic
      BY <2>2, <2>3, <3>2
    <3> QED
      BY <3>4, <3>5, <3>6 DEF ColumnsInv
  <2> QED
    BY <2>6, <2>7 DEF ColumnsInv, Renamed
<1> QED
  BY <1>1, <1>2

(* Of two lists of columns, a batch that holds both is applied with the    *)
(* one that has every column of the other, as far as the table has it.     *)
LEMMA PrintColumns ==
    ASSUME Types, ColumnsInv, taken > 0, UNCHANGED <<srcCols, altered, topic>>,
           ColumnsInv', TableMade, orderedColumns \subseteq destCols',
           NEW i \in (offset + 1)..(offset + taken)
    PROVE  destCols' \cap topic[i].types \subseteq orderedColumns
<1>1. /\ topic[i] \in Events
      /\ Cardinality(orderedColumns) >= Cardinality(topic[i].types)
  BY WidestOfBatch
<1>2. PICK m \in (offset + 1)..(offset + taken) :
            m \in DOMAIN topic /\ topic[m] \in Events /\ topic[m].types = orderedColumns
  BY WidestOfBatch
<1>3. i \in DOMAIN topic
  BY BatchParts DEF Types, SourceTypes, WriterTypes
<1>4. /\ orderedColumns \in {InitialCols, srcCols} /\ topic[i].types \in {InitialCols, srcCols}
      /\ destCols' \in {InitialCols, srcCols}
  BY <1>2, <1>3 DEF ColumnsInv, TableMade
<1>5. /\ IsFiniteSet(topic[i].types) /\ Cardinality(topic[i].types) \in Nat
      /\ IsFiniteSet(orderedColumns) /\ Cardinality(orderedColumns) \in Nat
  BY <1>1, <1>2, EventParts
<1>6. CASE orderedColumns = topic[i].types
  BY <1>6
<1>7. CASE orderedColumns \subseteq topic[i].types
  <2>1. /\ Cardinality(orderedColumns) <= Cardinality(topic[i].types)
        /\ Cardinality(orderedColumns) = Cardinality(topic[i].types) => orderedColumns = topic[i].types
    BY <1>5, <1>7, FS_Subset
  <2> QED
    BY <1>1, <1>5, <1>6, <2>1
<1>8. CASE topic[i].types \subseteq orderedColumns
  BY <1>8
<1>9. CASE Renamed
  <2>1. ~(InitialCols \subseteq srcCols) /\ ~(srcCols \subseteq InitialCols)
    BY <1>9 DEF Renamed
  <2>2. destCols' = orderedColumns
    BY <1>4, <2>1
  <2> QED
    BY <2>2
<1> QED
  BY <1>4, <1>6, <1>7, <1>8, <1>9 DEF Renamed

(* What a flush leaves at the destination.                                 *)
LEMMA PrintFlush ==
    ASSUME KeyPrintsOnce, Types, ColumnsInv, DestInv, Flush
    PROVE  ColumnsInv' /\ DestInv'
<1>1. /\ TableMade /\ UNCHANGED <<srcCols, rows, altered, topic>>
      /\ taken > 0 /\ destRows' = mergeStaging
      /\ orderedColumns \subseteq destCols'
      /\ offset' \in {offset, offset + taken}
  BY TypesFlush DEF sourceVars
<1>2. ColumnsInv'
  BY <1>1, PrintTable
<1>3. /\ offset \in Nat /\ taken \in Nat /\ Len(topic) \in Nat /\ offset + taken <= Len(topic)
      /\ DOMAIN topic = 1..Len(topic)
  BY <1>1, BatchParts DEF Types, SourceTypes, WriterTypes
<1>4. ensureTable = destCols'
  BY DEF Flush
<1>5. ASSUME NEW e \in dedupe(Batch)
      PROVE  \E i \in DOMAIN topic : KeyOf(i) = StoredKey(e) /\ topic[i] = e
  <2>1. PICK i : StagedAt(i) /\ e = topic[i]
    BY <1>1, <1>5, DedupeParts
  <2>2. i \in DOMAIN topic
    BY <1>3, <2>1 DEF StagedAt
  <2> QED
    BY <2>1, <2>2 DEF KeyOf
<1>6. ASSUME NEW k \in DOMAIN destRows'
      PROVE  \E i \in DOMAIN topic : KeyOf(i) = k
  <2>1. CASE k \in DOMAIN destRows
    BY <2>1 DEF DestInv
  <2>2. CASE \E e \in dedupe(Batch) : e.op # "d" /\ StoredKey(e) = k
    BY <1>5, <2>2
  <2> QED
    BY <1>1, <1>6, <2>1, <2>2, MergeParts
<1>7. ASSUME NEW k \in DOMAIN destRows, NEW c \in destCols',
             \A i \in DOMAIN topic : KeyOf(i) = k => c \notin topic[i].types
      PROVE  destRows[k][c] = Null
  <2>1. destCols' = destCols
    BY <1>1 DEF TableMade, Types, WriterTypes
  <2> QED
    BY <1>7, <2>1 DEF DestInv
<1>8. ASSUME NEW k \in DOMAIN destRows', NEW c \in destCols',
             \A i \in DOMAIN topic : KeyOf(i) = k => c \notin topic[i].types
      PROVE  destRows'[k][c] = Null
  <2>1. CASE k \in DOMAIN destRows /\ \A e \in dedupe(Batch) : StoredKey(e) # k
    <3>1. destRows'[k] = destRows[k]
      BY <1>1, <2>1, MergeParts
    <3> QED
      BY <1>7, <1>8, <2>1, <3>1
  <2>2. ASSUME NEW e \in dedupe(Batch), e.op # "d", StoredKey(e) = k
        PROVE  destRows'[k][c] = Null
    <3>1. destRows'[k] = mergeRow(e)
      BY <1>1, <2>2, MergeParts
    <3>2. c \notin e.types /\ e \in Events
      BY <1>1, <1>5, <1>8, <2>2, DedupeParts
    <3>3. c \notin DOMAIN e.after
      BY <2>2, <3>2, EventParts
    <3>4. Staged(e, c) = Null
      BY <3>3, NilStored DEF Staged, columnValue
    <3>5. mergeRow(e)[c] = (IF c \in orderedColumns THEN Staged(e, c)
                            ELSE IF k \in DOMAIN destRows THEN destRows[k][c]
                            ELSE Null)
      <4>1. Target(e) = k /\ (Matched(e) # {} <=> k \in DOMAIN destRows)
        BY <2>2, OneMatch
      <4> QED
        BY <1>4, <1>8, <4>1 DEF mergeRow
    <3> QED
      BY <1>7, <1>8, <3>1, <3>4, <3>5
  <2> QED
    BY <1>1, <1>8, <2>1, <2>2, MergeParts
<1>9. ASSUME NEW i \in 1..offset', LastOfKey(i)
      PROVE  IF topic[i].op = "d" THEN KeyOf(i) \notin DOMAIN destRows'
             ELSE /\ KeyOf(i) \in DOMAIN destRows'
                  /\ \A c \in destCols' \cap topic[i].types : destRows'[KeyOf(i)][c] = Staged(topic[i], c)
  <2>1. CASE i <= offset
    <3>1. i \in 1..offset /\ i \in DOMAIN topic
      BY <1>1, <1>3, <2>1
    <3>2. \A e \in dedupe(Batch) : StoredKey(e) # KeyOf(i)
      BY <1>1, <1>9, <3>1, LastUntouched DEF KeyOf
    <3>3. /\ KeyOf(i) \in DOMAIN destRows => KeyOf(i) \in DOMAIN destRows' /\ destRows'[KeyOf(i)] = destRows[KeyOf(i)]
          /\ KeyOf(i) \in DOMAIN destRows' => KeyOf(i) \in DOMAIN destRows
      BY <1>1, <3>2, MergeParts
    <3>4. IF topic[i].op = "d" THEN KeyOf(i) \notin DOMAIN destRows
          ELSE /\ KeyOf(i) \in DOMAIN destRows
               /\ \A c \in destCols \cap topic[i].types : destRows[KeyOf(i)][c] = Staged(topic[i], c)
      BY <1>9, <3>1 DEF DestInv
    <3>5. KeyOf(i) \in DOMAIN destRows => destCols' = destCols
      BY <1>1 DEF TableMade, Types, WriterTypes
    <3> QED
      BY <3>3, <3>4, <3>5
  <2>2. CASE ~(i <= offset)
    <3>1. i \in (offset + 1)..(offset + taken)
      BY <1>1, <1>3, <2>2
    <3>2. topic[i] \in dedupe(Batch)
      BY <1>1, <1>9, <3>1, LastStaged
    <3>3. CASE topic[i].op = "d"
      BY <1>1, <3>2, <3>3, MergeParts DEF KeyOf
    <3>4. CASE topic[i].op # "d"
      <4>1. KeyOf(i) \in DOMAIN destRows' /\ destRows'[KeyOf(i)] = mergeRow(topic[i])
        BY <1>1, <3>2, <3>4, MergeParts DEF KeyOf
      <4>2. destCols' \cap topic[i].types \subseteq orderedColumns
        BY <1>1, <1>2, <3>1, PrintColumns
      <4>3. \A c \in orderedColumns : mergeRow(topic[i])[c] = Staged(topic[i], c)
        BY <1>1, <1>4 DEF mergeRow
      <4> QED
        BY <3>4, <4>1, <4>2, <4>3
    <3> QED
      BY <3>3, <3>4
  <2> QED
    BY <2>1, <2>2
<1>10. DestInv'
  BY <1>1, <1>6, <1>8, <1>9 DEF DestInv, KeyOf, LastOfKey
<1> QED
  BY <1>2, <1>10

(* Some event of a key is the last one.                                    *)
LEMMA LastExists ==
    ASSUME Types, NEW i \in DOMAIN topic
    PROVE  \E j \in DOMAIN topic : LastOfKey(j) /\ KeyOf(j) = KeyOf(i)
<1> DEFINE S == {j \in DOMAIN topic : topic[j].pk = topic[i].pk}
<1>1. DOMAIN topic = 1..Len(topic) /\ Len(topic) \in Nat
  BY LenProperties DEF Types, SourceTypes
<1>2. S \in SUBSET (1..Len(topic)) /\ i \in S
  BY <1>1
<1>3. \E x \in S : \A y \in S : x >= y
  <2> HIDE DEF S
  <2> QED
    BY <1>1, <1>2, Greatest
<1>4. PICK j \in S : \A y \in S : j >= y
  BY <1>3
<1>5. LastOfKey(j)
  <2>1. ASSUME NEW y \in (j + 1)..Len(topic), topic[y].pk = topic[j].pk
        PROVE  FALSE
    <3>1. y \in S /\ y > j
      BY <1>1, <1>4, <2>1
    <3> QED
      BY <1>1, <1>4, <3>1
  <2> QED
    BY <2>1 DEF LastOfKey
<1> QED
  BY <1>4, <1>5, SameKey

(* Every step keeps it.                                                    *)
LEMMA PrintNext ==
    ASSUME PlainValues, Types, PrintInv, [Next]_vars
    PROVE  PrintInv'
<1> SUFFICES ASSUME altered' <= 1
             PROVE  (ColumnsInv /\ RowInv /\ DestInv)'
  BY DEF PrintInv
<1>0. altered \in Nat
  BY Bounds DEF Types, SourceTypes
<1>1. ASSUME altered' = altered
      PROVE  ColumnsInv /\ RowInv /\ DestInv
  BY <1>1 DEF PrintInv
<1>2. ASSUME altered' = altered + 1
      PROVE  altered = 0 /\ altered' = 1 /\ ColumnsInv /\ RowInv /\ DestInv
             /\ srcCols = InitialCols /\ srcCols \in SUBSET Columns
             /\ IsFiniteSet(srcCols)
  <2>1. altered = 0 /\ altered' = 1
    BY <1>0, <1>2
  <2>2. srcCols \in SUBSET Columns /\ IsFiniteSet(srcCols)
    BY SchemaAssumption, FS_Subset DEF Types, SourceTypes
  <2> QED
    BY <2>1, <2>2 DEF PrintInv, ColumnsInv
<1>3. CASE Write
  <2>1. PICK k \in Keys, image \in Images(srcCols), op \in {"c", "u"} :
              /\ Sent(buildChangeEvent(op, k, image))
              /\ image \in Held(srcCols)
              /\ rows' = [x \in DOMAIN rows \cup {k} |-> IF x = k THEN image ELSE rows[x]]
    BY <1>3, WriteEffect
  <2> DEFINE e == buildChangeEvent(op, k, image)
  <2>2. srcCols \in SUBSET Columns
    BY DEF Types, SourceTypes
  <2>3. StoredKey(e) = k /\ e.op = op /\ \A c \in srcCols : Staged(e, c) = image[c]
    BY <2>1, <2>2, StreamedRow
  <2>4. Sent(e) /\ e.op # "d"
    BY <2>1, <2>3
  <2> HIDE DEF e
  <2>5. \A x \in DOMAIN rows' : x = StoredKey(e) \/ (x \in DOMAIN rows /\ rows'[x] = rows[x])
    BY <2>1, <2>3
  <2>6. \A x \in DOMAIN rows : x = StoredKey(e) \/ (x \in DOMAIN rows' /\ rows'[x] = rows[x])
    BY <2>1, <2>3
  <2>7. /\ StoredKey(e) \in DOMAIN rows'
        /\ \A c \in srcCols : Staged(e, c) = rows'[StoredKey(e)][c]
    BY <2>1, <2>3
  <2> QED
    BY <1>1, <2>4, <2>5, <2>6, <2>7, PrintSent DEF Sent
<1>4. CASE Delete
  <2>1. PICK k \in DOMAIN rows :
              /\ k \in Keys
              /\ Sent(buildDeleteEvent(k, srcCols))
              /\ rows' = [x \in DOMAIN rows \ {k} |-> rows[x]]
    BY <1>4, DeleteEffect
  <2> DEFINE e == buildDeleteEvent(k, srcCols)
  <2>2. StoredKey(e) = k /\ e.op = "d" /\ Sent(e)
    BY <2>1, DeletedRow
  <2> HIDE DEF e
  <2>3. \A x \in DOMAIN rows' : x = StoredKey(e) \/ (x \in DOMAIN rows /\ rows'[x] = rows[x])
    BY <2>1, <2>2
  <2>4. \A x \in DOMAIN rows : x = StoredKey(e) \/ (x \in DOMAIN rows' /\ rows'[x] = rows[x])
    BY <2>1, <2>2
  <2>5. StoredKey(e) \notin DOMAIN rows'
    BY <2>1, <2>2
  <2> QED
    BY <1>1, <2>2, <2>3, <2>4, <2>5, PrintSent DEF Sent
<1>5. ASSUME NEW c \in Columns, AddColumn(c)
      PROVE  (ColumnsInv /\ RowInv /\ DestInv)'
  <2>1. /\ c \notin srcCols /\ srcCols' = srcCols \cup {c} /\ srcCols' \in SUBSET Columns
        /\ altered' = altered + 1
        /\ UNCHANGED <<topic, offset, taken, destCols, destRows>>
        /\ DOMAIN rows' = DOMAIN rows
        /\ \A k \in DOMAIN rows : rows'[k][c] = Null /\ \A x \in srcCols : rows'[k][x] = rows[k][x]
    BY <1>5, AddEffect
  <2>2. altered = 0 /\ altered' = 1 /\ srcCols = InitialCols /\ ColumnsInv /\ RowInv /\ DestInv
    BY <1>2, <2>1
  <2>3. ~Renamed' /\ srcCols' # InitialCols
    BY <2>1, <2>2 DEF Renamed
  <2>4. \A k \in DOMAIN rows, x \in srcCols' :
            IF x \in InitialCols THEN rows'[k][x] = rows[k][x] ELSE Renamed' \/ rows'[k][x] = Null
    BY <2>1, <2>2
  <2> QED
    BY <2>1, <2>2, <2>3, <2>4, PrintAltered
<1>6. ASSUME NEW c \in Columns, DropColumn(c)
      PROVE  (ColumnsInv /\ RowInv /\ DestInv)'
  <2>1. /\ c \in srcCols /\ srcCols' = srcCols \ {c} /\ srcCols' \in SUBSET Columns
        /\ altered' = altered + 1
        /\ UNCHANGED <<topic, offset, taken, destCols, destRows>>
        /\ DOMAIN rows' = DOMAIN rows
        /\ \A k \in DOMAIN rows : \A x \in srcCols' : rows'[k][x] = rows[k][x]
    BY <1>6, DropEffect
  <2>2. altered = 0 /\ altered' = 1 /\ srcCols = InitialCols /\ ColumnsInv /\ RowInv /\ DestInv
    BY <1>2, <2>1
  <2>3. ~Renamed' /\ srcCols' # InitialCols
    BY <2>1, <2>2 DEF Renamed
  <2>4. \A k \in DOMAIN rows, x \in srcCols' :
            IF x \in InitialCols THEN rows'[k][x] = rows[k][x] ELSE Renamed' \/ rows'[k][x] = Null
    BY <2>1, <2>2
  <2> QED
    BY <2>1, <2>2, <2>3, <2>4, PrintAltered
<1>7. ASSUME NEW a \in Columns, NEW b \in Columns, RenameColumn(a, b)
      PROVE  (ColumnsInv /\ RowInv /\ DestInv)'
  <2>1. /\ a \in srcCols /\ b \notin srcCols /\ srcCols' = (srcCols \ {a}) \cup {b}
        /\ srcCols' \in SUBSET Columns
        /\ altered' = altered + 1
        /\ UNCHANGED <<topic, offset, taken, destCols, destRows>>
        /\ DOMAIN rows' = DOMAIN rows
        /\ \A k \in DOMAIN rows : \A x \in srcCols \ {a} : rows'[k][x] = rows[k][x]
    BY <1>7, RenameEffect
  <2>2. /\ altered = 0 /\ altered' = 1 /\ srcCols = InitialCols /\ ColumnsInv /\ RowInv /\ DestInv
        /\ IsFiniteSet(srcCols)
    BY <1>2, <2>1
  <2>3. Renamed' /\ srcCols' # InitialCols
    BY <2>1, <2>2 DEF Renamed
  <2>4. Cardinality(srcCols') = Cardinality(InitialCols)
    <3>1. /\ IsFiniteSet(srcCols \ {a})
          /\ Cardinality(srcCols \ {a}) = Cardinality(srcCols) - 1
      BY <2>1, <2>2, FS_RemoveElement
    <3>2. Cardinality((srcCols \ {a}) \cup {b}) = Cardinality(srcCols \ {a}) + 1
      BY <2>1, <3>1, FS_AddElement
    <3>3. Cardinality(srcCols) \in Nat
      BY <2>2, FS_CardinalityType
    <3> QED
      BY <2>1, <2>2, <3>1, <3>2, <3>3
  <2>5. \A k \in DOMAIN rows, x \in srcCols' :
            IF x \in InitialCols THEN rows'[k][x] = rows[k][x] ELSE Renamed' \/ rows'[k][x] = Null
    BY <2>1, <2>2, <2>3
  <2> QED
    BY <2>1, <2>2, <2>3, <2>4, <2>5, PrintAltered
<1>8. ASSUME UNCHANGED <<srcCols, rows, altered, topic, offset, destCols, destRows>>
      PROVE  (ColumnsInv /\ RowInv /\ DestInv)'
  BY <1>1, <1>8 DEF ColumnsInv, RowInv, DestInv, Renamed, KeyOf, LastOfKey
<1>9. CASE Fetch
  BY <1>8, <1>9 DEF Fetch, sourceVars
<1>10. CASE Flush
  <2>1. UNCHANGED <<srcCols, rows, altered, topic>>
    BY <1>10 DEF Flush, sourceVars
  <2>2. ColumnsInv' /\ DestInv'
    BY <1>1, <1>10, <2>1, PrintFlush DEF PlainValues
  <2>3. RowInv'
    BY <1>1, <2>1 DEF RowInv, Renamed, KeyOf, LastOfKey
  <2> QED
    BY <2>2, <2>3
<1>11. CASE FlushFails
  <2>1. /\ taken > 0 /\ destCols' = ensureTable
        /\ UNCHANGED <<srcCols, rows, altered, topic, offset, destRows>>
    BY <1>11 DEF FlushFails, sourceVars
  <2>2. CASE destCols = NoTable
    <3>1. ColumnsInv'
      BY <1>1, <2>1, TableParts, PrintTable
    <3>2. DOMAIN destRows' = {} /\ 1..offset' = {}
      BY <2>1, <2>2 DEF Types, WriterTypes
    <3>3. DestInv'
      BY <3>2 DEF DestInv
    <3>4. RowInv'
      BY <1>1, <2>1 DEF RowInv, Renamed, KeyOf, LastOfKey
    <3> QED
      BY <3>1, <3>3, <3>4
  <2>3. CASE destCols # NoTable
    BY <1>8, <2>1, <2>3 DEF ensureTable
  <2> QED
    BY <2>2, <2>3
<1>12. CASE UNCHANGED vars
  BY <1>8, <1>12 DEF vars, sourceVars, writerVars
<1> QED
  BY <1>3, <1>4, <1>5, <1>6, <1>7, <1>9, <1>10, <1>11, <1>12 DEF Next

(* What is delivered prints as it does at the source.                      *)
LEMMA PrintSame ==
    ASSUME Types, PrintInv
    PROVE  SamePrintout
<1> SUFFICES ASSUME altered <= 1, offset = Len(topic)
             PROVE  /\ DOMAIN destRows = DOMAIN rows
                    /\ \A k \in DOMAIN rows : \A c \in srcCols \cap destCols : destRows[k][c] = rows[k][c]
  BY DEF SamePrintout
<1>0. ColumnsInv /\ RowInv /\ DestInv
  BY DEF PrintInv
<1>1. DOMAIN topic = 1..offset /\ Len(topic) \in Nat
  BY LenProperties DEF Types, SourceTypes
<1>2. ASSUME NEW k \in DOMAIN destRows
      PROVE  k \in DOMAIN rows
  <2>1. PICK i \in DOMAIN topic : KeyOf(i) = k
    BY <1>0 DEF DestInv
  <2>2. PICK j \in DOMAIN topic : LastOfKey(j) /\ KeyOf(j) = k
    BY <2>1, LastExists
  <2>3. topic[j].op # "d"
    BY <1>0, <1>1, <1>2, <2>2 DEF DestInv
  <2> QED
    BY <1>0, <2>2, <2>3 DEF RowInv
<1>3. ASSUME NEW k \in DOMAIN rows
      PROVE  /\ k \in DOMAIN destRows
             /\ \A c \in srcCols \cap destCols : destRows[k][c] = rows[k][c]
  <2>1. PICK i \in DOMAIN topic : KeyOf(i) = k
    BY <1>0 DEF RowInv
  <2>2. PICK j \in DOMAIN topic : LastOfKey(j) /\ KeyOf(j) = k
    BY <2>1, LastExists
  <2>3. topic[j].op # "d"
    BY <1>0, <1>3, <2>2 DEF RowInv
  <2>4. /\ k \in DOMAIN destRows
        /\ \A c \in destCols \cap topic[j].types : destRows[k][c] = Staged(topic[j], c)
    BY <1>0, <1>1, <2>2, <2>3 DEF DestInv
  <2>5. \A c \in srcCols :
            IF c \in topic[j].types THEN Staged(topic[j], c) = rows[k][c]
            ELSE Renamed \/ rows[k][c] = Null
    BY <1>0, <2>2, <2>3 DEF RowInv
  <2>6. ASSUME NEW c \in srcCols \cap destCols, c \notin topic[j].types
        PROVE  destRows[k][c] = Null /\ ~Renamed
    <3>1. topic[j].types = InitialCols /\ InitialCols # srcCols
      BY <1>0, <2>6 DEF ColumnsInv
    <3>2. destCols = srcCols
      <4>1. destCols # NoTable /\ destCols # InitialCols
        BY <2>4, <2>6, <3>1 DEF Types, WriterTypes
      <4> QED
        BY <1>0, <4>1 DEF ColumnsInv
    <3>3. ~Renamed
      BY <1>0, <3>1, <3>2 DEF ColumnsInv
    <3>4. ASSUME NEW m \in DOMAIN topic, KeyOf(m) = k
          PROVE  c \notin topic[m].types
      <4>1. topic[m].pk = topic[j].pk
        BY <2>2, <3>4, SameKey
      <4>2. m <= j
        BY <1>1, <2>2, <4>1 DEF LastOfKey
      <4>3. topic[m].types # srcCols
        BY <1>0, <1>1, <3>1, <4>2 DEF ColumnsInv
      <4> QED
        BY <1>0, <2>6, <3>1, <4>3 DEF ColumnsInv
    <3> QED
      BY <1>0, <2>4, <2>6, <3>3, <3>4 DEF DestInv
  <2> QED
    BY <2>4, <2>5, <2>6
<1> QED
  BY <1>2, <1>3

(* Where every copied value is cast to the text that its type prints, and  *)
(* none is a boolean, source and destination print the same once           *)
(* everything is delivered, whichever way a row came and whatever one      *)
(* ALTER TABLE did to its columns (backfill.go:73-75).  That excludes      *)
(* bool, bpchar and inet, and keys that print differently but are equal.   *)
THEOREM PrintsTheSame ==
    ASSUME PlainValues
    PROVE  Spec => []SamePrintout
<1>1. Init => Types /\ PrintInv
  BY TypesInit, PrintInit
<1>2. Types /\ PrintInv /\ [Next]_vars => (Types /\ PrintInv)'
  BY TypesNext, PrintNext
<1>3. Types /\ PrintInv => SamePrintout
  BY PrintSame
<1> QED
  BY <1>1, <1>2, <1>3, PTL DEF Spec

=============================================================================
