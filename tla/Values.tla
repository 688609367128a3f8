------------------------------- MODULE Values -------------------------------
(***************************************************************************)
(* The way of one value from a source column to a destination column:      *)
(* Postgres text, internal/pgval, the JSON of the event, the writer's bind *)
(* parameter and its cast.  A stored value is written as its type's output *)
(* function writes it.  There are two ways in, the stream and the backfill,*)
(* and one way on.                                                         *)
(***************************************************************************)
EXTENDS Naturals

CONSTANTS
    TextCasts,  \* [types, beside bool, with a cast to text of their own ->
                \*  [values -> text]]: bpchar loses its padding, inet gets "/32"
    Rounded     \* [numbers beyond 2^53 -> text]: as the nearest float64

Null == "NULL"
Nil == [kind |-> "nil", text |-> "nil"]

-----------------------------------------------------------------------------
(* Out of the source.                                                      *)

\* pgoutput sends what the type's output function writes.
TupleText(type, v) == v

\* SELECT col::text calls the cast of a type that has one, else the type's
\* output function.
CastText(type, v) ==
    CASE type = "bool" -> IF v = "t" THEN "true" ELSE "false"
      [] type # "bool" /\ type \in DOMAIN TextCasts -> TextCasts[type][v]
      [] type # "bool" /\ type \notin DOMAIN TextCasts -> v

-----------------------------------------------------------------------------
(* internal/pgval.  Types are named where the code has their OIDs.         *)

Integer(s) == [kind |-> "int64", text |-> s]
Boolean(b) == [kind |-> "bool", text |-> IF b THEN "true" ELSE "false"]
String(s) == [kind |-> "string", text |-> s]

TextToValue(s, type) ==
    CASE type \in {"int2", "int4", "int8"} -> Integer(s)
      [] type = "bool" -> Boolean(s = "t")
      [] type \notin {"int2", "int4", "int8", "bool"} -> String(s)

TypeNameForOID(type) ==
    CASE type = "bool" -> "boolean"
      [] type = "int2" -> "smallint"
      [] type = "int4" -> "integer"
      [] type = "int8" -> "bigint"
      [] type = "float4" -> "real"
      [] type = "float8" -> "double precision"
      [] type \in {"date", "timestamp", "timestamptz", "numeric", "uuid", "jsonb"} -> type
      [] OTHER -> "text"

-----------------------------------------------------------------------------
(* The event's JSON.                                                       *)

\* Faulty variant: numbers become float64.
DecodeFloat(v) ==
    IF v.kind # "int64" THEN v
    ELSE [kind |-> "float64",
          text |-> IF v.text \in DOMAIN Rounded THEN Rounded[v.text] ELSE v.text]

\* What Decode makes of what Marshal wrote: a number keeps its digits.
Decode(v) == IF v.kind = "int64" THEN [v EXCEPT !.kind = "json.Number"] ELSE v

-----------------------------------------------------------------------------
(* Into the destination.                                                   *)

destType(name) ==
    IF name \in {"boolean", "smallint", "integer", "bigint", "real", "double precision",
                 "numeric", "text", "date", "timestamp", "timestamptz", "uuid", "jsonb"}
    THEN name ELSE "text"

\* Only a bool is bound as itself; everything else travels as text.
toParam(v) == IF v.kind \in {"nil", "bool"} THEN v ELSE String(v.text)

\* $n::type, and how the column then prints.
Cast(param, name) ==
    CASE param = Nil -> Null
      [] name = "boolean" /\ param # Nil -> IF param.text = "true" THEN "t" ELSE "f"
      [] name # "boolean" /\ param # Nil -> param.text

Stored(v, type) == Cast(toParam(v), destType(TypeNameForOID(type)))

=============================================================================
