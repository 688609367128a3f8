------------------------------ MODULE MCSchema ------------------------------
(* A table keyed by a bigint, with numbers on both sides of 2^53. *)
EXTENDS Schema

MCTextCasts ==
    "bpchar" :> ("ab  " :> "ab" @@ "cd  " :> "cd")
    @@ "inet" :> ("10.0.0.1" :> "10.0.0.1/32" @@ "10.0.0.2" :> "10.0.0.2/32")
MCKeyForm == <<>>
MCRounded == [v \in {"9007199254740993"} |-> "9007199254740992"]
MCSample == [type \in {"int8", "bool", "bpchar", "inet", "enum"} |->
    CASE type = "int8" -> {"7", "9007199254740993"}
      [] type = "bool" -> {"t", "f"}
      [] type = "bpchar" -> {"ab  ", "cd  "}
      [] type = "inet" -> {"10.0.0.1", "10.0.0.2"}
      [] type = "enum" -> {"adult", "collared"}]
MCKeys == MCSample[KeyType]
MCColType == [c \in Columns |-> IF c = "flag" THEN "bool" ELSE "enum"]

=============================================================================
