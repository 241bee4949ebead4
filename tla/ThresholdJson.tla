--------------------------- MODULE ThresholdJson ---------------------------
(***************************************************************************)
(* The field kt of an event as JSON (affinidi-keri-core/src/threshold.rs): *)
(* Weight::parse, Threshold::from_json_value and to_json_value, and the    *)
(* serde implementations that use them.                                    *)
(*                                                                         *)
(* A text is a whole number, a fraction, or something else.                *)
(***************************************************************************)
EXTENDS Threshold

CONSTANT U32Max  \* the largest value of the type of a weight's parts

ASSUME U32MaxAssumption == U32Max \in Nat \ {0}

Whole(n) == [form |-> "whole", num |-> n]

Fraction(n, d) == [form |-> "fraction", num |-> n, den |-> d]

OtherText == [form |-> "other"]

JsonString(text) == [json |-> "string", text |-> text]

JsonNumber(n) == [json |-> "number", num |-> n]

JsonArray(items) == [json |-> "array", items |-> items]

JsonNull == [json |-> "null"]

\* Values as deep as a threshold
JsonText ==
  [form : {"whole"}, num : Nat] \cup [form : {"fraction"}, num : Nat, den : Nat] \cup {OtherText}

JsonScalar ==
  [json : {"string"}, text : JsonText] \cup [json : {"number"}, num : Nat] \cup {JsonNull}

JsonClause == JsonScalar \cup [json : {"array"}, items : Seq(JsonScalar)]

JsonField == JsonScalar \cup [json : {"array"}, items : Seq(JsonClause)]

Invalid == [kind |-> "invalid"]

----------------------------------------------------------------------------

IsWeight(text) ==
  \/ text.form = "whole" /\ text.num <= U32Max
  \/ text.form = "fraction" /\ text.num <= U32Max /\ text.den \in 1..U32Max

ParseWeight(text) ==
  [num |-> text.num, den |-> IF text.form = "whole" THEN 1 ELSE text.den]

IsClause(value) ==
  /\ value.json = "array" /\ value.items # <<>>
  /\ \A n \in DOMAIN value.items :
       value.items[n].json = "string" /\ IsWeight(value.items[n].text)

ParseClause(value) == [n \in DOMAIN value.items |-> ParseWeight(value.items[n].text)]

\* At least 1, in the range of the type
IsCount(n) == n \in 1..U64Max

FromJsonValue(value) ==
  CASE value.json = "string" /\ value.text.form = "whole" /\ IsCount(value.text.num) ->
         Simple(value.text.num)
    [] value.json = "number" /\ IsCount(value.num) -> Simple(value.num)
    [] value.json = "array" /\ value.items # <<>>
         /\ \A c \in DOMAIN value.items : IsClause(value.items[c]) ->
         Weighted([c \in DOMAIN value.items |-> ParseClause(value.items[c])])
    [] OTHER -> Invalid

\* Faulty variant: a weight is written without its denominator
ToFractionStringWhole(w) == Whole(w.num)

ToFractionString(w) == IF w.den = 1 THEN Whole(w.num) ELSE Fraction(w.num, w.den)

ToJsonValue(threshold) ==
  IF threshold.kind = "simple" THEN JsonString(Whole(threshold.k))
  ELSE JsonArray([c \in DOMAIN threshold.clauses |->
                    JsonArray([n \in DOMAIN threshold.clauses[c] |->
                                 JsonString(ToFractionString(threshold.clauses[c][n]))])])
=============================================================================
