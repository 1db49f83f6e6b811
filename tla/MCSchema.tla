------------------------------ MODULE MCSchema ------------------------------
(* Small schemas for Schema: every kind of rule, alone and with others, and  *)
(* every way a document can be wrong.                                        *)
EXTENDS SchemaMeaning, TLC

Table(pairs) == [pairs |-> pairs, count |-> Cardinality(DOMAIN pairs)]
Twice(pairs) == [pairs |-> pairs, count |-> Cardinality(DOMAIN pairs) + 1]
In(name) == [type |-> name, description |-> "text"]
MayIn(name) == [type |-> name, optional |-> "true"]

Basic ==
  [V |-> [primitiveType |-> "value", description |-> "text"],
   W |-> [type |-> <<"V">>, valueRegex |-> {"a", "k"}]]
With(pairs) == pairs @@ Basic

Schemas ==
  <<With("R" :> [type |-> <<"W", "V">>]),
    With("R" :> [primitiveType |-> "array", arrayAllElements |-> In("W")]),
    With("A" :> [primitiveType |-> "array", description |-> "text"] @@
         "R" :> [type |-> <<"W", "A">>, arrayAllElements |-> In("V")]),
    With("R" :> [primitiveType |-> "map",
                 mapProperties |-> Table("k" :> In("W") @@ "j" :> MayIn("V"))]),
    With("R" :> [primitiveType |-> "map", mapAllowAdditionalProperties |-> "true",
                 mapProperties |-> Table("j" :> In("V"))]),
    With("R" :> [primitiveType |-> "map", mapValueForKey |-> In("W"),
                 mapAllProperties |-> MayIn("W")]),
    With("R" :> [primitiveType |-> "map", mapProperties |-> Table("k" :> MayIn("S"))] @@
         "S" :> [type |-> <<"R", "W">>, mapAllowAdditionalProperties |-> "true"]),
    With("R" :> [primitiveType |-> "map", mapKeyType |-> "W", mapAllProperties |-> In("V")]),
    With("N" :> [primitiveType |-> "nullType"] @@
         "R" :> [primitiveType |-> "map", mapAllProperties |-> In("N")]),
    With("M" :> [primitiveType |-> "map", mapAllProperties |-> In("V")] @@
         "R" :> [type |-> <<"V", "M">>, mapProperties |-> Table("k" :> In("V"))]),
    With("R" :> [primitiveType |-> "array", arrayAllElements |-> MayIn("R")])>>

Circles ==
  <<With("R" :> [type |-> <<"Q">>] @@ "Q" :> [type |-> <<"R">>]),
    With("R" :> [primitiveType |-> "value", type |-> <<"R">>]),
    With("R" :> [primitiveType |-> "value", type |-> <<"Q">>] @@ "Q" :> [type |-> <<"Q", "V">>])>>

Unresolved ==
  <<With("R" :> [type |-> <<"V", "X">>]),
    With("R" :> [primitiveType |-> "value", arrayAllElements |-> In("X")]),
    With("R" :> [primitiveType |-> "map", mapProperties |-> Table("k" :> In("V") @@ "j" :> In("M::V"))]),
    With("R" :> [primitiveType |-> "map", mapValueForKey |-> In("X"), mapAllProperties |-> In("V")]),
    With("R" :> [primitiveType |-> "map", mapAllProperties |-> In("X")])>>

Wrong ==
  <<With("R" :> [primitiveType |-> "something"]),
    With("R" :> [primitiveType |-> "map", mapAllProperties |-> [optional |-> "true"]]),
    With("R" :> [primitiveType |-> "map", arrayAllElements |-> In("X"),
                 mapAllProperties |-> [optional |-> "true"]]),
    With("R" :> [type |-> <<"V", NoText>>]),
    With("R" :> [primitiveType |-> "value", description |-> NoText]),
    With("R" :> [primitiveType |-> "value", valueRegex |-> BadRegex]),
    With("R" :> [primitiveType |-> "map", mapProperties |-> Twice("k" :> In("V"))]),
    With("R" :> [primitiveType |-> "array", arrayAllElements |-> [type |-> "V", optional |-> NoText]])>>

File(table, root) ==
  [at |-> "file", parses |-> TRUE, version |-> {"1"}, texts |-> {"text"},
   types |-> table, rootType |-> root]
Files(schemas) == {File(Table(schemas[i]), {"R"}) : i \in DOMAIN schemas}
Good == File(Table(Basic), {"V"})

MCDocuments ==
  Files(Schemas) \cup Files(Circles) \cup Files(Unresolved) \cup Files(Wrong) \cup
  {Good, [Good EXCEPT !.at = "http"], [Good EXCEPT !.at = "nowhere"], [Good EXCEPT !.parses = FALSE],
   [Good EXCEPT !.version = {}], [Good EXCEPT !.version = {"2"}], [Good EXCEPT !.version = {NoText}],
   [Good EXCEPT !.texts = {NoText}], [Good EXCEPT !.types = NoProperties],
   [Good EXCEPT !.types = Twice(Basic)], [Good EXCEPT !.rootType = {}],
   [Good EXCEPT !.rootType = {"X"}], [Good EXCEPT !.rootType = {NoText}],
   [Good EXCEPT !.rootType = {"M::V"}]}

MCQualified == {"M::V"}

Hash(pairs) == Counted(pairs, Cardinality(DOMAIN pairs))
a == Value("a")
b == Value("b")
ka == Hash("k" :> a)
Once ==
  {Invalid, Null, a, b, BinaryData("blob"),
   Array(<<>>), Array(<<a, a>>), Array(<<a, b, a>>), Array(<<Null, Array(<<>>)>>),
   Hash(<<>>), ka, Hash("k" :> b @@ "j" :> a), Hash("k" :> Null), Hash("j" :> b), Hash("k" :> ka),
   Hash("k" :> Hash("j" :> a)), Hash("k" :> Hash("k" :> b))}
MCExpressions ==
  Once \cup {Counted("k" :> a, 2), Counted("k" :> Null, 2), Array(<<Counted("k" :> a, 2)>>)}

(* The expressions without a key put twice, with all their parts: they are *)
(* three deep.                                                              *)
PartsOf(expr) == Elements(expr) \cup UNION {{expr.hash[key], Value(key)} : key \in KeysIn(expr)}
WithParts(exprs) == exprs \cup UNION {PartsOf(expr) : expr \in exprs}
Parts == WithParts(WithParts(Once \cup {Absent}))

MCDepth[expr \in Parts] ==
  IF expr = Absent THEN 0
  ELSE LET below == {MCDepth[part] : part \in PartsOf(expr)}
       IN CHOOSE n \in 1 .. 3 : (\A m \in below : m < n) /\ (n = 1 \/ n - 1 \in below)
=============================================================================
