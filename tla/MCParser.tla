------------------------------ MODULE MCParser ------------------------------
(***************************************************************************)
(* Instances of Parser for TLC, whose answers are compared with what the   *)
(* texts mean by Grammar.                                                  *)
(***************************************************************************)
EXTENDS Grammar, TLC

CONSTANTS
  MaxText,      (* bound: lexemes in an arbitrary text                     *)
  MaxDocument   (* bound: lexemes in a text generated from the grammar     *)

Lexeme(kind) == [kind |-> kind]
Bareword(w) == [kind |-> "value", word |-> w]
Ref(n) == [kind |-> "ref", name |-> n]
Insert(n) == [kind |-> "insert", name |-> n]

MCExternalTable == [EmptyTable(Names) EXCEPT !["ext"] = Array(<<Value("a")>>)]
MCCreated == [EmptyTable(Names) EXCEPT !["made"] = Value("b")]

(* What may stand anywhere, and what ends a text or fails it on the spot.  *)
Alphabet ==
  {Lexeme(k) : k \in {"array", "map", "close", "blank", "null"}}
    \cup {Bareword("a"), Ref("r"), Insert("r"), Insert("ext"),
          [kind |-> "binary", blob |-> "bytes"]}
LastOnly ==
  {Lexeme(k) : k \in {"junk", "badBinary", "badEscape",
                      "openRef", "openInsert", "openBinary"}}
    \cup {[kind |-> "openQuote", word |-> "a"], Ref("bad"), Insert("made")}

-----------------------------------------------------------------------------
(* Longer texts with two words and one reference: balanced ones, and what   *)
(* is left of them when the end is cut off.                                 *)
LongAlphabet ==
  {Bareword("a"), Bareword("b"), Insert("r")}

RECURSIVE Balanced(_), BalancedLists(_)
Balanced(n) ==
  IF n <= 0 THEN {}
  ELSE (IF n = 1 THEN {<<x>> : x \in LongAlphabet} ELSE {})
       \cup {<<x>> \o t : x \in {Ref("r")}, t \in Balanced(n - 1)}
       \cup {<<x>> \o t \o <<Lexeme("close")>> :
               x \in {Lexeme("array"), Lexeme("map")}, t \in BalancedLists(n - 2)}
BalancedLists(n) ==
  IF n < 0 THEN {}
  ELSE IF n = 0 THEN {<<>>}
  ELSE UNION {{l \o t : l \in BalancedLists(i), t \in Balanced(n - i)} : i \in 0..(n - 1)}

Documents == UNION {Balanced(n) : n \in 0..MaxDocument}
LongTexts == {SubSeq(t, 1, IF i < Len(t) THEN i ELSE Len(t)) : t \in Documents, i \in 0..MaxDocument}

AllTexts == Seq(Alphabet \cup LastOnly \cup LongAlphabet)

(* Every text of at most MaxText lexemes, and the longer ones: Init for     *)
(* these among AllTexts.                                                    *)
TextInit ==
  \/ Start(<<>>)
  \/ \E n \in 1..MaxText : \E text \in [1..(n - 1) -> Alphabet], last \in Alphabet \cup LastOnly :
       Start(Append(text, last))
  \/ \E text \in LongTexts : Start(text)
TextSpec == TextInit /\ [][Next]_vars /\ WF_vars(Step)

(* The hypotheses of the theorem ParserTypes, for these texts and tables.   *)
ASSUME TextsAssumption ==
  /\ \A n \in 1..MaxText : \A text \in [1..(n - 1) -> Alphabet], last \in Alphabet \cup LastOnly :
       IsText(Append(text, last), 1)
  /\ \A text \in LongTexts \cup {<<>>} : IsText(text, 1)
  /\ {MCExternalTable, MCCreated} \subseteq Tables(Names, ExpressionsTo[1])

-----------------------------------------------------------------------------
(* Expression.h: a copy is a copy of the whole expression, so an insertion  *)
(* yields what the reference was bound to.                                  *)
InsertsWhatWasBound ==
  result # Running /\ Meaning(input, TRUE) # NULL => result = Meaning(input, TRUE)
=============================================================================
