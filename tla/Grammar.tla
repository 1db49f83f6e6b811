------------------------------ MODULE Grammar ------------------------------
(***************************************************************************)
(* What a text means by the grammar of the repository (Spec/wexpr.ebnf),   *)
(* found from the text alone: where each of its parts ends, which          *)
(* expressions are named before a place, what each part means.  An answer  *)
(* of the parser is compared with it.                                      *)
(*                                                                         *)
(* The lexemes are those the parser finds.  Two things are read into the   *)
(* rules: blanks behind a declared name, as in Tests/Expression.h:274, and *)
(* a key that is named or inserted, which is a value as the rule asks once *)
(* it is read.                                                             *)
(***************************************************************************)
EXTENDS Parser

CONSTANT Identifiers   (* the names that Identifier derives                 *)

(* The parser refuses none of them, but the empty name, which is none of    *)
(* them, is not refused either.                                             *)
ASSUME IdentifiersAssumption == Identifiers \subseteq Names \ InvalidNames

(* What may begin at a place of a text: an expression, or the rest of a     *)
(* list or of a table up to the parenthesis that closes it.                 *)
Parts == {"expression", "list", "table"}
Places(text) == 0 .. (Len(text) + 1)

Complete == {"value", "null", "binary", "insert"}

(* What no rule derives although it reads like a part of a text: a string   *)
(* without its closing quote (QuotedValue), a reference by what is no name  *)
(* (RefDeclaration, RefInject).                                             *)
OutsideGrammar(x) ==
  \/ x.kind = "openQuote"
  \/ x.kind \in {"ref", "insert"} /\ x.name \notin Identifiers

(***************************************************************************)
(* The place behind the part that begins at a place, 0 if none does.       *)
(* Blanks and a name belong to the expression they stand before, and what  *)
(* a table has between its parentheses are two expressions, again and      *)
(* again.                                                                  *)
(***************************************************************************)
EndWith(ends, text, part, p) ==
  LET x == text[p]
      one == ends[<<"expression", p>>]
      two == ends[<<"expression", one>>]
  IN IF p \notin DOMAIN text \/ OutsideGrammar(text[p]) THEN 0
     ELSE IF x.kind = "blank" THEN ends[<<part, p + 1>>]
     ELSE IF part = "expression"
     THEN CASE x.kind \in Complete -> p + 1
            [] x.kind = "ref" -> ends[<<"expression", p + 1>>]
            [] x.kind = "array" -> ends[<<"list", p + 1>>]
            [] x.kind = "map" -> ends[<<"table", p + 1>>]
            [] OTHER -> 0
     ELSE IF x.kind = "close" THEN p + 1
     ELSE ends[<<part, IF part = "list" THEN one ELSE two>>]

Ends(text) ==
  LET ends[at \in Parts \X Places(text)] == EndWith(ends, text, at[1], at[2]) IN ends

-----------------------------------------------------------------------------
(* What a name stands for: what was bound to it, else what the table of the *)
(* caller has for it or creates.                                            *)
Bound(refs, name) == IF refs[name] # Absent THEN refs[name] ELSE Lookup(ExternalTable, name)

(* Where an expression is named that ends no later than p begins.           *)
NamedBefore(text, ends, p) ==
  {k \in DOMAIN text : text[k].kind = "ref" /\ ends[<<"expression", k>>] \in 1..p}

(* The one that is bound last: of two that end together, the outer one.     *)
BoundLast(ends, places) ==
  CHOOSE k \in places :
    \A j \in places : \/ ends[<<"expression", j>>] < ends[<<"expression", k>>]
                      \/ ends[<<"expression", j>>] = ends[<<"expression", k>>] /\ k <= j

(* `whole` tells whether a copy is a whole copy or what createCopy and      *)
(* copyInto make of it.  An insertion that fills nothing in is Invalid.     *)
Kept(whole, e) == IF whole THEN e ELSE createCopy[e]
Inserted(whole, e) ==
  IF e = Absent THEN NULL ELSE IF whole THEN e ELSE copyInto(Invalid, e)
Filled(self, e) == IF e = Invalid THEN self ELSE e

NamesAt(means, text, ends, whole, places) ==
  [name \in Names |->
     LET named == {k \in places : text[k].name = name}
     IN IF named = {} THEN Absent ELSE Kept(whole, means[<<"expression", BoundLast(ends, named)>>])]

(* A list or a table with one more expression, or key and expression, in    *)
(* front: NULL if one of them has no meaning.  The newest of a key wins.    *)
ListOf(first, rest) ==
  IF first = NULL \/ rest = NULL THEN NULL ELSE Array(<<Filled(Null, first)>> \o rest.list)
TableOf(key, value, rest) ==
  IF key.type # "Value" \/ value \in {NULL, Invalid} \/ rest = NULL
  THEN NULL
  ELSE Map([rest.hash EXCEPT ![key.data] = IF @ = Absent THEN value ELSE @])

(* What the part that begins at a place means. *)
MeaningWith(means, text, ends, whole, part, p) ==
  LET x == text[p]
      one == ends[<<"expression", p>>]
      two == ends[<<"expression", one>>]
  IN IF x.kind = "blank" THEN means[<<part, p + 1>>]
     ELSE IF part = "expression"
     THEN CASE x.kind = "value" -> Value(x.word)
            [] x.kind = "null" -> Null
            [] x.kind = "binary" -> BinaryData(x.blob)
            [] x.kind = "insert" ->
                 Inserted(whole, Bound(NamesAt(means, text, ends, whole, NamedBefore(text, ends, p)), x.name))
            [] x.kind = "ref" -> means[<<"expression", p + 1>>]
            [] x.kind = "array" -> means[<<"list", p + 1>>]
            [] x.kind = "map" -> means[<<"table", p + 1>>]
     ELSE IF x.kind = "close" THEN IF part = "list" THEN Array(<<>>) ELSE Map(EmptyTable(Words))
     ELSE IF part = "list" THEN ListOf(means[<<"expression", p>>], means[<<"list", one>>])
     ELSE TableOf(means[<<"expression", p>>], means[<<"expression", one>>], means[<<"table", two>>])

Means(text, ends, whole) ==
  LET means[at \in {x \in Parts \X Places(text) : ends[x] # 0}] ==
        MeaningWith(means, text, ends, whole, at[1], at[2])
  IN means

Meaning(text, whole) ==
  LET ends == Ends(text)
      behind == ends[<<"expression", 1>>]
  IN IF behind # 0 /\ \A q \in behind..Len(text) : text[q].kind = "blank"
     THEN LET e == Means(text, ends, whole)[<<"expression", 1>>] IN IF e = Invalid THEN NULL ELSE e
     ELSE NULL

-----------------------------------------------------------------------------
(* What is outside the grammar and not refused: the parser looks only for   *)
(* the names of declarations, and takes the end of the text for a quote.    *)
TakenAnyway(x) == OutsideGrammar(x) /\ ~(x.kind = "ref" /\ x.name \in InvalidNames)
Plain(text) == \A i \in DOMAIN text : ~TakenAnyway(text[i])

(* The texts of the grammar are accepted and mean what they say, all others *)
(* are refused, and white space makes no difference; but nothing is said of *)
(* the texts that are not Plain.  The grammar has no meaning for those, and *)
(* Error.h:54 has a code for a string whose ending quote is missing, but    *)
(* s_createValueOfString never raises it.                                   *)
ParsesTheGrammar == result # Running /\ Plain(input) => result = Meaning(input, FALSE)
=============================================================================
