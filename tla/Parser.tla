------------------------------- MODULE Parser -------------------------------
(***************************************************************************)
(* The text parser of libWexpr: wexpr_Expression_createFromLengthString-   *)
(* WithExternalReferenceTable and the recursive descent it starts,         *)
(* s_Expression_parseFromString.                                           *)
(*                                                                         *)
(* The C call stack is the sequence `callers` below the running activation *)
(* `cur`.  An activation holds the expression it fills (self), where it    *)
(* resumes (pc), the map key or reference name it keeps across the call it *)
(* made (key) and the position it remembered (prev).                       *)
(*                                                                         *)
(* The text is a sequence of lexemes.  "blank" is a run of white space or  *)
(* comments.  A lexeme with no end ("[", "*[" or "<" without its closing   *)
(* character, a quote never closed) swallows the rest of the text, so it   *)
(* is the last one of an input.  line and column are one number: how many  *)
(* lexemes have been passed.                                               *)
(***************************************************************************)
EXTENDS Expression, FiniteSets

CONSTANTS
  Names,          (* reference names (the empty one of [] is one)          *)
  InvalidNames,   (* the names that are not identifiers                    *)
  NoKey,          (* a key register that holds nothing                     *)
  Inputs,         (* the texts handed to the parser                        *)
  ExternalTable,  (* the reference table the caller passes                 *)
  Created         (* what the table's unknown-key callback creates:        *)
                  (* a table over Names                                    *)

VARIABLES
  input,        (* the text given by the caller                            *)
  str,          (* what is left of it; <<>> also when it is made invalid   *)
  position,     (* parserState.line and column                             *)
  cur,          (* the running activation                                  *)
  callers,      (* the activations below it                                *)
  ret,          (* the expression the last call filled                     *)
  error,        (* the WexprError of this parse                            *)
  internalRefs, (* parserState.internalReferenceMap                        *)
  externalRefs, (* parserState.externalReferenceMap                        *)
  result        (* what the caller gets                                    *)

vars == <<input, str, position, cur, callers, ret, error,
          internalRefs, externalRefs, result>>

ASSUME NamesAssumption == InvalidNames \subseteq Names

Kinds == {"array", "map", "close", "ref", "insert", "binary", "value", "null",
          "blank", "junk", "badBinary", "badEscape",
          "openRef", "openInsert", "openBinary", "openQuote"}

ErrorCodes ==
  {"None", "EmptyString", "ExtraDataAfterParsingRoot", "InvalidStringEscape",
   "ArrayMissingEndParen", "MapMissingEndParen", "MapKeyMustBeAValue",
   "MapNoValue", "ReferenceMissingEndBracket", "ReferenceInvalidName",
   "ReferenceInsertMissingEndBracket", "ReferenceUnknownReference",
   "BinaryDataNoEnding", "BinaryDataInvalidBase64"}

NoError == [code |-> "None", message |-> "none", at |-> 0]
NULL == [type |-> "NULL"]
Running == [type |-> "running"]

Activation(pc, self, key, prev) ==
  [pc |-> pc, self |-> self, key |-> key, prev |-> prev]

Start(text) ==
  /\ input = text
  /\ str = text
  /\ position = 0
  /\ cur = Activation("parse", Invalid, NoKey, 0)
  /\ callers = <<Activation("root", Invalid, NoKey, 0)>>
  /\ ret = Invalid
  /\ error = NoError
  /\ internalRefs = EmptyTable(Names)
  /\ externalRefs = ExternalTable
  /\ result = Running

Init == \E text \in Inputs : Start(text)

-----------------------------------------------------------------------------
(* s_trimFrontOfString. *)
Blanks(text) ==
  CHOOSE n \in 0..Len(text) :
    /\ \A i \in 1..n : text[i].kind = "blank"
    /\ n < Len(text) => text[n + 1].kind # "blank"
Trim(text) == SubSeq(text, Blanks(text) + 1, Len(text))

(* Mutant: counts the character behind the blanks too. *)
AfterTrimOneTooFar == position + Blanks(str) + 1
AfterTrim == position + Blanks(str)
NextIs(kind) == Trim(str) # <<>> /\ Head(Trim(str)).kind = kind

(* The running activation, resumed at another point. *)
At(pc) == Activation(pc, cur.self, cur.key, cur.prev)

(* Mutant: does not look whether there is an error. *)
LastError(code, message, at) == [code |-> code, message |-> message, at |-> at]

(* error, unless there is one already *)
FirstError(code, message, at) ==
  IF error.code = "None"
  THEN [code |-> code, message |-> message, at |-> at]
  ELSE error

(* The running activation ends: self holds what was built, rest is returned. *)
Return(self, rest) ==
  /\ ret' = self
  /\ str' = rest
  /\ cur' = callers[Len(callers)]
  /\ callers' = SubSeq(callers, 1, Len(callers) - 1)

(* The running activation becomes `caller` and parses a child into `self`. *)
Call(caller, self) ==
  /\ callers' = Append(callers, caller)
  /\ cur' = Activation("parse", self, NoKey, 0)
  /\ UNCHANGED ret

Fail(code, message) ==
  /\ error' = FirstError(code, message, AfterTrim)
  /\ position' = AfterTrim
  /\ Return(cur.self, <<>>)
  /\ UNCHANGED <<input, internalRefs, externalRefs, result>>

(* A leaf: self is complete and the lexeme is passed. *)
Leaf(self) ==
  /\ position' = AfterTrim + 1
  /\ Return(self, Tail(Trim(str)))
  /\ UNCHANGED <<input, error, internalRefs, externalRefs, result>>

Parsing == cur.pc = "parse" /\ result = Running

-----------------------------------------------------------------------------
(* s_Expression_parseFromString, its start: one action per kind of lexeme. *)

ParseEmpty ==
  /\ Parsing /\ str = <<>>
  /\ error' = [code |-> "EmptyString", message |-> "heap", at |-> position]
  /\ Return(cur.self, <<>>)
  /\ UNCHANGED <<input, position, internalRefs, externalRefs, result>>

(* Only white space left: the call returns with no error of its own. *)
ParseBlank ==
  /\ Parsing /\ str # <<>> /\ Trim(str) = <<>>
  /\ position' = AfterTrim
  /\ Return(cur.self, <<>>)
  /\ UNCHANGED <<input, error, internalRefs, externalRefs, result>>

ParseContainer(kind, container) ==
  /\ Parsing /\ NextIs(kind)
  /\ cur' = Activation(kind, container, NoKey, 0)
  /\ str' = Tail(Trim(str))
  /\ position' = AfterTrim + 1
  /\ UNCHANGED <<input, callers, ret, error, internalRefs, externalRefs, result>>

ParseArray == ParseContainer("array", Array(<<>>))
(* Mutant: self keeps the type it had. *)
ParseMapUntyped == ParseContainer("map", cur.self)
ParseMap == ParseContainer("map", Map(EmptyTable(Words)))

ParseBinary ==
  /\ Parsing /\ NextIs("binary")
  /\ Leaf(BinaryData(Head(Trim(str)).blob))

ParseBinaryBad ==
  /\ Parsing
  /\ \/ NextIs("openBinary") /\ Fail("BinaryDataNoEnding", "heap")
     \/ NextIs("badBinary") /\ Fail("BinaryDataInvalidBase64", "heap")

(* The end of the text closes a quoted string as well as its quote does. *)
ParseValue ==
  /\ Parsing
  /\ \/ (NextIs("value") \/ NextIs("openQuote")) /\ Leaf(Value(Head(Trim(str)).word))
     \/ NextIs("null") /\ Leaf(Null)

(* No bareword starts at ")" or another reserved character. *)
ParseValueBad ==
  /\ Parsing
  /\ \/ NextIs("badEscape") /\ Fail("InvalidStringEscape", "literal")
     \/ (NextIs("close") \/ NextIs("junk")) /\ Fail("EmptyString", "heap")

(* [name]: the same self is parsed once more, then bound. *)
ParseRef ==
  /\ Parsing /\ NextIs("ref")
  /\ LET name == Head(Trim(str)).name IN
       IF name \in InvalidNames
       THEN Fail("ReferenceInvalidName", "heap")
       ELSE /\ Call(Activation("ref", cur.self, name, 0), cur.self)
            /\ str' = Tail(Trim(str))
            /\ position' = AfterTrim + 1
            /\ UNCHANGED <<input, error, internalRefs, externalRefs, result>>

ParseRefOpen ==
  /\ Parsing /\ NextIs("openRef")
  /\ Fail("ReferenceMissingEndBracket", "heap")

(* wexpr_ReferenceTable_expressionForKey: what it returns, and the table    *)
(* after it.  What the callback creates for an unknown key is stored.       *)
Lookup(table, name) == IF table[name] # Absent THEN table[name] ELSE Created[name]
AfterLookup(table, name) == [table EXCEPT ![name] = Lookup(table, name)]

(* *[name]: the internal table first, then the external one; a copy fills self. *)
ParseInsert ==
  /\ Parsing /\ NextIs("insert")
  /\ position' = AfterTrim + 1
  /\ LET name == Head(Trim(str)).name
         rest == Tail(Trim(str))
     IN IF internalRefs[name] # Absent
        THEN /\ Return(copyInto(cur.self, internalRefs[name]), rest)
             /\ UNCHANGED <<error, externalRefs>>
        ELSE /\ externalRefs' = AfterLookup(externalRefs, name)
             /\ IF Lookup(externalRefs, name) = Absent
                THEN /\ error' = FirstError("ReferenceUnknownReference", "heap", AfterTrim + 1)
                     /\ Return(cur.self, <<>>)
                ELSE /\ Return(copyInto(cur.self, Lookup(externalRefs, name)), rest)
                     /\ UNCHANGED error
  /\ UNCHANGED <<input, internalRefs, result>>

(* Here the error is set whatever was there before. *)
ParseInsertOpen ==
  /\ Parsing /\ NextIs("openInsert")
  /\ error' = [code |-> "ReferenceInsertMissingEndBracket", message |-> "heap",
               at |-> AfterTrim]
  /\ position' = AfterTrim
  /\ Return(cur.self, <<>>)
  /\ UNCHANGED <<input, internalRefs, externalRefs, result>>

-----------------------------------------------------------------------------
(* The loop of an array. *)

ArrayUnclosed == Trim(str) = <<>> /\ error.code = "None"

ArrayNoParen ==
  /\ cur.pc = "array" /\ ArrayUnclosed
  /\ Fail("ArrayMissingEndParen", "heap")

(* Mutant: the parenthesis is passed, the column is not. *)
CloseContainerUncounted(pc) ==
  /\ cur.pc = pc /\ NextIs("close")
  /\ position' = AfterTrim
  /\ Return(cur.self, Tail(Trim(str)))
  /\ UNCHANGED <<input, error, internalRefs, externalRefs, result>>

(* Mutant: the parenthesis is left to the caller. *)
CloseContainerUnread(pc) ==
  /\ cur.pc = pc /\ NextIs("close")
  /\ position' = AfterTrim
  /\ Return(cur.self, Trim(str))
  /\ UNCHANGED <<input, error, internalRefs, externalRefs, result>>

CloseContainer(pc) ==
  /\ cur.pc = pc /\ NextIs("close")
  /\ Leaf(cur.self)

ArrayClose == CloseContainer("array")

ArrayElement ==
  /\ cur.pc = "array" /\ ~ArrayUnclosed /\ ~NextIs("close")
  /\ Call(At("element"), Null)
  /\ str' = Trim(str)
  /\ position' = AfterTrim
  /\ UNCHANGED <<input, error, internalRefs, externalRefs, result>>

(* Mutant: the element is kept whatever its error. *)
ArrayElementKept ==
  /\ cur.pc = "element"
  /\ cur' = Activation("array", Array(Append(cur.self.list, ret)), NoKey, 0)
  /\ UNCHANGED <<input, str, position, callers, ret, error, internalRefs, externalRefs, result>>

ArrayElementParsed ==
  /\ cur.pc = "element"
  /\ IF error.code # "None"
     THEN Return(cur.self, <<>>)
     ELSE /\ cur' = Activation("array", Array(Append(cur.self.list, ret)), NoKey, 0)
          /\ UNCHANGED <<str, callers, ret>>
  /\ UNCHANGED <<input, position, error, internalRefs, externalRefs, result>>

-----------------------------------------------------------------------------
(* The loop of a map. *)

(* Mutant: reports the end of the text and goes round again. *)
MapNoParenStays ==
  /\ cur.pc = "map" /\ Trim(str) = <<>>
  /\ error' = FirstError("MapMissingEndParen", "heap", AfterTrim)
  /\ UNCHANGED <<input, str, position, cur, callers, ret, internalRefs, externalRefs, result>>

MapNoParen ==
  /\ cur.pc = "map" /\ Trim(str) = <<>>
  /\ Fail("MapMissingEndParen", "heap")

MapClose == CloseContainer("map")

MapKey ==
  /\ cur.pc = "map" /\ Trim(str) # <<>> /\ ~NextIs("close")
  /\ Call(Activation("mapKey", cur.self, NoKey, AfterTrim), Null)
  /\ str' = Trim(str)
  /\ position' = AfterTrim
  /\ UNCHANGED <<input, error, internalRefs, externalRefs, result>>

MapKeyParsed ==
  /\ cur.pc = "mapKey"
  /\ IF ret.type # "Value"
     THEN /\ error' = FirstError("MapKeyMustBeAValue", "heap", cur.prev)
          /\ Return(cur.self, <<>>)
     ELSE /\ Call(Activation("mapValue", cur.self, ret.data, cur.prev), Invalid)
          /\ UNCHANGED <<str, error>>
  /\ UNCHANGED <<input, position, internalRefs, externalRefs, result>>

(* An empty-string error of the call is replaced by the map's own. *)
MapValueParsed ==
  /\ cur.pc = "mapValue"
  /\ IF ret.type = "Invalid"
     THEN /\ error' = IF error.code \in {"None", "EmptyString"}
                      THEN [code |-> "MapNoValue", message |-> "heap", at |-> cur.prev]
                      ELSE error
          /\ Return(cur.self, <<>>)
     ELSE /\ cur' = Activation("map", Map([cur.self.hash EXCEPT ![cur.key] = ret]), NoKey, 0)
          /\ UNCHANGED <<str, callers, ret, error>>
  /\ UNCHANGED <<input, position, internalRefs, externalRefs, result>>

-----------------------------------------------------------------------------
(* Mutant: the reference is bound before the error is looked at. *)
RefParsedUnchecked ==
  /\ cur.pc = "ref"
  /\ internalRefs' = [internalRefs EXCEPT ![cur.key] = createCopy[ret]]
  /\ Return(ret, IF error.code = "None" THEN str ELSE <<>>)
  /\ UNCHANGED <<input, position, error, externalRefs, result>>

(* Mutant: a name that is bound stays as it is. *)
RefParsedOnce ==
  /\ cur.pc = "ref"
  /\ internalRefs' = IF error.code # "None" \/ internalRefs[cur.key] # Absent
                     THEN internalRefs
                     ELSE [internalRefs EXCEPT ![cur.key] = createCopy[ret]]
  /\ Return(ret, IF error.code = "None" THEN str ELSE <<>>)
  /\ UNCHANGED <<input, position, error, externalRefs, result>>

(* [name] after the expression it names: the table gets a copy. *)
RefParsed ==
  /\ cur.pc = "ref"
  /\ IF error.code # "None"
     THEN /\ Return(ret, <<>>)
          /\ UNCHANGED internalRefs
     ELSE /\ internalRefs' = [internalRefs EXCEPT ![cur.key] = createCopy[ret]]
          /\ Return(ret, str)
  /\ UNCHANGED <<input, position, error, externalRefs, result>>

(* Mutant: whether anything was found is not looked at. *)
FinalErrorEmptyIgnored ==
  IF error.code # "None" THEN error
  ELSE IF Trim(str) # <<>>
       THEN [code |-> "ExtraDataAfterParsingRoot", message |-> "heap", at |-> AfterTrim]
  ELSE NoError

(***************************************************************************)
(* The end of createFromLengthStringWithExternalReferenceTable: what is    *)
(* left must be blank, an expression must have been found, and on an error *)
(* the expression is destroyed.  The internal table goes in either case.   *)
(***************************************************************************)
FinalError ==
  IF error.code # "None" THEN error
  ELSE IF Trim(str) # <<>>
       THEN [code |-> "ExtraDataAfterParsingRoot", message |-> "heap", at |-> AfterTrim]
  ELSE IF ret.type = "Invalid"
       THEN [code |-> "EmptyString", message |-> "heap", at |-> AfterTrim]
  ELSE NoError

Finish ==
  /\ cur.pc = "root" /\ result = Running
  /\ str' = Trim(str)
  /\ position' = AfterTrim
  /\ error' = FinalError
  /\ result' = IF FinalError.code = "None" THEN ret ELSE NULL
  /\ internalRefs' = EmptyTable(Names)
  /\ UNCHANGED <<input, cur, callers, ret, externalRefs>>

Step ==
  \/ ParseEmpty \/ ParseBlank \/ ParseArray \/ ParseMap
  \/ ParseBinary \/ ParseBinaryBad \/ ParseValue \/ ParseValueBad
  \/ ParseRef \/ ParseRefOpen \/ ParseInsert \/ ParseInsertOpen
  \/ ArrayNoParen \/ ArrayClose \/ ArrayElement \/ ArrayElementParsed
  \/ MapNoParen \/ MapClose \/ MapKey \/ MapKeyParsed \/ MapValueParsed
  \/ RefParsed \/ Finish

(* The caller has its answer. *)
Done == result # Running /\ UNCHANGED vars

Next == Step \/ Done

Spec == Init /\ [][Next]_vars
FairSpec == Spec /\ WF_vars(Step)

-----------------------------------------------------------------------------
(* Properties.                                                              *)

Positions == 0..Len(input)
Resuming == {"root", "element", "mapKey", "mapValue", "ref"}

Activations(pcs) ==
  [pc : pcs, self : Expr, key : Words \cup Names \cup {NoKey}, prev : Positions]

(* A sequence, whatever its elements are. *)
IsSequence(s) == s \in Seq({s[i] : i \in DOMAIN s})

(* The types of the parser.  A text is typed for tables d levels deep when  *)
(* its lexemes are and MaxDepth covers the containers it opens above them.  *)
Opened(text) == Cardinality({i \in DOMAIN text : text[i].kind \in {"array", "map"}})
IsText(text, d) ==
  /\ IsSequence(text) /\ d + Opened(text) <= MaxDepth
  /\ \A i \in DOMAIN text :
       /\ text[i].kind \in {"value", "openQuote"} => text[i].word \in Words
       /\ text[i].kind \in {"ref", "insert"} => text[i].name \in Names
       /\ text[i].kind = "binary" => text[i].blob \in Blobs

(* Every register of the parser keeps its type; only an activation that     *)
(* waits for a call is below the running one.                               *)
TypeOK ==
  /\ position \in Positions
  /\ str = <<>> \/ \E n \in Positions : str = SubSeq(input, n + 1, Len(input))
  /\ cur \in Activations({"parse", "array", "map"} \cup Resuming)
  /\ callers \in Seq(Activations(Resuming))
  /\ ret \in Expr
  /\ error \in [code : ErrorCodes, message : {"none", "heap", "literal"}, at : Positions]
  /\ internalRefs \in Tables(Names, Expr)
  /\ externalRefs \in Tables(Names, Expr)
  /\ result \in Expr \cup {NULL, Running}

(* Where an activation may be, and what it fills there. *)
FillsWhatItShould(a) ==
  /\ a.pc \in {"root", "parse", "ref"} => a.self \in {Null, Invalid}
  /\ a.pc \in {"array", "element"} => a.self.type = "Array"
  /\ a.pc \in {"map", "mapKey", "mapValue"} => a.self.type = "Map"

(* The C stack is in order: the root is at its bottom and nowhere else,     *)
(* everything below the running activation waits for a call, and each       *)
(* activation fills an expression of the type its loop needs.               *)
StackInOrder ==
  /\ cur.pc \in {"parse", "array", "map"} \cup Resuming
  /\ cur.pc = "root" <=> callers = <<>>
  /\ FillsWhatItShould(cur)
  /\ \A i \in DOMAIN callers :
       /\ callers[i].pc \in Resuming
       /\ callers[i].pc = "root" <=> i = 1
       /\ FillsWhatItShould(callers[i])

(* Once an error is set no activation reads the text again: the text is     *)
(* invalid and every caller on the stack only unwinds.  The two places that *)
(* overwrite an error unconditionally, and the loops that dereference it    *)
(* unchecked, rely on this.                                                 *)
NothingParsedAfterError ==
  error.code # "None" =>
    /\ cur.pc \notin {"parse", "array"}
    /\ result = Running => str = <<>>
    /\ cur.pc = "mapKey" => ret.type # "Value"

(* The caller gets an expression or an error, never both and never neither, *)
(* and what it gets was filled in.                                          *)
ResultOrError ==
  result # Running =>
    /\ (result = NULL) <=> (error.code # "None")
    /\ result.type # "Invalid"

(* The error reported is the first one met; the one exception the code      *)
(* makes is that a map without a value renames the empty-string error.      *)
FirstErrorWins ==
  [][error.code # "None" =>
       \/ error' = error
       \/ error.code = "EmptyString" /\ error'.code = "MapNoValue"]_vars

(* A text that has failed binds no reference any more, neither its own nor  *)
(* through the callback of the caller's table.                              *)
NoBindingAfterError ==
  [][error.code # "None" =>
       externalRefs' = externalRefs /\ internalRefs' \in {internalRefs, EmptyTable(Names)}]_vars

(* While there is no error the reported position and the text that is left  *)
(* move together: an error points at what was being read.                   *)
PositionFollowsText == error.code = "None" => position + Len(str) = Len(input)

(* While there is no error the arrays and maps being filled are the "#("    *)
(* and "@(" passed and not yet closed.                                      *)
Passed(kinds) == Cardinality({i \in 1..position : input[i].kind \in kinds})
Filling ==
  Cardinality({i \in DOMAIN callers : callers[i].pc \in {"element", "mapKey", "mapValue"}})
    + (IF cur.pc \in {"root", "parse", "ref"} THEN 0 ELSE 1)
NestingFollowsText ==
  error.code = "None" => Filling = Passed({"array", "map"}) - Passed({"close"})

(* Every call of the parser returns.                                        *)
Terminates == <>(result # Running)
=============================================================================
