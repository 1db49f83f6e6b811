----------------------------- MODULE RoundTrip ------------------------------
(***************************************************************************)
(* An expression is written as text, and the text is parsed again: the     *)
(* writer of module Writer, then the parser of module Parser over the      *)
(* lexemes (module Lexer) of what was written.                             *)
(***************************************************************************)
EXTENDS Writer, Lexer

CONSTANTS
  Words, Blobs, MaxDepth, Names, InvalidNames, NoKey, Inputs,
  ExternalTable, Created,  (* as in Parser                                 *)
  Before,     (* what a user may put before the text: comments, white space *)
  After       (* and behind it                                             *)

VARIABLES input, str, position, cur, callers, ret, error,
          internalRefs, externalRefs, result   (* as in Parser *)

parserVars == <<input, str, position, cur, callers, ret, error,
                internalRefs, externalRefs, result>>
allVars == <<writerVars, parserVars>>

P == INSTANCE Parser

Idle == [type |-> "idle"]

(* Before the parser is called. *)
RTInit ==
  /\ Init
  /\ input = <<>> /\ str = <<>> /\ position = 0
  /\ cur = P!Activation("root", P!Invalid, NoKey, 0)
  /\ callers = <<>> /\ ret = P!Invalid /\ error = P!NoError
  /\ internalRefs = P!EmptyTable(Names) /\ externalRefs = ExternalTable
  /\ result = Idle

Write == Step /\ UNCHANGED parserVars

(* The caller hands the C string it got to the parser, with comments around *)
(* it.                                                                      *)
ReadWritten ==
  /\ writing.pc = "written" /\ result = Idle
  /\ \E before \in Before, after \in After :
       input' = Lex(before \o CString(text) \o after)
  /\ str' = input'
  /\ cur' = P!Activation("parse", P!Invalid, NoKey, 0)
  /\ callers' = <<P!Activation("root", P!Invalid, NoKey, 0)>>
  /\ result' = P!Running
  /\ UNCHANGED <<position, ret, error, internalRefs, externalRefs, writerVars>>

Read == P!Step /\ UNCHANGED writerVars

(* The expression is read back, or the writer stopped before its end. *)
RTDone ==
  /\ Stopped
  /\ writing.pc = "written" => result \notin {Idle, P!Running}
  /\ UNCHANGED allVars

RTNext == Write \/ ReadWritten \/ Read \/ RTDone

RTSpec == RTInit /\ [][RTNext]_allVars

-----------------------------------------------------------------------------
(* The expression a node stands for: a map holds its pairs. *)
RECURSIVE Meaning(_)
Meaning(e) ==
  CASE e.type = "Array" -> P!Array([i \in DOMAIN e.list |-> Meaning(e.list[i])])
    [] e.type = "Map" ->
         P!Map([k \in Words |->
                  IF \E i \in DOMAIN e.pairs : e.pairs[i].key = k
                  THEN Meaning(e.pairs[CHOOSE i \in DOMAIN e.pairs : e.pairs[i].key = k].value)
                  ELSE P!Absent])
    [] OTHER -> e

(* What the text format of this library cannot carry: a word without a      *)
(* character that needs quotes has no quotes and so no escapes, but its     *)
(* backslashes are doubled; the null words are null, quoted or not; and     *)
(* outside the human readable form no room is made for the escapes of keys. *)
Carried(word) ==
  /\ word \notin NullWords
  /\ BarewordSafe(word) => Escapes(word) = {}
CarriedAsKey(word) == Carried(word) /\ (human \/ Escapes(word) = {})

RECURSIVE CarriedIn(_)
CarriedIn(e) ==
  CASE e.type = "Value" -> Carried(e.data)
    [] e.type = "Array" -> \A i \in DOMAIN e.list : CarriedIn(e.list[i])
    [] e.type = "Map" ->
         \A i \in DOMAIN e.pairs : CarriedAsKey(e.pairs[i].key) /\ CarriedIn(e.pairs[i].value)
    [] OTHER -> TRUE

(* What is written is read back as the expression it was written from, in   *)
(* either form, at any indent, with any words and binary data the format    *)
(* can carry, whatever the count of a map says, and with comments around it *)
(* as without.                                                              *)
ReadsBack ==
  writing.pc = "written" /\ result \notin {Idle, P!Running} /\ CarriedIn(writing.expr) =>
    result = Meaning(writing.expr)
=============================================================================
