------------------------------- MODULE Writer -------------------------------
(***************************************************************************)
(* The text writer of libWexpr: createStringRepresentation and the         *)
(* recursion it starts,                                                    *)
(* p_wexpr_Expression_appendStringRepresentationToAllocatedBuffer.         *)
(*                                                                         *)
(* The buffer is `text`.  Each realloc makes it longer by the size the     *)
(* code computes; what has been allocated and not written is Unset.  Words *)
(* are copied character by character, each against the end of the buffer.  *)
(* The C stack is the sequence `waiting` below the running activation      *)
(* `writing`.                                                              *)
(***************************************************************************)
EXTENDS Integers, FiniteSets, Characters, Base64

CONSTANTS
  Character,  (* the characters of words and texts                         *)
  Nodes,      (* the expressions written and all that is below them        *)
  Indents,    (* the indents a caller asks for                             *)
  Unset       (* a byte that has been allocated and not written            *)

(***************************************************************************)
(* A map shows itself to the writer as the pairs hashmap_iterate finds,    *)
(* in the order of the slots, and its count, which may be larger: it also  *)
(* counts a key that was put again.                                        *)
(***************************************************************************)
Pairs(keys, values) == [key : keys, value : values]

WellFormed(e) ==
  \/ e.type \in {"Null", "Invalid"}
  \/ e.type = "Value" /\ e.data \in Seq(Character)
  \/ e.type = "BinaryData" /\ e.data \in Seq(Byte)
  \/ e.type = "Array" /\ e.list \in Seq(Nodes)
  \/ /\ e.type = "Map" /\ e.count \in Nat
     /\ e.pairs \in Seq(Pairs(Seq(Character), Nodes))
     /\ Len(e.pairs) <= e.count

ASSUME NodesAssumption == \A e \in Nodes : WellFormed(e)
ASSUME IndentsAssumption == Indents \subseteq Nat

(* The characters the writer writes of itself. *)
OwnCharacters ==
  {Quote, Backslash, Newline, NullCharacter, " ", "\t", "#", "@", "(", ")", "<", ">",
   "n", "u", "l", "r", "t", "="} \cup Base64Characters

ASSUME CharacterAssumption == OwnCharacters \subseteq Character /\ Unset \notin Character

VARIABLES
  human,    (* whether the caller set WexprWriteFlagHumanReadable          *)
  text,     (* the buffer                                                  *)
  writing,  (* the running activation                                      *)
  waiting,  (* the activations below it                                    *)
  copy      (* s_writeStringEscapedToBuffer: the word, how much of it is   *)
            (* copied, and how much of the buffer is filled                *)

writerVars == <<human, text, writing, waiting, copy>>

Frame(pc, expr, indent, i) == [pc |-> pc, expr |-> expr, indent |-> indent, i |-> i]
Copy(word, i, at) == [word |-> word, i |-> i, at |-> at]

Start(expr, indent) ==
  /\ human \in BOOLEAN
  /\ text = <<>>
  /\ writing = Frame("append", expr, indent, 0)
  /\ waiting = <<Frame("root", expr, indent, 0)>>
  /\ copy = Copy(<<>>, 0, 0)

Init == \E expr \in Nodes, indent \in Indents : Start(expr, indent)

-----------------------------------------------------------------------------
(* s_wexprValueStringProperties: the bytes of a word with its escapes, and  *)
(* whether it needs quotes.                                                 *)
Escapes(word) == {i \in DOMAIN word : word[i] \in RequiresEscape}

(* Mutant: the escapes are forgotten. *)
WriteByteSizeUnescaped(word) == Len(word)

WriteByteSize(word) == Len(word) + Cardinality(Escapes(word))
Opening(word) == IF BarewordSafe(word) THEN <<>> ELSE <<Quote>>
Closing(word) == Opening(word)

(* Mutant: room for the quotes is made whether they are written or not. *)
QuotesSizeAlways(word) == 2

QuotesSize(word) == 2 * Len(Opening(word))

(* The bytes a map makes room for when it writes a key. *)
KeySize(word) ==
  CASE human /\ BarewordSafe(word)  -> Len(word)
    [] human /\ ~BarewordSafe(word) -> WriteByteSize(word) + QuotesSize(word)
    [] ~human                       -> Len(word) + QuotesSize(word)

(* realloc, and chars at the start of the new bytes. *)
Grown(n, chars) ==
  text \o [j \in 1..n |-> IF j <= Len(chars) THEN chars[j] ELSE Unset]

(* chars behind what is filled of the buffer. *)
Fits(chars) == copy.at + Len(chars) <= Len(text)
Filled(chars) ==
  [j \in DOMAIN text |->
     IF j \in (copy.at + 1)..(copy.at + Len(chars)) THEN chars[j - copy.at] ELSE text[j]]

Tabs(n) == [j \in 1..n |-> "\t"]
InHuman(chars) == IF human THEN chars ELSE <<>>

Return ==
  /\ writing' = waiting[Len(waiting)]
  /\ waiting' = SubSeq(waiting, 1, Len(waiting) - 1)

Call(caller, expr, indent) ==
  /\ waiting' = Append(waiting, caller)
  /\ writing' = Frame("append", expr, indent, 0)

At(pc) == [writing EXCEPT !.pc = pc]
(* Mutant: the index is advanced in the loop's head and in its body. *)
AtNextTwice(pc) == [writing EXCEPT !.pc = pc, !.i = @ + 2]
AtNext(pc) == [writing EXCEPT !.pc = pc, !.i = @ + 1]

Appending(type) == writing.pc = "append" /\ writing.expr.type = type

-----------------------------------------------------------------------------
(* Leaves. *)

AppendNull ==
  /\ Appending("Null")
  /\ text' = text \o <<"n", "u", "l", "l">>
  /\ Return
  /\ UNCHANGED <<human, copy>>

AppendValue ==
  /\ Appending("Value")
  /\ LET word == writing.expr.data IN
       /\ text' = Grown(WriteByteSize(word) + QuotesSize(word), Opening(word))
       /\ copy' = Copy(word, 0, Len(text) + Len(Opening(word)))
  /\ writing' = At("value")
  /\ UNCHANGED <<human, waiting>>

AppendBinary ==
  /\ Appending("BinaryData")
  /\ text' = text \o <<"<">> \o base64_encode(writing.expr.data) \o <<">">>
  /\ Return
  /\ UNCHANGED <<human, copy>>

(* An expression that was created invalid and never given a type: abort(). *)
AppendInvalid ==
  /\ Appending("Invalid")
  /\ writing' = At("aborted")
  /\ UNCHANGED <<human, text, waiting, copy>>

-----------------------------------------------------------------------------
(* s_writeStringEscapedToBuffer. *)

Copying == writing.pc \in {"value", "key"}

(* What it writes next. *)
NextChars ==
  IF copy.i = Len(copy.word) THEN Closing(copy.word)
  ELSE LET c == copy.word[copy.i + 1] IN
       IF c \in RequiresEscape THEN <<Backslash, EscapeForValue(c)>> ELSE <<c>>

CopyChar ==
  /\ Copying /\ copy.i < Len(copy.word) /\ Fits(NextChars)
  /\ text' = Filled(NextChars)
  /\ copy' = Copy(copy.word, copy.i + 1, copy.at + Len(NextChars))
  /\ UNCHANGED <<human, writing, waiting>>

(* A write past the end of the buffer: the assertions of a debug build end  *)
(* the program, and nothing is known of what another build goes on to do.   *)
Overrun ==
  /\ Copying /\ ~Fits(NextChars)
  /\ writing' = At("overrun")
  /\ UNCHANGED <<human, text, waiting, copy>>

Copied(pc) == writing.pc = pc /\ copy.i = Len(copy.word) /\ Fits(NextChars)

ValueCopied ==
  /\ Copied("value")
  /\ text' = Filled(NextChars)
  /\ copy' = Copy(copy.word, copy.i, copy.at + Len(NextChars))
  /\ Return
  /\ UNCHANGED human

-----------------------------------------------------------------------------
(* Arrays and maps. *)

Indentation == InHuman(Tabs(writing.indent + 1))
Separator == IF writing.i > 0 THEN <<" ">> ELSE <<>>
Lead == IF human THEN Indentation ELSE Separator

AppendEmpty(type, size, symbol) ==
  /\ Appending(type) /\ size = 0
  /\ text' = text \o <<symbol, "(", ")">>
  /\ Return
  /\ UNCHANGED <<human, copy>>

AppendOpen(type, size, symbol, pc) ==
  /\ Appending(type) /\ size > 0
  /\ text' = text \o <<symbol, "(">> \o InHuman(<<Newline>>)
  /\ writing' = At(pc)
  /\ UNCHANGED <<human, waiting, copy>>

AppendArray ==
  /\ Appending("Array")
  /\ \/ AppendEmpty("Array", Len(writing.expr.list), "#")
     \/ AppendOpen("Array", Len(writing.expr.list), "#", "array")

AppendMap ==
  /\ Appending("Map")
  /\ \/ AppendEmpty("Map", writing.expr.count, "@")
     \/ AppendOpen("Map", writing.expr.count, "@", "map")

ArrayElement ==
  /\ writing.pc = "array" /\ writing.i < Len(writing.expr.list)
  /\ text' = text \o Lead
  /\ Call(At("element"), writing.expr.list[writing.i + 1],
          IF human THEN writing.indent + 1 ELSE writing.indent)
  /\ UNCHANGED <<human, copy>>

(* Both loops: the element or the value is written. *)
ItemWritten(waits, pc) ==
  /\ writing.pc = waits
  /\ text' = text \o InHuman(<<Newline>>)
  /\ writing' = AtNext(pc)
  /\ UNCHANGED <<human, waiting, copy>>

ArrayElementWritten == ItemWritten("element", "array")

Close(pc, size) ==
  /\ writing.pc = pc /\ writing.i = size
  /\ text' = text \o InHuman(Tabs(writing.indent)) \o <<")">>
  /\ Return
  /\ UNCHANGED <<human, copy>>

ArrayClose == writing.pc = "array" /\ Close("array", Len(writing.expr.list))

(* An index that holds no key. *)
MapSkip ==
  /\ writing.pc = "map"
  /\ writing.i < writing.expr.count /\ writing.i >= Len(writing.expr.pairs)
  /\ writing' = AtNext("map")
  /\ UNCHANGED <<human, text, waiting, copy>>

MapKey ==
  /\ writing.pc = "map"
  /\ writing.i < writing.expr.count /\ writing.i < Len(writing.expr.pairs)
  /\ LET word == writing.expr.pairs[writing.i + 1].key IN
       /\ text' = Grown(Len(Lead) + KeySize(word) + 1, Lead \o Opening(word))
       /\ copy' = Copy(word, 0, Len(text) + Len(Lead) + Len(Opening(word)))
  /\ writing' = At("key")
  /\ UNCHANGED <<human, waiting>>

(* The last byte becomes the space before the value, whatever it is. *)
KeyCopied ==
  /\ Copied("key")
  /\ text' = [Filled(NextChars) EXCEPT ![Len(text)] = " "]
  /\ copy' = Copy(copy.word, copy.i, copy.at + Len(NextChars))
  /\ Call(At("mapValue"), writing.expr.pairs[writing.i + 1].value, writing.indent + 1)
  /\ UNCHANGED human

MapValueWritten == ItemWritten("mapValue", "map")

MapClose == writing.pc = "map" /\ Close("map", writing.expr.count)

(* The null character at the end. *)
Finish ==
  /\ writing.pc = "root"
  /\ text' = Append(text, NullCharacter)
  /\ writing' = At("written")
  /\ UNCHANGED <<human, waiting, copy>>

Step ==
  \/ AppendNull \/ AppendValue \/ AppendBinary \/ AppendInvalid
  \/ AppendArray \/ AppendMap
  \/ CopyChar \/ Overrun \/ ValueCopied
  \/ ArrayElement \/ ArrayElementWritten \/ ArrayClose
  \/ MapSkip \/ MapKey \/ KeyCopied \/ MapValueWritten \/ MapClose
  \/ Finish

Stopped == writing.pc \in {"written", "overrun", "aborted"}

Done == Stopped /\ UNCHANGED writerVars

Next == Step \/ Done

Spec == Init /\ [][Next]_writerVars

-----------------------------------------------------------------------------
(* Properties.                                                              *)

(* What an activation is doing fits the expression it writes, and its index *)
(* stays within it.                                                         *)
InOrder(frame) ==
  /\ frame.indent \in Nat /\ frame.i \in Nat
  /\ frame.pc = "append" => frame.i = 0
  /\ frame.pc = "value" => frame.expr.type = "Value"
  /\ frame.pc \in {"array", "element"} =>
       frame.expr.type = "Array" /\ frame.i <= Len(frame.expr.list)
  /\ frame.pc = "element" => frame.i < Len(frame.expr.list)
  /\ frame.pc \in {"map", "key", "mapValue"} =>
       frame.expr.type = "Map" /\ frame.i <= frame.expr.count
  /\ frame.pc \in {"key", "mapValue"} => frame.i < Len(frame.expr.pairs)

(* The registers of the writer keep their types: the buffer holds bytes,    *)
(* and below the running activation each one waits for a child, down to the *)
(* root.                                                                    *)
WriterTypeOK ==
  /\ human \in BOOLEAN
  /\ text \in Seq(Character \cup {Unset})
  /\ copy \in [word : Seq(Character), i : Nat, at : Nat]
  /\ writing.pc \in {"append", "value", "key", "array", "element", "map",
                     "mapValue", "root", "written", "overrun", "aborted"}
  /\ writing.pc \in {"root", "written"} <=> waiting = <<>>
  /\ InOrder(writing)
  /\ \A n \in DOMAIN waiting :
       /\ waiting[n].pc \in {"element", "mapValue", "root"}
       /\ waiting[n].pc = "root" <=> n = 1
       /\ InOrder(waiting[n])

(* Sizes are computed before what they are for is written: whenever no word *)
(* is being copied, no byte of the buffer is left unset (the reallocs of    *)
(* s_wexpr_Expression_createStringRepresentation, each before its writes).  *)
EveryByteWritten ==
  \A j \in DOMAIN text : text[j] = Unset => Copying \/ writing.pc = "overrun"

(* Nothing but a key of a map ever needs more room than was made for it,    *)
(* and that only with two escapes in it: a value never does, nor in the     *)
(* human readable form a key that has to be quoted.                         *)
OverrunsOnlyAtKeys ==
  writing.pc = "overrun" =>
    /\ writing.expr.type = "Map"
    /\ Cardinality(Escapes(copy.word)) >= 2
    /\ human => BarewordSafe(copy.word)

(* The assertions of s_writeStringEscapedToBuffer: the buffer is big enough *)
(* for what is written to it.                                               *)
NoOverrun == writing.pc # "overrun"
=============================================================================
