------------------------------- MODULE Lexer --------------------------------
(***************************************************************************)
(* The lexemes of module Parser in a text of characters: what each branch  *)
(* of s_Expression_parseFromString looks for at the front of the text and  *)
(* consumes at once.                                                       *)
(***************************************************************************)
EXTENDS Characters, Base64, SequencesExt

StartBlockComment == <<";", "(", "-", "-">>
EndBlockComment == <<"-", "-", ")">>

(* s_StringRef_slice, find and findString: what is behind the first n       *)
(* characters; the place of the first occurrence of a string, 0 for none.   *)
Slice(str, n) == SubSeq(str, n + 1, Len(str))
FindString(str, rhs) == SelectInSeq([i \in DOMAIN str |-> i], LAMBDA i : IsPrefix(rhs, Slice(str, i - 1)))
Find(str, c) == FindString(str, <<c>>)

(* What follows the first occurrence of a string, nothing if there is none. *)
Behind(str, end) ==
  IF FindString(str, end) = 0 THEN <<>> ELSE Slice(str, FindString(str, end) + Len(end) - 1)

(* s_trimFrontOfString: the text without the white space and comments at    *)
(* its front.  The end of a block comment is looked for from its start.     *)
RECURSIVE TrimFront(_)
TrimFront(str) ==
  CASE str = <<>> -> <<>>
    [] str # <<>> /\ Head(str) \in Whitespace -> TrimFront(Tail(str))
    [] IsPrefix(StartBlockComment, str) -> TrimFront(Behind(str, EndBlockComment))
    [] IsPrefix(<<";">>, str) /\ ~IsPrefix(StartBlockComment, str) ->
         TrimFront(Behind(str, <<Newline>>))
    [] OTHER -> str

(* s_createValueOfString, its first pass over a quoted string: how many     *)
(* characters it holds, where it ends, whether that is within an escape and *)
(* whether all escapes were valid.                                          *)
Pass(length, end, escaped, valid) ==
  [length |-> length, end |-> end, escaped |-> escaped, valid |-> valid]

RECURSIVE FirstPass(_, _, _, _)
FirstPass(str, pos, length, escaped) ==
  IF pos > Len(str) THEN Pass(length, Len(str), escaped, TRUE)
  ELSE LET c == str[pos] IN
       CASE escaped /\ c \in EscapeValid -> FirstPass(str, pos + 1, length + 1, FALSE)
         [] escaped /\ c \notin EscapeValid -> Pass(length, pos, TRUE, FALSE)
         [] ~escaped /\ c = Quote -> Pass(length, pos, FALSE, TRUE)
         [] ~escaped /\ c = Backslash -> FirstPass(str, pos + 1, length, TRUE)
         [] OTHER -> FirstPass(str, pos + 1, length + 1, FALSE)

(* Its second pass: the characters, as many as the first one counted.  The  *)
(* register `escaped` is not reset between the two.                         *)
RECURSIVE SecondPass(_, _, _, _)
SecondPass(str, pos, length, escaped) ==
  CASE length = 0 -> <<>>
    [] length > 0 /\ escaped ->
         <<ValueForEscape(str[pos])>> \o SecondPass(str, pos + 1, length - 1, FALSE)
    [] length > 0 /\ ~escaped /\ str[pos] = Backslash ->
         SecondPass(str, pos + 1, length, TRUE)
    [] OTHER -> <<str[pos]>> \o SecondPass(str, pos + 1, length - 1, FALSE)

(* A C string ends at its first null character. *)
CString(word) ==
  LET n == SelectInSeq(word, LAMBDA c : c = NullCharacter)
  IN IF n = 0 THEN word ELSE SubSeq(word, 1, n - 1)

(* A lexeme and what is left behind it. *)
Found(lexeme, rest) == [lexeme |-> lexeme, rest |-> rest]
Plain(kind, rest) == Found([kind |-> kind], rest)

WordLexeme(word) ==
  IF word \in NullWords THEN [kind |-> "null"] ELSE [kind |-> "value", word |-> word]

QuotedString(str) ==
  LET first == FirstPass(str, 2, 0, FALSE)
      word == CString(SecondPass(str, 2, first.length, first.escaped))
  IN IF first.valid
     THEN Found(WordLexeme(word), Slice(str, first.end))
     ELSE Plain("badEscape", <<>>)

BarewordEnd(str) ==
  LET n == SelectInSeq(str, LAMBDA c : c \in NotBarewordSafe)
  IN IF n = 0 THEN Len(str) ELSE n - 1

Bareword(str) ==
  LET end == BarewordEnd(str)
  IN IF end = 0
     THEN Plain("junk", <<>>)
     ELSE Found(WordLexeme(SubSeq(str, 1, end)), Slice(str, end))

(* "[name]" and "*[name]": opening characters, a name, the bracket. *)
Bracketed(str, opening, kind, open) ==
  LET end == Find(str, "]")
  IN IF end = 0
     THEN Plain(open, <<>>)
     ELSE Found([kind |-> kind, name |-> SubSeq(str, opening + 1, end - 1)], Slice(str, end))

BinaryString(str) ==
  LET end == Find(str, ">")
      data == SubSeq(str, 2, end - 1)
  IN CASE end = 0 -> Plain("openBinary", <<>>)
       [] end # 0 /\ ~ValidBase64(data) -> Plain("badBinary", <<>>)
       [] OTHER -> Found([kind |-> "binary", blob |-> base64_decode(data)], Slice(str, end))

FrontLexeme(str) ==
  CASE TrimFront(str) # str -> Plain("blank", TrimFront(str))
    [] IsPrefix(<<"#", "(">>, str) -> Plain("array", Slice(str, 2))
    [] IsPrefix(<<"@", "(">>, str) -> Plain("map", Slice(str, 2))
    [] IsPrefix(<<")">>, str) -> Plain("close", Slice(str, 1))
    [] IsPrefix(<<"[">>, str) -> Bracketed(str, 1, "ref", "openRef")
    [] IsPrefix(<<"*", "[">>, str) -> Bracketed(str, 2, "insert", "openInsert")
    [] IsPrefix(<<"<">>, str) -> BinaryString(str)
    [] IsPrefix(<<Quote>>, str) -> QuotedString(str)
    [] OTHER -> Bareword(str)

RECURSIVE Lex(_)
Lex(str) ==
  IF str = <<>> THEN <<>>
  ELSE LET front == FrontLexeme(str) IN <<front.lexeme>> \o Lex(front.rest)
=============================================================================
