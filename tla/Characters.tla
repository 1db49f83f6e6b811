----------------------------- MODULE Characters -----------------------------
(***************************************************************************)
(* The characters of the text format and the classes the parser and the    *)
(* writer sort them into.  A character is a string of length one; a word   *)
(* or a text is a sequence of them.                                        *)
(***************************************************************************)
EXTENDS Naturals, Sequences

Newline == "\n"
Quote == "\""
Backslash == "\\"

Whitespace == {" ", "\t", "\r", Newline}

(* Mutant: the semicolon of comments is forgotten. *)
NotBarewordSafeButComments ==
  {"*", "#", "@", "(", ")", "[", "]", "^", "<", ">", Quote} \cup Whitespace

(* The characters a bareword cannot hold. *)
NotBarewordSafe ==
  {"*", "#", "@", "(", ")", "[", "]", "^", "<", ">", Quote, ";"} \cup Whitespace

(* The characters that are written as an escape, and what follows the       *)
(* backslash.                                                               *)
RequiresEscape == {Quote, "\r", Newline, "\t", Backslash}

EscapeForValue(c) ==
  CASE c = "\r" -> "r"
    [] c = Newline -> "n"
    [] c = "\t" -> "t"
    [] OTHER -> c

EscapeValid == {Quote, "r", "n", "t", Backslash}

(* What an escape stands for; the null character if it is none. *)
NullCharacter == "NUL"
ValueForEscape(c) ==
  CASE c = "r" -> "\r"
    [] c = "n" -> Newline
    [] c = "t" -> "\t"
    [] c \in EscapeValid -> c
    [] OTHER -> NullCharacter

(* A bareword holds none of the characters above and is not empty. *)
BarewordSafe(word) == word # <<>> /\ \A i \in DOMAIN word : word[i] \notin NotBarewordSafe

(* The two words that stand for the null expression. *)
NullWords == {<<"n", "i", "l">>, <<"n", "u", "l", "l">>}
=============================================================================
