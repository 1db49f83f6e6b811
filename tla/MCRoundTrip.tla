---------------------------- MODULE MCRoundTrip -----------------------------
(***************************************************************************)
(* Instances of RoundTrip for TLC: the expressions that are written.       *)
(***************************************************************************)
EXTENDS RoundTrip

CONSTANTS
  MaxWord,      (* bound: characters in a word      *)
  MaxBlob       (* bound: bytes in binary data      *)

(* One character of each class: nothing special, unsafe, unsafe and escaped *)
(* under its own sign and another's, safe and escaped.                      *)
Alphabet == {"a", ";", Quote, Newline, Backslash}

MCCharacter == Alphabet \cup NotBarewordSafe \cup OwnCharacters \cup {"i"}

WordsTo(n) == UNION {[1..m -> Alphabet] : m \in 0..n}
MCWords == WordsTo(MaxWord) \cup NullWords
BlobsOf(bytes) == UNION {[1..m -> bytes] : m \in 0..MaxBlob}
MCBlobs == BlobsOf({0, 107, 255})

Node(pairs, count) == [type |-> "Map", pairs |-> pairs, count |-> count]
Pair(key, value) == [key |-> key, value |-> value]

(* Every leaf; and a few to put together. *)
AllLeaves == {P!Null} \cup {P!Value(w) : w \in MCWords} \cup {P!BinaryData(b) : b \in MCBlobs}
SmallWords == {<<>>, <<"a">>, <<";">>, <<"a", Newline>>, <<Backslash, Backslash>>}
SmallLeaves == {P!Null, P!BinaryData(<<255>>)} \cup {P!Value(w) : w \in SmallWords}

(* Containers of up to two of some expressions, and maps that were put a    *)
(* key again and count it twice.                                            *)
ArraysOf(nodes) == {P!Array(l) : l \in UNION {[1..n -> nodes] : n \in 0..2}}
MapsOf(keys, nodes) ==
  {Node(<<>>, 0)}
    \cup {Node(<<Pair(k, v)>>, n) : k \in keys, v \in nodes, n \in 1..2}
    \cup {Node(<<Pair(k[1], v), Pair(k[2], u)>>, 2) :
            k \in {p \in keys \X keys : p[1] # p[2]}, v \in nodes, u \in nodes}

Middle ==
  ArraysOf(SmallLeaves) \cup MapsOf(SmallWords, {P!Null, P!Value(<<";">>)})
    \cup {P!Array(<<P!Invalid>>)}
Outer ==
  {P!Array(<<x, y>>) : x \in Middle, y \in {P!Null, P!Value(<<"a">>)}}
    \cup {Node(<<Pair(k, x)>>, n) : k \in {<<"a">>, <<";">>}, x \in Middle, n \in 1..2}

MCNodes ==
  AllLeaves \cup {P!Invalid} \cup Middle \cup Outer
    \cup {Node(<<Pair(k, P!Value(<<"a">>))>>, 1) : k \in MCWords}

(* Comments that hold what would be an error outside them, one up to the    *)
(* end of the text among them.                                              *)
MCBefore ==
  {<<>>, <<";", Quote, Newline, "\t">>, <<";", "(", "-", "-", Newline, ")", ";", "-", "-", ")">>}
MCAfter == {<<>>, <<" ", ";", "#", "(">>}
=============================================================================
