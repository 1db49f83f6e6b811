------------------------------ MODULE MCBinary ------------------------------
(***************************************************************************)
(* Instances of BinaryRoundTrip for TLC: what is written and read.         *)
(***************************************************************************)
EXTENDS BinaryRoundTrip

CONSTANTS
  MaxDocument,   (* bound: bytes of a document of somebody else *)
  MaxLeaf        (* bound: bytes in a word or in binary data    *)

(* Any bytes at all: each type and an unknown one, digits of sizes with and *)
(* without the bit.                                                         *)
MCDocuments == UNION {[1..n -> 0..5] : n \in 0..MaxDocument}

Text(n) == [i \in 1..n |-> 1 + (i % 5)]
Words == {Text(n) : n \in 0..MaxLeaf}
Leaves1 == {Null} \cup {Value(w) : w \in Words} \cup {BinaryData(w) : w \in Words}

Node(pairs, count) == [type |-> "Map", pairs |-> pairs, count |-> count]
Pair(key, value) == [key |-> key, value |-> value]

ArraysOf(nodes) == {Array(l) : l \in UNION {[1..n -> nodes] : n \in 0..2}}
MapsOf(keys, nodes) ==
  {Node(<<>>, 0)}
    \cup {Node(<<Pair(k, v)>>, 1) : k \in keys, v \in nodes}
    \cup {Node(<<Pair(k[1], v), Pair(k[2], u)>>, 2) :
            k \in {p \in keys \X keys : p[1] # p[2]}, v \in nodes, u \in nodes}

SomeLeaves == {Null, Value(<<>>), Value(Text(3)), BinaryData(<<>>), BinaryData(<<0>>)}
SomeWords == {<<>>, <<2>>, Text(4)}
Middle == ArraysOf(SomeLeaves) \cup MapsOf(SomeWords, SomeLeaves \ {BinaryData(<<0>>)})
Outer ==
  {Array(<<x, y>>) : x \in Middle, y \in {Null, Value(<<1>>)}}
    \cup {Node(<<Pair(k, x), Pair(<<3>>, y)>>, 2) : k \in {<<>>, <<2>>}, x \in Middle, y \in {Null, Array(<<>>)}}

(* A key put twice, and an expression that was never set.                   *)
Odd == {Node(<<Pair(<<2>>, Null)>>, 2), Array(<<Invalid, Null>>)}

MCNodes ==
  Leaves1 \cup SomeLeaves \cup {Value(<<1>>), Invalid} \cup Middle \cup Outer \cup Odd

MCBehind == {<<>>, <<1>>, <<0, 0>>}
=============================================================================
