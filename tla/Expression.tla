----------------------------- MODULE Expression -----------------------------
(***************************************************************************)
(* The expression tree of libWexpr (struct WexprExpression) as a value.    *)
(*                                                                         *)
(* A node is a record: its m_type and the member of the union that type    *)
(* selects.  An array keeps its list in order; a map is the table its      *)
(* hash stands for (HashMapProofs shows that it is one).                   *)
(***************************************************************************)
EXTENDS Naturals, Sequences

CONSTANTS
  Words,     (* the strings a value or a map key may hold           *)
  Blobs,     (* the byte strings binary data may hold               *)
  MaxDepth   (* bound: the deepest nesting the instance builds      *)

ASSUME MaxDepthAssumption == MaxDepth \in Nat

Invalid == [type |-> "Invalid"]
Null == [type |-> "Null"]
Value(word) == [type |-> "Value", data |-> word]
BinaryData(blob) == [type |-> "BinaryData", data |-> blob]
Array(list) == [type |-> "Array", list |-> list]
Map(hash) == [type |-> "Map", hash |-> hash]

Leaves ==
  {Invalid, Null} \cup {Value(w) : w \in Words} \cup {BinaryData(b) : b \in Blobs}

(* A hash table: what it holds for each key, Absent for none. *)
Absent == [type |-> "Absent"]
Tables(keys, elements) == [keys -> elements \cup {Absent}]
EmptyTable(keys) == [k \in keys |-> Absent]
KeysOf(table) == {k \in DOMAIN table : table[k] # Absent}

(* The expressions at most n levels deep. *)
ExpressionsTo[n \in Nat] ==
  IF n = 0
  THEN Leaves
  ELSE Leaves
         \cup [type : {"Array"}, list : Seq(ExpressionsTo[n - 1])]
         \cup [type : {"Map"}, hash : Tables(Words, ExpressionsTo[n - 1])]

Expr == ExpressionsTo[MaxDepth]

(***************************************************************************)
(* wexpr_Expression_createCopy starts from a null expression and lets      *)
(* s_Expression_copyInto fill it.  copyInto has a case for values, arrays  *)
(* and maps, whose children it copies with createCopy, and ignores every   *)
(* other type, binary data among them.                                     *)
(***************************************************************************)
CopyWith(copy, self, rhs) ==
  CASE rhs.type = "Value" -> Value(rhs.data)
    [] rhs.type = "Array" -> Array([i \in DOMAIN rhs.list |-> copy[rhs.list[i]]])
    [] rhs.type = "Map"   -> Map([k \in DOMAIN rhs.hash |->
                                    IF rhs.hash[k] = Absent THEN Absent ELSE copy[rhs.hash[k]]])
    [] OTHER              -> self

createCopy[rhs \in Expr] == CopyWith(createCopy, Null, rhs)

copyInto(self, rhs) == CopyWith(createCopy, self, rhs)
=============================================================================
