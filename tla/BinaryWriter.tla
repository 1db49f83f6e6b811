---------------------------- MODULE BinaryWriter ----------------------------
(***************************************************************************)
(* wexpr_Expression_createBinaryRepresentation: the chunk of an expression *)
(* from the chunks of its children.  The code makes each child's chunk     *)
(* twice, once for its size and once to copy it; both are the same.        *)
(*                                                                         *)
(* A map is what the writer sees of it, as in module Writer: its pairs in  *)
(* the order of the slots, and the count the loops go to.                  *)
(***************************************************************************)
EXTENDS UVLQ64, SequencesExt

CONSTANTS
  Nodes,      (* the expressions written and all that is below them        *)
  MaxDepth    (* bound: how deep they are nested                           *)

PartsOf(self) ==
  CASE self.type = "Array" -> {self.list[i] : i \in DOMAIN self.list}
    [] self.type = "Map" -> {self.pairs[i].value : i \in DOMAIN self.pairs}
    [] OTHER -> {}

(* The expressions at most n levels deep. *)
NodesTo[n \in 0 .. MaxDepth] ==
  IF n = 0 THEN {e \in Nodes : PartsOf(e) = {}}
  ELSE LET below == NodesTo[n - 1] IN {e \in Nodes : PartsOf(e) \subseteq below}

(* Strings end at their first zero, and no two pairs have the same key.     *)
CStrings == Seq(Byte \ {0})
KeysDiffer(pairs) == \A i, j \in DOMAIN pairs : pairs[i].key = pairs[j].key => i = j

WellFormed(e) ==
  \/ e \in [type : {"Null", "Invalid"}]
  \/ e \in [type : {"Value"}, data : CStrings]
  \/ e \in [type : {"BinaryData"}, data : Seq(Byte)]
  \/ e \in [type : {"Array"}, list : Seq(Nodes)]
  \/ /\ e \in [type : {"Map"}, pairs : Seq([key : CStrings, value : Nodes]), count : Nat]
     /\ Len(e.pairs) <= e.count /\ KeysDiffer(e.pairs)

(* Expressions are trees. *)
ASSUME NodesAssumption ==
  /\ \A e \in Nodes : WellFormed(e)
  /\ MaxDepth \in Nat /\ Nodes = NodesTo[MaxDepth]

Below[self \in Nodes] == {self} \cup UNION {Below[part] : part \in PartsOf(self)}

(* The writer takes strlen of the key at each index below the count.        *)
HasItsKeys(self) == self.count <= Len(self.pairs)
KeysAreThere(self) == \A e \in Below[self] : e.type = "Map" => HasItsKeys(e)

ChunkOf(type, data) == uvlq64(Len(data)) \o <<type>> \o data

(* A key and what it maps to. *)
PairWith(chunk, pair) == ChunkOf(1, pair.key) \o chunk[pair.value]

(* An expression that is not valid has no chunk; nor has a map that misses  *)
(* a key, where the code goes astray (KeysAreThere).                        *)
RepresentationWith(chunk, self) ==
  CASE self.type = "Null"  -> ChunkOf(0, <<>>)
    [] self.type = "Value" -> ChunkOf(1, self.data)
    [] self.type = "Array" ->
         ChunkOf(2, FlattenSeq([i \in DOMAIN self.list |-> chunk[self.list[i]]]))
    [] self.type = "Map" /\ HasItsKeys(self) ->
         ChunkOf(3, FlattenSeq([i \in 1 .. self.count |-> PairWith(chunk, self.pairs[i])]))
    [] self.type = "BinaryData" -> ChunkOf(4, <<0>> \o self.data)
    [] OTHER -> <<>>

BinaryRepresentation[self \in Nodes] == RepresentationWith(BinaryRepresentation, self)
=============================================================================
