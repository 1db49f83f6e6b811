------------------------------- MODULE Nodes -------------------------------
(***************************************************************************)
(* The nodes of expressions on the heap (struct WexprExpression), as the   *)
(* calls of Expression.h allocate, link and free them for a caller who     *)
(* keeps to its rules: it passes nodes it owns or finds in what it owns,   *)
(* and gives away only what it owns.  Calls that change a node of another  *)
(* type than they are for return at once and are left out.                 *)
(*                                                                         *)
(* A node has the shape of an expression with nodes for its parts.         *)
(***************************************************************************)
EXTENDS Expression, FiniteSets, Functions

CONSTANTS
  Memory,   (* bound: the nodes there is room for                         *)
  Unset     (* the NULL of a value whose text was never set               *)

ASSUME UnsetAssumption == Unset \in Words
ASSUME MemoryAssumption == Absent \notin Memory /\ IsFiniteSet(Memory)

VARIABLES
  heap,     (* what each node is, or Free                                 *)
  owned,    (* the nodes the caller has to destroy                        *)
  lost,     (* nodes that were put under a key another was put under later *)
  running   (* FALSE once the program has followed a NULL                 *)

nodesVars == <<heap, owned, lost, running>>

Free == [type |-> "Free"]
Live == {n \in Memory : heap[n] # Free}
Texts == Words \ {Unset}
Types == {"Invalid", "Null", "Value", "BinaryData", "Array", "Map"}

(* What a node links to: the elements of an array, the values of a map.     *)
Places(n) ==
  CASE heap[n].type = "Array" -> DOMAIN heap[n].list
    [] heap[n].type = "Map"   -> KeysOf(heap[n].hash)
    [] OTHER                  -> {}
PartAt(n, place) == IF heap[n].type = "Array" THEN heap[n].list[place] ELSE heap[n].hash[place]
Parts(n) == {PartAt(n, place) : place \in Places(n)}

(* A node with everything below it: what every set with the node has that   *)
(* has the parts of all its nodes.                                          *)
Closed(nodes) == \A n \in nodes : Parts(n) \subseteq nodes
Tree(n) ==
  LET closed == {nodes \in SUBSET Memory : n \in nodes /\ Closed(nodes)}
  IN {m \in Memory : \A nodes \in closed : m \in nodes}
Reachable == UNION {Tree(n) : n \in owned}

Empty(type) ==
  CASE type = "Value"      -> Value(Unset)
    [] type = "BinaryData" -> BinaryData(<<>>)
    [] type = "Array"      -> Array(<<>>)
    [] type = "Map"        -> Map(EmptyTable(Words))
    [] OTHER               -> [type |-> type]

NodesInit == heap = [n \in Memory |-> Free] /\ owned = {} /\ lost = {} /\ running = TRUE

Create(node) ==
  \E n \in Memory \ Live :
    /\ heap' = [heap EXCEPT ![n] = node] /\ owned' = owned \cup {n}
    /\ UNCHANGED <<lost, running>>

createInvalid == running /\ Create(Invalid)
createNull == running /\ Create(Null)
createValue == running /\ \E text \in Texts : Create(Value(text))

-----------------------------------------------------------------------------
(* createCopy: a new node for each one of the tree.  What copyInto does not *)
(* know stays the null it was created as; a value without a text is         *)
(* strdupd.                                                                 *)
(* Mutant: the elements of an array are shared.                             *)
CopiedShallow(node, new) ==
  CASE node.type = "Value" -> node
    [] node.type = "Array" -> node
    [] node.type = "Map"   -> Map([key \in Words |-> IF node.hash[key] = Absent THEN Absent
                                                     ELSE new[node.hash[key]]])
    [] OTHER               -> Null

Copied(node, new) ==
  CASE node.type = "Value" -> node
    [] node.type = "Array" -> Array([i \in DOMAIN node.list |-> new[node.list[i]]])
    [] node.type = "Map"   -> Map([key \in Words |-> IF node.hash[key] = Absent THEN Absent
                                                     ELSE new[node.hash[key]]])
    [] OTHER               -> Null

createCopy_(n) ==
  IF \E m \in Tree(n) : heap[m] = Value(Unset)
  THEN running' = FALSE /\ UNCHANGED <<heap, owned, lost>>
  ELSE \E new \in Injection(Tree(n), Memory \ Live) :
         /\ heap' = [m \in Memory |-> IF m \in Range(new) THEN Copied(heap[Inverse(new, Tree(n), Memory)[m]], new)
                                                          ELSE heap[m]]
         /\ owned' = owned \cup {new[n]}
         /\ UNCHANGED <<lost, running>>
Copy == running /\ \E n \in Reachable : createCopy_(n)

-----------------------------------------------------------------------------
(* changeType frees what the node had, whole trees of it, and starts over.  *)
(* Mutant: the elements of a map are left to themselves.                    *)
FreedButOfMaps(n) == IF heap[n].type = "Map" THEN {} ELSE Tree(n) \ {n}

Freed(n) == Tree(n) \ {n}

changeType ==
  /\ running
  /\ \E n \in Reachable, type \in Types :
       heap' = [m \in Memory |-> IF m = n THEN Empty(type) ELSE IF m \in Freed(n) THEN Free ELSE heap[m]]
  /\ UNCHANGED <<owned, lost, running>>

destroy ==
  /\ running
  /\ \E n \in owned :
       /\ heap' = [m \in Memory |-> IF m = n \/ m \in Freed(n) THEN Free ELSE heap[m]]
       /\ owned' = owned \ {n}
  /\ UNCHANGED <<lost, running>>

-----------------------------------------------------------------------------
Set(n, node) == heap' = [heap EXCEPT ![n] = node] /\ UNCHANGED running

valueSet ==
  /\ running
  /\ \E n \in Reachable, text \in Texts : heap[n].type = "Value" /\ Set(n, Value(text))
  /\ UNCHANGED <<owned, lost>>

binaryData_setValue ==
  /\ running
  /\ \E n \in Reachable, blob \in Blobs : heap[n].type = "BinaryData" /\ Set(n, BinaryData(blob))
  /\ UNCHANGED <<owned, lost>>

(* The caller gives away an expression that is not around the one it goes to. *)
Give(n, element) == n \notin Tree(element) /\ owned' = owned \ {element}

arrayAddElementToEnd ==
  /\ running
  /\ \E n \in Reachable, element \in owned :
       /\ heap[n].type = "Array" /\ Give(n, element)
       /\ Set(n, Array(Append(heap[n].list, element)))
  /\ UNCHANGED lost

(* What the map had for the key is held by nobody any more. *)
mapSetValueForKey ==
  /\ running
  /\ \E n \in Reachable, element \in owned, key \in Texts :
       /\ heap[n].type = "Map" /\ Give(n, element)
       /\ Set(n, Map([heap[n].hash EXCEPT ![key] = element]))
       /\ lost' = lost \cup ({heap[n].hash[key]} \ {Absent})

Stopped == ~running /\ UNCHANGED nodesVars

NodesNext ==
  \/ createInvalid \/ createNull \/ createValue \/ Copy
  \/ changeType \/ destroy \/ valueSet \/ binaryData_setValue
  \/ arrayAddElementToEnd \/ mapSetValueForKey \/ Stopped

NodesSpec == NodesInit /\ [][NodesNext]_nodesVars

-----------------------------------------------------------------------------
(* Every node is held once: by the caller, at one place of one live node,   *)
(* or as one that was lost under its key; what is held is alive, and all    *)
(* that is alive is under what the caller owns or has lost that way, so     *)
(* that destroying frees everything else exactly once                       *)
(* (wexpr_Expression_destroy, changeType, createCopy, mapSetValueForKey).   *)
Holds(p, n) == {<<p, place>> : place \in {at \in Places(p) : PartAt(p, at) = n}}
Holders(n) ==
  (UNION {Holds(p, n) : p \in Live})
    \cup {<<"owned">> : root \in {n} \cap owned}
    \cup {<<"lost">> : root \in {n} \cap lost}
HeldOnce ==
  /\ \A n \in Live : \E holder \in Holders(n) : Holders(n) = {holder}
  /\ \A n \in Live : Parts(n) \subseteq Live
  /\ owned \cup lost \subseteq Live
  /\ Live = UNION {Tree(n) : n \in owned \cup lost}

(* The tree a node stands for: what is at each place below it.              *)
Shape(node) ==
  CASE node.type = "Array" -> [type |-> "Array", count |-> Len(node.list)]
    [] node.type = "Map"   -> [type |-> "Map"]
    [] OTHER               -> node
Denotes[n \in Memory] ==
  [place \in {<<>>} \cup UNION {{<<step>> \o way : way \in DOMAIN Denotes[PartAt(n, step)]}
                                : step \in Places(n)} |->
     IF place = <<>> THEN Shape(heap[n]) ELSE Denotes[PartAt(n, Head(place))][Tail(place)]]

(* What the caller owns are trees of their own: a call changes one of them, *)
(* a copy is what createCopy makes of the tree it is a copy of, and stays   *)
(* what it is whatever becomes of the original                              *)
(* (s_Expression_copyInto, wexpr_Expression_arrayAddElementToEnd).          *)
Abstract == INSTANCE Trees WITH Handles <- Memory, trees <- [n \in owned |-> Denotes[n]]
OwnsTrees == Abstract!TreesSpec
=============================================================================
