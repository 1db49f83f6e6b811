---------------------------- MODULE NodesProofs ----------------------------
(***************************************************************************)
(* The nodes of expressions are a forest, for any memory, any texts and    *)
(* any number of calls: nothing is freed twice, nothing is used after it   *)
(* was freed, and nothing is lost but what a map held under a key that was *)
(* set again.  What a caller owns of them are trees of their own: a tree   *)
(* is what the ways down from a node lead to, so that a call, which        *)
(* changes some links, cuts, joins or copies the ways.                     *)
(***************************************************************************)
EXTENDS Nodes, FiniteSetTheorems, WellFoundedInduction, TLAPS

(* What may be in memory. *)
IsLeaf(node) ==
  \/ node \in {Invalid, Null}
  \/ \E text \in Words : node = Value(text)
  \/ \E blob : node = BinaryData(blob)
IsArray(node) == \E list \in Seq(Memory) : node = Array(list)
IsMap(node) == \E hash \in [Words -> Memory \cup {Absent}] : node = Map(hash)
HeapOK ==
  /\ heap = [n \in Memory |-> heap[n]]
  /\ \A n \in Memory : heap[n] = Free \/ IsLeaf(heap[n]) \/ IsArray(heap[n]) \/ IsMap(heap[n])

(* Node p has m at a place. *)
Links(p, place, m) == p \in Memory /\ place \in Places(p) /\ m = PartAt(p, place)
Roots == owned \cup lost

(* The forest: no root is a part, nothing is a part twice, and a set with   *)
(* the roots and the parts of what is in it has all that is alive.          *)
Grounded ==
  \A S \in SUBSET Memory :
    Roots \subseteq S /\ (\A p, place, m : Links(p, place, m) /\ p \in S => m \in S) => Live \subseteq S
Forest ==
  /\ owned \subseteq Live /\ lost \subseteq Live /\ owned \cap lost = {}
  /\ \A p, place, m : Links(p, place, m) => p \in Live /\ m \in Live /\ m \notin Roots
  /\ \A p, place, q, other, m :
       Links(p, place, m) /\ Links(q, other, m) => p = q /\ place = other
  /\ Grounded
NodesInv == HeapOK /\ Forest

(* What the kinds of nodes have for places. *)
LEMMA Kinds ==
  /\ Free.type = "Free" /\ Invalid.type = "Invalid" /\ Null.type = "Null"
  /\ \A text : Value(text).type = "Value"
  /\ \A blob : BinaryData(blob).type = "BinaryData"
  /\ \A list : Array(list).type = "Array" /\ Array(list).list = list
  /\ \A hash : Map(hash).type = "Map" /\ Map(hash).hash = hash
BY DEF Free, Invalid, Null, Value, BinaryData, Array, Map

LEMMA LeafLinks ==
  ASSUME NEW p, heap[p] = Free \/ IsLeaf(heap[p]), NEW place, NEW m
  PROVE  ~Links(p, place, m)
BY Kinds DEF IsLeaf, Links, Places

LEMMA ArrayLinks ==
  ASSUME NEW p \in Memory, NEW list, heap[p] = Array(list), NEW place, NEW m
  PROVE  Links(p, place, m) <=> place \in DOMAIN list /\ m = list[place]
BY Kinds DEF Links, Places, PartAt

LEMMA MapLinks ==
  ASSUME NEW p \in Memory, NEW hash, heap[p] = Map(hash), NEW place, NEW m
  PROVE  Links(p, place, m) <=> place \in DOMAIN hash /\ hash[place] # Absent /\ m = hash[place]
BY Kinds DEF Links, Places, PartAt, KeysOf

LEMMA Alive ==
  ASSUME NEW n \in Memory, IsLeaf(heap[n]) \/ IsArray(heap[n]) \/ IsMap(heap[n])
  PROVE  n \in Live
BY Kinds DEF Live, IsLeaf, IsArray, IsMap

-----------------------------------------------------------------------------
(* A tree: it has its root, it has the parts of what it has, it is in every *)
(* set like that.                                                           *)
LEMMA PartsAreLinked ==
  ASSUME NEW p \in Memory, NEW m
  PROVE  m \in Parts(p) <=> \E place : Links(p, place, m)
BY DEF Parts, Links

LEMMA TreeLeast ==
  ASSUME NEW n, NEW S \in SUBSET Memory, n \in S,
         \A p, place, m : Links(p, place, m) /\ p \in S => m \in S
  PROVE  Tree(n) \subseteq S
<1>1. Closed(S)
  BY PartsAreLinked DEF Closed
<1> QED BY <1>1 DEF Tree

LEMMA TreeClosed ==
  ASSUME Forest, NEW n \in Memory
  PROVE  /\ n \in Tree(n) /\ Tree(n) \subseteq Memory
         /\ \A p, place, m : Links(p, place, m) /\ p \in Tree(n) => m \in Tree(n)
<1>1. n \in Tree(n) /\ Tree(n) \subseteq Memory
  BY DEF Tree
<1>2. ASSUME NEW p, NEW place, NEW m, Links(p, place, m), p \in Tree(n)
      PROVE  m \in Tree(n)
  <2>1. m \in Memory /\ p \in Memory /\ m \in Parts(p)
    BY <1>2, PartsAreLinked DEF Forest, Live, Links
  <2>2. ASSUME NEW S \in SUBSET Memory, n \in S, Closed(S) PROVE m \in S
    BY <1>2, <2>1, <2>2 DEF Tree, Closed
  <2> QED BY <2>1, <2>2 DEF Tree
<1> QED BY <1>1, <1>2

LEMMA TreeAlive ==
  ASSUME Forest, NEW n \in Live
  PROVE  Tree(n) \subseteq Live /\ n \in Memory
<1>1. Live \in SUBSET Memory
  BY DEF Live
<1> QED BY <1>1, TreeLeast DEF Forest

(* What is in a tree is its root or has its link from within, ...           *)
LEMMA LinkedWithin ==
  ASSUME Forest, NEW n \in Live, NEW m \in Tree(n), m # n
  PROVE  \E p \in Tree(n) : \E place : Links(p, place, m)
<1>1. n \in Memory /\ Tree(n) \subseteq Memory
  BY TreeAlive, TreeClosed
<1>2. SUFFICES ASSUME \A p, place : p \in Tree(n) => ~Links(p, place, m) PROVE FALSE
  OBVIOUS
<1>3. \A p, place, k : Links(p, place, k) /\ p \in Tree(n) \ {m} => k \in Tree(n) \ {m}
  BY <1>1, <1>2, TreeClosed
<1>4. n \in Tree(n) \ {m} /\ Tree(n) \ {m} \in SUBSET Memory
  BY <1>1, TreeClosed
<1>5. Tree(n) \subseteq Tree(n) \ {m}
  BY <1>3, <1>4, TreeLeast
<1> QED BY <1>5

(* ... so that only its root is linked from outside, ...                    *)
LEMMA EntersAtRoot ==
  ASSUME Forest, NEW n \in Live, NEW p, NEW place, NEW m \in Tree(n), Links(p, place, m),
         p \notin Tree(n)
  PROVE  m = n
BY LinkedWithin DEF Forest

(* ... and no other root is in it.                                          *)
LEMMA OneRoot ==
  ASSUME Forest, NEW n \in Live, NEW root \in Roots, root \in Tree(n)
  PROVE  root = n
BY LinkedWithin DEF Forest

(* There are no cycles: all that is alive but not in the tree would be      *)
(* grounded without it.                                                     *)
LEMMA NoCycles ==
  ASSUME Forest, NEW n \in Live, NEW p \in Tree(n), NEW place, Links(p, place, n)
  PROVE  FALSE
<1> DEFINE S == Live \ Tree(n)
<1>1. n \in Memory /\ n \in Tree(n) /\ Tree(n) \subseteq Live
  BY TreeAlive, TreeClosed
<1>2. Roots \subseteq S
  <2>1. n \notin Roots
    BY DEF Forest
  <2> QED BY <2>1, OneRoot DEF Forest, Roots
<1>3. ASSUME NEW q, NEW other, NEW m, Links(q, other, m), q \in S
      PROVE  m \in S
  <2>1. m \in Live
    BY <1>3 DEF Forest
  <2>2. CASE m \in Tree(n)
    <3>1. m = n
      BY <1>3, <2>2, EntersAtRoot
    <3>2. q = p
      BY <1>3, <3>1 DEF Forest
    <3> QED BY <1>3, <3>2
  <2> QED BY <2>1, <2>2
<1>4. S \in SUBSET Memory
  BY DEF Live
<1>5. Live \subseteq S
  BY <1>2, <1>3, <1>4 DEF Forest, Grounded
<1> QED BY <1>1, <1>5

LEMMA ReachableAlive ==
  ASSUME Forest, NEW n \in Reachable
  PROVE  n \in Live /\ n \in Memory
<1>1. PICK root \in owned : n \in Tree(root)
  BY DEF Reachable
<1>2. root \in Live
  BY DEF Forest
<1> QED BY <1>1, <1>2, TreeAlive DEF Live

(* The forest is what HeldOnce says.                                        *)
LEMMA ForestHolds == NodesInv => HeldOnce
<1> SUFFICES ASSUME NodesInv PROVE HeldOnce
  OBVIOUS
<1>0. Forest /\ Live \subseteq Memory
  BY DEF NodesInv, Live
<1>1. \A n \in Live : Parts(n) \subseteq Live
  BY <1>0, PartsAreLinked DEF Forest
<1>2. Live = UNION {Tree(n) : n \in Roots}
  <2> DEFINE S == UNION {Tree(n) : n \in Roots}
  <2>1. S \subseteq Live
    BY <1>0, TreeAlive DEF Forest, Roots
  <2>2. Roots \subseteq S
    BY <1>0, TreeClosed DEF Forest, Roots
  <2>3. \A p, place, m : Links(p, place, m) /\ p \in S => m \in S
    BY <1>0, TreeClosed DEF Forest, Roots
  <2>4. S \in SUBSET Memory
    BY <1>0, <2>1
  <2> HIDE DEF S
  <2>5. Live \subseteq S
    BY <1>0, <2>2, <2>3, <2>4 DEF Forest, Grounded
  <2>6. S = Live
    BY <2>1, <2>5
  <2> QED BY <2>6 DEF S
<1>3. ASSUME NEW n \in Live PROVE \E holder \in Holders(n) : Holders(n) = {holder}
  <2>1. \A h : h \in Holders(n) <=>
          \/ \E p \in Live : h \in Holds(p, n)
          \/ n \in owned /\ h = <<"owned">>
          \/ n \in lost /\ h = <<"lost">>
    BY DEF Holders
  <2>2. \A h : h \in Holders(n) <=>
          \/ \E p, place : Links(p, place, n) /\ h = <<p, place>>
          \/ n \in owned /\ h = <<"owned">>
          \/ n \in lost /\ h = <<"lost">>
    <3>1. \A p, place : Links(p, place, n) <=>
                          p \in Live /\ place \in Places(p) /\ PartAt(p, place) = n
      BY <1>0 DEF Links, Forest
    <3>2. \A p, h : h \in Holds(p, n) <=> \E place \in Places(p) : PartAt(p, place) = n /\ h = <<p, place>>
      BY DEF Holds
    <3>3. \A h : (\E p \in Live : h \in Holds(p, n)) <=> \E p, place : Links(p, place, n) /\ h = <<p, place>>
      BY <3>1, <3>2
    <3> QED BY <2>1, <3>3
  <2>3. CASE n \in owned
    <3>1. n \notin lost /\ \A p, place : ~Links(p, place, n)
      BY <1>0, <2>3 DEF Forest, Roots
    <3>2. Holders(n) = {<<"owned">>}
      BY <2>2, <2>3, <3>1
    <3> QED BY <2>2, <2>3, <3>2
  <2>4. CASE n \in lost
    <3>1. n \notin owned /\ \A p, place : ~Links(p, place, n)
      BY <1>0, <2>4 DEF Forest, Roots
    <3>2. Holders(n) = {<<"lost">>}
      BY <2>2, <2>4, <3>1
    <3> QED BY <2>2, <2>4, <3>2
  <2>5. CASE n \notin Roots
    <3>1. PICK root \in Roots : n \in Tree(root)
      BY <1>2
    <3>2. root \in Live /\ n # root
      BY <1>0, <2>5 DEF Forest, Roots
    <3>3. PICK p, place : Links(p, place, n)
      BY <1>0, <3>1, <3>2, LinkedWithin
    <3>4. \A q, other : Links(q, other, n) => q = p /\ other = place
      BY <1>0, <3>3 DEF Forest
    <3>5. \A h : h \in Holders(n) <=> h = <<p, place>>
      BY <2>2, <2>5, <3>3, <3>4 DEF Roots
    <3>6. Holders(n) = {<<p, place>>}
      BY <3>5
    <3> QED BY <3>5, <3>6
  <2> QED BY <2>3, <2>4, <2>5 DEF Roots
<1> QED BY <1>0, <1>1, <1>2, <1>3 DEF HeldOnce, Forest, Roots

-----------------------------------------------------------------------------
(* What a call leaves alone links as before; a leaf links nothing.          *)
LEMMA SameLinks ==
  ASSUME NEW p, heap'[p] = heap[p], NEW place, NEW m
  PROVE  Links(p, place, m)' <=> Links(p, place, m)
BY DEF Links, Places, PartAt, KeysOf

LEMMA LeafLinksNext ==
  ASSUME NEW p, heap'[p] = Free \/ IsLeaf(heap'[p]), NEW place, NEW m
  PROVE  ~Links(p, place, m)'
BY Kinds DEF IsLeaf, Links, Places

(* What changeType leaves of a node: it links nothing yet. *)
IsBare(node) == IsLeaf(node) \/ node = Array(<<>>) \/ node = Map(EmptyTable(Words))

LEMMA Bare ==
  ASSUME NEW node, IsBare(node)
  PROVE  node # Free /\ (IsLeaf(node) \/ IsArray(node) \/ IsMap(node))
<1>1. EmptyTable(Words) \in [Words -> Memory \cup {Absent}] /\ <<>> \in Seq(Memory)
  BY DEF EmptyTable
<1> QED BY <1>1, Kinds DEF IsBare, IsLeaf, IsArray, IsMap

LEMMA BareLinksNext ==
  ASSUME NEW p, heap'[p] = Free \/ IsBare(heap'[p]), NEW place, NEW m
  PROVE  ~Links(p, place, m)'
<1>1. CASE heap'[p] = Free \/ IsLeaf(heap'[p])
  BY <1>1, LeafLinksNext
<1>2. CASE heap'[p] = Array(<<>>)
  BY <1>2, Kinds DEF Links, Places
<1>3. CASE heap'[p] = Map(EmptyTable(Words))
  BY <1>3, Kinds DEF Links, Places, KeysOf, EmptyTable
<1> QED BY <1>1, <1>2, <1>3 DEF IsBare

LEMMA Ground ==
  ASSUME Forest, NEW S \in SUBSET Memory, Roots \subseteq S,
         \A p, place, m : Links(p, place, m) /\ p \in S => m \in S
  PROVE  Live \subseteq S
BY DEF Forest, Grounded

LEMMA StillKeeps ==
  ASSUME NodesInv, UNCHANGED <<heap, owned, lost>>
  PROVE  NodesInv'
<1>1. \A p, place, m : Links(p, place, m)' <=> Links(p, place, m)
  BY SameLinks
<1>2. Live' = Live /\ Roots' = Roots /\ HeapOK'
  BY DEF Live, Roots, NodesInv, HeapOK
<1>3. Forest /\ Live \in SUBSET Memory
  BY DEF NodesInv, Live
<1>4. Grounded'
  BY <1>1, <1>2, <1>3, Ground DEF Grounded
<1> QED BY <1>1, <1>2, <1>3, <1>4 DEF NodesInv, Forest

(* createInvalid, createNull, createValue: a new root.                      *)
LEMMA CreateKeeps ==
  ASSUME NodesInv, NEW node, IsLeaf(node), Create(node)
  PROVE  NodesInv'
<1>1. PICK n \in Memory \ Live :
        /\ heap' = [heap EXCEPT ![n] = node] /\ owned' = owned \cup {n}
        /\ UNCHANGED <<lost, running>>
  BY DEF Create
<1>2. Forest /\ HeapOK /\ heap[n] = Free /\ node # Free /\ n \in Memory
  BY Kinds DEF NodesInv, Live, IsLeaf
<1>3. /\ heap' = [m \in Memory |-> heap'[m]] /\ heap'[n] = node
      /\ \A m \in Memory \ {n} : heap'[m] = heap[m]
  BY <1>1, <1>2 DEF HeapOK
<1>4. HeapOK'
  BY <1>2, <1>3 DEF HeapOK, IsLeaf, IsArray, IsMap
<1>5. Live' = Live \cup {n} /\ Roots' = Roots \cup {n}
  BY <1>1, <1>2, <1>3 DEF Live, Roots
<1>6. \A p, place, m : Links(p, place, m)' <=> Links(p, place, m)
  <2>1. \A place, m : ~Links(n, place, m) /\ ~Links(n, place, m)'
    BY <1>2, <1>3, LeafLinks, LeafLinksNext
  <2>2. ASSUME NEW p, p # n, NEW place, NEW m PROVE Links(p, place, m)' <=> Links(p, place, m)
    <3>1. CASE p \in Memory
      BY <1>3, <2>2, <3>1, SameLinks
    <3>2. CASE p \notin Memory
      BY <3>2 DEF Links
    <3> QED BY <3>1, <3>2
  <2> QED BY <2>1, <2>2
<1>7. Grounded'
  BY <1>2, <1>5, <1>6, Ground DEF Grounded
<1>8. Forest'
  BY <1>1, <1>2, <1>5, <1>6, <1>7 DEF Forest
<1> QED BY <1>4, <1>8 DEF NodesInv

(* valueSet, binaryData_setValue: a leaf for a leaf.                        *)
LEMMA SetLeafKeeps ==
  ASSUME NodesInv, NEW n \in Live, IsLeaf(heap[n]), NEW node, IsLeaf(node), Set(n, node),
         UNCHANGED <<owned, lost>>
  PROVE  NodesInv'
<1>2. Forest /\ HeapOK /\ heap[n] # Free /\ node # Free /\ n \in Memory
  BY Kinds DEF NodesInv, Live, IsLeaf
<1>3. /\ heap' = [m \in Memory |-> heap'[m]] /\ heap'[n] = node
      /\ \A m \in Memory \ {n} : heap'[m] = heap[m]
  BY <1>2 DEF HeapOK, Set
<1>4. HeapOK'
  BY <1>2, <1>3 DEF HeapOK, IsLeaf, IsArray, IsMap
<1>5. Live' = Live /\ Roots' = Roots
  BY <1>2, <1>3 DEF Live, Roots
<1>6. \A p, place, m : Links(p, place, m)' <=> Links(p, place, m)
  <2>1. \A place, m : ~Links(n, place, m) /\ ~Links(n, place, m)'
    BY <1>2, <1>3, LeafLinks, LeafLinksNext
  <2>2. ASSUME NEW p, p # n, NEW place, NEW m PROVE Links(p, place, m)' <=> Links(p, place, m)
    <3>1. CASE p \in Memory
      BY <1>3, <2>2, <3>1, SameLinks
    <3>2. CASE p \notin Memory
      BY <3>2 DEF Links
    <3> QED BY <3>1, <3>2
  <2> QED BY <2>1, <2>2
<1>7. Grounded'
  BY <1>2, <1>5, <1>6, Ground DEF Grounded
<1>8. Forest'
  BY <1>2, <1>5, <1>6, <1>7 DEF Forest
<1> QED BY <1>4, <1>8 DEF NodesInv

-----------------------------------------------------------------------------
(* A root is given to a place of a node that is not in its tree: what was   *)
(* there before is a root from now on.                                      *)
LEMMA GiveKeeps ==
  ASSUME NodesInv, NEW n \in Live, NEW element \in owned, Give(n, element),
         NEW node, IsArray(node) \/ IsMap(node), heap' = [heap EXCEPT ![n] = node],
         NEW at,
         \A place, m : Links(n, place, m)' <=>
           IF place = at THEN m = element ELSE Links(n, place, m),
         lost' = lost \cup {m \in Memory : Links(n, at, m)}
  PROVE  NodesInv'
<1>2. Forest /\ HeapOK /\ heap[n] # Free /\ node # Free /\ n \in Memory /\ element \in Live
      /\ Live \in SUBSET Memory
  BY Kinds DEF NodesInv, Forest, Live, IsArray, IsMap
<1>3. /\ heap' = [m \in Memory |-> heap'[m]] /\ heap'[n] = node
      /\ \A m \in Memory \ {n} : heap'[m] = heap[m]
  BY <1>2 DEF HeapOK
<1>4. HeapOK'
  BY <1>2, <1>3 DEF HeapOK, IsLeaf, IsArray, IsMap
<1>5. Live' = Live
  BY <1>2, <1>3 DEF Live
<1>6. \A p, place, m : Links(p, place, m)' <=>
        IF p = n /\ place = at THEN m = element ELSE Links(p, place, m)
  <2>1. ASSUME NEW p, p # n, NEW place, NEW m PROVE Links(p, place, m)' <=> Links(p, place, m)
    <3>1. CASE p \in Memory
      BY <1>3, <2>1, <3>1, SameLinks
    <3>2. CASE p \notin Memory
      BY <3>2 DEF Links
    <3> QED BY <3>1, <3>2
  <2> QED BY <2>1
<1>7. owned' = owned \ {element} /\ n \notin Tree(element)
  BY DEF Give
<1>8. owned' \subseteq Live' /\ lost' \subseteq Live' /\ owned' \cap lost' = {}
  BY <1>2, <1>5, <1>7 DEF Forest, Roots
<1>9. \A p, place, m : Links(p, place, m)' => p \in Live' /\ m \in Live' /\ m \notin Roots'
  <2>1. ASSUME NEW p, NEW place, NEW m, Links(p, place, m)'
        PROVE  p \in Live' /\ m \in Live' /\ m \notin Roots'
    <3>1. CASE p = n /\ place = at
      <4>1. m = element /\ m \notin owned' /\ m \notin lost /\ ~Links(n, at, m)
        BY <1>2, <1>6, <1>7, <2>1, <3>1 DEF Forest, Roots
      <4> QED BY <1>2, <1>5, <3>1, <4>1 DEF Roots
    <3>2. CASE ~(p = n /\ place = at)
      <4>1. Links(p, place, m) /\ m \in Live /\ p \in Live /\ m \notin Roots
        BY <1>2, <1>6, <2>1, <3>2 DEF Forest
      <4>2. ~Links(n, at, m)
        BY <1>2, <3>2, <4>1 DEF Forest
      <4> QED BY <1>5, <1>7, <4>1, <4>2 DEF Roots
    <3> QED BY <3>1, <3>2
  <2> QED BY <2>1
<1>10. \A p, place, q, other, m :
         Links(p, place, m)' /\ Links(q, other, m)' => p = q /\ place = other
  <2>1. \A p, place : ~Links(p, place, element)
    BY <1>2 DEF Forest, Roots
  <2> QED BY <1>2, <1>6, <2>1 DEF Forest
<1>11. ASSUME NEW S \in SUBSET Memory, Roots' \subseteq S,
              \A p, place, m : Links(p, place, m)' /\ p \in S => m \in S
       PROVE  Live \subseteq S
  <2> DEFINE T == S \cup Tree(element)
  <2>1. Tree(element) \in SUBSET Memory /\ element \in Tree(element)
    BY <1>2, TreeClosed
  <2>2. \A m : Links(n, at, m) => m \in S
    BY <1>2, <1>11 DEF Roots, Forest
  <2>3. \A p, place, m : Links(p, place, m) /\ p \in S => m \in S
    BY <1>6, <1>11, <2>2
  <2>4. Roots \subseteq T
    BY <1>7, <1>11, <2>1 DEF Roots
  <2>5. \A p, place, m : Links(p, place, m) /\ p \in T => m \in T
    BY <1>2, <2>3, TreeClosed
  <2>6. T \in SUBSET Memory
    BY <2>1
  <2>7. Live \subseteq T
    <3> HIDE DEF T
    <3> QED BY <1>2, <2>4, <2>5, <2>6, Ground
  <2>8. n \in S
    BY <1>7, <2>7
  <2>9. element \in S
    BY <1>6, <1>11, <2>8
  <2>10. Tree(element) \subseteq S
    BY <2>3, <2>9, TreeLeast
  <2> QED BY <2>7, <2>10
<1>12. Forest'
  BY <1>5, <1>8, <1>9, <1>10, <1>11 DEF Forest, Grounded
<1> QED BY <1>4, <1>12 DEF NodesInv

LEMMA ArrayAddKeeps ==
  ASSUME NodesInv, NEW n \in Live, NEW element \in owned, Give(n, element),
         heap[n].type = "Array", Set(n, Array(Append(heap[n].list, element))), UNCHANGED lost
  PROVE  NodesInv'
<1>1. HeapOK /\ n \in Memory /\ element \in Memory
  BY DEF NodesInv, Forest, Live
<1>2. IsArray(heap[n])
  BY <1>1, Kinds DEF HeapOK, IsLeaf, IsMap
<1>3. PICK list \in Seq(Memory) : heap[n] = Array(list)
  BY <1>2 DEF IsArray
<1> DEFINE more == Append(list, element)
           at == Len(list) + 1
<1>4. heap[n].list = list
  BY <1>3, Kinds
<1>5. /\ more \in Seq(Memory) /\ DOMAIN list = 1..Len(list) /\ DOMAIN more = 1..at /\ Len(list) \in Nat
      /\ more[at] = element /\ \A i \in 1..Len(list) : more[i] = list[i]
  BY <1>1
<1>6. heap' = [heap EXCEPT ![n] = Array(more)] /\ IsArray(Array(more))
  BY <1>4, <1>5 DEF Set, IsArray
<1>7. heap'[n] = Array(more)
  BY <1>1, <1>6 DEF HeapOK
<1> HIDE DEF more
<1>8. \A place, m : Links(n, place, m) <=> place \in DOMAIN list /\ m = list[place]
  BY <1>1, <1>3, ArrayLinks
<1>9. \A place, m : Links(n, place, m)' <=> place \in DOMAIN more /\ m = more[place]
  BY <1>1, <1>7, Kinds DEF Links, Places, PartAt
<1>10. \A place, m : Links(n, place, m)' <=> IF place = at THEN m = element ELSE Links(n, place, m)
  BY <1>5, <1>8, <1>9
<1>11. \A m : ~Links(n, at, m)
  BY <1>5, <1>8
<1>12. lost' = lost \cup {m \in Memory : Links(n, at, m)}
  BY <1>11
<1> HIDE DEF at
<1> QED BY <1>6, <1>10, <1>12, GiveKeeps

LEMMA MapSetKeeps ==
  ASSUME NodesInv, NEW n \in Live, NEW element \in owned, Give(n, element), NEW key \in Words,
         heap[n].type = "Map", Set(n, Map([heap[n].hash EXCEPT ![key] = element])),
         lost' = lost \cup ({heap[n].hash[key]} \ {Absent})
  PROVE  NodesInv'
<1>1. HeapOK /\ n \in Memory /\ element \in Memory
  BY DEF NodesInv, Forest, Live
<1>2. IsMap(heap[n])
  BY <1>1, Kinds DEF HeapOK, IsLeaf, IsArray
<1>3. PICK hash \in [Words -> Memory \cup {Absent}] : heap[n] = Map(hash)
  BY <1>2 DEF IsMap
<1> DEFINE more == [hash EXCEPT ![key] = element]
<1>4. heap[n].hash = hash
  BY <1>3, Kinds
<1>5. /\ more \in [Words -> Memory \cup {Absent}] /\ DOMAIN hash = Words /\ DOMAIN more = Words
      /\ more[key] = element /\ \A word \in Words \ {key} : more[word] = hash[word]
      /\ element # Absent
  BY <1>1, MemoryAssumption
<1>6. heap' = [heap EXCEPT ![n] = Map(more)] /\ IsMap(Map(more))
  BY <1>4, <1>5 DEF Set, IsMap
<1>7. heap'[n] = Map(more)
  BY <1>1, <1>6 DEF HeapOK
<1> HIDE DEF more
<1>8. \A place, m : Links(n, place, m) <=> place \in DOMAIN hash /\ hash[place] # Absent /\ m = hash[place]
  BY <1>1, <1>3, MapLinks
<1>9. \A place, m : Links(n, place, m)' <=> place \in DOMAIN more /\ more[place] # Absent /\ m = more[place]
  BY <1>1, <1>7, Kinds DEF Links, Places, PartAt, KeysOf
<1>10. \A place, m : Links(n, place, m)' <=> IF place = key THEN m = element ELSE Links(n, place, m)
  BY <1>5, <1>8, <1>9
<1>11. \A m : Links(n, key, m) <=> m \in {hash[key]} \ {Absent}
  BY <1>5, <1>8
<1>12. {m \in Memory : Links(n, key, m)} = {hash[key]} \ {Absent}
  BY <1>11
<1>13. lost' = lost \cup {m \in Memory : Links(n, key, m)}
  BY <1>4, <1>12
<1> QED BY <1>6, <1>10, <1>13, GiveKeeps

-----------------------------------------------------------------------------
(* What a node has below it is freed: nobody else had a link to any of it.  *)
FreedAround(n, node) ==
  heap' = [m \in Memory |-> IF m = n THEN node ELSE IF m \in Freed(n) THEN Free ELSE heap[m]]

LEMMA FreedLinks ==
  ASSUME NodesInv, NEW n \in Live, NEW node, node = Free \/ IsBare(node), FreedAround(n, node)
  PROVE  /\ HeapOK'
         /\ Live' = (Live \ Tree(n)) \cup {m \in {n} : node # Free}
         /\ \A p, place, m : Links(p, place, m)' <=> p \notin Tree(n) /\ Links(p, place, m)
<1>1. Forest /\ HeapOK /\ n \in Memory /\ n \in Tree(n) /\ Tree(n) \subseteq Live
  BY TreeAlive, TreeClosed DEF NodesInv, Live
<1>2. /\ heap' = [m \in Memory |-> heap'[m]] /\ heap'[n] = node
      /\ \A m \in Tree(n) \ {n} : heap'[m] = Free
      /\ \A m \in Memory \ Tree(n) : heap'[m] = heap[m]
  BY <1>1 DEF FreedAround, Freed, Live
<1>3. HeapOK'
  <2>1. ASSUME NEW m \in Memory
        PROVE  heap'[m] = Free \/ IsLeaf(heap'[m]) \/ IsArray(heap'[m]) \/ IsMap(heap'[m])
    BY <1>1, <1>2, Bare DEF HeapOK
  <2> QED BY <1>2, <2>1 DEF HeapOK, IsLeaf, IsArray, IsMap
<1>4. Live' = (Live \ Tree(n)) \cup {m \in {n} : node # Free}
  BY <1>1, <1>2 DEF Live
<1>5. \A p, place, m : Links(p, place, m)' <=> p \notin Tree(n) /\ Links(p, place, m)
  <2>1. ASSUME NEW p \in Tree(n), NEW place, NEW m PROVE ~Links(p, place, m)'
    <3>1. heap'[p] = Free \/ IsBare(heap'[p])
      BY <1>2
    <3> QED BY <3>1, BareLinksNext
  <2>2. ASSUME NEW p, p \notin Tree(n), NEW place, NEW m PROVE Links(p, place, m)' <=> Links(p, place, m)
    <3>1. CASE p \in Memory
      BY <1>2, <2>2, <3>1, SameLinks
    <3>2. CASE p \notin Memory
      BY <3>2 DEF Links
    <3> QED BY <3>1, <3>2
  <2> QED BY <2>1, <2>2
<1> QED BY <1>3, <1>4, <1>5

LEMMA DestroyKeeps ==
  ASSUME NodesInv, NEW n \in owned, FreedAround(n, Free), owned' = owned \ {n}, UNCHANGED lost
  PROVE  NodesInv'
<1>1. Forest /\ n \in Live /\ n \in Tree(n) /\ Tree(n) \in SUBSET Memory
  BY TreeAlive, TreeClosed DEF NodesInv, Forest
<1>2. /\ HeapOK' /\ Live' = Live \ Tree(n)
      /\ \A p, place, m : Links(p, place, m)' <=> p \notin Tree(n) /\ Links(p, place, m)
  BY <1>1, FreedLinks
<1>3. Roots' = Roots \ {n} /\ \A root \in Roots \ {n} : root \notin Tree(n)
  BY <1>1, OneRoot DEF Roots, Forest
<1>4. \A p, place, m : Links(p, place, m) /\ m \in Tree(n) => p \in Tree(n)
  BY <1>1, EntersAtRoot DEF Forest, Roots
<1>5. ASSUME NEW S \in SUBSET Memory, Roots' \subseteq S,
             \A p, place, m : Links(p, place, m)' /\ p \in S => m \in S
      PROVE  Live' \subseteq S
  <2> DEFINE T == S \cup Tree(n)
  <2>1. Roots \subseteq T /\ T \in SUBSET Memory
    BY <1>1, <1>3, <1>5
  <2>2. \A p, place, m : Links(p, place, m) /\ p \in T => m \in T
    BY <1>1, <1>2, <1>5, TreeClosed
  <2>3. Live \subseteq T
    <3> HIDE DEF T
    <3> QED BY <1>1, <2>1, <2>2, Ground
  <2> QED BY <1>2, <2>3
<1>6. \A p, place, m : Links(p, place, m)' => p \in Live' /\ m \in Live' /\ m \notin Roots'
  BY <1>1, <1>2, <1>3, <1>4 DEF Forest
<1>7. owned' \subseteq Live' /\ lost' \subseteq Live' /\ owned' \cap lost' = {}
  BY <1>1, <1>2, <1>3 DEF Forest, Roots
<1>8. Forest'
  BY <1>1, <1>2, <1>5, <1>6, <1>7 DEF Forest, Grounded
<1> QED BY <1>2, <1>8 DEF NodesInv

LEMMA ChangeTypeKeeps ==
  ASSUME NodesInv, NEW n \in Live, NEW node, IsBare(node), FreedAround(n, node), UNCHANGED <<owned, lost>>
  PROVE  NodesInv'
<1>1. Forest /\ n \in Tree(n) /\ Tree(n) \in SUBSET Memory /\ node # Free
  BY Bare, TreeAlive, TreeClosed DEF NodesInv
<1>2. /\ HeapOK' /\ Live' = (Live \ Tree(n)) \cup {n}
      /\ \A p, place, m : Links(p, place, m)' <=> p \notin Tree(n) /\ Links(p, place, m)
  BY <1>1, FreedLinks
<1>3. Roots' = Roots /\ \A root \in Roots \ {n} : root \notin Tree(n)
  BY OneRoot, <1>1 DEF Roots
<1>4. \A p, place, m : Links(p, place, m) /\ p \notin Tree(n) /\ m \in Tree(n) => m = n
  BY <1>1, EntersAtRoot
<1>5. ASSUME NEW S \in SUBSET Memory, Roots' \subseteq S,
             \A p, place, m : Links(p, place, m)' /\ p \in S => m \in S
      PROVE  Live' \subseteq S
  <2>1. n \in S
    <3> SUFFICES ASSUME n \notin S PROVE FALSE
      OBVIOUS
    <3> DEFINE T == S \cup (Tree(n) \ {n})
    <3>1. Roots \subseteq T /\ T \in SUBSET Memory
      BY <1>1, <1>3, <1>5
    <3>2. ASSUME NEW p, NEW place, NEW m, Links(p, place, m), p \in T PROVE m \in T
      <4>1. CASE p \in Tree(n)
        BY <1>1, <3>2, <4>1, TreeClosed, NoCycles
      <4>2. CASE p \notin Tree(n)
        BY <1>2, <1>5, <3>2, <4>2
      <4> QED BY <4>1, <4>2
    <3>3. Live \subseteq T
      <4> HIDE DEF T
      <4> QED BY <1>1, <3>1, <3>2, Ground
    <3> QED BY <3>3
  <2> DEFINE T == S \cup Tree(n)
  <2>2. Roots \subseteq T /\ T \in SUBSET Memory
    BY <1>1, <1>3, <1>5
  <2>3. \A p, place, m : Links(p, place, m) /\ p \in T => m \in T
    BY <1>1, <1>2, <1>5, TreeClosed
  <2>4. Live \subseteq T
    <3> HIDE DEF T
    <3> QED BY <1>1, <2>2, <2>3, Ground
  <2> QED BY <1>2, <2>1, <2>4
<1>6. \A p, place, m : Links(p, place, m)' => p \in Live' /\ m \in Live' /\ m \notin Roots'
  BY <1>1, <1>2, <1>3, <1>4 DEF Forest
<1>7. owned' \subseteq Live' /\ lost' \subseteq Live' /\ owned' \cap lost' = {}
  BY <1>1, <1>2, <1>3 DEF Forest, Roots
<1>8. Forest'
  BY <1>1, <1>2, <1>5, <1>6, <1>7 DEF Forest, Grounded
<1> QED BY <1>2, <1>8 DEF NodesInv

-----------------------------------------------------------------------------
(* createCopy: every node of the tree has a node of its own for a copy,     *)
(* whose links are the copies of its links, or none.                        *)
LEMMA CopiedLinks ==
  ASSUME NodesInv, NEW n \in Live, NEW new \in Injection(Tree(n), Memory \ Live), NEW m \in Tree(n),
         new[m] \in Memory, heap'[new[m]] = Copied(heap[m], new)
  PROVE  /\ IsLeaf(heap'[new[m]]) \/ IsArray(heap'[new[m]]) \/ IsMap(heap'[new[m]])
         /\ \A place, k : Links(new[m], place, k)' =>
              \E part \in Tree(n) : Links(m, place, part) /\ k = new[part]
         /\ \A place, part : Links(m, place, part) => Links(new[m], place, new[part])'
<1>1. /\ Forest /\ HeapOK /\ m \in Memory /\ Tree(n) \subseteq Live /\ Live \subseteq Memory
      /\ heap[m] # Free
  BY TreeAlive, TreeClosed DEF NodesInv, Live
<1>2. new \in [Tree(n) -> Memory \ Live]
  BY DEF Injection
<1>3. \A place, part : Links(m, place, part) => part \in Tree(n)
  BY <1>1, TreeClosed
<1>4. CASE IsLeaf(heap[m])
  <2>1. IsLeaf(Copied(heap[m], new))
    BY <1>4, Kinds DEF IsLeaf, Copied
  <2>2. \A place, k : ~Links(new[m], place, k)'
    BY <2>1, LeafLinksNext
  <2> QED BY <1>4, <2>1, <2>2, LeafLinks
<1>5. CASE IsArray(heap[m])
  <2>1. PICK list \in Seq(Memory) : heap[m] = Array(list)
    BY <1>5 DEF IsArray
  <2> DEFINE copy == [i \in DOMAIN list |-> new[list[i]]]
  <2>2. \A i \in DOMAIN list : list[i] \in Tree(n) /\ new[list[i]] \in Memory
    BY <1>1, <1>2, <1>3, <2>1, ArrayLinks
  <2>3. copy \in Seq(Memory) /\ DOMAIN copy = DOMAIN list /\ \A i \in DOMAIN list : copy[i] = new[list[i]]
    BY <2>2
  <2>4. heap'[new[m]] = Array(copy)
    BY <2>1, Kinds DEF Copied
  <2> HIDE DEF copy
  <2>5. \A place, k : Links(new[m], place, k)' <=> place \in DOMAIN copy /\ k = copy[place]
    BY <2>4, Kinds DEF Links, Places, PartAt
  <2>6. \A place, k : Links(m, place, k) <=> place \in DOMAIN list /\ k = list[place]
    BY <1>1, <2>1, ArrayLinks
  <2> QED BY <2>2, <2>3, <2>4, <2>5, <2>6 DEF IsArray
<1>6. CASE IsMap(heap[m])
  <2>1. PICK hash \in [Words -> Memory \cup {Absent}] : heap[m] = Map(hash)
    BY <1>6 DEF IsMap
  <2> DEFINE copy == [key \in Words |-> IF hash[key] = Absent THEN Absent ELSE new[hash[key]]]
  <2>6. \A place, k : Links(m, place, k) <=> place \in DOMAIN hash /\ hash[place] # Absent /\ k = hash[place]
    BY <1>1, <2>1, MapLinks
  <2>2. \A key \in Words : hash[key] = Absent \/ (hash[key] \in Tree(n) /\ new[hash[key]] \in Memory)
    BY <1>1, <1>2, <1>3, <2>1, <2>6
  <2>3. /\ copy \in [Words -> Memory \cup {Absent}] /\ DOMAIN hash = Words /\ DOMAIN copy = Words
        /\ \A key \in Words : (copy[key] = Absent <=> hash[key] = Absent)
                              /\ (hash[key] # Absent => copy[key] = new[hash[key]])
    BY <2>2, MemoryAssumption
  <2>4. heap'[new[m]] = Map(copy)
    BY <2>1, Kinds DEF Copied
  <2> HIDE DEF copy
  <2>5. \A place, k : Links(new[m], place, k)' <=> place \in DOMAIN copy /\ copy[place] # Absent /\ k = copy[place]
    BY <2>4, Kinds DEF Links, Places, PartAt, KeysOf
  <2> QED BY <2>2, <2>3, <2>4, <2>5, <2>6 DEF IsMap
<1> QED BY <1>1, <1>4, <1>5, <1>6 DEF HeapOK

(* The copy is a tree of its own under a new root. *)
LEMMA CopyKeeps ==
  ASSUME NodesInv, NEW n \in Live, createCopy_(n)
  PROVE  NodesInv'
<1>1. /\ Forest /\ HeapOK /\ n \in Memory /\ n \in Tree(n) /\ Tree(n) \subseteq Live
      /\ Live \in SUBSET Memory
  BY TreeAlive, TreeClosed DEF NodesInv, Live
<1>2. CASE UNCHANGED <<heap, owned, lost>>
  BY <1>2, StillKeeps
<1>3. ASSUME NEW new \in Injection(Tree(n), Memory \ Live),
             heap' = [m \in Memory |-> IF m \in Range(new) THEN Copied(heap[Inverse(new, Tree(n), Memory)[m]], new)
                                                           ELSE heap[m]],
             owned' = owned \cup {new[n]}, UNCHANGED <<lost, running>>
      PROVE  NodesInv'
  <2>1. /\ new \in [Tree(n) -> Memory \ Live]
        /\ \A a, b \in Tree(n) : new[a] = new[b] => a = b
        /\ \A m : m \in Range(new) <=> \E a \in Tree(n) : m = new[a]
    BY DEF Injection, IsInjective, Range
  <2>2. ASSUME NEW m \in Tree(n)
        PROVE  /\ Inverse(new, Tree(n), Memory)[new[m]] = m
               /\ new[m] \in Memory /\ new[m] \notin Live /\ new[m] \in Range(new)
    BY <2>1 DEF Inverse
  <2>3. /\ heap' = [m \in Memory |-> heap'[m]]
        /\ \A m \in Tree(n) : heap'[new[m]] = Copied(heap[m], new)
        /\ \A m \in Memory \ Range(new) : heap'[m] = heap[m]
    BY <1>3, <2>2
  <2>4. ASSUME NEW m \in Tree(n)
        PROVE  /\ IsLeaf(heap'[new[m]]) \/ IsArray(heap'[new[m]]) \/ IsMap(heap'[new[m]])
               /\ \A place, k : Links(new[m], place, k)' =>
                    \E part \in Tree(n) : Links(m, place, part) /\ k = new[part]
               /\ \A place, part : Links(m, place, part) => Links(new[m], place, new[part])'
    BY <2>2, <2>3, CopiedLinks
  <2>5. HeapOK'
    <3>1. \A m \in Memory :
            heap'[m] = Free \/ IsLeaf(heap'[m]) \/ IsArray(heap'[m]) \/ IsMap(heap'[m])
      BY <1>1, <2>1, <2>3, <2>4 DEF HeapOK
    <3> QED BY <2>3, <3>1 DEF HeapOK, IsLeaf, IsArray, IsMap
  <2>6. Live' = Live \cup Range(new) /\ Live \cap Range(new) = {} /\ Range(new) \subseteq Memory
    <3>1. \A m \in Tree(n) : heap'[new[m]] # Free
      BY <2>4, Kinds DEF IsLeaf, IsArray, IsMap
    <3> QED BY <2>1, <2>2, <2>3, <3>1 DEF Live
  <2>7. Roots' = Roots \cup {new[n]}
    BY <1>3 DEF Roots
  <2>8. \A p, place, m : p \notin Range(new) => (Links(p, place, m)' <=> Links(p, place, m))
    <3>1. ASSUME NEW p, p \notin Range(new), NEW place, NEW m
          PROVE  Links(p, place, m)' <=> Links(p, place, m)
      <4>1. CASE p \in Memory
        BY <2>3, <3>1, <4>1, SameLinks
      <4>2. CASE p \notin Memory
        BY <4>2 DEF Links
      <4> QED BY <4>1, <4>2
    <3> QED BY <3>1
  <2>9. \A p, place, m : Links(p, place, m) => p \in Live /\ m \in Live /\ m \notin Roots
    BY <1>1 DEF Forest
  <2>10. \A m, place : ~Links(m, place, n) \/ m \notin Tree(n)
    BY <1>1, NoCycles
  <2>11. ASSUME NEW p, NEW place, NEW m, Links(p, place, m)'
         PROVE  p \in Live' /\ m \in Live' /\ m \notin Roots'
    <3>1. CASE p \in Range(new)
      <4>1. PICK a \in Tree(n) : p = new[a]
        BY <2>1, <3>1
      <4>2. PICK part \in Tree(n) : Links(a, place, part) /\ m = new[part]
        BY <2>4, <2>11, <4>1
      <4>3. part # n /\ m \in Range(new) /\ m # new[n] /\ m \notin Live
        BY <1>1, <2>1, <2>2, <2>10, <4>2
      <4> QED BY <1>1, <2>6, <2>7, <3>1, <4>3 DEF Forest, Roots
    <3>2. CASE p \notin Range(new)
      BY <1>1, <2>2, <2>6, <2>7, <2>8, <2>9, <2>11, <3>2
    <3> QED BY <3>1, <3>2
  <2>12. ASSUME NEW p, NEW place, NEW q, NEW other, NEW m, Links(p, place, m)', Links(q, other, m)'
         PROVE  p = q /\ place = other
    <3>1. CASE m \in Live
      <4>1. \A a, at : Links(a, at, m)' => a \notin Range(new)
        BY <2>1, <2>2, <2>4, <3>1
      <4> QED BY <1>1, <2>8, <2>12, <4>1 DEF Forest
    <3>2. CASE m \notin Live
      <4>1. p \in Range(new) /\ q \in Range(new)
        BY <2>8, <2>9, <2>12, <3>2
      <4>2. PICK a \in Tree(n), b \in Tree(n) : p = new[a] /\ q = new[b]
        BY <2>1, <4>1
      <4>3. PICK part \in Tree(n) : Links(a, place, part) /\ m = new[part]
        BY <2>4, <2>12, <4>2
      <4>4. PICK piece \in Tree(n) : Links(b, other, piece) /\ m = new[piece]
        BY <2>4, <2>12, <4>2
      <4>5. part = piece
        BY <2>1, <4>3, <4>4
      <4> QED BY <1>1, <4>2, <4>3, <4>4, <4>5 DEF Forest
    <3> QED BY <3>1, <3>2
  <2>13. ASSUME NEW S \in SUBSET Memory, Roots' \subseteq S,
                \A p, place, m : Links(p, place, m)' /\ p \in S => m \in S
         PROVE  Live' \subseteq S
    <3> DEFINE old == S \ Range(new)
               made == {m \in Tree(n) : new[m] \in S}
    <3>1. Live \subseteq old
      <4>1. Roots \subseteq old /\ old \in SUBSET Memory
        BY <1>1, <2>6, <2>7, <2>13 DEF Forest, Roots
      <4>2. \A p, place, m : Links(p, place, m) /\ p \in old => m \in old
        BY <2>6, <2>8, <2>9, <2>13
      <4> HIDE DEF old
      <4> QED BY <1>1, <4>1, <4>2, Ground
    <3>2. Tree(n) \subseteq made
      <4>1. n \in made /\ made \in SUBSET Memory
        BY <1>1, <2>7, <2>13
      <4>2. \A p, place, m : Links(p, place, m) /\ p \in made => m \in made
        BY <1>1, <2>4, <2>13, TreeClosed
      <4> HIDE DEF made
      <4> QED BY <4>1, <4>2, TreeLeast
    <3> QED BY <2>1, <2>6, <3>1, <3>2
  <2>14. owned' \subseteq Live' /\ lost' \subseteq Live' /\ owned' \cap lost' = {}
    BY <1>1, <1>3, <2>2, <2>6 DEF Forest
  <2>15. Forest'
    BY <2>11, <2>12, <2>13, <2>14 DEF Forest, Grounded
  <2> QED BY <2>5, <2>15 DEF NodesInv
<1> QED BY <1>2, <1>3 DEF createCopy_

-----------------------------------------------------------------------------
LEMMA NodesStart == NodesInit => NodesInv
<1> SUFFICES ASSUME NodesInit PROVE NodesInv
  OBVIOUS
<1>1. heap = [n \in Memory |-> Free] /\ owned = {} /\ lost = {}
  BY DEF NodesInit
<1>2. Live = {} /\ HeapOK /\ Roots = {}
  BY <1>1 DEF Live, HeapOK, Roots
<1>3. \A p, place, m : ~Links(p, place, m)
  BY <1>1, LeafLinks DEF Links
<1> QED BY <1>1, <1>2, <1>3 DEF NodesInv, Forest, Grounded


LEMMA NodesStep == NodesInv /\ [NodesNext]_nodesVars => NodesInv'
<1> SUFFICES ASSUME NodesInv, [NodesNext]_nodesVars PROVE NodesInv'
  OBVIOUS
<1>0. \A n \in Reachable : n \in Live /\ n \in Memory
  BY ReachableAlive DEF NodesInv
<1>1. CASE createInvalid
  BY <1>1, CreateKeeps DEF createInvalid, IsLeaf
<1>2. CASE createNull
  BY <1>2, CreateKeeps DEF createNull, IsLeaf
<1>3. CASE createValue
  <2>1. PICK text \in Texts : Create(Value(text))
    BY <1>3 DEF createValue
  <2>2. IsLeaf(Value(text))
    BY DEF IsLeaf, Texts
  <2> QED BY <2>1, <2>2, CreateKeeps
<1>4. CASE Copy
  BY <1>0, <1>4, CopyKeeps DEF Copy
<1>5. CASE changeType
  <2>1. PICK n \in Reachable, type \in Types : FreedAround(n, Empty(type))
    BY <1>5 DEF changeType, FreedAround
  <2>2. UNCHANGED <<owned, lost>>
    BY <1>5 DEF changeType
  <2>3. n \in Live
    BY <1>0
  <2>4. IsBare(Empty(type))
    BY UnsetAssumption DEF Types, Empty, IsBare, IsLeaf, Invalid, Null
  <2> QED BY <2>1, <2>2, <2>3, <2>4, ChangeTypeKeeps
<1>6. CASE destroy
  <2>1. PICK n \in owned : /\ heap' = [m \in Memory |-> IF m = n \/ m \in Freed(n) THEN Free ELSE heap[m]]
                           /\ owned' = owned \ {n} /\ UNCHANGED lost
    BY <1>6 DEF destroy
  <2>2. FreedAround(n, Free)
    BY <2>1 DEF FreedAround
  <2> QED BY <2>1, <2>2, DestroyKeeps
<1>7. CASE valueSet
  <2>1. PICK n \in Reachable, text \in Texts : heap[n].type = "Value" /\ Set(n, Value(text))
    BY <1>7 DEF valueSet
  <2>2. IsLeaf(heap[n]) /\ IsLeaf(Value(text)) /\ UNCHANGED <<owned, lost>>
    BY <1>0, <1>7, <2>1, Kinds DEF NodesInv, HeapOK, IsArray, IsMap, valueSet, IsLeaf, Texts
  <2> QED BY <1>0, <2>1, <2>2, SetLeafKeeps
<1>8. CASE binaryData_setValue
  <2>1. PICK n \in Reachable, blob \in Blobs : heap[n].type = "BinaryData" /\ Set(n, BinaryData(blob))
    BY <1>8 DEF binaryData_setValue
  <2>2. IsLeaf(heap[n]) /\ IsLeaf(BinaryData(blob)) /\ UNCHANGED <<owned, lost>>
    BY <1>0, <1>8, <2>1, Kinds DEF NodesInv, HeapOK, IsArray, IsMap, binaryData_setValue, IsLeaf
  <2> QED BY <1>0, <2>1, <2>2, SetLeafKeeps
<1>9. CASE arrayAddElementToEnd
  BY <1>0, <1>9, ArrayAddKeeps DEF arrayAddElementToEnd
<1>10. CASE mapSetValueForKey
  BY <1>0, <1>10, MapSetKeeps DEF mapSetValueForKey, Texts
<1>11. CASE Stopped \/ UNCHANGED nodesVars
  BY <1>11, StillKeeps DEF Stopped, nodesVars
<1> QED BY <1>1, <1>2, <1>3, <1>4, <1>5, <1>6, <1>7, <1>8, <1>9, <1>10, <1>11 DEF NodesNext

(* Every node the calls made is held exactly once, what is held is alive,   *)
(* and all that is alive hangs under what the caller owns or a map has lost *)
(* (wexpr_Expression_destroy, changeType, createCopy, arrayAddElementToEnd, *)
(* mapSetValueForKey).                                                      *)
THEOREM NodesHeldOnce == NodesSpec => []HeldOnce
<1>1. NodesInit => NodesInv
  BY NodesStart
<1>2. NodesInv /\ [NodesNext]_nodesVars => NodesInv'
  BY NodesStep
<1>3. NodesInv => HeldOnce
  BY ForestHolds
<1> QED BY <1>1, <1>2, <1>3, PTL DEF NodesSpec

-----------------------------------------------------------------------------
(* Ways down from a node, in any graph: triples of a node, a step from it   *)
(* and the node this leads to.                                              *)
Steps == Nat \cup Words
Edges == Memory \X Steps \X Memory

(* Induction on ways, by the length of the shortest that would fail.        *)
LEMMA LeastLength ==
  ASSUME NEW S \in SUBSET Nat, S # {}
  PROVE  \E n \in S : \A m \in S : n <= m
<1> DEFINE R == OpToRel(<, Nat)
<1>1. IsWellFoundedOn(R, Nat)
  BY NatLessThanWellFounded
<1> HIDE DEF R
<1>2. PICK n \in S : \A m \in S : ~(<<m, n>> \in R)
  BY <1>1, WFMin
<1>3. \A m, k \in Nat : m < k => <<m, k>> \in R
  BY DEF OpToRel, R
<1>4. ASSUME NEW m \in S PROVE n <= m
  <2>1. n \in Nat /\ m \in Nat /\ ~(m < n)
    BY <1>2, <1>3
  <2> QED BY <2>1
<1> QED BY <1>4

LEMMA Fronts ==
  ASSUME NEW way \in Seq(Steps), way # <<>>
  PROVE  \E front \in Seq(Steps) : \E last \in Steps : way = Append(front, last)
<1> DEFINE front == SubSeq(way, 1, Len(way) - 1)
<1>1. front \in Seq(Steps) /\ way = Append(front, way[Len(way)]) /\ way[Len(way)] \in Steps
  OBVIOUS
<1> QED BY <1>1

LEMMA Appended ==
  ASSUME NEW way \in Seq(Steps), NEW step \in Steps
  PROVE  /\ Append(way, step) \in Seq(Steps) /\ Append(way, step) # <<>>
         /\ Len(Append(way, step)) = Len(way) + 1 /\ Len(way) \in Nat
         /\ Append(way, step)[Len(way) + 1] = step
         /\ \A i \in 1 .. Len(way) : Append(way, step)[i] = way[i]
         /\ \A other \in Seq(Steps) : \A last : Append(way, step) = Append(other, last) => way = other /\ step = last
<1>1. /\ Append(way, step) \in Seq(Steps) /\ Append(way, step) # <<>>
      /\ Len(Append(way, step)) = Len(way) + 1 /\ Len(way) \in Nat
      /\ Append(way, step)[Len(way) + 1] = step
      /\ \A i \in 1 .. Len(way) : Append(way, step)[i] = way[i]
  OBVIOUS
<1>2. ASSUME NEW other \in Seq(Steps), NEW last, Append(way, step) = Append(other, last)
      PROVE  way = other /\ step = last
  <2>1. Len(other) = Len(way)
    BY <1>2
  <2>2. last = step
    BY <1>2, <2>1
  <2>3. \A i \in 1 .. Len(way) : way[i] = other[i]
    BY <1>2, <2>1
  <2> QED BY <2>1, <2>2, <2>3
<1> QED BY <1>1, <1>2

LEMMA WaysInduction ==
  ASSUME NEW S, <<>> \in S,
         \A way \in Seq(Steps) : \A step \in Steps : way \in S => Append(way, step) \in S
  PROVE  \A way \in Seq(Steps) : way \in S
<1> SUFFICES ASSUME NEW bad \in Seq(Steps), bad \notin S PROVE FALSE
  OBVIOUS
<1> DEFINE B == {Len(way) : way \in Seq(Steps) \ S}
<1>1. B \in SUBSET Nat /\ B # {}
  <2>1. \A way \in Seq(Steps) : Len(way) \in Nat
    OBVIOUS
  <2>2. Len(bad) \in B
    OBVIOUS
  <2> QED BY <2>1, <2>2
<1>2. PICK n \in B : \A m \in B : n <= m
  BY <1>1, LeastLength
<1>3. PICK way \in Seq(Steps) : way \notin S /\ n = Len(way)
  OBVIOUS
<1>4. PICK front \in Seq(Steps) : \E last \in Steps : way = Append(front, last)
  BY <1>3, Fronts
<1>5. front \notin S /\ Len(way) = Len(front) + 1 /\ Len(front) \in Nat
  BY <1>3, <1>4, Appended
<1>6. Len(front) \in B
  BY <1>5
<1> QED BY <1>2, <1>3, <1>5, <1>6

LEMMA Concatenated ==
  ASSUME NEW way \in Seq(Steps), NEW on \in Seq(Steps)
  PROVE  /\ way \o on \in Seq(Steps) /\ way \o <<>> = way /\ <<>> \o way = way
         /\ Len(way \o on) = Len(way) + Len(on)
         /\ \A i \in 1 .. Len(way) : (way \o on)[i] = way[i]
         /\ \A i \in 1 .. Len(on) : (way \o on)[Len(way) + i] = on[i]
         /\ \A step \in Steps : /\ way \o Append(on, step) = Append(way \o on, step)
                                 /\ way \o <<step>> = Append(way, step) /\ <<step>> \in Seq(Steps)
OBVIOUS

-----------------------------------------------------------------------------
(* A way leads from a node to another by the nodes on it.                   *)
Leads(G, n, way, m, w) ==
  /\ w \in [0 .. Len(way) -> Memory] /\ w[0] = n /\ w[Len(way)] = m
  /\ \A i \in 1 .. Len(way) : <<w[i - 1], way[i], w[i]>> \in G
To(G, n, way, m) == \E w : Leads(G, n, way, m, w)

LEMMA ToItself ==
  ASSUME NEW G, NEW n, NEW m
  PROVE  To(G, n, <<>>, m) <=> n \in Memory /\ m = n
<1>1. ASSUME To(G, n, <<>>, m) PROVE n \in Memory /\ m = n
  BY <1>1 DEF To, Leads
<1>2. ASSUME n \in Memory, m = n PROVE To(G, n, <<>>, m)
  <2>1. Leads(G, n, <<>>, m, [i \in 0 .. 0 |-> n])
    BY <1>2 DEF Leads
  <2> QED BY <2>1 DEF To
<1> QED BY <1>1, <1>2

LEMMA ToNext ==
  ASSUME NEW G \in SUBSET Edges, NEW n, NEW way \in Seq(Steps), NEW step \in Steps, NEW m
  PROVE  To(G, n, Append(way, step), m) <=> \E k : To(G, n, way, k) /\ <<k, step, m>> \in G
<1> DEFINE L == Len(way)
           more == Append(way, step)
<1>0. /\ L \in Nat /\ Len(more) = L + 1 /\ more[L + 1] = step /\ \A i \in 1 .. L : more[i] = way[i]
  BY Appended
<1> HIDE DEF L, more
<1>1. ASSUME NEW w, Leads(G, n, more, m, w)
      PROVE  \E k : To(G, n, way, k) /\ <<k, step, m>> \in G
  <2> DEFINE v == [i \in 0 .. L |-> w[i]]
  <2>1. /\ w \in [0 .. L + 1 -> Memory] /\ w[0] = n /\ w[L + 1] = m
        /\ \A i \in 1 .. L + 1 : <<w[i - 1], more[i], w[i]>> \in G
    BY <1>0, <1>1 DEF Leads
  <2>2. v \in [0 .. L -> Memory] /\ v[0] = n /\ v[L] = w[L]
    BY <1>0, <2>1
  <2>3. \A i \in 1 .. L : <<v[i - 1], way[i], v[i]>> \in G
    <3> SUFFICES ASSUME NEW i \in 1 .. L PROVE <<v[i - 1], way[i], v[i]>> \in G
      OBVIOUS
    <3>1. i \in 1 .. L + 1 /\ v[i - 1] = w[i - 1] /\ v[i] = w[i] /\ more[i] = way[i]
      BY <1>0
    <3> QED BY <2>1, <3>1
  <2>4. To(G, n, way, w[L])
    <3> HIDE DEF v
    <3> QED BY <2>2, <2>3 DEF To, Leads, L
  <2>5. <<w[L], step, m>> \in G
    <3>1. L + 1 \in 1 .. L + 1 /\ (L + 1) - 1 = L
      BY <1>0
    <3> QED BY <1>0, <2>1, <3>1
  <2> QED BY <2>4, <2>5
<1>2. ASSUME NEW k, NEW v, Leads(G, n, way, k, v), <<k, step, m>> \in G
      PROVE  To(G, n, more, m)
  <2> DEFINE w == [i \in 0 .. L + 1 |-> IF i = L + 1 THEN m ELSE v[i]]
  <2>1. m \in Memory
    BY <1>2 DEF Edges
  <2>2. v \in [0 .. L -> Memory] /\ v[0] = n /\ v[L] = k /\ \A i \in 1 .. L : <<v[i - 1], way[i], v[i]>> \in G
    BY <1>2 DEF Leads, L
  <2>3. w \in [0 .. L + 1 -> Memory] /\ w[0] = n /\ w[L + 1] = m /\ w[L] = k
    BY <1>0, <2>1, <2>2
  <2>4. ASSUME NEW i \in 1 .. L + 1 PROVE <<w[i - 1], more[i], w[i]>> \in G
    <3>1. CASE i = L + 1
      <4>1. i - 1 = L
        BY <1>0, <3>1
      <4>2. w[i - 1] = k /\ w[i] = m /\ more[i] = step
        BY <1>0, <2>3, <3>1, <4>1
      <4> QED BY <1>2, <4>2
    <3>2. CASE i # L + 1
      <4>1. i \in 1 .. L /\ i - 1 \in 0 .. L /\ i - 1 # L + 1
        BY <1>0, <3>2
      <4>2. w[i - 1] = v[i - 1] /\ w[i] = v[i] /\ more[i] = way[i]
        BY <1>0, <4>1
      <4> QED BY <2>2, <4>1, <4>2
    <3> QED BY <3>1, <3>2
  <2>5. Leads(G, n, more, m, w)
    <3> HIDE DEF w
    <3> QED BY <1>0, <2>3, <2>4 DEF Leads
  <2> QED BY <2>5 DEF To
<1> QED BY <1>1, <1>2 DEF To, more

LEMMA ToMemory ==
  ASSUME NEW G \in SUBSET Edges, NEW n, NEW way \in Seq(Steps), NEW m, To(G, n, way, m)
  PROVE  n \in Memory /\ m \in Memory
<1>1. PICK w : Leads(G, n, way, m, w)
  BY DEF To
<1>2. 0 \in 0 .. Len(way) /\ Len(way) \in 0 .. Len(way)
  <2>1. Len(way) \in Nat
    OBVIOUS
  <2> QED BY <2>1
<1> QED BY <1>1, <1>2 DEF Leads

LEMMA ToOnward ==
  ASSUME NEW G \in SUBSET Edges, NEW n, NEW way \in Seq(Steps), NEW on \in Seq(Steps), NEW m
  PROVE  To(G, n, way \o on, m) <=> \E k : To(G, n, way, k) /\ To(G, k, on, m)
<1> DEFINE S == {rest \in Seq(Steps) : \A x : To(G, n, way \o rest, x) <=> \E k : To(G, n, way, k) /\ To(G, k, rest, x)}
<1>1. <<>> \in S
  <2>1. way \o <<>> = way /\ <<>> \in Seq(Steps)
    BY Concatenated
  <2> QED BY <2>1, ToItself, ToMemory
<1>2. ASSUME NEW rest \in Seq(Steps), NEW step \in Steps, rest \in S PROVE Append(rest, step) \in S
  <2>1. /\ way \o Append(rest, step) = Append(way \o rest, step) /\ Append(rest, step) \in Seq(Steps)
        /\ way \o rest \in Seq(Steps)
    BY Concatenated, Appended
  <2>2. ASSUME NEW x
        PROVE  To(G, n, way \o Append(rest, step), x)
                 <=> \E k : To(G, n, way, k) /\ To(G, k, Append(rest, step), x)
    <3>1. To(G, n, way \o Append(rest, step), x) <=> \E j : To(G, n, way \o rest, j) /\ <<j, step, x>> \in G
      BY <2>1, ToNext
    <3>2. \A j : To(G, n, way \o rest, j) <=> \E k : To(G, n, way, k) /\ To(G, k, rest, j)
      BY <1>2
    <3>3. \A k : To(G, k, Append(rest, step), x) <=> \E j : To(G, k, rest, j) /\ <<j, step, x>> \in G
      BY ToNext
    <3> QED BY <3>1, <3>2, <3>3
  <2> QED BY <2>1, <2>2
<1> HIDE DEF S
<1>3. on \in S
  BY <1>1, <1>2, WaysInduction
<1> QED BY <1>3 DEF S

LEMMA ToStep ==
  ASSUME NEW G \in SUBSET Edges, NEW n, NEW step \in Steps, NEW m
  PROVE  To(G, n, <<step>>, m) <=> <<n, step, m>> \in G
<1>1. <<>> \in Seq(Steps) /\ Append(<<>>, step) = <<step>>
  OBVIOUS
<1>2. To(G, n, <<step>>, m) <=> \E k : To(G, n, <<>>, k) /\ <<k, step, m>> \in G
  BY <1>1, ToNext
<1>3. <<n, step, m>> \in G => n \in Memory
  BY DEF Edges
<1>4. \A k : To(G, n, <<>>, k) <=> n \in Memory /\ k = n
  BY ToItself
<1> QED BY <1>2, <1>3, <1>4

(* A graph in which a step leads to one node and a node is led to once.     *)
Determined(G) == \A p, step, m, k : <<p, step, m>> \in G /\ <<p, step, k>> \in G => m = k
Single(G) ==
  \A p, step, q, other, m : <<p, step, m>> \in G /\ <<q, other, m>> \in G => p = q /\ step = other
IsTop(G, n) == \A p, step : <<p, step, n>> \notin G

(* There a way leads to one node, and from a top one way leads to a node.   *)
LEMMA ToOne ==
  ASSUME NEW G \in SUBSET Edges, Determined(G), NEW n, NEW way \in Seq(Steps), NEW m, NEW k,
         To(G, n, way, m), To(G, n, way, k)
  PROVE  m = k
<1> DEFINE S == {some \in Seq(Steps) : \A x, y : To(G, n, some, x) /\ To(G, n, some, y) => x = y}
<1>1. <<>> \in S
  BY ToItself
<1>2. ASSUME NEW some \in Seq(Steps), NEW step \in Steps, some \in S PROVE Append(some, step) \in S
  <2>1. Append(some, step) \in Seq(Steps)
    BY Appended
  <2>2. \A x : To(G, n, Append(some, step), x) <=> \E j : To(G, n, some, j) /\ <<j, step, x>> \in G
    BY ToNext
  <2> QED BY <1>2, <2>1, <2>2 DEF Determined
<1> HIDE DEF S
<1>3. way \in S
  BY <1>1, <1>2, WaysInduction
<1> QED BY <1>3 DEF S

LEMMA OneWay ==
  ASSUME NEW G \in SUBSET Edges, Single(G), NEW n, IsTop(G, n), NEW way \in Seq(Steps),
         NEW other \in Seq(Steps), NEW m, To(G, n, way, m), To(G, n, other, m)
  PROVE  way = other
<1> DEFINE S == {some \in Seq(Steps) : \A any \in Seq(Steps) : \A x :
                   To(G, n, some, x) /\ To(G, n, any, x) => some = any}
<1>0. ASSUME NEW any \in Seq(Steps), To(G, n, any, n) PROVE any = <<>>
  <2> SUFFICES ASSUME any # <<>> PROVE FALSE
    OBVIOUS
  <2>1. PICK front \in Seq(Steps) : \E last \in Steps : any = Append(front, last)
    BY Fronts
  <2>2. PICK last \in Steps : any = Append(front, last)
    BY <2>1
  <2> QED BY <1>0, <2>2, ToNext DEF IsTop
<1>1. <<>> \in S
  BY <1>0, ToItself
<1>2. ASSUME NEW some \in Seq(Steps), NEW step \in Steps, some \in S PROVE Append(some, step) \in S
  <2>1. Append(some, step) \in Seq(Steps)
    BY Appended
  <2>2. ASSUME NEW any \in Seq(Steps), NEW x, To(G, n, Append(some, step), x), To(G, n, any, x)
        PROVE  Append(some, step) = any
    <3>1. PICK k : To(G, n, some, k) /\ <<k, step, x>> \in G
      BY <2>2, ToNext
    <3>2. any # <<>>
      BY <2>2, <3>1, ToItself DEF IsTop
    <3>3. PICK front \in Seq(Steps) : \E last \in Steps : any = Append(front, last)
      BY <3>2, Fronts
    <3>4. PICK last \in Steps : any = Append(front, last)
      BY <3>3
    <3>5. PICK j : To(G, n, front, j) /\ <<j, last, x>> \in G
      BY <2>2, <3>4, ToNext
    <3>6. j = k /\ last = step
      BY <3>1, <3>5 DEF Single
    <3>7. some = front
      BY <1>2, <3>1, <3>5, <3>6
    <3> QED BY <3>4, <3>6, <3>7
  <2> QED BY <2>1, <2>2
<1> HIDE DEF S
<1>3. way \in S
  BY <1>1, <1>2, WaysInduction
<1> QED BY <1>3 DEF S

-----------------------------------------------------------------------------
Within(place, other) == Abstract!Within(place, other)
Onward(place, other) == Abstract!Onward(place, other)

LEMMA SameSequence ==
  ASSUME NEW one \in Seq(Steps), NEW other \in Seq(Steps), Len(one) = Len(other),
         \A i \in 1 .. Len(other) : one[i] = other[i]
  PROVE  one = other
OBVIOUS

(* A place is within another when it goes on from there.                    *)
LEMMA GoesOn ==
  ASSUME NEW way \in Seq(Steps), NEW place \in Seq(Steps), Within(way, place)
  PROVE  Onward(way, place) \in Seq(Steps) /\ way = place \o Onward(way, place)
<1> DEFINE on == Onward(way, place)
<1>1. /\ Len(way) \in Nat /\ Len(place) \in Nat /\ Len(place) <= Len(way)
      /\ \A i \in 1 .. Len(place) : way[i] = place[i]
  BY DEF Within, Abstract!Within
<1>2. on = [i \in 1 .. Len(way) - Len(place) |-> way[Len(place) + i]]
  BY DEF Onward, Abstract!Onward
<1>3. \A i \in 1 .. Len(way) - Len(place) : way[Len(place) + i] \in Steps
  BY <1>1
<1> HIDE DEF on
<1>4. on \in Seq(Steps) /\ Len(on) = Len(way) - Len(place)
  BY <1>1, <1>2, <1>3
<1>5. ASSUME NEW i \in 1 .. Len(way) PROVE (place \o on)[i] = way[i]
  <2>1. CASE i <= Len(place)
    BY <1>1, <1>4, <2>1
  <2>2. CASE i > Len(place)
    <3>1. i - Len(place) \in 1 .. Len(on) /\ i = Len(place) + (i - Len(place))
      BY <1>1, <1>4, <2>2
    <3> QED BY <1>1, <1>2, <1>4, <3>1
  <2>3. i \in Nat /\ (i <= Len(place) \/ i > Len(place))
    BY <1>1
  <2> QED BY <2>1, <2>2, <2>3
<1>6. place \o on \in Seq(Steps) /\ Len(place \o on) = Len(way)
  BY <1>1, <1>4
<1>7. place \o on = way
  BY <1>5, <1>6, SameSequence
<1> QED BY <1>4, <1>7 DEF on

LEMMA GoneOn ==
  ASSUME NEW on \in Seq(Steps), NEW place \in Seq(Steps)
  PROVE  Within(place \o on, place) /\ Onward(place \o on, place) = on
<1> DEFINE way == place \o on
<1>1. /\ way \in Seq(Steps) /\ Len(way) = Len(place) + Len(on) /\ Len(place) \in Nat /\ Len(on) \in Nat
      /\ \A i \in 1 .. Len(place) : way[i] = place[i]
      /\ \A i \in 1 .. Len(on) : way[Len(place) + i] = on[i]
  BY Concatenated
<1> HIDE DEF way
<1>2. Within(way, place)
  BY <1>1 DEF Within, Abstract!Within
<1>3. Onward(way, place) = [i \in 1 .. Len(on) |-> on[i]]
  BY <1>1 DEF Onward, Abstract!Onward
<1>4. on = [i \in 1 .. Len(on) |-> on[i]]
  OBVIOUS
<1> QED BY <1>2, <1>3, <1>4 DEF way

LEMMA WithinNext ==
  ASSUME NEW way \in Seq(Steps), NEW step \in Steps, NEW place \in Seq(Steps)
  PROVE  /\ Within(Append(way, step), place) <=> Within(way, place) \/ Append(way, step) = place
         /\ ~Within(way, Append(way, step))
         /\ Within(<<>>, place) <=> place = <<>>
         /\ Within(place, place)
<1> DEFINE more == Append(way, step)
           L == Len(way)
           K == Len(place)
<1>1. /\ L \in Nat /\ K \in Nat /\ more \in Seq(Steps) /\ Len(more) = L + 1
      /\ \A i \in 1 .. L : more[i] = way[i]
  BY Appended
<1> HIDE DEF more
<1>2. Within(more, place) <=> K <= L + 1 /\ \A i \in 1 .. K : more[i] = place[i]
  BY <1>1 DEF Within, Abstract!Within
<1>3. Within(way, place) <=> K <= L /\ \A i \in 1 .. K : way[i] = place[i]
  BY DEF Within, Abstract!Within
<1> HIDE DEF L, K
<1>4. ASSUME Within(more, place) PROVE Within(way, place) \/ more = place
  <2>1. CASE K <= L
    <3>1. \A i \in 1 .. K : i \in 1 .. L
      BY <1>1, <2>1
    <3> QED BY <1>1, <1>2, <1>3, <1>4, <2>1, <3>1
  <2>2. CASE K = L + 1
    BY <1>1, <1>2, <1>4, <2>2 DEF K
  <2> QED BY <1>1, <1>2, <1>4, <2>1, <2>2
<1>5. ASSUME Within(way, place) \/ more = place PROVE Within(more, place)
  <2>1. CASE Within(way, place)
    <3>1. K <= L /\ \A i \in 1 .. K : i \in 1 .. L
      BY <1>1, <1>3, <2>1
    <3> QED BY <1>1, <1>2, <1>3, <2>1, <3>1
  <2>2. CASE more = place
    BY <1>1, <1>2, <2>2 DEF K
  <2> QED BY <1>5, <2>1, <2>2
<1>6. ~Within(way, more)
  BY <1>1 DEF Within, Abstract!Within, L
<1>7. Within(place, place)
  BY <1>1 DEF Within, Abstract!Within, K
<1>8. Within(<<>>, place) <=> place = <<>>
  <2>1. Within(<<>>, place) => K <= 0
    BY DEF Within, Abstract!Within, K
  <2>2. K = 0 => place = <<>>
    BY DEF K
  <2>3. Within(<<>>, <<>>)
    BY DEF Within, Abstract!Within
  <2> QED BY <1>1, <2>1, <2>2, <2>3
<1> QED BY <1>4, <1>5, <1>6, <1>7, <1>8 DEF more

-----------------------------------------------------------------------------
(* What is at the end of each way down from a node.                         *)
Ways(G, n) == {way \in Seq(Steps) : \E m : To(G, n, way, m)}
End(G, n, way) == CHOOSE m : To(G, n, way, m)
Table(G, shapes, n) == [way \in Ways(G, n) |-> shapes[End(G, n, way)]]

LEMMA EndIs ==
  ASSUME NEW G \in SUBSET Edges, Determined(G), NEW n, NEW way \in Seq(Steps), NEW m,
         To(G, n, way, m)
  PROVE  way \in Ways(G, n) /\ End(G, n, way) = m /\ m \in Memory
<1>1. way \in Ways(G, n) /\ m \in Memory
  BY ToMemory DEF Ways
<1>2. To(G, n, way, End(G, n, way))
  BY DEF End
<1>3. End(G, n, way) = m
  BY <1>2, ToOne
<1> QED BY <1>1, <1>3

LEMMA TableAt ==
  ASSUME NEW G \in SUBSET Edges, Determined(G), NEW n, NEW way \in Seq(Steps), NEW m, To(G, n, way, m), NEW shapes
  PROVE  Table(G, shapes, n)[way] = shapes[m]
<1>1. way \in Ways(G, n) /\ End(G, n, way) = m
  BY EndIs
<1> QED BY <1>1 DEF Table

LEMMA TableIs ==
  ASSUME NEW G \in SUBSET Edges, Determined(G), NEW n, NEW shapes, NEW table,
         table = [way \in DOMAIN table |-> table[way]], DOMAIN table = Ways(G, n),
         \A way \in Seq(Steps) : \A m : To(G, n, way, m) => table[way] = shapes[m]
  PROVE  table = Table(G, shapes, n)
<1>1. \A way \in Ways(G, n) : table[way] = shapes[End(G, n, way)]
  BY EndIs DEF Ways
<1> QED BY <1>1 DEF Table

-----------------------------------------------------------------------------
(* The links of the nodes are such a graph.                                 *)
Down == {edge \in Edges : Links(edge[1], edge[2], edge[3])}
Shapes == [n \in Memory |-> Shape(heap[n])]

LEMMA InDown ==
  ASSUME NodesInv
  PROVE  /\ Down \in SUBSET Edges
         /\ \A p, step, m : <<p, step, m>> \in Down <=> Links(p, step, m)
<1>1. ASSUME NEW p, NEW step, NEW m, Links(p, step, m)
      PROVE  <<p, step, m>> \in Edges
  <2>1. p \in Memory
    BY <1>1 DEF Links
  <2>2. CASE IsArray(heap[p])
    <3>1. PICK list \in Seq(Memory) : heap[p] = Array(list)
      BY <2>2 DEF IsArray
    <3>2. step \in DOMAIN list /\ m = list[step]
      BY <1>1, <2>1, <3>1, ArrayLinks
    <3>3. step \in Nat /\ m \in Memory
      BY <3>2
    <3> QED BY <2>1, <3>3 DEF Edges, Steps
  <2>3. CASE IsMap(heap[p])
    <3>1. PICK hash \in [Words -> Memory \cup {Absent}] : heap[p] = Map(hash)
      BY <2>3 DEF IsMap
    <3>2. step \in DOMAIN hash /\ hash[step] # Absent /\ m = hash[step]
      BY <1>1, <2>1, <3>1, MapLinks
    <3>3. step \in Words /\ m \in Memory
      BY <3>2
    <3> QED BY <2>1, <3>3 DEF Edges, Steps
  <2> QED BY <1>1, <2>1, <2>2, <2>3, LeafLinks DEF NodesInv, HeapOK
<1> QED BY <1>1 DEF Down

LEMMA DownIs ==
  ASSUME NodesInv
  PROVE  Determined(Down) /\ Single(Down) /\ \A root \in owned : IsTop(Down, root)
<1>1. Forest /\ \A p, step, m : <<p, step, m>> \in Down <=> Links(p, step, m)
  BY InDown DEF NodesInv
<1>2. Determined(Down)
  BY <1>1 DEF Determined, Links
<1>3. Single(Down)
  BY <1>1 DEF Single, Forest
<1>4. \A root \in owned : IsTop(Down, root)
  BY <1>1 DEF IsTop, Forest, Roots
<1> QED BY <1>2, <1>3, <1>4

(* What can be reached from a node is its tree.                             *)
LEMMA ReachedIn ==
  ASSUME NodesInv, NEW n \in Memory, NEW way \in Seq(Steps), NEW m, To(Down, n, way, m)
  PROVE  m \in Tree(n)
<1> DEFINE S == {some \in Seq(Steps) : \A x : To(Down, n, some, x) => x \in Tree(n)}
<1>0. /\ Forest /\ n \in Tree(n)
      /\ \A p, place, k : Links(p, place, k) /\ p \in Tree(n) => k \in Tree(n)
  BY TreeClosed DEF NodesInv
<1>1. <<>> \in S
  BY <1>0, ToItself
<1>2. ASSUME NEW some \in Seq(Steps), NEW step \in Steps, some \in S PROVE Append(some, step) \in S
  <2>1. Append(some, step) \in Seq(Steps) /\ Down \in SUBSET Edges
    BY Appended, InDown
  <2>2. ASSUME NEW x, To(Down, n, Append(some, step), x) PROVE x \in Tree(n)
    <3>1. PICK k : To(Down, n, some, k) /\ <<k, step, x>> \in Down
      BY <2>1, <2>2, ToNext
    <3> QED BY <1>0, <1>2, <3>1, InDown
  <2> QED BY <2>1, <2>2
<1> HIDE DEF S
<1>3. way \in S
  BY <1>1, <1>2, WaysInduction
<1> QED BY <1>3 DEF S

LEMMA InReach ==
  ASSUME NodesInv, NEW n \in Memory, NEW m \in Tree(n)
  PROVE  \E way \in Seq(Steps) : To(Down, n, way, m)
<1> DEFINE S == {x \in Memory : \E way \in Seq(Steps) : To(Down, n, way, x)}
<1>1. Down \in SUBSET Edges /\ \A p, step, k : <<p, step, k>> \in Down <=> Links(p, step, k)
  BY InDown
<1>2. n \in S
  <2>1. To(Down, n, <<>>, n) /\ <<>> \in Seq(Steps)
    BY ToItself
  <2> QED BY <2>1
<1>3. ASSUME NEW p, NEW place, NEW k, Links(p, place, k), p \in S PROVE k \in S
  <2>1. <<p, place, k>> \in Down /\ place \in Steps /\ k \in Memory
    BY <1>1, <1>3 DEF Edges
  <2>2. PICK way \in Seq(Steps) : To(Down, n, way, p)
    BY <1>3
  <2>3. To(Down, n, Append(way, place), k) /\ Append(way, place) \in Seq(Steps)
    BY <1>1, <2>1, <2>2, ToNext, Appended
  <2> QED BY <2>1, <2>3
<1>4. S \in SUBSET Memory
  OBVIOUS
<1> HIDE DEF S
<1>5. Tree(n) \subseteq S
  BY <1>2, <1>3, <1>4, TreeLeast
<1> QED BY <1>5 DEF S

-----------------------------------------------------------------------------
(* The tree of a node from those of its parts.                              *)
FromParts(trees, n) ==
  [place \in {<<>>} \cup UNION {{<<step>> \o way : way \in DOMAIN trees[PartAt(n, step)]}
                                : step \in Places(n)} |->
     IF place = <<>> THEN Shape(heap[n]) ELSE trees[PartAt(n, Head(place))][Tail(place)]]

LEMMA Sooner ==
  ASSUME NEW way \in Seq(Steps), NEW step \in Steps
  PROVE  /\ <<step>> \o way \in Seq(Steps) /\ <<step>> \o way # <<>>
         /\ Head(<<step>> \o way) = step /\ Tail(<<step>> \o way) = way
<1>1. <<step>> \o way \in Seq(Steps) /\ Len(<<step>> \o way) = 1 + Len(way) /\ Len(way) \in Nat
  OBVIOUS
<1>2. <<step>> \o way # <<>> /\ Head(<<step>> \o way) = step
  OBVIOUS
<1>3. Tail(<<step>> \o way) = way
  <2>1. Tail(<<step>> \o way) \in Seq(Steps) /\ Len(Tail(<<step>> \o way)) = Len(way)
    BY <1>1, <1>2
  <2>2. \A i \in 1 .. Len(way) : Tail(<<step>> \o way)[i] = way[i]
    BY <1>1, <1>2
  <2> QED BY <2>1, <2>2, SameSequence
<1> QED BY <1>1, <1>2, <1>3

LEMMA Later ==
  ASSUME NEW place \in Seq(Steps), place # <<>>
  PROVE  Head(place) \in Steps /\ Tail(place) \in Seq(Steps) /\ place = <<Head(place)>> \o Tail(place)
<1>1. Head(place) \in Steps /\ Tail(place) \in Seq(Steps) /\ Len(place) = 1 + Len(Tail(place))
  OBVIOUS
<1>2. <<Head(place)>> \o Tail(place) \in Seq(Steps) /\ Len(<<Head(place)>> \o Tail(place)) = Len(place)
  BY <1>1
<1>3. \A i \in 1 .. Len(place) : (<<Head(place)>> \o Tail(place))[i] = place[i]
  BY <1>1
<1>4. <<Head(place)>> \o Tail(place) = place
  BY <1>2, <1>3, SameSequence
<1> QED BY <1>1, <1>4

LEMMA StepDown ==
  ASSUME NodesInv, NEW n, NEW step \in Steps, NEW way \in Seq(Steps), NEW m
  PROVE  To(Down, n, <<step>> \o way, m) <=> \E k : Links(n, step, k) /\ To(Down, k, way, m)
<1>1. Down \in SUBSET Edges /\ \A k : <<n, step, k>> \in Down <=> Links(n, step, k)
  BY InDown
<1>2. <<step>> \in Seq(Steps)
  OBVIOUS
<1>3. To(Down, n, <<step>> \o way, m) <=> \E k : To(Down, n, <<step>>, k) /\ To(Down, k, way, m)
  BY <1>1, <1>2, ToOnward
<1>4. \A k : To(Down, n, <<step>>, k) <=> <<n, step, k>> \in Down
  BY <1>1, ToStep
<1> QED BY <1>1, <1>3, <1>4

(* Denotes is that table: it meets the equation of Denotes, and what meets  *)
(* it is the table, at a node when it is for the node's parts.              *)
LEMMA TableFromParts ==
  ASSUME NodesInv, NEW n \in Memory, NEW trees,
         \A step, m : Links(n, step, m) => trees[m] = Table(Down, Shapes, m)
  PROVE  FromParts(trees, n) = Table(Down, Shapes, n)
<1> DEFINE below == {<<>>} \cup UNION {{<<step>> \o way : way \in DOMAIN trees[PartAt(n, step)]} : step \in Places(n)}
           table == FromParts(trees, n)
<1>0. /\ Down \in SUBSET Edges /\ Determined(Down)
      /\ \A p, step, k : <<p, step, k>> \in Down <=> Links(p, step, k)
  BY InDown, DownIs
<1>a. ASSUME NEW step, NEW m, Links(n, step, m)
      PROVE  step \in Steps /\ step \in Places(n) /\ m = PartAt(n, step) /\ trees[m] = Table(Down, Shapes, m)
  <2>1. step \in Steps
    <3>1. <<n, step, m>> \in Down
      BY <1>0, <1>a
    <3>2. <<n, step, m>> \in Memory \X Steps \X Memory
      BY <1>0, <3>1 DEF Edges
    <3> QED BY <3>2
  <2>2. step \in Places(n) /\ m = PartAt(n, step)
    BY <1>a DEF Links
  <2>3. trees[m] = Table(Down, Shapes, m)
    BY <1>a
  <2> QED BY <2>1, <2>2, <2>3
<1>b. ASSUME NEW step \in Places(n)
      PROVE  Links(n, step, PartAt(n, step))
  BY DEF Links
<1>1. below \subseteq Ways(Down, n)
  <2>1. <<>> \in Ways(Down, n)
    BY ToItself DEF Ways
  <2>2. ASSUME NEW step \in Places(n), NEW way \in DOMAIN trees[PartAt(n, step)]
        PROVE  <<step>> \o way \in Ways(Down, n)
    <3>1. Links(n, step, PartAt(n, step)) /\ step \in Steps /\ trees[PartAt(n, step)] = Table(Down, Shapes, PartAt(n, step))
      BY <1>a, <1>b
    <3>2. way \in Ways(Down, PartAt(n, step))
      BY <3>1 DEF Table
    <3>3. way \in Seq(Steps) /\ \E m : To(Down, PartAt(n, step), way, m)
      BY <3>2 DEF Ways
    <3>4. \E m : To(Down, n, <<step>> \o way, m)
      BY <3>1, <3>3, StepDown
    <3>5. <<step>> \o way \in Seq(Steps)
      BY <3>1, <3>3, Sooner
    <3> QED BY <3>4, <3>5 DEF Ways
  <2>3. ASSUME NEW place \in below PROVE place \in Ways(Down, n)
    <3>1. CASE place = <<>>
      BY <2>1, <3>1
    <3>2. CASE place # <<>>
      <4>1. PICK step \in Places(n) : place \in {<<step>> \o way : way \in DOMAIN trees[PartAt(n, step)]}
        BY <3>2
      <4>2. PICK way \in DOMAIN trees[PartAt(n, step)] : place = <<step>> \o way
        BY <4>1
      <4> QED BY <2>2, <4>2
    <3> QED BY <3>1, <3>2
  <2> QED BY <2>3
<1>2. ASSUME NEW place \in Seq(Steps), NEW m, To(Down, n, place, m)
      PROVE  place \in below /\ table[place] = Shapes[m]
  <2>1. CASE place = <<>>
    <3>1. m = n
      BY <1>2, <2>1, ToItself
    <3> QED BY <2>1, <3>1 DEF FromParts, Shapes
  <2>2. CASE place # <<>>
    <3> DEFINE step == Head(place)
               way == Tail(place)
    <3>1. step \in Steps /\ way \in Seq(Steps) /\ place = <<step>> \o way
      BY <2>2, Later
    <3> HIDE DEF step, way
    <3>2. PICK k : Links(n, step, k) /\ To(Down, k, way, m)
      BY <1>2, <3>1, StepDown
    <3>3. step \in Places(n) /\ k = PartAt(n, step) /\ trees[k] = Table(Down, Shapes, k)
      BY <1>a, <3>2
    <3>4. way \in Ways(Down, k) /\ Table(Down, Shapes, k)[way] = Shapes[m]
      <4>1. To(Down, k, way, m)
        BY <3>2
      <4> QED BY <1>0, <3>1, <4>1, EndIs, TableAt
    <3>5. way \in DOMAIN trees[PartAt(n, step)]
      BY <3>3, <3>4 DEF Table
    <3>6. place \in below
      BY <3>1, <3>3, <3>5
    <3>7. table[place] = trees[PartAt(n, step)][way]
      BY <2>2, <3>6 DEF FromParts, step, way
    <3> QED BY <3>3, <3>4, <3>6, <3>7
  <2> QED BY <2>1, <2>2
<1>3. DOMAIN table = below /\ table = [place \in DOMAIN table |-> table[place]]
  BY DEF FromParts
<1> HIDE DEF below, table
<1>4. DOMAIN table = Ways(Down, n)
  BY <1>1, <1>2, <1>3 DEF Ways
<1>5. table = Table(Down, Shapes, n)
  BY <1>0, <1>2, <1>3, <1>4, TableIs
<1> QED BY <1>5 DEF table

(* A part has a smaller tree.                                               *)
LEMMA Smaller ==
  ASSUME NodesInv, NEW n, NEW place, NEW m, Links(n, place, m)
  PROVE  Cardinality(Tree(m)) < Cardinality(Tree(n)) /\ Cardinality(Tree(m)) \in Nat
<1>1. Forest /\ n \in Live /\ m \in Live /\ n \in Memory /\ m \in Memory
  BY DEF NodesInv, Forest, Live
<1>2. /\ n \in Tree(n) /\ Tree(n) \subseteq Memory
      /\ \A p, step, k : Links(p, step, k) /\ p \in Tree(n) => k \in Tree(n)
  BY <1>1, TreeClosed
<1>3. m \in Tree(n)
  BY <1>2
<1>4. Tree(m) \subseteq Tree(n)
  BY <1>2, <1>3, TreeLeast
<1>5. n \notin Tree(m)
  BY <1>1, NoCycles
<1>6. IsFiniteSet(Tree(n)) /\ IsFiniteSet(Tree(m))
  BY <1>2, <1>4, MemoryAssumption, FS_Subset
<1>7. Cardinality(Tree(m)) <= Cardinality(Tree(n)) /\ Cardinality(Tree(m)) # Cardinality(Tree(n))
  BY <1>2, <1>4, <1>5, <1>6, FS_Subset
<1>8. Cardinality(Tree(m)) \in Nat /\ Cardinality(Tree(n)) \in Nat
  BY <1>6, FS_CardinalityType
<1> QED BY <1>7, <1>8

LEMMA DenotesTables ==
  ASSUME NodesInv, NEW n \in Memory
  PROVE  Denotes[n] = Table(Down, Shapes, n)
<1> DEFINE tables == [m \in Memory |-> Table(Down, Shapes, m)]
<1>1. tables = [m \in Memory |-> FromParts(tables, m)]
  <2>1. ASSUME NEW m \in Memory PROVE FromParts(tables, m) = Table(Down, Shapes, m)
    <3>1. \A step, k : Links(m, step, k) => k \in Memory
      BY DEF NodesInv, Forest, Live
    <3>2. \A step, k : Links(m, step, k) => tables[k] = Table(Down, Shapes, k)
      BY <3>1
    <3> HIDE DEF tables
    <3> QED BY <3>2, TableFromParts
  <2> QED BY <2>1
<1>2. Denotes = [m \in Memory |-> FromParts(Denotes, m)]
  <2> DEFINE IsThem(f) == f = [m \in Memory |-> FromParts(f, m)]
  <2>1. Denotes = CHOOSE f : IsThem(f)
    BY DEF Denotes, FromParts
  <2>2. IsThem(tables)
    BY <1>1
  <2> HIDE DEF IsThem, tables
  <2>3. IsThem(Denotes)
    BY <2>1, <2>2
  <2> QED BY <2>3 DEF IsThem
<1> HIDE DEF tables
<1> DEFINE bad == {m \in Memory : Denotes[m] # Table(Down, Shapes, m)}
           sizes == {Cardinality(Tree(m)) : m \in bad}
<1>3. ASSUME NEW m \in bad PROVE \E k \in bad : Cardinality(Tree(k)) < Cardinality(Tree(m)) /\ Cardinality(Tree(m)) \in Nat
  <2>1. Denotes[m] = FromParts(Denotes, m)
    BY <1>2
  <2>2. ~\A step, k : Links(m, step, k) => Denotes[k] = Table(Down, Shapes, k)
    <3> HIDE DEF bad
    <3>1. m \in Memory /\ Denotes[m] # Table(Down, Shapes, m)
      BY DEF bad
    <3> QED BY <2>1, <3>1, TableFromParts
  <2>3. PICK step, k : Links(m, step, k) /\ Denotes[k] # Table(Down, Shapes, k)
    BY <2>2
  <2>4. k \in bad
    BY <2>3 DEF NodesInv, Forest, Live
  <2>5. Cardinality(Tree(k)) < Cardinality(Tree(m))
    BY <2>3, Smaller
  <2>6. Cardinality(Tree(m)) \in Nat
    <3>1. Forest
      BY DEF NodesInv
    <3>2. Tree(m) \subseteq Memory
      BY <3>1, TreeClosed
    <3> QED BY <3>2, MemoryAssumption, FS_Subset, FS_CardinalityType
  <2> QED BY <2>4, <2>5, <2>6
<1>4. sizes \subseteq Nat
  BY <1>3
<1>5. SUFFICES ASSUME n \in bad PROVE FALSE
  OBVIOUS
<1>6. sizes # {}
  BY <1>5
<1> HIDE DEF sizes
<1>7. PICK size \in sizes : \A another \in sizes : size <= another
  BY <1>4, <1>6, LeastLength
<1>8. PICK m \in bad : size = Cardinality(Tree(m))
  BY <1>7 DEF sizes
<1>9. PICK k \in bad : Cardinality(Tree(k)) < Cardinality(Tree(m))
  BY <1>3
<1>10. Cardinality(Tree(k)) \in sizes /\ size \in Nat /\ Cardinality(Tree(k)) \in Nat
  BY <1>3, <1>4, <1>7, <1>8 DEF sizes
<1>11. size <= Cardinality(Tree(k))
  BY <1>7, <1>10
<1> QED BY <1>8, <1>9, <1>10, <1>11

-----------------------------------------------------------------------------
(* A graph that is the same below a node has the same ways down from there. *)
LEMMA SameTo ==
  ASSUME NEW G \in SUBSET Edges, NEW H \in SUBSET Edges, NEW n,
         \A way \in Seq(Steps) : \A k : To(G, n, way, k) =>
           \A step, m : <<k, step, m>> \in G <=> <<k, step, m>> \in H,
         NEW way \in Seq(Steps), NEW m
  PROVE  To(H, n, way, m) <=> To(G, n, way, m)
<1> DEFINE S == {some \in Seq(Steps) : \A x : To(H, n, some, x) <=> To(G, n, some, x)}
<1>1. <<>> \in S
  BY ToItself
<1>2. ASSUME NEW some \in Seq(Steps), NEW step \in Steps, some \in S PROVE Append(some, step) \in S
  <2>1. Append(some, step) \in Seq(Steps)
    BY Appended
  <2>2. ASSUME NEW x PROVE To(H, n, Append(some, step), x) <=> To(G, n, Append(some, step), x)
    <3>1. To(H, n, Append(some, step), x) <=> \E k : To(H, n, some, k) /\ <<k, step, x>> \in H
      BY ToNext
    <3>2. To(G, n, Append(some, step), x) <=> \E k : To(G, n, some, k) /\ <<k, step, x>> \in G
      BY ToNext
    <3>3. \A k : To(H, n, some, k) <=> To(G, n, some, k)
      BY <1>2
    <3>4. \A k : To(G, n, some, k) => (<<k, step, x>> \in G <=> <<k, step, x>> \in H)
      OBVIOUS
    <3> QED BY <3>1, <3>2, <3>3, <3>4
  <2> QED BY <2>1, <2>2
<1> HIDE DEF S
<1>3. way \in S
  BY <1>1, <1>2, WaysInduction
<1> QED BY <1>3 DEF S

LEMMA SameTable ==
  ASSUME NEW G \in SUBSET Edges, NEW H \in SUBSET Edges, NEW n, NEW shapes, NEW others,
         Determined(G), Determined(H),
         \A way \in Seq(Steps) : \A k : To(G, n, way, k) =>
           others[k] = shapes[k] /\ \A step, m : <<k, step, m>> \in G <=> <<k, step, m>> \in H
  PROVE  Table(H, others, n) = Table(G, shapes, n)
<1> DEFINE table == Table(H, others, n)
<1>1. \A way \in Seq(Steps) : \A m : To(H, n, way, m) <=> To(G, n, way, m)
  BY SameTo
<1>2. DOMAIN table = Ways(G, n)
  BY <1>1 DEF Table, Ways
<1>3. table = [way \in DOMAIN table |-> table[way]]
  BY DEF Table
<1>4. ASSUME NEW way \in Seq(Steps), NEW m, To(G, n, way, m)
      PROVE  table[way] = shapes[m]
  <2>1. To(H, n, way, m)
    BY <1>1, <1>4
  <2>2. table[way] = others[m]
    <3>1. H \in SUBSET Edges /\ Determined(H) /\ way \in Seq(Steps)
      OBVIOUS
    <3> QED BY ONLY <2>1, <3>1, TableAt
  <2> QED BY <1>4, <2>2
<1> HIDE DEF table
<1>5. table = Table(G, shapes, n)
  BY <1>2, <1>3, <1>4, TableIs
<1> QED BY <1>5 DEF table

-----------------------------------------------------------------------------
(* A graph cut at a node: nothing that was below it is linked any more.     *)
IsCut(G, H, part) ==
  \A p, step, m : <<p, step, m>> \in H <=> p \notin part /\ <<p, step, m>> \in G

(* The ways down are those that do not pass the node.                       *)
LEMMA CutTo ==
  ASSUME NEW G \in SUBSET Edges, NEW H \in SUBSET Edges, Determined(G), Single(G),
         NEW h, IsTop(G, h), NEW place \in Seq(Steps), NEW n, To(G, h, place, n),
         NEW part, n \in part, \A k \in part : \E on \in Seq(Steps) : To(G, n, on, k),
         IsCut(G, H, part), NEW way \in Seq(Steps), NEW m
  PROVE  To(H, h, way, m) <=> To(G, h, way, m) /\ (way = place \/ ~Within(way, place))
<1> DEFINE S == {some \in Seq(Steps) : \A x :
                   To(H, h, some, x) <=> To(G, h, some, x) /\ (some = place \/ ~Within(some, place))}
<1>1. <<>> \in S
  <2>1. ~Within(<<>>, place) \/ <<>> = place
    <3>1. PICK step \in Steps : TRUE
      <4>1. 0 \in Steps
        BY DEF Steps
      <4> QED BY <4>1
    <3>2. <<>> \in Seq(Steps)
      OBVIOUS
    <3> QED BY <3>1, <3>2, WithinNext
  <2>2. <<>> \in Seq(Steps)
    OBVIOUS
  <2> QED BY <2>1, <2>2, ToItself
<1>2. ASSUME NEW some \in Seq(Steps), NEW k, To(G, h, some, k), k \in part
      PROVE  Within(some, place)
  <2>1. PICK on \in Seq(Steps) : To(G, n, on, k)
    BY <1>2
  <2>2. To(G, h, place \o on, k) /\ place \o on \in Seq(Steps)
    BY <2>1, ToOnward, Concatenated
  <2>3. some = place \o on
    BY <1>2, <2>2, OneWay
  <2> QED BY <2>3, GoneOn
<1>3. ASSUME NEW some \in Seq(Steps), NEW step \in Steps, some \in S PROVE Append(some, step) \in S
  <2> DEFINE more == Append(some, step)
  <2>1. more \in Seq(Steps)
    BY Appended
  <2>2. Within(more, place) <=> Within(some, place) \/ more = place
    BY WithinNext
  <2>3. ~Within(some, more)
    BY WithinNext
  <2>4. Within(place, place)
    BY <2>1, WithinNext
  <2>5. ASSUME NEW x
        PROVE  To(H, h, more, x) <=> To(G, h, more, x) /\ (more = place \/ ~Within(more, place))
    <3>1. To(H, h, more, x) <=> \E k : To(H, h, some, k) /\ <<k, step, x>> \in H
      BY ToNext
    <3>2. To(G, h, more, x) <=> \E k : To(G, h, some, k) /\ <<k, step, x>> \in G
      BY ToNext
    <3> HIDE DEF more
    <3>3. \A k : To(H, h, some, k) <=> To(G, h, some, k) /\ (some = place \/ ~Within(some, place))
      BY <1>3
    <3>4. \A k : <<k, step, x>> \in H <=> k \notin part /\ <<k, step, x>> \in G
      BY DEF IsCut
    <3>5. ASSUME NEW k, To(G, h, some, k)
          PROVE  ((some = place \/ ~Within(some, place)) /\ k \notin part) <=> (more = place \/ ~Within(more, place))
      <4>1. k \in part => Within(some, place)
        BY <1>2, <3>5
      <4>2. some = place => k = n
        BY <3>5, ToOne
      <4> QED BY <2>2, <2>3, <2>4, <4>1, <4>2
    <3> QED BY <3>1, <3>2, <3>3, <3>4, <3>5
  <2> QED BY <2>1, <2>5
<1> HIDE DEF S
<1>4. way \in S
  BY <1>1, <1>3, WaysInduction
<1> QED BY <1>4 DEF S

LEMMA CutTable ==
  ASSUME NEW G \in SUBSET Edges, NEW H \in SUBSET Edges, Determined(G), Single(G), Determined(H),
         NEW h, IsTop(G, h), NEW place \in Seq(Steps), NEW n, To(G, h, place, n),
         NEW part, n \in part, \A k \in part : \E on \in Seq(Steps) : To(G, n, on, k),
         IsCut(G, H, part), NEW shapes, NEW others, \A k \in Memory \ part : others[k] = shapes[k]
  PROVE  Table(H, others, h) = Abstract!Replaced(Table(G, shapes, h), place, others[n])
<1> DEFINE table == Table(G, shapes, h)
           next == Abstract!Replaced(table, place, others[n])
           left == Abstract!Outside(table, place) \cup {place}
<1>1. \A way \in Seq(Steps) : \A m :
        To(H, h, way, m) <=> To(G, h, way, m) /\ (way = place \/ ~Within(way, place))
  BY CutTo
<1>2. DOMAIN table = Ways(G, h)
  BY DEF Table
<1>3. next = [p \in left |-> IF p = place THEN others[n] ELSE table[p]]
  BY DEF Abstract!Replaced
<1>4. left = {p \in Ways(G, h) : ~Within(p, place)} \cup {place}
  BY <1>2 DEF Abstract!Outside, Within
<1>5. left = Ways(H, h)
  <2>1. place \in Ways(G, h)
    BY DEF Ways
  <2>2. left = {p \in Ways(G, h) : p = place \/ ~Within(p, place)}
    BY <1>4, <2>1
  <2> HIDE DEF left
  <2> QED BY <1>1, <2>2 DEF Ways
<1>6. ASSUME NEW way \in Seq(Steps), NEW m, To(H, h, way, m)
      PROVE  next[way] = others[m]
  <2>1. To(G, h, way, m) /\ (way = place \/ ~Within(way, place)) /\ way \in left
    BY <1>1, <1>5, <1>6 DEF Ways
  <2>2. CASE way = place
    <3>1. m = n
      BY <2>1, <2>2, ToOne
    <3> QED BY <1>3, <2>1, <2>2, <3>1
  <2>3. CASE way # place
    <3>1. table[way] = shapes[m] /\ m \in Memory
      <4>1. G \in SUBSET Edges /\ Determined(G) /\ way \in Seq(Steps) /\ To(G, h, way, m)
        BY <2>1
      <4>2. m \in Memory
        BY ONLY <4>1, EndIs
      <4>3. table[way] = shapes[m]
        BY ONLY <4>1, TableAt
      <4> QED BY <4>2, <4>3
    <3>2. m \notin part
      <4> SUFFICES ASSUME m \in part PROVE FALSE
        OBVIOUS
      <4>1. PICK on \in Seq(Steps) : To(G, n, on, m)
        OBVIOUS
      <4>2. To(G, h, place \o on, m) /\ place \o on \in Seq(Steps)
        BY <4>1, ToOnward, Concatenated
      <4>3. way = place \o on
        BY <2>1, <4>2, OneWay
      <4>4. Within(way, place)
        BY <4>3, GoneOn
      <4> QED BY <2>1, <2>3, <4>4
    <3>3. others[m] = shapes[m]
      BY <3>1, <3>2
    <3> QED BY <1>3, <2>1, <2>3, <3>1, <3>3
  <2> QED BY <2>2, <2>3
<1>7. DOMAIN next = left /\ next = [p \in DOMAIN next |-> next[p]]
  BY <1>3
<1> HIDE DEF next, left, table
<1>8. next = Table(H, others, h)
  BY <1>5, <1>6, <1>7, TableIs
<1> QED BY <1>8 DEF next, table

-----------------------------------------------------------------------------
(* A graph with one more link, or another one, to a node that was a top.    *)
IsJoined(G, H, n, at, element) ==
  \A p, step, m :
    <<p, step, m>> \in H <=> IF p = n /\ step = at THEN m = element ELSE <<p, step, m>> \in G

LEMMA AppendedSame ==
  ASSUME NEW way \in Seq(Steps), NEW other \in Seq(Steps), NEW step \in Steps, NEW last \in Steps,
         Append(way, step) = Append(other, last)
  PROVE  way = other /\ step = last
<1>1. \A one \in Seq(Steps) : \A end : Append(way, step) = Append(one, end) => way = one /\ step = end
  BY Appended
<1> QED BY <1>1

LongerBy(on, step, way, place) ==
  \E front \in Seq(Steps) : on = Append(front, step) /\ way = place \o front

LEMMA AppendedWithin ==
  ASSUME NEW way \in Seq(Steps), NEW step \in Steps, NEW place \in Seq(Steps), NEW on \in Seq(Steps),
         Append(way, step) = place \o on
  PROVE  \/ on = <<>> /\ Append(way, step) = place
         \/ LongerBy(on, step, way, place)
<1>1. CASE on = <<>>
  BY <1>1, Concatenated
<1>2. CASE on # <<>>
  <2>1. PICK front \in Seq(Steps) : \E last \in Steps : on = Append(front, last)
    BY <1>2, Fronts
  <2>2. PICK last \in Steps : on = Append(front, last)
    BY <2>1
  <2>3. place \o on = Append(place \o front, last) /\ place \o front \in Seq(Steps)
    BY <2>2, Concatenated
  <2>4. way = place \o front /\ step = last
    <3>1. Append(place \o front, last) = Append(way, step) /\ way \in Seq(Steps) /\ step \in Steps
      BY <2>2, <2>3
    <3>2. place \o front \in Seq(Steps) /\ last \in Steps
      BY <2>3
    <3> QED BY <3>1, <3>2, AppendedSame
  <2> QED BY <2>2, <2>4 DEF LongerBy
<1> QED BY <1>1, <1>2

(* What hangs below a place of another tree.                                *)
Below(G, element, place, way, m) ==
  \E on \in Seq(Steps) : way = place \o on /\ To(G, element, on, m)

(* The ways down are those from before, but for that place, and those of    *)
(* the tree that hangs there now.                                           *)
LEMMA JoinTo ==
  ASSUME NEW G \in SUBSET Edges, NEW H \in SUBSET Edges, Determined(G), Single(G),
         NEW h, IsTop(G, h), NEW place \in Seq(Steps), NEW n, To(G, h, place, n),
         NEW at \in Steps, NEW element \in Memory,
         \A on \in Seq(Steps) : ~To(G, element, on, n),
         IsJoined(G, H, n, at, element), NEW way \in Seq(Steps), NEW m
  PROVE  To(H, h, way, m) <=>
           \/ ~Within(way, Append(place, at)) /\ To(G, h, way, m)
           \/ Below(G, element, Append(place, at), way, m)
<1> DEFINE new == Append(place, at)
           S == {some \in Seq(Steps) : \A x :
                   To(H, h, some, x) <=> (~Within(some, new) /\ To(G, h, some, x)) \/ Below(G, element, new, some, x)}
<1>0. new \in Seq(Steps) /\ new # <<>> /\ ~Within(place, new)
  BY Appended, WithinNext
<1> HIDE DEF new
<1>1. <<>> \in S
  <2>1. ~Within(<<>>, new)
    BY <1>0, WithinNext
  <2>2. ASSUME NEW on \in Seq(Steps) PROVE <<>> # new \o on
    <3>1. Within(new \o on, new)
      BY <1>0, GoneOn
    <3> QED BY <2>1, <3>1
  <2>3. <<>> \in Seq(Steps)
    OBVIOUS
  <2>4. \A x : (To(H, h, <<>>, x) <=> h \in Memory /\ x = h) /\ (To(G, h, <<>>, x) <=> h \in Memory /\ x = h)
    BY ToItself
  <2> QED BY <2>1, <2>2, <2>3, <2>4 DEF Below
<1>2. ASSUME NEW some \in Seq(Steps), NEW step \in Steps, some \in S PROVE Append(some, step) \in S
  <2> DEFINE more == Append(some, step)
  <2>1. more \in Seq(Steps)
    BY Appended
  <2>2. Within(more, new) <=> Within(some, new) \/ more = new
    BY <1>0, WithinNext
  <2>3. more = new <=> some = place /\ step = at
    BY Appended DEF new
  <2> HIDE DEF S
  <2>4. \A k : To(H, h, some, k) <=> (~Within(some, new) /\ To(G, h, some, k)) \/ Below(G, element, new, some, k)
    BY <1>2 DEF S
  <2>5. ASSUME NEW k, To(G, h, some, k) PROVE k = n <=> some = place
    BY <2>5, OneWay, ToOne
  <2>6. ASSUME NEW x, To(H, h, more, x)
        PROVE  (~Within(more, new) /\ To(G, h, more, x)) \/ Below(G, element, new, more, x)
    <3>1. PICK k : To(H, h, some, k) /\ <<k, step, x>> \in H
      BY <2>6, ToNext
    <3>2. IF k = n /\ step = at THEN x = element ELSE <<k, step, x>> \in G
      BY <3>1 DEF IsJoined
    <3>3. CASE ~Within(some, new) /\ To(G, h, some, k)
      <4>1. CASE k = n /\ step = at
        <5>1. more = new /\ x = element
          BY <2>3, <2>5, <3>2, <3>3, <4>1
        <5>2. more = new \o <<>> /\ <<>> \in Seq(Steps)
          BY <1>0, <5>1, Concatenated
        <5>3. To(G, element, <<>>, x)
          BY <5>1, ToItself
        <5> QED BY <5>2, <5>3 DEF Below
      <4>2. CASE ~(k = n /\ step = at)
        <5>1. <<k, step, x>> \in G
          BY <3>2, <4>2
        <5>2. To(G, h, more, x)
          BY <3>3, <5>1, ToNext
        <5>3. more # new
          BY <2>3, <2>5, <3>3, <4>2
        <5> QED BY <2>2, <3>3, <5>2, <5>3
      <4> QED BY <4>1, <4>2
    <3>4. CASE Below(G, element, new, some, k)
      <4>1. PICK on \in Seq(Steps) : some = new \o on /\ To(G, element, on, k)
        BY <3>4 DEF Below
      <4>2. k # n
        BY <4>1
      <4>3. <<k, step, x>> \in G
        BY <3>2, <4>2
      <4>4. To(G, element, Append(on, step), x) /\ Append(on, step) \in Seq(Steps)
        BY <4>1, <4>3, ToNext, Appended
      <4>5. more = new \o Append(on, step)
        <5>1. new \o Append(on, step) = Append(new \o on, step)
          BY <1>0, Concatenated
        <5> QED BY <4>1, <5>1
      <4> QED BY <4>4, <4>5 DEF Below
    <3> QED BY <2>4, <3>1, <3>3, <3>4
  <2>7. ASSUME NEW x, ~Within(more, new), To(G, h, more, x)
        PROVE  To(H, h, more, x)
    <3>1. PICK k : To(G, h, some, k) /\ <<k, step, x>> \in G
      BY <2>7, ToNext
    <3>2. ~Within(some, new) /\ more # new
      BY <2>2, <2>7
    <3>3. ~(k = n /\ step = at)
      BY <2>3, <2>5, <3>1, <3>2
    <3>4. <<k, step, x>> \in H
      BY <3>1, <3>3 DEF IsJoined
    <3>5. To(H, h, some, k)
      BY <2>4, <3>1, <3>2
    <3> QED BY <3>4, <3>5, ToNext
  <2>8. ASSUME NEW x, Below(G, element, new, more, x)
        PROVE  To(H, h, more, x)
    <3>1. PICK on \in Seq(Steps) : more = new \o on /\ To(G, element, on, x)
      BY <2>8 DEF Below
    <3>2. CASE more = new /\ on = <<>>
      <4>1. x = element /\ some = place /\ step = at
        BY <2>3, <3>1, <3>2, ToItself
      <4>2. <<n, step, x>> \in H
        BY <4>1 DEF IsJoined
      <4>3. To(H, h, some, n)
        BY <1>0, <2>4, <4>1
      <4> QED BY <4>2, <4>3, ToNext
    <3>3. CASE \E front \in Seq(Steps) : on = Append(front, step) /\ some = new \o front
      <4>1. PICK front \in Seq(Steps) : on = Append(front, step) /\ some = new \o front
        BY <3>3
      <4>2. PICK k : To(G, element, front, k) /\ <<k, step, x>> \in G
        BY <3>1, <4>1, ToNext
      <4>3. k # n
        BY <4>2
      <4>4. <<k, step, x>> \in H
        BY <4>2, <4>3 DEF IsJoined
      <4>5. Below(G, element, new, some, k)
        BY <4>1, <4>2 DEF Below
      <4>6. To(H, h, some, k)
        BY <2>4, <4>5
      <4> QED BY <4>4, <4>6, ToNext
    <3>4. \/ on = <<>> /\ more = new
          \/ LongerBy(on, step, some, new)
      <4>1. Append(some, step) = new \o on /\ new \in Seq(Steps) /\ some \in Seq(Steps) /\ step \in Steps
        BY <1>0, <3>1
      <4>2. on \in Seq(Steps)
        OBVIOUS
      <4> HIDE DEF more, new
      <4> QED BY ONLY <4>1, <4>2, AppendedWithin DEF more
    <3> QED BY <3>2, <3>3, <3>4 DEF LongerBy
  <2>9. \A x : To(H, h, more, x) <=> (~Within(more, new) /\ To(G, h, more, x)) \/ Below(G, element, new, more, x)
    BY <2>6, <2>7, <2>8
  <2> HIDE DEF more
  <2>10. more \in S
    BY <2>1, <2>9 DEF S
  <2> QED BY <2>10 DEF more
<1> HIDE DEF S
<1>3. way \in S
  BY <1>1, <1>2, WaysInduction
<1> QED BY <1>3 DEF S, new

LEMMA JoinTable ==
  ASSUME NEW G \in SUBSET Edges, NEW H \in SUBSET Edges, Determined(G), Single(G), Determined(H),
         NEW h, IsTop(G, h), NEW place \in Seq(Steps), NEW n, To(G, h, place, n),
         NEW at \in Steps, NEW element \in Memory,
         \A on \in Seq(Steps) : ~To(G, element, on, n),
         IsJoined(G, H, n, at, element),
         NEW shapes, NEW others, \A k \in Memory \ {n} : others[k] = shapes[k]
  PROVE  Table(H, others, h) =
           Abstract!Joined(Table(G, shapes, h), place, others[n], at, Table(G, shapes, element))
<1> DEFINE table == Table(G, shapes, h)
           part == Table(G, shapes, element)
           new == Append(place, at)
           next == Abstract!Joined(table, place, others[n], at, part)
           all == Abstract!Outside(table, new) \cup {new \o way : way \in DOMAIN part}
<1>1. \A way \in Seq(Steps) : \A m :
        To(H, h, way, m) <=>
           \/ ~Within(way, new) /\ To(G, h, way, m)
           \/ Below(G, element, new, way, m)
  <2> HIDE DEF table, part, next, all
  <2> SUFFICES ASSUME NEW way \in Seq(Steps), NEW m
               PROVE  To(H, h, way, m) <=>
                        \/ ~Within(way, new) /\ To(G, h, way, m)
                        \/ Below(G, element, new, way, m)
    OBVIOUS
  <2> QED BY JoinTo
<1>2. DOMAIN table = Ways(G, h) /\ DOMAIN part = Ways(G, element)
  BY DEF Table
<1>3. next = [p \in all |-> IF Within(p, new) THEN part[Onward(p, new)] ELSE IF p = place THEN others[n] ELSE table[p]]
  BY DEF Abstract!Joined, Within, Onward
<1>4. all = {p \in Ways(G, h) : ~Within(p, new)} \cup {new \o way : way \in Ways(G, element)}
  BY <1>2 DEF Abstract!Outside, Within
<1>5. new \in Seq(Steps) /\ \A on \in Seq(Steps) : new \o on \in Seq(Steps)
  BY Appended, Concatenated
<1> HIDE DEF all, new, table, part
<1>6. all = Ways(H, h)
  <2>1. ASSUME NEW way \in all PROVE way \in Ways(H, h)
    <3>1. CASE way \in Ways(G, h) /\ ~Within(way, new)
      BY <1>1, <3>1 DEF Ways
    <3>2. CASE \E on \in Ways(G, element) : way = new \o on
      <4>1. PICK on \in Ways(G, element) : way = new \o on
        BY <3>2
      <4>2. on \in Seq(Steps) /\ \E m : To(G, element, on, m)
        BY DEF Ways
      <4>3. way \in Seq(Steps) /\ \E m : To(H, h, way, m)
        BY <1>1, <1>5, <4>1, <4>2 DEF Below
      <4> QED BY <4>3 DEF Ways
    <3> QED BY <1>4, <3>1, <3>2
  <2>2. ASSUME NEW way \in Seq(Steps), NEW m, To(H, h, way, m) PROVE way \in all
    <3>1. CASE ~Within(way, new) /\ To(G, h, way, m)
      BY <1>4, <3>1 DEF Ways
    <3>2. CASE Below(G, element, new, way, m)
      BY <1>4, <3>2 DEF Ways, Below
    <3> QED BY <1>1, <2>2, <3>1, <3>2
  <2> QED BY <2>1, <2>2 DEF Ways
<1>7. ASSUME NEW way \in Seq(Steps), NEW m, To(H, h, way, m)
      PROVE  next[way] = others[m]
  <2>0. way \in all
    BY <1>6, <1>7 DEF Ways
  <2>1. CASE ~Within(way, new) /\ To(G, h, way, m)
    <3>1. m = n <=> way = place
      BY <2>1, OneWay, ToOne
    <3>2. table[way] = shapes[m]
      BY <2>1, TableAt DEF table
    <3>3. m \in Memory
      BY <2>1, ToMemory
    <3> QED BY <1>3, <2>0, <2>1, <3>1, <3>2, <3>3
  <2>2. CASE Below(G, element, new, way, m)
    <3>1. PICK on \in Seq(Steps) : way = new \o on /\ To(G, element, on, m)
      BY <2>2 DEF Below
    <3>2. Within(way, new) /\ Onward(way, new) = on
      BY <1>5, <3>1, GoneOn
    <3>3. part[on] = shapes[m]
      BY <3>1, TableAt DEF part
    <3>4. m \in Memory
      BY <3>1, ToMemory
    <3>5. m # n
      BY <3>1
    <3> QED BY <1>3, <2>0, <3>2, <3>3, <3>4, <3>5
  <2> QED BY <1>1, <1>7, <2>1, <2>2
<1>8. DOMAIN next = all /\ next = [p \in DOMAIN next |-> next[p]]
  BY <1>3
<1> HIDE DEF next
<1>9. next = Table(H, others, h)
  BY <1>6, <1>7, <1>8, TableIs
<1> QED BY <1>9 DEF next, table, part, new

-----------------------------------------------------------------------------
(* The part of a tree at a place is the tree of the node there.             *)
LEMMA PartTable ==
  ASSUME NEW G \in SUBSET Edges, Determined(G), NEW h, NEW place \in Seq(Steps), NEW n, To(G, h, place, n),
         NEW shapes
  PROVE  Abstract!Part(Table(G, shapes, h), place) = Table(G, shapes, n)
<1> DEFINE table == Table(G, shapes, h)
           within == {p \in DOMAIN table : Within(p, place)}
           ways == {Onward(p, place) : p \in within}
           part == Abstract!Part(table, place)
<1>1. part = [way \in ways |-> table[place \o way]]
  BY DEF Abstract!Part, Within, Onward
<1>2. DOMAIN table = Ways(G, h)
  BY DEF Table
<1>3. ASSUME NEW on \in Seq(Steps), NEW m
      PROVE  To(G, h, place \o on, m) <=> To(G, n, on, m)
  <2>1. To(G, h, place \o on, m) <=> \E k : To(G, h, place, k) /\ To(G, k, on, m)
    BY ToOnward
  <2>2. \A k : To(G, h, place, k) => k = n
    BY ToOne
  <2> QED BY <2>1, <2>2
<1>4. ASSUME NEW way \in ways PROVE way \in Ways(G, n)
  <2>1. PICK p \in within : way = Onward(p, place)
    OBVIOUS
  <2>2. p \in Seq(Steps) /\ Within(p, place) /\ \E m : To(G, h, p, m)
    BY <1>2 DEF Ways
  <2>3. way \in Seq(Steps) /\ p = place \o way
    BY <2>1, <2>2, GoesOn
  <2> QED BY <1>3, <2>2, <2>3 DEF Ways
<1>5. ASSUME NEW way \in Seq(Steps), NEW m, To(G, n, way, m)
      PROVE  way \in ways /\ table[place \o way] = shapes[m]
  <2>1. To(G, h, place \o way, m) /\ place \o way \in Seq(Steps)
    BY <1>3, <1>5, Concatenated
  <2>2. Within(place \o way, place) /\ Onward(place \o way, place) = way
    BY GoneOn
  <2>3. place \o way \in within
    BY <1>2, <2>1, <2>2 DEF Ways
  <2>4. table[place \o way] = shapes[m]
    <3> HIDE DEF within, ways, part
    <3>1. \A p \in Seq(Steps) : To(G, h, p, m) => table[p] = shapes[m]
      BY TableAt
    <3> HIDE DEF table
    <3> QED BY <2>1, <3>1
  <2> QED BY <2>2, <2>3, <2>4
<1> HIDE DEF ways, within, table, part
<1>6. ways = Ways(G, n)
  BY <1>4, <1>5 DEF Ways
<1>7. /\ DOMAIN part = Ways(G, n) /\ part = [way \in DOMAIN part |-> part[way]]
      /\ \A way \in ways : part[way] = table[place \o way]
  BY <1>1, <1>6
<1>8. part = Table(G, shapes, n)
  BY <1>5, <1>7, TableIs
<1> QED BY <1>8 DEF part, table

(* A graph with a copy of all that is below a node.                         *)
CopiedLink(G, tree, new, m, step, x) == \E part \in tree : <<m, step, part>> \in G /\ x = new[part]
IsCopied(G, H, tree, new) ==
  \A m \in tree : \A step, x : <<new[m], step, x>> \in H <=> CopiedLink(G, tree, new, m, step, x)
CopiedTo(G, n, way, tree, new, x) == \E m \in tree : To(G, n, way, m) /\ x = new[m]

(* The ways down to the copies are those to what was copied.                *)
LEMMA CopyTo ==
  ASSUME NEW G \in SUBSET Edges, NEW H \in SUBSET Edges, NEW tree \in SUBSET Memory, NEW n \in tree,
         \A way \in Seq(Steps) : \A m : To(G, n, way, m) => m \in tree,
         NEW new \in [tree -> Memory], IsCopied(G, H, tree, new),
         NEW way \in Seq(Steps), NEW x
  PROVE  To(H, new[n], way, x) <=> CopiedTo(G, n, way, tree, new, x)
<1> DEFINE S == {some \in Seq(Steps) : \A y : To(H, new[n], some, y) <=> CopiedTo(G, n, some, tree, new, y)}
<1>1. <<>> \in S
  <2>1. \A y : To(H, new[n], <<>>, y) <=> y = new[n]
    BY ToItself
  <2>2. \A y : To(G, n, <<>>, y) <=> y = n
    BY ToItself
  <2> QED BY <2>1, <2>2 DEF CopiedTo
<1>2. ASSUME NEW some \in Seq(Steps), NEW step \in Steps, some \in S PROVE Append(some, step) \in S
  <2> DEFINE more == Append(some, step)
  <2>1. more \in Seq(Steps)
    BY Appended
  <2>2. \A y : To(H, new[n], more, y) <=> \E k : To(H, new[n], some, k) /\ <<k, step, y>> \in H
    BY ToNext
  <2>3. \A y : To(G, n, more, y) <=> \E k : To(G, n, some, k) /\ <<k, step, y>> \in G
    BY ToNext
  <2>4. \A k : To(H, new[n], some, k) <=> CopiedTo(G, n, some, tree, new, k)
    BY <1>2
  <2> HIDE DEF more, S
  <2>5. ASSUME NEW y, To(H, new[n], more, y) PROVE CopiedTo(G, n, more, tree, new, y)
    <3>1. PICK k : To(H, new[n], some, k) /\ <<k, step, y>> \in H
      BY <2>2, <2>5
    <3>2. PICK m \in tree : To(G, n, some, m) /\ k = new[m]
      BY <2>4, <3>1 DEF CopiedTo
    <3>3. PICK part \in tree : <<m, step, part>> \in G /\ y = new[part]
      <4>1. <<new[m], step, y>> \in H
        BY <3>1, <3>2
      <4>2. m \in tree
        BY <3>2
      <4>3. <<new[m], step, y>> \in H <=> CopiedLink(G, tree, new, m, step, y)
        BY <4>2 DEF IsCopied
      <4> QED BY <4>1, <4>3 DEF CopiedLink
    <3> QED BY <2>3, <3>2, <3>3 DEF CopiedTo
  <2>6. ASSUME NEW y, CopiedTo(G, n, more, tree, new, y) PROVE To(H, new[n], more, y)
    <3>1. PICK part \in tree : To(G, n, more, part) /\ y = new[part]
      BY <2>6 DEF CopiedTo
    <3>2. PICK m : To(G, n, some, m) /\ <<m, step, part>> \in G
      BY <2>3, <3>1
    <3>3. m \in tree
      BY <3>2
    <3>4. <<new[m], step, y>> \in H
      BY <3>1, <3>2, <3>3 DEF IsCopied, CopiedLink
    <3>5. To(H, new[n], some, new[m])
      BY <2>4, <3>2, <3>3 DEF CopiedTo
    <3> QED BY <2>2, <3>4, <3>5
  <2>7. more \in S
    BY <2>1, <2>5, <2>6 DEF S
  <2> QED BY <2>7 DEF more
<1> HIDE DEF S
<1>3. way \in S
  BY <1>1, <1>2, WaysInduction
<1> QED BY <1>3 DEF S

CopiedShape(shape) == IF shape.type \in {"Value", "Array", "Map"} THEN shape ELSE Null

LEMMA CopyTable ==
  ASSUME NEW G \in SUBSET Edges, NEW H \in SUBSET Edges, Determined(G), Determined(H),
         NEW tree \in SUBSET Memory, NEW n \in tree,
         \A way \in Seq(Steps) : \A m : To(G, n, way, m) => m \in tree,
         NEW new \in [tree -> Memory], IsCopied(G, H, tree, new),
         NEW shapes, NEW others, \A m \in tree : others[new[m]] = CopiedShape(shapes[m])
  PROVE  Table(H, others, new[n]) = Abstract!Copied(Table(G, shapes, n))
<1> DEFINE table == Table(G, shapes, n)
           copy == Abstract!Copied(table)
<1>1. \A way \in Seq(Steps) : \A x : To(H, new[n], way, x) <=> CopiedTo(G, n, way, tree, new, x)
  BY CopyTo
<1>2. DOMAIN table = Ways(G, n)
  BY DEF Table
<1>3. copy = [p \in DOMAIN table |-> CopiedShape(table[p])]
  BY DEF Abstract!Copied, CopiedShape, Abstract!Null, Null
<1> HIDE DEF table, copy
<1>4. Ways(G, n) = Ways(H, new[n])
  BY <1>1 DEF Ways, CopiedTo
<1>5. ASSUME NEW way \in Seq(Steps), NEW x, To(H, new[n], way, x)
      PROVE  copy[way] = others[x]
  <2>1. PICK m \in tree : To(G, n, way, m) /\ x = new[m]
    BY <1>1, <1>5 DEF CopiedTo
  <2>2. way \in Ways(G, n)
    BY <2>1 DEF Ways
  <2>3. table[way] = shapes[m]
    BY <2>1, TableAt DEF table
  <2> QED BY <1>2, <1>3, <2>1, <2>2, <2>3
<1>6. DOMAIN copy = Ways(H, new[n]) /\ copy = [way \in DOMAIN copy |-> copy[way]]
  BY <1>2, <1>3, <1>4
<1>7. copy = Table(H, others, new[n])
  BY <1>5, <1>6, TableIs
<1> QED BY <1>7 DEF copy, table

-----------------------------------------------------------------------------
(* The trees that stand for what the caller owns.                           *)
Grove == [n \in owned |-> Denotes[n]]
Grown ==
  /\ Down \in SUBSET Edges /\ Determined(Down)
  /\ \A p, step, m : <<p, step, m>> \in Down <=> Links(p, step, m)
  /\ Shapes = [n \in Memory |-> Shape(heap[n])]
  /\ Grove = [n \in owned |-> Table(Down, Shapes, n)]

LEMMA Groves == NodesInv => Grown
<1> SUFFICES ASSUME NodesInv PROVE Grown
  OBVIOUS
<1>1. Down \in SUBSET Edges /\ Determined(Down) /\ \A p, step, m : <<p, step, m>> \in Down <=> Links(p, step, m)
  BY InDown, DownIs
<1>2. \A n \in owned : Denotes[n] = Table(Down, Shapes, n)
  BY DenotesTables DEF NodesInv, Forest, Live
<1> QED BY <1>1, <1>2 DEF Grown, Grove, Shapes

LEMMA GrovesNext == NodesInv' => Grown'
<1>1. NodesInv => Grown
  BY Groves
<1> QED BY <1>1, PTL

(* What a call does not touch keeps its tree.                               *)
LEMMA Untouched ==
  ASSUME NodesInv, NodesInv', NEW k \in owned, \A x \in Tree(k) : heap'[x] = heap[x]
  PROVE  Table(Down', Shapes', k) = Table(Down, Shapes, k)
<1>1. Grown /\ Grown' /\ k \in Memory
  BY Groves, GrovesNext DEF NodesInv, Forest, Live
<1>2. PICK G, shapes : G = Down /\ shapes = Shapes
  OBVIOUS
<1>3. PICK H, others : H = Down' /\ others = Shapes'
  OBVIOUS
<1>4. ASSUME NEW way \in Seq(Steps), NEW x, To(G, k, way, x)
      PROVE  others[x] = shapes[x] /\ \A step, m : <<x, step, m>> \in G <=> <<x, step, m>> \in H
  <2>1. x \in Tree(k) /\ x \in Memory
    BY <1>1, <1>2, <1>4, ReachedIn, ToMemory DEF Grown
  <2>2. heap'[x] = heap[x]
    BY <2>1
  <2>3. others[x] = shapes[x]
    BY <1>1, <1>2, <1>3, <2>1, <2>2 DEF Grown, Shape
  <2>4. \A step, m : Links(x, step, m)' <=> Links(x, step, m)
    BY <2>2, SameLinks
  <2> QED BY <1>1, <1>2, <1>3, <2>3, <2>4 DEF Grown
<1>5. G \in SUBSET Edges /\ H \in SUBSET Edges /\ Determined(G) /\ Determined(H)
  BY <1>1, <1>2, <1>3 DEF Grown
<1>6. Table(H, others, k) = Table(G, shapes, k)
  BY <1>4, <1>5, SameTable
<1> QED BY <1>2, <1>3, <1>6

LEMMA Apart ==
  ASSUME Forest, NEW h \in owned, NEW k \in owned, h # k
  PROVE  Tree(h) \cap Tree(k) = {}
<1> DEFINE S == Tree(k) \ Tree(h)
<1>1. /\ h \in Live /\ k \in Live /\ h \in Memory /\ k \in Memory
      /\ Tree(k) \subseteq Memory /\ k \in Tree(k)
      /\ \A p, place, m : Links(p, place, m) /\ p \in Tree(k) => m \in Tree(k)
  BY TreeClosed DEF Forest, Live
<1>2. k \in S
  BY <1>1, OneRoot DEF Roots
<1>3. ASSUME NEW p, NEW place, NEW m, Links(p, place, m), p \in S PROVE m \in S
  <2>1. m \in Tree(k) /\ m \notin Roots
    BY <1>1, <1>3 DEF Forest
  <2>2. m \notin Tree(h)
    BY <1>1, <1>3, <2>1, EntersAtRoot DEF Roots
  <2> QED BY <2>1, <2>2
<1>4. Tree(k) \subseteq S
  BY <1>1, <1>2, <1>3, TreeLeast
<1> QED BY <1>4

(* What a caller reaches is at a place of a tree it owns.                   *)
LEMMA ReachedAt ==
  ASSUME NodesInv, NEW n \in Reachable
  PROVE  \E h \in owned : \E place \in Seq(Steps) : n \in Tree(h) /\ To(Down, h, place, n)
<1>1. PICK h \in owned : n \in Tree(h)
  BY DEF Reachable
<1>2. h \in Memory
  BY DEF NodesInv, Forest, Live
<1>3. PICK place \in Seq(Steps) : To(Down, h, place, n)
  BY <1>1, <1>2, InReach
<1> QED BY <1>1, <1>3

(* A node without parts is one place.                                       *)
LEMMA BareTable ==
  ASSUME NEW H \in SUBSET Edges, Determined(H), NEW n \in Memory, \A step, m : <<n, step, m>> \notin H, NEW others
  PROVE  Table(H, others, n) = [place \in {<<>>} |-> others[n]]
<1> DEFINE table == [place \in {<<>>} |-> others[n]]
<1>1. ASSUME NEW way \in Seq(Steps), NEW m, To(H, n, way, m) PROVE way = <<>> /\ m = n
  <2>1. CASE way = <<>>
    BY <1>1, <2>1, ToItself
  <2>2. CASE way # <<>>
    <3>1. Head(way) \in Steps /\ Tail(way) \in Seq(Steps) /\ way = <<Head(way)>> \o Tail(way) /\ <<Head(way)>> \in Seq(Steps)
      BY <2>2, Later
    <3>2. PICK k : To(H, n, <<Head(way)>>, k)
      <4> DEFINE first == <<Head(way)>>
                 rest == Tail(way)
      <4>1. first \in Seq(Steps) /\ rest \in Seq(Steps) /\ To(H, n, first \o rest, m)
        BY <1>1, <3>1
      <4> HIDE DEF first, rest
      <4>2. \E k : To(H, n, first, k) /\ To(H, k, rest, m)
        BY <4>1, ToOnward
      <4> QED BY <4>2 DEF first
    <3>3. <<n, Head(way), k>> \in H
      BY <3>1, <3>2, ToStep
    <3> QED BY <3>3
  <2> QED BY <2>1, <2>2
<1>2. To(H, n, <<>>, n) /\ <<>> \in Seq(Steps)
  BY ToItself
<1>3. DOMAIN table = Ways(H, n)
  BY <1>1, <1>2 DEF Ways
<1>4. table = [way \in DOMAIN table |-> table[way]]
  OBVIOUS
<1>5. \A way \in Seq(Steps) : \A m : To(H, n, way, m) => table[way] = others[m]
  BY <1>1
<1> HIDE DEF table
<1>6. table = Table(H, others, n)
  BY <1>3, <1>4, <1>5, TableIs
<1> QED BY <1>6 DEF table

-----------------------------------------------------------------------------
LEMMA NewTree ==
  ASSUME NodesInv, NodesInv', NEW r \in Memory \ owned, owned' = owned \cup {r},
         \A k \in owned : Table(Down', Shapes', k) = Table(Down, Shapes, k),
         NEW tree, Table(Down', Shapes', r) = tree
  PROVE  Abstract!New(tree)
<1>1. Grove = [k \in owned |-> Table(Down, Shapes, k)] /\ Grove' = [k \in owned' |-> Table(Down', Shapes', k)]
  BY Groves, GrovesNext DEF Grown
<1>2. Grove' = [k \in owned \cup {r} |-> IF k = r THEN tree ELSE Grove[k]]
  BY <1>1
<1>3. DOMAIN Grove = owned
  BY <1>1
<1>4. \E h \in Memory \ DOMAIN Grove : Grove' = [k \in DOMAIN Grove \cup {h} |-> IF k = h THEN tree ELSE Grove[k]]
  BY <1>2, <1>3
<1> QED BY <1>4 DEF Abstract!New, Abstract!Held, Grove

LEMMA NextTree ==
  ASSUME NodesInv, NodesInv', NEW h \in owned, owned' = owned,
         \A k \in owned \ {h} : Table(Down', Shapes', k) = Table(Down, Shapes, k),
         NEW tree, Table(Down', Shapes', h) = tree
  PROVE  Grove' = [Grove EXCEPT ![h] = tree]
<1>1. Grove = [k \in owned |-> Table(Down, Shapes, k)] /\ Grove' = [k \in owned' |-> Table(Down', Shapes', k)]
  BY Groves, GrovesNext DEF Grown
<1>2. Grove' = [Grove EXCEPT ![h] = tree]
  BY <1>1
<1> QED BY <1>2

(* The calls, one by one. *)
LEMMA Creates ==
  ASSUME NodesInv, NodesInv', NEW node, IsLeaf(node), Create(node)
  PROVE  Abstract!New([place \in {<<>>} |-> node])
<1>1. PICK n \in Memory \ Live : heap' = [heap EXCEPT ![n] = node] /\ owned' = owned \cup {n}
  BY DEF Create
<1>2. Forest /\ heap = [m \in Memory |-> heap[m]] /\ owned \subseteq Live /\ n \in Memory /\ n \notin Live
  BY DEF NodesInv, HeapOK, Forest
<1>3. heap'[n] = node /\ \A m \in Live : heap'[m] = heap[m]
  BY <1>1, <1>2 DEF Live
<1>4. ASSUME NEW k \in owned PROVE Table(Down', Shapes', k) = Table(Down, Shapes, k)
  <2>1. \A x \in Tree(k) : heap'[x] = heap[x]
    BY <1>2, <1>3, TreeAlive
  <2> QED BY <2>1, Untouched
<1>5. Table(Down', Shapes', n) = [place \in {<<>>} |-> node]
  <2>1. Grown'
    BY GrovesNext
  <2>2. PICK H, others : H = Down' /\ others = Shapes'
    OBVIOUS
  <2>3. \A step, m : ~Links(n, step, m)'
    BY <1>3, LeafLinksNext
  <2>4. H \in SUBSET Edges /\ Determined(H) /\ \A step, m : <<n, step, m>> \notin H
    BY <2>1, <2>2, <2>3 DEF Grown
  <2>5. Table(H, others, n) = [place \in {<<>>} |-> others[n]]
    BY <1>2, <2>4, BareTable
  <2>6. others[n] = Shape(node)
    BY <1>2, <1>3, <2>1, <2>2 DEF Grown, Shape
  <2>7. Shape(node) = node
    BY Kinds DEF Shape, IsLeaf
  <2> QED BY <2>2, <2>5, <2>6, <2>7
<1>6. n \in Memory \ owned
  BY <1>2
<1>7. PICK tree : tree = [place \in {<<>>} |-> node]
  OBVIOUS
<1>8. owned' = owned \cup {n} /\ \A k \in owned : Table(Down', Shapes', k) = Table(Down, Shapes, k)
  BY <1>1, <1>4
<1>9. Table(Down', Shapes', n) = tree
  BY <1>5, <1>7
<1>10. NodesInv /\ NodesInv'
  OBVIOUS
<1>11. Abstract!New(tree)
  BY ONLY <1>6, <1>8, <1>9, <1>10, NewTree
<1> QED BY <1>7, <1>11

LEMMA Destroys ==
  ASSUME NodesInv, NodesInv', NEW n \in owned, FreedAround(n, Free), owned' = owned \ {n}
  PROVE  Abstract!Destroy
<1>1. Forest /\ owned \subseteq Live
  BY DEF NodesInv, Forest
<1>2. ASSUME NEW k \in owned \ {n} PROVE Table(Down', Shapes', k) = Table(Down, Shapes, k)
  <2>1. \A x \in Tree(k) : x \notin Tree(n) /\ x \in Memory
    BY <1>1, Apart, TreeClosed DEF Live
  <2>2. n \in Tree(n)
    BY <1>1, TreeClosed DEF Live
  <2>3. \A x \in Tree(k) : heap'[x] = heap[x]
    BY <2>1, <2>2 DEF FreedAround, Freed
  <2> QED BY <2>3, Untouched
<1>3. Grove = [k \in owned |-> Table(Down, Shapes, k)] /\ Grove' = [k \in owned' |-> Table(Down', Shapes', k)]
  BY Groves, GrovesNext DEF Grown
<1>4. DOMAIN Grove = owned /\ Grove' = [k \in owned \ {n} |-> Grove[k]]
  BY <1>2, <1>3
<1>5. \E h \in DOMAIN Grove : Grove' = [k \in DOMAIN Grove \ {h} |-> Grove[k]]
  BY <1>4
<1> QED BY <1>5 DEF Abstract!Destroy, Abstract!Held, Abstract!Restrict, Grove

-----------------------------------------------------------------------------
(* A node becomes a leaf, or empty: what was below it is gone.              *)
LEMMA CutStep ==
  ASSUME NodesInv, NodesInv', NEW h \in owned, NEW place \in Seq(Steps), NEW n, n \in Tree(h),
         To(Down, h, place, n), NEW part, part \subseteq Tree(n), n \in part,
         \A p, step, m : Links(p, step, m)' <=> p \notin part /\ Links(p, step, m),
         \A m \in Memory \ part : heap'[m] = heap[m],
         owned' = owned, NEW new, new = Shape(heap'[n])
  PROVE  /\ place \in DOMAIN Grove[h] /\ Grove[h][place] = Shape(heap[n])
         /\ Grove' = [Grove EXCEPT ![h] = Abstract!Replaced(Grove[h], place, new)]
<1>1. /\ Grown /\ Grown' /\ Forest
      /\ owned \subseteq Live /\ h \in Live /\ h \in Memory
  BY Groves, GrovesNext DEF NodesInv, Forest, Live
<1>2. PICK G, shapes : G = Down /\ shapes = Shapes
  OBVIOUS
<1>3. PICK H, others : H = Down' /\ others = Shapes'
  OBVIOUS
<1>4. n \in Live /\ n \in Memory /\ Tree(n) \subseteq Tree(h)
  <2>1. n \in Live /\ n \in Memory
    BY <1>1, TreeAlive DEF Live
  <2>2. /\ Tree(h) \in SUBSET Memory
        /\ \A p, at, m : Links(p, at, m) /\ p \in Tree(h) => m \in Tree(h)
    BY <1>1, TreeClosed
  <2>3. Tree(n) \subseteq Tree(h)
    BY <2>2, TreeLeast
  <2> QED BY <2>1, <2>3
<1>5. ASSUME NEW k \in owned \ {h} PROVE Table(Down', Shapes', k) = Table(Down, Shapes, k)
  <2>1. \A x \in Tree(k) : x \notin part /\ x \in Memory
    BY <1>1, <1>4, Apart, TreeClosed DEF Live
  <2> QED BY <2>1, Untouched
<1>6. G \in SUBSET Edges /\ H \in SUBSET Edges /\ Determined(G) /\ Single(G) /\ Determined(H) /\ IsTop(G, h)
  BY <1>1, <1>2, <1>3, DownIs DEF Grown
<1>7. IsCut(G, H, part)
  BY <1>1, <1>2, <1>3 DEF IsCut, Grown
<1>8. \A k \in part : \E on \in Seq(Steps) : To(G, n, on, k)
  BY <1>2, <1>4, InReach
<1>9. \A k \in Memory \ part : others[k] = shapes[k]
  BY <1>1, <1>2, <1>3 DEF Grown, Shape
<1>10. To(G, h, place, n) /\ n \in part
  BY <1>2
<1>11. Table(H, others, h) = Abstract!Replaced(Table(G, shapes, h), place, others[n])
  BY ONLY <1>6, <1>7, <1>8, <1>9, <1>10, place \in Seq(Steps), CutTable
<1>12. others[n] = new /\ shapes[n] = Shape(heap[n])
  BY <1>1, <1>2, <1>3, <1>4 DEF Grown, Shape
<1>13. Grove[h] = Table(G, shapes, h)
  BY <1>1, <1>2 DEF Grown
<1>14. PICK tree : tree = Abstract!Replaced(Grove[h], place, new)
  OBVIOUS
<1>15. Table(Down', Shapes', h) = tree
  BY <1>3, <1>11, <1>12, <1>13, <1>14
<1>16. Grove' = [Grove EXCEPT ![h] = tree]
  <2>1. \A k \in owned \ {h} : Table(Down', Shapes', k) = Table(Down, Shapes, k)
    BY <1>5
  <2>2. NodesInv /\ NodesInv' /\ h \in owned /\ owned' = owned
    OBVIOUS
  <2> QED BY ONLY <1>15, <2>1, <2>2, NextTree
<1>17. place \in DOMAIN Table(G, shapes, h) /\ Table(G, shapes, h)[place] = shapes[n]
  <2>1. place \in Ways(G, h)
    BY <1>10 DEF Ways
  <2>2. Table(G, shapes, h)[place] = shapes[n]
    BY <1>6, <1>10, TableAt
  <2> QED BY <2>1, <2>2 DEF Table
<1> QED BY <1>12, <1>13, <1>14, <1>16, <1>17

LEMMA Changes ==
  ASSUME NodesInv, NodesInv', changeType
  PROVE  Abstract!Change
<1>1. PICK n \in Reachable : \E type \in Types : FreedAround(n, Empty(type))
  BY DEF changeType, FreedAround
<1>2. PICK type \in Types : FreedAround(n, Empty(type))
  BY <1>1
<1>3. owned' = owned
  BY DEF changeType
<1>4. PICK h \in owned : \E place \in Seq(Steps) : n \in Tree(h) /\ To(Down, h, place, n)
  BY <1>1, ReachedAt
<1>5. PICK place \in Seq(Steps) : n \in Tree(h) /\ To(Down, h, place, n)
  BY <1>4
<1>6. n \in Live /\ n \in Memory /\ Forest
  BY <1>1, ReachableAlive DEF NodesInv
<1>7. IsBare(Empty(type))
  BY UnsetAssumption DEF Types, Empty, IsBare, IsLeaf, Invalid, Null
<1>8. \A p, step, m : Links(p, step, m)' <=> p \notin Tree(n) /\ Links(p, step, m)
  BY <1>2, <1>6, <1>7, FreedLinks
<1>9. n \in Tree(n)
  BY <1>6, TreeClosed
<1>10. heap'[n] = Empty(type) /\ \A m \in Memory \ Tree(n) : heap'[m] = heap[m]
  BY <1>2, <1>6, <1>9 DEF FreedAround, Freed
<1>11. PICK new : new = Shape(heap'[n])
  OBVIOUS
<1>12. place \in DOMAIN Grove[h] /\ Grove' = [Grove EXCEPT ![h] = Abstract!Replaced(Grove[h], place, new)]
  <2> DEFINE part == Tree(n)
  <2>1. part \subseteq Tree(n) /\ n \in part /\ \A m \in Memory \ part : heap'[m] = heap[m]
    BY <1>9, <1>10
  <2>2. \A p, step, m : Links(p, step, m)' <=> p \notin part /\ Links(p, step, m)
    BY <1>8
  <2> HIDE DEF part
  <2> QED BY <1>3, <1>5, <1>11, <2>1, <2>2, CutStep
<1>13. new \in Abstract!Empties
  <2>1. new = Shape(Empty(type))
    BY <1>10, <1>11
  <2>2. CASE type = "Array"
    <3>1. new = [type |-> "Array", count |-> Len(<<>>)]
      BY <2>1, <2>2 DEF Shape, Empty, Array
    <3> QED BY <3>1 DEF Abstract!Empties, Abstract!ArrayOf
  <2>3. CASE type = "Map"
    BY <2>1, <2>3 DEF Shape, Empty, Map, Abstract!Empties, Abstract!AMap
  <2>4. CASE type = "Value"
    BY <2>1, <2>4 DEF Shape, Empty, Value, Abstract!Empties, Abstract!Value
  <2>5. CASE type = "BinaryData"
    BY <2>1, <2>5 DEF Shape, Empty, BinaryData, Abstract!Empties, Abstract!BinaryData
  <2>6. CASE type = "Invalid" \/ type = "Null"
    BY <2>1, <2>6 DEF Shape, Empty, Abstract!Empties, Abstract!Invalid, Abstract!Null
  <2> QED BY <2>2, <2>3, <2>4, <2>5, <2>6 DEF Types
<1>14. \E k \in DOMAIN Grove : \E at \in DOMAIN Grove[k], leaf \in Abstract!Empties :
         Grove' = [Grove EXCEPT ![k] = Abstract!Replaced(Grove[k], at, leaf)]
  <2>1. DOMAIN Grove = owned
    BY DEF Grove
  <2> QED BY <1>12, <1>13, <2>1
<1> QED BY <1>14 DEF Abstract!Change, Abstract!Held, Abstract!Becomes, Grove

-----------------------------------------------------------------------------
(* A leaf becomes another one. *)
LEMMA SetStep ==
  ASSUME NodesInv, NodesInv', NEW n \in Reachable, IsLeaf(heap[n]), NEW node, IsLeaf(node), Set(n, node),
         owned' = owned
  PROVE  \E h \in DOMAIN Grove : \E place \in DOMAIN Grove[h] :
           /\ Grove[h][place] = heap[n]
           /\ Grove' = [Grove EXCEPT ![h] = Abstract!Replaced(Grove[h], place, node)]
<1>1. PICK h \in owned : \E place \in Seq(Steps) : n \in Tree(h) /\ To(Down, h, place, n)
  BY ReachedAt
<1>2. PICK place \in Seq(Steps) : n \in Tree(h) /\ To(Down, h, place, n)
  BY <1>1
<1>3. n \in Live /\ n \in Memory /\ Forest /\ HeapOK
  BY ReachableAlive DEF NodesInv
<1>4. n \in Tree(n)
  BY <1>3, TreeClosed
<1>5. heap'[n] = node /\ \A m \in Memory \ {n} : heap'[m] = heap[m]
  BY <1>3 DEF Set, HeapOK
<1>6. \A p, step, m : Links(p, step, m)' <=> p \notin {n} /\ Links(p, step, m)
  <2>1. ASSUME NEW p, p # n, NEW step, NEW m PROVE Links(p, step, m)' <=> Links(p, step, m)
    <3>1. CASE p \in Memory
      BY <1>5, <2>1, <3>1, SameLinks
    <3>2. CASE p \notin Memory
      BY <3>2 DEF Links
    <3> QED BY <3>1, <3>2
  <2>2. \A step, m : ~Links(n, step, m)'
    BY <1>5, LeafLinksNext
  <2> QED BY <2>1, <2>2
<1>7. Shape(node) = node /\ Shape(heap[n]) = heap[n]
  BY Kinds DEF Shape, IsLeaf
<1>8. /\ place \in DOMAIN Grove[h] /\ Grove[h][place] = Shape(heap[n])
      /\ Grove' = [Grove EXCEPT ![h] = Abstract!Replaced(Grove[h], place, node)]
  <2> DEFINE part == {n}
  <2>1. part \subseteq Tree(n) /\ n \in part /\ \A m \in Memory \ part : heap'[m] = heap[m]
    BY <1>4, <1>5
  <2>2. \A p, step, m : Links(p, step, m)' <=> p \notin part /\ Links(p, step, m)
    BY <1>6
  <2>3. node = Shape(heap'[n])
    BY <1>5, <1>7
  <2> HIDE DEF part
  <2> QED BY <1>2, <2>1, <2>2, <2>3, CutStep
<1> QED BY <1>7, <1>8 DEF Grove

LEMMA ValueSets ==
  ASSUME NodesInv, NodesInv', valueSet
  PROVE  Abstract!SetData
<1>1. PICK n \in Reachable, text \in Texts : heap[n].type = "Value" /\ Set(n, Value(text))
  BY DEF valueSet
<1>2. IsLeaf(heap[n]) /\ IsLeaf(Value(text)) /\ owned' = owned /\ n \in Memory
  BY <1>1, Kinds, ReachableAlive DEF NodesInv, HeapOK, IsArray, IsMap, valueSet, IsLeaf, Texts
<1>3. PICK node : node = Value(text)
  OBVIOUS
<1>4. PICK h \in DOMAIN Grove : \E place \in DOMAIN Grove[h] :
           /\ Grove[h][place] = heap[n]
           /\ Grove' = [Grove EXCEPT ![h] = Abstract!Replaced(Grove[h], place, node)]
  BY <1>1, <1>2, <1>3, SetStep
<1>5. PICK place \in DOMAIN Grove[h] :
           /\ Grove[h][place] = heap[n]
           /\ Grove' = [Grove EXCEPT ![h] = Abstract!Replaced(Grove[h], place, node)]
  BY <1>4
<1>6. Grove[h][place].type = node.type
  BY <1>1, <1>3, <1>5, Kinds
<1>7. node \in {Abstract!Value(data) : data \in Abstract!Texts}
  BY <1>3 DEF Value, Abstract!Value, Abstract!Texts, Texts
<1>8. \E k \in DOMAIN Grove : \E at \in DOMAIN Grove[k] :
        \E new \in {Abstract!Value(data) : data \in Abstract!Texts} \cup {Abstract!BinaryData(blob) : blob \in Blobs} :
          Grove[k][at].type = new.type /\ Grove' = [Grove EXCEPT ![k] = Abstract!Replaced(Grove[k], at, new)]
  BY <1>5, <1>6, <1>7
<1> QED BY <1>8 DEF Abstract!SetData, Abstract!Held, Abstract!Becomes, Grove

LEMMA BlobSets ==
  ASSUME NodesInv, NodesInv', binaryData_setValue
  PROVE  Abstract!SetData
<1>1. PICK n \in Reachable, blob \in Blobs : heap[n].type = "BinaryData" /\ Set(n, BinaryData(blob))
  BY DEF binaryData_setValue
<1>2. IsLeaf(heap[n]) /\ IsLeaf(BinaryData(blob)) /\ owned' = owned /\ n \in Memory
  BY <1>1, Kinds, ReachableAlive DEF NodesInv, HeapOK, IsArray, IsMap, binaryData_setValue, IsLeaf
<1>3. PICK node : node = BinaryData(blob)
  OBVIOUS
<1>4. PICK h \in DOMAIN Grove : \E place \in DOMAIN Grove[h] :
           /\ Grove[h][place] = heap[n]
           /\ Grove' = [Grove EXCEPT ![h] = Abstract!Replaced(Grove[h], place, node)]
  BY <1>1, <1>2, <1>3, SetStep
<1>5. PICK place \in DOMAIN Grove[h] :
           /\ Grove[h][place] = heap[n]
           /\ Grove' = [Grove EXCEPT ![h] = Abstract!Replaced(Grove[h], place, node)]
  BY <1>4
<1>6. Grove[h][place].type = node.type
  BY <1>1, <1>3, <1>5, Kinds
<1>7. node \in {Abstract!BinaryData(data) : data \in Blobs}
  BY <1>1, <1>3 DEF BinaryData, Abstract!BinaryData
<1>8. \E k \in DOMAIN Grove : \E at \in DOMAIN Grove[k] :
        \E new \in {Abstract!Value(data) : data \in Abstract!Texts} \cup {Abstract!BinaryData(data) : data \in Blobs} :
          Grove[k][at].type = new.type /\ Grove' = [Grove EXCEPT ![k] = Abstract!Replaced(Grove[k], at, new)]
  BY <1>5, <1>6, <1>7
<1> QED BY <1>8 DEF Abstract!SetData, Abstract!Held, Abstract!Becomes, Grove

-----------------------------------------------------------------------------
(* What a caller owned becomes a part of something it owns.                 *)
Linked(n, at, element) ==
  /\ \A p, step, m : Links(p, step, m)' <=> IF p = n /\ step = at THEN m = element ELSE Links(p, step, m)
  /\ \A m \in Memory \ {n} : heap'[m] = heap[m]

GivenTo(h, place, n, new, at, element) ==
  /\ place \in DOMAIN Grove[h] /\ Grove[h][place] = Shape(heap[n]) /\ element # h
  /\ Grove' = [k \in owned \ {element} |->
                 IF k = h THEN Abstract!Joined(Grove[h], place, new, at, Grove[element]) ELSE Grove[k]]

LEMMA JoinStep ==
  ASSUME NodesInv, NodesInv', NEW h \in owned, NEW place \in Seq(Steps), NEW n \in Tree(h),
         To(Down, h, place, n), NEW at \in Steps, NEW element \in owned, n \notin Tree(element),
         Linked(n, at, element), owned' = owned \ {element}, NEW new, new = Shape(heap'[n])
  PROVE  GivenTo(h, place, n, new, at, element)
<1>1. /\ Grown /\ Grown' /\ Forest
      /\ owned \subseteq Live /\ h \in Live /\ h \in Memory /\ element \in Memory /\ n \in Memory
  BY Groves, GrovesNext, TreeClosed DEF NodesInv, Forest, Live
<1>2. PICK G, shapes : G = Down /\ shapes = Shapes
  OBVIOUS
<1>3. PICK H, others : H = Down' /\ others = Shapes'
  OBVIOUS
<1>4. element # h
  OBVIOUS
<1>5. ASSUME NEW k \in owned \ {h, element} PROVE Table(Down', Shapes', k) = Table(Down, Shapes, k)
  <2>1. \A x \in Tree(k) : x # n /\ x \in Memory
    BY <1>1, Apart, TreeClosed DEF Live
  <2> QED BY <2>1, Untouched DEF Linked
<1>6. G \in SUBSET Edges /\ H \in SUBSET Edges /\ Determined(G) /\ Single(G) /\ Determined(H) /\ IsTop(G, h)
  BY <1>1, <1>2, <1>3, DownIs DEF Grown
<1>7. IsJoined(G, H, n, at, element)
  BY <1>1, <1>2, <1>3 DEF IsJoined, Grown, Linked
<1>8. \A on \in Seq(Steps) : ~To(G, element, on, n)
  BY <1>1, <1>2, ReachedIn
<1>9. \A k \in Memory \ {n} : others[k] = shapes[k]
  BY <1>1, <1>2, <1>3 DEF Grown, Shape, Linked
<1>10. To(G, h, place, n)
  BY <1>2
<1>11. Table(H, others, h) = Abstract!Joined(Table(G, shapes, h), place, others[n], at, Table(G, shapes, element))
  BY ONLY <1>1, <1>6, <1>7, <1>8, <1>9, <1>10, place \in Seq(Steps), at \in Steps, JoinTable
<1>12. others[n] = new /\ shapes[n] = Shape(heap[n])
  BY <1>1, <1>2, <1>3 DEF Grown, Shape
<1>13. Grove[h] = Table(G, shapes, h) /\ Grove[element] = Table(G, shapes, element)
  BY <1>1, <1>2 DEF Grown
<1>14. PICK tree : tree = Abstract!Joined(Grove[h], place, new, at, Grove[element])
  OBVIOUS
<1>15. Table(Down', Shapes', h) = tree
  BY <1>3, <1>11, <1>12, <1>13, <1>14
<1>16. Grove' = [k \in owned \ {element} |-> IF k = h THEN tree ELSE Grove[k]]
  BY <1>1, <1>5, <1>15 DEF Grown
<1>17. place \in DOMAIN Table(G, shapes, h) /\ Table(G, shapes, h)[place] = shapes[n]
  <2>1. place \in Ways(G, h)
    BY <1>10 DEF Ways
  <2>2. Table(G, shapes, h)[place] = shapes[n]
    BY <1>6, <1>10, TableAt
  <2> QED BY <2>1, <2>2 DEF Table
<1> QED BY <1>4, <1>12, <1>13, <1>14, <1>16, <1>17 DEF GivenTo

-----------------------------------------------------------------------------
LEMMA ArrayAdds ==
  ASSUME NodesInv, NodesInv', arrayAddElementToEnd
  PROVE  Abstract!Extend
<1>1. PICK n \in Reachable, element \in owned :
        heap[n].type = "Array" /\ Give(n, element) /\ Set(n, Array(Append(heap[n].list, element)))
  BY DEF arrayAddElementToEnd
<1>2. /\ Forest /\ HeapOK /\ n \in Memory /\ element \in Memory
      /\ n \notin Tree(element) /\ owned' = owned \ {element}
  BY <1>1, ReachableAlive DEF NodesInv, Forest, Live, Give
<1>3. PICK h \in owned : \E place \in Seq(Steps) : n \in Tree(h) /\ To(Down, h, place, n)
  BY <1>1, ReachedAt
<1>4. PICK place \in Seq(Steps) : n \in Tree(h) /\ To(Down, h, place, n)
  BY <1>3
<1>5. IsArray(heap[n])
  BY <1>1, <1>2, Kinds DEF HeapOK, IsLeaf, IsMap
<1>6. PICK list \in Seq(Memory) : heap[n] = Array(list)
  BY <1>5 DEF IsArray
<1>7. PICK more : more = Append(list, element)
  OBVIOUS
<1>8. PICK at : at = Len(list) + 1
  OBVIOUS
<1>9. /\ more \in Seq(Memory) /\ DOMAIN list = 1..Len(list) /\ DOMAIN more = 1..at /\ Len(list) \in Nat
      /\ more[at] = element /\ (\A i \in 1..Len(list) : more[i] = list[i]) /\ Len(more) = at
  BY <1>2, <1>7, <1>8
<1>10. at \in Steps
  BY <1>8, <1>9 DEF Steps
<1>11. heap[n].list = list
  BY <1>6, Kinds
<1>12. heap'[n] = Array(more) /\ \A m \in Memory \ {n} : heap'[m] = heap[m]
  BY <1>1, <1>2, <1>7, <1>11 DEF Set, HeapOK
<1>13. \A step, m : Links(n, step, m) <=> step \in DOMAIN list /\ m = list[step]
  BY <1>2, <1>6, ArrayLinks
<1>14. \A step, m : Links(n, step, m)' <=> step \in DOMAIN more /\ m = more[step]
  BY <1>2, <1>12, Kinds DEF Links, Places, PartAt
<1>15. \A step, m : Links(n, step, m)' <=> IF step = at THEN m = element ELSE Links(n, step, m)
  BY <1>8, <1>9, <1>13, <1>14
<1>16. \A p, step, m : Links(p, step, m)' <=> IF p = n /\ step = at THEN m = element ELSE Links(p, step, m)
  <2>1. ASSUME NEW p, p # n, NEW step, NEW m PROVE Links(p, step, m)' <=> Links(p, step, m)
    <3>1. CASE p \in Memory
      BY <1>12, <2>1, <3>1, SameLinks
    <3>2. CASE p \notin Memory
      BY <3>2 DEF Links
    <3> QED BY <3>1, <3>2
  <2> QED BY <1>15, <2>1
<1>17. PICK new : new = Shape(heap'[n])
  OBVIOUS
<1>18. new = Abstract!ArrayOf(at) /\ Shape(heap[n]) = Abstract!ArrayOf(Len(list))
  BY <1>6, <1>9, <1>12, <1>17 DEF Shape, Array, Abstract!ArrayOf
<1>19. /\ place \in DOMAIN Grove[h] /\ Grove[h][place] = Shape(heap[n]) /\ element # h
       /\ Grove' = [k \in owned \ {element} |->
                      IF k = h THEN Abstract!Joined(Grove[h], place, new, at, Grove[element]) ELSE Grove[k]]
  <2>1. h \in owned /\ element \in owned /\ n \in Tree(h) /\ n \notin Tree(element)
    BY <1>1, <1>2, <1>3, <1>4
  <2>2. NodesInv /\ NodesInv' /\ place \in Seq(Steps) /\ To(Down, h, place, n) /\ owned' = owned \ {element}
    BY <1>2, <1>4
  <2>3. Linked(n, at, element)
    BY <1>12, <1>16 DEF Linked
  <2>4. GivenTo(h, place, n, new, at, element)
    BY ONLY <1>10, <1>17, <2>1, <2>2, <2>3, JoinStep
  <2> QED BY <2>4 DEF GivenTo
<1>20. DOMAIN Grove = owned
  BY DEF Grove
<1>21. Grove[h][place].type = "Array" /\ Grove[h][place].count = Len(list)
  BY <1>18, <1>19 DEF Abstract!ArrayOf
<1>22. h \in DOMAIN Grove /\ element \in DOMAIN Grove \ {h} /\ place \in DOMAIN Grove[h]
  BY <1>1, <1>3, <1>19, <1>20
<1>23. Grove' = [j \in DOMAIN Grove \ {element} |->
                   IF j = h THEN Abstract!Joined(Grove[h], place, Abstract!ArrayOf(Grove[h][place].count + 1),
                                                 Grove[h][place].count + 1, Grove[element])
                   ELSE Grove[j]]
  BY <1>8, <1>18, <1>19, <1>20, <1>21
<1>24. \E k \in DOMAIN Grove : \E part \in DOMAIN Grove \ {k} : \E where \in DOMAIN Grove[k] :
         /\ Grove[k][where].type = "Array"
         /\ Grove' = [j \in DOMAIN Grove \ {part} |->
                        IF j = k THEN Abstract!Joined(Grove[k], where, Abstract!ArrayOf(Grove[k][where].count + 1),
                                                      Grove[k][where].count + 1, Grove[part])
                        ELSE Grove[j]]
  BY <1>21, <1>22, <1>23
<1> QED BY <1>24, Zenon DEF Abstract!Extend, Abstract!Gives, Abstract!Held, Grove

LEMMA MapSets ==
  ASSUME NodesInv, NodesInv', mapSetValueForKey
  PROVE  Abstract!Put
<1>1. PICK n \in Reachable, element \in owned, key \in Texts :
        heap[n].type = "Map" /\ Give(n, element) /\ Set(n, Map([heap[n].hash EXCEPT ![key] = element]))
  BY DEF mapSetValueForKey
<1>2. /\ Forest /\ HeapOK /\ n \in Memory /\ element \in Memory /\ key \in Words
      /\ n \notin Tree(element) /\ owned' = owned \ {element}
  BY <1>1, ReachableAlive DEF NodesInv, Forest, Live, Give, Texts
<1>3. PICK h \in owned : \E place \in Seq(Steps) : n \in Tree(h) /\ To(Down, h, place, n)
  BY <1>1, ReachedAt
<1>4. PICK place \in Seq(Steps) : n \in Tree(h) /\ To(Down, h, place, n)
  BY <1>3
<1>5. IsMap(heap[n])
  BY <1>1, <1>2, Kinds DEF HeapOK, IsLeaf, IsArray
<1>6. PICK hash \in [Words -> Memory \cup {Absent}] : heap[n] = Map(hash)
  BY <1>5 DEF IsMap
<1>7. PICK more : more = [hash EXCEPT ![key] = element]
  OBVIOUS
<1>9. /\ DOMAIN hash = Words /\ DOMAIN more = Words
      /\ more[key] = element /\ \A word \in Words \ {key} : more[word] = hash[word]
      /\ element # Absent
  BY <1>2, <1>6, <1>7, MemoryAssumption
<1>10. key \in Steps
  BY <1>2 DEF Steps
<1>11. heap[n].hash = hash
  BY <1>6, Kinds
<1>12. heap'[n] = Map(more) /\ \A m \in Memory \ {n} : heap'[m] = heap[m]
  BY <1>1, <1>2, <1>7, <1>11 DEF Set, HeapOK
<1>13. \A step, m : Links(n, step, m) <=> step \in DOMAIN hash /\ hash[step] # Absent /\ m = hash[step]
  BY <1>2, <1>6, MapLinks
<1>14. \A step, m : Links(n, step, m)' <=> step \in DOMAIN more /\ more[step] # Absent /\ m = more[step]
  BY <1>2, <1>12, Kinds DEF Links, Places, PartAt, KeysOf
<1>15. \A step, m : Links(n, step, m)' <=> IF step = key THEN m = element ELSE Links(n, step, m)
  BY <1>2, <1>9, <1>13, <1>14
<1>16. \A p, step, m : Links(p, step, m)' <=> IF p = n /\ step = key THEN m = element ELSE Links(p, step, m)
  <2>1. ASSUME NEW p, p # n, NEW step, NEW m PROVE Links(p, step, m)' <=> Links(p, step, m)
    <3>1. CASE p \in Memory
      BY <1>12, <2>1, <3>1, SameLinks
    <3>2. CASE p \notin Memory
      BY <3>2 DEF Links
    <3> QED BY <3>1, <3>2
  <2> QED BY <1>15, <2>1
<1>17. PICK new : new = Shape(heap'[n])
  OBVIOUS
<1>18. new = Abstract!AMap /\ Shape(heap[n]) = Abstract!AMap
  BY <1>6, <1>12, <1>17 DEF Shape, Map, Abstract!AMap
<1>19. /\ place \in DOMAIN Grove[h] /\ Grove[h][place] = Shape(heap[n]) /\ element # h
       /\ Grove' = [k \in owned \ {element} |->
                      IF k = h THEN Abstract!Joined(Grove[h], place, new, key, Grove[element]) ELSE Grove[k]]
  <2>1. h \in owned /\ element \in owned /\ n \in Tree(h) /\ n \notin Tree(element)
    BY <1>1, <1>2, <1>3, <1>4
  <2>2. NodesInv /\ NodesInv' /\ place \in Seq(Steps) /\ To(Down, h, place, n) /\ owned' = owned \ {element}
    BY <1>2, <1>4
  <2>3. Linked(n, key, element)
    BY <1>12, <1>16 DEF Linked
  <2>4. GivenTo(h, place, n, new, key, element)
    BY ONLY <1>10, <1>17, <2>1, <2>2, <2>3, JoinStep
  <2> QED BY <2>4 DEF GivenTo
<1>20. DOMAIN Grove = owned
  BY DEF Grove
<1>21. Grove[h][place].type = "Map"
  BY <1>18, <1>19 DEF Abstract!AMap
<1>22. Abstract!Gives(h, element, place, Abstract!AMap, key)
  <2>1. Abstract!Gives(h, element, place, new, key)
    BY <1>19, <1>20 DEF Abstract!Gives, Abstract!Held, Grove
  <2> QED BY <1>18, <2>1
<1>23. /\ h \in DOMAIN Grove /\ element \in DOMAIN Grove \ {h} /\ place \in DOMAIN Grove[h]
       /\ key \in Abstract!Texts
  BY <1>1, <1>3, <1>19, <1>20 DEF Texts, Abstract!Texts
<1>24. \E k \in DOMAIN Grove : \E part \in DOMAIN Grove \ {k} : \E where \in DOMAIN Grove[k] :
         /\ Grove[k][where].type = "Map"
         /\ \E word \in Abstract!Texts : Abstract!Gives(k, part, where, Abstract!AMap, word)
  BY <1>21, <1>22, <1>23
<1> QED BY <1>24 DEF Abstract!Put, Abstract!Held, Grove

-----------------------------------------------------------------------------
(* A copy has the shape of what it is a copy of, or is a null.              *)
LEMMA CopiesShape ==
  ASSUME NEW node, IsLeaf(node) \/ IsArray(node) \/ IsMap(node), NEW new
  PROVE  Shape(Copied(node, new)) = CopiedShape(Shape(node))
<1>1. CASE IsLeaf(node)
  BY <1>1, Kinds DEF IsLeaf, Shape, Copied, CopiedShape
<1>2. CASE IsArray(node)
  <2>1. PICK list \in Seq(Memory) : node = Array(list)
    BY <1>2 DEF IsArray
  <2>2. PICK copy : copy = [i \in DOMAIN list |-> new[list[i]]]
    OBVIOUS
  <2>3. Len(copy) = Len(list)
    BY <2>2
  <2>4. Copied(node, new) = Array(copy)
    BY <2>1, <2>2, Kinds DEF Copied
  <2>5. Shape(Copied(node, new)) = [type |-> "Array", count |-> Len(list)]
    BY <2>3, <2>4, Kinds DEF Shape
  <2>6. Shape(node) = [type |-> "Array", count |-> Len(list)]
    BY <2>1, Kinds DEF Shape
  <2> QED BY <2>5, <2>6 DEF CopiedShape
<1>3. CASE IsMap(node)
  <2>1. PICK hash \in [Words -> Memory \cup {Absent}] : node = Map(hash)
    BY <1>3 DEF IsMap
  <2>2. Shape(Copied(node, new)) = [type |-> "Map"] /\ Shape(node) = [type |-> "Map"]
    BY <2>1, Kinds DEF Copied, Shape
  <2> QED BY <2>2 DEF CopiedShape
<1> QED BY <1>1, <1>2, <1>3

LEMMA Copies ==
  ASSUME NodesInv, NodesInv', NEW n \in Reachable, NEW new \in Injection(Tree(n), Memory \ Live),
         heap' = [m \in Memory |-> IF m \in Range(new) THEN Copied(heap[Inverse(new, Tree(n), Memory)[m]], new)
                                                       ELSE heap[m]],
         owned' = owned \cup {new[n]}
  PROVE  Abstract!Copy
<1>1. /\ Forest /\ HeapOK /\ n \in Memory /\ n \in Live /\ n \in Tree(n) /\ Tree(n) \subseteq Live
      /\ Tree(n) \in SUBSET Memory /\ Live \in SUBSET Memory /\ owned \subseteq Live
  BY ReachableAlive, TreeAlive, TreeClosed DEF NodesInv, Live, Forest
<1>2. /\ new \in [Tree(n) -> Memory \ Live]
      /\ \A a, b \in Tree(n) : new[a] = new[b] => a = b
      /\ \A m : m \in Range(new) <=> \E a \in Tree(n) : m = new[a]
  BY DEF Injection, IsInjective, Range
<1>3. ASSUME NEW m \in Tree(n)
      PROVE  /\ Inverse(new, Tree(n), Memory)[new[m]] = m
             /\ new[m] \in Memory /\ new[m] \notin Live /\ new[m] \in Range(new)
  BY <1>1, <1>2 DEF Inverse
<1>4. /\ \A m \in Tree(n) : heap'[new[m]] = Copied(heap[m], new)
      /\ \A m \in Live : heap'[m] = heap[m]
  BY <1>1, <1>2, <1>3
<1>5. ASSUME NEW m \in Tree(n)
      PROVE  /\ \A step, k : Links(new[m], step, k)' => \E part \in Tree(n) : Links(m, step, part) /\ k = new[part]
             /\ \A step, part : Links(m, step, part) => Links(new[m], step, new[part])'
  BY <1>1, <1>3, <1>4, CopiedLinks
<1>6. PICK h \in owned : \E place \in Seq(Steps) : n \in Tree(h) /\ To(Down, h, place, n)
  BY ReachedAt
<1>7. PICK place \in Seq(Steps) : n \in Tree(h) /\ To(Down, h, place, n)
  BY <1>6
<1>8. Grown /\ Grown'
  BY Groves, GrovesNext
<1>9. PICK G, shapes : G = Down /\ shapes = Shapes
  OBVIOUS
<1>10. PICK H, others : H = Down' /\ others = Shapes'
  OBVIOUS
<1>11. G \in SUBSET Edges /\ H \in SUBSET Edges /\ Determined(G) /\ Determined(H)
  BY <1>8, <1>9, <1>10 DEF Grown
<1>12. PICK tree : tree = Tree(n)
  OBVIOUS
<1>13. tree \in SUBSET Memory /\ n \in tree /\ new \in [tree -> Memory]
  BY <1>1, <1>2, <1>12
<1>14. \A way \in Seq(Steps) : \A m : To(G, n, way, m) => m \in tree
  BY <1>1, <1>9, <1>12, ReachedIn
<1>15. IsCopied(G, H, tree, new)
  <2>1. ASSUME NEW m \in tree, NEW step, NEW x
        PROVE  <<new[m], step, x>> \in H <=> CopiedLink(G, tree, new, m, step, x)
    <3>1. <<new[m], step, x>> \in H <=> Links(new[m], step, x)'
      BY <1>8, <1>10 DEF Grown
    <3>2. \A part : <<m, step, part>> \in G <=> Links(m, step, part)
      BY <1>8, <1>9 DEF Grown
    <3>3. Links(new[m], step, x)' => \E part \in tree : Links(m, step, part) /\ x = new[part]
      BY <1>5, <1>12
    <3>4. \A part : Links(m, step, part) => Links(new[m], step, new[part])'
      BY <1>5, <1>12
    <3> QED BY <3>1, <3>2, <3>3, <3>4 DEF CopiedLink
  <2> QED BY <2>1 DEF IsCopied
<1>16. \A m \in tree : others[new[m]] = CopiedShape(shapes[m])
  <2>1. ASSUME NEW m \in tree PROVE others[new[m]] = CopiedShape(shapes[m])
    <3>1. m \in Memory /\ new[m] \in Memory /\ m \in Live /\ heap'[new[m]] = Copied(heap[m], new)
      BY <1>1, <1>3, <1>4, <1>12
    <3>2. others[new[m]] = Shape(Copied(heap[m], new)) /\ shapes[m] = Shape(heap[m])
      BY <1>8, <1>9, <1>10, <3>1 DEF Grown, Shape
    <3>3. IsLeaf(heap[m]) \/ IsArray(heap[m]) \/ IsMap(heap[m])
      BY <1>1, <3>1 DEF HeapOK, Live
    <3>4. Shape(Copied(heap[m], new)) = CopiedShape(Shape(heap[m]))
      BY <3>3, CopiesShape
    <3> QED BY <3>2, <3>4
  <2> QED BY <2>1
<1>17. Table(H, others, new[n]) = Abstract!Copied(Table(G, shapes, n))
  BY ONLY <1>11, <1>13, <1>14, <1>15, <1>16, CopyTable
<1>18. Abstract!Part(Table(G, shapes, h), place) = Table(G, shapes, n)
  <2>1. To(G, h, place, n) /\ place \in Seq(Steps)
    BY <1>7, <1>9
  <2> QED BY ONLY <1>11, <2>1, PartTable
<1>19. Grove[h] = Table(G, shapes, h)
  BY <1>8, <1>9 DEF Grown
<1>20. PICK copy : copy = Abstract!Copied(Abstract!Part(Grove[h], place))
  OBVIOUS
<1>21. Table(Down', Shapes', new[n]) = copy
  BY <1>10, <1>17, <1>18, <1>19, <1>20
<1>22. ASSUME NEW k \in owned PROVE Table(Down', Shapes', k) = Table(Down, Shapes, k)
  <2>1. \A x \in Tree(k) : heap'[x] = heap[x]
    BY <1>1, <1>4, TreeAlive
  <2> QED BY <2>1, Untouched
<1>23. new[n] \in Memory \ DOMAIN Grove /\ place \in DOMAIN Grove[h] /\ h \in DOMAIN Grove
  <2>1. place \in Ways(G, h)
    BY <1>7, <1>9 DEF Ways
  <2>2. DOMAIN Grove = owned
    BY DEF Grove
  <2> QED BY <1>1, <1>3, <1>19, <2>1, <2>2 DEF Table
<1>24. Grove' = [k \in DOMAIN Grove \cup {new[n]} |->
                   IF k = new[n] THEN Abstract!Copied(Abstract!Part(Grove[h], place)) ELSE Grove[k]]
  <2>1. Grove = [k \in owned |-> Table(Down, Shapes, k)] /\ Grove' = [k \in owned' |-> Table(Down', Shapes', k)]
    BY <1>8 DEF Grown
  <2>2. new[n] \notin owned
    BY <1>1, <1>3
  <2> QED BY <1>20, <1>21, <1>22, <2>1, <2>2
<1>25. \E k \in DOMAIN Grove : \E at \in DOMAIN Grove[k] : \E r \in Memory \ DOMAIN Grove :
         Grove' = [j \in DOMAIN Grove \cup {r} |->
                     IF j = r THEN Abstract!Copied(Abstract!Part(Grove[k], at)) ELSE Grove[j]]
  BY <1>23, <1>24
<1> QED BY <1>25, Zenon DEF Abstract!Copy, Abstract!New, Abstract!Held, Grove

-----------------------------------------------------------------------------
(* The caller owns nothing at first, ... *)
LEMMA TreesStart == NodesInit => Abstract!TreesInit
<1> SUFFICES ASSUME NodesInit PROVE Abstract!TreesInit
  OBVIOUS
<1>1. owned = {}
  BY DEF NodesInit
<1>2. [n \in owned |-> Denotes[n]] = <<>>
  BY <1>1
<1> QED BY <1>2 DEF Abstract!TreesInit

(* ... and a call is one on trees, or changes none that it owns.            *)
LEMMA TreesStay ==
  ASSUME UNCHANGED <<heap, owned>>
  PROVE  UNCHANGED Grove
BY DEF Grove, Denotes, PartAt, Places, KeysOf, Shape

LEMMA TreesStep ==
  NodesInv /\ NodesInv' /\ [NodesNext]_nodesVars => [Abstract!TreesNext]_[n \in owned |-> Denotes[n]]
<1> SUFFICES ASSUME NodesInv, NodesInv', [NodesNext]_nodesVars
             PROVE  [Abstract!TreesNext]_[n \in owned |-> Denotes[n]]
  OBVIOUS
<1>1. CASE createInvalid
  <2>1. IsLeaf(Invalid) /\ Create(Invalid)
    BY <1>1 DEF createInvalid, IsLeaf
  <2>2. PICK leaf : leaf = Invalid
    OBVIOUS
  <2>3. Abstract!New([place \in {<<>>} |-> leaf])
    BY <2>1, <2>2, Creates
  <2>4. leaf \in {Abstract!Invalid, Abstract!Null} \cup {Abstract!Value(text) : text \in Abstract!Texts}
    BY <2>2 DEF Invalid, Abstract!Invalid
  <2>5. Abstract!Create
    BY <2>3, <2>4 DEF Abstract!Create
  <2> QED BY <2>5 DEF Abstract!TreesNext
<1>2. CASE createNull
  <2>1. IsLeaf(Null) /\ Create(Null)
    BY <1>2 DEF createNull, IsLeaf
  <2>2. PICK leaf : leaf = Null
    OBVIOUS
  <2>3. Abstract!New([place \in {<<>>} |-> leaf])
    BY <2>1, <2>2, Creates
  <2>4. leaf \in {Abstract!Invalid, Abstract!Null} \cup {Abstract!Value(text) : text \in Abstract!Texts}
    BY <2>2 DEF Null, Abstract!Null
  <2>5. Abstract!Create
    BY <2>3, <2>4 DEF Abstract!Create
  <2> QED BY <2>5 DEF Abstract!TreesNext
<1>3. CASE createValue
  <2>1. PICK text \in Texts : Create(Value(text))
    BY <1>3 DEF createValue
  <2>2. PICK leaf : leaf = Value(text)
    OBVIOUS
  <2>3. IsLeaf(leaf) /\ Create(leaf)
    BY <2>1, <2>2 DEF IsLeaf, Texts
  <2>4. Abstract!New([place \in {<<>>} |-> leaf])
    BY <2>3, Creates
  <2>5. leaf \in {Abstract!Invalid, Abstract!Null} \cup {Abstract!Value(data) : data \in Abstract!Texts}
    BY <2>1, <2>2 DEF Value, Abstract!Value, Texts, Abstract!Texts
  <2>6. Abstract!Create
    BY <2>4, <2>5 DEF Abstract!Create
  <2> QED BY <2>6 DEF Abstract!TreesNext
<1>4. CASE Copy
  <2>1. PICK n \in Reachable : createCopy_(n)
    BY <1>4 DEF Copy
  <2>2. CASE UNCHANGED <<heap, owned>>
    BY <2>2, TreesStay DEF Grove
  <2>3. CASE ~UNCHANGED <<heap, owned>>
    <3>1. PICK new \in Injection(Tree(n), Memory \ Live) :
            /\ heap' = [m \in Memory |-> IF m \in Range(new) THEN Copied(heap[Inverse(new, Tree(n), Memory)[m]], new)
                                                             ELSE heap[m]]
            /\ owned' = owned \cup {new[n]}
      BY <2>1, <2>3 DEF createCopy_
    <3>2. Abstract!Copy
      BY <2>1, <3>1, Copies
    <3> QED BY <3>2 DEF Abstract!TreesNext
  <2> QED BY <2>2, <2>3
<1>5. CASE changeType
  BY <1>5, Changes DEF Abstract!TreesNext
<1>6. CASE destroy
  <2>1. PICK n \in owned : /\ heap' = [m \in Memory |-> IF m = n \/ m \in Freed(n) THEN Free ELSE heap[m]]
                           /\ owned' = owned \ {n}
    BY <1>6 DEF destroy
  <2>2. FreedAround(n, Free)
    BY <2>1 DEF FreedAround
  <2>3. Abstract!Destroy
    BY <2>1, <2>2, Destroys
  <2> QED BY <2>3 DEF Abstract!TreesNext
<1>7. CASE valueSet
  BY <1>7, ValueSets DEF Abstract!TreesNext
<1>8. CASE binaryData_setValue
  BY <1>8, BlobSets DEF Abstract!TreesNext
<1>9. CASE arrayAddElementToEnd
  BY <1>9, ArrayAdds DEF Abstract!TreesNext
<1>10. CASE mapSetValueForKey
  BY <1>10, MapSets DEF Abstract!TreesNext
<1>11. CASE Stopped \/ UNCHANGED nodesVars
  BY <1>11, TreesStay DEF Stopped, nodesVars, Grove
<1> QED BY <1>1, <1>2, <1>3, <1>4, <1>5, <1>6, <1>7, <1>8, <1>9, <1>10, <1>11 DEF NodesNext

(* What the caller owns are trees of their own, as OwnsTrees says: every    *)
(* call of Expression.h is one on trees, whatever it allocates, links and   *)
(* frees to do it.                                                          *)
THEOREM NodesAreTrees == NodesSpec => OwnsTrees
<1>1. NodesInit => NodesInv
  BY NodesStart
<1>2. NodesInv /\ [NodesNext]_nodesVars => NodesInv'
  BY NodesStep
<1>3. NodesInit => Abstract!TreesInit
  BY TreesStart
<1>4. NodesInv /\ NodesInv' /\ [NodesNext]_nodesVars => [Abstract!TreesNext]_[n \in owned |-> Denotes[n]]
  BY TreesStep
<1> QED BY <1>1, <1>2, <1>3, <1>4, PTL DEF NodesSpec, OwnsTrees, Abstract!TreesSpec
=============================================================================
