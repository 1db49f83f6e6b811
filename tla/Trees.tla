------------------------------- MODULE Trees -------------------------------
(***************************************************************************)
(* What the functions of Expression.h promise: every expression a caller   *)
(* owns is a tree of its own, a value that only calls on it change.        *)
(*                                                                         *)
(* A tree says what is at each of its places: a leaf, a map, or an array   *)
(* of so many elements.  A place is the indexes and keys on the way down.  *)
(***************************************************************************)
EXTENDS Expression, Functions

CONSTANTS
  Handles,  (* what a caller holds an expression by                       *)
  Unset     (* the text of a value that has none yet                      *)

VARIABLE
  trees     (* the tree behind each handle in use *)

ArrayOf(count) == [type |-> "Array", count |-> count]
AMap == [type |-> "Map"]
Texts == Words \ {Unset}
Empties == {Invalid, Null, Value(Unset), BinaryData(<<>>), ArrayOf(0), AMap}

(* Whether a place is another or below it, and the way from there.         *)
Within(place, other) ==
  Len(other) <= Len(place) /\ \A i \in 1 .. Len(other) : place[i] = other[i]
Onward(place, other) == [i \in 1 .. Len(place) - Len(other) |-> place[Len(other) + i]]

Part(tree, place) ==
  [way \in {Onward(p, place) : p \in {q \in DOMAIN tree : Within(q, place)}} |-> tree[place \o way]]
Outside(tree, place) == {p \in DOMAIN tree : ~Within(p, place)}

(* A tree with a leaf at a place, or nothing in the array or map there.    *)
Replaced(tree, place, new) ==
  [p \in Outside(tree, place) \cup {place} |-> IF p = place THEN new ELSE tree[p]]

(* A tree with another one as a part, in an array or map that is `new`.    *)
Joined(tree, place, new, step, part) ==
  LET at == Append(place, step) IN
  [p \in Outside(tree, at) \cup {at \o way : way \in DOMAIN part} |->
     IF Within(p, at) THEN part[Onward(p, at)] ELSE IF p = place THEN new ELSE tree[p]]

(* createCopy leaves a null for what it does not know.                     *)
Copied(tree) ==
  [p \in DOMAIN tree |-> IF tree[p].type \in {"Value", "Array", "Map"} THEN tree[p] ELSE Null]

-----------------------------------------------------------------------------
Held == DOMAIN trees
New(tree) == \E h \in Handles \ Held : trees' = [k \in Held \cup {h} |-> IF k = h THEN tree ELSE trees[k]]
Becomes(h, tree) == trees' = [trees EXCEPT ![h] = tree]

Create ==
  \E leaf \in {Invalid, Null} \cup {Value(text) : text \in Texts} :
    New([place \in {<<>>} |-> leaf])
Copy == \E h \in Held : \E place \in DOMAIN trees[h] : New(Copied(Part(trees[h], place)))
Destroy == \E h \in Held : trees' = Restrict(trees, Held \ {h})

(* One place of one tree becomes empty, of whatever type, ...              *)
Change ==
  \E h \in Held : \E place \in DOMAIN trees[h], new \in Empties :
    Becomes(h, Replaced(trees[h], place, new))

(* ... or a value or binary data gets other data.                          *)
SetData ==
  \E h \in Held : \E place \in DOMAIN trees[h] :
    \E new \in {Value(text) : text \in Texts} \cup {BinaryData(blob) : blob \in Blobs} :
      /\ trees[h][place].type = new.type
      /\ Becomes(h, Replaced(trees[h], place, new))

(* One tree becomes a part of another, at the end of an array or under a   *)
(* key of a map.                                                           *)
Gives(h, part, place, new, step) ==
  trees' = [k \in Held \ {part} |->
              IF k = h THEN Joined(trees[h], place, new, step, trees[part]) ELSE trees[k]]
Extend ==
  \E h \in Held : \E part \in Held \ {h} : \E place \in DOMAIN trees[h] :
    /\ trees[h][place].type = "Array"
    /\ Gives(h, part, place, ArrayOf(trees[h][place].count + 1), trees[h][place].count + 1)
Put ==
  \E h \in Held : \E part \in Held \ {h} : \E place \in DOMAIN trees[h] :
    /\ trees[h][place].type = "Map"
    /\ \E key \in Texts : Gives(h, part, place, AMap, key)

TreesInit == trees = <<>>
TreesNext == Create \/ Copy \/ Destroy \/ Change \/ SetData \/ Extend \/ Put
TreesSpec == TreesInit /\ [][TreesNext]_trees
=============================================================================
