--------------------------- MODULE ReferenceTable ---------------------------
(***************************************************************************)
(* WexprReferenceTable: a hash map (HashMap.tla) from names to elements    *)
(* that the table allocates, each with a copy of its name and an           *)
(* expression the table owns.  The data of the map are the addresses of    *)
(* the elements, and the keys of the map are the elements' own copies.     *)
(*                                                                         *)
(* A call that sets an expression returns when hashmap_put does; `call`    *)
(* is what it will have done.  The functions that take the length of a key *)
(* differ in where they copy the key from, which the model does not see.   *)
(***************************************************************************)
EXTENDS HashMap

CONSTANTS
  Expressions,
  Created       (* what the callback of the user creates for each key, or  *)
                (* Absent                                                   *)

VARIABLES
  elements,     (* what is at each address                                 *)
  m_callback,   (* whether a callback is set                               *)
  call,         (* the answer of the call under way                        *)
  result,       (* the answer of the last call that returned               *)
  destroyed

tableVars == <<elements, m_callback, call, result, destroyed>>

ASSUME ReferenceTableAssumption ==
  /\ Created \in [Keys -> Expressions \cup {Absent}]
  /\ Absent \notin Expressions

Unallocated == [state |-> "unallocated", key |-> Absent, value |-> Absent]
Element(key, value) == [state |-> "owned", key |-> key, value |-> value]
Freed(element) == [state |-> "freed", key |-> element.key, value |-> element.value]

Result(op, key, expression) == [op |-> op, key |-> key, expression |-> expression]

(* wexpr_ReferenceTable_create *)
TableInit ==
  /\ Init
  /\ elements = [p \in Data |-> Unallocated]
  /\ m_callback = FALSE
  /\ call = Result("create", Absent, Absent)
  /\ result = call
  /\ destroyed = FALSE

Ready == Idle /\ ~destroyed

-----------------------------------------------------------------------------
(* Mutant: as many slots as the map counts. *)
IteratedToCount == {s \in Used : s < size}

(* hashmap_iterate goes through the slots in use in the order of the table; *)
(* through none if the count of the map is not positive.  The index of a    *)
(* slot is how many it has passed before.                                   *)
Iterated == IF size <= 0 THEN {} ELSE Used
Index(s) == Cardinality({t \in Iterated : t < s})

Count == size

At(s) == elements[data[s].data]

(* Mutant: the first index is 1. *)
IndexOfKeyFromOne(key) ==
  LET of == {s \in Iterated : At(s).key = key}
  IN IF of = {} THEN Count ELSE Index(CHOOSE s \in of : \A t \in of : s <= t) + 1

IndexOfKey(key) ==
  LET of == {s \in Iterated : At(s).key = key}
  IN IF of = {} THEN Count ELSE Index(CHOOSE s \in of : \A t \in of : s <= t)

KeyAtIndex(index) ==
  LET at == {s \in Iterated : Index(s) = index}
  IN IF at = {} THEN Absent ELSE At(CHOOSE s \in at : TRUE).key

ExpressionAtIndex(index) ==
  LET at == {s \in Iterated : Index(s) = index}
  IN IF at = {} THEN Absent ELSE At(CHOOSE s \in at : TRUE).value

(* The first two lines of wexpr_ReferenceTable_expressionForKey. *)
Found(key) ==
  IF Missing(key) THEN Absent
  ELSE At(Slot(key, CHOOSE i \in Chain : HeldFirst(key, i))).value

-----------------------------------------------------------------------------
Unused == {p \in Data : elements[p] = Unallocated}

(* Mutant: frees the element the key had, and then puts the new one. *)
SetFreesTheOldFirst(key, expression) ==
  \E p \in Unused :
    /\ p = CHOOSE q \in Unused : TRUE
    /\ elements' = [q \in Data |->
                      IF q = p THEN Element(key, expression)
                      ELSE IF \E s \in Used : data[s] = [key |-> key, data |-> q]
                      THEN Freed(elements[q]) ELSE elements[q]]
    /\ PutCalled(key, p)

(* A new element, and the call of hashmap_put with it; what that returns is *)
(* not looked at.                                                           *)
SetExpressionForKey(key, expression) ==
  \E p \in Unused :
    /\ p = CHOOSE q \in Unused : TRUE
    /\ elements' = [elements EXCEPT ![p] = Element(key, expression)]
    /\ PutCalled(key, p)

Set(key, expression) ==
  /\ Ready
  /\ SetExpressionForKey(key, expression)
  /\ call' = Result("set", key, expression)
  /\ UNCHANGED <<m_callback, result, destroyed>>

(* A step of the call of hashmap_put; the last one is the caller's return.  *)
PutSteps ==
  /\ Internal
  /\ result' = IF Idle' THEN call ELSE result
  /\ UNCHANGED <<elements, m_callback, call, destroyed>>

(* Mutant: what was created is returned and not set. *)
CreateUnknownUnkept(key) ==
  /\ Found(key) = Absent /\ m_callback /\ Created[key] # Absent
  /\ call' = Result("lookup", key, Created[key])
  /\ result' = call'
  /\ UNCHANGED <<vars, elements>>

(* What the callback creates becomes the table's. *)
CreateUnknown(key) ==
  /\ Found(key) = Absent /\ m_callback /\ Created[key] # Absent
  /\ SetExpressionForKey(key, Created[key])
  /\ call' = Result("lookup", key, Created[key])
  /\ UNCHANGED result

ExpressionForKey(key) ==
  /\ Ready
  /\ \/ /\ ~(Found(key) = Absent /\ m_callback /\ Created[key] # Absent)
        /\ Get(key)
        /\ call' = Result("lookup", key, Found(key))
        /\ result' = call'
        /\ UNCHANGED elements
     \/ CreateUnknown(key)
  /\ UNCHANGED <<m_callback, destroyed>>

SetCreateUnknownKeyCallback(on) ==
  /\ Ready
  /\ m_callback' = on
  /\ UNCHANGED <<vars, elements, call, result, destroyed>>

(* wexpr_ReferenceTable_destroy: the elements that are iterated are freed,  *)
(* with their names and expressions.                                        *)
Destroy ==
  /\ Ready
  /\ elements' = [p \in Data |-> IF p \in {data[s].data : s \in Iterated}
                                 THEN Freed(elements[p]) ELSE elements[p]]
  /\ destroyed' = TRUE
  /\ UNCHANGED <<vars, m_callback, call, result>>

(* wexpr_ReferenceTable_removeKey frees the element with its name, which is *)
(* the key of the map too, before hashmap_remove compares that key: what a  *)
(* freed string compares to is anyone's guess.                              *)
RemoveKey(key) ==
  /\ Ready
  /\ \E s \in Iterated :
       /\ Index(s) = IndexOfKey(key)
       /\ elements' = [elements EXCEPT ![data[s].data] = Freed(@)]
  /\ call' = Result("removeKey", key, Absent)
  /\ result' = call'
  /\ \/ Remove(key)                                     (* it compares equal *)
     \/ UNCHANGED vars                              (* it does not: missing  *)
  /\ UNCHANGED <<m_callback, destroyed>>

TableNext ==
  \/ PutSteps
  \/ Destroy
  \/ \E on \in BOOLEAN : SetCreateUnknownKeyCallback(on)
  \/ \E key \in Keys : ExpressionForKey(key) \/ \E e \in Expressions : Set(key, e)

TableSpec == TableInit /\ [][TableNext]_<<vars, tableVars>>
RemovingTableSpec ==
  TableInit /\ [][TableNext \/ \E key \in Keys : RemoveKey(key)]_<<vars, tableVars>>

-----------------------------------------------------------------------------
(* Properties.                                                              *)

(* Every element a slot points to is owned, is of the slot's key, and no    *)
(* other slot points to it: the keys the map compares are alive, and        *)
(* destroying the table frees nothing twice.                                *)
SlotsOwnElements ==
  ~destroyed =>
    /\ \A s \in Used : /\ At(s).state = "owned"
                       /\ At(s).key = data[s].key
    /\ \A s, t \in Used : data[s].data = data[t].data => s = t

(* The index of a key leads back to it, the expression there is the one a   *)
(* lookup finds, and the count, the index of no key, is given for a key     *)
(* that a lookup does not find and for no other.                            *)
IndexesAgreeWithLookups ==
  Ready =>
    \A key \in Keys :
      IF Missing(key) THEN IndexOfKey(key) = Count
      ELSE /\ IndexOfKey(key) < Count
           /\ KeyAtIndex(IndexOfKey(key)) = key
           /\ ExpressionAtIndex(IndexOfKey(key)) = Found(key)

(* Destroying a table leaves nothing of what it held.                       *)
DestroyFreesWhatIsHeld == destroyed => \A s \in Used : At(s).state = "freed"

(* A table binds names to expressions, and keeps what its callback creates. *)
bindings == [key \in Keys |-> IF store[key] = Absent THEN Absent ELSE elements[store[key]].value]
Promised == INSTANCE Bindings WITH status <- returned.status
BindsNames == Promised!Spec

(* ReferenceTable.h: "Remove a key from the reference table" removes it.    *)
RemovedKeyIsGone == result.op = "removeKey" /\ Ready => Missing(result.key)
=============================================================================
