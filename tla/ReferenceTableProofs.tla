------------------------ MODULE ReferenceTableProofs ------------------------
(***************************************************************************)
(* A reference table nothing is removed from uses its hash map as          *)
(* HashMapProofs assumes, and so everything proved of the map holds of the *)
(* table's; from that follow the ownership of the elements and the         *)
(* agreement of indexes and lookups, for any number of names and elements  *)
(* and whenever the memory runs out.                                       *)
(***************************************************************************)
EXTENDS ReferenceTable, HashMapProofs

(* The calls of a table drive its map as the map may be driven. *)
LEMMA TableStepDrivesMap == [TableNext]_<<vars, tableVars>> => [Next]_vars
<1> SUFFICES ASSUME [TableNext]_<<vars, tableVars>> PROVE Next \/ UNCHANGED vars
  OBVIOUS
<1>1. ASSUME NEW key \in Keys, NEW e, SetExpressionForKey(key, e) PROVE Next
  BY <1>1 DEF SetExpressionForKey, Unused, Next
<1>2. CASE PutSteps
  BY <1>2 DEF PutSteps, Next
<1>3. CASE Destroy \/ \E on \in BOOLEAN : SetCreateUnknownKeyCallback(on)
  BY <1>3 DEF Destroy, SetCreateUnknownKeyCallback
<1>4. ASSUME NEW key \in Keys, ExpressionForKey(key) PROVE Next
  BY <1>1, <1>4 DEF ExpressionForKey, CreateUnknown, Next
<1>5. ASSUME NEW key \in Keys, NEW e \in Expressions, Set(key, e) PROVE Next
  BY <1>1, <1>5 DEF Set
<1>6. CASE UNCHANGED <<vars, tableVars>>
  BY <1>6
<1> QED
  BY <1>2, <1>3, <1>4, <1>5, <1>6 DEF TableNext

(* Every behaviour of a table is one of its map: HashMap's theorems apply. *)
THEOREM TableUsesMap == TableSpec => Spec
<1>1. TableInit => Init
  BY DEF TableInit
<1> QED
  BY <1>1, TableStepDrivesMap, PTL DEF TableSpec, Spec

-----------------------------------------------------------------------------
(* What the map holds, and what is being put into it. *)
Owned(e) == elements[e.data].state = "owned" /\ elements[e.data].key = e.key
BottomElement == [key |-> Bottom.key, data |-> Bottom.data]

Linked ==
  /\ ~destroyed => /\ \A e \in Held : Owned(e)
                   /\ ~Idle => Owned(BottomElement)
  /\ destroyed => Idle

ElementsTyped ==
  elements \in [Data -> [state : {"unallocated", "owned", "freed"},
                         key : Keys \cup {Absent}, value : Expressions \cup {Absent}]]

TableInv == ElementsTyped /\ Linked /\ DestroyFreesWhatIsHeld

(* A step of hashmap_put holds nothing that was not held or put before. *)
LEMMA InternalHolds ==
  ASSUME IInv, Internal
  PROVE  /\ \A e \in Held' : e \in Held \/ e = BottomElement
         /\ ~Idle' => BottomElement' = BottomElement
<1>1. CASE Store
  <2>1. PICK i \in Chain : StoresAt(i)
    BY <1>1 DEF Store, StoresAt, Stored
  <2>2. /\ ~Idle /\ ToMove(Running) = {}
        /\ puts' = SubSeq(puts, 1, Len(puts) - 1)
    BY <1>1 DEF Store, Return
  <2>3. puts \in Seq(Calls) /\ Len(puts) \in Nat \ {0}
    BY <2>2, EmptySeq DEF IInv, TypeInv, Idle
  <2>4. CASE Len(puts) = 1
    <3>1. puts' = <<>> /\ Held' = {f \in Held : f.key # Running.key} \cup {Stored}
      BY <2>1, <2>2, <2>4, LastStoreReplaces
    <3>2. Stored = BottomElement
      BY <2>4 DEF Stored, BottomElement, Running, Bottom
    <3> QED
      BY <3>1, <3>2 DEF Idle
  <2>5. CASE Len(puts) # 1
    <3>1. Held' = Held
      BY <2>1, <2>2, <2>5, NestedStoreKeeps
    <3>2. puts'[1] = puts[1]
      <4>1. \A p \in 1..(Len(puts) - 1) : SubSeq(puts, 1, Len(puts) - 1)[p] = puts[p]
        BY <2>2, PopCall DEF IInv
      <4>2. 1 \in 1..(Len(puts) - 1)
        <5>1. \A n \in Nat \ {0} : n # 1 => 1 \in 1..(n - 1)
          OBVIOUS
        <5> QED
          BY <2>3, <2>5, <5>1
      <4>3. SubSeq(puts, 1, Len(puts) - 1)[1] = puts[1]
        BY <4>1, <4>2
      <4> QED
        BY <2>2, <4>3
    <3> QED
      BY <3>1, <3>2 DEF BottomElement, Bottom
  <2> QED
    BY <2>4, <2>5
<1>2. CASE Rehash
  <2>1. Held' = Held
    BY <1>2, RehashKeeps DEF IInv
  <2>2. puts \in Seq(Calls) /\ Len(puts) \in Nat \ {0}
    BY <1>2, EmptySeq DEF IInv, TypeInv, Idle, Rehash
  <2>3. puts' = [puts EXCEPT ![Len(puts)] =
                   Activation(Running.key, Running.data, data, 0)]
    BY <1>2 DEF Rehash, Running
  <2>4. puts'[1].key = puts[1].key /\ puts'[1].data = puts[1].data
    BY <2>2, <2>3 DEF Activation, Running
  <2> QED
    BY <2>1, <2>4 DEF BottomElement, Bottom
<1>3. CASE Move
  <2>1. Held' = Held
    BY <1>3, MoveKeeps DEF IInv, Move, Held, Used, Positions
  <2>2. puts \in Seq(Calls) /\ Len(puts) \in Nat \ {0}
    BY <1>3, EmptySeq DEF IInv, TypeInv, Idle, Move
  <2>3. PICK s \in ToMove(Running) :
          puts' = Append([puts EXCEPT ![Len(puts)] =
                            Activation(Running.key, Running.data, Running.curr, s + 1)],
                         Activation(Running.curr[s].key, Running.curr[s].data, <<>>, 0))
    BY <1>3 DEF Move, Running
  <2>4. puts'[1].key = puts[1].key /\ puts'[1].data = puts[1].data
    BY <2>2, <2>3 DEF Activation, Running
  <2> QED
    BY <2>1, <2>4 DEF BottomElement, Bottom
<1>4. CASE OutOfMemory
  <2>1. Held' \subseteq Held /\ Idle'
    BY <1>4 DEF OutOfMemory, Held, Moving, Used, Positions, Idle
  <2> QED
    BY <2>1
<1> QED
  BY <1>1, <1>2, <1>3, <1>4 DEF Internal

(* And as long as the caller waits it holds the same. *)
LEMMA LongerCallsKeep ==
  ASSUME IInv, Internal, ~Idle'
  PROVE  Held' = Held
<1>1. CASE Store
  <2>1. PICK i \in Chain : StoresAt(i)
    BY <1>1 DEF Store, StoresAt, Stored
  <2>2. /\ ~Idle /\ ToMove(Running) = {}
        /\ puts' = SubSeq(puts, 1, Len(puts) - 1)
    BY <1>1 DEF Store, Return
  <2>3. Len(puts) # 1
    BY <2>1, <2>2, LastStoreReplaces DEF Idle
  <2> QED
    BY <2>1, <2>2, <2>3, NestedStoreKeeps
<1>2. CASE Rehash
  BY <1>2, RehashKeeps DEF IInv
<1>3. CASE Move
  BY <1>3, MoveKeeps DEF IInv, Move, Held, Used, Positions
<1>4. CASE OutOfMemory
  BY <1>4 DEF OutOfMemory, Idle
<1> QED
  BY <1>1, <1>2, <1>3, <1>4 DEF Internal

(* Nor does it answer its caller. *)
LEMMA LongerCallsAnswerNothing ==
  ASSUME IInv, Internal, ~Idle'
  PROVE  returned' = returned
<1>1. ASSUME Store, Len(puts) = 1 PROVE FALSE
  <2>1. PICK i \in Chain : StoresAt(i)
    BY <1>1 DEF Store, StoresAt, Stored
  <2> QED
    BY <1>1, <2>1, LastStoreReplaces DEF Store, Return, Idle
<1> QED
  BY <1>1 DEF Internal, Store, Return, Rehash, Move, OutOfMemory, Idle

LEMMA NewElement ==
  ASSUME ElementsTyped, Idle, NEW key \in Keys, NEW e \in Expressions,
         SetExpressionForKey(key, e)
  PROVE  /\ ElementsTyped'
         /\ ~Idle' /\ Held' = Held
         /\ Owned(BottomElement)'
         /\ \A q \in Data : elements[q].state # "unallocated" => elements'[q] = elements[q]
<1>1. PICK p \in Unused : /\ elements' = [elements EXCEPT ![p] = Element(key, e)]
                          /\ PutCalled(key, p)
  BY DEF SetExpressionForKey
<1>2. p \in Data /\ elements[p].state = "unallocated"
  BY <1>1 DEF Unused, Unallocated
<1>3. elements'[p] = Element(key, e)
  BY <1>1, <1>2 DEF ElementsTyped
<1>4. ElementsTyped'
  BY <1>1 DEF ElementsTyped, Element
<1>5. puts' = <<Activation(key, p, <<>>, 0)>> /\ UNCHANGED <<table_size, size, data>>
  BY <1>1 DEF PutCalled
<1>6. DOMAIN puts' = {1} /\ puts'[1] = Activation(key, p, <<>>, 0) /\ ToMove(puts'[1]) = {}
  BY <1>5 DEF Activation, ToMove
<1>7. Held' = Held /\ ~Idle'
  <2>1. Moving' = {} /\ Moving = {}
    BY <1>6, IdleHolds DEF Moving, ToMove
  <2> QED
    BY <1>5, <2>1 DEF Held, Used, Positions, Idle
<1>8. Owned(BottomElement)'
  BY <1>3, <1>6 DEF Owned, BottomElement, Bottom, Activation, Element
<1> QED
  BY <1>1, <1>2, <1>4, <1>7, <1>8 DEF ElementsTyped

(* What is iterated over is what is used. *)
LEMMA IteratesUsed == IInv /\ RoomLeft => Iterated = Used
<1> SUFFICES ASSUME IInv, RoomLeft PROVE Iterated = Used
  OBVIOUS
<1>1. IsFiniteSet(Used) /\ Cardinality(Used) \in Nat
  BY UsedIsFinite, FS_CardinalityType DEF IInv
<1>2. Used # {} => Cardinality(Used) # 0
  BY <1>1, FS_EmptySet
<1> QED
  BY <1>1, <1>2 DEF Iterated, RoomLeft, IInv, TypeInv

(* Every element that is held, or on its way into the map, is the table's. *)
LEMMA TableStep ==
  IInv /\ RoomLeft /\ TableInv /\ [TableNext]_<<vars, tableVars>> => TableInv'
<1> SUFFICES ASSUME IInv, RoomLeft, TableInv, [TableNext]_<<vars, tableVars>>
             PROVE  TableInv'
  OBVIOUS
<1>1. ElementsTyped /\ Linked /\ DestroyFreesWhatIsHeld
  BY DEF TableInv
<1>2. Held \subseteq Elements
  BY HeldIsTyped DEF IInv
<1>3. ASSUME NEW key \in Keys, NEW e \in Expressions, Ready,
             SetExpressionForKey(key, e), destroyed' = destroyed
      PROVE  TableInv'
  <2>1. Idle /\ ~destroyed
    BY <1>3 DEF Ready
  <2>2. /\ ElementsTyped' /\ ~Idle' /\ Held' = Held /\ Owned(BottomElement)'
        /\ \A q \in Data : elements[q].state # "unallocated" => elements'[q] = elements[q]
    BY <1>1, <1>3, <2>1, NewElement
  <2>3. \A f \in Held : Owned(f)'
    BY <1>1, <1>2, <2>1, <2>2 DEF Linked, Owned, Elements
  <2> QED
    BY <1>3, <2>1, <2>2, <2>3 DEF TableInv, Linked, DestroyFreesWhatIsHeld
<1>4. CASE PutSteps
  <2>1. Internal /\ UNCHANGED <<elements, destroyed>>
    BY <1>4 DEF PutSteps
  <2>2. /\ \A e \in Held' : e \in Held \/ e = BottomElement
        /\ ~Idle' => BottomElement' = BottomElement
    BY <2>1, InternalHolds
  <2>3. ~Idle
    BY <2>1 DEF Internal, Store, Rehash, Move, OutOfMemory
  <2> QED
    BY <1>1, <2>1, <2>2, <2>3 DEF TableInv, ElementsTyped, Linked, Owned, DestroyFreesWhatIsHeld
<1>5. CASE Destroy
  <2>1. /\ elements' = [p \in Data |-> IF p \in {data[s].data : s \in Iterated}
                                        THEN Freed(elements[p]) ELSE elements[p]]
        /\ destroyed' = TRUE /\ Idle /\ UNCHANGED vars
    BY <1>5 DEF Destroy, Ready
  <2>2. Iterated = Used
    BY IteratesUsed
  <2>3. \A s \in Used : data[s].data \in Data
    BY DEF IInv, TypeInv, Used, ElementsOrFree, Elements
  <2>4. ElementsTyped'
    BY <1>1, <2>1 DEF ElementsTyped, Freed
  <2>5. \A s \in Used : At(s)'.state = "freed"
    BY <1>1, <2>1, <2>2, <2>3 DEF At, ElementsTyped, Freed, vars
  <2>6. Used' = Used /\ Idle'
    BY <2>1 DEF vars, Used, Positions, Idle
  <2> QED
    BY <2>1, <2>4, <2>5, <2>6 DEF TableInv, Linked, DestroyFreesWhatIsHeld
<1>6. ASSUME UNCHANGED <<table_size, size, data, puts, elements, destroyed>>
      PROVE  TableInv'
  BY <1>1, <1>6 DEF TableInv, ElementsTyped, Linked, Owned, BottomElement, Bottom, Idle,
                    DestroyFreesWhatIsHeld, At, Held, Moving, ToMove, Used, Positions
<1>7. ASSUME NEW key \in Keys, ExpressionForKey(key) PROVE TableInv'
  <2>1. CASE CreateUnknown(key)
    BY <1>3, <1>7, <2>1, ReferenceTableAssumption DEF ExpressionForKey, CreateUnknown
  <2>2. CASE ~CreateUnknown(key)
    BY <1>6, <1>7, <2>2 DEF ExpressionForKey, Get
  <2> QED
    BY <2>1, <2>2
<1>8. ASSUME NEW key \in Keys, NEW e \in Expressions, Set(key, e) PROVE TableInv'
  BY <1>3, <1>8 DEF Set
<1>9. CASE \E on \in BOOLEAN : SetCreateUnknownKeyCallback(on)
  BY <1>6, <1>9 DEF SetCreateUnknownKeyCallback, vars
<1>10. CASE UNCHANGED <<vars, tableVars>>
  BY <1>6, <1>10 DEF vars, tableVars
<1> QED
  BY <1>4, <1>5, <1>7, <1>8, <1>9, <1>10 DEF TableNext

LEMMA TableInitInv == TableInit => TableInv
<1> SUFFICES ASSUME TableInit PROVE TableInv
  OBVIOUS
<1>1. Used = {} /\ puts = <<>>
  BY DEF TableInit, Init, Used, Positions, Fresh
<1>2. Held = {} /\ Idle
  BY <1>1 DEF Held, Moving, Idle
<1> QED
  BY <1>2 DEF TableInit, TableInv, ElementsTyped, Unallocated, Linked, DestroyFreesWhatIsHeld

(* The map of a reference table keeps its invariants, and each element in it*)
(* or on its way is alive at an address of its own (ReferenceTable_set).    *)
THEOREM TableInductive == TableSpec => [](IInv /\ RoomLeft /\ TableInv)
<1>1. TableSpec => []IInv /\ []RoomLeft
  BY TableUsesMap, Inductive, RoomIsLeft, PTL
<1> QED
  BY <1>1, TableInitInv, TableStep, PTL DEF TableSpec

(* The keys the map compares are alive, and no element is freed twice. *)
THEOREM ElementsAreOwned == TableSpec => []SlotsOwnElements
<1>1. IInv /\ TableInv => SlotsOwnElements
  <2> SUFFICES ASSUME IInv, TableInv, ~destroyed PROVE SlotsOwnElements
    BY DEF SlotsOwnElements
  <2>1. \A s \in Used : Owned(data[s])
    BY DEF TableInv, Linked, Held
  <2>2. OneSlotPerKey
    BY ChainsAreExclusive DEF IInv
  <2> QED
    BY <2>1, <2>2 DEF Owned, At, OneSlotPerKey, SlotsOwnElements
<1> QED
  BY <1>1, TableInductive, PTL

(* Destroying a table frees everything it still holds. *)
THEOREM DestroyFreesAll == TableSpec => []DestroyFreesWhatIsHeld
<1>1. TableInv => DestroyFreesWhatIsHeld
  BY DEF TableInv
<1> QED
  BY <1>1, TableInductive, PTL

-----------------------------------------------------------------------------
(* Slots are told apart by their indexes, all of them below the count. *)
LEMMA IndexesAreDistinct ==
  ASSUME IInv, RoomLeft, NEW s \in Used
  PROVE  /\ Index(s) \in Nat /\ Index(s) < Count
         /\ \A t \in Used : Index(t) = Index(s) => t = s
<1> DEFINE Below(t) == {u \in Used : u < t}
<1>1. IsFiniteSet(Used) /\ Used \subseteq Int /\ Cardinality(Used) \in Nat
  BY UsedIsFinite, FS_CardinalityType DEF IInv, TypeInv, Used, Positions
<1>2. \A t \in Used : /\ Index(t) = Cardinality(Below(t))
                      /\ IsFiniteSet(Below(t)) /\ Cardinality(Below(t)) \in Nat
                      /\ Below(t) \subseteq Used /\ t \notin Below(t)
  <2> TAKE t \in Used
  <2>1. Below(t) \subseteq Used /\ t \notin Below(t)
    BY <1>1
  <2>2. IsFiniteSet(Below(t)) /\ Cardinality(Below(t)) \in Nat
    BY <1>1, <2>1, FS_Subset, FS_CardinalityType
  <2> QED
    BY <2>1, <2>2, IteratesUsed DEF Index
<1>3. ASSUME NEW t \in Used, NEW u \in Used, t < u PROVE Index(t) < Index(u)
  <2>1. t \in Int /\ u \in Int
    BY <1>1
  <2>2. \A v \in Int : v < t => v < u
    BY <1>3, <2>1
  <2>3. PICK lower, upper : lower = Below(t) /\ upper = Below(u)
    OBVIOUS
  <2>4. lower \subseteq upper /\ t \in upper /\ t \notin lower
    BY <1>1, <1>2, <1>3, <2>2, <2>3
  <2>5. /\ Index(t) = Cardinality(lower) /\ Index(u) = Cardinality(upper)
        /\ IsFiniteSet(upper) /\ Cardinality(lower) \in Nat /\ Cardinality(upper) \in Nat
    BY <1>2, <2>3
  <2>6. Cardinality(lower) <= Cardinality(upper) /\ Cardinality(lower) # Cardinality(upper)
    BY <2>4, <2>5, FS_Subset
  <2> QED
    BY <2>5, <2>6
<1>4. Cardinality(Below(s)) < Cardinality(Used)
  BY <1>1, <1>2, FS_Subset
<1>5. ASSUME NEW t \in Used, Index(t) = Index(s) PROVE t = s
  <2>1. Index(t) \in Nat /\ Index(s) \in Nat /\ t \in Int /\ s \in Int
    BY <1>1, <1>2
  <2>2. t < s => Index(t) < Index(s)
    BY <1>3
  <2>3. s < t => Index(s) < Index(t)
    BY <1>3
  <2> QED
    BY <1>5, <2>1, <2>2, <2>3
<1>6. Cardinality(Used) <= size /\ size \in Nat
  BY DEF RoomLeft, IInv, TypeInv
<1> HIDE DEF Below
<1> QED
  BY <1>1, <1>2, <1>4, <1>5, <1>6 DEF Count

(* A lookup finds the element of the key. *)
LEMMA FoundInItsSlot ==
  ASSUME IInv, NEW key \in Keys, ~Missing(key)
  PROVE  \E s \in Used : data[s].key = key /\ Found(key) = At(s).value
<1>1. PICK i \in Chain : HeldAt(key, i)
  BY DEF Missing
<1>2. Slot(key, i) \in Used /\ data[Slot(key, i)].key = key
  BY <1>1, SlotInTable, FreeHasNoKey DEF HeldAt, Used, IInv
<1>3. \E j \in Chain : HeldFirst(key, j)
  <2>1. PICK s \in Used : data[s].key = key
    BY <1>2
  <2>2. PICK j \in Chain : s = Slot(key, j) /\ FitsFirst(key, j)
    BY <2>1 DEF IInv, InItsChain
  <2> QED
    BY <2>1, <2>2 DEF HeldFirst, HeldAt, FitsFirst, Fits
<1>4. PICK j \in Chain : HeldAt(key, j) /\ Found(key) = At(Slot(key, j)).value
  BY <1>3 DEF Found, HeldFirst
<1>5. Slot(key, j) \in Used /\ data[Slot(key, j)].key = key
  BY <1>4, SlotInTable, FreeHasNoKey DEF HeldAt, Used, IInv
<1> QED
  BY <1>4, <1>5

(* The index functions and the lookup find the same element of a key. *)
THEOREM IndexesAgree == TableSpec => []IndexesAgreeWithLookups
<1>1. IInv /\ RoomLeft /\ TableInv => IndexesAgreeWithLookups
  <2> SUFFICES ASSUME IInv, RoomLeft, TableInv, Ready, NEW key \in Keys
               PROVE  IF Missing(key) THEN IndexOfKey(key) = Count
                      ELSE /\ IndexOfKey(key) < Count
                           /\ KeyAtIndex(IndexOfKey(key)) = key
                           /\ ExpressionAtIndex(IndexOfKey(key)) = Found(key)
    BY DEF IndexesAgreeWithLookups
  <2>1. Iterated = Used
    BY IteratesUsed
  <2>2. \A s \in Used : At(s).key = data[s].key
    BY DEF TableInv, Linked, Ready, Held, Owned, At
  <2>3. CASE Missing(key)
    <3>1. \A s \in Used : data[s].key # key
      BY <2>3 DEF IInv, InItsChain, Missing, HeldAt
    <3> QED
      BY <2>1, <2>2, <2>3, <3>1 DEF IndexOfKey
  <2>4. CASE ~Missing(key)
    <3>1. PICK i \in Chain : HeldAt(key, i)
      BY <2>4 DEF Missing
    <3>2. PICK s \in Used : s = Slot(key, i) /\ data[s].key = key
      BY <3>1, SlotInTable, FreeHasNoKey DEF HeldAt, Used, IInv
    <3>3. \A t \in Used : data[t].key = key => t = s
      BY <3>2, ChainsAreExclusive DEF IInv, OneSlotPerKey
    <3>4. {t \in Iterated : At(t).key = key} = {s}
      BY <2>1, <2>2, <3>2, <3>3
    <3>5. s \in Int
      BY <3>2 DEF Used, Positions, IInv, TypeInv
    <3>6. IndexOfKey(key) = Index(s)
      BY <3>4, <3>5 DEF IndexOfKey
    <3>7. {t \in Iterated : Index(t) = Index(s)} = {s}
      BY <2>1, IndexesAreDistinct
    <3>8. KeyAtIndex(Index(s)) = key /\ ExpressionAtIndex(Index(s)) = At(s).value
      BY <2>2, <3>2, <3>7 DEF KeyAtIndex, ExpressionAtIndex
    <3>9. Found(key) = At(s).value
      BY <2>4, <3>3, FoundInItsSlot
    <3> QED
      BY <2>4, <3>6, <3>8, <3>9, IndexesAreDistinct
  <2> QED
    BY <2>3, <2>4
<1> QED
  BY <1>1, TableInductive, PTL

-----------------------------------------------------------------------------
(* What the call under way will have done once hashmap_put returns. *)
Value(p) == elements[p].value
CallOf(op) == call = Result(op, Bottom.key, Value(Bottom.data))

CallInv ==
  /\ \A e \in Held : Value(e.data) \in Expressions
  /\ ~Idle => /\ Value(Bottom.data) \in Expressions
              /\ \/ CallOf("set")
                 \/ /\ CallOf("lookup")
                    /\ m_callback /\ Created[Bottom.key] = Value(Bottom.data)
                    /\ \A e \in Held : e.key # Bottom.key

(* Between two calls a lookup finds what the key is bound to. *)
LEMMA FoundIsBound ==
  ASSUME IInv, CallInv, Idle, NEW key \in Keys
  PROVE  /\ Found(key) = bindings[key]
         /\ Found(key) = Absent => \A e \in Held : e.key # key
<1>1. Held = {data[s] : s \in Used}
  BY IdleHolds
<1>2. StoresWhatIsHeld
  BY StoreIsHeld DEF IInv
<1>3. bindings[key] = IF store[key] = Absent THEN Absent ELSE Value(store[key])
  BY DEF bindings, Value
<1>4. CASE Missing(key)
  <2>1. \A s \in Used : data[s].key # key
    BY <1>4 DEF IInv, InItsChain, Missing, HeldAt
  <2> QED
    BY <1>1, <1>2, <1>3, <1>4, <2>1 DEF StoresWhatIsHeld, Found
<1>5. CASE ~Missing(key)
  <2>1. PICK s \in Used : data[s].key = key /\ Found(key) = At(s).value
    BY <1>5, FoundInItsSlot
  <2>2. data[s] \in Held /\ data[s] \in Elements
    BY <1>1, HeldIsTyped DEF IInv
  <2>3. store[key] = data[s].data /\ store[key] # Absent
    BY <1>2, <2>1, <2>2, HashMapAssumption DEF StoresWhatIsHeld, Elements
  <2>4. Found(key) = Value(data[s].data) /\ Found(key) # Absent
    BY <2>1, <2>2, ReferenceTableAssumption DEF At, Value, CallInv
  <2> QED
    BY <1>3, <2>3, <2>4
<1> QED
  BY <1>4, <1>5

LEMMA NewCall ==
  ASSUME ElementsTyped, Linked, CallInv, Ready, IInv, NEW key \in Keys, NEW e \in Expressions,
         SetExpressionForKey(key, e)
  PROVE  /\ ~Idle' /\ Held' = Held /\ Bottom'.key = key /\ Value(Bottom.data)' = e
         /\ returned' = returned
         /\ \A f \in Held : Value(f.data)' = Value(f.data)
<1>1. PICK p \in Unused : /\ elements' = [elements EXCEPT ![p] = Element(key, e)]
                          /\ PutCalled(key, p)
  BY DEF SetExpressionForKey
<1>2. elements'[p] = Element(key, e)
  BY <1>1 DEF ElementsTyped, Unused
<1>3. puts' = <<Activation(key, p, <<>>, 0)>> /\ returned' = returned
  BY <1>1 DEF PutCalled
<1>4. Bottom'.key = key /\ Value(Bottom.data)' = e
  BY <1>2, <1>3 DEF Bottom, Value, Activation, Element
<1>5. /\ ~Idle' /\ Held' = Held
      /\ \A q \in Data : elements[q].state # "unallocated" => elements'[q] = elements[q]
  BY NewElement DEF Ready
<1>6. ASSUME NEW f \in Held PROVE Value(f.data)' = Value(f.data)
  <2>1. f \in Elements /\ Owned(f)
    BY HeldIsTyped DEF IInv, Linked, Ready
  <2> QED
    BY <1>5, <2>1 DEF Owned, Elements, Value
<1> QED
  BY <1>3, <1>4, <1>5, <1>6

LEMMA CallStep ==
  IInv /\ TableInv /\ CallInv /\ [TableNext]_<<vars, tableVars>> => CallInv'
<1> SUFFICES ASSUME IInv, TableInv, CallInv, [TableNext]_<<vars, tableVars>>
             PROVE  CallInv'
  OBVIOUS
<1>1. ElementsTyped /\ Linked
  BY DEF TableInv
<1>2. CASE PutSteps
  <2>1. Internal /\ UNCHANGED <<elements, call, m_callback>>
    BY <1>2 DEF PutSteps
  <2>2. /\ \A e \in Held' : e \in Held \/ e = BottomElement
        /\ ~Idle' => BottomElement' = BottomElement
    BY <2>1, InternalHolds
  <2>3. ~Idle
    BY <2>1 DEF Internal, Store, Rehash, Move, OutOfMemory
  <2>4. \A e \in Held' : Value(e.data)' \in Expressions
    BY <2>1, <2>2, <2>3 DEF CallInv, Value, BottomElement
  <2>5. CASE ~Idle'
    <3>1. Held' = Held
      BY <2>1, <2>5, LongerCallsKeep
    <3>2. Bottom'.key = Bottom.key /\ Bottom'.data = Bottom.data
      BY <2>2, <2>5 DEF BottomElement
    <3> QED
      BY <2>1, <2>3, <2>4, <3>1, <3>2 DEF CallInv, CallOf, Value
  <2> QED
    BY <2>4, <2>5 DEF CallInv
<1>3. ASSUME NEW key \in Keys, NEW e \in Expressions, Ready, SetExpressionForKey(key, e),
             \/ call' = Result("set", key, e)
             \/ /\ call' = Result("lookup", key, e) /\ m_callback' = m_callback
                /\ m_callback /\ Created[key] = e /\ Found(key) = Absent
      PROVE  CallInv'
  <2>1. /\ ~Idle' /\ Held' = Held /\ Bottom'.key = key /\ Value(Bottom.data)' = e
        /\ \A f \in Held : Value(f.data)' = Value(f.data)
    BY <1>1, <1>3, NewCall
  <2>2. Found(key) = Absent => \A f \in Held : f.key # key
    BY <1>3, FoundIsBound DEF Ready
  <2> QED
    BY <1>3, <2>1, <2>2 DEF CallInv, CallOf
<1>4. CASE Destroy
  <2>1. /\ elements' = [p \in Data |-> IF p \in {data[s].data : s \in Iterated}
                                        THEN Freed(elements[p]) ELSE elements[p]]
        /\ Idle /\ UNCHANGED vars
    BY <1>4 DEF Destroy, Ready
  <2>2. \A p \in Data : Value(p)' = Value(p)
    BY <1>1, <2>1 DEF Value, ElementsTyped, Freed
  <2>3. Held' = Held /\ Held \subseteq Elements /\ Idle'
    BY <2>1, HeldIsTyped DEF IInv, vars, Held, Moving, ToMove, Used, Positions, Idle
  <2> QED
    BY <2>2, <2>3 DEF CallInv, Elements
<1>5. ASSUME UNCHANGED <<table_size, size, data, puts, elements>>, Idle PROVE CallInv'
  BY <1>5 DEF CallInv, Value, Idle, Held, Moving, ToMove, Used, Positions
<1>6. ASSUME NEW key \in Keys, ExpressionForKey(key) PROVE CallInv'
  <2>1. CASE CreateUnknown(key)
    BY <1>3, <1>6, <2>1, ReferenceTableAssumption DEF ExpressionForKey, CreateUnknown
  <2>2. CASE ~CreateUnknown(key)
    BY <1>5, <1>6, <2>2 DEF ExpressionForKey, Get
  <2> QED
    BY <2>1, <2>2
<1>7. ASSUME NEW key \in Keys, NEW e \in Expressions, Set(key, e) PROVE CallInv'
  BY <1>3, <1>7 DEF Set
<1>8. CASE \E on \in BOOLEAN : SetCreateUnknownKeyCallback(on)
  BY <1>5, <1>8 DEF SetCreateUnknownKeyCallback, Ready, vars
<1>9. CASE UNCHANGED <<vars, tableVars>>
  BY <1>9 DEF CallInv, CallOf, Value, Bottom, Idle, Held, Moving, ToMove, Used, Positions,
             vars, tableVars
<1> QED
  BY <1>2, <1>4, <1>6, <1>7, <1>8, <1>9 DEF TableNext

-----------------------------------------------------------------------------
(* The elements the map holds keep their expressions. *)
LEMMA BindingsFollowStore ==
  ASSUME IInv, IInv', \A p \in Data : Value(p)' = Value(p)
  PROVE  /\ \A key \in Keys : bindings'[key] = IF store'[key] = Absent THEN Absent
                                               ELSE Value(store'[key])
         /\ \A key \in Keys : bindings[key] = IF store[key] = Absent THEN Absent
                                              ELSE Value(store[key])
         /\ bindings = [key \in Keys |-> bindings[key]]
         /\ bindings' = [key \in Keys |-> bindings'[key]]
<1>1. StoresWhatIsHeld'
  BY StoreIsHeld, PTL DEF IInv
<1>2. store' \in [Keys -> Data \cup {Absent}]
  BY <1>1 DEF StoresWhatIsHeld
<1> QED
  BY <1>2 DEF bindings, Value

LEMMA SameBindings ==
  ASSUME IInv, IInv', Held' = Held, \A e \in Held : Value(e.data)' = Value(e.data)
  PROVE  bindings' = bindings
<1>1. store' = store
  BY SameHeldSameStore
<1>2. StoresWhatIsHeld
  BY StoreIsHeld DEF IInv
<1>3. ASSUME NEW key \in Keys, store[key] # Absent
      PROVE  Value(store[key])' = Value(store[key])
  <2>1. PICK e \in Held : e.key = key
    BY <1>2, <1>3 DEF StoresWhatIsHeld
  <2>2. store[key] = e.data
    BY <1>2, <2>1 DEF StoresWhatIsHeld
  <2>3. PICK d : d = e.data
    OBVIOUS
  <2>4. elements'[d].value = elements[d].value
    BY <2>1, <2>3 DEF Value
  <2> QED
    BY <1>1, <2>2, <2>3, <2>4 DEF Value
<1>4. \A key \in Keys : store[key] # Absent => elements'[store[key]].value = elements[store[key]].value
  BY <1>1, <1>3 DEF Value
<1> QED
  BY <1>1, <1>4 DEF bindings

(* The last step of a put binds the key of the call, or reports that there  *)
(* is no memory.                                                            *)
LEMMA LastStepBinds ==
  ASSUME IInv, IInv', TableInv, CallInv, PutSteps, Idle'
  PROVE  /\ Promised!Bind(Bottom.key, Value(Bottom.data))
         /\ result' = call /\ m_callback' = m_callback
<1>1. Internal /\ UNCHANGED <<elements, m_callback>> /\ result' = call /\ ~Idle
  BY DEF PutSteps, Internal, Store, Rehash, Move, OutOfMemory
<1>2. \A p \in Data : Value(p)' = Value(p)
  BY <1>1 DEF Value
<1>3. PICK b, c : b = bindings /\ c = bindings'
  OBVIOUS
<1>4. PICK before, after : before = store /\ after = store'
  OBVIOUS
<1>5. /\ \A key \in Keys : c[key] = IF after[key] = Absent THEN Absent ELSE Value(after[key])
      /\ \A key \in Keys : b[key] = IF before[key] = Absent THEN Absent ELSE Value(before[key])
      /\ b = [key \in Keys |-> b[key]] /\ c = [key \in Keys |-> c[key]]
  BY <1>2, <1>3, <1>4, BindingsFollowStore
<1>6. Bottom.key \in Keys /\ Bottom.data \in Data /\ Bottom.data # Absent
      /\ Len(puts) \in Nat \ {0} /\ puts \in Seq(Calls)
  BY <1>1, RunningIsTyped, HashMapAssumption DEF IInv, TypeInv, Calls, Bottom
<1>7. before \in [Keys -> Data \cup {Absent}] /\ after \in [Keys -> Data \cup {Absent}]
  <2>1. StoresWhatIsHeld /\ StoresWhatIsHeld'
    BY StoreIsHeld, PTL DEF IInv
  <2> QED
    BY <1>4, <2>1 DEF StoresWhatIsHeld
<1>8. CASE Store
  <2>1. Len(puts) = 1
    <3>1. puts' = SubSeq(puts, 1, Len(puts) - 1) /\ puts' = <<>>
      BY <1>8 DEF Store, Return, Idle
    <3>2. DOMAIN puts' = 1..(Len(puts) - 1)
      BY <1>1, <3>1, PopCall DEF IInv
    <3>3. \A n \in Nat \ {0} : 1..(n - 1) = {} => n = 1
      OBVIOUS
    <3>4. DOMAIN puts' = {}
      BY <3>1
    <3> QED
      BY <1>6, <3>2, <3>3, <3>4
  <2>2. Running = Bottom
    BY <2>1 DEF Running, Bottom
  <2>3. Abstract!Put(Bottom.key, Bottom.data)
    BY <1>8, <2>1, <2>2, PutRefines
  <2>4. after = [before EXCEPT ![Bottom.key] = Bottom.data] /\ returned'.status = "MAP_OK"
    BY <1>4, <2>3 DEF Abstract!Put, Abstract!Answer
  <2>5. c = [b EXCEPT ![Bottom.key] = Value(Bottom.data)]
    BY <1>5, <1>6, <1>7, <2>4
  <2> QED
    BY <1>1, <1>3, <2>4, <2>5 DEF Promised!Bind
<1>9. CASE OutOfMemory
  <2>1. Abstract!PutWithoutMemory(Bottom.key, Bottom.data)
    BY <1>9, PutWithoutMemoryRefines
  <2>2. \A k \in Keys : after[k] \in {before[k], Absent}
    BY <1>4, <2>1 DEF Abstract!PutWithoutMemory
  <2>3. returned'.status = "MAP_OMEM"
    BY <2>1 DEF Abstract!PutWithoutMemory, Abstract!Answer
  <2>4. \A k \in Keys : c[k] \in {b[k], Absent} /\ b[k] \in Expressions \cup {Absent}
    <3>1. StoresWhatIsHeld
      BY StoreIsHeld DEF IInv
    <3>2. \A k \in Keys : before[k] # Absent => Value(before[k]) \in Expressions
      BY <1>4, <3>1 DEF StoresWhatIsHeld, CallInv
    <3> QED
      BY <1>5, <2>2, <3>2
  <2>5. c \in [Keys -> Expressions \cup {Absent}]
    BY <1>5, <2>4
  <2> QED
    BY <1>1, <1>3, <2>3, <2>4, <2>5 DEF Promised!Bind
<1>10. CASE Rehash \/ Move
  <2>1. Len(puts') # 0
    BY <1>6, <1>10 DEF Rehash, Move
  <2> QED
    BY <2>1 DEF Idle
<1> QED
  BY <1>1, <1>8, <1>9, <1>10 DEF Internal

LEMMA TableStepRefines ==
  IInv /\ IInv' /\ TableInv /\ CallInv /\ [TableNext]_<<vars, tableVars>>
    => [Promised!Next]_<<bindings, m_callback, result, returned.status>>
<1> SUFFICES ASSUME IInv, IInv', TableInv, CallInv, [TableNext]_<<vars, tableVars>>
             PROVE  \/ Promised!Next
                    \/ UNCHANGED <<bindings, m_callback, result, returned.status>>
  OBVIOUS
<1>1. ElementsTyped /\ Linked
  BY DEF TableInv
<1>2. CASE PutSteps /\ Idle'
  <2>1. /\ Promised!Bind(Bottom.key, Value(Bottom.data))
        /\ result' = call /\ m_callback' = m_callback
    BY <1>2, LastStepBinds
  <2>2. ~Idle
    BY <1>2 DEF PutSteps, Internal, Store, Rehash, Move, OutOfMemory
  <2>3. Bottom.key \in Keys /\ Value(Bottom.data) \in Expressions
    BY <2>2, RunningIsTyped DEF IInv, Calls, Bottom, CallInv
  <2>4. CASE CallOf("set")
    BY <2>1, <2>3, <2>4 DEF CallOf, Promised!Next, Promised!Set, Promised!Result, Result
  <2>5. CASE /\ CallOf("lookup")
             /\ m_callback /\ Created[Bottom.key] = Value(Bottom.data)
             /\ \A e \in Held : e.key # Bottom.key
    <3>1. bindings[Bottom.key] = Absent
      BY <2>3, <2>5, StoreIsHeld DEF IInv, StoresWhatIsHeld, bindings
    <3>2. Promised!Creates(Bottom.key)
      BY <2>3, <2>5, ReferenceTableAssumption DEF Promised!Creates
    <3>3. Promised!Lookup(Bottom.key)
      BY <2>1, <2>5, <3>1, <3>2 DEF CallOf, Promised!Lookup, Promised!Result, Result
    <3> QED
      BY <2>3, <3>3 DEF Promised!Next
  <2> QED
    BY <2>2, <2>4, <2>5 DEF CallInv
<1>3. CASE PutSteps /\ ~Idle'
  <2>1. Internal /\ UNCHANGED <<elements, m_callback, result>>
    BY <1>3 DEF PutSteps
  <2>2. Held' = Held
    BY <1>3, <2>1, LongerCallsKeep
  <2>3. bindings' = bindings
    BY <2>1, <2>2, SameBindings DEF Value
  <2>4. returned' = returned
    BY <1>3, <2>1, LongerCallsAnswerNothing
  <2> QED
    BY <2>1, <2>3, <2>4
<1>4. ASSUME NEW key \in Keys, NEW e \in Expressions, Ready, SetExpressionForKey(key, e)
      PROVE  bindings' = bindings /\ returned' = returned
  <2>1. /\ Held' = Held /\ returned' = returned
        /\ \A f \in Held : Value(f.data)' = Value(f.data)
    BY <1>1, <1>4, NewCall
  <2> QED
    BY <2>1, SameBindings
<1>5. CASE Destroy
  <2>1. /\ elements' = [p \in Data |-> IF p \in {data[s].data : s \in Iterated}
                                        THEN Freed(elements[p]) ELSE elements[p]]
        /\ UNCHANGED <<vars, m_callback, result>>
    BY <1>5 DEF Destroy, Ready
  <2>2. \A p \in Data : Value(p)' = Value(p)
    BY <1>1, <2>1 DEF Value, ElementsTyped, Freed
  <2>3. Held' = Held /\ Held \subseteq Elements
    BY <2>1, HeldIsTyped DEF IInv, vars, Held, Moving, ToMove, Used, Positions
  <2>4. \A e \in Held : Value(e.data)' = Value(e.data)
    BY <2>2, <2>3 DEF Elements
  <2>5. bindings' = bindings
    BY <2>3, <2>4, SameBindings
  <2> QED
    BY <2>1, <2>5 DEF vars
<1>6. ASSUME UNCHANGED <<table_size, size, data, puts, elements>> PROVE bindings' = bindings
  BY <1>6 DEF bindings, store, Held, Moving, ToMove, Used, Positions
<1>7. ASSUME NEW key \in Keys, ExpressionForKey(key)
      PROVE  \/ Promised!Next
             \/ UNCHANGED <<bindings, m_callback, result, returned.status>>
  <2>1. CASE CreateUnknown(key)
    BY <1>4, <1>7, <2>1, ReferenceTableAssumption DEF ExpressionForKey, CreateUnknown
  <2>2. CASE ~CreateUnknown(key)
    <3>1. /\ ~(Found(key) = Absent /\ m_callback /\ Created[key] # Absent)
          /\ Get(key) /\ Idle
          /\ result' = Result("lookup", key, Found(key))
          /\ UNCHANGED <<elements, m_callback>>
      BY <1>7, <2>2 DEF ExpressionForKey, Ready
    <3>2. bindings' = bindings
      BY <1>6, <3>1 DEF Get
    <3>3. Found(key) = bindings[key]
      BY <3>1, FoundIsBound
    <3>4. returned'.status = IF Found(key) = Absent THEN "MAP_MISSING" ELSE "MAP_OK"
      <4>1. CASE Missing(key)
        <5>1. \A i \in Chain : ~HeldFirst(key, i)
          BY <4>1 DEF Missing, HeldFirst
        <5> QED
          BY <3>1, <4>1, <5>1 DEF Get, Found, Answer
      <4>2. CASE ~Missing(key)
        <5>1. PICK s \in Used : data[s].key = key /\ Found(key) = At(s).value
          BY <4>2, FoundInItsSlot
        <5>2. data[s] \in Held
          BY DEF Held
        <5>3. Found(key) # Absent
          BY <5>1, <5>2, ReferenceTableAssumption DEF CallInv, Value, At
        <5> QED
          BY <3>1, <4>2, <5>3 DEF Get, Answer
      <4> QED
        BY <4>1, <4>2
    <3>5. Promised!Lookup(key)
      BY <3>1, <3>2, <3>3, <3>4 DEF Promised!Lookup, Promised!Creates, Promised!Result, Result
    <3> QED
      BY <3>5 DEF Promised!Next
  <2> QED
    BY <2>1, <2>2
<1>8. ASSUME NEW key \in Keys, NEW e \in Expressions, Set(key, e)
      PROVE  UNCHANGED <<bindings, m_callback, result, returned.status>>
  BY <1>4, <1>8 DEF Set
<1>9. ASSUME NEW on \in BOOLEAN, SetCreateUnknownKeyCallback(on) PROVE Promised!Next
  <2>1. UNCHANGED <<vars, elements, result>> /\ m_callback' = on
    BY <1>9 DEF SetCreateUnknownKeyCallback
  <2>2. bindings' = bindings /\ returned' = returned
    BY <1>6, <2>1 DEF vars
  <2> QED
    BY <2>1, <2>2 DEF Promised!Next, Promised!SetCallback
<1>10. CASE UNCHANGED <<vars, tableVars>>
  BY <1>6, <1>10 DEF vars, tableVars
<1> QED
  BY <1>2, <1>3, <1>5, <1>7, <1>8, <1>9, <1>10 DEF TableNext

(* A reference table binds names: a lookup gives the newest expression set, *)
(* and the callback is asked for a name that has none, once.                *)
THEOREM TableRefines == TableSpec => BindsNames
<1>1. TableInit => Promised!Init /\ CallInv
  <2> SUFFICES ASSUME TableInit PROVE Promised!Init /\ CallInv
    OBVIOUS
  <2>1. Used = {} /\ puts = <<>>
    BY DEF TableInit, Init, Used, Positions, Fresh
  <2>2. Held = {} /\ Idle
    BY <2>1 DEF Held, Moving, Idle
  <2>3. store = [key \in Keys |-> Absent]
    BY <2>2 DEF store
  <2>4. bindings = [key \in Keys |-> Absent]
    BY <2>3 DEF bindings
  <2> QED
    BY <2>2, <2>4 DEF TableInit, Init, Promised!Init, Promised!Result, Result, Answer, CallInv
<1>2. TableSpec => []CallInv
  BY <1>1, TableInductive, CallStep, PTL DEF TableSpec
<1> QED
  BY <1>1, <1>2, TableInductive, TableStepRefines, PTL DEF TableSpec, BindsNames, Promised!Spec
=============================================================================
