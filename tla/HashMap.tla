------------------------------ MODULE HashMap ------------------------------
(***************************************************************************)
(* The hash map of libWexpr (ThirdParty/c_hashmap): open addressing with   *)
(* linear probing of at most MAX_CHAIN_LENGTH slots, and a table that is   *)
(* doubled when it is half full or a chain is.                             *)
(*                                                                         *)
(* hashmap_put and hashmap_rehash call each other: a put that finds no     *)
(* slot rehashes, which puts every element of the old table, and each of   *)
(* these may rehash in turn.  `puts` is the stack of the calls under way,  *)
(* the caller's own at its bottom.  An activation of hashmap_put holds its *)
(* key and datum and, while its rehash runs, the old table (curr) and how  *)
(* far it was gone through (i).                                            *)
(***************************************************************************)
EXTENDS Naturals, Sequences, FiniteSets

CONSTANTS
  Keys,              (* the strings used as keys                           *)
  Data,              (* the pointers they are mapped to                    *)
  Absent,            (* NULL                                               *)
  hash,              (* hashmap_hash_int, before it is taken modulo the    *)
                     (* size of the table                                  *)
  INITIAL_SIZE,
  MAX_CHAIN_LENGTH,
  MaxTableSize       (* bound: no memory for a larger table                *)

VARIABLES
  table_size,  (* how many slots there are                                 *)
  size,        (* how many the map believes are used                       *)
  data,        (* the slots                                                *)
  puts,        (* activations of hashmap_put                               *)
  returned     (* the answer of the last call                              *)

vars == <<table_size, size, data, puts, returned>>

ASSUME HashMapAssumption ==
  /\ Absent \notin Data \cup Keys
  /\ hash \in [Keys -> Nat]
  /\ INITIAL_SIZE \in Nat /\ INITIAL_SIZE >= 2
  /\ MAX_CHAIN_LENGTH \in Nat \ {0}
  /\ MaxTableSize \in Nat

Free == [key |-> Absent, data |-> Absent]
Elements == [key : Keys, data : Data]

Positions == 0..(table_size - 1)
Chain == 0..(MAX_CHAIN_LENGTH - 1)
(* Mutant: a slot too few. *)
FreshOneShort(n) == [s \in 0..(n - 2) |-> Free]
Fresh(n) == [s \in 0..(n - 1) |-> Free]
Used == {s \in Positions : data[s] # Free}

Answer(op, key, status, datum) ==
  [op |-> op, key |-> key, status |-> status, datum |-> datum]

Activation(key, datum, curr, i) ==
  [key |-> key, data |-> datum, curr |-> curr, i |-> i]

(* hashmap_new *)
Init ==
  /\ table_size = INITIAL_SIZE
  /\ size = 0
  /\ data = Fresh(INITIAL_SIZE)
  /\ puts = <<>>
  /\ returned = Answer("new", Absent, "MAP_OK", Absent)

-----------------------------------------------------------------------------
(* Where a key is looked for: the i-th slot of its chain. *)
Slot(key, i) == (hash[key] + i) % table_size

(* The search of hashmap_hash ends at a slot that is free or the key's. *)
Fits(key, i) == data[Slot(key, i)] = Free \/ data[Slot(key, i)].key = key
FitsFirst(key, i) == Fits(key, i) /\ \A j \in 0..(i - 1) : ~Fits(key, j)

(* Mutant: one element more. *)
OverHalfFull == size > table_size \div 2
HalfFull == size >= table_size \div 2
MAP_FULL(key) == HalfFull \/ \A i \in Chain : ~Fits(key, i)

(* hashmap_get and hashmap_remove pass over free slots. *)
HeldAt(key, i) == data[Slot(key, i)].key = key
HeldFirst(key, i) == HeldAt(key, i) /\ \A j \in 0..(i - 1) : ~HeldAt(key, j)
(* Mutant: a free slot ends the search. *)
MissingBeforeAHole(key) ==
  \A i \in Chain : HeldAt(key, i) => \E j \in 0..(i - 1) : data[Slot(key, j)] = Free
Missing(key) == \A i \in Chain : ~HeldAt(key, i)

-----------------------------------------------------------------------------
Idle == puts = <<>>
Running == puts[Len(puts)]
Bottom == puts[1]

(* What the rehash of an activation has not moved yet. *)
ToMove(put) == {s \in DOMAIN put.curr : put.i <= s /\ put.curr[s] # Free}

(* The running activation returns; the bottom one returns to the caller. *)
Return ==
  /\ puts' = SubSeq(puts, 1, Len(puts) - 1)
  /\ IF Len(puts) = 1
     THEN returned' = Answer("put", Bottom.key, "MAP_OK", Bottom.data)
     ELSE UNCHANGED returned

PutCalled(key, datum) ==
  /\ Idle
  /\ puts' = <<Activation(key, datum, <<>>, 0)>>
  /\ UNCHANGED <<table_size, size, data, returned>>

(* Mutant: an older element of the key is not replaced. *)
StoreInAFreeSlot ==
  /\ ~Idle /\ ToMove(Running) = {}
  /\ ~HalfFull
  /\ \E i \in Chain :
       /\ data[Slot(Running.key, i)] = Free
       /\ \A j \in 0..(i - 1) : data[Slot(Running.key, j)] # Free
       /\ data' = [data EXCEPT ![Slot(Running.key, i)] =
                     [key |-> Running.key, data |-> Running.data]]
  /\ size' = size + 1
  /\ Return
  /\ UNCHANGED table_size

(* hashmap_put once it has an index. *)
Store ==
  /\ ~Idle /\ ToMove(Running) = {}
  /\ ~HalfFull
  /\ \E i \in Chain :
       /\ FitsFirst(Running.key, i)
       /\ data' = [data EXCEPT ![Slot(Running.key, i)] =
                     [key |-> Running.key, data |-> Running.data]]
  /\ size' = size + 1
  /\ Return
  /\ UNCHANGED table_size

(* Mutant: a new table, of the same size. *)
RehashSameSize ==
  /\ ~Idle /\ ToMove(Running) = {} /\ MAP_FULL(Running.key)
  /\ 2 * table_size <= MaxTableSize
  /\ table_size' = table_size
  /\ data' = Fresh(table_size)
  /\ size' = 0
  /\ puts' = [puts EXCEPT ![Len(puts)] = Activation(@.key, @.data, data, 0)]
  /\ UNCHANGED returned

(* hashmap_rehash: a table twice as large, and the old one to go through. *)
Rehash ==
  /\ ~Idle /\ ToMove(Running) = {} /\ MAP_FULL(Running.key)
  /\ 2 * table_size <= MaxTableSize
  /\ table_size' = 2 * table_size
  /\ data' = Fresh(2 * table_size)
  /\ size' = 0
  /\ puts' = [puts EXCEPT ![Len(puts)] = Activation(@.key, @.data, data, 0)]
  /\ UNCHANGED returned

(* Mutant: passes over the slot behind an element. *)
MoveEverySecond ==
  /\ ~Idle
  /\ \E s \in ToMove(Running) :
       /\ \A t \in ToMove(Running) : s <= t
       /\ puts' = Append([puts EXCEPT ![Len(puts)] = Activation(@.key, @.data, @.curr, s + 2)],
                         Activation(Running.curr[s].key, Running.curr[s].data, <<>>, 0))
  /\ UNCHANGED <<table_size, size, data, returned>>

(* Its loop: the next element in use is put into the new table. *)
Move ==
  /\ ~Idle
  /\ \E s \in ToMove(Running) :
       /\ \A t \in ToMove(Running) : s <= t
       /\ puts' = Append([puts EXCEPT ![Len(puts)] = Activation(@.key, @.data, @.curr, s + 1)],
                         Activation(Running.curr[s].key, Running.curr[s].data, <<>>, 0))
  /\ UNCHANGED <<table_size, size, data, returned>>

(* calloc fails: every call under way returns MAP_OMEM, and what was not    *)
(* moved yet is in no table any more.                                       *)
OutOfMemory ==
  /\ ~Idle /\ ToMove(Running) = {} /\ MAP_FULL(Running.key)
  /\ puts' = <<>>
  /\ returned' = Answer("put", Bottom.key, "MAP_OMEM", Bottom.data)
  /\ UNCHANGED <<table_size, size, data>>

(* hashmap_get *)
Get(key) ==
  /\ Idle
  /\ \/ Missing(key) /\ returned' = Answer("get", key, "MAP_MISSING", Absent)
     \/ \E i \in Chain :
          /\ HeldFirst(key, i)
          /\ returned' = Answer("get", key, "MAP_OK", data[Slot(key, i)].data)
  /\ UNCHANGED <<table_size, size, data, puts>>

(* hashmap_remove: the slot becomes a hole in the chains that cross it. *)
Remove(key) ==
  /\ Idle
  /\ \/ /\ Missing(key)
        /\ returned' = Answer("remove", key, "MAP_MISSING", Absent)
        /\ UNCHANGED <<size, data>>
     \/ \E i \in Chain :
          /\ HeldFirst(key, i)
          /\ data' = [data EXCEPT ![Slot(key, i)] = Free]
          /\ size' = size - 1
          /\ returned' = Answer("remove", key, "MAP_OK", Absent)
  /\ UNCHANGED <<table_size, puts>>

Internal == Store \/ Rehash \/ Move \/ OutOfMemory

Next ==
  \/ Internal
  \/ \E key \in Keys : Get(key) \/ \E datum \in Data : PutCalled(key, datum)

(* The maps of Expression.c put and get; only a reference table removes.    *)
Spec == Init /\ [][Next]_vars
RemovingSpec == Init /\ [][Next \/ \E key \in Keys : Remove(key)]_vars
FairRemovingSpec == RemovingSpec /\ WF_vars(Internal)

-----------------------------------------------------------------------------
(* Properties.                                                              *)

(* Every register keeps its type. *)
TypeOK ==
  /\ table_size \in Nat \ {0}
  /\ size \in 0..table_size
  /\ data \in [Positions -> Elements \cup {Free}]
  /\ \A p \in DOMAIN puts :
       /\ [key |-> puts[p].key, data |-> puts[p].data] \in Elements
       /\ puts[p].i \in 0..table_size
       /\ puts[p].curr = <<>> \/ \E n \in 1..table_size :
                                  puts[p].curr \in [0..(n - 1) -> Elements \cup {Free}]
  /\ returned \in [op : {"new", "put", "get", "remove"}, key : Keys \cup {Absent},
                   status : {"MAP_OK", "MAP_OMEM", "MAP_MISSING"}, datum : Data \cup {Absent}]

(* Every element is where hashmap_get looks for its key, and no slot of its *)
(* chain before it is free or holds the key: the search finds the newest    *)
(* and no older element of the key is left behind.                          *)
InItsChain ==
  \A s \in Used : \E i \in Chain : s = Slot(data[s].key, i) /\ FitsFirst(data[s].key, i)

(* No key is in two slots. *)
OneSlotPerKey == \A s, t \in Used : data[s].key = data[t].key => s = t

(* The count of the map is at least the slots in use and the table is never *)
(* filled beyond its half, also by a rehash that fails or puts of which the *)
(* table holds the key, which count once more.                              *)
RoomLeft == Cardinality(Used) <= size /\ size <= table_size \div 2

(* What the map holds, wherever it is: in the table, or on its way from an  *)
(* old one into it.                                                         *)
Moving ==
  (UNION {{puts[p].curr[s] : s \in ToMove(puts[p])} : p \in DOMAIN puts})
    \cup {[key |-> puts[p].key, data |-> puts[p].data] : p \in DOMAIN puts \ {1}}
Held == {data[s] : s \in Used} \cup Moving

store ==
  LET held == Held
      Of(key) == {e.data : e \in {f \in held : f.key = key}}
  IN [key \in Keys |-> IF Of(key) = {} THEN Absent ELSE CHOOSE d \in Of(key) : TRUE]

(* A table that puts and gets is a map, however often it is rehashed.       *)
Abstract == INSTANCE KeyedStore
IsAMap == Abstract!Spec

(* Every put returns.                                                       *)
PutReturns == ~Idle ~> Idle

(* While nothing is removed a key can be found from its put on; a remove    *)
(* takes away no other key, whatever holes it leaves.                       *)
CanBeFound(key) == ~Missing(key) \/ \E e \in Moving : e.key = key
KeysStay ==
  [][\A key \in Keys :
       CanBeFound(key) =>
         \/ CanBeFound(key)'
         \/ returned'.status = "MAP_OMEM"
         \/ returned'.op = "remove" /\ returned'.key = key]_vars
=============================================================================
