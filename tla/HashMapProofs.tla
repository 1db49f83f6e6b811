--------------------------- MODULE HashMapProofs ---------------------------
(***************************************************************************)
(* The hash map is a map, for every hash function, every first size, every *)
(* length of a chain and however much memory there is, as long as nothing  *)
(* is removed.                                                             *)
(***************************************************************************)
EXTENDS HashMap, SequenceTheorems, FiniteSetTheorems, TLAPS

ElementsOrFree == Elements \cup {Free}
OldTables == UNION {[0..(n - 1) -> ElementsOrFree] : n \in Nat}
Calls == [key : Keys, data : Data, curr : OldTables \cup {<<>>}, i : Nat]

TypeInv ==
  /\ table_size \in Nat \ {0}
  /\ size \in Nat
  /\ data \in [Positions -> ElementsOrFree]
  /\ puts \in Seq(Calls)

(* No two elements the map holds disagree about a key. *)
Agree == \A e, f \in Held : e.key = f.key => e = f

IInv == TypeInv /\ InItsChain /\ Agree

-----------------------------------------------------------------------------
(* A chain stays in the table. *)
LEMMA SlotInTable ==
  ASSUME TypeInv, NEW key \in Keys, NEW i \in Chain
  PROVE  Slot(key, i) \in Positions
<1>1. hash[key] + i \in Nat
  BY HashMapAssumption DEF Chain
<1>2. \A a \in Nat, n \in Nat \ {0} : a % n \in 0..(n - 1)
  OBVIOUS
<1> QED
  BY <1>1, <1>2 DEF Slot, Positions, TypeInv

LEMMA FreeHasNoKey == \A key \in Keys : Free.key # key /\ Free \notin Elements
BY HashMapAssumption DEF Free, Elements

(* A search ends at one place. *)
LEMMA SearchEndsOnce ==
  ASSUME NEW key, NEW i \in Chain, NEW j \in Chain, FitsFirst(key, i), FitsFirst(key, j)
  PROVE  i = j
<1>1. i \in Nat /\ j \in Nat
  BY DEF Chain
<1>2. ASSUME NEW m \in Nat, NEW n \in Nat, Fits(key, m), FitsFirst(key, n) PROVE ~(m < n)
  <2>1. m < n => m \in 0..(n - 1)
    OBVIOUS
  <2> QED
    BY <1>2, <2>1 DEF FitsFirst
<1>3. ~(i < j) /\ ~(j < i)
  BY <1>1, <1>2 DEF FitsFirst
<1> QED
  BY <1>1, <1>3

(* An element found in its chain is the only one of its key. *)
LEMMA ChainsAreExclusive == InItsChain => OneSlotPerKey
<1> SUFFICES ASSUME InItsChain, NEW s \in Used, NEW t \in Used, data[s].key = data[t].key
             PROVE  s = t
  BY DEF OneSlotPerKey
<1>1. PICK i \in Chain : s = Slot(data[s].key, i) /\ FitsFirst(data[s].key, i)
  BY DEF InItsChain
<1>2. PICK j \in Chain : t = Slot(data[s].key, j) /\ FitsFirst(data[s].key, j)
  BY DEF InItsChain
<1>3. i = j
  BY <1>1, <1>2, SearchEndsOnce
<1> QED
  BY <1>1, <1>2, <1>3

LEMMA InitInv == Init => IInv
<1> SUFFICES ASSUME Init PROVE IInv
  OBVIOUS
<1>1. TypeInv
  BY HashMapAssumption DEF Init, TypeInv, Positions, Fresh, ElementsOrFree
<1>2. Used = {} /\ puts = <<>>
  BY DEF Init, Used, Positions, Fresh
<1>3. Held = {}
  BY <1>2 DEF Held, Moving
<1> QED
  BY <1>1, <1>2, <1>3 DEF IInv, InItsChain, Agree

-----------------------------------------------------------------------------
(* The stack of calls. *)

LEMMA RunningIsTyped ==
  ASSUME TypeInv, ~Idle
  PROVE  /\ Len(puts) \in Nat \ {0}
         /\ Running \in Calls
         /\ \A s \in ToMove(Running) : s \in Nat /\ Running.curr[s] \in Elements
         /\ \A p \in DOMAIN puts : puts[p] \in Calls
         /\ DOMAIN puts = 1..Len(puts)
<1>1. Len(puts) \in Nat \ {0} /\ Running \in Calls
      /\ DOMAIN puts = 1..Len(puts) /\ \A p \in DOMAIN puts : puts[p] \in Calls
  BY DEF TypeInv, Idle, Running
<1>2. ASSUME NEW s \in ToMove(Running)
      PROVE  s \in Nat /\ Running.curr[s] \in Elements
  <2>1. s \in DOMAIN Running.curr /\ Running.curr[s] # Free
    BY DEF ToMove
  <2>2. Running.curr \in OldTables
    BY <1>1, <2>1 DEF Calls
  <2>3. PICK n \in Nat : Running.curr \in [0..(n - 1) -> ElementsOrFree]
    BY <2>2 DEF OldTables
  <2> QED
    BY <2>1, <2>3 DEF ElementsOrFree
<1> QED
  BY <1>1, <1>2

(* An element moved by its own call, or pushed on top of the call moving it. *)
LEMMA PopCall ==
  ASSUME TypeInv, ~Idle,
         NEW front, front = SubSeq(puts, 1, Len(puts) - 1)
  PROVE  /\ front \in Seq(Calls)
         /\ DOMAIN front = 1..(Len(puts) - 1)
         /\ \A p \in DOMAIN front : front[p] = puts[p]
<1>1. PICK k \in Nat : k = Len(puts) - 1
  <2>1. Len(puts) \in Nat \ {0}
    BY RunningIsTyped
  <2> QED
    BY <2>1
<1>2. \A p \in 1..k : puts[p] \in Calls
  BY <1>1, RunningIsTyped
<1>3. /\ SubSeq(puts, 1, k) \in Seq(Calls)
      /\ Len(SubSeq(puts, 1, k)) = IF 1 <= k THEN k - 1 + 1 ELSE 0
      /\ \A p \in 1..(k - 1 + 1) : SubSeq(puts, 1, k)[p] = puts[1 + p - 1]
  BY <1>2, SubSeqProperties, 1 \in Int, k \in Int
<1>4. front = SubSeq(puts, 1, k)
  BY <1>1
<1> HIDE DEF Calls
<1>5. /\ front \in Seq(Calls)
      /\ Len(front) = IF 1 <= k THEN k - 1 + 1 ELSE 0
      /\ \A p \in 1..(k - 1 + 1) : front[p] = puts[1 + p - 1]
  BY <1>3, <1>4
<1>6. k - 1 + 1 = k /\ (~(1 <= k) => k = 0) /\ \A p \in 1..k : 1 + p - 1 = p
  OBVIOUS
<1> QED
  BY <1>1, <1>5, <1>6

-----------------------------------------------------------------------------
(* What a call of hashmap_put finds and stores. *)

Stored == [key |-> Running.key, data |-> Running.data]
StoresAt(i) ==
  /\ FitsFirst(Running.key, i)
  /\ data' = [data EXCEPT ![Slot(Running.key, i)] = Stored]
  /\ table_size' = table_size

LEMMA StoreInTable ==
  ASSUME TypeInv, ~Idle,
         NEW i \in Chain, StoresAt(i)
  PROVE  LET e == Stored
             s == Slot(Running.key, i)
         IN
         /\ e \in Elements /\ s \in Positions
         /\ data' \in [Positions -> ElementsOrFree]
         /\ Used' = Used \cup {s}
         /\ data'[s] = e
         /\ \A t \in Positions \ {s} : data'[t] = data[t]
         /\ data[s] = Free \/ (s \in Used /\ data[s].key = e.key)
<1> DEFINE e == Stored
           s == Slot(Running.key, i)
<1>1. e \in Elements
  BY RunningIsTyped DEF Calls, Elements, Stored
<1>2. s \in Positions
  BY RunningIsTyped, SlotInTable DEF Calls
<1>3. data' \in [Positions -> ElementsOrFree] /\ data'[s] = e
      /\ \A t \in Positions \ {s} : data'[t] = data[t]
  BY <1>1, <1>2 DEF TypeInv, ElementsOrFree, StoresAt
<1>4. Used' = Used \cup {s}
  <2>1. e # Free
    BY <1>1, FreeHasNoKey DEF Elements
  <2>2. Used' = {t \in Positions : data'[t] # Free}
    BY DEF Used, Positions, StoresAt
  <2> QED
    BY <1>2, <1>3, <2>1, <2>2 DEF Used
<1>5. data[s] = Free \/ (s \in Used /\ data[s].key = e.key)
  BY <1>2 DEF FitsFirst, Fits, Used, StoresAt, Stored
<1> QED
  BY <1>1, <1>2, <1>3, <1>4, <1>5

(* The chains are as they were, and the element stored is in its own. *)
LEMMA StoreInChain ==
  ASSUME TypeInv, InItsChain, ~Idle,
         NEW i \in Chain, StoresAt(i)
  PROVE  InItsChain'
<1>0. PICK e, s, key0 : e = Stored /\ key0 = Running.key /\ s = Slot(key0, i)
  OBVIOUS
<1>1. /\ e \in Elements /\ s \in Positions
      /\ Used' = Used \cup {s}
      /\ data'[s] = e
      /\ \A t \in Positions \ {s} : data'[t] = data[t]
      /\ data[s] = Free \/ (s \in Used /\ data[s].key = e.key)
  BY <1>0, StoreInTable
<1>2. e.key = key0 /\ e.key \in Keys
  BY <1>0, <1>1 DEF Elements, Stored
<1>3. \A key, j : Slot(key, j)' = Slot(key, j)
  BY DEF Slot, StoresAt
<1>4. ASSUME NEW key \in Keys, NEW j \in Chain, ~Fits(key, j)
      PROVE  key = e.key \/ ~Fits(key, j)'
  <2>1. Slot(key, j) \in Positions
    BY SlotInTable
  <2>2. CASE Slot(key, j) = s
    <3>1. data'[Slot(key, j)] = e /\ e # Free
      BY <1>1, <2>2, FreeHasNoKey
    <3> QED
      BY <1>3, <3>1 DEF Fits
  <2>3. CASE Slot(key, j) # s
    BY <1>1, <1>3, <1>4, <2>1, <2>3 DEF Fits
  <2> QED
    BY <2>2, <2>3
<1>5. ASSUME NEW j \in Chain, ~Fits(e.key, j)
      PROVE  ~Fits(e.key, j)'
  <2>1. Slot(e.key, j) \in Positions
    BY <1>2, SlotInTable
  <2>2. Slot(e.key, j) # s
    BY <1>1, <1>5 DEF Fits
  <2> QED
    BY <1>1, <1>3, <1>5, <2>1, <2>2 DEF Fits
<1>6. \A key \in Keys, j \in Chain : ~Fits(key, j) => ~Fits(key, j)'
  BY <1>4, <1>5
<1>7. \A j \in Chain : 0..(j - 1) \subseteq Chain
  BY HashMapAssumption DEF Chain
<1>8. ASSUME NEW t \in Used'
      PROVE  \E j \in Chain : t = Slot(data[t].key, j)' /\ FitsFirst(data[t].key, j)'
  <2>1. CASE t = s
    <3>1. Fits(e.key, i)'
      BY <1>0, <1>1, <1>2, <1>3 DEF Fits
    <3>2. FitsFirst(e.key, i)'
      BY <1>0, <1>2, <1>6, <1>7, <3>1 DEF FitsFirst, StoresAt
    <3> QED
      BY <1>1, <1>2, <1>3, <2>1, <3>2, <1>0
  <2>2. CASE t # s
    <3>1. t \in Used /\ t \in Positions /\ data'[t] = data[t]
      BY <1>1, <1>8, <2>2 DEF Used
    <3>2. PICK j \in Chain : t = Slot(data[t].key, j) /\ FitsFirst(data[t].key, j)
      BY <3>1 DEF InItsChain
    <3>3. data[t].key \in Keys
      BY <3>1 DEF Used, TypeInv, ElementsOrFree, Elements
    <3>4. Fits(data[t].key, j)'
      BY <1>3, <3>1, <3>2 DEF Fits
    <3>5. FitsFirst(data[t].key, j)'
      BY <1>6, <1>7, <3>1, <3>2, <3>3, <3>4 DEF FitsFirst
    <3> QED
      BY <1>3, <3>1, <3>2, <3>5
  <2> QED
    BY <2>1, <2>2
<1> QED
  BY <1>8 DEF InItsChain

-----------------------------------------------------------------------------
(* Where what the map holds is after each step: a rehash and the calls it   *)
(* makes move it about and lose none of it.                                 *)

(* What the calls below the running one, and the running one itself, hold.  *)
OfCall(put) == {put.curr[s] : s \in ToMove(put)}

LEMMA MovingSplit ==
  ASSUME NEW n, n = Len(puts), n \in Nat \ {0}, DOMAIN puts = 1..n
  PROVE  Moving = (UNION {OfCall(puts[p]) : p \in 1..n})
                    \cup {[key |-> puts[p].key, data |-> puts[p].data] : p \in 2..n}
<1>1. DOMAIN puts \ {1} = 2..n
  OBVIOUS
<1> QED
  BY <1>1 DEF Moving, OfCall

(* A call that returns takes away what it was to put itself. *)
LEMMA PopMoving ==
  ASSUME TypeInv, ~Idle, ToMove(Running) = {}, puts' = SubSeq(puts, 1, Len(puts) - 1)
  PROVE  /\ Len(puts) # 1 => Moving = Moving' \cup {Stored}
         /\ Len(puts) = 1 => Moving = {} /\ Moving' = {}
<1>0. PICK n, e : n = Len(puts) /\ e = Stored
  OBVIOUS
<1>1. /\ n \in Nat \ {0} /\ DOMAIN puts = 1..n
      /\ puts' \in Seq(Calls) /\ DOMAIN puts' = 1..(n - 1)
      /\ \A p \in 1..(n - 1) : puts'[p] = puts[p]
  BY <1>0, RunningIsTyped, PopCall
<1>2. CASE n # 1
  <2>1. e = [key |-> puts[n].key, data |-> puts[n].data]
    BY <1>0 DEF Stored, Running
  <2>2. OfCall(puts[n]) = {}
    BY <1>0 DEF OfCall, Running
  <2> DEFINE Calling(m) == {[key |-> puts[p].key, data |-> puts[p].data] : p \in 2..m}
             Waiting(m) == UNION {OfCall(puts[p]) : p \in 1..m}
             CallingNow == {[key |-> puts'[p].key, data |-> puts'[p].data] : p \in 2..(n - 1)}
             WaitingNow == UNION {OfCall(puts'[p]) : p \in 1..(n - 1)}
  <2>3. Moving = Waiting(n) \cup Calling(n)
    BY <1>0, <1>1, MovingSplit
  <2>4. Moving' = WaitingNow \cup CallingNow
    <3>1. DOMAIN puts' \ {1} = 2..(n - 1)
      BY <1>1
    <3> QED
      BY <1>1, <3>1 DEF Moving, OfCall, ToMove
  <2>5. 1..n = 1..(n - 1) \cup {n} /\ 2..n = 2..(n - 1) \cup {n}
        /\ 2..(n - 1) \subseteq 1..(n - 1)
    BY <1>1, <1>2
  <2>6. WaitingNow = Waiting(n - 1)
    <3>1. \A p \in 1..(n - 1) : OfCall(puts'[p]) = OfCall(puts[p])
      BY <1>1
    <3> QED
      BY <3>1
  <2>7. CallingNow = Calling(n - 1)
    BY <1>1, <2>5
  <2>8. Waiting(n) = Waiting(n - 1)
    BY <2>2, <2>5
  <2>9. Calling(n) = Calling(n - 1) \cup {e}
    BY <2>1, <2>5
  <2> HIDE DEF Calling, Waiting, CallingNow, WaitingNow
  <2> QED
    BY <1>0, <1>2, <2>3, <2>4, <2>6, <2>7, <2>8, <2>9
<1>3. CASE n = 1
  <2>1. DOMAIN puts = {1} /\ DOMAIN puts' = {}
    BY <1>1, <1>3
  <2>2. ToMove(puts[1]) = {}
    BY <1>0, <1>3 DEF Running
  <2> QED
    BY <1>0, <1>3, <2>1, <2>2 DEF Moving
<1> QED
  BY <1>0, <1>2, <1>3

(* A call of hashmap_put made by a rehash stores what was on its way. *)
LEMMA NestedStoreKeeps ==
  ASSUME IInv, ~Idle, ToMove(Running) = {}, Len(puts) # 1,
         NEW i \in Chain, StoresAt(i), puts' = SubSeq(puts, 1, Len(puts) - 1)
  PROVE  Held' = Held
<1>0. PICK e, s : e = Stored /\ s = Slot(Running.key, i)
  OBVIOUS
<1>2. /\ e \in Elements /\ s \in Positions
      /\ Used' = Used \cup {s}
      /\ data'[s] = e
      /\ \A t \in Positions \ {s} : data'[t] = data[t]
      /\ data[s] = Free \/ (s \in Used /\ data[s].key = e.key)
  BY <1>0, StoreInTable DEF IInv
<1>5. Moving = Moving' \cup {e}
  BY <1>0, PopMoving DEF IInv
<1>6. e \in Held
  BY <1>5 DEF Held
<1>7. data[s] = Free \/ data[s] = e
  <2>1. s \in Used => data[s] \in Held
    BY DEF Held
  <2> QED
    BY <1>2, <1>6, <2>1 DEF IInv, Agree
<1>8. {data'[t] : t \in Used'} = {data[t] : t \in Used} \cup {e}
  <2>1. Used \subseteq Positions
    BY DEF Used
  <2>2. \A t \in Used : data'[t] = data[t]
    BY <1>2, <1>7, <2>1 DEF Used
  <2> QED
    BY <1>2, <2>2
<1> QED
  BY <1>5, <1>8 DEF Held

(* The caller's own put replaces what the map held for its key. *)
LEMMA LastStoreReplaces ==
  ASSUME IInv, ~Idle, ToMove(Running) = {}, Len(puts) = 1,
         NEW i \in Chain, StoresAt(i), puts' = SubSeq(puts, 1, Len(puts) - 1)
  PROVE  /\ puts' = <<>>
         /\ Held' = {f \in Held : f.key # Running.key} \cup {Stored}
<1>0. PICK e, s : e = Stored /\ s = Slot(Running.key, i)
  OBVIOUS
<1>1. /\ DOMAIN puts = 1..1 /\ puts' \in Seq(Calls) /\ DOMAIN puts' = 1..0
  BY RunningIsTyped, PopCall DEF IInv
<1>2. puts' = <<>>
  BY <1>1
<1>3. /\ e \in Elements /\ s \in Positions
      /\ Used' = Used \cup {s}
      /\ data'[s] = e
      /\ \A t \in Positions \ {s} : data'[t] = data[t]
      /\ data[s] = Free \/ (s \in Used /\ data[s].key = e.key)
  BY <1>0, StoreInTable DEF IInv
<1>4. Moving = {} /\ Moving' = {}
  BY PopMoving DEF IInv
<1>5. \A t \in Used \ {s} : data[t].key # e.key
  <2> SUFFICES ASSUME NEW t \in Used, data[t].key = e.key PROVE t = s
    OBVIOUS
  <2>1. PICK j \in Chain : t = Slot(e.key, j) /\ FitsFirst(e.key, j)
    BY DEF IInv, InItsChain
  <2>2. FitsFirst(e.key, i) /\ s = Slot(e.key, i)
    BY <1>0 DEF StoresAt, Stored
  <2> QED
    BY <2>1, <2>2, SearchEndsOnce
<1>6. Held = {data[t] : t \in Used} /\ Held' = {data'[t] : t \in Used'}
  BY <1>4 DEF Held
<1>7. \A t \in Used \ {s} : data'[t] = data[t] /\ data'[t].key # e.key
  BY <1>3, <1>5 DEF Used
<1>8. Held' = {data[t] : t \in Used \ {s}} \cup {e}
  <2>1. Used' = (Used \ {s}) \cup {s}
    BY <1>3
  <2> QED
    BY <1>3, <1>6, <1>7, <2>1
<1>9. {data[t] : t \in Used \ {s}} = {f \in Held : f.key # e.key}
  <2>1. \A t \in Used : data[t].key # e.key <=> t # s
    BY <1>3, <1>5 DEF Used
  <2> QED
    BY <1>6, <2>1
<1>10. e.key = Running.key
  BY <1>0 DEF Stored
<1> QED
  BY <1>0, <1>2, <1>8, <1>9, <1>10

(* A rehash takes every element of the table on its way. *)
LEMMA RehashKeeps ==
  ASSUME TypeInv, Rehash
  PROVE  /\ Held' = Held
         /\ Used' = {}
         /\ puts' \in Seq(Calls)
<1> DEFINE n == Len(puts)
           top == Activation(Running.key, Running.data, data, 0)
<1>1. /\ n \in Nat \ {0} /\ DOMAIN puts = 1..n /\ ToMove(Running) = {}
      /\ puts' = [puts EXCEPT ![n] = top]
      /\ Running \in Calls
  BY RunningIsTyped DEF Rehash, Running
<1>2. Used' = {}
  BY DEF Rehash, Used, Positions, Fresh
<1>3. top \in Calls
  <2>1. data \in OldTables
    <3>1. table_size \in Nat /\ data \in [0..(table_size - 1) -> ElementsOrFree]
      BY DEF TypeInv, Positions
    <3> QED
      BY <3>1 DEF OldTables
  <2> QED
    BY <1>1, <2>1 DEF Activation, Calls
<1>4. puts' \in Seq(Calls)
  BY <1>1, <1>3 DEF TypeInv
<1>5. OfCall(top) = {data[s] : s \in Used}
  <2>1. ToMove(top) = Used
    BY DEF ToMove, Activation, Used, TypeInv, Positions
  <2> QED
    BY <2>1 DEF OfCall, Activation
<1> DEFINE Calling == {[key |-> puts[p].key, data |-> puts[p].data] : p \in 2..n}
           Waiting == UNION {OfCall(puts[p]) : p \in 1..(n - 1)}
           CallingNow == {[key |-> puts'[p].key, data |-> puts'[p].data] : p \in 2..n}
           WaitingNow == UNION {OfCall(puts'[p]) : p \in 1..(n - 1)}
<1>6. 1..n = 1..(n - 1) \cup {n} /\ n \notin 1..(n - 1)
  BY <1>1
<1>7. Moving = Waiting \cup Calling
  <2>1. Moving = (UNION {OfCall(puts[p]) : p \in 1..n}) \cup Calling
    BY <1>1, MovingSplit
  <2>2. OfCall(puts[n]) = {}
    BY <1>1 DEF OfCall, Running
  <2>3. UNION {OfCall(puts[p]) : p \in 1..n} = Waiting
    BY <1>6, <2>2
  <2> QED
    BY <2>1, <2>3
<1>8. Moving' = (WaitingNow \cup OfCall(top)) \cup CallingNow
  <2>1. DOMAIN puts' = 1..n /\ DOMAIN puts' \ {1} = 2..n /\ puts'[n] = top
    BY <1>1
  <2>2. Moving' = (UNION {OfCall(puts'[p]) : p \in 1..n}) \cup CallingNow
    BY <2>1 DEF Moving, OfCall, ToMove
  <2>3. UNION {OfCall(puts'[p]) : p \in 1..n} = WaitingNow \cup OfCall(top)
    BY <1>6, <2>1
  <2> QED
    BY <2>2, <2>3
<1>9. WaitingNow = Waiting
  <2>1. \A p \in 1..(n - 1) : puts'[p] = puts[p]
    BY <1>1, <1>6
  <2> QED
    BY <2>1
<1>10. CallingNow = Calling
  <2>1. \A p \in 2..n : puts'[p].key = puts[p].key /\ puts'[p].data = puts[p].data
    BY <1>1 DEF Activation, Running
  <2> QED
    BY <2>1
<1>11. Held' = Moving'
  BY <1>2 DEF Held
<1>12. Held = OfCall(top) \cup Moving
  BY <1>5 DEF Held
<1> HIDE DEF Waiting, Calling, WaitingNow, CallingNow, top
<1> QED
  BY <1>2, <1>4, <1>7, <1>8, <1>9, <1>10, <1>11, <1>12

(* An element that was to be moved is on its way in the call that moves it. *)
LEMMA MoveKeeps ==
  ASSUME TypeInv, Move
  PROVE  /\ Moving' = Moving
         /\ puts' \in Seq(Calls)
<1> DEFINE n == Len(puts)
<1>1. PICK s \in ToMove(Running) :
        /\ \A t \in ToMove(Running) : s <= t
        /\ puts' = Append([puts EXCEPT ![n] = Activation(@.key, @.data, @.curr, s + 1)],
                          Activation(Running.curr[s].key, Running.curr[s].data, <<>>, 0))
  BY DEF Move
<1>2. /\ n \in Nat \ {0} /\ DOMAIN puts = 1..n /\ Running \in Calls
      /\ s \in Nat /\ Running.curr[s] \in Elements
      /\ \A t \in ToMove(Running) : t \in Nat
  BY <1>1, RunningIsTyped DEF Move
<1> DEFINE top == Activation(Running.curr[s].key, Running.curr[s].data, <<>>, 0)
           moved == Activation(Running.key, Running.data, Running.curr, s + 1)
           below == [puts EXCEPT ![n] = moved]
<1>3. moved \in Calls /\ top \in Calls
  BY <1>2 DEF Calls, Activation, Elements
<1>4. /\ below \in Seq(Calls) /\ Len(below) = n /\ below[n] = moved
      /\ \A p \in 1..(n - 1) : below[p] = puts[p]
  <2> HIDE DEF moved
  <2>1. puts \in Seq(Calls) /\ n \in 1..n
    BY <1>2 DEF TypeInv
  <2>2. below \in Seq(Calls) /\ Len(below) = n
    BY <1>3, <2>1, ExceptSeq
  <2>3. \A p \in 1..(n - 1) : p \in 1..n /\ p # n
    <3>1. n \in Nat
      BY <1>2
    <3> HIDE DEF n, top, below
    <3> QED
      BY <3>1
  <2> QED
    BY <1>2, <2>1, <2>2, <2>3
<1>5. puts' = Append(below, top)
  BY <1>1 DEF Running
<1>6. /\ puts' \in Seq(Calls) /\ DOMAIN puts' = 1..(n + 1)
      /\ puts'[n + 1] = top /\ puts'[n] = moved
      /\ \A p \in 1..(n - 1) : puts'[p] = puts[p]
  <2>1. /\ puts' \in Seq(Calls) /\ Len(puts') = n + 1 /\ puts'[n + 1] = top
        /\ \A p \in 1..n : puts'[p] = below[p]
    <3> HIDE DEF top, below, Calls
    <3> QED
      BY <1>3, <1>4, <1>5, AppendProperties
  <2>2. n \in 1..n /\ \A p \in 1..(n - 1) : p \in 1..n
    <3>1. n \in Nat \ {0}
      BY <1>2
    <3> HIDE DEF n, top, below
    <3> QED
      BY <3>1
  <2> HIDE DEF top, below, moved, Calls
  <2>3. DOMAIN puts' = 1..(n + 1)
    BY <2>1
  <2> QED
    BY <1>4, <2>1, <2>2, <2>3
<1>7. OfCall(top) = {} /\ [key |-> top.key, data |-> top.data] = Running.curr[s]
  BY <1>2 DEF OfCall, ToMove, Activation, Elements
<1>8. OfCall(Running) = OfCall(moved) \cup {Running.curr[s]}
  <2>1. /\ moved.curr = Running.curr /\ moved.i = s + 1
        /\ ToMove(moved) = {t \in DOMAIN Running.curr : s + 1 <= t /\ Running.curr[t] # Free}
    BY DEF ToMove, Activation
  <2>2. \A t \in DOMAIN Running.curr : t \in Nat
    BY <1>2 DEF Calls, OldTables
  <2>3. Running.i \in Nat /\ Running.i <= s
    BY <1>1, <1>2 DEF Calls, ToMove
  <2>4. \A t \in Nat : s <= t <=> t = s \/ s + 1 <= t
    BY <1>2
  <2>5. \A t \in Nat : s <= t => Running.i <= t
    BY <1>2, <2>3
  <2>6. ToMove(Running) = ToMove(moved) \cup {s}
    <3>1. ASSUME NEW t \in ToMove(Running) PROVE t \in ToMove(moved) \cup {s}
      BY <1>1, <1>2, <2>1, <2>4 DEF ToMove
    <3>2. ASSUME NEW t \in ToMove(moved) PROVE t \in ToMove(Running)
      BY <2>1, <2>2, <2>4, <2>5 DEF ToMove
    <3> QED
      BY <1>1, <3>1, <3>2
  <2> QED
    BY <2>1, <2>6 DEF OfCall
<1> DEFINE Calling == {[key |-> puts[p].key, data |-> puts[p].data] : p \in 2..n}
           Waiting == UNION {OfCall(puts[p]) : p \in 1..(n - 1)}
           CallingNow == {[key |-> puts'[p].key, data |-> puts'[p].data] : p \in 2..n}
           WaitingNow == UNION {OfCall(puts'[p]) : p \in 1..(n - 1)}
<1>9. 1..n = 1..(n - 1) \cup {n} /\ n \notin 1..(n - 1)
      /\ 1..(n + 1) = 1..n \cup {n + 1} /\ 2..(n + 1) = 2..n \cup {n + 1}
  BY <1>2
<1>10. Moving = (Waiting \cup OfCall(Running)) \cup Calling
  <2>1. Moving = (UNION {OfCall(puts[p]) : p \in 1..n}) \cup Calling
    BY <1>2, MovingSplit
  <2>2. UNION {OfCall(puts[p]) : p \in 1..n} = Waiting \cup OfCall(Running)
    BY <1>9 DEF Running
  <2> QED
    BY <2>1, <2>2
<1>11. Moving' = (WaitingNow \cup OfCall(moved)) \cup (CallingNow \cup {Running.curr[s]})
  <2> HIDE DEF top, moved
  <2> DEFINE AllCalling == {[key |-> puts'[p].key, data |-> puts'[p].data] : p \in 2..(n + 1)}
             AllWaiting == UNION {OfCall(puts'[p]) : p \in 1..(n + 1)}
  <2>1. DOMAIN puts' \ {1} = 2..(n + 1)
    BY <1>2, <1>6
  <2>2. Moving' = AllWaiting \cup AllCalling
    BY <1>6, <2>1 DEF Moving, OfCall, ToMove
  <2>3. AllWaiting = WaitingNow \cup OfCall(moved)
    BY <1>6, <1>7, <1>9
  <2>4. AllCalling = CallingNow \cup {Running.curr[s]}
    BY <1>6, <1>7, <1>9
  <2> QED
    BY <2>2, <2>3, <2>4
<1>12. WaitingNow = Waiting
  <2>1. \A p \in 1..(n - 1) : OfCall(puts'[p]) = OfCall(puts[p])
    BY <1>6
  <2> QED
    BY <2>1
<1>13. CallingNow = Calling
  <2>1. moved.key = Running.key /\ moved.data = Running.data
    BY DEF Activation
  <2>2. \A p \in 2..n : puts'[p].key = puts[p].key /\ puts'[p].data = puts[p].data
    <3> HIDE DEF moved
    <3> QED
      BY <1>2, <1>6, <2>1 DEF Running
  <2> QED
    BY <2>2
<1> HIDE DEF Waiting, Calling, WaitingNow, CallingNow, moved, top
<1> QED
  BY <1>6, <1>8, <1>10, <1>11, <1>12, <1>13

-----------------------------------------------------------------------------
(* The invariant holds after every step. *)

(* While no call is under way nothing is on its way. *)
LEMMA IdleHolds == Idle => Moving = {} /\ Held = {data[s] : s \in Used}
BY DEF Idle, Moving, Held

LEMMA TypeStep == TypeInv /\ [Next]_vars => TypeInv'
<1> SUFFICES ASSUME TypeInv, [Next]_vars PROVE TypeInv'
  OBVIOUS
<1>1. CASE Store
  <2>1. PICK i \in Chain : StoresAt(i)
    BY <1>1 DEF Store, StoresAt, Stored
  <2>2. ~Idle /\ puts' = SubSeq(puts, 1, Len(puts) - 1)
    BY <1>1 DEF Store, Return
  <2>3. data' \in [Positions -> ElementsOrFree] /\ Positions' = Positions
    BY <2>1, <2>2, StoreInTable DEF Positions, StoresAt
  <2>4. puts' \in Seq(Calls)
    BY <2>2, PopCall
  <2> QED
    BY <1>1, <2>3, <2>4 DEF TypeInv, Store
<1>2. CASE Rehash
  <2>1. puts' \in Seq(Calls) /\ 2 * table_size \in Nat \ {0}
    BY <1>2, RehashKeeps DEF TypeInv
  <2> QED
    BY <1>2, <2>1 DEF Rehash, TypeInv, Positions, Fresh, ElementsOrFree
<1>3. ASSUME UNCHANGED <<table_size, size, data>>, puts' \in Seq(Calls) PROVE TypeInv'
  BY <1>3 DEF TypeInv, Positions
<1>4. CASE Move
  BY <1>3, <1>4, MoveKeeps DEF Move
<1>5. CASE OutOfMemory
  <2>1. puts' \in Seq(Calls)
    BY <1>5 DEF OutOfMemory
  <2> QED
    BY <1>3, <1>5, <2>1 DEF OutOfMemory
<1>6. ASSUME NEW key \in Keys, NEW datum \in Data, PutCalled(key, datum) PROVE TypeInv'
  <2>1. puts' \in Seq(Calls)
    BY <1>6 DEF PutCalled, Calls, Activation
  <2> QED
    BY <1>3, <1>6, <2>1 DEF PutCalled
<1>7. CASE UNCHANGED <<table_size, size, data, puts>>
  BY <1>3, <1>7 DEF TypeInv
<1> QED
  BY <1>1, <1>2, <1>4, <1>5, <1>6, <1>7 DEF Next, Internal, Get, vars

LEMMA StoreInv ==
  ASSUME IInv, Store
  PROVE  IInv'
<1>1. PICK i \in Chain : StoresAt(i)
  BY DEF Store, StoresAt, Stored
<1>2. ~Idle /\ ToMove(Running) = {} /\ puts' = SubSeq(puts, 1, Len(puts) - 1)
  BY DEF Store, Return
<1>3. TypeInv'
  BY TypeStep DEF IInv, Next, Internal
<1>4. InItsChain'
  BY <1>1, <1>2, StoreInChain DEF IInv
<1>5. Agree'
  <2>1. CASE Len(puts) = 1
    <3>1. Held' = {f \in Held : f.key # Running.key} \cup {Stored}
      BY <1>1, <1>2, <2>1, LastStoreReplaces
    <3> QED
      BY <3>1 DEF IInv, Agree, Stored
  <2>2. CASE Len(puts) # 1
    BY <1>1, <1>2, <2>2, NestedStoreKeeps DEF IInv, Agree
  <2> QED
    BY <2>1, <2>2
<1> QED
  BY <1>3, <1>4, <1>5 DEF IInv

LEMMA NextInv == IInv /\ [Next]_vars => IInv'
<1> SUFFICES ASSUME IInv, [Next]_vars PROVE IInv'
  OBVIOUS
<1>1. CASE Store
  BY <1>1, StoreInv
<1>2. CASE Rehash
  <2>1. Held' = Held /\ Used' = {}
    BY <1>2, RehashKeeps DEF IInv
  <2>2. TypeInv'
    BY TypeStep DEF IInv
  <2> QED
    BY <2>1, <2>2 DEF IInv, InItsChain, Agree
<1> DEFINE SameTable == UNCHANGED <<table_size, size, data>>
<1>3. ASSUME SameTable, puts' \in Seq(Calls), Held' \subseteq Held
      PROVE  IInv'
  <2>1. TypeInv'
    BY TypeStep DEF IInv
  <2>2. InItsChain'
    BY <1>3 DEF IInv, InItsChain, FitsFirst, Fits, Slot, Used, Positions
  <2>3. Agree'
    BY <1>3 DEF IInv, Agree
  <2> QED
    BY <2>1, <2>2, <2>3 DEF IInv
<1>4. SameTable => {data'[s] : s \in Used'} = {data[s] : s \in Used}
  BY DEF Used, Positions
<1>5. CASE Move
  BY <1>3, <1>4, <1>5, MoveKeeps DEF IInv, Move, Held
<1>6. CASE OutOfMemory
  <2>1. puts' = <<>> /\ SameTable /\ Moving' = {}
    BY <1>6 DEF OutOfMemory, Moving
  <2> QED
    BY <1>3, <1>4, <2>1 DEF Held
<1>7. ASSUME NEW key \in Keys, NEW datum \in Data, PutCalled(key, datum)
      PROVE  IInv'
  <2>1. puts' = <<Activation(key, datum, <<>>, 0)>> /\ SameTable
    BY <1>7 DEF PutCalled
  <2>2. puts' \in Seq(Calls) /\ DOMAIN puts' = {1} /\ ToMove(puts'[1]) = {}
    BY <2>1 DEF Calls, Activation, ToMove
  <2>3. Moving' = {}
    BY <2>2 DEF Moving, ToMove
  <2> QED
    BY <1>3, <1>4, <2>1, <2>2, <2>3 DEF Held
<1>8. CASE UNCHANGED <<table_size, size, data, puts>>
  <2>1. Moving' = Moving /\ puts' \in Seq(Calls)
    BY <1>8 DEF Moving, ToMove, IInv, TypeInv
  <2> QED
    BY <1>3, <1>4, <1>8, <2>1 DEF Held
<1>9. ASSUME NEW key \in Keys, Get(key)
      PROVE  IInv'
  BY <1>8, <1>9 DEF Get
<1> QED
  BY <1>1, <1>2, <1>5, <1>6, <1>7, <1>8, <1>9 DEF Next, Internal, vars

(* What is in the table, in the arguments of the puts under way and in the  *)
(* tables being moved is each key once (hashmap_put, hashmap_rehash).       *)
THEOREM Inductive == Spec => []IInv
BY InitInv, NextInv, PTL DEF Spec

(* Every element is where hashmap_get looks for it.                         *)
THEOREM ElementsAreInTheirChains == Spec => []InItsChain
BY Inductive, PTL DEF IInv

(* No key is in two slots, so no older datum of a key can come back.        *)
THEOREM KeysAreUnique == Spec => []OneSlotPerKey
<1>1. IInv => OneSlotPerKey
  BY ChainsAreExclusive DEF IInv
<1> QED
  BY <1>1, Inductive, PTL

-----------------------------------------------------------------------------
(* The table is never filled beyond its half, and its count never falls     *)
(* short of the slots in use.                                               *)
LEMMA UsedIsFinite ==
  ASSUME TypeInv
  PROVE  IsFiniteSet(Used) /\ Cardinality(Used) \in Nat
<1>1. IsFiniteSet(Positions)
  BY FS_Interval DEF Positions, TypeInv
<1>2. IsFiniteSet(Used)
  BY <1>1, FS_Subset DEF Used
<1> QED
  BY <1>2, FS_CardinalityType

LEMMA RoomStep == TypeInv /\ RoomLeft /\ [Next]_vars => RoomLeft'
<1> SUFFICES ASSUME TypeInv, RoomLeft, [Next]_vars PROVE RoomLeft'
  OBVIOUS
<1>1. CASE Store
  <2>1. PICK i \in Chain : StoresAt(i)
    BY <1>1 DEF Store, StoresAt, Stored
  <2>2. PICK s : s = Slot(Running.key, i)
    OBVIOUS
  <2>3. Used' = Used \cup {s}
    BY <1>1, <2>1, <2>2, StoreInTable DEF Store
  <2>4. /\ Cardinality(Used \cup {s}) = Cardinality(Used)
             \/ Cardinality(Used \cup {s}) = Cardinality(Used) + 1
        /\ Cardinality(Used) \in Nat
    BY UsedIsFinite, FS_AddElement
  <2>5. size' = size + 1 /\ size < table_size \div 2 /\ table_size' = table_size
    <3>1. table_size \div 2 \in Nat /\ size \in Nat
      BY DEF TypeInv
    <3> QED
      BY <1>1, <3>1 DEF Store, HalfFull
  <2>6. table_size \div 2 \in Nat /\ size \in Nat
    BY DEF TypeInv
  <2> QED
    BY <2>3, <2>4, <2>5, <2>6 DEF RoomLeft
<1>2. CASE Rehash
  <2>1. Used' = {} /\ size' = 0 /\ table_size' = 2 * table_size
    BY <1>2, RehashKeeps DEF Rehash
  <2>2. Cardinality({}) = 0
    BY FS_EmptySet
  <2>3. (2 * table_size) \div 2 \in Nat
    BY DEF TypeInv
  <2> QED
    BY <2>1, <2>2, <2>3 DEF RoomLeft
<1>3. CASE UNCHANGED <<table_size, size, data>>
  BY <1>3 DEF RoomLeft, Used, Positions
<1> QED
  BY <1>1, <1>2, <1>3 DEF Next, Internal, vars, Move, OutOfMemory, PutCalled, Get

LEMMA RoomStart == Init => RoomLeft
<1> SUFFICES ASSUME Init PROVE RoomLeft
  OBVIOUS
<1>1. Used = {} /\ size = 0 /\ table_size = INITIAL_SIZE
  BY DEF Init, Used, Positions, Fresh
<1>2. Cardinality({}) = 0
  BY FS_EmptySet
<1>3. INITIAL_SIZE \div 2 \in Nat
  BY HashMapAssumption
<1> QED
  BY <1>1, <1>2, <1>3 DEF RoomLeft

(* The count is never below the slots in use and never above half of them:  *)
(* a search meets a free slot (hashmap_put, hashmap_rehash).                *)
THEOREM RoomIsLeft == Spec => []RoomLeft
<1>1. IInv => TypeInv
  BY DEF IInv
<1> QED
  BY <1>1, RoomStart, Inductive, RoomStep, PTL DEF Spec

(* Every register keeps its type: what is moved from is a table no larger   *)
(* than the one it is moved into, and never gone through beyond its end.    *)
LEMMA TypeOKStep ==
  ASSUME IInv, IInv', RoomLeft', TypeOK, [Next]_vars
  PROVE  TypeOK'
<1> DEFINE Tabled(curr, n) == curr \in [0..(n - 1) -> Elements \cup {Free}]
           Waits(put, sz) ==
             /\ [key |-> put.key, data |-> put.data] \in Elements
             /\ put.i \in 0..sz
             /\ put.curr = <<>> \/ \E n \in 1..sz : Tabled(put.curr, n)
           Answers == [op : {"new", "put", "get", "remove"}, key : Keys \cup {Absent},
                       status : {"MAP_OK", "MAP_OMEM", "MAP_MISSING"}, datum : Data \cup {Absent}]
<1>1. /\ table_size' \in Nat \ {0} /\ data' \in [Positions' -> Elements \cup {Free}]
      /\ table_size \in Nat \ {0} /\ data \in [0..(table_size - 1) -> Elements \cup {Free}]
  BY DEF IInv, TypeInv, ElementsOrFree, Positions
<1>2. size' \in 0..table_size'
  <2>1. size' \in Nat /\ size' <= table_size' \div 2 /\ table_size' \in Nat
    BY DEF IInv, TypeInv, RoomLeft
  <2>2. \A n, m \in Nat : m <= n \div 2 => m \in 0..n
    OBVIOUS
  <2> QED
    BY <2>1, <2>2
<1>3. (\A p \in DOMAIN puts : Waits(puts[p], table_size)) /\ returned \in Answers
  BY DEF TypeOK
<1>4. SUFFICES (\A p \in DOMAIN puts' : Waits(puts'[p], table_size')) /\ returned' \in Answers
  BY <1>1, <1>2 DEF TypeOK
<1>5. \A put : Waits(put, table_size) /\ table_size' = 2 * table_size => Waits(put, table_size')
  BY <1>1
<1>6. ~Idle => /\ Len(puts) \in DOMAIN puts /\ 1 \in DOMAIN puts /\ DOMAIN puts = 1..Len(puts)
               /\ Len(puts) \in Nat \ {0}
  BY RunningIsTyped DEF IInv
<1>7. ASSUME ~Idle, NEW status \in {"MAP_OK", "MAP_OMEM"}
      PROVE  Answer("put", Bottom.key, status, Bottom.data) \in Answers
  BY <1>3, <1>6, <1>7 DEF Answer, Bottom, Elements
<1>8. CASE Store
  <2>1. /\ DOMAIN puts' = 1..(Len(puts) - 1) /\ \A p \in DOMAIN puts' : puts'[p] = puts[p]
        /\ ~Idle /\ table_size' = table_size
    BY <1>8, PopCall DEF Store, Return, IInv
  <2>2. DOMAIN puts' \subseteq DOMAIN puts
    BY <1>6, <2>1
  <2>3. returned' \in Answers
    BY <1>3, <1>7, <1>8, <2>1 DEF Store, Return
  <2> HIDE DEF Waits, Answers
  <2> QED
    BY <1>3, <2>1, <2>2, <2>3
<1>9. CASE Rehash
  <2> DEFINE top == Activation(Running.key, Running.data, data, 0)
  <2>1. /\ DOMAIN puts' = DOMAIN puts /\ puts'[Len(puts)] = top
        /\ \A p \in DOMAIN puts \ {Len(puts)} : puts'[p] = puts[p]
        /\ returned' = returned /\ table_size' = 2 * table_size /\ ~Idle
    BY <1>6, <1>9 DEF Rehash, Running, IInv, TypeInv
  <2>2. Waits(top, table_size')
    <3>1. [key |-> top.key, data |-> top.data] \in Elements /\ top.i = 0 /\ top.curr = data
      BY <1>3, <1>6, <2>1 DEF Activation, Running
    <3>2. table_size \in 1..table_size' /\ 0 \in 0..table_size'
      BY <1>1, <2>1
    <3> HIDE DEF top
    <3> QED
      BY <1>1, <3>1, <3>2
  <2> HIDE DEF Waits, Answers, top
  <2> QED
    BY <1>3, <1>5, <2>1, <2>2
<1>10. CASE Move
  <2>1. PICK s \in ToMove(Running) :
          puts' = Append([puts EXCEPT ![Len(puts)] = Activation(@.key, @.data, @.curr, s + 1)],
                         Activation(Running.curr[s].key, Running.curr[s].data, <<>>, 0))
    BY <1>10 DEF Move
  <2> DEFINE top == Activation(Running.curr[s].key, Running.curr[s].data, <<>>, 0)
             moved == Activation(Running.key, Running.data, Running.curr, s + 1)
             below == [puts EXCEPT ![Len(puts)] = moved]
  <2>2. ~Idle /\ returned' = returned /\ table_size' = table_size
    BY <1>10 DEF Move
  <2>3. s \in Nat /\ Running.curr[s] \in Elements
    BY <2>2, RunningIsTyped DEF IInv
  <2>4. Waits(top, table_size)
    <3>1. [key |-> top.key, data |-> top.data] \in Elements /\ top.i = 0 /\ top.curr = <<>>
      BY <2>3 DEF Activation, Elements
    <3> HIDE DEF top
    <3> QED
      BY <1>1, <3>1
  <2>5. Waits(moved, table_size)
    <3>1. Waits(Running, table_size)
      BY <1>3, <1>6, <2>2 DEF Running
    <3>2. s \in DOMAIN Running.curr
      BY DEF ToMove
    <3>3. PICK n \in 1..table_size : Tabled(Running.curr, n)
      BY <3>1, <3>2
    <3>4. s + 1 \in 0..table_size
      BY <1>1, <3>2, <3>3
    <3>5. moved.key = Running.key /\ moved.data = Running.data /\ moved.curr = Running.curr /\ moved.i = s + 1
      BY DEF Activation
    <3> HIDE DEF moved
    <3> QED
      BY <3>1, <3>4, <3>5
  <2>6. below \in Seq(Calls) /\ Len(below) = Len(puts) /\ below[Len(puts)] = moved
        /\ \A p \in DOMAIN puts \ {Len(puts)} : below[p] = puts[p]
    <3>1. moved \in Calls
      BY <2>2, <2>3, RunningIsTyped DEF IInv, Calls, Activation
    <3> HIDE DEF moved
    <3>2. puts \in Seq(Calls) /\ Len(puts) \in 1..Len(puts)
      BY <1>6, <2>2 DEF IInv, TypeInv
    <3>3. below \in Seq(Calls) /\ Len(below) = Len(puts)
      BY <3>1, <3>2, ExceptSeq
    <3> QED
      BY <1>6, <2>2, <3>2, <3>3
  <2>7. puts' = Append(below, top)
    BY <2>1 DEF Running
  <2> HIDE DEF Waits, Answers, top, moved, below
  <2>8. /\ DOMAIN puts' = 1..(Len(puts) + 1) /\ puts'[Len(puts) + 1] = top
        /\ \A p \in DOMAIN puts : puts'[p] = below[p]
    BY <1>6, <2>2, <2>6, <2>7 DEF IInv, TypeInv
  <2>9. ASSUME NEW p \in DOMAIN puts' PROVE Waits(puts'[p], table_size)
    <3>1. p \in DOMAIN puts \/ p = Len(puts) + 1
      BY <1>6, <2>2, <2>8
    <3> QED
      BY <1>3, <2>4, <2>5, <2>6, <2>8, <3>1
  <2> QED
    BY <1>3, <2>2, <2>9
<1>11. CASE OutOfMemory
  <2>1. puts' = <<>> /\ returned' \in Answers
    BY <1>7, <1>11 DEF OutOfMemory
  <2> QED
    BY <2>1
<1>12. ASSUME NEW key \in Keys, NEW datum \in Data, PutCalled(key, datum)
       PROVE  (\A p \in DOMAIN puts' : Waits(puts'[p], table_size')) /\ returned' \in Answers
  <2> DEFINE call == Activation(key, datum, <<>>, 0)
  <2>1. puts' = <<call>> /\ returned' = returned /\ table_size' = table_size
    BY <1>12 DEF PutCalled
  <2>2. Waits(call, table_size)
    BY <1>1 DEF Activation, Elements
  <2>3. DOMAIN puts' = {1} /\ puts'[1] = call
    BY <2>1
  <2> HIDE DEF Waits, Answers, call
  <2> QED
    BY <1>3, <2>1, <2>2, <2>3
<1>13. ASSUME NEW key \in Keys, Get(key)
       PROVE  (\A p \in DOMAIN puts' : Waits(puts'[p], table_size')) /\ returned' \in Answers
  <2>1. puts' = puts /\ table_size' = table_size
    BY <1>13 DEF Get
  <2>2. returned' \in Answers
    <3>1. ASSUME NEW i \in Chain, HeldAt(key, i) PROVE data[Slot(key, i)].data \in Data
      <4>1. Slot(key, i) \in Positions
        BY SlotInTable DEF IInv
      <4>2. data[Slot(key, i)] \in Elements
        BY <3>1, <4>1, FreeHasNoKey DEF HeldAt, IInv, TypeInv, ElementsOrFree
      <4> QED
        BY <4>2 DEF Elements
    <3> QED
      BY <1>13, <3>1 DEF Get, Answer, HeldFirst
  <2> HIDE DEF Waits, Answers
  <2> QED
    BY <1>3, <2>1, <2>2
<1>14. CASE UNCHANGED vars
  BY <1>3, <1>14 DEF vars
<1> HIDE DEF Waits, Answers
<1> QED
  BY <1>8, <1>9, <1>10, <1>11, <1>12, <1>13, <1>14 DEF Next, Internal

(* The table, the arguments and the old tables of all puts under way, and   *)
(* what was returned keep their types (hashmap_map and its functions).      *)
THEOREM RegistersKeepTheirTypes == Spec => []TypeOK
<1>1. Init => TypeOK
  BY HashMapAssumption DEF Init, TypeOK, Positions, Fresh, Answer
<1> QED
  BY <1>1, Inductive, RoomIsLeft, TypeOKStep, PTL DEF Spec

-----------------------------------------------------------------------------
(* Removing: the types stay and so does the room, whatever holes there are  *)
(* in the chains.                                                           *)
RemovingNext == Next \/ \E key \in Keys : Remove(key)
RemovingInv == TypeInv /\ RoomLeft

LEMMA RemoveInTable ==
  ASSUME TypeInv, NEW key \in Keys, NEW i \in Chain, HeldAt(key, i),
         data' = [data EXCEPT ![Slot(key, i)] = Free]
  PROVE  /\ Slot(key, i) \in Used
         /\ data' \in [Positions -> ElementsOrFree]
         /\ data'[Slot(key, i)] = Free
         /\ \A s \in Positions \ {Slot(key, i)} : data'[s] = data[s]
<1> DEFINE slot == Slot(key, i)
<1>1. slot \in Positions
  BY SlotInTable
<1>2. data[slot] # Free
  BY FreeHasNoKey DEF HeldAt
<1> HIDE DEF slot
<1>3. data' = [data EXCEPT ![slot] = Free]
  BY DEF slot
<1>4. /\ slot \in Used /\ data' \in [Positions -> ElementsOrFree] /\ data'[slot] = Free
      /\ \A s \in Positions \ {slot} : data'[s] = data[s]
  BY <1>1, <1>2, <1>3 DEF Used, TypeInv, ElementsOrFree
<1> QED
  BY <1>4 DEF slot

LEMMA RemoveStep ==
  ASSUME RemovingInv, NEW key \in Keys, Remove(key)
  PROVE  RemovingInv'
<1>1. CASE UNCHANGED <<size, data>>
  BY <1>1 DEF Remove, RemovingInv, TypeInv, RoomLeft, Used, Positions
<1>2. ASSUME NEW i \in Chain, HeldAt(key, i), size' = size - 1,
             data' = [data EXCEPT ![Slot(key, i)] = Free]
      PROVE  RemovingInv'
  <2> DEFINE slot == Slot(key, i)
  <2>1. /\ slot \in Used /\ data' \in [Positions -> ElementsOrFree] /\ data'[slot] = Free
        /\ \A s \in Positions \ {slot} : data'[s] = data[s]
    BY <1>2, RemoveInTable DEF RemovingInv
  <2> HIDE DEF slot
  <2>2. table_size' = table_size /\ puts' = puts /\ Positions' = Positions
    BY DEF Remove, Positions
  <2>3. Used' = Used \ {slot}
    BY <2>1, <2>2 DEF Used
  <2>4. Cardinality(Used \ {slot}) = Cardinality(Used) - 1 /\ Cardinality(Used) \in Nat
    BY <2>1, UsedIsFinite, FS_RemoveElement DEF RemovingInv
  <2>5. IsFiniteSet(Used \ {slot}) /\ Cardinality(Used \ {slot}) \in Nat
    BY UsedIsFinite, FS_RemoveElement, FS_CardinalityType DEF RemovingInv
  <2>6. table_size \div 2 \in Nat /\ size \in Nat /\ Cardinality(Used) <= size /\ size <= table_size \div 2
    BY DEF RemovingInv, TypeInv, RoomLeft
  <2>7. size - 1 \in Nat /\ Cardinality(Used') <= size' /\ size' <= table_size \div 2
    BY <1>2, <2>3, <2>4, <2>5, <2>6
  <2> QED
    BY <1>2, <2>1, <2>2, <2>7 DEF RemovingInv, TypeInv, RoomLeft
<1> QED
  BY <1>1, <1>2 DEF Remove, HeldFirst

(* The same types and the same room when elements are removed in between    *)
(* (hashmap_remove).                                                        *)
THEOREM RemovingIsTyped == RemovingSpec => []RemovingInv
<1>1. Init => RemovingInv
  BY InitInv, RoomStart DEF IInv, RemovingInv
<1>2. RemovingInv /\ [RemovingNext]_vars => RemovingInv'
  <2> SUFFICES ASSUME RemovingInv, [RemovingNext]_vars PROVE RemovingInv'
    OBVIOUS
  <2>1. CASE [Next]_vars
    BY <2>1, TypeStep, RoomStep DEF RemovingInv
  <2>2. ASSUME NEW key \in Keys, Remove(key) PROVE RemovingInv'
    BY <2>2, RemoveStep
  <2> QED
    BY <2>1, <2>2 DEF RemovingNext
<1> QED
  BY <1>1, <1>2, PTL DEF RemovingSpec, RemovingNext

(* Removing fills no table: a search meets a free slot then, too.           *)
THEOREM RoomIsLeftByRemoving == RemovingSpec => []RoomLeft
BY RemovingIsTyped, PTL DEF RemovingInv

(* A key that can be found stays one: a put that stores another key leaves  *)
(* its slot alone, ...                                                      *)
LEMMA StoreKeepsKeys ==
  ASSUME TypeInv, Store, NEW key \in Keys, CanBeFound(key)
  PROVE  CanBeFound(key)'
<1>1. PICK i \in Chain : StoresAt(i)
  BY DEF Store, StoresAt, Stored
<1>2. ~Idle /\ ToMove(Running) = {} /\ puts' = SubSeq(puts, 1, Len(puts) - 1)
  BY DEF Store, Return
<1>3. PICK s : s = Slot(Running.key, i)
  OBVIOUS
<1>4. /\ s \in Positions /\ data'[s] = Stored
      /\ \A t \in Positions \ {s} : data'[t] = data[t]
      /\ data[s] = Free \/ data[s].key = Stored.key
  BY <1>1, <1>2, <1>3, StoreInTable
<1>5. \A k, j : Slot(k, j)' = Slot(k, j)
  BY <1>1 DEF Slot, StoresAt
<1>6. Stored.key = Running.key
  BY DEF Stored
<1>7. CASE key = Running.key
  <2>1. HeldAt(key, i)'
    BY <1>3, <1>4, <1>5, <1>6, <1>7 DEF HeldAt
  <2> QED
    BY <2>1 DEF CanBeFound, Missing
<1>8. CASE key # Running.key
  <2>1. ASSUME NEW j \in Chain, HeldAt(key, j) PROVE HeldAt(key, j)'
    <3>1. Slot(key, j) \in Positions /\ Slot(key, j) # s
      BY <1>4, <1>6, <1>8, <2>1, SlotInTable, FreeHasNoKey DEF HeldAt
    <3> QED
      BY <1>4, <1>5, <2>1, <3>1 DEF HeldAt
  <2>2. ASSUME NEW e \in Moving, e.key = key PROVE e \in Moving'
    BY <1>2, <1>6, <1>8, <2>2, PopMoving
  <2> QED
    BY <2>1, <2>2 DEF CanBeFound, Missing
<1> QED
  BY <1>7, <1>8

(* ... a rehash takes it along, ...                                         *)
LEMMA RehashKeepsKeys ==
  ASSUME TypeInv, Rehash, NEW key \in Keys, CanBeFound(key)
  PROVE  CanBeFound(key)'
<1>1. Held' = Held /\ Used' = {}
  BY RehashKeeps
<1>2. Moving' = Held
  BY <1>1 DEF Held
<1>3. \E e \in Held : e.key = key
  <2>1. ASSUME NEW j \in Chain, HeldAt(key, j) PROVE \E e \in Held : e.key = key
    <3>1. Slot(key, j) \in Used
      BY <2>1, SlotInTable, FreeHasNoKey DEF HeldAt, Used
    <3> QED
      BY <2>1, <3>1 DEF HeldAt, Held
  <2> QED
    BY <2>1 DEF CanBeFound, Missing, Held
<1> QED
  BY <1>2, <1>3 DEF CanBeFound

(* ... and removing another key empties another slot.                       *)
LEMMA RemoveKeepsKeys ==
  ASSUME TypeInv, NEW other \in Keys, Remove(other), NEW key \in Keys, key # other, CanBeFound(key)
  PROVE  CanBeFound(key)'
<1>1. PICK j \in Chain : HeldAt(key, j)
  BY IdleHolds DEF Remove, CanBeFound, Missing
<1>2. Slot(key, j) \in Positions /\ Slot(key, j)' = Slot(key, j)
  BY SlotInTable DEF Remove, Slot
<1>3. CASE data' = data
  BY <1>1, <1>2, <1>3 DEF CanBeFound, Missing, HeldAt
<1>4. ASSUME NEW i \in Chain, HeldAt(other, i), data' = [data EXCEPT ![Slot(other, i)] = Free]
      PROVE  CanBeFound(key)'
  <2>1. Slot(key, j) # Slot(other, i)
    BY <1>1, <1>4 DEF HeldAt
  <2>2. data'[Slot(key, j)] = data[Slot(key, j)]
    BY <1>2, <1>4, <2>1, RemoveInTable
  <2> QED
    BY <1>1, <1>2, <2>2 DEF CanBeFound, Missing, HeldAt
<1> QED
  BY <1>3, <1>4 DEF Remove, HeldFirst

LEMMA KeysStayStep ==
  ASSUME TypeInv, [RemovingNext]_vars, NEW key \in Keys, CanBeFound(key)
  PROVE  \/ CanBeFound(key)'
         \/ returned'.status = "MAP_OMEM"
         \/ returned'.op = "remove" /\ returned'.key = key
<1>1. CASE Store
  BY <1>1, StoreKeepsKeys
<1>2. CASE Rehash
  BY <1>2, RehashKeepsKeys
<1>3. ASSUME UNCHANGED <<table_size, data>>, Moving \subseteq Moving' PROVE CanBeFound(key)'
  <2>1. Missing(key)' <=> Missing(key)
    BY <1>3 DEF Missing, HeldAt, Slot
  <2> QED
    BY <1>3, <2>1 DEF CanBeFound
<1>4. CASE Move
  BY <1>3, <1>4, MoveKeeps DEF Move
<1>5. CASE OutOfMemory
  BY <1>5 DEF OutOfMemory, Answer
<1>6. ASSUME NEW k \in Keys, NEW datum \in Data, PutCalled(k, datum) PROVE CanBeFound(key)'
  BY <1>3, <1>6, IdleHolds DEF PutCalled
<1>7. CASE UNCHANGED <<table_size, data, puts>>
  <2>1. Moving' = Moving
    BY <1>7 DEF Moving, ToMove
  <2> QED
    BY <1>3, <1>7, <2>1
<1>8. ASSUME NEW other \in Keys, Remove(other)
      PROVE  CanBeFound(key)' \/ (returned'.op = "remove" /\ returned'.key = key)
  <2>1. CASE other = key
    BY <1>8, <2>1 DEF Remove, Answer
  <2>2. CASE other # key
    BY <1>8, <2>2, RemoveKeepsKeys
  <2> QED
    BY <2>1, <2>2
<1> QED
  BY <1>1, <1>2, <1>4, <1>5, <1>6, <1>7, <1>8 DEF RemovingNext, Next, Internal, Get, vars

(* Removing a key takes away no other one, whatever hole it leaves in the   *)
(* chains, and no later put or rehash does (hashmap_remove, hashmap_put,    *)
(* hashmap_rehash): only running out of memory loses one.                   *)
THEOREM RemovingKeepsOtherKeys == RemovingSpec => KeysStay
<1> DEFINE Stays ==
      \A key \in Keys :
        CanBeFound(key) =>
          \/ CanBeFound(key)'
          \/ returned'.status = "MAP_OMEM"
          \/ returned'.op = "remove" /\ returned'.key = key
<1>1. RemovingInv /\ [RemovingNext]_vars => [Stays]_vars
  BY KeysStayStep DEF RemovingInv
<1> QED
  BY <1>1, RemovingIsTyped, PTL DEF RemovingSpec, RemovingNext, KeysStay

-----------------------------------------------------------------------------
(* The refinement: what the map holds is what the abstract store holds.     *)

LEMMA HeldIsTyped ==
  ASSUME TypeInv
  PROVE  Held \subseteq Elements
<1>1. {data[s] : s \in Used} \subseteq Elements
  BY DEF TypeInv, Used, ElementsOrFree
<1>2. CASE Idle
  BY <1>1, <1>2, IdleHolds
<1>3. CASE ~Idle
  <2>1. \A p \in DOMAIN puts : puts[p] \in Calls
    BY <1>3, RunningIsTyped
  <2>2. ASSUME NEW p \in DOMAIN puts, NEW s \in ToMove(puts[p])
        PROVE  puts[p].curr[s] \in Elements
    <3>1. s \in DOMAIN puts[p].curr /\ puts[p].curr[s] # Free
      BY <2>2 DEF ToMove
    <3>2. puts[p].curr \in OldTables
      BY <2>1, <3>1 DEF Calls
    <3> QED
      BY <3>1, <3>2 DEF OldTables, ElementsOrFree
  <2>3. \A p \in DOMAIN puts : [key |-> puts[p].key, data |-> puts[p].data] \in Elements
    BY <2>1 DEF Calls, Elements
  <2> QED
    BY <1>1, <2>2, <2>3 DEF Held, Moving
<1> QED
  BY <1>2, <1>3

StoresWhatIsHeld ==
  /\ store \in [Keys -> Data \cup {Absent}]
  /\ \A e \in Held : e.key \in Keys /\ store[e.key] = e.data
  /\ \A key \in Keys : (\A e \in Held : e.key # key) => store[key] = Absent

LEMMA StoreIsHeld == TypeInv /\ Agree => StoresWhatIsHeld
<1> SUFFICES ASSUME TypeInv, Agree PROVE StoresWhatIsHeld
  OBVIOUS
<1> DEFINE Of(key) == {e.data : e \in {f \in Held : f.key = key}}
<1>1. store = [key \in Keys |-> IF Of(key) = {} THEN Absent ELSE CHOOSE d \in Of(key) : TRUE]
  BY DEF store
<1>2. Held \subseteq Elements
  BY HeldIsTyped
<1>3. ASSUME NEW e \in Held PROVE e.key \in Keys /\ e.data \in Data /\ Of(e.key) = {e.data}
  BY <1>2 DEF Agree, Elements
<1>4. ASSUME NEW key \in Keys, \A e \in Held : e.key # key PROVE Of(key) = {}
  BY <1>4
<1>5. \A key \in Keys : Of(key) \subseteq Data
  BY <1>2 DEF Elements
<1> HIDE DEF Of
<1>6. \A key \in Keys : Of(key) # {} => (CHOOSE d \in Of(key) : TRUE) \in Of(key)
  OBVIOUS
<1>7. store \in [Keys -> Data \cup {Absent}]
  BY <1>1, <1>5, <1>6
<1>8. \A e \in Held : e.key \in Keys /\ store[e.key] = e.data
  BY <1>1, <1>3
<1>9. \A key \in Keys : (\A e \in Held : e.key # key) => store[key] = Absent
  BY <1>1, <1>4
<1> QED
  BY <1>7, <1>8, <1>9 DEF StoresWhatIsHeld

LEMMA SameHeldSameStore == Held' = Held => store' = store
BY DEF store

(* The caller's put, once it is stored. *)
LEMMA PutRefines ==
  ASSUME IInv, IInv', Store, Len(puts) = 1
  PROVE  Abstract!Put(Running.key, Running.data)
<1>1. PICK i \in Chain : StoresAt(i)
  BY DEF Store, StoresAt, Stored
<1>2. PICK e, key, held : e = Stored /\ key = Running.key /\ held = Held
  OBVIOUS
<1>3. Held' = {f \in held : f.key # key} \cup {e}
  BY <1>1, <1>2, LastStoreReplaces DEF Store, Return
<1>4. e.key = key /\ e.data = Running.data
  BY <1>2 DEF Stored
<1>5. /\ store \in [Keys -> Data \cup {Absent}]
      /\ \A f \in held : f.key \in Keys /\ store[f.key] = f.data
      /\ \A k \in Keys : (\A f \in held : f.key # k) => store[k] = Absent
  BY <1>2, StoreIsHeld DEF IInv, StoresWhatIsHeld
<1>6. /\ store' \in [Keys -> Data \cup {Absent}]
      /\ \A f \in Held' : f.key \in Keys /\ store'[f.key] = f.data
      /\ \A k \in Keys : (\A f \in Held' : f.key # k) => store'[k] = Absent
  <2>1. TypeInv' /\ Agree'
    BY DEF IInv
  <2>2. StoresWhatIsHeld'
    BY <2>1, StoreIsHeld, PTL
  <2> QED
    BY <2>2 DEF StoresWhatIsHeld
<1>7. key \in Keys /\ store'[key] = e.data
  BY <1>3, <1>4, <1>6
<1>8. ASSUME NEW k \in Keys, k # key PROVE store'[k] = store[k]
  <2>1. CASE \E f \in held : f.key = k
    BY <1>3, <1>5, <1>6, <1>8, <2>1
  <2>2. CASE \A f \in held : f.key # k
    BY <1>3, <1>4, <1>5, <1>6, <1>8, <2>2
  <2> QED
    BY <2>1, <2>2
<1>9. store' = [store EXCEPT ![key] = e.data]
  BY <1>5, <1>6, <1>7, <1>8
<1>10. returned' = Answer("put", Running.key, "MAP_OK", Running.data)
  BY DEF Store, Return, Running, Bottom
<1> QED
  BY <1>2, <1>4, <1>9, <1>10 DEF Abstract!Put, Abstract!Answer, Answer

(* Out of memory, some of what the map held is gone. *)
LEMMA PutWithoutMemoryRefines ==
  ASSUME IInv, IInv', OutOfMemory
  PROVE  Abstract!PutWithoutMemory(Bottom.key, Bottom.data)
<1>1. Held' \subseteq Held
  BY DEF OutOfMemory, Held, Moving, Used, Positions
<1>2. /\ store \in [Keys -> Data \cup {Absent}]
      /\ \A f \in Held : f.key \in Keys /\ store[f.key] = f.data
  BY StoreIsHeld DEF IInv, StoresWhatIsHeld
<1>3. /\ store' \in [Keys -> Data \cup {Absent}]
      /\ \A f \in Held' : f.key \in Keys /\ store'[f.key] = f.data
      /\ \A k \in Keys : (\A f \in Held' : f.key # k) => store'[k] = Absent
  <2>1. TypeInv' /\ Agree'
    BY DEF IInv
  <2>2. StoresWhatIsHeld'
    BY <2>1, StoreIsHeld, PTL
  <2> QED
    BY <2>2 DEF StoresWhatIsHeld
<1>4. \A k \in Keys : store'[k] \in {store[k], Absent}
  BY <1>1, <1>2, <1>3
<1> QED
  BY <1>3, <1>4 DEF OutOfMemory, Abstract!PutWithoutMemory, Abstract!Answer, Answer

(* A get finds what is held, however far from its first slot that is. *)
LEMMA GetRefines ==
  ASSUME IInv, NEW key \in Keys, Get(key)
  PROVE  Abstract!Get(key)
<1>1. Idle /\ Held = {data[s] : s \in Used} /\ UNCHANGED <<table_size, size, data, puts>>
  BY IdleHolds DEF Get
<1>2. Held' = Held
  BY <1>1 DEF Held, Moving, ToMove, Used, Positions
<1>3. /\ \A f \in Held : f.key \in Keys /\ store[f.key] = f.data
      /\ \A k \in Keys : (\A f \in Held : f.key # k) => store[k] = Absent
      /\ Held \subseteq Elements
  BY StoreIsHeld, HeldIsTyped DEF IInv, StoresWhatIsHeld
<1>4. CASE Missing(key) /\ returned' = Answer("get", key, "MAP_MISSING", Absent)
  <2>1. \A f \in Held : f.key # key
    <3> SUFFICES ASSUME NEW s \in Used, data[s].key = key PROVE FALSE
      BY <1>1
    <3>1. PICK i \in Chain : s = Slot(key, i)
      BY DEF IInv, InItsChain
    <3> QED
      BY <1>4, <3>1 DEF Missing, HeldAt
  <2>2. store[key] = Absent
    BY <1>3, <2>1
  <2> QED
    BY <1>2, <1>4, <2>2, SameHeldSameStore DEF Abstract!Get, Abstract!Answer, Answer
<1>5. CASE \E i \in Chain : /\ HeldFirst(key, i)
                            /\ returned' = Answer("get", key, "MAP_OK", data[Slot(key, i)].data)
  <2>1. PICK i \in Chain :
          /\ HeldAt(key, i)
          /\ returned' = Answer("get", key, "MAP_OK", data[Slot(key, i)].data)
    BY <1>5 DEF HeldFirst
  <2>2. Slot(key, i) \in Used
    BY <2>1, SlotInTable, FreeHasNoKey DEF HeldAt, Used, IInv
  <2>3. data[Slot(key, i)] \in Held /\ data[Slot(key, i)].key = key
    BY <1>1, <2>1, <2>2 DEF HeldAt
  <2>4. store[key] = data[Slot(key, i)].data /\ store[key] # Absent
    BY <1>3, <2>3, HashMapAssumption DEF Elements
  <2> QED
    BY <1>2, <2>1, <2>4, SameHeldSameStore DEF Abstract!Get, Abstract!Answer, Answer
<1> QED
  BY <1>4, <1>5 DEF Get

LEMMA StepRefines ==
  IInv /\ IInv' /\ [Next]_vars => [Abstract!Next]_<<store, returned>>
<1> SUFFICES ASSUME IInv, IInv', [Next]_vars
             PROVE  Abstract!Next \/ UNCHANGED <<store, returned>>
  OBVIOUS
<1>1. CASE Store /\ Len(puts) = 1
  <2>1. Running.key \in Keys /\ Running.data \in Data
    BY <1>1, RunningIsTyped DEF Store, IInv, Calls
  <2> QED
    BY <1>1, <2>1, PutRefines DEF Abstract!Next
<1>2. CASE Store /\ Len(puts) # 1
  <2>1. PICK i \in Chain : StoresAt(i)
    BY <1>2 DEF Store, StoresAt, Stored
  <2>2. Held' = Held /\ returned' = returned
    BY <1>2, <2>1, NestedStoreKeeps DEF Store, Return
  <2> QED
    BY <2>2, SameHeldSameStore
<1>3. CASE Rehash
  BY <1>3, RehashKeeps, SameHeldSameStore DEF IInv, Rehash
<1>4. CASE Move
  <2>1. Held' = Held /\ returned' = returned
    BY <1>4, MoveKeeps DEF IInv, Move, Held, Used, Positions
  <2> QED
    BY <2>1, SameHeldSameStore
<1>5. CASE OutOfMemory
  <2>1. Bottom.key \in Keys /\ Bottom.data \in Data
    BY <1>5, RunningIsTyped DEF OutOfMemory, IInv, Calls, Bottom
  <2> QED
    BY <1>5, <2>1, PutWithoutMemoryRefines DEF Abstract!Next
<1>6. ASSUME NEW key \in Keys, Get(key) PROVE Abstract!Next
  BY <1>6, GetRefines DEF Abstract!Next
<1>7. ASSUME NEW key \in Keys, NEW datum \in Data, PutCalled(key, datum)
      PROVE  UNCHANGED <<store, returned>>
  <2>1. puts' = <<Activation(key, datum, <<>>, 0)>> /\ Idle
    BY <1>7 DEF PutCalled
  <2>2. DOMAIN puts' = {1} /\ ToMove(puts'[1]) = {}
    BY <2>1 DEF Activation, ToMove
  <2>3. Moving' = {} /\ Moving = {}
    BY <2>1, <2>2, IdleHolds DEF Moving, ToMove
  <2>4. Held' = Held /\ returned' = returned
    BY <1>7, <2>3 DEF PutCalled, Held, Used, Positions
  <2> QED
    BY <2>4, SameHeldSameStore
<1>8. CASE UNCHANGED vars
  BY <1>8 DEF vars, store, Held, Moving, ToMove, Used, Positions
<1> QED
  BY <1>1, <1>2, <1>3, <1>4, <1>5, <1>6, <1>7, <1>8 DEF Next, Internal

(* The hash map is a map: as long as nothing is removed, a get returns what *)
(* was last put for its key, through every rehash and every collision.      *)
THEOREM Refines == Spec => IsAMap
<1>1. Init => Abstract!Init
  <2> SUFFICES ASSUME Init PROVE Abstract!Init
    OBVIOUS
  <2>1. Used = {} /\ puts = <<>>
    BY DEF Init, Used, Positions, Fresh
  <2>2. Held = {}
    BY <2>1 DEF Held, Moving
  <2>3. store = [key \in Keys |-> Absent]
    BY <2>2 DEF store
  <2> QED
    BY <2>3 DEF Init, Abstract!Init, Abstract!Answer, Answer
<1> QED
  BY <1>1, StepRefines, Inductive, PTL DEF Spec, IsAMap, Abstract!Spec
=============================================================================
