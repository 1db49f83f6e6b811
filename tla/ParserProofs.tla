---------------------------- MODULE ParserProofs ----------------------------
(***************************************************************************)
(* What the text parser promises for every set of texts, every table of    *)
(* the caller and every unknown-key callback.                              *)
(***************************************************************************)
EXTENDS Grammar, SequenceTheorems, FiniteSetTheorems, WellFoundedInduction, TLAPS

LEMMA SeqIsSequence ==
  ASSUME NEW S, NEW s \in Seq(S)
  PROVE  IsSequence(s)
<1>1. Len(s) \in Nat /\ DOMAIN s = 1..Len(s) /\ s = [i \in 1..Len(s) |-> s[i]]
  OBVIOUS
<1> DEFINE R == {s[i] : i \in DOMAIN s}
<1>2. s \in [1..Len(s) -> R]
  BY <1>1
<1>3. s \in Seq(R)
  BY <1>1, <1>2
<1> QED
  BY <1>3 DEF IsSequence

(* Pushing an activation. *)
LEMMA PushSequence ==
  ASSUME NEW s, IsSequence(s), NEW a
  PROVE  /\ IsSequence(Append(s, a))
         /\ Append(s, a) # <<>>
         /\ DOMAIN Append(s, a) = DOMAIN s \cup {Len(s) + 1}
         /\ \A i \in DOMAIN s : Append(s, a)[i] = s[i]
         /\ Append(s, a)[Len(s) + 1] = a
<1> DEFINE S == {s[i] : i \in DOMAIN s} \cup {a}
<1>1. s \in Seq(S)
  BY DEF IsSequence
<1>2. Append(s, a) \in Seq(S) /\ Len(Append(s, a)) = Len(s) + 1
  BY <1>1
<1>3. IsSequence(Append(s, a))
  BY <1>2, SeqIsSequence
<1>4. /\ DOMAIN Append(s, a) = DOMAIN s \cup {Len(s) + 1}
      /\ \A i \in DOMAIN s : Append(s, a)[i] = s[i]
      /\ Append(s, a)[Len(s) + 1] = a
      /\ Append(s, a) # <<>>
  BY <1>1, <1>2
<1> QED
  BY <1>3, <1>4

(* Popping one. *)
LEMMA PopSequence ==
  ASSUME NEW s, IsSequence(s), s # <<>>
  PROVE  LET front == SubSeq(s, 1, Len(s) - 1) IN
         /\ IsSequence(front)
         /\ DOMAIN front = 1..(Len(s) - 1)
         /\ DOMAIN front \subseteq DOMAIN s
         /\ Len(s) \in DOMAIN s
         /\ \A i \in DOMAIN front : front[i] = s[i]
         /\ front = <<>> <=> Len(s) = 1
<1> DEFINE S == {s[i] : i \in DOMAIN s}
           front == SubSeq(s, 1, Len(s) - 1)
<1>1. s \in Seq(S) /\ Len(s) \in Nat \ {0}
  BY DEF IsSequence
<1>2. /\ front \in Seq(S) /\ Len(front) = Len(s) - 1
      /\ \A i \in 1..(Len(s) - 1) : front[i] = s[i]
  <2>1. PICK k \in Nat : k = Len(s) - 1
    BY <1>1
  <2>2. \A i \in 1..k : s[i] \in S
    BY <1>1, <2>1
  <2> DEFINE init == SubSeq(s, 1, k)
  <2>3. /\ init \in Seq(S)
        /\ Len(init) = IF 1 <= k THEN k - 1 + 1 ELSE 0
        /\ \A i \in 1..(k - 1 + 1) : init[i] = s[1 + i - 1]
    BY <2>2, SubSeqProperties, 1 \in Int, k \in Int
  <2> HIDE DEF init
  <2>4. Len(init) = k /\ \A i \in 1..k : init[i] = s[i]
    <3>1. k - 1 + 1 = k /\ (~(1 <= k) => k = 0) /\ \A i \in 1..k : 1 + i - 1 = i
      OBVIOUS
    <3> QED
      BY <2>3, <3>1
  <2> QED
    BY <2>1, <2>3, <2>4 DEF init
<1>3. IsSequence(front)
  BY <1>2, SeqIsSequence
<1>4. /\ DOMAIN front = 1..(Len(s) - 1)
      /\ DOMAIN front \subseteq DOMAIN s
      /\ Len(s) \in DOMAIN s
      /\ \A i \in DOMAIN front : front[i] = s[i]
  <2> HIDE DEF front, S
  <2>1. DOMAIN front = 1..(Len(s) - 1) /\ DOMAIN s = 1..Len(s)
    BY <1>1, <1>2
  <2> QED
    BY <1>1, <1>2, <2>1
<1>5. front = <<>> <=> Len(s) = 1
  <2> HIDE DEF front
  <2>1. front = <<>> <=> Len(front) = 0
    BY <1>2
  <2> QED
    BY <1>1, <1>2, <2>1
<1> QED
  BY <1>3, <1>4, <1>5

-----------------------------------------------------------------------------
(* What is true after every step. *)

Types == {"Invalid", "Null", "Value", "BinaryData", "Array", "Map"}

(* A failed parse that is still unwinding has no text, runs no activation   *)
(* that reads, and handed no value to the activation it returned to.        *)
OnlyUnwinds ==
  error.code # "None" /\ result = Running =>
    /\ cur.pc \notin {"parse", "array"}
    /\ str = <<>>
    /\ ret.type # "Value"

Answered == result # Running => cur.pc = "root"

IInv ==
  /\ IsSequence(callers)
  /\ StackInOrder
  /\ ret.type \in Types
  /\ OnlyUnwinds
  /\ Answered
  /\ ResultOrError

(* An empty text stays empty. *)
LEMMA TrimEmpty == Trim(<<>>) = <<>>
<1>1. Blanks(<<>>) = 0
  BY Z3 DEF Blanks
<1>2. SubSeq(<<>>, 0 + 1, 0) = <<>>
  BY SubSeqEmpty
<1> QED
  BY <1>1, <1>2 DEF Trim

(* What copyInto leaves in self is an expression. *)
LEMMA CopyIsTyped ==
  ASSUME NEW self, self.type \in Types, NEW rhs
  PROVE  copyInto(self, rhs).type \in Types
BY DEF copyInto, CopyWith, Value, Array, Map, Types

LEMMA ReturnInOrder ==
  ASSUME IsSequence(callers), StackInOrder, cur.pc # "root",
         NEW self, NEW rest, Return(self, rest)
  PROVE  /\ IsSequence(callers)' /\ StackInOrder'
         /\ cur'.pc \in Resuming
         /\ ret' = self /\ str' = rest
<1>1. callers # <<>>
  BY DEF StackInOrder
<1>2. /\ IsSequence(callers')
      /\ DOMAIN callers' = 1..(Len(callers) - 1)
      /\ DOMAIN callers' \subseteq DOMAIN callers
      /\ Len(callers) \in DOMAIN callers
      /\ \A i \in DOMAIN callers' : callers'[i] = callers[i]
      /\ callers' = <<>> <=> Len(callers) = 1
  BY <1>1, PopSequence DEF Return
<1>3. cur' = callers[Len(callers)]
  BY DEF Return
<1>4. StackInOrder'
  <2>1. cur'.pc \in Resuming /\ FillsWhatItShould(cur)'
    BY <1>2, <1>3 DEF StackInOrder, FillsWhatItShould
  <2>2. cur'.pc = "root" <=> callers' = <<>>
    BY <1>2, <1>3 DEF StackInOrder
  <2>3. \A i \in DOMAIN callers' :
          /\ callers'[i].pc \in Resuming
          /\ callers'[i].pc = "root" <=> i = 1
          /\ FillsWhatItShould(callers'[i])
    BY <1>2 DEF StackInOrder
  <2> QED
    BY <2>1, <2>2, <2>3 DEF StackInOrder, FillsWhatItShould
<1> QED
  BY <1>2, <1>3, <1>4 DEF Return, StackInOrder

LEMMA CallInOrder ==
  ASSUME IsSequence(callers), StackInOrder, cur.pc # "root",
         NEW caller, caller.pc \in Resuming \ {"root"}, FillsWhatItShould(caller),
         NEW self \in {Null, Invalid}, Call(caller, self)
  PROVE  /\ IsSequence(callers)' /\ StackInOrder'
         /\ cur'.pc = "parse"
         /\ ret' = ret
<1>1. /\ IsSequence(callers')
      /\ callers' # <<>>
      /\ DOMAIN callers' = DOMAIN callers \cup {Len(callers) + 1}
      /\ \A i \in DOMAIN callers : callers'[i] = callers[i]
      /\ callers'[Len(callers) + 1] = caller
  BY PushSequence DEF Call
<1>2. Len(callers) \in Nat \ {0}
  <2>1. callers # <<>>
    BY DEF StackInOrder
  <2> QED
    BY <2>1, EmptySeq DEF IsSequence
<1>3. /\ cur'.pc = "parse"
      /\ FillsWhatItShould(cur')
  BY DEF Call, Activation, FillsWhatItShould, Resuming
<1>4. \A i \in DOMAIN callers' :
        /\ callers'[i].pc \in Resuming
        /\ callers'[i].pc = "root" <=> i = 1
        /\ FillsWhatItShould(callers'[i])
  BY <1>1, <1>2 DEF StackInOrder
<1>5. StackInOrder'
  BY <1>1, <1>3, <1>4 DEF StackInOrder, FillsWhatItShould
<1> QED
  BY <1>1, <1>3, <1>5 DEF Call

LEMMA LoopInOrder ==
  ASSUME IsSequence(callers), StackInOrder, cur.pc # "root", callers' = callers,
         cur'.pc \in {"array", "map"}, FillsWhatItShould(cur')
  PROVE  IsSequence(callers)' /\ StackInOrder'
BY DEF StackInOrder, FillsWhatItShould, IsSequence

-----------------------------------------------------------------------------
(* A step that leaves the text's error alone, or sets it and unwinds. *)

LEMMA InitInv == Init => IInv
<1> SUFFICES ASSUME NEW text \in Inputs, Start(text) PROVE IInv
  BY DEF Init
<1> USE DEF Start, Activation, Invalid, NoError, Running
<1>1. IsSequence(callers)
  <2> DEFINE root == Activation("root", Invalid, NoKey, 0)
  <2>1. <<root>> \in Seq({root})
    OBVIOUS
  <2> QED
    BY <2>1, SeqIsSequence
<1>2. StackInOrder
  BY DEF StackInOrder, FillsWhatItShould, Resuming
<1> QED
  BY <1>1, <1>2 DEF IInv, Types, OnlyUnwinds, Answered, ResultOrError

LEMMA FailInv ==
  ASSUME IInv, cur.pc # "root", cur.self.type \in Types \ {"Value"},
         NEW code, code # "None", NEW message, Fail(code, message)
  PROVE  IInv'
<1>1. /\ IsSequence(callers)' /\ StackInOrder'
      /\ cur'.pc \in Resuming /\ ret' = cur.self /\ str' = <<>>
  BY ReturnInOrder DEF Fail, IInv
<1>2. result = Running /\ result' = result
  BY DEF Fail, IInv, Answered
<1> QED
  BY <1>1, <1>2 DEF IInv, OnlyUnwinds, Answered, ResultOrError, Resuming

LEMMA LeafInv ==
  ASSUME IInv, cur.pc # "root", error.code = "None",
         NEW self, self.type \in Types, Leaf(self)
  PROVE  IInv'
<1>1. /\ IsSequence(callers)' /\ StackInOrder'
      /\ cur'.pc \in Resuming /\ ret' = self
  BY ReturnInOrder DEF Leaf, IInv
<1>2. result = Running /\ result' = result /\ error' = error
  BY DEF Leaf, IInv, Answered
<1> QED
  BY <1>1, <1>2 DEF IInv, OnlyUnwinds, Answered, ResultOrError, Resuming

(* While an activation reads the text there is no error. *)
LEMMA ParsingIsClean ==
  ASSUME IInv, cur.pc \in {"parse", "array"}
  PROVE  /\ error.code = "None" /\ result = Running /\ cur.pc # "root"
         /\ cur.self.type \in Types \ {"Value"}
<1>1. result = Running
  BY DEF IInv, Answered
<1>2. error.code = "None"
  BY <1>1 DEF IInv, OnlyUnwinds
<1>3. cur.self.type \in Types \ {"Value"}
  BY DEF IInv, StackInOrder, FillsWhatItShould, Null, Invalid, Types
<1> QED
  BY <1>1, <1>2, <1>3

LEMMA ParseStepInv ==
  ASSUME IInv,
         \/ ParseEmpty \/ ParseBlank \/ ParseArray \/ ParseMap
         \/ ParseBinary \/ ParseBinaryBad \/ ParseValue \/ ParseValueBad
         \/ ParseRef \/ ParseRefOpen \/ ParseInsert \/ ParseInsertOpen
  PROVE  IInv'
<1>1. cur.pc = "parse"
  BY DEF ParseEmpty, ParseBlank, ParseArray, ParseMap, ParseBinary, ParseBinaryBad,
         ParseValue, ParseValueBad, ParseRef, ParseRefOpen, ParseInsert, ParseInsertOpen,
         ParseContainer, Parsing
<1>2. /\ error.code = "None" /\ result = Running /\ cur.pc # "root"
      /\ cur.self.type \in Types \ {"Value"}
  BY <1>1, ParsingIsClean
<1>3. cur.self \in {Null, Invalid}
  BY <1>1 DEF IInv, StackInOrder, FillsWhatItShould
<1>4. ASSUME NEW self, NEW rest, Return(self, rest), self.type \in Types,
             result' = result,
             error' = error \/ (rest = <<>> /\ self.type # "Value")
      PROVE  IInv'
  <2>1. /\ IsSequence(callers)' /\ StackInOrder'
        /\ cur'.pc \in Resuming /\ ret' = self /\ str' = rest
    BY <1>2, <1>4, ReturnInOrder DEF IInv
  <2> QED
    BY <1>2, <1>4, <2>1 DEF IInv, OnlyUnwinds, Answered, ResultOrError, Resuming
<1>5. CASE ParseEmpty
  BY <1>2, <1>4, <1>5 DEF ParseEmpty
<1>6. CASE ParseBlank
  BY <1>2, <1>4, <1>6 DEF ParseBlank
<1>7. CASE ParseArray \/ ParseMap
  <2>1. /\ cur'.pc \in {"array", "map"} /\ FillsWhatItShould(cur')
        /\ UNCHANGED <<callers, ret, error, result>>
    BY <1>7 DEF ParseArray, ParseMap, ParseContainer, Activation, Array, Map,
                FillsWhatItShould
  <2>2. IsSequence(callers)' /\ StackInOrder'
    BY <1>2, <2>1, LoopInOrder DEF IInv
  <2> QED
    BY <1>2, <2>1, <2>2 DEF IInv, OnlyUnwinds, Answered, ResultOrError
<1>8. CASE ParseBinary
  BY <1>2, <1>8, LeafInv DEF ParseBinary, BinaryData, Types
<1>9. CASE ParseBinaryBad
  BY <1>2, <1>9, FailInv DEF ParseBinaryBad
<1>10. CASE ParseValue
  <2>1. PICK self : Leaf(self) /\ self.type \in Types
    BY <1>10 DEF ParseValue, Value, Null, Types
  <2> QED
    BY <1>2, <2>1, LeafInv
<1>11. CASE ParseValueBad
  BY <1>2, <1>11, FailInv DEF ParseValueBad
<1>12. CASE ParseRef
  <2> DEFINE name == Head(Trim(str)).name
             caller == Activation("ref", cur.self, name, 0)
  <2>1. CASE name \in InvalidNames
    BY <1>2, <1>12, <2>1, FailInv DEF ParseRef
  <2>2. CASE name \notin InvalidNames
    <3>1. Call(caller, cur.self) /\ UNCHANGED <<error, result>>
      BY <1>12, <2>2 DEF ParseRef
    <3>2. caller.pc \in Resuming \ {"root"} /\ FillsWhatItShould(caller)
      BY <1>3 DEF Activation, Resuming, FillsWhatItShould
    <3>3. IsSequence(callers)' /\ StackInOrder' /\ cur'.pc = "parse" /\ ret' = ret
      <4> HIDE DEF caller
      <4> QED
        BY <1>2, <1>3, <3>1, <3>2, CallInOrder DEF IInv
    <3> QED
      BY <1>2, <3>1, <3>3 DEF IInv, OnlyUnwinds, Answered, ResultOrError
  <2> QED
    BY <2>1, <2>2
<1>13. CASE ParseRefOpen
  BY <1>2, <1>13, FailInv DEF ParseRefOpen
<1>14. CASE ParseInsert
  <2> DEFINE name == Head(Trim(str)).name
  <2>1. result' = result
    BY <1>14 DEF ParseInsert
  <2>2. \/ Return(cur.self, <<>>)
        \/ \E rhs, rest : Return(copyInto(cur.self, rhs), rest) /\ error' = error
    BY <1>14 DEF ParseInsert
  <2>3. CASE Return(cur.self, <<>>)
    BY <1>2, <1>4, <2>1, <2>3
  <2>4. ASSUME NEW rhs, NEW rest, Return(copyInto(cur.self, rhs), rest), error' = error
        PROVE  IInv'
    BY <1>2, <1>4, <2>1, <2>4, CopyIsTyped
  <2> QED
    BY <2>2, <2>3, <2>4
<1>15. CASE ParseInsertOpen
  BY <1>2, <1>4, <1>15 DEF ParseInsertOpen
<1> QED
  BY <1>5, <1>6, <1>7, <1>8, <1>9, <1>10, <1>11, <1>12, <1>13, <1>14, <1>15

LEMMA LoopStepInv ==
  ASSUME IInv,
         \/ ArrayNoParen \/ ArrayClose \/ ArrayElement \/ ArrayElementParsed
         \/ MapNoParen \/ MapClose \/ MapKey \/ MapKeyParsed \/ MapValueParsed
         \/ RefParsed
  PROVE  IInv'
<1>1. /\ cur.pc \in {"array", "element", "map", "mapKey", "mapValue", "ref"}
      /\ result' = result
  BY DEF ArrayNoParen, ArrayClose, ArrayElement, ArrayElementParsed, MapNoParen, MapClose,
         MapKey, MapKeyParsed, MapValueParsed, RefParsed, CloseContainer, Fail, Leaf
<1>2. cur.pc # "root" /\ result = Running
  BY <1>1 DEF IInv, Answered
<1>3. cur.pc \in {"array", "element", "map", "mapKey", "mapValue"} =>
        cur.self.type \in Types \ {"Value", "Invalid"}
  BY DEF IInv, StackInOrder, FillsWhatItShould, Types
<1>4. ASSUME NEW self, NEW rest, Return(self, rest), self.type \in Types,
             \/ error' = error /\ error.code = "None"
             \/ rest = <<>> /\ self.type # "Value"
      PROVE  IInv'
  <2>1. /\ IsSequence(callers)' /\ StackInOrder'
        /\ cur'.pc \in Resuming /\ ret' = self /\ str' = rest
    BY <1>2, <1>4, ReturnInOrder DEF IInv
  <2> QED
    BY <1>1, <1>2, <1>4, <2>1 DEF IInv, OnlyUnwinds, Answered, ResultOrError, Resuming
<1>5. ASSUME NEW caller, caller.pc \in Resuming \ {"root"}, FillsWhatItShould(caller),
             NEW self \in {Null, Invalid}, Call(caller, self), error.code = "None",
             error' = error
      PROVE  IInv'
  <2>1. IsSequence(callers)' /\ StackInOrder' /\ cur'.pc = "parse" /\ ret' = ret
    BY <1>2, <1>5, CallInOrder DEF IInv
  <2> QED
    BY <1>1, <1>2, <1>5, <2>1 DEF IInv, OnlyUnwinds, Answered, ResultOrError
<1>6. ASSUME cur'.pc \in {"array", "map"}, FillsWhatItShould(cur'),
             UNCHANGED <<callers, ret, str, error>>,
             cur'.pc = "array" => error.code = "None"
      PROVE  IInv'
  <2>1. IsSequence(callers)' /\ StackInOrder'
    BY <1>2, <1>6, LoopInOrder DEF IInv
  <2> QED
    BY <1>1, <1>2, <1>6, <2>1 DEF IInv, OnlyUnwinds, Answered, ResultOrError
<1>7. error.code # "None" => str = <<>> /\ ~NextIs("close") /\ Trim(str) = <<>>
  BY <1>2, TrimEmpty DEF IInv, OnlyUnwinds, NextIs
<1>8. CASE ArrayNoParen \/ MapNoParen
  BY <1>2, <1>3, <1>8, FailInv DEF ArrayNoParen, MapNoParen
<1>9. CASE ArrayClose \/ MapClose
  <2>1. Leaf(cur.self) /\ cur.pc \in {"array", "map"} /\ error.code = "None"
    BY <1>7, <1>9 DEF ArrayClose, MapClose, CloseContainer
  <2> QED
    BY <1>2, <1>3, <2>1, LeafInv
<1>10. CASE ArrayElement
  <2>1. error.code = "None"
    BY <1>10, ParsingIsClean DEF ArrayElement
  <2>2. /\ At("element").pc \in Resuming \ {"root"} /\ FillsWhatItShould(At("element"))
        /\ Call(At("element"), Null) /\ error' = error
    BY <1>10 DEF ArrayElement, At, Activation, FillsWhatItShould, Resuming,
                 IInv, StackInOrder
  <2> QED
    BY <1>5, <2>1, <2>2
<1>11. CASE ArrayElementParsed
  <2>1. CASE error.code # "None"
    BY <1>3, <1>4, <1>11, <2>1 DEF ArrayElementParsed
  <2>2. CASE error.code = "None"
    BY <1>6, <1>11, <2>2 DEF ArrayElementParsed, Activation, Array, FillsWhatItShould
  <2> QED
    BY <2>1, <2>2
<1>12. CASE MapKey
  <2> DEFINE caller == Activation("mapKey", cur.self, NoKey, AfterTrim)
  <2>1. error.code = "None"
    BY <1>7, <1>12 DEF MapKey
  <2>2. /\ caller.pc \in Resuming \ {"root"} /\ FillsWhatItShould(caller)
        /\ Call(caller, Null) /\ error' = error
    BY <1>12 DEF MapKey, Activation, FillsWhatItShould, Resuming, IInv, StackInOrder
  <2> HIDE DEF caller
  <2> QED
    BY <1>5, <2>1, <2>2
<1>13. CASE MapKeyParsed
  <2>1. CASE ret.type # "Value"
    BY <1>3, <1>4, <1>13, <2>1 DEF MapKeyParsed
  <2>2. CASE ret.type = "Value"
    <3> DEFINE caller == Activation("mapValue", cur.self, ret.data, cur.prev)
    <3>1. error.code = "None"
      BY <1>2, <2>2 DEF IInv, OnlyUnwinds
    <3>2. /\ caller.pc \in Resuming \ {"root"} /\ FillsWhatItShould(caller)
          /\ Call(caller, Invalid) /\ error' = error
      BY <1>13, <2>2 DEF MapKeyParsed, Activation, FillsWhatItShould, Resuming,
                         IInv, StackInOrder
    <3> HIDE DEF caller
    <3> QED
      BY <1>5, <3>1, <3>2
  <2> QED
    BY <2>1, <2>2
<1>14. CASE MapValueParsed
  <2>1. CASE ret.type = "Invalid"
    BY <1>3, <1>4, <1>14, <2>1 DEF MapValueParsed
  <2>2. CASE ret.type # "Invalid"
    BY <1>6, <1>14, <2>2 DEF MapValueParsed, Activation, Map, FillsWhatItShould
  <2> QED
    BY <2>1, <2>2
<1>15. CASE RefParsed
  <2>1. CASE error.code # "None"
    <3>1. Return(ret, <<>>)
      BY <1>15, <2>1 DEF RefParsed
    <3>2. ret.type \in Types /\ ret.type # "Value"
      BY <1>2, <2>1 DEF IInv, OnlyUnwinds
    <3> QED
      BY <1>4, <3>1, <3>2
  <2>2. CASE error.code = "None"
    BY <1>4, <1>15, <2>2 DEF RefParsed, IInv
  <2> QED
    BY <2>1, <2>2
<1> QED
  BY <1>8, <1>9, <1>10, <1>11, <1>12, <1>13, <1>14, <1>15

LEMMA FinishInv ==
  ASSUME IInv, Finish
  PROVE  IInv'
<1>1. cur' = cur /\ cur.pc = "root" /\ callers' = callers /\ ret' = ret
  BY DEF Finish
<1>2. IsSequence(callers)' /\ StackInOrder'
  BY <1>1 DEF IInv, StackInOrder, FillsWhatItShould
<1>3. result' # Running /\ ResultOrError'
  <2>1. error' = FinalError
    BY DEF Finish
  <2>2. CASE FinalError.code = "None"
    <3>1. result' = ret /\ ret.type \in Types
      BY <2>2 DEF Finish, IInv
    <3>2. ret.type # "Invalid"
      BY <2>2 DEF FinalError
    <3>3. ret # Running /\ ret # NULL
      BY <3>1 DEF Running, NULL, Types
    <3> QED
      BY <2>1, <2>2, <3>1, <3>2, <3>3 DEF ResultOrError
  <2>3. CASE FinalError.code # "None"
    BY <2>1, <2>3 DEF Finish, ResultOrError, NULL, Running
  <2> QED
    BY <2>2, <2>3
<1> QED
  BY <1>1, <1>2, <1>3 DEF IInv, OnlyUnwinds, Answered

LEMMA NextInv == IInv /\ [Next]_vars => IInv'
<1> SUFFICES ASSUME IInv, [Next]_vars PROVE IInv'
  OBVIOUS
<1>1. CASE Step
  BY <1>1, ParseStepInv, LoopStepInv, FinishInv DEF Step
<1>2. CASE UNCHANGED vars
  BY <1>2 DEF vars, IInv, IsSequence, StackInOrder, FillsWhatItShould, OnlyUnwinds,
              Answered, ResultOrError
<1> QED
  BY <1>1, <1>2 DEF Next, Done

(* What each point of s_Expression_parseFromString can rely on: its stack,  *)
(* what each activation fills, and that nothing is read after an error.     *)
THEOREM Inductive == Spec => []IInv
BY InitInv, NextInv, PTL DEF Spec

-----------------------------------------------------------------------------
(* The C stack is always in order: the loops of s_Expression_parseFrom-     *)
(* String fill an expression of the type they switched self to, and only    *)
(* an activation that made a call is below the running one.                 *)
THEOREM StackStaysInOrder == Spec => []StackInOrder
BY Inductive, PTL DEF IInv

(* Once an error is set the parser reads no more text.                      *)
THEOREM NothingIsParsedAfterError == Spec => []NothingParsedAfterError
<1>1. IInv => NothingParsedAfterError
  BY DEF IInv, OnlyUnwinds, Answered, NothingParsedAfterError
<1> QED
  BY <1>1, Inductive, PTL

(* The caller gets an expression or an error, never both, never neither.    *)
THEOREM AnswersOnce == Spec => []ResultOrError
BY Inductive, PTL DEF IInv

(* What a step may do after an error. *)
LEMMA StepAfterError ==
  ASSUME IInv, [Next]_vars, error.code # "None"
  PROVE  /\ error' = error \/ (error.code = "EmptyString" /\ error'.code = "MapNoValue")
         /\ externalRefs' = externalRefs
         /\ internalRefs' \in {internalRefs, EmptyTable(Names)}
<1>1. CASE Finish
  BY <1>1 DEF Finish, FinalError
<1>2. CASE Step /\ ~Finish
  <2>1. result = Running
    BY <1>2 DEF IInv, Answered, Step, ParseEmpty, ParseBlank, ParseArray, ParseMap,
         ParseBinary, ParseBinaryBad, ParseValue, ParseValueBad, ParseRef, ParseRefOpen,
         ParseInsert, ParseInsertOpen, ParseContainer, Parsing, ArrayNoParen, ArrayClose,
         ArrayElement, ArrayElementParsed, MapNoParen, MapClose, MapKey, MapKeyParsed,
         MapValueParsed, RefParsed, CloseContainer
  <2>2. cur.pc \notin {"parse", "array"} /\ str = <<>> /\ ret.type # "Value"
    BY <2>1 DEF IInv, OnlyUnwinds
  <2>3. ~NextIs("close") /\ Trim(str) = <<>>
    BY <2>2, TrimEmpty DEF NextIs
  <2>4. ArrayElementParsed \/ MapNoParen \/ MapKeyParsed \/ MapValueParsed \/ RefParsed
    BY <1>2, <2>2, <2>3 DEF Step, ParseEmpty, ParseBlank, ParseArray, ParseMap,
         ParseBinary, ParseBinaryBad, ParseValue, ParseValueBad, ParseRef, ParseRefOpen,
         ParseInsert, ParseInsertOpen, ParseContainer, Parsing, ArrayNoParen, ArrayClose,
         ArrayElement, MapClose, MapKey, CloseContainer
  <2>5. CASE ArrayElementParsed \/ RefParsed
    BY <2>5 DEF ArrayElementParsed, RefParsed
  <2>6. CASE MapNoParen
    BY <2>6 DEF MapNoParen, Fail, FirstError
  <2>7. CASE MapKeyParsed
    BY <2>2, <2>7 DEF MapKeyParsed, FirstError
  <2>8. CASE MapValueParsed
    BY <2>8 DEF MapValueParsed
  <2> QED
    BY <2>4, <2>5, <2>6, <2>7, <2>8
<1>3. CASE UNCHANGED vars
  BY <1>3 DEF vars
<1> QED
  BY <1>1, <1>2, <1>3 DEF Next, Done

(* The error reported is the first one met, but for a map without a value,  *)
(* which renames the empty-string error of the call that found no value.    *)
THEOREM FirstErrorIsReported == Spec => FirstErrorWins
<1> DEFINE Keeps == error.code # "None" =>
                      \/ error' = error
                      \/ error.code = "EmptyString" /\ error'.code = "MapNoValue"
<1>1. IInv /\ [Next]_vars => [Keeps]_vars
  BY StepAfterError
<1> QED
  BY <1>1, Inductive, PTL DEF Spec, FirstErrorWins

(* A text that has failed neither binds a reference of its own nor makes    *)
(* the caller's table create one.                                           *)
THEOREM NothingIsBoundAfterError == Spec => NoBindingAfterError
<1> DEFINE Keeps == error.code # "None" =>
                      /\ externalRefs' = externalRefs
                      /\ internalRefs' \in {internalRefs, EmptyTable(Names)}
<1>1. IInv /\ [Next]_vars => [Keeps]_vars
  BY StepAfterError
<1> QED
  BY <1>1, Inductive, PTL DEF Spec, NoBindingAfterError

-----------------------------------------------------------------------------
(* The text that is left and the nesting follow the position.               *)

LEMMA LeastOf ==
  ASSUME NEW S \in SUBSET Nat, S # {}
  PROVE  \E n \in S : \A m \in S : n <= m
<1> DEFINE R == OpToRel(<, Nat)
<1>1. IsWellFoundedOn(R, Nat)
  BY NatLessThanWellFounded
<1> HIDE DEF R
<1>2. \E x \in S : \A y \in S : ~(<<y, x>> \in R)
  BY <1>1, WFMin
<1>3. \A x, y \in Nat : x < y => <<x, y>> \in R
  BY DEF OpToRel, R
<1>4. PICK x \in S : \A y \in S : ~(<<y, x>> \in R)
  BY <1>2
<1>5. ASSUME NEW y \in S PROVE x <= y
  <2>1. x \in Nat /\ y \in Nat /\ ~(y < x)
    BY <1>3, <1>4
  <2> QED
    BY <2>1
<1> QED
  BY <1>5

(* Every text has a number of blanks in front. *)
LEMMA BlanksOf ==
  ASSUME NEW text, NEW len \in Nat, Len(text) = len
  PROVE  /\ Blanks(text) \in 0..len
         /\ \A i \in 1..Blanks(text) : text[i].kind = "blank"
         /\ Blanks(text) < len => text[Blanks(text) + 1].kind # "blank"
<1> DEFINE Stops == {n \in 0..len : n < len => text[n + 1].kind # "blank"}
<1>1. len \in Stops /\ Stops \in SUBSET Nat
  OBVIOUS
<1>2. PICK n \in Stops : \A m \in Stops : n <= m
  <2> HIDE DEF Stops
  <2> QED
    BY <1>1, LeastOf
<1>3. ASSUME NEW i \in 1..n PROVE text[i].kind = "blank"
  <2>1. i - 1 \in 0..len /\ i - 1 < n /\ i - 1 < len /\ (i - 1) + 1 = i
    OBVIOUS
  <2>2. i - 1 \notin Stops
    BY <1>2, <2>1
  <2> QED
    BY <2>1, <2>2
<1>4. n \in 0..len /\ (n < len => text[n + 1].kind # "blank")
  OBVIOUS
<1> HIDE DEF Stops
<1> QED
  BY <1>3, <1>4 DEF Blanks

(* What is left of the text from a place on. *)
Rest(p) == SubSeq(input, p + 1, Len(input))

LEMMA RestIs ==
  ASSUME IsSequence(input), NEW p \in 0..Len(input)
  PROVE  /\ Len(input) \in Nat
         /\ IsSequence(Rest(p)) /\ Len(Rest(p)) = Len(input) - p
         /\ \A i \in 1..(Len(input) - p) : Rest(p)[i] = input[p + i]
         /\ Rest(p) = <<>> <=> p = Len(input)
         /\ p # Len(input) => Head(Rest(p)) = input[p + 1] /\ Tail(Rest(p)) = Rest(p + 1)
<1> DEFINE S == {input[i] : i \in DOMAIN input}
<1>1. input \in Seq(S) /\ Len(input) \in Nat
  BY DEF IsSequence
<1> DEFINE len == Len(input)
           rest == SubSeq(input, p + 1, len)
<1>2. len \in Nat /\ p \in Nat /\ p + 1 \in Int /\ \A i \in (p + 1)..len : input[i] \in S
  BY <1>1
<1> HIDE DEF len, S
<1>3. /\ rest \in Seq(S)
      /\ Len(rest) = IF p + 1 <= len THEN len - (p + 1) + 1 ELSE 0
      /\ \A i \in 1..(len - (p + 1) + 1) : rest[i] = input[p + 1 + i - 1]
  BY <1>2, SubSeqProperties
<1>4. p <= len
  BY DEF len
<1> HIDE DEF rest
<1>5. len - (p + 1) + 1 = len - p /\ (~(p + 1 <= len) => len - p = 0)
  BY <1>2, <1>4
<1>6. Len(rest) = len - p
  BY <1>2, <1>3, <1>5
<1>7. \A i \in 1..(len - p) : rest[i] = input[p + i]
  <2>1. \A i \in 1..(len - p) : p + 1 + i - 1 = p + i
    BY <1>2
  <2> QED
    BY <1>3, <1>5, <2>1
<1>8. IsSequence(rest)
  BY <1>3, SeqIsSequence
<1>9. rest = <<>> <=> p = len
  <2>1. rest = <<>> <=> Len(rest) = 0
    BY <1>3
  <2> QED
    BY <1>2, <1>6, <2>1
<1>10. CASE p = len
  BY <1>1, <1>6, <1>7, <1>8, <1>9, <1>10 DEF rest, len, Rest
<1>11. CASE p # len
  <2>1. p + 1 \in 1..len /\ len \in (p + 1)..len
    BY <1>2, <1>4, <1>11
  <2>2. Head(rest) = input[p + 1] /\ Tail(rest) = SubSeq(input, p + 1 + 1, len)
    BY <1>1, <2>1, HeadTailOfSubSeq DEF rest, len
  <2> QED
    BY <1>1, <1>6, <1>7, <1>8, <1>9, <2>2 DEF rest, len, Rest
<1> QED
  BY <1>10, <1>11

LEMMA SameSequence ==
  ASSUME NEW s, NEW t, IsSequence(s), IsSequence(t), Len(s) = Len(t),
         \A i \in 1..Len(s) : s[i] = t[i]
  PROVE  s = t
<1> DEFINE S == {s[i] : i \in DOMAIN s} \cup {t[i] : i \in DOMAIN t}
<1>1. s \in Seq(S) /\ t \in Seq(S)
  BY DEF IsSequence
<1> HIDE DEF S
<1> QED
  BY <1>1, SeqEqual

(* Trimming moves on over blanks. *)
LEMMA TrimIs ==
  ASSUME IsSequence(input), position \in 0..Len(input), str = Rest(position)
  PROVE  /\ AfterTrim \in position..Len(input) /\ AfterTrim \in 0..Len(input)
         /\ Trim(str) = Rest(AfterTrim)
         /\ \A i \in (position + 1)..AfterTrim : input[i].kind = "blank"
<1> DEFINE len == Len(input)
           b == Blanks(str)
<1>1. /\ len \in Nat /\ position \in Nat /\ position <= len
      /\ IsSequence(str) /\ Len(str) = len - position
      /\ \A i \in 1..(len - position) : str[i] = input[position + i]
  <2>1. /\ Len(input) \in Nat
        /\ IsSequence(Rest(position)) /\ Len(Rest(position)) = Len(input) - position
        /\ \A i \in 1..(Len(input) - position) : Rest(position)[i] = input[position + i]
    BY RestIs
  <2>2. position \in Nat /\ position <= Len(input)
    BY <2>1
  <2> QED
    BY <2>1, <2>2
<1>2. len - position \in Nat
  BY <1>1
<1>3. b \in 0..(len - position) /\ \A i \in 1..b : str[i].kind = "blank"
  BY <1>1, <1>2, BlanksOf
<1> HIDE DEF b, len
<1>4. AfterTrim = position + b /\ AfterTrim \in position..len /\ AfterTrim \in 0..len
  BY <1>1, <1>3 DEF AfterTrim, b
<1>5. ASSUME NEW i \in (position + 1)..AfterTrim PROVE input[i].kind = "blank"
  <2>1. i - position \in 1..b /\ position + (i - position) = i /\ i - position \in 1..(len - position)
    BY <1>1, <1>3, <1>4
  <2> QED
    BY <1>1, <1>3, <2>1
<1>6. Trim(str) = Rest(AfterTrim)
  <2> DEFINE S == {str[i] : i \in DOMAIN str}
             k == len - position
             trim == SubSeq(str, b + 1, k)
  <2>1. str \in Seq(S) /\ Len(str) = k /\ k \in Nat /\ b \in Nat /\ b <= k /\ b + 1 \in Int
    BY <1>1, <1>2, <1>3 DEF IsSequence
  <2>2. \A i \in (b + 1)..k : str[i] \in S
    BY <2>1
  <2> HIDE DEF S, k
  <2>3. /\ trim \in Seq(S)
        /\ Len(trim) = IF b + 1 <= k THEN k - (b + 1) + 1 ELSE 0
        /\ \A i \in 1..(k - (b + 1) + 1) : trim[i] = str[b + 1 + i - 1]
    BY <2>1, <2>2, SubSeqProperties
  <2> HIDE DEF trim
  <2>4. Len(trim) = k - b
    BY <2>1, <2>3
  <2>5. \A i \in 1..(k - b) : trim[i] = input[AfterTrim + i]
    <3> TAKE i \in 1..(k - b)
    <3>1. i \in 1..(k - (b + 1) + 1) /\ b + 1 + i - 1 = b + i /\ b + i \in 1..k
      BY <2>1
    <3>2. trim[i] = str[b + i]
      BY <2>3, <3>1
    <3>3. str[b + i] = input[position + (b + i)]
      BY <1>1, <3>1 DEF k
    <3>4. position + (b + i) = AfterTrim + i
      BY <1>1, <1>4, <2>1
    <3> QED
      BY <3>2, <3>3, <3>4
  <2>6. /\ IsSequence(Rest(AfterTrim)) /\ Len(Rest(AfterTrim)) = len - AfterTrim
        /\ \A i \in 1..(len - AfterTrim) : Rest(AfterTrim)[i] = input[AfterTrim + i]
    BY <1>4, RestIs DEF len
  <2>7. len - AfterTrim = k - b
    BY <1>1, <1>4, <2>1 DEF k
  <2>8. trim = Rest(AfterTrim)
    BY <2>3, <2>4, <2>5, <2>6, <2>7, SeqIsSequence, SameSequence
  <2> QED
    BY <2>1, <2>8 DEF Trim, trim, b
<1> QED
  BY <1>4, <1>5, <1>6 DEF len

(* The lexemes of some kinds among the first n. *)
First(n, kinds) == {i \in 1..n : input[i].kind \in kinds}

(* Blanks open and close nothing; every other lexeme counts once. *)
LEMMA PassedGrows ==
  ASSUME IsSequence(input), NEW p \in 0..Len(input), NEW q \in p..Len(input),
         \A i \in (p + 1)..q : input[i].kind = "blank",
         NEW kinds, "blank" \notin kinds
  PROVE  /\ Cardinality(First(p, kinds)) \in Nat
         /\ Cardinality(First(q, kinds)) = Cardinality(First(p, kinds))
         /\ Cardinality(First(q + 1, kinds)) = Cardinality(First(p, kinds)) + (IF input[q + 1].kind \in kinds THEN 1 ELSE 0)
<1> DEFINE at(n) == First(n, kinds)
<1>1. Len(input) \in Nat /\ p \in Nat /\ q \in Nat /\ p <= q
  BY RestIs
<1>2. IsFiniteSet(at(q)) /\ Cardinality(at(q)) \in Nat
  <2>1. IsFiniteSet(1..q)
    BY <1>1, FS_Interval
  <2>2. at(q) \in SUBSET (1..q)
    BY DEF First
  <2> HIDE DEF at
  <2> QED
    BY <2>1, <2>2, FS_Subset, FS_CardinalityType
<1>3. at(q) = at(p)
  <2>1. ASSUME NEW i PROVE i \in at(q) <=> i \in at(p)
    <3>1. i \in 1..q <=> i \in 1..p \/ i \in (p + 1)..q
      BY <1>1
    <3> QED
      BY <3>1 DEF First
  <2> HIDE DEF at
  <2> QED
    BY <2>1
<1>4. at(q + 1) = IF input[q + 1].kind \in kinds THEN at(q) \cup {q + 1} ELSE at(q)
  BY <1>1 DEF First
<1>5. q + 1 \notin at(q)
  BY <1>1 DEF First
<1> HIDE DEF at
<1>6. Cardinality(at(q + 1)) = Cardinality(at(q)) + (IF input[q + 1].kind \in kinds THEN 1 ELSE 0)
  <2>1. CASE input[q + 1].kind \in kinds
    <3>1. Cardinality(at(q) \cup {q + 1}) = Cardinality(at(q)) + 1
      BY <1>2, <1>5, FS_AddElement
    <3> QED
      BY <1>4, <2>1, <3>1
  <2>2. CASE input[q + 1].kind \notin kinds
    BY <1>2, <1>4, <2>2
  <2> QED
    BY <2>1, <2>2
<1> QED
  BY <1>2, <1>3, <1>6 DEF at

(* The activations on the stack that fill an array or a map. *)
Loops == {"element", "mapKey", "mapValue"}
Waiting == {i \in DOMAIN callers : callers[i].pc \in Loops}

LEMMA FillingIs ==
  Filling = Cardinality(Waiting) + (IF cur.pc \in {"root", "parse", "ref"} THEN 0 ELSE 1)
BY DEF Filling, Waiting, Loops

LEMMA WaitingFinite ==
  ASSUME IsSequence(callers)
  PROVE  IsFiniteSet(Waiting) /\ Cardinality(Waiting) \in Nat
<1>1. Len(callers) \in Nat /\ DOMAIN callers = 1..Len(callers)
  BY DEF IsSequence
<1>2. IsFiniteSet(1..Len(callers)) /\ Waiting \in SUBSET (1..Len(callers))
  BY <1>1, FS_Interval DEF Waiting
<1> QED
  BY <1>2, FS_Subset, FS_CardinalityType

(* A return takes away what the running activation filled, ...              *)
LEMMA ReturnFills ==
  ASSUME IsSequence(callers), StackInOrder, cur.pc # "root", NEW self, NEW rest, Return(self, rest)
  PROVE  Filling' = Cardinality(Waiting)
<1>1. callers # <<>>
  BY DEF StackInOrder
<1>2. /\ IsSequence(callers')
      /\ DOMAIN callers' = 1..(Len(callers) - 1)
      /\ Len(callers) \in DOMAIN callers
      /\ \A i \in DOMAIN callers' : callers'[i] = callers[i]
  BY <1>1, PopSequence DEF Return
<1>3. cur' = callers[Len(callers)] /\ cur'.pc \in Resuming
  BY <1>2 DEF Return, StackInOrder
<1> DEFINE top == Len(callers)
<1>4. top \in Nat \ {0} /\ DOMAIN callers = 1..top /\ DOMAIN callers' = 1..(top - 1)
  BY <1>2 DEF IsSequence
<1>5. top \notin Waiting'
  BY <1>4 DEF Waiting
<1>6. Waiting = IF cur'.pc \in Loops THEN Waiting' \cup {top} ELSE Waiting'
  <2>1. 1..top = 1..(top - 1) \cup {top}
    BY <1>4
  <2> QED
    BY <1>2, <1>3, <1>4, <2>1 DEF Waiting
<1>7. IsFiniteSet(Waiting') /\ Cardinality(Waiting') \in Nat
  <2>1. IsFiniteSet(1..(top - 1)) /\ Waiting' \in SUBSET (1..(top - 1))
    BY <1>4, FS_Interval DEF Waiting
  <2> QED
    BY <2>1, FS_Subset, FS_CardinalityType
<1>8. cur'.pc \in {"root", "parse", "ref"} <=> cur'.pc \notin Loops
  BY <1>3 DEF Resuming, Loops
<1>9. Filling' = Cardinality(Waiting') + (IF cur'.pc \in {"root", "parse", "ref"} THEN 0 ELSE 1)
  BY DEF Filling, Waiting, Loops
<1> HIDE DEF top
<1>10. CASE cur'.pc \in Loops
  BY <1>5, <1>6, <1>7, <1>8, <1>9, <1>10, FS_AddElement
<1>11. CASE cur'.pc \notin Loops
  BY <1>6, <1>7, <1>8, <1>9, <1>11
<1> QED
  BY <1>10, <1>11

(* ... and a call keeps it on the stack.                                    *)
LEMMA CallFills ==
  ASSUME IsSequence(callers), NEW caller, NEW self, Call(caller, self)
  PROVE  Filling' = Cardinality(Waiting) + (IF caller.pc \in Loops THEN 1 ELSE 0)
<1> DEFINE top == Len(callers) + 1
<1>1. /\ DOMAIN callers' = DOMAIN callers \cup {top}
      /\ \A i \in DOMAIN callers : callers'[i] = callers[i]
      /\ callers'[top] = caller
  BY PushSequence DEF Call
<1>2. Len(callers) \in Nat /\ DOMAIN callers = 1..Len(callers)
  BY DEF IsSequence
<1>3. top \notin DOMAIN callers
  BY <1>2
<1> HIDE DEF top
<1>4. top \notin Waiting /\ Waiting' = IF caller.pc \in Loops THEN Waiting \cup {top} ELSE Waiting
  BY <1>1, <1>3 DEF Waiting
<1>5. cur'.pc = "parse"
  BY DEF Call, Activation
<1>6. Filling' = Cardinality(Waiting') + 0
  BY <1>5 DEF Filling, Waiting, Loops
<1>7. IsFiniteSet(Waiting) /\ Cardinality(Waiting) \in Nat
  BY WaitingFinite
<1>8. CASE caller.pc \in Loops
  <2>1. Cardinality(Waiting \cup {top}) = Cardinality(Waiting) + 1
    BY <1>4, <1>7, FS_AddElement
  <2> QED
    BY <1>4, <1>6, <1>7, <1>8, <2>1
<1>9. CASE caller.pc \notin Loops
  BY <1>4, <1>6, <1>7, <1>9
<1> QED
  BY <1>8, <1>9

(* What is true while there is no error. *)
Followed ==
  /\ position \in 0..Len(input)
  /\ str = Rest(position)
  /\ Filling = Passed({"array", "map"}) - Passed({"close"})
Follows == IsSequence(input) /\ (error.code = "None" => Followed)

LEMMA PassesNothing ==
  ASSUME Followed, input' = input, position' = position, str' = str, Filling' = Filling
  PROVE  Followed'
BY DEF Followed, Rest, Passed

LEMMA PassesBlanks ==
  ASSUME IsSequence(input), Followed, input' = input, position' = AfterTrim, str' = Trim(str),
         Filling' = Filling
  PROVE  Followed'
<1>1. /\ AfterTrim \in position..Len(input) /\ AfterTrim \in 0..Len(input)
      /\ Trim(str) = Rest(AfterTrim)
      /\ \A i \in (position + 1)..AfterTrim : input[i].kind = "blank"
  BY TrimIs DEF Followed
<1> DEFINE now == AfterTrim
<1> HIDE DEF now
<1>2. now = AfterTrim
  BY DEF now
<1>3. ASSUME NEW kinds, "blank" \notin kinds PROVE Passed(kinds)' = Passed(kinds)
  <2>1. Cardinality(First(now, kinds)) = Cardinality(First(position, kinds))
    BY <1>1, <1>2, <1>3, PassedGrows DEF Followed
  <2>2. Passed(kinds)' = Cardinality(First(now, kinds))
    BY <1>2 DEF Passed, First
  <2> QED
    BY <2>1, <2>2 DEF Passed, First
<1>4. Passed({"array", "map"})' = Passed({"array", "map"}) /\ Passed({"close"})' = Passed({"close"})
  BY <1>3
<1>5. position' \in 0..Len(input') /\ str' = Rest(position)'
  BY <1>1 DEF Rest
<1> QED
  BY <1>4, <1>5 DEF Followed

LEMMA PassesLexeme ==
  ASSUME IsSequence(input), Followed, input' = input, Trim(str) # <<>>,
         position' = AfterTrim + 1, str' = Tail(Trim(str)),
         Filling' = CASE Head(Trim(str)).kind \in {"array", "map"} -> Filling + 1
                      [] Head(Trim(str)).kind = "close" -> Filling - 1
                      [] OTHER -> Filling
  PROVE  Followed'
<1>1. /\ AfterTrim \in position..Len(input) /\ AfterTrim \in 0..Len(input)
      /\ Trim(str) = Rest(AfterTrim)
      /\ \A i \in (position + 1)..AfterTrim : input[i].kind = "blank"
  BY TrimIs DEF Followed
<1> DEFINE now == AfterTrim
           kind == input[now + 1].kind
<1>2. now = AfterTrim
  OBVIOUS
<1> HIDE DEF now
<1>3. /\ Len(input) \in Nat /\ now # Len(input)
      /\ Head(Trim(str)) = input[now + 1] /\ Tail(Trim(str)) = Rest(now + 1)
  BY <1>1, <1>2, RestIs
<1>4. ASSUME NEW kinds, "blank" \notin kinds
      PROVE  /\ Passed(kinds)' = Passed(kinds) + (IF kind \in kinds THEN 1 ELSE 0)
             /\ Passed(kinds) \in Nat
  <2>1. /\ Cardinality(First(now + 1, kinds))
             = Cardinality(First(position, kinds)) + (IF kind \in kinds THEN 1 ELSE 0)
        /\ Cardinality(First(position, kinds)) \in Nat
    <3>1. /\ position \in 0..Len(input) /\ now \in position..Len(input)
          /\ \A i \in (position + 1)..now : input[i].kind = "blank"
      BY <1>1, <1>2 DEF Followed
    <3> QED
      BY <1>4, <3>1, PassedGrows
  <2>2. Passed(kinds)' = Cardinality(First(now + 1, kinds))
    BY <1>2 DEF Passed, First
  <2> QED
    BY <2>1, <2>2 DEF Passed, First
<1>5. /\ Passed({"array", "map"})' = Passed({"array", "map"}) + (IF kind \in {"array", "map"} THEN 1 ELSE 0)
      /\ Passed({"close"})' = Passed({"close"}) + (IF kind = "close" THEN 1 ELSE 0)
      /\ Passed({"array", "map"}) \in Nat /\ Passed({"close"}) \in Nat
  <2> HIDE DEF kind
  <2>1. kind \in {"close"} <=> kind = "close"
    OBVIOUS
  <2> QED
    BY <1>4, <2>1
<1>6. position' \in 0..Len(input') /\ str' = Rest(position)'
  <2>1. now + 1 \in 0..Len(input) /\ position' = now + 1
    BY <1>1, <1>2, <1>3
  <2>2. str' = Rest(now + 1)
    BY <1>3
  <2> QED
    BY <2>1, <2>2 DEF Rest
<1>7. Filling' = Filling + (IF kind \in {"array", "map"} THEN 1 ELSE 0) - (IF kind = "close" THEN 1 ELSE 0)
  <2>1. Filling \in Int
    BY <1>5 DEF Followed
  <2>2. Head(Trim(str)).kind = kind
    BY <1>3
  <2> HIDE DEF kind
  <2> QED
    BY <2>1, <2>2
<1>8. Filling' = Passed({"array", "map"})' - Passed({"close"})'
  <2>1. Filling = Passed({"array", "map"}) - Passed({"close"})
    BY DEF Followed
  <2> HIDE DEF kind
  <2> QED
    BY <1>5, <1>7, <2>1
<1> QED
  BY <1>6, <1>8 DEF Followed

(* What follows the running activation when it ends, or makes a call for a  *)
(* loop or not.                                                             *)
LEMMA FillingAfter ==
  ASSUME IInv, cur.pc # "root"
  PROVE  /\ Cardinality(Waiting) \in Nat
         /\ Filling = Cardinality(Waiting) + (IF cur.pc \in {"root", "parse", "ref"} THEN 0 ELSE 1)
         /\ \A self, rest : Return(self, rest) => Filling' = Cardinality(Waiting)
         /\ \A caller, self : Call(caller, self) =>
              Filling' = Cardinality(Waiting) + (IF caller.pc \in Loops THEN 1 ELSE 0)
         /\ callers' = callers /\ cur'.pc \in {"array", "map"} => Filling' = Cardinality(Waiting) + 1
<1>1. IsSequence(callers) /\ StackInOrder
  BY DEF IInv
<1>2. callers' = callers /\ cur'.pc \in {"array", "map"} => Filling' = Cardinality(Waiting) + 1
  BY DEF Filling, Waiting, Loops
<1> QED
  BY <1>1, <1>2, WaitingFinite, FillingIs, ReturnFills, CallFills

LEMMA ParseStepFollows ==
  ASSUME IInv, Follows, error'.code = "None",
         \/ ParseEmpty \/ ParseBlank \/ ParseArray \/ ParseMap
         \/ ParseBinary \/ ParseBinaryBad \/ ParseValue \/ ParseValueBad
         \/ ParseRef \/ ParseRefOpen \/ ParseInsert \/ ParseInsertOpen
  PROVE  Followed'
<1>1. cur.pc = "parse"
  BY DEF ParseEmpty, ParseBlank, ParseArray, ParseMap, ParseBinary, ParseBinaryBad,
         ParseValue, ParseValueBad, ParseRef, ParseRefOpen, ParseInsert, ParseInsertOpen,
         ParseContainer, Parsing
<1>2. error.code = "None" /\ cur.pc # "root" /\ IsSequence(input) /\ Followed
  BY <1>1, ParsingIsClean DEF Follows
<1>3. /\ Cardinality(Waiting) \in Nat /\ Filling = Cardinality(Waiting)
      /\ \A self, rest : Return(self, rest) => Filling' = Filling
      /\ \A caller, self : Call(caller, self) /\ caller.pc = "ref" => Filling' = Filling
      /\ callers' = callers /\ cur'.pc \in {"array", "map"} => Filling' = Filling + 1
  BY <1>1, <1>2, FillingAfter DEF Loops
<1>4. ASSUME NEW code, code # "None", NEW message, Fail(code, message) PROVE FALSE
  BY <1>2, <1>4 DEF Fail, FirstError
<1>5. ASSUME Trim(str) # <<>>, input' = input, position' = AfterTrim + 1, str' = Tail(Trim(str)),
             NextIs("array") \/ NextIs("map"), Filling' = Filling + 1
      PROVE  Followed'
  BY <1>2, <1>5, PassesLexeme DEF NextIs
<1>6. ASSUME Trim(str) # <<>>, input' = input, position' = AfterTrim + 1, str' = Tail(Trim(str)),
             Head(Trim(str)).kind \notin {"array", "map", "close"}, Filling' = Filling
      PROVE  Followed'
  BY <1>2, <1>6, PassesLexeme
<1>7. ASSUME NEW self, Leaf(self), Trim(str) # <<>>, Head(Trim(str)).kind \notin {"array", "map", "close"}
      PROVE  Followed'
  BY <1>3, <1>6, <1>7 DEF Leaf, Return
<1>8. CASE ParseEmpty
  BY <1>8 DEF ParseEmpty
<1>9. CASE ParseBlank
  <2>1. Filling' = Filling
    BY <1>3, <1>9 DEF ParseBlank
  <2> QED
    BY <1>2, <1>9, <2>1, PassesBlanks DEF ParseBlank, Return
<1>10. CASE ParseArray \/ ParseMap
  <2>1. PICK kind \in {"array", "map"} : \E container : ParseContainer(kind, container)
    BY <1>10 DEF ParseArray, ParseMap
  <2>2. Filling' = Filling + 1
    BY <1>3, <2>1 DEF ParseContainer, Activation
  <2> QED
    BY <1>5, <2>1, <2>2 DEF ParseContainer, NextIs
<1>11. CASE ParseBinary
  BY <1>7, <1>11 DEF ParseBinary, NextIs
<1>12. CASE ParseBinaryBad
  BY <1>4, <1>12 DEF ParseBinaryBad
<1>13. CASE ParseValue
  BY <1>7, <1>13 DEF ParseValue, NextIs
<1>14. CASE ParseValueBad
  BY <1>4, <1>14 DEF ParseValueBad
<1>15. CASE ParseRef
  <2> DEFINE name == Head(Trim(str)).name
             caller == Activation("ref", cur.self, name, 0)
  <2>1. /\ NextIs("ref") /\ Call(caller, cur.self) /\ str' = Tail(Trim(str))
        /\ position' = AfterTrim + 1 /\ input' = input
    BY <1>4, <1>15 DEF ParseRef
  <2>2. Filling' = Filling
    <3>1. caller.pc = "ref"
      BY DEF Activation
    <3> HIDE DEF caller
    <3> QED
      BY <1>3, <2>1, <3>1
  <2> QED
    BY <1>6, <2>1, <2>2 DEF NextIs
<1>16. CASE ParseRefOpen
  BY <1>4, <1>16 DEF ParseRefOpen
<1>17. CASE ParseInsert
  <2> DEFINE name == Head(Trim(str)).name
  <2>1. NextIs("insert") /\ position' = AfterTrim + 1 /\ input' = input
    BY <1>17 DEF ParseInsert
  <2>2. PICK self : Return(self, Tail(Trim(str)))
    <3>1. CASE internalRefs[name] # Absent
      BY <1>17, <3>1 DEF ParseInsert
    <3>2. CASE internalRefs[name] = Absent /\ Lookup(externalRefs, name) = Absent
      BY <1>2, <1>17, <3>2 DEF ParseInsert, FirstError
    <3>3. CASE internalRefs[name] = Absent /\ Lookup(externalRefs, name) # Absent
      BY <1>17, <3>3 DEF ParseInsert
    <3> QED
      BY <3>1, <3>2, <3>3
  <2>3. Filling' = Filling /\ str' = Tail(Trim(str))
    BY <1>3, <2>2 DEF Return
  <2> QED
    BY <1>6, <2>1, <2>3 DEF NextIs
<1>18. CASE ParseInsertOpen
  BY <1>18 DEF ParseInsertOpen
<1> QED
  BY <1>8, <1>9, <1>10, <1>11, <1>12, <1>13, <1>14, <1>15, <1>16, <1>17, <1>18

LEMMA LoopStepFollows ==
  ASSUME IInv, Follows, error.code = "None", error'.code = "None",
         \/ ArrayNoParen \/ ArrayClose \/ ArrayElement \/ ArrayElementParsed
         \/ MapNoParen \/ MapClose \/ MapKey \/ MapKeyParsed \/ MapValueParsed
         \/ RefParsed
  PROVE  Followed'
<1>1. /\ cur.pc \in {"array", "element", "map", "mapKey", "mapValue", "ref"}
      /\ cur.pc # "root" /\ IsSequence(input) /\ Followed /\ input' = input
  BY DEF ArrayNoParen, ArrayClose, ArrayElement, ArrayElementParsed, MapNoParen, MapClose,
         MapKey, MapKeyParsed, MapValueParsed, RefParsed, CloseContainer, Fail, Leaf, Follows
<1>2. /\ Cardinality(Waiting) \in Nat
      /\ Filling = Cardinality(Waiting) + (IF cur.pc = "ref" THEN 0 ELSE 1)
      /\ \A self, rest : Return(self, rest) => Filling' = Cardinality(Waiting)
      /\ \A caller, self : Call(caller, self) /\ caller.pc \in Loops => Filling' = Cardinality(Waiting) + 1
      /\ callers' = callers /\ cur'.pc \in {"array", "map"} => Filling' = Cardinality(Waiting) + 1
  BY <1>1, FillingAfter DEF Loops
<1>3. ASSUME NEW code, code # "None", NEW message, Fail(code, message) PROVE FALSE
  BY <1>3 DEF Fail, FirstError
<1>4. CASE ArrayNoParen \/ MapNoParen
  BY <1>3, <1>4 DEF ArrayNoParen, MapNoParen
<1>5. CASE ArrayClose \/ MapClose
  <2>1. NextIs("close") /\ Leaf(cur.self) /\ cur.pc \in {"array", "map"}
    BY <1>5 DEF ArrayClose, MapClose, CloseContainer
  <2>2. Filling' = Filling - 1
    BY <1>2, <2>1 DEF Leaf
  <2>3. /\ Trim(str) # <<>> /\ Head(Trim(str)).kind = "close"
        /\ position' = AfterTrim + 1 /\ str' = Tail(Trim(str))
    BY <2>1 DEF NextIs, Leaf, Return
  <2> QED
    BY <1>1, <2>2, <2>3, PassesLexeme
<1>6. CASE ArrayElement
  <2>1. /\ Call(At("element"), Null) /\ At("element").pc \in Loops /\ cur.pc = "array"
        /\ str' = Trim(str) /\ position' = AfterTrim
    BY <1>6 DEF ArrayElement, At, Activation, Loops
  <2>2. Filling' = Filling
    BY <1>2, <2>1
  <2> QED
    BY <1>1, <2>1, <2>2, PassesBlanks
<1>7. CASE ArrayElementParsed
  <2>1. UNCHANGED <<callers, str, position>> /\ cur'.pc = "array" /\ cur.pc = "element"
    BY <1>7 DEF ArrayElementParsed, Activation
  <2> QED
    BY <1>1, <1>2, <2>1, PassesNothing
<1>8. CASE MapKey
  <2> DEFINE caller == Activation("mapKey", cur.self, NoKey, AfterTrim)
  <2>1. /\ Call(caller, Null) /\ caller.pc \in Loops /\ cur.pc = "map"
        /\ str' = Trim(str) /\ position' = AfterTrim
    BY <1>8 DEF MapKey, Activation, Loops
  <2> HIDE DEF caller
  <2>2. Filling' = Filling
    BY <1>2, <2>1
  <2> QED
    BY <1>1, <2>1, <2>2, PassesBlanks
<1>9. CASE MapKeyParsed
  <2> DEFINE caller == Activation("mapValue", cur.self, ret.data, cur.prev)
  <2>1. ret.type = "Value"
    BY <1>9 DEF MapKeyParsed, FirstError
  <2>2. /\ Call(caller, Invalid) /\ caller.pc \in Loops /\ cur.pc = "mapKey"
        /\ UNCHANGED <<str, position>>
    BY <1>9, <2>1 DEF MapKeyParsed, Activation, Loops
  <2> HIDE DEF caller
  <2> QED
    BY <1>1, <1>2, <2>2, PassesNothing
<1>10. CASE MapValueParsed
  <2>1. UNCHANGED <<callers, str, position>> /\ cur'.pc = "map" /\ cur.pc = "mapValue"
    BY <1>10 DEF MapValueParsed, Activation
  <2> QED
    BY <1>1, <1>2, <2>1, PassesNothing
<1>11. CASE RefParsed
  <2>1. Return(ret, str) /\ position' = position /\ cur.pc = "ref" /\ str' = str
    BY <1>11 DEF RefParsed, Return
  <2> QED
    BY <1>1, <1>2, <2>1, PassesNothing
<1> QED
  BY <1>4, <1>5, <1>6, <1>7, <1>8, <1>9, <1>10, <1>11

LEMMA NextFollows ==
  ASSUME IInv, Follows, [Next]_vars
  PROVE  Follows'
<1>1. input' = input
  BY DEF Next, Done, Step, vars, ParseEmpty, ParseBlank, ParseArray, ParseMap,
         ParseBinary, ParseBinaryBad, ParseValue, ParseValueBad, ParseRef, ParseRefOpen,
         ParseInsert, ParseInsertOpen, ParseContainer, ArrayNoParen, ArrayClose,
         ArrayElement, ArrayElementParsed, MapNoParen, MapClose, MapKey, MapKeyParsed,
         MapValueParsed, RefParsed, CloseContainer, Leaf, Fail, Finish
<1>2. IsSequence(input)'
  BY <1>1 DEF Follows, IsSequence
<1>3. CASE error'.code # "None"
  BY <1>2, <1>3 DEF Follows
<1>4. CASE error'.code = "None"
  <2>1. error.code = "None"
    BY <1>4, StepAfterError
  <2>2. CASE Finish
    <3>1. position' = AfterTrim /\ str' = Trim(str) /\ UNCHANGED <<cur, callers>>
      BY <2>2 DEF Finish
    <3>2. Filling' = Filling
      BY <3>1 DEF Filling
    <3> QED
      BY <1>1, <1>2, <2>1, <3>1, <3>2, PassesBlanks DEF Follows
  <2>3. CASE Step /\ ~Finish
    BY <1>2, <1>4, <2>1, <2>3, ParseStepFollows, LoopStepFollows DEF Step, Follows
  <2>4. CASE UNCHANGED vars
    <3>1. Filling' = Filling
      BY <2>4 DEF vars, Filling
    <3> QED
      BY <1>2, <2>1, <2>4, <3>1, PassesNothing DEF vars, Follows
  <2> QED
    BY <2>2, <2>3, <2>4 DEF Next, Done
<1> QED
  BY <1>3, <1>4

LEMMA InitFollows ==
  ASSUME \A text \in Inputs : IsSequence(text), Init
  PROVE  Follows
<1>1. PICK text \in Inputs : Start(text)
  BY DEF Init
<1>2. /\ IsSequence(input) /\ position = 0 /\ str = input
      /\ cur.pc = "parse" /\ callers = <<Activation("root", Invalid, NoKey, 0)>>
  BY <1>1 DEF Start, Activation
<1>3. str = Rest(position) /\ position \in 0..Len(input)
  <2> DEFINE S == {input[i] : i \in DOMAIN input}
  <2>1. input \in Seq(S) /\ Len(input) \in Nat
    BY <1>2 DEF IsSequence
  <2>2. SubSeq(input, 1, Len(input)) = input
    <3> HIDE DEF S
    <3> QED
      BY <2>1, SubSeqFull
  <2> QED
    BY <1>2, <2>1, <2>2 DEF Rest
<1>4. Filling = 0
  <2>1. {i \in DOMAIN callers : callers[i].pc \in {"element", "mapKey", "mapValue"}} = {}
    BY <1>2 DEF Activation
  <2> QED
    BY <1>2, <2>1, FS_EmptySet DEF Filling
<1>5. \A kinds : Passed(kinds) = 0
  <2>1. \A kinds : {i \in 1..position : input[i].kind \in kinds} = {}
    BY <1>2
  <2> QED
    BY <2>1, FS_EmptySet DEF Passed
<1> QED
  BY <1>2, <1>3, <1>4, <1>5 DEF Follows, Followed

LEMMA TextIsFollowed ==
  ASSUME \A text \in Inputs : IsSequence(text)
  PROVE  Spec => []Follows
<1>1. Init => IInv /\ Follows
  BY InitInv, InitFollows
<1>2. IInv /\ Follows /\ [Next]_vars => IInv' /\ Follows'
  BY NextInv, NextFollows
<1> QED
  BY <1>1, <1>2, PTL DEF Spec

(* For texts that are sequences, of any lexemes: as long as there is no     *)
(* error, what is left of the text is what is behind the reported position, *)
(* and an error points at what was being read (s_StringRef_slice, the line  *)
(* and column of WexprParserState).                                         *)
THEOREM PositionIsFollowed ==
  ASSUME \A text \in Inputs : IsSequence(text)
  PROVE  Spec => []PositionFollowsText
<1>1. Follows => PositionFollowsText
  BY RestIs DEF Follows, Followed, PositionFollowsText
<1> QED
  BY <1>1, TextIsFollowed, PTL

(* ... and the arrays and maps on the C stack are the ones the text opened  *)
(* before the position and did not close (the calls of                      *)
(* s_Expression_parseFromString).                                           *)
THEOREM NestingIsFollowed ==
  ASSUME \A text \in Inputs : IsSequence(text)
  PROVE  Spec => []NestingFollowsText
<1>1. Follows => NestingFollowsText
  BY DEF Follows, Followed, NestingFollowsText
<1> QED
  BY <1>1, TextIsFollowed, PTL

-----------------------------------------------------------------------------
(* Expressions level by level, and what a copy of one is.                   *)

(* Arrays and maps of the expressions of a set, and what has no parts.      *)
Over(S) ==
  Leaves \cup [type : {"Array"}, list : Seq(S)] \cup [type : {"Map"}, hash : Tables(Words, S)]

(* The levels up to m, of which ExpressionsTo is the union: that there is a *)
(* function that satisfies its recursive definition.                        *)
Levels(f, m) == \A n \in 0..m : f[n] = IF n = 0 THEN Leaves ELSE Over(f[n - 1])

LEMMA LevelsExist ==
  ASSUME NEW m \in Nat
  PROVE  \E f : Levels(f, m)
<1> DEFINE Without == {n \in Nat : ~ \E f : Levels(f, n)}
<1>1. SUFFICES Without = {}
  OBVIOUS
<1>2. SUFFICES ASSUME NEW n \in Without, \A k \in Without : n <= k PROVE FALSE
  <2>1. Without \in SUBSET Nat
    OBVIOUS
  <2> HIDE DEF Without
  <2> QED BY <2>1, LeastOf
<1>3. CASE n = 0
  <2>1. Levels([k \in {0} |-> Leaves], 0)
    BY DEF Levels
  <2> QED BY <1>3, <2>1
<1>4. CASE n # 0
  <2>1. n - 1 \in Nat /\ n - 1 \notin Without
    BY <1>2, <1>4
  <2>2. PICK f : Levels(f, n - 1)
    BY <2>1
  <2> DEFINE g == [k \in 0..n |-> IF k = n THEN Over(f[n - 1]) ELSE f[k]]
  <2>3. \A k \in 0..(n - 1) : g[k] = f[k] /\ (k # 0 => k - 1 \in 0..(n - 1))
    BY <1>4
  <2>4. g[n] = Over(f[n - 1]) /\ g[n - 1] = f[n - 1]
    BY <1>4
  <2> HIDE DEF g
  <2>5. Levels(g, n)
    <3> SUFFICES ASSUME NEW k \in 0..n PROVE g[k] = IF k = 0 THEN Leaves ELSE Over(g[k - 1])
      BY DEF Levels
    <3>1. CASE k = n
      BY <1>4, <2>4, <3>1
    <3>2. CASE k # n
      <4>1. k \in 0..(n - 1)
        BY <3>2
      <4> QED BY <2>2, <2>3, <4>1 DEF Levels
    <3> QED BY <3>1, <3>2
  <2> QED BY <2>5
<1> QED BY <1>3, <1>4

LEMMA LevelsAgree ==
  ASSUME NEW f, NEW m \in Nat, Levels(f, m), NEW g, NEW n \in Nat, Levels(g, n),
         NEW k \in Nat, k <= m, k <= n
  PROVE  f[k] = g[k]
<1> DEFINE Apart == {i \in Nat : i <= m /\ i <= n /\ f[i] # g[i]}
<1>1. SUFFICES ASSUME NEW i \in Apart, \A j \in Apart : i <= j PROVE FALSE
  <2>1. Apart \in SUBSET Nat
    OBVIOUS
  <2>2. Apart = {} => f[k] = g[k]
    OBVIOUS
  <2> HIDE DEF Apart
  <2> QED BY <2>1, <2>2, LeastOf
<1>2. i \in 0..m /\ i \in 0..n
  OBVIOUS
<1>3. CASE i = 0
  BY <1>2, <1>3 DEF Levels
<1>4. CASE i # 0
  <2>1. i - 1 \in Nat /\ i - 1 <= m /\ i - 1 <= n /\ i - 1 \notin Apart
    BY <1>1, <1>4
  <2>2. f[i - 1] = g[i - 1]
    BY <2>1
  <2> QED BY <1>2, <1>4, <2>2 DEF Levels
<1> QED BY <1>3, <1>4

LEMMA LevelsOfExpressions ==
  ExpressionsTo = [n \in Nat |-> IF n = 0 THEN Leaves ELSE Over(ExpressionsTo[n - 1])]
<1> DEFINE upTo(m) == CHOOSE f : Levels(f, m)
           F == [n \in Nat |-> upTo(n)[n]]
<1>1. ASSUME NEW m \in Nat PROVE Levels(upTo(m), m)
  BY LevelsExist
<1> HIDE DEF upTo
<1>2. ASSUME NEW n \in Nat PROVE F[n] = IF n = 0 THEN Leaves ELSE Over(F[n - 1])
  <2>1. CASE n = 0
    BY <1>1, <2>1 DEF Levels
  <2>2. CASE n # 0
    <3>1. n - 1 \in Nat /\ n - 1 <= n /\ n \in 0..n /\ n - 1 <= n - 1
      BY <2>2
    <3>2. upTo(n)[n] = Over(upTo(n)[n - 1])
      BY <1>1, <2>2, <3>1 DEF Levels
    <3>3. upTo(n)[n - 1] = upTo(n - 1)[n - 1]
      BY <1>1, <3>1, LevelsAgree
    <3> QED BY <2>2, <3>1, <3>2, <3>3
  <2> QED BY <2>1, <2>2
<1>3. F = [n \in Nat |-> IF n = 0 THEN Leaves ELSE Over(F[n - 1])]
  BY <1>2
<1> HIDE DEF F
<1> QED BY <1>3 DEF ExpressionsTo, Over

LEMMA LevelIs ==
  /\ ExpressionsTo[0] = Leaves
  /\ \A n \in Nat : n # 0 => n - 1 \in Nat /\ ExpressionsTo[n] = Over(ExpressionsTo[n - 1])
<1> DEFINE F == ExpressionsTo
<1>1. F = [n \in Nat |-> IF n = 0 THEN Leaves ELSE Over(F[n - 1])]
  BY LevelsOfExpressions
<1> HIDE DEF F
<1>2. F[0] = Leaves /\ \A n \in Nat : n # 0 => n - 1 \in Nat /\ F[n] = Over(F[n - 1])
  BY <1>1
<1> QED BY <1>2 DEF F

LEMMA KindsOfExpressions ==
  /\ Invalid.type = "Invalid" /\ Null.type = "Null"
  /\ \A word : Value(word).type = "Value" /\ Value(word).data = word
  /\ \A blob : BinaryData(blob).type = "BinaryData"
  /\ \A list : Array(list).type = "Array" /\ Array(list).list = list
  /\ \A hash : Map(hash).type = "Map" /\ Map(hash).hash = hash
BY DEF Invalid, Null, Value, BinaryData, Array, Map

(* What is over a set is a leaf or has its parts in the set. *)
LEMMA OverHas ==
  ASSUME NEW S, NEW e
  PROVE  e \in Over(S) <=>
           \/ e \in Leaves
           \/ e = Array(e.list) /\ e.list \in Seq(S)
           \/ e = Map(e.hash) /\ e.hash \in Tables(Words, S)
BY DEF Over, Array, Map

LEMMA LeafHas ==
  ASSUME NEW e \in Leaves
  PROVE  \/ e = Invalid \/ e = Null
         \/ \E word \in Words : e = Value(word)
         \/ \E blob \in Blobs : e = BinaryData(blob)
BY DEF Leaves

LEMMA OverGrows ==
  ASSUME NEW S, NEW T, S \subseteq T
  PROVE  Over(S) \subseteq Over(T)
<1>1. Seq(S) \subseteq Seq(T)
  OBVIOUS
<1>2. Tables(Words, S) \subseteq Tables(Words, T)
  BY DEF Tables
<1> QED BY <1>1, <1>2 DEF Over

LEMMA LevelUp ==
  ASSUME NEW n \in Nat, NEW k \in Nat, k <= n
  PROVE  ExpressionsTo[k] \subseteq ExpressionsTo[n]
<1> DEFINE F == ExpressionsTo
           Not == {i \in Nat : ~(F[i] \subseteq F[i + 1])}
<1>1. Not = {}
  <2>1. SUFFICES ASSUME NEW i \in Not, \A j \in Not : i <= j PROVE FALSE
    <3>1. Not \in SUBSET Nat
      OBVIOUS
    <3> HIDE DEF Not
    <3> QED BY <3>1, LeastOf
  <2>2. F[0] = Leaves /\ \A j \in Nat : j # 0 => F[j] = Over(F[j - 1])
    BY LevelIs
  <2> HIDE DEF F
  <2>3. i + 1 \in Nat /\ i + 1 # 0 /\ (i + 1) - 1 = i
    OBVIOUS
  <2>4. F[i + 1] = Over(F[i])
    BY <2>2, <2>3
  <2>5. CASE i = 0
    BY <2>2, <2>4, <2>5 DEF Over
  <2>6. CASE i # 0
    <3>1. i - 1 \in Nat /\ i - 1 \notin Not /\ (i - 1) + 1 = i
      BY <2>1, <2>6
    <3>2. F[i - 1] \subseteq F[i]
      BY <3>1
    <3> QED BY <2>2, <2>4, <2>6, <3>2, OverGrows
  <2> QED BY <2>5, <2>6
<1>2. \A i \in Nat : F[i] \subseteq F[i + 1]
  BY <1>1
<1> DEFINE Above == {i \in Nat : k <= i /\ ~(F[k] \subseteq F[i])}
<1> HIDE DEF Not, F
<1>3. Above = {}
  <2>1. SUFFICES ASSUME NEW i \in Above, \A j \in Above : i <= j PROVE FALSE
    <3>1. Above \in SUBSET Nat
      OBVIOUS
    <3> HIDE DEF Above
    <3> QED BY <3>1, LeastOf
  <2>2. i # k
    OBVIOUS
  <2>3. i - 1 \in Nat /\ k <= i - 1 /\ i - 1 \notin Above /\ (i - 1) + 1 = i
    BY <2>1, <2>2
  <2>4. F[k] \subseteq F[i - 1] /\ F[i - 1] \subseteq F[i]
    BY <1>2, <2>3
  <2> QED BY <2>4
<1> QED BY <1>3 DEF F

(* What is at a level, by its kind. *)
LEMMA LevelHas ==
  ASSUME NEW n \in Nat, NEW e \in ExpressionsTo[n]
  PROVE  /\ e.type \in Types
         /\ e.type = "Value" => e.data \in Words
         /\ e.type = "Array" => n # 0 /\ e = Array(e.list) /\ e.list \in Seq(ExpressionsTo[n - 1])
         /\ e.type = "Map" => n # 0 /\ e = Map(e.hash) /\ e.hash \in Tables(Words, ExpressionsTo[n - 1])
         /\ e.type \notin {"Array", "Map"} => e \in Leaves
<1>1. CASE e \in Leaves
  BY <1>1, LeafHas, KindsOfExpressions DEF Types
<1>2. CASE e \notin Leaves
  <2>1. n # 0 /\ e \in Over(ExpressionsTo[n - 1])
    BY <1>2, LevelIs
  <2>2. \/ e = Array(e.list) /\ e.list \in Seq(ExpressionsTo[n - 1])
        \/ e = Map(e.hash) /\ e.hash \in Tables(Words, ExpressionsTo[n - 1])
    BY <1>2, <2>1, OverHas
  <2>3. e.type = "Array" \/ e.type = "Map"
    BY <2>2, KindsOfExpressions
  <2> QED BY <2>1, <2>2, <2>3, KindsOfExpressions DEF Types
<1> QED BY <1>1, <1>2

LEMMA LeavesEverywhere ==
  ASSUME NEW n \in Nat
  PROVE  Leaves \subseteq ExpressionsTo[n]
BY LevelIs DEF Over

LEMMA ContainersOver ==
  ASSUME NEW n \in Nat
  PROVE  /\ \A list \in Seq(ExpressionsTo[n]) : Array(list) \in ExpressionsTo[n + 1]
         /\ \A hash \in Tables(Words, ExpressionsTo[n]) : Map(hash) \in ExpressionsTo[n + 1]
<1>1. n + 1 \in Nat /\ n + 1 # 0 /\ (n + 1) - 1 = n
  OBVIOUS
<1>2. ExpressionsTo[n + 1] = Over(ExpressionsTo[n])
  BY <1>1, LevelIs
<1> QED BY <1>2 DEF Over, Array, Map

(* createCopy level by level: a function for each that copies what it has.  *)
Copies(c, n) == c = [e \in ExpressionsTo[n] |-> CopyWith(c, Null, e)]

LEMMA CopiesExist ==
  ASSUME NEW m \in Nat
  PROVE  \E c : Copies(c, m)
<1> DEFINE Without == {n \in Nat : ~ \E c : Copies(c, n)}
<1>1. SUFFICES ASSUME NEW n \in Without, \A k \in Without : n <= k PROVE FALSE
  <2>1. Without \in SUBSET Nat
    OBVIOUS
  <2>2. Without = {} => \E c : Copies(c, m)
    OBVIOUS
  <2> HIDE DEF Without
  <2> QED BY <2>1, <2>2, LeastOf
<1>2. CASE n = 0
  <2> DEFINE c == [e \in ExpressionsTo[0] |-> CopyWith(<<>>, Null, e)]
  <2>1. \A e \in ExpressionsTo[0] : e.type \notin {"Array", "Map"}
    BY LevelHas
  <2>2. \A e \in ExpressionsTo[0] : \A d : CopyWith(<<>>, Null, e) = CopyWith(d, Null, e)
    BY <2>1 DEF CopyWith
  <2>3. \A d : c = [e \in ExpressionsTo[0] |-> CopyWith(d, Null, e)]
    BY <2>2
  <2> HIDE DEF c
  <2>4. Copies(c, 0)
    BY <2>3 DEF Copies
  <2> QED BY <1>2, <2>4
<1>3. CASE n # 0
  <2>1. n - 1 \in Nat /\ n - 1 \notin Without
    BY <1>1, <1>3
  <2>2. PICK c : Copies(c, n - 1)
    BY <2>1
  <2> DEFINE d == [e \in ExpressionsTo[n] |-> CopyWith(c, Null, e)]
  <2>3. ASSUME NEW e \in ExpressionsTo[n - 1] PROVE c[e] = d[e]
    <3>1. e \in ExpressionsTo[n]
      BY <2>1, LevelUp
    <3> QED BY <2>2, <3>1 DEF Copies
  <2> HIDE DEF d
  <2>4. ASSUME NEW e \in ExpressionsTo[n] PROVE CopyWith(c, Null, e) = CopyWith(d, Null, e)
    <3>1. CASE e.type = "Array"
      <4>1. e.list \in Seq(ExpressionsTo[n - 1])
        BY <3>1, LevelHas
      <4>2. \A i \in DOMAIN e.list : c[e.list[i]] = d[e.list[i]]
        BY <2>3, <4>1
      <4> QED BY <3>1, <4>2 DEF CopyWith
    <3>2. CASE e.type = "Map"
      <4>1. e.hash \in Tables(Words, ExpressionsTo[n - 1])
        BY <3>2, LevelHas
      <4>2. \A k \in DOMAIN e.hash : e.hash[k] # Absent => c[e.hash[k]] = d[e.hash[k]]
        BY <2>3, <4>1 DEF Tables
      <4>3. [k \in DOMAIN e.hash |-> IF e.hash[k] = Absent THEN Absent ELSE c[e.hash[k]]]
             = [k \in DOMAIN e.hash |-> IF e.hash[k] = Absent THEN Absent ELSE d[e.hash[k]]]
        BY <4>2
      <4> QED BY <3>2, <4>3 DEF CopyWith
    <3>3. CASE e.type \notin {"Array", "Map"}
      BY <3>3 DEF CopyWith
    <3> QED BY <3>1, <3>2, <3>3
  <2>5. d = [e \in ExpressionsTo[n] |-> CopyWith(d, Null, e)]
    BY <2>4 DEF d
  <2> QED BY <2>5 DEF Copies
<1> QED BY <1>2, <1>3

LEMMA CopyIs ==
  ASSUME NEW e \in Expr
  PROVE  createCopy[e] = CopyWith(createCopy, Null, e)
<1>1. PICK c : Copies(c, MaxDepth)
  BY CopiesExist, MaxDepthAssumption
<1>2. c = [rhs \in Expr |-> CopyWith(c, Null, rhs)]
  BY <1>1 DEF Copies, Expr
<1>3. createCopy = [rhs \in Expr |-> CopyWith(createCopy, Null, rhs)]
  BY <1>2 DEF createCopy
<1> DEFINE copy == createCopy
<1>4. copy = [rhs \in Expr |-> CopyWith(copy, Null, rhs)]
  BY <1>3
<1> HIDE DEF copy
<1>5. copy[e] = CopyWith(copy, Null, e)
  BY <1>4
<1> QED BY <1>5 DEF copy

(* A copy is no deeper than what it is a copy of.                           *)
LEMMA CopyLevel ==
  ASSUME NEW n \in Nat, n <= MaxDepth, NEW self \in ExpressionsTo[n], NEW e \in ExpressionsTo[n]
  PROVE  /\ createCopy[e] \in ExpressionsTo[n]
         /\ copyInto(self, e) \in ExpressionsTo[n]
<1> DEFINE copy == createCopy
<1>1. ASSUME NEW i \in Nat, i <= MaxDepth, NEW f \in ExpressionsTo[i], NEW to \in ExpressionsTo[i],
             i # 0 => \A g \in ExpressionsTo[i - 1] : copy[g] \in ExpressionsTo[i - 1]
      PROVE  CopyWith(copy, to, f) \in ExpressionsTo[i]
  <2> HIDE DEF copy
  <2>1. CASE f.type = "Value"
    <3>1. f.data \in Words
      BY <1>1, <2>1, LevelHas
    <3>2. Value(f.data) \in Leaves
      BY <3>1 DEF Leaves
    <3> QED BY <2>1, <3>2, LeavesEverywhere DEF CopyWith
  <2>2. CASE f.type = "Array"
    <3>1. i - 1 \in Nat /\ (i - 1) + 1 = i /\ f.list \in Seq(ExpressionsTo[i - 1])
      BY <2>2, LevelHas
    <3> DEFINE list == [j \in DOMAIN f.list |-> copy[f.list[j]]]
    <3>2. list \in Seq(ExpressionsTo[i - 1])
      <4>1. Len(f.list) \in Nat /\ DOMAIN f.list = 1..Len(f.list) /\ i # 0
        BY <2>2, <3>1, LevelHas
      <4>2. \A j \in 1..Len(f.list) : copy[f.list[j]] \in ExpressionsTo[i - 1]
        BY <1>1, <3>1, <4>1
      <4>3. list \in [1..Len(f.list) -> ExpressionsTo[i - 1]]
        BY <4>1, <4>2
      <4> HIDE DEF list
      <4> QED BY <4>1, <4>3
    <3>3. Array(list) \in ExpressionsTo[i]
      BY <3>1, <3>2, ContainersOver
    <3> QED BY <2>2, <3>3 DEF CopyWith
  <2>3. CASE f.type = "Map"
    <3>1. i # 0 /\ i - 1 \in Nat /\ (i - 1) + 1 = i /\ f.hash \in Tables(Words, ExpressionsTo[i - 1])
      BY <2>3, LevelHas
    <3> DEFINE hash == [k \in DOMAIN f.hash |-> IF f.hash[k] = Absent THEN Absent ELSE copy[f.hash[k]]]
    <3>2. hash \in Tables(Words, ExpressionsTo[i - 1])
      BY <1>1, <3>1 DEF Tables
    <3>3. Map(hash) \in ExpressionsTo[i]
      BY <3>1, <3>2, ContainersOver
    <3> QED BY <2>3, <3>3 DEF CopyWith
  <2>4. CASE f.type \notin {"Value", "Array", "Map"}
    BY <2>4 DEF CopyWith
  <2> QED BY <2>1, <2>2, <2>3, <2>4
<1> DEFINE Deeper == {i \in Nat : i <= MaxDepth /\ \E f \in ExpressionsTo[i] : copy[f] \notin ExpressionsTo[i]}
<1>2. Deeper = {}
  <2>1. SUFFICES ASSUME NEW i \in Deeper, \A j \in Deeper : i <= j PROVE FALSE
    <3>1. Deeper \in SUBSET Nat
      OBVIOUS
    <3> HIDE DEF Deeper
    <3> QED BY <3>1, LeastOf
  <2>2. PICK f \in ExpressionsTo[i] : copy[f] \notin ExpressionsTo[i]
    OBVIOUS
  <2>3. f \in Expr
    BY <2>2, LevelUp, MaxDepthAssumption DEF Expr
  <2>4. copy[f] = CopyWith(copy, Null, f)
    BY <2>3, CopyIs
  <2>5. i # 0 => \A g \in ExpressionsTo[i - 1] : copy[g] \in ExpressionsTo[i - 1]
    <3> SUFFICES ASSUME i # 0 PROVE \A g \in ExpressionsTo[i - 1] : copy[g] \in ExpressionsTo[i - 1]
      OBVIOUS
    <3>1. i - 1 \in Nat /\ i - 1 <= MaxDepth /\ i - 1 \notin Deeper
      BY <2>1, MaxDepthAssumption
    <3> HIDE DEF copy
    <3> QED BY <3>1
  <2>6. Null \in ExpressionsTo[i]
    BY LeavesEverywhere DEF Leaves
  <2> HIDE DEF copy
  <2>7. CopyWith(copy, Null, f) \in ExpressionsTo[i]
    BY <1>1, <2>5, <2>6
  <2> QED BY <2>2, <2>4, <2>7
<1>3. \A i \in Nat : i <= MaxDepth => \A f \in ExpressionsTo[i] : copy[f] \in ExpressionsTo[i]
  <2> HIDE DEF copy
  <2> QED BY <1>2
<1>4. n # 0 => n - 1 \in Nat /\ n - 1 <= MaxDepth
  BY MaxDepthAssumption
<1>5. CopyWith(copy, self, e) \in ExpressionsTo[n]
  <2> HIDE DEF copy
  <2> QED BY <1>1, <1>3, <1>4
<1> QED BY <1>3, <1>5 DEF copyInto

(* What createCopy has a case for, or starts from, all the way down.        *)
Copyable(S) ==
  \A e \in S :
    /\ e.type \notin {"Invalid", "BinaryData"}
    /\ e.type = "Array" => e.list \in Seq(S)
    /\ e.type = "Map" => e.hash \in Tables(Words, S)

(* A copy is deep and whole for every expression, however deep, that holds  *)
(* neither binary data nor anything invalid; what copyInto fills is one     *)
(* then too, but for null, which leaves what was there (Expression.h:183,   *)
(* s_Expression_copyInto).                                                  *)
THEOREM CopiesAreWhole ==
  ASSUME NEW S \in SUBSET Expr, Copyable(S), NEW e \in S
  PROVE  /\ createCopy[e] = e
         /\ \A self : copyInto(self, e) = IF e.type = "Null" THEN self ELSE e
<1> DEFINE copy == createCopy
<1>1. ASSUME NEW i \in Nat, NEW f \in S, f \in ExpressionsTo[i], NEW self,
             i # 0 => \A g \in ExpressionsTo[i - 1] : g \in S => copy[g] = g
      PROVE  CopyWith(copy, self, f) = IF f.type = "Null" THEN self ELSE f
  <2> HIDE DEF copy
  <2>0. f.type \in Types \ {"Invalid", "BinaryData"}
    BY <1>1, LevelHas DEF Copyable
  <2>1. CASE f.type = "Null"
    BY <2>1 DEF CopyWith
  <2>2. CASE f.type = "Value"
    <3>1. f \in Leaves
      BY <1>1, <2>2, LevelHas
    <3>2. f = Value(f.data)
      BY <2>2, <3>1, LeafHas, KindsOfExpressions
    <3> QED BY <2>2, <3>2 DEF CopyWith
  <2>3. CASE f.type = "Array"
    <3>1. /\ i # 0 /\ f = Array(f.list) /\ f.list \in Seq(ExpressionsTo[i - 1])
          /\ f.list \in Seq(S)
      BY <1>1, <2>3, LevelHas DEF Copyable
    <3>2. \A j \in DOMAIN f.list : copy[f.list[j]] = f.list[j]
      BY <1>1, <3>1
    <3>3. [j \in DOMAIN f.list |-> copy[f.list[j]]] = f.list
      <4> DEFINE list == f.list
      <4>1. list = [j \in DOMAIN list |-> list[j]]
        BY <3>1
      <4> QED BY <3>2, <4>1
    <3> QED BY <2>3, <3>1, <3>3 DEF CopyWith
  <2>4. CASE f.type = "Map"
    <3>1. /\ i # 0 /\ f = Map(f.hash) /\ f.hash \in Tables(Words, ExpressionsTo[i - 1])
          /\ f.hash \in Tables(Words, S)
      BY <1>1, <2>4, LevelHas DEF Copyable
    <3>2. \A k \in DOMAIN f.hash : f.hash[k] # Absent => copy[f.hash[k]] = f.hash[k]
      BY <1>1, <3>1 DEF Tables
    <3>3. [k \in DOMAIN f.hash |-> IF f.hash[k] = Absent THEN Absent ELSE copy[f.hash[k]]] = f.hash
      BY <3>1, <3>2 DEF Tables
    <3> QED BY <2>4, <3>1, <3>3 DEF CopyWith
  <2> QED BY <2>0, <2>1, <2>2, <2>3, <2>4 DEF Types
<1> DEFINE Wrong == {i \in Nat : \E f \in ExpressionsTo[i] : f \in S /\ copy[f] # f}
<1>2. Wrong = {}
  <2>1. SUFFICES ASSUME NEW i \in Wrong, \A j \in Wrong : i <= j PROVE FALSE
    <3>1. Wrong \in SUBSET Nat
      OBVIOUS
    <3> HIDE DEF Wrong
    <3> QED BY <3>1, LeastOf
  <2>2. PICK f \in ExpressionsTo[i] : f \in S /\ copy[f] # f
    OBVIOUS
  <2>3. copy[f] = CopyWith(copy, Null, f)
    BY <2>2, CopyIs
  <2>4. i # 0 => \A g \in ExpressionsTo[i - 1] : g \in S => copy[g] = g
    <3> SUFFICES ASSUME i # 0 PROVE \A g \in ExpressionsTo[i - 1] : g \in S => copy[g] = g
      OBVIOUS
    <3>1. i - 1 \in Nat /\ i - 1 \notin Wrong
      BY <2>1
    <3> HIDE DEF copy
    <3> QED BY <3>1
  <2> HIDE DEF copy
  <2>5. CopyWith(copy, Null, f) = IF f.type = "Null" THEN Null ELSE f
    BY <1>1, <2>2, <2>4
  <2>6. f.type = "Null" => f = Null
    BY <2>2, LevelHas, LeafHas, KindsOfExpressions
  <2> QED BY <2>2, <2>3, <2>5, <2>6
<1>3. MaxDepth \in Nat /\ S \subseteq ExpressionsTo[MaxDepth]
  BY MaxDepthAssumption DEF Expr
<1>4. \A i \in Nat : \A f \in ExpressionsTo[i] : f \in S => copy[f] = f
  <2> HIDE DEF copy
  <2> QED BY <1>2
<1>5. MaxDepth # 0 => MaxDepth - 1 \in Nat
  BY <1>3
<1>6. \A self : CopyWith(copy, self, e) = IF e.type = "Null" THEN self ELSE e
  <2> HIDE DEF copy
  <2> QED BY <1>1, <1>3, <1>4, <1>5
<1>7. copy[e] = e
  <2> HIDE DEF copy
  <2> QED BY <1>3, <1>4
<1> QED BY <1>6, <1>7 DEF copyInto

-----------------------------------------------------------------------------
(* Everything but the expressions.                                          *)
ErrorTypes == [code : ErrorCodes, message : {"none", "heap", "literal"}, at : Positions]
TextAt(s) == s = <<>> \/ \E n \in Positions : s = SubSeq(input, n + 1, Len(input))
Keyed(a) ==
  /\ a = Activation(a.pc, a.self, a.key, a.prev)
  /\ a.key \in Words \cup Names \cup {NoKey} /\ a.prev \in Positions
Registers ==
  /\ position \in Positions /\ TextAt(str) /\ error \in ErrorTypes
  /\ Keyed(cur) /\ \A i \in DOMAIN callers : Keyed(callers[i])

LEMMA BlanksOfNothing == Blanks(<<>>) = 0
BY Z3 DEF Blanks

(* Where trimming leads, with an error or without.                          *)
LEMMA TrimPlaces ==
  ASSUME Follows, position \in Positions, error.code = "None" \/ str = <<>>
  PROVE  /\ AfterTrim \in Positions /\ position <= AfterTrim /\ TextAt(Trim(str))
         /\ Trim(str) # <<>> =>
              /\ AfterTrim + 1 \in Positions /\ position <= AfterTrim + 1
              /\ AfterTrim + 1 \in DOMAIN input
              /\ Head(Trim(str)) = input[AfterTrim + 1] /\ TextAt(Tail(Trim(str)))
<1>1. IsSequence(input) /\ Len(input) \in Nat /\ DOMAIN input = 1..Len(input)
  BY DEF Follows, IsSequence
<1>2. CASE str = <<>>
  <2>1. Trim(str) = <<>> /\ Blanks(str) = 0
    BY <1>2, TrimEmpty, BlanksOfNothing
  <2>2. AfterTrim = position
    BY <1>1, <2>1 DEF AfterTrim, Positions
  <2> QED BY <1>1, <2>1, <2>2 DEF TextAt, Positions
<1>3. CASE error.code = "None"
  <2>1. /\ AfterTrim \in position..Len(input) /\ AfterTrim \in 0..Len(input)
        /\ Trim(str) = Rest(AfterTrim)
    BY <1>1, <1>3, TrimIs DEF Follows, Followed
  <2> DEFINE now == AfterTrim
  <2>0. now = AfterTrim
    OBVIOUS
  <2>2. now \in 0..Len(input) /\ now \in Nat /\ position \in Nat /\ position <= now
    BY <1>1, <2>1 DEF Positions
  <2>3. TextAt(Rest(now))
    BY <2>2 DEF TextAt, Rest, Positions
  <2> HIDE DEF now
  <2>4. ASSUME Rest(now) # <<>>
        PROVE  /\ now + 1 \in 0..Len(input) /\ now + 1 \in 1..Len(input)
               /\ Head(Rest(now)) = input[now + 1] /\ Tail(Rest(now)) = Rest(now + 1)
    <3>1. now # Len(input) /\ Head(Rest(now)) = input[now + 1] /\ Tail(Rest(now)) = Rest(now + 1)
      BY <1>1, <2>2, <2>4, RestIs
    <3> DEFINE len == Len(input)
    <3>2. len \in Nat /\ now \in 0..len /\ now # len
      BY <1>1, <2>2, <3>1
    <3> HIDE DEF len
    <3>3. now + 1 \in 0..len /\ now + 1 \in 1..len
      BY <3>2
    <3> QED BY <3>1, <3>3 DEF len
  <2>5. Rest(now) # <<>> => TextAt(Rest(now + 1))
    BY <2>4 DEF TextAt, Rest, Positions
  <2>6. now <= now + 1 /\ position <= now + 1
    BY <2>2
  <2>7. Trim(str) = Rest(now)
    BY <2>0, <2>1
  <2> QED BY <1>1, <2>0, <2>2, <2>3, <2>4, <2>5, <2>6, <2>7 DEF Positions
<1> QED BY <1>2, <1>3

LEMMA NextLexeme ==
  ASSUME NEW d, IsText(input, d), Follows, position \in Positions, error.code = "None" \/ str = <<>>,
         NEW kind, NextIs(kind)
  PROVE  LET lexeme == Head(Trim(str)) IN
         /\ Trim(str) # <<>> /\ lexeme.kind = kind
         /\ AfterTrim + 1 \in Positions /\ position <= AfterTrim + 1 /\ TextAt(Tail(Trim(str)))
         /\ kind \in {"value", "openQuote"} => lexeme.word \in Words
         /\ kind \in {"ref", "insert"} => lexeme.name \in Names
         /\ kind = "binary" => lexeme.blob \in Blobs
<1>1. Trim(str) # <<>> /\ Head(Trim(str)).kind = kind
  BY DEF NextIs
<1>2. /\ AfterTrim + 1 \in Positions /\ position <= AfterTrim + 1 /\ TextAt(Tail(Trim(str)))
      /\ AfterTrim + 1 \in DOMAIN input /\ Head(Trim(str)) = input[AfterTrim + 1]
  BY <1>1, TrimPlaces
<1> DEFINE at == AfterTrim + 1
<1> HIDE DEF at
<1>3. at \in DOMAIN input /\ Head(Trim(str)) = input[at] /\ input[at].kind = kind
  BY <1>1, <1>2 DEF at
<1> QED BY <1>1, <1>2, <1>3 DEF IsText

LEMMA ReturnKeyed ==
  ASSUME IInv, Registers, cur.pc # "root", input' = input, NEW self, NEW rest, Return(self, rest)
  PROVE  Keyed(cur)' /\ \A i \in DOMAIN callers' : Keyed(callers[i])'
<1>1. callers # <<>> /\ IsSequence(callers)
  BY DEF IInv, StackInOrder
<1>2. /\ DOMAIN callers' \subseteq DOMAIN callers /\ Len(callers) \in DOMAIN callers
      /\ \A i \in DOMAIN callers' : callers'[i] = callers[i]
      /\ cur' = callers[Len(callers)]
  BY <1>1, PopSequence DEF Return
<1>3. Positions' = Positions
  BY DEF Positions
<1> QED BY <1>2, <1>3 DEF Keyed, Registers

LEMMA CallKeyed ==
  ASSUME IInv, Registers, input' = input, NEW caller, Keyed(caller), NEW self, Call(caller, self)
  PROVE  Keyed(cur)' /\ \A i \in DOMAIN callers' : Keyed(callers[i])'
<1>1. /\ DOMAIN callers' = DOMAIN callers \cup {Len(callers) + 1}
      /\ \A i \in DOMAIN callers : callers'[i] = callers[i]
      /\ callers'[Len(callers) + 1] = caller
  BY PushSequence DEF IInv, Call
<1>2. Positions' = Positions /\ 0 \in Positions
  <2>1. position \in Positions
    BY DEF Registers
  <2> QED BY <2>1 DEF Positions
<1>3. cur' = Activation("parse", self, NoKey, 0)
  BY DEF Call
<1>4. Keyed(cur)'
  BY <1>2, <1>3 DEF Keyed, Activation
<1> QED BY <1>1, <1>2, <1>4 DEF Keyed, Registers

LEMMA GoKeyed ==
  ASSUME Registers, input' = input, callers' = callers,
         NEW pc, NEW self, cur' = Activation(pc, self, NoKey, 0)
  PROVE  Keyed(cur)' /\ \A i \in DOMAIN callers' : Keyed(callers[i])'
<1>1. Positions' = Positions /\ 0 \in Positions
  <2>1. position \in Positions
    BY DEF Registers
  <2> QED BY <2>1 DEF Positions
<1> QED BY <1>1 DEF Keyed, Registers, Activation

Messages == {"none", "heap", "literal"}
Moved == position' \in Positions' /\ position <= position' /\ input' = input

LEMMA TextStays ==
  ASSUME input' = input, NEW s, TextAt(s), str' = s
  PROVE  TextAt(str)'
BY DEF TextAt, Positions

LEMMA FailRegisters ==
  ASSUME IInv, Follows, Registers, cur.pc # "root", error.code = "None" \/ str = <<>>,
         NEW code \in ErrorCodes, NEW message \in Messages, Fail(code, message)
  PROVE  Registers' /\ Moved
<1>1. AfterTrim \in Positions /\ position <= AfterTrim
  BY TrimPlaces DEF Registers
<1>2. /\ input' = input /\ position' = AfterTrim /\ Return(cur.self, <<>>) /\ str' = <<>>
      /\ error' = FirstError(code, message, AfterTrim)
  BY DEF Fail, Return
<1>3. Positions' = Positions /\ ErrorTypes' = ErrorTypes
  BY <1>2 DEF Positions, ErrorTypes
<1>4. error' \in ErrorTypes
  BY <1>1, <1>2 DEF FirstError, ErrorTypes, Messages, Registers
<1>5. Keyed(cur)' /\ \A i \in DOMAIN callers' : Keyed(callers[i])'
  BY <1>2, ReturnKeyed
<1>6. TextAt(str)'
  BY <1>2 DEF TextAt
<1> QED BY <1>1, <1>2, <1>3, <1>4, <1>5, <1>6 DEF Registers, Moved

LEMMA LeafRegisters ==
  ASSUME IInv, Follows, Registers, cur.pc # "root", error.code = "None" \/ str = <<>>,
         Trim(str) # <<>>, NEW self, Leaf(self)
  PROVE  Registers' /\ Moved
<1>1. AfterTrim + 1 \in Positions /\ position <= AfterTrim + 1 /\ TextAt(Tail(Trim(str)))
  BY TrimPlaces DEF Registers
<1>2. /\ input' = input /\ position' = AfterTrim + 1 /\ Return(self, Tail(Trim(str)))
      /\ error' = error /\ str' = Tail(Trim(str))
  BY DEF Leaf, Return
<1>3. Positions' = Positions /\ ErrorTypes' = ErrorTypes
  BY <1>2 DEF Positions, ErrorTypes
<1>4. Keyed(cur)' /\ \A i \in DOMAIN callers' : Keyed(callers[i])'
  BY <1>2, ReturnKeyed
<1>5. TextAt(str)'
  BY <1>1, <1>2, TextStays
<1> QED BY <1>1, <1>2, <1>3, <1>4, <1>5 DEF Registers, Moved

LEMMA ParseStepRegisters ==
  ASSUME NEW d, IsText(input, d), IInv, Follows, Registers,
         \/ ParseEmpty \/ ParseBlank \/ ParseArray \/ ParseMap
         \/ ParseBinary \/ ParseBinaryBad \/ ParseValue \/ ParseValueBad
         \/ ParseRef \/ ParseRefOpen \/ ParseInsert \/ ParseInsertOpen
  PROVE  Registers' /\ Moved
<1>1. cur.pc = "parse"
  BY DEF ParseEmpty, ParseBlank, ParseArray, ParseMap, ParseBinary, ParseBinaryBad,
         ParseValue, ParseValueBad, ParseRef, ParseRefOpen, ParseInsert, ParseInsertOpen,
         ParseContainer, Parsing
<1>2. error.code = "None" /\ cur.pc # "root"
  BY <1>1, ParsingIsClean
<1>3. position \in Positions /\ position \in Nat /\ error \in ErrorTypes
  BY DEF Registers, Positions
<1>4. AfterTrim \in Positions /\ position <= AfterTrim /\ TextAt(Trim(str))
  BY <1>2, <1>3, TrimPlaces
<1>5. \A kind : NextIs(kind) => Trim(str) # <<>> /\ AfterTrim + 1 \in Positions /\ position <= AfterTrim + 1 /\ TextAt(Tail(Trim(str)))
  BY <1>2, <1>3, NextLexeme
<1>6. input' = input => Positions' = Positions /\ ErrorTypes' = ErrorTypes
  BY DEF Positions, ErrorTypes
<1>7. ASSUME NEW code \in ErrorCodes, NEW message \in Messages, Fail(code, message)
      PROVE  Registers' /\ Moved
  BY <1>2, <1>7, FailRegisters
<1>8. ASSUME NEW self, NEW kind, NextIs(kind), Leaf(self) PROVE Registers' /\ Moved
  BY <1>2, <1>5, <1>8, LeafRegisters
<1>9. ASSUME NEW self, NEW rest, TextAt(rest), Return(self, rest), input' = input,
             error' \in ErrorTypes, position' \in Positions, position <= position'
      PROVE  Registers' /\ Moved
  <2>1. str' = rest /\ TextAt(str)'
    BY <1>9, TextStays DEF Return
  <2>2. Keyed(cur)' /\ \A i \in DOMAIN callers' : Keyed(callers[i])'
    BY <1>2, <1>9, ReturnKeyed
  <2> QED BY <1>6, <1>9, <2>1, <2>2 DEF Registers, Moved
<1>10. TextAt(<<>>)
  BY DEF TextAt
<1>11. \A code \in ErrorCodes, at \in Positions : \A message \in Messages :
         [code |-> code, message |-> message, at |-> at] \in ErrorTypes
  BY DEF ErrorTypes, Messages
<1>12. "heap" \in Messages /\ "literal" \in Messages
  BY DEF Messages
<1>13. CASE ParseEmpty
  BY <1>3, <1>9, <1>10, <1>11, <1>12, <1>13 DEF ParseEmpty, ErrorCodes
<1>14. CASE ParseBlank
  BY <1>3, <1>4, <1>9, <1>10, <1>14 DEF ParseBlank
<1>15. CASE ParseArray \/ ParseMap
  <2>1. PICK kind, container : ParseContainer(kind, container)
    BY <1>15 DEF ParseArray, ParseMap
  <2>2. /\ NextIs(kind) /\ input' = input /\ position' = AfterTrim + 1 /\ error' = error
        /\ str' = Tail(Trim(str)) /\ callers' = callers /\ cur' = Activation(kind, container, NoKey, 0)
    BY <2>1 DEF ParseContainer
  <2>3. TextAt(str)' /\ Keyed(cur)' /\ \A i \in DOMAIN callers' : Keyed(callers[i])'
    BY <1>5, <2>2, TextStays, GoKeyed
  <2> QED BY <1>3, <1>5, <1>6, <2>2, <2>3 DEF Registers, Moved
<1>16. CASE ParseBinary
  BY <1>8, <1>16 DEF ParseBinary
<1>17. CASE ParseBinaryBad
  BY <1>7, <1>12, <1>17 DEF ParseBinaryBad, ErrorCodes
<1>18. CASE ParseValue
  BY <1>8, <1>18 DEF ParseValue
<1>19. CASE ParseValueBad
  BY <1>7, <1>12, <1>19 DEF ParseValueBad, ErrorCodes
<1>20. CASE ParseRef
  <2> DEFINE name == Head(Trim(str)).name
             caller == Activation("ref", cur.self, name, 0)
  <2>1. CASE name \in InvalidNames
    BY <1>7, <1>12, <1>20, <2>1 DEF ParseRef, ErrorCodes
  <2>2. CASE name \notin InvalidNames
    <3>1. /\ NextIs("ref") /\ Call(caller, cur.self) /\ str' = Tail(Trim(str))
          /\ position' = AfterTrim + 1 /\ input' = input /\ error' = error
      BY <1>20, <2>2 DEF ParseRef
    <3>2. name \in Names
      BY <1>2, <1>3, <3>1, NextLexeme
    <3>3. Keyed(caller)
      BY <1>3, <3>2 DEF Keyed, Activation, Positions
    <3> HIDE DEF caller
    <3>4. TextAt(str)' /\ Keyed(cur)' /\ \A i \in DOMAIN callers' : Keyed(callers[i])'
      BY <1>5, <3>1, <3>3, TextStays, CallKeyed
    <3> QED BY <1>3, <1>5, <1>6, <3>1, <3>4 DEF Registers, Moved
  <2> QED BY <2>1, <2>2
<1>21. CASE ParseRefOpen
  BY <1>7, <1>12, <1>21 DEF ParseRefOpen, ErrorCodes
<1>22. CASE ParseInsert
  <2>1. NextIs("insert") /\ position' = AfterTrim + 1 /\ input' = input
    BY <1>22 DEF ParseInsert
  <2>2. PICK self, rest : /\ Return(self, rest) /\ rest \in {<<>>, Tail(Trim(str))}
                          /\ error' = error \/ error' = FirstError("ReferenceUnknownReference", "heap", AfterTrim + 1)
    BY <1>22 DEF ParseInsert
  <2>3. error' \in ErrorTypes
    BY <1>2, <1>3, <1>5, <1>11, <1>12, <2>1, <2>2 DEF FirstError, ErrorCodes
  <2> QED BY <1>5, <1>9, <1>10, <2>1, <2>2, <2>3
<1>23. CASE ParseInsertOpen
  BY <1>4, <1>9, <1>10, <1>11, <1>12, <1>23 DEF ParseInsertOpen, ErrorCodes
<1> QED BY <1>13, <1>14, <1>15, <1>16, <1>17, <1>18, <1>19, <1>20, <1>21, <1>22, <1>23

LEMMA ReturnRegisters ==
  ASSUME IInv, Registers, cur.pc # "root", NEW self, NEW rest, TextAt(rest), Return(self, rest),
         input' = input, error' \in ErrorTypes, position' \in Positions, position <= position'
  PROVE  Registers' /\ Moved
<1>1. Positions' = Positions /\ ErrorTypes' = ErrorTypes
  BY DEF Positions, ErrorTypes
<1>2. str' = rest /\ TextAt(str)'
  BY TextStays DEF Return
<1>3. Keyed(cur)' /\ \A i \in DOMAIN callers' : Keyed(callers[i])'
  BY ReturnKeyed
<1> QED BY <1>1, <1>2, <1>3 DEF Registers, Moved

LEMMA CallRegisters ==
  ASSUME IInv, Registers, NEW caller, Keyed(caller), NEW self, Call(caller, self),
         TextAt(str'), error' = error,
         input' = input, position' \in Positions, position <= position'
  PROVE  Registers' /\ Moved
<1>1. Positions' = Positions /\ ErrorTypes' = ErrorTypes
  BY DEF Positions, ErrorTypes
<1>2. TextAt(str)'
  BY DEF TextAt, Positions
<1>3. Keyed(cur)' /\ \A i \in DOMAIN callers' : Keyed(callers[i])'
  BY CallKeyed
<1> QED BY <1>1, <1>2, <1>3 DEF Registers, Moved

LEMMA GoRegisters ==
  ASSUME Registers, NEW pc, NEW self, cur' = Activation(pc, self, NoKey, 0),
         UNCHANGED <<input, str, position, callers, error>>
  PROVE  Registers' /\ Moved
<1>1. Positions' = Positions /\ ErrorTypes' = ErrorTypes /\ position <= position'
  BY DEF Positions, ErrorTypes, Registers
<1>2. TextAt(str)'
  BY DEF TextAt, Positions, Registers
<1>3. Keyed(cur)' /\ \A i \in DOMAIN callers' : Keyed(callers[i])'
  BY GoKeyed
<1> QED BY <1>1, <1>2, <1>3 DEF Registers, Moved

LEMMA LoopStepRegisters ==
  ASSUME IInv, Follows, Registers, ret.type = "Value" => ret.data \in Words,
         \/ ArrayNoParen \/ ArrayClose \/ ArrayElement \/ ArrayElementParsed
         \/ MapNoParen \/ MapClose \/ MapKey \/ MapKeyParsed \/ MapValueParsed
         \/ RefParsed
  PROVE  Registers' /\ Moved
<1>1. /\ cur.pc \in {"array", "element", "map", "mapKey", "mapValue", "ref"}
      /\ cur.pc # "root" /\ input' = input
  BY DEF ArrayNoParen, ArrayClose, ArrayElement, ArrayElementParsed, MapNoParen, MapClose,
         MapKey, MapKeyParsed, MapValueParsed, RefParsed, CloseContainer, Fail, Leaf
<1>2. error.code = "None" \/ str = <<>>
  BY <1>1 DEF IInv, Answered, OnlyUnwinds
<1>3. /\ position \in Positions /\ position <= position /\ error \in ErrorTypes /\ TextAt(str)
      /\ Keyed(cur) /\ cur.prev \in Positions
  BY DEF Registers, Positions, Keyed
<1>4. AfterTrim \in Positions /\ position <= AfterTrim /\ TextAt(Trim(str))
  BY <1>2, <1>3, TrimPlaces
<1>5. TextAt(<<>>) /\ "heap" \in Messages
  BY DEF TextAt, Messages
<1>6. \A code \in ErrorCodes, at \in Positions :
        /\ [code |-> code, message |-> "heap", at |-> at] \in ErrorTypes
        /\ FirstError(code, "heap", at) \in ErrorTypes
  BY <1>3 DEF ErrorTypes, FirstError
<1>7. CASE ArrayNoParen \/ MapNoParen
  BY <1>1, <1>2, <1>5, <1>7, FailRegisters DEF ArrayNoParen, MapNoParen, ErrorCodes
<1>8. CASE ArrayClose \/ MapClose
  BY <1>1, <1>2, <1>8, LeafRegisters DEF ArrayClose, MapClose, CloseContainer, NextIs
<1>9. CASE ArrayElement
  <2>1. Keyed(At("element"))
    BY <1>3 DEF Keyed, At, Activation
  <2>2. /\ Call(At("element"), Null) /\ str' = Trim(str) /\ position' = AfterTrim
        /\ error' = error
    BY <1>9 DEF ArrayElement
  <2> QED BY <1>1, <1>4, <2>1, <2>2, CallRegisters
<1>10. CASE ArrayElementParsed
  <2>1. CASE error.code # "None"
    BY <1>1, <1>3, <1>5, <1>10, <2>1, ReturnRegisters DEF ArrayElementParsed
  <2>2. CASE error.code = "None"
    BY <1>10, <2>2, GoRegisters DEF ArrayElementParsed
  <2> QED BY <2>1, <2>2
<1>11. CASE MapKey
  <2> DEFINE caller == Activation("mapKey", cur.self, NoKey, AfterTrim)
  <2>1. Keyed(caller)
    BY <1>4 DEF Keyed, Activation
  <2>2. /\ Call(caller, Null) /\ str' = Trim(str) /\ position' = AfterTrim
        /\ error' = error
    BY <1>11 DEF MapKey
  <2> HIDE DEF caller
  <2> QED BY <1>1, <1>4, <2>1, <2>2, CallRegisters
<1>12. CASE MapKeyParsed
  <2>1. CASE ret.type # "Value"
    <3>1. Return(cur.self, <<>>) /\ error' \in ErrorTypes /\ position' = position
      BY <1>3, <1>6, <1>12, <2>1 DEF MapKeyParsed, ErrorCodes
    <3> QED BY <1>1, <1>3, <1>5, <3>1, ReturnRegisters
  <2>2. CASE ret.type = "Value"
    <3> DEFINE caller == Activation("mapValue", cur.self, ret.data, cur.prev)
    <3>1. Keyed(caller)
      BY <1>3, <2>2 DEF Keyed, Activation
    <3>2. /\ Call(caller, Invalid) /\ str' = str /\ position' = position
          /\ error' = error
      BY <1>12, <2>2 DEF MapKeyParsed
    <3> HIDE DEF caller
    <3> QED BY <1>1, <1>3, <3>1, <3>2, CallRegisters
  <2> QED BY <2>1, <2>2
<1>13. CASE MapValueParsed
  <2>1. CASE ret.type = "Invalid"
    <3>1. Return(cur.self, <<>>) /\ position' = position
      BY <1>13, <2>1 DEF MapValueParsed
    <3>2. error' \in {error, [code |-> "MapNoValue", message |-> "heap", at |-> cur.prev]}
      BY <1>13, <2>1 DEF MapValueParsed
    <3>3. error' \in ErrorTypes
      BY <1>3, <1>6, <3>2 DEF ErrorCodes
    <3> QED BY <1>1, <1>3, <1>5, <3>1, <3>3, ReturnRegisters
  <2>2. CASE ret.type # "Invalid"
    <3>1. /\ \E self : cur' = Activation("map", self, NoKey, 0)
          /\ UNCHANGED <<input, str, position, callers, error>>
      BY <1>13, <2>2 DEF MapValueParsed
    <3> QED BY <3>1, GoRegisters
  <2> QED BY <2>1, <2>2
<1>14. CASE RefParsed
  <2>1. /\ \E rest \in {<<>>, str} : Return(ret, rest)
        /\ position' = position /\ error' = error
    BY <1>14 DEF RefParsed
  <2> QED BY <1>1, <1>3, <1>5, <2>1, ReturnRegisters
<1> QED BY <1>7, <1>8, <1>9, <1>10, <1>11, <1>12, <1>13, <1>14

LEMMA FinishRegisters ==
  ASSUME IInv, Follows, Registers, Finish
  PROVE  Registers' /\ Moved
<1>1. error.code = "None" \/ str = <<>>
  BY DEF IInv, OnlyUnwinds, Finish
<1>2. position \in Positions /\ error \in ErrorTypes
  BY DEF Registers
<1>3. AfterTrim \in Positions /\ position <= AfterTrim /\ TextAt(Trim(str))
  BY <1>1, <1>2, TrimPlaces
<1>4. /\ input' = input /\ str' = Trim(str) /\ position' = AfterTrim /\ error' = FinalError
      /\ cur' = cur /\ callers' = callers
  BY DEF Finish
<1>5. Positions' = Positions /\ ErrorTypes' = ErrorTypes /\ 0 \in Positions
  BY <1>2, <1>4 DEF Positions, ErrorTypes
<1>6. FinalError \in ErrorTypes
  BY <1>2, <1>3, <1>5 DEF FinalError, NoError, ErrorTypes, ErrorCodes
<1>7. TextAt(str)'
  BY <1>3, <1>4, TextStays
<1>8. Keyed(cur)' /\ \A i \in DOMAIN callers' : Keyed(callers[i])'
  BY <1>4, <1>5 DEF Registers, Keyed
<1> QED BY <1>3, <1>4, <1>5, <1>6, <1>7, <1>8 DEF Registers, Moved

LEMMA NextRegisters ==
  ASSUME NEW d, IsText(input, d), IInv, Follows, Registers,
         ret.type = "Value" => ret.data \in Words, [Next]_vars
  PROVE  Registers' /\ Moved
<1>1. CASE Step
  BY <1>1, ParseStepRegisters, LoopStepRegisters, FinishRegisters DEF Step
<1>2. CASE UNCHANGED vars
  <2>1. Positions' = Positions /\ ErrorTypes' = ErrorTypes /\ position <= position'
    BY <1>2 DEF vars, Positions, ErrorTypes, Registers
  <2> QED BY <1>2, <2>1 DEF vars, Registers, Moved, TextAt, Keyed
<1> QED BY <1>1, <1>2 DEF Next, Done

-----------------------------------------------------------------------------
(* How deep an expression may be: the containers passed, but for those that *)
(* are still being filled, above the deepest expression of the tables.      *)
Opening == {"array", "map"}
Level(d) == d + Passed(Opening) - Filling
Within(n) ==
  /\ ret \in ExpressionsTo[n]
  /\ internalRefs \in Tables(Names, ExpressionsTo[n])
  /\ externalRefs \in Tables(Names, ExpressionsTo[n])
  /\ cur.self \in ExpressionsTo[n + 1]
  /\ \A i \in DOMAIN callers : callers[i].self \in ExpressionsTo[n + 1]
Shallow(d) == Level(d) \in Nat /\ d <= Level(d) /\ Within(Level(d))

LEMMA PassedWithin ==
  ASSUME IsSequence(input), NEW p \in Positions, NEW q \in Positions, p <= q
  PROVE  /\ Cardinality(First(p, Opening)) \in Nat
         /\ Cardinality(First(p, Opening)) <= Cardinality(First(q, Opening))
         /\ Cardinality(First(q, Opening)) <= Opened(input)
<1>1. Len(input) \in Nat /\ DOMAIN input = 1..Len(input)
  BY DEF IsSequence
<1> DEFINE all == {i \in DOMAIN input : input[i].kind \in {"array", "map"}}
           from(n) == First(n, Opening)
<1>2. from(p) \in SUBSET from(q) /\ from(q) \in SUBSET all
  BY <1>1 DEF First, Opening, Positions
<1>3. IsFiniteSet(all)
  <2>1. IsFiniteSet(1..Len(input)) /\ all \in SUBSET (1..Len(input))
    BY <1>1, FS_Interval
  <2> HIDE DEF all
  <2> QED BY <2>1, FS_Subset
<1>4. Opened(input) = Cardinality(all)
  BY DEF Opened
<1> HIDE DEF all, from
<1>5. IsFiniteSet(from(q)) /\ Cardinality(from(q)) <= Cardinality(all)
  BY <1>2, <1>3, FS_Subset
<1>6. IsFiniteSet(from(p)) /\ Cardinality(from(p)) <= Cardinality(from(q))
  BY <1>2, <1>5, FS_Subset
<1>7. Cardinality(from(p)) \in Nat
  BY <1>6, FS_CardinalityType
<1> QED BY <1>4, <1>5, <1>6, <1>7 DEF from

LEMMA FillingIsNat == ASSUME IsSequence(callers) PROVE Filling \in Nat
BY FillingIs, WaitingFinite

LEMMA LevelBound ==
  ASSUME NEW d \in Nat, IsText(input, d), position \in Positions, IsSequence(callers)
  PROVE  Level(d) \in Int /\ Level(d) + Filling <= MaxDepth /\ Level(d) <= MaxDepth
<1> DEFINE passed == Passed(Opening)
           filling == Filling
           opened == Opened(input)
<1>1. IsSequence(input) /\ d + opened <= MaxDepth /\ MaxDepth \in Nat
  BY MaxDepthAssumption DEF IsText
<1>2. filling \in Nat
  BY FillingIsNat
<1>3. passed = Cardinality(First(position, Opening))
  BY DEF Passed, First
<1>4. position <= position
  BY DEF Positions
<1>5. passed \in Nat /\ passed <= opened
  BY <1>1, <1>3, <1>4, PassedWithin
<1>6. opened \in Nat
  <2>1. Len(input) \in Nat /\ DOMAIN input = 1..Len(input)
    BY <1>1 DEF IsSequence
  <2> DEFINE all == {i \in DOMAIN input : input[i].kind \in {"array", "map"}}
  <2>2. IsFiniteSet(1..Len(input)) /\ all \in SUBSET (1..Len(input))
    BY <2>1, FS_Interval
  <2>3. opened = Cardinality(all)
    BY DEF Opened
  <2> HIDE DEF all, opened
  <2> QED BY <2>2, <2>3, FS_Subset, FS_CardinalityType
<1>7. Level(d) = d + passed - filling
  BY DEF Level
<1> HIDE DEF passed, filling, opened
<1>8. d + passed - filling \in Int /\ d + passed - filling + filling <= MaxDepth
      /\ d + passed - filling <= MaxDepth
  BY <1>1, <1>2, <1>5, <1>6
<1> QED BY <1>7, <1>8 DEF filling

(* The level never falls, and rises when what was filled is done.           *)
LEMMA LevelMoves ==
  ASSUME NEW d \in Nat, IsSequence(input), position \in Positions, Moved, Level(d) \in Nat,
         IsSequence(callers), IsSequence(callers')
  PROVE  /\ Filling' = Filling => Level(d)' \in Nat /\ Level(d) <= Level(d)'
         /\ Filling' = Filling - 1 => Level(d)' \in Nat /\ Level(d) + 1 <= Level(d)'
         /\ Filling' = Filling + 1 /\ Passed(Opening)' = Passed(Opening) + 1 =>
              Level(d)' = Level(d)
<1> DEFINE passed == Passed(Opening)
           filling == Filling
           passed2 == Passed(Opening)'
           filling2 == Filling'
<1>1. filling \in Nat /\ filling2 \in Nat
  <2>1. Filling' = Cardinality(Waiting') + (IF cur'.pc \in {"root", "parse", "ref"} THEN 0 ELSE 1)
    BY DEF Filling, Waiting, Loops
  <2>2. Cardinality(Waiting') \in Nat
    <3>1. Len(callers') \in Nat /\ DOMAIN callers' = 1..Len(callers')
      BY DEF IsSequence
    <3>2. IsFiniteSet(1..Len(callers')) /\ Waiting' \in SUBSET (1..Len(callers'))
      BY <3>1, FS_Interval DEF Waiting
    <3> QED BY <3>2, FS_Subset, FS_CardinalityType
  <2> QED BY <2>1, <2>2, FillingIsNat
<1>2. passed \in Nat /\ passed2 \in Nat /\ passed <= passed2
  <2>1. position' \in Positions /\ position <= position' /\ position' <= position'
    BY DEF Moved, Positions
  <2>2. passed = Cardinality(First(position, Opening)) /\ passed2 = Cardinality(First(position', Opening))
    BY DEF Passed, First, Moved
  <2> QED BY <2>1, <2>2, PassedWithin
<1>3. Level(d) = d + passed - filling /\ Level(d)' = d + passed2 - filling2
  BY DEF Level
<1>4. d + passed - filling \in Nat
  BY <1>3
<1> HIDE DEF passed, filling, passed2, filling2
<1>5. /\ filling2 = filling => d + passed2 - filling2 \in Nat /\ d + passed - filling <= d + passed2 - filling2
      /\ filling2 = filling - 1 => d + passed2 - filling2 \in Nat /\ d + passed - filling + 1 <= d + passed2 - filling2
      /\ filling2 = filling + 1 /\ passed2 = passed + 1 => d + passed2 - filling2 = d + passed - filling
  BY <1>1, <1>2, <1>4
<1> QED BY <1>3, <1>5 DEF passed, filling, passed2, filling2

LEMMA TablesUp ==
  ASSUME NEW n \in Nat, NEW k \in Nat, k <= n, NEW keys
  PROVE  Tables(keys, ExpressionsTo[k]) \subseteq Tables(keys, ExpressionsTo[n])
BY LevelUp DEF Tables

LEMMA ReturnShallow ==
  ASSUME NEW d \in Nat, IsSequence(input), position \in Positions, Moved, IInv, Shallow(d),
         cur.pc # "root", NEW self, NEW rest, Return(self, rest),
         IF cur.pc \in {"parse", "ref"} THEN self \in ExpressionsTo[Level(d)]
                                        ELSE self \in ExpressionsTo[Level(d) + 1],
         internalRefs' \in Tables(Names, ExpressionsTo[Level(d)]),
         externalRefs' \in Tables(Names, ExpressionsTo[Level(d)])
  PROVE  Shallow(d)'
<1> DEFINE low == Level(d)
           high == Level(d)'
<1>1. low \in Nat /\ d <= low /\ Within(low)
  BY DEF Shallow
<1>2. /\ IsSequence(callers) /\ IsSequence(callers')
      /\ DOMAIN callers' \subseteq DOMAIN callers /\ Len(callers) \in DOMAIN callers
      /\ \A i \in DOMAIN callers' : callers'[i] = callers[i]
      /\ cur' = callers[Len(callers)] /\ ret' = self
  <2>1. IsSequence(callers) /\ callers # <<>>
    BY DEF IInv, StackInOrder
  <2> QED BY <2>1, PopSequence DEF Return
<1>3. Filling' = IF cur.pc \in {"parse", "ref"} THEN Filling ELSE Filling - 1
  <2>1. /\ Cardinality(Waiting) \in Nat /\ Filling' = Cardinality(Waiting)
        /\ Filling = Cardinality(Waiting) + (IF cur.pc \in {"parse", "ref"} THEN 0 ELSE 1)
    BY FillingAfter
  <2> QED BY <2>1
<1>4. /\ high \in Nat /\ low <= high
      /\ cur.pc \notin {"parse", "ref"} => low + 1 <= high
  <2>1. CASE cur.pc \in {"parse", "ref"}
    BY <1>1, <1>2, <1>3, <2>1, LevelMoves
  <2>2. CASE cur.pc \notin {"parse", "ref"}
    <3>1. high \in Nat /\ low + 1 <= high
      BY <1>1, <1>2, <1>3, <2>2, LevelMoves
    <3> HIDE DEF low, high
    <3> QED BY <1>1, <3>1
  <2> QED BY <2>1, <2>2
<1>5. /\ self \in ExpressionsTo[IF cur.pc \in {"parse", "ref"} THEN low ELSE low + 1]
      /\ internalRefs' \in Tables(Names, ExpressionsTo[low])
      /\ externalRefs' \in Tables(Names, ExpressionsTo[low])
  OBVIOUS
<1>6. high = Level(d)'
  OBVIOUS
<1> HIDE DEF low, high
<1>7. low + 1 \in Nat /\ high + 1 \in Nat /\ low + 1 <= high + 1 /\ d <= high
  BY <1>1, <1>4
<1>8. ret' \in ExpressionsTo[high]
  BY <1>1, <1>2, <1>4, <1>5, <1>7, LevelUp
<1>9. /\ internalRefs' \in Tables(Names, ExpressionsTo[high])
      /\ externalRefs' \in Tables(Names, ExpressionsTo[high])
  BY <1>1, <1>4, <1>5, TablesUp
<1>10. ExpressionsTo[low + 1] \subseteq ExpressionsTo[high + 1]
  BY <1>7, LevelUp
<1>11. /\ cur'.self \in ExpressionsTo[high + 1]
       /\ \A i \in DOMAIN callers' : callers'[i].self \in ExpressionsTo[high + 1]
  BY <1>1, <1>2, <1>10 DEF Within
<1> QED BY <1>4, <1>6, <1>7, <1>8, <1>9, <1>11 DEF Shallow, Within

LEMMA CallShallow ==
  ASSUME NEW d \in Nat, IsSequence(input), position \in Positions, Moved, IInv, Shallow(d),
         cur.pc # "root", NEW caller, NEW self \in {Null, Invalid}, Call(caller, self),
         caller.pc \in Loops <=> cur.pc \notin {"parse", "ref"},
         caller.self \in ExpressionsTo[Level(d) + 1],
         UNCHANGED <<internalRefs, externalRefs>>
  PROVE  Shallow(d)'
<1> DEFINE low == Level(d)
           high == Level(d)'
<1>1. low \in Nat /\ d <= low /\ Within(low)
  BY DEF Shallow
<1>2. /\ IsSequence(callers) /\ IsSequence(callers')
      /\ DOMAIN callers' = DOMAIN callers \cup {Len(callers) + 1}
      /\ \A i \in DOMAIN callers : callers'[i] = callers[i]
      /\ callers'[Len(callers) + 1] = caller
      /\ cur'.self = self /\ ret' = ret
  <2>1. IsSequence(callers)
    BY DEF IInv
  <2> QED BY <2>1, PushSequence DEF Call, Activation
<1>3. Filling' = Filling
  <2>1. /\ Cardinality(Waiting) \in Nat
        /\ Filling' = Cardinality(Waiting) + (IF caller.pc \in Loops THEN 1 ELSE 0)
        /\ Filling = Cardinality(Waiting) + (IF cur.pc \in {"parse", "ref"} THEN 0 ELSE 1)
    BY FillingAfter
  <2> QED BY <2>1
<1>4. high \in Nat /\ low <= high
  BY <1>1, <1>2, <1>3, LevelMoves
<1>5. caller.self \in ExpressionsTo[low + 1]
  OBVIOUS
<1>6. high = Level(d)'
  OBVIOUS
<1> HIDE DEF low, high
<1>7. low + 1 \in Nat /\ high + 1 \in Nat /\ low + 1 <= high + 1 /\ d <= high
  BY <1>1, <1>4
<1>8. ret' \in ExpressionsTo[high]
  BY <1>1, <1>2, <1>4, LevelUp DEF Within
<1>9. /\ internalRefs' \in Tables(Names, ExpressionsTo[high])
      /\ externalRefs' \in Tables(Names, ExpressionsTo[high])
  BY <1>1, <1>4, TablesUp DEF Within
<1>10. ExpressionsTo[low + 1] \subseteq ExpressionsTo[high + 1]
  BY <1>7, LevelUp
<1>11. cur'.self \in ExpressionsTo[high + 1]
  BY <1>2, <1>7, LeavesEverywhere DEF Leaves
<1>12. \A i \in DOMAIN callers' : callers'[i].self \in ExpressionsTo[high + 1]
  BY <1>1, <1>2, <1>5, <1>10 DEF Within
<1> QED BY <1>4, <1>6, <1>7, <1>8, <1>9, <1>11, <1>12 DEF Shallow, Within

LEMMA LoopShallow ==
  ASSUME NEW d \in Nat, Shallow(d), cur.pc \in Loops, cur'.pc \in {"array", "map"},
         cur'.self \in ExpressionsTo[Level(d) + 1],
         UNCHANGED <<input, position, callers, ret, internalRefs, externalRefs>>
  PROVE  Shallow(d)'
<1>1. Filling' = Filling
  BY DEF Filling, Loops
<1>2. Level(d)' = Level(d)
  BY <1>1 DEF Level, Passed
<1> QED BY <1>2 DEF Shallow, Within

LEMMA OpenShallow ==
  ASSUME NEW d \in Nat, IsSequence(input), position \in Positions, Moved, IInv, Shallow(d),
         cur.pc = "parse", cur'.pc \in {"array", "map"},
         cur'.self \in ExpressionsTo[Level(d) + 1], Passed(Opening)' = Passed(Opening) + 1,
         UNCHANGED <<callers, ret, internalRefs, externalRefs>>
  PROVE  Shallow(d)'
<1>1. Filling' = Filling + 1
  BY FillingAfter
<1>2. Level(d)' = Level(d)
  BY <1>1, LevelMoves DEF IInv, Shallow
<1> QED BY <1>2 DEF Shallow, Within

(* What the caller's table and its unknown-key callback hand over.          *)
Given(d) == Created \in Tables(Names, ExpressionsTo[d])

LEMMA OpensOne ==
  ASSUME IsSequence(input), Followed, NEW kind \in Opening, NextIs(kind),
         input' = input, position' = AfterTrim + 1
  PROVE  Passed(Opening)' = Passed(Opening) + 1
<1>1. /\ AfterTrim \in position..Len(input) /\ AfterTrim \in 0..Len(input)
      /\ Trim(str) = Rest(AfterTrim) /\ position \in 0..Len(input)
      /\ \A i \in (position + 1)..AfterTrim : input[i].kind = "blank"
  BY TrimIs DEF Followed
<1> DEFINE now == AfterTrim
<1>2. now = AfterTrim
  OBVIOUS
<1> HIDE DEF now
<1>3. input[now + 1].kind = kind
  <2>1. Rest(now) # <<>> /\ Head(Rest(now)).kind = kind
    BY <1>1, <1>2 DEF NextIs
  <2> QED BY <1>1, <1>2, <2>1, RestIs
<1>4. Cardinality(First(now + 1, Opening)) = Cardinality(First(position, Opening)) + 1
  <2>1. "blank" \notin Opening
    BY DEF Opening
  <2>2. Cardinality(First(now + 1, Opening))
          = Cardinality(First(position, Opening)) + (IF input[now + 1].kind \in Opening THEN 1 ELSE 0)
    BY <1>1, <1>2, <2>1, PassedGrows
  <2> QED BY <1>3, <2>2
<1>5. Passed(Opening)' = Cardinality(First(now + 1, Opening))
  BY <1>2 DEF Passed, First
<1> QED BY <1>4, <1>5 DEF Passed, First

LEMMA ParseStepShallow ==
  ASSUME NEW d \in Nat, IsText(input, d), Given(d), IInv, Follows, Registers, Moved, Shallow(d),
         \/ ParseEmpty \/ ParseBlank \/ ParseArray \/ ParseMap
         \/ ParseBinary \/ ParseBinaryBad \/ ParseValue \/ ParseValueBad
         \/ ParseRef \/ ParseRefOpen \/ ParseInsert \/ ParseInsertOpen
  PROVE  Shallow(d)'
<1>1. cur.pc = "parse"
  BY DEF ParseEmpty, ParseBlank, ParseArray, ParseMap, ParseBinary, ParseBinaryBad,
         ParseValue, ParseValueBad, ParseRef, ParseRefOpen, ParseInsert, ParseInsertOpen,
         ParseContainer, Parsing
<1>2. /\ error.code = "None" /\ cur.pc # "root" /\ cur.self \in {Null, Invalid}
      /\ position \in Positions /\ IsSequence(input) /\ IsSequence(callers) /\ Followed
  BY <1>1, ParsingIsClean DEF IInv, StackInOrder, FillsWhatItShould, Registers, Follows
<1> DEFINE low == Level(d)
<1>3. /\ low \in Nat /\ d <= low /\ low <= MaxDepth /\ low + 1 \in Nat
      /\ internalRefs \in Tables(Names, ExpressionsTo[low])
      /\ externalRefs \in Tables(Names, ExpressionsTo[low])
  BY <1>2, LevelBound DEF Shallow, Within
<1>4. Leaves \subseteq ExpressionsTo[low] /\ Leaves \subseteq ExpressionsTo[low + 1]
  <2> HIDE DEF low
  <2> QED BY <1>3, LeavesEverywhere
<1>5. cur.self \in Leaves
  BY <1>2 DEF Leaves
<1>6. ASSUME NEW self \in ExpressionsTo[low], NEW rest, Return(self, rest), internalRefs' = internalRefs,
             externalRefs' \in Tables(Names, ExpressionsTo[low])
      PROVE  Shallow(d)'
  BY <1>1, <1>2, <1>3, <1>6, ReturnShallow
<1>7. ASSUME NEW self \in Leaves, NEW rest, Return(self, rest), UNCHANGED <<internalRefs, externalRefs>>
      PROVE  Shallow(d)'
  BY <1>3, <1>4, <1>6, <1>7
<1>8. CASE ParseEmpty \/ ParseBlank \/ ParseInsertOpen
  BY <1>5, <1>7, <1>8 DEF ParseEmpty, ParseBlank, ParseInsertOpen
<1>9. ASSUME NEW code, NEW message, Fail(code, message) PROVE Shallow(d)'
  BY <1>5, <1>7, <1>9 DEF Fail
<1>10. ASSUME NEW self \in Leaves, Leaf(self) PROVE Shallow(d)'
  BY <1>7, <1>10 DEF Leaf
<1>11. CASE ParseBinaryBad \/ ParseValueBad \/ ParseRefOpen
  BY <1>9, <1>11 DEF ParseBinaryBad, ParseValueBad, ParseRefOpen
<1>12. CASE ParseArray \/ ParseMap
  <2>1. PICK kind \in Opening, container \in {Array(<<>>), Map(EmptyTable(Words))} :
          ParseContainer(kind, container)
    BY <1>12 DEF ParseArray, ParseMap, Opening
  <2>2. container \in ExpressionsTo[low + 1]
    <3>1. <<>> \in Seq(ExpressionsTo[low]) /\ EmptyTable(Words) \in Tables(Words, ExpressionsTo[low])
      BY DEF EmptyTable, Tables
    <3> HIDE DEF low
    <3> QED BY <1>3, <3>1, ContainersOver
  <2>3. /\ NextIs(kind) /\ input' = input /\ position' = AfterTrim + 1
        /\ cur'.pc \in {"array", "map"} /\ cur'.self = container
        /\ UNCHANGED <<callers, ret, internalRefs, externalRefs>>
    BY <2>1 DEF ParseContainer, Activation, Opening
  <2>4. Passed(Opening)' = Passed(Opening) + 1
    BY <1>2, <2>3, OpensOne
  <2> QED BY <1>1, <1>2, <2>2, <2>3, <2>4, OpenShallow
<1>13. CASE ParseBinary
  <2>1. NextIs("binary") /\ Leaf(BinaryData(Head(Trim(str)).blob))
    BY <1>13 DEF ParseBinary
  <2>2. BinaryData(Head(Trim(str)).blob) \in Leaves
    BY <1>2, <2>1, NextLexeme DEF Leaves
  <2> QED BY <1>10, <2>1, <2>2
<1>14. CASE ParseValue
  <2>1. CASE (NextIs("value") \/ NextIs("openQuote")) /\ Leaf(Value(Head(Trim(str)).word))
    <3>1. Value(Head(Trim(str)).word) \in Leaves
      BY <1>2, <2>1, NextLexeme DEF Leaves
    <3> QED BY <1>10, <2>1, <3>1
  <2>2. CASE Leaf(Null)
    BY <1>10, <2>2 DEF Leaves
  <2> QED BY <1>14, <2>1, <2>2 DEF ParseValue
<1>15. CASE ParseRef
  <2> DEFINE name == Head(Trim(str)).name
             caller == Activation("ref", cur.self, name, 0)
  <2>1. CASE name \in InvalidNames
    BY <1>9, <1>15, <2>1 DEF ParseRef
  <2>2. CASE name \notin InvalidNames
    <3>1. Call(caller, cur.self) /\ UNCHANGED <<internalRefs, externalRefs>>
      BY <1>15, <2>2 DEF ParseRef
    <3>2. caller.pc = "ref" /\ caller.self = cur.self
      BY DEF Activation
    <3>3. caller.self \in ExpressionsTo[low + 1]
      BY <1>4, <1>5, <3>2
    <3> HIDE DEF caller
    <3>4. caller.pc \in Loops <=> cur.pc \notin {"parse", "ref"}
      BY <1>1, <3>2 DEF Loops
    <3> QED BY <1>2, <3>1, <3>3, <3>4, CallShallow
  <2> QED BY <2>1, <2>2
<1>16. CASE ParseInsert
  <2> DEFINE name == Head(Trim(str)).name
             rest == Tail(Trim(str))
             found == Lookup(externalRefs, name)
  <2>1. NextIs("insert") /\ internalRefs' = internalRefs
    BY <1>16 DEF ParseInsert
  <2>2. name \in Names
    BY <1>2, <2>1, NextLexeme
  <2>3. \A e \in ExpressionsTo[low] : copyInto(cur.self, e) \in ExpressionsTo[low]
    <3>1. cur.self \in ExpressionsTo[low]
      BY <1>4, <1>5
    <3> HIDE DEF low
    <3> QED BY <1>3, <3>1, CopyLevel
  <2>4. CASE internalRefs[name] # Absent
    <3>1. internalRefs[name] \in ExpressionsTo[low]
      BY <1>3, <2>2, <2>4 DEF Tables
    <3>2. Return(copyInto(cur.self, internalRefs[name]), rest) /\ externalRefs' = externalRefs
      BY <1>16, <2>4 DEF ParseInsert
    <3> QED BY <1>3, <1>6, <2>1, <2>3, <3>1, <3>2
  <2>5. CASE internalRefs[name] = Absent
    <3>1. externalRefs' = AfterLookup(externalRefs, name)
      BY <1>16, <2>5 DEF ParseInsert
    <3>2. found \in ExpressionsTo[low] \cup {Absent}
      <4>1. Created \in Tables(Names, ExpressionsTo[low])
        <5> HIDE DEF low
        <5> QED BY <1>3, TablesUp DEF Given
      <4> QED BY <1>3, <2>2, <4>1 DEF Lookup, Tables
    <3>3. externalRefs' \in Tables(Names, ExpressionsTo[low])
      BY <1>3, <3>1, <3>2 DEF AfterLookup, Tables
    <3>4. CASE found = Absent
      BY <1>4, <1>5, <1>6, <1>16, <2>1, <2>5, <3>3, <3>4 DEF ParseInsert
    <3>5. CASE found # Absent
      <4>1. Return(copyInto(cur.self, found), rest)
        BY <1>16, <2>5, <3>5 DEF ParseInsert
      <4> QED BY <1>6, <2>1, <2>3, <3>2, <3>3, <3>5, <4>1
    <3> QED BY <3>4, <3>5
  <2> QED BY <2>4, <2>5
<1> QED BY <1>8, <1>11, <1>12, <1>13, <1>14, <1>15, <1>16

LEMMA LoopStepShallow ==
  ASSUME NEW d \in Nat, IsText(input, d), IInv, Follows, Registers, Moved, Shallow(d),
         \/ ArrayNoParen \/ ArrayClose \/ ArrayElement \/ ArrayElementParsed
         \/ MapNoParen \/ MapClose \/ MapKey \/ MapKeyParsed \/ MapValueParsed
         \/ RefParsed
  PROVE  Shallow(d)'
<1>1. /\ cur.pc \in {"array", "element", "map", "mapKey", "mapValue", "ref"}
      /\ cur.pc # "root" /\ externalRefs' = externalRefs /\ input' = input
      /\ cur.pc # "ref" => internalRefs' = internalRefs
  BY DEF ArrayNoParen, ArrayClose, ArrayElement, ArrayElementParsed, MapNoParen, MapClose,
         MapKey, MapKeyParsed, MapValueParsed, RefParsed, CloseContainer, Fail, Leaf
<1>2. /\ position \in Positions /\ IsSequence(input) /\ IsSequence(callers)
      /\ cur.pc \in {"array", "element"} => cur.self.type = "Array"
      /\ cur.pc \in {"map", "mapKey", "mapValue"} => cur.self.type = "Map"
  BY DEF IInv, StackInOrder, FillsWhatItShould, Registers, Follows
<1> DEFINE low == Level(d)
<1>3. /\ low \in Nat /\ low <= MaxDepth /\ low + 1 \in Nat /\ (low + 1) - 1 = low
      /\ internalRefs \in Tables(Names, ExpressionsTo[low])
      /\ externalRefs \in Tables(Names, ExpressionsTo[low])
      /\ ret \in ExpressionsTo[low] /\ cur.self \in ExpressionsTo[low + 1]
  BY <1>2, LevelBound DEF Shallow, Within
<1>4. ASSUME NEW rest, Return(cur.self, rest), cur.pc \notin {"parse", "ref"} PROVE Shallow(d)'
  BY <1>1, <1>2, <1>3, <1>4, ReturnShallow
<1>5. ASSUME NEW pc, NEW key, NEW prev, NEW self \in {Null, Invalid}, pc \in Loops, cur.pc \notin {"parse", "ref"},
             Call(Activation(pc, cur.self, key, prev), self)
      PROVE  Shallow(d)'
  <2> DEFINE caller == Activation(pc, cur.self, key, prev)
  <2>1. caller.pc \in Loops /\ caller.self \in ExpressionsTo[low + 1] /\ Call(caller, self)
    BY <1>3, <1>5 DEF Activation
  <2> HIDE DEF caller
  <2> QED BY <1>1, <1>2, <1>5, <2>1, CallShallow
<1>6. CASE ArrayNoParen \/ MapNoParen
  BY <1>4, <1>6 DEF ArrayNoParen, MapNoParen, Fail
<1>7. CASE ArrayClose \/ MapClose
  BY <1>4, <1>7 DEF ArrayClose, MapClose, CloseContainer, Leaf
<1>8. CASE ArrayElement
  BY <1>5, <1>8 DEF ArrayElement, At, Loops
<1>9. CASE MapKey
  BY <1>5, <1>9 DEF MapKey, Loops
<1>10. CASE MapKeyParsed
  <2>1. CASE ret.type # "Value"
    BY <1>4, <1>10, <2>1 DEF MapKeyParsed
  <2>2. CASE ret.type = "Value"
    BY <1>5, <1>10, <2>2 DEF MapKeyParsed, Loops
  <2> QED BY <2>1, <2>2
<1>11. CASE ArrayElementParsed
  <2>1. CASE error.code # "None"
    BY <1>4, <1>11, <2>1 DEF ArrayElementParsed
  <2>2. CASE error.code = "None"
    <3> DEFINE list == Append(cur.self.list, ret)
    <3>1. /\ cur.pc = "element" /\ cur' = Activation("array", Array(list), NoKey, 0)
          /\ UNCHANGED <<input, position, callers, ret, internalRefs, externalRefs>>
      BY <1>11, <2>2 DEF ArrayElementParsed
    <3>2. Array(list) \in ExpressionsTo[low + 1]
      <4> HIDE DEF low
      <4>1. cur.self.type = "Array"
        BY <1>2, <3>1
      <4>2. cur.self.list \in Seq(ExpressionsTo[low])
        BY <1>3, <4>1, LevelHas
      <4>3. list \in Seq(ExpressionsTo[low])
        <5> DEFINE S == ExpressionsTo[low]
        <5>1. cur.self.list \in Seq(S) /\ ret \in S
          BY <1>3, <4>2
        <5> HIDE DEF S
        <5>2. Append(cur.self.list, ret) \in Seq(S)
          BY <5>1
        <5> QED BY <5>2 DEF S
      <4> HIDE DEF list
      <4> QED BY <1>3, <4>3, ContainersOver
    <3> HIDE DEF list
    <3>3. cur.pc \in Loops /\ cur'.pc \in {"array", "map"} /\ cur'.self = Array(list)
      BY <3>1 DEF Activation, Loops
    <3> QED BY <3>1, <3>2, <3>3, LoopShallow
  <2> QED BY <2>1, <2>2
<1>12. CASE MapValueParsed
  <2>1. CASE ret.type = "Invalid"
    BY <1>4, <1>12, <2>1 DEF MapValueParsed
  <2>2. CASE ret.type # "Invalid"
    <3> DEFINE hash == [cur.self.hash EXCEPT ![cur.key] = ret]
    <3>1. /\ cur.pc = "mapValue" /\ cur' = Activation("map", Map(hash), NoKey, 0)
          /\ UNCHANGED <<input, position, callers, ret, internalRefs, externalRefs>>
      BY <1>12, <2>2 DEF MapValueParsed
    <3>2. Map(hash) \in ExpressionsTo[low + 1]
      <4> HIDE DEF low
      <4>1. cur.self.type = "Map"
        BY <1>2, <3>1
      <4>2. cur.self.hash \in Tables(Words, ExpressionsTo[low])
        BY <1>3, <4>1, LevelHas
      <4>3. hash \in Tables(Words, ExpressionsTo[low])
        BY <1>3, <4>2 DEF Tables
      <4> HIDE DEF hash
      <4> QED BY <1>3, <4>3, ContainersOver
    <3> HIDE DEF hash
    <3>3. cur.pc \in Loops /\ cur'.pc \in {"array", "map"} /\ cur'.self = Map(hash)
      BY <3>1 DEF Activation, Loops
    <3> QED BY <3>1, <3>2, <3>3, LoopShallow
  <2> QED BY <2>1, <2>2
<1>13. CASE RefParsed
  <2>1. cur.pc = "ref" /\ \E rest : Return(ret, rest)
    BY <1>13 DEF RefParsed
  <2>2. internalRefs' \in Tables(Names, ExpressionsTo[low])
    <3>1. createCopy[ret] \in ExpressionsTo[low]
      <4> HIDE DEF low
      <4> QED BY <1>3, CopyLevel
    <3>2. internalRefs' \in {internalRefs, [internalRefs EXCEPT ![cur.key] = createCopy[ret]]}
      BY <1>13 DEF RefParsed
    <3> QED BY <1>3, <3>1, <3>2 DEF Tables
  <2> QED BY <1>1, <1>2, <1>3, <2>1, <2>2, ReturnShallow
<1> QED BY <1>6, <1>7, <1>8, <1>9, <1>10, <1>11, <1>12, <1>13

LEMMA FinishShallow ==
  ASSUME NEW d \in Nat, IsText(input, d), IInv, Follows, Registers, Moved, Shallow(d), Finish
  PROVE  Shallow(d)'
<1> DEFINE low == Level(d)
           high == Level(d)'
<1>1. low \in Nat /\ d <= low /\ Within(low)
  BY DEF Shallow
<1>2. UNCHANGED <<cur, callers, ret, externalRefs>> /\ internalRefs' = EmptyTable(Names)
  BY DEF Finish
<1>3. Filling' = Filling
  BY <1>2 DEF Filling
<1>4. high \in Nat /\ low <= high
  <2>1. position \in Positions /\ IsSequence(input) /\ IsSequence(callers) /\ IsSequence(callers')
    BY <1>2 DEF Registers, Follows, IInv
  <2> QED BY <1>1, <1>3, <2>1, LevelMoves
<1>5. high = Level(d)'
  OBVIOUS
<1> HIDE DEF low, high
<1>6. low + 1 \in Nat /\ high + 1 \in Nat /\ low + 1 <= high + 1 /\ d <= high
  BY <1>1, <1>4
<1>7. /\ ExpressionsTo[low] \subseteq ExpressionsTo[high]
      /\ ExpressionsTo[low + 1] \subseteq ExpressionsTo[high + 1]
      /\ Tables(Names, ExpressionsTo[low]) \subseteq Tables(Names, ExpressionsTo[high])
  BY <1>1, <1>4, <1>6, LevelUp, TablesUp
<1>8. EmptyTable(Names) \in Tables(Names, ExpressionsTo[high])
  BY DEF EmptyTable, Tables
<1> QED BY <1>1, <1>2, <1>4, <1>5, <1>6, <1>7, <1>8 DEF Shallow, Within

(* What keeps the types: with IInv and Follows, everything but result.      *)
Typed(d) == IsText(input, d) /\ Registers /\ Shallow(d) /\ result \in Expr \cup {NULL, Running}

LEMMA RetIsTyped ==
  ASSUME NEW d \in Nat, IInv, Follows, Typed(d)
  PROVE  ret \in Expr /\ (ret.type = "Value" => ret.data \in Words)
<1> DEFINE low == Level(d)
<1>1. ret \in ExpressionsTo[low] /\ low \in Nat /\ low <= MaxDepth
  BY LevelBound DEF Typed, Shallow, Within, Registers, IInv
<1> HIDE DEF low
<1> QED BY <1>1, MaxDepthAssumption, LevelUp, LevelHas DEF Expr

LEMMA NextTyped ==
  ASSUME NEW d \in Nat, Given(d), IInv, Follows, Typed(d), [Next]_vars
  PROVE  Typed(d)'
<1>1. IsText(input, d) /\ Registers /\ Shallow(d) /\ result \in Expr \cup {NULL, Running}
  BY DEF Typed
<1>2. ret \in Expr /\ (ret.type = "Value" => ret.data \in Words)
  BY RetIsTyped
<1>3. Registers' /\ Moved
  BY <1>1, <1>2, NextRegisters
<1>4. IsText(input, d)'
  BY <1>1, <1>3 DEF Moved
<1>5. Shallow(d)'
  <2>1. CASE Step
    BY <1>1, <1>3, <2>1, ParseStepShallow, LoopStepShallow, FinishShallow DEF Step
  <2>2. CASE UNCHANGED vars
    <3>1. Filling' = Filling
      BY <2>2 DEF vars, Filling
    <3>2. Level(d)' = Level(d)
      BY <2>2, <3>1 DEF vars, Level, Passed
    <3> QED BY <1>1, <2>2, <3>2 DEF vars, Shallow, Within
  <2> QED BY <2>1, <2>2 DEF Next, Done
<1>6. result' \in Expr \cup {NULL, Running}
  <2>1. result' \in {result, ret, NULL}
    BY DEF Next, Done, Step, vars, ParseEmpty, ParseBlank, ParseArray, ParseMap,
         ParseBinary, ParseBinaryBad, ParseValue, ParseValueBad, ParseRef, ParseRefOpen,
         ParseInsert, ParseInsertOpen, ParseContainer, ArrayNoParen, ArrayClose,
         ArrayElement, ArrayElementParsed, MapNoParen, MapClose, MapKey, MapKeyParsed,
         MapValueParsed, RefParsed, CloseContainer, Leaf, Fail, Finish
  <2> QED BY <1>1, <1>2, <2>1
<1> QED BY <1>3, <1>4, <1>5, <1>6 DEF Typed

LEMMA InitTyped ==
  ASSUME NEW d \in Nat, ExternalTable \in Tables(Names, ExpressionsTo[d]),
         \A text \in Inputs : IsText(text, d), Init
  PROVE  Typed(d)
<1>1. PICK text \in Inputs : Start(text)
  BY DEF Init
<1>2. /\ IsText(input, d) /\ position = 0 /\ str = input /\ error = NoError
      /\ cur = Activation("parse", Invalid, NoKey, 0)
      /\ callers = <<Activation("root", Invalid, NoKey, 0)>>
      /\ ret = Invalid /\ internalRefs = EmptyTable(Names)
      /\ externalRefs = ExternalTable /\ result = Running
  BY <1>1 DEF Start
<1>3. Follows
  <2>1. \A s \in Inputs : IsSequence(s)
    BY DEF IsText
  <2> QED BY <2>1, InitFollows
<1>4. Len(input) \in Nat /\ 0 \in Positions
  BY <1>2 DEF IsText, IsSequence, Positions
<1>5. Registers
  <2>1. str = SubSeq(input, 0 + 1, Len(input))
    BY <1>2, <1>3 DEF Follows, Followed, Rest, NoError
  <2>2. TextAt(str)
    BY <1>4, <2>1 DEF TextAt
  <2>3. error \in ErrorTypes
    BY <1>2, <1>4 DEF ErrorTypes, NoError, ErrorCodes
  <2>4. \A a : a.pc \in {"parse", "root"} /\ a = Activation(a.pc, Invalid, NoKey, 0) => Keyed(a)
    BY <1>4 DEF Keyed, Activation
  <2>5. Keyed(cur) /\ \A i \in DOMAIN callers : Keyed(callers[i])
    BY <1>2, <1>4 DEF Keyed, Activation
  <2> QED BY <1>2, <1>4, <2>2, <2>3, <2>5 DEF Registers
<1>6. Shallow(d)
  <2>1. Filling = 0
    <3>1. {i \in DOMAIN callers : callers[i].pc \in {"element", "mapKey", "mapValue"}} = {}
      BY <1>2 DEF Activation
    <3> QED BY <1>2, <3>1, FS_EmptySet DEF Filling, Activation
  <2>2. Passed(Opening) = 0
    <3>1. {i \in 1..position : input[i].kind \in Opening} = {}
      BY <1>2
    <3> QED BY <3>1, FS_EmptySet DEF Passed
  <2>3. Level(d) = d
    BY <2>1, <2>2 DEF Level
  <2>4. Invalid \in ExpressionsTo[d] /\ Invalid \in ExpressionsTo[d + 1]
    BY LeavesEverywhere DEF Leaves
  <2>5. EmptyTable(Names) \in Tables(Names, ExpressionsTo[d])
    BY DEF EmptyTable, Tables
  <2>6. cur.self = Invalid /\ \A i \in DOMAIN callers : callers[i].self = Invalid
    BY <1>2 DEF Activation
  <2> QED BY <1>2, <2>3, <2>4, <2>5, <2>6 DEF Shallow, Within
<1> QED BY <1>2, <1>5, <1>6 DEF Typed

LEMMA TypedIsTypeOK ==
  ASSUME NEW d \in Nat, IInv, Follows, Typed(d)
  PROVE  TypeOK
<1> DEFINE low == Level(d)
<1>1. /\ IsText(input, d) /\ Registers /\ Within(low) /\ low \in Nat
      /\ result \in Expr \cup {NULL, Running}
  BY DEF Typed, Shallow
<1>2. /\ IsSequence(callers) /\ StackInOrder
      /\ position \in Positions
  BY <1>1 DEF IInv, Registers
<1>3. low + Filling <= MaxDepth /\ low <= MaxDepth /\ Filling \in Nat /\ MaxDepth \in Nat
  BY <1>1, <1>2, LevelBound, FillingIsNat, MaxDepthAssumption
<1> DEFINE filling == Filling
<1>4. filling # 0 => low + 1 \in Nat /\ low + 1 <= MaxDepth
  <2>1. low + filling <= MaxDepth /\ filling \in Nat
    BY <1>3
  <2> HIDE DEF low, filling
  <2> QED BY <1>1, <1>3, <2>1
<1>5. ret \in Expr
  BY RetIsTyped
<1>6. Tables(Names, ExpressionsTo[low]) \subseteq Tables(Names, Expr)
  <2> HIDE DEF low
  <2> QED BY <1>1, <1>3, TablesUp DEF Expr
<1>7. filling # 0 => ExpressionsTo[low + 1] \subseteq Expr
  <2> HIDE DEF low, filling
  <2> QED BY <1>3, <1>4, LevelUp DEF Expr
<1>8. Null \in Expr /\ Invalid \in Expr
  BY <1>3, LeavesEverywhere DEF Expr, Leaves
<1>9. /\ Cardinality(Waiting) \in Nat /\ IsFiniteSet(Waiting)
      /\ filling = Cardinality(Waiting) + (IF cur.pc \in {"root", "parse", "ref"} THEN 0 ELSE 1)
  BY <1>2, WaitingFinite, FillingIs
<1>10. cur.self \in Expr
  <2>1. CASE cur.pc \in {"root", "parse", "ref"}
    BY <1>2, <1>8, <2>1 DEF StackInOrder, FillsWhatItShould
  <2>2. CASE cur.pc \notin {"root", "parse", "ref"}
    <3> HIDE DEF filling
    <3>1. filling # 0
      BY <1>9, <2>2
    <3> QED BY <1>1, <1>7, <3>1 DEF Within
  <2> QED BY <2>1, <2>2
<1>11. ASSUME NEW i \in DOMAIN callers PROVE callers[i].self \in Expr /\ callers[i].pc \in Resuming
  <2>1. callers[i].pc \in Resuming /\ FillsWhatItShould(callers[i])
    BY <1>2 DEF StackInOrder
  <2>2. CASE callers[i].pc \in {"root", "ref"}
    BY <1>8, <2>1, <2>2 DEF FillsWhatItShould
  <2>3. CASE callers[i].pc \notin {"root", "ref"}
    <3>1. i \in Waiting
      BY <2>1, <2>3 DEF Waiting, Loops, Resuming
    <3>2. Cardinality(Waiting) # 0
      BY <1>9, <3>1, FS_EmptySet
    <3> HIDE DEF filling
    <3>3. filling # 0
      BY <1>9, <3>2
    <3> QED BY <1>1, <1>7, <2>1, <3>3 DEF Within
  <2> QED BY <2>1, <2>2, <2>3
<1> HIDE DEF low, filling
<1>12. cur \in Activations({"parse", "array", "map"} \cup Resuming)
  <2>1. cur.pc \in {"parse", "array", "map"} \cup Resuming /\ Keyed(cur)
    BY <1>1, <1>2 DEF StackInOrder, Registers
  <2> QED BY <1>10, <2>1 DEF Activations, Keyed, Activation
<1>13. callers \in Seq(Activations(Resuming))
  <2>1. \A i \in DOMAIN callers : callers[i] \in Activations(Resuming)
    BY <1>1, <1>11 DEF Activations, Keyed, Activation, Registers
  <2> DEFINE S == {callers[i] : i \in DOMAIN callers}
  <2>2. callers \in Seq(S) /\ S \subseteq Activations(Resuming)
    BY <1>2, <2>1 DEF IsSequence
  <2> HIDE DEF S
  <2> QED BY <2>2
<1>14. /\ internalRefs \in Tables(Names, Expr) /\ externalRefs \in Tables(Names, Expr)
  BY <1>1, <1>6 DEF Within
<1> QED BY <1>1, <1>5, <1>12, <1>13, <1>14 DEF TypeOK, Registers, TextAt, ErrorTypes

(* For every text whose containers nest no deeper than the instance goes,   *)
(* over tables d levels deep: every register keeps its type.  What a        *)
(* reference binds and what an insertion copies is as deep as what was      *)
(* built so far, so that no text builds an expression deeper than the       *)
(* containers it opens above the tables (s_Expression_parseFromString,      *)
(* wexpr_Expression_createCopy, s_Expression_copyInto).                     *)
THEOREM ParserTypes ==
  ASSUME NEW CONSTANT d \in Nat,
         ExternalTable \in Tables(Names, ExpressionsTo[d]),
         Created \in Tables(Names, ExpressionsTo[d]),
         \A text \in Inputs : IsText(text, d)
  PROVE  Spec => []TypeOK
<1>1. \A text \in Inputs : IsSequence(text)
  BY DEF IsText
<1>2. Init => IInv /\ Follows /\ Typed(d)
  BY <1>1, InitInv, InitFollows, InitTyped
<1>3. IInv /\ Follows /\ Typed(d) /\ [Next]_vars => IInv' /\ Follows' /\ Typed(d)'
  BY NextInv, NextFollows, NextTyped DEF Given
<1>4. IInv /\ Follows /\ Typed(d) => TypeOK
  BY TypedIsTypeOK
<1> QED BY <1>2, <1>3, <1>4, PTL DEF Spec

-----------------------------------------------------------------------------
(* What is taken from a text, read from left to right.  These rules are the *)
(* parser's, which takes more than Grammar has: the end of the text for the *)
(* quote of a string, and any name that is not one of InvalidNames.  A goal *)
(* is what is wanted of a text: an expression, or the rest of a list or a   *)
(* table of which self has the first part; self is also what an inserted    *)
(* null leaves as it was.  An outcome is the expression, the references     *)
(* bound then, and what is left of the text.                                *)
Goal(want, self, refs, text) == [want |-> want, self |-> self, refs |-> refs, text |-> text]
Outcome(expr, refs, text) == [expr |-> expr, refs |-> refs, text |-> text]

(* The rules, where Read(goal, outcome) says what is taken from the parts.  *)
ExpressionRule(Read(_, _), goal, outcome) ==
  LET text == Trim(goal.text)
      x == Head(text)
      rest == Tail(text)
  IN /\ text # <<>>
     /\ \/ /\ x.kind \in {"value", "openQuote"}
           /\ outcome = Outcome(Value(x.word), goal.refs, rest)
        \/ /\ x.kind = "null"
           /\ outcome = Outcome(Null, goal.refs, rest)
        \/ /\ x.kind = "binary"
           /\ outcome = Outcome(BinaryData(x.blob), goal.refs, rest)
        \/ /\ x.kind = "insert" /\ Bound(goal.refs, x.name) # Absent
           /\ outcome = Outcome(copyInto(goal.self, Bound(goal.refs, x.name)), goal.refs, rest)
        \/ /\ x.kind = "ref" /\ x.name \notin InvalidNames
           /\ \E m : /\ Read(Goal("expression", goal.self, goal.refs, rest), m)
                     /\ outcome = Outcome(m.expr, [m.refs EXCEPT ![x.name] = createCopy[m.expr]], m.text)
        \/ x.kind = "array" /\ Read(Goal("list", Array(<<>>), goal.refs, rest), outcome)
        \/ x.kind = "map" /\ Read(Goal("table", Map(EmptyTable(Words)), goal.refs, rest), outcome)

(* A closing parenthesis, or one more expression before it, ...             *)
ListRule(Read(_, _), goal, outcome) ==
  LET text == Trim(goal.text)
  IN /\ text # <<>>
     /\ IF Head(text).kind = "close"
        THEN outcome = Outcome(goal.self, goal.refs, Tail(text))
        ELSE \E m : /\ Read(Goal("expression", Null, goal.refs, text), m)
                    /\ Read(Goal("list", Array(Append(goal.self.list, m.expr)), m.refs, m.text), outcome)

(* ... or one more key, which must be a value, and what it maps to.         *)
TableRule(Read(_, _), goal, outcome) ==
  LET text == Trim(goal.text)
  IN /\ text # <<>>
     /\ IF Head(text).kind = "close"
        THEN outcome = Outcome(goal.self, goal.refs, Tail(text))
        ELSE \E k, v :
               /\ Read(Goal("expression", Null, goal.refs, text), k) /\ k.expr.type = "Value"
               /\ Read(Goal("expression", Invalid, k.refs, k.text), v) /\ v.expr.type # "Invalid"
               /\ Read(Goal("table", Map([goal.self.hash EXCEPT ![k.expr.data] = v.expr]), v.refs, v.text), outcome)

Rule(Read(_, _), goal, outcome) ==
  \/ goal.want = "expression" /\ ExpressionRule(Read, goal, outcome)
  \/ goal.want = "list" /\ ListRule(Read, goal, outcome)
  \/ goal.want = "table" /\ TableRule(Read, goal, outcome)

(* A derivation is a set of readings each of which has, by its rule, its    *)
(* parts among them.  No reading leans on itself and no goal has two        *)
(* outcomes (AllOnce), so that it does not matter which derivation is meant. *)
Gives(D, goal, outcome) == Rule(LAMBDA g, m : <<g, m>> \in D, goal, outcome)
Derivation(D) == \A goal, outcome : <<goal, outcome>> \in D => Gives(D, goal, outcome)
Reads(goal, outcome) == \E D : Derivation(D) /\ <<goal, outcome>> \in D

(* A text denotes what is read from it with nothing but blanks left.        *)
TextGoal(text) == Goal("expression", Invalid, EmptyTable(Names), text)
Denotes(text, expr) ==
  \E outcome : /\ Reads(TextGoal(text), outcome)
               /\ outcome.expr = expr /\ expr.type # "Invalid" /\ Trim(outcome.text) = <<>>

LEMMA RulesGrow ==
  ASSUME NEW D, NEW E, D \subseteq E, NEW goal, NEW outcome,
         Gives(D, goal, outcome)
  PROVE  Gives(E, goal, outcome)
<1>1. CASE goal.want = "expression"
  BY <1>1 DEF Gives, Rule, ExpressionRule
<1>2. CASE goal.want = "list"
  BY <1>2 DEF Gives, Rule, ListRule
<1>3. CASE goal.want = "table"
  BY <1>3 DEF Gives, Rule, TableRule
<1> QED BY <1>1, <1>2, <1>3 DEF Gives, Rule

LEMMA DerivationsJoin ==
  ASSUME NEW D, NEW E, Derivation(D), Derivation(E)
  PROVE  Derivation(D \cup E)
<1>1. D \subseteq D \cup E /\ E \subseteq D \cup E
  OBVIOUS
<1>2. ASSUME NEW goal, NEW outcome, <<goal, outcome>> \in D
      PROVE  Gives(D \cup E, goal, outcome)
  <2>1. Gives(D, goal, outcome)
    BY <1>2 DEF Derivation
  <2> QED BY <1>1, <2>1, RulesGrow
<1>3. ASSUME NEW goal, NEW outcome, <<goal, outcome>> \in E
      PROVE  Gives(D \cup E, goal, outcome)
  <2>1. Gives(E, goal, outcome)
    BY <1>3 DEF Derivation
  <2> QED BY <1>1, <2>1, RulesGrow
<1> QED BY <1>2, <1>3 DEF Derivation

LEMMA DerivationGrows ==
  ASSUME NEW D, Derivation(D), NEW goal, NEW outcome,
         Gives(D, goal, outcome)
  PROVE  Reads(goal, outcome)
<1> DEFINE E == D \cup {<<goal, outcome>>}
<1>1. D \subseteq E /\ <<goal, outcome>> \in E
  OBVIOUS
<1>2. \A g, m : <<g, m>> \in E => <<g, m>> \in D \/ (g = goal /\ m = outcome)
  OBVIOUS
<1> HIDE DEF E
<1>3. ASSUME NEW g, NEW m, <<g, m>> \in D
      PROVE  Gives(E, g, m)
  <2>1. Gives(D, g, m)
    BY <1>3 DEF Derivation
  <2> QED BY <1>1, <2>1, RulesGrow
<1>4. Gives(E, goal, outcome)
  BY <1>1, RulesGrow
<1>5. Derivation(E)
  BY <1>2, <1>3, <1>4 DEF Derivation
<1> QED BY <1>1, <1>5 DEF Reads

(* The readings are what the rules make of them.                            *)
LEMMA ReadsIs ==
  ASSUME NEW goal, NEW outcome
  PROVE  Reads(goal, outcome) <=> Rule(Reads, goal, outcome)
<1>1. ASSUME Reads(goal, outcome) PROVE Rule(Reads, goal, outcome)
  <2>1. PICK D : Derivation(D) /\ <<goal, outcome>> \in D
    BY <1>1 DEF Reads
  <2>2. \A g, m : <<g, m>> \in D => Reads(g, m)
    BY <2>1 DEF Reads
  <2>3. Gives(D, goal, outcome)
    BY <2>1 DEF Derivation
  <2>4. CASE goal.want = "expression"
    BY <2>2, <2>3, <2>4 DEF Gives, Rule, ExpressionRule
  <2>5. CASE goal.want = "list"
    BY <2>2, <2>3, <2>5 DEF Gives, Rule, ListRule
  <2>6. CASE goal.want = "table"
    BY <2>2, <2>3, <2>6 DEF Gives, Rule, TableRule
  <2> QED BY <2>3, <2>4, <2>5, <2>6 DEF Gives, Rule
<1>2. ASSUME Rule(Reads, goal, outcome) PROVE Reads(goal, outcome)
  <2>1. Derivation({})
    BY DEF Derivation
  <2>2. ASSUME NEW g, NEW m, Reads(g, m), NEW D, Derivation(D)
        PROVE  \E E : Derivation(E) /\ D \subseteq E /\ <<g, m>> \in E
    <3>1. PICK E : Derivation(E) /\ <<g, m>> \in E
      BY <2>2 DEF Reads
    <3>2. Derivation(D \cup E)
      BY <2>2, <3>1, DerivationsJoin
    <3>3. D \subseteq D \cup E /\ <<g, m>> \in D \cup E
      BY <3>1
    <3> QED BY <3>2, <3>3
  <2>3. CASE goal.want = "expression"
    <3>1. PICK D : Derivation(D) /\ Gives(D, goal, outcome)
      <4> DEFINE rest == Tail(Trim(goal.text))
      <4>1. ASSUME NEW g, NEW m, Reads(g, m) PROVE \E D : Derivation(D) /\ <<g, m>> \in D
        BY <4>1 DEF Reads
      <4> QED BY <1>2, <2>1, <2>3, <4>1 DEF Gives, Rule, ExpressionRule
    <3> QED BY <3>1, DerivationGrows
  <2>4. CASE goal.want = "list"
    <3>1. PICK D : Derivation(D) /\ Gives(D, goal, outcome)
      <4> DEFINE text == Trim(goal.text)
                 next(m) == Goal("list", Array(Append(goal.self.list, m.expr)), m.refs, m.text)
      <4>1. /\ text # <<>>
            /\ IF Head(text).kind = "close"
               THEN outcome = Outcome(goal.self, goal.refs, Tail(text))
               ELSE \E m : Reads(Goal("expression", Null, goal.refs, text), m) /\ Reads(next(m), outcome)
        BY <1>2, <2>4 DEF Gives, Rule, ListRule
      <4>2. CASE Head(text).kind = "close"
        BY <2>1, <2>4, <4>1, <4>2 DEF Gives, Rule, ListRule
      <4>3. CASE Head(text).kind # "close"
        <5>1. PICK m : Reads(Goal("expression", Null, goal.refs, text), m) /\ Reads(next(m), outcome)
          BY <4>1, <4>3
        <5>2. PICK D : Derivation(D) /\ <<Goal("expression", Null, goal.refs, text), m>> \in D
          BY <5>1 DEF Reads
        <5>3. PICK E : Derivation(E) /\ D \subseteq E /\ <<next(m), outcome>> \in E
          BY <2>2, <5>1, <5>2
        <5>4. Gives(E, goal, outcome)
          BY <2>4, <4>1, <4>3, <5>2, <5>3 DEF Gives, Rule, ListRule
        <5> QED BY <5>3, <5>4
      <4> QED BY <4>2, <4>3
    <3> QED BY <3>1, DerivationGrows
  <2>5. CASE goal.want = "table"
    <3>1. PICK D : Derivation(D) /\ Gives(D, goal, outcome)
      <4> DEFINE text == Trim(goal.text)
                 key == Goal("expression", Null, goal.refs, text)
                 value(k) == Goal("expression", Invalid, k.refs, k.text)
                 next(k, v) == Goal("table", Map([goal.self.hash EXCEPT ![k.expr.data] = v.expr]), v.refs, v.text)
      <4>1. /\ text # <<>>
            /\ IF Head(text).kind = "close"
               THEN outcome = Outcome(goal.self, goal.refs, Tail(text))
               ELSE \E k, v : /\ Reads(key, k) /\ k.expr.type = "Value"
                              /\ Reads(value(k), v) /\ v.expr.type # "Invalid"
                              /\ Reads(next(k, v), outcome)
        BY <1>2, <2>5 DEF Gives, Rule, TableRule
      <4>2. CASE Head(text).kind = "close"
        BY <2>1, <2>5, <4>1, <4>2 DEF Gives, Rule, TableRule
      <4>3. CASE Head(text).kind # "close"
        <5>1. PICK k, v : /\ Reads(key, k) /\ k.expr.type = "Value"
                          /\ Reads(value(k), v) /\ v.expr.type # "Invalid"
                          /\ Reads(next(k, v), outcome)
          BY <4>1, <4>3
        <5>2. PICK D : Derivation(D) /\ <<key, k>> \in D
          BY <5>1 DEF Reads
        <5>3. PICK E : Derivation(E) /\ D \subseteq E /\ <<value(k), v>> \in E
          BY <2>2, <5>1, <5>2
        <5>4. PICK F : Derivation(F) /\ E \subseteq F /\ <<next(k, v), outcome>> \in F
          BY <2>2, <5>1, <5>3
        <5>5. <<key, k>> \in F /\ <<value(k), v>> \in F
          BY <5>2, <5>3, <5>4
        <5>6. Gives(F, goal, outcome)
          BY <2>5, <4>1, <4>3, <5>1, <5>4, <5>5 DEF Gives, Rule, TableRule
        <5> QED BY <5>4, <5>6
      <4> QED BY <4>2, <4>3
    <3> QED BY <3>1, DerivationGrows
  <2> QED BY <1>2, <2>3, <2>4, <2>5 DEF Gives, Rule
<1> QED BY <1>1, <1>2

(* Which rule is whose, and that an expression has the readings its first   *)
(* lexeme gives it.                                                         *)
LEMMA GoalIs ==
  ASSUME NEW want, NEW self, NEW refs, NEW text
  PROVE  LET g == Goal(want, self, refs, text) IN
         g.want = want /\ g.self = self /\ g.refs = refs /\ g.text = text
BY DEF Goal

LEMMA OutcomeIs ==
  ASSUME NEW expr, NEW refs, NEW text
  PROVE  LET o == Outcome(expr, refs, text) IN o.expr = expr /\ o.refs = refs /\ o.text = text
BY DEF Outcome

LEMMA ExpressionReads ==
  ASSUME NEW self, NEW refs, NEW text, NEW o
  PROVE  LET goal == Goal("expression", self, refs, text)
             x == Head(Trim(text))
             rest == Tail(Trim(text))
         IN /\ Trim(text) = <<>> => ~Reads(goal, o)
            /\ Trim(text) # <<>> =>
                 /\ x.kind \in {"value", "openQuote"} =>
                      (Reads(goal, o) <=> o = Outcome(Value(x.word), refs, rest))
                 /\ x.kind = "null" => (Reads(goal, o) <=> o = Outcome(Null, refs, rest))
                 /\ x.kind = "binary" => (Reads(goal, o) <=> o = Outcome(BinaryData(x.blob), refs, rest))
                 /\ x.kind = "insert" =>
                      (Reads(goal, o) <=>
                         /\ Bound(refs, x.name) # Absent
                         /\ o = Outcome(copyInto(self, Bound(refs, x.name)), refs, rest))
                 /\ x.kind = "ref" =>
                      (Reads(goal, o) <=>
                         /\ x.name \notin InvalidNames
                         /\ \E m : /\ Reads(Goal("expression", self, refs, rest), m)
                                   /\ o = Outcome(m.expr, [m.refs EXCEPT ![x.name] = createCopy[m.expr]], m.text))
                 /\ x.kind = "array" =>
                      (Reads(goal, o) <=> Reads(Goal("list", Array(<<>>), refs, rest), o))
                 /\ x.kind = "map" =>
                      (Reads(goal, o) <=> Reads(Goal("table", Map(EmptyTable(Words)), refs, rest), o))
                 /\ x.kind \notin {"value", "openQuote", "null", "binary", "insert", "ref", "array", "map"} =>
                      ~Reads(goal, o)
<1> DEFINE goal == Goal("expression", self, refs, text)
<1>1. goal.want = "expression" /\ goal.self = self /\ goal.refs = refs /\ goal.text = text
  BY GoalIs
<1> HIDE DEF goal
<1>2. Reads(goal, o) <=> ExpressionRule(Reads, goal, o)
  BY <1>1, ReadsIs DEF Rule
<1> QED BY <1>1, <1>2 DEF ExpressionRule, goal

LEMMA ListReads ==
  ASSUME NEW self, NEW refs, NEW text, NEW o
  PROVE  LET goal == Goal("list", self, refs, text) IN
         /\ Trim(text) = <<>> => ~Reads(goal, o)
         /\ Trim(text) # <<>> /\ Head(Trim(text)).kind = "close" =>
              (Reads(goal, o) <=> o = Outcome(self, refs, Tail(Trim(text))))
         /\ Trim(text) # <<>> /\ Head(Trim(text)).kind # "close" =>
              (Reads(goal, o) <=>
                 \E m : /\ Reads(Goal("expression", Null, refs, Trim(text)), m)
                        /\ Reads(Goal("list", Array(Append(self.list, m.expr)), m.refs, m.text), o))
<1> DEFINE goal == Goal("list", self, refs, text)
<1>1. goal.want = "list" /\ goal.self = self /\ goal.refs = refs /\ goal.text = text
  BY GoalIs
<1> HIDE DEF goal
<1>2. Reads(goal, o) <=> ListRule(Reads, goal, o)
  BY <1>1, ReadsIs DEF Rule
<1> QED BY <1>1, <1>2 DEF ListRule, goal

LEMMA TableReads ==
  ASSUME NEW self, NEW refs, NEW text, NEW o
  PROVE  LET goal == Goal("table", self, refs, text) IN
         /\ Trim(text) = <<>> => ~Reads(goal, o)
         /\ Trim(text) # <<>> /\ Head(Trim(text)).kind = "close" =>
              (Reads(goal, o) <=> o = Outcome(self, refs, Tail(Trim(text))))
         /\ Trim(text) # <<>> /\ Head(Trim(text)).kind # "close" =>
              (Reads(goal, o) <=>
                 \E k, v :
                   /\ Reads(Goal("expression", Null, refs, Trim(text)), k) /\ k.expr.type = "Value"
                   /\ Reads(Goal("expression", Invalid, k.refs, k.text), v) /\ v.expr.type # "Invalid"
                   /\ Reads(Goal("table", Map([self.hash EXCEPT ![k.expr.data] = v.expr]), v.refs, v.text), o))
<1> DEFINE goal == Goal("table", self, refs, text)
<1>1. goal.want = "table" /\ goal.self = self /\ goal.refs = refs /\ goal.text = text
  BY GoalIs
<1> HIDE DEF goal
<1>2. Reads(goal, o) <=> TableRule(Reads, goal, o)
  BY <1>1, ReadsIs DEF Rule
<1> QED BY <1>1, <1>2 DEF TableRule, goal

LEMMA SequenceLength ==
  ASSUME NEW s, IsSequence(s)
  PROVE  Len(s) \in Nat /\ DOMAIN s = 1..Len(s)
BY DEF IsSequence

(* A reading leaves less of the text than it was given, so that none leans  *)
(* on itself, and it is the only one: a text denotes one expression at most. *)
ReadOnce(goal) ==
  /\ \A o : Reads(goal, o) => IsSequence(o.text) /\ Len(o.text) < Len(goal.text)
  /\ \A o, p : Reads(goal, o) /\ Reads(goal, p) => o = p
OnceWithin(wants, n) ==
  \A want \in wants : \A self, refs, text :
    IsSequence(text) /\ Len(text) <= n => ReadOnce(Goal(want, self, refs, text))

LEMMA TrimShortens ==
  ASSUME NEW text, IsSequence(text)
  PROVE  /\ IsSequence(Trim(text)) /\ Len(Trim(text)) \in Nat /\ Len(text) \in Nat
         /\ Len(Trim(text)) <= Len(text)
         /\ Trim(text) # <<>> => /\ IsSequence(Tail(Trim(text)))
                                 /\ Len(Tail(Trim(text))) \in Nat
                                 /\ Len(Tail(Trim(text))) < Len(Trim(text))
<1> DEFINE S == {text[i] : i \in DOMAIN text}
           k == Len(text)
           b == Blanks(text)
           trim == SubSeq(text, b + 1, k)
<1>1. text \in Seq(S) /\ k \in Nat
  BY DEF IsSequence
<1>2. b \in 0..k
  BY <1>1, BlanksOf
<1>3. \A i \in (b + 1)..k : text[i] \in S
  BY <1>1, <1>2
<1> HIDE DEF S, k, b
<1>4. /\ trim \in Seq(S)
      /\ Len(trim) = IF b + 1 <= k THEN k - (b + 1) + 1 ELSE 0
  BY <1>1, <1>2, <1>3, SubSeqProperties, b + 1 \in Int
<1>5. Len(trim) \in Nat /\ Len(trim) <= k
  BY <1>1, <1>2, <1>4
<1>6. trim # <<>> => Tail(trim) \in Seq(S) /\ Len(Tail(trim)) \in Nat /\ Len(Tail(trim)) < Len(trim)
  <2> HIDE DEF trim
  <2> QED BY <1>4
<1>7. trim = Trim(text)
  BY DEF Trim, trim, b, k
<1> HIDE DEF trim
<1> QED BY <1>1, <1>4, <1>5, <1>6, <1>7, SeqIsSequence DEF k

(* How a goal is shown to be read once: directly, from its only outcome, or *)
(* from a part with the same readings.                                      *)
LEMMA OnceIs ==
  ASSUME NEW goal, NEW text, goal.text = text,
         \A o : Reads(goal, o) => IsSequence(o.text) /\ Len(o.text) < Len(text),
         \A o, p : Reads(goal, o) /\ Reads(goal, p) => o = p
  PROVE  ReadOnce(goal)
BY ZenonT(30) DEF ReadOnce

LEMMA OnceOutcome ==
  ASSUME NEW goal, NEW text, goal.text = text,
         NEW expr, NEW refs, NEW rest, IsSequence(rest), Len(rest) < Len(text),
         \A o : Reads(goal, o) => o = Outcome(expr, refs, rest)
  PROVE  ReadOnce(goal)
<1>1. PICK done : done = Outcome(expr, refs, rest)
  OBVIOUS
<1>2. done.text = rest
  BY <1>1, OutcomeIs
<1>3. ASSUME NEW o, Reads(goal, o) PROVE IsSequence(o.text) /\ Len(o.text) < Len(text)
  <2>1. o.text = rest
    BY <1>1, <1>2, <1>3
  <2> QED BY <2>1
<1>4. \A o, p : Reads(goal, o) /\ Reads(goal, p) => o = p
  OBVIOUS
<1> QED BY <1>3, <1>4, OnceIs

LEMMA OnceBehind ==
  ASSUME NEW goal, NEW text, goal.text = text, IsSequence(text),
         NEW part, IsSequence(part.text), Len(part.text) < Len(text), ReadOnce(part),
         \A o : Reads(goal, o) => Reads(part, o)
  PROVE  ReadOnce(goal)
<1>1. ASSUME NEW o, Reads(goal, o) PROVE IsSequence(o.text) /\ Len(o.text) < Len(text)
  <2>1. IsSequence(o.text) /\ Len(o.text) < Len(part.text)
    BY <1>1 DEF ReadOnce
  <2>2. Len(o.text) \in Nat /\ Len(part.text) \in Nat /\ Len(text) \in Nat
    BY <2>1, SequenceLength
  <2> QED BY <2>1, <2>2
<1>2. \A o, p : Reads(goal, o) /\ Reads(goal, p) => o = p
  BY DEF ReadOnce
<1> QED BY <1>1, <1>2, OnceIs

LEMMA ExpressionsOnce ==
  ASSUME NEW n \in Nat, \A m \in Nat : m < n => OnceWithin(Parts, m)
  PROVE  OnceWithin({"expression"}, n)
<1> SUFFICES ASSUME NEW self, NEW refs, NEW text, IsSequence(text), Len(text) <= n
             PROVE  ReadOnce(Goal("expression", self, refs, text))
  BY DEF OnceWithin
<1> DEFINE goal == Goal("expression", self, refs, text)
           x == Head(Trim(text))
           rest == Tail(Trim(text))
<1>1. goal.text = text
  BY GoalIs
<1> HIDE DEF goal
<1>2. CASE Trim(text) = <<>>
  BY <1>2, ExpressionReads DEF ReadOnce, goal
<1>3. CASE Trim(text) # <<>>
  <2>1. /\ IsSequence(rest) /\ Len(rest) \in Nat /\ Len(rest) < Len(text) /\ Len(text) \in Nat
    <3>1. /\ IsSequence(rest) /\ Len(rest) \in Nat /\ Len(rest) < Len(Trim(text))
          /\ Len(Trim(text)) \in Nat /\ Len(Trim(text)) <= Len(text) /\ Len(text) \in Nat
      BY <1>3, TrimShortens
    <3> QED BY <3>1
  <2> HIDE DEF x, rest
  <2>2. Len(rest) < n
    BY <2>1
  <2>3. ASSUME NEW want \in Parts, NEW s PROVE ReadOnce(Goal(want, s, refs, rest))
    BY <2>1, <2>2 DEF OnceWithin
  <2>4. ASSUME NEW expr, \A o : Reads(goal, o) => o = Outcome(expr, refs, rest)
        PROVE  ReadOnce(goal)
    BY <1>1, <2>1, <2>4, OnceOutcome
  <2>5. ASSUME NEW part, part.text = rest, ReadOnce(part), \A o : Reads(goal, o) => Reads(part, o)
        PROVE  ReadOnce(goal)
    BY <1>1, <2>1, <2>5, OnceBehind
  <2>6. CASE x.kind \in {"value", "openQuote"}
    BY <1>3, <2>4, <2>6, ExpressionReads DEF goal, x, rest
  <2>7. CASE x.kind = "null"
    BY <1>3, <2>4, <2>7, ExpressionReads DEF goal, x, rest
  <2>8. CASE x.kind = "binary"
    BY <1>3, <2>4, <2>8, ExpressionReads DEF goal, x, rest
  <2>9. CASE x.kind = "insert"
    BY <1>3, <2>4, <2>9, ExpressionReads DEF goal, x, rest
  <2>10. CASE x.kind = "ref"
    <3>1. PICK part : part = Goal("expression", self, refs, rest)
      OBVIOUS
    <3>2. ReadOnce(part) /\ part.text = rest
      BY <2>3, <3>1, GoalIs DEF Parts
    <3>3. \A o : Reads(goal, o) =>
            \E m : /\ Reads(part, m)
                   /\ o = Outcome(m.expr, [m.refs EXCEPT ![x.name] = createCopy[m.expr]], m.text)
      BY <1>3, <2>10, <3>1, ExpressionReads DEF goal, x, rest
    <3>4. ASSUME NEW o, Reads(goal, o) PROVE IsSequence(o.text) /\ Len(o.text) < Len(text)
      <4>1. PICK m : /\ Reads(part, m)
                     /\ o = Outcome(m.expr, [m.refs EXCEPT ![x.name] = createCopy[m.expr]], m.text)
        BY <3>3, <3>4
      <4>2. o.text = m.text
        BY <4>1, OutcomeIs
      <4>3. IsSequence(m.text) /\ Len(m.text) < Len(rest)
        BY <3>2, <4>1 DEF ReadOnce
      <4>4. Len(m.text) \in Nat
        BY <4>3, SequenceLength
      <4>5. Len(m.text) < Len(text)
        BY <2>1, <4>3, <4>4
      <4> QED BY <4>2, <4>3, <4>5
    <3>5. ASSUME NEW o, NEW p, Reads(goal, o), Reads(goal, p) PROVE o = p
      <4>1. PICK m : /\ Reads(part, m)
                     /\ o = Outcome(m.expr, [m.refs EXCEPT ![x.name] = createCopy[m.expr]], m.text)
        BY <3>3, <3>5
      <4>2. PICK l : /\ Reads(part, l)
                     /\ p = Outcome(l.expr, [l.refs EXCEPT ![x.name] = createCopy[l.expr]], l.text)
        BY <3>3, <3>5
      <4>3. m = l
        BY <3>2, <4>1, <4>2 DEF ReadOnce
      <4> QED BY <4>1, <4>2, <4>3
    <3> QED BY <1>1, <3>4, <3>5, OnceIs DEF goal
  <2>11. CASE x.kind = "array"
    <3>1. PICK part : part = Goal("list", Array(<<>>), refs, rest)
      OBVIOUS
    <3>2. ReadOnce(part) /\ part.text = rest
      BY <2>3, <3>1, GoalIs DEF Parts
    <3>3. \A o : Reads(goal, o) => Reads(part, o)
      BY <1>3, <2>11, <3>1, ExpressionReads DEF goal, x, rest
    <3> QED BY <2>5, <3>2, <3>3 DEF goal
  <2>12. CASE x.kind = "map"
    <3>1. PICK part : part = Goal("table", Map(EmptyTable(Words)), refs, rest)
      OBVIOUS
    <3>2. ReadOnce(part) /\ part.text = rest
      BY <2>3, <3>1, GoalIs DEF Parts
    <3>3. \A o : Reads(goal, o) => Reads(part, o)
      BY <1>3, <2>12, <3>1, ExpressionReads DEF goal, x, rest
    <3> QED BY <2>5, <3>2, <3>3 DEF goal
  <2>13. CASE x.kind \notin {"value", "openQuote", "null", "binary", "insert", "ref", "array", "map"}
    BY <1>3, <2>13, ExpressionReads DEF ReadOnce, goal, x
  <2> QED BY <2>6, <2>7, <2>8, <2>9, <2>10, <2>11, <2>12, <2>13 DEF goal
<1> QED BY <1>2, <1>3 DEF goal

LEMMA ListsOnce ==
  ASSUME NEW n \in Nat, \A m \in Nat : m < n => OnceWithin(Parts, m), OnceWithin({"expression"}, n)
  PROVE  OnceWithin({"list"}, n)
<1> SUFFICES ASSUME NEW self, NEW refs, NEW text, IsSequence(text), Len(text) <= n
             PROVE  ReadOnce(Goal("list", self, refs, text))
  BY DEF OnceWithin
<1> DEFINE goal == Goal("list", self, refs, text)
           trim == Trim(text)
<1>1. goal.text = text
  BY GoalIs
<1> HIDE DEF goal
<1>2. /\ IsSequence(trim) /\ Len(trim) \in Nat /\ Len(text) \in Nat /\ Len(trim) <= Len(text)
      /\ trim # <<>> => IsSequence(Tail(trim)) /\ Len(Tail(trim)) \in Nat /\ Len(Tail(trim)) < Len(trim)
  BY TrimShortens
<1>3. CASE trim = <<>>
  BY <1>3, ListReads DEF ReadOnce, goal
<1>4. CASE trim # <<>> /\ Head(trim).kind = "close"
  <2>1. \A o : Reads(goal, o) => o = Outcome(self, refs, Tail(trim))
    BY <1>4, ListReads DEF goal
  <2> HIDE DEF trim
  <2>2. Len(Tail(trim)) < Len(text)
    BY <1>2, <1>4
  <2> QED BY <1>1, <1>2, <1>4, <2>1, <2>2, OnceOutcome DEF goal
<1>5. CASE trim # <<>> /\ Head(trim).kind # "close"
  <2>1. PICK part : part = Goal("expression", Null, refs, trim)
    OBVIOUS
  <2> DEFINE next(m) == Goal("list", Array(Append(self.list, m.expr)), m.refs, m.text)
  <2>2. \A o : Reads(goal, o) <=> \E m : Reads(part, m) /\ Reads(next(m), o)
    BY <1>5, <2>1, ListReads DEF goal
  <2>3. Len(trim) <= n
    <3> HIDE DEF trim
    <3> QED BY <1>2
  <2> HIDE DEF trim
  <2>4. ReadOnce(part) /\ part.text = trim
    BY <1>2, <2>1, <2>3, GoalIs DEF OnceWithin
  <2>5. ASSUME NEW m, Reads(part, m)
        PROVE  ReadOnce(next(m)) /\ next(m).text = m.text /\ Len(m.text) \in Nat /\ Len(m.text) < Len(text)
    <3>1. IsSequence(m.text) /\ Len(m.text) < Len(trim)
      BY <2>4, <2>5 DEF ReadOnce
    <3>2. Len(m.text) \in Nat /\ Len(m.text) < n /\ Len(m.text) < Len(text)
      BY <1>2, <2>3, <3>1, SequenceLength
    <3> QED BY <3>1, <3>2, GoalIs DEF OnceWithin, Parts
  <2> HIDE DEF next
  <2>6. ASSUME NEW o, Reads(goal, o) PROVE IsSequence(o.text) /\ Len(o.text) < Len(text)
    <3>1. PICK m : Reads(part, m) /\ Reads(next(m), o)
      BY <2>2, <2>6
    <3>2. IsSequence(o.text) /\ Len(o.text) < Len(m.text) /\ Len(m.text) \in Nat /\ Len(m.text) < Len(text)
      BY <2>5, <3>1 DEF ReadOnce
    <3> QED BY <1>2, <3>2, SequenceLength
  <2>7. \A o, p : Reads(goal, o) /\ Reads(goal, p) => o = p
    BY <2>2, <2>4, <2>5 DEF ReadOnce
  <2> QED BY <1>1, <2>6, <2>7, OnceIs DEF goal
<1> QED BY <1>3, <1>4, <1>5 DEF goal

LEMMA TablesOnce ==
  ASSUME NEW n \in Nat, \A m \in Nat : m < n => OnceWithin(Parts, m), OnceWithin({"expression"}, n)
  PROVE  OnceWithin({"table"}, n)
<1> SUFFICES ASSUME NEW self, NEW refs, NEW text, IsSequence(text), Len(text) <= n
             PROVE  ReadOnce(Goal("table", self, refs, text))
  BY DEF OnceWithin
<1> DEFINE goal == Goal("table", self, refs, text)
           trim == Trim(text)
<1>1. goal.text = text
  BY GoalIs
<1> HIDE DEF goal
<1>2. /\ IsSequence(trim) /\ Len(trim) \in Nat /\ Len(text) \in Nat /\ Len(trim) <= Len(text)
      /\ trim # <<>> => IsSequence(Tail(trim)) /\ Len(Tail(trim)) \in Nat /\ Len(Tail(trim)) < Len(trim)
  BY TrimShortens
<1>3. CASE trim = <<>>
  BY <1>3, TableReads DEF ReadOnce, goal
<1>4. CASE trim # <<>> /\ Head(trim).kind = "close"
  <2>1. \A o : Reads(goal, o) => o = Outcome(self, refs, Tail(trim))
    BY <1>4, TableReads DEF goal
  <2> HIDE DEF trim
  <2>2. Len(Tail(trim)) < Len(text)
    BY <1>2, <1>4
  <2> QED BY <1>1, <1>2, <1>4, <2>1, <2>2, OnceOutcome DEF goal
<1>5. CASE trim # <<>> /\ Head(trim).kind # "close"
  <2>1. PICK part : part = Goal("expression", Null, refs, trim)
    OBVIOUS
  <2> DEFINE value(k) == Goal("expression", Invalid, k.refs, k.text)
             next(k, v) == Goal("table", Map([self.hash EXCEPT ![k.expr.data] = v.expr]), v.refs, v.text)
  <2>2. \A o : Reads(goal, o) =>
          \E k, v : Reads(part, k) /\ Reads(value(k), v) /\ Reads(next(k, v), o)
    BY <1>5, <2>1, TableReads DEF goal
  <2>3. Len(trim) <= n
    <3> HIDE DEF trim
    <3> QED BY <1>2
  <2> HIDE DEF trim
  <2>4. ReadOnce(part) /\ part.text = trim
    BY <1>2, <2>1, <2>3, GoalIs DEF OnceWithin
  <2>5. ASSUME NEW k, Reads(part, k)
        PROVE  ReadOnce(value(k)) /\ value(k).text = k.text /\ Len(k.text) \in Nat /\ Len(k.text) < Len(text)
    <3>1. IsSequence(k.text) /\ Len(k.text) < Len(trim)
      BY <2>4, <2>5 DEF ReadOnce
    <3>2. Len(k.text) \in Nat /\ Len(k.text) < n /\ Len(k.text) < Len(text)
      BY <1>2, <2>3, <3>1, SequenceLength
    <3> QED BY <3>1, <3>2, GoalIs DEF OnceWithin, Parts
  <2>6. ASSUME NEW k, Reads(part, k), NEW v, Reads(value(k), v)
        PROVE  /\ ReadOnce(next(k, v)) /\ next(k, v).text = v.text
               /\ Len(v.text) \in Nat /\ Len(v.text) < Len(text)
    <3>1. IsSequence(v.text) /\ Len(v.text) < Len(k.text) /\ Len(k.text) \in Nat /\ Len(k.text) < Len(text)
      BY <2>5, <2>6 DEF ReadOnce
    <3>2. Len(v.text) \in Nat /\ Len(v.text) < n /\ Len(v.text) < Len(text)
      BY <1>2, <3>1, SequenceLength
    <3> QED BY <3>1, <3>2, GoalIs DEF OnceWithin, Parts
  <2> HIDE DEF value, next
  <2>7. ASSUME NEW o, Reads(goal, o) PROVE IsSequence(o.text) /\ Len(o.text) < Len(text)
    <3>1. PICK k, v : Reads(part, k) /\ Reads(value(k), v) /\ Reads(next(k, v), o)
      BY <2>2, <2>7
    <3>2. IsSequence(o.text) /\ Len(o.text) < Len(v.text) /\ Len(v.text) \in Nat /\ Len(v.text) < Len(text)
      BY <2>6, <3>1 DEF ReadOnce
    <3> QED BY <1>2, <3>2, SequenceLength
  <2>8. ASSUME NEW o, NEW p, Reads(goal, o), Reads(goal, p) PROVE o = p
    <3>1. PICK k, v : Reads(part, k) /\ Reads(value(k), v) /\ Reads(next(k, v), o)
      BY <2>2, <2>8
    <3>2. PICK l, w : Reads(part, l) /\ Reads(value(l), w) /\ Reads(next(l, w), p)
      BY <2>2, <2>8
    <3>3. k = l
      BY <2>4, <3>1, <3>2 DEF ReadOnce
    <3>4. v = w
      BY <2>5, <3>1, <3>2, <3>3 DEF ReadOnce
    <3> QED BY <2>6, <3>1, <3>2, <3>3, <3>4 DEF ReadOnce
  <2> QED BY <1>1, <2>7, <2>8, OnceIs DEF goal
<1> QED BY <1>3, <1>4, <1>5 DEF goal

LEMMA AllOnce == \A n \in Nat : OnceWithin(Parts, n)
<1> DEFINE Bad == {n \in Nat : ~OnceWithin(Parts, n)}
<1>1. Bad = {} => \A n \in Nat : OnceWithin(Parts, n)
  OBVIOUS
<1>2. ASSUME Bad # {} PROVE FALSE
  <2>1. PICK n \in Bad : \A m \in Bad : n <= m
    <3>1. Bad \in SUBSET Nat
      OBVIOUS
    <3> HIDE DEF Bad
    <3> QED BY <1>2, <3>1, LeastOf
  <2>2. n \in Nat /\ ~OnceWithin(Parts, n) /\ \A m \in Nat : m < n => OnceWithin(Parts, m)
    BY <2>1
  <2>3. OnceWithin({"expression"}, n) /\ OnceWithin({"list"}, n) /\ OnceWithin({"table"}, n)
    BY <2>2, ExpressionsOnce, ListsOnce, TablesOnce
  <2>4. OnceWithin(Parts, n)
    BY <2>3 DEF OnceWithin, Parts
  <2> QED BY <2>2, <2>4
<1> QED BY <1>1, <1>2

LEMMA DenotesOnce ==
  ASSUME NEW text, IsSequence(text), NEW e, NEW f, Denotes(text, e), Denotes(text, f)
  PROVE  e = f
<1>1. Len(text) \in Nat
  BY SequenceLength
<1>2. ReadOnce(TextGoal(text))
  BY <1>1, AllOnce DEF OnceWithin, TextGoal, Parts
<1> QED BY <1>2 DEF Denotes, ReadOnce

-----------------------------------------------------------------------------
(* What the parser has read and has yet to read mean together what the text *)
(* means.  An activation that waits turns the outcome m of the call it made *)
(* into outcomes o of its own.                                              *)
Then(a, m, o) ==
  CASE a.pc = "element" ->
         Reads(Goal("list", Array(Append(a.self.list, m.expr)), m.refs, m.text), o)
    [] a.pc = "mapKey" ->
         /\ m.expr.type = "Value"
         /\ \E v : /\ Reads(Goal("expression", Invalid, m.refs, m.text), v) /\ v.expr.type # "Invalid"
                   /\ Reads(Goal("table", Map([a.self.hash EXCEPT ![m.expr.data] = v.expr]), v.refs, v.text), o)
    [] a.pc = "mapValue" ->
         /\ m.expr.type # "Invalid"
         /\ Reads(Goal("table", Map([a.self.hash EXCEPT ![a.key] = m.expr]), m.refs, m.text), o)
    [] OTHER ->
         o = Outcome(m.expr, [m.refs EXCEPT ![a.key] = createCopy[m.expr]], m.text)

(* What was wanted of an activation, and of the call it waits for.          *)
Waits(goal, a, part) ==
  /\ \A o : Reads(goal, o) <=> \E m : Reads(part, m) /\ Then(a, m, o)
  /\ a.pc = "ref" => goal.self = part.self

Nothing(goal) == \A o : ~Reads(goal, o)

(* A call that returned has read what was wanted; only white space was left *)
(* for it and it has touched nothing; or it could not, and there is an error. *)
Told(goal) ==
  IF error.code # "None" THEN Nothing(goal)
  ELSE \/ \A o : Reads(goal, o) <=> o = Outcome(ret, internalRefs, str)
       \/ Nothing(goal) /\ str = <<>> /\ ret = goal.self

(* What is left for the running activation.                                 *)
Left ==
  Goal(CASE cur.pc = "array" -> "list" [] cur.pc = "map" -> "table" [] OTHER -> "expression",
       cur.self, internalRefs, str)
Agrees(goal) ==
  CASE cur.pc = "parse" -> goal = Left
    [] cur.pc \in {"array", "map"} ->
         IF error.code # "None" THEN Nothing(goal) ELSE \A o : Reads(goal, o) <=> Reads(Left, o)
    [] OTHER -> \E part : Waits(goal, cur, part) /\ Told(part)

(* goals[i] is what callers[i] wanted of the activation above it.           *)
Wanted(goals) ==
  /\ goals[1] = TextGoal(input)
  /\ \A i \in DOMAIN callers : i # 1 => Waits(goals[i - 1], callers[i], goals[i])
MeansText ==
  result = Running =>
    IF cur.pc = "root" THEN Told(TextGoal(input))
    ELSE \E goals : Wanted(goals) /\ Agrees(goals[Len(callers)])

LEMMA ReturnMeans ==
  ASSUME IInv, cur.pc # "root", input' = input,
         NEW goals, Wanted(goals), NEW goal, goal = goals[Len(callers)],
         NEW self, NEW rest, Return(self, rest), Told(goal)'
  PROVE  MeansText'
<1> DEFINE n == Len(callers)
<1>1. callers # <<>> /\ IsSequence(callers)
  BY DEF IInv, StackInOrder
<1>2. /\ DOMAIN callers' = 1..(n - 1) /\ DOMAIN callers' \subseteq DOMAIN callers /\ n \in DOMAIN callers
      /\ \A i \in DOMAIN callers' : callers'[i] = callers[i]
      /\ cur' = callers[n] /\ Len(callers') = n - 1
  <2>1. Len(callers) \in Nat \ {0} /\ DOMAIN callers = 1..Len(callers)
    BY <1>1 DEF IsSequence
  <2>2. /\ DOMAIN callers' = 1..(n - 1) /\ DOMAIN callers' \subseteq DOMAIN callers /\ n \in DOMAIN callers
        /\ \A i \in DOMAIN callers' : callers'[i] = callers[i]
        /\ cur' = callers[n] /\ IsSequence(callers')
    BY <1>1, PopSequence DEF Return
  <2>3. Len(callers') \in Nat /\ DOMAIN callers' = 1..Len(callers') /\ n - 1 \in Nat
    <3>1. IsSequence(callers')
      BY <2>2
    <3>2. Len(callers') \in Nat /\ DOMAIN callers' = 1..Len(callers')
      BY ONLY <3>1, SequenceLength
    <3>3. n - 1 \in Nat
      BY <2>1
    <3> QED BY <3>2, <3>3
  <2>4. Len(callers') = n - 1
    <3> DEFINE m == Len(callers')
    <3> HIDE DEF n, m
    <3>1. m \in Nat /\ n - 1 \in Nat /\ 1..m = 1..(n - 1)
      BY <2>2, <2>3 DEF m
    <3>2. m = n - 1
      <4>1. \A i \in Nat : i \in 1..m <=> i \in 1..(n - 1)
        BY <3>1
      <4> QED BY <3>1, <4>1
    <3> QED BY <3>2 DEF m
  <2> QED BY <2>2, <2>4
<1>3. n \in Nat \ {0} /\ DOMAIN callers = 1..n
  BY <1>1 DEF IsSequence
<1>4. callers[n].pc \in Resuming /\ (callers[n].pc = "root" <=> n = 1)
  BY <1>2 DEF IInv, StackInOrder
<1>5. CASE n = 1
  BY <1>2, <1>4, <1>5 DEF MeansText, Wanted, TextGoal, Told, Nothing
<1>6. CASE n # 1
  <2>1. Waits(goals[n - 1], callers[n], goal)
    BY <1>2, <1>6 DEF Wanted
  <2>2. Waits(goals[n - 1], cur', goal)
    BY <1>2, <2>1
  <2>3. cur'.pc \in {"element", "mapKey", "mapValue", "ref"}
    BY <1>2, <1>4, <1>6 DEF Resuming
  <2>4. \E part : Waits(goals[n - 1], cur', part) /\ Told(part)'
    BY <2>2
  <2>5. goals[Len(callers')] = goals[n - 1]
    BY <1>2
  <2>6. Wanted(goals)'
    BY <1>2 DEF Wanted, TextGoal
  <2> HIDE DEF n
  <2>7. Agrees(goals[Len(callers)])'
    BY <2>3, <2>4, <2>5 DEF Agrees, Told, Waits
  <2> QED BY <2>3, <2>6, <2>7 DEF MeansText
<1> QED BY <1>5, <1>6

LEMMA CallMeans ==
  ASSUME IInv, cur.pc # "root", input' = input,
         NEW goals, Wanted(goals), NEW goal, goal = goals[Len(callers)],
         NEW caller, NEW self, Call(caller, self),
         NEW part, part = Goal("expression", self, internalRefs', str'), Waits(goal, caller, part)
  PROVE  MeansText'
<1> DEFINE n == Len(callers)
<1> PICK goals2 : goals2 = [i \in 1..(n + 1) |-> IF i = n + 1 THEN part ELSE goals[i]]
  OBVIOUS
<1>1. callers # <<>> /\ IsSequence(callers)
  BY DEF IInv, StackInOrder
<1>2. n \in Nat \ {0} /\ DOMAIN callers = 1..n
  BY <1>1 DEF IsSequence
<1>3. /\ DOMAIN callers' = DOMAIN callers \cup {n + 1}
      /\ \A i \in DOMAIN callers : callers'[i] = callers[i]
      /\ callers'[n + 1] = caller
  BY <1>1, PushSequence DEF Call
<1>4. Len(callers') = n + 1
  <2> DEFINE S == {callers[i] : i \in DOMAIN callers} \cup {caller}
  <2>1. callers \in Seq(S) /\ caller \in S
    BY <1>1 DEF IsSequence
  <2> HIDE DEF S
  <2> QED BY <2>1 DEF Call
<1>5. /\ goals2[n + 1] = part
      /\ \A i \in 1..n : goals2[i] = goals[i]
  BY <1>2
<1>6. Wanted(goals2)'
  <2>1. goals2[1] = TextGoal(input)'
    BY <1>2, <1>5 DEF Wanted, TextGoal
  <2>2. ASSUME NEW i \in DOMAIN callers', i # 1 PROVE Waits(goals2[i - 1], callers'[i], goals2[i])
    <3>1. CASE i = n + 1
      <4>1. i - 1 = n /\ n \in 1..n
        BY <1>2, <3>1
      <4> QED BY <1>3, <1>5, <3>1, <4>1
    <3>2. CASE i # n + 1
      <4>1. i \in DOMAIN callers /\ i \in 1..n /\ i - 1 \in 1..n
        BY <1>2, <1>3, <2>2, <3>2
      <4> QED BY <1>3, <1>5, <2>2, <4>1 DEF Wanted
    <3> QED BY <3>1, <3>2
  <2> QED BY <2>1, <2>2 DEF Wanted, Waits
<1>7. cur'.pc = "parse" /\ part = Left'
  BY DEF Call, Activation, Left
<1>8. Agrees(goals2[Len(callers)])'
  BY <1>4, <1>5, <1>7 DEF Agrees
<1> QED BY <1>6, <1>7, <1>8 DEF MeansText

LEMMA LoopMeans ==
  ASSUME input' = input, callers' = callers, cur'.pc # "root",
         NEW goals, Wanted(goals), NEW goal, goal = goals[Len(callers)], Agrees(goal)'
  PROVE  MeansText'
<1>1. Wanted(goals)'
  BY DEF Wanted, TextGoal, Waits
<1>2. Agrees(goals[Len(callers)])'
  BY DEF Agrees
<1> QED BY <1>1, <1>2 DEF MeansText

(* The caller's table answers the same however often it was asked.          *)
Answers ==
  /\ externalRefs = [n \in Names |-> externalRefs[n]]
  /\ \A n \in Names : Lookup(externalRefs, n) = Lookup(ExternalTable, n)
Insertable(text) == \A i \in DOMAIN text : text[i].kind = "insert" => text[i].name \in Names

LEMMA InsertedName ==
  ASSUME Follows, error.code = "None", Insertable(input), NextIs("insert")
  PROVE  Head(Trim(str)).name \in Names
<1>1. position \in Positions
  BY DEF Follows, Followed, Positions
<1>2. Trim(str) # <<>> /\ Head(Trim(str)).kind = "insert"
  BY DEF NextIs
<1>3. AfterTrim + 1 \in DOMAIN input /\ Head(Trim(str)) = input[AfterTrim + 1]
  BY <1>1, <1>2, TrimPlaces
<1> QED BY <1>2, <1>3 DEF Insertable

LEMMA ParseStepMeans ==
  ASSUME IInv, Follows, Insertable(input), Answers, MeansText,
         \/ ParseEmpty \/ ParseBlank \/ ParseArray \/ ParseMap
         \/ ParseBinary \/ ParseBinaryBad \/ ParseValue \/ ParseValueBad
         \/ ParseRef \/ ParseRefOpen \/ ParseInsert \/ ParseInsertOpen
  PROVE  MeansText'
<1>1. cur.pc = "parse"
  BY DEF ParseEmpty, ParseBlank, ParseArray, ParseMap, ParseBinary, ParseBinaryBad,
         ParseValue, ParseValueBad, ParseRef, ParseRefOpen, ParseInsert, ParseInsertOpen,
         ParseContainer, Parsing
<1>2. error.code = "None" /\ result = Running /\ cur.pc # "root"
  BY <1>1, ParsingIsClean
<1>3. PICK goals : Wanted(goals) /\ Agrees(goals[Len(callers)])
  BY <1>2 DEF MeansText
<1>4. PICK goal : goal = goals[Len(callers)]
  OBVIOUS
<1>5. goal = Goal("expression", cur.self, internalRefs, str) /\ goal.self = cur.self
  BY <1>1, <1>3, <1>4, GoalIs DEF Agrees, Left
<1>6. input' = input
  BY DEF ParseEmpty, ParseBlank, ParseArray, ParseMap, ParseBinary, ParseBinaryBad,
         ParseValue, ParseValueBad, ParseRef, ParseRefOpen, ParseInsert, ParseInsertOpen,
         ParseContainer, Fail, Leaf
<1> DEFINE text == Trim(str)
           x == Head(text)
           tail == Tail(text)
<1>7. ASSUME NEW self, NEW rest, Return(self, rest), Told(goal)' PROVE MeansText'
  BY <1>2, <1>3, <1>4, <1>6, <1>7, ReturnMeans
<1>8. ASSUME NEW self, NEW rest, Return(self, rest), Nothing(goal), error'.code # "None"
      PROVE  MeansText'
  <2>1. Told(goal)'
    BY <1>8 DEF Told, Nothing
  <2> QED BY <1>7, <1>8, <2>1
<1>9. ASSUME NEW code, code # "None", NEW message, Fail(code, message), Nothing(goal)
      PROVE  MeansText'
  BY <1>2, <1>8, <1>9 DEF Fail, FirstError
<1>10. ASSUME NEW self, Leaf(self), \A o : Reads(goal, o) <=> o = Outcome(self, internalRefs, tail)
       PROVE  MeansText'
  <2>1. Return(self, tail) /\ error' = error /\ internalRefs' = internalRefs
    BY <1>10 DEF Leaf
  <2>2. ret' = self /\ str' = tail
    BY <2>1 DEF Return
  <2>3. Told(goal)'
    BY <1>2, <1>10, <2>1, <2>2 DEF Told
  <2> QED BY <1>7, <2>1, <2>3
<1>11. CASE ParseEmpty
  <2>1. Nothing(goal)
    BY <1>5, <1>11, TrimEmpty, ExpressionReads DEF ParseEmpty, Nothing
  <2>2. Return(cur.self, <<>>) /\ error'.code # "None"
    BY <1>11 DEF ParseEmpty
  <2> QED BY <1>8, <2>1, <2>2
<1>12. CASE ParseBlank
  <2>1. Nothing(goal)
    BY <1>5, <1>12, ExpressionReads DEF ParseBlank, Nothing
  <2>2. Return(cur.self, <<>>) /\ error' = error
    BY <1>12 DEF ParseBlank
  <2>3. Told(goal)'
    BY <1>2, <1>5, <2>1, <2>2 DEF Return, Told, Nothing
  <2> QED BY <1>7, <2>2, <2>3
<1>13. CASE ParseArray \/ ParseMap
  <2> DEFINE kind == IF ParseArray THEN "array" ELSE "map"
  <2>1. PICK want, self, pc :
          /\ cur' = Activation(pc, self, NoKey, 0) /\ str' = tail
          /\ \/ pc = "array" /\ want = "list" /\ self = Array(<<>>)
             \/ pc = "map" /\ want = "table" /\ self = Map(EmptyTable(Words))
          /\ text # <<>> /\ x.kind = pc
          /\ UNCHANGED <<callers, ret, error, internalRefs>>
    BY <1>13 DEF ParseArray, ParseMap, ParseContainer, NextIs
  <2>2. \A o : Reads(goal, o) <=> Reads(Goal(want, self, internalRefs, tail), o)
    BY <1>5, <2>1, ExpressionReads
  <2>3. cur'.pc = pc /\ cur'.self = self
    BY <2>1 DEF Activation
  <2>4. Left' = Goal(want, self, internalRefs, tail)
    BY <2>1, <2>3 DEF Left
  <2>5. Agrees(goal)'
    BY <1>2, <2>1, <2>2, <2>3, <2>4 DEF Agrees
  <2> QED BY <1>3, <1>4, <1>6, <2>1, <2>3, <2>5, LoopMeans
<1>14. CASE ParseBinary
  <2>1. text # <<>> /\ x.kind = "binary" /\ Leaf(BinaryData(x.blob))
    BY <1>14 DEF ParseBinary, NextIs
  <2>2. \A o : Reads(goal, o) <=> o = Outcome(BinaryData(x.blob), internalRefs, tail)
    BY <1>5, <2>1, ExpressionReads
  <2> QED BY <1>10, <2>1, <2>2
<1>15. CASE ParseValue
  <2>1. CASE text # <<>> /\ x.kind \in {"value", "openQuote"} /\ Leaf(Value(x.word))
    <3>1. \A o : Reads(goal, o) <=> o = Outcome(Value(x.word), internalRefs, tail)
      BY <1>5, <2>1, ExpressionReads
    <3> QED BY <1>10, <2>1, <3>1
  <2>2. CASE text # <<>> /\ x.kind = "null" /\ Leaf(Null)
    <3>1. \A o : Reads(goal, o) <=> o = Outcome(Null, internalRefs, tail)
      BY <1>5, <2>2, ExpressionReads
    <3> QED BY <1>10, <2>2, <3>1
  <2> QED BY <1>15, <2>1, <2>2 DEF ParseValue, NextIs
<1>16. CASE ParseBinaryBad \/ ParseValueBad \/ ParseRefOpen
  <2>1. text # <<>> /\ x.kind \in {"openBinary", "badBinary", "badEscape", "close", "junk", "openRef"}
    BY <1>16 DEF ParseBinaryBad, ParseValueBad, ParseRefOpen, NextIs
  <2>2. Nothing(goal)
    BY <1>5, <2>1, ExpressionReads DEF Nothing
  <2> QED BY <1>9, <1>16, <2>2 DEF ParseBinaryBad, ParseValueBad, ParseRefOpen
<1>17. CASE ParseInsertOpen
  <2>1. text # <<>> /\ x.kind = "openInsert"
    BY <1>17 DEF ParseInsertOpen, NextIs
  <2>2. Nothing(goal)
    BY <1>5, <2>1, ExpressionReads DEF Nothing
  <2>3. Return(cur.self, <<>>) /\ error'.code # "None"
    BY <1>17 DEF ParseInsertOpen
  <2> QED BY <1>8, <2>2, <2>3
<1>18. CASE ParseRef
  <2>1. text # <<>> /\ x.kind = "ref"
    BY <1>18 DEF ParseRef, NextIs
  <2>2. CASE x.name \in InvalidNames
    <3>1. Nothing(goal)
      BY <1>5, <2>1, <2>2, ExpressionReads DEF Nothing
    <3> QED BY <1>9, <1>18, <2>2, <3>1 DEF ParseRef
  <2>3. CASE x.name \notin InvalidNames
    <3>1. PICK caller : caller = Activation("ref", cur.self, x.name, 0)
      OBVIOUS
    <3>2. Call(caller, cur.self) /\ str' = tail /\ internalRefs' = internalRefs
      BY <1>18, <2>3, <3>1 DEF ParseRef
    <3>3. PICK part : part = Goal("expression", cur.self, internalRefs, tail)
      OBVIOUS
    <3>4. caller.pc = "ref" /\ caller.key = x.name
      BY <3>1 DEF Activation
    <3>5. \A m, o : Then(caller, m, o) <=> o = Outcome(m.expr, [m.refs EXCEPT ![x.name] = createCopy[m.expr]], m.text)
      BY <3>4 DEF Then
    <3>6. \A o : Reads(goal, o) <=>
            \E m : Reads(part, m) /\ o = Outcome(m.expr, [m.refs EXCEPT ![x.name] = createCopy[m.expr]], m.text)
      BY <1>5, <2>1, <2>3, <3>3, ExpressionReads
    <3>7. part.self = goal.self
      BY <1>5, <3>3, GoalIs
    <3>8. Waits(goal, caller, part)
      BY <3>5, <3>6, <3>7 DEF Waits
    <3>9. part = Goal("expression", cur.self, internalRefs', str')
      BY <3>2, <3>3
    <3> QED BY <1>2, <1>3, <1>4, <1>6, <3>2, <3>8, <3>9, CallMeans
  <2> QED BY <2>2, <2>3
<1>19. CASE ParseInsert
  <2>1. /\ NextIs("insert") /\ text # <<>> /\ x.kind = "insert" /\ internalRefs' = internalRefs
    BY <1>19 DEF ParseInsert, NextIs
  <2>2. x.name \in Names
    BY <1>2, <2>1, InsertedName
  <2>3. Bound(internalRefs, x.name) = IF internalRefs[x.name] # Absent THEN internalRefs[x.name]
                                      ELSE Lookup(externalRefs, x.name)
    BY <2>2 DEF Bound, Answers
  <2>4. CASE Bound(internalRefs, x.name) = Absent
    <3>1. Nothing(goal)
      BY <1>5, <2>1, <2>4, ExpressionReads DEF Nothing
    <3>2. Return(cur.self, <<>>) /\ error'.code # "None"
      BY <1>2, <1>19, <2>3, <2>4 DEF ParseInsert, FirstError
    <3> QED BY <1>8, <3>1, <3>2
  <2>5. CASE Bound(internalRefs, x.name) # Absent
    <3>1. PICK found : found = copyInto(cur.self, Bound(internalRefs, x.name))
      OBVIOUS
    <3>2. \A o : Reads(goal, o) <=> o = Outcome(found, internalRefs, tail)
      BY <1>5, <2>1, <2>5, <3>1, ExpressionReads
    <3>3. Return(found, tail) /\ error' = error
      BY <1>19, <2>3, <2>5, <3>1 DEF ParseInsert
    <3>4. ret' = found /\ str' = tail
      BY <3>3 DEF Return
    <3>5. Told(goal)'
      BY <1>2, <2>1, <3>2, <3>3, <3>4 DEF Told
    <3> QED BY <1>7, <3>3, <3>5
  <2> QED BY <2>4, <2>5
<1> QED BY <1>11, <1>12, <1>13, <1>14, <1>15, <1>16, <1>17, <1>18, <1>19

LEMMA LoopStepMeans ==
  ASSUME IInv, MeansText,
         \/ ArrayNoParen \/ ArrayClose \/ ArrayElement \/ ArrayElementParsed
         \/ MapNoParen \/ MapClose \/ MapKey \/ MapKeyParsed \/ MapValueParsed
         \/ RefParsed
  PROVE  MeansText'
<1>1. cur.pc \in {"array", "map", "element", "mapKey", "mapValue", "ref"}
  BY DEF ArrayNoParen, ArrayClose, ArrayElement, ArrayElementParsed, MapNoParen, MapClose,
         MapKey, MapKeyParsed, MapValueParsed, RefParsed, CloseContainer
<1>2. /\ result = Running /\ cur.pc # "root"
      /\ error.code # "None" => cur.pc # "array" /\ str = <<>> /\ ret.type # "Value"
  BY <1>1 DEF IInv, Answered, OnlyUnwinds
<1>3. PICK goals : Wanted(goals) /\ Agrees(goals[Len(callers)])
  BY <1>2 DEF MeansText
<1>4. PICK goal : goal = goals[Len(callers)]
  OBVIOUS
<1>5. Agrees(goal)
  BY <1>3, <1>4
<1>6. input' = input
  BY DEF ArrayNoParen, ArrayClose, ArrayElement, ArrayElementParsed, MapNoParen, MapClose,
         MapKey, MapKeyParsed, MapValueParsed, RefParsed, CloseContainer, Fail, Leaf
<1> DEFINE text == Trim(str)
<1>7. ASSUME NEW self, NEW rest, Return(self, rest), Told(goal)' PROVE MeansText'
  BY <1>2, <1>3, <1>4, <1>6, <1>7, ReturnMeans
<1>8. ASSUME NEW self, NEW rest, Return(self, rest), Nothing(goal), error'.code # "None"
      PROVE  MeansText'
  <2>1. Told(goal)'
    BY <1>8 DEF Told, Nothing
  <2> QED BY <1>7, <1>8, <2>1
<1>9. ASSUME NEW code, code # "None", NEW message, Fail(code, message), Nothing(goal)
      PROVE  MeansText'
  BY <1>2, <1>8, <1>9 DEF Fail, FirstError
<1>10. ASSUME cur.pc \in {"array", "map"}
       PROVE  IF error.code # "None" THEN Nothing(goal)
              ELSE \A o : Reads(goal, o) <=>
                     Reads(Goal(IF cur.pc = "array" THEN "list" ELSE "table", cur.self, internalRefs, str), o)
  BY <1>5, <1>10 DEF Agrees, Left
<1>11. CASE ArrayNoParen \/ MapNoParen
  <2>1. Trim(str) = <<>> /\ cur.pc \in {"array", "map"}
    BY <1>11 DEF ArrayNoParen, ArrayUnclosed, MapNoParen
  <2>2. Nothing(goal)
    BY <1>10, <2>1, ListReads, TableReads DEF Nothing
  <2> QED BY <1>9, <1>11, <2>2 DEF ArrayNoParen, MapNoParen
<1>12. CASE ArrayClose \/ MapClose
  <2>1. cur.pc \in {"array", "map"} /\ text # <<>> /\ Head(text).kind = "close" /\ Leaf(cur.self)
    BY <1>12 DEF ArrayClose, MapClose, CloseContainer, NextIs
  <2>2. error.code = "None"
    BY <1>2, <2>1, TrimEmpty
  <2>3. \A o : Reads(goal, o) <=> o = Outcome(cur.self, internalRefs, Tail(text))
    BY <1>10, <2>1, <2>2, ListReads, TableReads
  <2>4. Return(cur.self, Tail(text)) /\ error' = error /\ internalRefs' = internalRefs
    BY <2>1 DEF Leaf
  <2>5. ret' = cur.self /\ str' = Tail(text)
    BY <2>4 DEF Return
  <2>6. Told(goal)'
    BY <2>2, <2>3, <2>4, <2>5 DEF Told
  <2> QED BY <1>7, <2>4, <2>6
<1>13. CASE ArrayElement
  <2>1. /\ cur.pc = "array" /\ ~ArrayUnclosed /\ ~NextIs("close")
        /\ Call(At("element"), Null) /\ str' = text /\ internalRefs' = internalRefs
    BY <1>13 DEF ArrayElement
  <2>2. error.code = "None" /\ text # <<>> /\ Head(text).kind # "close"
    BY <1>2, <2>1 DEF ArrayUnclosed, NextIs
  <2>3. PICK caller : caller = At("element")
    OBVIOUS
  <2>4. caller.pc = "element" /\ caller.self = cur.self
    BY <2>3 DEF At, Activation
  <2>5. PICK part : part = Goal("expression", Null, internalRefs, text)
    OBVIOUS
  <2>6. \A m, o : Then(caller, m, o) <=>
          Reads(Goal("list", Array(Append(cur.self.list, m.expr)), m.refs, m.text), o)
    BY <2>4 DEF Then
  <2>7. \A o : Reads(goal, o) <=>
          \E m : /\ Reads(part, m)
                 /\ Reads(Goal("list", Array(Append(cur.self.list, m.expr)), m.refs, m.text), o)
    BY <1>10, <2>1, <2>2, <2>5, ListReads
  <2>8. Waits(goal, caller, part)
    BY <2>4, <2>6, <2>7 DEF Waits
  <2> QED BY <1>2, <1>3, <1>4, <1>6, <2>1, <2>3, <2>5, <2>8, CallMeans
<1>14. CASE MapKey
  <2>1. /\ cur.pc = "map" /\ text # <<>> /\ Head(text).kind # "close"
        /\ Call(Activation("mapKey", cur.self, NoKey, AfterTrim), Null)
        /\ str' = text /\ internalRefs' = internalRefs
    BY <1>14 DEF MapKey, NextIs
  <2>2. error.code = "None"
    BY <1>2, <2>1, TrimEmpty
  <2>3. PICK caller : caller = Activation("mapKey", cur.self, NoKey, AfterTrim)
    OBVIOUS
  <2>4. caller.pc = "mapKey" /\ caller.self = cur.self
    BY <2>3 DEF Activation
  <2>5. PICK part : part = Goal("expression", Null, internalRefs, text)
    OBVIOUS
  <2>6. \A k, o : Then(caller, k, o) <=>
          /\ k.expr.type = "Value"
          /\ \E v : /\ Reads(Goal("expression", Invalid, k.refs, k.text), v) /\ v.expr.type # "Invalid"
                    /\ Reads(Goal("table", Map([cur.self.hash EXCEPT ![k.expr.data] = v.expr]), v.refs, v.text), o)
    BY <2>4 DEF Then
  <2>7. \A o : Reads(goal, o) <=>
          \E k, v :
            /\ Reads(part, k) /\ k.expr.type = "Value"
            /\ Reads(Goal("expression", Invalid, k.refs, k.text), v) /\ v.expr.type # "Invalid"
            /\ Reads(Goal("table", Map([cur.self.hash EXCEPT ![k.expr.data] = v.expr]), v.refs, v.text), o)
    <3>1. \A o : Reads(goal, o) <=> Reads(Goal("table", cur.self, internalRefs, str), o)
      BY <1>10, <2>1, <2>2
    <3>2. Trim(str) # <<>> /\ Head(Trim(str)).kind # "close"
      BY <2>1
    <3>3. PICK self, refs, left : self = cur.self /\ refs = internalRefs /\ left = str
      OBVIOUS
    <3>4. ASSUME NEW o
          PROVE  Reads(Goal("table", self, refs, left), o) <=>
                   \E k, v :
                     /\ Reads(Goal("expression", Null, refs, Trim(left)), k) /\ k.expr.type = "Value"
                     /\ Reads(Goal("expression", Invalid, k.refs, k.text), v) /\ v.expr.type # "Invalid"
                     /\ Reads(Goal("table", Map([self.hash EXCEPT ![k.expr.data] = v.expr]), v.refs, v.text), o)
      <4>1. Trim(left) # <<>> /\ Head(Trim(left)).kind # "close"
        BY <3>2, <3>3
      <4> QED BY ONLY <4>1, TableReads
    <3>5. part = Goal("expression", Null, refs, Trim(left))
      BY <2>5, <3>3
    <3> QED BY <3>1, <3>3, <3>4, <3>5
  <2>8. Waits(goal, caller, part)
    BY <2>4, <2>6, <2>7 DEF Waits
  <2> QED BY <1>2, <1>3, <1>4, <1>6, <2>1, <2>3, <2>5, <2>8, CallMeans
<1>15. ASSUME cur.pc \notin {"array", "map"}
       PROVE  \E part : Waits(goal, cur, part) /\ Told(part)
  BY <1>1, <1>5, <1>15 DEF Agrees
<1>16. CASE ArrayElementParsed
  <2>1. cur.pc = "element" /\ internalRefs' = internalRefs /\ error' = error
    BY <1>16 DEF ArrayElementParsed
  <2>2. PICK part : Waits(goal, cur, part) /\ Told(part)
    BY <1>15, <2>1
  <2>3. \A m, o : Then(cur, m, o) <=>
          Reads(Goal("list", Array(Append(cur.self.list, m.expr)), m.refs, m.text), o)
    BY <2>1 DEF Then
  <2>4. CASE error.code # "None"
    <3>1. Nothing(goal)
      BY <2>2, <2>4 DEF Told, Nothing, Waits
    <3>2. Return(cur.self, <<>>) /\ error'.code # "None"
      BY <1>16, <2>1, <2>4 DEF ArrayElementParsed
    <3> QED BY <1>8, <3>1, <3>2
  <2>5. CASE error.code = "None"
    <3>1. PICK more : more = Array(Append(cur.self.list, ret))
      OBVIOUS
    <3>2. /\ cur' = Activation("array", more, NoKey, 0)
          /\ UNCHANGED <<str, callers, ret>>
      BY <1>16, <2>5, <3>1 DEF ArrayElementParsed
    <3>3. cur'.pc = "array" /\ cur'.self = more
      BY <3>2 DEF Activation
    <3>4. Left' = Goal("list", more, internalRefs, str)
      BY <2>1, <3>2, <3>3 DEF Left
    <3>5. \A o : Reads(goal, o) <=> Reads(Goal("list", more, internalRefs, str), o)
      <4>1. CASE \A m : Reads(part, m) <=> m = Outcome(ret, internalRefs, str)
        <5>1. PICK m : m = Outcome(ret, internalRefs, str)
          OBVIOUS
        <5>2. m.expr = ret /\ m.refs = internalRefs /\ m.text = str
          BY <5>1, OutcomeIs
        <5> QED BY <2>2, <2>3, <3>1, <4>1, <5>1, <5>2 DEF Waits
      <4>2. CASE Nothing(part) /\ str = <<>>
        BY <2>2, <4>2, TrimEmpty, ListReads DEF Waits, Nothing
      <4> QED BY <2>2, <2>5, <4>1, <4>2 DEF Told
    <3>6. Agrees(goal)'
      BY <2>1, <2>5, <3>3, <3>4, <3>5 DEF Agrees
    <3> QED BY <1>3, <1>4, <1>6, <3>2, <3>3, <3>6, LoopMeans
  <2> QED BY <2>4, <2>5
<1>17. CASE MapKeyParsed
  <2>1. cur.pc = "mapKey" /\ internalRefs' = internalRefs
    BY <1>17 DEF MapKeyParsed
  <2>2. PICK part : Waits(goal, cur, part) /\ Told(part)
    BY <1>15, <2>1
  <2> DEFINE value(k) == Goal("expression", Invalid, k.refs, k.text)
             next(k, v) == Goal("table", Map([cur.self.hash EXCEPT ![k.expr.data] = v.expr]), v.refs, v.text)
  <2>3. \A k, o : Then(cur, k, o) <=>
          /\ k.expr.type = "Value"
          /\ \E v : Reads(value(k), v) /\ v.expr.type # "Invalid" /\ Reads(next(k, v), o)
    BY <2>1 DEF Then
  <2> HIDE DEF value, next
  <2>4. error.code # "None" => Nothing(goal)
    BY <2>2 DEF Told, Nothing, Waits
  <2>5. CASE ret.type # "Value"
    <3>1. Nothing(goal)
      <4>1. CASE \A m : Reads(part, m) <=> m = Outcome(ret, internalRefs, str)
        BY <2>2, <2>3, <2>5, <4>1, OutcomeIs DEF Waits, Nothing
      <4>2. CASE Nothing(part)
        BY <2>2, <4>2 DEF Waits, Nothing
      <4> QED BY <2>2, <2>4, <4>1, <4>2 DEF Told
    <3>2. Return(cur.self, <<>>) /\ error'.code # "None"
      BY <1>17, <2>5 DEF MapKeyParsed, FirstError
    <3> QED BY <1>8, <3>1, <3>2
  <2>6. CASE ret.type = "Value"
    <3>1. error.code = "None"
      BY <1>2, <2>6
    <3>2. PICK caller : caller = Activation("mapValue", cur.self, ret.data, cur.prev)
      OBVIOUS
    <3>3. caller.pc = "mapValue" /\ caller.self = cur.self /\ caller.key = ret.data
      BY <3>2 DEF Activation
    <3>4. Call(caller, Invalid) /\ str' = str
      BY <1>17, <2>6, <3>2 DEF MapKeyParsed
    <3>5. PICK then : then = Goal("expression", Invalid, internalRefs, str)
      OBVIOUS
    <3>6. \A v, o : Then(caller, v, o) <=>
            /\ v.expr.type # "Invalid"
            /\ Reads(Goal("table", Map([cur.self.hash EXCEPT ![ret.data] = v.expr]), v.refs, v.text), o)
      BY <3>3 DEF Then
    <3>7. \A o : Reads(goal, o) <=>
            \E v : /\ Reads(then, v) /\ v.expr.type # "Invalid"
                   /\ Reads(Goal("table", Map([cur.self.hash EXCEPT ![ret.data] = v.expr]), v.refs, v.text), o)
      <4>1. CASE \A m : Reads(part, m) <=> m = Outcome(ret, internalRefs, str)
        <5>1. PICK k : k = Outcome(ret, internalRefs, str)
          OBVIOUS
        <5>2. k.expr = ret /\ k.refs = internalRefs /\ k.text = str
          BY <5>1, OutcomeIs
        <5>3. /\ value(k) = then
              /\ \A v : next(k, v) = Goal("table", Map([cur.self.hash EXCEPT ![ret.data] = v.expr]), v.refs, v.text)
          BY <3>5, <5>2 DEF value, next
        <5>4. \A o : Reads(goal, o) <=> Then(cur, k, o)
          BY <2>2, <4>1, <5>1 DEF Waits
        <5> QED BY <2>3, <2>6, <5>2, <5>3, <5>4
      <4>2. CASE Nothing(part) /\ str = <<>>
        <5>1. Nothing(goal)
          BY <2>2, <4>2 DEF Waits, Nothing
        <5>2. Nothing(then)
          BY <3>5, <4>2, TrimEmpty, ExpressionReads DEF Nothing
        <5> QED BY <5>1, <5>2 DEF Nothing
      <4> QED BY <2>2, <3>1, <4>1, <4>2 DEF Told
    <3>8. Waits(goal, caller, then)
      BY <3>3, <3>6, <3>7 DEF Waits
    <3>9. then = Goal("expression", Invalid, internalRefs', str')
      BY <2>1, <3>4, <3>5
    <3> QED BY <1>2, <1>3, <1>4, <1>6, <3>4, <3>8, <3>9, CallMeans
  <2> QED BY <2>5, <2>6
<1>18. CASE MapValueParsed
  <2>1. cur.pc = "mapValue" /\ internalRefs' = internalRefs
    BY <1>18 DEF MapValueParsed
  <2>2. PICK part : Waits(goal, cur, part) /\ Told(part)
    BY <1>15, <2>1
  <2>3. \A m, o : Then(cur, m, o) <=>
          /\ m.expr.type # "Invalid"
          /\ Reads(Goal("table", Map([cur.self.hash EXCEPT ![cur.key] = m.expr]), m.refs, m.text), o)
    BY <2>1 DEF Then
  <2>4. error.code # "None" => Nothing(goal)
    BY <2>2 DEF Told, Nothing, Waits
  <2>5. CASE ret.type = "Invalid"
    <3>1. Nothing(goal)
      <4>1. CASE \A m : Reads(part, m) <=> m = Outcome(ret, internalRefs, str)
        <5>1. PICK m : m = Outcome(ret, internalRefs, str)
          OBVIOUS
        <5>2. m.expr = ret
          BY <5>1, OutcomeIs
        <5>3. \A o : ~Then(cur, m, o)
          BY <2>3, <2>5, <5>2
        <5>4. \A o : Reads(goal, o) <=> Then(cur, m, o)
          BY <2>2, <4>1, <5>1 DEF Waits
        <5> QED BY <5>3, <5>4 DEF Nothing
      <4>2. CASE Nothing(part)
        BY <2>2, <4>2 DEF Waits, Nothing
      <4> QED BY <2>2, <2>4, <4>1, <4>2 DEF Told
    <3>2. Return(cur.self, <<>>) /\ error'.code # "None"
      BY <1>18, <2>5 DEF MapValueParsed
    <3> QED BY <1>8, <3>1, <3>2
  <2>6. CASE ret.type # "Invalid"
    <3>1. PICK more : more = Map([cur.self.hash EXCEPT ![cur.key] = ret])
      OBVIOUS
    <3>2. /\ cur' = Activation("map", more, NoKey, 0)
          /\ UNCHANGED <<str, callers, ret, error>>
      BY <1>18, <2>6, <3>1 DEF MapValueParsed
    <3>3. cur'.pc = "map" /\ cur'.self = more
      BY <3>2 DEF Activation
    <3>4. Left' = Goal("table", more, internalRefs, str)
      BY <2>1, <3>2, <3>3 DEF Left
    <3>5. error.code = "None" => \A o : Reads(goal, o) <=> Reads(Goal("table", more, internalRefs, str), o)
      <4>1. CASE \A m : Reads(part, m) <=> m = Outcome(ret, internalRefs, str)
        <5>1. PICK m : m = Outcome(ret, internalRefs, str)
          OBVIOUS
        <5>2. m.expr = ret /\ m.refs = internalRefs /\ m.text = str
          BY <5>1, OutcomeIs
        <5> QED BY <2>2, <2>3, <2>6, <3>1, <4>1, <5>1, <5>2 DEF Waits
      <4>2. CASE Nothing(part) /\ str = <<>>
        BY <2>2, <4>2, TrimEmpty, TableReads DEF Waits, Nothing
      <4> QED BY <2>2, <4>1, <4>2 DEF Told
    <3>6. Agrees(goal)'
      BY <2>1, <2>4, <3>2, <3>3, <3>4, <3>5 DEF Agrees, Nothing
    <3> QED BY <1>3, <1>4, <1>6, <3>2, <3>3, <3>6, LoopMeans
  <2> QED BY <2>5, <2>6
<1>19. CASE RefParsed
  <2>1. cur.pc = "ref" /\ error' = error
    BY <1>19 DEF RefParsed
  <2>2. PICK part : Waits(goal, cur, part) /\ Told(part)
    BY <1>15, <2>1
  <2>3. \A m, o : Then(cur, m, o) <=>
          o = Outcome(m.expr, [m.refs EXCEPT ![cur.key] = createCopy[m.expr]], m.text)
    BY <2>1 DEF Then
  <2>4. CASE error.code # "None"
    <3>1. Nothing(goal)
      BY <2>2, <2>4 DEF Told, Nothing, Waits
    <3>2. Return(ret, <<>>) /\ error'.code # "None"
      BY <1>19, <2>1, <2>4 DEF RefParsed
    <3> QED BY <1>8, <3>1, <3>2
  <2>5. CASE error.code = "None"
    <3>1. internalRefs' = [internalRefs EXCEPT ![cur.key] = createCopy[ret]] /\ Return(ret, str)
      BY <1>19, <2>5 DEF RefParsed
    <3>2. ret' = ret /\ str' = str
      BY <3>1 DEF Return
    <3>3. CASE \A m : Reads(part, m) <=> m = Outcome(ret, internalRefs, str)
      <4>1. PICK m : m = Outcome(ret, internalRefs, str)
        OBVIOUS
      <4>2. m.expr = ret /\ m.refs = internalRefs /\ m.text = str
        BY <4>1, OutcomeIs
      <4>3. \A o : Reads(goal, o) <=> o = Outcome(ret, internalRefs', str)
        <5>1. \A o : Reads(goal, o) <=> Then(cur, m, o)
          BY <2>2, <3>3, <4>1 DEF Waits
        <5>2. \A o : Then(cur, m, o) <=> o = Outcome(m.expr, [m.refs EXCEPT ![cur.key] = createCopy[m.expr]], m.text)
          BY <2>3
        <5>3. [m.refs EXCEPT ![cur.key] = createCopy[m.expr]] = internalRefs'
          BY <3>1, <4>2
        <5> QED BY <4>2, <5>1, <5>2, <5>3
      <4>4. Told(goal)'
        BY <2>1, <2>5, <3>2, <4>3 DEF Told
      <4> QED BY <1>7, <3>1, <4>4
    <3>4. CASE Nothing(part) /\ str = <<>> /\ ret = part.self
      <4>1. Nothing(goal) /\ ret = goal.self
        BY <2>1, <2>2, <3>4 DEF Waits, Nothing
      <4>2. Told(goal)'
        BY <2>1, <2>5, <3>2, <3>4, <4>1 DEF Told, Nothing
      <4> QED BY <1>7, <3>1, <4>2
    <3> QED BY <2>2, <2>5, <3>3, <3>4 DEF Told
  <2> QED BY <2>4, <2>5
<1> QED BY <1>11, <1>12, <1>13, <1>14, <1>16, <1>17, <1>18, <1>19

LEMMA FinishMeans ==
  ASSUME IInv, MeansText, Finish
  PROVE  \A e : Denotes(input, e) <=> result' # NULL /\ e = result'
<1>1. cur.pc = "root" /\ result = Running /\ ret.type \in Types
  BY DEF Finish, IInv
<1>2. PICK goal : goal = TextGoal(input)
  OBVIOUS
<1>3. Told(goal) /\ goal.self = Invalid
  BY <1>1, <1>2, GoalIs DEF MeansText, TextGoal
<1>4. /\ result' = IF FinalError.code = "None" THEN ret ELSE NULL
      /\ ret # NULL
  BY <1>1 DEF Finish, Types, NULL
<1>5. ASSUME Nothing(goal), error.code # "None" \/ ret = Invalid
      PROVE  \A e : Denotes(input, e) <=> result' # NULL /\ e = result'
  <2>1. FinalError.code # "None"
    BY <1>5 DEF FinalError, Invalid
  <2>2. \A e : ~Denotes(input, e)
    BY <1>2, <1>5 DEF Nothing, Denotes
  <2> QED BY <1>4, <2>1, <2>2
<1>6. ASSUME error.code = "None", \A o : Reads(goal, o) <=> o = Outcome(ret, internalRefs, str)
      PROVE  \A e : Denotes(input, e) <=> result' # NULL /\ e = result'
  <2>1. PICK m : m = Outcome(ret, internalRefs, str)
    OBVIOUS
  <2>2. m.expr = ret /\ m.text = str
    BY <2>1, OutcomeIs
  <2>3. \A e : Denotes(input, e) <=> ret = e /\ ret.type # "Invalid" /\ Trim(str) = <<>>
    BY <1>2, <1>6, <2>1, <2>2 DEF Denotes
  <2>4. FinalError.code = "None" <=> ret.type # "Invalid" /\ Trim(str) = <<>>
    BY <1>6 DEF FinalError, NoError
  <2> QED BY <1>4, <2>3, <2>4
<1> QED BY <1>3, <1>5, <1>6 DEF Told

(* The caller has the expression the text denotes, or the text denotes none *)
(* and it has the error.                                                    *)
AnswersTheText == result # Running => \A e : Denotes(input, e) <=> result # NULL /\ e = result

Meant == Insertable(input) /\ Answers /\ MeansText /\ AnswersTheText

LEMMA InitMeans ==
  ASSUME NEW S, ExternalTable \in [Names -> S],
         \A text \in Inputs : Insertable(text),
         Init
  PROVE  Meant
<1>1. PICK text \in Inputs : Start(text)
  BY DEF Init
<1>2. Insertable(input) /\ AnswersTheText
  BY <1>1 DEF Start, AnswersTheText
<1>3. Answers
  BY <1>1 DEF Start, Answers
<1>4. PICK goals : goals = <<TextGoal(input)>>
  OBVIOUS
<1>5. Wanted(goals)
  BY <1>1, <1>4 DEF Start, Wanted
<1>6. cur.pc = "parse" /\ Left = TextGoal(input)
  BY <1>1 DEF Start, Activation, Left, TextGoal
<1>7. goals[Len(callers)] = TextGoal(input)
  BY <1>1, <1>4 DEF Start
<1>8. MeansText
  BY <1>5, <1>6, <1>7 DEF MeansText, Agrees
<1> QED BY <1>2, <1>3, <1>8 DEF Meant

LEMMA AnswersStay ==
  ASSUME Answers, NEW name \in Names, externalRefs' = AfterLookup(externalRefs, name)
  PROVE  Answers'
<1>1. externalRefs' = [n \in Names |-> IF n = name THEN Lookup(externalRefs, name) ELSE externalRefs[n]]
  BY DEF Answers, AfterLookup
<1>2. \A n \in Names : Lookup(externalRefs, n)' = Lookup(externalRefs, n)
  BY <1>1 DEF Lookup
<1> QED BY <1>1, <1>2 DEF Answers

LEMMA NextMeans ==
  ASSUME IInv, Follows, Meant, [Next]_vars
  PROVE  Meant'
<1>1. input' = input
  BY DEF Next, Done, Step, vars, ParseEmpty, ParseBlank, ParseArray, ParseMap,
         ParseBinary, ParseBinaryBad, ParseValue, ParseValueBad, ParseRef, ParseRefOpen,
         ParseInsert, ParseInsertOpen, ParseContainer, ArrayNoParen, ArrayClose,
         ArrayElement, ArrayElementParsed, MapNoParen, MapClose, MapKey, MapKeyParsed,
         MapValueParsed, RefParsed, CloseContainer, Leaf, Fail, Finish
<1>2. Insertable(input)'
  BY <1>1 DEF Meant, Insertable
<1>3. Answers'
  <2>1. CASE externalRefs' = externalRefs
    BY <2>1 DEF Meant, Answers, Lookup
  <2>2. CASE externalRefs' # externalRefs
    <3>1. ParseInsert
      BY <2>2
         DEF Next, Done, Step, vars, ParseEmpty, ParseBlank, ParseArray, ParseMap,
         ParseBinary, ParseBinaryBad, ParseValue, ParseValueBad, ParseRef, ParseRefOpen,
         ParseInsertOpen, ParseContainer, ArrayNoParen, ArrayClose,
         ArrayElement, ArrayElementParsed, MapNoParen, MapClose, MapKey, MapKeyParsed,
         MapValueParsed, RefParsed, CloseContainer, Leaf, Fail, Finish
    <3>2. cur.pc = "parse" /\ NextIs("insert")
      BY <3>1 DEF ParseInsert, Parsing
    <3>3. error.code = "None"
      BY <3>2, ParsingIsClean
    <3>4. PICK name : name = Head(Trim(str)).name
      OBVIOUS
    <3>5. name \in Names
      BY <3>2, <3>3, <3>4, InsertedName DEF Meant
    <3>6. externalRefs' = AfterLookup(externalRefs, name)
      BY <2>2, <3>1, <3>4 DEF ParseInsert
    <3> QED BY <3>5, <3>6, AnswersStay DEF Meant
  <2> QED BY <2>1, <2>2
<1>4. CASE Finish
  <2>1. \A e : Denotes(input, e) <=> result' # NULL /\ e = result'
    BY <1>4, FinishMeans DEF Meant
  <2>2. result' # Running
    BY <1>4 DEF Finish, IInv, Types, NULL, Running
  <2>3. MeansText'
    BY <2>2 DEF MeansText
  <2>4. AnswersTheText'
    BY <1>1, <2>1 DEF AnswersTheText
  <2> QED BY <1>2, <1>3, <2>3, <2>4 DEF Meant
<1>5. CASE Step /\ ~Finish
  <2>1. MeansText'
    BY <1>5, ParseStepMeans, LoopStepMeans DEF Step, Meant
  <2>2. result' = result /\ result = Running
    BY <1>5 DEF Step, ParseEmpty, ParseBlank, ParseArray, ParseMap, IInv, Answered, Parsing,
         ParseBinary, ParseBinaryBad, ParseValue, ParseValueBad, ParseRef, ParseRefOpen,
         ParseInsert, ParseInsertOpen, ParseContainer, ArrayNoParen, ArrayClose,
         ArrayElement, ArrayElementParsed, MapNoParen, MapClose, MapKey, MapKeyParsed,
         MapValueParsed, RefParsed, CloseContainer, Leaf, Fail
  <2>3. AnswersTheText'
    BY <2>2 DEF AnswersTheText
  <2> QED BY <1>2, <1>3, <2>1, <2>3 DEF Meant
<1>6. CASE UNCHANGED vars
  <2>1. UNCHANGED <<input, str, cur, callers, ret, error, internalRefs, result>>
    BY <1>6 DEF vars
  <2>2. AnswersTheText'
    BY <2>1 DEF Meant, AnswersTheText
  <2>3. MeansText'
    <3>1. CASE result # Running
      BY <2>1, <3>1 DEF MeansText
    <3>2. CASE result = Running /\ cur.pc = "root"
      BY <2>1, <3>2 DEF Meant, MeansText, Told, Nothing, TextGoal
    <3>3. CASE result = Running /\ cur.pc # "root"
      <4>1. PICK goals : Wanted(goals) /\ Agrees(goals[Len(callers)])
        BY <3>3 DEF Meant, MeansText
      <4>2. PICK goal : goal = goals[Len(callers)]
        OBVIOUS
      <4>3. Agrees(goal)'
        <5>1. Agrees(goal)
          BY <4>1, <4>2
        <5>2. Left' = Left
          BY <2>1 DEF Left
        <5>3. \A part : Told(part)' <=> Told(part)
          BY <2>1 DEF Told
        <5>4. \A part : Waits(goal, cur, part)' <=> Waits(goal, cur, part)
          BY <2>1 DEF Waits
        <5> QED BY <2>1, <5>1, <5>2, <5>3, <5>4 DEF Agrees
      <4> QED BY <2>1, <3>3, <4>1, <4>2, <4>3, LoopMeans
    <3> QED BY <3>1, <3>2, <3>3
  <2> QED BY <1>2, <1>3, <2>2, <2>3 DEF Meant
<1> QED BY <1>4, <1>5, <1>6 DEF Next, Done

(* For every text whose insertions name references of the instance, every   *)
(* table and every callback: a text gets the expression the parser's rules  *)
(* derive from it, and a text from which they derive none gets an error (wexpr_Expression_-                 *)
(* createFromLengthStringWithExternalReferenceTable).  That a lookup        *)
(* stores what the callback created never changes what a later insertion    *)
(* of the same name means.                                                  *)
THEOREM TextsGetWhatTheyDenote ==
  ASSUME NEW CONSTANT S, ExternalTable \in [Names -> S],
         \A text \in Inputs : IsSequence(text) /\ Insertable(text)
  PROVE  Spec => []AnswersTheText
<1>1. \A text \in Inputs : IsSequence(text)
  OBVIOUS
<1>2. Init => IInv /\ Follows /\ Meant
  BY InitInv, InitFollows, InitMeans
<1>3. IInv /\ Follows /\ Meant /\ [Next]_vars => IInv' /\ Follows' /\ Meant'
  BY NextInv, NextFollows, NextMeans
<1>4. Meant => AnswersTheText
  BY DEF Meant
<1> QED BY <1>2, <1>3, <1>4, PTL DEF Spec

-----------------------------------------------------------------------------
(* The rules and the grammar agree on Plain texts.  What is left of a text  *)
(* from a place on is From(text, p); Trim only moves on to the next place   *)
(* that is not blank.                                                       *)
From(text, p) == SubSeq(text, p, Len(text))

LEMMA FromIs ==
  ASSUME NEW text, IsSequence(text), NEW p \in 1..(Len(text) + 1)
  PROVE  /\ Len(text) \in Nat
         /\ IsSequence(From(text, p)) /\ Len(From(text, p)) = Len(text) + 1 - p
         /\ \A i \in 1..(Len(text) + 1 - p) : From(text, p)[i] = text[p - 1 + i]
         /\ From(text, p) = <<>> <=> p = Len(text) + 1
         /\ p # Len(text) + 1 => Head(From(text, p)) = text[p] /\ Tail(From(text, p)) = From(text, p + 1)
<1> DEFINE S == {text[i] : i \in DOMAIN text}
<1>1. text \in Seq(S) /\ Len(text) \in Nat
  BY DEF IsSequence
<1> DEFINE len == Len(text)
           from == SubSeq(text, p, len)
<1>2. len \in Nat /\ p \in Nat /\ 1 <= p /\ p <= len + 1 /\ \A i \in p..len : text[i] \in S
  BY <1>1
<1> HIDE DEF len, S
<1>3. /\ from \in Seq(S)
      /\ Len(from) = IF p <= len THEN len - p + 1 ELSE 0
      /\ \A i \in 1..(len - p + 1) : from[i] = text[p + i - 1]
  BY <1>2, SubSeqProperties
<1> HIDE DEF from
<1>4. Len(from) = len + 1 - p /\ len + 1 - p \in Nat
  BY <1>2, <1>3
<1>5. \A i \in 1..(len + 1 - p) : from[i] = text[p - 1 + i]
  <2>1. \A i \in 1..(len + 1 - p) : p + i - 1 = p - 1 + i /\ i \in 1..(len - p + 1)
    BY <1>2
  <2> QED BY <1>3, <2>1
<1>6. IsSequence(from)
  BY <1>3, SeqIsSequence
<1>7. from = <<>> <=> p = len + 1
  <2>1. from = <<>> <=> Len(from) = 0
    BY <1>3
  <2> QED BY <1>2, <1>4, <2>1
<1>8. CASE p = len + 1
  BY <1>1, <1>4, <1>5, <1>6, <1>7, <1>8 DEF from, len, From
<1>9. CASE p # len + 1
  <2>1. p \in 1..len /\ len \in p..len
    BY <1>2, <1>9
  <2>2. Head(from) = text[p] /\ Tail(from) = SubSeq(text, p + 1, len)
    BY <1>1, <2>1, HeadTailOfSubSeq DEF from, len
  <2> QED BY <1>1, <1>4, <1>5, <1>6, <1>7, <2>2 DEF from, len, From
<1> QED BY <1>8, <1>9

LEMMA FromStart ==
  ASSUME NEW text, IsSequence(text)
  PROVE  From(text, 1) = text
<1>1. Len(text) \in Nat /\ 1 \in 1..(Len(text) + 1)
  BY SequenceLength
<1>2. /\ IsSequence(From(text, 1)) /\ Len(From(text, 1)) = Len(text) + 1 - 1
      /\ \A i \in 1..(Len(text) + 1 - 1) : From(text, 1)[i] = text[1 - 1 + i]
  BY <1>1, FromIs
<1>3. Len(text) + 1 - 1 = Len(text) /\ \A i \in 1..Len(text) : 1 - 1 + i = i
  BY <1>1
<1> QED BY <1>2, <1>3, SameSequence

(* How many blanks there are in front of a text. *)
LEMMA BlanksAre ==
  ASSUME NEW text, IsSequence(text), NEW n \in 0..Len(text),
         \A i \in 1..n : text[i].kind = "blank",
         n < Len(text) => text[n + 1].kind # "blank"
  PROVE  Blanks(text) = n
<1>1. Len(text) \in Nat
  BY SequenceLength
<1> DEFINE b == Blanks(text)
<1>2. /\ b \in 0..Len(text) /\ \A i \in 1..b : text[i].kind = "blank"
      /\ b < Len(text) => text[b + 1].kind # "blank"
  BY <1>1, BlanksOf
<1> HIDE DEF b
<1>3. ~(b < n)
  <2>1. b < n => b + 1 \in 1..n /\ b < Len(text)
    BY <1>1, <1>2
  <2> QED BY <1>2, <2>1
<1>4. ~(n < b)
  <2>1. n < b => n + 1 \in 1..b /\ n < Len(text)
    BY <1>1, <1>2
  <2> QED BY <1>2, <2>1
<1>5. b = n
  BY <1>1, <1>2, <1>3, <1>4
<1> QED BY <1>5 DEF b

LEMMA TrimSolid ==
  ASSUME NEW text, IsSequence(text), text # <<>> => text[1].kind # "blank"
  PROVE  Trim(text) = text
<1>1. Len(text) \in Nat /\ 0 \in 0..Len(text) /\ (text = <<>> <=> Len(text) = 0)
  BY DEF IsSequence
<1>2. Blanks(text) = 0
  <2>1. \A i \in 1..0 : text[i].kind = "blank"
    OBVIOUS
  <2>2. 0 < Len(text) => text[0 + 1].kind # "blank"
    BY <1>1
  <2> QED BY <1>1, <2>1, <2>2, BlanksAre
<1>3. Trim(text) = From(text, 1)
  BY <1>2 DEF Trim, From
<1> QED BY <1>3, FromStart

LEMMA TrimBlank ==
  ASSUME NEW text, IsSequence(text), text # <<>>, text[1].kind = "blank"
  PROVE  Trim(text) = Trim(Tail(text))
<1> DEFINE rest == Tail(text)
           len == Len(text)
           b == Blanks(rest)
           S == {text[i] : i \in DOMAIN text}
<1>1. /\ text \in Seq(S) /\ len \in Nat /\ len # 0
  BY DEF IsSequence
<1> HIDE DEF S
<1>2. rest \in Seq(S) /\ Len(rest) = len - 1 /\ len - 1 \in Nat /\ \A i \in 1..(len - 1) : rest[i] = text[i + 1]
  BY <1>1
<1> HIDE DEF rest, len
<1>3. IsSequence(rest)
  BY <1>2, SeqIsSequence
<1>4. /\ b \in 0..(len - 1) /\ \A i \in 1..b : rest[i].kind = "blank"
      /\ b < len - 1 => rest[b + 1].kind # "blank"
  BY <1>2, BlanksOf
<1> HIDE DEF b
<1>5. Blanks(text) = b + 1
  <2>1. b + 1 \in 0..len
    BY <1>1, <1>4
  <2>2. \A i \in 1..(b + 1) : text[i].kind = "blank"
    <3> TAKE i \in 1..(b + 1)
    <3>1. CASE i = 1
      BY <3>1
    <3>2. CASE i # 1
      <4>1. i - 1 \in 1..b /\ i - 1 \in 1..(len - 1) /\ (i - 1) + 1 = i
        BY <1>1, <1>4, <3>2
      <4> QED BY <1>2, <1>4, <4>1
    <3> QED BY <3>1, <3>2
  <2>3. b + 1 < len => text[(b + 1) + 1].kind # "blank"
    <3>1. b + 1 < len => b < len - 1 /\ b + 1 \in 1..(len - 1)
      BY <1>1, <1>4
    <3> QED BY <1>2, <1>4, <3>1
  <2> QED BY <2>1, <2>2, <2>3, BlanksAre DEF len
<1>6. SubSeq(text, (b + 1) + 1, len) = SubSeq(rest, b + 1, len - 1)
  <2> DEFINE s == SubSeq(text, (b + 1) + 1, len)
             t == SubSeq(rest, b + 1, len - 1)
  <2>1. \A i \in ((b + 1) + 1)..len : text[i] \in S
    BY <1>1, <1>4 DEF len
  <2>2. \A i \in (b + 1)..(len - 1) : rest[i] \in S
    BY <1>2, <1>4
  <2>3. (b + 1) + 1 \in Int /\ b + 1 \in Int /\ len \in Int /\ len - 1 \in Int
    BY <1>1, <1>4
  <2>4. /\ s \in Seq(S) /\ Len(s) = IF (b + 1) + 1 <= len THEN len - ((b + 1) + 1) + 1 ELSE 0
        /\ \A i \in 1..(len - ((b + 1) + 1) + 1) : s[i] = text[(b + 1) + 1 + i - 1]
    BY <2>1, <2>3, SubSeqProperties
  <2>5. /\ t \in Seq(S) /\ Len(t) = IF b + 1 <= len - 1 THEN (len - 1) - (b + 1) + 1 ELSE 0
        /\ \A i \in 1..((len - 1) - (b + 1) + 1) : t[i] = rest[b + 1 + i - 1]
    BY <2>2, <2>3, SubSeqProperties
  <2> HIDE DEF s, t
  <2>6. Len(s) = len - 1 - b /\ Len(t) = len - 1 - b
    BY <1>1, <1>4, <2>4, <2>5
  <2>7. ASSUME NEW i \in 1..(len - 1 - b) PROVE s[i] = t[i]
    <3>1. /\ i \in 1..(len - ((b + 1) + 1) + 1) /\ i \in 1..((len - 1) - (b + 1) + 1)
          /\ (b + 1) + 1 + i - 1 = (b + i) + 1 /\ b + 1 + i - 1 = b + i /\ b + i \in 1..(len - 1)
      BY <1>1, <1>4
    <3>2. s[i] = text[(b + i) + 1] /\ t[i] = rest[b + i]
      BY <2>4, <2>5, <3>1
    <3> QED BY <1>2, <3>1, <3>2
  <2>8. s = t
    BY <2>4, <2>5, <2>6, <2>7, SeqIsSequence, SameSequence
  <2> QED BY <2>8 DEF s, t
<1> QED BY <1>2, <1>5, <1>6 DEF Trim, b, len, rest

(* Trimming from a place moves on to the first place that is not blank.     *)
LEMMA TrimFrom ==
  ASSUME NEW text, IsSequence(text), NEW p \in 1..(Len(text) + 1)
  PROVE  /\ p = Len(text) + 1 => Trim(From(text, p)) = <<>>
         /\ p # Len(text) + 1 /\ text[p].kind = "blank" => Trim(From(text, p)) = Trim(From(text, p + 1))
         /\ p # Len(text) + 1 /\ text[p].kind # "blank" =>
              /\ Trim(From(text, p)) = From(text, p) /\ Trim(From(text, p)) # <<>>
              /\ Head(Trim(From(text, p))) = text[p] /\ Tail(Trim(From(text, p))) = From(text, p + 1)
<1> DEFINE from == From(text, p)
<1>1. /\ Len(text) \in Nat
      /\ IsSequence(from) /\ Len(from) = Len(text) + 1 - p
      /\ \A i \in 1..(Len(text) + 1 - p) : from[i] = text[p - 1 + i]
      /\ from = <<>> <=> p = Len(text) + 1
      /\ p # Len(text) + 1 => Head(from) = text[p] /\ Tail(from) = From(text, p + 1)
  BY FromIs
<1> HIDE DEF from
<1>2. p # Len(text) + 1 => from[1] = text[p]
  <2>1. p # Len(text) + 1 => 1 \in 1..(Len(text) + 1 - p) /\ p - 1 + 1 = p
    BY <1>1
  <2> QED BY <1>1, <2>1
<1>3. CASE p = Len(text) + 1
  <2>1. Trim(from) = from
    BY <1>1, <1>3, TrimSolid
  <2> QED BY <1>1, <1>3, <2>1 DEF from
<1>4. CASE p # Len(text) + 1 /\ text[p].kind = "blank"
  <2>1. Trim(from) = Trim(Tail(from))
    BY <1>1, <1>2, <1>4, TrimBlank
  <2> QED BY <1>1, <1>4, <2>1 DEF from
<1>5. CASE p # Len(text) + 1 /\ text[p].kind # "blank"
  <2>1. Trim(from) = from
    BY <1>1, <1>2, <1>5, TrimSolid
  <2> QED BY <1>1, <1>5, <2>1 DEF from
<1> QED BY <1>3, <1>4, <1>5

(* Induction from the end of a text to its start. *)
LEMMA PlacesInduction ==
  ASSUME NEW n \in Nat, NEW T,
         \A p \in 1..(n + 1) : (\A q \in (p + 1)..(n + 1) : q \in T) => p \in T
  PROVE  \A p \in 1..(n + 1) : p \in T
<1> DEFINE Without == {m \in Nat : m <= n /\ n + 1 - m \notin T}
<1>1. ASSUME Without # {} PROVE FALSE
  <2>1. Without \in SUBSET Nat
    OBVIOUS
  <2>2. PICK m \in Without : \A k \in Without : m <= k
    <3> HIDE DEF Without
    <3> QED BY <1>1, <2>1, LeastOf
  <2>3. m \in Nat /\ m <= n /\ n + 1 - m \in 1..(n + 1) /\ n + 1 - m \notin T
    OBVIOUS
  <2>4. ASSUME NEW q \in ((n + 1 - m) + 1)..(n + 1) PROVE q \in T
    <3>1. n + 1 - q \in Nat /\ n + 1 - q <= n /\ n + 1 - (n + 1 - q) = q /\ n + 1 - q < m
      BY <2>3
    <3>2. n + 1 - q \notin Without
      BY <2>2, <2>3, <3>1
    <3> QED BY <3>1, <3>2
  <2> QED BY <2>3, <2>4
<1>2. ASSUME NEW p \in 1..(n + 1) PROVE p \in T
  <2>1. n + 1 - p \in Nat /\ n + 1 - p <= n /\ n + 1 - (n + 1 - p) = p
    OBVIOUS
  <2>2. n + 1 - p \notin Without
    BY <1>1
  <2> QED BY <2>1, <2>2
<1> QED BY <1>2

-----------------------------------------------------------------------------
(* Where parts end.  The places where a part that begins at p may end.      *)
Behind(n, p) == {0} \cup (p + 1)..(n + 1)

(* What EndWith looks at. *)
LEMMA EndLooks ==
  ASSUME NEW text, IsSequence(text), NEW p \in Places(text), NEW part \in Parts,
         NEW f, NEW g,
         \A x \in Parts : \A q \in Behind(Len(text), p) : f[<<x, q>>] = g[<<x, q>>],
         part # "expression" => /\ f[<<"expression", p>>] = g[<<"expression", p>>]
                                /\ f[<<"expression", p>>] \in Behind(Len(text), p)
                                /\ f[<<"expression", f[<<"expression", p>>]>>] \in Behind(Len(text), p)
  PROVE  EndWith(f, text, part, p) = EndWith(g, text, part, p)
<1> DEFINE n == Len(text)
           one == f[<<"expression", p>>]
           two == f[<<"expression", one>>]
<1>1. n \in Nat /\ DOMAIN text = 1..n
  BY SequenceLength
<1>2. CASE p \notin DOMAIN text \/ OutsideGrammar(text[p])
  BY <1>2 DEF EndWith
<1>3. CASE p \in DOMAIN text /\ ~OutsideGrammar(text[p])
  <2>1. p + 1 \in Behind(n, p)
    BY <1>1, <1>3 DEF Behind
  <2>2. \A x \in Parts : f[<<x, p + 1>>] = g[<<x, p + 1>>]
    BY <2>1
  <2>3. CASE part = "expression"
    BY <2>2, <2>3 DEF EndWith, Parts
  <2>4. CASE part # "expression"
    <3>1. /\ one = g[<<"expression", p>>] /\ two = g[<<"expression", one>>]
          /\ f[<<part, one>>] = g[<<part, one>>] /\ f[<<part, two>>] = g[<<part, two>>]
      BY <2>4 DEF Parts
    <3> HIDE DEF one, two
    <3>2. /\ f[<<"expression", p>>] = one /\ f[<<"expression", one>>] = two
          /\ g[<<"expression", p>>] = one /\ g[<<"expression", one>>] = two
      BY <3>1 DEF one, two
    <3>3. EndWith(f, text, part, p) = IF text[p].kind = "blank" THEN f[<<part, p + 1>>]
                              ELSE IF text[p].kind = "close" THEN p + 1
                              ELSE f[<<part, IF part = "list" THEN one ELSE two>>]
      BY <1>3, <2>4, <3>2 DEF EndWith
    <3>4. EndWith(g, text, part, p) = IF text[p].kind = "blank" THEN g[<<part, p + 1>>]
                              ELSE IF text[p].kind = "close" THEN p + 1
                              ELSE g[<<part, IF part = "list" THEN one ELSE two>>]
      BY <1>3, <2>4, <3>2 DEF EndWith
    <3> QED BY <2>2, <3>1, <3>3, <3>4
  <2> QED BY <2>3, <2>4
<1> QED BY <1>2, <1>3

(* Where EndWith may end a part, if what it looks at ends behind it. *)
LEMMA EndRange ==
  ASSUME NEW text, IsSequence(text), NEW p \in Places(text), NEW part \in Parts, NEW f,
         \A x \in Parts : \A q \in Behind(Len(text), p) : f[<<x, q>>] \in Behind(Len(text), q),
         \A x \in Parts : f[<<x, 0>>] = 0,
         part # "expression" => f[<<"expression", p>>] \in Behind(Len(text), p)
  PROVE  EndWith(f, text, part, p) \in Behind(Len(text), p)
<1> DEFINE n == Len(text)
           one == f[<<"expression", p>>]
           two == f[<<"expression", one>>]
<1>1. n \in Nat /\ DOMAIN text = 1..n
  BY SequenceLength
<1>2. CASE p \notin DOMAIN text \/ OutsideGrammar(text[p])
  BY <1>2 DEF EndWith, Behind
<1>3. CASE p \in DOMAIN text /\ ~OutsideGrammar(text[p])
  <2> HIDE DEF n
  <2>1. p + 1 \in Behind(n, p) /\ p \in 1..n /\ 0 \in Behind(n, p)
    BY <1>1, <1>3 DEF Behind
  <2>2. ASSUME NEW q \in Behind(n, p), NEW x \in Parts PROVE f[<<x, q>>] \in Behind(n, p)
    <3>1. CASE q = 0
      BY <2>1, <3>1
    <3>2. CASE q # 0
      <4>1. f[<<x, q>>] \in Behind(n, q) /\ q \in (p + 1)..(n + 1)
        BY <2>2, <3>2 DEF Behind, n
      <4> QED BY <1>1, <2>1, <4>1 DEF Behind
    <3> QED BY <3>1, <3>2
  <2>3. CASE part = "expression"
    <3>1. \A x \in Parts : f[<<x, p + 1>>] \in Behind(n, p)
      BY <2>1, <2>2
    <3> QED BY <1>3, <2>1, <2>3, <3>1 DEF EndWith, Parts, n
  <2>4. CASE part # "expression"
    <3>1. one \in Behind(n, p)
      BY <2>4 DEF n
    <3>2. two \in Behind(n, p)
      BY <2>2, <3>1 DEF Parts
    <3>3. f[<<part, one>>] \in Behind(n, p) /\ f[<<part, two>>] \in Behind(n, p) /\ f[<<part, p + 1>>] \in Behind(n, p)
      BY <2>1, <2>2, <3>1, <3>2
    <3>4. EndWith(f, text, part, p) = IF text[p].kind = "blank" THEN f[<<part, p + 1>>]
                              ELSE IF text[p].kind = "close" THEN p + 1
                              ELSE f[<<part, IF part = "list" THEN one ELSE two>>]
      BY <1>3, <2>4 DEF EndWith
    <3> HIDE DEF one, two
    <3> QED BY <2>1, <3>3, <3>4 DEF n
  <2> QED BY <2>3, <2>4
<1> QED BY <1>2, <1>3

(* A function that ends the parts from a place on the way Ends does.        *)
EndsFrom(f, text, q) ==
  /\ f \in [Parts \X Places(text) -> 0..(Len(text) + 1)]
  /\ \A part \in Parts : \A p \in Behind(Len(text), q - 1) :
       /\ f[<<part, p>>] = EndWith(f, text, part, p)
       /\ f[<<part, p>>] \in Behind(Len(text), p)

LEMMA EndsExist ==
  ASSUME NEW text, IsSequence(text)
  PROVE  \E f : EndsFrom(f, text, 1)
<1> DEFINE n == Len(text)
           T == {q \in 1..(n + 1) : \E f : EndsFrom(f, text, q)}
<1>1. n \in Nat /\ DOMAIN text = 1..n
  BY SequenceLength
<1>2. Places(text) = 0..(n + 1) /\ Parts # {} /\ "expression" \in Parts /\ "list" \in Parts /\ "table" \in Parts
  BY DEF Places, Parts
<1>3. n + 1 \in T
  <2> DEFINE f == [at \in Parts \X Places(text) |-> 0]
  <2>1. f \in [Parts \X Places(text) -> 0..(Len(text) + 1)]
    BY <1>1
  <2>2. ASSUME NEW part \in Parts, NEW p \in Behind(n, (n + 1) - 1)
        PROVE  f[<<part, p>>] = EndWith(f, text, part, p) /\ f[<<part, p>>] \in Behind(n, p)
    <3>1. p = 0 \/ p = n + 1
      BY <1>1 DEF Behind
    <3>2. p \in Places(text) /\ p \notin DOMAIN text
      BY <1>1, <1>2, <3>1
    <3>3. f[<<part, p>>] = 0
      BY <3>2
    <3> QED BY <3>2, <3>3 DEF EndWith, Behind
  <2> HIDE DEF f
  <2>3. EndsFrom(f, text, n + 1)
    BY <2>1, <2>2 DEF EndsFrom
  <2> QED BY <1>1, <2>3
<1>4. ASSUME NEW q \in 1..n, q + 1 \in T PROVE q \in T
  <2>1. PICK f : EndsFrom(f, text, q + 1)
    BY <1>4
  <2> DEFINE e == EndWith(f, text, "expression", q)
             g == [f EXCEPT ![<<"expression", q>>] = e]
             l == EndWith(g, text, "list", q)
             t == EndWith(g, text, "table", q)
             h == [at \in Parts \X Places(text) |->
                     IF at = <<"expression", q>> THEN e
                     ELSE IF at = <<"list", q>> THEN l
                     ELSE IF at = <<"table", q>> THEN t
                     ELSE f[at]]
  <2>2. q \in Nat /\ q \in Places(text) /\ (q + 1) - 1 = q /\ q - 1 \in Nat
    BY <1>1, <1>2
  <2>3. /\ \A p \in Behind(n, q - 1) : p = q \/ (p # q /\ p \in Behind(n, q))
        /\ \A p \in Behind(n, q) : p # q /\ p \in Places(text)
        /\ 0 \in Behind(n, q)
        /\ \A p \in Behind(n, q) : \A r \in Behind(n, p) : p # 0 => r \in Behind(n, q)
        /\ \A p \in Behind(n, q) : p \in 0..(n + 1)
    <3> HIDE DEF n
    <3>1. q \in 1..n /\ n \in Nat
      BY <1>1
    <3>2. /\ \A p \in Behind(n, q - 1) : p = q \/ (p # q /\ p \in Behind(n, q))
          /\ 0 \in Behind(n, q)
      BY <3>1 DEF Behind
    <3>3. \A p \in Behind(n, q) : p # q /\ p \in 0..(n + 1)
      BY <3>1 DEF Behind
    <3>4. \A p \in Behind(n, q) : \A r \in Behind(n, p) : p # 0 => r \in Behind(n, q)
      BY <3>1 DEF Behind
    <3> QED BY <1>2, <3>2, <3>3, <3>4
  <2>4. /\ f \in [Parts \X Places(text) -> 0..(n + 1)]
        /\ \A part \in Parts : \A p \in Behind(n, q) :
             f[<<part, p>>] = EndWith(f, text, part, p) /\ f[<<part, p>>] \in Behind(n, p)
    BY <2>1, <2>2 DEF EndsFrom
  <2>5. \A x \in Parts : f[<<x, 0>>] = 0
    <3>1. 0 \notin DOMAIN text
      BY <1>1
    <3>2. \A x : EndWith(f, text, x, 0) = 0
      BY <3>1 DEF EndWith
    <3> QED BY <2>3, <2>4, <3>2
  <2>6. e \in Behind(n, q)
    BY <1>2, <2>2, <2>4, <2>5, EndRange
  <2>7. /\ g[<<"expression", q>>] = e
        /\ \A x \in Parts : \A p \in Behind(n, q) : g[<<x, p>>] = f[<<x, p>>]
    <3>1. \A x \in Parts : \A p \in Behind(n, q) : <<x, p>> # <<"expression", q>> /\ <<x, p>> \in Parts \X Places(text)
      BY <2>3
    <3>2. <<"expression", q>> \in Parts \X Places(text)
      BY <1>2, <2>2
    <3> HIDE DEF e
    <3> QED BY <2>4, <3>1, <3>2
  <2> HIDE DEF g
  <2>8. \A x \in Parts : \A p \in Behind(n, q) : g[<<x, p>>] \in Behind(n, p)
    BY <2>4, <2>7
  <2>9. \A x \in Parts : g[<<x, 0>>] = 0
    BY <2>3, <2>5, <2>7
  <2>10. l \in Behind(n, q) /\ t \in Behind(n, q)
    BY <1>2, <2>2, <2>6, <2>7, <2>8, <2>9, EndRange
  <2> HIDE DEF e, l, t
  <2>11. /\ h[<<"expression", q>>] = e /\ h[<<"list", q>>] = l /\ h[<<"table", q>>] = t
         /\ \A x \in Parts : \A p \in Behind(n, q) : h[<<x, p>>] = f[<<x, p>>]
    <3>1. \A x \in Parts : \A p \in Behind(n, q) :
            /\ <<x, p>> # <<"expression", q>> /\ <<x, p>> # <<"list", q>> /\ <<x, p>> # <<"table", q>>
            /\ <<x, p>> \in Parts \X Places(text)
      BY <2>3
    <3>2. \A x \in Parts : <<x, q>> \in Parts \X Places(text)
      BY <2>2
    <3> QED BY <1>2, <3>1, <3>2
  <2>12. h \in [Parts \X Places(text) -> 0..(n + 1)]
    <3>1. e \in 0..(n + 1) /\ l \in 0..(n + 1) /\ t \in 0..(n + 1)
      BY <2>3, <2>6, <2>10
    <3> QED BY <2>4, <3>1
  <2> HIDE DEF h
  <2>13. ASSUME NEW part \in Parts, NEW p \in Behind(n, q)
         PROVE  h[<<part, p>>] = EndWith(h, text, part, p) /\ h[<<part, p>>] \in Behind(n, p)
    <3>0. CASE p = 0
      <4>1. 0 \notin DOMAIN text
        BY <1>1
      <4>2. EndWith(h, text, part, p) = 0 /\ f[<<part, p>>] = 0
        BY <2>5, <3>0, <4>1 DEF EndWith
      <4> QED BY <2>11, <3>0, <4>2 DEF Behind
    <3> SUFFICES ASSUME p # 0 PROVE h[<<part, p>>] = EndWith(h, text, part, p) /\ h[<<part, p>>] \in Behind(n, p)
      BY <3>0
    <3>1. \A x \in Parts : \A r \in Behind(n, p) : f[<<x, r>>] = h[<<x, r>>]
      BY <2>3, <2>11
    <3>2. /\ f[<<"expression", p>>] = h[<<"expression", p>>]
          /\ f[<<"expression", p>>] \in Behind(n, p)
      BY <1>2, <2>4, <2>11
    <3>3. f[<<"expression", f[<<"expression", p>>]>>] \in Behind(n, p)
      <4>1. PICK r \in Behind(n, p) : r = f[<<"expression", p>>]
        BY <3>2
      <4>2. r \in Behind(n, q)
        BY <2>3
      <4>3. f[<<"expression", r>>] \in Behind(n, r)
        BY <1>2, <2>4, <4>2
      <4>4. CASE r = 0
        <5>1. f[<<"expression", r>>] = 0
          BY <1>2, <2>5, <4>4
        <5> QED BY <4>1, <5>1 DEF Behind
      <4>5. CASE r # 0
        <5> HIDE DEF n
        <5>1. r \in (p + 1)..(n + 1) /\ p \in 0..(n + 1)
          BY <2>3, <4>5 DEF Behind
        <5>2. f[<<"expression", r>>] \in Behind(n, p)
          BY <1>1, <4>3, <5>1 DEF Behind
        <5> QED BY <4>1, <5>2
      <4> QED BY <4>4, <4>5
    <3>4. p \in Places(text)
      BY <2>3
    <3>5. EndWith(f, text, part, p) = EndWith(h, text, part, p)
      BY <3>1, <3>2, <3>3, <3>4, EndLooks
    <3> QED BY <2>4, <2>11, <3>5
  <2>14. ASSUME NEW part \in Parts
         PROVE  h[<<part, q>>] = EndWith(h, text, part, q) /\ h[<<part, q>>] \in Behind(n, q)
    <3>1. CASE part = "expression"
      <4>1. \A x \in Parts : \A r \in Behind(n, q) : f[<<x, r>>] = h[<<x, r>>]
        BY <2>11
      <4>2. EndWith(f, text, part, q) = EndWith(h, text, part, q)
        <5>1. q \in Places(text) /\ IsSequence(text) /\ part \in Parts
          BY <2>2
        <5>2. \A x \in Parts : \A r \in Behind(Len(text), q) : f[<<x, r>>] = h[<<x, r>>]
          BY <4>1
        <5>3. ~(part # "expression")
          BY <3>1
        <5> QED BY ONLY <5>1, <5>2, <5>3, EndLooks
      <4> QED BY <2>6, <2>11, <3>1, <4>2 DEF e
    <3>2. CASE part # "expression"
      <4>1. /\ g[<<"expression", q>>] = h[<<"expression", q>>] /\ g[<<"expression", q>>] = e
            /\ e \in Behind(n, q)
        BY <2>6, <2>7, <2>11
      <4>2. g[<<"expression", e>>] \in Behind(n, q)
        <5>1. g[<<"expression", e>>] \in Behind(n, e)
          BY <1>2, <2>8, <4>1
        <5>2. CASE e = 0
          BY <1>2, <2>3, <2>9, <5>2
        <5>3. CASE e # 0
          BY <2>3, <4>1, <5>1, <5>3
        <5> QED BY <5>2, <5>3
      <4>3. \A x \in Parts : \A r \in Behind(n, q) : g[<<x, r>>] = h[<<x, r>>]
        BY <2>7, <2>11
      <4>4. EndWith(g, text, part, q) = EndWith(h, text, part, q)
        <5>1. q \in Places(text) /\ IsSequence(text) /\ part \in Parts
          BY <2>2
        <5>2. \A x \in Parts : \A r \in Behind(Len(text), q) : g[<<x, r>>] = h[<<x, r>>]
          BY <4>3
        <5>3. /\ g[<<"expression", q>>] = h[<<"expression", q>>]
              /\ g[<<"expression", q>>] \in Behind(Len(text), q)
              /\ g[<<"expression", g[<<"expression", q>>]>>] \in Behind(Len(text), q)
          BY <4>1, <4>2
        <5> QED BY ONLY <5>1, <5>2, <5>3, EndLooks
      <4>5. part = "list" \/ part = "table"
        BY <3>2 DEF Parts
      <4> QED BY <2>10, <2>11, <4>4, <4>5 DEF l, t
    <3> QED BY <3>1, <3>2
  <2>15. EndsFrom(h, text, q)
    BY <2>3, <2>12, <2>13, <2>14 DEF EndsFrom
  <2> QED BY <1>1, <2>15
<1>5. \A p \in 1..(n + 1) : (\A q \in (p + 1)..(n + 1) : q \in T) => p \in T
  <2> TAKE p \in 1..(n + 1)
  <2>1. CASE p = n + 1
    BY <1>3, <2>1
  <2>2. CASE p # n + 1
    <3>1. p \in 1..n /\ p + 1 \in (p + 1)..(n + 1)
      BY <1>1, <2>2
    <3> HIDE DEF T
    <3> QED BY <1>4, <3>1
  <2> QED BY <2>1, <2>2
<1> HIDE DEF T
<1>6. 1 \in T
  <2>1. 1 \in 1..(n + 1)
    BY <1>1
  <2> HIDE DEF n
  <2> QED BY <1>1, <1>5, <2>1, PlacesInduction
<1> QED BY <1>6 DEF T

LEMMA EndsAre ==
  ASSUME NEW text, IsSequence(text)
  PROVE  LET ends == Ends(text) IN
         ends = [at \in Parts \X Places(text) |-> EndWith(ends, text, at[1], at[2])]
<1> DEFINE n == Len(text)
<1>1. PICK f : EndsFrom(f, text, 1)
  BY EndsExist
<1>2. n \in Nat /\ Places(text) = 0..(n + 1)
  BY SequenceLength DEF Places
<1>3. \A p \in Places(text) : p \in Behind(n, 1 - 1)
  BY <1>2 DEF Behind
<1>4. f \in [Parts \X Places(text) -> 0..(n + 1)]
  BY <1>1 DEF EndsFrom
<1>5. \A part \in Parts : \A p \in Places(text) : f[<<part, p>>] = EndWith(f, text, part, p)
  BY <1>1, <1>3 DEF EndsFrom
<1>6. f = [at \in Parts \X Places(text) |-> EndWith(f, text, at[1], at[2])]
  BY <1>4, <1>5
<1>7. \E g : g = [at \in Parts \X Places(text) |-> EndWith(g, text, at[1], at[2])]
  BY <1>6
<1> QED BY <1>7 DEF Ends

(* Where each part ends: 0, or behind where it begins.                      *)
LEMMA EndsIs ==
  ASSUME NEW text, IsSequence(text)
  PROVE  LET ends == Ends(text) IN
         \A part \in Parts : \A p \in Places(text) :
           /\ ends[<<part, p>>] = EndWith(ends, text, part, p)
           /\ ends[<<part, p>>] \in Behind(Len(text), p)
<1> DEFINE n == Len(text)
           ends == Ends(text)
<1>1. ends = [at \in Parts \X Places(text) |-> EndWith(ends, text, at[1], at[2])]
  BY EndsAre
<1> HIDE DEF ends
<1>2. \A part \in Parts : \A p \in Places(text) : ends[<<part, p>>] = EndWith(ends, text, part, p)
  BY <1>1
<1>3. n \in Nat /\ Places(text) = 0..(n + 1) /\ DOMAIN text = 1..n
  BY SequenceLength DEF Places
<1>4. \A part \in Parts : ends[<<part, 0>>] = 0
  <2>1. 0 \notin DOMAIN text /\ 0 \in Places(text)
    BY <1>3
  <2>2. \A x : EndWith(ends, text, x, 0) = 0
    BY <2>1 DEF EndWith
  <2> QED BY <1>2, <2>1, <2>2
<1> DEFINE T == {p \in 1..(n + 1) : \A part \in Parts : ends[<<part, p>>] \in Behind(n, p)}
<1>5. ASSUME NEW p \in 1..(n + 1), \A q \in (p + 1)..(n + 1) : q \in T PROVE p \in T
  <2>1. p \in Places(text)
    BY <1>3
  <2>2. \A x \in Parts : \A q \in Behind(n, p) : ends[<<x, q>>] \in Behind(n, q)
    <3>1. ASSUME NEW x \in Parts, NEW q \in Behind(n, p) PROVE ends[<<x, q>>] \in Behind(n, q)
      <4>1. CASE q = 0
        BY <1>4, <4>1 DEF Behind
      <4>2. CASE q # 0
        <5>1. q \in (p + 1)..(n + 1)
          BY <4>2 DEF Behind
        <5> QED BY <1>5, <5>1
      <4> QED BY <4>1, <4>2
    <3> QED BY <3>1
  <2>3. ends[<<"expression", p>>] \in Behind(n, p)
    <3>1. EndWith(ends, text, "expression", p) \in Behind(n, p)
      BY <1>4, <2>1, <2>2, EndRange DEF Parts
    <3> QED BY <1>2, <2>1, <3>1 DEF Parts
  <2>4. \A part \in Parts : EndWith(ends, text, part, p) \in Behind(n, p)
    BY <1>4, <2>1, <2>2, <2>3, EndRange
  <2> QED BY <1>2, <2>1, <2>4
<1> HIDE DEF T
<1>6. \A p \in 1..(n + 1) : p \in T
  <2> HIDE DEF n
  <2> QED BY <1>3, <1>5, PlacesInduction
<1>7. ASSUME NEW part \in Parts, NEW p \in Places(text) PROVE ends[<<part, p>>] \in Behind(n, p)
  <2>1. CASE p = 0
    BY <1>4, <2>1 DEF Behind
  <2>2. CASE p # 0
    <3>1. p \in 1..(n + 1)
      BY <1>3, <2>2
    <3> QED BY <1>6, <3>1 DEF T
  <2> QED BY <2>1, <2>2
<1> QED BY <1>2, <1>7 DEF ends

(* What can be read, and of what parts. *)
Readable(text) == {at \in Parts \X Places(text) : Ends(text)[at] # 0}

LEMMA NothingEndsAtZero ==
  ASSUME NEW text, IsSequence(text)
  PROVE  /\ \A part \in Parts : Ends(text)[<<part, 0>>] = 0
         /\ \A part \in Parts : Ends(text)[<<part, Len(text) + 1>>] = 0
<1> DEFINE ends == Ends(text)
           n == Len(text)
<1>1. n \in Nat /\ DOMAIN text = 1..n /\ Places(text) = 0..(n + 1)
  BY SequenceLength DEF Places
<1>2. \A part \in Parts : \A p \in Places(text) : ends[<<part, p>>] = EndWith(ends, text, part, p)
  BY EndsIs
<1> HIDE DEF ends
<1>3. ASSUME NEW p \in {0, n + 1}, NEW part \in Parts PROVE ends[<<part, p>>] = 0
  <2>1. p \in Places(text) /\ p \notin DOMAIN text
    BY <1>1
  <2> QED BY <1>2, <2>1 DEF EndWith
<1> QED BY <1>3 DEF ends

(* How a part that can be read is made of its parts, by its first lexeme.   *)
MadeOfParts(text, part, p) ==
  LET ends == Ends(text)
      n == Len(text)
      x == text[p]
      end == ends[<<part, p>>]
      one == ends[<<"expression", p>>]
      two == ends[<<"expression", one>>]
  IN /\ ~OutsideGrammar(x)
     /\ n \in Nat /\ DOMAIN text = 1..n /\ p \in 1..n /\ end \in (p + 1)..(n + 1)
     /\ x.kind = "blank" => p + 1 < end /\ ends[<<part, p + 1>>] = end
     /\ x.kind # "blank" /\ part = "expression" =>
          /\ x.kind \in Complete \cup {"ref", "array", "map"}
          /\ x.kind \in Complete => end = p + 1
          /\ x.kind = "ref" => p + 1 < end /\ ends[<<"expression", p + 1>>] = end
          /\ x.kind = "array" => p + 1 < end /\ ends[<<"list", p + 1>>] = end
          /\ x.kind = "map" => p + 1 < end /\ ends[<<"table", p + 1>>] = end
     /\ x.kind = "close" => part # "expression" /\ end = p + 1
     /\ x.kind \notin {"blank", "close"} /\ part = "list" =>
          /\ one \in (p + 1)..(end - 1) /\ ends[<<"list", one>>] = end
     /\ x.kind \notin {"blank", "close"} /\ part = "table" =>
          /\ one \in (p + 1)..(end - 1) /\ two \in (one + 1)..(end - 1)
          /\ ends[<<"table", two>>] = end

LEMMA ReadableIs ==
  ASSUME NEW text, IsSequence(text), NEW part \in Parts, NEW p \in Places(text),
         Ends(text)[<<part, p>>] # 0
  PROVE  MadeOfParts(text, part, p)
<1> DEFINE ends == Ends(text)
           n == Len(text)
           end == ends[<<part, p>>]
           one == ends[<<"expression", p>>]
           two == ends[<<"expression", one>>]
<1>1. n \in Nat /\ DOMAIN text = 1..n /\ Places(text) = 0..(n + 1)
  BY SequenceLength DEF Places
<1>2. \A y \in Parts : \A q \in Places(text) :
        ends[<<y, q>>] = EndWith(ends, text, y, q) /\ ends[<<y, q>>] \in Behind(n, q)
  BY EndsIs
<1>3. \A y \in Parts : ends[<<y, 0>>] = 0
  BY NothingEndsAtZero
<1>4. "expression" \in Parts /\ "list" \in Parts /\ "table" \in Parts
  BY DEF Parts
<1> HIDE DEF ends
<1>5. end = EndWith(ends, text, part, p) /\ end \in Behind(n, p) /\ end # 0
  BY <1>2 DEF ends
<1>6. p \in DOMAIN text /\ p \in 1..n /\ ~OutsideGrammar(text[p])
  BY <1>1, <1>5 DEF EndWith
<1>7. \A q \in 0..(n + 1) : \A y \in Parts : ends[<<y, q>>] = 0 \/ ends[<<y, q>>] \in (q + 1)..(n + 1)
  BY <1>1, <1>2 DEF Behind
<1> HIDE DEF n
<1>8. end \in (p + 1)..(n + 1) /\ p + 1 \in 0..(n + 1)
  BY <1>1, <1>5, <1>6 DEF Behind
<1>9. CASE part = "expression"
  <2>1. end = CASE text[p].kind \in Complete -> p + 1
                [] text[p].kind = "ref" -> ends[<<"expression", p + 1>>]
                [] text[p].kind = "array" -> ends[<<"list", p + 1>>]
                [] text[p].kind = "map" -> ends[<<"table", p + 1>>]
                [] text[p].kind = "blank" -> ends[<<part, p + 1>>]
                [] OTHER -> 0
    BY <1>5, <1>6, <1>9 DEF EndWith, Complete
  <2>2. \A y \in Parts : end = ends[<<y, p + 1>>] => p + 1 < end
    BY <1>1, <1>5, <1>6, <1>7, <1>8
  <2> HIDE DEF end
  <2> QED BY <1>1, <1>4, <1>5, <1>6, <1>8, <1>9, <2>1, <2>2 DEF ends, end, n, Complete, MadeOfParts
<1>10. CASE part # "expression"
  <2>1. end = IF text[p].kind = "blank" THEN ends[<<part, p + 1>>]
              ELSE IF text[p].kind = "close" THEN p + 1
              ELSE ends[<<part, IF part = "list" THEN one ELSE two>>]
    BY <1>5, <1>6, <1>10 DEF EndWith
  <2>2. part \in {"list", "table"}
    BY <1>10 DEF Parts
  <2>3. CASE text[p].kind \in {"blank", "close"}
    <3>1. end = ends[<<part, p + 1>>] => p + 1 < end
      BY <1>1, <1>5, <1>6, <1>7, <1>8
    <3> HIDE DEF end
    <3> QED BY <1>1, <1>6, <1>8, <1>10, <2>1, <2>3, <3>1 DEF ends, end, n, MadeOfParts
  <2>4. CASE text[p].kind \notin {"blank", "close"}
    <3>1. ends[<<part, IF part = "list" THEN one ELSE two>>] = end
      BY <2>1, <2>4
    <3>2. one # 0
      <4>1. one = 0 => two = 0
        BY <1>3, <1>4
      <4> HIDE DEF one, two
      <4> QED BY <1>3, <1>5, <3>1, <4>1
    <3>3. one \in (p + 1)..(n + 1)
      BY <1>1, <1>4, <1>6, <1>7, <3>2
    <3>4. two = 0 \/ two \in (one + 1)..(n + 1)
      BY <1>1, <1>4, <1>6, <1>7, <3>3
    <3>5. part = "list" => one < end
      <4>1. part = "list" => ends[<<part, one>>] = end
        BY <3>1
      <4> QED BY <1>1, <1>5, <1>6, <1>7, <3>3, <4>1
    <3>6. part = "table" => two # 0 /\ two < end
      <4>1. part = "table" => ends[<<part, two>>] = end
        BY <3>1
      <4>2. part = "table" => two # 0
        BY <1>3, <1>5, <4>1
      <4>3. part = "table" => two \in 0..(n + 1)
        BY <1>1, <1>6, <3>3, <3>4, <4>2
      <4> QED BY <1>1, <1>5, <1>6, <1>7, <4>1, <4>2, <4>3
    <3> HIDE DEF end, one, two
    <3>7. one \in Nat /\ end \in Nat
      BY <1>1, <1>6, <1>8, <3>3
    <3>8. part = "list" => one \in (p + 1)..(end - 1) /\ ends[<<"list", one>>] = end
      BY <1>1, <1>6, <3>1, <3>3, <3>5, <3>7
    <3>9. part = "table" => one \in (p + 1)..(end - 1) /\ two \in (one + 1)..(end - 1)
                            /\ ends[<<"table", two>>] = end
      BY <1>1, <1>6, <3>1, <3>3, <3>4, <3>6, <3>7
    <3> QED BY <1>1, <1>6, <1>8, <1>10, <2>2, <2>4, <3>8, <3>9 DEF ends, end, one, two, n, MadeOfParts
  <2> QED BY <2>3, <2>4
<1> QED BY <1>9, <1>10

(* Which of several named expressions is bound last. *)
LEMMA LastIs ==
  ASSUME NEW text, IsSequence(text), NEW S, S # {},
         S \subseteq {k \in DOMAIN text : Ends(text)[<<"expression", k>>] # 0}
  PROVE  LET ends == Ends(text)
             k == BoundLast(ends, S)
         IN /\ k \in S
            /\ \A j \in S : \/ ends[<<"expression", j>>] < ends[<<"expression", k>>]
                            \/ ends[<<"expression", j>>] = ends[<<"expression", k>>] /\ k <= j
<1> DEFINE ends == Ends(text)
           n == Len(text)
           E == [k \in S |-> ends[<<"expression", k>>]]
           Back == {n + 1 - E[k] : k \in S}
<1>0. n \in Nat /\ DOMAIN text = 1..n
  BY SequenceLength
<1>1. n \in Nat /\ DOMAIN text = 1..n /\ \A k \in S : k \in Places(text)
  <2>1. \A k \in S : k \in DOMAIN text
    OBVIOUS
  <2>2. \A k \in 1..n : k \in 0..(n + 1)
    BY <1>0
  <2> QED BY <1>0, <2>1, <2>2 DEF Places
<1>2. \A k \in S : E[k] \in 1..(n + 1) /\ k \in 1..n
  <2> TAKE k \in S
  <2>1. ends[<<"expression", k>>] \in Behind(n, k) /\ ends[<<"expression", k>>] # 0 /\ k \in 1..n
    BY <1>1, EndsIs DEF Parts
  <2> QED BY <1>1, <2>1 DEF Behind
<1> HIDE DEF E, ends, n
<1>3. Back \in SUBSET Nat /\ Back # {}
  BY <1>1, <1>2
<1>4. PICK b \in Back : \A c \in Back : b <= c
  <2> HIDE DEF Back
  <2> QED BY <1>3, LeastOf
<1>5. PICK l \in S : b = n + 1 - E[l]
  OBVIOUS
<1>6. \A j \in S : E[j] <= E[l]
  <2> TAKE j \in S
  <2>1. n + 1 - E[j] \in Back
    OBVIOUS
  <2> HIDE DEF Back
  <2> QED BY <1>1, <1>2, <1>4, <1>5, <2>1
<1> DEFINE Top == {j \in S : E[j] = E[l]}
<1>7. Top \in SUBSET Nat /\ Top # {}
  BY <1>2
<1>8. PICK k \in Top : \A j \in Top : k <= j
  <2> HIDE DEF Top
  <2> QED BY <1>7, LeastOf
<1>9. ASSUME NEW j \in S PROVE E[j] < E[k] \/ (E[j] = E[k] /\ k <= j)
  <2>1. E[k] = E[l] /\ E[j] <= E[l]
    BY <1>6
  <2>2. CASE E[j] = E[l]
    BY <1>8, <2>1, <2>2
  <2>3. CASE E[j] # E[l]
    BY <1>2, <2>1, <2>3
  <2> QED BY <2>2, <2>3
<1>10. \E i \in S : \A j \in S :
         \/ ends[<<"expression", j>>] < ends[<<"expression", i>>]
         \/ ends[<<"expression", j>>] = ends[<<"expression", i>>] /\ i <= j
  BY <1>9 DEF E
<1> DEFINE last == CHOOSE i \in S : \A j \in S :
                     \/ ends[<<"expression", j>>] < ends[<<"expression", i>>]
                     \/ ends[<<"expression", j>>] = ends[<<"expression", i>>] /\ i <= j
<1>11. last \in S /\ \A j \in S :
                     \/ ends[<<"expression", j>>] < ends[<<"expression", last>>]
                     \/ ends[<<"expression", j>>] = ends[<<"expression", last>>] /\ last <= j
  BY <1>10
<1> QED BY <1>11 DEF BoundLast, last, ends

LEMMA LastIsTheOne ==
  ASSUME NEW text, IsSequence(text), NEW S,
         S \subseteq {k \in DOMAIN text : Ends(text)[<<"expression", k>>] # 0},
         NEW k \in S,
         \A j \in S : \/ Ends(text)[<<"expression", j>>] < Ends(text)[<<"expression", k>>]
                      \/ Ends(text)[<<"expression", j>>] = Ends(text)[<<"expression", k>>] /\ k <= j
  PROVE  BoundLast(Ends(text), S) = k
<1> DEFINE ends == Ends(text)
           n == Len(text)
           last == BoundLast(ends, S)
<1>1. n \in Nat /\ DOMAIN text = 1..n
  BY SequenceLength
<1>2. \A j \in S : ends[<<"expression", j>>] \in Nat /\ j \in 1..n
  <2> TAKE j \in S
  <2>0. j \in 1..n
    BY <1>1
  <2>1. j \in Places(text)
    BY <1>1, <2>0 DEF Places
  <2>2. ends[<<"expression", j>>] \in Behind(n, j)
    BY <2>1, EndsIs DEF Parts
  <2> QED BY <1>1, <2>0, <2>2 DEF Behind
<1>3. /\ last \in S
      /\ \A j \in S : \/ ends[<<"expression", j>>] < ends[<<"expression", last>>]
                      \/ ends[<<"expression", j>>] = ends[<<"expression", last>>] /\ last <= j
  BY LastIs
<1> HIDE DEF last, ends, n
<1>4. last = k
  <2>1. \/ ends[<<"expression", k>>] < ends[<<"expression", last>>]
        \/ ends[<<"expression", k>>] = ends[<<"expression", last>>] /\ last <= k
    BY <1>3
  <2>2. \/ ends[<<"expression", last>>] < ends[<<"expression", k>>]
        \/ ends[<<"expression", last>>] = ends[<<"expression", k>>] /\ k <= last
    BY <1>3 DEF ends
  <2> QED BY <1>1, <1>2, <1>3, <2>1, <2>2
<1> QED BY <1>4 DEF last, ends

-----------------------------------------------------------------------------
(* The meanings exist, like the ends: what a part means rests on parts that *)
(* are read sooner, and on names that were bound before it begins.          *)
(* One part is read sooner than another if it ends before it, or with it    *)
(* but begins behind it.  Numbers in that order.                            *)
Sooner(text, y, x) ==
  \/ Ends(text)[y] < Ends(text)[x]
  \/ Ends(text)[y] = Ends(text)[x] /\ x[2] < y[2]
Rank(text, x) == Ends(text)[x] * (Len(text) + 2) + (Len(text) + 1 - x[2])

LEMMA Multiples ==
  ASSUME NEW a \in Nat, NEW b \in Nat, NEW c \in Nat, a < b
  PROVE  a * c \in Nat /\ b * c \in Nat /\ a * c + c <= b * c
<1>1. PICK d \in Nat : b = a + 1 + d
  <2>1. b - a - 1 \in Nat /\ b = a + 1 + (b - a - 1)
    OBVIOUS
  <2> QED BY <2>1
<1>2. b * c = a * c + c + d * c /\ d * c \in Nat
  BY <1>1
<1>3. a * c \in Nat /\ b * c \in Nat
  OBVIOUS
<1> QED BY <1>2, <1>3

LEMMA RankIs ==
  ASSUME NEW text, IsSequence(text)
  PROVE  /\ \A x \in Readable(text) : Rank(text, x) \in Nat /\ Rank(text, x) < (Len(text) + 2) * (Len(text) + 2)
         /\ \A x, y \in Readable(text) : Sooner(text, y, x) => Rank(text, y) < Rank(text, x)
<1> DEFINE n == Len(text)
           e(x) == Ends(text)[x]
<1>1. n \in Nat
  BY SequenceLength
<1>2. \A x \in Readable(text) : e(x) \in 0..(n + 1) /\ x[2] \in 0..(n + 1)
  <2> TAKE x \in Readable(text)
  <2>1. PICK part \in Parts, p \in Places(text) : x = <<part, p>>
    BY DEF Readable
  <2>2. e(x) \in Behind(n, p) /\ p \in 0..(n + 1) /\ x[2] = p
    BY <2>1, EndsIs DEF Places
  <2> HIDE DEF e
  <2> QED BY <1>1, <2>2 DEF Behind
<1> DEFINE c == n + 2
<1>4. \A x \in Readable(text) : Rank(text, x) = e(x) * c + (n + 1 - x[2])
  BY DEF Rank
<1>5. c \in Nat
  BY <1>1
<1>6. ASSUME NEW x \in Readable(text) PROVE Rank(text, x) \in Nat /\ Rank(text, x) < c * c
  <2>1. e(x) \in Nat /\ e(x) < c /\ n + 1 - x[2] \in Nat /\ n + 1 - x[2] < c
    BY <1>1, <1>2
  <2> HIDE DEF e, c
  <2>2. e(x) * c + c <= c * c /\ e(x) * c \in Nat /\ c * c \in Nat
    BY <1>5, <2>1, Multiples
  <2> QED BY <1>4, <1>5, <2>1, <2>2
<1>7. ASSUME NEW x \in Readable(text), NEW y \in Readable(text), Sooner(text, y, x)
      PROVE  Rank(text, y) < Rank(text, x)
  <2>1. /\ e(x) \in Nat /\ n + 1 - x[2] \in Nat
        /\ e(y) \in Nat /\ n + 1 - y[2] \in Nat /\ n + 1 - y[2] < c
        /\ x[2] < y[2] => n + 1 - y[2] < n + 1 - x[2]
    BY <1>1, <1>2
  <2>2. e(y) < e(x) \/ (e(y) = e(x) /\ x[2] < y[2])
    BY <1>7 DEF Sooner
  <2> HIDE DEF e, c
  <2>3. CASE e(y) < e(x)
    <3>1. e(y) * c + c <= e(x) * c /\ e(x) * c \in Nat /\ e(y) * c \in Nat
      BY <1>5, <2>1, <2>3, Multiples
    <3> DEFINE i == n + 1 - y[2]
               j == n + 1 - x[2]
    <3>2. i \in Nat /\ i < c /\ j \in Nat
      BY <2>1
    <3>3. Rank(text, x) = e(x) * c + j /\ Rank(text, y) = e(y) * c + i
      BY <1>4
    <3> HIDE DEF i, j
    <3> QED BY <1>5, <3>1, <3>2, <3>3
  <2>4. CASE e(y) = e(x) /\ x[2] < y[2]
    <3> DEFINE i == n + 1 - y[2]
               j == n + 1 - x[2]
    <3>1. i \in Nat /\ j \in Nat /\ i < j
      BY <2>1, <2>4
    <3>2. Rank(text, x) = e(x) * c + j /\ Rank(text, y) = e(x) * c + i /\ e(x) * c \in Nat
      BY <1>4, <1>5, <2>1, <2>4
    <3> HIDE DEF i, j
    <3> QED BY <3>1, <3>2
  <2> QED BY <2>2, <2>3, <2>4
<1> QED BY <1>6, <1>7

(* The names that are bound where a part begins, and what is named.         *)
LEMMA NamedBeforeIs ==
  ASSUME NEW text, IsSequence(text), NEW p \in 1..Len(text)
  PROVE  LET named == NamedBefore(text, Ends(text), p) IN
         /\ named \subseteq {k \in DOMAIN text : Ends(text)[<<"expression", k>>] # 0}
         /\ \A k \in named : <<"expression", k>> \in Readable(text) /\ Ends(text)[<<"expression", k>>] \in 1..p
<1>1. Len(text) \in Nat /\ DOMAIN text = 1..Len(text)
  BY SequenceLength
<1>2. \A k \in DOMAIN text : k \in Places(text)
  BY <1>1 DEF Places
<1>3. "expression" \in Parts
  BY DEF Parts
<1>4. \A k \in NamedBefore(text, Ends(text), p) :
        k \in DOMAIN text /\ Ends(text)[<<"expression", k>>] \in 1..p
  BY DEF NamedBefore
<1>5. \A e \in 1..p : e # 0
  OBVIOUS
<1> QED BY <1>2, <1>3, <1>4, <1>5 DEF Readable

LEMMA NamesLook ==
  ASSUME NEW text, IsSequence(text), NEW f, NEW g, NEW S,
         S \subseteq {k \in DOMAIN text : Ends(text)[<<"expression", k>>] # 0},
         \A k \in S : f[<<"expression", k>>] = g[<<"expression", k>>]
  PROVE  NamesAt(f, text, Ends(text), FALSE, S) = NamesAt(g, text, Ends(text), FALSE, S)
<1> DEFINE named(name) == {k \in S : text[k].name = name}
           of(h, name) == IF named(name) = {} THEN Absent
                          ELSE Kept(FALSE, h[<<"expression", BoundLast(Ends(text), named(name))>>])
<1>1. ASSUME NEW name PROVE of(f, name) = of(g, name)
  <2>1. CASE named(name) = {}
    BY <2>1
  <2>2. CASE named(name) # {}
    <3>1. named(name) \subseteq {k \in DOMAIN text : Ends(text)[<<"expression", k>>] # 0}
      OBVIOUS
    <3>2. BoundLast(Ends(text), named(name)) \in named(name)
      <4> HIDE DEF named
      <4> QED BY <2>2, <3>1, LastIs
    <3>3. BoundLast(Ends(text), named(name)) \in S
      BY <3>2
    <3> QED BY <3>3
  <2> QED BY <2>1, <2>2
<1>2. NamesAt(f, text, Ends(text), FALSE, S) = [name \in Names |-> of(f, name)]
  BY DEF NamesAt
<1>3. NamesAt(g, text, Ends(text), FALSE, S) = [name \in Names |-> of(g, name)]
  BY DEF NamesAt
<1> HIDE DEF of
<1> QED BY <1>1, <1>2, <1>3

(* What MeaningWith looks at. *)
LEMMA MeaningLooks ==
  ASSUME NEW text, IsSequence(text), NEW part \in Parts, NEW p \in Places(text),
         Ends(text)[<<part, p>>] # 0,
         NEW f, NEW g,
         \A y \in Readable(text) : Sooner(text, y, <<part, p>>) => f[y] = g[y]
  PROVE  MeaningWith(f, text, Ends(text), FALSE, part, p) = MeaningWith(g, text, Ends(text), FALSE, part, p)
<1> DEFINE ends == Ends(text)
           n == Len(text)
           x == text[p]
           end == ends[<<part, p>>]
           one == ends[<<"expression", p>>]
           two == ends[<<"expression", one>>]
<1>0. MadeOfParts(text, part, p)
  BY ReadableIs
<1>1. /\ n \in Nat /\ DOMAIN text = 1..n /\ p \in 1..n /\ end \in (p + 1)..(n + 1)
      /\ x.kind = "blank" => p + 1 < end /\ ends[<<part, p + 1>>] = end
      /\ x.kind # "blank" /\ part = "expression" =>
           /\ x.kind \in Complete \cup {"ref", "array", "map"}
           /\ x.kind \in Complete => end = p + 1
           /\ x.kind = "ref" => p + 1 < end /\ ends[<<"expression", p + 1>>] = end
           /\ x.kind = "array" => p + 1 < end /\ ends[<<"list", p + 1>>] = end
           /\ x.kind = "map" => p + 1 < end /\ ends[<<"table", p + 1>>] = end
      /\ x.kind = "close" => part # "expression" /\ end = p + 1
      /\ x.kind \notin {"blank", "close"} /\ part = "list" =>
           /\ one \in (p + 1)..(end - 1) /\ ends[<<"list", one>>] = end
      /\ x.kind \notin {"blank", "close"} /\ part = "table" =>
           /\ one \in (p + 1)..(end - 1) /\ two \in (one + 1)..(end - 1)
           /\ ends[<<"table", two>>] = end
  BY <1>0 DEF MadeOfParts
<1>2. Places(text) = 0..(n + 1) /\ "expression" \in Parts /\ "list" \in Parts /\ "table" \in Parts
  BY DEF Places, Parts
<1>3. ASSUME NEW y \in Parts, NEW q \in 1..(n + 1), ends[<<y, q>>] # 0,
             ends[<<y, q>>] < end \/ (ends[<<y, q>>] = end /\ p < q)
      PROVE  f[<<y, q>>] = g[<<y, q>>]
  <2>1. <<y, q>> \in Readable(text)
    BY <1>2, <1>3 DEF Readable
  <2>2. Sooner(text, <<y, q>>, <<part, p>>)
    BY <1>3 DEF Sooner
  <2> QED BY <2>1, <2>2
<1> HIDE DEF ends, n
<1>4. end # 0 /\ end \in Nat /\ p + 1 \in 1..(n + 1) /\ p < p + 1 /\ p \in 1..(n + 1)
  BY <1>1
<1>5. CASE x.kind = "blank"
  <2>1. f[<<part, p + 1>>] = g[<<part, p + 1>>]
    BY <1>1, <1>3, <1>4, <1>5
  <2> QED BY <1>5, <2>1 DEF MeaningWith
<1>6. CASE x.kind # "blank" /\ part = "expression"
  <2>1. x.kind = "ref" => f[<<"expression", p + 1>>] = g[<<"expression", p + 1>>]
    BY <1>1, <1>2, <1>3, <1>4, <1>6
  <2>2. x.kind = "array" => f[<<"list", p + 1>>] = g[<<"list", p + 1>>]
    BY <1>1, <1>2, <1>3, <1>4, <1>6
  <2>3. x.kind = "map" => f[<<"table", p + 1>>] = g[<<"table", p + 1>>]
    BY <1>1, <1>2, <1>3, <1>4, <1>6
  <2> DEFINE named == NamedBefore(text, ends, p)
  <2>4. x.kind = "insert" => NamesAt(f, text, ends, FALSE, named) = NamesAt(g, text, ends, FALSE, named)
    <3> SUFFICES ASSUME x.kind = "insert"
                 PROVE  NamesAt(f, text, ends, FALSE, named) = NamesAt(g, text, ends, FALSE, named)
      OBVIOUS
    <3>1. end = p + 1
      BY <1>1, <1>6 DEF Complete
    <3>2. /\ named \subseteq {k \in DOMAIN text : ends[<<"expression", k>>] # 0}
          /\ \A k \in named : <<"expression", k>> \in Readable(text) /\ ends[<<"expression", k>>] \in 1..p
      BY <1>1, NamedBeforeIs DEF ends, n
    <3>3. ASSUME NEW k \in named PROVE f[<<"expression", k>>] = g[<<"expression", k>>]
      <4>1. ends[<<"expression", k>>] < end
        BY <1>1, <3>1, <3>2
      <4>2. Sooner(text, <<"expression", k>>, <<part, p>>)
        BY <4>1 DEF Sooner, ends
      <4> QED BY <3>2, <4>2
    <3> HIDE DEF named
    <3> QED BY <3>2, <3>3, NamesLook DEF ends
  <2>5. x.kind \in {"value", "null", "binary", "insert", "ref", "array", "map"}
    BY <1>1, <1>6 DEF Complete
  <2>6. \A h : MeaningWith(h, text, ends, FALSE, part, p) =
          CASE x.kind = "value" -> Value(x.word)
            [] x.kind = "null" -> Null
            [] x.kind = "binary" -> BinaryData(x.blob)
            [] x.kind = "insert" ->
                 Inserted(FALSE, Bound(NamesAt(h, text, ends, FALSE, named), x.name))
            [] x.kind = "ref" -> h[<<"expression", p + 1>>]
            [] x.kind = "array" -> h[<<"list", p + 1>>]
            [] x.kind = "map" -> h[<<"table", p + 1>>]
    BY <1>6 DEF MeaningWith
  <2> HIDE DEF named
  <2> QED BY <2>1, <2>2, <2>3, <2>4, <2>5, <2>6 DEF ends
<1>7. CASE x.kind = "close"
  <2>1. part # "expression" /\ x.kind # "blank"
    BY <1>1, <1>7
  <2> QED BY <1>7, <2>1 DEF MeaningWith
<1>8. CASE x.kind \notin {"blank", "close"} /\ part # "expression"
  <2>1. part \in {"list", "table"}
    BY <1>8 DEF Parts
  <2>2. one \in (p + 1)..(end - 1)
    BY <1>1, <1>8, <2>1
  <2>3. one # 0 /\ one < end /\ one \in 1..(n + 1) /\ p < one
    BY <1>1, <2>2
  <2>4. f[<<"expression", p>>] = g[<<"expression", p>>]
    BY <1>2, <1>3, <1>4, <2>3
  <2>5. CASE part = "list"
    <3>1. ends[<<"list", one>>] = end
      BY <1>1, <1>8, <2>5
    <3>2. f[<<"list", one>>] = g[<<"list", one>>]
      <4> HIDE DEF one, end
      <4> QED BY <1>2, <1>3, <1>4, <2>3, <3>1
    <3>3. \A h : MeaningWith(h, text, ends, FALSE, part, p) = ListOf(h[<<"expression", p>>], h[<<"list", one>>])
      BY <1>8, <2>5 DEF MeaningWith
    <3> HIDE DEF one
    <3> QED BY <2>4, <3>2, <3>3 DEF ends
  <2>6. CASE part = "table"
    <3>1. two \in (one + 1)..(end - 1) /\ ends[<<"table", two>>] = end
      BY <1>1, <1>8, <2>6
    <3>2. two # 0 /\ two < end /\ two \in 1..(n + 1) /\ p < two
      <4> HIDE DEF one, two, end
      <4> QED BY <1>1, <2>3, <3>1
    <3>3. f[<<"expression", one>>] = g[<<"expression", one>>]
      <4> HIDE DEF one, end
      <4> QED BY <1>2, <1>3, <2>3, <3>2
    <3>4. f[<<"table", two>>] = g[<<"table", two>>]
      <4> HIDE DEF two, end
      <4> QED BY <1>2, <1>3, <1>4, <3>1, <3>2
    <3>5. \A h : MeaningWith(h, text, ends, FALSE, part, p)
                 = TableOf(h[<<"expression", p>>], h[<<"expression", one>>], h[<<"table", two>>])
      BY <1>8, <2>6 DEF MeaningWith
    <3> HIDE DEF one, two
    <3> QED BY <2>4, <3>3, <3>4, <3>5 DEF ends
  <2> QED BY <2>1, <2>5, <2>6
<1> QED BY <1>5, <1>6, <1>7, <1>8

(* A function that gives the parts of ranks below m their meanings.         *)
MeansTo(f, text, m) ==
  \A part \in Parts : \A p \in Places(text) :
    Ends(text)[<<part, p>>] # 0 /\ Rank(text, <<part, p>>) < m =>
      f[<<part, p>>] = MeaningWith(f, text, Ends(text), FALSE, part, p)

LEMMA MeansExist ==
  ASSUME NEW text, IsSequence(text), NEW m \in Nat
  PROVE  \E f : MeansTo(f, text, m)
<1> DEFINE Without == {i \in Nat : ~ \E f : MeansTo(f, text, i)}
<1>1. SUFFICES ASSUME NEW i \in Without, \A k \in Without : i <= k PROVE FALSE
  <2>1. Without \in SUBSET Nat
    OBVIOUS
  <2>2. Without = {} => \E f : MeansTo(f, text, m)
    OBVIOUS
  <2> HIDE DEF Without
  <2> QED BY <2>1, <2>2, LeastOf
<1>2. \A x \in Readable(text) : Rank(text, x) \in Nat
  BY RankIs
<1>3. CASE i = 0
  <2>1. MeansTo(<<>>, text, 0)
    <3> SUFFICES ASSUME NEW part \in Parts, NEW p \in Places(text),
                        Ends(text)[<<part, p>>] # 0, Rank(text, <<part, p>>) < 0
                 PROVE  FALSE
      BY DEF MeansTo
    <3>1. <<part, p>> \in Readable(text)
      BY DEF Readable
    <3> QED BY <1>2, <3>1
  <2> QED BY <1>3, <2>1
<1>4. CASE i # 0
  <2>1. i - 1 \in Nat /\ i - 1 \notin Without
    BY <1>1, <1>4
  <2>2. PICK f : MeansTo(f, text, i - 1)
    BY <2>1
  <2> DEFINE g == [x \in Readable(text) |->
                     IF Rank(text, x) < i - 1 THEN f[x]
                     ELSE MeaningWith(f, text, Ends(text), FALSE, x[1], x[2])]
  <2>3. ASSUME NEW part \in Parts, NEW p \in Places(text),
               Ends(text)[<<part, p>>] # 0, Rank(text, <<part, p>>) < i
        PROVE  g[<<part, p>>] = MeaningWith(g, text, Ends(text), FALSE, part, p)
    <3>1. <<part, p>> \in Readable(text)
      BY <2>3 DEF Readable
    <3>2. ASSUME NEW y \in Readable(text), Sooner(text, y, <<part, p>>) PROVE f[y] = g[y]
      <4>1. Rank(text, y) < Rank(text, <<part, p>>)
        BY <3>1, <3>2, RankIs
      <4>2. Rank(text, y) < i - 1
        BY <1>2, <2>1, <2>3, <3>1, <4>1
      <4> QED BY <4>2
    <3>3. MeaningWith(f, text, Ends(text), FALSE, part, p) = MeaningWith(g, text, Ends(text), FALSE, part, p)
      <4> HIDE DEF g
      <4> QED BY <2>3, <3>2, MeaningLooks
    <3>4. CASE Rank(text, <<part, p>>) < i - 1
      <4>1. f[<<part, p>>] = MeaningWith(f, text, Ends(text), FALSE, part, p)
        BY <2>2, <2>3, <3>4 DEF MeansTo
      <4>2. g[<<part, p>>] = f[<<part, p>>]
        BY <3>1, <3>4
      <4> HIDE DEF g
      <4> QED BY <3>3, <4>1, <4>2
    <3>5. CASE ~(Rank(text, <<part, p>>) < i - 1)
      <4>1. g[<<part, p>>] = MeaningWith(f, text, Ends(text), FALSE, part, p)
        BY <3>1, <3>5
      <4> HIDE DEF g
      <4> QED BY <3>3, <4>1
    <3> QED BY <3>4, <3>5
  <2> HIDE DEF g
  <2>4. MeansTo(g, text, i)
    BY <2>3 DEF MeansTo
  <2> QED BY <2>4
<1> QED BY <1>3, <1>4

(* What each part that can be read means is what its parts make of it.      *)
LEMMA MeansIs ==
  ASSUME NEW text, IsSequence(text)
  PROVE  LET means == Means(text, Ends(text), FALSE) IN
         \A part \in Parts : \A p \in Places(text) : Ends(text)[<<part, p>>] # 0 =>
           means[<<part, p>>] = MeaningWith(means, text, Ends(text), FALSE, part, p)
<1> DEFINE ends == Ends(text)
           Dom == {x \in Parts \X Places(text) : ends[x] # 0}
           m == (Len(text) + 2) * (Len(text) + 2)
<1>1. Len(text) \in Nat
  BY SequenceLength
<1>2. m \in Nat
  <2>1. ASSUME NEW a \in Nat PROVE a * a \in Nat
    OBVIOUS
  <2>2. Len(text) + 2 \in Nat
    BY <1>1
  <2> QED BY <2>1, <2>2
<1> HIDE DEF m
<1>3. PICK f : MeansTo(f, text, m)
  BY <1>2, MeansExist
<1> DEFINE g == [x \in Dom |-> f[x]]
<1>4. Dom = Readable(text)
  BY DEF Readable
<1>5. ASSUME NEW part \in Parts, NEW p \in Places(text), ends[<<part, p>>] # 0
      PROVE  g[<<part, p>>] = MeaningWith(g, text, ends, FALSE, part, p)
  <2>1. <<part, p>> \in Readable(text)
    BY <1>5 DEF Readable
  <2>2. Rank(text, <<part, p>>) < m
    BY <2>1, RankIs DEF m
  <2>3. f[<<part, p>>] = MeaningWith(f, text, ends, FALSE, part, p)
    BY <1>3, <1>5, <2>2 DEF MeansTo
  <2>4. \A y \in Readable(text) : f[y] = g[y]
    BY <1>4
  <2>5. MeaningWith(f, text, ends, FALSE, part, p) = MeaningWith(g, text, ends, FALSE, part, p)
    <3> HIDE DEF g
    <3> QED BY <1>5, <2>4, MeaningLooks
  <2> HIDE DEF g
  <2> QED BY <2>1, <2>3, <2>4, <2>5
<1>6. g = [at \in Dom |-> MeaningWith(g, text, ends, FALSE, at[1], at[2])]
  <2>1. ASSUME NEW at \in Dom PROVE g[at] = MeaningWith(g, text, ends, FALSE, at[1], at[2])
    <3>1. PICK part \in Parts, p \in Places(text) : at = <<part, p>> /\ ends[<<part, p>>] # 0
      OBVIOUS
    <3>2. at[1] = part /\ at[2] = p
      BY <3>1
    <3> HIDE DEF g, ends
    <3> QED BY <1>5, <3>1, <3>2
  <2>2. g = [at \in Dom |-> g[at]]
    OBVIOUS
  <2> HIDE DEF g, Dom, ends
  <2> QED BY <2>1, <2>2
<1>7. \E h : h = [at \in Dom |-> MeaningWith(h, text, ends, FALSE, at[1], at[2])]
  <2> HIDE DEF g
  <2> QED BY <1>6
<1> DEFINE means == Means(text, ends, FALSE)
<1>8. means = [at \in Dom |-> MeaningWith(means, text, ends, FALSE, at[1], at[2])]
  BY <1>7 DEF Means
<1> HIDE DEF means
<1>9. ASSUME NEW part \in Parts, NEW p \in Places(text), ends[<<part, p>>] # 0
      PROVE  means[<<part, p>>] = MeaningWith(means, text, ends, FALSE, part, p)
  <2>1. <<part, p>> \in Dom
    BY <1>9
  <2> HIDE DEF Dom, ends
  <2> QED BY <1>8, <2>1
<1> QED BY <1>9 DEF means

LEMMA TextPlaces ==
  ASSUME NEW text, IsSequence(text)
  PROVE  /\ Len(text) \in Nat /\ DOMAIN text = 1..Len(text) /\ Places(text) = 0..(Len(text) + 1)
         /\ \A p \in 1..(Len(text) + 1) : p \in Places(text)
<1>1. Len(text) \in Nat /\ DOMAIN text = 1..Len(text)
  BY SequenceLength
<1> QED BY <1>1 DEF Places

LEMMA PartsAre == "expression" \in Parts /\ "list" \in Parts /\ "table" \in Parts
BY DEF Parts

(* What is read from a text with the same blanks in front is the same.      *)
LEMMA TrimmedReads ==
  ASSUME NEW part \in Parts, NEW self, NEW refs, NEW s, NEW t, Trim(s) = Trim(t), NEW o
  PROVE  Reads(Goal(part, self, refs, s), o) <=> Reads(Goal(part, self, refs, t), o)
<1> DEFINE g == Goal(part, self, refs, s)
           h == Goal(part, self, refs, t)
<1>1. /\ g.want = part /\ g.self = self /\ g.refs = refs /\ Trim(g.text) = Trim(s)
      /\ h.want = part /\ h.self = self /\ h.refs = refs /\ Trim(h.text) = Trim(s)
  BY GoalIs
<1> HIDE DEF g, h
<1>2. Reads(g, o) <=> Rule(Reads, g, o)
  BY ReadsIs
<1>3. Reads(h, o) <=> Rule(Reads, h, o)
  BY ReadsIs
<1>4. CASE part = "expression"
  <2>1. ExpressionRule(Reads, g, o) <=> ExpressionRule(Reads, h, o)
    BY <1>1 DEF ExpressionRule
  <2> QED BY <1>1, <1>2, <1>3, <1>4, <2>1 DEF Rule, g, h
<1>5. CASE part = "list"
  <2>1. ListRule(Reads, g, o) <=> ListRule(Reads, h, o)
    BY <1>1 DEF ListRule
  <2> QED BY <1>1, <1>2, <1>3, <1>5, <2>1 DEF Rule, g, h
<1>6. CASE part = "table"
  <2>1. TableRule(Reads, g, o) <=> TableRule(Reads, h, o)
    BY <1>1 DEF TableRule
  <2> QED BY <1>1, <1>2, <1>3, <1>6, <2>1 DEF Rule, g, h
<1> QED BY <1>4, <1>5, <1>6 DEF Parts

LEMMA BlankReads ==
  ASSUME NEW text, IsSequence(text), NEW p \in 1..Len(text), text[p].kind = "blank",
         NEW part \in Parts, NEW self, NEW refs, NEW o
  PROVE  Reads(Goal(part, self, refs, From(text, p)), o) <=> Reads(Goal(part, self, refs, From(text, p + 1)), o)
<1>1. p \in 1..(Len(text) + 1) /\ p # Len(text) + 1
  BY TextPlaces
<1>2. Trim(From(text, p)) = Trim(From(text, p + 1))
  BY <1>1, TrimFrom
<1> QED BY <1>2, TrimmedReads

(* The rules at a place of a text that is not blank.                        *)
LEMMA NothingAtEnd ==
  ASSUME NEW text, IsSequence(text), NEW part \in Parts, NEW self, NEW refs, NEW o
  PROVE  ~Reads(Goal(part, self, refs, From(text, Len(text) + 1)), o)
<1>1. PICK s : s = From(text, Len(text) + 1)
  OBVIOUS
<1>2. Len(text) + 1 \in 1..(Len(text) + 1)
  BY TextPlaces
<1>3. Trim(s) = <<>>
  BY <1>1, <1>2, TrimFrom
<1>4. ~Reads(Goal("expression", self, refs, s), o)
  BY ONLY <1>3, ExpressionReads
<1>5. ~Reads(Goal("list", self, refs, s), o)
  BY ONLY <1>3, ListReads
<1>6. ~Reads(Goal("table", self, refs, s), o)
  BY ONLY <1>3, TableReads
<1> QED BY <1>1, <1>4, <1>5, <1>6 DEF Parts

LEMMA SolidHere ==
  ASSUME NEW text, IsSequence(text), NEW p \in 1..Len(text), text[p].kind # "blank"
  PROVE  LET trim == Trim(From(text, p)) IN
         trim = From(text, p) /\ trim # <<>> /\ Head(trim) = text[p] /\ Tail(trim) = From(text, p + 1)
<1>1. p \in 1..(Len(text) + 1) /\ p # Len(text) + 1
  BY TextPlaces
<1> QED BY <1>1, TrimFrom

LEMMA ExpressionHere ==
  ASSUME NEW text, IsSequence(text), NEW p \in 1..Len(text), text[p].kind # "blank",
         NEW self, NEW refs, NEW o
  PROVE  LET x == text[p]
             rest == From(text, p + 1)
             goal == Goal("expression", self, refs, From(text, p))
         IN /\ x.kind \in {"value", "openQuote"} =>
                 (Reads(goal, o) <=> o = Outcome(Value(x.word), refs, rest))
            /\ x.kind = "null" => (Reads(goal, o) <=> o = Outcome(Null, refs, rest))
            /\ x.kind = "binary" => (Reads(goal, o) <=> o = Outcome(BinaryData(x.blob), refs, rest))
            /\ x.kind = "insert" =>
                 (Reads(goal, o) <=>
                    /\ Bound(refs, x.name) # Absent
                    /\ o = Outcome(copyInto(self, Bound(refs, x.name)), refs, rest))
            /\ x.kind = "ref" =>
                 (Reads(goal, o) <=>
                    /\ x.name \notin InvalidNames
                    /\ \E m : /\ Reads(Goal("expression", self, refs, rest), m)
                              /\ o = Outcome(m.expr, [m.refs EXCEPT ![x.name] = createCopy[m.expr]], m.text))
            /\ x.kind = "array" =>
                 (Reads(goal, o) <=> Reads(Goal("list", Array(<<>>), refs, rest), o))
            /\ x.kind = "map" =>
                 (Reads(goal, o) <=> Reads(Goal("table", Map(EmptyTable(Words)), refs, rest), o))
            /\ x.kind \notin {"value", "openQuote", "null", "binary", "insert", "ref", "array", "map"} =>
                 ~Reads(goal, o)
<1>1. PICK s, x, rest : s = From(text, p) /\ x = text[p] /\ rest = From(text, p + 1)
  OBVIOUS
<1>2. Trim(s) # <<>> /\ x = Head(Trim(s)) /\ rest = Tail(Trim(s))
  BY <1>1, SolidHere
<1>3. /\ x.kind \in {"value", "openQuote"} =>
           (Reads(Goal("expression", self, refs, s), o) <=> o = Outcome(Value(x.word), refs, rest))
      /\ x.kind = "null" => (Reads(Goal("expression", self, refs, s), o) <=> o = Outcome(Null, refs, rest))
      /\ x.kind = "binary" =>
           (Reads(Goal("expression", self, refs, s), o) <=> o = Outcome(BinaryData(x.blob), refs, rest))
      /\ x.kind = "insert" =>
           (Reads(Goal("expression", self, refs, s), o) <=>
              /\ Bound(refs, x.name) # Absent
              /\ o = Outcome(copyInto(self, Bound(refs, x.name)), refs, rest))
      /\ x.kind = "ref" =>
           (Reads(Goal("expression", self, refs, s), o) <=>
              /\ x.name \notin InvalidNames
              /\ \E m : /\ Reads(Goal("expression", self, refs, rest), m)
                        /\ o = Outcome(m.expr, [m.refs EXCEPT ![x.name] = createCopy[m.expr]], m.text))
      /\ x.kind = "array" =>
           (Reads(Goal("expression", self, refs, s), o) <=> Reads(Goal("list", Array(<<>>), refs, rest), o))
      /\ x.kind = "map" =>
           (Reads(Goal("expression", self, refs, s), o)
              <=> Reads(Goal("table", Map(EmptyTable(Words)), refs, rest), o))
      /\ x.kind \notin {"value", "openQuote", "null", "binary", "insert", "ref", "array", "map"} =>
           ~Reads(Goal("expression", self, refs, s), o)
  BY ONLY <1>2, ExpressionReads
<1> QED BY ONLY <1>1, <1>3

LEMMA ListHere ==
  ASSUME NEW text, IsSequence(text), NEW p \in 1..Len(text), text[p].kind # "blank",
         NEW self, NEW refs, NEW o
  PROVE  LET goal == Goal("list", self, refs, From(text, p)) IN
         /\ text[p].kind = "close" => (Reads(goal, o) <=> o = Outcome(self, refs, From(text, p + 1)))
         /\ text[p].kind # "close" =>
              (Reads(goal, o) <=>
                 \E m : /\ Reads(Goal("expression", Null, refs, From(text, p)), m)
                        /\ Reads(Goal("list", Array(Append(self.list, m.expr)), m.refs, m.text), o))
<1>1. PICK s, x, rest : s = From(text, p) /\ x = text[p] /\ rest = From(text, p + 1)
  OBVIOUS
<1>2. Trim(s) # <<>> /\ x = Head(Trim(s)) /\ rest = Tail(Trim(s)) /\ s = Trim(s)
  BY <1>1, SolidHere
<1>3. /\ x.kind = "close" => (Reads(Goal("list", self, refs, s), o) <=> o = Outcome(self, refs, rest))
      /\ x.kind # "close" =>
           (Reads(Goal("list", self, refs, s), o) <=>
              \E m : /\ Reads(Goal("expression", Null, refs, s), m)
                     /\ Reads(Goal("list", Array(Append(self.list, m.expr)), m.refs, m.text), o))
  BY ONLY <1>2, ListReads
<1> QED BY ONLY <1>1, <1>3

ReadsAKey(text, p, self, refs, o) ==
  Reads(Goal("table", self, refs, From(text, p)), o)
  <=> \E k, v :
        /\ Reads(Goal("expression", Null, refs, From(text, p)), k) /\ k.expr.type = "Value"
        /\ Reads(Goal("expression", Invalid, k.refs, k.text), v) /\ v.expr.type # "Invalid"
        /\ Reads(Goal("table", Map([self.hash EXCEPT ![k.expr.data] = v.expr]), v.refs, v.text), o)
LEMMA TableHere ==
  ASSUME NEW text, IsSequence(text), NEW p \in 1..Len(text), text[p].kind # "blank",
         NEW self, NEW refs, NEW o
  PROVE  /\ text[p].kind = "close" =>
              (Reads(Goal("table", self, refs, From(text, p)), o) <=> o = Outcome(self, refs, From(text, p + 1)))
         /\ text[p].kind # "close" => ReadsAKey(text, p, self, refs, o)
<1>1. PICK s, x, rest : s = From(text, p) /\ x = text[p] /\ rest = From(text, p + 1)
  OBVIOUS
<1>2. Trim(s) # <<>> /\ x = Head(Trim(s)) /\ rest = Tail(Trim(s)) /\ s = Trim(s)
  BY <1>1, SolidHere
<1> DEFINE goal == Goal("table", self, refs, s)
<1>3. goal.want = "table" /\ goal.self = self /\ goal.refs = refs /\ goal.text = s
  BY GoalIs
<1> HIDE DEF goal
<1>4. Reads(goal, o) <=> TableRule(Reads, goal, o)
  BY <1>3, ReadsIs DEF Rule
<1>5. /\ x.kind = "close" => (Reads(goal, o) <=> o = Outcome(self, refs, rest))
      /\ x.kind # "close" =>
           (Reads(goal, o) <=>
              \E k, v :
                /\ Reads(Goal("expression", Null, refs, s), k) /\ k.expr.type = "Value"
                /\ Reads(Goal("expression", Invalid, k.refs, k.text), v) /\ v.expr.type # "Invalid"
                /\ Reads(Goal("table", Map([self.hash EXCEPT ![k.expr.data] = v.expr]), v.refs, v.text), o))
  BY <1>2, <1>3, <1>4 DEF TableRule
<1> QED BY ONLY <1>1, <1>5 DEF goal, ReadsAKey

(* What is read from a text is a part of it that ends where Ends says.      *)
ReadsParts(text, part, p) ==
  \A self, refs, o :
    Reads(Goal(part, self, refs, From(text, p)), o) =>
      Ends(text)[<<part, p>>] # 0 /\ o.text = From(text, Ends(text)[<<part, p>>])

LEMMA ReadsAPart ==
  ASSUME NEW text, IsSequence(text), Plain(text), NEW p \in 1..(Len(text) + 1), NEW part \in Parts
  PROVE  ReadsParts(text, part, p)
<1> DEFINE n == Len(text)
           ends == Ends(text)
           T == {q \in 1..(n + 1) : \A x \in Parts : ReadsParts(text, x, q)}
<1>1. n \in Nat /\ DOMAIN text = 1..n /\ Places(text) = 0..(n + 1)
      /\ \A q \in 1..(n + 1) : q \in Places(text)
  BY TextPlaces
<1>2. \A x \in Parts : \A q \in Places(text) :
        ends[<<x, q>>] = EndWith(ends, text, x, q) /\ ends[<<x, q>>] \in Behind(n, q)
  BY EndsIs
<1> HIDE DEF ends
<1>3. ASSUME NEW q \in 1..(n + 1), \A r \in (q + 1)..(n + 1) : r \in T
      PROVE  q \in T
  <2> DEFINE x == text[q]
             rest == From(text, q + 1)
  <2>1. \A r \in (q + 1)..(n + 1) : \A y \in Parts : ReadsParts(text, y, r)
    BY <1>3
  <2>2. CASE q = n + 1
    <3>1. ASSUME NEW y \in Parts PROVE ReadsParts(text, y, q)
      <4>1. \A self, refs, o : ~Reads(Goal(y, self, refs, From(text, q)), o)
        BY <2>2, NothingAtEnd
      <4> QED BY <4>1 DEF ReadsParts
    <3> QED BY <3>1
  <2>3. CASE q # n + 1 /\ x.kind = "blank"
    <3>1. q \in 1..n /\ q + 1 \in (q + 1)..(n + 1)
      BY <1>1, <2>3
    <3>2. \A y \in Parts : ends[<<y, q>>] = ends[<<y, q + 1>>]
      BY <1>1, <1>2, <2>3, <3>1 DEF EndWith, OutsideGrammar
    <3>3. ASSUME NEW y \in Parts PROVE ReadsParts(text, y, q)
      <4>1. ReadsParts(text, y, q + 1)
        BY <2>1, <3>1
      <4>2. \A self, refs, o : Reads(Goal(y, self, refs, From(text, q)), o)
                               <=> Reads(Goal(y, self, refs, rest), o)
        BY <2>3, <3>1, BlankReads
      <4> QED BY <3>2, <4>1, <4>2 DEF ReadsParts, ends
    <3> QED BY <3>3
  <2>4. CASE q # n + 1 /\ x.kind # "blank"
    <3>1. q \in 1..n /\ q + 1 \in (q + 1)..(n + 1) /\ q \in DOMAIN text /\ q + 1 # 0
      BY <1>1, <2>4
    <3>2. OutsideGrammar(x) => x.kind = "ref" /\ x.name \in InvalidNames
      BY <3>1 DEF Plain, TakenAnyway
    <3>3. ReadsParts(text, "expression", q)
      <4> SUFFICES ASSUME NEW self, NEW refs, NEW o, Reads(Goal("expression", self, refs, From(text, q)), o)
                   PROVE  ends[<<"expression", q>>] # 0 /\ o.text = From(text, ends[<<"expression", q>>])
        BY DEF ReadsParts, ends
      <4>1. ~OutsideGrammar(x) => ends[<<"expression", q>>]
              = CASE x.kind \in Complete -> q + 1
                  [] x.kind = "ref" -> ends[<<"expression", q + 1>>]
                  [] x.kind = "array" -> ends[<<"list", q + 1>>]
                  [] x.kind = "map" -> ends[<<"table", q + 1>>]
                  [] OTHER -> 0
        BY <1>1, <1>2, <2>4, <3>1, PartsAre DEF EndWith
      <4>2. /\ x.kind \in {"value", "openQuote"} => o = Outcome(Value(x.word), refs, rest)
            /\ x.kind = "null" => o = Outcome(Null, refs, rest)
            /\ x.kind = "binary" => o = Outcome(BinaryData(x.blob), refs, rest)
            /\ x.kind = "insert" => o = Outcome(copyInto(self, Bound(refs, x.name)), refs, rest)
            /\ x.kind = "ref" =>
                 /\ x.name \notin InvalidNames
                 /\ \E m : /\ Reads(Goal("expression", self, refs, rest), m)
                           /\ o = Outcome(m.expr, [m.refs EXCEPT ![x.name] = createCopy[m.expr]], m.text)
            /\ x.kind = "array" => Reads(Goal("list", Array(<<>>), refs, rest), o)
            /\ x.kind = "map" => Reads(Goal("table", Map(EmptyTable(Words)), refs, rest), o)
            /\ x.kind \in {"value", "openQuote", "null", "binary", "insert", "ref", "array", "map"}
        BY <2>4, <3>1, ExpressionHere
      <4>0. ~OutsideGrammar(x)
        BY <3>2, <4>2
      <4> HIDE DEF rest, x
      <4>3. CASE x.kind \in Complete
        <5>1. o.text = rest
          BY <4>2, <4>3, OutcomeIs DEF Complete
        <5>2. ends[<<"expression", q>>] = q + 1
          BY <4>0, <4>1, <4>3 DEF Complete
        <5> QED BY <3>1, <5>1, <5>2 DEF rest
      <4>4. CASE x.kind = "ref"
        <5>2. PICK m : /\ Reads(Goal("expression", self, refs, rest), m)
                       /\ o = Outcome(m.expr, [m.refs EXCEPT ![x.name] = createCopy[m.expr]], m.text)
          BY <4>2, <4>4
        <5>3. ends[<<"expression", q>>] = ends[<<"expression", q + 1>>]
          BY <4>0, <4>1, <4>4 DEF Complete
        <5>4. ends[<<"expression", q + 1>>] # 0 /\ m.text = From(text, ends[<<"expression", q + 1>>])
          BY <2>1, <3>1, <5>2, PartsAre DEF ReadsParts, ends, rest
        <5>5. o.text = m.text
          BY <5>2, OutcomeIs
        <5> QED BY <5>3, <5>4, <5>5
      <4>5. CASE x.kind \in {"array", "map"}
        <5>1. PICK y, inner : y \in Parts /\ Reads(Goal(y, inner, refs, rest), o)
                                        /\ ends[<<"expression", q>>] = ends[<<y, q + 1>>]
          BY <4>0, <4>1, <4>2, <4>5, PartsAre DEF Complete
        <5> QED BY <2>1, <3>1, <5>1 DEF ReadsParts, ends, rest
      <4>6. x.kind # "openQuote"
        BY <4>0 DEF OutsideGrammar
      <4> QED BY <4>2, <4>3, <4>4, <4>5, <4>6 DEF Complete
    <3>4. \A y \in {"list", "table"} : x.kind = "close" => ends[<<y, q>>] = q + 1
      BY <1>1, <1>2, <2>4, <3>1, PartsAre DEF EndWith, OutsideGrammar
    <3>10. /\ ends[<<"list", 0>>] = 0 /\ ends[<<"table", 0>>] = 0 /\ ends[<<"expression", 0>>] = 0
           /\ OutsideGrammar(x) => \A y \in Parts : ends[<<y, q>>] = 0
      <4>1. OutsideGrammar(x) => \A y \in Parts : ends[<<y, q>>] = 0
        BY <1>1, <1>2, <3>1 DEF EndWith
      <4> QED BY <4>1, NothingEndsAtZero, PartsAre DEF ends
    <3>5. x.kind # "close" => ends[<<"list", q>>] = ends[<<"list", ends[<<"expression", q>>]>>]
      BY <1>1, <1>2, <2>4, <3>1, <3>10, PartsAre DEF EndWith
    <3>6. x.kind # "close" =>
            ends[<<"table", q>>] = ends[<<"table", ends[<<"expression", ends[<<"expression", q>>]>>]>>]
      BY <1>1, <1>2, <2>4, <3>1, <3>10, PartsAre DEF EndWith
    <3>7. ASSUME NEW self, NEW refs, NEW m, Reads(Goal("expression", self, refs, From(text, q)), m)
          PROVE  LET one == ends[<<"expression", q>>] IN one \in (q + 1)..(n + 1) /\ m.text = From(text, one)
      <4>1. ends[<<"expression", q>>] # 0 /\ m.text = From(text, ends[<<"expression", q>>])
        BY <3>3, <3>7 DEF ReadsParts, ends
      <4>2. ends[<<"expression", q>>] \in Behind(n, q)
        BY <1>1, <1>2, PartsAre
      <4> QED BY <4>1, <4>2 DEF Behind
    <3>8. ReadsParts(text, "list", q)
      <4> SUFFICES ASSUME NEW self, NEW refs, NEW o, Reads(Goal("list", self, refs, From(text, q)), o)
                   PROVE  ends[<<"list", q>>] # 0 /\ o.text = From(text, ends[<<"list", q>>])
        BY DEF ReadsParts, ends
      <4>1. CASE x.kind = "close"
        <5>1. o = Outcome(self, refs, rest)
          BY <2>4, <3>1, <4>1, ListHere
        <5> QED BY <3>1, <3>4, <4>1, <5>1, OutcomeIs DEF rest
      <4>2. CASE x.kind # "close"
        <5>1. PICK m : /\ Reads(Goal("expression", Null, refs, From(text, q)), m)
                       /\ Reads(Goal("list", Array(Append(self.list, m.expr)), m.refs, m.text), o)
          BY <2>4, <3>1, <4>2, ListHere
        <5>2. PICK one \in (q + 1)..(n + 1) : one = ends[<<"expression", q>>] /\ m.text = From(text, one)
          BY <3>7, <5>1
        <5>3. ends[<<"list", one>>] # 0 /\ o.text = From(text, ends[<<"list", one>>])
          BY <2>1, <5>1, <5>2, PartsAre DEF ReadsParts, ends
        <5> QED BY <3>5, <4>2, <5>2, <5>3
      <4> QED BY <4>1, <4>2
    <3>9. ReadsParts(text, "table", q)
      <4> SUFFICES ASSUME NEW self, NEW refs, NEW o, Reads(Goal("table", self, refs, From(text, q)), o)
                   PROVE  ends[<<"table", q>>] # 0 /\ o.text = From(text, ends[<<"table", q>>])
        BY DEF ReadsParts, ends
      <4>1. CASE x.kind = "close"
        <5>1. o = Outcome(self, refs, rest)
          BY <2>4, <3>1, <4>1, TableHere
        <5> QED BY <3>1, <3>4, <4>1, <5>1, OutcomeIs DEF rest
      <4>2. CASE x.kind # "close"
        <5>1. PICK k, v :
                /\ Reads(Goal("expression", Null, refs, From(text, q)), k) /\ k.expr.type = "Value"
                /\ Reads(Goal("expression", Invalid, k.refs, k.text), v) /\ v.expr.type # "Invalid"
                /\ Reads(Goal("table", Map([self.hash EXCEPT ![k.expr.data] = v.expr]), v.refs, v.text), o)
          <6>1. ReadsAKey(text, q, self, refs, o)
            BY <2>4, <3>1, <4>2, TableHere
          <6>2. Reads(Goal("table", self, refs, From(text, q)), o)
            OBVIOUS
          <6> QED BY ONLY <6>1, <6>2 DEF ReadsAKey
        <5>2. PICK one \in (q + 1)..(n + 1) : one = ends[<<"expression", q>>] /\ k.text = From(text, one)
          BY <3>7, <5>1
        <5>3. ends[<<"expression", one>>] # 0 /\ v.text = From(text, ends[<<"expression", one>>])
          BY <2>1, <5>1, <5>2, PartsAre DEF ReadsParts, ends
        <5>4. ends[<<"expression", one>>] \in Behind(n, one) /\ one \in 1..(n + 1)
          <6>1. one \in 1..(n + 1)
            BY <1>1, <5>2
          <6> QED BY <1>1, <1>2, <6>1, PartsAre
        <5>5. PICK two \in (q + 1)..(n + 1) : two = ends[<<"expression", one>>]
          BY <1>1, <5>2, <5>3, <5>4 DEF Behind
        <5>6. ends[<<"table", two>>] # 0 /\ o.text = From(text, ends[<<"table", two>>])
          BY <2>1, <5>1, <5>3, <5>5, PartsAre DEF ReadsParts, ends
        <5> QED BY <3>6, <4>2, <5>2, <5>5, <5>6
      <4> QED BY <4>1, <4>2
    <3> QED BY <3>3, <3>8, <3>9 DEF Parts
  <2> QED BY <2>2, <2>3, <2>4
<1> HIDE DEF T
<1>4. \A q \in 1..(n + 1) : q \in T
  <2> HIDE DEF n
  <2> QED BY <1>1, <1>3, PlacesInduction
<1> QED BY <1>4 DEF T

(* What a part names ends within it.                                        *)
LEMMA NamedInside ==
  ASSUME NEW text, IsSequence(text), NEW p \in 1..(Len(text) + 1), NEW part \in Parts,
         Ends(text)[<<part, p>>] # 0
  PROVE  \A k \in p..(Ends(text)[<<part, p>>] - 1) :
           text[k].kind = "ref" => Ends(text)[<<"expression", k>>] <= Ends(text)[<<part, p>>]
<1> DEFINE n == Len(text)
           ends == Ends(text)
           Inside(x, q) == \A k \in q..(ends[<<x, q>>] - 1) :
                             text[k].kind = "ref" => ends[<<"expression", k>>] <= ends[<<x, q>>]
           T == {q \in 1..(n + 1) : \A x \in Parts : ends[<<x, q>>] # 0 => Inside(x, q)}
<1>1. n \in Nat /\ DOMAIN text = 1..n /\ Places(text) = 0..(n + 1)
      /\ \A q \in 1..(n + 1) : q \in Places(text)
  BY TextPlaces
<1>2. ASSUME NEW q \in 1..(n + 1), \A r \in (q + 1)..(n + 1) : r \in T
      PROVE  q \in T
  <2>1. ASSUME NEW x \in Parts, ends[<<x, q>>] # 0, x # "expression" => (ends[<<"expression", q>>] # 0 => Inside("expression", q))
        PROVE  Inside(x, q)
    <3> DEFINE end == ends[<<x, q>>]
               one == ends[<<"expression", q>>]
               two == ends[<<"expression", one>>]
    <3>0. MadeOfParts(text, x, q)
      BY <1>1, <2>1, ReadableIs
    <3>1. /\ q \in 1..n /\ end \in (q + 1)..(n + 1)
          /\ text[q].kind = "blank" => q + 1 < end /\ ends[<<x, q + 1>>] = end
          /\ text[q].kind # "blank" /\ x = "expression" =>
               /\ text[q].kind \in Complete \cup {"ref", "array", "map"}
               /\ text[q].kind \in Complete => end = q + 1
               /\ text[q].kind = "ref" => q + 1 < end /\ ends[<<"expression", q + 1>>] = end
               /\ text[q].kind = "array" => q + 1 < end /\ ends[<<"list", q + 1>>] = end
               /\ text[q].kind = "map" => q + 1 < end /\ ends[<<"table", q + 1>>] = end
          /\ text[q].kind = "close" => end = q + 1
          /\ text[q].kind \notin {"blank", "close"} /\ x = "list" =>
               /\ one \in (q + 1)..(end - 1) /\ ends[<<"list", one>>] = end
          /\ text[q].kind \notin {"blank", "close"} /\ x = "table" =>
               /\ one \in (q + 1)..(end - 1) /\ two \in (one + 1)..(end - 1)
               /\ ends[<<"table", two>>] = end
      BY <3>0 DEF MadeOfParts
    <3>2. ASSUME NEW y \in Parts, NEW r \in (q + 1)..(n + 1), ends[<<y, r>>] # 0 PROVE Inside(y, r)
      BY <1>2, <3>2
    <3>3. x = "expression" /\ text[q].kind = "ref" => ends[<<"expression", q>>] = end
      OBVIOUS
    <3> SUFFICES ASSUME NEW k \in q..(end - 1), text[k].kind = "ref"
                 PROVE  ends[<<"expression", k>>] <= end
      OBVIOUS
    <3>4. k \in q..(end - 1) /\ k \in 1..n /\ q \in 1..n /\ end \in (q + 1)..(n + 1) /\ end # 0
      BY <1>1, <3>1
    <3> HIDE DEF ends, end, one, two, n, T
    <3>5. ASSUME NEW y \in Parts, NEW r \in (q + 1)..(n + 1), ends[<<y, r>>] = end, k >= r
          PROVE  ends[<<"expression", k>>] <= end
      <4>1. Inside(y, r)
        BY <3>2, <3>4, <3>5
      <4>2. k \in r..(ends[<<y, r>>] - 1)
        BY <1>1, <3>4, <3>5
      <4> QED BY <3>5, <4>1, <4>2
    <3>6. q + 1 <= n + 1 => q + 1 \in (q + 1)..(n + 1)
      BY <1>1, <3>4
    <3>7. q + 1 <= n + 1
      BY <1>1, <3>4
    <3>8. CASE k = q
      <4>1. text[q].kind \notin {"blank", "close"} /\ text[q].kind = "ref"
        BY <3>8
      <4>2. CASE x = "expression"
        BY <3>3, <3>4, <3>8, <4>1, <4>2 DEF end
      <4>3. CASE x # "expression"
        <5>1. x = "list" \/ x = "table"
          BY <4>3 DEF Parts
        <5>2. one \in (q + 1)..(end - 1)
          BY <3>1, <4>1, <5>1
        <5> QED BY <1>1, <3>4, <3>8, <5>2 DEF one
      <4> QED BY <4>2, <4>3
    <3>9. CASE k # q
      <4>1. k >= q + 1
        BY <3>4, <3>9
      <4>2. CASE text[q].kind = "blank"
        BY <3>1, <3>5, <3>6, <3>7, <4>1, <4>2
      <4>3. CASE text[q].kind = "close" \/ (text[q].kind \in Complete /\ x = "expression")
        <5>1. end = q + 1
          BY <3>1, <4>3 DEF Complete
        <5> QED BY <3>4, <4>1, <5>1
      <4>4. CASE x = "expression" /\ text[q].kind \in {"ref", "array", "map"}
        <5>1. PICK y \in Parts : ends[<<y, q + 1>>] = end
          BY <3>1, <4>4, PartsAre
        <5> QED BY <3>5, <3>6, <3>7, <4>1, <5>1
      <4>5. CASE x # "expression" /\ text[q].kind \notin {"blank", "close"}
        <5>1. PICK y \in Parts, last \in (q + 1)..(end - 1) : ends[<<y, last>>] = end /\ one \in (q + 1)..last
                 /\ (last = one \/ (x = "table" /\ last = two))
          <6>1. CASE x = "list"
            <7>1. one \in (q + 1)..(end - 1) /\ ends[<<"list", one>>] = end /\ one \in (q + 1)..one
              BY <1>1, <3>1, <3>4, <4>5, <6>1
            <7> QED BY <7>1, PartsAre
          <6>2. CASE x = "table"
            <7>1. one \in (q + 1)..(end - 1) /\ two \in (one + 1)..(end - 1) /\ ends[<<"table", two>>] = end
              BY <3>1, <4>5, <6>2
            <7>2. two \in (q + 1)..(end - 1) /\ one \in (q + 1)..two
              BY <1>1, <3>4, <7>1
            <7> QED BY <6>2, <7>1, <7>2, PartsAre
          <6> QED BY <4>5, <6>1, <6>2 DEF Parts
        <5>2. last \in (q + 1)..(n + 1) /\ one \in (q + 1)..(n + 1) /\ one # 0 /\ one <= last /\ last < end
          BY <1>1, <3>4, <5>1
        <5>3. CASE k >= last
          BY <3>5, <5>1, <5>2, <5>3
        <5>4. CASE k < one
          <6>1. Inside("expression", q)
            BY <2>1, <4>5, <5>2 DEF one
          <6>2. k \in q..(ends[<<"expression", q>>] - 1)
            BY <1>1, <3>4, <5>2, <5>4 DEF one
          <6>3. ends[<<"expression", k>>] <= one
            BY <6>1, <6>2 DEF one
          <6>4. ends[<<"expression", k>>] \in Behind(n, k)
            BY <1>1, <3>4, EndsIs, PartsAre DEF ends, n
          <6> QED BY <1>1, <3>4, <5>1, <5>2, <6>3, <6>4 DEF Behind
        <5>5. CASE k >= one /\ k < last
          <6>1. x = "table" /\ last = two
            BY <3>4, <5>1, <5>2, <5>5
          <6>2. ends[<<"expression", one>>] = last /\ last # 0
            BY <5>2, <6>1 DEF two
          <6>3. Inside("expression", one)
            BY <3>2, <5>2, <6>2, PartsAre
          <6>4. k \in one..(ends[<<"expression", one>>] - 1)
            BY <1>1, <3>4, <5>2, <5>5, <6>2
          <6>5. ends[<<"expression", k>>] <= last
            BY <6>2, <6>3, <6>4
          <6>6. ends[<<"expression", k>>] \in Behind(n, k)
            BY <1>1, <3>4, EndsIs, PartsAre DEF ends, n
          <6> QED BY <1>1, <3>4, <5>2, <6>5, <6>6 DEF Behind
        <5> QED BY <1>1, <3>4, <5>2, <5>3, <5>4, <5>5
      <4> QED BY <3>1, <4>2, <4>3, <4>4, <4>5
    <3> QED BY <3>8, <3>9
  <2>2. ends[<<"expression", q>>] # 0 => Inside("expression", q)
    BY <2>1, PartsAre
  <2>3. \A x \in Parts : ends[<<x, q>>] # 0 => Inside(x, q)
    BY <2>1, <2>2
  <2> HIDE DEF Inside, ends
  <2> QED BY <2>3
<1> HIDE DEF T
<1>3. \A q \in 1..(n + 1) : q \in T
  <2> HIDE DEF n
  <2> QED BY <1>1, <1>2, PlacesInduction
<1> QED BY <1>3 DEF T

-----------------------------------------------------------------------------
(* What is named where a part ends.                                         *)
(* What is named when the part from p to q has been read that nothing was   *)
(* named but what ends where it begins: what ends there or stands within.   *)
NamedWithin(text, p, q) ==
  {k \in DOMAIN text : /\ text[k].kind = "ref" /\ Ends(text)[<<"expression", k>>] \in 1..q
                       /\ k >= p \/ Ends(text)[<<"expression", k>>] <= p}

(* A name in front of the part ends no later than it begins or no sooner    *)
(* than it ends.                                                            *)
Clear(text, p, q) ==
  \A k \in DOMAIN text :
    text[k].kind = "ref" /\ k < p =>
      Ends(text)[<<"expression", k>>] <= p \/ Ends(text)[<<"expression", k>>] >= q

LEMMA NameEnds ==
  ASSUME NEW text, IsSequence(text)
  PROVE  /\ Len(text) \in Nat /\ DOMAIN text = 1..Len(text)
         /\ \A k \in DOMAIN text :
              /\ Ends(text)[<<"expression", k>>] \in Nat
              /\ \/ Ends(text)[<<"expression", k>>] = 0
                 \/ Ends(text)[<<"expression", k>>] > k
<1>1. Len(text) \in Nat /\ DOMAIN text = 1..Len(text) /\ \A k \in 1..(Len(text) + 1) : k \in Places(text)
  BY TextPlaces
<1>2. \A k \in DOMAIN text : Ends(text)[<<"expression", k>>] \in Behind(Len(text), k)
  BY <1>1, EndsIs, PartsAre
<1> QED BY <1>1, <1>2 DEF Behind

LEMMA WithinNothing ==
  ASSUME NEW text, IsSequence(text), NEW p \in 1..(Len(text) + 1)
  PROVE  NamedWithin(text, p, p) = NamedBefore(text, Ends(text), p)
<1>1. /\ Len(text) \in Nat /\ DOMAIN text = 1..Len(text)
      /\ \A k \in DOMAIN text : Ends(text)[<<"expression", k>>] \in Nat
  BY NameEnds
<1>2. p \in Nat
  BY <1>1
<1>3. \A k \in DOMAIN text :
        Ends(text)[<<"expression", k>>] \in 1..p => Ends(text)[<<"expression", k>>] <= p
  BY <1>2
<1> QED BY <1>3 DEF NamedWithin, NamedBefore

LEMMA WithinOne ==
  ASSUME NEW text, IsSequence(text), NEW p \in 1..Len(text), text[p].kind # "ref"
  PROVE  NamedWithin(text, p, p + 1) = NamedWithin(text, p, p)
<1> DEFINE e(k) == Ends(text)[<<"expression", k>>]
<1>1. /\ Len(text) \in Nat /\ DOMAIN text = 1..Len(text)
      /\ \A k \in DOMAIN text : e(k) \in Nat /\ (e(k) = 0 \/ e(k) > k)
  BY NameEnds
<1> HIDE DEF e
<1>2. ASSUME NEW k \in DOMAIN text, text[k].kind = "ref"
      PROVE  e(k) \in 1..(p + 1) /\ (k >= p \/ e(k) <= p) <=> e(k) \in 1..p /\ (k >= p \/ e(k) <= p)
  <2>1. k # p
    BY <1>2
  <2> QED BY <1>1, <1>2, <2>1
<1> QED BY <1>2 DEF NamedWithin, e

(* A part that is read first and one behind it.                             *)
LEMMA WithinParts ==
  ASSUME NEW text, IsSequence(text), NEW p \in 1..Len(text), NEW q \in 1..(Len(text) + 1),
         NEW a \in (p + 1)..(q - 1), Clear(text, p, q),
         \A k \in p..(a - 1) : text[k].kind = "ref" => Ends(text)[<<"expression", k>>] <= a
  PROVE  /\ Clear(text, p, a) /\ Clear(text, a, q)
         /\ NamedWithin(text, p, a) = NamedWithin(text, a, a)
         /\ NamedWithin(text, a, q) = NamedWithin(text, p, q)
<1> DEFINE e(k) == Ends(text)[<<"expression", k>>]
<1>1. /\ Len(text) \in Nat /\ DOMAIN text = 1..Len(text)
      /\ \A k \in DOMAIN text : e(k) \in Nat /\ (e(k) = 0 \/ e(k) > k)
  BY NameEnds
<1>2. p \in Nat /\ q \in Nat /\ a \in Nat /\ p < a /\ a < q
  BY <1>1
<1>3. \A k \in DOMAIN text : text[k].kind = "ref" /\ k < p => e(k) <= p \/ e(k) >= q
  BY DEF Clear
<1>4. \A k \in DOMAIN text : text[k].kind = "ref" /\ p <= k /\ k < a => e(k) <= a
  <2> TAKE k \in DOMAIN text
  <2> HAVE text[k].kind = "ref" /\ p <= k /\ k < a
  <2>1. k \in p..(a - 1)
    BY <1>1, <1>2
  <2> QED BY <2>1
<1> HIDE DEF e
<1>5. ASSUME NEW k \in DOMAIN text, text[k].kind = "ref"
      PROVE  /\ k < p => e(k) <= p \/ e(k) >= a
             /\ k < a => e(k) <= a \/ e(k) >= q
             /\ e(k) \in 1..a /\ (k >= p \/ e(k) <= p) <=> e(k) \in 1..a /\ (k >= a \/ e(k) <= a)
             /\ e(k) \in 1..q /\ (k >= a \/ e(k) <= a) <=> e(k) \in 1..q /\ (k >= p \/ e(k) <= p)
  <2>1. k \in Nat /\ e(k) \in Nat /\ (e(k) = 0 \/ e(k) > k)
    BY <1>1
  <2>2. /\ k < p => e(k) <= p \/ e(k) >= q
        /\ p <= k /\ k < a => e(k) <= a
    BY <1>3, <1>4, <1>5
  <2> QED BY <1>2, <2>1, <2>2
<1> QED BY <1>5 DEF Clear, NamedWithin, e

LEMMA WithinName ==
  ASSUME NEW text, IsSequence(text), NEW p \in 1..Len(text), text[p].kind = "ref",
         NEW q, q = Ends(text)[<<"expression", p>>], p + 1 < q, Clear(text, p, q)
  PROVE  /\ Clear(text, p + 1, q)
         /\ NamedWithin(text, p + 1, p + 1) = NamedWithin(text, p, p)
         /\ NamedWithin(text, p, q) = NamedWithin(text, p + 1, q) \cup {p}
         /\ \A k \in NamedWithin(text, p, q) :
              \/ Ends(text)[<<"expression", k>>] < q
              \/ Ends(text)[<<"expression", k>>] = q /\ p <= k
<1> DEFINE e(k) == Ends(text)[<<"expression", k>>]
<1>1. /\ Len(text) \in Nat /\ DOMAIN text = 1..Len(text)
      /\ \A k \in DOMAIN text : e(k) \in Nat /\ (e(k) = 0 \/ e(k) > k)
  BY NameEnds
<1>2. p \in Nat /\ q \in Nat /\ p \in DOMAIN text /\ q = e(p)
  BY <1>1
<1>3. \A k \in DOMAIN text : text[k].kind = "ref" /\ k < p => e(k) <= p \/ e(k) >= q
  BY DEF Clear
<1> HIDE DEF e
<1>5. ASSUME NEW k \in DOMAIN text, text[k].kind = "ref"
      PROVE  /\ k < p + 1 => e(k) <= p + 1 \/ e(k) >= q
             /\ e(k) \in 1..(p + 1) /\ (k >= p + 1 \/ e(k) <= p + 1) <=> e(k) \in 1..p /\ (k >= p \/ e(k) <= p)
             /\ k # p => (e(k) \in 1..q /\ (k >= p \/ e(k) <= p) <=> e(k) \in 1..q /\ (k >= p + 1 \/ e(k) <= p + 1))
             /\ e(k) \in 1..q /\ (k >= p \/ e(k) <= p) => e(k) < q \/ (e(k) = q /\ p <= k)
  <2>1. k \in Nat /\ e(k) \in Nat /\ (e(k) = 0 \/ e(k) > k) /\ (k = p => e(k) = q)
    BY <1>1, <1>2
  <2>2. k < p => e(k) <= p \/ e(k) >= q
    BY <1>3, <1>5
  <2> QED BY <1>2, <2>1, <2>2
<1>6. p >= p /\ e(p) \in 1..q
  BY <1>2
<1>7. p \in NamedWithin(text, p, q)
  BY <1>2, <1>6 DEF NamedWithin, e
<1>8. NamedWithin(text, p, q) = NamedWithin(text, p + 1, q) \cup {p}
  BY <1>5, <1>7 DEF NamedWithin, e
<1> QED BY <1>5, <1>8 DEF Clear, NamedWithin, e

MeaningAt(text, part, p) == Means(text, Ends(text), FALSE)[<<part, p>>]
RefsAt(text, S) == NamesAt(Means(text, Ends(text), FALSE), text, Ends(text), FALSE, S)

LEMMA NoRefs == \A text : RefsAt(text, {}) = EmptyTable(Names)
BY DEF RefsAt, NamesAt, EmptyTable

LEMMA RefsWithName ==
  ASSUME NEW text, IsSequence(text), NEW p \in 1..Len(text), text[p].kind = "ref",
         NEW q, q = Ends(text)[<<"expression", p>>], p + 1 < q, Clear(text, p, q)
  PROVE  RefsAt(text, NamedWithin(text, p, q))
           = [RefsAt(text, NamedWithin(text, p + 1, q)) EXCEPT
                ![text[p].name] = createCopy[MeaningAt(text, "expression", p)]]
<1> DEFINE all == NamedWithin(text, p, q)
           inner == NamedWithin(text, p + 1, q)
           named(S, name) == {k \in S : text[k].name = name}
           means == Means(text, Ends(text), FALSE)
           of(S, name) == IF named(S, name) = {} THEN Absent
                          ELSE Kept(FALSE, means[<<"expression", BoundLast(Ends(text), named(S, name))>>])
<1>1. /\ all = inner \cup {p} /\ p \in all
      /\ \A k \in all : \/ Ends(text)[<<"expression", k>>] < q
                        \/ Ends(text)[<<"expression", k>>] = q /\ p <= k
  BY WithinName
<1>2. all \subseteq {k \in DOMAIN text : Ends(text)[<<"expression", k>>] # 0}
  <2>1. q \in Nat
    BY TextPlaces, NameEnds
  <2>2. \A i \in 1..q : i # 0
    BY <2>1
  <2> QED BY <2>2 DEF NamedWithin
<1> HIDE DEF all, inner
<1>3. BoundLast(Ends(text), named(all, text[p].name)) = p
  <2>1. /\ named(all, text[p].name) \subseteq {k \in DOMAIN text : Ends(text)[<<"expression", k>>] # 0}
        /\ p \in named(all, text[p].name)
        /\ \A j \in named(all, text[p].name) :
             \/ Ends(text)[<<"expression", j>>] < Ends(text)[<<"expression", p>>]
             \/ Ends(text)[<<"expression", j>>] = Ends(text)[<<"expression", p>>] /\ p <= j
    BY <1>1, <1>2
  <2> HIDE DEF named
  <2> QED BY <2>1, LastIsTheOne
<1>4. of(all, text[p].name) = createCopy[means[<<"expression", p>>]]
  BY <1>1, <1>3 DEF Kept
<1>5. ASSUME NEW name, name # text[p].name PROVE of(all, name) = of(inner, name)
  <2>1. named(all, name) = named(inner, name)
    BY <1>1, <1>5
  <2> QED BY <2>1
<1>6. \A S : RefsAt(text, S) = [name \in Names |-> of(S, name)]
  BY DEF RefsAt, NamesAt
<1> HIDE DEF of, named, means
<1>7. RefsAt(text, all) = [name \in Names |-> of(all, name)] /\ RefsAt(text, inner) = [name \in Names |-> of(inner, name)]
  BY <1>6
<1>8. RefsAt(text, all) = [RefsAt(text, inner) EXCEPT ![text[p].name] = createCopy[means[<<"expression", p>>]]]
  BY <1>4, <1>5, <1>7
<1> QED BY <1>8 DEF all, inner, means, MeaningAt

(* What a part can mean, by its kind.                                       *)
CanMean(part, e) ==
  CASE part = "expression" ->
         \/ e = NULL \/ e = Invalid
         \/ e.type \in {"Value", "Null", "BinaryData", "Array", "Map"}
    [] part = "list" -> e = NULL \/ (e = Array(e.list) /\ IsSequence(e.list))
    [] part = "table" -> e = NULL \/ (e = Map(e.hash) /\ e.hash = [w \in Words |-> e.hash[w]])

LEMMA CopiesOfNothing ==
  /\ createCopy[Null] = Null /\ createCopy[Invalid] = Null
  /\ \A e : \/ copyInto(Invalid, e) = Invalid
            \/ copyInto(Invalid, e).type \in {"Value", "Array", "Map"}
  /\ \A self, e : copyInto(self, e) = Filled(self, copyInto(Invalid, e))
<1>1. Null \in Expr /\ Invalid \in Expr
  BY LeavesEverywhere, MaxDepthAssumption DEF Leaves, Expr
<1>2. createCopy[Null] = Null /\ createCopy[Invalid] = Null
  BY <1>1, CopyIs, KindsOfExpressions DEF CopyWith
<1>3. \A e : \/ copyInto(Invalid, e) = Invalid /\ \A self : copyInto(self, e) = self
             \/ /\ copyInto(Invalid, e).type \in {"Value", "Array", "Map"}
                /\ \A self : copyInto(self, e) = copyInto(Invalid, e)
  <2> TAKE e
  <2>1. CASE e.type = "Value"
    BY <2>1, KindsOfExpressions DEF copyInto, CopyWith
  <2>2. CASE e.type = "Array"
    BY <2>2, KindsOfExpressions DEF copyInto, CopyWith
  <2>3. CASE e.type = "Map"
    BY <2>3, KindsOfExpressions DEF copyInto, CopyWith
  <2>4. CASE e.type \notin {"Value", "Array", "Map"}
    BY <2>4 DEF copyInto, CopyWith
  <2> QED BY <2>1, <2>2, <2>3, <2>4
<1>4. \A e : copyInto(Invalid, e).type \in {"Value", "Array", "Map"} => copyInto(Invalid, e) # Invalid
  BY KindsOfExpressions
<1> HIDE DEF copyInto
<1> QED BY <1>2, <1>3, <1>4 DEF Filled

(* MeaningAt is what MeaningWith makes of the meanings of the parts.        *)
LEMMA MeaningIs ==
  ASSUME NEW text, IsSequence(text), NEW part \in Parts, NEW p \in 1..Len(text),
         Ends(text)[<<part, p>>] # 0
  PROVE  LET x == text[p]
             one == Ends(text)[<<"expression", p>>]
             two == Ends(text)[<<"expression", one>>]
             e == MeaningAt(text, part, p)
         IN /\ x.kind = "blank" => e = MeaningAt(text, part, p + 1)
            /\ x.kind # "blank" /\ part = "expression" =>
                 /\ x.kind = "value" => e = Value(x.word)
                 /\ x.kind = "null" => e = Null
                 /\ x.kind = "binary" => e = BinaryData(x.blob)
                 /\ x.kind = "insert" =>
                      e = Inserted(FALSE, Bound(RefsAt(text, NamedWithin(text, p, p)), x.name))
                 /\ x.kind = "ref" => e = MeaningAt(text, "expression", p + 1)
                 /\ x.kind = "array" => e = MeaningAt(text, "list", p + 1)
                 /\ x.kind = "map" => e = MeaningAt(text, "table", p + 1)
            /\ x.kind = "close" /\ part = "list" => e = Array(<<>>)
            /\ x.kind = "close" /\ part = "table" => e = Map(EmptyTable(Words))
            /\ x.kind \notin {"blank", "close"} /\ part = "list" =>
                 e = ListOf(MeaningAt(text, "expression", p), MeaningAt(text, "list", one))
            /\ x.kind \notin {"blank", "close"} /\ part = "table" =>
                 e = TableOf(MeaningAt(text, "expression", p), MeaningAt(text, "expression", one),
                             MeaningAt(text, "table", two))
<1>1. p \in Places(text) /\ p \in 1..(Len(text) + 1)
  BY TextPlaces
<1> DEFINE means == Means(text, Ends(text), FALSE)
<1>2. means[<<part, p>>] = MeaningWith(means, text, Ends(text), FALSE, part, p)
  BY <1>1, MeansIs
<1>3. NamedBefore(text, Ends(text), p) = NamedWithin(text, p, p)
  BY <1>1, WithinNothing
<1> HIDE DEF means
<1>4. \A y, r : MeaningAt(text, y, r) = means[<<y, r>>]
  BY DEF MeaningAt, means
<1>5. \A S : RefsAt(text, S) = NamesAt(means, text, Ends(text), FALSE, S)
  BY DEF RefsAt, means
<1>6. part = "expression" \/ part = "list" \/ part = "table"
  BY DEF Parts
<1> DEFINE x == text[p]
<1>7. CASE part = "expression"
  BY <1>2, <1>3, <1>4, <1>5, <1>7 DEF MeaningWith
<1>8. CASE part = "list"
  BY <1>2, <1>4, <1>8 DEF MeaningWith
<1>9. CASE part = "table"
  BY <1>2, <1>4, <1>9 DEF MeaningWith
<1> QED BY <1>6, <1>7, <1>8, <1>9

LEMMA ListsMean ==
  ASSUME NEW first, NEW rest, CanMean("list", rest)
  PROVE  CanMean("list", ListOf(first, rest))
<1>1. CASE first = NULL \/ rest = NULL
  BY <1>1 DEF ListOf, CanMean
<1>2. CASE first # NULL /\ rest # NULL
  <2>1. IsSequence(rest.list)
    BY <1>2 DEF CanMean
  <2>2. PICK f : f = Filled(Null, first)
    OBVIOUS
  <2>3. IsSequence(<<f>> \o rest.list)
    <3> DEFINE S == {rest.list[i] : i \in DOMAIN rest.list} \cup {f}
    <3>1. rest.list \in Seq({rest.list[i] : i \in DOMAIN rest.list})
      BY <2>1 DEF IsSequence
    <3>2. rest.list \in Seq(S)
      BY <3>1
    <3>3. <<f>> \o rest.list \in Seq(S)
      <4> HIDE DEF S
      <4>1. f \in S
        BY DEF S
      <4> QED BY <3>2, <4>1
    <3> QED BY <3>3, SeqIsSequence
  <2>4. ListOf(first, rest) = Array(<<f>> \o rest.list)
    BY <1>2, <2>2 DEF ListOf
  <2> QED BY <2>3, <2>4, KindsOfExpressions DEF CanMean
<1> QED BY <1>1, <1>2

LEMMA TablesMean ==
  ASSUME NEW key, NEW value, NEW rest, CanMean("table", rest)
  PROVE  CanMean("table", TableOf(key, value, rest))
<1>1. CASE key.type # "Value" \/ value \in {NULL, Invalid} \/ rest = NULL
  BY <1>1 DEF TableOf, CanMean
<1>2. CASE ~(key.type # "Value" \/ value \in {NULL, Invalid} \/ rest = NULL)
  <2>1. PICK h : h = rest.hash /\ h = [w \in Words |-> h[w]]
    BY <1>2 DEF CanMean
  <2>2. PICK g : g = [h EXCEPT ![key.data] = IF @ = Absent THEN value ELSE @]
    OBVIOUS
  <2>3. g = [w \in Words |-> g[w]]
    BY <2>1, <2>2
  <2>4. TableOf(key, value, rest) = Map(g)
    BY <1>2, <2>1, <2>2 DEF TableOf
  <2>5. PICK e : e = TableOf(key, value, rest)
    OBVIOUS
  <2>6. e = Map(g) /\ Map(g).hash = g
    BY <2>4, <2>5 DEF Map
  <2>8. e.hash = g
    BY <2>6
  <2>9. e = Map(e.hash)
    BY <2>6, <2>8
  <2>7. CanMean("table", e)
    BY <2>3, <2>8, <2>9 DEF CanMean
  <2> QED BY <2>5, <2>7
<1> QED BY <1>1, <1>2

LEMMA PartsMean ==
  ASSUME NEW text, IsSequence(text)
  PROVE  \A p \in 1..(Len(text) + 1) : \A part \in Parts :
           Ends(text)[<<part, p>>] # 0 => CanMean(part, MeaningAt(text, part, p))
<1> DEFINE n == Len(text)
           ends == Ends(text)
           T == {p \in 1..(n + 1) : \A part \in Parts :
                   ends[<<part, p>>] # 0 => CanMean(part, MeaningAt(text, part, p))}
<1>1. n \in Nat /\ \A q \in 1..(n + 1) : q \in Places(text)
  BY TextPlaces
<1>2. ASSUME NEW p \in 1..(n + 1), \A q \in (p + 1)..(n + 1) : q \in T
      PROVE  p \in T
  <2> SUFFICES ASSUME NEW part \in Parts, ends[<<part, p>>] # 0
               PROVE  CanMean(part, MeaningAt(text, part, p))
    OBVIOUS
  <2> DEFINE x == text[p]
             end == ends[<<part, p>>]
             one == ends[<<"expression", p>>]
             two == ends[<<"expression", one>>]
  <2>1. MadeOfParts(text, part, p)
    BY <1>1, ReadableIs
  <2>2. /\ p \in 1..n /\ end \in (p + 1)..(n + 1)
        /\ x.kind = "blank" => p + 1 < end /\ ends[<<part, p + 1>>] = end
        /\ x.kind # "blank" /\ part = "expression" =>
             /\ x.kind \in Complete \cup {"ref", "array", "map"}
             /\ x.kind = "ref" => p + 1 < end /\ ends[<<"expression", p + 1>>] = end
             /\ x.kind = "array" => p + 1 < end /\ ends[<<"list", p + 1>>] = end
             /\ x.kind = "map" => p + 1 < end /\ ends[<<"table", p + 1>>] = end
        /\ x.kind \notin {"blank", "close"} /\ part = "list" =>
             one \in (p + 1)..(end - 1) /\ ends[<<"list", one>>] = end
        /\ x.kind \notin {"blank", "close"} /\ part = "table" =>
             one \in (p + 1)..(end - 1) /\ two \in (one + 1)..(end - 1) /\ ends[<<"table", two>>] = end
    BY <2>1 DEF MadeOfParts
  <2>3. end # 0 /\ p + 1 \in (p + 1)..(n + 1)
    BY <1>1, <2>2
  <2>4. \A q \in (p + 1)..(n + 1) : \A y \in Parts : ends[<<y, q>>] = end => CanMean(y, MeaningAt(text, y, q))
    BY <1>2, <2>3
  <2>5. part = "expression" \/ part = "list" \/ part = "table"
    BY DEF Parts
  <2> HIDE DEF T
  <2>6. CASE x.kind = "blank"
    BY <1>1, <2>2, <2>3, <2>4, <2>6, MeaningIs
  <2>7. CASE x.kind # "blank" /\ part = "expression"
    <3> DEFINE e == MeaningAt(text, "expression", p)
    <3>1. /\ x.kind = "value" => e = Value(x.word)
          /\ x.kind = "null" => e = Null
          /\ x.kind = "binary" => e = BinaryData(x.blob)
          /\ x.kind = "insert" =>
               e = Inserted(FALSE, Bound(RefsAt(text, NamedWithin(text, p, p)), x.name))
          /\ x.kind = "ref" => e = MeaningAt(text, "expression", p + 1)
          /\ x.kind = "array" => e = MeaningAt(text, "list", p + 1)
          /\ x.kind = "map" => e = MeaningAt(text, "table", p + 1)
      BY <2>2, <2>7, MeaningIs
    <3> HIDE DEF e
    <3>2. CASE x.kind \in {"value", "null", "binary"}
      BY <3>1, <3>2, KindsOfExpressions, <2>7 DEF CanMean, e
    <3>3. CASE x.kind = "insert"
      <4>1. PICK b : e = Inserted(FALSE, b)
        BY <3>1, <3>3
      <4>2. e = NULL \/ e = Invalid \/ e.type \in {"Value", "Array", "Map"}
        BY <4>1, CopiesOfNothing DEF Inserted
      <4> QED BY <2>7, <4>2 DEF CanMean, e
    <3>4. CASE x.kind = "ref"
      <4>1. e = MeaningAt(text, "expression", p + 1) /\ CanMean("expression", MeaningAt(text, "expression", p + 1))
        BY <2>2, <2>3, <2>4, <2>7, <3>1, <3>4, PartsAre
      <4> QED BY <2>7, <4>1 DEF e
    <3>5. CASE x.kind = "array"
      <4>1. e = MeaningAt(text, "list", p + 1) /\ CanMean("list", e)
        BY <2>2, <2>3, <2>4, <2>7, <3>1, <3>5, PartsAre
      <4>2. e = NULL \/ e.type = "Array"
        BY <4>1, KindsOfExpressions DEF CanMean
      <4> QED BY <2>7, <4>2 DEF CanMean, e
    <3>6. CASE x.kind = "map"
      <4>1. e = MeaningAt(text, "table", p + 1) /\ CanMean("table", e)
        BY <2>2, <2>3, <2>4, <2>7, <3>1, <3>6, PartsAre
      <4>2. e = NULL \/ e.type = "Map"
        BY <4>1, KindsOfExpressions DEF CanMean
      <4> QED BY <2>7, <4>2 DEF CanMean, e
    <3> QED BY <2>2, <2>7, <3>2, <3>3, <3>4, <3>5, <3>6 DEF Complete
  <2>8. CASE x.kind = "close" /\ part = "list"
    <3>1. MeaningAt(text, part, p) = Array(<<>>)
      BY <2>2, <2>8, MeaningIs
    <3>2. IsSequence(<<>>)
      BY DEF IsSequence
    <3> QED BY <2>8, <3>1, <3>2, KindsOfExpressions DEF CanMean
  <2>9. CASE x.kind = "close" /\ part = "table"
    <3>1. MeaningAt(text, part, p) = Map(EmptyTable(Words))
      BY <2>2, <2>9, MeaningIs
    <3>2. EmptyTable(Words) = [w \in Words |-> EmptyTable(Words)[w]]
      BY DEF EmptyTable
    <3> QED BY <2>9, <3>1, <3>2, KindsOfExpressions DEF CanMean
  <2>10. CASE x.kind \notin {"blank", "close"} /\ part = "list"
    <3>1. MeaningAt(text, part, p) = ListOf(MeaningAt(text, "expression", p), MeaningAt(text, "list", one))
      BY <2>2, <2>10, MeaningIs
    <3>2. one \in (p + 1)..(n + 1)
      BY <1>1, <2>2, <2>10
    <3>3. CanMean("list", MeaningAt(text, "list", one))
      BY <2>2, <2>4, <2>10, <3>2, PartsAre
    <3> QED BY <2>10, <3>1, <3>3, ListsMean
  <2>11. CASE x.kind \notin {"blank", "close"} /\ part = "table"
    <3>1. MeaningAt(text, part, p)
            = TableOf(MeaningAt(text, "expression", p), MeaningAt(text, "expression", one), MeaningAt(text, "table", two))
      BY <2>2, <2>11, MeaningIs
    <3>2. two \in (p + 1)..(n + 1)
      BY <1>1, <2>2, <2>11
    <3>3. CanMean("table", MeaningAt(text, "table", two))
      BY <2>2, <2>4, <2>11, <3>2, PartsAre
    <3> QED BY <2>11, <3>1, <3>3, TablesMean
  <2> QED BY <2>5, <2>6, <2>7, <2>8, <2>9, <2>10, <2>11
<1> HIDE DEF T
<1>3. \A q \in 1..(n + 1) : q \in T
  <2> HIDE DEF n
  <2> QED BY <1>1, <1>2, PlacesInduction
<1> QED BY <1>3 DEF T

-----------------------------------------------------------------------------
(* Every part is read as what it means: the rules, one by one.              *)
(* What a goal may have so far, and with what it is read together then.     *)
Fits(part, self) ==
  CASE part = "expression" -> self \in {Null, Invalid}
    [] part = "list" -> self = Array(self.list) /\ IsSequence(self.list)
    [] part = "table" -> self = Map(self.hash) /\ self.hash = [w \in Words |-> self.hash[w]]
Override(g, h) == [w \in Words |-> IF h[w] = Absent THEN g[w] ELSE h[w]]
Completed(part, self, e) ==
  CASE part = "expression" -> Filled(self, e)
    [] part = "list" -> Array(self.list \o e.list)
    [] part = "table" -> Map(Override(self.hash, e.hash))

(* A part is read as what it means, if names are bound before it as         *)
(* NamedBefore says.                                                        *)
ReadsAs(text, part, p, q) ==
  \A self : Fits(part, self) =>
    \A o : Reads(Goal(part, self, RefsAt(text, NamedWithin(text, p, p)), From(text, p)), o)
           <=> /\ MeaningAt(text, part, p) # NULL
               /\ o = Outcome(Completed(part, self, MeaningAt(text, part, p)),
                              RefsAt(text, NamedWithin(text, p, q)), From(text, q))
Understood(text, part, p) ==
  LET q == Ends(text)[<<part, p>>] IN q # 0 /\ Clear(text, p, q) => ReadsAs(text, part, p, q)

LEMMA WithinBehind ==
  ASSUME NEW text, IsSequence(text), NEW p \in 1..Len(text), text[p].kind # "ref",
         NEW q \in 1..(Len(text) + 1), p + 1 < q, Clear(text, p, q)
  PROVE  /\ Clear(text, p + 1, q)
         /\ NamedWithin(text, p + 1, p + 1) = NamedWithin(text, p, p)
         /\ NamedWithin(text, p + 1, q) = NamedWithin(text, p, q)
<1>1. Len(text) \in Nat
  BY TextPlaces
<1>2. PICK a : a = p + 1
  OBVIOUS
<1>3. a \in (p + 1)..(q - 1) /\ \A k \in p..(a - 1) : k = p
  BY <1>1, <1>2
<1>4. \A k \in p..(a - 1) : text[k].kind = "ref" => Ends(text)[<<"expression", k>>] <= a
  BY <1>3
<1>5. /\ Clear(text, a, q)
      /\ NamedWithin(text, p, a) = NamedWithin(text, a, a)
      /\ NamedWithin(text, a, q) = NamedWithin(text, p, q)
  BY <1>3, <1>4, WithinParts
<1>6. NamedWithin(text, p, p + 1) = NamedWithin(text, p, p)
  BY WithinOne
<1> QED BY <1>2, <1>5, <1>6

LEMMA BlankUnderstood ==
  ASSUME NEW text, IsSequence(text), NEW p \in 1..Len(text), NEW part \in Parts,
         NEW q \in 1..(Len(text) + 1), q = Ends(text)[<<part, p>>], p + 1 < q,
         text[p].kind = "blank", Ends(text)[<<part, p + 1>>] = q, Clear(text, p, q),
         Understood(text, part, p + 1)
  PROVE  ReadsAs(text, part, p, q)
<1>1. /\ Clear(text, p + 1, q)
      /\ NamedWithin(text, p + 1, p + 1) = NamedWithin(text, p, p)
      /\ NamedWithin(text, p + 1, q) = NamedWithin(text, p, q)
  BY WithinBehind
<1>2. q # 0
  BY TextPlaces
<1>3. ReadsAs(text, part, p + 1, q)
  BY <1>1, <1>2 DEF Understood
<1>4. MeaningAt(text, part, p) = MeaningAt(text, part, p + 1)
  BY <1>2, MeaningIs
<1>5. \A self, refs, o :
        Reads(Goal(part, self, refs, From(text, p)), o) <=> Reads(Goal(part, self, refs, From(text, p + 1)), o)
  BY BlankReads
<1> QED BY <1>1, <1>3, <1>4, <1>5 DEF ReadsAs

LEMMA LeafUnderstood ==
  ASSUME NEW text, IsSequence(text), NEW p \in 1..Len(text), text[p].kind \in Complete,
         NEW q, q = Ends(text)[<<"expression", p>>], q = p + 1
  PROVE  ReadsAs(text, "expression", p, q)
<1> DEFINE x == text[p]
           e == MeaningAt(text, "expression", p)
           rest == From(text, p + 1)
<1>1. PICK refs : refs = RefsAt(text, NamedWithin(text, p, p))
  OBVIOUS
<1>2. x.kind # "blank" /\ x.kind # "ref" /\ q # 0 /\ "expression" \in Parts
  BY PartsAre, TextPlaces DEF Complete
<1>3. RefsAt(text, NamedWithin(text, p, q)) = refs
  BY <1>1, <1>2, WithinOne
<1>4. /\ x.kind = "value" => e = Value(x.word)
      /\ x.kind = "null" => e = Null
      /\ x.kind = "binary" => e = BinaryData(x.blob)
      /\ x.kind = "insert" => e = Inserted(FALSE, Bound(refs, x.name))
  BY <1>1, <1>2, MeaningIs
<1>5. SUFFICES ASSUME NEW self, self \in {Null, Invalid}, NEW o
               PROVE  Reads(Goal("expression", self, refs, From(text, p)), o)
                      <=> e # NULL /\ o = Outcome(Filled(self, e), refs, rest)
  BY <1>1, <1>3 DEF ReadsAs, Fits, Completed
<1>6. /\ x.kind = "value" =>
            (Reads(Goal("expression", self, refs, From(text, p)), o) <=> o = Outcome(Value(x.word), refs, rest))
      /\ x.kind = "null" =>
            (Reads(Goal("expression", self, refs, From(text, p)), o) <=> o = Outcome(Null, refs, rest))
      /\ x.kind = "binary" =>
            (Reads(Goal("expression", self, refs, From(text, p)), o) <=> o = Outcome(BinaryData(x.blob), refs, rest))
      /\ x.kind = "insert" =>
           (Reads(Goal("expression", self, refs, From(text, p)), o) <=>
              /\ Bound(refs, x.name) # Absent
              /\ o = Outcome(copyInto(self, Bound(refs, x.name)), refs, rest))
  BY <1>2, ExpressionHere
<1> HIDE DEF e, rest
<1>7. CASE x.kind \in {"value", "null", "binary"}
  <2>1. e # NULL /\ Filled(self, e) = e
    BY <1>4, <1>7, KindsOfExpressions DEF Filled, NULL
  <2> QED BY <1>4, <1>6, <1>7, <2>1
<1>8. CASE x.kind = "insert"
  <2>1. PICK b : b = Bound(refs, x.name)
    OBVIOUS
  <2>2. e = Inserted(FALSE, b)
    BY <1>4, <1>8, <2>1
  <2>3. b # Absent => e # NULL /\ Filled(self, e) = copyInto(self, b)
    <3> SUFFICES ASSUME b # Absent PROVE e # NULL /\ Filled(self, e) = copyInto(self, b)
      OBVIOUS
    <3>1. e = copyInto(Invalid, b)
      BY <2>2 DEF Inserted
    <3>2. e = Invalid \/ e.type \in {"Value", "Array", "Map"}
      BY <3>1, CopiesOfNothing
    <3> QED BY <3>1, <3>2, CopiesOfNothing, KindsOfExpressions DEF NULL
  <2>4. b = Absent => e = NULL
    BY <2>2 DEF Inserted
  <2> QED BY <1>6, <1>8, <2>1, <2>3, <2>4
<1> QED BY <1>7, <1>8 DEF Complete

LEMMA NameUnderstood ==
  ASSUME NEW text, IsSequence(text), NEW p \in 1..Len(text), text[p].kind = "ref",
         text[p].name \notin InvalidNames,
         NEW q \in 1..(Len(text) + 1), q = Ends(text)[<<"expression", p>>], p + 1 < q,
         Ends(text)[<<"expression", p + 1>>] = q, Clear(text, p, q),
         Understood(text, "expression", p + 1)
  PROVE  ReadsAs(text, "expression", p, q)
<1> DEFINE x == text[p]
           e == MeaningAt(text, "expression", p)
           rest == From(text, p + 1)
           inner == RefsAt(text, NamedWithin(text, p + 1, q))
           behind == From(text, q)
<1>1. PICK refs : refs = RefsAt(text, NamedWithin(text, p, p))
  OBVIOUS
<1>2. q # 0 /\ "expression" \in Parts
  BY PartsAre, TextPlaces
<1>3. Clear(text, p + 1, q) /\ RefsAt(text, NamedWithin(text, p + 1, p + 1)) = refs
  BY <1>1, WithinName
<1>4. RefsAt(text, NamedWithin(text, p, q)) = [inner EXCEPT ![x.name] = createCopy[e]]
  BY RefsWithName
<1>5. e = MeaningAt(text, "expression", p + 1)
  BY <1>2, MeaningIs
<1>6. ReadsAs(text, "expression", p + 1, q)
  BY <1>2, <1>3 DEF Understood
<1>7. SUFFICES ASSUME NEW self, self \in {Null, Invalid}, NEW o
               PROVE  Reads(Goal("expression", self, refs, From(text, p)), o)
                      <=> e # NULL /\ o = Outcome(Filled(self, e), [inner EXCEPT ![x.name] = createCopy[e]], behind)
  BY <1>1, <1>4 DEF ReadsAs, Fits, Completed
<1>8. Reads(Goal("expression", self, refs, From(text, p)), o) <=>
        \E m : /\ Reads(Goal("expression", self, refs, rest), m)
               /\ o = Outcome(m.expr, [m.refs EXCEPT ![x.name] = createCopy[m.expr]], m.text)
  <2>1. x.kind # "blank" /\ x.kind = "ref" /\ x.name \notin InvalidNames
    OBVIOUS
  <2>2. x.kind = "ref" =>
          (Reads(Goal("expression", self, refs, From(text, p)), o) <=>
             /\ x.name \notin InvalidNames
             /\ \E m : /\ Reads(Goal("expression", self, refs, rest), m)
                       /\ o = Outcome(m.expr, [m.refs EXCEPT ![x.name] = createCopy[m.expr]], m.text))
    BY <2>1, ExpressionHere
  <2> QED BY <2>1, <2>2
<1>9. \A m : Reads(Goal("expression", self, refs, rest), m)
             <=> e # NULL /\ m = Outcome(Filled(self, e), inner, behind)
  BY <1>3, <1>5, <1>6, <1>7 DEF ReadsAs, Fits, Completed
<1>10. createCopy[Filled(self, e)] = createCopy[e]
  BY <1>7, CopiesOfNothing DEF Filled
<1>11. PICK m : m = Outcome(Filled(self, e), inner, behind)
  OBVIOUS
<1>12. m.expr = Filled(self, e) /\ m.refs = inner /\ m.text = behind
  BY <1>11, OutcomeIs
<1> HIDE DEF e, rest, inner, behind, x
<1> QED BY <1>8, <1>9, <1>10, <1>11, <1>12

LEMMA ContainerUnderstood ==
  ASSUME NEW text, IsSequence(text), NEW p \in 1..Len(text), NEW part,
         (text[p].kind = "array" /\ part = "list") \/ (text[p].kind = "map" /\ part = "table"),
         NEW q \in 1..(Len(text) + 1), q = Ends(text)[<<"expression", p>>], p + 1 < q,
         Ends(text)[<<part, p + 1>>] = q, Clear(text, p, q),
         CanMean(part, MeaningAt(text, part, p + 1)),
         Understood(text, part, p + 1)
  PROVE  ReadsAs(text, "expression", p, q)
<1> DEFINE x == text[p]
           e == MeaningAt(text, "expression", p)
           rest == From(text, p + 1)
           out == RefsAt(text, NamedWithin(text, p, q))
           behind == From(text, q)
           empty == IF part = "list" THEN Array(<<>>) ELSE Map(EmptyTable(Words))
<1>1. PICK refs : refs = RefsAt(text, NamedWithin(text, p, p))
  OBVIOUS
<1>2. q # 0 /\ "expression" \in Parts /\ x.kind # "blank" /\ x.kind # "ref"
  BY PartsAre, TextPlaces
<1>3. /\ Clear(text, p + 1, q) /\ RefsAt(text, NamedWithin(text, p + 1, p + 1)) = refs
      /\ RefsAt(text, NamedWithin(text, p + 1, q)) = out
  BY <1>1, <1>2, WithinBehind
<1>4. e = MeaningAt(text, part, p + 1)
  BY <1>2, MeaningIs
<1>5. ReadsAs(text, part, p + 1, q)
  BY <1>2, <1>3 DEF Understood
<1>6. SUFFICES ASSUME NEW self, self \in {Null, Invalid}, NEW o
               PROVE  Reads(Goal("expression", self, refs, From(text, p)), o)
                      <=> e # NULL /\ o = Outcome(Filled(self, e), out, behind)
  BY <1>1 DEF ReadsAs, Fits, Completed
<1>7. Reads(Goal("expression", self, refs, From(text, p)), o) <=> Reads(Goal(part, empty, refs, rest), o)
  BY <1>2, ExpressionHere
<1>8. Fits(part, empty)
  <2>1. CASE part = "list"
    <3>1. empty = Array(<<>>) /\ empty.list = <<>> /\ IsSequence(<<>>)
      BY <2>1, KindsOfExpressions DEF IsSequence
    <3> HIDE DEF empty
    <3> QED BY <2>1, <3>1 DEF Fits
  <2>2. CASE part = "table"
    <3>1. empty = Map(EmptyTable(Words)) /\ empty.hash = EmptyTable(Words)
          /\ EmptyTable(Words) = [w \in Words |-> EmptyTable(Words)[w]]
      BY <2>2, KindsOfExpressions DEF EmptyTable
    <3> HIDE DEF empty
    <3> QED BY <2>2, <3>1 DEF Fits
  <2> QED BY <2>1, <2>2
<1>9. Reads(Goal(part, empty, refs, rest), o) <=> e # NULL /\ o = Outcome(Completed(part, empty, e), out, behind)
  <2> HIDE DEF empty, out
  <2> QED BY <1>3, <1>4, <1>5, <1>8 DEF ReadsAs
<1>10. e # NULL => Completed(part, empty, e) = e /\ Filled(self, e) = e
  <2> SUFFICES ASSUME e # NULL PROVE Completed(part, empty, e) = e /\ Filled(self, e) = e
    OBVIOUS
  <2>0. CanMean(part, e)
    BY <1>4
  <2> HIDE DEF e
  <2>1. CASE part = "list"
    <3>1. e = Array(e.list) /\ IsSequence(e.list) /\ empty.list = <<>>
      BY <2>0, <2>1, KindsOfExpressions DEF CanMean
    <3>2. <<>> \o e.list = e.list
      BY <3>1 DEF IsSequence
    <3>3. e # Invalid
      BY <3>1, KindsOfExpressions
    <3> HIDE DEF empty
    <3> QED BY <2>1, <3>1, <3>2, <3>3 DEF Completed, Filled
  <2>2. CASE part = "table"
    <3>1. e = Map(e.hash) /\ e.hash = [w \in Words |-> e.hash[w]] /\ empty.hash = EmptyTable(Words)
      BY <2>0, <2>2, KindsOfExpressions DEF CanMean
    <3>2. Override(EmptyTable(Words), e.hash) = e.hash
      <4>1. PICK h : h = e.hash
        OBVIOUS
      <4>2. h = [w \in Words |-> h[w]]
        BY <3>1, <4>1
      <4>3. Override(EmptyTable(Words), h) = h
        BY <4>2 DEF Override, EmptyTable
      <4> QED BY <4>1, <4>3
    <3>3. e # Invalid
      BY <3>1, KindsOfExpressions
    <3> HIDE DEF empty
    <3> QED BY <2>2, <3>1, <3>2, <3>3 DEF Completed, Filled
  <2> QED BY <2>1, <2>2
<1> HIDE DEF e, rest, out, behind, empty
<1> QED BY <1>7, <1>9, <1>10

LEMMA CloseUnderstood ==
  ASSUME NEW text, IsSequence(text), NEW p \in 1..Len(text), text[p].kind = "close",
         NEW part \in {"list", "table"}, NEW q, q = Ends(text)[<<part, p>>], q = p + 1
  PROVE  ReadsAs(text, part, p, q)
<1>1. PICK refs : refs = RefsAt(text, NamedWithin(text, p, p))
  OBVIOUS
<1>2. text[p].kind # "blank" /\ text[p].kind # "ref" /\ q # 0 /\ part \in Parts
  BY TextPlaces DEF Parts
<1>3. RefsAt(text, NamedWithin(text, p, q)) = refs
  BY <1>1, <1>2, WithinOne
<1>4. MeaningAt(text, part, p) = IF part = "list" THEN Array(<<>>) ELSE Map(EmptyTable(Words))
  BY <1>2, MeaningIs
<1>5. \A self, o : Reads(Goal(part, self, refs, From(text, p)), o) <=> o = Outcome(self, refs, From(text, q))
  <2>1. CASE part = "list"
    BY <1>2, <2>1, ListHere
  <2>2. CASE part = "table"
    BY <1>2, <2>2, TableHere
  <2> QED BY <2>1, <2>2
<1>6. ASSUME NEW self, Fits(part, self) PROVE Completed(part, self, MeaningAt(text, part, p)) = self
  <2>1. CASE part = "list"
    <3>1. PICK s : s = self.list /\ self = Array(s) /\ IsSequence(s)
      BY <1>6, <2>1 DEF Fits
    <3>2. s \o <<>> = s
      BY <3>1 DEF IsSequence
    <3>3. Array(<<>>).list = <<>>
      BY KindsOfExpressions
    <3> QED BY <1>4, <2>1, <3>1, <3>2, <3>3 DEF Completed
  <2>2. CASE part = "table"
    <3>1. PICK h : h = self.hash /\ self = Map(h) /\ h = [w \in Words |-> h[w]]
      BY <1>6, <2>2 DEF Fits
    <3>2. Override(h, EmptyTable(Words)) = h
      BY <3>1 DEF Override, EmptyTable
    <3>3. Map(EmptyTable(Words)).hash = EmptyTable(Words)
      BY KindsOfExpressions
    <3> QED BY <1>4, <2>2, <3>1, <3>2, <3>3 DEF Completed
  <2> QED BY <2>1, <2>2
<1>7. MeaningAt(text, part, p) # NULL
  BY <1>4, KindsOfExpressions DEF NULL
<1> QED BY <1>1, <1>3, <1>5, <1>6, <1>7 DEF ReadsAs

TakesOneMore(s, t, x) == IsSequence(Append(s, x)) /\ Append(s, x) \o t = s \o (<<x>> \o t)
LEMMA OneMore ==
  ASSUME NEW s, IsSequence(s), NEW t, IsSequence(t), NEW x
  PROVE  TakesOneMore(s, t, x)
<1> DEFINE S == {s[i] : i \in DOMAIN s} \cup {t[i] : i \in DOMAIN t} \cup {x}
<1>1. s \in Seq({s[i] : i \in DOMAIN s}) /\ t \in Seq({t[i] : i \in DOMAIN t})
  BY DEF IsSequence
<1>2. s \in Seq(S) /\ t \in Seq(S) /\ x \in S
  BY <1>1
<1> HIDE DEF S
<1>3. Append(s, x) \in Seq(S) /\ <<x>> \in Seq(S) /\ <<x>> \o t \in Seq(S)
  BY <1>2
<1>4. IsSequence(Append(s, x))
  BY <1>3, SeqIsSequence
<1>5. Append(s, x) \o t \in Seq(S) /\ s \o (<<x>> \o t) \in Seq(S)
  BY <1>2, <1>3
<1>6. Append(s, x) \o t = s \o (<<x>> \o t)
  BY <1>2, <1>3, <1>5
<1> QED BY <1>4, <1>6 DEF TakesOneMore

LEMMA ListUnderstood ==
  ASSUME NEW text, IsSequence(text), NEW p \in 1..Len(text), text[p].kind \notin {"blank", "close"},
         NEW q \in 1..(Len(text) + 1), q = Ends(text)[<<"list", p>>],
         NEW a \in (p + 1)..(q - 1), a = Ends(text)[<<"expression", p>>],
         Ends(text)[<<"list", a>>] = q, Clear(text, p, q),
         CanMean("list", MeaningAt(text, "list", a)),
         Understood(text, "expression", p), Understood(text, "list", a)
  PROVE  ReadsAs(text, "list", p, q)
<1> DEFINE first == MeaningAt(text, "expression", p)
           rest == MeaningAt(text, "list", a)
           e == MeaningAt(text, "list", p)
           refs == RefsAt(text, NamedWithin(text, p, p))
           mid == RefsAt(text, NamedWithin(text, p, a))
           out == RefsAt(text, NamedWithin(text, p, q))
           here == From(text, p)
           behind == From(text, a)
           end == From(text, q)
<1>1. p \in 1..(Len(text) + 1) /\ a # 0 /\ q # 0 /\ a \in 1..(Len(text) + 1)
  BY TextPlaces
<1>2. \A k \in p..(a - 1) : text[k].kind = "ref" => Ends(text)[<<"expression", k>>] <= a
  BY <1>1, NamedInside, PartsAre
<1>3. /\ Clear(text, p, a) /\ Clear(text, a, q)
      /\ mid = RefsAt(text, NamedWithin(text, a, a))
      /\ RefsAt(text, NamedWithin(text, a, q)) = out
  BY <1>2, WithinParts
<1>4. \A m : Reads(Goal("expression", Null, refs, here), m) <=> first # NULL /\ m = Outcome(Filled(Null, first), mid, behind)
  <2>1. ReadsAs(text, "expression", p, a)
    BY <1>1, <1>3 DEF Understood
  <2> QED BY <2>1 DEF ReadsAs, Fits, Completed
<1>5. \A self, o : Fits("list", self) =>
        (Reads(Goal("list", self, mid, behind), o) <=> rest # NULL /\ o = Outcome(Completed("list", self, rest), out, end))
  <2>1. ReadsAs(text, "list", a, q)
    BY <1>1, <1>3 DEF Understood
  <2> QED BY <1>3, <2>1 DEF ReadsAs
<1>6. e = ListOf(first, rest)
  BY <1>1, MeaningIs, PartsAre
<1>7. SUFFICES ASSUME NEW self, Fits("list", self), NEW o
               PROVE  Reads(Goal("list", self, refs, here), o)
                      <=> e # NULL /\ o = Outcome(Completed("list", self, e), out, end)
  BY DEF ReadsAs
<1>8. Reads(Goal("list", self, refs, here), o)
      <=> \E m : /\ Reads(Goal("expression", Null, refs, here), m)
                 /\ Reads(Goal("list", Array(Append(self.list, m.expr)), m.refs, m.text), o)
  BY ListHere
<1>9. CanMean("list", rest)
  OBVIOUS
<1>10. PICK f, m : f = Filled(Null, first) /\ m = Outcome(f, mid, behind)
  OBVIOUS
<1>11. m.expr = f /\ m.refs = mid /\ m.text = behind
  BY <1>10, OutcomeIs
<1>12. PICK next : next = Array(Append(self.list, f))
  OBVIOUS
<1> HIDE DEF first, rest, e, refs, mid, out, here, behind, end
<1>13. Reads(Goal("list", self, refs, here), o) <=> first # NULL /\ Reads(Goal("list", next, mid, behind), o)
  BY <1>4, <1>8, <1>10, <1>11, <1>12
<1>14. self = Array(self.list) /\ IsSequence(self.list) /\ next.list = Append(self.list, f)
  BY <1>7, <1>12, KindsOfExpressions DEF Fits
<1>15. Fits("list", next)
  <2>1. <<>> \in Seq({}) /\ IsSequence(<<>>)
    BY DEF IsSequence
  <2>2. IsSequence(Append(self.list, f))
    BY <1>14, <2>1, OneMore DEF TakesOneMore
  <2> QED BY <1>12, <1>14, <2>2 DEF Fits
<1>16. CASE first = NULL \/ rest = NULL
  <2>1. e = NULL
    BY <1>6, <1>16 DEF ListOf
  <2> QED BY <1>5, <1>13, <1>15, <1>16, <2>1
<1>17. CASE first # NULL /\ rest # NULL
  <2> DEFINE whole == <<f>> \o rest.list
  <2>1. e = Array(whole)
    BY <1>6, <1>10, <1>17 DEF ListOf
  <2> HIDE DEF whole
  <2>2. e # NULL /\ e.list = whole
    BY <2>1, KindsOfExpressions DEF NULL
  <2>3. IsSequence(rest.list)
    BY <1>9, <1>17 DEF CanMean
  <2>4. next.list \o rest.list = self.list \o e.list
    <3>1. Append(self.list, f) \o rest.list = self.list \o whole
      <4>1. PICK s, t : s = self.list /\ t = rest.list /\ IsSequence(s) /\ IsSequence(t)
        BY <1>14, <2>3
      <4>2. Append(s, f) \o t = s \o (<<f>> \o t)
        <5>1. TakesOneMore(s, t, f)
          BY <4>1, OneMore
        <5> QED BY <5>1 DEF TakesOneMore
      <4> QED BY <4>1, <4>2 DEF whole
    <3> QED BY <1>14, <2>2, <3>1
  <2>5. Completed("list", next, rest) = Completed("list", self, e)
    BY <2>4 DEF Completed
  <2> QED BY <1>5, <1>13, <1>15, <1>17, <2>2, <2>5
<1> QED BY <1>16, <1>17

TakesOneMoreKey(g, h, key, value) ==
  /\ [g EXCEPT ![key] = value] = [w \in Words |-> [g EXCEPT ![key] = value][w]]
  /\ Override([g EXCEPT ![key] = value], h)
       = Override(g, [h EXCEPT ![key] = IF @ = Absent THEN value ELSE @])
LEMMA OneMoreKey ==
  ASSUME NEW g, g = [w \in Words |-> g[w]], NEW h, h = [w \in Words |-> h[w]],
         NEW key, NEW value, value # Absent
  PROVE  TakesOneMoreKey(g, h, key, value)
<1> DEFINE g1 == [g EXCEPT ![key] = value]
           h1 == [h EXCEPT ![key] = IF @ = Absent THEN value ELSE @]
<1>1. DOMAIN g = Words /\ DOMAIN h = Words
  OBVIOUS
<1>2. g1 = [w \in Words |-> IF w = key THEN value ELSE g[w]]
  BY <1>1
<1>3. h1 = [w \in Words |-> IF w = key THEN IF h[w] = Absent THEN value ELSE h[w] ELSE h[w]]
  BY <1>1
<1> HIDE DEF g1, h1
<1>4. \A w \in Words : (IF h[w] = Absent THEN g1[w] ELSE h[w]) = (IF h1[w] = Absent THEN g[w] ELSE h1[w])
  BY <1>2, <1>3
<1>5. Override(g1, h) = Override(g, h1)
  BY <1>4 DEF Override
<1>6. g1 = [w \in Words |-> g1[w]]
  BY <1>2
<1> QED BY <1>5, <1>6 DEF g1, h1, TakesOneMoreKey

LEMMA TableUnderstood ==
  ASSUME NEW text, IsSequence(text), NEW p \in 1..Len(text), text[p].kind \notin {"blank", "close"},
         NEW q \in 1..(Len(text) + 1), q = Ends(text)[<<"table", p>>],
         NEW a \in (p + 1)..(q - 1), a = Ends(text)[<<"expression", p>>],
         NEW b \in (a + 1)..(q - 1), b = Ends(text)[<<"expression", a>>],
         Ends(text)[<<"table", b>>] = q, Clear(text, p, q),
         CanMean("expression", MeaningAt(text, "expression", p)),
         CanMean("expression", MeaningAt(text, "expression", a)),
         CanMean("table", MeaningAt(text, "table", b)),
         Understood(text, "expression", p), Understood(text, "expression", a), Understood(text, "table", b)
  PROVE  ReadsAs(text, "table", p, q)
<1> DEFINE key == MeaningAt(text, "expression", p)
           value == MeaningAt(text, "expression", a)
           rest == MeaningAt(text, "table", b)
           e == MeaningAt(text, "table", p)
           refs == RefsAt(text, NamedWithin(text, p, p))
           mid == RefsAt(text, NamedWithin(text, p, a))
           late == RefsAt(text, NamedWithin(text, a, b))
           out == RefsAt(text, NamedWithin(text, p, q))
           here == From(text, p)
           behind == From(text, a)
           last == From(text, b)
           end == From(text, q)
<1>1. /\ p \in 1..(Len(text) + 1) /\ a # 0 /\ q # 0 /\ b # 0
      /\ a \in 1..(Len(text) + 1) /\ a \in 1..Len(text) /\ b \in 1..(Len(text) + 1)
      /\ a \in (p + 1)..(q - 1) /\ b \in (a + 1)..(q - 1)
  <2>1. PICK n \in Nat : n = Len(text)
    BY TextPlaces
  <2>2. p \in 1..n /\ q \in 1..(n + 1)
    BY <2>1
  <2>3. a \in (p + 1)..(q - 1) /\ b \in (a + 1)..(q - 1)
    OBVIOUS
  <2>4. /\ p \in 1..(n + 1) /\ a # 0 /\ q # 0 /\ b # 0
        /\ a \in 1..(n + 1) /\ a \in 1..n /\ b \in 1..(n + 1)
    BY ONLY <2>1, <2>2, <2>3
  <2> QED BY <2>1, <2>3, <2>4
<1>2. \A k \in p..(a - 1) : text[k].kind = "ref" => Ends(text)[<<"expression", k>>] <= a
  BY <1>1, NamedInside, PartsAre
<1>3. /\ Clear(text, p, a) /\ Clear(text, a, q)
      /\ mid = RefsAt(text, NamedWithin(text, a, a))
      /\ RefsAt(text, NamedWithin(text, a, q)) = out
  BY <1>2, WithinParts
<1>20. \A k \in a..(b - 1) : text[k].kind = "ref" => Ends(text)[<<"expression", k>>] <= b
  BY <1>1, NamedInside, PartsAre
<1>21. /\ Clear(text, a, b) /\ Clear(text, b, q)
       /\ late = RefsAt(text, NamedWithin(text, b, b))
       /\ RefsAt(text, NamedWithin(text, b, q)) = RefsAt(text, NamedWithin(text, a, q))
  BY <1>1, <1>3, <1>20, WithinParts
<1>4. \A m : Reads(Goal("expression", Null, refs, here), m) <=> key # NULL /\ m = Outcome(Filled(Null, key), mid, behind)
  <2>1. ReadsAs(text, "expression", p, a)
    BY <1>1, <1>3 DEF Understood
  <2> QED BY <2>1 DEF ReadsAs, Fits, Completed
<1>22. \A m : Reads(Goal("expression", Invalid, mid, behind), m)
              <=> value # NULL /\ m = Outcome(Filled(Invalid, value), late, last)
  <2>1. ReadsAs(text, "expression", a, b)
    BY <1>1, <1>21 DEF Understood
  <2> QED BY <1>3, <2>1 DEF ReadsAs, Fits, Completed
<1>5. \A self, o : Fits("table", self) =>
        (Reads(Goal("table", self, late, last), o) <=> rest # NULL /\ o = Outcome(Completed("table", self, rest), out, end))
  <2>1. ReadsAs(text, "table", b, q)
    BY <1>1, <1>21 DEF Understood
  <2> QED BY <1>3, <1>21, <2>1 DEF ReadsAs
<1>6. e = TableOf(key, value, rest)
  BY <1>1, MeaningIs, PartsAre
<1>7. SUFFICES ASSUME NEW self, Fits("table", self), NEW o
               PROVE  Reads(Goal("table", self, refs, here), o)
                      <=> e # NULL /\ o = Outcome(Completed("table", self, e), out, end)
  BY DEF ReadsAs
<1>8. ReadsAKey(text, p, self, refs, o)
  BY TableHere
<1>9. CanMean("expression", key) /\ CanMean("expression", value) /\ CanMean("table", rest)
  OBVIOUS
<1>10. PICK k, v : k = Outcome(Filled(Null, key), mid, behind) /\ v = Outcome(Filled(Invalid, value), late, last)
  OBVIOUS
<1>11. /\ k.expr = Filled(Null, key) /\ k.refs = mid /\ k.text = behind
       /\ v.expr = Filled(Invalid, value) /\ v.refs = late /\ v.text = last
  BY <1>10, OutcomeIs
<1> HIDE DEF key, value, rest, e, refs, mid, late, out, here, behind, last, end
<1>12. k.expr.type = "Value" <=> key.type = "Value"
  BY <1>11, KindsOfExpressions DEF Filled
<1>13. v.expr = value
  BY <1>11 DEF Filled
<1>14. value # NULL => (value.type # "Invalid" <=> value # Invalid) /\ value # Absent
  BY <1>9, KindsOfExpressions DEF CanMean, Absent
<1>15. key.type = "Value" => key # NULL /\ k.expr = key
  BY <1>11, KindsOfExpressions DEF Filled, NULL
<1>16. PICK next : next = Map([self.hash EXCEPT ![key.data] = value])
  OBVIOUS
<1>17. Reads(Goal("table", self, refs, here), o)
       <=> /\ key.type = "Value" /\ value \notin {NULL, Invalid}
           /\ Reads(Goal("table", next, late, last), o)
  <2>1. Reads(Goal("table", self, refs, here), o)
        <=> /\ key # NULL /\ k.expr.type = "Value"
            /\ value # NULL /\ v.expr.type # "Invalid"
            /\ Reads(Goal("table", Map([self.hash EXCEPT ![k.expr.data] = v.expr]), v.refs, v.text), o)
    BY <1>4, <1>8, <1>10, <1>11, <1>22 DEF ReadsAKey, here
  <2> QED BY <2>1, <1>11, <1>12, <1>13, <1>14, <1>15, <1>16
<1>18. CASE key.type # "Value" \/ value \in {NULL, Invalid} \/ rest = NULL
  <2>1. e = NULL
    BY <1>6, <1>18 DEF TableOf
  <2>2. rest = NULL => ~ (key.type = "Value" /\ value \notin {NULL, Invalid} /\ Reads(Goal("table", next, late, last), o))
    <3> SUFFICES ASSUME rest = NULL, key.type = "Value", value \notin {NULL, Invalid}
                 PROVE  ~Reads(Goal("table", next, late, last), o)
      OBVIOUS
    <3>1. PICK g : g = self.hash /\ g = [w \in Words |-> g[w]]
      BY <1>7 DEF Fits
    <3>2. PICK g1 : g1 = [g EXCEPT ![key.data] = value]
      OBVIOUS
    <3>3. g1 = [w \in Words |-> g1[w]]
      <4>1. TakesOneMoreKey(g, g, key.data, value)
        BY <1>14, <3>1, OneMoreKey
      <4> QED BY <3>2, <4>1 DEF TakesOneMoreKey
    <3>4. next = Map(g1) /\ next.hash = g1
      BY <1>16, <3>1, <3>2, KindsOfExpressions
    <3>5. Fits("table", next)
      BY <3>3, <3>4 DEF Fits
    <3> QED BY <1>5, <3>5
  <2> QED BY <1>17, <1>18, <2>1, <2>2
<1>19. CASE ~(key.type # "Value" \/ value \in {NULL, Invalid} \/ rest = NULL)
  <2>1. PICK h : h = rest.hash /\ h = [w \in Words |-> h[w]]
    BY <1>9, <1>19 DEF CanMean
  <2>2. PICK g : g = self.hash /\ g = [w \in Words |-> g[w]]
    BY <1>7 DEF Fits
  <2>3. PICK g1, h1 : /\ g1 = [g EXCEPT ![key.data] = value]
                      /\ h1 = [h EXCEPT ![key.data] = IF @ = Absent THEN value ELSE @]
    OBVIOUS
  <2>4. g1 = [w \in Words |-> g1[w]] /\ Override(g1, h) = Override(g, h1)
    <3>1. value # Absent
      BY <1>14, <1>19
    <3>2. TakesOneMoreKey(g, h, key.data, value)
      BY <2>1, <2>2, <3>1, OneMoreKey
    <3> QED BY <2>3, <3>2 DEF TakesOneMoreKey
  <2>5. next = Map(g1) /\ next.hash = g1
    BY <1>16, <2>2, <2>3, KindsOfExpressions
  <2>6. e = Map(h1) /\ e.hash = h1 /\ e # NULL
    <3>1. e = Map(h1)
      BY <1>6, <1>19, <2>1, <2>3 DEF TableOf
    <3> QED BY <3>1, KindsOfExpressions DEF NULL
  <2>7. Fits("table", next)
    BY <2>4, <2>5 DEF Fits
  <2>8. Completed("table", next, rest) = Completed("table", self, e)
    BY <2>1, <2>2, <2>4, <2>5, <2>6 DEF Completed
  <2> QED BY <1>5, <1>17, <1>19, <2>6, <2>7, <2>8
<1> QED BY <1>18, <1>19

LEMMA ExpressionUnderstood ==
  ASSUME NEW text, IsSequence(text), NEW p \in 1..Len(text),
         \A r \in (p + 1)..(Len(text) + 1) : \A y \in Parts : Understood(text, y, r)
  PROVE  Understood(text, "expression", p)
<1> DEFINE n == Len(text)
           x == text[p]
           q == Ends(text)[<<"expression", p>>]
<1>1. SUFFICES ASSUME q # 0, Clear(text, p, q) PROVE ReadsAs(text, "expression", p, q)
  BY DEF Understood
<1>2. n \in Nat /\ p \in Places(text) /\ p + 1 \in 1..(n + 1) /\ p + 1 \in (p + 1)..(n + 1)
  BY TextPlaces
<1>3. MadeOfParts(text, "expression", p)
  BY <1>1, <1>2, ReadableIs, PartsAre
<1>4. /\ q \in (p + 1)..(n + 1)
      /\ x.kind = "blank" => p + 1 < q /\ Ends(text)[<<"expression", p + 1>>] = q
      /\ x.kind # "blank" =>
           /\ x.kind \in Complete \cup {"ref", "array", "map"}
           /\ x.kind \in Complete => q = p + 1
           /\ x.kind = "ref" => x.name \notin InvalidNames /\ p + 1 < q /\ Ends(text)[<<"expression", p + 1>>] = q
           /\ x.kind = "array" => p + 1 < q /\ Ends(text)[<<"list", p + 1>>] = q
           /\ x.kind = "map" => p + 1 < q /\ Ends(text)[<<"table", p + 1>>] = q
  BY <1>3, IdentifiersAssumption DEF MadeOfParts, OutsideGrammar
<1>5. q \in 1..(n + 1)
  BY <1>2, <1>4
<1>6. \A y \in Parts : Understood(text, y, p + 1)
  BY <1>2
<1>7. \A y \in Parts : Ends(text)[<<y, p + 1>>] = q => CanMean(y, MeaningAt(text, y, p + 1))
  BY <1>1, <1>2, PartsMean
<1>8. PICK end : end = q
  OBVIOUS
<1> HIDE DEF q
<1>9. CASE x.kind = "blank"
  BY <1>1, <1>4, <1>5, <1>6, <1>9, BlankUnderstood, PartsAre DEF q
<1>10. CASE x.kind \in Complete
  <2>1. x.kind # "blank"
    BY <1>10 DEF Complete
  <2> QED BY <1>4, <1>10, <2>1, LeafUnderstood DEF q
<1>11. CASE x.kind = "ref"
  BY <1>1, <1>4, <1>5, <1>6, <1>11, NameUnderstood, PartsAre DEF q
<1>12. CASE x.kind = "array"
  BY <1>1, <1>4, <1>5, <1>6, <1>7, <1>12, ContainerUnderstood, PartsAre DEF q
<1>13. CASE x.kind = "map"
  BY <1>1, <1>4, <1>5, <1>6, <1>7, <1>13, ContainerUnderstood, PartsAre DEF q
<1> QED BY <1>4, <1>9, <1>10, <1>11, <1>12, <1>13

LEMMA RestUnderstood ==
  ASSUME NEW text, IsSequence(text), NEW p \in 1..Len(text), NEW part \in {"list", "table"},
         \A r \in (p + 1)..(Len(text) + 1) : \A y \in Parts : Understood(text, y, r),
         Understood(text, "expression", p)
  PROVE  Understood(text, part, p)
<1> DEFINE n == Len(text)
           x == text[p]
           q == Ends(text)[<<part, p>>]
           a == Ends(text)[<<"expression", p>>]
           b == Ends(text)[<<"expression", a>>]
<1>1. SUFFICES ASSUME q # 0, Clear(text, p, q) PROVE ReadsAs(text, part, p, q)
  BY DEF Understood
<1>2. n \in Nat /\ p \in Places(text) /\ p + 1 \in 1..(n + 1) /\ p + 1 \in (p + 1)..(n + 1) /\ part \in Parts
  BY TextPlaces DEF Parts
<1>3. MadeOfParts(text, part, p)
  BY <1>1, <1>2, ReadableIs
<1>4. /\ q \in (p + 1)..(n + 1)
      /\ x.kind = "blank" => p + 1 < q /\ Ends(text)[<<part, p + 1>>] = q
      /\ x.kind = "close" => q = p + 1
      /\ x.kind \notin {"blank", "close"} /\ part = "list" =>
           a \in (p + 1)..(q - 1) /\ Ends(text)[<<"list", a>>] = q
      /\ x.kind \notin {"blank", "close"} /\ part = "table" =>
           a \in (p + 1)..(q - 1) /\ b \in (a + 1)..(q - 1) /\ Ends(text)[<<"table", b>>] = q
  BY <1>3 DEF MadeOfParts
<1>5. q \in 1..(n + 1)
  BY <1>2, <1>4
<1>7. \A r \in 1..(n + 1) : \A y \in Parts : Ends(text)[<<y, r>>] # 0 => CanMean(y, MeaningAt(text, y, r))
  BY PartsMean
<1>8. CASE x.kind = "blank"
  <2>1. Understood(text, part, p + 1)
    BY <1>2
  <2> HIDE DEF q
  <2> QED BY <1>1, <1>2, <1>4, <1>5, <1>8, <2>1, BlankUnderstood DEF q
<1>9. CASE x.kind = "close"
  <2> HIDE DEF q
  <2> QED BY <1>4, <1>9, CloseUnderstood DEF q
<1>10. CASE x.kind \notin {"blank", "close"} /\ part = "list"
  <2>1. a \in (p + 1)..(q - 1) /\ Ends(text)[<<"list", a>>] = q
    BY <1>4, <1>10
  <2>2. a \in (p + 1)..(n + 1) /\ a \in 1..(n + 1)
    <3> HIDE DEF a, q
    <3> QED BY <1>2, <1>5, <2>1
  <2>3. Understood(text, "list", a) /\ CanMean("list", MeaningAt(text, "list", a))
    BY <1>1, <1>7, <2>1, <2>2, PartsAre
  <2> HIDE DEF q, a
  <2> QED BY <1>1, <1>5, <1>10, <2>1, <2>3, ListUnderstood DEF q, a
<1>11. CASE x.kind \notin {"blank", "close"} /\ part = "table"
  <2>1. a \in (p + 1)..(q - 1) /\ b \in (a + 1)..(q - 1) /\ Ends(text)[<<"table", b>>] = q
    BY <1>4, <1>11
  <2>2. /\ a \in (p + 1)..(n + 1) /\ a \in 1..(n + 1) /\ a # 0
        /\ b \in (p + 1)..(n + 1) /\ b \in 1..(n + 1) /\ b # 0 /\ p \in 1..(n + 1)
    <3> HIDE DEF a, b, q
    <3> QED BY <1>2, <1>5, <2>1
  <2>3. /\ Understood(text, "table", b) /\ Understood(text, "expression", a)
        /\ CanMean("table", MeaningAt(text, "table", b))
        /\ CanMean("expression", MeaningAt(text, "expression", a))
        /\ CanMean("expression", MeaningAt(text, "expression", p))
    BY <1>1, <1>7, <2>1, <2>2, PartsAre
  <2> HIDE DEF q, a, b
  <2> QED BY <1>1, <1>5, <1>11, <2>1, <2>3, TableUnderstood DEF q, a, b
<1> QED BY <1>8, <1>9, <1>10, <1>11

LEMMA AllUnderstood ==
  ASSUME NEW text, IsSequence(text)
  PROVE  \A p \in 1..(Len(text) + 1) : \A part \in Parts : Understood(text, part, p)
<1> DEFINE n == Len(text)
           T == {p \in 1..(n + 1) : \A part \in Parts : Understood(text, part, p)}
<1>1. n \in Nat
  BY TextPlaces
<1>2. ASSUME NEW p \in 1..(n + 1), \A q \in (p + 1)..(n + 1) : q \in T
      PROVE  p \in T
  <2>1. \A r \in (p + 1)..(n + 1) : \A y \in Parts : Understood(text, y, r)
    BY <1>2
  <2>2. CASE p = n + 1
    BY <2>2, NothingEndsAtZero DEF Understood
  <2>3. CASE p # n + 1
    <3>1. p \in 1..n
      BY <1>1, <2>3
    <3>2. Understood(text, "expression", p)
      BY <2>1, <3>1, ExpressionUnderstood
    <3>3. Understood(text, "list", p) /\ Understood(text, "table", p)
      BY <2>1, <3>1, <3>2, RestUnderstood
    <3> QED BY <3>2, <3>3 DEF Parts
  <2> QED BY <2>2, <2>3
<1> HIDE DEF T
<1>3. \A q \in 1..(n + 1) : q \in T
  <2> HIDE DEF n
  <2> QED BY <1>1, <1>2, PlacesInduction
<1> QED BY <1>3 DEF T

LEMMA BlankRest ==
  ASSUME NEW text, IsSequence(text)
  PROVE  \A p \in 1..(Len(text) + 1) :
           Trim(From(text, p)) = <<>> <=> \A k \in p..Len(text) : text[k].kind = "blank"
<1> DEFINE n == Len(text)
           Blank(p) == \A k \in p..n : text[k].kind = "blank"
           T == {p \in 1..(n + 1) : Trim(From(text, p)) = <<>> <=> Blank(p)}
<1>1. n \in Nat
  BY TextPlaces
<1>2. ASSUME NEW p \in 1..(n + 1), \A q \in (p + 1)..(n + 1) : q \in T
      PROVE  p \in T
  <2>1. CASE p = n + 1
    <3>1. Trim(From(text, p)) = <<>>
      BY <2>1, TrimFrom
    <3>2. Blank(p)
      BY <1>1, <2>1
    <3> QED BY <3>1, <3>2
  <2>2. CASE p # n + 1 /\ text[p].kind = "blank"
    <3>1. p + 1 \in (p + 1)..(n + 1) /\ p \in 1..n
      BY <1>1, <2>2
    <3>2. Trim(From(text, p)) = Trim(From(text, p + 1))
      BY <2>2, TrimFrom
    <3>3. \A k \in p..n : k = p \/ k \in (p + 1)..n
      BY <1>1, <3>1
    <3>4. \A k \in (p + 1)..n : k \in p..n
      BY <1>1, <3>1
    <3>5. Blank(p) <=> Blank(p + 1)
      BY <2>2, <3>3, <3>4
    <3>6. Trim(From(text, p + 1)) = <<>> <=> Blank(p + 1)
      BY <1>2, <3>1
    <3> QED BY <3>2, <3>5, <3>6
  <2>3. CASE p # n + 1 /\ text[p].kind # "blank"
    <3>1. Trim(From(text, p)) # <<>>
      BY <2>3, TrimFrom
    <3>2. p \in p..n
      BY <1>1, <2>3
    <3> QED BY <2>3, <3>1, <3>2
  <2> QED BY <2>1, <2>2, <2>3
<1> HIDE DEF T
<1>3. \A q \in 1..(n + 1) : q \in T
  <2> HIDE DEF n
  <2> QED BY <1>1, <1>2, PlacesInduction
<1> QED BY <1>3 DEF T

(* What a text denotes is what it means.                                    *)
LEMMA DenotesItsMeaning ==
  ASSUME NEW text, IsSequence(text), Plain(text), NEW d
  PROVE  Denotes(text, d) <=> Meaning(text, FALSE) # NULL /\ d = Meaning(text, FALSE)
<1> DEFINE n == Len(text)
           q == Ends(text)[<<"expression", 1>>]
           e == MeaningAt(text, "expression", 1)
           out == RefsAt(text, NamedWithin(text, 1, q))
           behind == From(text, q)
           Blank == \A k \in q..n : text[k].kind = "blank"
<1>1. n \in Nat /\ 1 \in 1..(n + 1) /\ 1 \in Places(text)
  BY TextPlaces
<1>2. TextGoal(text) = Goal("expression", Invalid, EmptyTable(Names), From(text, 1))
  BY FromStart DEF TextGoal
<1>3. Meaning(text, FALSE) = IF q # 0 /\ Blank THEN IF e = Invalid THEN NULL ELSE e ELSE NULL
  BY DEF Meaning, MeaningAt
<1>4. CASE q = 0
  <2>1. \A o : ~Reads(TextGoal(text), o)
    BY <1>1, <1>2, <1>4, ReadsAPart, PartsAre DEF ReadsParts
  <2> QED BY <1>3, <1>4, <2>1 DEF Denotes
<1>5. CASE q # 0
  <2>1. NamedWithin(text, 1, 1) = {}
    <3>1. \A k \in DOMAIN text : Ends(text)[<<"expression", k>>] \notin 1..1
      <4> TAKE k \in DOMAIN text
      <4>1. k \in 1..n
        BY NameEnds
      <4>2. PICK end : end = Ends(text)[<<"expression", k>>] /\ end \in Nat /\ (end = 0 \/ end > k)
        BY NameEnds
      <4>3. end \notin 1..1
        BY <1>1, <4>1, <4>2
      <4> QED BY <4>2, <4>3
    <3> QED BY <3>1 DEF NamedWithin
  <2>2. RefsAt(text, NamedWithin(text, 1, 1)) = EmptyTable(Names)
    BY <2>1, NoRefs
  <2>3. Clear(text, 1, q)
    BY NameEnds DEF Clear
  <2>4. ReadsAs(text, "expression", 1, q)
    BY <1>1, <1>5, <2>3, AllUnderstood, PartsAre DEF Understood
  <2>5. \A o : Reads(TextGoal(text), o) <=> e # NULL /\ o = Outcome(e, out, behind)
    BY <1>2, <2>2, <2>4 DEF ReadsAs, Fits, Completed, Filled
  <2>6. q \in 1..(n + 1)
    <3>1. q \in Behind(n, 1)
      BY <1>1, EndsIs, PartsAre
    <3> HIDE DEF q
    <3> QED BY <1>1, <1>5, <3>1 DEF Behind
  <2>7. Trim(behind) = <<>> <=> Blank
    <3> HIDE DEF q
    <3> QED BY <2>6, BlankRest DEF behind
  <2>8. e # NULL => (e.type = "Invalid" <=> e = Invalid)
    <3>1. CanMean("expression", e)
      BY <1>1, <1>5, PartsMean, PartsAre
    <3> HIDE DEF e
    <3> QED BY <3>1, KindsOfExpressions DEF CanMean
  <2>9. PICK m : m = Outcome(e, out, behind)
    OBVIOUS
  <2>10. m.expr = e /\ m.text = behind
    BY <2>9, OutcomeIs
  <2> HIDE DEF e, out, behind, Blank, q
  <2>11. Denotes(text, d) <=> e # NULL /\ d = e /\ e.type # "Invalid" /\ Trim(behind) = <<>>
    BY <2>5, <2>9, <2>10 DEF Denotes
  <2> QED BY <1>3, <1>5, <2>7, <2>8, <2>11
<1> QED BY <1>4, <1>5

LEMMA AnswersItsMeaning ==
  ASSUME IsSequence(input), AnswersTheText
  PROVE  ParsesTheGrammar
<1> SUFFICES ASSUME Plain(input) PROVE result # Running => result = Meaning(input, FALSE)
  BY DEF ParsesTheGrammar
<1>1. PICK text, r, m : text = input /\ r = result /\ m = Meaning(text, FALSE)
  OBVIOUS
<1>2. \A d : Denotes(text, d) <=> m # NULL /\ d = m
  BY <1>1, DenotesItsMeaning
<1>3. r # Running => \A d : Denotes(text, d) <=> r # NULL /\ d = r
  BY <1>1 DEF AnswersTheText
<1>4. r # Running => r = m
  BY <1>2, <1>3
<1> QED BY <1>1, <1>4

(* For every text whose insertions name references of the instance, every   *)
(* table and every callback: the answer of the parser is what the text      *)
(* means by the grammar of the repository, and no expression when it has no *)
(* meaning (s_Expression_parseFromString).  Nothing is said of texts in     *)
(* which a quote is left open or a name is not checked (Plain).             *)
THEOREM ParsesByTheGrammar ==
  ASSUME NEW CONSTANT S, ExternalTable \in [Names -> S],
         \A text \in Inputs : IsSequence(text) /\ Insertable(text)
  PROVE  Spec => []ParsesTheGrammar
<1>1. \A text \in Inputs : IsSequence(text)
  OBVIOUS
<1>2. Init => IInv /\ Follows /\ Meant
  BY InitInv, InitFollows, InitMeans
<1>3. IInv /\ Follows /\ Meant /\ [Next]_vars => IInv' /\ Follows' /\ Meant'
  BY NextInv, NextFollows, NextMeans
<1>4. Follows /\ Meant => ParsesTheGrammar
  BY AnswersItsMeaning DEF Meant, Follows
<1> QED BY <1>2, <1>3, <1>4, PTL DEF Spec
=============================================================================
