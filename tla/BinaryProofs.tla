---------------------------- MODULE BinaryProofs ----------------------------
(***************************************************************************)
(* What holds of BinaryReader for every document, whatever the sizes in it *)
(* say, every radix and every width of a size; and that it reads what      *)
(* BinaryWriter writes of any expression as that expression.               *)
(***************************************************************************)
EXTENDS BinaryRoundTrip, BinaryMeaning,
        SequenceTheorems, NaturalsInduction, WellFoundedInduction, TLAPS

Points == Heads \cup Loop \cup Called \cup {"root", "undefined"}

(* An activation, with whatever expressions. *)
Chunks(E) ==
  [pc : Points, at : Size, room : Size, expr : E, width : Size, size : Size,
   pos : Size, start : Size, keySize : Size, key : E]

Fills(c, type) == c.expr.type = type /\ "type" \in DOMAIN c.expr

IsChunk(c) ==
  /\ \E E : c \in Chunks(E)
  /\ c.pc \in {"elements", "elementRead"} => Fills(c, "Array")
  /\ c.pc \in {"pairs", "keyRead", "valueRead"} => Fills(c, "Map")

IsBuffer(b) ==
  /\ b = [data |-> b.data, at |-> b.at, room |-> b.room]
  /\ b.data \in BOOLEAN /\ b.at \in Size /\ b.room \in Size

IsStack == \E S : callers \in Seq(S)

(* The registers are what they are for, and the entry point is at the       *)
(* bottom of the stack and nowhere else.                                    *)
Registers ==
  /\ bytes \in Seq(Byte) /\ Len(bytes) < Wrap
  /\ IsChunk(cur) /\ IsBuffer(rest) /\ sound \in BOOLEAN
  /\ IsStack
  /\ \A i \in 1 .. Len(callers) :
       /\ IsChunk(callers[i])
       /\ callers[i].pc \in Called \cup {"root"}
       /\ callers[i].pc = "root" <=> i = Len(callers)
  /\ cur.pc = "root" <=> Len(callers) = 0

(* An error is the failed buffer on its way down. *)
ErrorIsOnItsWay ==
  /\ error \in {"None", "BinaryChunkNotBigEnough", "BinaryUnknownCompression"}
  /\ error # "None" => cur.pc \in Called \cup {"root"} /\ rest = Failed
  /\ error = "None" /\ cur.pc \in Called => rest.data

(* As long as the document is sound: each buffer is part of the bytes that  *)
(* were handed in, and of what contains it.                                 *)
Inside(c) == c.at + c.room <= Len(bytes)
Start(c) == c.at + c.width + 1
Opened(c) == c.width + 1 + c.size <= c.room /\ c.pos <= c.size
Under(c, a) ==
  /\ Opened(c) /\ c.keySize <= c.start
  /\ a.at + a.room = Start(c) + c.size
  /\ a.room = c.start - c.keySize
  /\ a.at = Start(c) + c.pos
  /\ c.pos + (c.start - c.keySize) = c.size
HeadOK(c) ==
  /\ c.pc \in {"chunk", "size"} => c.width <= c.room /\ c.pos = 0
  /\ c.pc = "type" => c.width <= c.room /\ c.pos = 0
  /\ c.pc \in Loop => Opened(c)
Returned ==
  cur.pc \in Called /\ rest.data =>
    /\ Opened(cur) /\ cur.keySize <= cur.start
    /\ cur.pos + (cur.start - cur.keySize) = cur.size
    /\ rest.room <= cur.start - cur.keySize
    /\ rest.at + rest.room = Start(cur) + cur.size
KeyOK(c) ==
  /\ c.pc \in {"elementRead", "keyRead"} => c.keySize = 0
  /\ c.pc = "valueRead" => c.key.type = "Value"

SoundSoFar ==
  sound =>
    /\ cur.pc # "undefined"
    /\ cur.pc # "root" => Inside(cur) /\ HeadOK(cur) /\ Returned /\ KeyOK(cur)
    /\ cur.pc # "root" /\ Len(callers) > 1 => Under(callers[1], cur)
    /\ \A i \in 1 .. Len(callers) - 1 : Inside(callers[i]) /\ KeyOK(callers[i])
    /\ \A i \in 1 .. Len(callers) - 2 : Under(callers[i + 1], callers[i])

-----------------------------------------------------------------------------
(* Arithmetic of sizes: it stays in its width, and is that of the integers  *)
(* as long as the result is in it.                                          *)
LEMMA WrapsToSize ==
  \A a \in Int : a % Wrap \in Size
  BY BinaryAssumption DEF Size

LEMMA NoWrap ==
  \A a \in Size : a % Wrap = a
  BY BinaryAssumption DEF Size

LEMMA Arithmetic ==
  ASSUME NEW a \in Int, NEW b \in Int
  PROVE  /\ Plus(a, b) \in Size /\ Minus(a, b) \in Size
         /\ a + b \in Size => Plus(a, b) = a + b
         /\ a - b \in Size => Minus(a, b) = a - b
  <1>1. a + b \in Int /\ a - b \in Int
    OBVIOUS
  <1> QED BY <1>1, WrapsToSize, NoWrap DEF Plus, Minus

(* The first activation above the entry.                                    *)
LEMMA ChunkFields ==
  ASSUME NEW c, IsChunk(c)
  PROVE  /\ c.pc \in Points
         /\ c.at \in Size /\ c.room \in Size /\ c.width \in Size /\ c.size \in Size
         /\ c.pos \in Size /\ c.start \in Size /\ c.keySize \in Size
  BY DEF IsChunk, Chunks

LEMMA NewChunk ==
  ASSUME NEW at \in Size, NEW room \in Size
  PROVE  /\ IsChunk(Chunk(at, room))
         /\ Chunk(at, room).pc = "chunk"
         /\ Chunk(at, room).at = at /\ Chunk(at, room).room = room
         /\ Chunk(at, room).pos = 0 /\ Chunk(at, room).width = 0
  <1>1. 0 \in Size
    BY BinaryAssumption DEF Size
  <1>2. Chunk(at, room) \in Chunks({Invalid})
    BY <1>1 DEF Chunk, Activation, Chunks, Points, Heads
  <1> QED BY <1>2 DEF IsChunk, Chunk, Activation

LEMMA RootChunk == IsChunk(Root) /\ Root.pc = "root"
  <1>1. 0 \in Size
    BY BinaryAssumption DEF Size
  <1>2. Root \in Chunks({Invalid})
    BY <1>1 DEF Root, Activation, Chunks, Points
  <1> QED BY <1>2 DEF IsChunk, Root, Activation

(* The three ways a step leaves the stack.                                  *)
LEMMA GoKeeps ==
  ASSUME Registers, cur.pc # "root", NEW c, IsChunk(c), c.pc # "root",
         Go(c), bytes' = bytes, sound' \in BOOLEAN
  PROVE  Registers'
  BY DEF Registers, Go, IsStack

LEMMA CallKeeps ==
  ASSUME Registers, cur.pc # "root", NEW caller, IsChunk(caller), caller.pc \in Called,
         NEW at \in Size, NEW room \in Size,
         Call(caller, at, room), bytes' = bytes, sound' \in BOOLEAN
  PROVE  Registers'
  <1>1. PICK S : callers \in Seq(S)
    BY DEF Registers, IsStack
  <1>2. /\ callers' \in Seq(S \cup {caller}) /\ Len(callers') = Len(callers) + 1
        /\ callers'[1] = caller /\ \A i \in 1 .. Len(callers) : callers'[i + 1] = callers[i]
    BY <1>1 DEF Call
  <1>3. \A i \in 1 .. Len(callers') : i = 1 \/ (i - 1 \in 1 .. Len(callers) /\ callers'[i] = callers[i - 1])
    BY <1>1, <1>2
  <1>4. caller.pc # "root" /\ Len(callers) > 0
    BY <1>1 DEF Called, Registers
  <1>5. IsChunk(cur)' /\ cur'.pc # "root"
    BY NewChunk DEF Call
  <1>6. IsStack'
    BY <1>2 DEF IsStack
  <1>7. \A i \in 1 .. Len(callers') :
          /\ IsChunk(callers'[i])
          /\ callers'[i].pc \in Called \cup {"root"}
          /\ callers'[i].pc = "root" <=> i = Len(callers')
    <2> TAKE i \in 1 .. Len(callers')
    <2>1. CASE i = 1
      BY <2>1, <1>2, <1>4
    <2>2. CASE i # 1
      <3>1. i - 1 \in 1 .. Len(callers) /\ callers'[i] = callers[i - 1]
        BY <2>2, <1>3
      <3>2. IsChunk(callers[i - 1]) /\ callers[i - 1].pc \in Called \cup {"root"}
        BY <3>1 DEF Registers
      <3>3. callers[i - 1].pc = "root" <=> i - 1 = Len(callers)
        BY <3>1 DEF Registers
      <3>4. Len(callers) \in Nat
        BY <1>1
      <3> QED BY <3>1, <3>2, <3>3, <3>4, <1>2
    <2> QED BY <2>1, <2>2
  <1>8. IsBuffer(rest)' /\ Len(callers') # 0 /\ bytes' \in Seq(Byte) /\ Len(bytes') < Wrap
    BY <1>1, <1>2 DEF Registers, Call
  <1> QED BY <1>5, <1>6, <1>7, <1>8 DEF Registers

LEMMA ReturnKeeps ==
  ASSUME Registers, cur.pc # "root", NEW buffer, IsBuffer(buffer), NEW expr,
         Return(buffer, expr), bytes' = bytes, sound' \in BOOLEAN
  PROVE  /\ Registers'
         /\ cur' = callers[1] /\ cur'.pc \in Called \cup {"root"}
         /\ cur'.pc = "root" <=> Len(callers) = 1
         /\ Len(callers) > 0 /\ Len(callers') = Len(callers) - 1
         /\ \A i \in 1 .. Len(callers') : callers'[i] = callers[i + 1]
  <1>1. PICK S : callers \in Seq(S)
    BY DEF Registers, IsStack
  <1>2. Len(callers) > 0 /\ Len(callers) \in Nat
    BY <1>1 DEF Registers
  <1>3. /\ callers' \in Seq(S) /\ Len(callers') = Len(callers) - 1
        /\ cur' = callers[1] /\ \A i \in 1 .. Len(callers') : callers'[i] = callers[i + 1]
    BY <1>1, <1>2 DEF Return
  <1>4. /\ IsChunk(cur)' /\ cur'.pc \in Called \cup {"root"}
        /\ cur'.pc = "root" <=> Len(callers') = 0
    BY <1>1, <1>2, <1>3 DEF Registers
  <1>5. \A i \in 1 .. Len(callers') :
          /\ IsChunk(callers'[i])
          /\ callers'[i].pc \in Called \cup {"root"}
          /\ callers'[i].pc = "root" <=> i = Len(callers')
    BY <1>1, <1>2, <1>3 DEF Registers
  <1>6. IsBuffer(rest)' /\ bytes' \in Seq(Byte) /\ Len(bytes') < Wrap
    BY DEF Registers, Return
  <1>7. IsStack'
    BY <1>3 DEF IsStack
  <1> QED BY <1>2, <1>3, <1>4, <1>5, <1>6, <1>7 DEF Registers

-----------------------------------------------------------------------------
LEMMA FailedBuffer == IsBuffer(Failed) /\ ~Failed.data
  BY BinaryAssumption DEF Failed, IsBuffer, Size

LEMMA RestBuffer ==
  ASSUME NEW at \in Size, NEW room \in Size
  PROVE  /\ IsBuffer(Rest(at, room))
         /\ Rest(at, room).data /\ Rest(at, room).at = at /\ Rest(at, room).room = room
  BY DEF Rest, IsBuffer

LEMMA CurrentChunk ==
  ASSUME Registers
  PROVE  /\ cur.at \in Nat /\ cur.room \in Nat /\ cur.width \in Nat /\ cur.size \in Nat
         /\ cur.pos \in Nat /\ cur.start \in Nat /\ cur.keySize \in Nat
         /\ rest.at \in Nat /\ rest.room \in Nat /\ Len(bytes) \in Nat
         /\ DataOf(cur) \in Size /\ StartSize \in Size /\ CurPos \in Size
  <1>1. IsChunk(cur) /\ IsBuffer(rest)
    BY DEF Registers
  <1>2. /\ cur.at \in Nat /\ cur.room \in Nat /\ cur.width \in Nat /\ cur.size \in Nat
        /\ cur.pos \in Nat /\ cur.start \in Nat /\ cur.keySize \in Nat
    BY <1>1, ChunkFields, BinaryAssumption DEF Size
  <1>3. rest.at \in Nat /\ rest.room \in Nat
    BY <1>1, BinaryAssumption DEF IsBuffer, Size
  <1>4. Len(bytes) \in Nat
    BY DEF Registers
  <1>5. DataOf(cur) \in Size /\ StartSize \in Size
    BY <1>2, Arithmetic DEF DataOf, StartSize
  <1>6. Minus(Minus(cur.start, rest.room), cur.keySize) \in Int
    <2>1. Minus(cur.start, rest.room) \in Size
      BY <1>2, <1>3, Arithmetic
    <2>2. Minus(cur.start, rest.room) \in Int
      BY <2>1, BinaryAssumption DEF Size
    <2>3. Minus(Minus(cur.start, rest.room), cur.keySize) \in Size
      BY <1>2, <2>2, Arithmetic
    <2> QED BY <2>3, BinaryAssumption DEF Size
  <1>7. CurPos \in Size
    BY <1>2, <1>6, Arithmetic DEF CurPos
  <1> QED BY <1>2, <1>3, <1>4, <1>5, <1>7

LEMMA CurrentSets ==
  ASSUME Registers
  PROVE  /\ \E E : cur \in Chunks(E)
         /\ cur.pc = "elementRead" => Fills(cur, "Array")
         /\ cur.pc \in {"pairs", "keyRead", "valueRead"} => Fills(cur, "Map")
         /\ cur.pc = "elements" => Fills(cur, "Array")
  BY DEF Registers, IsChunk

LEMMA ReturnRestKeeps ==
  ASSUME Registers, cur.pc # "root", NEW amount \in Int, NEW expr,
         ReturnRest(amount, expr), bytes' = bytes, sound' \in BOOLEAN
  PROVE  /\ Registers'
         /\ rest' = Rest(Plus(cur.at, amount), Minus(cur.room, amount))
  <1>1. Plus(cur.at, amount) \in Size /\ Minus(cur.room, amount) \in Size
    BY CurrentChunk, Arithmetic
  <1>2. IsBuffer(Rest(Plus(cur.at, amount), Minus(cur.room, amount)))
    BY <1>1, RestBuffer
  <1> QED BY <1>2, ReturnKeeps DEF ReturnRest, Return

LEMMA UndefinedKeeps ==
  ASSUME Registers, cur.pc # "root", Undefined, bytes' = bytes, sound' \in BOOLEAN
  PROVE  Registers'
  <1> DEFINE c == [cur EXCEPT !.pc = "undefined"]
  <1>1. IsChunk(c) /\ c.pc = "undefined"
    BY CurrentSets DEF Chunks, IsChunk, Points
  <1>2. Go(c)
    BY DEF Undefined
  <1> HIDE DEF c
  <1> QED BY <1>1, <1>2, GoKeeps

LEMMA StepKeepsRegisters ==
  ASSUME Registers, ReadStep
  PROVE  Registers'
  <1> USE CurrentChunk, FailedBuffer
  <1>0. sound' \in BOOLEAN
    BY DEF Registers, ReadStep, ChunkTooSmall, ReadHeader, SizeByte, SizeUnended, TypeOutside,
           ReadNull, ReadValue, ReadBinary, UnknownCompression, UnknownType, OpenArray, OpenMap,
           Element, Key, NextChunk, ChildFailed, ElementRead, KeyRead, ValueRead,
           CloseContainer, BinaryFinish, Sound, Same, Within
  <1>1. CASE ChunkTooSmall
    BY <1>0, <1>1, ReturnKeeps DEF ChunkTooSmall, Fail
  <1>2. CASE ReadHeader
    <2> DEFINE c == [cur EXCEPT !.pc = "size"]
    <2>1. IsChunk(c) /\ c.pc = "size"
      BY CurrentSets DEF Chunks, IsChunk, Points, Heads
    <2>2. Go(c) /\ cur.pc # "root" /\ bytes' = bytes
      BY <1>2 DEF ReadHeader, Same
    <2> HIDE DEF c
    <2> QED BY <1>0, <2>1, <2>2, GoKeeps
  <1>3. CASE SizeByte
    <2> DEFINE byte == ByteAt(Plus(cur.at, cur.width))
               size == ((cur.size * Radix) + (byte % Radix)) % Wrap
               width == Plus(cur.width, 1)
               pc == IF byte < Radix THEN "type" ELSE "size"
               c == [cur EXCEPT !.size = size, !.width = width, !.pc = pc]
    <2>1. Plus(cur.at, cur.width) \in Size /\ width \in Size
      BY Arithmetic
    <2>2. byte \in Byte
      BY <1>3, <2>1 DEF SizeByte, Held, ByteAt, Registers, Size
    <2>3. byte % Radix \in Int /\ cur.size * Radix \in Int
      BY <2>2, BinaryAssumption DEF Byte
    <2>4. size \in Size
      BY <2>3, WrapsToSize
    <2>5. Go(c) /\ cur.pc # "root" /\ bytes' = bytes /\ cur.pc = "size"
      BY <1>3 DEF SizeByte, Same
    <2>6. pc \in {"size", "type"}
      OBVIOUS
    <2> HIDE DEF size, width, pc
    <2>7. IsChunk(c) /\ c.pc # "root"
      BY <2>1, <2>4, <2>6, CurrentSets DEF Chunks, IsChunk, Points, Heads
    <2> HIDE DEF c
    <2> QED BY <1>0, <2>5, <2>7, GoKeeps
  <1>4. CASE SizeUnended
    BY <1>0, <1>4, UndefinedKeeps DEF SizeUnended
  <1>5. CASE TypeOutside
    BY <1>0, <1>5, UndefinedKeeps DEF TypeOutside
  <1>6. CASE ReadNull
    BY <1>0, <1>6, ReturnRestKeeps DEF ReadNull, TypeHeld
  <1>7. CASE ReadValue
    <2>1. cur.pc # "root" /\ bytes' = bytes
      BY <1>7 DEF ReadValue, TypeHeld
    <2>2. Undefined \/ \E e : ReturnRest(cur.width + 1 + cur.size, e)
      BY <1>7 DEF ReadValue
    <2> QED BY <1>0, <2>1, <2>2, UndefinedKeeps, ReturnRestKeeps
  <1>8. CASE ReadBinary
    <2>1. cur.pc # "root" /\ bytes' = bytes
      BY <1>8 DEF ReadBinary, TypeHeld
    <2>2. Undefined \/ \E e : ReturnRest(cur.width + 1 + cur.size, e)
      BY <1>8 DEF ReadBinary
    <2> QED BY <1>0, <2>1, <2>2, UndefinedKeeps, ReturnRestKeeps
  <1>9. CASE UnknownCompression
    BY <1>0, <1>9, ReturnKeeps DEF UnknownCompression, Fail, TypeHeld
  <1>10. CASE UnknownType
    BY <1>0, <1>10, ReturnKeeps DEF UnknownType, Fail, TypeHeld
  <1>11. CASE OpenArray
    <2> DEFINE c == [cur EXCEPT !.pc = "elements", !.expr = Array(<<>>)]
    <2>1. IsChunk(c) /\ c.pc = "elements"
      <3>1. PICK E : cur \in Chunks(E)
        BY CurrentSets
      <3>2. Array(<<>>).type = "Array" /\ "type" \in DOMAIN Array(<<>>)
        BY DEF Array
      <3>3. c \in Chunks(E \cup {Array(<<>>)}) /\ c.pc = "elements" /\ c.expr = Array(<<>>)
        BY <3>1 DEF Chunks, Points, Loop
      <3> QED BY <3>2, <3>3 DEF IsChunk, Fills
    <2>2. Go(c) /\ cur.pc # "root" /\ bytes' = bytes
      BY <1>11 DEF OpenArray, TypeHeld
    <2> HIDE DEF c
    <2> QED BY <1>0, <2>1, <2>2, GoKeeps
  <1>12. CASE OpenMap
    <2> DEFINE c == [cur EXCEPT !.pc = "pairs", !.expr = Map(<<>>)]
    <2>1. IsChunk(c) /\ c.pc = "pairs"
      <3>1. PICK E : cur \in Chunks(E)
        BY CurrentSets
      <3>2. Map(<<>>).type = "Map" /\ "type" \in DOMAIN Map(<<>>)
        BY DEF Map
      <3>3. c \in Chunks(E \cup {Map(<<>>)}) /\ c.pc = "pairs" /\ c.expr = Map(<<>>)
        BY <3>1 DEF Chunks, Points, Loop
      <3> QED BY <3>2, <3>3 DEF IsChunk, Fills
    <2>2. Go(c) /\ cur.pc # "root" /\ bytes' = bytes
      BY <1>12 DEF OpenMap, TypeHeld
    <2> HIDE DEF c
    <2> QED BY <1>0, <2>1, <2>2, GoKeeps
  <1>13. CASE Element \/ Key
    <2> PICK loop \in {"elements", "pairs"}, after \in {"elementRead", "keyRead"} :
           /\ loop = "elements" <=> after = "elementRead"
           /\ NextChunk(loop, after)
      BY <1>13 DEF Element, Key
    <2> DEFINE c == [cur EXCEPT !.pc = after, !.start = StartSize, !.keySize = 0]
    <2>1. cur.pc = loop /\ Call(c, Plus(DataOf(cur), cur.pos), StartSize) /\ bytes' = bytes
      BY DEF NextChunk, Same
    <2>2. IsChunk(c) /\ c.pc \in Called
      <3>1. PICK E : cur \in Chunks(E)
        BY CurrentSets
      <3>2. 0 \in Size
        BY BinaryAssumption DEF Size
      <3>3. c \in Chunks(E) /\ c.pc = after /\ c.expr = cur.expr
        BY <3>1, <3>2 DEF Chunks, Points, Called
      <3> HIDE DEF c
      <3>4. cur.pc = "elements" => Fills(cur, "Array")
        BY CurrentSets
      <3>5. cur.pc = "pairs" => Fills(cur, "Map")
        BY CurrentSets
      <3> QED BY <2>1, <3>3, <3>4, <3>5 DEF IsChunk, Fills, Called
    <2>3. Plus(DataOf(cur), cur.pos) \in Size
      <3>1. DataOf(cur) \in Int /\ cur.pos \in Int
        BY BinaryAssumption DEF Size
      <3> QED BY <3>1, Arithmetic
    <2> HIDE DEF c
    <2> QED BY <1>0, <2>1, <2>2, <2>3, CallKeeps
  <1>14. CASE ChildFailed
    BY <1>0, <1>14, ReturnKeeps DEF ChildFailed, Same
  <1>15. CASE ElementRead
    <2> DEFINE c == [cur EXCEPT !.pc = "elements", !.pos = CurPos, !.expr.list = Append(@, read)]
    <2>1. Go(c) /\ cur.pc = "elementRead" /\ bytes' = bytes
      BY <1>15 DEF ElementRead, Same
    <2>2. IsChunk(c) /\ c.pc = "elements"
      <3>1. PICK E : cur \in Chunks(E)
        BY CurrentSets
      <3> DEFINE filled == [cur.expr EXCEPT !.list = Append(@, read)]
      <3>2. filled.type = "Array" /\ "type" \in DOMAIN filled
        BY <2>1, CurrentSets DEF Fills
      <3>3. c = [cur EXCEPT !.pc = "elements", !.pos = CurPos, !.expr = filled]
        OBVIOUS
      <3> HIDE DEF c, filled
      <3>4. c \in Chunks(E \cup {filled}) /\ c.pc = "elements" /\ c.expr = filled
        BY <3>1, <3>3 DEF Chunks, Points, Loop
      <3> QED BY <3>2, <3>4 DEF IsChunk, Fills
    <2> HIDE DEF c
    <2> QED BY <1>0, <2>1, <2>2, GoKeeps
  <1>16. CASE KeyRead
    <2> DEFINE keySize == Minus(cur.start, rest.room)
               c == [cur EXCEPT !.pc = "valueRead", !.pos = CurPos, !.keySize = keySize, !.key = read]
    <2>1. Call(c, rest.at, rest.room) /\ cur.pc = "keyRead" /\ bytes' = bytes
      BY <1>16 DEF KeyRead
    <2>2. keySize \in Size
      BY Arithmetic
    <2> HIDE DEF keySize
    <2>3. IsChunk(c) /\ c.pc \in Called
      <3>1. PICK E : cur \in Chunks(E)
        BY CurrentSets
      <3>2. c \in Chunks(E \cup {read}) /\ c.pc = "valueRead" /\ c.expr = cur.expr
        BY <2>2, <3>1 DEF Chunks, Points, Called
      <3> HIDE DEF c
      <3> QED BY <2>1, <3>2, CurrentSets DEF IsChunk, Fills, Called
    <2>4. rest.at \in Size /\ rest.room \in Size
      BY DEF Registers, IsBuffer
    <2> HIDE DEF c
    <2> QED BY <1>0, <2>1, <2>3, <2>4, CallKeeps
  <1>17. CASE ValueRead
    <2>1. cur.pc = "valueRead" /\ bytes' = bytes
      BY <1>17 DEF ValueRead, Same
    <2>2. CASE Undefined
      BY <1>0, <2>1, <2>2, UndefinedKeeps
    <2> DEFINE pos == CurPos
               hash == Put(cur.expr.hash, cur.key.data, read)
               c == [cur EXCEPT !.pc = "pairs", !.pos = pos, !.expr.hash = hash]
    <2>3. CASE Go(c)
      <3>1. pos \in Size
        OBVIOUS
      <3>2. IsChunk(c) /\ c.pc = "pairs"
        <4>1. PICK E : cur \in Chunks(E)
          BY CurrentSets
        <4> DEFINE filled == [cur.expr EXCEPT !.hash = hash]
        <4>2. filled.type = "Map" /\ "type" \in DOMAIN filled
          BY <2>1, CurrentSets DEF Fills
        <4>3. c = [cur EXCEPT !.pc = "pairs", !.pos = pos, !.expr = filled]
          OBVIOUS
        <4> HIDE DEF c, filled, pos
        <4>4. c \in Chunks(E \cup {filled}) /\ c.pc = "pairs" /\ c.expr = filled
          BY <3>1, <4>1, <4>3 DEF Chunks, Points, Loop
        <4> QED BY <4>2, <4>4 DEF IsChunk, Fills
      <3> HIDE DEF c
      <3> QED BY <1>0, <2>1, <2>3, <3>2, GoKeeps
    <2> QED BY <1>17, <2>2, <2>3 DEF ValueRead
  <1>18. CASE CloseContainer
    BY <1>0, <1>18, ReturnRestKeeps DEF CloseContainer, Same
  <1>19. CASE BinaryFinish
    BY <1>0, <1>19 DEF BinaryFinish, Registers, IsStack
  <1> QED BY <1>1, <1>2, <1>3, <1>4, <1>5, <1>6, <1>7, <1>8, <1>9, <1>10, <1>11, <1>12,
             <1>13, <1>14, <1>15, <1>16, <1>17, <1>18, <1>19 DEF ReadStep

-----------------------------------------------------------------------------
(* How a reading starts, of the documents of BinarySpec and of what         *)
(* TripSpec wrote.                                                          *)
Starts ==
  /\ bytes \in Seq(Byte) /\ Len(bytes) < Wrap
  /\ cur = Chunk(0, Len(bytes)) /\ callers = <<Root>>
  /\ rest = Failed /\ read = Invalid
  /\ error = "None" /\ sound = TRUE /\ result = Reading

LEMMA BinaryStarts == BinaryInit => Starts
  BY BinaryAssumption DEF BinaryInit, Starts

LEMMA RegistersAtFirst == Starts => Registers
  <1> SUFFICES ASSUME Starts PROVE Registers
    OBVIOUS
  <1>1. bytes \in Seq(Byte) /\ Len(bytes) < Wrap /\ Len(bytes) \in Size
    BY BinaryAssumption DEF Size, Starts
  <1>2. 0 \in Size
    BY BinaryAssumption DEF Size
  <1>3. IsChunk(cur) /\ cur.pc = "chunk"
    BY <1>1, <1>2, NewChunk DEF Starts
  <1>4. callers = <<Root>> /\ callers \in Seq({Root})
    BY DEF Starts
  <1>5. Len(callers) = 1 /\ \A i \in 1 .. Len(callers) : i = 1 /\ callers[i] = Root
    BY <1>4
  <1>6. IsStack
    BY <1>4 DEF IsStack
  <1>7. \A i \in 1 .. Len(callers) :
          /\ IsChunk(callers[i])
          /\ callers[i].pc \in Called \cup {"root"}
          /\ callers[i].pc = "root" <=> i = Len(callers)
    BY <1>5, RootChunk
  <1>8. IsBuffer(rest) /\ sound \in BOOLEAN
    BY FailedBuffer DEF Starts
  <1> QED BY <1>1, <1>3, <1>5, <1>6, <1>7, <1>8 DEF Registers

(* Each register of the reader stays within its width, whatever the sizes   *)
(* of the document say, and the C stack has its entry at the bottom.        *)
THEOREM RegistersKeepTheirWidth == BinarySpec => []Registers
  <1>1. Registers /\ [ReadStep]_binaryVars => Registers'
    <2>1. ASSUME Registers, UNCHANGED binaryVars PROVE Registers'
      BY <2>1 DEF Registers, binaryVars, IsStack
    <2> QED BY <2>1, StepKeepsRegisters
  <1> QED BY <1>1, BinaryStarts, RegistersAtFirst, PTL DEF BinarySpec

-----------------------------------------------------------------------------
LEMMA StepKeepsError ==
  ASSUME Registers, ErrorIsOnItsWay, ReadStep
  PROVE  ErrorIsOnItsWay'
  <1>1. error = "None" \/ (cur.pc \in Called \cup {"root"} /\ ~rest.data)
    BY FailedBuffer DEF ErrorIsOnItsWay
  <1>2. CASE ChunkTooSmall \/ UnknownCompression \/ UnknownType
    <2>1. PICK code \in {"BinaryChunkNotBigEnough", "BinaryUnknownCompression"} : Fail(code)
      BY <1>2 DEF ChunkTooSmall, UnknownCompression, UnknownType
    <2>2. Return(Failed, cur.expr) /\ bytes' = bytes /\ sound' \in BOOLEAN /\ cur.pc # "root"
      BY <1>2, <2>1 DEF Fail, ChunkTooSmall, UnknownCompression, UnknownType, TypeHeld, Registers
    <2>3. cur'.pc \in Called \cup {"root"} /\ rest' = Failed
      BY <2>2, ReturnKeeps, FailedBuffer DEF Return
    <2> QED BY <2>1, <2>3 DEF Fail, ErrorIsOnItsWay
  <1>3. CASE ChildFailed
    <2>1. Return(Failed, cur.expr) /\ bytes' = bytes /\ sound' \in BOOLEAN /\ cur.pc # "root"
      BY <1>3 DEF ChildFailed, Same, Registers, Called
    <2>2. cur'.pc \in Called \cup {"root"} /\ rest' = Failed /\ error' = error
      BY <1>3, <2>1, ReturnKeeps, FailedBuffer DEF Return, ChildFailed, Same
    <2>3. error # "None"
      BY <1>3 DEF ErrorIsOnItsWay, ChildFailed, Called
    <2> QED BY <2>2, <2>3 DEF ErrorIsOnItsWay
  <1>4. CASE BinaryFinish
    BY <1>4 DEF BinaryFinish, ErrorIsOnItsWay, Called
  <1>5. CASE \E amount \in Int : \E e : ReturnRest(amount, e) /\ error' = error /\ cur.pc \in Heads \cup Loop
    <2>1. error = "None" /\ rest'.data
      BY <1>1, <1>5 DEF ReturnRest, Return, Rest, Called, Heads, Loop
    <2> QED BY <1>5, <2>1 DEF ErrorIsOnItsWay
  <1>6. CASE error' = error /\ error = "None" /\ cur'.pc \notin Called
    BY <1>6 DEF ErrorIsOnItsWay
  <1>7. CASE ReadHeader \/ SizeByte \/ SizeUnended \/ TypeOutside \/ OpenArray \/ OpenMap
    <2>1. error' = error /\ cur.pc \in Heads
      BY <1>7 DEF ReadHeader, SizeByte, SizeUnended, TypeOutside, OpenArray, OpenMap, TypeHeld,
                  Same, Heads
    <2>2. error = "None"
      BY <1>1, <2>1 DEF Called, Heads
    <2>3. cur'.pc \notin Called
      <3>1. PICK E : cur \in Chunks(E)
        BY CurrentSets
      <3> QED BY <1>7, <3>1 DEF Chunks, ReadHeader, SizeByte, SizeUnended, TypeOutside, OpenArray,
                   OpenMap, Same, Go, Undefined, Called, Points
    <2> QED BY <1>6, <2>1, <2>2, <2>3
  <1>8. CASE Element \/ Key \/ KeyRead
    <2>1. error' = error /\ cur'.pc = "chunk"
      BY <1>8 DEF Element, Key, KeyRead, NextChunk, Call, Chunk, Activation, Same
    <2>2. error = "None"
      BY <1>1, <1>8 DEF Element, Key, KeyRead, NextChunk, Called
    <2> QED BY <1>6, <2>1, <2>2 DEF Called
  <1>9. CASE ElementRead \/ ValueRead
    <2>1. error' = error /\ error = "None"
      BY <1>1, <1>9 DEF ElementRead, ValueRead, Same, Called
    <2>2. cur'.pc \notin Called
      <3>1. PICK E : cur \in Chunks(E)
        BY CurrentSets
      <3>2. CASE ElementRead
        BY <3>1, <3>2 DEF Chunks, ElementRead, Go, Called
      <3>3. CASE Undefined
        BY <3>1, <3>3 DEF Chunks, Undefined, Go, Called
      <3>4. CASE Go([cur EXCEPT !.pc = "pairs", !.pos = CurPos,
                                !.expr.hash = Put(@, cur.key.data, read)])
        BY <3>1, <3>4 DEF Chunks, Go, Called
      <3> QED BY <1>9, <3>2, <3>3, <3>4 DEF ValueRead
    <2> QED BY <1>6, <2>1, <2>2
  <1>10. CASE ReadNull \/ CloseContainer
    <2>1. cur.width + 1 \in Int /\ cur.width + 1 + cur.pos \in Int
      BY CurrentChunk
    <2>2. error' = error /\ cur.pc \in Heads \cup Loop
      BY <1>10 DEF ReadNull, CloseContainer, TypeHeld, Same, Heads, Loop
    <2> QED BY <1>5, <1>10, <2>1, <2>2 DEF ReadNull, CloseContainer
  <1>11. CASE ReadValue \/ ReadBinary
    <2>1. error' = error /\ cur.pc \in Heads
      BY <1>11 DEF ReadValue, ReadBinary, TypeHeld, Heads
    <2>2. error = "None"
      BY <1>1, <2>1 DEF Called, Heads
    <2>3. CASE Undefined
      <3>1. PICK E : cur \in Chunks(E)
        BY CurrentSets
      <3>2. cur'.pc \notin Called
        BY <2>3, <3>1 DEF Chunks, Undefined, Go, Called, Points
      <3> QED BY <1>6, <2>1, <2>2, <3>2
    <2>4. CASE \E amount \in Int : \E e : ReturnRest(amount, e)
      BY <1>5, <2>1, <2>4
    <2>5. cur.width + 1 + cur.size \in Int
      BY CurrentChunk
    <2> QED BY <1>11, <2>3, <2>4, <2>5 DEF ReadValue, ReadBinary
  <1> QED BY <1>2, <1>3, <1>4, <1>7, <1>8, <1>9, <1>10, <1>11 DEF ReadStep

LEMMA ErrorAtFirst == Starts => ErrorIsOnItsWay
  BY DEF Starts, ErrorIsOnItsWay, Chunk, Activation, Called

LEMMA ErrorStaysOnItsWay ==
  Registers /\ ErrorIsOnItsWay /\ [ReadStep]_binaryVars => ErrorIsOnItsWay'
  <1>1. ASSUME ErrorIsOnItsWay, UNCHANGED binaryVars PROVE ErrorIsOnItsWay'
    BY <1>1 DEF ErrorIsOnItsWay, binaryVars
  <1> QED BY <1>1, StepKeepsError

(* After an error, at any depth and wherever it came from, every activation *)
(* of the recursion returns what it has and reads nothing more.             *)
THEOREM ErrorsUnwind == BinarySpec => OnlyReturnsAfterError
  <1> DEFINE Unwinds ==
        error # "None" =>
          /\ error' = error
          /\ IF cur.pc = "root"
             THEN UNCHANGED <<cur, callers, rest, read>>
             ELSE rest' = Failed /\ read' = cur.expr /\ callers' = Tail(callers)
  <1>1. ErrorIsOnItsWay /\ [ReadStep]_binaryVars => [Unwinds]_binaryVars
    <2> SUFFICES ASSUME ErrorIsOnItsWay, ReadStep, error # "None" PROVE Unwinds
      OBVIOUS
    <2>1. cur.pc \in Called \cup {"root"} /\ ~rest.data
      BY FailedBuffer DEF ErrorIsOnItsWay
    <2>2. ChildFailed \/ BinaryFinish
      BY <2>1 DEF ReadStep, ChunkTooSmall, ReadHeader, SizeByte, SizeUnended, TypeOutside,
           TypeHeld, ReadNull, ReadValue, ReadBinary, UnknownCompression, UnknownType, OpenArray,
           OpenMap, Element, Key, NextChunk, ElementRead, KeyRead, ValueRead, CloseContainer, Called
    <2>3. CASE ChildFailed
      BY <2>3 DEF ChildFailed, Return, Same, Called
    <2>4. CASE BinaryFinish
      BY <2>4 DEF BinaryFinish
    <2> QED BY <2>2, <2>3, <2>4
  <1> QED BY <1>1, BinaryStarts, ErrorAtFirst, ErrorStaysOnItsWay, RegistersKeepTheirWidth, PTL
       DEF BinarySpec, OnlyReturnsAfterError

-----------------------------------------------------------------------------
(* Sizes of a sound document: what is within the bytes handed in does not   *)
(* wrap.                                                                    *)
LEMMA InBytes ==
  ASSUME Registers, NEW a \in Nat, a <= Len(bytes)
  PROVE  a \in Size
  BY CurrentChunk, BinaryAssumption DEF Registers, Size

(* A loop or a header goes on.                                              *)
LEMMA GoKeepsSound ==
  ASSUME Registers, SoundSoFar, sound, cur.pc # "root", bytes' = bytes,
         NEW c, Go(c), c.at = cur.at, c.room = cur.room,
         c.pc \in Heads \cup Loop, HeadOK(c)
  PROVE  SoundSoFar'
  <1>1. cur' = c /\ callers' = callers
    BY DEF Go
  <1>2. c.pc \notin Called \cup {"root", "undefined", "valueRead", "elementRead", "keyRead"}
    BY DEF Heads, Loop, Called
  <1>3. Inside(cur)'
    BY <1>1 DEF SoundSoFar, Inside
  <1>4. HeadOK(cur)'
    BY <1>1 DEF HeadOK, Opened
  <1>5. Returned' /\ KeyOK(cur)'
    BY <1>1, <1>2 DEF Returned, KeyOK
  <1>6. Len(callers') > 1 => Under(callers[1], cur)'
    BY <1>1 DEF SoundSoFar, Under, Opened, Start
  <1>7. \A i \in 1 .. Len(callers') - 1 : (Inside(callers[i]) /\ KeyOK(callers[i]))'
    BY <1>1 DEF SoundSoFar, Inside, KeyOK
  <1>8. \A i \in 1 .. Len(callers') - 2 : Under(callers[i + 1], callers[i])'
    BY <1>1 DEF SoundSoFar, Under, Opened, Start
  <1> QED BY <1>1, <1>2, <1>3, <1>4, <1>5, <1>6, <1>7, <1>8 DEF SoundSoFar

(* A chunk in the rest of a container.                                      *)
LEMMA CallKeepsSound ==
  ASSUME Registers, SoundSoFar, sound, cur.pc # "root", bytes' = bytes,
         NEW c, IsChunk(c), c.at = cur.at, c.room = cur.room, KeyOK(c),
         NEW at \in Size, NEW room \in Size, Call(c, at, room), Under(c, Chunk(at, room))
  PROVE  SoundSoFar'
  <1> DEFINE chunk == Chunk(at, room)
  <1>1. PICK S : callers \in Seq(S)
    BY DEF Registers, IsStack
  <1>2. /\ cur' = chunk /\ Len(callers') = Len(callers) + 1 /\ callers'[1] = c
        /\ \A i \in 1 .. Len(callers) : callers'[i + 1] = callers[i]
    BY <1>1 DEF Call
  <1>3. chunk.pc = "chunk" /\ chunk.width = 0 /\ chunk.pos = 0 /\ chunk.at = at /\ chunk.room = room
    BY NewChunk
  <1>4. Len(callers) \in Nat /\ at \in Nat /\ room \in Nat
    BY <1>1, BinaryAssumption DEF Size
  <1>5. /\ c.at \in Nat /\ c.room \in Nat /\ c.width \in Nat /\ c.size \in Nat
        /\ cur.at \in Nat /\ cur.room \in Nat /\ Len(bytes) \in Nat
    BY ChunkFields, CurrentChunk, BinaryAssumption DEF Size
  <1> HIDE DEF chunk
  <1>6. Under(c, chunk)
    BY DEF chunk
  <1>7. Inside(cur)'
    <2>1. chunk.at + chunk.room = Start(c) + c.size /\ c.width + 1 + c.size <= c.room
      BY <1>6 DEF Under, Opened
    <2>2. at + room <= c.at + c.room
      BY <2>1, <1>3, <1>4, <1>5 DEF Start
    <2>3. c.at + c.room <= Len(bytes)
      BY DEF SoundSoFar, Inside
    <2> QED BY <1>2, <1>3, <1>4, <1>5, <2>2, <2>3 DEF Inside
  <1>8. HeadOK(cur)' /\ KeyOK(cur)' /\ Returned'
    BY <1>2, <1>3, <1>4 DEF HeadOK, KeyOK, Returned, Called, Loop
  <1>9. Under(callers[1], cur)'
    BY <1>2, <1>6 DEF Under, Opened, Start
  <1>10. \A i \in 1 .. Len(callers') - 1 : (Inside(callers[i]) /\ KeyOK(callers[i]))'
    <2> TAKE i \in 1 .. Len(callers') - 1
    <2>1. CASE i = 1
      BY <2>1, <1>2 DEF SoundSoFar, Inside, KeyOK
    <2>2. CASE i # 1
      <3>1. i - 1 \in 1 .. Len(callers) - 1 /\ callers'[i] = callers[i - 1]
        BY <2>2, <1>2, <1>4
      <3>2. Inside(callers[i - 1]) /\ KeyOK(callers[i - 1])
        BY <3>1 DEF SoundSoFar
      <3> QED BY <3>1, <3>2 DEF Inside, KeyOK
    <2> QED BY <2>1, <2>2
  <1>11. \A i \in 1 .. Len(callers') - 2 : Under(callers[i + 1], callers[i])'
    <2> TAKE i \in 1 .. Len(callers') - 2
    <2>1. CASE i = 1
      <3>1. Len(callers) > 1 /\ callers'[2] = callers[1] /\ callers'[1] = c
        BY <2>1, <1>2, <1>4
      <3>2. Under(callers[1], cur)
        BY <3>1 DEF SoundSoFar
      <3> QED BY <2>1, <3>1, <3>2 DEF Under, Opened, Start
    <2>2. CASE i # 1
      <3>1. /\ i - 1 \in 1 .. Len(callers) - 2
            /\ callers'[i] = callers[i - 1] /\ callers'[i + 1] = callers[i]
        BY <2>2, <1>2, <1>4
      <3>2. Under(callers[i], callers[i - 1])
        BY <3>1 DEF SoundSoFar
      <3> QED BY <3>1, <3>2 DEF Under, Opened, Start
    <2> QED BY <2>1, <2>2
  <1>12. cur'.pc = "chunk"
    BY <1>2, <1>3
  <1> QED BY <1>7, <1>8, <1>9, <1>10, <1>11, <1>12 DEF SoundSoFar

(* A call comes back, with the rest of its buffer or with none.             *)
LEMMA ReturnKeepsSound ==
  ASSUME Registers, SoundSoFar, sound, cur.pc # "root", bytes' = bytes, sound' \in BOOLEAN,
         NEW expr, NEW buffer, IsBuffer(buffer), Return(buffer, expr),
         buffer.data => /\ buffer.at + buffer.room = cur.at + cur.room
                        /\ buffer.room <= cur.room
  PROVE  SoundSoFar'
  <1>1. PICK S : callers \in Seq(S)
    BY DEF Registers, IsStack
  <1>2. /\ cur' = callers[1] /\ cur'.pc \in Called \cup {"root"}
        /\ cur'.pc = "root" <=> Len(callers) = 1
        /\ Len(callers) > 0 /\ Len(callers') = Len(callers) - 1 /\ Len(callers) \in Nat
        /\ \A i \in 1 .. Len(callers') : callers'[i] = callers[i + 1]
    BY <1>1, ReturnKeeps
  <1>3. rest' = buffer
    BY DEF Return
  <1>4. IsChunk(callers[1])
    BY <1>2 DEF Registers
  <1>5. \A i \in 1 .. Len(callers') - 1 : (Inside(callers[i]) /\ KeyOK(callers[i]))'
    <2> TAKE i \in 1 .. Len(callers') - 1
    <2>1. i + 1 \in 1 .. Len(callers) - 1 /\ callers'[i] = callers[i + 1]
      BY <1>2
    <2>2. Inside(callers[i + 1]) /\ KeyOK(callers[i + 1])
      BY <2>1 DEF SoundSoFar
    <2> QED BY <2>1, <2>2 DEF Inside, KeyOK
  <1>6. \A i \in 1 .. Len(callers') - 2 : Under(callers[i + 1], callers[i])'
    <2> TAKE i \in 1 .. Len(callers') - 2
    <2>1. /\ i + 1 \in 1 .. Len(callers) - 2
          /\ callers'[i] = callers[i + 1] /\ callers'[i + 1] = callers[i + 2]
      BY <1>2
    <2>2. Under(callers[(i + 1) + 1], callers[i + 1])
      BY <2>1 DEF SoundSoFar
    <2>3. Under(callers[i + 2], callers[i + 1])
      BY <2>2
    <2> QED BY <2>1, <2>3 DEF Under, Opened, Start
  <1>7. CASE cur'.pc = "root"
    BY <1>2, <1>5, <1>6, <1>7 DEF SoundSoFar
  <1>8. CASE cur'.pc # "root"
    <2>1. Len(callers) > 1 /\ 1 \in 1 .. Len(callers) - 1
      BY <1>2, <1>8
    <2>2. Under(callers[1], cur) /\ Inside(callers[1]) /\ KeyOK(callers[1])
      BY <2>1 DEF SoundSoFar
    <2>3. Inside(cur)' /\ KeyOK(cur)'
      BY <1>2, <2>2 DEF Inside, KeyOK
    <2>4. HeadOK(cur)' /\ cur'.pc # "undefined"
      BY <1>2, <1>8 DEF HeadOK, Called, Loop
    <2>5. Len(callers') > 1 => Under(callers[1], cur)'
      <3> SUFFICES ASSUME Len(callers') > 1 PROVE Under(callers[1], cur)'
        OBVIOUS
      <3>1. 1 \in 1 .. Len(callers) - 2 /\ callers'[1] = callers[2]
        BY <1>2
      <3>2. Under(callers[1 + 1], callers[1])
        BY <3>1 DEF SoundSoFar
      <3> QED BY <1>2, <3>1, <3>2 DEF Under, Opened, Start
    <2>6. Returned'
      <3> SUFFICES ASSUME buffer.data
                   PROVE  /\ Opened(callers[1]) /\ callers[1].keySize <= callers[1].start
                          /\ callers[1].pos + (callers[1].start - callers[1].keySize)
                               = callers[1].size
                          /\ buffer.room <= callers[1].start - callers[1].keySize
                          /\ buffer.at + buffer.room = Start(callers[1]) + callers[1].size
        BY <1>2, <1>3 DEF Returned, Opened, Start
      <3> QED BY <2>2 DEF Under
    <2> QED BY <2>3, <2>4, <2>5, <2>6, <1>5, <1>6 DEF SoundSoFar
  <1> QED BY <1>7, <1>8

LEMMA ReturnRestKeepsSound ==
  ASSUME Registers, SoundSoFar, sound, cur.pc # "root", bytes' = bytes, sound' \in BOOLEAN,
         NEW amount \in Nat, amount <= cur.room, NEW expr, ReturnRest(amount, expr)
  PROVE  SoundSoFar'
  <1>1. cur.at + cur.room <= Len(bytes)
    BY DEF SoundSoFar, Inside
  <1>2. cur.at + amount \in Size /\ cur.room - amount \in Size
    BY <1>1, CurrentChunk, InBytes
  <1>3. Plus(cur.at, amount) = cur.at + amount /\ Minus(cur.room, amount) = cur.room - amount
    BY <1>2, CurrentChunk, Arithmetic
  <1> DEFINE buffer == Rest(Plus(cur.at, amount), Minus(cur.room, amount))
  <1>4. /\ IsBuffer(buffer) /\ buffer.at = cur.at + amount
        /\ buffer.room = cur.room - amount
    BY <1>2, <1>3, RestBuffer
  <1>5. Return(buffer, expr)
    BY DEF ReturnRest
  <1> HIDE DEF buffer
  <1>6. buffer.at + buffer.room = cur.at + cur.room /\ buffer.room <= cur.room
    BY <1>4, CurrentChunk
  <1> QED BY <1>4, <1>5, <1>6, ReturnKeepsSound

(* What the pointers of a sound chunk are.                                  *)
LEMMA SoundPointers ==
  ASSUME Registers, SoundSoFar, sound, cur.pc # "root",
         NEW n \in Nat, cur.width + n <= cur.room
  PROVE  /\ Plus(cur.at, cur.width) = cur.at + cur.width
         /\ n > 0 => Held(Plus(cur.at, cur.width))
         /\ n > 0 => DataOf(cur) = cur.at + cur.width + 1
         /\ cur.at + cur.width + n <= Len(bytes)
  <1>1. cur.at + cur.room <= Len(bytes)
    BY DEF SoundSoFar, Inside
  <1>2. cur.at + cur.width + n <= Len(bytes)
    BY <1>1, CurrentChunk
  <1>3. cur.at + cur.width \in Size
    BY <1>2, CurrentChunk, InBytes
  <1>4. Plus(cur.at, cur.width) = cur.at + cur.width
    BY <1>3, CurrentChunk, Arithmetic
  <1>5. n > 0 => DataOf(cur) = cur.at + cur.width + 1
    <2> SUFFICES ASSUME n > 0 PROVE DataOf(cur) = cur.at + cur.width + 1
      OBVIOUS
    <2>1. cur.at + (cur.width + 1) \in Size
      BY <1>2, CurrentChunk, InBytes
    <2>2. Plus(cur.at, cur.width + 1) = cur.at + (cur.width + 1)
      BY <2>1, CurrentChunk, Arithmetic
    <2> QED BY <2>2, CurrentChunk DEF DataOf
  <1> QED BY <1>2, <1>4, <1>5, CurrentChunk DEF Held

(* Sums of sizes: at, width and room of a chunk, its size z and its pos p,  *)
(* what was left of it t, the key k in it and what is left now r.           *)
LEMMA SumsInside ==
  ASSUME NEW at \in Nat, NEW w \in Nat, NEW p \in Nat, NEW z \in Nat, NEW n \in Nat,
         p <= z, at + w + (1 + z) <= n
  PROVE  /\ z - p \in Nat /\ z - p <= n
         /\ at + w + 1 + p \in Nat /\ at + w + 1 + p <= n
  OBVIOUS

LEMMA SumsOfRest ==
  ASSUME NEW s \in Nat, NEW p \in Nat, NEW z \in Nat, p <= z
  PROVE  /\ s + p + (z - p) = s + z /\ p + (z - p) = z
         /\ z - p = (z - p) - 0 /\ 0 <= z - p
  OBVIOUS

LEMMA SumsOfKey ==
  ASSUME NEW s \in Nat, NEW p \in Nat, NEW t \in Nat, NEW z \in Nat, NEW a \in Nat,
         NEW r \in Nat, p + t = z, r <= t, a + r = s + z
  PROVE  a = s + (p + (t - r)) /\ r = t - (t - r) /\ t - r <= t /\ p + (t - r) <= z
  OBVIOUS

LEMMA SumsOfValue ==
  ASSUME NEW p \in Nat, NEW t \in Nat, NEW k \in Nat, NEW z \in Nat, NEW r \in Nat,
         p + (t - k) = z, k <= t, r <= t - k
  PROVE  /\ 0 <= t - r /\ t - r <= t /\ 0 <= (t - r) - k /\ (t - r) - k <= t
         /\ 0 <= p + ((t - r) - k) /\ p + ((t - r) - k) <= z
  OBVIOUS

LEMMA SizesBelow ==
  ASSUME NEW a \in Size, NEW b \in Int, 0 <= b, b <= a
  PROVE  b \in Size
  BY BinaryAssumption DEF Size

LEMMA StepKeepsSound ==
  ASSUME Registers, ErrorIsOnItsWay, SoundSoFar, ReadStep, sound'
  PROVE  SoundSoFar'
  <1> USE CurrentChunk
  <1>0. sound /\ sound' \in BOOLEAN
    BY DEF Registers, ReadStep, ChunkTooSmall, ReadHeader, SizeByte, SizeUnended, TypeOutside,
           ReadNull, ReadValue, ReadBinary, UnknownCompression, UnknownType, OpenArray, OpenMap,
           Element, Key, NextChunk, ChildFailed, ElementRead, KeyRead, ValueRead,
           CloseContainer, BinaryFinish, Sound, Same, Within
  <1>a. PICK E : cur \in Chunks(E)
    BY CurrentSets
  <1>s. /\ cur.at \in Nat /\ cur.room \in Nat /\ cur.width \in Nat /\ cur.size \in Nat
        /\ cur.pos \in Nat /\ Len(bytes) \in Nat
    BY ChunkFields, BinaryAssumption DEF Registers, Size
  <1>b. cur.pc # "root" => HeadOK(cur) /\ Returned /\ KeyOK(cur)
    BY <1>0 DEF SoundSoFar
  <1>1. CASE ChunkTooSmall \/ UnknownCompression \/ UnknownType \/ ChildFailed
    <2>1. Return(Failed, cur.expr) /\ bytes' = bytes /\ cur.pc # "root"
      BY <1>1 DEF ChunkTooSmall, UnknownCompression, UnknownType, ChildFailed, Fail, TypeHeld,
                  Called, Same
    <2> QED BY <1>0, <2>1, FailedBuffer, ReturnKeepsSound
  <1>2. CASE ReadHeader
    <2> DEFINE c == [cur EXCEPT !.pc = "size"]
    <2>1. /\ c.pc = "size" /\ c.at = cur.at /\ c.room = cur.room
          /\ c.width = cur.width /\ c.pos = cur.pos
      BY <1>a DEF Chunks
    <2>2. Go(c) /\ cur.pc = "chunk" /\ bytes' = bytes
      BY <1>2 DEF ReadHeader, Same
    <2> HIDE DEF c
    <2>3. HeadOK(c)
      BY <1>b, <2>1, <2>2 DEF HeadOK, Loop
    <2> QED BY <1>0, <2>1, <2>2, <2>3, GoKeepsSound DEF Heads
  <1>3. CASE SizeByte
    <2> DEFINE byte == ByteAt(Plus(cur.at, cur.width))
               size == ((cur.size * Radix) + (byte % Radix)) % Wrap
               width == Plus(cur.width, 1)
               pc == IF byte < Radix THEN "type" ELSE "size"
               c == [cur EXCEPT !.size = size, !.width = width, !.pc = pc]
    <2>1. Go(c) /\ cur.pc = "size" /\ bytes' = bytes /\ cur.width # cur.room
      BY <1>3 DEF SizeByte, Same
    <2>2. pc \in {"size", "type"}
      OBVIOUS
    <2> HIDE DEF size, width, pc
    <2>3. /\ c.pc = pc /\ c.at = cur.at /\ c.room = cur.room
          /\ c.width = width /\ c.pos = cur.pos
      BY <1>a DEF Chunks
    <2> HIDE DEF c
    <2>4. cur.width + 1 <= cur.room /\ cur.pos = 0
      BY <1>b, <2>1 DEF HeadOK
    <2>5. cur.width + 1 \in Size
      BY <2>4, BinaryAssumption, ChunkFields DEF Registers, Size
    <2>6. width = cur.width + 1
      BY <2>5, Arithmetic DEF width
    <2>7. HeadOK(c)
      BY <2>2, <2>3, <2>4, <2>6 DEF HeadOK, Loop
    <2> QED BY <1>0, <2>1, <2>2, <2>3, <2>7, GoKeepsSound DEF Heads
  <1>4. CASE SizeUnended
    <2>1. cur.pc = "size" /\ cur.width # cur.room /\ ~Held(Plus(cur.at, cur.width))
      BY <1>4 DEF SizeUnended
    <2>2. cur.width + 1 <= cur.room
      BY <1>b, <2>1 DEF HeadOK
    <2> QED BY <1>0, <2>1, <2>2, SoundPointers
  <1>5. CASE TypeOutside
    <2>1. cur.pc = "type" /\ ~Held(Plus(cur.at, cur.width)) /\ cur.width + 1 <= cur.room
      BY <1>5 DEF TypeOutside, TypeHeld, Within
    <2> QED BY <1>0, <2>1, SoundPointers
  <1>6. CASE ReadNull
    <2>1. ReturnRest(cur.width + 1, Null) /\ cur.width + 1 <= cur.room /\ bytes' = bytes
      BY <1>6 DEF ReadNull, Within
    <2>2. cur.pc # "root"
      BY <1>6 DEF ReadNull, TypeHeld
    <2> QED BY <1>0, <2>1, <2>2, ReturnRestKeepsSound
  <1>7. CASE ReadValue
    <2>1. cur.pc # "root" /\ bytes' = bytes /\ cur.width + 1 + cur.size <= cur.room
      BY <1>7 DEF ReadValue, TypeHeld, Sound, Within
    <2>2. /\ DataOf(cur) = cur.at + cur.width + 1
          /\ cur.at + cur.width + (1 + cur.size) <= Len(bytes)
      BY <1>0, <2>1, SoundPointers
    <2>3. HeldFrom(DataOf(cur), cur.size)
      BY <2>2 DEF HeldFrom
    <2>4. \E e : ReturnRest(cur.width + 1 + cur.size, e)
      BY <1>7, <2>3 DEF ReadValue
    <2> QED BY <1>0, <2>1, <2>4, ReturnRestKeepsSound
  <1>8. CASE ReadBinary
    <2>1. /\ cur.pc # "root" /\ bytes' = bytes /\ cur.width + 1 + cur.size <= cur.room
          /\ cur.size > 0
      BY <1>8 DEF ReadBinary, TypeHeld, Sound, Within
    <2>2. /\ DataOf(cur) = cur.at + cur.width + 1
          /\ cur.at + cur.width + (1 + cur.size) <= Len(bytes)
      BY <1>0, <2>1, SoundPointers
    <2>3. Held(DataOf(cur)) /\ DataOf(cur) + 1 \in Size
      BY <2>1, <2>2, InBytes DEF Held
    <2>4. cur.size - 1 \in Size
      BY <2>1, <2>2, InBytes
    <2>5. Plus(DataOf(cur), 1) = DataOf(cur) + 1 /\ Minus(cur.size, 1) = cur.size - 1
      BY <2>2, <2>3, <2>4, Arithmetic
    <2>6. HeldFrom(Plus(DataOf(cur), 1), Minus(cur.size, 1))
      BY <2>2, <2>5 DEF HeldFrom
    <2>7. \E e : ReturnRest(cur.width + 1 + cur.size, e)
      BY <1>8, <2>3, <2>6 DEF ReadBinary
    <2> QED BY <1>0, <2>1, <2>7, ReturnRestKeepsSound
  <1>9. CASE OpenArray \/ OpenMap
    <2>z. PICK pc \in Loop : \E expr : Go([cur EXCEPT !.pc = pc, !.expr = expr])
      BY <1>9 DEF OpenArray, OpenMap, Loop
    <2>y. PICK expr : Go([cur EXCEPT !.pc = pc, !.expr = expr])
      BY <2>z
    <2> DEFINE c == [cur EXCEPT !.pc = pc, !.expr = expr]
    <2>1. /\ c.pc = pc /\ c.at = cur.at /\ c.room = cur.room
          /\ c.width = cur.width /\ c.pos = cur.pos /\ c.size = cur.size
      BY <1>a DEF Chunks
    <2>2. /\ Go(c) /\ cur.pc = "type" /\ bytes' = bytes
          /\ cur.width + 1 + cur.size <= cur.room
      BY <1>9, <2>y DEF OpenArray, OpenMap, TypeHeld, Sound, Within
    <2> HIDE DEF c
    <2>3. HeadOK(c)
      BY <1>b, <2>1, <2>2 DEF HeadOK, Opened, Loop
    <2> QED BY <1>0, <2>1, <2>2, <2>3, GoKeepsSound
  <1>10. CASE Element \/ Key
    <2> PICK after \in {"elementRead", "keyRead"} :
           /\ cur.pc \in Loop /\ cur.pos < cur.size /\ bytes' = bytes
           /\ Call([cur EXCEPT !.pc = after, !.start = StartSize, !.keySize = 0],
                   Plus(DataOf(cur), cur.pos), StartSize)
           /\ after = "elementRead" <=> cur.pc = "elements"
      BY <1>10 DEF Element, Key, NextChunk, Same, Loop
    <2> DEFINE c == [cur EXCEPT !.pc = after, !.start = StartSize, !.keySize = 0]
               at == Plus(DataOf(cur), cur.pos)
    <2>1. Opened(cur) /\ cur.pc # "root"
      BY <1>b DEF HeadOK, Loop
    <2>n. /\ cur.at \in Nat /\ cur.room \in Nat /\ cur.width \in Nat /\ cur.size \in Nat
          /\ cur.pos \in Nat /\ Len(bytes) \in Nat
      BY <1>s
    <2>o. cur.width + 1 + cur.size <= cur.room /\ cur.pos <= cur.size
      BY <2>1 DEF Opened
    <2>2. /\ DataOf(cur) = cur.at + cur.width + 1
          /\ cur.at + cur.width + (1 + cur.size) <= Len(bytes)
      <3>1. 1 + cur.size \in Nat /\ 1 + cur.size > 0 /\ cur.width + (1 + cur.size) <= cur.room
        BY <2>n, <2>o
      <3> QED BY <1>0, <2>1, <3>1, SoundPointers
    <2>3. cur.size - cur.pos \in Size /\ DataOf(cur) + cur.pos \in Size
      <3>1. /\ cur.size - cur.pos \in Nat /\ cur.size - cur.pos <= Len(bytes)
            /\ cur.at + cur.width + 1 + cur.pos \in Nat
            /\ cur.at + cur.width + 1 + cur.pos <= Len(bytes)
        BY <2>n, <2>o, <2>2, SumsInside
      <3> QED BY <2>2, <3>1, InBytes
    <2>4. StartSize = cur.size - cur.pos /\ at = cur.at + cur.width + 1 + cur.pos
      <3>1. cur.size \in Int /\ cur.pos \in Int /\ DataOf(cur) \in Int
        BY <2>n, <2>2
      <3>2. Minus(cur.size, cur.pos) = cur.size - cur.pos
        BY <2>3, <3>1, Arithmetic
      <3>3. Plus(DataOf(cur), cur.pos) = DataOf(cur) + cur.pos
        BY <2>3, <3>1, Arithmetic
      <3> QED BY <2>2, <3>2, <3>3 DEF StartSize
    <2>5. IsChunk(c)
      <3>1. 0 \in Size
        BY BinaryAssumption DEF Size
      <3>2. c \in Chunks(E) /\ c.pc = after /\ c.expr = cur.expr
        BY <1>a, <3>1 DEF Chunks, Points, Called
      <3> HIDE DEF c
      <3> QED BY <3>2, CurrentSets DEF IsChunk, Fills, Loop
    <2>6. /\ c.pc = after /\ c.at = cur.at /\ c.room = cur.room /\ c.width = cur.width
          /\ c.size = cur.size /\ c.pos = cur.pos /\ c.start = StartSize /\ c.keySize = 0
      BY <1>a DEF Chunks
    <2> HIDE DEF c
    <2>7. at \in Size /\ StartSize \in Size
      BY <2>2, <2>3, <2>4
    <2> HIDE DEF at
    <2>8. Under(c, Chunk(at, StartSize))
      <3> DEFINE a == Chunk(at, StartSize)
      <3>1. a.at = cur.at + cur.width + 1 + cur.pos /\ a.room = cur.size - cur.pos
        BY <2>4, <2>7, NewChunk DEF at
      <3>2. Opened(c) /\ c.keySize = 0 /\ c.start = cur.size - cur.pos
            /\ Start(c) = cur.at + cur.width + 1 /\ c.size = cur.size /\ c.pos = cur.pos
        BY <2>1, <2>4, <2>6 DEF Opened, Start
      <3> HIDE DEF a
      <3>3. Start(c) \in Nat
        BY <3>2, <2>n
      <3>4. /\ Start(c) + c.pos + (cur.size - cur.pos) = Start(c) + c.size
            /\ c.pos + (cur.size - cur.pos) = c.size
            /\ c.start - c.keySize = cur.size - cur.pos /\ c.keySize <= c.start
        BY <3>2, <3>3, <2>n, <2>o, SumsOfRest
      <3>5. a.at = Start(c) + c.pos
        BY <3>1, <3>2
      <3>6. Under(c, a)
        BY <3>1, <3>2, <3>4, <3>5 DEF Under
      <3> QED BY <3>6 DEF a
    <2>9. KeyOK(c) /\ Call(c, at, StartSize)
      BY <2>6 DEF KeyOK, c, at
    <2> QED BY <1>0, <2>1, <2>5, <2>6, <2>7, <2>8, <2>9, CallKeepsSound
  <1>11. CASE KeyRead
    <2> DEFINE keySize == Minus(cur.start, rest.room)
               c == [cur EXCEPT !.pc = "valueRead", !.pos = CurPos, !.keySize = keySize, !.key = read]
    <2>1. /\ Call(c, rest.at, rest.room) /\ cur.pc = "keyRead" /\ bytes' = bytes
          /\ rest.data /\ read.type = "Value"
      BY <1>11 DEF KeyRead
    <2>3. /\ rest.at \in Size /\ rest.room \in Size /\ cur.start \in Size
          /\ cur.size \in Size /\ cur.pos \in Size
      BY ChunkFields DEF Registers, IsBuffer
    <2>n. /\ rest.at \in Nat /\ rest.room \in Nat /\ cur.start \in Nat /\ cur.at \in Nat
          /\ cur.width \in Nat /\ cur.size \in Nat /\ cur.pos \in Nat
      BY <1>s, <2>3, BinaryAssumption DEF Size
    <2>2. /\ Opened(cur) /\ cur.keySize = 0 /\ cur.pos + cur.start = cur.size
          /\ rest.room <= cur.start /\ rest.at + rest.room = Start(cur) + cur.size
      <3>1. /\ Opened(cur) /\ cur.keySize = 0
            /\ cur.pos + (cur.start - cur.keySize) = cur.size
            /\ rest.room <= cur.start - cur.keySize
            /\ rest.at + rest.room = Start(cur) + cur.size
        BY <1>b, <2>1 DEF Returned, KeyOK, Called
      <3>2. cur.start - cur.keySize = cur.start
        BY <3>1, <2>n
      <3> QED BY <3>1, <3>2
    <2>4. cur.start - rest.room \in Size
      BY <2>2, <2>3, BinaryAssumption DEF Size
    <2>5. keySize = cur.start - rest.room
      BY <2>4, <2>n, Arithmetic
    <2>6. CurPos = cur.pos + (cur.start - rest.room)
      <3>1. Minus(cur.start - rest.room, 0) = cur.start - rest.room
        BY <2>4, <2>n, Arithmetic
      <3>2. cur.pos + (cur.start - rest.room) \in Size
        BY <2>2, <2>3, BinaryAssumption DEF Size
      <3>3. Plus(cur.pos, cur.start - rest.room) = cur.pos + (cur.start - rest.room)
        BY <3>2, <2>n, Arithmetic
      <3> QED BY <2>2, <2>5, <3>1, <3>3 DEF CurPos
    <2>7. keySize \in Size
      BY <2>4, <2>5
    <2> HIDE DEF keySize
    <2>8. IsChunk(c)
      <3>1. c \in Chunks(E \cup {read}) /\ c.pc = "valueRead" /\ c.expr = cur.expr
        BY <1>a, <2>7 DEF Chunks, Points, Called
      <3> HIDE DEF c
      <3> QED BY <2>1, <3>1, CurrentSets DEF IsChunk, Fills
    <2>9. /\ c.pc = "valueRead" /\ c.at = cur.at /\ c.room = cur.room /\ c.width = cur.width
          /\ c.size = cur.size /\ c.pos = CurPos /\ c.start = cur.start
          /\ c.keySize = keySize /\ c.key = read
      BY <1>a DEF Chunks
    <2> HIDE DEF c
    <2>10. KeyOK(c)
      BY <2>1, <2>9 DEF KeyOK
    <2>11. Under(c, Chunk(rest.at, rest.room))
      <3>1. Chunk(rest.at, rest.room).at = rest.at /\ Chunk(rest.at, rest.room).room = rest.room
        BY <2>3, NewChunk
      <3>2. /\ c.size = cur.size /\ c.width = cur.width /\ c.room = cur.room
            /\ Start(c) = Start(cur) /\ Start(cur) \in Nat
            /\ c.keySize = cur.start - rest.room /\ c.start = cur.start
            /\ c.pos = cur.pos + (cur.start - rest.room)
        BY <2>5, <2>6, <2>9, <2>n DEF Start
      <3>3. cur.width + 1 + cur.size <= cur.room /\ cur.pos <= cur.size
        BY <2>2 DEF Opened
      <3>4. Opened(c)
        BY <3>2, <3>3, <2>2, <2>n DEF Opened
      <3> HIDE DEF Start
      <3>5. rest.at = Start(c) + c.pos /\ rest.room = c.start - c.keySize
        <4>1. PICK s \in Nat : s = Start(cur)
          BY <3>2
        <4>2. rest.at + rest.room = s + cur.size
          BY <2>2, <4>1
        <4>3. cur.pos + cur.start = cur.size /\ rest.room <= cur.start
          BY <2>2
        <4>4. cur.start - (cur.start - rest.room) = rest.room
          BY <2>n
        <4>5. PICK a \in Nat, r \in Nat, p \in Nat, t \in Nat :
                 a = rest.at /\ r = rest.room /\ p = cur.pos /\ t = cur.start
          BY <2>n
        <4>6. a + r = s + (p + t)
          BY <4>2, <4>3, <4>5
        <4>7. a = s + (p + (t - r))
          BY <4>6
        <4>8. rest.at = s + (cur.pos + (cur.start - rest.room))
          BY <4>5, <4>7
        <4> QED BY <3>2, <4>1, <4>4, <4>8
      <3>6. c.keySize <= c.start
        BY <2>2, <3>2, <2>n, SumsOfKey
      <3> QED BY <2>2, <3>1, <3>2, <3>4, <3>5, <3>6 DEF Under
    <2> QED BY <1>0, <2>1, <2>3, <2>8, <2>9, <2>10, <2>11, CallKeepsSound
  <1>12. CASE ElementRead \/ ValueRead
    <2>1. /\ cur.pc \in {"elementRead", "valueRead"} /\ rest.data /\ bytes' = bytes
          /\ cur.pc = "elementRead" <=> ElementRead
      BY <1>12 DEF ElementRead, ValueRead, Same
    <2>n. /\ rest.room \in Nat /\ cur.start \in Nat /\ cur.keySize \in Nat /\ cur.at \in Nat
          /\ cur.width \in Nat /\ cur.size \in Nat /\ cur.pos \in Nat
      <3>1. rest.room \in Size /\ cur.start \in Size /\ cur.keySize \in Size /\ cur.pos \in Size
        BY ChunkFields DEF Registers, IsBuffer
      <3> QED BY <1>s, <3>1, BinaryAssumption DEF Size
    <2>2. /\ Opened(cur) /\ cur.keySize <= cur.start
          /\ cur.pos + (cur.start - cur.keySize) = cur.size
          /\ rest.room <= cur.start - cur.keySize
      BY <1>b, <2>1 DEF Returned, Called
    <2>3. CurPos <= cur.size
      <3>1. /\ rest.room \in Size /\ cur.start \in Size /\ cur.keySize \in Size
            /\ cur.size \in Size /\ cur.pos \in Size
        BY ChunkFields DEF Registers, IsBuffer
      <3>2. /\ cur.start - rest.room \in Size
            /\ (cur.start - rest.room) - cur.keySize \in Size
            /\ cur.pos + ((cur.start - rest.room) - cur.keySize) \in Size
        <4>1. /\ 0 <= cur.start - rest.room /\ cur.start - rest.room <= cur.start
              /\ 0 <= (cur.start - rest.room) - cur.keySize
              /\ (cur.start - rest.room) - cur.keySize <= cur.start
              /\ 0 <= cur.pos + ((cur.start - rest.room) - cur.keySize)
              /\ cur.pos + ((cur.start - rest.room) - cur.keySize) <= cur.size
          BY <2>2, <2>n, SumsOfValue
        <4>2. /\ cur.start - rest.room \in Int
              /\ (cur.start - rest.room) - cur.keySize \in Int
              /\ cur.pos + ((cur.start - rest.room) - cur.keySize) \in Int
          BY <2>n
        <4> QED BY <3>1, <4>1, <4>2, SizesBelow
      <3>3. Minus(cur.start, rest.room) = cur.start - rest.room
        BY <3>2, <2>n, Arithmetic
      <3>4. Minus(cur.start - rest.room, cur.keySize) = (cur.start - rest.room) - cur.keySize
        BY <3>2, <2>n, Arithmetic
      <3>5. Plus(cur.pos, (cur.start - rest.room) - cur.keySize)
              = cur.pos + ((cur.start - rest.room) - cur.keySize)
        BY <3>2, <2>n, Arithmetic
      <3> QED BY <2>2, <2>n, <3>3, <3>4, <3>5 DEF CurPos
    <2>4. PICK pc \in Loop : \E expr : Go([cur EXCEPT !.pc = pc, !.pos = CurPos, !.expr = expr])
      <3>1. CASE ElementRead
        BY <3>1 DEF ElementRead, Loop
      <3>2. CASE ValueRead
        <4>1. cur.key.type = "Value"
          BY <1>b, <2>1, <3>2 DEF KeyOK, ValueRead
        <4> QED BY <3>2, <4>1 DEF ValueRead, Loop
      <3> QED BY <1>12, <3>1, <3>2
    <2>8. PICK expr : Go([cur EXCEPT !.pc = pc, !.pos = CurPos, !.expr = expr])
      BY <2>4
    <2> DEFINE c == [cur EXCEPT !.pc = pc, !.pos = CurPos, !.expr = expr]
    <2>5. /\ c.pc = pc /\ c.at = cur.at /\ c.room = cur.room
          /\ c.width = cur.width /\ c.pos = CurPos /\ c.size = cur.size
      BY <1>a DEF Chunks
    <2>6. Go(c)
      BY <2>8
    <2> HIDE DEF c
    <2>7. HeadOK(c)
      BY <2>2, <2>3, <2>5 DEF HeadOK, Opened, Loop
    <2> QED BY <1>0, <2>1, <2>5, <2>6, <2>7, GoKeepsSound
  <1>13. CASE CloseContainer
    <2>1. /\ ReturnRest(cur.width + 1 + cur.pos, cur.expr) /\ cur.pc \in Loop /\ bytes' = bytes
          /\ cur.pos >= cur.size
      BY <1>13 DEF CloseContainer, Same, Loop
    <2>2. Opened(cur) /\ cur.pc # "root"
      BY <1>b, <2>1 DEF HeadOK, Loop
    <2>3. cur.width + 1 + cur.pos \in Nat /\ cur.width + 1 + cur.pos <= cur.room
      BY <2>1, <2>2 DEF Opened
    <2> QED BY <1>0, <2>1, <2>2, <2>3, ReturnRestKeepsSound
  <1>14. CASE BinaryFinish
    BY <1>0, <1>14 DEF BinaryFinish, SoundSoFar, Inside, HeadOK, Returned, KeyOK, Under, Opened, Start
  <1> QED BY <1>1, <1>2, <1>3, <1>4, <1>5, <1>6, <1>7, <1>8, <1>9, <1>10, <1>11, <1>12,
             <1>13, <1>14 DEF ReadStep

LEMMA SoundnessIsKept ==
  Registers /\ ErrorIsOnItsWay /\ SoundSoFar /\ [ReadStep]_binaryVars => SoundSoFar'
  <1>1. ASSUME Registers, ErrorIsOnItsWay, SoundSoFar, ReadStep PROVE SoundSoFar'
    <2>1. CASE sound'
      BY <1>1, <2>1, StepKeepsSound
    <2>2. CASE ~sound'
      BY <2>2 DEF SoundSoFar
    <2> QED BY <2>1, <2>2
  <1>2. ASSUME SoundSoFar, UNCHANGED binaryVars PROVE SoundSoFar'
    BY <1>2 DEF SoundSoFar, binaryVars, Inside, HeadOK, Returned, KeyOK, Under, Opened, Start
  <1> QED BY <1>1, <1>2

LEMMA SoundnessAtFirst == Starts => SoundSoFar
  <1> SUFFICES ASSUME Starts PROVE SoundSoFar
    OBVIOUS
  <1>1. /\ bytes \in Seq(Byte) /\ Len(bytes) < Wrap /\ Len(bytes) \in Nat
        /\ cur = Chunk(0, Len(bytes)) /\ callers = <<Root>>
    BY DEF Starts
  <1>2. 0 \in Size /\ Len(bytes) \in Size
    BY <1>1, BinaryAssumption DEF Size
  <1>3. /\ cur.pc = "chunk" /\ cur.at = 0 /\ cur.room = Len(bytes)
        /\ cur.pos = 0 /\ cur.width = 0
    BY <1>1, <1>2, NewChunk
  <1>4. Len(callers) = 1
    BY <1>1
  <1> QED BY <1>1, <1>3, <1>4 DEF SoundSoFar, Inside, HeadOK, Returned, KeyOK, Called, Loop

(* Registers keep their width, the stack its shape, and what an activation  *)
(* fills its type.                                                          *)
THEOREM BinaryTypes == BinarySpec => []BinaryTypeOK
  <1>1. ASSUME NEW c, IsChunk(c) PROVE BuffersOK(c)
    <2>1. \A field \in {"at", "room", "width", "size", "pos", "start", "keySize"} :
            c[field] \in Size
      BY <1>1, ChunkFields
    <2> QED BY <1>1, <2>1 DEF IsChunk, Fills, BuffersOK
  <1>2. Registers /\ ErrorIsOnItsWay => BinaryTypeOK
    <2> SUFFICES ASSUME Registers, ErrorIsOnItsWay PROVE BinaryTypeOK
      OBVIOUS
    <2>1. /\ cur.pc \in Heads \cup Loop \cup Called \cup {"root", "undefined"}
          /\ BuffersOK(cur)
      BY <1>1, ChunkFields DEF Registers, Points
    <2>2. PICK S : callers \in Seq(S)
      BY DEF Registers, IsStack
    <2>3. \A i \in DOMAIN callers :
            /\ BuffersOK(callers[i])
            /\ callers[i].pc \in Called \/ (callers[i].pc = "root" /\ i = Len(callers))
      <3>1. DOMAIN callers = 1 .. Len(callers)
        BY <2>2
      <3> QED BY <1>1, <3>1 DEF Registers
    <2> QED BY <2>1, <2>3 DEF BinaryTypeOK, ErrorIsOnItsWay
  <1> QED BY <1>2, BinaryStarts, ErrorAtFirst, ErrorStaysOnItsWay, RegistersKeepTheirWidth, PTL DEF BinarySpec

(* The sizes in a document may say anything: as long as each chunk so far   *)
(* was within the buffer of its container and each key a value, the reader  *)
(* stays in the bytes it was handed, for every document.                    *)
THEOREM SoundChunksStayInBuffer == BinarySpec => []StaysInBuffer
  <1>1. SoundSoFar => StaysInBuffer
    BY DEF SoundSoFar, StaysInBuffer
  <1> QED BY <1>1, BinaryStarts, ErrorAtFirst, ErrorStaysOnItsWay, SoundnessAtFirst, SoundnessIsKept,
             RegistersKeepTheirWidth, PTL
       DEF BinarySpec

(* Arrays and maps that hold only such chunks end at the byte their size    *)
(* says.                                                                    *)
THEOREM SoundContainersEnd == BinarySpec => ContainersEndWhereTheySay
  <1> DEFINE Ends == CloseContainer /\ sound => cur.pos = cur.size
  <1>1. Registers /\ SoundSoFar => Ends
    <2> SUFFICES ASSUME Registers, SoundSoFar, CloseContainer, sound PROVE cur.pos = cur.size
      OBVIOUS
    <2>1. cur.pos >= cur.size /\ cur.pc \in Loop
      BY DEF CloseContainer, Loop
    <2>2. cur.pos <= cur.size
      BY <2>1 DEF SoundSoFar, HeadOK, Opened, Loop
    <2>3. cur.pos \in Nat /\ cur.size \in Nat
      BY CurrentChunk, BinaryAssumption DEF Size
    <2> QED BY <2>1, <2>2, <2>3
  <1>2. Registers /\ SoundSoFar /\ [ReadStep]_binaryVars => [Ends]_binaryVars
    BY <1>1
  <1> QED BY <1>2, BinaryStarts, ErrorAtFirst, ErrorStaysOnItsWay, SoundnessAtFirst, SoundnessIsKept,
             RegistersKeepTheirWidth, PTL
       DEF BinarySpec, ContainersEndWhereTheySay

-----------------------------------------------------------------------------
(* Induction here is by the least counterexample: a set of numbers that is  *)
(* not empty has a least one.                                               *)
LEMMA LeastOf ==
  ASSUME NEW S \in SUBSET Nat, S # {}
  PROVE  \E n \in S : \A m \in S : n <= m
<1> DEFINE R == OpToRel(<, Nat)
<1>1. IsWellFoundedOn(R, Nat)
  BY NatLessThanWellFounded
<1> HIDE DEF R
<1>2. \E x \in S : \A y \in S : ~(<<y, x>> \in R)
  BY <1>1, WFMin
<1>3. \A x, y \in Nat : x < y => <<x, y>> \in R
  BY DEF OpToRel, R
<1>4. PICK x \in S : \A y \in S : ~(<<y, x>> \in R)
  BY <1>2
<1>5. ASSUME NEW y \in S PROVE x <= y
  <2>1. x \in Nat /\ y \in Nat /\ ~(y < x)
    BY <1>3, <1>4
  <2> QED
    BY <2>1
<1> QED
  BY <1>5

DataReads(doc, type, size, to, expr) ==
  DataRule(LAMBDA g, e : Reads(doc, g, e), doc, type, size, to, expr)

LEMMA GoalIs ==
  ASSUME NEW want, NEW self, NEW from, NEW to
  PROVE  /\ Goal(want, self, from, to).want = want /\ Goal(want, self, from, to).self = self
         /\ Goal(want, self, from, to).from = from /\ Goal(want, self, from, to).to = to
  BY DEF Goal

(* A reading is one by its rule.                                            *)
LEMMA ChunkReads ==
  ASSUME NEW doc, NEW from, NEW to, NEW expr, Reads(doc, Goal("chunk", Invalid, from, to), expr)
  PROVE  \E width, value, size :
           /\ size \in Size /\ DigitsAre(doc, from, width, value, size)
           /\ DataReads(doc, from + width, size, to, expr)
  <1> DEFINE goal == Goal("chunk", Invalid, from, to)
  <1>1. PICK D : Derivation(D, doc) /\ <<goal, expr>> \in D
    BY DEF Reads
  <1>2. \A g, e : <<g, e>> \in D => Reads(doc, g, e)
    BY <1>1 DEF Reads
  <1>3. Gives(D, doc, goal, expr)
    BY <1>1 DEF Derivation
  <1>4. goal.want = "chunk" /\ goal.from = from /\ goal.to = to
    BY GoalIs
  <1> HIDE DEF goal
  <1>5. PICK width, value, size :
           /\ size \in Size /\ DigitsAre(doc, from, width, value, size)
           /\ DataRule(LAMBDA g, e : <<g, e>> \in D, doc, from + width, size, to, expr)
    BY <1>3, <1>4 DEF Gives, Rule, ChunkRule
  <1>6. DataReads(doc, from + width, size, to, expr)
    BY <1>2, <1>5 DEF DataReads, DataRule
  <1> QED BY <1>5, <1>6

LEMMA ElementsReads ==
  ASSUME NEW doc, NEW self, NEW from, NEW to, NEW expr,
         Reads(doc, Goal("elements", self, from, to), expr), from # to
  PROVE  \E mid, e :
           /\ mid \in Nat /\ from < mid /\ mid <= to
           /\ Reads(doc, Goal("chunk", Invalid, from, mid), e)
           /\ Reads(doc, Goal("elements", [self EXCEPT !.list = Append(@, e)], mid, to), expr)
  <1> DEFINE goal == Goal("elements", self, from, to)
  <1>1. PICK D : Derivation(D, doc) /\ <<goal, expr>> \in D
    BY DEF Reads
  <1>2. \A g, e : <<g, e>> \in D => Reads(doc, g, e)
    BY <1>1 DEF Reads
  <1>3. Gives(D, doc, goal, expr)
    BY <1>1 DEF Derivation
  <1>4. goal.want = "elements" /\ goal.from = from /\ goal.to = to /\ goal.self = self
    BY GoalIs
  <1> HIDE DEF goal
  <1>5. PICK mid, e :
           /\ mid \in Nat /\ from < mid /\ mid <= to
           /\ <<Goal("chunk", Invalid, from, mid), e>> \in D
           /\ <<Goal("elements", [self EXCEPT !.list = Append(@, e)], mid, to), expr>> \in D
    BY <1>3, <1>4 DEF Gives, Rule, ElementsRule
  <1> QED BY <1>2, <1>5

LEMMA PairsReads ==
  ASSUME NEW doc, NEW self, NEW from, NEW to, NEW expr,
         Reads(doc, Goal("pairs", self, from, to), expr), from # to
  PROVE  \E mid, k, end, v :
           /\ mid \in Nat /\ from < mid /\ mid < end /\ end \in Nat /\ end <= to
           /\ Reads(doc, Goal("chunk", Invalid, from, mid), k) /\ k.type = "Value"
           /\ Reads(doc, Goal("chunk", Invalid, mid, end), v)
           /\ Reads(doc, Goal("pairs", [self EXCEPT !.hash = Put(@, k.data, v)], end, to), expr)
  <1> DEFINE goal == Goal("pairs", self, from, to)
  <1>1. PICK D : Derivation(D, doc) /\ <<goal, expr>> \in D
    BY DEF Reads
  <1>2. \A g, e : <<g, e>> \in D => Reads(doc, g, e)
    BY <1>1 DEF Reads
  <1>3. Gives(D, doc, goal, expr)
    BY <1>1 DEF Derivation
  <1>4. goal.want = "pairs" /\ goal.from = from /\ goal.to = to /\ goal.self = self
    BY GoalIs
  <1> HIDE DEF goal
  <1>5. PICK mid, k, end, v :
           /\ mid \in Nat /\ from < mid /\ mid < end /\ end \in Nat /\ end <= to
           /\ <<Goal("chunk", Invalid, from, mid), k>> \in D /\ k.type = "Value"
           /\ <<Goal("chunk", Invalid, mid, end), v>> \in D
           /\ <<Goal("pairs", [self EXCEPT !.hash = Put(@, k.data, v)], end, to), expr>> \in D
    BY <1>3, <1>4 DEF Gives, Rule, PairsRule
  <1> QED BY <1>2, <1>5

LEMMA NoMoreReads ==
  ASSUME NEW doc, NEW want \in Loop, NEW self, NEW at \in Nat, NEW expr,
         Reads(doc, Goal(want, self, at, at), expr)
  PROVE  expr = self
  <1> DEFINE goal == Goal(want, self, at, at)
  <1>1. PICK D : Derivation(D, doc) /\ <<goal, expr>> \in D
    BY DEF Reads
  <1>3. Gives(D, doc, goal, expr)
    BY <1>1 DEF Derivation
  <1>4. goal.want = want /\ goal.from = at /\ goal.to = at /\ goal.self = self
    BY GoalIs
  <1> HIDE DEF goal
  <1>5. \A mid \in Nat : ~(at < mid /\ mid <= at)
    OBVIOUS
  <1>6. \A mid \in Nat, end \in Nat : ~(at < mid /\ mid < end /\ end <= at)
    OBVIOUS
  <1>7. CASE want = "elements"
    BY <1>3, <1>4, <1>5, <1>7 DEF Gives, Rule, ElementsRule
  <1>8. CASE want = "pairs"
    BY <1>3, <1>4, <1>6, <1>8 DEF Gives, Rule, PairsRule
  <1> QED BY <1>7, <1>8 DEF Loop

-----------------------------------------------------------------------------
(* No digits stand for more than they do with more digits behind them.      *)
LEMMA DigitsGrow ==
  ASSUME NEW doc, NEW from, NEW width, NEW value, NEW size, NEW j \in 0 .. width,
         DigitsAre(doc, from, width, value, size), doc \in Seq(Byte), from \in Nat
  PROVE  value[j] <= size
  <1> DEFINE Larger == {n \in Nat : n <= width /\ value[width - n] > size}
  <1>1. /\ width \in Nat /\ width > 0 /\ from + width <= Len(doc)
        /\ \A i \in 0 .. width : value[i] \in Nat
        /\ value[width] = size
        /\ \A i \in 1 .. width : value[i] = (value[i - 1] * Radix) + (doc[from + i] % Radix)
    BY DEF DigitsAre
  <1>2. ASSUME NEW i \in 1 .. width PROVE value[i - 1] <= value[i]
    <2>1. value[i - 1] \in Nat /\ i - 1 \in 0 .. width
      BY <1>1
    <2>2. doc[from + i] \in Byte
      BY <1>1
    <2>3. doc[from + i] % Radix \in Nat
      BY <2>2, BinaryAssumption DEF Byte
    <2>4. \A a \in Nat : a <= a * Radix /\ a * Radix \in Nat
      BY BinaryAssumption
    <2>5. value[i - 1] <= value[i - 1] * Radix /\ value[i - 1] * Radix \in Nat
      BY <2>1, <2>4
    <2>6. value[i] = (value[i - 1] * Radix) + (doc[from + i] % Radix)
      BY <1>1
    <2>7. \A a, b, c \in Nat : a <= b => a <= b + c
      OBVIOUS
    <2> QED BY <2>1, <2>3, <2>5, <2>6, <2>7
  <1>3. Larger = {}
    <2> SUFFICES ASSUME Larger # {} PROVE FALSE
      OBVIOUS
    <2>1. Larger \in SUBSET Nat
      OBVIOUS
    <2>2. PICK n \in Larger : \A m \in Larger : n <= m
      BY <2>1, LeastOf
    <2>3. n \in Nat /\ n <= width /\ value[width - n] > size
      OBVIOUS
    <2>4. n # 0
      BY <1>1, <2>3
    <2>5. value[width - n] <= value[width - (n - 1)]
      <3>1. width - (n - 1) \in 1 .. width /\ (width - (n - 1)) - 1 = width - n
        BY <1>1, <2>3, <2>4
      <3> QED BY <1>2, <3>1
    <2>6. value[width - n] \in Nat /\ value[width - (n - 1)] \in Nat
      BY <1>1, <2>3, <2>4
    <2>7. size \in Nat
      BY <1>1
    <2>8. value[width - (n - 1)] > size
      <3>1. \A a, b, c \in Nat : a > c /\ a <= b => b > c
        OBVIOUS
      <3> QED BY <2>3, <2>5, <2>6, <2>7, <3>1
    <2>9. n - 1 \in Larger
      BY <1>1, <2>3, <2>4, <2>8
    <2> QED BY <2>2, <2>3, <2>9
  <1>4. width - j \in Nat /\ width - (width - j) = j /\ width - j <= width
    BY <1>1
  <1>5. ~(value[j] > size)
    BY <1>3, <1>4
  <1>6. value[j] \in Nat /\ size \in Nat
    BY <1>1
  <1> QED BY <1>5, <1>6

(* What is left for the running activation, that is to be done at to with    *)
(* expr: what it read of the document means that of the rest.                *)
Spot(to, expr) == [to |-> to, expr |-> expr]

Left(c, goal) ==
  /\ goal.to \in Nat /\ goal.to <= c.at + c.room
  /\ \/ /\ c.pc = "chunk" /\ c.width = 0 /\ c.size = 0
        /\ Reads(bytes, Goal("chunk", Invalid, c.at, goal.to), goal.expr)
     \/ /\ c.pc = "size"
        /\ \E width, value, size :
             /\ size \in Size /\ DigitsAre(bytes, c.at, width, value, size)
             /\ c.width < width /\ c.size = value[c.width]
             /\ DataReads(bytes, c.at + width, size, goal.to, goal.expr)
     \/ c.pc = "type" /\ DataReads(bytes, c.at + c.width, c.size, goal.to, goal.expr)
     \/ /\ c.pc \in Loop /\ goal.to = Start(c) + c.size
        /\ Reads(bytes, Goal(c.pc, c.expr, Start(c) + c.pos, goal.to), goal.expr)

(* An activation that is to be done with goal waits for a chunk that ends   *)
(* at part.to and means part.expr.                                          *)
Waits(c, goal, part) ==
  /\ goal.to = Start(c) + c.size
  /\ part.to \in Nat /\ part.to <= goal.to
  /\ \/ /\ c.pc = "elementRead"
        /\ Reads(bytes, Goal("elements", [c.expr EXCEPT !.list = Append(@, part.expr)], part.to, goal.to),
                 goal.expr)
     \/ /\ c.pc = "keyRead" /\ part.expr.type = "Value"
        /\ \E end, v :
             /\ part.to < end /\ end \in Nat /\ end <= goal.to
             /\ Reads(bytes, Goal("chunk", Invalid, part.to, end), v)
             /\ Reads(bytes, Goal("pairs", [c.expr EXCEPT !.hash = Put(@, part.expr.data, v)], end, goal.to),
                      goal.expr)
     \/ /\ c.pc = "valueRead"
        /\ Reads(bytes, Goal("pairs", [c.expr EXCEPT !.hash = Put(@, c.key.data, part.expr)], part.to, goal.to),
                 goal.expr)

Agrees(goal) ==
  IF cur.pc \in Called
  THEN /\ goal.to \in Nat /\ goal.to <= cur.at + cur.room /\ rest.data
       /\ Waits(cur, goal, Spot(rest.at, read))
  ELSE Left(cur, goal)

(* goals[i] is what callers[i] waits for.                                   *)
Wanted(goals, expr) ==
  /\ goals[Len(callers)].expr = expr
  /\ \A i \in 1 .. Len(callers) - 1 :
       /\ goals[i + 1].to \in Nat /\ goals[i + 1].to <= callers[i].at + callers[i].room
       /\ Waits(callers[i], goals[i + 1], goals[i])

(* A document that denotes expr is on its way to it.                        *)
OnItsWay(expr) ==
  /\ sound /\ error = "None" /\ cur.pc # "undefined"
  /\ result # Reading => result = expr
  /\ IF cur.pc = "root" THEN read = expr
     ELSE result = Reading /\ \E goals : Wanted(goals, expr) /\ Agrees(goals[1])

LEMMA SpotIs ==
  ASSUME NEW to, NEW expr
  PROVE  Spot(to, expr).to = to /\ Spot(to, expr).expr = expr
  BY DEF Spot

(* What waits stays waiting.                                                *)
LEMMA WaitsOn ==
  ASSUME NEW c, NEW goal, NEW part, bytes' = bytes
  PROVE  Waits(c, goal, part) => Waits(c, goal, part)'
  BY DEF Waits

(* Going on. *)
LEMMA GoOn ==
  ASSUME NEW expr, cur.pc # "root", cur.pc # "undefined",
         NEW goals, Wanted(goals, expr), NEW c, Go(c), c.pc \in Heads \cup Loop,
         bytes' = bytes, sound', error' = "None", result' = Reading,
         Left(c, goals[1])
  PROVE  OnItsWay(expr)'
  <1>1. cur' = c /\ callers' = callers
    BY DEF Go
  <1>2. c.pc \notin Called /\ c.pc # "root" /\ c.pc # "undefined"
    BY DEF Heads, Loop, Called
  <1>3. Wanted(goals, expr)'
    BY <1>1 DEF Wanted, Waits, Start
  <1>4. Left(c, goals[1])'
    BY DEF Left, Start
  <1>5. Agrees(goals[1])'
    BY <1>1, <1>2, <1>4 DEF Agrees, Left, Start
  <1> QED BY <1>1, <1>2, <1>3, <1>5 DEF OnItsWay

LEMMA CallOn ==
  ASSUME Registers, cur.pc # "root", NEW expr, NEW goals, Wanted(goals, expr),
         NEW c, NEW at \in Size, NEW room \in Size, Call(c, at, room),
         bytes' = bytes, sound', error' = "None", result' = Reading,
         goals[1].to \in Nat, goals[1].to <= c.at + c.room,
         NEW part, Waits(c, goals[1], part),
         part.to \in Nat, part.to <= at + room,
         Reads(bytes, Goal("chunk", Invalid, at, part.to), part.expr)
  PROVE  OnItsWay(expr)'
  <1> PICK goals2 : goals2 = [i \in 1 .. Len(callers) + 1 |-> IF i = 1 THEN part ELSE goals[i - 1]]
    OBVIOUS
  <1>1. PICK S : callers \in Seq(S)
    BY DEF Registers, IsStack
  <1>2. /\ cur' = Chunk(at, room) /\ Len(callers') = Len(callers) + 1 /\ callers'[1] = c
        /\ \A i \in 1 .. Len(callers) : callers'[i + 1] = callers[i]
    BY <1>1 DEF Call
  <1>3. Len(callers) \in Nat /\ Len(callers) > 0
    BY <1>1 DEF Registers
  <1>4. /\ Chunk(at, room).pc = "chunk" /\ Chunk(at, room).at = at /\ Chunk(at, room).room = room
        /\ Chunk(at, room).width = 0 /\ Chunk(at, room).size = 0
    BY NewChunk DEF Chunk, Activation
  <1>5. goals2[1] = part /\ \A i \in 1 .. Len(callers) : goals2[i + 1] = goals[i]
    BY <1>3
  <1>6. Agrees(goals2[1])'
    BY <1>2, <1>4, <1>5 DEF Agrees, Left, Called
  <1>7. Wanted(goals2, expr)'
    <2>1. goals2[Len(callers')] = goals[Len(callers)]
      BY <1>2, <1>3, <1>5
    <2>2. ASSUME NEW i \in 1 .. Len(callers') - 1
          PROVE  /\ goals2[i + 1].to \in Nat /\ goals2[i + 1].to <= callers'[i].at + callers'[i].room
                 /\ Waits(callers'[i], goals2[i + 1], goals2[i])
      <3>1. i \in 1 .. Len(callers) /\ goals2[i + 1] = goals[i]
        BY <1>2, <1>3, <1>5
      <3>2. CASE i = 1
        BY <1>2, <1>5, <3>1, <3>2
      <3>3. CASE i # 1
        <4>1. PICK k \in 1 .. Len(callers) - 1 : i = k + 1
          BY <3>1, <3>3, <1>3
        <4>2. goals2[i] = goals[k] /\ callers'[i] = callers[k] /\ goals2[i + 1] = goals[k + 1]
          BY <1>2, <1>3, <1>5, <3>1, <4>1
        <4> QED BY <4>1, <4>2 DEF Wanted
      <3> QED BY <3>2, <3>3
    <2>3. goals[Len(callers)].expr = expr
      BY DEF Wanted
    <2> QED BY <2>1, <2>2, <2>3 DEF Wanted, Waits, Start
  <1>8. cur'.pc = "chunk"
    BY <1>2, <1>4
  <1> QED BY <1>6, <1>7, <1>8 DEF OnItsWay

LEMMA ReturnOn ==
  ASSUME Registers, cur.pc # "root", NEW expr, NEW goals, Wanted(goals, expr),
         NEW buffer, IsBuffer(buffer), buffer.data, buffer.at = goals[1].to,
         Return(buffer, goals[1].expr),
         bytes' = bytes, sound' \in BOOLEAN, sound', error' = "None", result' = Reading
  PROVE  OnItsWay(expr)'
  <1> PICK goals2 : goals2 = [i \in 1 .. Len(callers) |-> goals[i + 1]]
    OBVIOUS
  <1>1. /\ cur' = callers[1] /\ cur'.pc \in Called \cup {"root"}
        /\ cur'.pc = "root" <=> Len(callers) = 1
        /\ Len(callers) > 0 /\ Len(callers') = Len(callers) - 1
        /\ \A i \in 1 .. Len(callers') : callers'[i] = callers[i + 1]
    BY ReturnKeeps
  <1>2. Len(callers) \in Nat
    BY DEF Registers, IsStack
  <1>3. rest' = buffer /\ read' = goals[1].expr
    BY DEF Return
  <1>4. CASE cur'.pc = "root"
    <2>1. read' = expr
      BY <1>1, <1>3, <1>4 DEF Wanted
    <2> QED BY <1>4, <2>1 DEF OnItsWay
  <1>5. CASE cur'.pc # "root"
    <2>1. Len(callers) > 1 /\ 1 \in 1 .. Len(callers) - 1 /\ cur'.pc \in Called
      BY <1>1, <1>2, <1>5
    <2>2. /\ goals[1 + 1].to \in Nat /\ goals[1 + 1].to <= callers[1].at + callers[1].room
          /\ Waits(callers[1], goals[1 + 1], goals[1])
      BY <2>1 DEF Wanted
    <2>3. goals2[1] = goals[1 + 1]
      BY <1>2, <2>1
    <2>4. Waits(callers[1], goals2[1], Spot(buffer.at, goals[1].expr))
      <3>1. /\ Spot(buffer.at, goals[1].expr).to = goals[1].to
            /\ Spot(buffer.at, goals[1].expr).expr = goals[1].expr
        BY SpotIs
      <3> QED BY <2>2, <2>3, <3>1 DEF Waits
    <2>5. Agrees(goals2[1])'
      BY <1>1, <1>3, <2>1, <2>2, <2>3, <2>4 DEF Agrees, Waits, Start
    <2>6. Wanted(goals2, expr)'
      <3>1. goals2[Len(callers')].expr = expr
        <4>1. Len(callers) - 1 \in 1 .. Len(callers) /\ (Len(callers) - 1) + 1 = Len(callers)
          BY <1>2, <2>1
        <4> QED BY <1>1, <4>1 DEF Wanted
      <3>2. ASSUME NEW i \in 1 .. Len(callers') - 1
            PROVE  /\ goals2[i + 1].to \in Nat /\ goals2[i + 1].to <= callers'[i].at + callers'[i].room
                   /\ Waits(callers'[i], goals2[i + 1], goals2[i])
        <4>1. PICK k \in 1 .. Len(callers) - 1 : k = i + 1
          BY <1>1, <1>2
        <4>2. goals2[i] = goals[k] /\ goals2[i + 1] = goals[k + 1] /\ callers'[i] = callers[k]
          BY <1>1, <1>2, <4>1
        <4> QED BY <4>1, <4>2 DEF Wanted
      <3> QED BY <3>1, <3>2 DEF Wanted, Waits, Start
    <2>7. cur'.pc # "undefined"
      BY <2>1 DEF Called
    <2> QED BY <1>5, <2>5, <2>6, <2>7 DEF OnItsWay
  <1> QED BY <1>4, <1>5

(* How far the calls of an activation have come is where the last one ended. *)
LEMMA ComesTo ==
  ASSUME Registers, Returned, cur.pc \in Called, rest.data
  PROVE  Start(cur) + CurPos = rest.at /\ Start(cur) \in Nat
  <1> DEFINE t == cur.start - rest.room
             u == t - cur.keySize
  <1>1. /\ rest.room \in Nat /\ cur.start \in Nat /\ cur.keySize \in Nat /\ cur.at \in Nat
        /\ cur.width \in Nat /\ cur.size \in Nat /\ cur.pos \in Nat /\ rest.at \in Nat
    BY CurrentChunk
  <1>2. /\ cur.keySize <= cur.start
        /\ cur.pos + (cur.start - cur.keySize) = cur.size
        /\ rest.room <= cur.start - cur.keySize
        /\ rest.at + rest.room = Start(cur) + cur.size
    BY DEF Returned
  <1>3. cur.size \in Size /\ cur.start \in Size
    BY ChunkFields DEF Registers
  <1>4. /\ 0 <= t /\ t <= cur.start /\ 0 <= u /\ u <= cur.start
        /\ 0 <= cur.pos + u /\ cur.pos + u <= cur.size
    BY <1>1, <1>2, SumsOfValue
  <1>5. t \in Int /\ u \in Int /\ cur.pos + u \in Int
    BY <1>1
  <1>6. t \in Size /\ u \in Size /\ cur.pos + u \in Size
    BY <1>3, <1>4, <1>5, SizesBelow
  <1>7. Minus(cur.start, rest.room) = t
    BY <1>1, <1>6, Arithmetic
  <1>8. Minus(t, cur.keySize) = u
    BY <1>1, <1>5, <1>6, Arithmetic
  <1>9. Plus(cur.pos, u) = cur.pos + u
    BY <1>1, <1>5, <1>6, Arithmetic
  <1>10. CurPos = cur.pos + u
    BY <1>7, <1>8, <1>9 DEF CurPos
  <1>11. Start(cur) \in Nat
    BY <1>1 DEF Start
  <1>12. \A s, p, k, z, r, a, b \in Nat :
           p + (b - k) = z /\ a + r = s + z => s + (p + ((b - r) - k)) = a
    OBVIOUS
  <1>13. Start(cur) + (cur.pos + u) = rest.at
    <2>1. PICK s, a \in Nat : s = Start(cur) /\ a = rest.at
      BY <1>1, <1>11
    <2>2. a + rest.room = s + cur.size
      BY <1>2, <2>1
    <2>3. s + (cur.pos + ((cur.start - rest.room) - cur.keySize)) = a
      BY <1>1, <1>2, <1>12, <2>2
    <2> QED BY <2>1, <2>3
  <1> QED BY <1>10, <1>11, <1>13

(* Where the chunks of a container are, as long as it is within its buffer. *)
LEMMA NextIsAt ==
  ASSUME Registers, SoundSoFar, sound, cur.pc \in Loop, cur.pos < cur.size
  PROVE  /\ Plus(DataOf(cur), cur.pos) = Start(cur) + cur.pos
         /\ StartSize = cur.size - cur.pos
         /\ Plus(DataOf(cur), cur.pos) \in Size /\ StartSize \in Size
         /\ Start(cur) \in Nat
  <1>n. /\ cur.at \in Nat /\ cur.room \in Nat /\ cur.width \in Nat /\ cur.size \in Nat
        /\ cur.pos \in Nat /\ Len(bytes) \in Nat
    BY CurrentChunk
  <1>1. Opened(cur) /\ cur.pc # "root"
    BY DEF SoundSoFar, HeadOK, Loop
  <1>o. cur.width + 1 + cur.size <= cur.room /\ cur.pos <= cur.size
    BY <1>1 DEF Opened
  <1>2. /\ DataOf(cur) = cur.at + cur.width + 1
        /\ cur.at + cur.width + (1 + cur.size) <= Len(bytes)
    <2>1. 1 + cur.size \in Nat /\ 1 + cur.size > 0 /\ cur.width + (1 + cur.size) <= cur.room
      BY <1>n, <1>o
    <2> QED BY <1>1, <2>1, SoundPointers
  <1>3. cur.size - cur.pos \in Size /\ DataOf(cur) + cur.pos \in Size
    <2>1. /\ cur.size - cur.pos \in Nat /\ cur.size - cur.pos <= Len(bytes)
          /\ cur.at + cur.width + 1 + cur.pos \in Nat
          /\ cur.at + cur.width + 1 + cur.pos <= Len(bytes)
      BY <1>n, <1>o, <1>2, SumsInside
    <2> QED BY <1>2, <2>1, InBytes
  <1>4. cur.size \in Int /\ cur.pos \in Int /\ DataOf(cur) \in Int
    BY <1>n, <1>2
  <1>5. Minus(cur.size, cur.pos) = cur.size - cur.pos
    BY <1>3, <1>4, Arithmetic
  <1>6. Plus(DataOf(cur), cur.pos) = DataOf(cur) + cur.pos
    BY <1>3, <1>4, Arithmetic
  <1>7. Start(cur) \in Nat
    BY <1>n DEF Start
  <1> QED BY <1>2, <1>3, <1>5, <1>6, <1>7 DEF StartSize, Start

(* The rest behind a chunk. *)
LEMMA RestIsAt ==
  ASSUME Registers, SoundSoFar, sound, cur.pc # "root",
         NEW amount \in Nat, amount <= cur.room
  PROVE  LET buffer == Rest(Plus(cur.at, amount), Minus(cur.room, amount))
         IN  IsBuffer(buffer) /\ buffer.data /\ buffer.at = cur.at + amount
  <1>1. cur.at + cur.room <= Len(bytes)
    BY DEF SoundSoFar, Inside
  <1>2. cur.at + amount \in Size /\ cur.room - amount \in Size
    BY <1>1, CurrentChunk, InBytes
  <1>3. Plus(cur.at, amount) = cur.at + amount /\ Minus(cur.room, amount) = cur.room - amount
    BY <1>2, CurrentChunk, Arithmetic
  <1> QED BY <1>2, <1>3, RestBuffer

LEMMA RestOn ==
  ASSUME Registers, SoundSoFar, sound, cur.pc # "root", NEW expr, NEW goals, Wanted(goals, expr),
         NEW amount \in Nat, amount <= cur.room, goals[1].to = cur.at + amount,
         ReturnRest(amount, goals[1].expr),
         bytes' = bytes, sound', sound' \in BOOLEAN, error' = "None", result' = Reading
  PROVE  OnItsWay(expr)'
  <1> DEFINE buffer == Rest(Plus(cur.at, amount), Minus(cur.room, amount))
  <1>1. IsBuffer(buffer) /\ buffer.data /\ buffer.at = cur.at + amount
    BY RestIsAt
  <1>2. Return(buffer, goals[1].expr)
    BY DEF ReturnRest
  <1> HIDE DEF buffer
  <1> QED BY <1>1, <1>2, ReturnOn

(* A header: what is left of it has a digit, or the type, within the buffer. *)
LEMMA HeaderStepOn ==
  ASSUME Registers, SoundSoFar, NEW expr, OnItsWay(expr), cur.pc \in {"chunk", "size"}, ReadStep
  PROVE  OnItsWay(expr)'
  <1> USE CurrentChunk
  <1>1. /\ sound /\ error = "None" /\ cur.pc # "root" /\ cur.pc \notin Called
        /\ result = Reading /\ bytes \in Seq(Byte)
    BY DEF OnItsWay, Called, Registers
  <1>2. PICK goals : Wanted(goals, expr) /\ Agrees(goals[1])
    BY <1>1 DEF OnItsWay
  <1>3. PICK goal : goal = goals[1]
    OBVIOUS
  <1>4. Left(cur, goal)
    BY <1>1, <1>2, <1>3 DEF Agrees
  <1>5. PICK E : cur \in Chunks(E)
    BY CurrentSets
  <1>6. /\ cur.at \in Nat /\ cur.room \in Nat /\ cur.width \in Nat /\ goal.to \in Nat
        /\ goal.to <= cur.at + cur.room
    BY <1>4 DEF Left
  <1>7. PICK width, value, size :
          /\ size \in Size /\ DigitsAre(bytes, cur.at, width, value, size)
          /\ DataReads(bytes, cur.at + width, size, goal.to, goal.expr)
          /\ cur.width < width
          /\ cur.pc = "size" => cur.size = value[cur.width]
          /\ cur.pc = "chunk" => cur.width = 0 /\ cur.size = 0
    <2>1. CASE cur.pc = "chunk"
      <3>1. /\ Reads(bytes, Goal("chunk", Invalid, cur.at, goal.to), goal.expr)
            /\ cur.width = 0 /\ cur.size = 0
        BY <1>4, <2>1 DEF Left, Loop
      <3>2. PICK width, value, size :
          /\ size \in Size /\ DigitsAre(bytes, cur.at, width, value, size)
          /\ DataReads(bytes, cur.at + width, size, goal.to, goal.expr)
        BY <3>1, ChunkReads
      <3>3. width \in Nat /\ cur.width < width
        BY <3>1, <3>2 DEF DigitsAre
      <3> QED BY <2>1, <3>1, <3>2, <3>3
    <2>2. CASE cur.pc = "size"
      BY <1>4, <2>2 DEF Left, Loop
    <2> QED BY <2>1, <2>2
  <1>8. /\ width \in Nat /\ cur.at + width + 1 <= goal.to /\ width > 0 /\ value[0] = 0
        /\ cur.at + width <= Len(bytes) /\ cur.width < width
    <2>1. width \in Nat /\ width > 0 /\ value[0] = 0 /\ cur.at + width <= Len(bytes)
      BY <1>7 DEF DigitsAre
    <2>2. cur.at + width + 1 <= goal.to
      BY <1>7 DEF DataReads, DataRule
    <2>3. cur.width < width
      BY <1>7, <2>1
    <2> QED BY <2>1, <2>2, <2>3
  <1>9. width + 1 <= cur.room
    BY <1>6, <1>8
  <1>10. CASE ReadHeader
    <2>1. cur.pc = "chunk" /\ Go([cur EXCEPT !.pc = "size"]) /\ Same
      BY <1>10 DEF ReadHeader
    <2> DEFINE c == [cur EXCEPT !.pc = "size"]
    <2>2. /\ c.pc = "size" /\ c.at = cur.at /\ c.room = cur.room
          /\ c.width = cur.width /\ c.size = cur.size
      BY <1>5 DEF Chunks
    <2>3. Go(c) /\ bytes' = bytes /\ sound' /\ error' = "None" /\ result' = Reading
      BY <1>1, <2>1 DEF Same
    <2> HIDE DEF c
    <2>4. Left(c, goal)
      BY <1>6, <1>7, <1>8, <2>1, <2>2 DEF Left
    <2> QED BY <1>1, <1>2, <1>3, <2>2, <2>3, <2>4, GoOn DEF Heads
  <1>11. CASE SizeByte
    <2> DEFINE byte == ByteAt(Plus(cur.at, cur.width))
               size2 == ((cur.size * Radix) + (byte % Radix)) % Wrap
               width2 == Plus(cur.width, 1)
               pc == IF byte < Radix THEN "type" ELSE "size"
               c == [cur EXCEPT !.size = size2, !.width = width2, !.pc = pc]
               next == cur.width + 1
    <2>1. /\ Go(c) /\ cur.pc = "size" /\ bytes' = bytes /\ sound' /\ error' = "None"
          /\ result' = Reading
      BY <1>1, <1>11 DEF SizeByte, Same
    <2>2. cur.width + 1 <= cur.room
      BY <1>6, <1>8, <1>9
    <2>3. Plus(cur.at, cur.width) = cur.at + cur.width /\ cur.at + cur.width + 1 <= Len(bytes)
      BY <1>1, <2>2, SoundPointers
    <2>4. byte = bytes[cur.at + next]
      BY <1>6, <2>3 DEF ByteAt
    <2>5. next \in 1 .. width /\ next - 1 = cur.width
      BY <1>6, <1>8
    <2>6. width2 = next
      <3>1. next \in Size
        BY <1>6, <2>3, InBytes
      <3> QED BY <1>6, <3>1, Arithmetic
    <2> HIDE DEF width2
    <2>7. value[next] = (cur.size * Radix) + (byte % Radix)
      BY <1>7, <2>1, <2>4, <2>5 DEF DigitsAre
    <2>8. size2 = value[next]
      <3>1. value[next] <= size /\ value[next] \in Nat
        <4>1. next \in 0 .. width
          BY <1>8, <2>5
        <4> HIDE DEF next
        <4>2. value[next] <= size
          BY <1>1, <1>6, <1>7, <4>1, DigitsGrow
        <4>3. value[next] \in Nat
          BY <1>7, <4>1 DEF DigitsAre
        <4> QED BY <4>2, <4>3
      <3>2. value[next] \in Size
        <4>1. PICK v \in Nat : v = value[next]
          BY <3>1
        <4>2. v <= size /\ size \in Size
          BY <1>7, <3>1, <4>1
        <4>3. v \in Size
          BY <4>2, SizesBelow
        <4> QED BY <4>1, <4>3
      <3> QED BY <2>7, <3>2, NoWrap
    <2>9. pc = "type" <=> next = width
      <3>1. bytes[cur.at + next] < Radix <=> next = width
        BY <1>7, <2>5 DEF DigitsAre
      <3> QED BY <2>4, <3>1
    <2>10. pc \in {"size", "type"}
      OBVIOUS
    <2> HIDE DEF size2, pc, byte
    <2>11. /\ c.pc = pc /\ c.at = cur.at /\ c.room = cur.room
           /\ c.width = next /\ c.size = value[next]
      BY <1>5, <2>6, <2>8 DEF Chunks
    <2> HIDE DEF c
    <2>12. Left(c, goal)
      <3>1. CASE pc = "type"
        <4>1. next = width /\ value[next] = size
          BY <1>7, <2>9, <3>1 DEF DigitsAre
        <4> QED BY <1>6, <1>7, <2>11, <3>1, <4>1 DEF Left
      <3>2. CASE pc = "size"
        <4>1. next < width
          BY <1>8, <2>5, <2>9, <3>2
        <4> QED BY <1>6, <1>7, <2>11, <3>2, <4>1 DEF Left
      <3> QED BY <2>10, <3>1, <3>2
    <2> QED BY <1>1, <1>2, <1>3, <2>1, <2>10, <2>11, <2>12, GoOn DEF Heads
  <1>12. ~ChunkTooSmall
    BY <1>6, <1>8, <1>9 DEF ChunkTooSmall
  <1>13. ~SizeUnended
    <2>1. cur.width + 1 <= cur.room
      BY <1>6, <1>8, <1>9
    <2>2. Held(Plus(cur.at, cur.width)) /\ cur.width # cur.room
      BY <1>1, <1>6, <2>1, SoundPointers
    <2> QED BY <2>2 DEF SizeUnended
  <1>14. ReadHeader \/ SizeByte
    BY <1>12, <1>13 DEF ReadStep, TypeOutside, TypeHeld, ReadNull, ReadValue, ReadBinary,
         UnknownCompression, UnknownType, OpenArray, OpenMap, Element, Key, NextChunk, ChildFailed,
         ElementRead, KeyRead, ValueRead, CloseContainer, BinaryFinish
  <1> QED BY <1>10, <1>11, <1>14

(* Behind a header: the data of the chunk, or the first of the chunks in it. *)
LEMMA TypeStepOn ==
  ASSUME Registers, SoundSoFar, NEW expr, OnItsWay(expr), cur.pc = "type", ReadStep
  PROVE  OnItsWay(expr)'
  <1> USE CurrentChunk
  <1>1. /\ sound /\ error = "None" /\ cur.pc # "root" /\ cur.pc \notin Called
        /\ result = Reading /\ bytes \in Seq(Byte)
    BY DEF OnItsWay, Called, Registers
  <1>2. PICK goals : Wanted(goals, expr) /\ Agrees(goals[1])
    BY <1>1 DEF OnItsWay
  <1>3. PICK goal : goal = goals[1]
    OBVIOUS
  <1>4. Left(cur, goal)
    BY <1>1, <1>2, <1>3 DEF Agrees
  <1>5. PICK E : cur \in Chunks(E)
    BY CurrentSets
  <1> DEFINE data == cur.at + cur.width + 1
  <1>6. /\ cur.at \in Nat /\ cur.room \in Nat /\ cur.width \in Nat /\ cur.size \in Nat
        /\ goal.to \in Nat /\ goal.to <= cur.at + cur.room /\ data \in Nat
        /\ cur.pos = 0
    BY <1>1, <1>4 DEF Left, SoundSoFar, HeadOK
  <1>7. DataReads(bytes, cur.at + cur.width, cur.size, goal.to, goal.expr)
    BY <1>4 DEF Left, Loop
  <1>8. data <= goal.to
    BY <1>7 DEF DataReads, DataRule
  <1>9. cur.width + 1 <= cur.room
    BY <1>6, <1>8
  <1>10. /\ Plus(cur.at, cur.width) = cur.at + cur.width /\ TypeHeld
         /\ DataOf(cur) = data
    BY <1>1, <1>9, SoundPointers DEF TypeHeld
  <1>11. ChunkType = bytes[data]
    BY <1>10 DEF ChunkType, ByteAt
  <1>12. bytes' = bytes /\ result' = Reading
    BY <1>1 DEF ReadStep, ChunkTooSmall, ReadHeader, SizeByte, SizeUnended, TypeOutside,
           ReadNull, ReadValue, ReadBinary, UnknownCompression, UnknownType, OpenArray, OpenMap,
           Element, Key, NextChunk, ChildFailed, ElementRead, KeyRead, ValueRead,
           CloseContainer, BinaryFinish, Same
  <1>13. ASSUME goal.to = data + cur.size
         PROVE  /\ cur.width + 1 + cur.size <= cur.room
                /\ goal.to = cur.at + (cur.width + 1 + cur.size)
                /\ goal.to <= Len(bytes)
    <2>1. cur.width + 1 + cur.size <= cur.room /\ goal.to = cur.at + (cur.width + 1 + cur.size)
      <3>1. \A a, w, s, r, t \in Nat :
              t = (a + w + 1) + s /\ t <= a + r => w + 1 + s <= r /\ t = a + (w + 1 + s)
        OBVIOUS
      <3>2. PICK a, w, s, r, t \in Nat :
              a = cur.at /\ w = cur.width /\ s = cur.size /\ r = cur.room /\ t = goal.to
        BY <1>6
      <3>3. t = (a + w + 1) + s /\ t <= a + r
        BY <1>6, <1>13, <3>2
      <3>4. w + 1 + s <= r /\ t = a + (w + 1 + s)
        BY <3>1, <3>3
      <3> QED BY <3>2, <3>4
    <2>2. cur.at + cur.room <= Len(bytes)
      BY <1>1 DEF SoundSoFar, Inside
    <2> QED BY <1>6, <2>1, <2>2
  <1> HIDE DEF data
  <1>14. CASE bytes[data] = 0
    <2>1. goal.to = data /\ goal.expr = Null
      BY <1>7, <1>14 DEF DataReads, DataRule, data
    <2>2. ReadNull
      BY <1>1, <1>10, <1>11, <1>14 DEF ReadStep, ChunkTooSmall, ReadHeader, SizeByte, SizeUnended,
           TypeOutside, ReadValue, ReadBinary, UnknownCompression, UnknownType, OpenArray, OpenMap,
           Element, Key, NextChunk, ChildFailed, ElementRead, KeyRead, ValueRead,
           CloseContainer, BinaryFinish, Called
    <2>3. ReturnRest(cur.width + 1, goals[1].expr) /\ sound' /\ error' = "None"
      BY <1>1, <1>3, <1>9, <2>1, <2>2 DEF ReadNull, Within
    <2>4. goals[1].to = cur.at + (cur.width + 1) /\ cur.width + 1 \in Nat
      BY <1>3, <1>6, <2>1 DEF data
    <2>5. sound' \in BOOLEAN
      BY <1>1, <2>2 DEF ReadNull, Registers, Within
    <2> QED BY <1>1, <1>2, <1>9, <1>12, <2>3, <2>4, <2>5, RestOn
  <1>15. CASE bytes[data] = 1
    <2>1. goal.to = data + cur.size /\ goal.expr = Value(CString(SubSeq(bytes, data + 1, goal.to)))
      BY <1>7, <1>15 DEF DataReads, DataRule, data
    <2>2. ReadValue
      BY <1>1, <1>10, <1>11, <1>15 DEF ReadStep, ChunkTooSmall, ReadHeader, SizeByte, SizeUnended,
           TypeOutside, ReadNull, ReadBinary, UnknownCompression, UnknownType, OpenArray, OpenMap,
           Element, Key, NextChunk, ChildFailed, ElementRead, KeyRead, ValueRead,
           CloseContainer, BinaryFinish, Called
    <2>3. /\ cur.width + 1 + cur.size <= cur.room
          /\ goal.to = cur.at + (cur.width + 1 + cur.size) /\ goal.to <= Len(bytes)
      BY <1>13, <2>1
    <2>4. HeldFrom(DataOf(cur), cur.size) /\ DataBytes(DataOf(cur), cur.size) = SubSeq(bytes, data + 1, goal.to)
      BY <1>10, <2>1, <2>3 DEF HeldFrom, DataBytes
    <2>5. /\ ReturnRest(cur.width + 1 + cur.size, goals[1].expr)
          /\ sound' /\ error' = "None"
      BY <1>1, <1>3, <2>1, <2>2, <2>3, <2>4 DEF ReadValue, Sound, Within
    <2>6. goals[1].to = cur.at + (cur.width + 1 + cur.size) /\ cur.width + 1 + cur.size \in Nat
      BY <1>3, <1>6, <2>3
    <2>7. sound' \in BOOLEAN
      BY <1>1, <2>2 DEF ReadValue, Registers, Within, Sound
    <2> QED BY <1>1, <1>2, <1>12, <2>3, <2>5, <2>6, <2>7, RestOn
  <1>16. CASE bytes[data] = 4
    <2>1. /\ goal.to = data + cur.size /\ cur.size > 0 /\ bytes[data + 1] = 0
          /\ goal.expr = BinaryData(SubSeq(bytes, data + 2, goal.to))
      BY <1>7, <1>16 DEF DataReads, DataRule, data
    <2>2. /\ cur.width + 1 + cur.size <= cur.room
          /\ goal.to = cur.at + (cur.width + 1 + cur.size) /\ goal.to <= Len(bytes)
      BY <1>13, <2>1
    <2>3. Held(DataOf(cur)) /\ ByteAt(DataOf(cur)) = 0
      BY <1>6, <1>10, <2>1, <2>2 DEF Held, ByteAt
    <2>4. data + 1 \in Size /\ cur.size - 1 \in Size
      <3>1. \A d, s, t, n \in Nat :
              t = d + s /\ s > 0 /\ t <= n =>
                d + 1 \in Nat /\ d + 1 <= n /\ s - 1 \in Nat /\ s - 1 <= n
        OBVIOUS
      <3>2. /\ data + 1 \in Nat /\ data + 1 <= Len(bytes)
            /\ cur.size - 1 \in Nat /\ cur.size - 1 <= Len(bytes)
        BY <1>6, <2>1, <2>2, <3>1
      <3> QED BY <3>2, InBytes
    <2>5. Plus(DataOf(cur), 1) = data + 1 /\ Minus(cur.size, 1) = cur.size - 1
      BY <1>6, <1>10, <2>4, Arithmetic
    <2>6. /\ HeldFrom(Plus(DataOf(cur), 1), Minus(cur.size, 1))
          /\ DataBytes(Plus(DataOf(cur), 1), Minus(cur.size, 1)) = SubSeq(bytes, data + 2, goal.to)
      <3>1. \A d, s, t \in Nat : t = d + s => (d + 1) + 1 = d + 2 /\ (d + 1) + (s - 1) = t
        OBVIOUS
      <3>2. (data + 1) + 1 = data + 2 /\ (data + 1) + (cur.size - 1) = goal.to
        <4>1. PICK d, s, t \in Nat : d = data /\ s = cur.size /\ t = goal.to
          BY <1>6
        <4>2. t = d + s
          BY <2>1, <4>1
        <4>3. (d + 1) + 1 = d + 2 /\ (d + 1) + (s - 1) = t
          BY <3>1, <4>2
        <4> QED BY <4>1, <4>3
      <3> QED BY <2>2, <2>5, <3>2 DEF HeldFrom, DataBytes
    <2>7. ReadBinary
      BY <1>1, <1>10, <1>11, <1>16, <2>3 DEF ReadStep, ChunkTooSmall, ReadHeader, SizeByte, SizeUnended,
           TypeOutside, ReadNull, ReadValue, UnknownCompression, UnknownType, OpenArray, OpenMap,
           Element, Key, NextChunk, ChildFailed, ElementRead, KeyRead, ValueRead,
           CloseContainer, BinaryFinish, Called
    <2>8. /\ ReturnRest(cur.width + 1 + cur.size, goals[1].expr)
          /\ sound' /\ error' = "None"
      BY <1>1, <1>3, <2>1, <2>2, <2>3, <2>6, <2>7 DEF ReadBinary, Sound, Within
    <2>9. goals[1].to = cur.at + (cur.width + 1 + cur.size) /\ cur.width + 1 + cur.size \in Nat
      BY <1>3, <1>6, <2>2
    <2>10. sound' \in BOOLEAN
      BY <1>1, <2>7 DEF ReadBinary, Registers, Within, Sound
    <2> QED BY <1>1, <1>2, <1>12, <2>2, <2>8, <2>9, <2>10, RestOn
  <1>17. CASE bytes[data] \in {2, 3}
    <2>1. PICK pc, self :
            /\ pc \in Loop /\ goal.to = data + cur.size
            /\ Reads(bytes, Goal(pc, self, data, goal.to), goal.expr)
            /\ IF bytes[data] = 2 THEN pc = "elements" /\ self = Array(<<>>)
               ELSE pc = "pairs" /\ self = Map(<<>>)
      BY <1>7, <1>17 DEF DataReads, DataRule, data, Loop
    <2>2. IF bytes[data] = 2 THEN OpenArray ELSE OpenMap
      <3>1. CASE bytes[data] = 2
        <4>1. ChunkType = 2
          BY <1>11, <3>1
        <4> QED BY <3>1, <4>1, <1>1, <1>10 DEF ReadStep, ChunkTooSmall, ReadHeader, SizeByte, SizeUnended,
             TypeOutside, ReadNull, ReadValue, ReadBinary, UnknownCompression, UnknownType, OpenMap,
             Element, Key, NextChunk, ChildFailed, ElementRead, KeyRead, ValueRead,
             CloseContainer, BinaryFinish, Called
      <3>2. CASE bytes[data] = 3
        <4>1. ChunkType = 3
          BY <1>11, <3>2
        <4> QED BY <3>2, <4>1, <1>1, <1>10 DEF ReadStep, ChunkTooSmall, ReadHeader, SizeByte, SizeUnended,
             TypeOutside, ReadNull, ReadValue, ReadBinary, UnknownCompression, UnknownType, OpenArray,
             Element, Key, NextChunk, ChildFailed, ElementRead, KeyRead, ValueRead,
             CloseContainer, BinaryFinish, Called
      <3> QED BY <1>17, <3>1, <3>2
    <2> DEFINE c == [cur EXCEPT !.pc = pc, !.expr = self]
    <2>3. Go(c) /\ error' = "None" /\ (sound' = (sound /\ TRUE /\ Within(cur.width + 1 + cur.size)))
      BY <1>1, <2>1, <2>2 DEF OpenArray, OpenMap, Sound
    <2>4. /\ c.pc = pc /\ c.at = cur.at /\ c.room = cur.room /\ c.width = cur.width
          /\ c.size = cur.size /\ c.pos = cur.pos /\ c.expr = self
      BY <1>5 DEF Chunks
    <2> HIDE DEF c
    <2>5. sound'
      BY <1>1, <1>13, <2>1, <2>3 DEF Within
    <2>6. Start(c) = data /\ Start(c) + c.pos = data
      BY <1>6, <2>4 DEF Start, data
    <2>7. Left(c, goal)
      BY <1>6, <2>1, <2>4, <2>6 DEF Left
    <2> QED BY <1>1, <1>2, <1>3, <1>12, <2>1, <2>3, <2>4, <2>5, <2>7, GoOn
  <1> QED BY <1>7, <1>14, <1>15, <1>16, <1>17 DEF DataReads, DataRule, data

(* The chunks of a container: one more, or the end of it.                   *)
LEMMA LoopStepOn ==
  ASSUME Registers, SoundSoFar, NEW expr, OnItsWay(expr), cur.pc \in Loop, ReadStep
  PROVE  OnItsWay(expr)'
  <1> USE CurrentChunk
  <1>1. /\ sound /\ error = "None" /\ cur.pc # "root" /\ cur.pc \notin Called /\ result = Reading
        /\ cur.pc \notin Heads
    BY DEF OnItsWay, Called, Loop, Heads
  <1>2. PICK goals : Wanted(goals, expr) /\ Agrees(goals[1])
    BY <1>1 DEF OnItsWay
  <1>3. PICK goal : goal = goals[1]
    OBVIOUS
  <1>4. Left(cur, goal)
    BY <1>1, <1>2, <1>3 DEF Agrees
  <1>5. PICK E : cur \in Chunks(E)
    BY CurrentSets
  <1>6. /\ cur.at \in Nat /\ cur.room \in Nat /\ cur.width \in Nat /\ cur.size \in Nat
        /\ cur.pos \in Nat /\ goal.to \in Nat /\ goal.to <= cur.at + cur.room
    BY <1>4 DEF Left
  <1>7. /\ goal.to = Start(cur) + cur.size
        /\ Reads(bytes, Goal(cur.pc, cur.expr, Start(cur) + cur.pos, goal.to), goal.expr)
    BY <1>1, <1>4 DEF Left, Heads
  <1>8. Opened(cur) /\ cur.width + 1 + cur.size <= cur.room /\ cur.pos <= cur.size
    BY <1>1 DEF SoundSoFar, HeadOK, Opened, Loop
  <1>9. Start(cur) \in Nat
    BY <1>6 DEF Start
  <1>10. CASE cur.pos < cur.size
    <2>1. PICK after \in {"elementRead", "keyRead"} :
            /\ Call([cur EXCEPT !.pc = after, !.start = StartSize, !.keySize = 0],
                    Plus(DataOf(cur), cur.pos), StartSize)
            /\ Same
            /\ after = "elementRead" <=> cur.pc = "elements"
      <3>0. ~CloseContainer
        BY <1>6, <1>10 DEF CloseContainer
      <3>1. Element \/ Key
        BY <1>1, <3>0 DEF ReadStep, ChunkTooSmall, ReadHeader, SizeByte, SizeUnended,
             TypeOutside, TypeHeld, ReadNull, ReadValue, ReadBinary, UnknownCompression, UnknownType,
             OpenArray, OpenMap, ChildFailed, ElementRead, KeyRead, ValueRead,
             BinaryFinish, Called, Heads
      <3> QED BY <3>1 DEF Element, Key, NextChunk
    <2> DEFINE c == [cur EXCEPT !.pc = after, !.start = StartSize, !.keySize = 0]
               at == Plus(DataOf(cur), cur.pos)
               room == StartSize
    <2>2. /\ c.pc = after /\ c.at = cur.at /\ c.room = cur.room /\ c.width = cur.width
          /\ c.size = cur.size /\ c.expr = cur.expr
      BY <1>5 DEF Chunks
    <2>3. /\ at = Start(cur) + cur.pos /\ room = cur.size - cur.pos
          /\ at \in Size /\ room \in Size
      BY <1>1, <1>10, NextIsAt
    <2>4. /\ Call(c, at, room) /\ bytes' = bytes /\ sound' /\ error' = "None" /\ result' = Reading
      BY <1>1, <2>1 DEF Same
    <2> HIDE DEF c, at, room
    <2>5. at \in Nat /\ at # goal.to /\ at + room = goal.to
      <3>1. PICK s, p, z \in Nat : s = Start(cur) /\ p = cur.pos /\ z = cur.size
        BY <1>6, <1>9
      <3>2. s + p \in Nat /\ s + p # s + z /\ (s + p) + (z - p) = s + z
        BY <1>10, <3>1
      <3> QED BY <1>7, <2>3, <3>1, <3>2
    <2>6. PICK part :
            /\ part.to \in Nat /\ part.to <= goal.to
            /\ Reads(bytes, Goal("chunk", Invalid, at, part.to), part.expr)
            /\ Waits(c, goal, part)
      <3>1. Start(c) = Start(cur) /\ goal.to = Start(c) + c.size
        BY <1>7, <2>2 DEF Start
      <3>2. CASE cur.pc = "elements"
        <4>1. Reads(bytes, Goal("elements", cur.expr, at, goal.to), goal.expr)
          BY <1>7, <2>3, <3>2
        <4>2. PICK mid, e :
                /\ mid \in Nat /\ at < mid /\ mid <= goal.to
                /\ Reads(bytes, Goal("chunk", Invalid, at, mid), e)
                /\ Reads(bytes, Goal("elements", [cur.expr EXCEPT !.list = Append(@, e)], mid, goal.to),
                         goal.expr)
          BY <2>5, <4>1, ElementsReads
        <4>3. Spot(mid, e).to = mid /\ Spot(mid, e).expr = e
          BY SpotIs
        <4>4. c.pc = "elementRead"
          BY <2>1, <2>2, <3>2
        <4>5. Waits(c, goal, Spot(mid, e))
          BY <2>2, <3>1, <4>2, <4>3, <4>4 DEF Waits
        <4> QED BY <4>2, <4>3, <4>5
      <3>3. CASE cur.pc = "pairs"
        <4>1. Reads(bytes, Goal("pairs", cur.expr, at, goal.to), goal.expr)
          BY <1>7, <2>3, <3>3
        <4>2. PICK mid, k, end, v :
                /\ mid \in Nat /\ at < mid /\ mid < end /\ end \in Nat /\ end <= goal.to
                /\ Reads(bytes, Goal("chunk", Invalid, at, mid), k) /\ k.type = "Value"
                /\ Reads(bytes, Goal("chunk", Invalid, mid, end), v)
                /\ Reads(bytes, Goal("pairs", [cur.expr EXCEPT !.hash = Put(@, k.data, v)], end, goal.to),
                         goal.expr)
          BY <2>5, <4>1, PairsReads
        <4>3. Spot(mid, k).to = mid /\ Spot(mid, k).expr = k
          BY SpotIs
        <4>4. c.pc = "keyRead"
          BY <2>1, <2>2, <3>3
        <4>5. mid <= goal.to
          BY <1>6, <4>2
        <4>6. Waits(c, goal, Spot(mid, k))
          BY <2>2, <3>1, <4>2, <4>3, <4>4, <4>5 DEF Waits
        <4> QED BY <4>2, <4>3, <4>5, <4>6
      <3> QED BY <3>2, <3>3 DEF Loop
    <2>7. goal.to <= c.at + c.room
      BY <1>6, <2>2
    <2> QED BY <1>1, <1>2, <1>3, <1>6, <2>3, <2>4, <2>5, <2>6, <2>7, CallOn
  <1>11. CASE ~(cur.pos < cur.size)
    <2>1. cur.pos = cur.size
      BY <1>6, <1>8, <1>11
    <2>2. CloseContainer
      BY <1>1, <1>11 DEF ReadStep, ChunkTooSmall, ReadHeader, SizeByte, SizeUnended,
           TypeOutside, TypeHeld, ReadNull, ReadValue, ReadBinary, UnknownCompression, UnknownType,
           OpenArray, OpenMap, Element, Key, NextChunk, ChildFailed, ElementRead, KeyRead, ValueRead,
           BinaryFinish, Called, Heads
    <2>3. goal.expr = cur.expr
      <3>1. Start(cur) + cur.pos = goal.to
        BY <1>7, <2>1
      <3> QED BY <1>6, <1>7, <3>1, NoMoreReads
    <2>4. /\ ReturnRest(cur.width + 1 + cur.pos, goals[1].expr)
          /\ bytes' = bytes /\ sound' = sound /\ error' = "None" /\ result' = Reading
      BY <1>1, <1>3, <2>2, <2>3 DEF CloseContainer, Same
    <2>5. sound' /\ sound' \in BOOLEAN
      BY <1>1, <2>4 DEF Registers
    <2>6. /\ cur.width + 1 + cur.pos \in Nat /\ cur.width + 1 + cur.pos <= cur.room
          /\ goals[1].to = cur.at + (cur.width + 1 + cur.pos)
      BY <1>3, <1>6, <1>7, <1>8, <2>1 DEF Start
    <2> QED BY <1>1, <1>2, <2>4, <2>5, <2>6, RestOn
  <1> QED BY <1>10, <1>11

(* A chunk in a container was read.                                         *)
LEMMA CalledStepOn ==
  ASSUME Registers, SoundSoFar, NEW expr, OnItsWay(expr), cur.pc \in Called, ReadStep
  PROVE  OnItsWay(expr)'
  <1> USE CurrentChunk
  <1>1. /\ sound /\ error = "None" /\ cur.pc # "root" /\ result = Reading
        /\ cur.pc \notin Heads /\ cur.pc \notin Loop
    BY DEF OnItsWay, Called, Loop, Heads
  <1>2. PICK goals : Wanted(goals, expr) /\ Agrees(goals[1])
    BY <1>1 DEF OnItsWay
  <1>3. PICK goal : goal = goals[1]
    OBVIOUS
  <1>4. /\ goal.to \in Nat /\ goal.to <= cur.at + cur.room /\ rest.data
        /\ Waits(cur, goal, Spot(rest.at, read))
    BY <1>1, <1>2, <1>3 DEF Agrees
  <1>5. PICK E : cur \in Chunks(E)
    BY CurrentSets
  <1>6. Returned /\ KeyOK(cur)
    BY <1>1 DEF SoundSoFar
  <1>7. /\ Start(cur) + CurPos = rest.at /\ Start(cur) \in Nat
        /\ rest.at + rest.room = Start(cur) + cur.size
    BY <1>4, <1>6, ComesTo DEF Returned
  <1>8. Spot(rest.at, read).to = rest.at /\ Spot(rest.at, read).expr = read
    BY SpotIs
  <1>9. /\ goal.to = Start(cur) + cur.size /\ rest.at \in Nat /\ rest.at <= goal.to
    BY <1>4, <1>8 DEF Waits
  <1>10. CASE cur.pc \in {"elementRead", "valueRead"}
    <2>1. PICK pc, self :
            /\ pc \in Loop
            /\ Go([cur EXCEPT !.pc = pc, !.pos = CurPos, !.expr = self]) /\ Same
            /\ Reads(bytes, Goal(pc, self, rest.at, goal.to), goal.expr)
      <3>1. CASE cur.pc = "elementRead"
        <4> DEFINE self == [cur.expr EXCEPT !.list = Append(@, read)]
        <4>1. ElementRead
          BY <1>1, <1>4, <3>1 DEF ReadStep, ChunkTooSmall, ReadHeader, SizeByte, SizeUnended,
               TypeOutside, TypeHeld, ReadNull, ReadValue, ReadBinary, UnknownCompression, UnknownType,
               OpenArray, OpenMap, Element, Key, NextChunk, ChildFailed, KeyRead, ValueRead,
               CloseContainer, BinaryFinish, Loop
        <4>2. Go([cur EXCEPT !.pc = "elements", !.pos = CurPos, !.expr = self]) /\ Same
          BY <4>1 DEF ElementRead
        <4>3. Reads(bytes, Goal("elements", self, rest.at, goal.to), goal.expr)
          BY <1>4, <1>8, <3>1 DEF Waits
        <4> HIDE DEF self
        <4>4. "elements" \in Loop
          BY DEF Loop
        <4> QED BY ONLY <4>2, <4>3, <4>4, Zenon
      <3>2. CASE cur.pc = "valueRead"
        <4> DEFINE self == [cur.expr EXCEPT !.hash = Put(@, cur.key.data, read)]
        <4>1. ValueRead /\ cur.key.type = "Value"
          BY <1>1, <1>4, <1>6, <3>2 DEF ReadStep, ChunkTooSmall, ReadHeader, SizeByte, SizeUnended,
               TypeOutside, TypeHeld, ReadNull, ReadValue, ReadBinary, UnknownCompression, UnknownType,
               OpenArray, OpenMap, Element, Key, NextChunk, ChildFailed, KeyRead, ElementRead,
               CloseContainer, BinaryFinish, Loop, KeyOK
        <4>2. Go([cur EXCEPT !.pc = "pairs", !.pos = CurPos, !.expr = self]) /\ Same
          BY <4>1 DEF ValueRead
        <4>3. Reads(bytes, Goal("pairs", self, rest.at, goal.to), goal.expr)
          BY <1>4, <1>8, <3>2 DEF Waits
        <4> HIDE DEF self
        <4>4. "pairs" \in Loop
          BY DEF Loop
        <4> QED BY ONLY <4>2, <4>3, <4>4, Zenon
      <3> QED BY <1>10, <3>1, <3>2
    <2> DEFINE c == [cur EXCEPT !.pc = pc, !.pos = CurPos, !.expr = self]
    <2>2. /\ c.pc = pc /\ c.at = cur.at /\ c.room = cur.room /\ c.width = cur.width
          /\ c.size = cur.size /\ c.pos = CurPos /\ c.expr = self
      BY <1>5 DEF Chunks
    <2>3. Go(c) /\ bytes' = bytes /\ sound' /\ error' = "None" /\ result' = Reading
      BY <1>1, <2>1 DEF Same
    <2> HIDE DEF c
    <2>4. Start(c) = Start(cur)
      BY <2>2 DEF Start
    <2>5. Left(c, goal)
      BY <1>4, <1>7, <1>9, <2>1, <2>2, <2>4 DEF Left
    <2> QED BY <1>1, <1>2, <1>3, <2>1, <2>2, <2>3, <2>5, GoOn DEF Called
  <1>11. CASE cur.pc = "keyRead"
    <2>1. KeyRead
      BY <1>1, <1>4, <1>11 DEF ReadStep, ChunkTooSmall, ReadHeader, SizeByte, SizeUnended,
           TypeOutside, TypeHeld, ReadNull, ReadValue, ReadBinary, UnknownCompression, UnknownType,
           OpenArray, OpenMap, Element, Key, NextChunk, ChildFailed, ElementRead, ValueRead,
           CloseContainer, BinaryFinish, Loop
    <2>2. /\ read.type = "Value"
          /\ \E end, v :
               /\ rest.at < end /\ end \in Nat /\ end <= goal.to
               /\ Reads(bytes, Goal("chunk", Invalid, rest.at, end), v)
               /\ Reads(bytes, Goal("pairs", [cur.expr EXCEPT !.hash = Put(@, read.data, v)], end, goal.to),
                        goal.expr)
      BY <1>4, <1>8, <1>11 DEF Waits
    <2>3. PICK end, v :
            /\ rest.at < end /\ end \in Nat /\ end <= goal.to
            /\ Reads(bytes, Goal("chunk", Invalid, rest.at, end), v)
            /\ Reads(bytes, Goal("pairs", [cur.expr EXCEPT !.hash = Put(@, read.data, v)], end, goal.to),
                     goal.expr)
      BY <2>2
    <2> DEFINE c == [cur EXCEPT !.pc = "valueRead", !.pos = CurPos,
                                !.keySize = Minus(cur.start, rest.room), !.key = read]
    <2>4. /\ c.pc = "valueRead" /\ c.at = cur.at /\ c.room = cur.room /\ c.width = cur.width
          /\ c.size = cur.size /\ c.expr = cur.expr /\ c.key = read
      BY <1>5 DEF Chunks
    <2>5. /\ Call(c, rest.at, rest.room) /\ bytes' = bytes /\ sound' /\ error' = "None"
          /\ result' = Reading
      BY <1>1, <2>1, <2>2 DEF KeyRead
    <2> HIDE DEF c
    <2>6. PICK part : part = Spot(end, v) /\ part.to = end /\ part.expr = v
      BY SpotIs
    <2>7. Start(c) = Start(cur)
      BY <2>4 DEF Start
    <2>8. Waits(c, goal, part)
      BY <1>9, <2>3, <2>4, <2>6, <2>7 DEF Waits
    <2>9. part.to \in Nat /\ part.to <= rest.at + rest.room
      BY <1>7, <1>9, <2>3, <2>6
    <2>10. rest.at \in Size /\ rest.room \in Size
      BY DEF Registers, IsBuffer
    <2>11. goal.to \in Nat /\ goal.to <= c.at + c.room
      BY <1>4, <2>4
    <2>12. Reads(bytes, Goal("chunk", Invalid, rest.at, part.to), part.expr)
      BY <2>3, <2>6
    <2> QED BY <1>1, <1>2, <1>3, <2>5, <2>8, <2>9, <2>10, <2>11, <2>12, CallOn
  <1> QED BY <1>10, <1>11 DEF Called

LEMMA StepOn ==
  ASSUME Registers, SoundSoFar, NEW expr, OnItsWay(expr), ReadStep
  PROVE  OnItsWay(expr)'
  <1>1. CASE cur.pc = "root"
    <2>1. BinaryFinish
      BY <1>1 DEF ReadStep, ChunkTooSmall, ReadHeader, SizeByte, SizeUnended,
           TypeOutside, TypeHeld, ReadNull, ReadValue, ReadBinary, UnknownCompression, UnknownType,
           OpenArray, OpenMap, Element, Key, NextChunk, ChildFailed, ElementRead, KeyRead, ValueRead,
           CloseContainer
    <2> QED BY <1>1, <2>1 DEF BinaryFinish, OnItsWay
  <1>2. CASE cur.pc # "root"
    <2>1. cur.pc \in Points /\ cur.pc # "undefined"
      BY ChunkFields DEF Registers, OnItsWay
    <2>2. cur.pc \in {"chunk", "size"} \/ cur.pc = "type" \/ cur.pc \in Loop \/ cur.pc \in Called
      BY <1>2, <2>1 DEF Points, Heads
    <2> QED BY <2>2, HeaderStepOn, TypeStepOn, LoopStepOn, CalledStepOn
  <1> QED BY <1>1, <1>2

LEMMA InitOn ==
  ASSUME Starts, NEW expr, Denotes(bytes, expr)
  PROVE  OnItsWay(expr)
  <1>1. PICK n \in Nat : n <= Len(bytes) /\ Reads(bytes, Goal("chunk", Invalid, 0, n), expr)
    BY DEF Denotes
  <1>2. /\ bytes \in Seq(Byte) /\ Len(bytes) < Wrap /\ Len(bytes) \in Nat
        /\ cur = Chunk(0, Len(bytes)) /\ callers = <<Root>> /\ sound /\ error = "None"
        /\ result = Reading
    BY DEF Starts
  <1>3. 0 \in Size /\ Len(bytes) \in Size
    BY <1>2, BinaryAssumption DEF Size
  <1>4. /\ cur.pc = "chunk" /\ cur.at = 0 /\ cur.room = Len(bytes) /\ cur.width = 0 /\ cur.size = 0
    BY <1>2, <1>3, NewChunk DEF Chunk, Activation
  <1>5. Len(callers) = 1
    BY <1>2
  <1>6. PICK goals : goals = <<Spot(n, expr)>>
    OBVIOUS
  <1>7. goals[1].to = n /\ goals[1].expr = expr
    BY <1>6, SpotIs
  <1>8. Wanted(goals, expr)
    BY <1>5, <1>7 DEF Wanted
  <1>9. Agrees(goals[1])
    BY <1>1, <1>2, <1>4, <1>7 DEF Agrees, Left, Called
  <1> QED BY <1>2, <1>4, <1>8, <1>9 DEF OnItsWay

LEMMA BytesStay ==
  [ReadStep]_binaryVars => bytes' = bytes
  BY DEF binaryVars, ReadStep, ChunkTooSmall, ReadHeader, SizeByte, SizeUnended, TypeOutside,
       ReadNull, ReadValue, ReadBinary, UnknownCompression, UnknownType, OpenArray, OpenMap,
       Element, Key, NextChunk, ChildFailed, ElementRead, KeyRead, ValueRead,
       CloseContainer, BinaryFinish, Fail, Same

LEMMA StaysOn ==
  ASSUME Registers, SoundSoFar, NEW expr, OnItsWay(expr), [ReadStep]_binaryVars
  PROVE  OnItsWay(expr)'
  <1>1. CASE UNCHANGED binaryVars
    <2>1. /\ bytes' = bytes /\ cur' = cur /\ callers' = callers /\ rest' = rest /\ read' = read
          /\ error' = error /\ sound' = sound /\ result' = result
      BY <1>1 DEF binaryVars
    <2>2. ASSUME NEW goals, Wanted(goals, expr), Agrees(goals[1])
          PROVE  Wanted(goals, expr)' /\ Agrees(goals[1])'
      <3>1. Wanted(goals, expr)'
        BY <2>1, <2>2 DEF Wanted, Waits, Start
      <3>2. Agrees(goals[1])'
        BY <2>1, <2>2 DEF Agrees, Left, Waits, Start
      <3> QED BY <3>1, <3>2
    <2> QED BY <2>1, <2>2 DEF OnItsWay
  <1> QED BY <1>1, StepOn

(* The proof form of the reading half of ReadsBackBinary: any document that *)
(* has a meaning is read as what it means, whatever follows it.             *)
DocumentsMeanWhatIsRead ==
  Answered => \A expr : Denotes(bytes, expr) => result = expr
THEOREM DocumentsGetWhatTheyDenote == BinarySpec => []DocumentsMeanWhatIsRead
  <1> DEFINE Inv == \A expr : Denotes(bytes, expr) => OnItsWay(expr)
  <1>1. Starts => Inv
    BY InitOn
  <1>2. Registers /\ SoundSoFar /\ Inv /\ [ReadStep]_binaryVars => Inv'
    <2> SUFFICES ASSUME Registers, SoundSoFar, Inv, [ReadStep]_binaryVars,
                        NEW expr, Denotes(bytes, expr)'
                 PROVE  OnItsWay(expr)'
      OBVIOUS
    <2>1. Denotes(bytes, expr)
      BY BytesStay
    <2>2. OnItsWay(expr)
      BY <2>1
    <2> QED BY <2>2, StaysOn
  <1>3. Inv => DocumentsMeanWhatIsRead
    BY DEF DocumentsMeanWhatIsRead, Answered, OnItsWay
  <1> HIDE DEF Inv
  <1> QED BY <1>1, <1>2, <1>3, BinaryStarts, ErrorAtFirst, ErrorStaysOnItsWay, SoundnessAtFirst,
             SoundnessIsKept, RegistersKeepTheirWidth, PTL DEF BinarySpec
-----------------------------------------------------------------------------
(* v2_to_7 and the rest are powers, as far as ten digits go.                *)
LEMMA PowerIs ==
  /\ Power[0] = 1
  /\ \A n \in 1 .. 10 : Power[n] = Power[n - 1] * Radix
  /\ \A n \in 0 .. 10 : Power[n] \in Nat /\ Power[n] > 0
  <1> DEFINE Good(f, n) ==
        /\ f \in [0 .. n -> Nat] /\ f[0] = 1
        /\ \A i \in 1 .. n : f[i] = f[i - 1] * Radix
        /\ \A i \in 0 .. n : f[i] > 0
             Lacks == {n \in Nat : ~\E f : Good(f, n)}
  <1>1. Radix \in Nat /\ Radix > 0
    BY BinaryAssumption
  <1>2. Lacks = {}
    <2> SUFFICES ASSUME Lacks # {} PROVE FALSE
      OBVIOUS
    <2>1. PICK n \in Lacks : \A m \in Lacks : n <= m
      <3>1. Lacks \in SUBSET Nat
        OBVIOUS
      <3> HIDE DEF Lacks
      <3> QED BY <3>1, LeastOf
    <2>2. n # 0
      <3>1. Good([i \in 0 .. 0 |-> 1], 0)
        OBVIOUS
      <3> HIDE DEF Good
      <3>2. \E f : Good(f, 0)
        BY <3>1
      <3> QED BY <2>1, <3>2
    <2>3. n \in Nat /\ n - 1 \in Nat /\ n - 1 \notin Lacks
      <3>1. n \in Nat
        OBVIOUS
      <3>2. n - 1 \in Nat /\ ~(n <= n - 1)
        BY <2>2, <3>1
      <3> HIDE DEF Lacks
      <3> QED BY <2>1, <3>1, <3>2
    <2>4. PICK f : Good(f, n - 1)
      BY <2>3
    <2>5. PICK g : g = [i \in 0 .. n |-> IF i = n THEN f[n - 1] * Radix ELSE f[i]]
      OBVIOUS
    <2>6. \A i \in 0 .. n - 1 : g[i] = f[i] /\ f[i] \in Nat /\ f[i] > 0
      BY <2>3, <2>4, <2>5
    <2>7. g[n] = f[n - 1] * Radix /\ g[n] \in Nat /\ g[n] > 0
      <3>1. \A a, b \in Nat : a > 0 /\ b > 0 => a * b \in Nat /\ a * b > 0
        OBVIOUS
      <3>2. f[n - 1] \in Nat /\ f[n - 1] > 0
        BY <2>3, <2>6
      <3>3. g[n] = f[n - 1] * Radix
        BY <2>3, <2>5
      <3> QED BY <1>1, <3>1, <3>2, <3>3
    <2>8. Good(g, n)
      <3>0. \A i \in 0 .. n : g[i] \in Nat /\ g[i] > 0
        <4> TAKE i \in 0 .. n
        <4>1. i = n \/ i \in 0 .. n - 1
          BY <2>3
        <4> QED BY <2>6, <2>7, <4>1
      <3>1. g \in [0 .. n -> Nat]
        BY <2>5, <3>0
      <3>2. g[0] = 1
        BY <2>3, <2>4, <2>6
      <3>3. \A i \in 1 .. n : g[i] = g[i - 1] * Radix
        BY <2>3, <2>4, <2>6, <2>7
      <3>4. \A i \in 0 .. n : g[i] > 0
        BY <3>0
      <3> QED BY <3>1, <3>2, <3>3, <3>4
    <2> QED BY <2>1, <2>8
  <1>3. PICK f : Good(f, 10)
    <2>1. 10 \notin Lacks
      BY <1>2
    <2> QED BY <2>1
  <1>4. f = [n \in 0 .. 10 |-> IF n = 0 THEN 1 ELSE f[n - 1] * Radix]
    <2>1. \A n \in 0 .. 10 : f[n] = IF n = 0 THEN 1 ELSE f[n - 1] * Radix
      BY <1>3
    <2>2. f \in [0 .. 10 -> Nat]
      BY <1>3
    <2> QED BY <2>1, <2>2
  <1>5. Power = [n \in 0 .. 10 |-> IF n = 0 THEN 1 ELSE Power[n - 1] * Radix]
    BY <1>4 DEF Power
  <1>6. Power[0] = 1 /\ \A n \in 1 .. 10 : Power[n] = Power[n - 1] * Radix
    <2> DEFINE p == Power
    <2>1. p = [n \in 0 .. 10 |-> IF n = 0 THEN 1 ELSE p[n - 1] * Radix]
      BY <1>5
    <2> HIDE DEF p
    <2>2. p[0] = 1 /\ \A n \in 1 .. 10 : p[n] = p[n - 1] * Radix
      BY <2>1
    <2> QED BY <2>2 DEF p
  <1>7. \A n \in 0 .. 10 : Power[n] = f[n]
    <2> DEFINE Differ == {n \in Nat : n <= 10 /\ Power[n] # f[n]}
    <2> SUFFICES ASSUME Differ # {} PROVE FALSE
      OBVIOUS
    <2>1. PICK n \in Differ : \A m \in Differ : n <= m
      <3>1. Differ \in SUBSET Nat
        OBVIOUS
      <3> HIDE DEF Differ
      <3> QED BY <3>1, LeastOf
    <2>2. n \in Nat /\ n <= 10 /\ Power[n] # f[n]
      OBVIOUS
    <2>3. n # 0
      BY <1>3, <1>6, <2>2
    <2>4. n - 1 \in Nat /\ n - 1 \notin Differ
      BY <2>1, <2>2, <2>3
    <2>5. Power[n - 1] = f[n - 1]
      BY <2>2, <2>4
    <2>6. n \in 1 .. 10
      BY <2>2, <2>3
    <2>7. Power[n] = Power[n - 1] * Radix /\ f[n] = f[n - 1] * Radix
      BY <1>3, <1>6, <2>6
    <2> QED BY <2>2, <2>5, <2>7
  <1> QED BY <1>3, <1>6, <1>7

LEMMA BytesizeIs ==
  ASSUME NEW size \in Nat
  PROVE  bytesize(size) \in 1 .. 10 /\ (size < Power[10] => size < Power[bytesize(size)])
  <1> DEFINE Fit == {n \in Nat : n \in 1 .. 10 /\ (n = 10 \/ size < Power[n])}
  <1>1. PICK n \in Fit : \A m \in Fit : n <= m
    <2>1. 10 \in Fit
      OBVIOUS
    <2>2. Fit \in SUBSET Nat /\ Fit # {}
      BY <2>1
    <2> HIDE DEF Fit
    <2> QED BY <2>2, LeastOf
  <1>2. n \in 1 .. 10 /\ (n = 10 \/ size < Power[n])
    OBVIOUS
  <1>3. n = 1 \/ size >= Power[n - 1]
    <2> SUFFICES ASSUME n # 1 PROVE size >= Power[n - 1]
      OBVIOUS
    <2>1. n - 1 \in 1 .. 10 /\ ~(n <= n - 1)
      BY <1>2
    <2>2. n - 1 \notin Fit
      BY <1>1, <2>1
    <2>3. ~(size < Power[n - 1]) /\ Power[n - 1] \in Nat
      BY <2>1, <2>2, PowerIs
    <2> QED BY <2>3
  <1>4. bytesize(size) = CHOOSE m \in 1 .. 10 : (m = 10 \/ size < Power[m]) /\ (m = 1 \/ size >= Power[m - 1])
    BY DEF bytesize
  <1> QED BY <1>2, <1>3, <1>4

(* The digits that are written stand for the size.                          *)
LEMMA DigitsOf ==
  ASSUME NEW size \in Nat, size < Power[10], NEW doc, NEW from \in Nat,
         from + bytesize(size) <= Len(doc),
         \A j \in 1 .. bytesize(size) : doc[from + j] = uvlq64(size)[j]
  PROVE  \E value : DigitsAre(doc, from, bytesize(size), value, size)
  <1> DEFINE n == bytesize(size)
             value == [j \in 0 .. n |-> size \div Power[n - j]]
  <1>1. n \in 1 .. 10 /\ size < Power[n]
    BY BytesizeIs
  <1>2. Radix \in Nat /\ Radix > 0
    BY BinaryAssumption
  <1>3. uvlq64(size) = [j \in 1 .. n |-> (IF j < n THEN Radix ELSE 0) + ((size \div Power[n - j]) % Radix)]
    BY DEF uvlq64
  <1>4. \A j \in 1 .. n : doc[from + j] = uvlq64(size)[j]
    OBVIOUS
  <1> HIDE DEF n
  <1>5. \A j \in 0 .. n : Power[n - j] \in Nat /\ Power[n - j] > 0
    <2>1. \A j \in 0 .. n : n - j \in 0 .. 10
      BY <1>1
    <2> QED BY <2>1, PowerIs
  <1>6. \A a, b \in Nat : b > 0 => a \div b \in Nat
    OBVIOUS
  <1>7. \A j \in 0 .. n : value[j] = size \div Power[n - j] /\ value[j] \in Nat
    BY <1>5, <1>6
  <1>8. value[0] = 0
    <2>1. \A a, b \in Nat : a < b => a \div b = 0
      OBVIOUS
    <2>2. 0 \in 0 .. n /\ n - 0 = n
      BY <1>1
    <2>3. value[0] = size \div Power[n] /\ Power[n] \in Nat
      BY <1>5, <1>7, <2>2
    <2> QED BY <1>1, <2>1, <2>3
  <1>9. value[n] = size
    <2>1. n \in 0 .. n /\ n - n = 0
      BY <1>1
    <2>2. value[n] = size \div Power[0]
      BY <1>7, <2>1
    <2>3. size \div 1 = size
      OBVIOUS
    <2> QED BY <2>2, <2>3, PowerIs
  <1>10. value \in [0 .. n -> Nat]
    BY <1>7
  <1> HIDE DEF value
  <1>11. ASSUME NEW j \in 1 .. n
         PROVE  /\ value[j] = (value[j - 1] * Radix) + (doc[from + j] % Radix)
                /\ doc[from + j] < Radix <=> j = n
    <2>1. j \in 0 .. n /\ j - 1 \in 0 .. n
      BY <1>1
    <2>2. PICK p \in Nat : p = Power[n - j] /\ p > 0
      BY <1>5, <2>1
    <2>3. Power[n - (j - 1)] = p * Radix
      <3>1. n - (j - 1) \in 1 .. 10 /\ (n - (j - 1)) - 1 = n - j
        <4>1. \A a \in 1 .. 10 : \A b \in 1 .. a : a - (b - 1) \in 1 .. 10 /\ (a - (b - 1)) - 1 = a - b
          OBVIOUS
        <4> QED BY <1>1, <4>1
      <3> QED BY <2>2, <3>1, PowerIs
    <2>4. value[j] = size \div p /\ value[j] \in Nat
      BY <1>7, <2>1, <2>2
    <2>5. value[j - 1] = size \div (p * Radix)
      BY <1>7, <2>1, <2>3
    <2>6. size \div (p * Radix) = (size \div p) \div Radix
      <3>1. \A a, b, c \in Nat : b > 0 /\ c > 0 => a \div (b * c) = (a \div b) \div c
        OBVIOUS
      <3> QED BY <1>2, <2>2, <3>1
    <2>7. PICK v \in Nat : v = value[j]
      BY <2>4
    <2>8. value[j - 1] = v \div Radix
      BY <2>4, <2>5, <2>6, <2>7
    <2>9. v = ((v \div Radix) * Radix) + (v % Radix) /\ v % Radix \in Nat /\ v % Radix < Radix
      BY <1>2
    <2>10. doc[from + j] = (IF j < n THEN Radix ELSE 0) + (v % Radix)
      BY <1>3, <1>4, <2>2, <2>4, <2>7
    <2>11. (Radix + (v % Radix)) % Radix = v % Radix /\ (v % Radix) % Radix = v % Radix
      BY <1>2, <2>9
    <2>12. CASE j = n
      <3>1. doc[from + j] = v % Radix
        BY <2>9, <2>10, <2>12, <1>1
      <3> QED BY <2>7, <2>8, <2>9, <2>11, <2>12, <3>1
    <2>13. CASE j # n
      <3>1. doc[from + j] = Radix + (v % Radix)
        BY <2>10, <2>13, <1>1
      <3>2. ~(doc[from + j] < Radix)
        BY <1>2, <2>9, <3>1
      <3>3. doc[from + j] % Radix = v % Radix
        BY <2>11, <3>1
      <3> QED BY <2>7, <2>8, <2>9, <2>13, <3>2, <3>3
    <2> QED BY <2>12, <2>13
  <1>12. n \in Nat /\ n > 0 /\ from + n <= Len(doc)
    BY <1>1 DEF n
  <1>13. DigitsAre(doc, from, n, value, size)
    BY <1>8, <1>9, <1>10, <1>11, <1>12 DEF DigitsAre
  <1> QED BY <1>13 DEF n

(* The bytes of a chunk.                                                    *)
LEMMA ChunkIs ==
  ASSUME NEW type \in Byte, NEW data \in Seq(Byte)
  PROVE  LET n == bytesize(Len(data))
             chunk == ChunkOf(type, data)
         IN  /\ n \in 1 .. 10 /\ chunk \in Seq(Byte) /\ Len(chunk) = n + 1 + Len(data)
             /\ chunk[n + 1] = type
             /\ \A j \in 1 .. Len(data) : chunk[n + 1 + j] = data[j]
             /\ Len(data) < Power[10] => \E value : DigitsAre(chunk, 0, n, value, Len(data))
  <1> DEFINE n == bytesize(Len(data))
             digits == uvlq64(Len(data))
             chunk == ChunkOf(type, data)
  <1>1. n \in 1 .. 10 /\ Len(data) \in Nat
    BY BytesizeIs
  <1>2. digits \in Seq(Byte) /\ Len(digits) = n
    <2>1. digits = [j \in 1 .. n |-> (IF j < n THEN Radix ELSE 0) + ((Len(data) \div Power[n - j]) % Radix)]
      BY DEF uvlq64
    <2>2. \A j \in 1 .. n : (IF j < n THEN Radix ELSE 0) + ((Len(data) \div Power[n - j]) % Radix) \in Byte
      <3> TAKE j \in 1 .. n
      <3>1. n - j \in 0 .. 10
        BY <1>1
      <3>2. Power[n - j] \in Nat /\ Power[n - j] > 0
        BY <3>1, PowerIs
      <3>3. \A a, b \in Nat : b > 0 => a \div b \in Nat
        OBVIOUS
      <3>4. Len(data) \div Power[n - j] \in Nat
        BY <1>1, <3>2, <3>3
      <3>5. PICK digit \in Nat : digit = (Len(data) \div Power[n - j]) % Radix /\ digit < Radix
        BY <3>4, BinaryAssumption
      <3>6. digit \in Byte /\ Radix + digit \in Byte
        BY <3>5, BinaryAssumption DEF Byte
      <3> QED BY <3>5, <3>6
    <2> HIDE DEF digits, n
    <2>3. digits \in [1 .. n -> Byte]
      BY <2>1, <2>2
    <2> QED BY <1>1, <2>3
  <1>3. chunk = digits \o <<type>> \o data
    BY DEF ChunkOf
  <1> HIDE DEF digits, chunk
  <1>4. /\ chunk \in Seq(Byte) /\ Len(chunk) = n + 1 + Len(data)
        /\ \A j \in 1 .. n : chunk[j] = digits[j]
        /\ chunk[n + 1] = type
        /\ \A j \in 1 .. Len(data) : chunk[n + 1 + j] = data[j]
    <2> HIDE DEF n
    <2> DEFINE head == digits \o <<type>>
    <2>1. /\ head \in Seq(Byte) /\ Len(head) = n + 1
          /\ \A j \in 1 .. n : head[j] = digits[j]
          /\ head[n + 1] = type
      BY <1>1, <1>2
    <2>2. chunk = head \o data
      BY <1>3
    <2> HIDE DEF head
    <2>3. /\ chunk \in Seq(Byte) /\ Len(chunk) = n + 1 + Len(data)
          /\ \A j \in 1 .. n + 1 : chunk[j] = head[j]
          /\ \A j \in 1 .. Len(data) : chunk[n + 1 + j] = data[j]
      <3>1. /\ chunk \in Seq(Byte) /\ Len(chunk) = Len(head) + Len(data)
            /\ \A i \in 1 .. Len(head) + Len(data) :
                 chunk[i] = IF i <= Len(head) THEN head[i] ELSE data[i - Len(head)]
        <4>1. head \in Seq(Byte) /\ data \in Seq(Byte)
          BY <2>1
        <4>2. /\ head \o data \in Seq(Byte) /\ Len(head \o data) = Len(head) + Len(data)
              /\ \A i \in 1 .. Len(head) + Len(data) :
                   (head \o data)[i] = IF i <= Len(head) THEN head[i] ELSE data[i - Len(head)]
          BY <4>1, ConcatProperties
        <4> QED BY <2>2, <4>2
      <3>2. \A j \in 1 .. n + 1 : j \in 1 .. Len(head) + Len(data) /\ j <= Len(head)
        BY <1>1, <2>1
      <3>3. \A j \in 1 .. Len(data) :
              /\ n + 1 + j \in 1 .. Len(head) + Len(data) /\ ~(n + 1 + j <= Len(head))
              /\ (n + 1 + j) - Len(head) = j
        BY <1>1, <2>1
      <3> QED BY <1>1, <2>1, <3>1, <3>2, <3>3
    <2> QED BY <1>1, <2>1, <2>3
  <1>5. Len(data) < Power[10] => \E value : DigitsAre(chunk, 0, n, value, Len(data))
    <2>1. 0 + n <= Len(chunk)
      BY <1>1, <1>4
    <2>2. \A j \in 1 .. n : chunk[0 + j] = digits[j]
      BY <1>1, <1>4
    <2>3. /\ 0 + bytesize(Len(data)) <= Len(chunk)
          /\ \A j \in 1 .. bytesize(Len(data)) : chunk[0 + j] = uvlq64(Len(data))[j]
      BY <2>1, <2>2 DEF digits
    <2> HIDE DEF n
    <2>4. Len(data) < Power[10] => \E value : DigitsAre(chunk, 0, bytesize(Len(data)), value, Len(data))
      BY <1>1, <2>3, DigitsOf
    <2> QED BY <2>4 DEF n
  <1> QED BY <1>1, <1>4, <1>5 DEF digits, chunk

-----------------------------------------------------------------------------
(* What parts of a document mean, the whole of it means.                    *)
LEMMA RulesGrow ==
  ASSUME NEW D, NEW E, D \subseteq E, NEW doc, NEW goal, NEW expr, Gives(D, doc, goal, expr)
  PROVE  Gives(E, doc, goal, expr)
  <1>1. CASE goal.want = "chunk"
    BY <1>1 DEF Gives, Rule, ChunkRule, DataRule
  <1>2. CASE goal.want = "elements"
    BY <1>2 DEF Gives, Rule, ElementsRule
  <1>3. CASE goal.want = "pairs"
    BY <1>3 DEF Gives, Rule, PairsRule
  <1> QED BY <1>1, <1>2, <1>3 DEF Gives, Rule

LEMMA DerivationsJoin ==
  ASSUME NEW doc, NEW D, NEW E, Derivation(D, doc), Derivation(E, doc)
  PROVE  Derivation(D \cup E, doc)
  <1>1. D \subseteq D \cup E /\ E \subseteq D \cup E
    OBVIOUS
  <1>2. ASSUME NEW goal, NEW expr, <<goal, expr>> \in D
        PROVE  Gives(D \cup E, doc, goal, expr)
    <2>1. Gives(D, doc, goal, expr)
      BY <1>2 DEF Derivation
    <2> QED BY <1>1, <2>1, RulesGrow
  <1>3. ASSUME NEW goal, NEW expr, <<goal, expr>> \in E
        PROVE  Gives(D \cup E, doc, goal, expr)
    <2>1. Gives(E, doc, goal, expr)
      BY <1>3 DEF Derivation
    <2> QED BY <1>1, <2>1, RulesGrow
  <1> QED BY <1>2, <1>3 DEF Derivation

LEMMA DerivationGrows ==
  ASSUME NEW doc, NEW D, Derivation(D, doc), NEW goal, NEW expr, Gives(D, doc, goal, expr)
  PROVE  Reads(doc, goal, expr)
  <1> DEFINE E == D \cup {<<goal, expr>>}
  <1>1. D \subseteq E /\ <<goal, expr>> \in E
    OBVIOUS
  <1>2. \A g, e : <<g, e>> \in E => <<g, e>> \in D \/ (g = goal /\ e = expr)
    OBVIOUS
  <1> HIDE DEF E
  <1>3. ASSUME NEW g, NEW e, <<g, e>> \in D
        PROVE  Gives(E, doc, g, e)
    <2>1. Gives(D, doc, g, e)
      BY <1>3 DEF Derivation
    <2> QED BY <1>1, <2>1, RulesGrow
  <1>4. Gives(E, doc, goal, expr)
    BY <1>1, RulesGrow
  <1>5. Derivation(E, doc)
    BY <1>2, <1>3, <1>4 DEF Derivation
  <1> QED BY <1>1, <1>5 DEF Reads

(* A reading from readings of its parts.                                    *)
DataGives(D, doc, type, size, to, expr) ==
  DataRule(LAMBDA g, e : <<g, e>> \in D, doc, type, size, to, expr)

LEMMA ChunkIsRead ==
  ASSUME NEW doc, NEW from, NEW to, NEW expr, NEW width, NEW value, NEW size \in Size,
         DigitsAre(doc, from, width, value, size), DataReads(doc, from + width, size, to, expr)
  PROVE  Reads(doc, Goal("chunk", Invalid, from, to), expr)
  <1> DEFINE goal == Goal("chunk", Invalid, from, to)
  <1>1. goal.want = "chunk" /\ goal.from = from /\ goal.to = to
    BY GoalIs
  <1> HIDE DEF goal
  <1>2. \E D : Derivation(D, doc) /\ DataGives(D, doc, from + width, size, to, expr)
    <2>1. CASE \E g : Reads(doc, g, expr) /\ \A D : <<g, expr>> \in D =>
                                              DataGives(D, doc, from + width, size, to, expr)
      BY <2>1 DEF Reads
    <2>2. CASE DataGives({}, doc, from + width, size, to, expr)
      <3>1. Derivation({}, doc)
        BY DEF Derivation
      <3> QED BY <2>2, <3>1
    <2> QED BY <2>1, <2>2 DEF DataReads, DataRule, DataGives
  <1>5. PICK D : Derivation(D, doc) /\ DataGives(D, doc, from + width, size, to, expr)
    BY <1>2
  <1>3. Gives(D, doc, goal, expr)
    BY <1>1, <1>5 DEF Gives, Rule, ChunkRule, DataGives
  <1>4. Reads(doc, goal, expr)
    BY <1>3, <1>5, DerivationGrows
  <1> QED BY <1>4 DEF goal

LEMMA ElementsAreRead ==
  ASSUME NEW doc, NEW self, NEW from, NEW to, NEW expr, NEW mid \in Nat, NEW e,
         from < mid, mid <= to,
         Reads(doc, Goal("chunk", Invalid, from, mid), e),
         Reads(doc, Goal("elements", [self EXCEPT !.list = Append(@, e)], mid, to), expr)
  PROVE  Reads(doc, Goal("elements", self, from, to), expr)
  <1> DEFINE goal == Goal("elements", self, from, to)
             first == Goal("chunk", Invalid, from, mid)
             rest2 == Goal("elements", [self EXCEPT !.list = Append(@, e)], mid, to)
  <1>1. goal.want = "elements" /\ goal.from = from /\ goal.to = to /\ goal.self = self
    BY GoalIs
  <1>2. PICK D : Derivation(D, doc) /\ <<first, e>> \in D
    BY DEF Reads
  <1>3. PICK E : Derivation(E, doc) /\ <<rest2, expr>> \in E
    BY DEF Reads
  <1>4. PICK F : F = D \cup E
    OBVIOUS
  <1>5. Derivation(F, doc) /\ <<first, e>> \in F /\ <<rest2, expr>> \in F
    BY <1>2, <1>3, <1>4, DerivationsJoin
  <1> HIDE DEF goal
  <1>6. Gives(F, doc, goal, expr)
    BY <1>1, <1>5 DEF Gives, Rule, ElementsRule
  <1>7. Reads(doc, goal, expr)
    BY <1>5, <1>6, DerivationGrows
  <1> QED BY <1>7 DEF goal

LEMMA PairsAreRead ==
  ASSUME NEW doc, NEW self, NEW from, NEW to, NEW expr, NEW mid \in Nat, NEW k, NEW end \in Nat, NEW v,
         from < mid, mid < end, end <= to,
         Reads(doc, Goal("chunk", Invalid, from, mid), k), k.type = "Value",
         Reads(doc, Goal("chunk", Invalid, mid, end), v),
         Reads(doc, Goal("pairs", [self EXCEPT !.hash = Put(@, k.data, v)], end, to), expr)
  PROVE  Reads(doc, Goal("pairs", self, from, to), expr)
  <1> DEFINE goal == Goal("pairs", self, from, to)
             key == Goal("chunk", Invalid, from, mid)
             datum == Goal("chunk", Invalid, mid, end)
             rest2 == Goal("pairs", [self EXCEPT !.hash = Put(@, k.data, v)], end, to)
  <1>1. goal.want = "pairs" /\ goal.from = from /\ goal.to = to /\ goal.self = self
    BY GoalIs
  <1>2. PICK D : Derivation(D, doc) /\ <<key, k>> \in D
    BY DEF Reads
  <1>3. PICK E : Derivation(E, doc) /\ <<datum, v>> \in E
    BY DEF Reads
  <1>4. PICK F : Derivation(F, doc) /\ <<rest2, expr>> \in F
    BY DEF Reads
  <1>5. PICK G : G = (D \cup E) \cup F
    OBVIOUS
  <1>6. Derivation(G, doc) /\ <<key, k>> \in G /\ <<datum, v>> \in G /\ <<rest2, expr>> \in G
    <2>1. Derivation(D \cup E, doc)
      BY <1>2, <1>3, DerivationsJoin
    <2>2. Derivation(G, doc)
      BY <1>4, <1>5, <2>1, DerivationsJoin
    <2> QED BY <1>2, <1>3, <1>4, <1>5, <2>2
  <1> HIDE DEF goal
  <1>7. Gives(G, doc, goal, expr)
    BY <1>1, <1>6 DEF Gives, Rule, PairsRule
  <1>8. Reads(doc, goal, expr)
    BY <1>6, <1>7, DerivationGrows
  <1> QED BY <1>8 DEF goal

LEMMA NoneIsRead ==
  ASSUME NEW doc, NEW want \in Loop, NEW self, NEW at
  PROVE  Reads(doc, Goal(want, self, at, at), self)
  <1> DEFINE goal == Goal(want, self, at, at)
  <1>1. goal.want = want /\ goal.from = at /\ goal.to = at /\ goal.self = self
    BY GoalIs
  <1> HIDE DEF goal
  <1>2. Derivation({}, doc)
    BY DEF Derivation
  <1>3. Gives({}, doc, goal, self)
    BY <1>1 DEF Gives, Rule, ElementsRule, PairsRule, Loop
  <1>4. Reads(doc, goal, self)
    BY <1>2, <1>3, DerivationGrows
  <1> QED BY <1>4 DEF goal

-----------------------------------------------------------------------------
(* A document inside another one means the same there.                      *)
Lies(doc, doc2, k) ==
  /\ doc \in Seq(Byte) /\ doc2 \in Seq(Byte) /\ k \in Nat /\ k + Len(doc) <= Len(doc2)
  /\ \A j \in 1 .. Len(doc) : doc2[k + j] = doc[j]

Moves(D, E, last, k) ==
  \A want, self, expr : \A from, to \in Nat :
    to <= last /\ <<Goal(want, self, from, to), expr>> \in D
      => <<Goal(want, self, from + k, to + k), expr>> \in E

SameBytes(doc, doc2, k, a, b) == SubSeq(doc2, a + k + 1, b + k) = SubSeq(doc, a + 1, b)

LEMMA BytesMove ==
  ASSUME NEW doc, NEW doc2, NEW k, Lies(doc, doc2, k),
         NEW a \in Nat, NEW b \in Nat, a <= b, b <= Len(doc)
  PROVE  SameBytes(doc, doc2, k, a, b)
  <1>1. /\ doc \in Seq(Byte) /\ doc2 \in Seq(Byte) /\ k \in Nat /\ k + Len(doc) <= Len(doc2)
        /\ \A j \in 1 .. Len(doc) : doc2[k + j] = doc[j]
    BY DEF Lies
  <1>2. /\ SubSeq(doc, a + 1, b) \in Seq(Byte) /\ Len(SubSeq(doc, a + 1, b)) = b - a
        /\ \A i \in 1 .. b - a : SubSeq(doc, a + 1, b)[i] = doc[a + i]
    <2>1. \A i \in a + 1 .. b : doc[i] \in Byte
      BY <1>1
    <2>2. /\ SubSeq(doc, a + 1, b) \in Seq(Byte)
          /\ Len(SubSeq(doc, a + 1, b)) = IF a + 1 <= b THEN b - (a + 1) + 1 ELSE 0
          /\ \A i \in 1 .. b - (a + 1) + 1 : SubSeq(doc, a + 1, b)[i] = doc[(a + 1) + i - 1]
      <3>1. a + 1 \in Int /\ b \in Int
        OBVIOUS
      <3> QED BY <2>1, <3>1, SubSeqProperties
    <2>3. b - (a + 1) + 1 = b - a /\ \A i \in Nat : (a + 1) + i - 1 = a + i
      OBVIOUS
    <2> QED BY <2>2, <2>3
  <1>3. /\ SubSeq(doc2, a + k + 1, b + k) \in Seq(Byte) /\ Len(SubSeq(doc2, a + k + 1, b + k)) = b - a
        /\ \A i \in 1 .. b - a : SubSeq(doc2, a + k + 1, b + k)[i] = doc2[k + (a + i)]
    <2>1. \A i \in a + k + 1 .. b + k : doc2[i] \in Byte
      BY <1>1
    <2>2. /\ SubSeq(doc2, a + k + 1, b + k) \in Seq(Byte)
          /\ Len(SubSeq(doc2, a + k + 1, b + k)) = IF a + k + 1 <= b + k THEN (b + k) - (a + k + 1) + 1 ELSE 0
          /\ \A i \in 1 .. (b + k) - (a + k + 1) + 1 :
               SubSeq(doc2, a + k + 1, b + k)[i] = doc2[(a + k + 1) + i - 1]
      <3>1. a + k + 1 \in Int /\ b + k \in Int
        BY <1>1
      <3> QED BY <2>1, <3>1, SubSeqProperties
    <2>3. (b + k) - (a + k + 1) + 1 = b - a /\ \A i \in Nat : (a + k + 1) + i - 1 = k + (a + i)
      BY <1>1
    <2>4. (a + k + 1 <= b + k) <=> a < b
      BY <1>1
    <2> QED BY <2>2, <2>3, <2>4
  <1>4. \A i \in 1 .. b - a : a + i \in 1 .. Len(doc)
    BY <1>1
  <1>5. \A i \in 1 .. b - a : SubSeq(doc2, a + k + 1, b + k)[i] = SubSeq(doc, a + 1, b)[i]
    BY <1>1, <1>2, <1>3, <1>4
  <1> DEFINE s == SubSeq(doc, a + 1, b)
             t == SubSeq(doc2, a + k + 1, b + k)
  <1>6. s \in Seq(Byte) /\ t \in Seq(Byte) /\ Len(s) = Len(t) /\ \A i \in 1 .. Len(s) : s[i] = t[i]
    BY <1>2, <1>3, <1>5
  <1> HIDE DEF s, t
  <1>7. s = t
    BY <1>6, SeqEqual
  <1> QED BY <1>7 DEF s, t, SameBytes

LEMMA DigitsMove ==
  ASSUME NEW doc, NEW doc2, NEW k, Lies(doc, doc2, k),
         NEW from \in Nat, NEW width, NEW value, NEW size, DigitsAre(doc, from, width, value, size)
  PROVE  DigitsAre(doc2, from + k, width, value, size)
  <1>1. /\ doc \in Seq(Byte) /\ doc2 \in Seq(Byte) /\ k \in Nat /\ k + Len(doc) <= Len(doc2)
        /\ \A j \in 1 .. Len(doc) : doc2[k + j] = doc[j]
    BY DEF Lies
  <1>2. width \in Nat /\ from + width <= Len(doc)
    BY DEF DigitsAre
  <1>3. \A j \in 1 .. width : doc2[(from + k) + j] = doc[from + j]
    <2> TAKE j \in 1 .. width
    <2>1. from + j \in 1 .. Len(doc) /\ (from + k) + j = k + (from + j)
      <3>1. PICK len \in Nat : len = Len(doc)
        BY <1>1
      <3>2. k \in Nat /\ width \in Nat /\ from + width <= len
        BY <1>1, <1>2, <3>1
      <3> QED BY ONLY <3>1, <3>2, from \in Nat, j \in 1 .. width
    <2> QED BY <1>1, <2>1
  <1>4. (from + k) + width <= Len(doc2)
    BY <1>1, <1>2
  <1> QED BY <1>3, <1>4 DEF DigitsAre

LEMMA DataMoves ==
  ASSUME NEW doc, NEW doc2, NEW k, Lies(doc, doc2, k), NEW D, NEW E, Moves(D, E, Len(doc), k),
         NEW type \in Nat, NEW size \in Nat, NEW to \in Nat, to <= Len(doc), NEW expr,
         DataGives(D, doc, type, size, to, expr)
  PROVE  DataGives(E, doc2, type + k, size, to + k, expr)
  <1>1. /\ doc \in Seq(Byte) /\ doc2 \in Seq(Byte) /\ k \in Nat /\ k + Len(doc) <= Len(doc2)
        /\ \A j \in 1 .. Len(doc) : doc2[k + j] = doc[j]
    BY DEF Lies
  <1>2. PICK data \in Nat : data = type + 1
    OBVIOUS
  <1>3. (type + k) + 1 = data + k /\ data > 0
    BY <1>1, <1>2
  <1>4. data <= to
    BY <1>2 DEF DataGives, DataRule
  <1>5. doc2[data + k] = doc[data]
    <2>1. data \in 1 .. Len(doc) /\ k + data = data + k
      BY <1>1, <1>3, <1>4
    <2> QED BY <1>1, <2>1
  <1>6. data + k <= to + k
    BY <1>1, <1>4
  <1>7. to = data + size => to + k = (data + k) + size
    BY <1>1
  <1>8. CASE doc[data] = 0 /\ to = data /\ expr = Null
    BY <1>3, <1>5, <1>6, <1>8 DEF DataGives, DataRule
  <1>9. CASE doc[data] = 1 /\ to = data + size /\ expr = Value(CString(SubSeq(doc, data + 1, to)))
    <2>1. SubSeq(doc2, data + k + 1, to + k) = SubSeq(doc, data + 1, to)
      <3>1. SameBytes(doc, doc2, k, data, to)
        BY <1>4, BytesMove
      <3> QED BY <3>1 DEF SameBytes
    <2>2. expr = Value(CString(SubSeq(doc2, (data + k) + 1, to + k)))
      BY <1>9, <2>1
    <2> QED BY <1>3, <1>5, <1>6, <1>7, <1>9, <2>2 DEF DataGives, DataRule
  <1>10. CASE doc[data] = 2 /\ to = data + size /\ <<Goal("elements", Array(<<>>), data, to), expr>> \in D
    <2>1. <<Goal("elements", Array(<<>>), data + k, to + k), expr>> \in E
      BY <1>10 DEF Moves
    <2> QED BY <1>3, <1>5, <1>6, <1>7, <1>10, <2>1 DEF DataGives, DataRule
  <1>11. CASE doc[data] = 3 /\ to = data + size /\ <<Goal("pairs", Map(<<>>), data, to), expr>> \in D
    <2>1. <<Goal("pairs", Map(<<>>), data + k, to + k), expr>> \in E
      BY <1>11 DEF Moves
    <2> QED BY <1>3, <1>5, <1>6, <1>7, <1>11, <2>1 DEF DataGives, DataRule
  <1>12. CASE /\ doc[data] = 4 /\ to = data + size /\ size > 0 /\ doc[data + 1] = 0
              /\ expr = BinaryData(SubSeq(doc, data + 2, to))
    <2>1. PICK first \in Nat : first = data + 1 /\ first <= to
      BY <1>12
    <2>2. SubSeq(doc2, first + k + 1, to + k) = SubSeq(doc, first + 1, to)
      <3>1. SameBytes(doc, doc2, k, first, to)
        BY <2>1, BytesMove
      <3> QED BY <3>1 DEF SameBytes
    <2>3. first + 1 = data + 2 /\ first + k + 1 = (data + k) + 2
      BY <1>1, <2>1
    <2>4. doc2[(data + k) + 1] = 0
      <3>1. data + 1 \in 1 .. Len(doc) /\ k + (data + 1) = (data + k) + 1
        BY <1>1, <2>1
      <3> QED BY <1>1, <1>12, <3>1
    <2>5. expr = BinaryData(SubSeq(doc2, (data + k) + 2, to + k))
      BY <1>12, <2>2, <2>3
    <2> QED BY <1>3, <1>5, <1>6, <1>7, <1>12, <2>4, <2>5 DEF DataGives, DataRule
  <1> QED BY <1>2, <1>8, <1>9, <1>10, <1>11, <1>12 DEF DataGives, DataRule

LEMMA GoalsDiffer ==
  ASSUME NEW w, NEW s, NEW f, NEW t, NEW w2, NEW s2, NEW f2, NEW t2
  PROVE  Goal(w, s, f, t) = Goal(w2, s2, f2, t2) => w = w2 /\ s = s2 /\ f = f2 /\ t = t2
  BY GoalIs

LEMMA ReadingsMove ==
  ASSUME NEW doc, NEW doc2, NEW k, Lies(doc, doc2, k), NEW want, NEW self,
         NEW from \in Nat, NEW to \in Nat, to <= Len(doc), NEW expr,
         Reads(doc, Goal(want, self, from, to), expr)
  PROVE  Reads(doc2, Goal(want, self, from + k, to + k), expr)
  <1>1. PICK D : Derivation(D, doc) /\ <<Goal(want, self, from, to), expr>> \in D
    BY DEF Reads
  <1> DEFINE Kept == {x \in D : \E w, s, e : \E f, t \in Nat : t <= Len(doc) /\ x = <<Goal(w, s, f, t), e>>}
             Moved(x) == <<Goal(x[1].want, x[1].self, x[1].from + k, x[1].to + k), x[2]>>
  <1>2. PICK E : E = {Moved(x) : x \in Kept}
    OBVIOUS
  <1>3. k \in Nat /\ Len(doc) \in Nat
    BY DEF Lies
  <1>4. ASSUME NEW w, NEW s, NEW e, NEW f, NEW t
        PROVE  Moved(<<Goal(w, s, f, t), e>>) = <<Goal(w, s, f + k, t + k), e>>
    BY GoalIs
  <1>5. Moves(D, E, Len(doc), k)
    <2> SUFFICES ASSUME NEW w, NEW s, NEW e, NEW f \in Nat, NEW t \in Nat,
                        t <= Len(doc), <<Goal(w, s, f, t), e>> \in D
                 PROVE  <<Goal(w, s, f + k, t + k), e>> \in E
      BY DEF Moves
    <2>1. <<Goal(w, s, f, t), e>> \in Kept
      OBVIOUS
    <2> HIDE DEF Kept, Moved
    <2>2. Moved(<<Goal(w, s, f, t), e>>) \in E
      BY <1>2, <2>1
    <2> QED BY <1>4, <2>2
  <1>6. ASSUME NEW goal, NEW e, <<goal, e>> \in E
        PROVE  \E w, s : \E f, t \in Nat :
                 t <= Len(doc) /\ goal = Goal(w, s, f + k, t + k) /\ <<Goal(w, s, f, t), e>> \in D
    <2>1. PICK x \in Kept : <<goal, e>> = Moved(x)
      <3> HIDE DEF Kept, Moved
      <3> QED BY <1>2, <1>6
    <2>2. PICK w, s, e2 : \E f, t \in Nat : t <= Len(doc) /\ x = <<Goal(w, s, f, t), e2>>
      BY <2>1
    <2>3. PICK f \in Nat, t \in Nat : t <= Len(doc) /\ x = <<Goal(w, s, f, t), e2>>
      BY <2>2
    <2>4. x \in D
      BY <2>1
    <2> HIDE DEF Kept, Moved
    <2>5. <<goal, e>> = <<Goal(w, s, f + k, t + k), e2>>
      BY <1>4, <2>1, <2>3
    <2>6. goal = Goal(w, s, f + k, t + k) /\ e = e2
      BY <2>5
    <2> QED BY <2>3, <2>4, <2>6
  <1> HIDE DEF Kept, Moved
  <1>7. ASSUME NEW goal, NEW e, <<goal, e>> \in E
        PROVE  Gives(E, doc2, goal, e)
    <2>1. PICK w, s : \E f, t \in Nat :
                 t <= Len(doc) /\ goal = Goal(w, s, f + k, t + k) /\ <<Goal(w, s, f, t), e>> \in D
      BY <1>6, <1>7
    <2>2. PICK f \in Nat, t \in Nat :
                 t <= Len(doc) /\ goal = Goal(w, s, f + k, t + k) /\ <<Goal(w, s, f, t), e>> \in D
      BY <2>1
    <2> DEFINE old == Goal(w, s, f, t)
    <2>3. Gives(D, doc, old, e)
      BY <1>1, <2>2 DEF Derivation
    <2>4. old.want = w /\ old.self = s /\ old.from = f /\ old.to = t
      BY GoalIs
    <2>5. goal.want = w /\ goal.self = s /\ goal.from = f + k /\ goal.to = t + k
      BY <2>2, GoalIs
    <2> HIDE DEF old
    <2>6. CASE w = "chunk"
      <3>1. PICK width, value, size :
              size \in Size /\ DigitsAre(doc, f, width, value, size) /\ DataGives(D, doc, f + width, size, t, e)
        BY <2>3, <2>4, <2>6 DEF Gives, Rule, ChunkRule, DataGives
      <3>2. DigitsAre(doc2, f + k, width, value, size)
        BY <3>1, DigitsMove
      <3>3. width \in Nat /\ size \in Nat
        BY <3>1, BinaryAssumption DEF Size, DigitsAre
      <3>4. PICK type \in Nat : type = f + width
        BY <3>3
      <3>5. DataGives(E, doc2, type + k, size, t + k, e)
        BY <1>5, <2>2, <3>1, <3>3, <3>4, DataMoves
      <3>6. type + k = (f + k) + width
        BY <1>3, <3>3, <3>4
      <3> QED BY <2>5, <2>6, <3>1, <3>2, <3>5, <3>6 DEF Gives, Rule, ChunkRule, DataGives
    <2>7. CASE w = "elements"
      <3>1. CASE f = t /\ e = s
        BY <2>5, <2>7, <3>1 DEF Gives, Rule, ElementsRule
      <3>2. CASE \E mid, e1 :
                   /\ mid \in Nat /\ f < mid /\ mid <= t
                   /\ <<Goal("chunk", Invalid, f, mid), e1>> \in D
                   /\ <<Goal("elements", [s EXCEPT !.list = Append(@, e1)], mid, t), e>> \in D
        <4>1. PICK mid, e1 :
                   /\ mid \in Nat /\ f < mid /\ mid <= t
                   /\ <<Goal("chunk", Invalid, f, mid), e1>> \in D
                   /\ <<Goal("elements", [s EXCEPT !.list = Append(@, e1)], mid, t), e>> \in D
          BY <3>2
        <4>2. mid <= Len(doc)
          BY <1>3, <2>2, <4>1
        <4>3. <<Goal("chunk", Invalid, f + k, mid + k), e1>> \in E
          BY <1>5, <4>1, <4>2 DEF Moves
        <4>4. <<Goal("elements", [s EXCEPT !.list = Append(@, e1)], mid + k, t + k), e>> \in E
          BY <1>5, <2>2, <4>1 DEF Moves
        <4>5. mid + k \in Nat /\ f + k < mid + k /\ mid + k <= t + k
          BY <1>3, <4>1
        <4> QED BY <2>5, <2>7, <4>3, <4>4, <4>5 DEF Gives, Rule, ElementsRule
      <3> QED BY <2>3, <2>4, <2>7, <3>1, <3>2 DEF Gives, Rule, ElementsRule
    <2>8. CASE w = "pairs"
      <3>1. CASE f = t /\ e = s
        BY <2>5, <2>8, <3>1 DEF Gives, Rule, PairsRule
      <3>2. CASE \E mid, k1, end, v :
                   /\ mid \in Nat /\ f < mid /\ mid < end /\ end \in Nat /\ end <= t
                   /\ <<Goal("chunk", Invalid, f, mid), k1>> \in D /\ k1.type = "Value"
                   /\ <<Goal("chunk", Invalid, mid, end), v>> \in D
                   /\ <<Goal("pairs", [s EXCEPT !.hash = Put(@, k1.data, v)], end, t), e>> \in D
        <4>1. PICK mid, k1, end, v :
                   /\ mid \in Nat /\ f < mid /\ mid < end /\ end \in Nat /\ end <= t
                   /\ <<Goal("chunk", Invalid, f, mid), k1>> \in D /\ k1.type = "Value"
                   /\ <<Goal("chunk", Invalid, mid, end), v>> \in D
                   /\ <<Goal("pairs", [s EXCEPT !.hash = Put(@, k1.data, v)], end, t), e>> \in D
          BY <3>2
        <4>2. mid <= Len(doc) /\ end <= Len(doc)
          BY <1>3, <2>2, <4>1
        <4>3. <<Goal("chunk", Invalid, f + k, mid + k), k1>> \in E
          BY <1>5, <4>1, <4>2 DEF Moves
        <4>4. <<Goal("chunk", Invalid, mid + k, end + k), v>> \in E
          BY <1>5, <4>1, <4>2 DEF Moves
        <4>5. <<Goal("pairs", [s EXCEPT !.hash = Put(@, k1.data, v)], end + k, t + k), e>> \in E
          BY <1>5, <2>2, <4>1 DEF Moves
        <4>6. mid + k \in Nat /\ f + k < mid + k /\ mid + k < end + k /\ end + k \in Nat /\ end + k <= t + k
          BY <1>3, <4>1
        <4> QED BY <2>5, <2>8, <4>1, <4>3, <4>4, <4>5, <4>6 DEF Gives, Rule, PairsRule
      <3> QED BY <2>3, <2>4, <2>8, <3>1, <3>2 DEF Gives, Rule, PairsRule
    <2> QED BY <2>3, <2>4, <2>6, <2>7, <2>8 DEF Gives, Rule
  <1>8. Derivation(E, doc2)
    BY <1>7 DEF Derivation
  <1>9. <<Goal(want, self, from + k, to + k), expr>> \in E
    BY <1>1, <1>5 DEF Moves
  <1> QED BY <1>8, <1>9 DEF Reads

-----------------------------------------------------------------------------
(* Where each of some documents lies in all of them, one behind the other.  *)
LEMMA LiesBehind ==
  ASSUME NEW head \in Seq(Byte), NEW doc \in Seq(Byte)
  PROVE  Lies(doc, head \o doc, Len(head))
  <1>1. /\ head \o doc \in Seq(Byte) /\ Len(head \o doc) = Len(head) + Len(doc)
        /\ \A i \in 1 .. Len(head) + Len(doc) :
             (head \o doc)[i] = IF i <= Len(head) THEN head[i] ELSE doc[i - Len(head)]
    BY ConcatProperties
  <1>2. Len(head) \in Nat /\ Len(doc) \in Nat
    BY LenProperties
  <1>3. \A j \in 1 .. Len(doc) :
          /\ Len(head) + j \in 1 .. Len(head) + Len(doc) /\ ~(Len(head) + j <= Len(head))
          /\ (Len(head) + j) - Len(head) = j
    BY <1>2
  <1> QED BY <1>1, <1>2, <1>3 DEF Lies

LEMMA LiesStill ==
  ASSUME NEW doc, NEW head \in Seq(Byte), NEW k, Lies(doc, head, k), NEW tail \in Seq(Byte)
  PROVE  Lies(doc, head \o tail, k)
  <1>1. /\ head \o tail \in Seq(Byte) /\ Len(head \o tail) = Len(head) + Len(tail)
        /\ \A i \in 1 .. Len(head) + Len(tail) :
             (head \o tail)[i] = IF i <= Len(head) THEN head[i] ELSE tail[i - Len(head)]
    BY ConcatProperties
  <1>2. /\ doc \in Seq(Byte) /\ k \in Nat /\ k + Len(doc) <= Len(head)
        /\ \A j \in 1 .. Len(doc) : head[k + j] = doc[j]
    BY DEF Lies
  <1>3. Len(head) \in Nat /\ Len(doc) \in Nat /\ Len(tail) \in Nat
    BY <1>2, LenProperties
  <1>4. \A j \in 1 .. Len(doc) : k + j \in 1 .. Len(head) + Len(tail) /\ k + j <= Len(head)
    BY <1>2, <1>3
  <1>5. k + Len(doc) <= Len(head) + Len(tail)
    BY <1>2, <1>3
  <1> QED BY <1>1, <1>2, <1>4, <1>5 DEF Lies

FlattensTo(docs, f) ==
  /\ f \in [0 .. Len(docs) -> Seq(Byte)] /\ f[0] = <<>>
  /\ \A i \in 1 .. Len(docs) : f[i] = f[i - 1] \o docs[i]

LEMMA SomeFlattening ==
  ASSUME NEW docs \in Seq(Seq(Byte))
  PROVE  \E f : FlattensTo(docs, f)
  <1> DEFINE Good(f, n) ==
        /\ f \in [0 .. n -> Seq(Byte)] /\ f[0] = <<>>
        /\ \A i \in 1 .. n : f[i] = f[i - 1] \o docs[i]
             Lacks == {n \in Nat : n <= Len(docs) /\ ~\E f : Good(f, n)}
  <1>1. /\ Len(docs) \in Nat
        /\ \A i \in 1 .. Len(docs) : docs[i] \in Seq(Byte)
    BY ElementOfSeq, LenProperties
  <1>2. Lacks = {}
    <2> SUFFICES ASSUME Lacks # {} PROVE FALSE
      OBVIOUS
    <2>1. PICK n \in Lacks : \A m \in Lacks : n <= m
      <3>1. Lacks \in SUBSET Nat
        OBVIOUS
      <3> HIDE DEF Lacks
      <3> QED BY <3>1, LeastOf
    <2>2. n # 0
      <3>1. Good([i \in 0 .. 0 |-> <<>>], 0)
        BY EmptySeq
      <3> HIDE DEF Good
      <3>2. \E f : Good(f, 0)
        BY <3>1
      <3> QED BY <2>1, <3>2
    <2>3. /\ n \in Nat /\ n <= Len(docs) /\ n - 1 \in Nat /\ n - 1 <= Len(docs)
          /\ n - 1 \notin Lacks /\ n \in 1 .. Len(docs)
      <3>1. n \in Nat /\ n <= Len(docs)
        OBVIOUS
      <3>2. n - 1 \in Nat /\ ~(n <= n - 1) /\ n \in 1 .. Len(docs) /\ n - 1 <= Len(docs)
        BY <1>1, <2>2, <3>1
      <3> HIDE DEF Lacks
      <3> QED BY <2>1, <3>1, <3>2
    <2>4. PICK f : Good(f, n - 1)
      <3> HIDE DEF Good
      <3> QED BY <2>3
    <2>5. PICK g : g = [i \in 0 .. n |-> IF i = n THEN f[n - 1] \o docs[n] ELSE f[i]]
      OBVIOUS
    <2>10. /\ f \in [0 .. n - 1 -> Seq(Byte)] /\ f[0] = <<>>
           /\ \A i \in 1 .. n - 1 : f[i] = f[i - 1] \o docs[i]
      BY <2>4
    <2>6. \A i \in 0 .. n - 1 : g[i] = f[i] /\ f[i] \in Seq(Byte)
      <3>1. \A i \in 0 .. n - 1 : i \in 0 .. n /\ i # n
        BY <2>3
      <3> QED BY <2>5, <2>10, <3>1
    <2>7. g[n] = f[n - 1] \o docs[n] /\ g[n] \in Seq(Byte)
      <3>1. f[n - 1] \in Seq(Byte) /\ docs[n] \in Seq(Byte)
        BY <1>1, <2>3, <2>6
      <3>2. g[n] = f[n - 1] \o docs[n]
        <4>1. n \in 0 .. n
          BY <2>3
        <4> QED BY <2>5, <4>1
      <3>3. f[n - 1] \o docs[n] \in Seq(Byte)
        BY <3>1, ConcatProperties
      <3> QED BY <3>2, <3>3
    <2>8. Good(g, n)
      <3>0. \A i \in 0 .. n : g[i] \in Seq(Byte)
        <4> TAKE i \in 0 .. n
        <4>1. i = n \/ i \in 0 .. n - 1
          BY <2>3
        <4> QED BY <2>6, <2>7, <4>1
      <3>1. g \in [0 .. n -> Seq(Byte)]
        BY <2>5, <3>0
      <3>2. g[0] = <<>>
        <4>1. 0 \in 0 .. n - 1
          BY <2>3
        <4> QED BY <2>6, <2>10, <4>1
      <3>3. \A i \in 1 .. n : g[i] = g[i - 1] \o docs[i]
        <4> TAKE i \in 1 .. n
        <4>1. i - 1 \in 0 .. n - 1 /\ (i = n \/ i \in 1 .. n - 1)
          BY <2>3
        <4>2. CASE i = n
          BY <2>6, <2>7, <4>1, <4>2
        <4>3. CASE i \in 1 .. n - 1
          <5>1. i \in 0 .. n - 1
            BY <4>3
          <5>2. f[i] = f[i - 1] \o docs[i]
            BY <2>10, <4>3
          <5> QED BY <2>6, <4>1, <5>1, <5>2
        <4> QED BY <4>1, <4>2, <4>3
      <3> QED BY <3>1, <3>2, <3>3
    <2> HIDE DEF Good
    <2> QED BY <2>1, <2>8
  <1>3. PICK f : Good(f, Len(docs))
    <2>1. Len(docs) \notin Lacks /\ Len(docs) <= Len(docs)
      <3> HIDE DEF Lacks
      <3> QED BY <1>1, <1>2
    <2> HIDE DEF Good
    <2> QED BY <1>1, <2>1
  <1>4. FlattensTo(docs, f)
    BY <1>3 DEF FlattensTo
  <1> QED BY <1>4

LEMMA FlattenIs ==
  ASSUME NEW docs \in Seq(Seq(Byte)), NEW f, FlattensTo(docs, f)
  PROVE  FlattenSeq(docs) = f[Len(docs)]
  <1>1. /\ Len(docs) \in Nat
        /\ \A i \in 1 .. Len(docs) : docs[i] \in Seq(Byte)
    BY ElementOfSeq, LenProperties
  <1>2. /\ f \in [0 .. Len(docs) -> Seq(Byte)] /\ f[0] = <<>>
        /\ \A i \in 1 .. Len(docs) : f[i] = f[i - 1] \o docs[i]
    BY DEF FlattensTo
  <1>3. CASE Len(docs) = 0
    <2>1. docs = <<>>
      BY <1>3, EmptySeq
    <2>2. FlattenSeq(docs) = docs
      BY <1>3 DEF FlattenSeq
    <2> QED BY <1>2, <1>3, <2>1, <2>2
  <1>4. CASE Len(docs) # 0
    <2> DEFINE flatten[i \in 1 .. Len(docs)] == IF i = 1 THEN docs[i] ELSE flatten[i - 1] \o docs[i]
    <2>1. FlattenSeq(docs) = flatten[Len(docs)]
      BY <1>4 DEF FlattenSeq
    <2>2. PICK g : g = [i \in 1 .. Len(docs) |-> f[i]]
      OBVIOUS
    <2>3. g = [i \in 1 .. Len(docs) |-> IF i = 1 THEN docs[i] ELSE g[i - 1] \o docs[i]]
      <3>1. \A i \in 1 .. Len(docs) : g[i] = IF i = 1 THEN docs[i] ELSE g[i - 1] \o docs[i]
        <4> TAKE i \in 1 .. Len(docs)
        <4>1. g[i] = f[i - 1] \o docs[i]
          BY <1>2, <2>2
        <4>2. CASE i = 1
          <5>1. f[i - 1] = <<>>
            BY <1>2, <4>2
          <5>2. <<>> \o docs[i] = docs[i]
            BY <1>1, ConcatEmptySeq
          <5> QED BY <4>1, <4>2, <5>1, <5>2
        <4>3. CASE i # 1
          <5>1. i - 1 \in 1 .. Len(docs)
            BY <1>1, <4>3
          <5>2. g[i - 1] = f[i - 1]
            BY <2>2, <5>1
          <5> QED BY <4>1, <4>3, <5>2
        <4> QED BY <4>2, <4>3
      <3> QED BY <2>2, <3>1
    <2>4. flatten = [i \in 1 .. Len(docs) |-> IF i = 1 THEN docs[i] ELSE flatten[i - 1] \o docs[i]]
      BY <2>3
    <2> HIDE DEF flatten
    <2> DEFINE Differ == {n \in Nat : n \in 1 .. Len(docs) /\ flatten[n] # f[n]}
    <2>5. Differ = {}
      <3> SUFFICES ASSUME Differ # {} PROVE FALSE
        OBVIOUS
      <3>1. PICK n \in Differ : \A m \in Differ : n <= m
        <4>1. Differ \in SUBSET Nat
          OBVIOUS
        <4> HIDE DEF Differ
        <4> QED BY <4>1, LeastOf
      <3>2. n \in 1 .. Len(docs) /\ flatten[n] # f[n]
        OBVIOUS
      <3>3. flatten[n] = IF n = 1 THEN docs[n] ELSE flatten[n - 1] \o docs[n]
        BY <2>4, <3>2
      <3>4. g[n] = IF n = 1 THEN docs[n] ELSE g[n - 1] \o docs[n]
        BY <2>3, <3>2
      <3>5. g[n] = f[n]
        BY <2>2, <3>2
      <3>6. n # 1
        BY <3>2, <3>3, <3>4, <3>5
      <3>7. n - 1 \in 1 .. Len(docs) /\ ~(n <= n - 1)
        BY <1>1, <3>2, <3>6
      <3>8. n - 1 \notin Differ
        BY <3>1, <3>7
      <3>9. flatten[n - 1] = f[n - 1] /\ g[n - 1] = f[n - 1]
        BY <2>2, <3>7, <3>8
      <3> QED BY <3>2, <3>3, <3>4, <3>5, <3>6, <3>9
    <2>6. Len(docs) \in 1 .. Len(docs)
      BY <1>1, <1>4
    <2>7. flatten[Len(docs)] = f[Len(docs)]
      BY <1>1, <2>5, <2>6
    <2> QED BY <2>1, <2>7
  <1> QED BY <1>3, <1>4

(* The positions of the documents in them all.                              *)
LEMMA PartsLie ==
  ASSUME NEW docs \in Seq(Seq(Byte))
  PROVE  /\ FlattenSeq(docs) \in Seq(Byte)
         /\ \E pos \in [0 .. Len(docs) -> Nat] :
              /\ pos[0] = 0 /\ pos[Len(docs)] = Len(FlattenSeq(docs))
              /\ \A i \in 1 .. Len(docs) :
                   /\ pos[i] = pos[i - 1] + Len(docs[i])
                   /\ Lies(docs[i], FlattenSeq(docs), pos[i - 1])
  <1>1. PICK f : FlattensTo(docs, f)
    BY SomeFlattening
  <1>2. FlattenSeq(docs) = f[Len(docs)]
    BY <1>1, FlattenIs
  <1>3. /\ f \in [0 .. Len(docs) -> Seq(Byte)] /\ f[0] = <<>>
        /\ \A i \in 1 .. Len(docs) : f[i] = f[i - 1] \o docs[i]
    BY <1>1 DEF FlattensTo
  <1>4. /\ Len(docs) \in Nat
        /\ \A i \in 1 .. Len(docs) : docs[i] \in Seq(Byte)
    BY ElementOfSeq, LenProperties
  <1> DEFINE Bad == {n \in Nat : n <= Len(docs) /\ \E i \in 1 .. n : ~Lies(docs[i], f[n], Len(f[i - 1]))}
  <1>5. Bad = {}
    <2> SUFFICES ASSUME Bad # {} PROVE FALSE
      OBVIOUS
    <2>1. PICK n \in Bad : \A m \in Bad : n <= m
      <3>1. Bad \in SUBSET Nat
        OBVIOUS
      <3> HIDE DEF Bad
      <3> QED BY <3>1, LeastOf
    <2>2. n \in Nat /\ n <= Len(docs)
      OBVIOUS
    <2>3. PICK i \in 1 .. n : ~Lies(docs[i], f[n], Len(f[i - 1]))
      OBVIOUS
    <2>4. n - 1 \in Nat /\ ~(n <= n - 1) /\ n - 1 <= Len(docs) /\ n \in 1 .. Len(docs) /\ n - 1 \in 0 .. Len(docs)
      BY <1>4, <2>2
    <2>5. n - 1 \notin Bad
      BY <2>1, <2>4
    <2>6. f[n] = f[n - 1] \o docs[n] /\ f[n - 1] \in Seq(Byte) /\ docs[n] \in Seq(Byte)
      BY <1>3, <1>4, <2>4
    <2>7. CASE i = n
      <3>1. Lies(docs[n], f[n - 1] \o docs[n], Len(f[n - 1]))
        BY <2>6, LiesBehind
      <3> QED BY <2>3, <2>6, <2>7, <3>1
    <2>8. CASE i # n
      <3>1. i \in 1 .. n - 1
        BY <2>2, <2>8
      <3>2. Lies(docs[i], f[n - 1], Len(f[i - 1]))
        BY <2>4, <2>5, <3>1
      <3>3. Lies(docs[i], f[n - 1] \o docs[n], Len(f[i - 1]))
        BY <2>6, <3>2, LiesStill
      <3> QED BY <2>3, <2>6, <3>3
    <2> QED BY <2>7, <2>8
  <1>6. \A i \in 1 .. Len(docs) : Lies(docs[i], f[Len(docs)], Len(f[i - 1]))
    <2>1. Len(docs) \notin Bad /\ Len(docs) <= Len(docs)
      <3> HIDE DEF Bad
      <3> QED BY <1>4, <1>5
    <2> QED BY <1>4, <2>1
  <1> DEFINE pos == [i \in 0 .. Len(docs) |-> Len(f[i])]
  <1>7. \A i \in 0 .. Len(docs) : Len(f[i]) \in Nat
    BY <1>3, LenProperties
  <1>8. pos \in [0 .. Len(docs) -> Nat]
    BY <1>7
  <1>9. pos[0] = 0
    BY <1>3, <1>4, EmptySeq
  <1>10. Len(docs) \in 0 .. Len(docs)
    BY <1>4
  <1>11. pos[Len(docs)] = Len(FlattenSeq(docs))
    BY <1>2, <1>10
  <1>12. ASSUME NEW i \in 1 .. Len(docs)
         PROVE  pos[i] = pos[i - 1] + Len(docs[i]) /\ Lies(docs[i], FlattenSeq(docs), pos[i - 1])
    <2>1. i \in 0 .. Len(docs) /\ i - 1 \in 0 .. Len(docs)
      BY <1>4
    <2>2. f[i] = f[i - 1] \o docs[i] /\ f[i - 1] \in Seq(Byte) /\ docs[i] \in Seq(Byte)
      BY <1>3, <1>4, <2>1
    <2>3. Len(f[i]) = Len(f[i - 1]) + Len(docs[i])
      BY <2>2, ConcatProperties
    <2>4. pos[i] = Len(f[i]) /\ pos[i - 1] = Len(f[i - 1])
      BY <2>1
    <2> QED BY <1>2, <1>6, <2>3, <2>4
  <1>13. FlattenSeq(docs) \in Seq(Byte)
    BY <1>2, <1>3, <1>10
  <1> HIDE DEF pos
  <1> QED BY <1>8, <1>9, <1>11, <1>12, <1>13

-----------------------------------------------------------------------------
(* What is written of the leaves means what they hold.                      *)
WholeReads(doc, expr) == Reads(doc, Goal("chunk", Invalid, 0, Len(doc)), expr)

LEMMA TypesAreBytes ==
  /\ 0 \in Byte /\ 1 \in Byte /\ 2 \in Byte /\ 3 \in Byte /\ 4 \in Byte
  /\ Radix \in Nat /\ Wrap \in Nat /\ Wrap > 1 /\ Wrap <= Power[10] /\ Power[10] \in Nat
  BY BinaryAssumption, RoomAssumption, PowerIs DEF Byte

LEMMA DataLies ==
  ASSUME NEW type \in Byte, NEW data \in Seq(Byte)
  PROVE  Lies(data, ChunkOf(type, data), bytesize(Len(data)) + 1)
  <1> DEFINE n == bytesize(Len(data))
             chunk == ChunkOf(type, data)
  <1>1. /\ n \in 1 .. 10 /\ chunk \in Seq(Byte) /\ Len(chunk) = n + 1 + Len(data)
        /\ \A j \in 1 .. Len(data) : chunk[n + 1 + j] = data[j]
    BY ChunkIs
  <1>2. Len(data) \in Nat
    BY LenProperties
  <1> HIDE DEF n, chunk
  <1>3. Lies(data, chunk, n + 1)
    BY <1>1, <1>2 DEF Lies
  <1> QED BY <1>3 DEF n, chunk

LEMMA WrittenChunk ==
  ASSUME NEW type \in Byte, NEW data \in Seq(Byte), Len(data) < Wrap, NEW expr,
         DataReads(ChunkOf(type, data), bytesize(Len(data)), Len(data), Len(ChunkOf(type, data)), expr)
  PROVE  WholeReads(ChunkOf(type, data), expr)
  <1> DEFINE n == bytesize(Len(data))
             chunk == ChunkOf(type, data)
  <1>1. n \in 1 .. 10 /\ (Len(data) < Power[10] => \E value : DigitsAre(chunk, 0, n, value, Len(data)))
    BY ChunkIs
  <1>2. PICK size \in Nat : size = Len(data)
    BY LenProperties
  <1>3. size \in Size /\ size < Power[10]
    BY <1>2, TypesAreBytes DEF Size
  <1>4. PICK value : DigitsAre(chunk, 0, n, value, size)
    BY <1>1, <1>2, <1>3
  <1>5. DataReads(chunk, n, size, Len(chunk), expr)
    BY <1>2
  <1> HIDE DEF n, chunk
  <1>6. 0 + n = n
    BY <1>1
  <1>7. Reads(chunk, Goal("chunk", Invalid, 0, Len(chunk)), expr)
    BY <1>3, <1>4, <1>5, <1>6, ChunkIsRead
  <1> QED BY <1>7 DEF WholeReads, chunk

LEMMA NullWritten == WholeReads(ChunkOf(0, <<>>), Null)
  <1> DEFINE data == <<>>
             n == bytesize(Len(data))
             chunk == ChunkOf(0, data)
  <1>1. data \in Seq(Byte) /\ Len(data) = 0
    BY EmptySeq
  <1>2. 0 \in Byte /\ Len(data) < Wrap
    BY <1>1, TypesAreBytes
  <1> HIDE DEF data
  <1>3. n \in 1 .. 10 /\ Len(chunk) = n + 1 + Len(data) /\ chunk[n + 1] = 0
    BY <1>1, <1>2, ChunkIs
  <1> HIDE DEF n, chunk
  <1>4. n + 1 <= Len(chunk) /\ Len(chunk) = n + 1
    BY <1>1, <1>3
  <1>5. DataReads(chunk, n, Len(data), Len(chunk), Null)
    BY <1>3, <1>4 DEF DataReads, DataRule
  <1>6. WholeReads(chunk, Null)
    BY <1>1, <1>2, <1>5, WrittenChunk DEF n, chunk
  <1> QED BY <1>6 DEF data, chunk

LEMMA ValueWritten ==
  ASSUME NEW data \in CStrings, Len(data) < Wrap
  PROVE  WholeReads(ChunkOf(1, data), Value(data))
  <1> DEFINE n == bytesize(Len(data))
             chunk == ChunkOf(1, data)
  <1>1. data \in Seq(Byte) /\ \A i \in 1 .. Len(data) : data[i] # 0
    <2>1. data \in Seq(Byte \ {0})
      BY DEF CStrings
    <2>2. \A i \in 1 .. Len(data) : data[i] \in Byte \ {0}
      BY <2>1, ElementOfSeq
    <2>3. Byte \ {0} \subseteq Byte
      OBVIOUS
    <2>4. data \in Seq(Byte)
      BY <2>1, <2>3, SeqMonotonic
    <2> QED BY <2>2, <2>4
  <1>2. CString(data) = data
    <2>1. DOMAIN data = 1 .. Len(data)
      BY <1>1, LenProperties
    <2> QED BY <1>1, <2>1 DEF CString
  <1>3. 1 \in Byte
    BY TypesAreBytes
  <1>4. n \in 1 .. 10 /\ Len(chunk) = n + 1 + Len(data) /\ chunk[n + 1] = 1
    BY <1>1, <1>3, ChunkIs
  <1>5. Len(data) \in Nat
    BY <1>1, LenProperties
  <1>6. Lies(data, chunk, n + 1)
    BY <1>1, <1>3, DataLies
  <1> HIDE DEF n, chunk
  <1>7. SubSeq(chunk, n + 1 + 1, Len(chunk)) = data
    <2>1. SameBytes(data, chunk, n + 1, 0, Len(data))
      BY <1>5, <1>6, BytesMove
    <2>2. SubSeq(chunk, 0 + (n + 1) + 1, Len(data) + (n + 1)) = SubSeq(data, 0 + 1, Len(data))
      BY <2>1 DEF SameBytes
    <2>3. 0 + (n + 1) + 1 = n + 1 + 1 /\ Len(data) + (n + 1) = Len(chunk) /\ 0 + 1 = 1
      BY <1>4, <1>5
    <2>4. SubSeq(data, 1, Len(data)) = data
      BY <1>1, SubSeqFull
    <2> QED BY <2>2, <2>3, <2>4
  <1>8. n + 1 <= Len(chunk) /\ Len(chunk) = (n + 1) + Len(data)
    BY <1>4, <1>5
  <1>9. DataReads(chunk, n, Len(data), Len(chunk), Value(data))
    BY <1>2, <1>4, <1>7, <1>8 DEF DataReads, DataRule
  <1>10. WholeReads(chunk, Value(data))
    BY <1>1, <1>3, <1>9, WrittenChunk DEF n, chunk
  <1> QED BY <1>10 DEF chunk

(* Binary data behind their byte of compression. *)
Raw(blob) == <<0>> \o blob

LEMMA BinaryDataWritten ==
  ASSUME NEW blob \in Seq(Byte), Len(Raw(blob)) < Wrap
  PROVE  WholeReads(ChunkOf(4, Raw(blob)), BinaryData(blob))
  <1> DEFINE data == Raw(blob)
             n == bytesize(Len(data))
             chunk == ChunkOf(4, data)
  <1>1. 0 \in Byte /\ 4 \in Byte
    BY TypesAreBytes
  <1>2. /\ data \in Seq(Byte) /\ Len(data) = 1 + Len(blob) /\ data[1] = 0
        /\ \A i \in 1 .. Len(blob) : data[1 + i] = blob[i]
    <2>1. <<0>> \in Seq(Byte) /\ Len(<<0>>) = 1 /\ <<0>>[1] = 0
      BY <1>1
    <2>2. Len(blob) \in Nat
      BY LenProperties
    <2> HIDE DEF data
    <2>3. PICK z \in Seq(Byte) : z = <<0>> /\ Len(z) = 1 /\ z[1] = 0
      BY <2>1
    <2>4. /\ z \o blob \in Seq(Byte) /\ Len(z \o blob) = Len(z) + Len(blob)
          /\ \A i \in 1 .. Len(z) + Len(blob) :
               (z \o blob)[i] = IF i <= Len(z) THEN z[i] ELSE blob[i - Len(z)]
      BY <2>3, ConcatProperties
    <2>5. data = z \o blob
      BY <2>3 DEF data, Raw
    <2>6. 1 \in 1 .. Len(z) + Len(blob) /\ 1 <= Len(z)
      BY <2>2, <2>3
    <2>7. \A i \in 1 .. Len(blob) :
            1 + i \in 1 .. Len(z) + Len(blob) /\ ~(1 + i <= Len(z)) /\ (1 + i) - Len(z) = i
      BY <2>2, <2>3
    <2> QED BY <2>3, <2>4, <2>5, <2>6, <2>7
  <1>3. Len(data) < Wrap
    OBVIOUS
  <1> HIDE DEF data
  <1>4. n \in 1 .. 10 /\ Len(chunk) = n + 1 + Len(data) /\ chunk[n + 1] = 4 /\ chunk[n + 1 + 1] = data[1]
    <2>1. Len(blob) \in Nat
      BY LenProperties
    <2>2. 1 \in 1 .. Len(data)
      BY <1>2, <2>1
    <2>3. /\ n \in 1 .. 10 /\ Len(chunk) = n + 1 + Len(data) /\ chunk[n + 1] = 4
          /\ \A j \in 1 .. Len(data) : chunk[n + 1 + j] = data[j]
      BY <1>1, <1>2, ChunkIs
    <2> HIDE DEF n, chunk
    <2> QED BY <2>2, <2>3
  <1>5. Len(blob) \in Nat /\ Len(data) \in Nat
    BY <1>2, LenProperties
  <1>6. Lies(data, chunk, n + 1)
    BY <1>1, <1>2, DataLies
  <1> HIDE DEF n, chunk
  <1>7. SubSeq(chunk, n + 1 + 2, Len(chunk)) = blob
    <2>1. SameBytes(data, chunk, n + 1, 1, Len(data))
      BY <1>2, <1>5, <1>6, BytesMove
    <2>2. SubSeq(chunk, 1 + (n + 1) + 1, Len(data) + (n + 1)) = SubSeq(data, 1 + 1, Len(data))
      BY <2>1 DEF SameBytes
    <2>3. 1 + (n + 1) + 1 = n + 1 + 2 /\ Len(data) + (n + 1) = Len(chunk) /\ 1 + 1 = 2
      BY <1>4, <1>5
    <2>4. SubSeq(data, 2, Len(data)) = blob
      <3>1. \A i \in 2 .. Len(data) : data[i] \in Byte
        <4> TAKE i \in 2 .. Len(data)
        <4>1. i \in 1 .. Len(data)
          BY <1>5
        <4> QED BY <1>2, <4>1, ElementOfSeq
      <3>2. 2 \in Int /\ Len(data) \in Int
        BY <1>5
      <3>3. /\ SubSeq(data, 2, Len(data)) \in Seq(Byte)
            /\ Len(SubSeq(data, 2, Len(data))) = IF 2 <= Len(data) THEN Len(data) - 2 + 1 ELSE 0
            /\ \A i \in 1 .. Len(data) - 2 + 1 : SubSeq(data, 2, Len(data))[i] = data[2 + i - 1]
        BY <3>1, <3>2, SubSeqProperties
      <3>4. Len(data) - 2 + 1 = Len(blob) /\ (~(2 <= Len(data)) => Len(blob) = 0)
        BY <1>2, <1>5
      <3>5. \A i \in 1 .. Len(blob) : 2 + i - 1 = 1 + i
        BY <1>5
      <3>6. PICK s : s = SubSeq(data, 2, Len(data))
        OBVIOUS
      <3>7. s \in Seq(Byte) /\ Len(s) = Len(blob) /\ \A i \in 1 .. Len(s) : s[i] = blob[i]
        BY <1>2, <3>3, <3>4, <3>5, <3>6
      <3>8. s = blob
        BY <3>7, SeqEqual
      <3> QED BY <3>6, <3>8
    <2> QED BY <2>2, <2>3, <2>4
  <1>8. n + 1 <= Len(chunk) /\ Len(chunk) = (n + 1) + Len(data) /\ Len(data) > 0
    BY <1>2, <1>4, <1>5
  <1>9. DataReads(chunk, n, Len(data), Len(chunk), BinaryData(blob))
    BY <1>2, <1>4, <1>7, <1>8 DEF DataReads, DataRule
  <1>10. WholeReads(chunk, BinaryData(blob))
    BY <1>1, <1>2, <1>3, <1>9, WrittenChunk DEF n, chunk
  <1> QED BY <1>10 DEF chunk, data

-----------------------------------------------------------------------------
(* What is written of the elements of an array, one behind the other, means *)
(* them in their order.                                                     *)
LEMMA MovedWhole ==
  ASSUME NEW doc, NEW doc2, NEW k, Lies(doc, doc2, k), NEW expr, WholeReads(doc, expr),
         NEW end, end = k + Len(doc)
  PROVE  Reads(doc2, Goal("chunk", Invalid, k, end), expr)
  <1>1. k \in Nat /\ doc \in Seq(Byte)
    BY DEF Lies
  <1>2. Len(doc) \in Nat
    BY <1>1, LenProperties
  <1>3. Reads(doc2, Goal("chunk", Invalid, 0 + k, Len(doc) + k), expr)
    BY <1>2, ReadingsMove DEF WholeReads
  <1>4. 0 + k = k /\ Len(doc) + k = end
    BY <1>1, <1>2
  <1> QED BY <1>3, <1>4

FirstOf(exprs, j) == [i \in 1 .. j |-> exprs[i]]

LEMMA FirstGrows ==
  ASSUME NEW exprs, NEW j \in Nat
  PROVE  /\ Append(FirstOf(exprs, j), exprs[j + 1]) = FirstOf(exprs, j + 1)
         /\ [Array(FirstOf(exprs, j)) EXCEPT !.list = Append(@, exprs[j + 1])]
              = Array(FirstOf(exprs, j + 1))
  <1> DEFINE S == {exprs[i] : i \in 1 .. j + 1}
             f == FirstOf(exprs, j)
             g == FirstOf(exprs, j + 1)
  <1>1. f \in [1 .. j -> S] /\ g \in [1 .. j + 1 -> S] /\ exprs[j + 1] \in S
    <2>1. j + 1 \in 1 .. j + 1 /\ \A i \in 1 .. j : i \in 1 .. j + 1
      OBVIOUS
    <2> QED BY <2>1 DEF FirstOf
  <1>2. \A i \in 1 .. j : f[i] = exprs[i]
    BY DEF FirstOf
  <1>3. \A i \in 1 .. j + 1 : g[i] = exprs[i]
    BY DEF FirstOf
  <1> HIDE DEF f, g, S
  <1>4. f \in Seq(S) /\ Len(f) = j /\ g \in Seq(S) /\ Len(g) = j + 1
    BY <1>1
  <1>5. PICK h : h = Append(f, exprs[j + 1])
    OBVIOUS
  <1>6. /\ h \in Seq(S) /\ Len(h) = j + 1
        /\ \A i \in 1 .. j + 1 : h[i] = IF i <= j THEN f[i] ELSE exprs[j + 1]
    <2>1. /\ h \in Seq(S) /\ Len(h) = Len(f) + 1
          /\ \A i \in 1 .. Len(f) + 1 : h[i] = IF i <= Len(f) THEN f[i] ELSE exprs[j + 1]
      BY <1>1, <1>4, <1>5, AppendProperties
    <2> QED BY <1>4, <2>1
  <1>7. \A i \in 1 .. j + 1 : h[i] = g[i]
    <2> TAKE i \in 1 .. j + 1
    <2>1. (i \in 1 .. j /\ i <= j) \/ (i = j + 1 /\ ~(i <= j))
      OBVIOUS
    <2> QED BY <1>2, <1>3, <1>6, <2>1
  <1>8. h = g
    BY <1>4, <1>6, <1>7, SeqEqual
  <1>9. [Array(f) EXCEPT !.list = Append(@, exprs[j + 1])] = Array(g)
    <2>1. PICK e : e = exprs[j + 1]
      OBVIOUS
    <2>2. Append(f, e) = g
      BY <1>5, <1>8, <2>1
    <2>3. [Array(f) EXCEPT !.list = Append(f, e)] = [type |-> "Array", list |-> Append(f, e)]
      <3>1. \A x, y : [[type |-> "Array", list |-> x] EXCEPT !.list = y] = [type |-> "Array", list |-> y]
        OBVIOUS
      <3> QED BY <3>1, Zenon DEF Array
    <2>4. Array(f).list = f
      BY DEF Array
    <2>5. [Array(f) EXCEPT !.list = Append(@, e)] = [Array(f) EXCEPT !.list = Append(f, e)]
      BY <2>4, Zenon
    <2> QED BY <2>1, <2>2, <2>3, <2>5, Zenon DEF Array
  <1> QED BY <1>5, <1>8, <1>9 DEF f, g

LEMMA ElementsWritten ==
  ASSUME NEW docs \in Seq(Seq(Byte)), NEW exprs,
         \A i \in 1 .. Len(docs) : Len(docs[i]) > 0 /\ WholeReads(docs[i], exprs[i])
  PROVE  Reads(FlattenSeq(docs), Goal("elements", Array(<<>>), 0, Len(FlattenSeq(docs))),
               Array(FirstOf(exprs, Len(docs))))
  <1> DEFINE flat == FlattenSeq(docs)
             n == Len(docs)
             whole == Array(FirstOf(exprs, n))
  <1>1. flat \in Seq(Byte) /\ n \in Nat
    BY PartsLie, LenProperties
  <1>2. PICK pos \in [0 .. n -> Nat] :
              /\ pos[0] = 0 /\ pos[n] = Len(flat)
              /\ \A i \in 1 .. n :
                   /\ pos[i] = pos[i - 1] + Len(docs[i])
                   /\ Lies(docs[i], flat, pos[i - 1])
    BY PartsLie
  <1> DEFINE From(j) == Reads(flat, Goal("elements", Array(FirstOf(exprs, j)), pos[j], Len(flat)), whole)
             Missing == {m \in Nat : m <= n /\ ~From(n - m)}
  <1> HIDE DEF flat, n
  <1>3. ASSUME NEW j \in Nat, j < n, From(j + 1)
        PROVE  From(j)
    <2>1. PICK i \in 1 .. n : i = j + 1 /\ i - 1 = j
      BY <1>1, <1>3
    <2>2. Len(docs[i]) > 0 /\ WholeReads(docs[i], exprs[i])
      BY DEF n
    <2>3. pos[i] = pos[j] + Len(docs[i]) /\ Lies(docs[i], flat, pos[j])
      BY <1>2, <2>1
    <2>4. Reads(flat, Goal("chunk", Invalid, pos[j], pos[i]), exprs[i])
      BY <2>2, <2>3, MovedWhole
    <2>5. pos[j] \in Nat /\ pos[i] \in Nat
      BY <1>1, <1>2, <1>3, <2>1
    <2>6. Len(docs[i]) \in Nat
      BY <2>3, LenProperties DEF Lies
    <2>7. pos[j] < pos[i]
      BY <2>2, <2>3, <2>5, <2>6
    <2>8. pos[i] <= Len(flat)
      <3> DEFINE Over == {m \in Nat : m <= n /\ pos[m] > Len(flat)}
      <3>1. Lies(docs[i], flat, pos[j])
        BY <2>3
      <3>2. pos[j] + Len(docs[i]) <= Len(flat)
        BY <3>1 DEF Lies
      <3> QED BY <2>3, <3>2
    <2>9. [Array(FirstOf(exprs, j)) EXCEPT !.list = Append(@, exprs[i])] = Array(FirstOf(exprs, i))
      BY <2>1, FirstGrows
    <2>10. Reads(flat, Goal("elements", Array(FirstOf(exprs, i)), pos[i], Len(flat)), whole)
      BY <1>3, <2>1
    <2>11. Reads(flat, Goal("elements", [Array(FirstOf(exprs, j)) EXCEPT !.list = Append(@, exprs[i])],
                            pos[i], Len(flat)), whole)
      BY <2>9, <2>10
    <2> HIDE DEF whole
    <2>12. Reads(flat, Goal("elements", Array(FirstOf(exprs, j)), pos[j], Len(flat)), whole)
      BY <2>4, <2>5, <2>7, <2>8, <2>11, ElementsAreRead
    <2> QED BY <2>12
  <1>4. From(n)
    <2>1. "elements" \in Loop
      BY DEF Loop
    <2>2. Reads(flat, Goal("elements", whole, Len(flat), Len(flat)), whole)
      BY <2>1, NoneIsRead
    <2> QED BY <1>2, <2>2
  <1> HIDE DEF From
  <1>5. Missing = {}
    <2> SUFFICES ASSUME Missing # {} PROVE FALSE
      OBVIOUS
    <2>1. PICK m \in Missing : \A k \in Missing : m <= k
      <3>1. Missing \in SUBSET Nat
        OBVIOUS
      <3> HIDE DEF Missing
      <3> QED BY <3>1, LeastOf
    <2>2. m \in Nat /\ m <= n /\ ~From(n - m)
      OBVIOUS
    <2>3. m # 0
      <3>1. n - 0 = n
        BY <1>1
      <3> QED BY <1>4, <2>2, <3>1
    <2>4. PICK j \in Nat : /\ j = n - m /\ j < n /\ n - (m - 1) = j + 1
                          /\ m - 1 \in Nat /\ ~(m <= m - 1) /\ m - 1 <= n
      BY <1>1, <2>2, <2>3
    <2>5. m - 1 \notin Missing
      BY <2>1, <2>4
    <2>6. From(j + 1)
      BY <2>4, <2>5
    <2> QED BY <1>3, <2>2, <2>4, <2>6
  <1>6. From(0)
    <2>1. n \notin Missing
      <3> HIDE DEF Missing
      <3> QED BY <1>5
    <2>2. n <= n /\ n - n = 0
      BY <1>1
    <2> QED BY <1>1, <2>1, <2>2
  <1>7. FirstOf(exprs, 0) = <<>>
    <2>1. FirstOf(exprs, 0) = [i \in 1 .. 0 |-> exprs[i]]
      BY DEF FirstOf
    <2>2. PICK f : f = FirstOf(exprs, 0)
      OBVIOUS
    <2>3. PICK S : S = {exprs[i] : i \in 1 .. 0}
      OBVIOUS
    <2>4. f \in [1 .. 0 -> S]
      BY <2>1, <2>2, <2>3
    <2>5. f \in Seq(S) /\ Len(f) = 0
      BY <2>4
    <2> QED BY <2>2, <2>5, EmptySeq
  <1> QED BY <1>2, <1>6, <1>7 DEF From, flat, n

LEMMA ArrayWritten ==
  ASSUME NEW docs \in Seq(Seq(Byte)), NEW exprs,
         \A i \in 1 .. Len(docs) : Len(docs[i]) > 0 /\ WholeReads(docs[i], exprs[i]),
         Len(FlattenSeq(docs)) < Wrap
  PROVE  WholeReads(ChunkOf(2, FlattenSeq(docs)), Array(FirstOf(exprs, Len(docs))))
  <1> DEFINE data == FlattenSeq(docs)
             n == bytesize(Len(data))
             chunk == ChunkOf(2, data)
             whole == Array(FirstOf(exprs, Len(docs)))
  <1>1. data \in Seq(Byte) /\ Len(data) < Wrap
    BY PartsLie
  <1>2. Reads(data, Goal("elements", Array(<<>>), 0, Len(data)), whole)
    BY ElementsWritten
  <1> HIDE DEF data, whole
  <1>3. 2 \in Byte /\ Len(data) \in Nat
    BY <1>1, TypesAreBytes, LenProperties
  <1>4. n \in 1 .. 10 /\ Len(chunk) = n + 1 + Len(data) /\ chunk[n + 1] = 2
    BY <1>1, <1>3, ChunkIs
  <1>5. Lies(data, chunk, n + 1)
    BY <1>1, <1>3, DataLies
  <1> HIDE DEF n, chunk
  <1>6. Reads(chunk, Goal("elements", Array(<<>>), n + 1, Len(chunk)), whole)
    <2>1. Reads(chunk, Goal("elements", Array(<<>>), 0 + (n + 1), Len(data) + (n + 1)), whole)
      BY <1>2, <1>3, <1>5, ReadingsMove
    <2>2. 0 + (n + 1) = n + 1 /\ Len(data) + (n + 1) = Len(chunk)
      BY <1>3, <1>4
    <2> QED BY <2>1, <2>2
  <1>7. n + 1 <= Len(chunk) /\ Len(chunk) = (n + 1) + Len(data)
    BY <1>3, <1>4
  <1>8. DataReads(chunk, n, Len(data), Len(chunk), whole)
    BY <1>4, <1>6, <1>7 DEF DataReads, DataRule
  <1>9. WholeReads(chunk, whole)
    BY <1>1, <1>3, <1>8, WrittenChunk DEF n, chunk
  <1> QED BY <1>9 DEF chunk, whole, data

-----------------------------------------------------------------------------
(* What is written of the pairs of a map means the map of them, as no key   *)
(* is there twice.                                                          *)
HashOf(keys, vals, n, j) ==
  [k \in {keys[i] : i \in 1 .. j} |-> vals[CHOOSE i \in 1 .. n : keys[i] = k]]

LEMMA HashGrows ==
  ASSUME NEW keys, NEW vals, NEW n \in Nat, \A a, b \in 1 .. n : keys[a] = keys[b] => a = b,
         NEW j \in Nat, j < n
  PROVE  Put(HashOf(keys, vals, n, j), keys[j + 1], vals[j + 1]) = HashOf(keys, vals, n, j + 1)
  <1> DEFINE h == HashOf(keys, vals, n, j)
             At(k) == CHOOSE i \in 1 .. n : keys[i] = k
             D == {keys[i] : i \in 1 .. j}
             E == {keys[i] : i \in 1 .. j + 1}
  <1>1. D \cup {keys[j + 1]} = E
    <2>1. \A i \in 1 .. j + 1 : i \in 1 .. j \/ i = j + 1
      OBVIOUS
    <2>2. j + 1 \in 1 .. j + 1 /\ \A i \in 1 .. j : i \in 1 .. j + 1
      OBVIOUS
    <2> QED BY <2>1, <2>2
  <1>2. At(keys[j + 1]) = j + 1
    <2>1. j + 1 \in 1 .. n
      OBVIOUS
    <2> QED BY <2>1
  <1>3. h = [k \in D |-> vals[At(k)]]
    BY DEF HashOf
  <1>4. HashOf(keys, vals, n, j + 1) = [k \in E |-> vals[At(k)]]
    BY DEF HashOf
  <1> HIDE DEF h, At, D, E
  <1>5. DOMAIN h = D /\ \A k \in D : h[k] = vals[At(k)]
    BY <1>3
  <1>6. Put(h, keys[j + 1], vals[j + 1])
          = [k \in E |-> IF k = keys[j + 1] THEN vals[j + 1] ELSE h[k]]
    BY <1>1, <1>5 DEF Put
  <1>7. \A k \in E : (IF k = keys[j + 1] THEN vals[j + 1] ELSE h[k]) = vals[At(k)]
    BY <1>1, <1>2, <1>5
  <1>8. Put(h, keys[j + 1], vals[j + 1]) = HashOf(keys, vals, n, j + 1)
    BY <1>4, <1>6, <1>7
  <1> QED BY <1>8 DEF h

LEMMA PairPut ==
  ASSUME NEW h, NEW key, NEW val
  PROVE  [Map(h) EXCEPT !.hash = Put(@, Value(key).data, val)] = Map(Put(h, key, val))
  <1>1. \A x, y : [[type |-> "Map", hash |-> x] EXCEPT !.hash = y] = [type |-> "Map", hash |-> y]
    OBVIOUS
  <1>2. [Map(h) EXCEPT !.hash = Put(h, key, val)] = Map(Put(h, key, val))
    BY <1>1, Zenon DEF Map
  <1>3. Map(h).hash = h /\ Value(key).data = key
    BY DEF Map, Value
  <1> QED BY <1>2, <1>3, Zenon

ArePairs(docs, keys, vals, heads, tails) ==
  /\ \A i \in 1 .. Len(docs) :
       /\ heads[i] \in Seq(Byte) /\ Len(heads[i]) > 0 /\ WholeReads(heads[i], Value(keys[i]))
       /\ tails[i] \in Seq(Byte) /\ Len(tails[i]) > 0 /\ WholeReads(tails[i], vals[i])
       /\ docs[i] = heads[i] \o tails[i]
  /\ \A a, b \in 1 .. Len(docs) : keys[a] = keys[b] => a = b

LEMMA PairsWritten ==
  ASSUME NEW docs \in Seq(Seq(Byte)), NEW keys, NEW vals, NEW heads, NEW tails,
         ArePairs(docs, keys, vals, heads, tails)
  PROVE  Reads(FlattenSeq(docs), Goal("pairs", Map(<<>>), 0, Len(FlattenSeq(docs))),
               Map(HashOf(keys, vals, Len(docs), Len(docs))))
  <1> DEFINE flat == FlattenSeq(docs)
             n == Len(docs)
             Hash(j) == HashOf(keys, vals, n, j)
             whole == Map(Hash(n))
  <1>1. flat \in Seq(Byte) /\ n \in Nat
    BY PartsLie, LenProperties
  <1>2. PICK pos \in [0 .. n -> Nat] :
              /\ pos[0] = 0 /\ pos[n] = Len(flat)
              /\ \A i \in 1 .. n :
                   /\ pos[i] = pos[i - 1] + Len(docs[i])
                   /\ Lies(docs[i], flat, pos[i - 1])
    BY PartsLie
  <1> DEFINE From(j) == Reads(flat, Goal("pairs", Map(Hash(j)), pos[j], Len(flat)), whole)
             Missing == {m \in Nat : m <= n /\ ~From(n - m)}
  <1>0. /\ \A i \in 1 .. n :
             /\ heads[i] \in Seq(Byte) /\ Len(heads[i]) > 0 /\ WholeReads(heads[i], Value(keys[i]))
             /\ tails[i] \in Seq(Byte) /\ Len(tails[i]) > 0 /\ WholeReads(tails[i], vals[i])
             /\ docs[i] = heads[i] \o tails[i]
        /\ \A a, b \in 1 .. n : keys[a] = keys[b] => a = b
    BY DEF ArePairs
  <1> HIDE DEF flat, n
  <1>3. ASSUME NEW j \in Nat, j < n, From(j + 1)
        PROVE  From(j)
    <2>1. PICK i \in 1 .. n : i = j + 1 /\ i - 1 = j
      <3>1. n \in Nat /\ j \in Nat /\ j < n
        BY <1>1, <1>3
      <3>2. j + 1 \in 1 .. n /\ (j + 1) - 1 = j
        BY ONLY <3>1
      <3> QED BY ONLY <3>2
    <2>2. /\ heads[i] \in Seq(Byte) /\ Len(heads[i]) > 0 /\ WholeReads(heads[i], Value(keys[i]))
          /\ tails[i] \in Seq(Byte) /\ Len(tails[i]) > 0 /\ WholeReads(tails[i], vals[i])
          /\ docs[i] = heads[i] \o tails[i]
      BY <1>0
    <2>3. pos[i] = pos[j] + Len(docs[i]) /\ Lies(docs[i], flat, pos[j])
      BY <1>2, <2>1
    <2>4. PICK a \in Nat, b \in Nat, p \in Nat, m \in Nat :
            a = Len(heads[i]) /\ b = Len(tails[i]) /\ p = pos[j] /\ m = pos[j] + a /\ a > 0 /\ b > 0
      <3>1. Len(heads[i]) \in Nat /\ Len(tails[i]) \in Nat
        BY <2>2, LenProperties
      <3>2. pos[j] \in Nat
        BY <1>1, <1>2, <1>3
      <3> QED BY <2>2, <3>1, <3>2
    <2>5. Len(docs[i]) = a + b
      BY <2>2, <2>4, ConcatProperties
    <2>16. m = p + a /\ a \in Nat /\ b \in Nat /\ p \in Nat /\ a > 0 /\ b > 0
      BY ONLY <2>4
    <2>6. pos[i] = p + (a + b) /\ pos[i] = m + b /\ p < m /\ m < pos[i] /\ pos[i] \in Nat
      <3>1. pos[i] = p + (a + b)
        BY ONLY <2>3, <2>4, <2>5
      <3> QED BY ONLY <2>16, <3>1
    <2>17. p + (a + b) <= Len(flat) /\ Len(flat) \in Nat
      <3>1. pos[j] + Len(docs[i]) <= Len(flat)
        BY <2>3 DEF Lies
      <3>2. Len(flat) \in Nat
        BY <1>1, LenProperties
      <3> QED BY ONLY <2>4, <2>5, <3>1, <3>2
    <2>7. pos[i] <= Len(flat)
      BY ONLY <2>6, <2>17
    <2>8. Lies(heads[i], flat, p)
      <3>1. /\ docs[i] \in Seq(Byte) /\ flat \in Seq(Byte) /\ p + (a + b) <= Len(flat)
            /\ \A x \in 1 .. a + b : flat[p + x] = docs[i][x]
        BY <2>3, <2>4, <2>5 DEF Lies
      <3>2. \A x \in 1 .. a + b : docs[i][x] = IF x <= a THEN heads[i][x] ELSE tails[i][x - a]
        BY <2>2, <2>4, ConcatProperties
      <3>3. \A x \in 1 .. a : x \in 1 .. a + b /\ x <= a
        BY ONLY <2>16
      <3>4. \A x \in 1 .. a : flat[p + x] = heads[i][x]
        BY <3>1, <3>2, <3>3
      <3>5. p + a <= Len(flat)
        BY ONLY <2>16, <2>17
      <3> QED BY <2>2, <2>4, <3>1, <3>4, <3>5 DEF Lies
    <2>9. Lies(tails[i], flat, m)
      <3>1. /\ docs[i] \in Seq(Byte) /\ flat \in Seq(Byte) /\ p + (a + b) <= Len(flat)
            /\ \A x \in 1 .. a + b : flat[p + x] = docs[i][x]
        BY <2>3, <2>4, <2>5 DEF Lies
      <3>2. \A x \in 1 .. a + b : docs[i][x] = IF x <= a THEN heads[i][x] ELSE tails[i][x - a]
        BY <2>2, <2>4, ConcatProperties
      <3>3. \A x \in 1 .. b : a + x \in 1 .. a + b /\ ~(a + x <= a) /\ (a + x) - a = x /\ p + (a + x) = m + x
        BY ONLY <2>16
      <3>4. \A x \in 1 .. b : flat[m + x] = tails[i][x]
        <4> TAKE x \in 1 .. b
        <4>1. PICK y \in 1 .. a + b : y = a + x /\ ~(y <= a) /\ y - a = x /\ p + y = m + x
          BY ONLY <3>3, x \in 1 .. b
        <4>2. flat[p + y] = docs[i][y]
          BY ONLY <3>1, y \in 1 .. a + b
        <4>3. docs[i][y] = tails[i][y - a]
          BY ONLY <3>2, <4>1, y \in 1 .. a + b
        <4> QED BY ONLY <4>1, <4>2, <4>3
      <3>5. m + b <= Len(flat)
        BY ONLY <2>16, <2>17
      <3> QED BY <2>2, <2>4, <3>1, <3>4, <3>5 DEF Lies
    <2>10. Reads(flat, Goal("chunk", Invalid, p, m), Value(keys[i]))
      BY <2>2, <2>4, <2>8, MovedWhole
    <2>11. Reads(flat, Goal("chunk", Invalid, m, pos[i]), vals[i])
      BY <2>2, <2>4, <2>6, <2>9, MovedWhole
    <2>12. [Map(Hash(j)) EXCEPT !.hash = Put(@, Value(keys[i]).data, vals[i])] = Map(Hash(i))
      <3>1. Put(HashOf(keys, vals, n, j), keys[j + 1], vals[j + 1]) = HashOf(keys, vals, n, j + 1)
        BY <1>0, <1>1, <1>3, HashGrows
      <3>2. Put(Hash(j), keys[i], vals[i]) = Hash(i)
        BY <2>1, <3>1
      <3> QED BY <3>2, PairPut
    <2>13. Reads(flat, Goal("pairs", Map(Hash(i)), pos[i], Len(flat)), whole)
      BY <1>3, <2>1
    <2>14. Value(keys[i]).type = "Value"
      BY DEF Value
    <2> HIDE DEF whole, Hash
    <2>15. Reads(flat, Goal("pairs", [Map(Hash(j)) EXCEPT !.hash = Put(@, Value(keys[i]).data, vals[i])],
                            pos[i], Len(flat)), whole)
      BY <2>12, <2>13
    <2>18. Reads(flat, Goal("pairs", Map(Hash(j)), p, Len(flat)), whole)
      BY <2>6, <2>7, <2>10, <2>11, <2>14, <2>15, PairsAreRead
    <2> QED BY <2>4, <2>18
  <1>4. From(n)
    <2>1. "pairs" \in Loop
      BY DEF Loop
    <2>2. Reads(flat, Goal("pairs", whole, Len(flat), Len(flat)), whole)
      BY <2>1, NoneIsRead
    <2> QED BY <1>2, <2>2
  <1> HIDE DEF From
  <1>5. Missing = {}
    <2> SUFFICES ASSUME Missing # {} PROVE FALSE
      OBVIOUS
    <2>1. PICK m \in Missing : \A k \in Missing : m <= k
      <3>1. Missing \in SUBSET Nat
        OBVIOUS
      <3> HIDE DEF Missing
      <3> QED BY <3>1, LeastOf
    <2>2. m \in Nat /\ m <= n /\ ~From(n - m)
      OBVIOUS
    <2>3. m # 0
      <3>1. n - 0 = n
        BY <1>1
      <3> QED BY <1>4, <2>2, <3>1
    <2>4. PICK j \in Nat : /\ j = n - m /\ j < n /\ n - (m - 1) = j + 1
                          /\ m - 1 \in Nat /\ ~(m <= m - 1) /\ m - 1 <= n
      BY <1>1, <2>2, <2>3
    <2>5. m - 1 \notin Missing
      BY <2>1, <2>4
    <2>6. From(j + 1)
      BY <2>4, <2>5
    <2> QED BY <1>3, <2>2, <2>4, <2>6
  <1>6. From(0)
    <2>1. n \notin Missing
      <3> HIDE DEF Missing
      <3> QED BY <1>5
    <2>2. n <= n /\ n - n = 0
      BY <1>1
    <2> QED BY <1>1, <2>1, <2>2
  <1>7. Hash(0) = <<>>
    <2>1. PICK f : f = Hash(0)
      OBVIOUS
    <2>2. {keys[i] : i \in 1 .. 0} = {}
      OBVIOUS
    <2>3. f = [k \in {} |-> vals[CHOOSE i \in 1 .. n : keys[i] = k]]
      BY <2>1, <2>2 DEF HashOf
    <2>4. 1 .. 0 = {}
      OBVIOUS
    <2>5. f \in [1 .. 0 -> {}]
      BY <2>3, <2>4
    <2>6. f \in Seq({}) /\ Len(f) = 0
      BY <2>5
    <2> QED BY <2>1, <2>6, EmptySeq
  <1> QED BY <1>2, <1>6, <1>7 DEF From, flat, n

LEMMA MapWritten ==
  ASSUME NEW docs \in Seq(Seq(Byte)), NEW keys, NEW vals, NEW heads, NEW tails,
         ArePairs(docs, keys, vals, heads, tails),
         Len(FlattenSeq(docs)) < Wrap
  PROVE  WholeReads(ChunkOf(3, FlattenSeq(docs)), Map(HashOf(keys, vals, Len(docs), Len(docs))))
  <1> DEFINE data == FlattenSeq(docs)
             n == bytesize(Len(data))
             chunk == ChunkOf(3, data)
             whole == Map(HashOf(keys, vals, Len(docs), Len(docs)))
  <1>1. data \in Seq(Byte) /\ Len(data) < Wrap
    BY PartsLie
  <1>2. Reads(data, Goal("pairs", Map(<<>>), 0, Len(data)), whole)
    BY PairsWritten
  <1> HIDE DEF data, whole
  <1>3. 3 \in Byte /\ Len(data) \in Nat
    BY <1>1, TypesAreBytes, LenProperties
  <1>4. n \in 1 .. 10 /\ Len(chunk) = n + 1 + Len(data) /\ chunk[n + 1] = 3
    BY <1>1, <1>3, ChunkIs
  <1>5. Lies(data, chunk, n + 1)
    BY <1>1, <1>3, DataLies
  <1> HIDE DEF n, chunk
  <1>6. Reads(chunk, Goal("pairs", Map(<<>>), n + 1, Len(chunk)), whole)
    <2>1. Reads(chunk, Goal("pairs", Map(<<>>), 0 + (n + 1), Len(data) + (n + 1)), whole)
      BY <1>2, <1>3, <1>5, ReadingsMove
    <2>2. 0 + (n + 1) = n + 1 /\ Len(data) + (n + 1) = Len(chunk)
      BY <1>3, <1>4
    <2> QED BY <2>1, <2>2
  <1>7. n + 1 <= Len(chunk) /\ Len(chunk) = (n + 1) + Len(data)
    BY <1>3, <1>4
  <1>8. DataReads(chunk, n, Len(data), Len(chunk), whole)
    BY <1>4, <1>6, <1>7 DEF DataReads, DataRule
  <1>9. WholeReads(chunk, whole)
    BY <1>1, <1>3, <1>8, WrittenChunk DEF n, chunk
  <1> QED BY <1>9 DEF chunk, whole, data

-----------------------------------------------------------------------------
(* Expressions are trees: of some of them one has none of them in it.       *)
LeavesOf == {e \in Nodes : PartsOf(e) = {}}
Around(S) == {e \in Nodes : PartsOf(e) \subseteq S}

LEMMA NodesToIs ==
  /\ NodesTo[0] = LeavesOf
  /\ \A n \in 1 .. MaxDepth : NodesTo[n] = Around(NodesTo[n - 1])
  <1>1. MaxDepth \in Nat
    BY NodesAssumption
  <1> DEFINE Good(f, n) ==
        /\ f = [i \in 0 .. n |-> f[i]] /\ f[0] = LeavesOf
        /\ \A i \in 1 .. n : f[i] = Around(f[i - 1])
             Lacks == {n \in Nat : ~\E f : Good(f, n)}
  <1>2. Lacks = {}
    <2> SUFFICES ASSUME Lacks # {} PROVE FALSE
      OBVIOUS
    <2>1. PICK n \in Lacks : \A m \in Lacks : n <= m
      <3>1. Lacks \in SUBSET Nat
        OBVIOUS
      <3> HIDE DEF Lacks
      <3> QED BY <3>1, LeastOf
    <2>2. n # 0
      <3>1. Good([i \in 0 .. 0 |-> LeavesOf], 0)
        OBVIOUS
      <3> HIDE DEF Good
      <3>2. \E f : Good(f, 0)
        BY <3>1
      <3> QED BY <2>1, <3>2
    <2>3. n \in Nat /\ n - 1 \in Nat /\ n - 1 \notin Lacks
      <3>1. n \in Nat
        OBVIOUS
      <3>2. n - 1 \in Nat /\ ~(n <= n - 1)
        BY <2>2, <3>1
      <3> HIDE DEF Lacks
      <3> QED BY <2>1, <3>1, <3>2
    <2>4. PICK f : Good(f, n - 1)
      <3> HIDE DEF Good
      <3> QED BY <2>3
    <2>5. PICK g : g = [i \in 0 .. n |-> IF i = n THEN Around(f[n - 1]) ELSE f[i]]
      OBVIOUS
    <2>6. \A i \in 0 .. n - 1 : g[i] = f[i]
      <3>1. \A i \in 0 .. n - 1 : i \in 0 .. n /\ i # n
        BY <2>3
      <3> QED BY <2>5, <3>1
    <2>7. g[n] = Around(f[n - 1]) /\ g = [i \in 0 .. n |-> g[i]]
      <3>1. n \in 0 .. n
        BY <2>3
      <3> QED BY <2>5, <3>1
    <2>8. Good(g, n)
      <3>2. g[0] = LeavesOf
        <4>1. 0 \in 0 .. n - 1
          BY <2>3
        <4> QED BY <2>4, <2>6, <4>1
      <3>3. \A i \in 1 .. n : g[i] = Around(g[i - 1])
        <4> TAKE i \in 1 .. n
        <4>1. i - 1 \in 0 .. n - 1 /\ (i = n \/ (i \in 1 .. n - 1 /\ i \in 0 .. n - 1))
          BY <2>3
        <4>2. CASE i = n
          BY <2>6, <2>7, <4>1, <4>2
        <4>3. CASE i \in 1 .. n - 1 /\ i \in 0 .. n - 1
          <5>1. f[i] = Around(f[i - 1])
            BY <2>4, <4>3
          <5> QED BY <2>6, <4>1, <4>3, <5>1
        <4> QED BY <4>1, <4>2, <4>3
      <3> QED BY <2>7, <3>2, <3>3
    <2> HIDE DEF Good
    <2> QED BY <2>1, <2>8
  <1>3. PICK f : Good(f, MaxDepth)
    <2> HIDE DEF Good
    <2>1. MaxDepth \notin Lacks
      <3> HIDE DEF Lacks
      <3> QED BY <1>2
    <2> QED BY <1>1, <2>1
  <1>4. f = [n \in 0 .. MaxDepth |-> IF n = 0 THEN LeavesOf ELSE Around(f[n - 1])]
    <2>1. \A n \in 0 .. MaxDepth : f[n] = IF n = 0 THEN LeavesOf ELSE Around(f[n - 1])
      <3>1. \A n \in 0 .. MaxDepth : n = 0 \/ (n # 0 /\ n \in 1 .. MaxDepth)
        BY <1>1
      <3>2. f[0] = LeavesOf /\ \A n \in 1 .. MaxDepth : f[n] = Around(f[n - 1])
        BY <1>3
      <3> QED BY ONLY <3>1, <3>2
    <2>2. f = [n \in 0 .. MaxDepth |-> f[n]]
      BY <1>3
    <2> QED BY <2>1, <2>2
  <1> HIDE DEF Good
  <1> DEFINE F == NodesTo
  <1>5. F = [n \in 0 .. MaxDepth |-> IF n = 0 THEN LeavesOf ELSE Around(F[n - 1])]
    BY <1>4 DEF NodesTo, LeavesOf, Around
  <1> HIDE DEF F
  <1>6. F[0] = LeavesOf /\ \A n \in 1 .. MaxDepth : F[n] = Around(F[n - 1])
    BY <1>1, <1>5
  <1> QED BY <1>6 DEF F

LEMMA LevelsGrow == \A n \in 1 .. MaxDepth : NodesTo[n - 1] \subseteq NodesTo[n]
  <1> DEFINE Bad == {n \in Nat : n \in 1 .. MaxDepth /\ ~(NodesTo[n - 1] \subseteq NodesTo[n])}
  <1>1. SUFFICES ASSUME NEW n \in Bad, \A m \in Bad : n <= m PROVE FALSE
    <2>1. Bad \in SUBSET Nat
      OBVIOUS
    <2>2. Bad = {} => \A n \in 1 .. MaxDepth : NodesTo[n - 1] \subseteq NodesTo[n]
      OBVIOUS
    <2> HIDE DEF Bad
    <2> QED BY <2>1, <2>2, LeastOf
  <1>2. n \in 1 .. MaxDepth /\ ~(NodesTo[n - 1] \subseteq NodesTo[n]) /\ MaxDepth \in Nat
    BY NodesAssumption
  <1>3. NodesTo[n] = Around(NodesTo[n - 1])
    BY <1>2, NodesToIs
  <1>4. CASE n = 1
    <2>1. NodesTo[n - 1] = LeavesOf
      BY <1>4, NodesToIs
    <2> QED BY <1>2, <1>3, <2>1 DEF LeavesOf, Around
  <1>5. CASE n # 1
    <2>1. n - 1 \in 1 .. MaxDepth /\ n - 1 \in Nat /\ ~(n <= n - 1)
      BY <1>2, <1>5
    <2>2. n - 1 \notin Bad
      BY <1>1, <2>1
    <2>3. NodesTo[(n - 1) - 1] \subseteq NodesTo[n - 1]
      BY <2>1, <2>2
    <2>4. NodesTo[n - 1] = Around(NodesTo[(n - 1) - 1])
      BY <2>1, NodesToIs
    <2>5. NodesTo[n - 1] \subseteq NodesTo[n]
      BY <1>3, <2>3, <2>4 DEF Around
    <2> QED BY <1>2, <2>5
  <1> QED BY <1>4, <1>5

LEMMA NodesEnd ==
  ASSUME NEW Some \in SUBSET Nodes, Some # {}
  PROVE  \E e \in Some : PartsOf(e) \cap Some = {}
  <1> DEFINE At == {n \in Nat : n <= MaxDepth /\ NodesTo[n] \cap Some # {}}
  <1>1. MaxDepth \in Nat /\ Nodes = NodesTo[MaxDepth]
    BY NodesAssumption
  <1>2. MaxDepth \in At
    BY <1>1
  <1>3. PICK n \in At : \A m \in At : n <= m
    <2>1. At \in SUBSET Nat /\ At # {}
      BY <1>2
    <2> HIDE DEF At
    <2> QED BY <2>1, LeastOf
  <1>4. n \in Nat /\ n <= MaxDepth /\ NodesTo[n] \cap Some # {}
    OBVIOUS
  <1>5. PICK e \in Some : e \in NodesTo[n]
    BY <1>4
  <1>6. CASE n = 0
    BY <1>5, <1>6, NodesToIs DEF LeavesOf
  <1>7. CASE n # 0
    <2>1. n \in 1 .. MaxDepth /\ n - 1 \in Nat /\ n - 1 <= MaxDepth /\ ~(n <= n - 1)
      BY <1>1, <1>4, <1>7
    <2>2. n - 1 \notin At
      BY <1>3, <2>1
    <2>3. NodesTo[n - 1] \cap Some = {}
      BY <2>1, <2>2
    <2>4. PartsOf(e) \subseteq NodesTo[n - 1]
      BY <1>5, <2>1, NodesToIs DEF Around
    <2> QED BY <2>3, <2>4
  <1> QED BY <1>6, <1>7

-----------------------------------------------------------------------------
(* What is written of a node, and what it means, is made of what is written *)
(* of its parts: level by level there is a function for each.               *)
BelowWith(below, self) == {self} \cup UNION {below[part] : part \in PartsOf(self)}

LEMMA PairsOfMaps ==
  ASSUME NEW e \in Nodes, e.type = "Map"
  PROVE  /\ e.pairs \in Seq([key : CStrings, value : Nodes]) /\ e.count \in Nat
         /\ Len(e.pairs) \in Nat /\ DOMAIN e.pairs = 1 .. Len(e.pairs)
         /\ Len(e.pairs) <= e.count /\ KeysDiffer(e.pairs)
         /\ \A i \in DOMAIN e.pairs :
              /\ e.pairs[i].key \in CStrings /\ e.pairs[i].value \in Nodes
              /\ e.pairs[i].value \in PartsOf(e)
  <1>1. WellFormed(e)
    BY NodesAssumption
  <1>2. /\ e.pairs \in Seq([key : CStrings, value : Nodes]) /\ e.count \in Nat
        /\ Len(e.pairs) <= e.count /\ KeysDiffer(e.pairs)
    BY <1>1 DEF WellFormed
  <1>3. Len(e.pairs) \in Nat /\ DOMAIN e.pairs = 1 .. Len(e.pairs)
    BY <1>2, LenProperties
  <1>4. \A i \in DOMAIN e.pairs : e.pairs[i] \in [key : CStrings, value : Nodes]
    BY <1>2, <1>3, ElementOfSeq
  <1>5. \A i \in DOMAIN e.pairs : e.pairs[i].value \in PartsOf(e)
    BY DEF PartsOf
  <1> QED BY <1>2, <1>3, <1>4, <1>5

LEMMA BelowFollowsParts ==
  ASSUME NEW e \in Nodes, NEW c, NEW d, \A p \in PartsOf(e) : c[p] = d[p]
  PROVE  BelowWith(c, e) = BelowWith(d, e)
  BY DEF BelowWith

LEMMA RepresentationFollowsParts ==
  ASSUME NEW e \in Nodes, NEW c, NEW d, \A p \in PartsOf(e) : c[p] = d[p]
  PROVE  RepresentationWith(c, e) = RepresentationWith(d, e)
  <1>1. CASE e.type = "Array"
    <2>1. \A i \in DOMAIN e.list : c[e.list[i]] = d[e.list[i]]
      BY <1>1 DEF PartsOf
    <2>2. [i \in DOMAIN e.list |-> c[e.list[i]]] = [i \in DOMAIN e.list |-> d[e.list[i]]]
      BY <2>1
    <2> QED BY <1>1, <2>2 DEF RepresentationWith
  <1>2. CASE e.type = "Map" /\ HasItsKeys(e)
    <2>1. \A i \in 1 .. e.count : i \in DOMAIN e.pairs
      BY <1>2, PairsOfMaps DEF HasItsKeys
    <2>2. \A i \in 1 .. e.count : c[e.pairs[i].value] = d[e.pairs[i].value]
      BY <1>2, <2>1, PairsOfMaps
    <2>3. \A i \in 1 .. e.count : PairWith(c, e.pairs[i]) = PairWith(d, e.pairs[i])
      BY <2>2 DEF PairWith
    <2>4. [i \in 1 .. e.count |-> PairWith(c, e.pairs[i])] = [i \in 1 .. e.count |-> PairWith(d, e.pairs[i])]
      BY <2>3
    <2> QED BY <1>2, <2>4 DEF RepresentationWith
  <1>3. CASE e.type # "Array" /\ ~(e.type = "Map" /\ HasItsKeys(e))
    BY <1>3 DEF RepresentationWith
  <1> QED BY <1>1, <1>2, <1>3

LEMMA MeaningFollowsParts ==
  ASSUME NEW e \in Nodes, NEW c, NEW d, \A p \in PartsOf(e) : c[p] = d[p]
  PROVE  MeantWith(c, e) = MeantWith(d, e)
  <1>1. CASE e.type = "Array"
    <2>1. \A i \in DOMAIN e.list : c[e.list[i]] = d[e.list[i]]
      BY <1>1 DEF PartsOf
    <2>2. [i \in DOMAIN e.list |-> c[e.list[i]]] = [i \in DOMAIN e.list |-> d[e.list[i]]]
      BY <2>1
    <2> QED BY <1>1, <2>2 DEF MeantWith
  <1>2. CASE e.type = "Map"
    <2> DEFINE Keys == {e.pairs[i].key : i \in DOMAIN e.pairs}
               At(k) == CHOOSE i \in DOMAIN e.pairs : e.pairs[i].key = k
    <2>1. ASSUME NEW k \in Keys PROVE c[e.pairs[At(k)].value] = d[e.pairs[At(k)].value]
      <3>1. At(k) \in DOMAIN e.pairs
        BY <2>1
      <3> HIDE DEF At
      <3> QED BY <1>2, <3>1, PairsOfMaps
    <2>2. [k \in Keys |-> c[e.pairs[At(k)].value]] = [k \in Keys |-> d[e.pairs[At(k)].value]]
      BY <2>1
    <2>3. Map([k \in Keys |-> c[e.pairs[At(k)].value]]) = Map([k \in Keys |-> d[e.pairs[At(k)].value]])
      BY <2>2
    <2> QED BY <1>2, <2>3 DEF MeantWith
  <1>3. CASE e.type \notin {"Array", "Map"}
    BY <1>3 DEF MeantWith
  <1> QED BY <1>1, <1>2, <1>3

Belows(c, n) == c = [e \in NodesTo[n] |-> BelowWith(c, e)]

LEMMA BelowsExist ==
  ASSUME NEW m \in Nat, m <= MaxDepth
  PROVE  \E c : Belows(c, m)
  <1> DEFINE Without == {n \in Nat : n <= MaxDepth /\ ~ \E c : Belows(c, n)}
  <1>1. SUFFICES ASSUME NEW n \in Without, \A k \in Without : n <= k PROVE FALSE
    <2>1. Without \in SUBSET Nat
      OBVIOUS
    <2>2. Without = {} => \E c : Belows(c, m)
      OBVIOUS
    <2> HIDE DEF Without
    <2> QED BY <2>1, <2>2, LeastOf
  <1>2. CASE n = 0
    <2> DEFINE c == [e \in NodesTo[0] |-> BelowWith(<<>>, e)]
    <2>1. ASSUME NEW e \in NodesTo[0], NEW d PROVE BelowWith(<<>>, e) = BelowWith(d, e)
      <3>1. e \in Nodes /\ \A p \in PartsOf(e) : <<>>[p] = d[p]
        BY NodesToIs DEF LeavesOf
      <3> QED BY <3>1, BelowFollowsParts
    <2>2. \A d : c = [e \in NodesTo[0] |-> BelowWith(d, e)]
      BY <2>1
    <2> HIDE DEF c
    <2>3. Belows(c, 0)
      BY <2>2 DEF Belows
    <2> QED BY <1>2, <2>3
  <1>3. CASE n # 0
    <2>1. n \in 1 .. MaxDepth /\ n - 1 \in Nat /\ n - 1 <= MaxDepth /\ ~(n <= n - 1)
      BY <1>3, NodesAssumption
    <2>2. n - 1 \notin Without
      BY <1>1, <2>1
    <2>3. PICK c : Belows(c, n - 1)
      BY <2>1, <2>2
    <2> DEFINE d == [e \in NodesTo[n] |-> BelowWith(c, e)]
    <2>4. ASSUME NEW e \in NodesTo[n - 1] PROVE c[e] = d[e]
      <3>1. e \in NodesTo[n]
        BY <2>1, LevelsGrow
      <3> QED BY <2>3, <3>1 DEF Belows
    <2> HIDE DEF d
    <2>5. ASSUME NEW e \in NodesTo[n] PROVE BelowWith(c, e) = BelowWith(d, e)
      <3>1. e \in Nodes /\ PartsOf(e) \subseteq NodesTo[n - 1]
        BY <2>1, NodesToIs DEF Around
      <3> QED BY <2>4, <3>1, BelowFollowsParts
    <2>6. d = [e \in NodesTo[n] |-> BelowWith(d, e)]
      BY <2>5 DEF d
    <2> QED BY <2>6 DEF Belows
  <1> QED BY <1>2, <1>3

LEMMA BelowIs ==
  ASSUME NEW e \in Nodes
  PROVE  Below[e] = BelowWith(Below, e)
  <1>1. PICK c : Belows(c, MaxDepth)
    BY BelowsExist, NodesAssumption
  <1>2. c = [self \in Nodes |-> BelowWith(c, self)]
    BY <1>1, NodesAssumption DEF Belows
  <1>3. Below = [self \in Nodes |-> BelowWith(Below, self)]
    BY <1>2 DEF Below, BelowWith
  <1> DEFINE f == Below
  <1>4. f = [self \in Nodes |-> BelowWith(f, self)]
    BY <1>3
  <1> HIDE DEF f
  <1>5. f[e] = BelowWith(f, e)
    BY <1>4
  <1> QED BY <1>5 DEF f

Writings(c, n) == c = [e \in NodesTo[n] |-> RepresentationWith(c, e)]

LEMMA WritingsExist ==
  ASSUME NEW m \in Nat, m <= MaxDepth
  PROVE  \E c : Writings(c, m)
  <1> DEFINE Without == {n \in Nat : n <= MaxDepth /\ ~ \E c : Writings(c, n)}
  <1>1. SUFFICES ASSUME NEW n \in Without, \A k \in Without : n <= k PROVE FALSE
    <2>1. Without \in SUBSET Nat
      OBVIOUS
    <2>2. Without = {} => \E c : Writings(c, m)
      OBVIOUS
    <2> HIDE DEF Without
    <2> QED BY <2>1, <2>2, LeastOf
  <1>2. CASE n = 0
    <2> DEFINE c == [e \in NodesTo[0] |-> RepresentationWith(<<>>, e)]
    <2>1. ASSUME NEW e \in NodesTo[0], NEW d PROVE RepresentationWith(<<>>, e) = RepresentationWith(d, e)
      <3>1. e \in Nodes /\ \A p \in PartsOf(e) : <<>>[p] = d[p]
        BY NodesToIs DEF LeavesOf
      <3> QED BY <3>1, RepresentationFollowsParts
    <2>2. \A d : c = [e \in NodesTo[0] |-> RepresentationWith(d, e)]
      BY <2>1
    <2> HIDE DEF c
    <2>3. Writings(c, 0)
      BY <2>2 DEF Writings
    <2> QED BY <1>2, <2>3
  <1>3. CASE n # 0
    <2>1. n \in 1 .. MaxDepth /\ n - 1 \in Nat /\ n - 1 <= MaxDepth /\ ~(n <= n - 1)
      BY <1>3, NodesAssumption
    <2>2. n - 1 \notin Without
      BY <1>1, <2>1
    <2>3. PICK c : Writings(c, n - 1)
      BY <2>1, <2>2
    <2> DEFINE d == [e \in NodesTo[n] |-> RepresentationWith(c, e)]
    <2>4. ASSUME NEW e \in NodesTo[n - 1] PROVE c[e] = d[e]
      <3>1. e \in NodesTo[n]
        BY <2>1, LevelsGrow
      <3> QED BY <2>3, <3>1 DEF Writings
    <2> HIDE DEF d
    <2>5. ASSUME NEW e \in NodesTo[n] PROVE RepresentationWith(c, e) = RepresentationWith(d, e)
      <3>1. e \in Nodes /\ PartsOf(e) \subseteq NodesTo[n - 1]
        BY <2>1, NodesToIs DEF Around
      <3> QED BY <2>4, <3>1, RepresentationFollowsParts
    <2>6. d = [e \in NodesTo[n] |-> RepresentationWith(d, e)]
      BY <2>5 DEF d
    <2> QED BY <2>6 DEF Writings
  <1> QED BY <1>2, <1>3

LEMMA RepresentationIs ==
  ASSUME NEW e \in Nodes
  PROVE  BinaryRepresentation[e] = RepresentationWith(BinaryRepresentation, e)
  <1>1. PICK c : Writings(c, MaxDepth)
    BY WritingsExist, NodesAssumption
  <1>2. c = [self \in Nodes |-> RepresentationWith(c, self)]
    BY <1>1, NodesAssumption DEF Writings
  <1>3. BinaryRepresentation = [self \in Nodes |-> RepresentationWith(BinaryRepresentation, self)]
    BY <1>2 DEF BinaryRepresentation
  <1> DEFINE f == BinaryRepresentation
  <1>4. f = [self \in Nodes |-> RepresentationWith(f, self)]
    BY <1>3
  <1> HIDE DEF f
  <1>5. f[e] = RepresentationWith(f, e)
    BY <1>4
  <1> QED BY <1>5 DEF f

Meanings(c, n) == c = [e \in NodesTo[n] |-> MeantWith(c, e)]

LEMMA MeaningsExist ==
  ASSUME NEW m \in Nat, m <= MaxDepth
  PROVE  \E c : Meanings(c, m)
  <1> DEFINE Without == {n \in Nat : n <= MaxDepth /\ ~ \E c : Meanings(c, n)}
  <1>1. SUFFICES ASSUME NEW n \in Without, \A k \in Without : n <= k PROVE FALSE
    <2>1. Without \in SUBSET Nat
      OBVIOUS
    <2>2. Without = {} => \E c : Meanings(c, m)
      OBVIOUS
    <2> HIDE DEF Without
    <2> QED BY <2>1, <2>2, LeastOf
  <1>2. CASE n = 0
    <2> DEFINE c == [e \in NodesTo[0] |-> MeantWith(<<>>, e)]
    <2>1. ASSUME NEW e \in NodesTo[0], NEW d PROVE MeantWith(<<>>, e) = MeantWith(d, e)
      <3>1. e \in Nodes /\ \A p \in PartsOf(e) : <<>>[p] = d[p]
        BY NodesToIs DEF LeavesOf
      <3> QED BY <3>1, MeaningFollowsParts
    <2>2. \A d : c = [e \in NodesTo[0] |-> MeantWith(d, e)]
      BY <2>1
    <2> HIDE DEF c
    <2>3. Meanings(c, 0)
      BY <2>2 DEF Meanings
    <2> QED BY <1>2, <2>3
  <1>3. CASE n # 0
    <2>1. n \in 1 .. MaxDepth /\ n - 1 \in Nat /\ n - 1 <= MaxDepth /\ ~(n <= n - 1)
      BY <1>3, NodesAssumption
    <2>2. n - 1 \notin Without
      BY <1>1, <2>1
    <2>3. PICK c : Meanings(c, n - 1)
      BY <2>1, <2>2
    <2> DEFINE d == [e \in NodesTo[n] |-> MeantWith(c, e)]
    <2>4. ASSUME NEW e \in NodesTo[n - 1] PROVE c[e] = d[e]
      <3>1. e \in NodesTo[n]
        BY <2>1, LevelsGrow
      <3> QED BY <2>3, <3>1 DEF Meanings
    <2> HIDE DEF d
    <2>5. ASSUME NEW e \in NodesTo[n] PROVE MeantWith(c, e) = MeantWith(d, e)
      <3>1. e \in Nodes /\ PartsOf(e) \subseteq NodesTo[n - 1]
        BY <2>1, NodesToIs DEF Around
      <3> QED BY <2>4, <3>1, MeaningFollowsParts
    <2>6. d = [e \in NodesTo[n] |-> MeantWith(d, e)]
      BY <2>5 DEF d
    <2> QED BY <2>6 DEF Meanings
  <1> QED BY <1>2, <1>3

LEMMA MeantIs ==
  ASSUME NEW e \in Nodes
  PROVE  Meant[e] = MeantWith(Meant, e)
  <1>1. PICK c : Meanings(c, MaxDepth)
    BY MeaningsExist, NodesAssumption
  <1>2. c = [self \in Nodes |-> MeantWith(c, self)]
    BY <1>1, NodesAssumption DEF Meanings
  <1>3. Meant = [self \in Nodes |-> MeantWith(Meant, self)]
    BY <1>2 DEF Meant
  <1> DEFINE f == Meant
  <1>4. f = [self \in Nodes |-> MeantWith(f, self)]
    BY <1>3
  <1> HIDE DEF f
  <1>5. f[e] = MeantWith(f, e)
    BY <1>4
  <1> QED BY <1>5 DEF f

LEMMA BelowParts ==
  ASSUME NEW e \in Nodes
  PROVE  e \in Below[e] /\ \A p \in PartsOf(e) : Below[p] \subseteq Below[e]
  BY BelowIs DEF BelowWith

-----------------------------------------------------------------------------
(* What is written of any node means what the node does, if it fits.        *)
Writes(e) ==
  KeysAreThere(e) =>
    LET chunk == BinaryRepresentation[e] IN
    /\ chunk \in Seq(Byte)
    /\ HasChunks(e) => Len(chunk) > 0 /\ (Len(chunk) < Wrap => WholeReads(chunk, Meant[e]))

LEMMA ChunkGrows ==
  ASSUME NEW type \in Byte, NEW data \in Seq(Byte)
  PROVE  LET chunk == ChunkOf(type, data) IN
         chunk \in Seq(Byte) /\ Len(chunk) \in Nat /\ Len(chunk) > 0 /\ Len(data) < Len(chunk)
  <1> DEFINE chunk == ChunkOf(type, data)
             n == bytesize(Len(data))
  <1>1. n \in 1 .. 10 /\ chunk \in Seq(Byte) /\ Len(chunk) = n + 1 + Len(data)
    BY ChunkIs
  <1>2. Len(data) \in Nat /\ Len(chunk) \in Nat
    BY <1>1, LenProperties
  <1> HIDE DEF chunk, n
  <1>3. Len(chunk) > 0 /\ Len(data) < Len(chunk)
    BY <1>1, <1>2
  <1> QED BY <1>1, <1>2, <1>3 DEF chunk

(* A chunk fits where its data does. *)
LEMMA FitsWith ==
  ASSUME NEW type \in Byte, NEW data \in Seq(Byte), Len(ChunkOf(type, data)) < Wrap
  PROVE  Len(data) < Wrap
  <1> DEFINE chunk == ChunkOf(type, data)
  <1>1. Len(chunk) \in Nat /\ Len(data) < Len(chunk)
    BY ChunkGrows
  <1>2. Len(data) \in Nat /\ Wrap \in Nat /\ Len(chunk) < Wrap
    BY LenProperties, TypesAreBytes
  <1> HIDE DEF chunk
  <1> QED BY <1>1, <1>2

LEMMA PartFits ==
  ASSUME NEW docs \in Seq(Seq(Byte)), Len(FlattenSeq(docs)) < Wrap, NEW i \in 1 .. Len(docs)
  PROVE  docs[i] \in Seq(Byte) /\ Len(docs[i]) < Wrap
  <1> DEFINE flat == FlattenSeq(docs)
  <1>1. flat \in Seq(Byte) /\ \E k : Lies(docs[i], flat, k)
    BY PartsLie
  <1> HIDE DEF flat
  <1>2. docs[i] \in Seq(Byte) /\ \E k \in Nat : k + Len(docs[i]) <= Len(flat)
    BY <1>1 DEF Lies
  <1>3. Len(flat) \in Nat /\ Len(docs[i]) \in Nat /\ Wrap \in Nat
    BY <1>1, <1>2, LenProperties, TypesAreBytes
  <1>4. Len(flat) < Wrap
    BY DEF flat
  <1> QED BY <1>2, <1>3, <1>4

LEMMA PartsAreWritten ==
  ASSUME NEW e \in Nodes, NEW p \in PartsOf(e), p \in Nodes, Writes(p), KeysAreThere(e)
  PROVE  LET chunk == BinaryRepresentation[p] IN
         /\ chunk \in Seq(Byte)
         /\ HasChunks(e) => Len(chunk) > 0 /\ (Len(chunk) < Wrap => WholeReads(chunk, Meant[p]))
  <1>1. KeysAreThere(p) /\ (HasChunks(e) => HasChunks(p))
    BY BelowParts DEF KeysAreThere, HasChunks
  <1> QED BY <1>1 DEF Writes

LEMMA LeafIsWritten ==
  ASSUME NEW e \in Nodes, e.type \notin {"Array", "Map"}
  PROVE  Writes(e)
  <1>1. BinaryRepresentation[e] = RepresentationWith(BinaryRepresentation, e)
    BY RepresentationIs
  <1>2. Meant[e] = e
    <2>1. Meant[e] = MeantWith(Meant, e)
      BY MeantIs
    <2> QED BY <2>1 DEF MeantWith
  <1>3. WellFormed(e)
    BY NodesAssumption
  <1>4. CASE e.type = "Null"
    <2>1. BinaryRepresentation[e] = ChunkOf(0, <<>>)
      BY <1>1, <1>4 DEF RepresentationWith
    <2>2. e = Null
      BY <1>3, <1>4 DEF WellFormed, Null
    <2>3. 0 \in Byte /\ <<>> \in Seq(Byte)
      BY TypesAreBytes, EmptySeq
    <2>4. ChunkOf(0, <<>>) \in Seq(Byte) /\ Len(ChunkOf(0, <<>>)) > 0
      BY <2>3, ChunkGrows
    <2> QED BY <1>2, <2>1, <2>2, <2>4, NullWritten DEF Writes
  <1>5. CASE e.type = "Value"
    <2>1. BinaryRepresentation[e] = ChunkOf(1, e.data)
      BY <1>1, <1>5 DEF RepresentationWith
    <2>2. e.data \in CStrings /\ e = Value(e.data)
      BY <1>3, <1>5 DEF WellFormed, Value
    <2>3. 1 \in Byte /\ e.data \in Seq(Byte)
      <3>1. Byte \ {0} \subseteq Byte
        OBVIOUS
      <3> QED BY <2>2, <3>1, TypesAreBytes, SeqMonotonic DEF CStrings
    <2>4. ChunkOf(1, e.data) \in Seq(Byte) /\ Len(ChunkOf(1, e.data)) > 0
      BY <2>3, ChunkGrows
    <2>5. Len(ChunkOf(1, e.data)) < Wrap => WholeReads(ChunkOf(1, e.data), Value(e.data))
      BY <2>2, <2>3, FitsWith, ValueWritten
    <2> QED BY <1>2, <2>1, <2>2, <2>4, <2>5 DEF Writes
  <1>6. CASE e.type = "BinaryData"
    <2> DEFINE data == Raw(e.data)
    <2>1. BinaryRepresentation[e] = ChunkOf(4, data)
      BY <1>1, <1>6 DEF RepresentationWith, Raw
    <2>2. e.data \in Seq(Byte) /\ e = BinaryData(e.data)
      BY <1>3, <1>6 DEF WellFormed, BinaryData
    <2>3. 4 \in Byte /\ data \in Seq(Byte)
      <3>1. <<0>> \in Seq(Byte)
        BY TypesAreBytes
      <3> QED BY <2>2, <3>1, TypesAreBytes, ConcatProperties DEF Raw
    <2>4. ChunkOf(4, data) \in Seq(Byte) /\ Len(ChunkOf(4, data)) > 0
      BY <2>3, ChunkGrows
    <2>5. Len(ChunkOf(4, data)) < Wrap => WholeReads(ChunkOf(4, data), BinaryData(e.data))
      BY <2>2, <2>3, FitsWith, BinaryDataWritten
    <2> QED BY <1>2, <2>1, <2>2, <2>4, <2>5 DEF Writes
  <1>7. CASE e.type = "Invalid"
    <2>1. BinaryRepresentation[e] = <<>>
      BY <1>1, <1>7 DEF RepresentationWith
    <2>2. ~HasChunks(e)
      BY <1>7, BelowParts DEF HasChunks
    <2> QED BY <2>1, <2>2, EmptySeq DEF Writes
  <1>8. e.type \in {"Null", "Value", "BinaryData", "Invalid"}
    BY <1>3 DEF WellFormed
  <1> QED BY <1>4, <1>5, <1>6, <1>7, <1>8

LEMMA ArrayIsWritten ==
  ASSUME NEW e \in Nodes, e.type = "Array", \A p \in PartsOf(e) : p \in Nodes /\ Writes(p)
  PROVE  Writes(e)
  <1> DEFINE docs == [i \in DOMAIN e.list |-> BinaryRepresentation[e.list[i]]]
             exprs == [i \in DOMAIN e.list |-> Meant[e.list[i]]]
             flat == FlattenSeq(docs)
             chunk == ChunkOf(2, flat)
  <1>1. BinaryRepresentation[e] = chunk
    <2>1. BinaryRepresentation[e] = RepresentationWith(BinaryRepresentation, e)
      BY RepresentationIs
    <2> QED BY <2>1 DEF RepresentationWith
  <1>2. Meant[e] = Array(exprs)
    <2>1. Meant[e] = MeantWith(Meant, e)
      BY MeantIs
    <2> QED BY <2>1 DEF MeantWith
  <1>3. PICK n \in Nat : n = Len(e.list) /\ DOMAIN e.list = 1 .. n
    <2>1. WellFormed(e)
      BY NodesAssumption
    <2>2. e.list \in Seq(Nodes)
      BY <2>1 DEF WellFormed
    <2> QED BY <2>2, LenProperties
  <1>4. SUFFICES ASSUME KeysAreThere(e)
                 PROVE  /\ chunk \in Seq(Byte)
                        /\ HasChunks(e) => Len(chunk) > 0 /\ (Len(chunk) < Wrap => WholeReads(chunk, Array(exprs)))
    BY <1>1, <1>2 DEF Writes
  <1>5. \A i \in 1 .. n : e.list[i] \in PartsOf(e)
    BY <1>3 DEF PartsOf
  <1>6. \A i \in 1 .. n :
          /\ docs[i] \in Seq(Byte)
          /\ HasChunks(e) => Len(docs[i]) > 0 /\ (Len(docs[i]) < Wrap => WholeReads(docs[i], exprs[i]))
    BY <1>3, <1>4, <1>5, PartsAreWritten
  <1>7. docs \in Seq(Seq(Byte)) /\ Len(docs) = n
    <2>1. docs = [i \in 1 .. n |-> docs[i]]
      BY <1>3
    <2> HIDE DEF docs
    <2>2. docs \in [1 .. n -> Seq(Byte)]
      BY <1>6, <2>1
    <2> QED BY <2>2, LenProperties
  <1>8. FirstOf(exprs, n) = exprs
    BY <1>3 DEF FirstOf
  <1>9. 2 \in Byte /\ flat \in Seq(Byte)
    <2> HIDE DEF docs
    <2> QED BY <1>7, TypesAreBytes, PartsLie
  <1>10. chunk \in Seq(Byte) /\ Len(chunk) > 0
    <2> HIDE DEF flat
    <2> QED BY <1>9, ChunkGrows
  <1>11. ASSUME HasChunks(e), Len(chunk) < Wrap PROVE WholeReads(chunk, Array(exprs))
    <2>1. Len(flat) < Wrap
      <3> HIDE DEF flat
      <3> QED BY <1>9, <1>11, FitsWith
    <2> HIDE DEF docs, exprs
    <2>2. \A i \in 1 .. Len(docs) : Len(docs[i]) > 0 /\ WholeReads(docs[i], exprs[i])
      BY <1>6, <1>7, <1>11, <2>1, PartFits
    <2>3. WholeReads(chunk, Array(FirstOf(exprs, Len(docs))))
      BY <1>7, <2>1, <2>2, ArrayWritten
    <2> QED BY <1>7, <1>8, <2>3
  <1> QED BY <1>10, <1>11

LEMMA MapIsWritten ==
  ASSUME NEW e \in Nodes, e.type = "Map", \A p \in PartsOf(e) : p \in Nodes /\ Writes(p)
  PROVE  Writes(e)
  <1> SUFFICES ASSUME KeysAreThere(e) PROVE Writes(e)
    BY DEF Writes
  <1>1. PICK n \in Nat : n = e.count /\ n = Len(e.pairs) /\ DOMAIN e.pairs = 1 .. n
    <2>1. HasItsKeys(e)
      BY BelowParts DEF KeysAreThere
    <2> QED BY <2>1, PairsOfMaps DEF HasItsKeys
  <1> DEFINE keys == [i \in 1 .. n |-> e.pairs[i].key]
             vals == [i \in 1 .. n |-> Meant[e.pairs[i].value]]
             heads == [i \in 1 .. n |-> ChunkOf(1, e.pairs[i].key)]
             tails == [i \in 1 .. n |-> BinaryRepresentation[e.pairs[i].value]]
             docs == [i \in 1 .. n |-> PairWith(BinaryRepresentation, e.pairs[i])]
             flat == FlattenSeq(docs)
             chunk == ChunkOf(3, flat)
             whole == Map(HashOf(keys, vals, n, n))
  <1>2. BinaryRepresentation[e] = chunk
    <2>1. BinaryRepresentation[e] = RepresentationWith(BinaryRepresentation, e)
      BY RepresentationIs
    <2>2. HasItsKeys(e)
      BY <1>1 DEF HasItsKeys
    <2> QED BY <1>1, <2>1, <2>2 DEF RepresentationWith
  <1>3. Meant[e] = whole
    <2>1. Meant[e] = MeantWith(Meant, e)
      BY MeantIs
    <2> DEFINE Keys == {e.pairs[i].key : i \in 1 .. n}
               At(k) == CHOOSE i \in 1 .. n : e.pairs[i].key = k
               At2(k) == CHOOSE i \in 1 .. n : keys[i] = k
    <2>2. Meant[e] = Map([k \in Keys |-> Meant[e.pairs[At(k)].value]])
      BY <1>1, <2>1 DEF MeantWith
    <2>3. Keys = {keys[i] : i \in 1 .. n}
      OBVIOUS
    <2>4. ASSUME NEW k \in Keys PROVE Meant[e.pairs[At(k)].value] = vals[At2(k)]
      <3>1. PICK i \in 1 .. n : e.pairs[i].key = k
        OBVIOUS
      <3>2. At(k) \in 1 .. n /\ e.pairs[At(k)].key = k
        BY <3>1
      <3>3. At2(k) \in 1 .. n /\ keys[At2(k)] = k
        BY <3>1
      <3>4. KeysDiffer(e.pairs)
        BY PairsOfMaps
      <3> HIDE DEF At, At2
      <3>5. e.pairs[At2(k)].key = k
        BY <3>3
      <3>6. At(k) = At2(k)
        BY <1>1, <3>2, <3>3, <3>4, <3>5 DEF KeysDiffer
      <3> QED BY <3>3, <3>6
    <2>5. [k \in Keys |-> Meant[e.pairs[At(k)].value]] = [k \in Keys |-> vals[At2(k)]]
      <3> HIDE DEF At, At2, Keys, vals
      <3> QED BY <2>4
    <2>6. HashOf(keys, vals, n, n) = [k \in Keys |-> vals[At2(k)]]
      BY <2>3 DEF HashOf
    <2> QED BY <2>2, <2>5, <2>6
  <1>4. 1 \in Byte /\ 3 \in Byte /\ Wrap \in Nat
    BY TypesAreBytes
  <1>5. \A i \in 1 .. n :
          /\ e.pairs[i].key \in CStrings /\ e.pairs[i].key \in Seq(Byte)
          /\ e.pairs[i].value \in PartsOf(e)
    <2>1. Byte \ {0} \subseteq Byte
      OBVIOUS
    <2>2. CStrings \subseteq Seq(Byte)
      BY <2>1, SeqMonotonic DEF CStrings
    <2> QED BY <1>1, <2>2, PairsOfMaps
  <1>6. \A i \in 1 .. n :
          /\ tails[i] \in Seq(Byte)
          /\ HasChunks(e) => Len(tails[i]) > 0 /\ (Len(tails[i]) < Wrap => WholeReads(tails[i], vals[i]))
    BY <1>5, PartsAreWritten
  <1>7. \A i \in 1 .. n :
          /\ heads[i] \in Seq(Byte) /\ Len(heads[i]) > 0
          /\ Len(heads[i]) < Wrap => WholeReads(heads[i], Value(keys[i]))
    <2> TAKE i \in 1 .. n
    <2>1. PICK key : key = e.pairs[i].key /\ key \in CStrings /\ key \in Seq(Byte)
      BY <1>5
    <2>2. ChunkOf(1, key) \in Seq(Byte) /\ Len(ChunkOf(1, key)) > 0
      BY <1>4, <2>1, ChunkGrows
    <2>3. Len(ChunkOf(1, key)) < Wrap => WholeReads(ChunkOf(1, key), Value(key))
      BY <1>4, <2>1, FitsWith, ValueWritten
    <2> QED BY <2>1, <2>2, <2>3
  <1>8. \A i \in 1 .. n : docs[i] = heads[i] \o tails[i]
    BY DEF PairWith
  <1> HIDE DEF heads, tails, vals
  <1>9. docs \in Seq(Seq(Byte)) /\ Len(docs) = n
    <2>1. docs = [i \in 1 .. n |-> docs[i]]
      OBVIOUS
    <2> HIDE DEF docs
    <2>2. \A i \in 1 .. n : docs[i] \in Seq(Byte)
      BY <1>6, <1>7, <1>8, ConcatProperties
    <2>3. docs \in [1 .. n -> Seq(Byte)]
      BY <2>1, <2>2
    <2> QED BY <2>3, LenProperties
  <1>10. \A a, b \in 1 .. n : keys[a] = keys[b] => a = b
    <2>1. KeysDiffer(e.pairs)
      BY PairsOfMaps
    <2> QED BY <1>1, <2>1 DEF KeysDiffer
  <1> HIDE DEF docs, keys
  <1>11. flat \in Seq(Byte)
    BY <1>9, PartsLie
  <1>12. chunk \in Seq(Byte) /\ Len(chunk) > 0
    <2> HIDE DEF flat
    <2> QED BY <1>4, <1>11, ChunkGrows
  <1>13. ASSUME HasChunks(e), Len(chunk) < Wrap PROVE WholeReads(chunk, whole)
    <2>1. Len(flat) < Wrap
      <3> HIDE DEF flat
      <3> QED BY <1>4, <1>11, <1>13, FitsWith
    <2>2. ASSUME NEW i \in 1 .. n PROVE Len(heads[i]) < Wrap /\ Len(tails[i]) < Wrap
      <3>1. Len(docs[i]) < Wrap
        BY <1>9, <2>1, PartFits
      <3>2. heads[i] \in Seq(Byte) /\ tails[i] \in Seq(Byte) /\ docs[i] = heads[i] \o tails[i]
        BY <1>6, <1>7, <1>8
      <3>3. Len(docs[i]) = Len(heads[i]) + Len(tails[i])
        BY <3>2, ConcatProperties
      <3>4. Len(heads[i]) \in Nat /\ Len(tails[i]) \in Nat
        BY <3>2, LenProperties
      <3>5. PICK a, b, c : a = Len(heads[i]) /\ b = Len(tails[i]) /\ c = Len(docs[i])
        OBVIOUS
      <3>6. a \in Nat /\ b \in Nat /\ Wrap \in Nat /\ c = a + b /\ c < Wrap
        BY <1>4, <3>1, <3>3, <3>4, <3>5
      <3>7. a < Wrap /\ b < Wrap
        BY ONLY <3>6
      <3> QED BY <3>5, <3>7
    <2>3. ArePairs(docs, keys, vals, heads, tails)
      BY <1>6, <1>7, <1>8, <1>9, <1>10, <1>13, <2>2 DEF ArePairs
    <2>4. WholeReads(chunk, Map(HashOf(keys, vals, Len(docs), Len(docs))))
      BY <1>9, <2>1, <2>3, MapWritten
    <2> QED BY <1>9, <2>4
  <1> HIDE DEF chunk, whole
  <1> QED BY <1>2, <1>3, <1>12, <1>13 DEF Writes

LEMMA PartsAreNodes ==
  ASSUME NEW e \in Nodes
  PROVE  PartsOf(e) \subseteq Nodes
  <1>1. WellFormed(e)
    BY NodesAssumption
  <1>2. CASE e.type = "Array"
    <2>1. e.list \in Seq(Nodes)
      BY <1>1, <1>2 DEF WellFormed
    <2>2. \A i \in DOMAIN e.list : e.list[i] \in Nodes
      BY <2>1, LenProperties, ElementOfSeq
    <2> QED BY <1>2, <2>2 DEF PartsOf
  <1>3. CASE e.type = "Map"
    BY <1>3, PairsOfMaps DEF PartsOf
  <1>4. CASE e.type \notin {"Array", "Map"}
    BY <1>4 DEF PartsOf
  <1> QED BY <1>2, <1>3, <1>4

LEMMA NodesAreWritten ==
  ASSUME NEW e \in Nodes
  PROVE  Writes(e)
  <1> DEFINE Some == {x \in Nodes : ~Writes(x)}
  <1>1. SUFFICES ASSUME NEW x \in Some, PartsOf(x) \cap Some = {} PROVE FALSE
    <2>1. Some \in SUBSET Nodes
      OBVIOUS
    <2>2. e \in Some \/ Writes(e)
      OBVIOUS
    <2> HIDE DEF Some
    <2> QED BY <2>1, <2>2, NodesEnd
  <1>2. x \in Nodes /\ ~Writes(x)
    OBVIOUS
  <1>3. \A p \in PartsOf(x) : p \in Nodes /\ Writes(p)
    BY <1>1, <1>2, PartsAreNodes
  <1> QED BY <1>2, <1>3, LeafIsWritten, ArrayIsWritten, MapIsWritten

-----------------------------------------------------------------------------
(* What is written is read back.                                            *)

(* The chunk of any expression, and whatever bytes follow it, are a         *)
(* document that denotes the expression.                                    *)
THEOREM WhatIsWrittenDenotes ==
  ASSUME NEW e \in Nodes, KeysAreThere(e), HasChunks(e), NEW tail \in Behind
  PROVE  LET doc == BinaryRepresentation[e] \o tail IN
         doc \in Seq(Byte) /\ Len(doc) < Wrap /\ Denotes(doc, Meant[e])
  <1> DEFINE doc == BinaryRepresentation[e] \o tail
  <1>1. PICK chunk : chunk = BinaryRepresentation[e]
    OBVIOUS
  <1>2. chunk \in Seq(Byte) /\ (Len(chunk) < Wrap => WholeReads(chunk, Meant[e]))
    BY <1>1, NodesAreWritten DEF Writes
  <1>3. tail \in Seq(Byte) /\ Len(doc) < Wrap /\ Wrap \in Nat
    BY RoomAssumption, TypesAreBytes
  <1>4. doc = chunk \o tail /\ doc \in Seq(Byte) /\ Len(doc) = Len(chunk) + Len(tail)
    BY <1>1, <1>2, <1>3, ConcatProperties
  <1>5. Len(chunk) \in Nat /\ Len(tail) \in Nat
    BY <1>2, <1>3, LenProperties
  <1> HIDE DEF doc
  <1>6. Len(chunk) < Wrap /\ Len(chunk) <= Len(doc)
    BY <1>3, <1>4, <1>5
  <1>7. Lies(chunk, doc, 0)
    <2>1. \A j \in 1 .. Len(chunk) : chunk[0 + j] = chunk[j] /\ 0 + j = j
      BY <1>5
    <2>2. 0 \in Nat /\ 0 + Len(chunk) <= Len(chunk)
      BY <1>5
    <2>3. Lies(chunk, chunk, 0)
      BY <1>2, <2>1, <2>2 DEF Lies
    <2> QED BY <1>2, <1>3, <1>4, <2>3, LiesStill
  <1>8. Len(chunk) = 0 + Len(chunk)
    BY <1>5
  <1>9. Reads(doc, Goal("chunk", Invalid, 0, Len(chunk)), Meant[e])
    BY <1>2, <1>6, <1>7, <1>8, MovedWhole
  <1>10. Denotes(doc, Meant[e])
    BY <1>5, <1>6, <1>9 DEF Denotes
  <1> QED BY <1>3, <1>4, <1>10 DEF doc

(* Before it is written, written, and while it is read. *)
NotYetWritten ==
  /\ result = Unstarted /\ cur = Root /\ callers = <<>>
  /\ rest = Failed /\ read = Invalid /\ error = "None" /\ sound = TRUE

IsWritten == Starts /\ Denotes(bytes, Meant[source])

IsReadBack == Registers /\ SoundSoFar /\ ErrorIsOnItsWay /\ OnItsWay(Meant[source])

Returns == source \in Nodes /\ HasChunks(source) /\ KeysAreThere(source)
WaysBack ==
  /\ source \in Nodes \cup {Nothing}
  /\ Returns => NotYetWritten \/ IsWritten \/ IsReadBack

LEMMA NodesMean ==
  ASSUME NEW e \in Nodes
  PROVE  Meant[e] \notin {Unstarted, Reading, Stopped}
  <1>1. Meant[e] = MeantWith(Meant, e)
    BY MeantIs
  <1>2. WellFormed(e)
    BY NodesAssumption
  <1>3. Meant[e].type \in {"Null", "Invalid", "Value", "BinaryData", "Array", "Map"}
    BY <1>1, <1>2 DEF MeantWith, WellFormed, Array, Map
  <1> QED BY <1>3 DEF Unstarted, Reading, Stopped

LEMMA WritingIsOnItsWay ==
  ASSUME Returns, NotYetWritten, WriteAndRead
  PROVE  IsWritten'
  <1>1. PICK tail \in Behind : bytes' = BinaryRepresentation[source] \o tail
    BY DEF WriteAndRead
  <1>2. bytes' \in Seq(Byte) /\ Len(bytes') < Wrap /\ Denotes(bytes', Meant[source])
    BY <1>1, WhatIsWrittenDenotes DEF Returns
  <1>3. source' = source /\ Starts'
    BY <1>2 DEF Starts, WriteAndRead, NotYetWritten
  <1> QED BY <1>2, <1>3 DEF IsWritten

LEMMA TripKeeps ==
  ASSUME WaysBack, [TripStep \/ TripDone]_tripVars
  PROVE  WaysBack'
  <1>1. source' = source
    BY DEF TripStep, TripDone, WriteAndRead, WriteMissesKey, TripRead, tripVars
  <1>2. SUFFICES ASSUME Returns PROVE NotYetWritten' \/ IsWritten' \/ IsReadBack'
    BY <1>1 DEF WaysBack, Returns
  <1>3. CASE NotYetWritten
    <2>1. CASE WriteAndRead
      BY <1>2, <1>3, <2>1, WritingIsOnItsWay
    <2>2. ~WriteMissesKey
      BY <1>2 DEF WriteMissesKey, Returns
    <2>3. ~ReadStep
      <3>1. cur.pc = "root" /\ result # Reading
        BY <1>3 DEF NotYetWritten, Root, Activation, Unstarted, Reading
      <3> QED BY <3>1 DEF ReadStep, ChunkTooSmall, ReadHeader, SizeByte, SizeUnended, TypeOutside,
           TypeHeld, ReadNull, ReadValue, ReadBinary, UnknownCompression, UnknownType, OpenArray,
           OpenMap, Element, Key, NextChunk, ChildFailed, ElementRead, KeyRead, ValueRead,
           CloseContainer, BinaryFinish
    <2>4. CASE UNCHANGED tripVars
      BY <1>3, <2>4 DEF NotYetWritten, tripVars, binaryVars
    <2> QED BY <2>1, <2>2, <2>3, <2>4 DEF TripStep, TripDone, TripRead
  <1>4. CASE IsWritten \/ IsReadBack
    <2>1. IsReadBack
      BY <1>4, RegistersAtFirst, SoundnessAtFirst, ErrorAtFirst, InitOn DEF IsWritten, IsReadBack
    <2>2. result \notin {Unstarted, Stopped}
      BY <1>2, <2>1, NodesMean DEF IsReadBack, OnItsWay, Returns, Unstarted, Stopped, Reading
    <2>3. [ReadStep]_binaryVars
      BY <2>2 DEF TripStep, TripDone, WriteAndRead, WriteMissesKey, TripRead, tripVars
    <2>4. Registers' /\ SoundSoFar' /\ ErrorIsOnItsWay'
      <3>1. CASE UNCHANGED binaryVars
        <4>1. Registers'
          BY <2>1, <3>1 DEF IsReadBack, Registers, binaryVars, IsStack
        <4> QED BY <2>1, <2>3, <4>1, SoundnessIsKept, ErrorStaysOnItsWay DEF IsReadBack
      <3> QED BY <2>1, <2>3, <3>1, StepKeepsRegisters, SoundnessIsKept, ErrorStaysOnItsWay
              DEF IsReadBack
    <2>5. PICK expr : expr = Meant[source]
      OBVIOUS
    <2>6. OnItsWay(expr)'
      BY <2>1, <2>3, <2>5, StaysOn DEF IsReadBack
    <2>7. OnItsWay(Meant[source])'
      BY <1>1, <2>5, <2>6 DEF OnItsWay, Wanted
    <2> QED BY <2>4, <2>7 DEF IsReadBack
  <1> QED BY <1>2, <1>3, <1>4 DEF WaysBack

(* Every expression that has a chunk is read back from it as what it is,    *)
(* whatever follows the chunk: null, words, binary data, arrays and maps    *)
(* nested as deep as may be, with sizes of any number of digits.            *)
THEOREM ReadsBackWhatIsWritten == TripSpec => []ReadsBackBinary
  <1>1. TripInit => WaysBack
    <2>1. Nothing \notin Nodes
      BY NodesAssumption DEF WellFormed, Nothing
    <2> QED BY <2>1 DEF TripInit, WaysBack, Returns, NotYetWritten
  <1>2. WaysBack => ReadsBackBinary
    BY DEF WaysBack, ReadsBackBinary, Returns, NotYetWritten, IsWritten, Starts, IsReadBack,
           OnItsWay, Answered, Root, Activation, Chunk, Unstarted, Reading
  <1>3. WaysBack /\ [TripStep \/ TripDone]_tripVars => WaysBack'
    BY TripKeeps
  <1> QED BY <1>1, <1>2, <1>3, PTL DEF TripSpec
=============================================================================
