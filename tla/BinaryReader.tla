---------------------------- MODULE BinaryReader ----------------------------
(***************************************************************************)
(* Reading a binary chunk: wexpr_Expression_createFromBinaryChunk and the  *)
(* recursion of s_Expression_parseFromBinaryChunk over the chunks inside   *)
(* chunks, byte by byte where the code trusts what it reads.               *)
(*                                                                         *)
(* A chunk is its size (module UVLQ64), its type, and size bytes of data.  *)
(* Wrap, of size_t and of pointers, is 2^64 in the code.  Pointers are     *)
(* offsets from the first byte handed in.                                  *)
(***************************************************************************)
EXTENDS UVLQ64

INSTANCE Expression WITH Words <- {}, Blobs <- {}, MaxDepth <- 0

CONSTANTS
  Wrap,       (* values of a size_t                                       *)
  Documents   (* the byte strings handed in                               *)

Size == 0 .. Wrap - 1

ASSUME BinaryAssumption ==
  /\ Radix \in Nat /\ Radix > 0
  /\ Wrap \in Nat /\ Wrap > 1
  /\ Documents \subseteq {b \in Seq(Byte) : Len(b) < Wrap}

VARIABLES
  bytes,      (* the data handed in                                       *)
  cur,        (* the running activation of parseFromBinaryChunk           *)
  callers,    (* the activations below it, the nearest first              *)
  rest,       (* the buffer the last call returned                        *)
  read,       (* the expression the last call filled                      *)
  error,      (* the code of the WexprError of the call                   *)
  sound,      (* history: every chunk so far was within its container and *)
              (* every key a value                                        *)
  result      (* what the caller got                                      *)

binaryVars == <<bytes, cur, callers, rest, read, error, sound, result>>

Plus(a, b) == (a + b) % Wrap
Minus(a, b) == (a - b) % Wrap

(* The data and the byteSize of the buffer of an activation, the expression *)
(* it fills, sizeSize, size, curPos, startSize and keySize, and the key of  *)
(* the pair it reads.                                                       *)
Activation(pc, at, room) ==
  [pc |-> pc, at |-> at, room |-> room, expr |-> Invalid, width |-> 0, size |-> 0,
   pos |-> 0, start |-> 0, keySize |-> 0, key |-> Invalid]
Chunk(at, room) == Activation("chunk", at, room)
Root == Activation("root", 0, 0)

Failed == [data |-> FALSE, at |-> 0, room |-> 0]
Rest(at, room) == [data |-> TRUE, at |-> at, room |-> room]

Unstarted == [type |-> "Unstarted"]
Reading == [type |-> "Reading"]
Nothing == [type |-> "Nothing"]

BinaryInit ==
  /\ bytes \in Documents
  /\ cur = Chunk(0, Len(bytes)) /\ callers = <<Root>>
  /\ rest = Failed /\ read = Invalid
  /\ error = "None" /\ sound = TRUE /\ result = Reading

Held(at) == at < Len(bytes)
ByteAt(at) == bytes[at + 1]

(* Where the data of a chunk start, and whether n bytes from there are held. *)
DataOf(chunk) == Plus(chunk.at, chunk.width + 1)
HeldFrom(at, n) == n = 0 \/ at + n <= Len(bytes)
DataBytes(at, n) == SubSeq(bytes, at + 1, at + n)

(* A chunk takes the first `amount` bytes of its buffer. *)
Within(amount) == amount <= cur.room

Go(next) == cur' = next /\ UNCHANGED <<callers, rest, read>>
Call(caller, at, room) ==
  /\ cur' = Chunk(at, room) /\ callers' = <<caller>> \o callers
  /\ UNCHANGED <<rest, read>>
Return(buffer, expr) ==
  /\ rest' = buffer /\ read' = expr
  /\ cur' = Head(callers) /\ callers' = Tail(callers)
ReturnRest(amount, expr) ==
  Return(Rest(Plus(cur.at, amount), Minus(cur.room, amount)), expr)

(* What the code does has no meaning any more: it reads bytes that were not *)
(* handed in, or follows a null pointer.                                    *)
Undefined == Go([cur EXCEPT !.pc = "undefined"])

Fail(code) == error' = code /\ Return(Failed, cur.expr)

Same == UNCHANGED <<bytes, error, sound, result>>

-----------------------------------------------------------------------------
(* The header.                                                              *)
ChunkTooSmall ==
  /\ cur.pc = "chunk" /\ cur.room < 2
  /\ Fail("BinaryChunkNotBigEnough")
  /\ UNCHANGED <<bytes, sound, result>>

ReadHeader ==
  /\ cur.pc = "chunk" /\ cur.room >= 2
  /\ Go([cur EXCEPT !.pc = "size"])
  /\ Same

(* Mutant: the loop stays where it is. *)
SizeByteStays ==
  LET byte == ByteAt(Plus(cur.at, cur.width)) IN
  /\ cur.pc = "size" /\ cur.width # cur.room /\ Held(Plus(cur.at, cur.width))
  /\ Go([cur EXCEPT !.size = ((@ * Radix) + (byte % Radix)) % Wrap,
                    !.pc = IF byte < Radix THEN "type" ELSE "size"])
  /\ Same

(* One turn of the loop of wexpr_uvlq64_read. *)
SizeByte ==
  LET byte == ByteAt(Plus(cur.at, cur.width)) IN
  /\ cur.pc = "size" /\ cur.width # cur.room /\ Held(Plus(cur.at, cur.width))
  /\ Go([cur EXCEPT !.size = ((@ * Radix) + (byte % Radix)) % Wrap,
                    !.width = Plus(@, 1),
                    !.pc = IF byte < Radix THEN "type" ELSE "size"])
  /\ Same

(* wexpr_uvlq64_read gives NULL, and the type is read from there. *)
SizeUnended ==
  /\ cur.pc = "size"
  /\ cur.width = cur.room \/ ~Held(Plus(cur.at, cur.width))
  /\ Undefined
  /\ sound' = (sound /\ cur.width # cur.room)
  /\ UNCHANGED <<bytes, error, result>>

TypeHeld == cur.pc = "type" /\ Held(Plus(cur.at, cur.width))
ChunkType == ByteAt(Plus(cur.at, cur.width))

TypeOutside ==
  /\ cur.pc = "type" /\ ~TypeHeld
  /\ Undefined
  /\ sound' = (sound /\ Within(cur.width + 1))
  /\ UNCHANGED <<bytes, error, result>>

(* The data of a chunk is to be within its buffer. *)
Sound(enough) == sound' = (sound /\ enough /\ Within(cur.width + 1 + cur.size))

-----------------------------------------------------------------------------
(* Chunks without chunks in them.  A null chunk is its header, whatever     *)
(* size it states.                                                          *)
ReadNull ==
  /\ TypeHeld /\ ChunkType = 0
  /\ ReturnRest(cur.width + 1, Null)
  /\ sound' = (sound /\ Within(cur.width + 1))
  /\ UNCHANGED <<bytes, error, result>>

(* Strings end at their first zero. *)
CString(s) ==
  IF \E i \in DOMAIN s : s[i] = 0
  THEN SubSeq(s, 1, (CHOOSE i \in DOMAIN s : s[i] = 0 /\ \A j \in 1 .. i - 1 : s[j] # 0) - 1)
  ELSE s

ReadValue ==
  /\ TypeHeld /\ ChunkType = 1
  /\ IF HeldFrom(DataOf(cur), cur.size)
     THEN ReturnRest(cur.width + 1 + cur.size, Value(CString(DataBytes(DataOf(cur), cur.size))))
     ELSE Undefined
  /\ Sound(TRUE)
  /\ UNCHANGED <<bytes, error, result>>

(* The byte that says how the data are compressed is part of the size. *)
ReadBinary ==
  /\ TypeHeld /\ ChunkType = 4
  /\ Held(DataOf(cur)) => ByteAt(DataOf(cur)) = 0
  /\ IF Held(DataOf(cur)) /\ HeldFrom(Plus(DataOf(cur), 1), Minus(cur.size, 1))
     THEN ReturnRest(cur.width + 1 + cur.size,
                     BinaryData(DataBytes(Plus(DataOf(cur), 1), Minus(cur.size, 1))))
     ELSE Undefined
  /\ Sound(cur.size > 0)
  /\ UNCHANGED <<bytes, error, result>>

UnknownCompression ==
  /\ TypeHeld /\ ChunkType = 4
  /\ Held(DataOf(cur)) /\ ByteAt(DataOf(cur)) # 0
  /\ Fail("BinaryUnknownCompression")
  /\ UNCHANGED <<bytes, sound, result>>

UnknownType ==
  /\ TypeHeld /\ ChunkType > 4
  /\ Fail("BinaryChunkNotBigEnough")
  /\ UNCHANGED <<bytes, sound, result>>

-----------------------------------------------------------------------------
(* Chunks of chunks.                                                        *)
OpenArray ==
  /\ TypeHeld /\ ChunkType = 2
  /\ Go([cur EXCEPT !.pc = "elements", !.expr = Array(<<>>)])
  /\ Sound(TRUE)
  /\ UNCHANGED <<bytes, error, result>>

(* Mutant: the type of the branch above it, copied. *)
OpenMapAsArray ==
  /\ TypeHeld /\ ChunkType = 3
  /\ Go([cur EXCEPT !.pc = "pairs", !.expr = Array(<<>>)])
  /\ Sound(TRUE)
  /\ UNCHANGED <<bytes, error, result>>

OpenMap ==
  /\ TypeHeld /\ ChunkType = 3
  /\ Go([cur EXCEPT !.pc = "pairs", !.expr = Map(<<>>)])
  /\ Sound(TRUE)
  /\ UNCHANGED <<bytes, error, result>>

(* Mutant: each chunk is given the whole size of its container. *)
StartSizeWhole == cur.size

(* What is left of the size is the buffer of the next chunk. *)
StartSize == Minus(cur.size, cur.pos)

NextChunk(loop, after) ==
  /\ cur.pc = loop /\ cur.pos < cur.size
  /\ Call([cur EXCEPT !.pc = after, !.start = StartSize, !.keySize = 0],
          Plus(DataOf(cur), cur.pos), StartSize)
  /\ Same

Element == NextChunk("elements", "elementRead")
Key == NextChunk("pairs", "keyRead")

(* Mutant: the key is counted with the value as well. *)
CurPosKeyTwice == Plus(cur.pos, Minus(cur.start, rest.room))

(* How far a call has come: what it left of what was there for the pair, or *)
(* for the element, less what its key took.                                 *)
CurPos == Plus(cur.pos, Minus(Minus(cur.start, rest.room), cur.keySize))

ChildFailed ==
  /\ cur.pc \in {"elementRead", "keyRead", "valueRead"} /\ ~rest.data
  /\ Return(Failed, cur.expr)
  /\ Same

(* Mutant: what failed is added to the array. *)
ElementReadUnchecked ==
  /\ cur.pc = "elementRead"
  /\ Go([cur EXCEPT !.pc = "elements", !.pos = CurPos, !.expr.list = Append(@, read)])
  /\ Same

ElementRead ==
  /\ cur.pc = "elementRead" /\ rest.data
  /\ Go([cur EXCEPT !.pc = "elements", !.pos = CurPos, !.expr.list = Append(@, read)])
  /\ Same

KeyRead ==
  /\ cur.pc = "keyRead" /\ rest.data
  /\ Call([cur EXCEPT !.pc = "valueRead", !.pos = CurPos,
                      !.keySize = Minus(cur.start, rest.room), !.key = read],
          rest.at, rest.room)
  /\ sound' = (sound /\ read.type = "Value")
  /\ UNCHANGED <<bytes, error, result>>

(* strdup(NULL) when the key is no value. *)
Put(hash, key, expr) == [k \in DOMAIN hash \cup {key} |-> IF k = key THEN expr ELSE hash[k]]

ValueRead ==
  /\ cur.pc = "valueRead" /\ rest.data
  /\ IF cur.key.type = "Value"
     THEN Go([cur EXCEPT !.pc = "pairs", !.pos = CurPos,
                         !.expr.hash = Put(@, cur.key.data, read)])
     ELSE Undefined
  /\ Same

CloseContainer ==
  /\ cur.pc \in {"elements", "pairs"} /\ cur.pos >= cur.size
  /\ ReturnRest(cur.width + 1 + cur.pos, cur.expr)
  /\ Same

(* Bytes behind the chunk are ignored. *)
BinaryFinish ==
  /\ cur.pc = "root" /\ result = Reading
  /\ result' = IF error # "None" THEN Nothing ELSE read
  /\ UNCHANGED <<bytes, cur, callers, rest, read, error, sound>>

ReadStep ==
  \/ ChunkTooSmall \/ ReadHeader \/ SizeByte \/ SizeUnended \/ TypeOutside
  \/ ReadNull \/ ReadValue \/ ReadBinary \/ UnknownCompression \/ UnknownType
  \/ OpenArray \/ OpenMap \/ Element \/ Key \/ ChildFailed
  \/ ElementRead \/ KeyRead \/ ValueRead \/ CloseContainer \/ BinaryFinish

(* The caller has its answer, or there is none. *)
Answered == result \notin {Unstarted, Reading} \/ cur.pc = "undefined"

BinarySpec == BinaryInit /\ [][ReadStep]_binaryVars /\ WF_binaryVars(ReadStep)

-----------------------------------------------------------------------------
Loop == {"elements", "pairs"}
Called == {"elementRead", "keyRead", "valueRead"}
Heads == {"chunk", "size", "type"}

BuffersOK(chunk) ==
  /\ \A field \in {"at", "room", "width", "size", "pos", "start", "keySize"} :
       chunk[field] \in Size
  /\ chunk.pc \in {"elements", "elementRead"} => chunk.expr.type = "Array"
  /\ chunk.pc \in {"pairs", "keyRead", "valueRead"} => chunk.expr.type = "Map"

(* Sizes and pointers keep their width, and each activation that reads the  *)
(* chunks of a container fills an array or a map; below them is the entry.  *)
BinaryTypeOK ==
  /\ cur.pc \in Heads \cup Loop \cup Called \cup {"root", "undefined"}
  /\ BuffersOK(cur)
  /\ \A i \in DOMAIN callers :
       /\ BuffersOK(callers[i])
       /\ callers[i].pc \in Called \/ (callers[i].pc = "root" /\ i = Len(callers))
  /\ error \in {"None", "BinaryChunkNotBigEnough", "BinaryUnknownCompression"}

(* The reader trusts the sizes it reads.  That never takes it out of the    *)
(* bytes it was given, nor to a key that is not there, as long as every     *)
(* chunk so far was within the buffer of its container and every key a      *)
(* value: the sizes of siblings and of what contains them add up.           *)
StaysInBuffer == cur.pc = "undefined" => ~sound

(* A container whose chunks were within it ends exactly where its size      *)
(* says, neither short of it nor behind it, so the chunk that follows is    *)
(* found.                                                                   *)
ContainersEndWhereTheySay ==
  [][CloseContainer /\ sound => cur.pos = cur.size]_binaryVars

(* Once a chunk failed, at any depth, every activation only returns what it *)
(* has: no byte is read, nothing is added to an array or a map, and the     *)
(* error stays the first one, although each place that sets one does so     *)
(* without looking.                                                         *)
OnlyReturnsAfterError ==
  [][error # "None" =>
       /\ error' = error
       /\ IF cur.pc = "root"
          THEN UNCHANGED <<cur, callers, rest, read>>
          ELSE rest' = Failed /\ read' = cur.expr /\ callers' = Tail(callers)]_binaryVars

(* Every document comes to an end, sound or not: each chunk takes at least  *)
(* its header.                                                              *)
BinaryTerminates == result = Reading ~> Answered
=============================================================================
