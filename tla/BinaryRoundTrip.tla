-------------------------- MODULE BinaryRoundTrip ---------------------------
(***************************************************************************)
(* An expression is written as a binary chunk and the chunk is read again; *)
(* or a document of somebody else is read.                                 *)
(***************************************************************************)
EXTENDS BinaryReader, BinaryWriter

CONSTANT Behind    (* what may follow the chunk in the buffer *)

(* Types are bytes, ten digits are enough for a size_t, and memory holds    *)
(* what is written and what follows it.                                     *)
ASSUME RoomAssumption ==
  /\ 4 \in Byte /\ Wrap <= Power[10]
  /\ Behind \subseteq Seq(Byte)
  /\ \A self \in Nodes : KeysAreThere(self) =>
       \A tail \in Behind : Len(BinaryRepresentation[self] \o tail) < Wrap

VARIABLE source    (* the expression to write, Nothing for none *)

tripVars == <<source, binaryVars>>

TripInit ==
  \/ BinaryInit /\ source = Nothing
  \/ /\ source \in Nodes
     /\ bytes = <<>>
     /\ cur = Root /\ callers = <<>>
     /\ rest = Failed /\ read = Invalid
     /\ error = "None" /\ sound = TRUE /\ result = Unstarted

WriteAndRead ==
  /\ result = Unstarted /\ KeysAreThere(source)
  /\ \E tail \in Behind : bytes' = BinaryRepresentation[source] \o tail
  /\ cur' = Chunk(0, Len(bytes')) /\ callers' = <<Root>>
  /\ result' = Reading
  /\ UNCHANGED <<source, rest, read, error, sound>>

(* strlen(NULL): nothing that follows has a meaning. *)
Stopped == [type |-> "Stopped"]
WriteMissesKey ==
  /\ result = Unstarted /\ ~KeysAreThere(source)
  /\ result' = Stopped
  /\ UNCHANGED <<source, bytes, cur, callers, rest, read, error, sound>>

TripRead == ReadStep /\ UNCHANGED source

TripStep == WriteAndRead \/ WriteMissesKey \/ TripRead

TripDone == Answered /\ UNCHANGED tripVars

TripSpec == TripInit /\ [][TripStep \/ TripDone]_tripVars /\ WF_tripVars(TripRead)

-----------------------------------------------------------------------------
(* The expression a node stands for.                                        *)
MeantWith(meant, self) ==
  CASE self.type = "Array" -> Array([i \in DOMAIN self.list |-> meant[self.list[i]]])
    [] self.type = "Map" ->
         Map([k \in {self.pairs[i].key : i \in DOMAIN self.pairs} |->
                meant[self.pairs[CHOOSE i \in DOMAIN self.pairs : self.pairs[i].key = k].value]])
    [] OTHER -> self

Meant[self \in Nodes] == MeantWith(Meant, self)

(* An invalid expression has no chunk: in an array it is lost, in a map the *)
(* next key takes its place.                                                *)
HasChunks(self) == \A e \in Below[self] : e.type # "Invalid"

(* What was written is read back as the expression it was written from,     *)
(* whatever follows it in the buffer: sizes of one digit and of several, of *)
(* leaves and of containers, up to each boundary.                           *)
ReadsBackBinary ==
  source # Nothing /\ Answered /\ HasChunks(source) /\ KeysAreThere(source) =>
    result = Meant[source]

(* What the header says of createBinaryRepresentation: it gives the chunk,  *)
(* or a null buffer on errors.  It gives neither for a map that counts more *)
(* keys than it has.                                                        *)
WritesOrSaysSo == result # Stopped
=============================================================================
