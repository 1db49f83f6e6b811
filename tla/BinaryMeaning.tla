--------------------------- MODULE BinaryMeaning ---------------------------
(***************************************************************************)
(* What a binary document means, by the positions in it and with no reader *)
(* in it.                                                                  *)
(***************************************************************************)
EXTENDS BinaryReader

(* A goal is what is wanted of the bytes behind from, up to to: a chunk, or *)
(* the rest of the elements or of the pairs of a container of which self    *)
(* has the first ones.                                                      *)
Goal(want, self, from, to) == [want |-> want, self |-> self, from |-> from, to |-> to]

(* The digits of a size, and what the first ones of them stand for.         *)
DigitsAre(doc, from, width, value, size) ==
  /\ width \in Nat /\ width > 0 /\ from + width <= Len(doc)
  /\ \A j \in 1 .. width : doc[from + j] < Radix <=> j = width
  /\ value \in [0 .. width -> Nat] /\ value[0] = 0 /\ value[width] = size
  /\ \A j \in 1 .. width : value[j] = (value[j - 1] * Radix) + (doc[from + j] % Radix)

(* The rules, where Read(goal, expr) says what the parts of a document mean: *)
(* what a chunk is whose size was read, with its type behind type, ...       *)
DataRule(Read(_, _), doc, type, size, to, expr) ==
  LET data == type + 1 IN
  /\ data <= to
  /\ \/ doc[data] = 0 /\ to = data /\ expr = Null
     \/ /\ doc[data] = 1 /\ to = data + size
        /\ expr = Value(CString(SubSeq(doc, data + 1, to)))
     \/ doc[data] = 2 /\ to = data + size /\ Read(Goal("elements", Array(<<>>), data, to), expr)
     \/ doc[data] = 3 /\ to = data + size /\ Read(Goal("pairs", Map(<<>>), data, to), expr)
     \/ /\ doc[data] = 4 /\ to = data + size /\ size > 0 /\ doc[data + 1] = 0
        /\ expr = BinaryData(SubSeq(doc, data + 2, to))

ChunkRule(Read(_, _), doc, goal, expr) ==
  \E width, value, size :
    /\ size \in Size /\ DigitsAre(doc, goal.from, width, value, size)
    /\ DataRule(Read, doc, goal.from + width, size, goal.to, expr)

(* ... one more element, or no byte is left for one, ...                    *)
ElementsRule(Read(_, _), goal, expr) ==
  \/ goal.from = goal.to /\ expr = goal.self
  \/ \E mid, e :
       /\ mid \in Nat /\ goal.from < mid /\ mid <= goal.to
       /\ Read(Goal("chunk", Invalid, goal.from, mid), e)
       /\ Read(Goal("elements", [goal.self EXCEPT !.list = Append(@, e)], mid, goal.to), expr)

(* ... and one more key, which must be a value, with what it maps to.       *)
PairsRule(Read(_, _), goal, expr) ==
  \/ goal.from = goal.to /\ expr = goal.self
  \/ \E mid, k, end, v :
       /\ mid \in Nat /\ goal.from < mid /\ mid < end /\ end \in Nat /\ end <= goal.to
       /\ Read(Goal("chunk", Invalid, goal.from, mid), k) /\ k.type = "Value"
       /\ Read(Goal("chunk", Invalid, mid, end), v)
       /\ Read(Goal("pairs", [goal.self EXCEPT !.hash = Put(@, k.data, v)], end, goal.to), expr)

Rule(Read(_, _), doc, goal, expr) ==
  \/ goal.want = "chunk" /\ ChunkRule(Read, doc, goal, expr)
  \/ goal.want = "elements" /\ ElementsRule(Read, goal, expr)
  \/ goal.want = "pairs" /\ PairsRule(Read, goal, expr)

(* A derivation is a set of readings each of which has, by its rule, its    *)
(* parts among them.  A part is shorter than the whole, so that no reading  *)
(* leans on itself.                                                         *)
Gives(D, doc, goal, expr) == Rule(LAMBDA g, e : <<g, e>> \in D, doc, goal, expr)
Derivation(D, doc) == \A goal, expr : <<goal, expr>> \in D => Gives(D, doc, goal, expr)
Reads(doc, goal, expr) == \E D : Derivation(D, doc) /\ <<goal, expr>> \in D

(* A document denotes what the chunk it starts with means; bytes behind the *)
(* chunk are not part of it.                                                *)
Denotes(doc, expr) ==
  \E n \in Nat : n <= Len(doc) /\ Reads(doc, Goal("chunk", Invalid, 0, n), expr)
=============================================================================
