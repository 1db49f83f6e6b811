----------------------------- MODULE Validation -----------------------------
(***************************************************************************)
(* Validating an expression: wexprSchema_Schema_validateExpression and the *)
(* recursion of wexprSchema_Type_validateObject over the parents of a type *)
(* and the parts of an expression.  Each activation is a record with its   *)
(* registers; the list of errors it writes to is what its caller gets.     *)
(*                                                                         *)
(* A map is its table and the count the hash map gives for it, which is    *)
(* larger once a key was put twice: the indexes behind the last pair hold  *)
(* nothing.  The pairs come in the order of the hash map, that is in any.  *)
(***************************************************************************)
EXTENDS SchemaTypes

CONSTANT
  MaxCalls    (* bound: activations the C stack has room for             *)

ASSUME MaxCallsAssumption == MaxCalls \in Nat

VARIABLES
  types,      (* m_types of the schema: a type for each name             *)
  cur,        (* the running activation of validateObject                *)
  callers,    (* the activations below it, the nearest first             *)
  ret         (* what the last call returned and the errors it left      *)

validationVars == <<cur, callers, ret>>

Counted(hash, count) == [type |-> "Map", hash |-> hash, count |-> count]
KeysIn(expr) == IF expr.type = "Map" THEN DOMAIN expr.hash ELSE {}
mapCount(expr) == IF expr.type = "Map" THEN expr.count ELSE 0
mapValueForKey(expr, key) == IF key \in KeysIn(expr) THEN expr.hash[key] ELSE Absent
arrayCount(expr) == IF expr.type = "Array" THEN Len(expr.list) ELSE 0

(* wexpr_Expression_type, of nothing too; the text of anything but a value  *)
(* is none, which a regular expression takes for an empty one.              *)
TypeOf(expr) == IF expr = Absent THEN "Invalid" ELSE expr.type
EmptyText == ""
TextOf(expr) == IF expr.type = "Value" THEN expr.data ELSE EmptyText

(* An activation: whether it was given a place for errors, whether each key *)
(* on the way to the expression has a name, what its loops have left.       *)
Frame(pc, type, expr, want, named) ==
  [pc |-> pc, type |-> type, expr |-> expr, want |-> want, named |-> named,
   i |-> 1, keys |-> {}, key |-> EmptyText, ok |-> TRUE, errors |-> <<>>, reasons |-> <<>>]
Idle == Frame("root", EmptyText, Absent, FALSE, TRUE)

(* A WexprSchemaError with its children; the chain is the sequence. *)
Reason(why, child) == [why |-> why, type |-> cur.type, expr |-> cur.expr, child |-> child]
Passed == [ok |-> TRUE, errors |-> <<>>]

Type == types[cur.type]
Primitives == primitiveTypes(types, cur.type)

Go(next) == cur' = next /\ UNCHANGED <<callers, ret, types>>
Undefined == Go([cur EXCEPT !.pc = "undefined"])

(* A call, if the C stack has room for it. *)
Call(caller, type, expr, want, named) ==
  /\ IF Len(callers) < MaxCalls
     THEN /\ cur' = Frame("kinds", type, expr, want, named)
          /\ callers' = <<caller>> \o callers
     ELSE /\ cur' = [cur EXCEPT !.pc = "overflow"]
          /\ UNCHANGED callers
  /\ UNCHANGED <<ret, types>>

(* *error becomes a new error in front of what is there, if there is a      *)
(* place for it.                                                            *)
Explained(why, child, errors) ==
  IF cur.want THEN <<Reason(why, child)>> \o errors ELSE errors

Answer(ok, errors) ==
  /\ ret' = [ok |-> ok, errors |-> errors]
  /\ cur' = Head(callers) /\ callers' = Tail(callers)
  /\ UNCHANGED types

(* wexprSchema_TypeInstance_validateObject: without a call when the         *)
(* instance is optional and there is nothing; an instance that was never    *)
(* resolved is reported to wherever `error` points.                         *)
ValidateInstance(caller, instance, expr, want, named) ==
  \/ /\ ~instance.type.resolved
     /\ IF want
        THEN /\ cur' = caller
             /\ ret' = [ok |-> FALSE, errors |-> <<Reason("unresolved", <<>>)>>]
             /\ UNCHANGED <<callers, types>>
        ELSE Undefined
  \/ /\ instance.type.resolved
     /\ instance.optional /\ TypeOf(expr) \in {"Null", "Invalid"}
     /\ cur' = caller /\ ret' = Passed /\ UNCHANGED <<callers, types>>
  \/ /\ instance.type.resolved
     /\ ~(instance.optional /\ TypeOf(expr) \in {"Null", "Invalid"})
     /\ Call(caller, instance.type.name, expr, want, named)

-----------------------------------------------------------------------------
(* The primitive types.                                                     *)
AskForEver ==
  /\ cur.pc = "kinds" /\ AsksForEver(types, cur.type)
  /\ Go([cur EXCEPT !.pc = "overflow"])

Matches == matchesExpressionType(Primitives, TypeOf(cur.expr))

(* The message names the path, and a key that is not there has no name. *)
WrongPrimitive ==
  /\ cur.pc = "kinds" /\ ~AsksForEver(types, cur.type) /\ ~Matches
  /\ IF cur.want /\ ~cur.named
     THEN Undefined
     ELSE Answer(FALSE, Explained("primitive", <<>>, <<>>))

RightPrimitive ==
  /\ cur.pc = "kinds" /\ ~AsksForEver(types, cur.type) /\ Matches
  /\ Go([cur EXCEPT !.pc = "parents"])

-----------------------------------------------------------------------------
(* Its types, of which one has to match.  Their errors go to a list of      *)
(* their own.                                                               *)
TryParent ==
  /\ cur.pc = "parents" /\ cur.i <= Len(Type.types)
  /\ Call([cur EXCEPT !.pc = "parentTried"], Type.types[cur.i].name, cur.expr, TRUE, cur.named)

(* Mutant: the same type is tried again. *)
ParentFailedAgain ==
  /\ cur.pc = "parentTried" /\ ~ret.ok
  /\ Go([cur EXCEPT !.pc = "parents"])

ParentFailed ==
  /\ cur.pc = "parentTried" /\ ~ret.ok
  /\ Go([cur EXCEPT !.pc = "parents", !.i = @ + 1, !.reasons = ret.errors \o @])

(* Mutant: the errors of the types tried before are kept as the errors of   *)
(* the call.                                                                *)
ParentMatchedKeepsErrors ==
  /\ cur.pc = "parentTried" /\ ret.ok
  /\ Go([cur EXCEPT !.pc = "elements", !.i = 1, !.reasons = <<>>, !.errors = cur.reasons])

ParentMatched ==
  /\ cur.pc = "parentTried" /\ ret.ok
  /\ Go([cur EXCEPT !.pc = "elements", !.i = 1, !.reasons = <<>>])

NoParentMatched ==
  /\ cur.pc = "parents" /\ cur.i > Len(Type.types) /\ Type.types # <<>>
  /\ Answer(FALSE, Explained("types", cur.reasons, <<>>))

NoParents ==
  /\ cur.pc = "parents" /\ Type.types = <<>>
  /\ Go([cur EXCEPT !.pc = "elements"])

-----------------------------------------------------------------------------
(* The rules of arrays, when the type may be one: every element, also after *)
(* one that failed.                                                         *)
ElementRule == IF "Array" \in Primitives THEN Type.arrayAllElements ELSE {}
ElementsLeft == ElementRule # {} /\ cur.i <= arrayCount(cur.expr)

ValidateElement ==
  /\ cur.pc = "elements" /\ ElementsLeft
  /\ \E rule \in ElementRule :
       ValidateInstance([cur EXCEPT !.pc = "elementTried"], rule, cur.expr.list[cur.i],
                        cur.want, cur.named)

(* Mutant: the last element decides. *)
ElementValidatedLast ==
  /\ cur.pc = "elementTried"
  /\ Go([cur EXCEPT !.pc = "elements", !.i = @ + 1, !.ok = ret.ok,
                    !.errors = ret.errors \o @])

ElementValidated ==
  /\ cur.pc = "elementTried"
  /\ Go([cur EXCEPT !.pc = "elements", !.i = @ + 1, !.ok = @ /\ ret.ok,
                    !.errors = ret.errors \o @])

(* A failure of one kind of rules is the end, the next kind is not tried.   *)
NextRules(pc, keys, i) ==
  IF cur.ok THEN Go([cur EXCEPT !.pc = pc, !.keys = keys, !.i = i])
            ELSE Answer(FALSE, cur.errors)

ElementsDone ==
  /\ cur.pc = "elements" /\ ~ElementsLeft
  /\ NextRules("properties",
               IF "Map" \in Primitives THEN DOMAIN Type.mapProperties ELSE {}, 1)

-----------------------------------------------------------------------------
(* The rules of maps, when the type may be one: its properties, whether the *)
(* expression has them or not.  Each has a list of errors of its own.       *)
ValidateProperty ==
  /\ cur.pc = "properties"
  /\ \E key \in cur.keys :
       ValidateInstance([cur EXCEPT !.pc = "propertyTried", !.keys = @ \ {key}],
                        Type.mapProperties[key], mapValueForKey(cur.expr, key), TRUE, cur.named)

(* Mutant: what was written to the list of a property becomes an error,     *)
(* also when the property is fine.                                          *)
PropertyValidatedReported ==
  /\ cur.pc = "propertyTried"
  /\ Go([cur EXCEPT !.pc = "properties", !.ok = @ /\ ret.ok,
                    !.errors = Explained("property", ret.errors, @)])

PropertyValidated ==
  /\ cur.pc = "propertyTried"
  /\ Go([cur EXCEPT !.pc = "properties", !.ok = @ /\ ret.ok,
                    !.errors = IF ret.ok THEN @ ELSE Explained("property", ret.errors, @)])

MapRule(rule) == IF "Map" \in Primitives THEN rule ELSE {}
PairRules == MapRule(Type.mapKeyType) \cup MapRule(Type.mapAllProperties)
Blanks == mapCount(cur.expr) - Cardinality(KeysIn(cur.expr))

(* The loop over the pairs has the keys left, and then the blank indexes.   *)
PropertiesDone ==
  /\ cur.pc = "properties" /\ cur.keys = {}
  /\ Go([cur EXCEPT !.pc = "pairs",
                    !.keys = IF PairRules = {} THEN {} ELSE KeysIn(cur.expr),
                    !.i = IF PairRules = {} THEN 0 ELSE Blanks])

ValidateKey ==
  /\ cur.pc = "pairs"
  /\ \E key \in cur.keys :
       LET caller == [cur EXCEPT !.pc = "keyTried", !.keys = @ \ {key}, !.key = key] IN
       IF MapRule(Type.mapKeyType) = {}
       THEN cur' = caller /\ ret' = Passed /\ UNCHANGED <<callers, types>>
       ELSE \E rule \in MapRule(Type.mapKeyType) :
              ValidateInstance(caller, rule, Value(key), cur.want, cur.named)

ValidatePair ==
  /\ cur.pc = "keyTried"
  /\ LET caller == [cur EXCEPT !.pc = "pairTried", !.ok = @ /\ ret.ok,
                               !.errors = ret.errors \o @] IN
     IF MapRule(Type.mapAllProperties) = {}
     THEN cur' = caller /\ ret' = Passed /\ UNCHANGED <<callers, types>>
     ELSE \E rule \in MapRule(Type.mapAllProperties) :
            ValidateInstance(caller, rule, cur.expr.hash[cur.key], cur.want, cur.named)

(* An index without a pair: its key is strdupd when keys have a rule, its   *)
(* value validated when they have one.                                      *)
ValidateBlank ==
  /\ cur.pc = "pairs" /\ cur.keys = {} /\ cur.i > 0
  /\ IF MapRule(Type.mapKeyType) # {}
     THEN Undefined
     ELSE \E rule \in MapRule(Type.mapAllProperties) :
            ValidateInstance([cur EXCEPT !.pc = "pairTried", !.i = @ - 1], rule, Absent,
                             cur.want, FALSE)

PairValidated ==
  /\ cur.pc = "pairTried"
  /\ Go([cur EXCEPT !.pc = "pairs", !.ok = @ /\ ret.ok, !.errors = ret.errors \o @])

PairsDone ==
  /\ cur.pc = "pairs" /\ cur.keys = {} /\ cur.i = 0
  /\ Go([cur EXCEPT !.pc = "additional"])

(* Keys without a rule, unless they are allowed: again every index, and the *)
(* key of one without a pair is looked up.  The errors of several keys are   *)
(* one error here.                                                          *)
Refuses == "Map" \in Primitives /\ Type.mapAllProperties = {} /\ ~Type.mapAllowAdditionalProperties
AdditionalKeys == IF Refuses THEN KeysIn(cur.expr) \ DOMAIN Type.mapProperties ELSE {}

FindAdditional ==
  /\ cur.pc = "additional"
  /\ IF Refuses /\ Blanks > 0
     THEN Undefined
     ELSE Go([cur EXCEPT !.pc = "value", !.ok = @ /\ AdditionalKeys = {},
                         !.errors = IF AdditionalKeys = {} THEN @
                                    ELSE Explained("additional", <<>>, @)])

-----------------------------------------------------------------------------
(* The rule of values.                                                      *)
AgainstRegex ==
  "Value" \in Primitives /\ \E words \in Type.regex : TextOf(cur.expr) \notin words

ValidateValue ==
  /\ cur.pc = "value"
  /\ IF cur.ok /\ AgainstRegex
     THEN Answer(FALSE, Explained("regex", <<>>, cur.errors))
     ELSE Answer(cur.ok, cur.errors)

ValidateStep ==
  \/ AskForEver \/ WrongPrimitive \/ RightPrimitive
  \/ TryParent \/ ParentFailed \/ ParentMatched \/ NoParentMatched \/ NoParents
  \/ ValidateElement \/ ElementValidated \/ ElementsDone
  \/ ValidateProperty \/ PropertyValidated \/ PropertiesDone
  \/ ValidateKey \/ ValidatePair \/ ValidateBlank \/ PairValidated \/ PairsDone
  \/ FindAdditional \/ ValidateValue
=============================================================================
