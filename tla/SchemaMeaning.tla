--------------------------- MODULE SchemaMeaning ---------------------------
(***************************************************************************)
(* What a schema means: which expressions conform to a type, by what the   *)
(* definitions of its document say, and what the answers of the validation *)
(* are worth.                                                              *)
(***************************************************************************)
EXTENDS Schema

CONSTANT
  Depth   (* how deep each expression without a key put twice is nested,   *)
          (* and each of its parts                                         *)

Unrepeated == DOMAIN Depth

ASSUME DepthAssumption ==
  /\ IsFiniteSet(Unrepeated) /\ Whole(Unrepeated)
  /\ Depth \in [Unrepeated -> Nat]
  /\ \A e \in Unrepeated \ {Absent} :
       /\ Depth[e] > 0
       /\ \A i \in 1 .. arrayCount(e) : Depth[e.list[i]] < Depth[e]
       /\ \A key \in KeysIn(e) : Depth[e.hash[key]] < Depth[e] /\ Depth[Value(key)] < Depth[e]

(* There is room for a call for every type at every part on the way down.   *)
ASSUME RoomAssumption ==
  \A d \in SchemaDocuments : \A e \in Unrepeated :
    Cardinality(DOMAIN d.types.pairs) * Depth[e] < MaxCalls

-----------------------------------------------------------------------------
(* What definitions say of a type: the types it names, the kinds of         *)
(* expressions it is for.                                                   *)
Named(definition) == UNION {{names[i] : i \in DOMAIN names} : names \in Attribute(definition, "type")}
OwnKinds(definition) == UNION {fromString(p) : p \in Attribute(definition, "primitiveType")}

(* The kinds of expressions a type may be: its own, or those of its types,  *)
(* found in every set that has the type and the types it takes them from.   *)
TakesFrom(definitions, name) ==
  IF OwnKinds(definitions[name]) # {} THEN {} ELSE Named(definitions[name])
KindsOf(definitions, name) ==
  LET complete == {S \in SUBSET DOMAIN definitions :
                     name \in S /\ \A other \in S : TakesFrom(definitions, other) \subseteq S}
  IN {kind \in PrimitiveTypes : \A S \in complete : \E other \in S : kind \in OwnKinds(definitions[other])}

(* An expression conforms to a type when it and its parts keep the rules,   *)
(* given which expressions conform to the types that these name (`ok`).     *)
(* The rules of a kind of expressions hold for every type that may be of    *)
(* that kind, also when the expression is of another.                       *)
ConformsInstance(ok, instance, expr) ==
  \/ Says(instance, "optional", "true") /\ TypeOf(expr) \in {"Null", "Invalid"}
  \/ \E name \in Attribute(instance, "type") : <<name, expr>> \in ok

(* What a type asks of a key: to be of the type the core schema lets a       *)
(* definition name for keys (src/Schema/Core/v1.schema.wexpr:170), and to    *)
(* meet the instance the loader takes from the attribute mapValueForKey,     *)
(* which the core schema does not know.                                      *)
KeyResolves(ok, definition, key) ==
  \A type \in Attribute(definition, "mapKeyType") : <<type, Value(key)>> \in ok
KeyConforms(ok, definition, key) ==
  /\ KeyResolves(ok, definition, key)
  /\ \A rule \in Attribute(definition, "mapValueForKey") : ConformsInstance(ok, rule, Value(key))

Elements(expr) == {expr.list[i] : i \in 1 .. arrayCount(expr)}

ArrayRules(ok, definition, expr) ==
  \A rule \in Attribute(definition, "arrayAllElements"), element \in Elements(expr) :
    ConformsInstance(ok, rule, element)

MapRules(ok, definition, expr) ==
  LET properties == Properties(definition).pairs
      forAll == Attribute(definition, "mapAllProperties") IN
  /\ \A key \in DOMAIN properties :
       ConformsInstance(ok, properties[key], mapValueForKey(expr, key))
  /\ \A key \in KeysIn(expr) :
       /\ KeyConforms(ok, definition, key)
       /\ \A rule \in forAll : ConformsInstance(ok, rule, expr.hash[key])
       /\ \/ forAll # {}
          \/ Says(definition, "mapAllowAdditionalProperties", "true")
          \/ key \in DOMAIN properties

ValueRules(definition, expr) ==
  \A words \in Attribute(definition, "valueRegex") : TextOf(expr) \in words

KeepsRules(definitions, ok, name, expr) ==
  LET definition == definitions[name]
      kinds == KindsOf(definitions, name) IN
  /\ TypeOf(expr) \in kinds
  /\ Named(definition) = {} \/ \E other \in Named(definition) : <<other, expr>> \in ok
  /\ "Array" \in kinds => ArrayRules(ok, definition, expr)
  /\ "Map" \in kinds => MapRules(ok, definition, expr)
  /\ "Value" \in kinds => ValueRules(definition, expr)

(* The least such relation: it has a pair for every type and expression at  *)
(* most, so that it is there after so many steps.                           *)
Conformity(definitions) ==
  LET pairs == (DOMAIN definitions) \X Unrepeated
      after[n \in Nat] ==
        IF n = 0 THEN {}
        ELSE LET before == after[n - 1]
             IN {p \in pairs : KeepsRules(definitions, before, p[1], p[2])}
  IN after[Cardinality(pairs)]

Conformities == [d \in SchemaDocuments |-> Conformity(d.types.pairs)]
Meets(name, expr) == <<name, expr>> \in Conformities[document]

-----------------------------------------------------------------------------
(* A document without what the loader cannot take (SoundDocument: texts that *)
(* are no values, expressions that do not compile, a root type that is not   *)
(* there, instances without a type, keys put twice), and no type among its   *)
(* own types.                                                                *)
InOrder(name) == name \notin Following(types, Parents(types), name)
SoundSchema == SoundDocument /\ (phase = "asked" => \A name \in DOMAIN types : InOrder(name))

Lost == phase = "undefined" \/ cur.pc \in {"undefined", "overflow"}

(* Such a schema is loaded, or refused, without undefined behaviour, and so  *)
(* is every expression without a repeated key validated, with a place for    *)
(* errors or without, and the C stack has room for it (createFromSchemaID,   *)
(* wexprSchema_Schema_validateExpression).  It says nothing of a schema      *)
(* without its root type, whose validation with no place for errors is       *)
(* undefined (Schema.c:447).                                                 *)
SoundSchemasAreSafe == SoundSchema /\ asked.expr \in Unrepeated => ~Lost

(* What the core schema lets a definition say and no code reads: a type for *)
(* the keys (v1.schema.wexpr:170), and that the whole type is optional      *)
(* (v1.schema.wexpr:146).                                                   *)
SaysUnread(definition) ==
  Attribute(definition, "mapKeyType") \cup Attribute(definition, "optional") # {}
AllIsRead == \A name \in DOMAIN document.types.pairs : ~SaysUnread(document.types.pairs[name])

(* Unless the document says what the loader does not read, an expression is *)
(* accepted exactly when it conforms to what the document says of the root  *)
(* type, whatever order the types were loaded in and the types, properties  *)
(* and pairs are tried in (createFromExpression, resolveWithSchema,         *)
(* validateObject and what they call).                                      *)
AnswersByMeaning ==
  phase = "loaded" /\ answer.given /\ asked.expr \in Unrepeated /\ AllIsRead =>
    answer.ok = \E root \in rootType : Meets(root, asked.expr)

(* What the core schema says of mapKeyType, "If set, the type map keys must *)
(* resolve to" (v1.schema.wexpr:172): the keys of a map that is accepted    *)
(* resolve to the type its type names for them.  They need not:             *)
(* createFromExpression (Type.c:586) looks for mapValueForKey instead.      *)
MapKeysResolve ==
  phase = "loaded" /\ answer.given /\ answer.ok /\ asked.expr \in Unrepeated =>
    \A root \in rootType, key \in KeysIn(asked.expr) :
      KeyResolves(Conformities[document], document.types.pairs[root], key)

(* The errors of a list, their reasons, the reasons of these and so on: no   *)
(* deeper than there are calls.                                             *)
ErrorsIn(errors) == {errors[i] : i \in DOMAIN errors}
Reported(errors) ==
  LET at[n \in Nat] ==
        IF n = 0 THEN ErrorsIn(errors) ELSE UNION {ErrorsIn(error.child) : error \in at[n - 1]}
  IN UNION {at[n] : n \in 0 .. MaxCalls}

(* Every error and every reason below it names a type of the schema and a    *)
(* part of the expression that does not conform to it: nothing is reported   *)
(* of a type that was tried and matched (wexprSchema_Type_validateObject,    *)
(* wexprSchema_Error_setChild).                                              *)
ErrorsAreReasons ==
  phase = "loaded" /\ answer.given /\ asked.expr \in Unrepeated =>
    \A error \in Reported(answer.errors) :
      error.type # EmptyText => ~Meets(error.type, error.expr)

(* A validation against a sound schema comes to an end.                      *)
ValidationReturns ==
  (phase = "asked" /\ SoundSchema /\ asked.expr \in Unrepeated) ~> phase = "loaded"
=============================================================================
