---------------------------- MODULE SchemaTypes ----------------------------
(***************************************************************************)
(* The types of a schema (struct WexprSchemaType and its TypeInstance and  *)
(* TypeRef) and what is computed about them in one go: a type from its     *)
(* definition, its references resolved, the primitive types it stands for. *)
(*                                                                         *)
(* A definition is what mapValueForKey finds in the map of a type: an      *)
(* attribute is given or not.  An optional member is the set of what it    *)
(* holds.  A pointer to a type is its name, which is unique in a schema.   *)
(***************************************************************************)
EXTENDS Naturals, Sequences, FiniteSets

INSTANCE Expression WITH Words <- {}, Blobs <- {}, MaxDepth <- 0

CONSTANT
  Qualified   (* the names of types that go through another schema: a::b  *)

(* Where a definition ought to have a text: an expression that is no value *)
(* (wexpr_Expression_value gives NULL), and a regular expression that does *)
(* not compile.  One that does is the set of words it matches as a whole.  *)
NoText == "an expression that is no value"
ASSUME NoTextAssumption == NoText \in STRING  (* true of the literal, which no prover knows *)
BadRegex == {"does not compile"}

Attribute(definition, key) ==
  IF key \in DOMAIN definition THEN {definition[key]} ELSE {}
Says(definition, key, text) == text \in Attribute(definition, key)

(* WexprSchemaPrimitiveType: the flags set. *)
PrimitiveNames == [nullType |-> "Null", array |-> "Array", binaryData |-> "BinaryData",
                   map |-> "Map", value |-> "Value"]
fromString(text) == IF text \in DOMAIN PrimitiveNames THEN {PrimitiveNames[text]} ELSE {}
matchesExpressionType(primitives, type) == type # "Invalid" /\ type \in primitives

TypeRef(name) == [name |-> name, resolved |-> FALSE]
NullRef == [name |-> NoText, resolved |-> FALSE]

TypeInstance(definition) ==
  [type |-> IF "type" \in DOMAIN definition THEN TypeRef(definition["type"]) ELSE NullRef,
   optional |-> Says(definition, "optional", "true")]
Instances(definition, key) == {TypeInstance(d) : d \in Attribute(definition, key)}

(* References are put in front of the list. *)
TypeRefs(names) == [i \in DOMAIN names |-> TypeRef(names[Len(names) + 1 - i])]

(* A table of definitions is its pairs and the count the map gives for it.  *)
Repeats(table) == table.count > Cardinality(DOMAIN table.pairs)
NoProperties == [pairs |-> <<>>, count |-> 0]
Properties(definition) ==
  IF "mapProperties" \in DOMAIN definition THEN definition["mapProperties"] ELSE NoProperties

(* wexprSchema_Type_createFromExpression. *)
createFromExpression(definition) ==
  [primitive |-> UNION {fromString(p) : p \in Attribute(definition, "primitiveType")},
   types |-> IF "type" \in DOMAIN definition THEN TypeRefs(definition["type"]) ELSE <<>>,
   regex |-> Attribute(definition, "valueRegex"),
   arrayAllElements |-> Instances(definition, "arrayAllElements"),
   mapProperties |-> [key \in DOMAIN Properties(definition).pairs |->
                        TypeInstance(Properties(definition).pairs[key])],
   mapKeyType |-> Instances(definition, "mapValueForKey"),
   mapAllProperties |-> Instances(definition, "mapAllProperties"),
   mapAllowAdditionalProperties |-> Says(definition, "mapAllowAdditionalProperties", "true")]

(* What it reads as a C string is one: a NULL goes to strdup and strcmp.    *)
TextsOf(definition, keys) == UNION {Attribute(definition, key) : key \in keys}
InstanceSound(definition) ==
  NoText \notin TextsOf(definition, {"description", "type", "optional"})
DefinitionSound(definition) ==
  /\ NoText \notin TextsOf(definition, {"description", "mapAllowAdditionalProperties"})
  /\ \A names \in Attribute(definition, "type") : \A i \in DOMAIN names : names[i] # NoText
  /\ BadRegex \notin Attribute(definition, "valueRegex")
  /\ \A key \in {"arrayAllElements", "mapValueForKey", "mapAllProperties"} :
       \A d \in Attribute(definition, key) : InstanceSound(d)
  /\ \A key \in DOMAIN Properties(definition).pairs :
       InstanceSound(Properties(definition).pairs[key])
  /\ ~Repeats(Properties(definition))

-----------------------------------------------------------------------------
(* wexprSchema_Schema_typeWithName: the list of referenced schemas is never *)
(* filled, so no qualified name is found.                                   *)
Found(names, name) == name \in names \ Qualified

(* wexprSchema_Type_resolveWithSchema: the types it names, then each kind   *)
(* of instance in turn, until something is not found.                       *)
Stages(type) ==
  <<{type.mapProperties[key] : key \in DOMAIN type.mapProperties},
    type.arrayAllElements, type.mapKeyType, type.mapAllProperties>>
Reaches(type, names, stage) ==
  /\ \A i \in DOMAIN type.types : Found(names, type.types[i].name)
  /\ \A earlier \in 1 .. stage - 1 : \A instance \in Stages(type)[earlier] :
       Found(names, instance.type.name)
Resolves(type, names) == Reaches(type, names, 5)

(* An instance without a type follows its null pointer. *)
FollowsNull(type, names) ==
  \E stage \in 1 .. 4 :
    Reaches(type, names, stage) /\ \E instance \in Stages(type)[stage] : instance.type = NullRef

ResolvedRef(ref) == [ref EXCEPT !.resolved = TRUE]
ResolvedInstance(instance) == [instance EXCEPT !.type = ResolvedRef(@)]
ResolvedInstances(instances) == {ResolvedInstance(instance) : instance \in instances}

(* Mutant: the type of the keys is left as it is. *)
ResolvedButKeys(type) ==
  [type EXCEPT !.types = [i \in DOMAIN @ |-> ResolvedRef(@[i])],
               !.mapProperties = [key \in DOMAIN @ |-> ResolvedInstance(@[key])],
               !.arrayAllElements = ResolvedInstances(@),
               !.mapAllProperties = ResolvedInstances(@)]

Resolved(type) ==
  [type EXCEPT !.types = [i \in DOMAIN @ |-> ResolvedRef(@[i])],
               !.mapProperties = [key \in DOMAIN @ |-> ResolvedInstance(@[key])],
               !.arrayAllElements = ResolvedInstances(@),
               !.mapKeyType = ResolvedInstances(@),
               !.mapAllProperties = ResolvedInstances(@)]

-----------------------------------------------------------------------------
(* The types that are reached from a type by following `next`.              *)
Following(types, next, name) ==
  LET reached[n \in Nat] ==
        IF n = 0 THEN next[name]
        ELSE reached[n - 1] \cup UNION {next[other] : other \in reached[n - 1]}
  IN reached[Cardinality(DOMAIN types)]

Parents(types) ==
  [name \in DOMAIN types |->
     {types[name].types[i].name : i \in DOMAIN types[name].types}]
AskedParents(types) ==
  [name \in DOMAIN types |-> IF types[name].primitive # {} THEN {} ELSE Parents(types)[name]]

(* wexprSchema_Type_primitiveTypes, and whether it comes back.              *)
primitiveTypes(types, name) ==
  UNION {types[other].primitive : other \in {name} \cup Following(types, AskedParents(types), name)}
AsksForEver(types, name) ==
  \E other \in {name} \cup Following(types, AskedParents(types), name) :
    other \in Following(types, AskedParents(types), other)
=============================================================================
