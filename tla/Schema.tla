------------------------------- MODULE Schema -------------------------------
(***************************************************************************)
(* A schema from its document to its destruction: createFromSchemaID with  *)
(* its two passes over the types, validateExpression for any number of     *)
(* expressions, destroy.                                                   *)
(*                                                                         *)
(* A document is where its text is, and what the parser made of it: the    *)
(* version it names, its texts ($id, title, description), the table of its *)
(* types and its root type.                                                *)
(***************************************************************************)
EXTENDS Validation

CONSTANTS
  SchemaDocuments,  (* the documents a schema may be loaded from          *)
  Expressions       (* the expressions it is asked about                  *)

ASSUME DocumentsAssumption ==
  \A d \in SchemaDocuments : IsFiniteSet(DOMAIN d.types.pairs)

(* The texts of a definition are texts, the types it names a list of them.   *)
NamesItsType(d) == \A name \in Attribute(d, "type") : name \in STRING
IsDefinition(d) ==
  /\ \A names \in Attribute(d, "type") : names \in Seq(STRING)
  /\ \A words \in Attribute(d, "valueRegex") : words \in SUBSET STRING
  /\ \A key \in {"arrayAllElements", "mapValueForKey", "mapAllProperties"} :
       \A inner \in Attribute(d, key) : NamesItsType(inner)
  /\ \A key \in DOMAIN Properties(d).pairs : NamesItsType(Properties(d).pairs[key])

ASSUME DefinitionsAssumption ==
  \A d \in SchemaDocuments : \A name \in DOMAIN d.types.pairs :
    IsDefinition(d.types.pairs[name])

(* A document has one root type, or none. *)
ASSUME RootAssumption ==
  \A d \in SchemaDocuments : \A name, other \in d.rootType : name = other

VARIABLES
  document,     (* the document, as handed in                             *)
  phase,        (* how far createFromSchemaID has come, and what became   *)
                (* of the schema                                          *)
  listed,       (* m_types: the names in the order of the list            *)
  left,         (* names of the types the running pass has not come to    *)
  rootType,     (* m_rootType: the name of the type, or none              *)
  schemaError,  (* the error createFromSchemaID left                      *)
  asked,        (* the expression being validated and where errors go     *)
  answer        (* what the last validation answered                      *)

loadingVars == <<document, phase, listed, left, rootType, schemaError, types>>
askingVars == <<asked, answer, cur, callers, ret>>
schemaVars == <<document, phase, listed, left, rootType, schemaError, asked, answer,
                types, cur, callers, ret>>

Unasked == [expr |-> Absent, want |-> FALSE]
Unanswered == [given |-> FALSE, ok |-> FALSE, errors |-> <<>>]

SchemaInit ==
  /\ document \in SchemaDocuments
  /\ phase = "locate" /\ listed = <<>> /\ left = <<>> /\ rootType = {} /\ schemaError = "none"
  /\ types = <<>> /\ cur = Idle /\ callers = <<>> /\ ret = Passed
  /\ asked = Unasked /\ answer = Unanswered

Load(next) == phase' = next /\ UNCHANGED <<document, schemaError>> /\ UNCHANGED askingVars

(* Mutant: the list is gone, its types are not. *)
DropKeepsTypes == listed' = <<>> /\ left' = <<>> /\ rootType' = {} /\ types' = types

(* wexprSchema_Schema_destroy, on what has been loaded so far. *)
Drop == listed' = <<>> /\ left' = <<>> /\ rootType' = {} /\ types' = <<>>
Refuse(error) ==
  /\ phase' = "refused" /\ schemaError' = error /\ Drop
  /\ UNCHANGED document /\ UNCHANGED askingVars
Crash == Load("undefined") /\ UNCHANGED <<listed, left, rootType, types>>

-----------------------------------------------------------------------------
(* s_createStringFromLocation: nothing is fetched, a file may be missing    *)
(* and memory may be short.                                                 *)
Locate ==
  /\ phase = "locate"
  /\ \/ document.at = "http" /\ Refuse("http")
     \/ document.at = "nowhere" /\ Refuse("file")
     \/ document.at = "file" /\ Refuse("memory")
     \/ document.at = "file" /\ Load("parse") /\ UNCHANGED <<listed, left, rootType, types>>

ParseDocument ==
  /\ phase = "parse"
  /\ IF document.parses
     THEN Load("version") /\ UNCHANGED <<listed, left, rootType, types>>
     ELSE Refuse("parse")

CheckVersion ==
  /\ phase = "version"
  /\ IF NoText \in document.version THEN Crash
     ELSE IF document.version \subseteq {"1"}
     THEN Load("texts") /\ UNCHANGED <<listed, left, rootType, types>>
     ELSE Refuse("version")

(* In the order the hash map has the types. *)
Orders(names) ==
  {order \in [1 .. Cardinality(names) -> names] :
     \A name \in names : \E i \in DOMAIN order : order[i] = name}

ReadTexts ==
  /\ phase = "texts"
  /\ IF NoText \in document.texts THEN Crash
     ELSE /\ Load("types")
          /\ left' \in Orders(DOMAIN document.types.pairs)
          /\ UNCHANGED <<listed, rootType, types>>

(* First pass.  An index that holds no type has no name to copy. *)
CreateType ==
  /\ phase = "types" /\ left # <<>>
  /\ LET name == Head(left)
         definition == document.types.pairs[name] IN
     IF DefinitionSound(definition)
     THEN /\ types' = [other \in DOMAIN types \cup {name} |->
                         IF other = name THEN createFromExpression(definition) ELSE types[other]]
          /\ listed' = <<name>> \o listed
          /\ left' = Tail(left) /\ Load("types") /\ UNCHANGED rootType
     ELSE Crash

(* Mutant: the second pass starts behind the first type of the list. *)
TypesCreatedAllButOne ==
  /\ phase = "types" /\ left = <<>>
  /\ IF Repeats(document.types) THEN Crash
     ELSE Load("resolve") /\ left' = SubSeq(listed, 2, Len(listed))
          /\ UNCHANGED <<listed, rootType, types>>

TypesCreated ==
  /\ phase = "types" /\ left = <<>>
  /\ IF Repeats(document.types) THEN Crash
     ELSE Load("resolve") /\ left' = listed /\ UNCHANGED <<listed, rootType, types>>

(* Second pass. *)
ResolveType ==
  /\ phase = "resolve" /\ left # <<>>
  /\ LET name == Head(left) IN
     IF FollowsNull(types[name], DOMAIN types) THEN Crash
     ELSE IF Resolves(types[name], DOMAIN types)
     THEN /\ types' = [types EXCEPT ![name] = Resolved(@)]
          /\ left' = Tail(left) /\ Load("resolve") /\ UNCHANGED <<listed, rootType>>
     ELSE Refuse("resolve")

(* A root type that is not there is none. *)
FindRootType ==
  /\ phase = "resolve" /\ left = <<>>
  /\ IF NoText \in document.rootType THEN Crash
     ELSE /\ rootType' = {name \in document.rootType : Found(DOMAIN types, name)}
          /\ Load("loaded") /\ UNCHANGED <<listed, left, types>>

LoadStep ==
  \/ Locate \/ ParseDocument \/ CheckVersion \/ ReadTexts
  \/ CreateType \/ TypesCreated \/ ResolveType \/ FindRootType

-----------------------------------------------------------------------------
(* wexprSchema_Schema_validateExpression, with a place for errors or        *)
(* without.  That there is no root type is written to that place unasked.   *)
Failure(why, child) == [why |-> why, type |-> EmptyText, expr |-> asked'.expr, child |-> child]

AskNoRoot ==
  /\ phase = "loaded" /\ rootType = {}
  /\ \E expr \in Expressions, want \in BOOLEAN :
       /\ asked' = [expr |-> expr, want |-> want]
       /\ phase' = IF want THEN "loaded" ELSE "undefined"
  /\ answer' = [given |-> asked'.want, ok |-> FALSE, errors |-> <<Failure("no root type", <<>>)>>]
  /\ UNCHANGED <<document, listed, left, rootType, schemaError, types, cur, callers, ret>>

Ask ==
  /\ phase = "loaded"
  /\ \E root \in rootType, expr \in Expressions, want \in BOOLEAN :
       /\ asked' = [expr |-> expr, want |-> want]
       /\ cur' = Frame("kinds", root, expr, want, TRUE)
  /\ phase' = "asked" /\ answer' = Unanswered /\ callers' = <<Idle>>
  /\ UNCHANGED <<document, listed, left, rootType, schemaError, types, ret>>

Validate == phase = "asked" /\ ValidateStep /\ UNCHANGED <<loadingVars, asked, answer>>

Answered ==
  /\ phase = "asked" /\ cur.pc = "root"
  /\ phase' = "loaded" /\ ret' = Passed /\ asked' = asked
  /\ answer' = [given |-> TRUE, ok |-> ret.ok,
                errors |-> IF ~ret.ok /\ asked.want
                           THEN <<Failure("unable to validate", ret.errors)>> ELSE ret.errors]
  /\ UNCHANGED <<document, listed, left, rootType, schemaError, types, cur, callers>>

Destroy ==
  /\ phase = "loaded" /\ phase' = "destroyed" /\ Drop
  /\ UNCHANGED <<document, schemaError>> /\ UNCHANGED askingVars

(* There is no schema any more, or no program. *)
Over ==
  /\ phase \in {"refused", "undefined", "destroyed"} \/ cur.pc \in {"undefined", "overflow"}
  /\ UNCHANGED schemaVars

SchemaNext == LoadStep \/ AskNoRoot \/ Ask \/ Validate \/ Answered \/ Destroy \/ Over

(* A call that has begun goes on. *)
SchemaSpec ==
  SchemaInit /\ [][SchemaNext]_schemaVars /\ WF_schemaVars(LoadStep \/ Validate \/ Answered)

-----------------------------------------------------------------------------
(* What the loader needs of a document: texts where it reads texts and a     *)
(* type in every instance, as the core schema (src/Schema/Core/              *)
(* v1.schema.wexpr) asks too; and regular expressions that compile, no key   *)
(* twice, a root type that is there, of which the core schema says nothing.  *)
IsText(definition, keys) ==
  \A key \in keys \cap DOMAIN definition : definition[key] # NoText
InstanceMeets(definition) ==
  "type" \in DOMAIN definition /\ IsText(definition, {"type", "description", "optional"})
DefinitionMeets(definition) ==
  /\ IsText(definition, {"description", "mapAllowAdditionalProperties"})
  /\ \A names \in Attribute(definition, "type") : NoText \notin {names[i] : i \in DOMAIN names}
  /\ \A words \in Attribute(definition, "valueRegex") : words # BadRegex
  /\ \A key \in {"arrayAllElements", "mapValueForKey", "mapAllProperties"} \cap DOMAIN definition :
       InstanceMeets(definition[key])
  /\ \A key \in DOMAIN Properties(definition).pairs : InstanceMeets(Properties(definition).pairs[key])
  /\ ~Repeats(Properties(definition))
SoundDocument ==
  /\ NoText \notin document.version \cup document.texts \cup document.rootType
  /\ ~Repeats(document.types)
  /\ \A name \in DOMAIN document.types.pairs : DefinitionMeets(document.types.pairs[name])
  /\ document.rootType # {} /\ document.rootType \subseteq DOMAIN document.types.pairs \ Qualified

(* Expressions without a key put twice, with all their parts, and the keys  *)
(* of their maps as values: what is asked of the parts of an expression.    *)
Whole(U) ==
  /\ Absent \in U
  /\ \A e \in U :
       /\ IsFiniteSet(KeysIn(e)) /\ mapCount(e) = Cardinality(KeysIn(e))
       /\ e.type = "Array" => Len(e.list) \in Nat /\ \A i \in 1 .. Len(e.list) : e.list[i] \in U
       /\ \A key \in KeysIn(e) : e.hash[key] \in U /\ Value(key) \in U

-----------------------------------------------------------------------------
Refs == [name : STRING, resolved : BOOLEAN]
TypeInstances == [type : Refs, optional : BOOLEAN]
PrimitiveTypes == {PrimitiveNames[text] : text \in DOMAIN PrimitiveNames}

(* What a type is: its members are of the kinds the code declares. *)
IsType(type) ==
  /\ type.primitive \subseteq PrimitiveTypes
  /\ \A i \in DOMAIN type.types : type.types[i] \in Refs
  /\ type.regex \subseteq SUBSET STRING
  /\ type.mapAllowAdditionalProperties \in BOOLEAN
  /\ \A stage \in 1 .. 4 : Stages(type)[stage] \subseteq TypeInstances
  /\ \A stage \in 2 .. 4 : Cardinality(Stages(type)[stage]) <= 1

(* The types, the activations and the answer are of their kinds, an          *)
(* activation works on a type of the schema, and the list of types names     *)
(* each of them once (struct WexprSchemaSchema, its m_types and the C stack  *)
(* of validateObject).                                                      *)
SchemaTypeOK ==
  /\ phase \in {"locate", "parse", "version", "texts", "types", "resolve", "loaded",
               "asked", "refused", "undefined", "destroyed"}
  /\ \A name \in DOMAIN types : IsType(types[name])
  /\ DOMAIN types = {listed[i] : i \in DOMAIN listed}
  /\ Cardinality(DOMAIN types) = Len(listed)
  /\ \A i \in DOMAIN left : left[i] \in DOMAIN document.types.pairs
  /\ rootType \subseteq DOMAIN types
  /\ phase = "asked" =>
       \A a \in {cur} \cup {callers[i] : i \in DOMAIN callers} :
         a = Idle \/ a.type \in DOMAIN types

Leads(ref, names) == ref.resolved /\ ref.name \in names
AllLead(type, names) ==
  /\ \A i \in DOMAIN type.types : Leads(type.types[i], names)
  /\ \A stage \in 1 .. 4 : \A instance \in Stages(type)[stage] : Leads(instance.type, names)

(* A schema that was loaded, whatever the order of its types, has every type *)
(* its document defines, and every reference of every one of them leads to   *)
(* a type of the schema (the two passes of s_loadFromSchemaID).              *)
OnlyResolvedTypes ==
  phase \in {"loaded", "asked"} =>
    /\ DOMAIN types = DOMAIN document.types.pairs
    /\ \A name \in DOMAIN types : AllLead(types[name], DOMAIN types)

(* Who gives a place for errors gets an error exactly when the expression is *)
(* refused; who gives none gets none, however many types were tried on the   *)
(* way (the typeErrors of wexprSchema_Type_validateObject, the `error` that  *)
(* each level hands to the next).  A document without its root type, asked   *)
(* about with no place for errors, has no answer: Schema.c:447 writes to the *)
(* place that is not there.                                                  *)
FailuresAreExplained ==
  answer.given => IF asked.want THEN answer.ok = (answer.errors = <<>>)
                                ELSE answer.errors = <<>>
=============================================================================
