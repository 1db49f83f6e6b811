---------------------------- MODULE SchemaProofs ----------------------------
(***************************************************************************)
(* What holds of Schema for every document, every expression and every     *)
(* bound: loading leaves no reference of a type unresolved, and a caller   *)
(* is told why exactly when an expression is refused.                      *)
(***************************************************************************)
EXTENDS Schema, FiniteSetTheorems, TLAPS

RangeOf(s) == {s[i] : i \in DOMAIN s}

(* A type as createFromExpression makes them, record for record. *)
IsRef(ref) == ref = [name |-> ref.name, resolved |-> ref.resolved]
IsInstance(instance) ==
  instance = [type |-> instance.type, optional |-> instance.optional] /\ IsRef(instance.type)
IsTypeRecord(type) ==
  /\ type = [primitive |-> type.primitive, types |-> type.types, regex |-> type.regex,
             arrayAllElements |-> type.arrayAllElements, mapProperties |-> type.mapProperties,
             mapKeyType |-> type.mapKeyType, mapAllProperties |-> type.mapAllProperties,
             mapAllowAdditionalProperties |-> type.mapAllowAdditionalProperties]
  /\ \A i \in DOMAIN type.types : IsRef(type.types[i])
  /\ \A key \in DOMAIN type.mapProperties : IsInstance(type.mapProperties[key])
  /\ \A instance \in type.arrayAllElements : IsInstance(instance)
  /\ \A instance \in type.mapKeyType : IsInstance(instance)
  /\ \A instance \in type.mapAllProperties : IsInstance(instance)

LEMMA InstancesAre ==
  ASSUME NEW definition
  PROVE  IsInstance(TypeInstance(definition))
BY DEF IsInstance, TypeInstance, IsRef, TypeRef, NullRef

LEMMA CreatedIsType ==
  ASSUME NEW definition
  PROVE  IsTypeRecord(createFromExpression(definition))
<1> DEFINE type == createFromExpression(definition)
<1>1. \A i \in DOMAIN type.types : IsRef(type.types[i])
  <2>1. type.types = IF "type" \in DOMAIN definition THEN TypeRefs(definition["type"]) ELSE <<>>
    BY DEF createFromExpression
  <2>2. \A names : \A i \in DOMAIN TypeRefs(names) : TypeRefs(names)[i] = TypeRef(names[Len(names) + 1 - i])
    BY DEF TypeRefs
  <2>3. \A name : IsRef(TypeRef(name))
    BY DEF TypeRef, IsRef
  <2> HIDE DEF type
  <2>4. CASE "type" \in DOMAIN definition
    BY <2>1, <2>2, <2>3, <2>4
  <2>5. CASE "type" \notin DOMAIN definition
    BY <2>1, <2>5
  <2> QED BY <2>4, <2>5
<1>2. \A key \in DOMAIN type.mapProperties : IsInstance(type.mapProperties[key])
  BY InstancesAre DEF createFromExpression
<1>3. /\ \A instance \in type.arrayAllElements : IsInstance(instance)
      /\ \A instance \in type.mapKeyType : IsInstance(instance)
      /\ \A instance \in type.mapAllProperties : IsInstance(instance)
  BY InstancesAre DEF createFromExpression, Instances
<1> QED BY <1>1, <1>2, <1>3 DEF IsTypeRecord, createFromExpression

(* The four kinds of instances of a type one by one. *)
LEMMA StagesAre ==
  ASSUME NEW type
  PROVE  /\ Stages(type)[1] = {type.mapProperties[key] : key \in DOMAIN type.mapProperties}
         /\ Stages(type)[2] = type.arrayAllElements
         /\ Stages(type)[3] = type.mapKeyType
         /\ Stages(type)[4] = type.mapAllProperties
BY DEF Stages

LEMMA RefUpdated ==
  ASSUME NEW ref, IsRef(ref), NEW x
  PROVE  [ref EXCEPT !.resolved = x] = [name |-> ref.name, resolved |-> x]
BY DEF IsRef

LEMMA RefLeads ==
  ASSUME NEW ref, IsRef(ref), NEW names, Found(names, ref.name)
  PROVE  IsRef(ResolvedRef(ref)) /\ Leads(ResolvedRef(ref), names)
<1>1. ResolvedRef(ref) = [name |-> ref.name, resolved |-> TRUE]
  BY RefUpdated DEF ResolvedRef
<1> QED BY <1>1 DEF IsRef, Leads, Found

LEMMA InstanceLeads ==
  ASSUME NEW instance, IsInstance(instance), NEW names, Found(names, instance.type.name)
  PROVE  IsInstance(ResolvedInstance(instance)) /\ Leads(ResolvedInstance(instance).type, names)
<1>1. ResolvedInstance(instance) = [type |-> ResolvedRef(instance.type), optional |-> instance.optional]
  BY DEF IsInstance, ResolvedInstance
<1>2. IsRef(ResolvedRef(instance.type)) /\ Leads(ResolvedRef(instance.type), names)
  BY RefLeads DEF IsInstance
<1> QED BY <1>1, <1>2 DEF IsInstance

TypeRecords(P, T, R, A, M, K, L, O) ==
  [primitive : P, types : T, regex : R, arrayAllElements : A, mapProperties : M,
   mapKeyType : K, mapAllProperties : L, mapAllowAdditionalProperties : O]

LEMMA TypeUpdated ==
  ASSUME NEW type, IsTypeRecord(type), NEW a, NEW b, NEW c, NEW d, NEW e
  PROVE  [type EXCEPT !.types = a, !.mapProperties = b, !.arrayAllElements = c,
                      !.mapKeyType = d, !.mapAllProperties = e] =
         [primitive |-> type.primitive, types |-> a, regex |-> type.regex,
          arrayAllElements |-> c, mapProperties |-> b, mapKeyType |-> d, mapAllProperties |-> e,
          mapAllowAdditionalProperties |-> type.mapAllowAdditionalProperties]
<1> DEFINE r == [type EXCEPT !.types = a, !.mapProperties = b, !.arrayAllElements = c,
                             !.mapKeyType = d, !.mapAllProperties = e]
<1>1. PICK P, T, R, A, M, K, L, O : type \in TypeRecords(P, T, R, A, M, K, L, O)
  <2>1. type \in TypeRecords({type.primitive}, {type.types}, {type.regex}, {type.arrayAllElements},
                             {type.mapProperties}, {type.mapKeyType}, {type.mapAllProperties},
                             {type.mapAllowAdditionalProperties})
    BY DEF IsTypeRecord, TypeRecords
  <2> QED BY <2>1
<1>2. r \in TypeRecords(P, T \cup {a}, R, A \cup {c}, M \cup {b}, K \cup {d}, L \cup {e}, O)
  BY <1>1 DEF TypeRecords
<1>3. /\ r.primitive = type.primitive /\ r.types = a /\ r.regex = type.regex
      /\ r.mapAllowAdditionalProperties = type.mapAllowAdditionalProperties
  BY <1>1 DEF TypeRecords
<1>4. r.arrayAllElements = c /\ r.mapProperties = b /\ r.mapKeyType = d /\ r.mapAllProperties = e
  BY <1>1 DEF TypeRecords
<1> HIDE DEF r
<1>5. r = [primitive |-> r.primitive, types |-> r.types, regex |-> r.regex,
           arrayAllElements |-> r.arrayAllElements, mapProperties |-> r.mapProperties,
           mapKeyType |-> r.mapKeyType, mapAllProperties |-> r.mapAllProperties,
           mapAllowAdditionalProperties |-> r.mapAllowAdditionalProperties]
  BY <1>2 DEF TypeRecords
<1> QED BY <1>3, <1>4, <1>5 DEF r

LEMMA ResolvedIs ==
  ASSUME NEW type, IsTypeRecord(type)
  PROVE  Resolved(type) =
           [primitive |-> type.primitive,
            types |-> [i \in DOMAIN type.types |-> ResolvedRef(type.types[i])],
            regex |-> type.regex,
            arrayAllElements |-> ResolvedInstances(type.arrayAllElements),
            mapProperties |-> [key \in DOMAIN type.mapProperties |-> ResolvedInstance(type.mapProperties[key])],
            mapKeyType |-> ResolvedInstances(type.mapKeyType),
            mapAllProperties |-> ResolvedInstances(type.mapAllProperties),
            mapAllowAdditionalProperties |-> type.mapAllowAdditionalProperties]
<1> DEFINE a == [i \in DOMAIN type.types |-> ResolvedRef(type.types[i])]
           b == [key \in DOMAIN type.mapProperties |-> ResolvedInstance(type.mapProperties[key])]
           c == ResolvedInstances(type.arrayAllElements)
           d == ResolvedInstances(type.mapKeyType)
           e == ResolvedInstances(type.mapAllProperties)
<1>1. Resolved(type) = [type EXCEPT !.types = a, !.mapProperties = b, !.arrayAllElements = c,
                                    !.mapKeyType = d, !.mapAllProperties = e]
  BY Zenon DEF Resolved
<1> HIDE DEF a, b, c, d, e
<1>2. Resolved(type) = [primitive |-> type.primitive, types |-> a, regex |-> type.regex,
                        arrayAllElements |-> c, mapProperties |-> b, mapKeyType |-> d,
                        mapAllProperties |-> e,
                        mapAllowAdditionalProperties |-> type.mapAllowAdditionalProperties]
  BY <1>1, TypeUpdated
<1> QED BY <1>2 DEF a, b, c, d, e

(* resolveWithSchema: a type whose references are all found leads to them. *)
LEMMA ResolvedLeads ==
  ASSUME NEW type, IsTypeRecord(type), NEW names, Resolves(type, names)
  PROVE  IsTypeRecord(Resolved(type)) /\ AllLead(Resolved(type), names)
<1> DEFINE resolved == Resolved(type)
<1>1. /\ resolved.types = [i \in DOMAIN type.types |-> ResolvedRef(type.types[i])]
      /\ resolved.arrayAllElements = ResolvedInstances(type.arrayAllElements)
      /\ resolved.mapProperties = [key \in DOMAIN type.mapProperties |-> ResolvedInstance(type.mapProperties[key])]
      /\ resolved.mapKeyType = ResolvedInstances(type.mapKeyType)
      /\ resolved.mapAllProperties = ResolvedInstances(type.mapAllProperties)
  BY ResolvedIs
<1>2. /\ \A i \in DOMAIN type.types : Found(names, type.types[i].name)
      /\ \A stage \in 1 .. 4 : \A instance \in Stages(type)[stage] : Found(names, instance.type.name)
  BY DEF Resolves, Reaches
<1>3. /\ \A key \in DOMAIN type.mapProperties : Found(names, type.mapProperties[key].type.name)
      /\ \A instance \in type.arrayAllElements : Found(names, instance.type.name)
      /\ \A instance \in type.mapKeyType : Found(names, instance.type.name)
      /\ \A instance \in type.mapAllProperties : Found(names, instance.type.name)
  BY <1>2, StagesAre
<1>4. \A i \in DOMAIN resolved.types : IsRef(resolved.types[i]) /\ Leads(resolved.types[i], names)
  BY <1>1, <1>2, RefLeads DEF IsTypeRecord
<1>5. \A key \in DOMAIN resolved.mapProperties :
        IsInstance(resolved.mapProperties[key]) /\ Leads(resolved.mapProperties[key].type, names)
  BY <1>1, <1>3, InstanceLeads DEF IsTypeRecord
<1>6. \A instance \in resolved.arrayAllElements : IsInstance(instance) /\ Leads(instance.type, names)
  BY <1>1, <1>3, InstanceLeads DEF IsTypeRecord, ResolvedInstances
<1>7. \A instance \in resolved.mapKeyType : IsInstance(instance) /\ Leads(instance.type, names)
  BY <1>1, <1>3, InstanceLeads DEF IsTypeRecord, ResolvedInstances
<1>8. \A instance \in resolved.mapAllProperties : IsInstance(instance) /\ Leads(instance.type, names)
  BY <1>1, <1>3, InstanceLeads DEF IsTypeRecord, ResolvedInstances
<1>9. IsTypeRecord(resolved)
  <2>1. resolved =
          [primitive |-> resolved.primitive, types |-> resolved.types, regex |-> resolved.regex,
           arrayAllElements |-> resolved.arrayAllElements, mapProperties |-> resolved.mapProperties,
           mapKeyType |-> resolved.mapKeyType, mapAllProperties |-> resolved.mapAllProperties,
           mapAllowAdditionalProperties |-> resolved.mapAllowAdditionalProperties]
    BY ResolvedIs
  <2> QED BY <2>1, <1>4, <1>5, <1>6, <1>7, <1>8 DEF IsTypeRecord
<1>10. \A stage \in 1 .. 4 : \A instance \in Stages(resolved)[stage] : Leads(instance.type, names)
  <2>1. \A instance \in Stages(resolved)[1] : Leads(instance.type, names)
    BY <1>5, StagesAre
  <2>2. \A instance \in Stages(resolved)[2] : Leads(instance.type, names)
    BY <1>6, StagesAre
  <2>3. \A instance \in Stages(resolved)[3] : Leads(instance.type, names)
    BY <1>7, StagesAre
  <2>4. \A instance \in Stages(resolved)[4] : Leads(instance.type, names)
    BY <1>8, StagesAre
  <2>5. \A stage \in 1 .. 4 : stage = 1 \/ stage = 2 \/ stage = 3 \/ stage = 4
    OBVIOUS
  <2> QED BY <2>1, <2>2, <2>3, <2>4, <2>5
<1> QED BY <1>4, <1>9, <1>10 DEF AllLead

-----------------------------------------------------------------------------
(* The inductive invariant of the two passes: what is left of the names is  *)
(* what the first has not made a type of, and the second not resolved.      *)
Names == DOMAIN document.types.pairs
LoadInv ==
  /\ document \in SchemaDocuments
  /\ \A name \in DOMAIN types : IsTypeRecord(types[name])
  /\ phase \in {"locate", "parse", "version", "texts"} =>
       listed = <<>> /\ DOMAIN types = {}
  /\ phase = "types" =>
       /\ left \in Seq(Names) /\ listed \in Seq(Names)
       /\ DOMAIN types = RangeOf(listed)
       /\ Names = RangeOf(left) \cup RangeOf(listed)
  /\ phase = "resolve" =>
       /\ left \in Seq(Names) /\ DOMAIN types = Names
       /\ \A name \in Names : name \in RangeOf(left) \/ AllLead(types[name], Names)
  /\ phase \in {"loaded", "asked"} =>
       DOMAIN types = Names /\ \A name \in Names : AllLead(types[name], Names)

LEMMA HeadAndTail ==
  ASSUME NEW S, NEW s \in Seq(S), s # <<>>
  PROVE  Head(s) \in S /\ Tail(s) \in Seq(S) /\ RangeOf(s) = {Head(s)} \cup RangeOf(Tail(s))
<1>1. Len(s) \in Nat \ {0} /\ DOMAIN s = 1 .. Len(s) /\ Head(s) = s[1] /\ Tail(s) \in Seq(S)
  OBVIOUS
<1>2. DOMAIN Tail(s) = 1 .. Len(s) - 1 /\ \A i \in 1 .. Len(s) - 1 : Tail(s)[i] = s[i + 1]
  BY <1>1
<1>3. \A i \in DOMAIN s : i = 1 \/ (i - 1 \in DOMAIN Tail(s) /\ Tail(s)[i - 1] = s[i])
  BY <1>1, <1>2
<1>4. \A i \in DOMAIN Tail(s) : i + 1 \in DOMAIN s /\ Tail(s)[i] = s[i + 1]
  BY <1>1, <1>2
<1>5. 1 \in DOMAIN s
  BY <1>1
<1>6. Head(s) \in S
  BY <1>1, <1>5
<1>7. RangeOf(s) \subseteq {Head(s)} \cup RangeOf(Tail(s))
  BY <1>1, <1>3 DEF RangeOf
<1>8. {Head(s)} \cup RangeOf(Tail(s)) \subseteq RangeOf(s)
  BY <1>1, <1>4, <1>5 DEF RangeOf
<1> QED BY <1>1, <1>6, <1>7, <1>8

LEMMA InFront ==
  ASSUME NEW S, NEW x \in S, NEW s \in Seq(S)
  PROVE  <<x>> \o s \in Seq(S) /\ RangeOf(<<x>> \o s) = {x} \cup RangeOf(s)
<1> DEFINE t == <<x>> \o s
<1>1. t \in Seq(S) /\ DOMAIN t = 1 .. Len(s) + 1 /\ DOMAIN s = 1 .. Len(s) /\ Len(s) \in Nat
  OBVIOUS
<1>2. t[1] = x /\ \A i \in 1 .. Len(s) : t[i + 1] = s[i]
  OBVIOUS
<1>3. \A i \in DOMAIN t : i = 1 \/ (i - 1 \in DOMAIN s /\ t[i] = s[i - 1])
  BY <1>1, <1>2
<1>4. 1 \in DOMAIN t /\ \A i \in DOMAIN s : i + 1 \in DOMAIN t
  BY <1>1
<1> QED BY <1>1, <1>2, <1>3, <1>4 DEF RangeOf

LEMMA OrdersAre ==
  ASSUME NEW S, IsFiniteSet(S), NEW order \in Orders(S)
  PROVE  order \in Seq(S) /\ RangeOf(order) = S
<1>1. Cardinality(S) \in Nat
  BY FS_CardinalityType
<1>2. order \in Seq(S) /\ DOMAIN order = 1 .. Cardinality(S)
  BY <1>1 DEF Orders
<1>3. \A i \in DOMAIN order : order[i] \in S
  BY DEF Orders
<1>4. \A x \in S : \E i \in DOMAIN order : order[i] = x
  BY DEF Orders
<1> QED BY <1>2, <1>3, <1>4 DEF RangeOf

LEMMA LoadInit == SchemaInit => LoadInv
BY DEF SchemaInit, LoadInv

(* What a refused schema leaves, and a call that only reads the schema.     *)
LEMMA RefuseKeeps ==
  ASSUME LoadInv, NEW error, Refuse(error)
  PROVE  LoadInv'
BY DEF LoadInv, Refuse, Drop

LEMMA CrashKeeps ==
  ASSUME LoadInv, Crash
  PROVE  LoadInv'
BY DEF LoadInv, Crash, Load

LEMMA LoadStepKeeps ==
  ASSUME LoadInv, LoadStep
  PROVE  LoadInv'
<1> USE DEF Load
<1>1. CASE Locate
  BY <1>1, RefuseKeeps DEF Locate, LoadInv
<1>2. CASE ParseDocument
  BY <1>2, RefuseKeeps DEF ParseDocument, LoadInv
<1>3. CASE CheckVersion
  BY <1>3, RefuseKeeps, CrashKeeps DEF CheckVersion, LoadInv
<1>4. CASE ReadTexts
  <2>1. CASE Crash
    BY <2>1, CrashKeeps
  <2>2. CASE ~Crash
    <3>1. /\ phase = "texts" /\ phase' = "types" /\ left' \in Orders(Names)
          /\ UNCHANGED <<document, listed, rootType, types>>
      BY <1>4, <2>2 DEF ReadTexts, Names
    <3>2. left' \in Seq(Names) /\ RangeOf(left') = Names
      <4>1. IsFiniteSet(Names)
        BY DocumentsAssumption DEF LoadInv, Names
      <4> QED BY <3>1, <4>1, OrdersAre
    <3>3. listed' = <<>> /\ DOMAIN types' = {} /\ RangeOf(<<>>) = {} /\ Names' = Names
      BY <3>1 DEF LoadInv, RangeOf, Names
    <3> QED BY <3>1, <3>2, <3>3 DEF LoadInv
  <2> QED BY <2>1, <2>2
<1>5. CASE CreateType
  <2>1. CASE Crash
    BY <2>1, CrashKeeps
  <2>2. CASE ~Crash
    <3> DEFINE name == Head(left)
               definition == document.types.pairs[name]
    <3>1. /\ phase = "types" /\ left # <<>> /\ phase' = "types"
          /\ types' = [other \in DOMAIN types \cup {name} |->
                         IF other = name THEN createFromExpression(definition) ELSE types[other]]
          /\ listed' = <<name>> \o listed /\ left' = Tail(left) /\ document' = document
      BY <1>5, <2>2 DEF CreateType
    <3>2. /\ name \in Names /\ left' \in Seq(Names)
          /\ RangeOf(left) = {name} \cup RangeOf(left')
      BY <3>1, HeadAndTail DEF LoadInv
    <3>3. listed' \in Seq(Names) /\ RangeOf(listed') = {name} \cup RangeOf(listed)
      BY <3>1, <3>2, InFront DEF LoadInv
    <3>4. DOMAIN types' = RangeOf(listed') /\ Names' = RangeOf(left') \cup RangeOf(listed') /\ Names' = Names
      BY <3>1, <3>2, <3>3 DEF LoadInv, Names
    <3>5. \A other \in DOMAIN types' : IsTypeRecord(types'[other])
      BY <3>1, CreatedIsType DEF LoadInv
    <3> QED BY <3>1, <3>2, <3>3, <3>4, <3>5 DEF LoadInv
  <2> QED BY <2>1, <2>2
<1>6. CASE TypesCreated
  <2>1. CASE Crash
    BY <2>1, CrashKeeps
  <2>2. CASE ~Crash
    <3>1. /\ phase = "types" /\ left = <<>> /\ phase' = "resolve" /\ left' = listed
          /\ UNCHANGED <<document, types>>
      BY <1>6, <2>2 DEF TypesCreated
    <3>2. RangeOf(listed) = Names /\ Names' = Names
      BY <3>1 DEF LoadInv, RangeOf, Names
    <3> QED BY <3>1, <3>2 DEF LoadInv
  <2> QED BY <2>1, <2>2
<1>7. CASE ResolveType
  <2> DEFINE name == Head(left)
  <2>1. CASE Crash
    BY <2>1, CrashKeeps
  <2>2. CASE Refuse("resolve")
    BY <2>2, RefuseKeeps
  <2>3. CASE ~Crash /\ ~Refuse("resolve")
    <3>1. /\ phase = "resolve" /\ left # <<>> /\ phase' = "resolve" /\ document' = document
          /\ Resolves(types[name], DOMAIN types)
          /\ types' = [types EXCEPT ![name] = Resolved(types[name])] /\ left' = Tail(left)
      BY <1>7, <2>3 DEF ResolveType
    <3>2. /\ name \in Names /\ left' \in Seq(Names)
          /\ RangeOf(left) = {name} \cup RangeOf(left')
      BY <3>1, HeadAndTail DEF LoadInv
    <3>3. DOMAIN types = Names /\ DOMAIN types' = Names /\ Names' = Names
      BY <3>1 DEF LoadInv, Names
    <3>4. IsTypeRecord(Resolved(types[name])) /\ AllLead(Resolved(types[name]), Names)
      BY <3>1, <3>2, <3>3, ResolvedLeads DEF LoadInv
    <3>5. types'[name] = Resolved(types[name]) /\ \A other \in Names \ {name} : types'[other] = types[other]
      BY <3>1, <3>2, <3>3
    <3>6. \A other \in DOMAIN types' : IsTypeRecord(types'[other])
      BY <3>3, <3>4, <3>5 DEF LoadInv
    <3>7. \A other \in Names : other \in RangeOf(left') \/ AllLead(types'[other], Names)
      BY <3>1, <3>2, <3>4, <3>5 DEF LoadInv
    <3> QED BY <3>1, <3>2, <3>3, <3>6, <3>7 DEF LoadInv
  <2> QED BY <2>1, <2>2, <2>3
<1>8. CASE FindRootType
  <2>1. CASE Crash
    BY <2>1, CrashKeeps
  <2>2. CASE ~Crash
    <3>1. phase = "resolve" /\ left = <<>> /\ phase' = "loaded" /\ UNCHANGED <<document, types>>
      BY <1>8, <2>2 DEF FindRootType
    <3>2. RangeOf(left) = {} /\ Names' = Names
      BY <3>1 DEF RangeOf, Names
    <3> QED BY <3>1, <3>2 DEF LoadInv
  <2> QED BY <2>1, <2>2
<1> QED BY <1>1, <1>2, <1>3, <1>4, <1>5, <1>6, <1>7, <1>8 DEF LoadStep

LEMMA LoadInductive == LoadInv /\ [SchemaNext]_schemaVars => LoadInv'
<1> SUFFICES ASSUME LoadInv, [SchemaNext]_schemaVars PROVE LoadInv'
  OBVIOUS
<1>1. CASE LoadStep
  BY <1>1, LoadStepKeeps
<1>2. CASE AskNoRoot
  BY <1>2 DEF AskNoRoot, LoadInv, Names
<1>3. CASE Ask
  BY <1>3 DEF Ask, LoadInv, Names
<1>4. CASE Validate
  BY <1>4 DEF Validate, loadingVars, LoadInv, Names
<1>5. CASE Answered
  BY <1>5 DEF Answered, LoadInv, Names
<1>6. CASE Destroy
  BY <1>6 DEF Destroy, Drop, LoadInv, Names
<1>7. CASE UNCHANGED schemaVars
  BY <1>7 DEF schemaVars, LoadInv, Names
<1> QED BY <1>1, <1>2, <1>3, <1>4, <1>5, <1>6, <1>7 DEF SchemaNext, Over

(* A loaded schema has every type of its document, and none with a          *)
(* reference that leads nowhere: the NULL checks validateObject does not do *)
(* on the types of a type are not needed                                    *)
(* (wexprSchema_Schema_createFromSchemaID, both passes).                    *)
THEOREM LoadedIsResolved == SchemaSpec => []OnlyResolvedTypes
<1>1. LoadInv => OnlyResolvedTypes
  BY DEF LoadInv, OnlyResolvedTypes, Names
<1> QED BY <1>1, LoadInit, LoadInductive, PTL DEF SchemaSpec

-----------------------------------------------------------------------------
(* Who asked for errors has one exactly when the answer is no, who did not  *)
(* has none: of the errors collected so far, of what a call returns, and so *)
(* of the whole validation.                                                 *)
Sequence(s) == \E S : s \in Seq(S)
Told(want, ok, errors) ==
  /\ ok \in BOOLEAN /\ Sequence(errors)
  /\ IF want THEN ok <=> (errors = <<>>) ELSE errors = <<>>

FrameFields == {"pc", "type", "expr", "want", "named", "i", "keys", "key", "ok", "errors", "reasons"}
IsActivation(a) == DOMAIN a = FrameFields /\ a.want \in BOOLEAN /\ Told(a.want, a.ok, a.errors)

(* Where an activation waits for a call, and whether that call is to tell. *)
Waits == {"root", "parentTried", "elementTried", "propertyTried", "keyTried", "pairTried"}
Expected(a) ==
  IF a.pc \in {"parentTried", "propertyTried"} THEN TRUE
  ELSE IF a.pc = "root" THEN asked.want ELSE a.want

Activations ==
  /\ IsActivation(cur) /\ Sequence(callers) /\ asked.want \in BOOLEAN
  /\ cur.pc = "root" <=> callers = <<>>
  /\ \A i \in 1 .. Len(callers) :
       /\ IsActivation(callers[i]) /\ callers[i].pc \in Waits
       /\ callers[i].pc = "root" <=> i = Len(callers)
  /\ callers # <<>> => cur.want = Expected(callers[1])
  /\ \A i \in 1 .. Len(callers) - 1 : callers[i].want = Expected(callers[i + 1])
  /\ cur.pc \in Waits => Told(Expected(cur), ret.ok, ret.errors)

TellInv == FailuresAreExplained /\ (phase = "asked" => Activations)

LEMMA Empty == Sequence(<<>>) /\ \A e : Sequence(<<e>>) /\ <<e>> # <<>>
<1>1. <<>> \in Seq({}) /\ \A e : <<e>> \in Seq({e}) /\ <<e>> # <<>>
  OBVIOUS
<1> QED BY <1>1 DEF Sequence

LEMMA Joined ==
  ASSUME NEW s, NEW t, Sequence(s), Sequence(t)
  PROVE  Sequence(s \o t) /\ (s \o t = <<>> <=> s = <<>> /\ t = <<>>)
<1>1. PICK S : s \in Seq(S)
  BY DEF Sequence
<1>2. PICK T : t \in Seq(T)
  BY DEF Sequence
<1>3. s \in Seq(S \cup T) /\ t \in Seq(S \cup T)
  BY <1>1, <1>2
<1> HIDE <1>1, <1>2
<1>4. s \o t \in Seq(S \cup T) /\ Len(s \o t) = Len(s) + Len(t)
  BY <1>3
<1>5. \A r \in Seq(S \cup T) : Len(r) \in Nat /\ (r = <<>> <=> Len(r) = 0)
  OBVIOUS
<1> QED BY <1>3, <1>4, <1>5 DEF Sequence

LEMMA BothTold ==
  ASSUME NEW want, NEW ok, NEW errors, Told(want, ok, errors),
         NEW more, NEW others, Told(want, more, others)
  PROVE  Told(want, ok /\ more, others \o errors)
BY Joined DEF Told

LEMMA ReasonTold ==
  ASSUME NEW ok, NEW errors, Told(cur.want, ok, errors), NEW why, NEW child
  PROVE  Told(cur.want, FALSE, Explained(why, child, errors))
<1>1. \A e : Sequence(<<e>> \o errors) /\ <<e>> \o errors # <<>>
  BY Empty, Joined DEF Told
<1> QED BY <1>1 DEF Told, Explained

LEMMA GoTells ==
  ASSUME Activations, cur.pc # "root", NEW c, Go(c), asked' = asked, IsActivation(c),
         c.want = cur.want, c.pc \notin Waits
  PROVE  Activations'
BY DEF Activations, Go, Expected, Waits

LEMMA PassTells ==
  ASSUME Activations, cur.pc # "root", NEW c, cur' = c, callers' = callers, asked' = asked,
         IsActivation(c), c.want = cur.want, c.pc \in Waits, c.pc # "root",
         Told(Expected(c), ret'.ok, ret'.errors)
  PROVE  Activations'
BY DEF Activations, Expected

LEMMA FrameTells ==
  ASSUME NEW type, NEW expr, NEW want \in BOOLEAN, NEW named
  PROVE  LET frame == Frame("kinds", type, expr, want, named) IN
         IsActivation(frame) /\ frame.want = want /\ frame.pc = "kinds"
BY Empty DEF Frame, IsActivation, FrameFields, Told

(* A call puts its caller in front of the callers, an answer takes the      *)
(* nearest one back.                                                        *)
LEMMA Pushed ==
  ASSUME NEW s, Sequence(s), NEW c
  PROVE  /\ Sequence(<<c>> \o s) /\ Len(<<c>> \o s) = Len(s) + 1 /\ Len(s) \in Nat
         /\ (<<c>> \o s)[1] = c /\ \A i \in 1 .. Len(s) : (<<c>> \o s)[i + 1] = s[i]
<1>1. PICK S : s \in Seq(S)
  BY DEF Sequence
<1>2. s \in Seq(S \cup {c}) /\ <<c>> \in Seq(S \cup {c})
  BY <1>1
<1>3. /\ <<c>> \o s \in Seq(S \cup {c}) /\ Len(<<c>> \o s) = Len(s) + 1 /\ Len(s) \in Nat
      /\ (<<c>> \o s)[1] = c /\ \A i \in 1 .. Len(s) : (<<c>> \o s)[i + 1] = s[i]
  BY <1>2
<1> QED BY <1>3 DEF Sequence

LEMMA Popped ==
  ASSUME NEW s, Sequence(s), s # <<>>
  PROVE  /\ Sequence(Tail(s)) /\ Len(Tail(s)) = Len(s) - 1 /\ Len(s) \in Nat \ {0}
         /\ Head(s) = s[1] /\ \A i \in 1 .. Len(s) - 1 : Tail(s)[i] = s[i + 1]
         /\ Tail(s) = <<>> <=> Len(s) = 1
<1>1. PICK S : s \in Seq(S)
  BY DEF Sequence
<1>2. /\ Tail(s) \in Seq(S) /\ Len(Tail(s)) = Len(s) - 1 /\ Len(s) \in Nat \ {0}
      /\ Head(s) = s[1] /\ \A i \in 1 .. Len(s) - 1 : Tail(s)[i] = s[i + 1]
  BY <1>1
<1>3. \A t \in Seq(S) : t = <<>> <=> Len(t) = 0
  OBVIOUS
<1>4. Tail(s) = <<>> <=> Len(s) = 1
  <2>1. Tail(s) = <<>> <=> Len(Tail(s)) = 0
    BY <1>2, <1>3
  <2> QED BY <1>2, <2>1
<1>5. Sequence(Tail(s))
  BY <1>2 DEF Sequence
<1> QED BY <1>2, <1>4, <1>5

LEMMA CallTells ==
  ASSUME Activations, cur.pc # "root", asked' = asked, NEW c, IsActivation(c),
         c.want = cur.want, c.pc \in Waits, c.pc # "root",
         NEW type, NEW expr, NEW named, Call(c, type, expr, Expected(c), named)
  PROVE  Activations'
<1>1. Expected(c) \in BOOLEAN
  BY DEF Expected, IsActivation, Activations
<1>2. CASE Len(callers) < MaxCalls
  <2> DEFINE frame == Frame("kinds", type, expr, Expected(c), named)
  <2>1. cur' = frame /\ callers' = <<c>> \o callers
    BY <1>2 DEF Call
  <2>2. IsActivation(frame) /\ frame.want = Expected(c) /\ frame.pc = "kinds"
    BY <1>1, FrameTells
  <2> HIDE DEF frame
  <2>3. /\ Sequence(callers') /\ Len(callers') = Len(callers) + 1 /\ Len(callers) \in Nat
        /\ callers'[1] = c /\ \A i \in 1 .. Len(callers) : callers'[i + 1] = callers[i]
    BY <2>1, Pushed DEF Activations
  <2>4. callers' # <<>> /\ callers # <<>> /\ Len(callers) # 0
    BY <2>3 DEF Activations, Sequence
  <2>5. \A i \in 1 .. Len(callers') :
          IsActivation(callers'[i]) /\ callers'[i].pc \in Waits
          /\ (callers'[i].pc = "root" <=> i = Len(callers'))
    <3> SUFFICES ASSUME NEW i \in 1 .. Len(callers')
                 PROVE  /\ IsActivation(callers'[i]) /\ callers'[i].pc \in Waits
                        /\ (callers'[i].pc = "root" <=> i = Len(callers'))
      OBVIOUS
    <3>1. CASE i = 1
      BY <2>3, <2>4, <3>1
    <3>2. CASE i # 1
      <4>1. i - 1 \in 1 .. Len(callers) /\ (i - 1) + 1 = i
        BY <2>3, <3>2
      <4>2. callers'[i] = callers[i - 1]
        BY <2>3, <4>1
      <4> QED BY <2>3, <4>1, <4>2 DEF Activations
    <3> QED BY <3>1, <3>2
  <2>6. \A i \in 1 .. Len(callers') - 1 : callers'[i].want = Expected(callers[i])
    <3> SUFFICES ASSUME NEW i \in 1 .. Len(callers') - 1
                 PROVE  callers'[i].want = Expected(callers[i])
      OBVIOUS
    <3>1. CASE i = 1
      BY <2>3, <2>4, <3>1 DEF Activations
    <3>2. CASE i # 1
      <4>1. i - 1 \in 1 .. Len(callers) - 1 /\ (i - 1) + 1 = i
        BY <2>3, <3>2
      <4>2. callers'[i] = callers[i - 1]
        BY <2>3, <4>1
      <4> QED BY <2>3, <4>1, <4>2 DEF Activations
    <3> QED BY <3>1, <3>2
  <2>7. \A i \in 1 .. Len(callers') - 1 : callers'[i].want = Expected(callers[i + 1])'
    <3> SUFFICES ASSUME NEW i \in 1 .. Len(callers') - 1
                 PROVE  callers'[i].want = Expected(callers[i + 1])'
      OBVIOUS
    <3>1. callers'[i + 1] = callers[i]
      BY <2>3
    <3> QED BY <2>6, <3>1 DEF Expected
  <2>8. (callers # <<>> => cur.want = Expected(callers[1]))'
    BY <2>1, <2>2, <2>3 DEF Expected
  <2>9. cur'.pc \notin Waits /\ (cur.pc = "root" <=> callers = <<>>)'
    BY <2>1, <2>2, <2>4 DEF Waits
  <2> QED BY <2>1, <2>2, <2>3, <2>5, <2>7, <2>8, <2>9 DEF Activations
<1>3. CASE ~(Len(callers) < MaxCalls)
  <2> DEFINE over == [cur EXCEPT !.pc = "overflow"]
  <2>1. cur' = over /\ callers' = callers
    BY <1>3 DEF Call
  <2>2. IsActivation(over) /\ over.want = cur.want /\ over.pc = "overflow"
    BY DEF Activations, IsActivation, FrameFields
  <2> HIDE DEF over
  <2> QED BY <2>1, <2>2 DEF Activations, Expected, Waits
<1> QED BY <1>2, <1>3

LEMMA AnswerTells ==
  ASSUME Activations, cur.pc # "root", asked' = asked, NEW ok, NEW errors,
         Told(cur.want, ok, errors), Answer(ok, errors)
  PROVE  Activations'
<1>1. callers # <<>> /\ Sequence(callers)
  BY DEF Activations
<1>2. /\ Sequence(callers') /\ Len(callers') = Len(callers) - 1 /\ Len(callers) \in Nat \ {0}
      /\ cur' = callers[1] /\ \A i \in 1 .. Len(callers) - 1 : callers'[i] = callers[i + 1]
      /\ callers' = <<>> <=> Len(callers) = 1
  BY <1>1, Popped DEF Answer
<1>3. ret'.ok = ok /\ ret'.errors = errors /\ cur.want = Expected(callers[1])
  BY <1>1 DEF Answer, Activations
<1>4. IsActivation(callers[1]) /\ (callers[1].pc = "root" <=> Len(callers) = 1)
  BY <1>2 DEF Activations
<1>5. (Told(Expected(cur), ret.ok, ret.errors))'
  <2>1. Expected(cur)' = Expected(callers[1])
    BY <1>2 DEF Expected
  <2> QED BY <1>3, <2>1
<1>6. \A i \in 1 .. Len(callers') : i + 1 \in 1 .. Len(callers) /\ callers'[i] = callers[i + 1]
  BY <1>2
<1>7. \A i \in 1 .. Len(callers') :
        /\ IsActivation(callers'[i]) /\ callers'[i].pc \in Waits
        /\ (callers'[i].pc = "root" <=> i = Len(callers'))
  <2> SUFFICES ASSUME NEW i \in 1 .. Len(callers')
               PROVE  /\ IsActivation(callers'[i]) /\ callers'[i].pc \in Waits
                      /\ (callers'[i].pc = "root" <=> i = Len(callers'))
    OBVIOUS
  <2>1. i + 1 = Len(callers) <=> i = Len(callers')
    BY <1>2
  <2> QED BY <1>6, <2>1 DEF Activations
<1>8. callers' # <<>> => cur'.want = Expected(callers[1])'
  <2> SUFFICES ASSUME callers' # <<>> PROVE cur'.want = Expected(callers[1])'
    OBVIOUS
  <2>1. 1 \in 1 .. Len(callers) - 1 /\ callers'[1] = callers[2]
    BY <1>2
  <2>2. callers[1].want = Expected(callers[2])
    BY <2>1 DEF Activations
  <2> QED BY <1>2, <2>1, <2>2 DEF Expected
<1>9. \A i \in 1 .. Len(callers') - 1 : callers'[i].want = Expected(callers[i + 1])'
  <2> SUFFICES ASSUME NEW i \in 1 .. Len(callers') - 1
               PROVE  callers'[i].want = Expected(callers[i + 1])'
    OBVIOUS
  <2>1. /\ i + 1 \in 1 .. Len(callers) - 1 /\ callers'[i] = callers[i + 1]
        /\ callers'[i + 1] = callers[i + 2] /\ (i + 1) + 1 = i + 2
    BY <1>2
  <2>2. callers[i + 1].want = Expected(callers[i + 2])
    BY <2>1 DEF Activations
  <2> QED BY <2>1, <2>2 DEF Expected
<1> QED BY <1>2, <1>4, <1>5, <1>7, <1>8, <1>9 DEF Activations

-----------------------------------------------------------------------------
(* The steps of validateObject.                                             *)
LEMMA InstanceTells ==
  ASSUME Activations, cur.pc # "root", asked' = asked, NEW c, IsActivation(c),
         c.want = cur.want, c.pc \in Waits, c.pc # "root",
         NEW instance, NEW expr, NEW named,
         ValidateInstance(c, instance, expr, Expected(c), named)
  PROVE  Activations'
<1>1. Told(TRUE, FALSE, <<Reason("unresolved", <<>>)>>) /\ \A want : Told(want, TRUE, <<>>)
  BY Empty DEF Told
<1>2. Expected(c)' = Expected(c) /\ Expected(c) \in BOOLEAN
  BY DEF Expected, Activations, IsActivation
<1>3. CASE ~instance.type.resolved /\ Expected(c)
  <2>1. cur' = c /\ callers' = callers /\ ret' = [ok |-> FALSE, errors |-> <<Reason("unresolved", <<>>)>>]
    BY <1>3 DEF ValidateInstance
  <2>2. Told(Expected(c), ret'.ok, ret'.errors)
    BY <1>1, <1>2, <1>3, <2>1
  <2> QED BY <2>1, <2>2, PassTells
<1>4. CASE ~instance.type.resolved /\ ~Expected(c)
  <2> DEFINE lost == [cur EXCEPT !.pc = "undefined"]
  <2>1. Go(lost)
    BY <1>4 DEF ValidateInstance, Undefined
  <2>2. IsActivation(lost) /\ lost.want = cur.want /\ lost.pc = "undefined"
    BY DEF Activations, IsActivation, FrameFields
  <2> HIDE DEF lost
  <2> QED BY <2>1, <2>2, GoTells DEF Waits
<1>5. CASE instance.type.resolved /\ Call(c, instance.type.name, expr, Expected(c), named)
  BY <1>5, CallTells
<1>6. CASE cur' = c /\ ret' = Passed /\ callers' = callers
  <2>1. Told(Expected(c), ret'.ok, ret'.errors)
    BY <1>1, <1>6 DEF Passed
  <2> QED BY <1>6, <2>1, PassTells
<1> QED BY <1>3, <1>4, <1>5, <1>6 DEF ValidateInstance

(* The running activation goes on with other registers, the answer and the  *)
(* errors it has so far agreeing.                                           *)
LEMMA GoesOn ==
  ASSUME Activations, cur.pc # "root", asked' = asked, NEW pc, pc \notin Waits,
         NEW i, NEW keys, NEW reasons,
         \/ Go([cur EXCEPT !.pc = pc])
         \/ Go([cur EXCEPT !.pc = pc, !.i = i])
         \/ Go([cur EXCEPT !.pc = pc, !.keys = keys, !.i = i])
         \/ Go([cur EXCEPT !.pc = pc, !.i = i, !.reasons = reasons])
  PROVE  Activations'
<1>1. CASE Go([cur EXCEPT !.pc = pc])
  <2> DEFINE c == [cur EXCEPT !.pc = pc]
  <2>1. IsActivation(c) /\ c.want = cur.want /\ c.pc = pc
    BY DEF Activations, IsActivation, FrameFields
  <2>2. Go(c)
    BY <1>1
  <2> HIDE DEF c
  <2> QED BY <2>1, <2>2, GoTells
<1>2. CASE Go([cur EXCEPT !.pc = pc, !.i = i])
  <2> DEFINE c == [cur EXCEPT !.pc = pc, !.i = i]
  <2>1. IsActivation(c) /\ c.want = cur.want /\ c.pc = pc
    BY DEF Activations, IsActivation, FrameFields
  <2>2. Go(c)
    BY <1>2
  <2> HIDE DEF c
  <2> QED BY <2>1, <2>2, GoTells
<1>3. CASE Go([cur EXCEPT !.pc = pc, !.keys = keys, !.i = i])
  <2> DEFINE c == [cur EXCEPT !.pc = pc, !.keys = keys, !.i = i]
  <2>1. IsActivation(c) /\ c.want = cur.want /\ c.pc = pc
    BY DEF Activations, IsActivation, FrameFields
  <2>2. Go(c)
    BY <1>3
  <2> HIDE DEF c
  <2> QED BY <2>1, <2>2, GoTells
<1>4. CASE Go([cur EXCEPT !.pc = pc, !.i = i, !.reasons = reasons])
  <2> DEFINE c == [cur EXCEPT !.pc = pc, !.i = i, !.reasons = reasons]
  <2>1. IsActivation(c) /\ c.want = cur.want /\ c.pc = pc
    BY DEF Activations, IsActivation, FrameFields
  <2>2. Go(c)
    BY <1>4
  <2> HIDE DEF c
  <2> QED BY <2>1, <2>2, GoTells
<1> QED BY <1>1, <1>2, <1>3, <1>4

LEMMA NotesOn ==
  ASSUME Activations, cur.pc # "root", asked' = asked, NEW pc, pc \notin Waits,
         NEW i, NEW ok, NEW errors, Told(cur.want, ok, errors),
         \/ Go([cur EXCEPT !.pc = pc, !.ok = ok, !.errors = errors])
         \/ Go([cur EXCEPT !.pc = pc, !.i = i, !.ok = ok, !.errors = errors])
  PROVE  Activations'
<1>1. CASE Go([cur EXCEPT !.pc = pc, !.ok = ok, !.errors = errors])
  <2> DEFINE c == [cur EXCEPT !.pc = pc, !.ok = ok, !.errors = errors]
  <2>1. IsActivation(c) /\ c.want = cur.want /\ c.pc = pc
    BY DEF Activations, IsActivation, FrameFields
  <2>2. Go(c)
    BY <1>1
  <2> HIDE DEF c
  <2> QED BY <2>1, <2>2, GoTells
<1>2. CASE Go([cur EXCEPT !.pc = pc, !.i = i, !.ok = ok, !.errors = errors])
  <2> DEFINE c == [cur EXCEPT !.pc = pc, !.i = i, !.ok = ok, !.errors = errors]
  <2>1. IsActivation(c) /\ c.want = cur.want /\ c.pc = pc
    BY DEF Activations, IsActivation, FrameFields
  <2>2. Go(c)
    BY <1>2
  <2> HIDE DEF c
  <2> QED BY <2>1, <2>2, GoTells
<1> QED BY <1>1, <1>2

LEMMA ValidateTells ==
  ASSUME Activations, asked' = asked, ValidateStep
  PROVE  Activations'
<1>0. cur.pc # "root" => cur.want \in BOOLEAN /\ Told(cur.want, cur.ok, cur.errors)
  BY DEF Activations, IsActivation
<1>n. Told(cur.want, TRUE, <<>>) \/ cur.want \notin BOOLEAN
  BY Empty DEF Told
<1>u. \A pc \in {"kinds", "parents", "elements", "properties", "pairs", "additional", "value",
                 "undefined", "overflow"} : pc \notin Waits
  BY DEF Waits
<1>1. CASE AskForEver
  BY <1>1, <1>u, GoesOn DEF AskForEver
<1>2. CASE WrongPrimitive
  <2>1. CASE Undefined
    BY <1>2, <1>u, <2>1, GoesOn DEF WrongPrimitive, Undefined
  <2>2. CASE Answer(FALSE, Explained("primitive", <<>>, <<>>))
    <3>1. cur.pc # "root" /\ Told(cur.want, TRUE, <<>>)
      BY <1>2, <1>0, <1>n DEF WrongPrimitive
    <3>2. Told(cur.want, FALSE, Explained("primitive", <<>>, <<>>))
      BY <3>1, ReasonTold
    <3> QED BY <2>2, <3>1, <3>2, AnswerTells
  <2> QED BY <1>2, <2>1, <2>2 DEF WrongPrimitive
<1>3. CASE RightPrimitive
  BY <1>3, <1>u, GoesOn DEF RightPrimitive
<1>4. CASE TryParent
  <2> DEFINE c == [cur EXCEPT !.pc = "parentTried"]
  <2>1. IsActivation(c) /\ c.want = cur.want /\ c.pc = "parentTried"
    BY DEF Activations, IsActivation, FrameFields
  <2>2. cur.pc # "root" /\ Call(c, Type.types[cur.i].name, cur.expr, TRUE, cur.named)
    BY <1>4 DEF TryParent
  <2> HIDE DEF c
  <2>3. Expected(c) = TRUE
    BY <2>1 DEF Expected
  <2> QED BY <2>1, <2>2, <2>3, CallTells DEF Waits
<1>5. CASE ParentFailed
  BY <1>5, <1>u, GoesOn DEF ParentFailed
<1>6. CASE ParentMatched
  BY <1>6, <1>u, GoesOn DEF ParentMatched
<1>7. CASE NoParentMatched
  <2>1. cur.pc # "root" /\ Told(cur.want, TRUE, <<>>)
    BY <1>7, <1>0, <1>n DEF NoParentMatched
  <2>2. Told(cur.want, FALSE, Explained("types", cur.reasons, <<>>))
    BY <2>1, ReasonTold
  <2> QED BY <1>7, <2>1, <2>2, AnswerTells DEF NoParentMatched
<1>8. CASE NoParents
  BY <1>8, <1>u, GoesOn DEF NoParents
<1>9. CASE ValidateElement
  <2> DEFINE c == [cur EXCEPT !.pc = "elementTried"]
  <2>1. IsActivation(c) /\ c.want = cur.want /\ c.pc = "elementTried"
    BY DEF Activations, IsActivation, FrameFields
  <2>2. PICK rule \in ElementRule : cur.pc # "root"
          /\ ValidateInstance(c, rule, cur.expr.list[cur.i], cur.want, cur.named)
    BY <1>9 DEF ValidateElement
  <2> HIDE DEF c
  <2>3. Expected(c) = cur.want
    BY <2>1 DEF Expected
  <2> QED BY <2>1, <2>2, <2>3, InstanceTells DEF Waits
<1>10. CASE ElementValidated
  <2>1. cur.pc = "elementTried" /\ Told(cur.want, ret.ok, ret.errors)
    BY <1>10 DEF ElementValidated, Activations, Waits, Expected
  <2>2. Told(cur.want, cur.ok /\ ret.ok, ret.errors \o cur.errors)
    BY <1>0, <2>1, BothTold
  <2> QED BY <1>10, <1>u, <2>1, <2>2, NotesOn DEF ElementValidated
<1>11. CASE ElementsDone
  <2>1. CASE cur.ok
    BY <1>11, <1>u, <2>1, GoesOn DEF ElementsDone, NextRules
  <2>2. CASE ~cur.ok
    <3>1. cur.pc # "root" /\ Answer(FALSE, cur.errors) /\ Told(cur.want, FALSE, cur.errors)
      BY <1>11, <1>0, <2>2 DEF ElementsDone, NextRules, Told
    <3> QED BY <3>1, AnswerTells
  <2> QED BY <2>1, <2>2
<1>12. CASE ValidateProperty
  <2>1. PICK key \in cur.keys : cur.pc # "root"
          /\ ValidateInstance([cur EXCEPT !.pc = "propertyTried", !.keys = cur.keys \ {key}],
               Type.mapProperties[key], mapValueForKey(cur.expr, key), TRUE, cur.named)
    BY <1>12 DEF ValidateProperty
  <2> DEFINE c == [cur EXCEPT !.pc = "propertyTried", !.keys = cur.keys \ {key}]
  <2>2. IsActivation(c) /\ c.want = cur.want /\ c.pc = "propertyTried"
    BY DEF Activations, IsActivation, FrameFields
  <2> HIDE DEF c
  <2>3. Expected(c) = TRUE
    BY <2>2 DEF Expected
  <2>4. ValidateInstance(c, Type.mapProperties[key], mapValueForKey(cur.expr, key), TRUE, cur.named)
    BY <2>1 DEF c
  <2> QED BY <2>1, <2>2, <2>3, <2>4, InstanceTells DEF Waits
<1>13. CASE PropertyValidated
  <2> DEFINE errors == IF ret.ok THEN cur.errors ELSE Explained("property", ret.errors, cur.errors)
  <2>1. cur.pc = "propertyTried" /\ Told(TRUE, ret.ok, ret.errors)
    BY <1>13 DEF PropertyValidated, Activations, Waits, Expected
  <2>2. Told(cur.want, cur.ok /\ ret.ok, errors)
    <3>1. CASE ret.ok
      BY <1>0, <2>1, <3>1 DEF Told
    <3>2. CASE ~ret.ok
      BY <1>0, <2>1, <3>2, ReasonTold DEF Told
    <3> QED BY <3>1, <3>2
  <2>3. Go([cur EXCEPT !.pc = "properties", !.ok = cur.ok /\ ret.ok, !.errors = errors])
    BY <1>13 DEF PropertyValidated
  <2> HIDE DEF errors
  <2> QED BY <1>u, <2>1, <2>2, <2>3, NotesOn
<1>14. CASE PropertiesDone
  BY <1>14, <1>u, GoesOn DEF PropertiesDone
<1>15. CASE ValidateKey
  <2>1. PICK key \in cur.keys :
          LET caller == [cur EXCEPT !.pc = "keyTried", !.keys = cur.keys \ {key}, !.key = key] IN
          IF MapRule(Type.mapKeyType) = {}
          THEN cur' = caller /\ ret' = Passed /\ UNCHANGED <<callers, types>>
          ELSE \E rule \in MapRule(Type.mapKeyType) :
                 ValidateInstance(caller, rule, Value(key), cur.want, cur.named)
    BY <1>15 DEF ValidateKey
  <2> DEFINE c == [cur EXCEPT !.pc = "keyTried", !.keys = cur.keys \ {key}, !.key = key]
  <2>2. IsActivation(c) /\ c.want = cur.want /\ c.pc = "keyTried" /\ cur.pc = "pairs"
    BY <1>15 DEF ValidateKey, Activations, IsActivation, FrameFields
  <2>3. \/ cur' = c /\ ret' = Passed /\ UNCHANGED <<callers, types>>
        \/ \E rule \in MapRule(Type.mapKeyType) :
             ValidateInstance(c, rule, Value(key), cur.want, cur.named)
    BY <2>1
  <2> HIDE DEF c
  <2>4. Expected(c) = cur.want
    BY <2>2 DEF Expected
  <2>5. CASE cur' = c /\ ret' = Passed /\ UNCHANGED <<callers, types>>
    <3>1. Told(Expected(c), ret'.ok, ret'.errors)
      BY <1>0, <1>n, <2>2, <2>5 DEF Passed, Expected
    <3> QED BY <2>2, <2>5, <3>1, PassTells DEF Waits
  <2>6. CASE \E rule \in MapRule(Type.mapKeyType) :
               ValidateInstance(c, rule, Value(key), cur.want, cur.named)
    BY <2>2, <2>4, <2>6, InstanceTells DEF Waits
  <2> QED BY <2>3, <2>5, <2>6
<1>16. CASE ValidatePair
  <2> DEFINE c == [cur EXCEPT !.pc = "pairTried", !.ok = cur.ok /\ ret.ok,
                              !.errors = ret.errors \o cur.errors]
  <2>1. cur.pc = "keyTried" /\ Told(cur.want, ret.ok, ret.errors)
    BY <1>16 DEF ValidatePair, Activations, Waits, Expected
  <2>2. Told(cur.want, cur.ok /\ ret.ok, ret.errors \o cur.errors)
    BY <1>0, <2>1, BothTold
  <2>3. IsActivation(c) /\ c.want = cur.want /\ c.pc = "pairTried"
    BY <2>2 DEF Activations, IsActivation, FrameFields
  <2>4. \/ cur' = c /\ ret' = Passed /\ UNCHANGED <<callers, types>>
        \/ \E rule \in MapRule(Type.mapAllProperties) :
             ValidateInstance(c, rule, cur.expr.hash[cur.key], cur.want, cur.named)
    BY <1>16 DEF ValidatePair
  <2> HIDE DEF c
  <2>5. Expected(c) = cur.want
    BY <2>3 DEF Expected
  <2>6. CASE cur' = c /\ ret' = Passed /\ UNCHANGED <<callers, types>>
    <3>1. Told(Expected(c), ret'.ok, ret'.errors)
      BY <1>0, <1>n, <2>1, <2>3, <2>6 DEF Passed, Expected
    <3> QED BY <2>1, <2>3, <2>6, <3>1, PassTells DEF Waits
  <2>7. CASE \E rule \in MapRule(Type.mapAllProperties) :
               ValidateInstance(c, rule, cur.expr.hash[cur.key], cur.want, cur.named)
    BY <2>1, <2>3, <2>5, <2>7, InstanceTells DEF Waits
  <2> QED BY <2>4, <2>6, <2>7
<1>17. CASE ValidateBlank
  <2> DEFINE c == [cur EXCEPT !.pc = "pairTried", !.i = cur.i - 1]
  <2>1. cur.pc = "pairs"
    BY <1>17 DEF ValidateBlank
  <2>2. IsActivation(c) /\ c.want = cur.want /\ c.pc = "pairTried"
    BY DEF Activations, IsActivation, FrameFields
  <2>3. \/ Undefined
        \/ \E rule \in MapRule(Type.mapAllProperties) :
             ValidateInstance(c, rule, Absent, cur.want, FALSE)
    BY <1>17 DEF ValidateBlank
  <2> HIDE DEF c
  <2>4. Expected(c) = cur.want
    BY <2>2 DEF Expected
  <2>5. CASE Undefined
    BY <1>u, <2>1, <2>5, GoesOn DEF Undefined
  <2>6. CASE \E rule \in MapRule(Type.mapAllProperties) :
               ValidateInstance(c, rule, Absent, cur.want, FALSE)
    BY <2>1, <2>2, <2>4, <2>6, InstanceTells DEF Waits
  <2> QED BY <2>3, <2>5, <2>6
<1>18. CASE PairValidated
  <2>1. cur.pc = "pairTried" /\ Told(cur.want, ret.ok, ret.errors)
    BY <1>18 DEF PairValidated, Activations, Waits, Expected
  <2>2. Told(cur.want, cur.ok /\ ret.ok, ret.errors \o cur.errors)
    BY <1>0, <2>1, BothTold
  <2> QED BY <1>18, <1>u, <2>1, <2>2, NotesOn DEF PairValidated
<1>19. CASE PairsDone
  BY <1>19, <1>u, GoesOn DEF PairsDone
<1>20. CASE FindAdditional
  <2>1. CASE Undefined
    BY <1>20, <1>u, <2>1, GoesOn DEF FindAdditional, Undefined
  <2>2. CASE ~Undefined
    <3> DEFINE ok == cur.ok /\ AdditionalKeys = {}
               errors == IF AdditionalKeys = {} THEN cur.errors
                         ELSE Explained("additional", <<>>, cur.errors)
    <3>1. cur.pc = "additional" /\ Go([cur EXCEPT !.pc = "value", !.ok = ok, !.errors = errors])
      BY <1>20, <2>2 DEF FindAdditional
    <3>2. Told(cur.want, ok, errors)
      <4>1. CASE AdditionalKeys = {}
        BY <1>0, <3>1, <4>1 DEF Told
      <4>2. CASE AdditionalKeys # {}
        BY <1>0, <3>1, <4>2, ReasonTold DEF Told
      <4> QED BY <4>1, <4>2
    <3> HIDE DEF ok, errors
    <3> QED BY <1>u, <3>1, <3>2, NotesOn
  <2> QED BY <2>1, <2>2
<1>21. CASE ValidateValue
  <2>1. cur.pc # "root" /\ Told(cur.want, cur.ok, cur.errors)
    BY <1>21, <1>0 DEF ValidateValue
  <2>2. Told(cur.want, FALSE, Explained("regex", <<>>, cur.errors))
    BY <2>1, ReasonTold
  <2>3. CASE Answer(FALSE, Explained("regex", <<>>, cur.errors))
    BY <2>1, <2>2, <2>3, AnswerTells
  <2>4. CASE Answer(cur.ok, cur.errors)
    BY <2>1, <2>4, AnswerTells
  <2> QED BY <1>21, <2>3, <2>4 DEF ValidateValue
<1> QED BY <1>1, <1>2, <1>3, <1>4, <1>5, <1>6, <1>7, <1>8, <1>9, <1>10, <1>11, <1>12, <1>13,
           <1>14, <1>15, <1>16, <1>17, <1>18, <1>19, <1>20, <1>21 DEF ValidateStep

-----------------------------------------------------------------------------
LEMMA AskTells ==
  ASSUME Ask
  PROVE  TellInv'
<1>1. PICK root \in rootType, expr \in Expressions, want \in BOOLEAN :
        /\ asked' = [expr |-> expr, want |-> want]
        /\ cur' = Frame("kinds", root, expr, want, TRUE)
  BY DEF Ask
<1>2. callers' = <<Idle>> /\ Len(<<Idle>>) = 1 /\ <<Idle>>[1] = Idle /\ <<Idle>> # <<>>
  BY DEF Ask
<1>3. IsActivation(cur') /\ cur'.want = want /\ cur'.pc = "kinds"
  BY <1>1, FrameTells
<1>4. IsActivation(Idle) /\ Idle.pc = "root"
  BY Empty DEF Idle, Frame, IsActivation, FrameFields, Told
<1>5. asked'.want = want
  BY <1>1
<1> HIDE DEF Idle
<1>6. Sequence(callers')
  BY <1>2, Empty
<1>7. Activations'
  <2>1. /\ Len(callers') = 1 /\ callers'[1] = Idle /\ callers' # <<>>
        /\ \A i \in 1 .. Len(callers') : i = 1
        /\ \A i \in 1 .. Len(callers') - 1 : FALSE
    BY <1>2
  <2>2. Expected(callers[1])' = want
    BY <1>4, <1>5, <2>1 DEF Expected
  <2>3. cur'.pc \notin Waits /\ cur'.pc # "root" /\ "root" \in Waits
    BY <1>3 DEF Waits
  <2> HIDE DEF Waits
  <2> QED BY <1>3, <1>4, <1>5, <1>6, <2>1, <2>2, <2>3 DEF Activations
<1>8. ~answer'.given
  BY DEF Ask, Unanswered
<1> QED BY <1>7, <1>8 DEF TellInv, FailuresAreExplained

LEMMA AnsweredTells ==
  ASSUME TellInv, Answered
  PROVE  TellInv'
<1>1. Activations /\ cur.pc = "root"
  BY DEF TellInv, Answered
<1>2. Told(asked.want, ret.ok, ret.errors)
  BY <1>1 DEF Activations, Waits, Expected
<1>3. /\ answer'.ok = ret.ok /\ asked' = asked /\ phase' = "loaded"
      /\ answer'.errors = IF ~ret.ok /\ asked.want
                          THEN <<Failure("unable to validate", ret.errors)>> ELSE ret.errors
  BY DEF Answered
<1>4. \A e : <<e>> # <<>>
  BY Empty
<1>5. FailuresAreExplained'
  BY <1>2, <1>3, <1>4 DEF FailuresAreExplained, Told
<1> QED BY <1>3, <1>5 DEF TellInv

LEMMA TellInductive == TellInv /\ [SchemaNext]_schemaVars => TellInv'
<1> SUFFICES ASSUME TellInv, [SchemaNext]_schemaVars PROVE TellInv'
  OBVIOUS
<1>1. CASE LoadStep
  <2>1. phase' # "asked" /\ UNCHANGED <<asked, answer>>
    BY <1>1 DEF LoadStep, Locate, ParseDocument, CheckVersion, ReadTexts, CreateType,
                TypesCreated, ResolveType, FindRootType, Refuse, Crash, Load, askingVars
  <2> QED BY <2>1 DEF TellInv, FailuresAreExplained
<1>2. CASE AskNoRoot
  <2>1. phase' # "asked" /\ answer'.given = asked'.want /\ answer'.ok = FALSE
        /\ \E e : answer'.errors = <<e>>
    BY <1>2 DEF AskNoRoot
  <2>2. \A e : <<e>> # <<>>
    BY Empty
  <2> QED BY <2>1, <2>2 DEF TellInv, FailuresAreExplained
<1>3. CASE Ask
  BY <1>3, AskTells
<1>4. CASE Validate
  <2>1. phase = "asked" /\ ValidateStep /\ asked' = asked /\ answer' = answer
    BY <1>4 DEF Validate
  <2>2. Activations'
    BY <2>1, ValidateTells DEF TellInv
  <2> QED BY <2>1, <2>2 DEF TellInv, FailuresAreExplained
<1>5. CASE Answered
  BY <1>5, AnsweredTells
<1>6. CASE Destroy
  BY <1>6 DEF Destroy, TellInv, FailuresAreExplained, askingVars
<1>7. CASE UNCHANGED schemaVars
  BY <1>7 DEF schemaVars, TellInv, FailuresAreExplained, Activations, Expected
<1> QED BY <1>1, <1>2, <1>3, <1>4, <1>5, <1>6, <1>7 DEF SchemaNext, Over

(* Whoever validates an expression with a place for errors finds an error   *)
(* there exactly when the answer is no, and nothing is written for one who  *)
(* gave no place, whatever types refer to each other and however often a    *)
(* list of errors was dropped because another type matched                  *)
(* (wexprSchema_Type_validateObject, `error` and its typeErrors).           *)
THEOREM RefusalsAreExplained == SchemaSpec => []FailuresAreExplained
<1>1. SchemaInit => TellInv
  BY DEF SchemaInit, TellInv, FailuresAreExplained, Unanswered
<1>2. TellInv => FailuresAreExplained
  BY DEF TellInv
<1> QED BY <1>1, <1>2, TellInductive, PTL DEF SchemaSpec

-----------------------------------------------------------------------------
(* Types are of their kinds.  What a type holds is named part by part, so   *)
(* that it can be seen to survive the resolution of its references.         *)
AtMostOne(S) == \A x, y \in S : x = y
IsTyped(type) ==
  /\ IsTypeRecord(type)
  /\ type.primitive \subseteq PrimitiveTypes
  /\ type.types \in Seq(Refs)
  /\ type.regex \subseteq SUBSET STRING
  /\ type.mapAllowAdditionalProperties \in BOOLEAN
  /\ \A key \in DOMAIN type.mapProperties : type.mapProperties[key] \in TypeInstances
  /\ type.arrayAllElements \subseteq TypeInstances /\ AtMostOne(type.arrayAllElements)
  /\ type.mapKeyType \subseteq TypeInstances /\ AtMostOne(type.mapKeyType)
  /\ type.mapAllProperties \subseteq TypeInstances /\ AtMostOne(type.mapAllProperties)

LEMMA OneOrNone ==
  ASSUME NEW S, AtMostOne(S)
  PROVE  Cardinality(S) <= 1
<1>1. CASE S = {}
  BY <1>1, FS_EmptySet
<1>2. CASE S # {}
  <2>1. PICK x : x \in S
    BY <1>2
  <2>2. S = {x}
    BY <2>1 DEF AtMostOne
  <2>3. Cardinality(S) = 1
    BY <2>2, FS_Singleton, Zenon
  <2> QED BY <2>3
<1> QED BY <1>1, <1>2

LEMMA TypedIsType ==
  ASSUME NEW type, IsTyped(type)
  PROVE  IsType(type)
<1>1. \A i \in DOMAIN type.types : type.types[i] \in Refs
  <2>1. type.types \in Seq(Refs)
    BY DEF IsTyped
  <2> QED BY <2>1
<1>2. Stages(type)[1] \subseteq TypeInstances
  BY StagesAre DEF IsTyped
<1>3. /\ Stages(type)[2] \subseteq TypeInstances /\ Cardinality(Stages(type)[2]) <= 1
      /\ Stages(type)[3] \subseteq TypeInstances /\ Cardinality(Stages(type)[3]) <= 1
      /\ Stages(type)[4] \subseteq TypeInstances /\ Cardinality(Stages(type)[4]) <= 1
  BY StagesAre, OneOrNone DEF IsTyped
<1>4. /\ \A stage \in 1 .. 4 : stage = 1 \/ stage = 2 \/ stage = 3 \/ stage = 4
      /\ \A stage \in 2 .. 4 : stage = 2 \/ stage = 3 \/ stage = 4
  OBVIOUS
<1>5. \A stage \in 1 .. 4 : Stages(type)[stage] \subseteq TypeInstances
  BY <1>2, <1>3, <1>4
<1>6. \A stage \in 2 .. 4 : Cardinality(Stages(type)[stage]) <= 1
  BY <1>3, <1>4
<1> QED BY <1>1, <1>5, <1>6 DEF IsType, IsTyped

(* createFromExpression. *)
LEMMA InstanceIsTyped ==
  ASSUME NEW d, NamesItsType(d)
  PROVE  TypeInstance(d) \in TypeInstances
<1>1. NoText \in STRING
  BY NoTextAssumption
<1>2. CASE "type" \in DOMAIN d
  <2>1. d["type"] \in STRING
    BY <1>2 DEF NamesItsType, Attribute
  <2> QED BY <1>2, <2>1 DEF TypeInstance, TypeInstances, Refs, TypeRef, Says
<1>3. CASE "type" \notin DOMAIN d
  BY <1>1, <1>3 DEF TypeInstance, TypeInstances, Refs, NullRef, Says
<1> QED BY <1>2, <1>3

LEMMA InstancesAreTyped ==
  ASSUME NEW d, NEW key, \A inner \in Attribute(d, key) : NamesItsType(inner)
  PROVE  Instances(d, key) \subseteq TypeInstances /\ AtMostOne(Instances(d, key))
<1>1. \A x, y \in Attribute(d, key) : x = y
  BY DEF Attribute
<1> QED BY <1>1, InstanceIsTyped DEF Instances, AtMostOne

LEMMA NamesAreTyped ==
  ASSUME NEW names \in Seq(STRING)
  PROVE  TypeRefs(names) \in Seq(Refs)
<1>1. Len(names) \in Nat /\ DOMAIN names = 1 .. Len(names)
  OBVIOUS
<1>2. \A i \in 1 .. Len(names) : TypeRef(names[Len(names) + 1 - i]) \in Refs
  <2>1. \A i \in 1 .. Len(names) : Len(names) + 1 - i \in 1 .. Len(names)
    BY <1>1
  <2>2. \A i \in 1 .. Len(names) : names[Len(names) + 1 - i] \in STRING
    BY <2>1
  <2> QED BY <2>2 DEF TypeRef, Refs
<1>3. TypeRefs(names) \in [1 .. Len(names) -> Refs]
  BY <1>1, <1>2 DEF TypeRefs
<1> QED BY <1>1, <1>3

LEMMA CreatedIsTyped ==
  ASSUME NEW d, IsDefinition(d)
  PROVE  IsTyped(createFromExpression(d))
<1> DEFINE type == createFromExpression(d)
<1>1. /\ type.primitive = UNION {fromString(p) : p \in Attribute(d, "primitiveType")}
      /\ type.types = IF "type" \in DOMAIN d THEN TypeRefs(d["type"]) ELSE <<>>
      /\ type.regex = Attribute(d, "valueRegex")
      /\ type.arrayAllElements = Instances(d, "arrayAllElements")
      /\ type.mapProperties = [key \in DOMAIN Properties(d).pairs |->
                                 TypeInstance(Properties(d).pairs[key])]
      /\ type.mapKeyType = Instances(d, "mapValueForKey")
      /\ type.mapAllProperties = Instances(d, "mapAllProperties")
      /\ type.mapAllowAdditionalProperties = Says(d, "mapAllowAdditionalProperties", "true")
  BY DEF createFromExpression
<1>2. IsTypeRecord(type)
  BY CreatedIsType
<1> HIDE DEF type
<1>3. type.primitive \subseteq PrimitiveTypes
  <2>1. \A p : fromString(p) \subseteq PrimitiveTypes
    BY DEF fromString, PrimitiveTypes
  <2> QED BY <1>1, <2>1
<1>4. type.types \in Seq(Refs)
  <2>1. CASE "type" \in DOMAIN d
    <3>1. d["type"] \in Seq(STRING)
      BY <2>1 DEF IsDefinition, Attribute
    <3> QED BY <1>1, <2>1, <3>1, NamesAreTyped
  <2>2. CASE "type" \notin DOMAIN d
    BY <1>1, <2>2
  <2> QED BY <2>1, <2>2
<1>5. type.regex \subseteq SUBSET STRING
  BY <1>1 DEF IsDefinition
<1>6. \A key \in DOMAIN type.mapProperties : type.mapProperties[key] \in TypeInstances
  BY <1>1, InstanceIsTyped DEF IsDefinition
<1>7. /\ type.arrayAllElements \subseteq TypeInstances /\ AtMostOne(type.arrayAllElements)
      /\ type.mapKeyType \subseteq TypeInstances /\ AtMostOne(type.mapKeyType)
      /\ type.mapAllProperties \subseteq TypeInstances /\ AtMostOne(type.mapAllProperties)
  BY <1>1, InstancesAreTyped DEF IsDefinition
<1>8. type.mapAllowAdditionalProperties \in BOOLEAN
  BY <1>1 DEF Says
<1> QED BY <1>2, <1>3, <1>4, <1>5, <1>6, <1>7, <1>8 DEF IsTyped, type

(* resolveWithSchema. *)
LEMMA ResolvedRefIsRef ==
  ASSUME NEW ref \in Refs
  PROVE  ResolvedRef(ref) \in Refs
BY DEF Refs, ResolvedRef

LEMMA ResolvedInstanceIsTyped ==
  ASSUME NEW instance \in TypeInstances
  PROVE  ResolvedInstance(instance) \in TypeInstances
<1>1. instance.type \in Refs
  BY DEF TypeInstances
<1>2. ResolvedRef(instance.type) \in Refs
  BY <1>1, ResolvedRefIsRef
<1> QED BY <1>2 DEF TypeInstances, ResolvedInstance

LEMMA ResolvedInstancesAreTyped ==
  ASSUME NEW S, S \subseteq TypeInstances, AtMostOne(S)
  PROVE  ResolvedInstances(S) \subseteq TypeInstances /\ AtMostOne(ResolvedInstances(S))
BY ResolvedInstanceIsTyped DEF ResolvedInstances, AtMostOne

LEMMA ResolvedIsTyped ==
  ASSUME NEW type, IsTyped(type), NEW names, Resolves(type, names)
  PROVE  IsTyped(Resolved(type))
<1> DEFINE resolved == Resolved(type)
<1>1. IsTypeRecord(type) /\ IsTypeRecord(resolved)
  BY ResolvedLeads DEF IsTyped
<1>2. /\ resolved.primitive = type.primitive /\ resolved.regex = type.regex
      /\ resolved.types = [i \in DOMAIN type.types |-> ResolvedRef(type.types[i])]
      /\ resolved.arrayAllElements = ResolvedInstances(type.arrayAllElements)
      /\ resolved.mapProperties = [key \in DOMAIN type.mapProperties |-> ResolvedInstance(type.mapProperties[key])]
      /\ resolved.mapKeyType = ResolvedInstances(type.mapKeyType)
      /\ resolved.mapAllProperties = ResolvedInstances(type.mapAllProperties)
      /\ resolved.mapAllowAdditionalProperties = type.mapAllowAdditionalProperties
  BY <1>1, ResolvedIs
<1> HIDE DEF resolved
<1>3. resolved.types \in Seq(Refs)
  <2>1. type.types \in Seq(Refs)
    BY DEF IsTyped
  <2>2. /\ Len(type.types) \in Nat /\ DOMAIN type.types = 1 .. Len(type.types)
        /\ \A i \in 1 .. Len(type.types) : type.types[i] \in Refs
    BY <2>1
  <2>3. resolved.types \in [1 .. Len(type.types) -> Refs]
    BY <1>2, <2>2, ResolvedRefIsRef
  <2> QED BY <2>2, <2>3
<1>4. \A key \in DOMAIN resolved.mapProperties : resolved.mapProperties[key] \in TypeInstances
  BY <1>2, ResolvedInstanceIsTyped DEF IsTyped
<1>5. /\ resolved.arrayAllElements \subseteq TypeInstances /\ AtMostOne(resolved.arrayAllElements)
      /\ resolved.mapKeyType \subseteq TypeInstances /\ AtMostOne(resolved.mapKeyType)
      /\ resolved.mapAllProperties \subseteq TypeInstances /\ AtMostOne(resolved.mapAllProperties)
  BY <1>2, ResolvedInstancesAreTyped DEF IsTyped
<1> QED BY <1>1, <1>2, <1>3, <1>4, <1>5 DEF IsTyped, resolved

-----------------------------------------------------------------------------
(* The list of types and the types: a name the first pass has still to come *)
(* to is left once, and has no type yet.                                    *)
OnceEach(s) == \A i, j \in DOMAIN s : s[i] = s[j] => i = j
Phases == {"locate", "parse", "version", "texts", "types", "resolve", "loaded",
           "asked", "refused", "undefined", "destroyed"}
ListInv ==
  /\ phase \in Phases
  /\ \A name \in DOMAIN types : IsTyped(types[name])
  /\ DOMAIN types = RangeOf(listed) /\ listed \in Seq(Names) /\ left \in Seq(Names)
  /\ IsFiniteSet(DOMAIN types) /\ Cardinality(DOMAIN types) = Len(listed)
  /\ phase \in {"locate", "parse", "version", "texts"} => listed = <<>>
  /\ phase = "types" => OnceEach(left) /\ RangeOf(left) \cap DOMAIN types = {}
  /\ rootType \subseteq DOMAIN types

LEMMA OrdersOnce ==
  ASSUME NEW S, IsFiniteSet(S), NEW order \in Orders(S)
  PROVE  OnceEach(order)
<1>1. Cardinality(S) \in Nat
  BY FS_CardinalityType
<1> DEFINE interval == 1 .. Cardinality(S)
<1>2. IsFiniteSet(interval) /\ Cardinality(interval) = Cardinality(S)
  BY <1>1, FS_Interval
<1>3. order \in [interval -> S] /\ \A x \in S : \E i \in DOMAIN order : order[i] = x
  BY DEF Orders
<1>4. order \in Surjection(interval, S)
  BY <1>3 DEF Surjection
<1>5. order \in Injection(interval, S)
  BY <1>2, <1>4, FS_SurjSameCardinalityImpliesInj
<1> QED BY <1>3, <1>5 DEF Injection, IsInjective, OnceEach

LEMMA TailOnce ==
  ASSUME NEW S, NEW s \in Seq(S), s # <<>>, OnceEach(s)
  PROVE  OnceEach(Tail(s)) /\ Head(s) \notin RangeOf(Tail(s))
<1>1. /\ Len(s) \in Nat \ {0} /\ DOMAIN s = 1 .. Len(s) /\ Head(s) = s[1]
      /\ DOMAIN Tail(s) = 1 .. Len(s) - 1 /\ \A i \in 1 .. Len(s) - 1 : Tail(s)[i] = s[i + 1]
  OBVIOUS
<1>2. \A i \in DOMAIN Tail(s) : i + 1 \in DOMAIN s /\ i \in Int /\ 1 \in DOMAIN s /\ i + 1 # 1 /\ Tail(s)[i] = s[i + 1]
  BY <1>1
<1>3. Head(s) \notin RangeOf(Tail(s))
  BY <1>1, <1>2 DEF OnceEach, RangeOf
<1>4. OnceEach(Tail(s))
  <2> SUFFICES ASSUME NEW i \in DOMAIN Tail(s), NEW j \in DOMAIN Tail(s), Tail(s)[i] = Tail(s)[j]
               PROVE  i = j
    BY DEF OnceEach
  <2>1. s[i + 1] = s[j + 1] /\ i + 1 \in DOMAIN s /\ j + 1 \in DOMAIN s
    BY <1>2
  <2>2. i + 1 = j + 1
    BY <2>1 DEF OnceEach
  <2> QED BY <1>2, <2>2
<1> QED BY <1>3, <1>4

LEMMA Nothing ==
  /\ RangeOf(<<>>) = {} /\ DOMAIN <<>> = {} /\ Len(<<>>) = 0
  /\ IsFiniteSet({}) /\ Cardinality({}) = 0 /\ \A S : <<>> \in Seq(S)
BY FS_EmptySet DEF RangeOf

LEMMA ListInit == SchemaInit => ListInv
BY Nothing DEF SchemaInit, ListInv, Phases

(* Nothing of a schema is left. *)
LEMMA DropLists ==
  ASSUME ListInv, Drop, document' = document, phase' \in {"refused", "destroyed"}
  PROVE  ListInv'
BY Nothing DEF ListInv, Drop, Phases, Names

LEMMA RefuseLists ==
  ASSUME ListInv, NEW error, Refuse(error)
  PROVE  ListInv'
BY DropLists DEF Refuse

(* The schema stays as it is. *)
LEMMA SameLists ==
  ASSUME ListInv, UNCHANGED <<document, listed, left, rootType, types>>, phase' \in Phases,
         phase' \notin {"locate", "parse", "version", "texts", "types"}
  PROVE  ListInv'
BY DEF ListInv, Names

LEMMA CrashLists ==
  ASSUME ListInv, Crash
  PROVE  ListInv'
BY SameLists DEF Crash, Load, Phases

LEMMA LoadStepLists ==
  ASSUME LoadInv, ListInv, LoadStep
  PROVE  ListInv'
<1> USE DEF Load
<1>1. CASE Locate
  BY <1>1, RefuseLists DEF Locate, ListInv, Phases, Names
<1>2. CASE ParseDocument
  BY <1>2, RefuseLists DEF ParseDocument, ListInv, Phases, Names
<1>3. CASE CheckVersion
  BY <1>3, RefuseLists, CrashLists DEF CheckVersion, ListInv, Phases, Names
<1>4. CASE ReadTexts
  <2>1. CASE Crash
    BY <2>1, CrashLists
  <2>2. CASE ~Crash
    <3>1. /\ phase = "texts" /\ phase' = "types" /\ left' \in Orders(Names)
          /\ UNCHANGED <<document, listed, rootType, types>>
      BY <1>4, <2>2 DEF ReadTexts, Names
    <3>2. IsFiniteSet(Names)
      BY DocumentsAssumption DEF LoadInv, Names
    <3>3. left' \in Seq(Names) /\ OnceEach(left')
      BY <3>1, <3>2, OrdersAre, OrdersOnce
    <3>4. DOMAIN types' = {} /\ Names' = Names /\ phase' \in Phases
      BY <3>1, Nothing DEF ListInv, Names, Phases
    <3> QED BY <3>1, <3>3, <3>4 DEF ListInv
  <2> QED BY <2>1, <2>2
<1>5. CASE CreateType
  <2>1. CASE Crash
    BY <2>1, CrashLists
  <2>2. CASE ~Crash
    <3> DEFINE name == Head(left)
               definition == document.types.pairs[name]
    <3>1. /\ phase = "types" /\ left # <<>> /\ phase' = "types"
          /\ types' = [other \in DOMAIN types \cup {name} |->
                         IF other = name THEN createFromExpression(definition) ELSE types[other]]
          /\ listed' = <<name>> \o listed /\ left' = Tail(left) /\ UNCHANGED <<document, rootType>>
      BY <1>5, <2>2 DEF CreateType
    <3>2. left \in Seq(Names) /\ OnceEach(left) /\ RangeOf(left) \cap DOMAIN types = {}
      BY <3>1 DEF ListInv
    <3>3. name \in Names /\ left' \in Seq(Names) /\ RangeOf(left) = {name} \cup RangeOf(left')
      BY <3>1, <3>2, HeadAndTail
    <3>4. OnceEach(left') /\ name \notin RangeOf(left')
      BY <3>1, <3>2, TailOnce
    <3>5. /\ listed' \in Seq(Names) /\ RangeOf(listed') = {name} \cup RangeOf(listed)
          /\ Len(listed') = Len(listed) + 1
      BY <3>1, <3>3, InFront DEF ListInv
    <3>6. DOMAIN types' = DOMAIN types \cup {name} /\ Names' = Names
      BY <3>1 DEF Names
    <3>7. IsFiniteSet(DOMAIN types') /\ Cardinality(DOMAIN types') = Len(listed')
      <4>1. name \notin DOMAIN types /\ IsFiniteSet(DOMAIN types) /\ Cardinality(DOMAIN types) = Len(listed)
        BY <3>2, <3>3 DEF ListInv
      <4> HIDE DEF name
      <4>2. IsFiniteSet(DOMAIN types \cup {name}) /\ Cardinality(DOMAIN types \cup {name}) = Len(listed) + 1
        BY <4>1, FS_AddElement, Zenon
      <4> QED BY <3>5, <3>6, <4>2
    <3>8. IsTyped(createFromExpression(definition))
      <4>1. IsDefinition(definition)
        BY <3>3, DefinitionsAssumption DEF LoadInv, Names
      <4> QED BY <4>1, CreatedIsTyped
    <3>9. \A other \in DOMAIN types' : IsTyped(types'[other])
      BY <3>1, <3>8 DEF ListInv
    <3>10. RangeOf(left') \cap DOMAIN types' = {} /\ DOMAIN types' = RangeOf(listed')
      BY <3>2, <3>3, <3>4, <3>5, <3>6 DEF ListInv
    <3>11. phase' \in Phases /\ rootType' \subseteq DOMAIN types'
      BY <3>1, <3>6 DEF ListInv, Phases
    <3> QED BY <3>1, <3>3, <3>4, <3>5, <3>6, <3>7, <3>9, <3>10, <3>11 DEF ListInv
  <2> QED BY <2>1, <2>2
<1>6. CASE TypesCreated
  <2>1. CASE Crash
    BY <2>1, CrashLists
  <2>2. CASE ~Crash
    <3>1. /\ phase' = "resolve" /\ left' = listed /\ UNCHANGED <<document, listed, rootType, types>>
      BY <1>6, <2>2 DEF TypesCreated
    <3> QED BY <3>1 DEF ListInv, Names, Phases
  <2> QED BY <2>1, <2>2
<1>7. CASE ResolveType
  <2> DEFINE name == Head(left)
  <2>1. CASE Crash
    BY <2>1, CrashLists
  <2>2. CASE Refuse("resolve")
    BY <2>2, RefuseLists
  <2>3. CASE ~Crash /\ ~Refuse("resolve")
    <3>1. /\ phase = "resolve" /\ left # <<>> /\ phase' = "resolve"
          /\ UNCHANGED <<document, listed, rootType>>
          /\ Resolves(types[name], DOMAIN types)
          /\ types' = [types EXCEPT ![name] = Resolved(types[name])] /\ left' = Tail(left)
      BY <1>7, <2>3 DEF ResolveType
    <3>2. name \in Names /\ left' \in Seq(Names) /\ DOMAIN types = Names
      BY <3>1, HeadAndTail DEF LoadInv
    <3>3. DOMAIN types' = DOMAIN types /\ Names' = Names
      BY <3>1 DEF Names
    <3>4. IsTyped(Resolved(types[name]))
      BY <3>1, <3>2, ResolvedIsTyped DEF ListInv
    <3>5. \A other \in DOMAIN types' : IsTyped(types'[other])
      BY <3>1, <3>2, <3>3, <3>4 DEF ListInv
    <3> QED BY <3>1, <3>2, <3>3, <3>5 DEF ListInv
  <2> QED BY <2>1, <2>2, <2>3
<1>8. CASE FindRootType
  <2>1. CASE Crash
    BY <2>1, CrashLists
  <2>2. CASE ~Crash
    <3>1. /\ phase' = "loaded" /\ UNCHANGED <<document, listed, left, types>>
          /\ rootType' = {name \in document.rootType : Found(DOMAIN types, name)}
      BY <1>8, <2>2 DEF FindRootType
    <3>2. rootType' \subseteq DOMAIN types
      BY <3>1 DEF Found
    <3> QED BY <3>1, <3>2 DEF ListInv, Names, Phases
  <2> QED BY <2>1, <2>2
<1> QED BY <1>1, <1>2, <1>3, <1>4, <1>5, <1>6, <1>7, <1>8 DEF LoadStep

LEMMA ListInductive ==
  ASSUME LoadInv, ListInv, [SchemaNext]_schemaVars
  PROVE  ListInv'
<1>1. CASE LoadStep
  BY <1>1, LoadStepLists
<1>2. CASE AskNoRoot
  <2>1. phase' \in {"loaded", "undefined"}
    BY <1>2 DEF AskNoRoot
  <2> QED BY <1>2, <2>1, SameLists DEF AskNoRoot, Phases
<1>3. CASE Ask
  BY <1>3, SameLists DEF Ask, Phases
<1>4. CASE Validate
  BY <1>4, SameLists DEF Validate, loadingVars, Phases
<1>5. CASE Answered
  BY <1>5, SameLists DEF Answered, Phases
<1>6. CASE Destroy
  BY <1>6, DropLists DEF Destroy
<1>7. CASE UNCHANGED schemaVars
  BY <1>7 DEF schemaVars, ListInv, Names
<1> QED BY <1>1, <1>2, <1>3, <1>4, <1>5, <1>6, <1>7 DEF SchemaNext, Over

-----------------------------------------------------------------------------
(* Validation stays within the schema: an activation works on one of its    *)
(* types, tries the types of that type from the first on, and only the      *)
(* properties that type has.                                                *)
Searching == {"kinds", "parents", "parentTried"}
Matching == {"properties", "propertyTried"}
InRange(a) ==
  /\ a.pc \in Searching => a.i \in Nat \ {0}
  /\ a.pc \in Matching => a.keys \subseteq DOMAIN types[a.type].mapProperties
Belongs(a) == a = Idle \/ (a.type \in DOMAIN types /\ InRange(a))
AllBelong == Belongs(cur) /\ \A i \in 1 .. Len(callers) : Belongs(callers[i])

(* What there is to go on: the callers, and types that lead to types.       *)
Working ==
  /\ phase = "asked" /\ LoadInv /\ ListInv /\ Activations /\ AllBelong /\ cur.pc # "root"

LEMMA IdleIsRoot == Idle.pc = "root"
BY DEF Idle, Frame

LEMMA AtWork ==
  ASSUME Working
  PROVE  /\ cur.type \in DOMAIN types /\ InRange(cur) /\ DOMAIN cur = FrameFields
         /\ callers # <<>> /\ Sequence(callers) /\ AllLead(Type, DOMAIN types) /\ IsTyped(Type)
<1>1. cur # Idle
  BY IdleIsRoot DEF Working
<1>2. cur.type \in DOMAIN types /\ InRange(cur)
  BY <1>1 DEF Working, AllBelong, Belongs
<1>3. AllLead(Type, DOMAIN types) /\ IsTyped(Type)
  BY <1>2 DEF Working, LoadInv, ListInv, Type
<1>4. callers # <<>> /\ Sequence(callers) /\ DOMAIN cur = FrameFields
  BY DEF Working, Activations, IsActivation
<1> QED BY <1>2, <1>3, <1>4

LEMMA RulesLead ==
  ASSUME Working
  PROVE  /\ \A i \in DOMAIN Type.types : Type.types[i].name \in DOMAIN types
         /\ \A rule \in Type.arrayAllElements \cup Type.mapKeyType \cup Type.mapAllProperties :
              rule.type.name \in DOMAIN types
         /\ \A key \in DOMAIN Type.mapProperties : Type.mapProperties[key].type.name \in DOMAIN types
<1>1. AllLead(Type, DOMAIN types)
  BY AtWork
<1>2. 1 \in 1 .. 4 /\ 2 \in 1 .. 4 /\ 3 \in 1 .. 4 /\ 4 \in 1 .. 4
  OBVIOUS
<1>3. \A stage \in 1 .. 4 : \A rule \in Stages(Type)[stage] : rule.type.name \in DOMAIN types
  BY <1>1 DEF AllLead, Leads
<1>4. \A i \in DOMAIN Type.types : Type.types[i].name \in DOMAIN types
  BY <1>1 DEF AllLead, Leads
<1> QED BY <1>2, <1>3, <1>4, StagesAre

(* An activation that goes on works on its type.                            *)
Continues(c) == c.type = cur.type /\ InRange(c)

LEMMA GoBelongs ==
  ASSUME Working, NEW c, Continues(c), cur' = c, callers' = callers, types' = types
  PROVE  AllBelong'
<1>1. c.type \in DOMAIN types
  BY AtWork DEF Continues
<1> QED BY <1>1 DEF Working, AllBelong, Belongs, Continues, InRange

LEMMA CallBelongs ==
  ASSUME Working, NEW c, Continues(c),
         NEW type \in DOMAIN types, NEW expr, NEW want, NEW named, Call(c, type, expr, want, named)
  PROVE  AllBelong'
<1>1. types' = types
  BY DEF Call
<1>2. CASE Len(callers) < MaxCalls
  <2> DEFINE frame == Frame("kinds", type, expr, want, named)
  <2>1. cur' = frame /\ callers' = <<c>> \o callers
    BY <1>2 DEF Call
  <2>2. frame.type = type /\ frame.i = 1 /\ frame.pc = "kinds"
    BY DEF Frame
  <2> HIDE DEF frame
  <2>3. Belongs(cur)'
    BY <1>1, <2>1, <2>2 DEF Belongs, InRange, Matching
  <2>4. /\ Len(callers') = Len(callers) + 1 /\ Len(callers) \in Nat
        /\ callers'[1] = c /\ \A i \in 1 .. Len(callers) : callers'[i + 1] = callers[i]
    BY <2>1, AtWork, Pushed
  <2>5. c.type \in DOMAIN types /\ InRange(c)
    BY AtWork DEF Continues
  <2>6. \A i \in 1 .. Len(callers') : Belongs(callers[i])'
    <3> SUFFICES ASSUME NEW i \in 1 .. Len(callers') PROVE Belongs(callers[i])'
      OBVIOUS
    <3>1. CASE i = 1
      BY <1>1, <2>4, <2>5, <3>1 DEF Belongs, InRange
    <3>2. CASE i # 1
      <4>1. i - 1 \in 1 .. Len(callers) /\ (i - 1) + 1 = i
        BY <2>4, <3>2
      <4>2. callers'[i] = callers[i - 1] /\ Belongs(callers[i - 1])
        BY <2>4, <4>1 DEF Working, AllBelong
      <4> QED BY <1>1, <4>2 DEF Belongs, InRange
    <3> QED BY <3>1, <3>2
  <2> QED BY <2>3, <2>6 DEF AllBelong
<1>3. CASE ~(Len(callers) < MaxCalls)
  <2> DEFINE over == [cur EXCEPT !.pc = "overflow"]
  <2>1. cur' = over /\ callers' = callers
    BY <1>3 DEF Call
  <2>2. over.type = cur.type /\ over.pc = "overflow"
    BY AtWork DEF FrameFields
  <2> HIDE DEF over
  <2>3. Continues(over)
    BY <2>2 DEF Continues, InRange, Searching, Matching
  <2> QED BY <1>1, <2>1, <2>3, GoBelongs
<1> QED BY <1>2, <1>3

LEMMA AnswerBelongs ==
  ASSUME Working, NEW ok, NEW errors, Answer(ok, errors)
  PROVE  AllBelong'
<1>1. callers # <<>> /\ Sequence(callers)
  BY AtWork
<1>2. /\ Len(callers') = Len(callers) - 1 /\ Len(callers) \in Nat \ {0} /\ types' = types
      /\ cur' = callers[1] /\ \A i \in 1 .. Len(callers) - 1 : callers'[i] = callers[i + 1]
  BY <1>1, Popped DEF Answer
<1>3. \A i \in 1 .. Len(callers) : Belongs(callers[i])
  BY DEF Working, AllBelong
<1>4. \A i \in 1 .. Len(callers') : i + 1 \in 1 .. Len(callers) /\ callers'[i] = callers[i + 1]
  BY <1>2
<1>5. 1 \in 1 .. Len(callers)
  BY <1>2
<1> QED BY <1>2, <1>3, <1>4, <1>5 DEF AllBelong, Belongs, InRange

LEMMA InstanceBelongs ==
  ASSUME Working, NEW c, Continues(c), NEW instance, instance.type.name \in DOMAIN types,
         NEW expr, NEW want, NEW named, ValidateInstance(c, instance, expr, want, named)
  PROVE  AllBelong'
<1>1. CASE Call(c, instance.type.name, expr, want, named)
  BY <1>1, CallBelongs
<1>2. CASE cur' = c /\ UNCHANGED <<callers, types>>
  BY <1>2, GoBelongs
<1>3. CASE Undefined
  <2> DEFINE lost == [cur EXCEPT !.pc = "undefined"]
  <2>1. cur' = lost /\ UNCHANGED <<callers, types>>
    BY <1>3 DEF Undefined, Go
  <2>2. lost.type = cur.type /\ lost.pc = "undefined"
    BY AtWork DEF FrameFields
  <2> HIDE DEF lost
  <2>3. Continues(lost)
    BY <2>2 DEF Continues, InRange, Searching, Matching
  <2> QED BY <2>1, <2>3, GoBelongs
<1> QED BY <1>1, <1>2, <1>3 DEF ValidateInstance

(* The steps that only move on within their activation. *)
LEMMA MovesOn ==
  ASSUME Working, NEW pc, pc \notin Searching \cup Matching, NEW i, NEW keys, NEW ok, NEW errors, NEW reasons,
         \/ Go([cur EXCEPT !.pc = pc])
         \/ Go([cur EXCEPT !.pc = pc, !.i = i, !.reasons = reasons])
         \/ Go([cur EXCEPT !.pc = pc, !.keys = keys, !.i = i])
         \/ Go([cur EXCEPT !.pc = pc, !.ok = ok, !.errors = errors])
         \/ Go([cur EXCEPT !.pc = pc, !.i = i, !.ok = ok, !.errors = errors])
  PROVE  AllBelong'
<1>1. DOMAIN cur = FrameFields
  BY AtWork
<1>2. cur'.type = cur.type /\ cur'.pc = pc /\ UNCHANGED <<callers, types>>
  BY <1>1 DEF Go, FrameFields
<1>3. Continues(cur')
  BY <1>2 DEF Continues, InRange
<1> QED BY <1>2, <1>3, GoBelongs

LEMMA ValidateBelongs ==
  ASSUME Working, ValidateStep
  PROVE  AllBelong'
<1>0. cur.type \in DOMAIN types /\ InRange(cur) /\ DOMAIN cur = FrameFields
  BY AtWork
<1>u. \A pc \in {"elements", "pairs", "additional", "value", "undefined", "overflow",
                 "elementTried", "keyTried", "pairTried"} : pc \notin Searching \cup Matching
  BY DEF Searching, Matching
<1>r. \A S : \A rule \in MapRule(S) : rule \in S
  BY DEF MapRule
<1>1. CASE AskForEver
  BY <1>1, <1>u, MovesOn DEF AskForEver
<1>2. CASE WrongPrimitive
  BY <1>2, <1>u, MovesOn, AnswerBelongs DEF WrongPrimitive, Undefined
<1>3. CASE RightPrimitive
  <2> DEFINE c == [cur EXCEPT !.pc = "parents"]
  <2>1. cur' = c /\ UNCHANGED <<callers, types>> /\ cur.pc = "kinds"
    BY <1>3 DEF RightPrimitive, Go
  <2>2. c.type = cur.type /\ c.i = cur.i /\ c.pc = "parents"
    BY <1>0 DEF FrameFields
  <2> HIDE DEF c
  <2>3. Continues(c)
    BY <1>0, <2>1, <2>2 DEF Continues, InRange, Searching, Matching
  <2> QED BY <2>1, <2>3, GoBelongs
<1>4. CASE TryParent
  <2> DEFINE c == [cur EXCEPT !.pc = "parentTried"]
  <2>1. /\ cur.pc = "parents" /\ cur.i <= Len(Type.types)
        /\ Call(c, Type.types[cur.i].name, cur.expr, TRUE, cur.named)
    BY <1>4 DEF TryParent
  <2>2. c.type = cur.type /\ c.i = cur.i /\ c.pc = "parentTried"
    BY <1>0 DEF FrameFields
  <2> HIDE DEF c
  <2>3. cur.i \in Nat \ {0}
    BY <1>0, <2>1 DEF InRange, Searching, Matching
  <2>4. Continues(c)
    BY <2>2, <2>3 DEF Continues, InRange, Matching
  <2>5. Type.types[cur.i].name \in DOMAIN types
    <3>1. Type.types \in Seq(Refs)
      BY AtWork DEF IsTyped
    <3>2. DOMAIN Type.types = 1 .. Len(Type.types) /\ Len(Type.types) \in Nat
      BY <3>1
    <3>3. cur.i \in DOMAIN Type.types
      BY <2>1, <2>3, <3>2
    <3> QED BY <3>3, RulesLead
  <2> QED BY <2>1, <2>4, <2>5, CallBelongs
<1>5. CASE ParentFailed
  <2> DEFINE c == [cur EXCEPT !.pc = "parents", !.i = cur.i + 1, !.reasons = ret.errors \o cur.reasons]
  <2>1. cur' = c /\ UNCHANGED <<callers, types>> /\ cur.pc = "parentTried"
    BY <1>5 DEF ParentFailed, Go
  <2>2. c.type = cur.type /\ c.i = cur.i + 1 /\ c.pc = "parents"
    BY <1>0 DEF FrameFields
  <2> HIDE DEF c
  <2>3. cur.i \in Nat \ {0}
    BY <1>0, <2>1 DEF InRange, Searching, Matching
  <2>4. Continues(c)
    BY <2>2, <2>3 DEF Continues, InRange, Matching
  <2> QED BY <2>1, <2>4, GoBelongs
<1>6. CASE ParentMatched
  BY <1>6, <1>u, MovesOn DEF ParentMatched
<1>7. CASE NoParentMatched
  BY <1>7, AnswerBelongs DEF NoParentMatched
<1>8. CASE NoParents
  BY <1>8, <1>u, MovesOn DEF NoParents
<1>9. CASE ValidateElement
  <2> DEFINE c == [cur EXCEPT !.pc = "elementTried"]
  <2>1. PICK rule \in ElementRule : ValidateInstance(c, rule, cur.expr.list[cur.i], cur.want, cur.named)
    BY <1>9 DEF ValidateElement
  <2>2. c.type = cur.type /\ c.pc = "elementTried"
    BY <1>0 DEF FrameFields
  <2> HIDE DEF c
  <2>3. rule.type.name \in DOMAIN types
    BY <2>1, RulesLead DEF ElementRule
  <2>4. Continues(c)
    BY <1>u, <2>2 DEF Continues, InRange
  <2> QED BY <2>1, <2>3, <2>4, InstanceBelongs
<1>10. CASE ElementValidated
  BY <1>10, <1>u, MovesOn DEF ElementValidated
<1>11. CASE ElementsDone
  <2>1. CASE cur.ok
    <3> DEFINE keys == IF "Map" \in Primitives THEN DOMAIN Type.mapProperties ELSE {}
               c == [cur EXCEPT !.pc = "properties", !.keys = keys, !.i = 1]
    <3>1. cur' = c /\ UNCHANGED <<callers, types>>
      BY <1>11, <2>1 DEF ElementsDone, NextRules, Go
    <3>2. keys \subseteq DOMAIN types[cur.type].mapProperties
      BY DEF Type
    <3> HIDE DEF keys
    <3>3. c.type = cur.type /\ c.pc = "properties" /\ c.keys = keys
      BY <1>0 DEF FrameFields
    <3> HIDE DEF c
    <3>4. Continues(c)
      BY <3>2, <3>3 DEF Continues, InRange, Searching
    <3> QED BY <3>1, <3>4, GoBelongs
  <2>2. CASE ~cur.ok
    BY <1>11, <2>2, AnswerBelongs DEF ElementsDone, NextRules
  <2> QED BY <2>1, <2>2
<1>12. CASE ValidateProperty
  <2>1. PICK key \in cur.keys :
          ValidateInstance([cur EXCEPT !.pc = "propertyTried", !.keys = cur.keys \ {key}],
            Type.mapProperties[key], mapValueForKey(cur.expr, key), TRUE, cur.named)
    BY <1>12 DEF ValidateProperty
  <2> DEFINE c == [cur EXCEPT !.pc = "propertyTried", !.keys = cur.keys \ {key}]
  <2>2. c.type = cur.type /\ c.pc = "propertyTried" /\ c.keys = cur.keys \ {key}
    BY <1>0 DEF FrameFields
  <2>1a. cur.keys \subseteq DOMAIN types[cur.type].mapProperties
    BY <1>0, <1>12 DEF ValidateProperty, InRange, Matching
  <2>4. ValidateInstance(c, Type.mapProperties[key], mapValueForKey(cur.expr, key), TRUE, cur.named)
    BY <2>1
  <2> HIDE DEF c
  <2>3. Continues(c)
    BY <2>2, <2>1a DEF Continues, InRange, Searching
  <2>5. Type.mapProperties[key].type.name \in DOMAIN types
    BY <2>1a, RulesLead DEF Type
  <2> QED BY <2>3, <2>4, <2>5, InstanceBelongs
<1>13. CASE PropertyValidated
  <2> DEFINE errors == IF ret.ok THEN cur.errors ELSE Explained("property", ret.errors, cur.errors)
             c == [cur EXCEPT !.pc = "properties", !.ok = cur.ok /\ ret.ok, !.errors = errors]
  <2>1. cur' = c /\ UNCHANGED <<callers, types>> /\ cur.pc = "propertyTried"
    BY <1>13 DEF PropertyValidated, Go
  <2> HIDE DEF errors
  <2>2. c.type = cur.type /\ c.pc = "properties" /\ c.keys = cur.keys
    BY <1>0 DEF FrameFields
  <2> HIDE DEF c
  <2>3. Continues(c)
    BY <1>0, <2>1, <2>2 DEF Continues, InRange, Searching, Matching
  <2> QED BY <2>1, <2>3, GoBelongs
<1>14. CASE PropertiesDone
  BY <1>14, <1>u, MovesOn DEF PropertiesDone
<1>15. CASE ValidateKey
  <2>1. PICK key \in cur.keys :
          LET caller == [cur EXCEPT !.pc = "keyTried", !.keys = cur.keys \ {key}, !.key = key] IN
          IF MapRule(Type.mapKeyType) = {}
          THEN cur' = caller /\ ret' = Passed /\ UNCHANGED <<callers, types>>
          ELSE \E rule \in MapRule(Type.mapKeyType) :
                 ValidateInstance(caller, rule, Value(key), cur.want, cur.named)
    BY <1>15 DEF ValidateKey
  <2> DEFINE c == [cur EXCEPT !.pc = "keyTried", !.keys = cur.keys \ {key}, !.key = key]
  <2>2. c.type = cur.type /\ c.pc = "keyTried"
    BY <1>0 DEF FrameFields
  <2>3. Continues(c)
    BY <1>u, <2>2 DEF Continues, InRange
  <2>4. \/ cur' = c /\ UNCHANGED <<callers, types>>
        \/ \E rule \in MapRule(Type.mapKeyType) :
             ValidateInstance(c, rule, Value(key), cur.want, cur.named)
    BY <2>1
  <2> HIDE DEF c
  <2>5. \A rule \in MapRule(Type.mapKeyType) : rule.type.name \in DOMAIN types
    BY <1>r, RulesLead
  <2> QED BY <2>3, <2>4, <2>5, GoBelongs, InstanceBelongs
<1>16. CASE ValidatePair
  <2> DEFINE c == [cur EXCEPT !.pc = "pairTried", !.ok = cur.ok /\ ret.ok,
                              !.errors = ret.errors \o cur.errors]
  <2>1. c.type = cur.type /\ c.pc = "pairTried"
    BY <1>0 DEF FrameFields
  <2>2. Continues(c)
    BY <1>u, <2>1 DEF Continues, InRange
  <2>3. \/ cur' = c /\ UNCHANGED <<callers, types>>
        \/ \E rule \in MapRule(Type.mapAllProperties) :
             ValidateInstance(c, rule, cur.expr.hash[cur.key], cur.want, cur.named)
    BY <1>16 DEF ValidatePair
  <2> HIDE DEF c
  <2>4. \A rule \in MapRule(Type.mapAllProperties) : rule.type.name \in DOMAIN types
    BY <1>r, RulesLead
  <2> QED BY <2>2, <2>3, <2>4, GoBelongs, InstanceBelongs
<1>17. CASE ValidateBlank
  <2> DEFINE c == [cur EXCEPT !.pc = "pairTried", !.i = cur.i - 1]
  <2>1. c.type = cur.type /\ c.pc = "pairTried"
    BY <1>0 DEF FrameFields
  <2>2. Continues(c)
    BY <1>u, <2>1 DEF Continues, InRange
  <2>3. \/ Undefined
        \/ \E rule \in MapRule(Type.mapAllProperties) :
             ValidateInstance(c, rule, Absent, cur.want, FALSE)
    BY <1>17 DEF ValidateBlank
  <2> HIDE DEF c
  <2>4. \A rule \in MapRule(Type.mapAllProperties) : rule.type.name \in DOMAIN types
    BY <1>r, RulesLead
  <2>5. CASE Undefined
    BY <1>u, <2>5, MovesOn DEF Undefined
  <2> QED BY <2>2, <2>3, <2>4, <2>5, InstanceBelongs
<1>18. CASE PairValidated
  BY <1>18, <1>u, MovesOn DEF PairValidated
<1>19. CASE PairsDone
  BY <1>19, <1>u, MovesOn DEF PairsDone
<1>20. CASE FindAdditional
  BY <1>20, <1>u, MovesOn DEF FindAdditional, Undefined
<1>21. CASE ValidateValue
  BY <1>21, AnswerBelongs DEF ValidateValue
<1> QED BY <1>1, <1>2, <1>3, <1>4, <1>5, <1>6, <1>7, <1>8, <1>9, <1>10, <1>11, <1>12, <1>13,
           <1>14, <1>15, <1>16, <1>17, <1>18, <1>19, <1>20, <1>21 DEF ValidateStep

(* The three invariants together: which types there are and what they hold, *)
(* who waits for whom, and what everyone works on.                          *)
SchemaInv ==
  LoadInv /\ ListInv /\ TellInv /\ (phase = "asked" => AllBelong)

LEMMA AskBelongs ==
  ASSUME ListInv, Ask
  PROVE  AllBelong'
<1>1. PICK root \in rootType, expr \in Expressions, want \in BOOLEAN :
        cur' = Frame("kinds", root, expr, want, TRUE)
  BY DEF Ask
<1>2. root \in DOMAIN types /\ types' = types
  BY DEF ListInv, Ask
<1>3. cur'.type = root /\ cur'.i = 1 /\ cur'.pc = "kinds"
  BY <1>1 DEF Frame
<1>4. Belongs(cur)'
  BY <1>2, <1>3 DEF Belongs, InRange, Matching
<1>5. Len(callers') = 1 /\ callers'[1] = Idle /\ \A i \in 1 .. Len(callers') : i = 1
  BY DEF Ask
<1>6. Idle' = Idle
  BY DEF Idle, Frame
<1> HIDE DEF Idle
<1>7. \A i \in 1 .. Len(callers') : Belongs(callers[i])'
  BY <1>5, <1>6 DEF Belongs
<1> QED BY <1>4, <1>7 DEF AllBelong

LEMMA SchemaInductive == SchemaInv /\ [SchemaNext]_schemaVars => SchemaInv'
<1> SUFFICES ASSUME SchemaInv, [SchemaNext]_schemaVars PROVE SchemaInv'
  OBVIOUS
<1>1. LoadInv' /\ ListInv' /\ TellInv'
  BY LoadInductive, ListInductive, TellInductive DEF SchemaInv
<1>2. CASE LoadStep \/ AskNoRoot \/ Answered \/ Destroy
  <2>1. phase' # "asked"
    BY <1>2 DEF LoadStep, Locate, ParseDocument, CheckVersion, ReadTexts, CreateType,
                TypesCreated, ResolveType, FindRootType, Refuse, Crash, Load, AskNoRoot,
                Answered, Destroy
  <2> QED BY <1>1, <2>1 DEF SchemaInv
<1>3. CASE Ask
  BY <1>1, <1>3, AskBelongs DEF SchemaInv
<1>4. CASE Validate
  <2>1. phase = "asked" /\ ValidateStep
    BY <1>4 DEF Validate
  <2>2. cur.pc # "root"
    BY <2>1 DEF ValidateStep, AskForEver, WrongPrimitive, RightPrimitive, TryParent, ParentFailed,
                ParentMatched, NoParentMatched, NoParents, ValidateElement, ElementValidated,
                ElementsDone, ValidateProperty, PropertyValidated, PropertiesDone, ValidateKey,
                ValidatePair, ValidateBlank, PairValidated, PairsDone, FindAdditional, ValidateValue
  <2>3. Working
    BY <2>1, <2>2 DEF Working, SchemaInv, TellInv
  <2> QED BY <1>1, <2>1, <2>3, ValidateBelongs DEF SchemaInv
<1>5. CASE UNCHANGED schemaVars
  BY <1>1, <1>5 DEF SchemaInv, schemaVars, AllBelong, Belongs, InRange
<1> QED BY <1>2, <1>3, <1>4, <1>5 DEF SchemaNext, Over

LEMMA SchemaInvIsTyped == SchemaInv => SchemaTypeOK
<1> SUFFICES ASSUME SchemaInv PROVE SchemaTypeOK
  OBVIOUS
<1>1. ListInv
  BY DEF SchemaInv
<1>2. \A name \in DOMAIN types : IsType(types[name])
  BY <1>1, TypedIsType DEF ListInv
<1>3. \A i \in DOMAIN left : left[i] \in DOMAIN document.types.pairs
  <2>1. left \in Seq(Names)
    BY <1>1 DEF ListInv
  <2> HIDE DEF Names
  <2>2. \A i \in DOMAIN left : left[i] \in Names
    BY <2>1
  <2> QED BY <2>2 DEF Names
<1>4. phase = "asked" =>
        \A a \in {cur} \cup {callers[i] : i \in DOMAIN callers} : a = Idle \/ a.type \in DOMAIN types
  <2> SUFFICES ASSUME phase = "asked"
               PROVE  \A a \in {cur} \cup {callers[i] : i \in DOMAIN callers} :
                        a = Idle \/ a.type \in DOMAIN types
    OBVIOUS
  <2>1. PICK S : callers \in Seq(S)
    BY DEF SchemaInv, TellInv, Activations, Sequence
  <2>2. DOMAIN callers = 1 .. Len(callers)
    BY <2>1
  <2>3. AllBelong
    BY DEF SchemaInv
  <2> QED BY <2>2, <2>3 DEF AllBelong, Belongs
<1> QED BY <1>1, <1>2, <1>3, <1>4 DEF SchemaTypeOK, ListInv, Phases, RangeOf

LEMMA SchemaInvInit == SchemaInit => SchemaInv
<1>1. SchemaInit => TellInv /\ phase # "asked"
  BY DEF SchemaInit, TellInv, FailuresAreExplained, Unanswered
<1> QED BY <1>1, LoadInit, ListInit DEF SchemaInv

(* Of any documents and any expressions: what a type of the schema holds is *)
(* of the kinds its fields have, the list of types names each of them once, *)
(* and no activation of validateObject, however deep, works on a type that  *)
(* is not of the schema (struct WexprSchemaSchema, m_types, and the types   *)
(* that wexprSchema_Type_validateObject hands from call to call).           *)
THEOREM SchemasAreTyped == SchemaSpec => []SchemaTypeOK
BY SchemaInvInit, SchemaInductive, SchemaInvIsTyped, PTL DEF SchemaSpec
=============================================================================
