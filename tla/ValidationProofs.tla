-------------------------- MODULE ValidationProofs --------------------------
(***************************************************************************)
(* What loading and validating promise, of every document, every           *)
(* expression and every bound: a sound document (SoundDocument) is         *)
(* loaded without undefined behaviour, its types are those it defines      *)
(* whatever their order, validating against them is safe and has room on   *)
(* the C stack, what is answered is what the document means, and the       *)
(* errors are reasons.                                                     *)
(***************************************************************************)
EXTENDS SchemaProofs, SchemaMeaning, WellFoundedInduction

(* Every instance of a type names a type. *)
HasTypes(type) ==
  \A stage \in 1 .. 4 : \A instance \in Stages(type)[stage] : instance.type # NullRef

LEMMA MetIsSound ==
  ASSUME NEW d, DefinitionMeets(d)
  PROVE  DefinitionSound(d)
<1>1. \A inner : InstanceMeets(inner) => InstanceSound(inner)
  BY DEF InstanceMeets, InstanceSound, IsText, TextsOf, Attribute
<1>2. NoText \notin TextsOf(d, {"description", "mapAllowAdditionalProperties"})
  BY DEF DefinitionMeets, IsText, TextsOf, Attribute
<1>3. \A names \in Attribute(d, "type") : \A i \in DOMAIN names : names[i] # NoText
  BY DEF DefinitionMeets
<1>4. BadRegex \notin Attribute(d, "valueRegex")
  BY DEF DefinitionMeets
<1>5. \A key \in {"arrayAllElements", "mapValueForKey", "mapAllProperties"} :
        \A inner \in Attribute(d, key) : InstanceSound(inner)
  BY <1>1 DEF DefinitionMeets, Attribute
<1>6. \A key \in DOMAIN Properties(d).pairs : InstanceSound(Properties(d).pairs[key])
  BY <1>1 DEF DefinitionMeets
<1> QED BY <1>2, <1>3, <1>4, <1>5, <1>6 DEF DefinitionSound, DefinitionMeets

LEMMA InstanceHasType ==
  ASSUME NEW d, InstanceMeets(d)
  PROVE  TypeInstance(d).type # NullRef
BY DEF InstanceMeets, IsText, TypeInstance, TypeRef, NullRef

LEMMA CreatedHasTypes ==
  ASSUME NEW d, DefinitionMeets(d)
  PROVE  HasTypes(createFromExpression(d))
<1> DEFINE type == createFromExpression(d)
<1>1. /\ type.arrayAllElements = Instances(d, "arrayAllElements")
      /\ type.mapProperties = [key \in DOMAIN Properties(d).pairs |->
                                 TypeInstance(Properties(d).pairs[key])]
      /\ type.mapKeyType = Instances(d, "mapValueForKey")
      /\ type.mapAllProperties = Instances(d, "mapAllProperties")
  BY DEF createFromExpression
<1> HIDE DEF type
<1>2. \A key \in {"arrayAllElements", "mapValueForKey", "mapAllProperties"} :
        \A instance \in Instances(d, key) : instance.type # NullRef
  BY InstanceHasType DEF Instances, Attribute, DefinitionMeets
<1>3. \A key \in DOMAIN type.mapProperties : type.mapProperties[key].type # NullRef
  BY <1>1, InstanceHasType DEF DefinitionMeets
<1>4. /\ \A instance \in Stages(type)[1] : instance.type # NullRef
      /\ \A instance \in Stages(type)[2] : instance.type # NullRef
      /\ \A instance \in Stages(type)[3] : instance.type # NullRef
      /\ \A instance \in Stages(type)[4] : instance.type # NullRef
  <2>1. Stages(type)[1] = {type.mapProperties[key] : key \in DOMAIN type.mapProperties}
    BY StagesAre
  <2>2. \A instance \in Stages(type)[1] : instance.type # NullRef
    BY <1>3, <2>1
  <2>3. /\ Stages(type)[2] = Instances(d, "arrayAllElements")
        /\ Stages(type)[3] = Instances(d, "mapValueForKey")
        /\ Stages(type)[4] = Instances(d, "mapAllProperties")
    BY <1>1, StagesAre
  <2> QED BY <1>2, <2>2, <2>3
<1>5. \A stage \in 1 .. 4 : stage = 1 \/ stage = 2 \/ stage = 3 \/ stage = 4
  OBVIOUS
<1> QED BY <1>4, <1>5 DEF HasTypes, type

LEMMA LeadingHasTypes ==
  ASSUME NEW type, NEW names, AllLead(type, names)
  PROVE  HasTypes(type)
BY DEF AllLead, Leads, HasTypes, NullRef

(* Nothing undefined on the way of a sound document, which has a root type. *)
SoundInv ==
  SoundDocument =>
    /\ phase # "undefined"
    /\ \A name \in DOMAIN types : HasTypes(types[name])
    /\ phase \in {"loaded", "asked"} => rootType # {}

LEMMA SoundLoadStep ==
  ASSUME LoadInv, SoundInv, LoadStep, SoundDocument
  PROVE  /\ phase' # "undefined"
         /\ \A name \in DOMAIN types' : HasTypes(types'[name])
         /\ phase' = "loaded" => rootType' # {}
<1> USE DEF Load
<1>0. \A error : Refuse(error) =>
        /\ phase' # "undefined" /\ phase' # "loaded"
        /\ \A name \in DOMAIN types' : HasTypes(types'[name])
  BY Nothing DEF Refuse, Drop
<1>s. phase # "undefined" /\ \A name \in DOMAIN types : HasTypes(types[name])
  BY DEF SoundInv
<1>1. CASE Locate
  BY <1>0, <1>1, <1>s DEF Locate
<1>2. CASE ParseDocument
  BY <1>0, <1>2, <1>s DEF ParseDocument
<1>3. CASE CheckVersion
  BY <1>0, <1>3, <1>s DEF CheckVersion, SoundDocument
<1>4. CASE ReadTexts
  BY <1>4, <1>s DEF ReadTexts, SoundDocument
<1>5. CASE CreateType
  <2> DEFINE name == Head(left)
             definition == document.types.pairs[name]
  <2>1. name \in Names
    BY <1>5, HeadAndTail DEF CreateType, LoadInv
  <2>2. DefinitionMeets(definition)
    BY <2>1 DEF SoundDocument, Names
  <2>3. DefinitionSound(definition) /\ HasTypes(createFromExpression(definition))
    BY <2>2, MetIsSound, CreatedHasTypes
  <2>4. /\ phase' = "types"
        /\ types' = [other \in DOMAIN types \cup {name} |->
                       IF other = name THEN createFromExpression(definition) ELSE types[other]]
    BY <1>5, <2>3 DEF CreateType
  <2> QED BY <1>s, <2>3, <2>4
<1>6. CASE TypesCreated
  BY <1>6, <1>s DEF TypesCreated, SoundDocument
<1>7. CASE ResolveType
  <2> DEFINE name == Head(left)
  <2>1. name \in Names /\ DOMAIN types = Names
    BY <1>7, HeadAndTail DEF ResolveType, LoadInv
  <2>2. ~FollowsNull(types[name], DOMAIN types)
    BY <1>s, <2>1 DEF FollowsNull, HasTypes
  <2>3. CASE Refuse("resolve")
    BY <1>0, <2>3
  <2>4. CASE ~Refuse("resolve")
    <3>1. /\ Resolves(types[name], DOMAIN types) /\ phase' = "resolve"
          /\ types' = [types EXCEPT ![name] = Resolved(types[name])]
      BY <1>7, <2>2, <2>4 DEF ResolveType
    <3>2. HasTypes(Resolved(types[name]))
      BY <2>1, <3>1, ResolvedLeads, LeadingHasTypes DEF LoadInv
    <3> QED BY <1>s, <2>1, <3>1, <3>2
  <2> QED BY <2>3, <2>4
<1>8. CASE FindRootType
  <2>1. /\ phase' = "loaded" /\ types' = types
        /\ rootType' = {name \in document.rootType : Found(DOMAIN types, name)}
    BY <1>8 DEF FindRootType, SoundDocument
  <2>2. DOMAIN types = Names
    BY <1>8 DEF FindRootType, LoadInv
  <2>3. rootType' # {}
    BY <2>1, <2>2 DEF SoundDocument, Found, Names
  <2> QED BY <1>s, <2>1, <2>3
<1> QED BY <1>1, <1>2, <1>3, <1>4, <1>5, <1>6, <1>7, <1>8 DEF LoadStep

LEMMA SoundInductive == LoadInv /\ SoundInv /\ [SchemaNext]_schemaVars => SoundInv'
<1> SUFFICES ASSUME LoadInv, SoundInv, [SchemaNext]_schemaVars PROVE SoundInv'
  OBVIOUS
<1>1. CASE LoadStep
  <2>1. document' = document /\ phase' # "asked"
    BY <1>1 DEF LoadStep, Locate, ParseDocument, CheckVersion, ReadTexts, CreateType, TypesCreated,
                ResolveType, FindRootType, Refuse, Crash, Load
  <2>2. SoundDocument' <=> SoundDocument
    BY <2>1 DEF SoundDocument
  <2> QED BY <1>1, <2>1, <2>2, SoundLoadStep DEF SoundInv
<1>2. CASE AskNoRoot
  BY <1>2 DEF AskNoRoot, SoundInv, SoundDocument
<1>3. CASE Ask
  BY <1>3 DEF Ask, SoundInv, SoundDocument
<1>4. CASE Validate
  BY <1>4 DEF Validate, loadingVars, SoundInv, SoundDocument
<1>5. CASE Answered
  BY <1>5 DEF Answered, SoundInv, SoundDocument
<1>6. CASE Destroy
  BY <1>6, Nothing DEF Destroy, Drop, SoundInv, SoundDocument
<1>7. CASE UNCHANGED schemaVars
  BY <1>7 DEF schemaVars, SoundInv, SoundDocument
<1> QED BY <1>1, <1>2, <1>3, <1>4, <1>5, <1>6, <1>7 DEF SchemaNext, Over

(* A sound document (SoundDocument) is loaded or refused: no step of        *)
(* loading it, in whatever order its types come, reads a text or an         *)
(* instance that is not there, and every expression is validated against a  *)
(* root type (s_loadFromSchemaID, wexprSchema_Type_createFromExpression,    *)
(* resolveWithSchema).                                                      *)
THEOREM SoundDocumentsLoad == SchemaSpec => [](SoundDocument => phase # "undefined")
<1>1. SchemaInit => LoadInv /\ SoundInv
  BY LoadInit, Nothing DEF SchemaInit, SoundInv
<1>2. SoundInv => (SoundDocument => phase # "undefined")
  BY DEF SoundInv
<1> QED BY <1>1, <1>2, LoadInductive, SoundInductive, PTL DEF SchemaSpec

-----------------------------------------------------------------------------
(* The types of a schema are those of its document, each created from its   *)
(* definition and then resolved once.                                       *)
Created(name) == createFromExpression(document.types.pairs[name])
TypesAsDefined ==
  phase \in {"loaded", "asked"} =>
    DOMAIN types = Names /\ \A name \in Names : types[name] = Resolved(Created(name))

DefinedInv ==
  /\ phase = "types" => \A name \in DOMAIN types : types[name] = Created(name)
  /\ phase = "resolve" =>
       /\ OnceEach(left)
       /\ \A name \in DOMAIN types :
            types[name] = IF name \in RangeOf(left) THEN Created(name) ELSE Resolved(Created(name))
  /\ phase \in {"loaded", "asked"} => \A name \in DOMAIN types : types[name] = Resolved(Created(name))

LEMMA ListedOnce ==
  ASSUME NEW S, NEW s \in Seq(S), IsFiniteSet(RangeOf(s)), Cardinality(RangeOf(s)) = Len(s)
  PROVE  OnceEach(s)
<1> DEFINE interval == 1 .. Len(s)
<1>1. Len(s) \in Nat /\ DOMAIN s = interval /\ s \in [interval -> S]
  OBVIOUS
<1>2. IsFiniteSet(interval) /\ Cardinality(interval) = Len(s)
  <2>1. ASSUME NEW n \in Nat PROVE IsFiniteSet(1 .. n) /\ Cardinality(1 .. n) = n
    <3>1. 1 \in Int /\ n \in Int
      OBVIOUS
    <3>2. IsFiniteSet(1 .. n) /\ Cardinality(1 .. n) = IF 1 > n THEN 0 ELSE n - 1 + 1
      BY <3>1, FS_Interval, Zenon
    <3> QED BY <3>2
  <2> QED BY <1>1, <2>1
<1> HIDE DEF interval
<1>3. s \in [interval -> RangeOf(s)] /\ \A x \in RangeOf(s) : \E i \in interval : s[i] = x
  <2>1. \A i \in interval : s[i] \in RangeOf(s)
    BY <1>1 DEF RangeOf
  <2>2. \A x \in RangeOf(s) : \E i \in interval : s[i] = x
    BY <1>1 DEF RangeOf
  <2> QED BY <1>1, <2>1, <2>2
<1>4. s \in Surjection(interval, RangeOf(s))
  BY <1>3 DEF Surjection
<1>5. s \in Injection(interval, RangeOf(s))
  BY <1>2, <1>4, FS_SurjSameCardinalityImpliesInj
<1> QED BY <1>1, <1>5 DEF Injection, IsInjective, OnceEach

LEMMA DefinedInductive ==
  ASSUME LoadInv, ListInv, DefinedInv, [SchemaNext]_schemaVars
  PROVE  DefinedInv'
<1> USE DEF Load
<1>0. phase' \in {"types", "resolve", "loaded", "asked"} => document' = document
  BY DEF SchemaNext, LoadStep, Locate, ParseDocument, CheckVersion, ReadTexts, CreateType,
         TypesCreated, ResolveType, FindRootType, Refuse, Crash, Load, AskNoRoot, Ask, Validate,
         loadingVars, Answered, Destroy, Over, schemaVars
<1>c. \A name : document' = document => Created(name)' = Created(name)
  BY DEF Created
<1>1. CASE Locate \/ ParseDocument \/ CheckVersion
  <2>1. phase' \notin {"types", "resolve", "loaded", "asked"}
    BY <1>1 DEF Locate, ParseDocument, CheckVersion, Refuse, Crash
  <2> QED BY <2>1 DEF DefinedInv
<1>2. CASE ReadTexts
  <2>1. CASE phase' = "types"
    <3>1. DOMAIN types' = {}
      BY <1>2, <2>1 DEF ReadTexts, Crash, LoadInv
    <3> QED BY <2>1, <3>1 DEF DefinedInv
  <2>2. CASE phase' # "types"
    BY <1>2, <2>2 DEF ReadTexts, Crash, DefinedInv
  <2> QED BY <2>1, <2>2
<1>3. CASE CreateType
  <2> DEFINE name == Head(left)
  <2>1. CASE Crash
    BY <2>1 DEF Crash, DefinedInv
  <2>2. CASE ~Crash
    <3>1. /\ phase = "types" /\ phase' = "types" /\ document' = document
          /\ types' = [other \in DOMAIN types \cup {name} |->
                         IF other = name THEN Created(name) ELSE types[other]]
      BY <1>3, <2>2 DEF CreateType, Created
    <3>2. \A other \in DOMAIN types' : types'[other] = Created(other)
      BY <3>1 DEF DefinedInv
    <3> QED BY <1>c, <3>1, <3>2 DEF DefinedInv
  <2> QED BY <2>1, <2>2
<1>4. CASE TypesCreated
  <2>1. CASE Crash
    BY <2>1 DEF Crash, DefinedInv
  <2>2. CASE ~Crash
    <3>1. /\ phase = "types" /\ phase' = "resolve" /\ left' = listed /\ UNCHANGED <<document, types>>
      BY <1>4, <2>2 DEF TypesCreated
    <3>2. OnceEach(listed) /\ DOMAIN types = RangeOf(listed)
      BY ListedOnce DEF ListInv
    <3>3. \A name \in DOMAIN types' : name \in RangeOf(left') /\ types'[name] = Created(name)
      BY <3>1, <3>2 DEF DefinedInv
    <3> QED BY <1>c, <3>1, <3>2, <3>3 DEF DefinedInv
  <2> QED BY <2>1, <2>2
<1>5. CASE ResolveType
  <2> DEFINE name == Head(left)
  <2>1. CASE Crash \/ Refuse("resolve")
    BY <2>1 DEF Crash, Refuse, DefinedInv
  <2>2. CASE ~(Crash \/ Refuse("resolve"))
    <3>1. /\ phase = "resolve" /\ left # <<>> /\ phase' = "resolve" /\ document' = document
          /\ types' = [types EXCEPT ![name] = Resolved(types[name])] /\ left' = Tail(left)
      BY <1>5, <2>2 DEF ResolveType
    <3>2. left \in Seq(Names) /\ OnceEach(left) /\ DOMAIN types = Names
      BY <3>1 DEF LoadInv, DefinedInv
    <3>3. name \in Names /\ RangeOf(left) = {name} \cup RangeOf(left')
      BY <3>1, <3>2, HeadAndTail
    <3>4. OnceEach(left') /\ name \notin RangeOf(left')
      BY <3>1, <3>2, TailOnce
    <3>5. types'[name] = Resolved(Created(name)) /\ DOMAIN types' = DOMAIN types
      BY <3>1, <3>2, <3>3 DEF DefinedInv
    <3>6. \A other \in DOMAIN types' \ {name} : types'[other] = types[other]
      BY <3>1, <3>2
    <3>7. \A other \in DOMAIN types' :
            types'[other] = IF other \in RangeOf(left') THEN Created(other) ELSE Resolved(Created(other))
      <4> SUFFICES ASSUME NEW other \in DOMAIN types'
                   PROVE  types'[other] = IF other \in RangeOf(left') THEN Created(other)
                                          ELSE Resolved(Created(other))
        OBVIOUS
      <4>1. CASE other = name
        BY <3>4, <3>5, <4>1
      <4>2. CASE other # name
        BY <3>1, <3>3, <3>5, <3>6, <4>2 DEF DefinedInv
      <4> QED BY <4>1, <4>2
    <3> QED BY <1>c, <3>1, <3>4, <3>7 DEF DefinedInv
  <2> QED BY <2>1, <2>2
<1>6. CASE FindRootType
  <2>1. CASE Crash
    BY <2>1 DEF Crash, DefinedInv
  <2>2. CASE ~Crash
    <3>1. phase = "resolve" /\ left = <<>> /\ phase' = "loaded" /\ UNCHANGED <<document, types>>
      BY <1>6, <2>2 DEF FindRootType
    <3>2. \A name \in DOMAIN types : types[name] = Resolved(Created(name))
      BY <3>1, Nothing DEF DefinedInv
    <3> QED BY <1>c, <3>1, <3>2 DEF DefinedInv
  <2> QED BY <2>1, <2>2
<1>7. CASE AskNoRoot \/ Ask \/ Validate \/ Answered
  <2>1. /\ phase \in {"loaded", "asked"} /\ phase' \in {"loaded", "asked", "undefined"}
        /\ UNCHANGED <<document, types>>
    BY <1>7 DEF AskNoRoot, Ask, Validate, loadingVars, Answered
  <2> QED BY <1>c, <2>1 DEF DefinedInv
<1>8. CASE Destroy
  BY <1>8 DEF Destroy, DefinedInv
<1>9. CASE UNCHANGED schemaVars
  BY <1>c, <1>9 DEF schemaVars, DefinedInv
<1> QED BY <1>1, <1>2, <1>3, <1>4, <1>5, <1>6, <1>7, <1>8, <1>9 DEF SchemaNext, LoadStep, Over

(* The order of the types in the hash map, and the reversal of the list the *)
(* second pass goes through, leave no trace: each type is what its          *)
(* definition makes it, with its references resolved                        *)
(* (s_loadFromSchemaID, both passes).                                       *)
THEOREM TypesAreDefined == SchemaSpec => []TypesAsDefined
<1>1. SchemaInit => LoadInv /\ ListInv /\ DefinedInv
  BY LoadInit, ListInit DEF SchemaInit, DefinedInv
<1>2. LoadInv /\ DefinedInv => TypesAsDefined
  BY DEF LoadInv, DefinedInv, TypesAsDefined
<1> QED BY <1>1, <1>2, LoadInductive, ListInductive, DefinedInductive, PTL DEF SchemaSpec

-----------------------------------------------------------------------------
(* An activation stays within them, has a name for every key on its way,    *)
(* and finds no index that holds nothing.                                   *)
Looping == {"elements", "elementTried"}
OnPairs == {"pairs", "keyTried", "pairTried"}
Within(U, a) ==
  /\ a.expr \in U /\ a.named = TRUE
  /\ a.pc \in Looping => a.i \in Nat \ {0}
  /\ a.pc \in OnPairs => a.i = 0 /\ a.keys \subseteq KeysIn(a.expr)
  /\ a.pc \in {"keyTried", "pairTried"} => a.key \in KeysIn(a.expr)
Safe(U, a) == a.pc # "undefined" /\ (a = Idle \/ Within(U, a))
AllSafe(U) == Safe(U, cur) /\ \A i \in 1 .. Len(callers) : Safe(U, callers[i])

LEMMA RulesResolved ==
  ASSUME Working
  PROVE  /\ \A rule \in Type.arrayAllElements \cup Type.mapKeyType \cup Type.mapAllProperties :
              rule.type.resolved
         /\ \A key \in DOMAIN Type.mapProperties : Type.mapProperties[key].type.resolved
<1>1. AllLead(Type, DOMAIN types)
  BY AtWork
<1>2. 1 \in 1 .. 4 /\ 2 \in 1 .. 4 /\ 3 \in 1 .. 4 /\ 4 \in 1 .. 4
  OBVIOUS
<1>3. \A stage \in 1 .. 4 : \A rule \in Stages(Type)[stage] : rule.type.resolved
  BY <1>1 DEF AllLead, Leads
<1> QED BY <1>2, <1>3, StagesAre

LEMMA SafeAtWork ==
  ASSUME NEW U, Working, AllSafe(U)
  PROVE  Within(U, cur)
BY IdleIsRoot DEF Working, AllSafe, Safe

LEMMA NoBlanks ==
  ASSUME NEW U, Whole(U), cur.expr \in U
  PROVE  Blanks = 0
<1>1. Cardinality(KeysIn(cur.expr)) \in Nat /\ mapCount(cur.expr) = Cardinality(KeysIn(cur.expr))
  BY FS_CardinalityType DEF Whole
<1> QED BY <1>1 DEF Blanks

LEMMA PartsWithin ==
  ASSUME NEW U, Whole(U), NEW e \in U
  PROVE  /\ \A i \in Nat \ {0} : i <= arrayCount(e) => e.list[i] \in U
         /\ \A key : mapValueForKey(e, key) \in U
         /\ \A key \in KeysIn(e) : e.hash[key] \in U /\ Value(key) \in U
<1>1. \A i \in Nat \ {0} : i <= arrayCount(e) => e.list[i] \in U
  <2> SUFFICES ASSUME NEW i \in Nat \ {0}, i <= arrayCount(e) PROVE e.list[i] \in U
    OBVIOUS
  <2>1. e.type = "Array"
    BY DEF arrayCount
  <2>2. Len(e.list) \in Nat /\ i <= Len(e.list)
    BY <2>1 DEF arrayCount, Whole
  <2>3. i \in 1 .. Len(e.list)
    BY <2>2
  <2> QED BY <2>1, <2>3 DEF Whole
<1>2. \A key \in KeysIn(e) : e.hash[key] \in U /\ Value(key) \in U
  BY DEF Whole
<1>3. Absent \in U
  BY DEF Whole
<1> QED BY <1>1, <1>2, <1>3 DEF mapValueForKey

LEMMA GoSafe ==
  ASSUME NEW U, AllSafe(U), NEW c, c.pc # "undefined", Within(U, c), cur' = c, callers' = callers
  PROVE  AllSafe(U)'
BY DEF AllSafe, Safe

LEMMA CallSafe ==
  ASSUME NEW U, Working, AllSafe(U), NEW c, c.pc # "undefined", Within(U, c),
         NEW type, NEW expr \in U, NEW want, Call(c, type, expr, want, TRUE)
  PROVE  AllSafe(U)'
<1>1. CASE Len(callers) < MaxCalls
  <2> DEFINE frame == Frame("kinds", type, expr, want, TRUE)
  <2>1. cur' = frame /\ callers' = <<c>> \o callers
    BY <1>1 DEF Call
  <2>2. frame.expr = expr /\ frame.named = TRUE /\ frame.pc = "kinds"
    BY DEF Frame
  <2> HIDE DEF frame
  <2>3. Safe(U, frame)
    BY <2>2 DEF Safe, Within, Looping, OnPairs
  <2>4. /\ Len(callers') = Len(callers) + 1 /\ Len(callers) \in Nat
        /\ callers'[1] = c /\ \A i \in 1 .. Len(callers) : callers'[i + 1] = callers[i]
    BY <2>1, AtWork, Pushed
  <2>5. \A i \in 1 .. Len(callers') : Safe(U, callers'[i])
    <3> SUFFICES ASSUME NEW i \in 1 .. Len(callers') PROVE Safe(U, callers'[i])
      OBVIOUS
    <3>1. CASE i = 1
      BY <2>4, <3>1 DEF Safe
    <3>2. CASE i # 1
      <4>1. i - 1 \in 1 .. Len(callers) /\ (i - 1) + 1 = i
        BY <2>4, <3>2
      <4> QED BY <2>4, <4>1 DEF AllSafe
    <3> QED BY <3>1, <3>2
  <2> QED BY <2>1, <2>3, <2>5 DEF AllSafe
<1>2. CASE ~(Len(callers) < MaxCalls)
  <2> DEFINE over == [cur EXCEPT !.pc = "overflow"]
  <2>1. cur' = over /\ callers' = callers
    BY <1>2 DEF Call
  <2>2. over.expr = cur.expr /\ over.named = cur.named /\ over.pc = "overflow"
    BY AtWork DEF FrameFields
  <2> HIDE DEF over
  <2>3. Within(U, over)
    BY <2>2, SafeAtWork DEF Within, Looping, OnPairs
  <2> QED BY <2>1, <2>2, <2>3, GoSafe
<1> QED BY <1>1, <1>2

LEMMA AnswerSafe ==
  ASSUME NEW U, Working, AllSafe(U), NEW ok, NEW errors, Answer(ok, errors)
  PROVE  AllSafe(U)'
<1>1. callers # <<>> /\ Sequence(callers)
  BY AtWork
<1>2. /\ Len(callers') = Len(callers) - 1 /\ Len(callers) \in Nat \ {0}
      /\ cur' = callers[1] /\ \A i \in 1 .. Len(callers) - 1 : callers'[i] = callers[i + 1]
  BY <1>1, Popped DEF Answer
<1>3. \A i \in 1 .. Len(callers') : i + 1 \in 1 .. Len(callers) /\ callers'[i] = callers[i + 1]
  BY <1>2
<1>4. 1 \in 1 .. Len(callers)
  BY <1>2
<1> QED BY <1>2, <1>3, <1>4 DEF AllSafe

LEMMA InstanceSafe ==
  ASSUME NEW U, Working, AllSafe(U), NEW c, c.pc # "undefined", Within(U, c),
         NEW instance, instance.type.resolved, NEW expr \in U, NEW want,
         ValidateInstance(c, instance, expr, want, TRUE)
  PROVE  AllSafe(U)'
<1>1. CASE Call(c, instance.type.name, expr, want, TRUE)
  BY <1>1, CallSafe
<1>2. CASE cur' = c /\ callers' = callers
  BY <1>2, GoSafe
<1> QED BY <1>1, <1>2 DEF ValidateInstance

LEMMA MovesSafe ==
  ASSUME NEW U, Working, AllSafe(U), NEW pc, pc \notin {"undefined"} \cup Looping \cup OnPairs,
         NEW i, NEW keys, NEW ok, NEW errors, NEW reasons,
         \/ Go([cur EXCEPT !.pc = pc])
         \/ Go([cur EXCEPT !.pc = pc, !.i = i, !.reasons = reasons])
         \/ Go([cur EXCEPT !.pc = pc, !.keys = keys, !.i = i])
         \/ Go([cur EXCEPT !.pc = pc, !.ok = ok, !.errors = errors])
  PROVE  AllSafe(U)'
<1>1. DOMAIN cur = FrameFields
  BY AtWork
<1>2. cur'.expr = cur.expr /\ cur'.named = cur.named /\ cur'.pc = pc /\ callers' = callers
  BY <1>1 DEF Go, FrameFields
<1>3. Within(U, cur')
  BY <1>2, SafeAtWork DEF Within, Looping, OnPairs
<1> QED BY <1>2, <1>3, GoSafe

LEMMA ValidateSafe ==
  ASSUME NEW U, Whole(U), Working, AllSafe(U), ValidateStep
  PROVE  AllSafe(U)'
<1>0. DOMAIN cur = FrameFields /\ InRange(cur) /\ Within(U, cur) /\ cur.expr \in U /\ cur.named = TRUE
  BY AtWork, SafeAtWork DEF Within
<1>u. \A pc \in {"kinds", "parents", "parentTried", "properties", "propertyTried", "additional", "value",
                 "overflow"} : pc \notin {"undefined"} \cup Looping \cup OnPairs
  BY DEF Looping, OnPairs
<1>r. \A S : \A rule \in MapRule(S) : rule \in S
  BY DEF MapRule
<1>b. Blanks = 0
  BY <1>0, NoBlanks
<1>1. CASE AskForEver
  BY <1>1, <1>u, MovesSafe DEF AskForEver
<1>2. CASE WrongPrimitive
  BY <1>0, <1>2, AnswerSafe DEF WrongPrimitive
<1>3. CASE RightPrimitive
  BY <1>3, <1>u, MovesSafe DEF RightPrimitive
<1>4. CASE TryParent
  <2> DEFINE c == [cur EXCEPT !.pc = "parentTried"]
  <2>1. Call(c, Type.types[cur.i].name, cur.expr, TRUE, TRUE)
    BY <1>0, <1>4 DEF TryParent
  <2>2. c.pc = "parentTried" /\ c.expr = cur.expr /\ c.named = cur.named
    BY <1>0 DEF FrameFields
  <2> HIDE DEF c
  <2>3. Within(U, c)
    BY <1>0, <1>u, <2>2 DEF Within
  <2> QED BY <1>0, <2>1, <2>2, <2>3, CallSafe
<1>5. CASE ParentFailed
  BY <1>5, <1>u, MovesSafe DEF ParentFailed
<1>6. CASE ParentMatched
  <2> DEFINE c == [cur EXCEPT !.pc = "elements", !.i = 1, !.reasons = <<>>]
  <2>1. cur' = c /\ callers' = callers
    BY <1>6 DEF ParentMatched, Go
  <2>2. c.pc = "elements" /\ c.expr = cur.expr /\ c.named = cur.named /\ c.i = 1
    BY <1>0 DEF FrameFields
  <2> HIDE DEF c
  <2>3. Within(U, c)
    BY <1>0, <2>2 DEF Within, OnPairs
  <2> QED BY <2>1, <2>2, <2>3, GoSafe
<1>7. CASE NoParentMatched
  BY <1>7, AnswerSafe DEF NoParentMatched
<1>8. CASE NoParents
  <2> DEFINE c == [cur EXCEPT !.pc = "elements"]
  <2>1. cur' = c /\ callers' = callers /\ cur.pc = "parents"
    BY <1>8 DEF NoParents, Go
  <2>2. c.pc = "elements" /\ c.expr = cur.expr /\ c.named = cur.named /\ c.i = cur.i
    BY <1>0 DEF FrameFields
  <2> HIDE DEF c
  <2>3. Within(U, c)
    BY <1>0, <2>1, <2>2 DEF Within, OnPairs, InRange, Searching
  <2> QED BY <2>1, <2>2, <2>3, GoSafe
<1>9. CASE ValidateElement
  <2> DEFINE c == [cur EXCEPT !.pc = "elementTried"]
  <2>1. PICK rule \in ElementRule : ValidateInstance(c, rule, cur.expr.list[cur.i], cur.want, TRUE)
    BY <1>0, <1>9 DEF ValidateElement
  <2>2. c.pc = "elementTried" /\ c.expr = cur.expr /\ c.named = cur.named /\ c.i = cur.i
    BY <1>0 DEF FrameFields
  <2> HIDE DEF c
  <2>3. cur.i \in Nat \ {0} /\ cur.i <= arrayCount(cur.expr)
    BY <1>0, <1>9 DEF ValidateElement, ElementsLeft, Within, Looping
  <2>4. Within(U, c)
    BY <1>0, <2>2, <2>3 DEF Within, OnPairs
  <2>5. cur.expr.list[cur.i] \in U
    BY <1>0, <2>3, PartsWithin
  <2>6. rule.type.resolved
    BY <2>1, RulesResolved DEF ElementRule
  <2> QED BY <2>1, <2>2, <2>4, <2>5, <2>6, InstanceSafe
<1>10. CASE ElementValidated
  <2> DEFINE c == [cur EXCEPT !.pc = "elements", !.i = cur.i + 1, !.ok = cur.ok /\ ret.ok,
                              !.errors = ret.errors \o cur.errors]
  <2>1. cur' = c /\ callers' = callers /\ cur.pc = "elementTried"
    BY <1>10 DEF ElementValidated, Go
  <2>2. c.pc = "elements" /\ c.expr = cur.expr /\ c.named = cur.named /\ c.i = cur.i + 1
    BY <1>0 DEF FrameFields
  <2> HIDE DEF c
  <2>3. Within(U, c)
    BY <1>0, <2>1, <2>2 DEF Within, OnPairs, Looping
  <2> QED BY <2>1, <2>2, <2>3, GoSafe
<1>11. CASE ElementsDone
  <2>1. CASE cur.ok
    BY <1>11, <1>u, <2>1, MovesSafe DEF ElementsDone, NextRules
  <2>2. CASE ~cur.ok
    BY <1>11, <2>2, AnswerSafe DEF ElementsDone, NextRules
  <2> QED BY <2>1, <2>2
<1>12. CASE ValidateProperty
  <2>1. PICK key \in cur.keys :
          ValidateInstance([cur EXCEPT !.pc = "propertyTried", !.keys = cur.keys \ {key}],
            Type.mapProperties[key], mapValueForKey(cur.expr, key), TRUE, TRUE)
    BY <1>0, <1>12 DEF ValidateProperty
  <2> DEFINE c == [cur EXCEPT !.pc = "propertyTried", !.keys = cur.keys \ {key}]
  <2>2. c.pc = "propertyTried" /\ c.expr = cur.expr /\ c.named = cur.named
    BY <1>0 DEF FrameFields
  <2>3. ValidateInstance(c, Type.mapProperties[key], mapValueForKey(cur.expr, key), TRUE, TRUE)
    BY <2>1
  <2> HIDE DEF c
  <2>4. Within(U, c)
    BY <1>0, <1>u, <2>2 DEF Within
  <2>5. Type.mapProperties[key].type.resolved
    BY <1>0, <1>12, RulesResolved DEF ValidateProperty, InRange, Matching, Type
  <2>6. mapValueForKey(cur.expr, key) \in U
    BY <1>0, PartsWithin
  <2> QED BY <2>2, <2>3, <2>4, <2>5, <2>6, InstanceSafe
<1>13. CASE PropertyValidated
  BY <1>13, <1>u, MovesSafe DEF PropertyValidated
<1>14. CASE PropertiesDone
  <2> DEFINE keys == IF PairRules = {} THEN {} ELSE KeysIn(cur.expr)
             i == IF PairRules = {} THEN 0 ELSE Blanks
             c == [cur EXCEPT !.pc = "pairs", !.keys = keys, !.i = i]
  <2>1. cur' = c /\ callers' = callers
    BY <1>14 DEF PropertiesDone, Go
  <2>2. keys \subseteq KeysIn(cur.expr) /\ i = 0
    BY <1>b
  <2> HIDE DEF keys, i
  <2>3. c.pc = "pairs" /\ c.expr = cur.expr /\ c.named = cur.named /\ c.keys = keys /\ c.i = i
    BY <1>0 DEF FrameFields
  <2> HIDE DEF c
  <2>4. Within(U, c)
    BY <1>0, <2>2, <2>3 DEF Within, Looping
  <2> QED BY <2>1, <2>3, <2>4, GoSafe
<1>15. CASE ValidateKey
  <2>1. PICK key \in cur.keys :
          LET caller == [cur EXCEPT !.pc = "keyTried", !.keys = cur.keys \ {key}, !.key = key] IN
          IF MapRule(Type.mapKeyType) = {}
          THEN cur' = caller /\ ret' = Passed /\ UNCHANGED <<callers, types>>
          ELSE \E rule \in MapRule(Type.mapKeyType) :
                 ValidateInstance(caller, rule, Value(key), cur.want, cur.named)
    BY <1>15 DEF ValidateKey
  <2> DEFINE c == [cur EXCEPT !.pc = "keyTried", !.keys = cur.keys \ {key}, !.key = key]
  <2>2. /\ c.pc = "keyTried" /\ c.expr = cur.expr /\ c.named = cur.named /\ c.i = cur.i
        /\ c.keys = cur.keys \ {key} /\ c.key = key
    BY <1>0 DEF FrameFields
  <2>3. \/ cur' = c /\ callers' = callers
        \/ \E rule \in MapRule(Type.mapKeyType) :
             ValidateInstance(c, rule, Value(key), cur.want, TRUE)
    BY <1>0, <2>1
  <2> HIDE DEF c
  <2>4. cur.i = 0 /\ cur.keys \subseteq KeysIn(cur.expr)
    BY <1>0, <1>15 DEF ValidateKey, Within, OnPairs
  <2>5. Within(U, c)
    BY <1>0, <2>1, <2>2, <2>4 DEF Within, Looping
  <2>6. Value(key) \in U
    BY <1>0, <2>1, <2>4, PartsWithin
  <2>7. \A rule \in MapRule(Type.mapKeyType) : rule.type.resolved
    BY <1>r, RulesResolved
  <2> QED BY <2>2, <2>3, <2>5, <2>6, <2>7, GoSafe, InstanceSafe
<1>16. CASE ValidatePair
  <2> DEFINE c == [cur EXCEPT !.pc = "pairTried", !.ok = cur.ok /\ ret.ok,
                              !.errors = ret.errors \o cur.errors]
  <2>1. /\ c.pc = "pairTried" /\ c.expr = cur.expr /\ c.named = cur.named /\ c.i = cur.i
        /\ c.keys = cur.keys /\ c.key = cur.key
    BY <1>0 DEF FrameFields
  <2>2. \/ cur' = c /\ callers' = callers
        \/ \E rule \in MapRule(Type.mapAllProperties) :
             ValidateInstance(c, rule, cur.expr.hash[cur.key], cur.want, TRUE)
    BY <1>0, <1>16 DEF ValidatePair
  <2> HIDE DEF c
  <2>3. cur.i = 0 /\ cur.keys \subseteq KeysIn(cur.expr) /\ cur.key \in KeysIn(cur.expr)
    BY <1>0, <1>16 DEF ValidatePair, Within, OnPairs
  <2>4. Within(U, c)
    BY <1>0, <2>1, <2>3 DEF Within, Looping
  <2>5. cur.expr.hash[cur.key] \in U
    BY <1>0, <2>3, PartsWithin
  <2>6. \A rule \in MapRule(Type.mapAllProperties) : rule.type.resolved
    BY <1>r, RulesResolved
  <2> QED BY <2>1, <2>2, <2>4, <2>5, <2>6, GoSafe, InstanceSafe
<1>17. CASE ValidateBlank
  BY <1>0, <1>17 DEF ValidateBlank, Within, OnPairs
<1>18. CASE PairValidated
  <2> DEFINE c == [cur EXCEPT !.pc = "pairs", !.ok = cur.ok /\ ret.ok,
                              !.errors = ret.errors \o cur.errors]
  <2>1. cur' = c /\ callers' = callers /\ cur.pc = "pairTried"
    BY <1>18 DEF PairValidated, Go
  <2>2. c.pc = "pairs" /\ c.expr = cur.expr /\ c.named = cur.named /\ c.i = cur.i /\ c.keys = cur.keys
    BY <1>0 DEF FrameFields
  <2> HIDE DEF c
  <2>3. Within(U, c)
    BY <1>0, <2>1, <2>2 DEF Within, OnPairs, Looping
  <2> QED BY <2>1, <2>2, <2>3, GoSafe
<1>19. CASE PairsDone
  BY <1>19, <1>u, MovesSafe DEF PairsDone
<1>20. CASE FindAdditional
  <2> DEFINE ok == cur.ok /\ AdditionalKeys = {}
             errors == IF AdditionalKeys = {} THEN cur.errors
                       ELSE Explained("additional", <<>>, cur.errors)
  <2>1. ~(Refuses /\ Blanks > 0)
    BY <1>b
  <2>2. Go([cur EXCEPT !.pc = "value", !.ok = ok, !.errors = errors])
    BY <1>20, <2>1 DEF FindAdditional
  <2> HIDE DEF ok, errors
  <2> QED BY <1>u, <2>2, MovesSafe
<1>21. CASE ValidateValue
  BY <1>21, AnswerSafe DEF ValidateValue
<1> QED BY <1>1, <1>2, <1>3, <1>4, <1>5, <1>6, <1>7, <1>8, <1>9, <1>10, <1>11, <1>12, <1>13,
           <1>14, <1>15, <1>16, <1>17, <1>18, <1>19, <1>20, <1>21 DEF ValidateStep

LEMMA NotAsking ==
  ASSUME LoadStep \/ AskNoRoot \/ Answered \/ Destroy
  PROVE  phase' # "asked"
BY DEF LoadStep, Locate, ParseDocument, CheckVersion, ReadTexts, CreateType, TypesCreated,
       ResolveType, FindRootType, Refuse, Crash, Load, AskNoRoot, Answered, Destroy

LEMMA ValidateWorks ==
  ASSUME SchemaInv, Validate
  PROVE  Working
<1>1. phase = "asked" /\ ValidateStep
  BY DEF Validate
<1>2. cur.pc # "root"
  BY <1>1 DEF ValidateStep, AskForEver, WrongPrimitive, RightPrimitive, TryParent, ParentFailed,
              ParentMatched, NoParentMatched, NoParents, ValidateElement, ElementValidated,
              ElementsDone, ValidateProperty, PropertyValidated, PropertiesDone, ValidateKey,
              ValidatePair, ValidateBlank, PairValidated, PairsDone, FindAdditional, ValidateValue
<1> QED BY <1>1, <1>2 DEF Working, SchemaInv, TellInv

SafeInv(U) == phase = "asked" /\ asked.expr \in U => AllSafe(U)

LEMMA AskSafe ==
  ASSUME NEW U, Ask
  PROVE  SafeInv(U)'
<1>1. PICK root \in rootType, expr \in Expressions, want \in BOOLEAN :
        /\ asked' = [expr |-> expr, want |-> want]
        /\ cur' = Frame("kinds", root, expr, want, TRUE)
  BY DEF Ask
<1>2. callers' = <<Idle>> /\ phase' = "asked"
  BY DEF Ask
<1>3. cur'.pc = "kinds" /\ cur'.expr = expr /\ cur'.named = TRUE /\ asked'.expr = expr
  BY <1>1 DEF Frame
<1>4. asked'.expr \in U => Safe(U, cur')
  BY <1>3 DEF Safe, Within, Looping, OnPairs
<1>5. Safe(U, Idle)
  BY IdleIsRoot DEF Safe
<1>6. \A i \in 1 .. Len(callers') : callers'[i] = Idle
  BY <1>2
<1> QED BY <1>2, <1>4, <1>5, <1>6 DEF SafeInv, AllSafe

LEMMA SafeInductive ==
  ASSUME NEW U, Whole(U), SafeInv(U), SchemaInv, [SchemaNext]_schemaVars
  PROVE  SafeInv(U)'
<1>1. CASE LoadStep \/ AskNoRoot \/ Answered \/ Destroy
  BY <1>1, NotAsking DEF SafeInv
<1>2. CASE Ask
  BY <1>2, AskSafe
<1>3. CASE Validate
  <2>1. Working /\ ValidateStep /\ phase = "asked" /\ asked' = asked
    BY <1>3, ValidateWorks DEF Validate
  <2> QED BY <2>1, ValidateSafe DEF SafeInv
<1>4. CASE UNCHANGED schemaVars
  BY <1>4 DEF SafeInv, AllSafe, schemaVars
<1> QED BY <1>1, <1>2, <1>3, <1>4 DEF SchemaNext, Over

(* An expression without a key put twice, anywhere in it, is validated       *)
(* without undefined behaviour, against whatever schema was loaded and in    *)
(* whatever order its types and rules are tried: no index without a pair, no *)
(* key without a name, no type that was not resolved is come upon            *)
(* (wexprSchema_Type_validateObject).                                        *)
THEOREM ValidationIsDefined ==
  ASSUME NEW CONSTANT U, Whole(U)
  PROVE  SchemaSpec => [](phase = "asked" /\ asked.expr \in U => cur.pc # "undefined")
<1>1. SchemaInit => SchemaInv /\ SafeInv(U)
  BY SchemaInvInit DEF SchemaInit, SafeInv
<1>2. SafeInv(U) /\ SchemaInv /\ [SchemaNext]_schemaVars => SafeInv(U)'
  BY SafeInductive
<1>3. SafeInv(U) => (phase = "asked" /\ asked.expr \in U => cur.pc # "undefined")
  BY DEF SafeInv, AllSafe, Safe
<1> QED BY <1>1, <1>2, <1>3, SchemaInductive, PTL DEF SchemaSpec

-----------------------------------------------------------------------------
(* What a type means, in the order the rules are tried: `Ok` says which      *)
(* expressions conform to which types, and is what the rest refers to.      *)
Fits(Ok, rule, e) ==
  \/ rule.optional /\ TypeOf(e) \in {"Null", "Invalid"}
  \/ <<rule.type.name, e>> \in Ok
If(T, name, kind, rules) == IF kind \in primitiveTypes(T, name) THEN rules ELSE {}

KindFits(T, name, e) == matchesExpressionType(primitiveTypes(T, name), TypeOf(e))
SomeTypeFits(T, Ok, name, e, i) ==
  \E j \in Nat \ {0} :
    i <= j /\ j <= Len(T[name].types) /\ <<T[name].types[j].name, e>> \in Ok
ElementsFit(T, Ok, name, e, i) ==
  \A rule \in If(T, name, "Array", T[name].arrayAllElements) : \A j \in Nat \ {0} :
    i <= j /\ j <= arrayCount(e) => Fits(Ok, rule, e.list[j])
PropertiesFit(T, Ok, name, e, keys) ==
  \A key \in keys : Fits(Ok, T[name].mapProperties[key], mapValueForKey(e, key))
KeyFits(T, Ok, name, key) ==
  \A rule \in If(T, name, "Map", T[name].mapKeyType) : Fits(Ok, rule, Value(key))
PairFits(T, Ok, name, e, key) ==
  \A rule \in If(T, name, "Map", T[name].mapAllProperties) : Fits(Ok, rule, e.hash[key])
NoneAdditional(T, name, e) ==
  \/ "Map" \notin primitiveTypes(T, name)
  \/ T[name].mapAllProperties # {} \/ T[name].mapAllowAdditionalProperties
  \/ KeysIn(e) \subseteq DOMAIN T[name].mapProperties
ValueFits(T, name, e) ==
  \A words \in If(T, name, "Value", T[name].regex) : TextOf(e) \in words

(* What is left to be true from each kind of rules on. *)
FromPairs(T, Ok, name, e, keys) ==
  /\ \A key \in keys : KeyFits(T, Ok, name, key) /\ PairFits(T, Ok, name, e, key)
  /\ NoneAdditional(T, name, e) /\ ValueFits(T, name, e)
FromProperties(T, Ok, name, e, keys) ==
  PropertiesFit(T, Ok, name, e, keys) /\ FromPairs(T, Ok, name, e, KeysIn(e))
FromElements(T, Ok, name, e, i) ==
  /\ ElementsFit(T, Ok, name, e, i)
  /\ FromProperties(T, Ok, name, e, If(T, name, "Map", DOMAIN T[name].mapProperties))
FromTypes(T, Ok, name, e) ==
  /\ T[name].types = <<>> \/ SomeTypeFits(T, Ok, name, e, 1)
  /\ FromElements(T, Ok, name, e, 1)
Meant(T, Ok, name, e) == KindFits(T, name, e) /\ FromTypes(T, Ok, name, e)

IsMeaning(T, U, Ok) == \A name \in DOMAIN T : \A e \in U :
                         <<name, e>> \in Ok <=> Meant(T, Ok, name, e)

(* What is left for an activation, `x` being what a call it waits for is to *)
(* say, decides what its type means for its expression; below all of them   *)
(* waits who asked whether `goal`.                                          *)
Faithful(T, Ok, goal, a, x) ==
  /\ a.pc = "root" => (goal <=> x)
  /\ a.pc = "kinds" => a.ok /\ a.i = 1
  /\ a.pc = "parents" =>
       /\ T[a.type].types = <<>> => a.i = 1
       /\ Meant(T, Ok, a.type, a.expr) <=>
            /\ a.ok /\ (T[a.type].types = <<>> \/ SomeTypeFits(T, Ok, a.type, a.expr, a.i))
            /\ FromElements(T, Ok, a.type, a.expr, 1)
  /\ a.pc = "parentTried" =>
       /\ T[a.type].types # <<>>
       /\ Meant(T, Ok, a.type, a.expr) <=>
            /\ a.ok /\ (x \/ SomeTypeFits(T, Ok, a.type, a.expr, a.i + 1))
            /\ FromElements(T, Ok, a.type, a.expr, 1)
  /\ a.pc = "elements" =>
       (Meant(T, Ok, a.type, a.expr) <=> a.ok /\ FromElements(T, Ok, a.type, a.expr, a.i))
  /\ a.pc = "elementTried" =>
       (Meant(T, Ok, a.type, a.expr) <=> a.ok /\ x /\ FromElements(T, Ok, a.type, a.expr, a.i + 1))
  /\ a.pc = "properties" =>
       (Meant(T, Ok, a.type, a.expr) <=> a.ok /\ FromProperties(T, Ok, a.type, a.expr, a.keys))
  /\ a.pc = "propertyTried" =>
       (Meant(T, Ok, a.type, a.expr) <=> a.ok /\ x /\ FromProperties(T, Ok, a.type, a.expr, a.keys))
  /\ a.pc = "pairs" =>
       (Meant(T, Ok, a.type, a.expr) <=> a.ok /\ FromPairs(T, Ok, a.type, a.expr, a.keys))
  /\ a.pc = "keyTried" =>
       (Meant(T, Ok, a.type, a.expr) <=>
          a.ok /\ x /\ PairFits(T, Ok, a.type, a.expr, a.key)
               /\ FromPairs(T, Ok, a.type, a.expr, a.keys))
  /\ a.pc = "pairTried" =>
       (Meant(T, Ok, a.type, a.expr) <=> a.ok /\ x /\ FromPairs(T, Ok, a.type, a.expr, a.keys))
  /\ a.pc = "additional" =>
       (Meant(T, Ok, a.type, a.expr) <=>
          a.ok /\ NoneAdditional(T, a.type, a.expr) /\ ValueFits(T, a.type, a.expr))
  /\ a.pc = "value" =>
       (Meant(T, Ok, a.type, a.expr) <=> a.ok /\ ValueFits(T, a.type, a.expr))

Goal(Ok) == \E root \in rootType : <<root, asked.expr>> \in Ok
AllFaithful(Ok) ==
  /\ Faithful(types, Ok, Goal(Ok), cur, ret.ok)
  /\ callers # <<>> =>
       Faithful(types, Ok, Goal(Ok), callers[1], <<cur.type, cur.expr>> \in Ok)
  /\ \A i \in 1 .. Len(callers) - 1 :
       Faithful(types, Ok, Goal(Ok), callers[i + 1], <<callers[i].type, callers[i].expr>> \in Ok)

Meaning(U, Ok) == Working /\ AllSafe(U) /\ IsMeaning(types, U, Ok) /\ AllFaithful(Ok)
Same == UNCHANGED <<types, rootType, asked>>

LEMMA GoFaithful ==
  ASSUME NEW U, NEW Ok, Meaning(U, Ok), Same, NEW c, cur' = c, callers' = callers,
         c.type = cur.type, c.expr = cur.expr, Faithful(types, Ok, Goal(Ok), c, ret'.ok)
  PROVE  AllFaithful(Ok)'
BY DEF Meaning, Same, AllFaithful, Goal

LEMMA CallFaithful ==
  ASSUME NEW U, NEW Ok, Meaning(U, Ok), Same, NEW c, c.type = cur.type, c.expr = cur.expr,
         NEW type, NEW expr, NEW want, NEW named,
         Faithful(types, Ok, Goal(Ok), c, <<type, expr>> \in Ok), Call(c, type, expr, want, named)
  PROVE  AllFaithful(Ok)'
<1>0. callers # <<>> /\ Sequence(callers) /\ DOMAIN cur = FrameFields
  BY AtWork DEF Meaning
<1>1. CASE Len(callers) < MaxCalls
  <2> DEFINE frame == Frame("kinds", type, expr, want, named)
  <2>1. cur' = frame /\ callers' = <<c>> \o callers
    BY <1>1 DEF Call
  <2>2. frame.pc = "kinds" /\ frame.type = type /\ frame.expr = expr /\ frame.ok = TRUE /\ frame.i = 1
    BY DEF Frame
  <2> HIDE DEF frame
  <2>3. /\ Len(callers') = Len(callers) + 1 /\ Len(callers) \in Nat
        /\ callers'[1] = c /\ \A i \in 1 .. Len(callers) : callers'[i + 1] = callers[i]
    BY <1>0, <2>1, Pushed
  <2>4. Faithful(types', Ok, Goal(Ok)', cur', ret'.ok)
    BY <2>1, <2>2 DEF Faithful
  <2>5. Faithful(types', Ok, Goal(Ok)', callers'[1], <<cur'.type, cur'.expr>> \in Ok)
    BY <2>1, <2>2, <2>3 DEF Goal, Same
  <2>6. \A i \in 1 .. Len(callers') - 1 :
          Faithful(types', Ok, Goal(Ok)', callers'[i + 1], <<callers'[i].type, callers'[i].expr>> \in Ok)
    <3> SUFFICES ASSUME NEW i \in 1 .. Len(callers') - 1
                 PROVE  Faithful(types', Ok, Goal(Ok)', callers'[i + 1],
                                 <<callers'[i].type, callers'[i].expr>> \in Ok)
      OBVIOUS
    <3>1. CASE i = 1
      <4>1. callers'[1] = c /\ callers'[2] = callers[1] /\ i + 1 = 2
        BY <2>3, <3>1
      <4>2. Faithful(types, Ok, Goal(Ok), callers[1], <<c.type, c.expr>> \in Ok)
        BY <1>0 DEF Meaning, AllFaithful
      <4> QED BY <3>1, <4>1, <4>2 DEF Goal, Same
    <3>2. CASE i # 1
      <4>1. i - 1 \in 1 .. Len(callers) - 1 /\ (i - 1) + 1 = i
        BY <2>3, <3>2
      <4>2. callers'[i] = callers[i - 1] /\ callers'[i + 1] = callers[i]
        BY <2>3, <4>1
      <4>3. Faithful(types, Ok, Goal(Ok), callers[i], <<callers[i - 1].type, callers[i - 1].expr>> \in Ok)
        BY <4>1 DEF Meaning, AllFaithful
      <4> QED BY <4>2, <4>3 DEF Goal, Same
    <3> QED BY <3>1, <3>2
  <2> QED BY <2>4, <2>5, <2>6 DEF AllFaithful
<1>2. CASE ~(Len(callers) < MaxCalls)
  <2> DEFINE over == [cur EXCEPT !.pc = "overflow"]
  <2>1. cur' = over /\ callers' = callers
    BY <1>2 DEF Call
  <2>2. over.expr = cur.expr /\ over.type = cur.type /\ over.pc = "overflow"
    BY <1>0 DEF FrameFields
  <2> HIDE DEF over
  <2>3. Faithful(types, Ok, Goal(Ok), over, ret'.ok)
    BY <2>2 DEF Faithful
  <2> QED BY <2>1, <2>2, <2>3, GoFaithful
<1> QED BY <1>1, <1>2

LEMMA AnswerFaithful ==
  ASSUME NEW U, NEW Ok, Meaning(U, Ok), Same, NEW ok, NEW errors,
         ok <=> Meant(types, Ok, cur.type, cur.expr), Answer(ok, errors)
  PROVE  AllFaithful(Ok)'
<1>0. callers # <<>> /\ Sequence(callers)
  BY AtWork DEF Meaning
<1>1. /\ Len(callers') = Len(callers) - 1 /\ Len(callers) \in Nat \ {0}
      /\ cur' = callers[1] /\ \A i \in 1 .. Len(callers) - 1 : callers'[i] = callers[i + 1]
      /\ callers' = <<>> <=> Len(callers) = 1
  BY <1>0, Popped DEF Answer
<1>2. ret'.ok = ok
  BY DEF Answer
<1>3. ok <=> <<cur.type, cur.expr>> \in Ok
  BY AtWork, SafeAtWork DEF Meaning, IsMeaning, Within
<1>4. Faithful(types', Ok, Goal(Ok)', cur', ret'.ok)
  <2>1. Faithful(types, Ok, Goal(Ok), callers[1], <<cur.type, cur.expr>> \in Ok)
    BY <1>0 DEF Meaning, AllFaithful
  <2>2. Faithful(types, Ok, Goal(Ok), callers[1], ok)
    BY <1>3, <2>1 DEF Faithful
  <2> QED BY <1>1, <1>2, <2>2 DEF Goal, Same
<1>5. callers' # <<>> =>
        Faithful(types', Ok, Goal(Ok)', callers'[1], <<cur'.type, cur'.expr>> \in Ok)
  <2> SUFFICES ASSUME callers' # <<>>
               PROVE  Faithful(types', Ok, Goal(Ok)', callers'[1], <<cur'.type, cur'.expr>> \in Ok)
    OBVIOUS
  <2>1. 1 \in 1 .. Len(callers) - 1 /\ callers'[1] = callers[1 + 1]
    BY <1>1
  <2>2. Faithful(types, Ok, Goal(Ok), callers[1 + 1], <<callers[1].type, callers[1].expr>> \in Ok)
    BY <2>1 DEF Meaning, AllFaithful
  <2> QED BY <1>1, <2>1, <2>2 DEF Goal, Same
<1>6. \A i \in 1 .. Len(callers') - 1 :
        Faithful(types', Ok, Goal(Ok)', callers'[i + 1], <<callers'[i].type, callers'[i].expr>> \in Ok)
  <2> SUFFICES ASSUME NEW i \in 1 .. Len(callers') - 1
               PROVE  Faithful(types', Ok, Goal(Ok)', callers'[i + 1],
                               <<callers'[i].type, callers'[i].expr>> \in Ok)
    OBVIOUS
  <2>1. /\ i + 1 \in 1 .. Len(callers) - 1 /\ callers'[i] = callers[i + 1]
        /\ callers'[i + 1] = callers[(i + 1) + 1]
    BY <1>1
  <2>2. Faithful(types, Ok, Goal(Ok), callers[(i + 1) + 1],
                 <<callers[i + 1].type, callers[i + 1].expr>> \in Ok)
    BY <2>1 DEF Meaning, AllFaithful
  <2> QED BY <2>1, <2>2 DEF Goal, Same
<1> QED BY <1>4, <1>5, <1>6 DEF AllFaithful

LEMMA InstanceFaithful ==
  ASSUME NEW U, NEW Ok, Meaning(U, Ok), Same, NEW c, c.type = cur.type, c.expr = cur.expr,
         NEW instance, instance.type.resolved, NEW expr, NEW want, NEW named,
         Faithful(types, Ok, Goal(Ok), c, Fits(Ok, instance, expr)),
         ValidateInstance(c, instance, expr, want, named)
  PROVE  AllFaithful(Ok)'
<1>1. CASE instance.optional /\ TypeOf(expr) \in {"Null", "Invalid"}
  <2>1. cur' = c /\ ret' = Passed /\ callers' = callers
    BY <1>1 DEF ValidateInstance
  <2>2. Faithful(types, Ok, Goal(Ok), c, TRUE)
    BY <1>1 DEF Fits, Faithful
  <2>3. ret'.ok = TRUE
    BY <2>1 DEF Passed
  <2>4. Faithful(types, Ok, Goal(Ok), c, ret'.ok)
    BY <2>2, <2>3
  <2> QED BY <2>1, <2>4, GoFaithful
<1>2. CASE ~(instance.optional /\ TypeOf(expr) \in {"Null", "Invalid"})
  <2>1. Call(c, instance.type.name, expr, want, named)
    BY <1>2 DEF ValidateInstance
  <2>2. Faithful(types, Ok, Goal(Ok), c, <<instance.type.name, expr>> \in Ok)
    BY <1>2 DEF Fits, Faithful
  <2> QED BY <2>1, <2>2, CallFaithful
<1> QED BY <1>1, <1>2

-----------------------------------------------------------------------------
(* Each rule that was tried is one less to try. *)
LEMMA NextType ==
  ASSUME NEW T, NEW Ok, NEW name, NEW e, NEW i \in Nat \ {0}, Len(T[name].types) \in Nat
  PROVE  SomeTypeFits(T, Ok, name, e, i) <=>
           \/ i <= Len(T[name].types) /\ <<T[name].types[i].name, e>> \in Ok
           \/ SomeTypeFits(T, Ok, name, e, i + 1)
<1>1. \A j \in Nat \ {0} : i <= j <=> j = i \/ i + 1 <= j
  OBVIOUS
<1>2. ASSUME SomeTypeFits(T, Ok, name, e, i)
      PROVE  \/ i <= Len(T[name].types) /\ <<T[name].types[i].name, e>> \in Ok
             \/ SomeTypeFits(T, Ok, name, e, i + 1)
  BY <1>1, <1>2 DEF SomeTypeFits
<1>3. ASSUME i <= Len(T[name].types), <<T[name].types[i].name, e>> \in Ok
      PROVE  SomeTypeFits(T, Ok, name, e, i)
  BY <1>1, <1>3 DEF SomeTypeFits
<1>4. ASSUME SomeTypeFits(T, Ok, name, e, i + 1)
      PROVE  SomeTypeFits(T, Ok, name, e, i)
  BY <1>1, <1>4 DEF SomeTypeFits
<1> QED BY <1>2, <1>3, <1>4

LEMMA NextElement ==
  ASSUME NEW T, NEW Ok, NEW name, NEW e, NEW i \in Nat \ {0}, i <= arrayCount(e),
         AtMostOne(T[name].arrayAllElements),
         NEW rule \in If(T, name, "Array", T[name].arrayAllElements)
  PROVE  FromElements(T, Ok, name, e, i) <=>
           Fits(Ok, rule, e.list[i]) /\ FromElements(T, Ok, name, e, i + 1)
<1> DEFINE rules == If(T, name, "Array", T[name].arrayAllElements)
<1>1. \A other \in rules : other = rule
  BY DEF If, AtMostOne
<1>2. ElementsFit(T, Ok, name, e, i) <=>
        \A j \in Nat \ {0} : i <= j /\ j <= arrayCount(e) => Fits(Ok, rule, e.list[j])
  BY <1>1 DEF ElementsFit
<1>3. ElementsFit(T, Ok, name, e, i + 1) <=>
        \A j \in Nat \ {0} : i + 1 <= j /\ j <= arrayCount(e) => Fits(Ok, rule, e.list[j])
  BY <1>1 DEF ElementsFit
<1>4. \A j \in Nat \ {0} : i <= j <=> j = i \/ i + 1 <= j
  OBVIOUS
<1>5. ElementsFit(T, Ok, name, e, i) <=>
        Fits(Ok, rule, e.list[i]) /\ ElementsFit(T, Ok, name, e, i + 1)
  BY <1>2, <1>3, <1>4
<1> QED BY <1>5 DEF FromElements

LEMMA NoElement ==
  ASSUME NEW T, NEW Ok, NEW name, NEW e, NEW i \in Nat \ {0}, arrayCount(e) \in Nat,
         If(T, name, "Array", T[name].arrayAllElements) = {} \/ ~(i <= arrayCount(e))
  PROVE  FromElements(T, Ok, name, e, i) <=>
           FromProperties(T, Ok, name, e, If(T, name, "Map", DOMAIN T[name].mapProperties))
<1>1. ElementsFit(T, Ok, name, e, i)
  BY DEF ElementsFit
<1> QED BY <1>1 DEF FromElements

LEMMA NextProperty ==
  ASSUME NEW T, NEW Ok, NEW name, NEW e, NEW keys, NEW key \in keys
  PROVE  FromProperties(T, Ok, name, e, keys) <=>
           /\ Fits(Ok, T[name].mapProperties[key], mapValueForKey(e, key))
           /\ FromProperties(T, Ok, name, e, keys \ {key})
BY DEF FromProperties, PropertiesFit

LEMMA NoProperty ==
  ASSUME NEW T, NEW Ok, NEW name, NEW e
  PROVE  FromProperties(T, Ok, name, e, {}) <=> FromPairs(T, Ok, name, e, KeysIn(e))
BY DEF FromProperties, PropertiesFit

LEMMA NextPair ==
  ASSUME NEW T, NEW Ok, NEW name, NEW e, NEW keys, NEW key \in keys
  PROVE  FromPairs(T, Ok, name, e, keys) <=>
           /\ KeyFits(T, Ok, name, key) /\ PairFits(T, Ok, name, e, key)
           /\ FromPairs(T, Ok, name, e, keys \ {key})
BY DEF FromPairs

LEMMA NoPair ==
  ASSUME NEW T, NEW Ok, NEW name, NEW e
  PROVE  FromPairs(T, Ok, name, e, {}) <=> NoneAdditional(T, name, e) /\ ValueFits(T, name, e)
BY DEF FromPairs

LEMMA NoPairRules ==
  ASSUME NEW T, NEW Ok, NEW name, NEW e, NEW keys,
         If(T, name, "Map", T[name].mapKeyType) = {}, If(T, name, "Map", T[name].mapAllProperties) = {}
  PROVE  FromPairs(T, Ok, name, e, keys) <=> FromPairs(T, Ok, name, e, {})
BY DEF FromPairs, KeyFits, PairFits

LEMMA OneRule ==
  ASSUME NEW T, NEW Ok, NEW name, NEW e, NEW key,
         AtMostOne(T[name].mapKeyType), AtMostOne(T[name].mapAllProperties)
  PROVE  /\ If(T, name, "Map", T[name].mapKeyType) = {} => KeyFits(T, Ok, name, key)
         /\ \A rule \in If(T, name, "Map", T[name].mapKeyType) :
              KeyFits(T, Ok, name, key) <=> Fits(Ok, rule, Value(key))
         /\ If(T, name, "Map", T[name].mapAllProperties) = {} => PairFits(T, Ok, name, e, key)
         /\ \A rule \in If(T, name, "Map", T[name].mapAllProperties) :
              PairFits(T, Ok, name, e, key) <=> Fits(Ok, rule, e.hash[key])
<1>1. \A S : AtMostOne(S) => \A rule \in If(T, name, "Map", S) :
                               \A other \in If(T, name, "Map", S) : other = rule
  BY DEF If, AtMostOne
<1> QED BY <1>1 DEF KeyFits, PairFits

LEMMA TypeAtWork ==
  ASSUME NEW U, NEW Ok, Whole(U), Meaning(U, Ok)
  PROVE  /\ DOMAIN cur = FrameFields /\ cur.ok \in BOOLEAN
         /\ InRange(cur) /\ Within(U, cur) /\ cur.expr \in U
         /\ Len(Type.types) \in Nat /\ AtMostOne(Type.arrayAllElements)
         /\ AtMostOne(Type.mapKeyType) /\ AtMostOne(Type.mapAllProperties)
         /\ arrayCount(cur.expr) \in Nat
         /\ Faithful(types, Ok, Goal(Ok), cur, ret.ok)
         /\ cur.pc \in Waits => ret.ok \in BOOLEAN
<1>1. /\ DOMAIN cur = FrameFields /\ InRange(cur) /\ IsTyped(Type)
      /\ Within(U, cur) /\ cur.expr \in U
  BY AtWork, SafeAtWork DEF Meaning, Within
<1>2. Len(Type.types) \in Nat
  <2>1. Type.types \in Seq(Refs)
    BY <1>1 DEF IsTyped
  <2> QED BY <2>1
<1>3. arrayCount(cur.expr) \in Nat
  BY <1>1 DEF arrayCount, Whole
<1>4. cur.ok \in BOOLEAN /\ (cur.pc \in Waits => ret.ok \in BOOLEAN)
  BY DEF Meaning, Working, Activations, IsActivation, Told
<1> QED BY <1>1, <1>2, <1>3, <1>4 DEF IsTyped, Meaning, AllFaithful

LEMMA ValidateFaithful ==
  ASSUME NEW U, NEW Ok, Whole(U), Meaning(U, Ok), Same, ValidateStep
  PROVE  AllFaithful(Ok)'
<1> DEFINE n == cur.type
           e == cur.expr
           goal == Goal(Ok)
<1>0. /\ DOMAIN cur = FrameFields /\ cur.ok \in BOOLEAN
      /\ Len(types[n].types) \in Nat /\ AtMostOne(types[n].arrayAllElements)
      /\ AtMostOne(types[n].mapKeyType) /\ AtMostOne(types[n].mapAllProperties)
      /\ arrayCount(e) \in Nat /\ InRange(cur) /\ Within(U, cur) /\ e \in U
      /\ Faithful(types, Ok, goal, cur, ret.ok)
      /\ cur.pc \in Waits => ret.ok \in BOOLEAN
  BY TypeAtWork DEF Type
<1>w. Working
  BY DEF Meaning
<1>e. ElementRule = If(types, n, "Array", types[n].arrayAllElements)
  BY DEF ElementRule, If, Primitives, Type
<1>m. \A S : MapRule(S) = If(types, n, "Map", S)
  BY DEF MapRule, If, Primitives
<1>r. \A S : \A rule \in MapRule(S) : rule \in S
  BY DEF MapRule
<1>1. CASE AskForEver
  <2> DEFINE c == [cur EXCEPT !.pc = "overflow"]
  <2>1. cur' = c /\ callers' = callers
    BY <1>1 DEF AskForEver, Go
  <2>2. c.pc = "overflow" /\ c.type = n /\ c.expr = e
    BY <1>0 DEF FrameFields
  <2> HIDE DEF c
  <2>3. Faithful(types, Ok, goal, c, ret'.ok)
    BY <2>2 DEF Faithful
  <2> QED BY <2>1, <2>2, <2>3, GoFaithful
<1>2. CASE WrongPrimitive
  <2>1. ~KindFits(types, n, e) /\ Answer(FALSE, Explained("primitive", <<>>, <<>>))
    BY <1>0, <1>2 DEF WrongPrimitive, Matches, KindFits, Primitives, Within
  <2>2. ~Meant(types, Ok, n, e)
    BY <2>1 DEF Meant
  <2> QED BY <2>1, <2>2, AnswerFaithful
<1>3. CASE RightPrimitive
  <2> DEFINE c == [cur EXCEPT !.pc = "parents"]
  <2>1. cur' = c /\ callers' = callers /\ cur.pc = "kinds" /\ KindFits(types, n, e)
    BY <1>3 DEF RightPrimitive, Go, Matches, KindFits, Primitives
  <2>2. c.pc = "parents" /\ c.type = n /\ c.expr = e /\ c.i = cur.i /\ c.ok = cur.ok
    BY <1>0 DEF FrameFields
  <2> HIDE DEF c
  <2>3. cur.i = 1 /\ cur.ok
    BY <1>0, <2>1 DEF Faithful
  <2>4. Meant(types, Ok, n, e) <=>
          /\ types[n].types = <<>> \/ SomeTypeFits(types, Ok, n, e, 1)
          /\ FromElements(types, Ok, n, e, 1)
    BY <2>1 DEF Meant, FromTypes
  <2>5. Faithful(types, Ok, goal, c, ret'.ok)
    BY <2>2, <2>3, <2>4 DEF Faithful
  <2> QED BY <2>1, <2>2, <2>5, GoFaithful
<1>4. CASE TryParent
  <2> DEFINE c == [cur EXCEPT !.pc = "parentTried"]
             next == types[n].types[cur.i].name
  <2>1. Call(c, next, e, TRUE, cur.named) /\ cur.pc = "parents" /\ cur.i <= Len(types[n].types)
    BY <1>4 DEF TryParent, Type
  <2>2. c.pc = "parentTried" /\ c.type = n /\ c.expr = e /\ c.i = cur.i /\ c.ok = cur.ok
    BY <1>0 DEF FrameFields
  <2> HIDE DEF c
  <2>3. cur.i \in Nat \ {0}
    BY <1>0, <2>1 DEF InRange, Searching
  <2>4. types[n].types # <<>>
    <3>1. Len(<<>>) = 0
      OBVIOUS
    <3> QED BY <1>0, <2>1, <2>3, <3>1
  <2>5. SomeTypeFits(types, Ok, n, e, cur.i) <=>
          <<next, e>> \in Ok \/ SomeTypeFits(types, Ok, n, e, cur.i + 1)
    BY <1>0, <2>1, <2>3, NextType
  <2> HIDE DEF next
  <2>6. Meant(types, Ok, n, e) <=>
          /\ cur.ok /\ (types[n].types = <<>> \/ SomeTypeFits(types, Ok, n, e, cur.i))
          /\ FromElements(types, Ok, n, e, 1)
    BY <1>0, <2>1 DEF Faithful
  <2>7. Faithful(types, Ok, goal, c, <<next, e>> \in Ok)
    BY <2>2, <2>4, <2>5, <2>6 DEF Faithful
  <2> QED BY <2>1, <2>2, <2>7, CallFaithful
<1>5. CASE ParentFailed
  <2> DEFINE c == [cur EXCEPT !.pc = "parents", !.i = cur.i + 1, !.reasons = ret.errors \o cur.reasons]
  <2>1. cur' = c /\ callers' = callers /\ cur.pc = "parentTried" /\ ~ret.ok
    BY <1>5 DEF ParentFailed, Go
  <2>2. c.pc = "parents" /\ c.type = n /\ c.expr = e /\ c.i = cur.i + 1 /\ c.ok = cur.ok
    BY <1>0 DEF FrameFields
  <2> HIDE DEF c
  <2>3. /\ types[n].types # <<>>
        /\ Meant(types, Ok, n, e) <=> /\ cur.ok /\ SomeTypeFits(types, Ok, n, e, cur.i + 1)
                                      /\ FromElements(types, Ok, n, e, 1)
    BY <1>0, <2>1 DEF Faithful
  <2>4. Faithful(types, Ok, goal, c, ret'.ok)
    BY <2>2, <2>3 DEF Faithful
  <2> QED BY <2>1, <2>2, <2>4, GoFaithful
<1>6. CASE ParentMatched
  <2> DEFINE c == [cur EXCEPT !.pc = "elements", !.i = 1, !.reasons = <<>>]
  <2>1. cur' = c /\ callers' = callers /\ cur.pc = "parentTried" /\ ret.ok
    BY <1>6 DEF ParentMatched, Go
  <2>2. c.pc = "elements" /\ c.type = n /\ c.expr = e /\ c.i = 1 /\ c.ok = cur.ok
    BY <1>0 DEF FrameFields
  <2> HIDE DEF c
  <2>3. Meant(types, Ok, n, e) <=> cur.ok /\ FromElements(types, Ok, n, e, 1)
    BY <1>0, <2>1 DEF Faithful
  <2>4. Faithful(types, Ok, goal, c, ret'.ok)
    BY <2>2, <2>3 DEF Faithful
  <2> QED BY <2>1, <2>2, <2>4, GoFaithful
<1>7. CASE NoParentMatched
  <2>1. /\ cur.pc = "parents" /\ cur.i > Len(types[n].types) /\ types[n].types # <<>>
        /\ Answer(FALSE, Explained("types", cur.reasons, <<>>))
    BY <1>7 DEF NoParentMatched, Type
  <2>2. cur.i \in Nat \ {0}
    BY <1>0, <2>1 DEF InRange, Searching
  <2>3. ~SomeTypeFits(types, Ok, n, e, cur.i)
    <3>1. \A j \in Nat \ {0} : ~(cur.i <= j /\ j <= Len(types[n].types))
      BY <1>0, <2>1, <2>2
    <3> QED BY <3>1 DEF SomeTypeFits
  <2>4. ~Meant(types, Ok, n, e)
    BY <1>0, <2>1, <2>3 DEF Faithful
  <2> QED BY <2>1, <2>4, AnswerFaithful
<1>8. CASE NoParents
  <2> DEFINE c == [cur EXCEPT !.pc = "elements"]
  <2>1. cur' = c /\ callers' = callers /\ cur.pc = "parents" /\ types[n].types = <<>>
    BY <1>8 DEF NoParents, Go, Type
  <2>2. c.pc = "elements" /\ c.type = n /\ c.expr = e /\ c.i = cur.i /\ c.ok = cur.ok
    BY <1>0 DEF FrameFields
  <2> HIDE DEF c
  <2>3. cur.i = 1 /\ (Meant(types, Ok, n, e) <=> cur.ok /\ FromElements(types, Ok, n, e, 1))
    BY <1>0, <2>1 DEF Faithful
  <2>4. Faithful(types, Ok, goal, c, ret'.ok)
    BY <2>2, <2>3 DEF Faithful
  <2> QED BY <2>1, <2>2, <2>4, GoFaithful
<1>9. CASE ValidateElement
  <2> DEFINE c == [cur EXCEPT !.pc = "elementTried"]
  <2>1. PICK rule \in ElementRule : ValidateInstance(c, rule, e.list[cur.i], cur.want, cur.named)
    BY <1>9 DEF ValidateElement
  <2>2. c.pc = "elementTried" /\ c.type = n /\ c.expr = e /\ c.i = cur.i /\ c.ok = cur.ok
    BY <1>0 DEF FrameFields
  <2> HIDE DEF c
  <2>3. cur.pc = "elements" /\ cur.i \in Nat \ {0} /\ cur.i <= arrayCount(e)
    BY <1>0, <1>9 DEF ValidateElement, ElementsLeft, Within, Looping
  <2>4. FromElements(types, Ok, n, e, cur.i) <=>
          Fits(Ok, rule, e.list[cur.i]) /\ FromElements(types, Ok, n, e, cur.i + 1)
    BY <1>0, <1>e, <2>3, NextElement
  <2>5. Meant(types, Ok, n, e) <=> cur.ok /\ FromElements(types, Ok, n, e, cur.i)
    BY <1>0, <2>3 DEF Faithful
  <2>6. Faithful(types, Ok, goal, c, Fits(Ok, rule, e.list[cur.i]))
    BY <2>2, <2>4, <2>5 DEF Faithful
  <2>7. rule.type.resolved
    BY <1>w, <2>1, RulesResolved DEF ElementRule
  <2> QED BY <2>1, <2>2, <2>6, <2>7, InstanceFaithful
<1>10. CASE ElementValidated
  <2> DEFINE c == [cur EXCEPT !.pc = "elements", !.i = cur.i + 1, !.ok = cur.ok /\ ret.ok,
                              !.errors = ret.errors \o cur.errors]
  <2>1. cur' = c /\ callers' = callers /\ cur.pc = "elementTried"
    BY <1>10 DEF ElementValidated, Go
  <2>2. c.pc = "elements" /\ c.type = n /\ c.expr = e /\ c.i = cur.i + 1 /\ c.ok = (cur.ok /\ ret.ok)
    BY <1>0 DEF FrameFields
  <2> HIDE DEF c
  <2>3. Meant(types, Ok, n, e) <=> cur.ok /\ ret.ok /\ FromElements(types, Ok, n, e, cur.i + 1)
    BY <1>0, <2>1 DEF Faithful
  <2>4. Faithful(types, Ok, goal, c, ret'.ok)
    BY <2>2, <2>3 DEF Faithful
  <2> QED BY <2>1, <2>2, <2>4, GoFaithful
<1>11. CASE ElementsDone
  <2> DEFINE keys == If(types, n, "Map", DOMAIN types[n].mapProperties)
  <2>1. cur.pc = "elements" /\ cur.i \in Nat \ {0} /\ ~ElementsLeft
    BY <1>0, <1>11 DEF ElementsDone, Within, Looping
  <2>2. FromElements(types, Ok, n, e, cur.i) <=> FromProperties(types, Ok, n, e, keys)
    BY <1>0, <1>e, <2>1, NoElement DEF ElementsLeft
  <2>3. Meant(types, Ok, n, e) <=> cur.ok /\ FromElements(types, Ok, n, e, cur.i)
    BY <1>0, <2>1 DEF Faithful
  <2>4. keys = IF "Map" \in Primitives THEN DOMAIN Type.mapProperties ELSE {}
    BY DEF If, Primitives, Type
  <2> HIDE DEF keys
  <2>5. CASE cur.ok
    <3> DEFINE c == [cur EXCEPT !.pc = "properties", !.keys = keys, !.i = 1]
    <3>1. cur' = c /\ callers' = callers
      BY <1>11, <2>4, <2>5 DEF ElementsDone, NextRules, Go
    <3>2. c.pc = "properties" /\ c.type = n /\ c.expr = e /\ c.keys = keys /\ c.ok = cur.ok
      BY <1>0 DEF FrameFields
    <3> HIDE DEF c
    <3>3. Faithful(types, Ok, goal, c, ret'.ok)
      BY <2>2, <2>3, <3>2 DEF Faithful
    <3> QED BY <3>1, <3>2, <3>3, GoFaithful
  <2>6. CASE ~cur.ok
    <3>1. Answer(FALSE, cur.errors)
      BY <1>11, <2>6 DEF ElementsDone, NextRules
    <3> QED BY <2>3, <2>6, <3>1, AnswerFaithful
  <2> QED BY <2>5, <2>6
<1>12. CASE ValidateProperty
  <2>1. PICK key \in cur.keys :
          ValidateInstance([cur EXCEPT !.pc = "propertyTried", !.keys = cur.keys \ {key}],
            Type.mapProperties[key], mapValueForKey(e, key), TRUE, cur.named)
    BY <1>12 DEF ValidateProperty
  <2> DEFINE c == [cur EXCEPT !.pc = "propertyTried", !.keys = cur.keys \ {key}]
             rule == types[n].mapProperties[key]
  <2>2. /\ c.pc = "propertyTried" /\ c.type = n /\ c.expr = e /\ c.ok = cur.ok
        /\ c.keys = cur.keys \ {key}
    BY <1>0 DEF FrameFields
  <2>3. ValidateInstance(c, rule, mapValueForKey(e, key), TRUE, cur.named) /\ cur.pc = "properties"
    BY <1>12, <2>1 DEF Type, ValidateProperty
  <2> HIDE DEF c
  <2>4. FromProperties(types, Ok, n, e, cur.keys) <=>
          /\ Fits(Ok, rule, mapValueForKey(e, key))
          /\ FromProperties(types, Ok, n, e, cur.keys \ {key})
    BY NextProperty
  <2>5. Meant(types, Ok, n, e) <=> cur.ok /\ FromProperties(types, Ok, n, e, cur.keys)
    BY <1>0, <2>3 DEF Faithful
  <2>6. rule.type.resolved
    BY <1>0, <1>w, <2>3, RulesResolved DEF InRange, Matching, Type
  <2> HIDE DEF rule
  <2>7. Faithful(types, Ok, goal, c, Fits(Ok, rule, mapValueForKey(e, key)))
    BY <2>2, <2>4, <2>5 DEF Faithful
  <2> QED BY <2>2, <2>3, <2>6, <2>7, InstanceFaithful
<1>13. CASE PropertyValidated
  <2> DEFINE errors == IF ret.ok THEN cur.errors ELSE Explained("property", ret.errors, cur.errors)
             c == [cur EXCEPT !.pc = "properties", !.ok = cur.ok /\ ret.ok, !.errors = errors]
  <2>1. cur' = c /\ callers' = callers /\ cur.pc = "propertyTried"
    BY <1>13 DEF PropertyValidated, Go
  <2> HIDE DEF errors
  <2>2. /\ c.pc = "properties" /\ c.type = n /\ c.expr = e /\ c.keys = cur.keys
        /\ c.ok = (cur.ok /\ ret.ok)
    BY <1>0 DEF FrameFields
  <2> HIDE DEF c
  <2>3. Meant(types, Ok, n, e) <=> cur.ok /\ ret.ok /\ FromProperties(types, Ok, n, e, cur.keys)
    BY <1>0, <2>1 DEF Faithful
  <2>4. Faithful(types, Ok, goal, c, ret'.ok)
    BY <2>2, <2>3 DEF Faithful
  <2> QED BY <2>1, <2>2, <2>4, GoFaithful
<1>14. CASE PropertiesDone
  <2> DEFINE keys == IF PairRules = {} THEN {} ELSE KeysIn(e)
             i == IF PairRules = {} THEN 0 ELSE Blanks
             c == [cur EXCEPT !.pc = "pairs", !.keys = keys, !.i = i]
  <2>1. cur' = c /\ callers' = callers /\ cur.pc = "properties" /\ cur.keys = {}
    BY <1>14 DEF PropertiesDone, Go
  <2>2. FromPairs(types, Ok, n, e, keys) <=> FromPairs(types, Ok, n, e, KeysIn(e))
    <3>1. CASE PairRules = {}
      <4>1. If(types, n, "Map", types[n].mapKeyType) = {} /\ If(types, n, "Map", types[n].mapAllProperties) = {}
        BY <1>m, <3>1 DEF PairRules, Type
      <4> QED BY <3>1, <4>1, NoPairRules
    <3>2. CASE PairRules # {}
      BY <3>2
    <3> QED BY <3>1, <3>2
  <2> HIDE DEF keys, i
  <2>3. c.pc = "pairs" /\ c.type = n /\ c.expr = e /\ c.keys = keys /\ c.ok = cur.ok
    BY <1>0 DEF FrameFields
  <2> HIDE DEF c
  <2>4. Meant(types, Ok, n, e) <=> cur.ok /\ FromProperties(types, Ok, n, e, {})
    BY <1>0, <2>1 DEF Faithful
  <2>5. Meant(types, Ok, n, e) <=> cur.ok /\ FromPairs(types, Ok, n, e, keys)
    BY <2>2, <2>4, NoProperty
  <2>6. Faithful(types, Ok, goal, c, ret'.ok)
    BY <2>3, <2>5 DEF Faithful
  <2> QED BY <2>1, <2>3, <2>6, GoFaithful
<1>15. CASE ValidateKey
  <2>1. PICK key \in cur.keys :
          LET caller == [cur EXCEPT !.pc = "keyTried", !.keys = cur.keys \ {key}, !.key = key] IN
          IF MapRule(Type.mapKeyType) = {}
          THEN cur' = caller /\ ret' = Passed /\ UNCHANGED <<callers, types>>
          ELSE \E rule \in MapRule(Type.mapKeyType) :
                 ValidateInstance(caller, rule, Value(key), cur.want, cur.named)
    BY <1>15 DEF ValidateKey
  <2> DEFINE c == [cur EXCEPT !.pc = "keyTried", !.keys = cur.keys \ {key}, !.key = key]
  <2>2. /\ c.pc = "keyTried" /\ c.type = n /\ c.expr = e /\ c.ok = cur.ok
        /\ c.keys = cur.keys \ {key} /\ c.key = key
    BY <1>0 DEF FrameFields
  <2>3. \/ MapRule(Type.mapKeyType) = {} /\ cur' = c /\ ret' = Passed /\ callers' = callers
        \/ \E rule \in MapRule(Type.mapKeyType) :
             ValidateInstance(c, rule, Value(key), cur.want, cur.named)
    BY <2>1
  <2> HIDE DEF c
  <2>4. cur.pc = "pairs"
    BY <1>15 DEF ValidateKey
  <2>5. Meant(types, Ok, n, e) <=> cur.ok /\ FromPairs(types, Ok, n, e, cur.keys)
    BY <1>0, <2>4 DEF Faithful
  <2>6. FromPairs(types, Ok, n, e, cur.keys) <=>
          /\ KeyFits(types, Ok, n, key) /\ PairFits(types, Ok, n, e, key)
          /\ FromPairs(types, Ok, n, e, cur.keys \ {key})
    BY NextPair
  <2>7. ASSUME NEW x, x <=> KeyFits(types, Ok, n, key)
        PROVE  Faithful(types, Ok, goal, c, x)
    BY <2>2, <2>5, <2>6, <2>7 DEF Faithful
  <2>8. CASE MapRule(Type.mapKeyType) = {} /\ cur' = c /\ ret' = Passed /\ callers' = callers
    <3>1. KeyFits(types, Ok, n, key)
      BY <1>0, <1>m, <2>8, OneRule DEF Type
    <3>2. ret'.ok = TRUE
      BY <2>8 DEF Passed
    <3>3. Faithful(types, Ok, goal, c, ret'.ok)
      BY <2>7, <3>1, <3>2
    <3> QED BY <2>2, <2>8, <3>3, GoFaithful
  <2>9. CASE \E rule \in MapRule(Type.mapKeyType) :
               ValidateInstance(c, rule, Value(key), cur.want, cur.named)
    <3>1. PICK rule \in MapRule(Type.mapKeyType) :
            ValidateInstance(c, rule, Value(key), cur.want, cur.named)
      BY <2>9
    <3>2. Fits(Ok, rule, Value(key)) <=> KeyFits(types, Ok, n, key)
      BY <1>0, <1>m, <3>1, OneRule DEF Type
    <3>3. Faithful(types, Ok, goal, c, Fits(Ok, rule, Value(key)))
      BY <2>7, <3>2
    <3>4. rule.type.resolved
      BY <1>r, <1>w, <3>1, RulesResolved
    <3> QED BY <2>2, <3>1, <3>3, <3>4, InstanceFaithful
  <2> QED BY <2>3, <2>8, <2>9
<1>16. CASE ValidatePair
  <2> DEFINE key == cur.key
             c == [cur EXCEPT !.pc = "pairTried", !.ok = cur.ok /\ ret.ok,
                              !.errors = ret.errors \o cur.errors]
  <2>1. /\ c.pc = "pairTried" /\ c.type = n /\ c.expr = e /\ c.ok = (cur.ok /\ ret.ok)
        /\ c.keys = cur.keys
    BY <1>0 DEF FrameFields
  <2>2. \/ MapRule(Type.mapAllProperties) = {} /\ cur' = c /\ ret' = Passed /\ callers' = callers
        \/ \E rule \in MapRule(Type.mapAllProperties) :
             ValidateInstance(c, rule, e.hash[key], cur.want, cur.named)
    BY <1>16 DEF ValidatePair
  <2> HIDE DEF c
  <2>3. cur.pc = "keyTried"
    BY <1>16 DEF ValidatePair
  <2>4. Meant(types, Ok, n, e) <=>
          cur.ok /\ ret.ok /\ PairFits(types, Ok, n, e, key) /\ FromPairs(types, Ok, n, e, cur.keys)
    BY <1>0, <2>3 DEF Faithful
  <2>5. ASSUME NEW x, x <=> PairFits(types, Ok, n, e, key)
        PROVE  Faithful(types, Ok, goal, c, x)
    BY <2>1, <2>4, <2>5 DEF Faithful
  <2>6. CASE MapRule(Type.mapAllProperties) = {} /\ cur' = c /\ ret' = Passed /\ callers' = callers
    <3>1. PairFits(types, Ok, n, e, key)
      BY <1>0, <1>m, <2>6, OneRule DEF Type
    <3>2. ret'.ok = TRUE
      BY <2>6 DEF Passed
    <3>3. Faithful(types, Ok, goal, c, ret'.ok)
      BY <2>5, <3>1, <3>2
    <3> QED BY <2>1, <2>6, <3>3, GoFaithful
  <2>7. CASE \E rule \in MapRule(Type.mapAllProperties) :
               ValidateInstance(c, rule, e.hash[key], cur.want, cur.named)
    <3>1. PICK rule \in MapRule(Type.mapAllProperties) :
            ValidateInstance(c, rule, e.hash[key], cur.want, cur.named)
      BY <2>7
    <3>2. Fits(Ok, rule, e.hash[key]) <=> PairFits(types, Ok, n, e, key)
      BY <1>0, <1>m, <3>1, OneRule DEF Type
    <3>3. Faithful(types, Ok, goal, c, Fits(Ok, rule, e.hash[key]))
      BY <2>5, <3>2
    <3>4. rule.type.resolved
      BY <1>r, <1>w, <3>1, RulesResolved
    <3> QED BY <2>1, <3>1, <3>3, <3>4, InstanceFaithful
  <2> QED BY <2>2, <2>6, <2>7
<1>17. CASE ValidateBlank
  BY <1>0, <1>17 DEF ValidateBlank, Within, OnPairs
<1>18. CASE PairValidated
  <2> DEFINE c == [cur EXCEPT !.pc = "pairs", !.ok = cur.ok /\ ret.ok,
                              !.errors = ret.errors \o cur.errors]
  <2>1. cur' = c /\ callers' = callers /\ cur.pc = "pairTried"
    BY <1>18 DEF PairValidated, Go
  <2>2. c.pc = "pairs" /\ c.type = n /\ c.expr = e /\ c.keys = cur.keys /\ c.ok = (cur.ok /\ ret.ok)
    BY <1>0 DEF FrameFields
  <2> HIDE DEF c
  <2>3. Meant(types, Ok, n, e) <=> cur.ok /\ ret.ok /\ FromPairs(types, Ok, n, e, cur.keys)
    BY <1>0, <2>1 DEF Faithful
  <2>4. Faithful(types, Ok, goal, c, ret'.ok)
    BY <2>2, <2>3 DEF Faithful
  <2> QED BY <2>1, <2>2, <2>4, GoFaithful
<1>19. CASE PairsDone
  <2> DEFINE c == [cur EXCEPT !.pc = "additional"]
  <2>1. cur' = c /\ callers' = callers /\ cur.pc = "pairs" /\ cur.keys = {}
    BY <1>19 DEF PairsDone, Go
  <2>2. c.pc = "additional" /\ c.type = n /\ c.expr = e /\ c.ok = cur.ok
    BY <1>0 DEF FrameFields
  <2> HIDE DEF c
  <2>3. Meant(types, Ok, n, e) <=> cur.ok /\ FromPairs(types, Ok, n, e, {})
    BY <1>0, <2>1 DEF Faithful
  <2>4. Faithful(types, Ok, goal, c, ret'.ok)
    BY <2>2, <2>3, NoPair DEF Faithful
  <2> QED BY <2>1, <2>2, <2>4, GoFaithful
<1>20. CASE FindAdditional
  <2> DEFINE ok == cur.ok /\ AdditionalKeys = {}
             errors == IF AdditionalKeys = {} THEN cur.errors
                       ELSE Explained("additional", <<>>, cur.errors)
             c == [cur EXCEPT !.pc = "value", !.ok = ok, !.errors = errors]
  <2>1. cur.pc = "additional" /\ Blanks = 0
    BY <1>0, <1>20, NoBlanks DEF FindAdditional
  <2>2. cur' = c /\ callers' = callers
    BY <1>20, <2>1 DEF FindAdditional, Go
  <2>3. AdditionalKeys = {} <=> NoneAdditional(types, n, e)
    BY DEF AdditionalKeys, Refuses, NoneAdditional, Primitives, Type
  <2> HIDE DEF errors
  <2>4. c.pc = "value" /\ c.type = n /\ c.expr = e /\ c.ok = ok
    BY <1>0 DEF FrameFields
  <2> HIDE DEF c
  <2>5. Meant(types, Ok, n, e) <=> cur.ok /\ NoneAdditional(types, n, e) /\ ValueFits(types, n, e)
    BY <1>0, <2>1 DEF Faithful
  <2>6. Faithful(types, Ok, goal, c, ret'.ok)
    BY <2>3, <2>4, <2>5 DEF Faithful
  <2> QED BY <2>2, <2>4, <2>6, GoFaithful
<1>21. CASE ValidateValue
  <2>1. cur.pc = "value"
    BY <1>21 DEF ValidateValue
  <2>2. AgainstRegex <=> ~ValueFits(types, n, e)
    BY DEF AgainstRegex, ValueFits, If, Primitives, Type
  <2>3. Meant(types, Ok, n, e) <=> cur.ok /\ ValueFits(types, n, e)
    BY <1>0, <2>1 DEF Faithful
  <2>4. CASE cur.ok /\ AgainstRegex
    <3>1. Answer(FALSE, Explained("regex", <<>>, cur.errors))
      BY <1>21, <2>4 DEF ValidateValue
    <3> QED BY <2>2, <2>3, <2>4, <3>1, AnswerFaithful
  <2>5. CASE ~(cur.ok /\ AgainstRegex)
    <3>1. Answer(cur.ok, cur.errors)
      BY <1>21, <2>5 DEF ValidateValue
    <3>2. cur.ok <=> Meant(types, Ok, n, e)
      BY <2>2, <2>3, <2>5
    <3> QED BY <3>1, <3>2, AnswerFaithful
  <2> QED BY <2>4, <2>5
<1> QED BY <1>1, <1>2, <1>3, <1>4, <1>5, <1>6, <1>7, <1>8, <1>9, <1>10, <1>11, <1>12, <1>13,
           <1>14, <1>15, <1>16, <1>17, <1>18, <1>19, <1>20, <1>21 DEF ValidateStep

-----------------------------------------------------------------------------
(* The meaning there is: the least, of the types the document defines.      *)
Closed(T, U, Ok) ==
  \A name \in DOMAIN T : \A e \in U : Meant(T, Ok, name, e) => <<name, e>> \in Ok
Conforming(T, U) ==
  {p \in (DOMAIN T) \X U : \A Ok \in SUBSET ((DOMAIN T) \X U) : Closed(T, U, Ok) => p \in Ok}

LEMMA MoreConforms ==
  ASSUME NEW T, NEW Ok, NEW More, Ok \subseteq More, NEW name, NEW e, Meant(T, Ok, name, e)
  PROVE  Meant(T, More, name, e)
<1>1. \A rule, f : Fits(Ok, rule, f) => Fits(More, rule, f)
  BY DEF Fits
<1>2. T[name].types = <<>> \/ SomeTypeFits(T, More, name, e, 1)
  BY DEF Meant, FromTypes, SomeTypeFits
<1>3. ElementsFit(T, More, name, e, 1)
  BY <1>1 DEF Meant, FromTypes, FromElements, ElementsFit
<1>4. PropertiesFit(T, More, name, e, If(T, name, "Map", DOMAIN T[name].mapProperties))
  BY <1>1 DEF Meant, FromTypes, FromElements, FromProperties, PropertiesFit
<1>5. FromPairs(T, More, name, e, KeysIn(e))
  BY <1>1 DEF Meant, FromTypes, FromElements, FromProperties, FromPairs, KeyFits, PairFits
<1> QED BY <1>2, <1>3, <1>4, <1>5 DEF Meant, FromTypes, FromElements, FromProperties

LEMMA ConformingIsMeaning ==
  ASSUME NEW T, NEW U
  PROVE  IsMeaning(T, U, Conforming(T, U))
<1> DEFINE all == (DOMAIN T) \X U
           least == Conforming(T, U)
           more == {p \in all : Meant(T, least, p[1], p[2])}
<1>1. least \in SUBSET all /\ \A Ok \in SUBSET all : Closed(T, U, Ok) => least \subseteq Ok
  BY DEF Conforming
<1>2. \A p \in all : (\A Ok \in SUBSET all : Closed(T, U, Ok) => p \in Ok) => p \in least
  BY DEF Conforming
<1> HIDE DEF least
<1>3. \A name \in DOMAIN T, e \in U : Meant(T, least, name, e) => <<name, e>> \in least
  <2> SUFFICES ASSUME NEW name \in DOMAIN T, NEW e \in U, Meant(T, least, name, e),
                      NEW Ok \in SUBSET all, Closed(T, U, Ok)
               PROVE  <<name, e>> \in Ok
    BY <1>2
  <2>1. Meant(T, Ok, name, e)
    BY <1>1, MoreConforms
  <2> QED BY <2>1 DEF Closed
<1>4. more \in SUBSET all /\ more \subseteq least
  <2>1. \A p \in more : p = <<p[1], p[2]>> /\ p[1] \in DOMAIN T /\ p[2] \in U
    OBVIOUS
  <2>2. \A p \in more : Meant(T, least, p[1], p[2])
    OBVIOUS
  <2>3. more \in SUBSET all
    OBVIOUS
  <2> HIDE DEF more
  <2> QED BY <1>3, <2>1, <2>2, <2>3
<1>5. \A name \in DOMAIN T, e \in U : Meant(T, least, name, e) => <<name, e>> \in more
  OBVIOUS
<1>6. \A name \in DOMAIN T, e \in U : <<name, e>> \in more => Meant(T, least, name, e)
  OBVIOUS
<1> HIDE DEF more
<1>7. Closed(T, U, more)
  BY <1>4, <1>5, MoreConforms DEF Closed
<1>8. least \subseteq more
  BY <1>1, <1>4, <1>7
<1>9. IsMeaning(T, U, least)
  BY <1>3, <1>6, <1>8 DEF IsMeaning
<1> QED BY <1>9 DEF least

(* The root of a schema is the one its document names, its table a function, *)
(* and until it is loaded nothing was answered.                             *)
Loading == {"locate", "parse", "version", "texts", "types", "resolve"}
RootInv ==
  /\ types = [name \in DOMAIN types |-> types[name]]
  /\ phase \in Loading => ~answer.given
  /\ phase \in {"loaded", "asked"} => rootType = {name \in document.rootType : Found(Names, name)}

LEMMA NoFunction == <<>> = [name \in DOMAIN <<>> |-> <<>>[name]]
OBVIOUS

LEMMA RootInit == SchemaInit => RootInv
BY NoFunction DEF SchemaInit, RootInv, Unanswered, Loading

LEMMA RootInductive ==
  ASSUME LoadInv, RootInv, [SchemaNext]_schemaVars
  PROVE  RootInv'
<1>1. CASE LoadStep
  <2>1. answer' = answer /\ phase \in Loading /\ phase' # "asked" /\ document' = document
    BY <1>1 DEF LoadStep, Locate, ParseDocument, CheckVersion, ReadTexts, CreateType, TypesCreated,
                ResolveType, FindRootType, Refuse, Crash, Load, askingVars, Loading
  <2>2. types' = [name \in DOMAIN types' |-> types'[name]]
    <3>1. CASE types' = types
      BY <3>1 DEF RootInv
    <3>2. CASE types' = <<>>
      BY <3>2, NoFunction
    <3>3. CASE CreateType /\ types' # types
      <4> DEFINE new == [other \in DOMAIN types \cup {Head(left)} |->
                           IF other = Head(left)
                           THEN createFromExpression(document.types.pairs[Head(left)]) ELSE types[other]]
      <4>1. types' = new
        BY <3>3 DEF CreateType, Crash
      <4>2. new = [name \in DOMAIN new |-> new[name]]
        OBVIOUS
      <4> HIDE DEF new
      <4> QED BY <4>1, <4>2
    <3>4. CASE ResolveType /\ types' # types /\ types' # <<>>
      <4> DEFINE new == [types EXCEPT ![Head(left)] = Resolved(types[Head(left)])]
      <4>1. types' = new
        BY <3>4 DEF ResolveType, Crash, Refuse, Drop
      <4>2. new = [name \in DOMAIN new |-> new[name]]
        OBVIOUS
      <4> HIDE DEF new
      <4> QED BY <4>1, <4>2
    <3> QED BY <1>1, <3>1, <3>2, <3>3, <3>4
          DEF LoadStep, Locate, ParseDocument, CheckVersion, ReadTexts, TypesCreated,
              FindRootType, Refuse, Crash, Drop
  <2>3. CASE phase' = "loaded"
    <3>1. FindRootType /\ phase = "resolve" /\ left = <<>> /\ types' = types
      BY <1>1, <2>3 DEF LoadStep, Locate, ParseDocument, CheckVersion, ReadTexts, CreateType,
                        TypesCreated, ResolveType, FindRootType, Refuse, Crash, Load
    <3>2. rootType' = {name \in document.rootType : Found(DOMAIN types, name)}
      BY <2>3, <3>1 DEF FindRootType, Crash, Load
    <3>3. DOMAIN types = Names
      BY <3>1 DEF LoadInv
    <3> QED BY <2>1, <2>2, <2>3, <3>2, <3>3 DEF RootInv, Loading, Names
  <2>4. CASE phase' # "loaded"
    BY <2>1, <2>2, <2>4 DEF RootInv
  <2> QED BY <2>3, <2>4
<1>2. CASE AskNoRoot \/ Ask \/ Validate \/ Answered
  <2>1. /\ UNCHANGED <<document, types, rootType>> /\ phase \in {"loaded", "asked"}
        /\ phase' \notin Loading
    BY <1>2 DEF AskNoRoot, Ask, Validate, Answered, loadingVars, Loading
  <2> QED BY <2>1 DEF RootInv, Names
<1>3. CASE Destroy
  BY <1>3, NoFunction DEF Destroy, Drop, RootInv, Loading
<1>4. CASE UNCHANGED schemaVars
  BY <1>4 DEF schemaVars, RootInv, Names
<1> QED BY <1>1, <1>2, <1>3, <1>4 DEF SchemaNext, Over

LEMMA OneRoot ==
  ASSUME LoadInv, RootInv, phase \in {"loaded", "asked"}
  PROVE  \A root, other \in rootType : root = other
BY RootAssumption DEF LoadInv, RootInv

MeantInv(U) ==
  asked.expr \in U => \A Ok : IsMeaning(types, U, Ok) =>
    /\ phase = "asked" => AllFaithful(Ok)
    /\ phase = "loaded" /\ answer.given => (answer.ok <=> Goal(Ok))

LEMMA AskMeant ==
  ASSUME NEW U, LoadInv, RootInv, Ask
  PROVE  MeantInv(U)'
<1>1. PICK root \in rootType, expr \in Expressions, want \in BOOLEAN :
        /\ asked' = [expr |-> expr, want |-> want]
        /\ cur' = Frame("kinds", root, expr, want, TRUE)
  BY DEF Ask
<1>2. callers' = <<Idle>> /\ phase' = "asked" /\ UNCHANGED <<types, rootType>>
  BY DEF Ask
<1>3. /\ cur'.pc = "kinds" /\ cur'.type = root /\ cur'.expr = expr /\ cur'.ok = TRUE /\ cur'.i = 1
      /\ asked'.expr = expr
  BY <1>1 DEF Frame
<1>4. \A other \in rootType : other = root
  BY <1>1, OneRoot DEF Ask
<1>5. ASSUME NEW Ok PROVE AllFaithful(Ok)'
  <2>1. Faithful(types', Ok, Goal(Ok)', cur', ret'.ok)
    BY <1>3 DEF Faithful
  <2>2. Goal(Ok)' <=> <<cur'.type, cur'.expr>> \in Ok
    BY <1>1, <1>2, <1>3, <1>4 DEF Goal
  <2>3. Faithful(types', Ok, Goal(Ok)', Idle, <<cur'.type, cur'.expr>> \in Ok)
    BY <2>2, IdleIsRoot DEF Faithful
  <2> HIDE DEF Idle
  <2>4. Len(callers') = 1 /\ callers'[1] = Idle /\ \A i \in 1 .. Len(callers') - 1 : FALSE
    BY <1>2
  <2> QED BY <2>1, <2>3, <2>4 DEF AllFaithful
<1> QED BY <1>2, <1>5 DEF MeantInv

LEMMA MeantInductive ==
  ASSUME NEW U, Whole(U), MeantInv(U), SafeInv(U), RootInv, SchemaInv, [SchemaNext]_schemaVars
  PROVE  MeantInv(U)'
<1>0. LoadInv
  BY DEF SchemaInv
<1>1. CASE LoadStep
  <2>1. phase' # "asked" /\ ~answer'.given
    BY <1>1 DEF RootInv, LoadStep, Locate, ParseDocument, CheckVersion, ReadTexts, CreateType,
                TypesCreated, ResolveType, FindRootType, Refuse, Crash, Load, askingVars, Loading
  <2> QED BY <2>1 DEF MeantInv
<1>2. CASE AskNoRoot
  <2>1. rootType' = {} /\ answer'.ok = FALSE /\ phase' # "asked"
    BY <1>2 DEF AskNoRoot
  <2> QED BY <2>1 DEF MeantInv, Goal
<1>3. CASE Ask
  BY <1>0, <1>3, AskMeant
<1>4. CASE Validate
  <2>1. Working /\ ValidateStep /\ phase = "asked" /\ phase' = "asked" /\ UNCHANGED <<asked, rootType>>
    BY <1>4, ValidateWorks DEF Validate, loadingVars
  <2>2. types' = types
    BY <1>4 DEF Validate, loadingVars
  <2>3. ASSUME asked.expr \in U, NEW Ok, IsMeaning(types, U, Ok)
        PROVE  AllFaithful(Ok)'
    <3>1. Meaning(U, Ok)
      BY <2>1, <2>3 DEF Meaning, MeantInv, SafeInv
    <3> QED BY <2>1, <2>2, <3>1, ValidateFaithful DEF Same
  <2> QED BY <2>1, <2>2, <2>3 DEF MeantInv
<1>5. CASE Answered
  <2>1. /\ phase = "asked" /\ cur.pc = "root" /\ phase' = "loaded"
        /\ UNCHANGED <<asked, types, rootType>> /\ answer'.ok = ret.ok
    BY <1>5 DEF Answered
  <2>2. ASSUME asked.expr \in U, NEW Ok, IsMeaning(types, U, Ok)
        PROVE  ret.ok <=> Goal(Ok)
    BY <2>1, <2>2 DEF MeantInv, AllFaithful, Faithful
  <2> QED BY <2>1, <2>2 DEF MeantInv, Goal
<1>6. CASE Destroy
  BY <1>6 DEF Destroy, MeantInv
<1>7. CASE UNCHANGED schemaVars
  BY <1>7 DEF schemaVars, MeantInv, AllFaithful, Goal
<1> QED BY <1>1, <1>2, <1>3, <1>4, <1>5, <1>6, <1>7 DEF SchemaNext, LoadStep, Over

DefinedTypes == [name \in Names |-> Resolved(Created(name))]
LEMMA TypesDefined ==
  ASSUME SchemaInv, DefinedInv, RootInv, phase \in {"loaded", "asked"}
  PROVE  types = DefinedTypes
<1>1. DOMAIN types = Names /\ \A name \in Names : types[name] = Resolved(Created(name))
  BY DEF SchemaInv, LoadInv, DefinedInv
<1> QED BY <1>1 DEF RootInv, DefinedTypes

(* An expression is accepted exactly when it conforms to the root type of   *)
(* the document: by what the definitions of its types say, each read once   *)
(* and in any order, and by the least relation that the rules allow, however *)
(* the types refer to each other.  It makes no difference in which order     *)
(* types, properties and pairs were tried, what was asked before, nor how    *)
(* many calls it took                                                        *)
(* (createFromSchemaID, wexprSchema_Schema_validateExpression and all of     *)
(* wexprSchema_Type_validateObject).                                         *)
THEOREM AnswersAreMeant ==
  ASSUME NEW CONSTANT U, Whole(U)
  PROVE  SchemaSpec =>
           [](phase = "loaded" /\ answer.given /\ asked.expr \in U =>
                (answer.ok <=> \E root \in document.rootType :
                                 /\ Found(Names, root)
                                 /\ <<root, asked.expr>> \in Conforming(DefinedTypes, U)))
<1> DEFINE Answers == phase = "loaded" /\ answer.given /\ asked.expr \in U =>
                        (answer.ok <=> \E root \in document.rootType :
                                         /\ Found(Names, root)
                                         /\ <<root, asked.expr>> \in Conforming(DefinedTypes, U))
<1>1. SchemaInit => SchemaInv /\ DefinedInv /\ RootInv /\ SafeInv(U) /\ MeantInv(U)
  <2>1. SchemaInit => phase = "locate" /\ ~answer.given
    BY DEF SchemaInit, Unanswered
  <2> QED BY <2>1, SchemaInvInit, RootInit DEF DefinedInv, SafeInv, MeantInv
<1>2. DefinedInv /\ RootInv /\ SafeInv(U) /\ MeantInv(U) /\ SchemaInv /\ [SchemaNext]_schemaVars
        => DefinedInv' /\ RootInv' /\ SafeInv(U)' /\ MeantInv(U)'
  BY DefinedInductive, RootInductive, SafeInductive, MeantInductive DEF SchemaInv
<1>3. SchemaInv /\ DefinedInv /\ RootInv /\ MeantInv(U) => Answers
  <2> SUFFICES ASSUME SchemaInv, DefinedInv, RootInv, MeantInv(U),
                      phase = "loaded", answer.given, asked.expr \in U
               PROVE  answer.ok <=> \E root \in document.rootType :
                                      /\ Found(Names, root)
                                      /\ <<root, asked.expr>> \in Conforming(DefinedTypes, U)
    OBVIOUS
  <2>2. types = DefinedTypes
    BY TypesDefined
  <2>3. answer.ok <=> Goal(Conforming(types, U))
    BY ConformingIsMeaning DEF MeantInv
  <2>4. rootType = {name \in document.rootType : Found(Names, name)}
    BY DEF RootInv
  <2> QED BY <2>2, <2>3, <2>4 DEF Goal
<1> HIDE DEF Answers
<1>4. SchemaSpec => []Answers
  BY <1>1, <1>2, <1>3, SchemaInductive, PTL DEF SchemaSpec
<1> QED BY <1>4 DEF Answers

-----------------------------------------------------------------------------
(* The lists of errors there may be: each error names a type of the schema   *)
(* and an expression that does not conform to it, and so does every error   *)
(* below it.                                                                 *)
Whys == {"primitive", "types", "property", "additional", "regex"}
TrueLists(T, U, Ok, S) ==
  /\ <<>> \in S /\ \A s, t \in S : s \o t \in S
  /\ \A why \in Whys : \A name \in DOMAIN T : \A e \in U : \A child \in S :
       <<name, e>> \notin Ok =>
         <<[why |-> why, type |-> name, expr |-> e, child |-> child]>> \in S

AllTrue(S) ==
  /\ cur.errors \in S /\ cur.reasons \in S /\ (cur.pc \in Waits => ret.errors \in S)
  /\ \A i \in 1 .. Len(callers) : callers[i].errors \in S /\ callers[i].reasons \in S

LEMMA GoTrue ==
  ASSUME NEW S, AllTrue(S), NEW c, cur' = c, callers' = callers, c.errors \in S, c.reasons \in S,
         c.pc \in Waits => ret'.errors \in S
  PROVE  AllTrue(S)'
BY DEF AllTrue

LEMMA CallTrue ==
  ASSUME NEW S, <<>> \in S, Working, AllTrue(S), NEW c, c.errors \in S, c.reasons \in S,
         NEW type, NEW expr, NEW want, NEW named, Call(c, type, expr, want, named)
  PROVE  AllTrue(S)'
<1>0. Sequence(callers) /\ DOMAIN cur = FrameFields
  BY AtWork
<1>1. CASE Len(callers) < MaxCalls
  <2> DEFINE frame == Frame("kinds", type, expr, want, named)
  <2>1. cur' = frame /\ callers' = <<c>> \o callers
    BY <1>1 DEF Call
  <2>2. frame.pc \notin Waits /\ frame.errors = <<>> /\ frame.reasons = <<>>
    BY DEF Frame, Waits
  <2> HIDE DEF frame
  <2>3. /\ Len(callers') = Len(callers) + 1 /\ Len(callers) \in Nat
        /\ callers'[1] = c /\ \A i \in 1 .. Len(callers) : callers'[i + 1] = callers[i]
    BY <1>0, <2>1, Pushed
  <2>4. \A i \in 1 .. Len(callers') : callers'[i].errors \in S /\ callers'[i].reasons \in S
    <3> SUFFICES ASSUME NEW i \in 1 .. Len(callers')
                 PROVE  callers'[i].errors \in S /\ callers'[i].reasons \in S
      OBVIOUS
    <3>1. CASE i = 1
      BY <2>3, <3>1
    <3>2. CASE i # 1
      <4>1. i - 1 \in 1 .. Len(callers) /\ (i - 1) + 1 = i
        BY <2>3, <3>2
      <4> QED BY <2>3, <4>1 DEF AllTrue
    <3> QED BY <3>1, <3>2
  <2> QED BY <2>1, <2>2, <2>4 DEF AllTrue
<1>2. CASE ~(Len(callers) < MaxCalls)
  <2> DEFINE over == [cur EXCEPT !.pc = "overflow"]
  <2>1. cur' = over /\ callers' = callers
    BY <1>2 DEF Call
  <2>2. over.errors = cur.errors /\ over.reasons = cur.reasons /\ over.pc \notin Waits
    BY <1>0 DEF FrameFields, Waits
  <2> HIDE DEF over
  <2> QED BY <2>1, <2>2 DEF AllTrue
<1> QED BY <1>1, <1>2

LEMMA AnswerTrue ==
  ASSUME NEW S, Working, AllTrue(S), NEW ok, NEW errors \in S, Answer(ok, errors)
  PROVE  AllTrue(S)'
<1>1. callers # <<>> /\ Sequence(callers)
  BY AtWork
<1>2. /\ Len(callers') = Len(callers) - 1 /\ Len(callers) \in Nat \ {0}
      /\ cur' = callers[1] /\ \A i \in 1 .. Len(callers) - 1 : callers'[i] = callers[i + 1]
  BY <1>1, Popped DEF Answer
<1>3. \A i \in 1 .. Len(callers') : i + 1 \in 1 .. Len(callers) /\ callers'[i] = callers[i + 1]
  BY <1>2
<1>4. 1 \in 1 .. Len(callers) /\ ret'.errors = errors
  BY <1>2 DEF Answer
<1> QED BY <1>2, <1>3, <1>4 DEF AllTrue

LEMMA InstanceTrue ==
  ASSUME NEW S, <<>> \in S, Working, AllTrue(S), NEW c, c.errors \in S, c.reasons \in S,
         NEW instance, instance.type.resolved, NEW expr, NEW want, NEW named,
         ValidateInstance(c, instance, expr, want, named)
  PROVE  AllTrue(S)'
<1>1. CASE Call(c, instance.type.name, expr, want, named)
  BY <1>1, CallTrue
<1>2. CASE cur' = c /\ callers' = callers /\ ret' = Passed
  <2>1. ret'.errors \in S
    BY <1>2 DEF Passed
  <2> QED BY <1>2, <2>1, GoTrue
<1> QED BY <1>1, <1>2 DEF ValidateInstance

LEMMA ReasonTrue ==
  ASSUME NEW U, NEW Ok, NEW S, Whole(U), Meaning(U, Ok), TrueLists(types, U, Ok, S),
         ~Meant(types, Ok, cur.type, cur.expr),
         NEW why \in Whys, NEW child \in S, NEW errors \in S
  PROVE  Explained(why, child, errors) \in S
<1>1. cur.type \in DOMAIN types /\ cur.expr \in U
  BY AtWork, SafeAtWork DEF Meaning, Within
<1>2. <<cur.type, cur.expr>> \notin Ok
  BY <1>1 DEF Meaning, IsMeaning
<1>3. <<Reason(why, child)>> \in S
  BY <1>1, <1>2 DEF TrueLists, Reason
<1> QED BY <1>3 DEF TrueLists, Explained

LEMMA MovesTrue ==
  ASSUME NEW S, Working, AllTrue(S), NEW pc, pc \notin Waits, NEW i, NEW keys, NEW ok,
         NEW errors \in S, NEW reasons \in S,
         \/ Go([cur EXCEPT !.pc = pc])
         \/ Go([cur EXCEPT !.pc = pc, !.i = i, !.reasons = reasons])
         \/ Go([cur EXCEPT !.pc = pc, !.keys = keys, !.i = i])
         \/ Go([cur EXCEPT !.pc = pc, !.ok = ok, !.errors = errors])
         \/ Go([cur EXCEPT !.pc = pc, !.i = i, !.ok = ok, !.errors = errors])
  PROVE  AllTrue(S)'
<1>1. DOMAIN cur = FrameFields
  BY AtWork
<1>2. cur'.pc = pc /\ cur'.errors \in S /\ cur'.reasons \in S /\ callers' = callers
  BY <1>1 DEF Go, FrameFields, AllTrue
<1> QED BY <1>2, GoTrue

LEMMA ValidateTrue ==
  ASSUME NEW U, NEW Ok, NEW S, Whole(U), Meaning(U, Ok), TrueLists(types, U, Ok, S), AllTrue(S),
         Same, ValidateStep
  PROVE  AllTrue(S)'
<1> DEFINE n == cur.type
           e == cur.expr
<1>0. /\ DOMAIN cur = FrameFields /\ InRange(cur) /\ Within(U, cur) /\ e \in U
      /\ Len(types[n].types) \in Nat
      /\ Faithful(types, Ok, Goal(Ok), cur, ret.ok)
      /\ cur.errors \in S /\ cur.reasons \in S /\ (cur.pc \in Waits => ret.errors \in S)
  BY TypeAtWork DEF AllTrue, Type
<1>w. Working
  BY DEF Meaning
<1>s. <<>> \in S /\ \A s, t \in S : s \o t \in S
  BY DEF TrueLists
<1>u. \A pc \in {"kinds", "parents", "elements", "properties", "pairs", "additional", "value",
                 "overflow"} : pc \notin Waits
  BY DEF Waits
<1>r. \A R : \A rule \in MapRule(R) : rule \in R
  BY DEF MapRule
<1>1. CASE AskForEver
  BY <1>1, <1>0, <1>u, <1>w, MovesTrue DEF AskForEver
<1>2. CASE WrongPrimitive
  <2>1. ~KindFits(types, n, e) /\ Answer(FALSE, Explained("primitive", <<>>, <<>>))
    BY <1>0, <1>2 DEF WrongPrimitive, Matches, KindFits, Primitives, Within
  <2>2. ~Meant(types, Ok, n, e)
    BY <2>1 DEF Meant
  <2>3. Explained("primitive", <<>>, <<>>) \in S
    BY <1>s, <2>2, ReasonTrue DEF Whys
  <2> QED BY <1>w, <2>1, <2>3, AnswerTrue
<1>3. CASE RightPrimitive
  BY <1>3, <1>0, <1>u, <1>w, MovesTrue DEF RightPrimitive
<1>4. CASE TryParent
  <2> DEFINE c == [cur EXCEPT !.pc = "parentTried"]
  <2>1. Call(c, Type.types[cur.i].name, e, TRUE, cur.named)
    BY <1>4 DEF TryParent
  <2>2. c.errors = cur.errors /\ c.reasons = cur.reasons
    BY <1>0 DEF FrameFields
  <2> HIDE DEF c
  <2> QED BY <1>0, <1>s, <1>w, <2>1, <2>2, CallTrue
<1>5. CASE ParentFailed
  <2>1. ret.errors \o cur.reasons \in S
    BY <1>0, <1>5, <1>s DEF ParentFailed, Waits
  <2>2. Go([cur EXCEPT !.pc = "parents", !.i = cur.i + 1, !.reasons = ret.errors \o cur.reasons])
    BY <1>5 DEF ParentFailed
  <2> QED BY <1>0, <1>u, <1>w, <2>1, <2>2, MovesTrue
<1>6. CASE ParentMatched
  BY <1>6, <1>0, <1>s, <1>u, <1>w, MovesTrue DEF ParentMatched
<1>7. CASE NoParentMatched
  <2>1. /\ cur.pc = "parents" /\ cur.i > Len(types[n].types) /\ types[n].types # <<>>
        /\ Answer(FALSE, Explained("types", cur.reasons, <<>>))
    BY <1>7 DEF NoParentMatched, Type
  <2>2. cur.i \in Nat \ {0}
    BY <1>0, <2>1 DEF InRange, Searching
  <2>3. \A j \in Nat \ {0} : ~(cur.i <= j /\ j <= Len(types[n].types))
    BY <1>0, <2>1, <2>2
  <2>4. ~Meant(types, Ok, n, e)
    BY <1>0, <2>1, <2>3 DEF Faithful, SomeTypeFits
  <2>5. Explained("types", cur.reasons, <<>>) \in S
    BY <1>0, <1>s, <2>4, ReasonTrue DEF Whys
  <2> QED BY <1>w, <2>1, <2>5, AnswerTrue
<1>8. CASE NoParents
  BY <1>8, <1>0, <1>u, <1>w, MovesTrue DEF NoParents
<1>9. CASE ValidateElement
  <2> DEFINE c == [cur EXCEPT !.pc = "elementTried"]
  <2>1. PICK rule \in ElementRule : ValidateInstance(c, rule, e.list[cur.i], cur.want, cur.named)
    BY <1>9 DEF ValidateElement
  <2>2. c.errors = cur.errors /\ c.reasons = cur.reasons
    BY <1>0 DEF FrameFields
  <2> HIDE DEF c
  <2>3. rule.type.resolved
    BY <1>w, <2>1, RulesResolved DEF ElementRule
  <2> QED BY <1>0, <1>s, <1>w, <2>1, <2>2, <2>3, InstanceTrue
<1>10. CASE ElementValidated
  <2>1. ret.errors \o cur.errors \in S
    BY <1>0, <1>10, <1>s DEF ElementValidated, Waits
  <2>2. Go([cur EXCEPT !.pc = "elements", !.i = cur.i + 1, !.ok = cur.ok /\ ret.ok,
                       !.errors = ret.errors \o cur.errors])
    BY <1>10 DEF ElementValidated
  <2> QED BY <1>0, <1>u, <1>w, <2>1, <2>2, MovesTrue
<1>11. CASE ElementsDone
  <2>1. CASE cur.ok
    BY <1>11, <1>0, <1>u, <1>w, <2>1, MovesTrue DEF ElementsDone, NextRules
  <2>2. CASE ~cur.ok
    BY <1>11, <1>0, <1>w, <2>2, AnswerTrue DEF ElementsDone, NextRules
  <2> QED BY <2>1, <2>2
<1>12. CASE ValidateProperty
  <2>1. PICK key \in cur.keys :
          ValidateInstance([cur EXCEPT !.pc = "propertyTried", !.keys = cur.keys \ {key}],
            Type.mapProperties[key], mapValueForKey(e, key), TRUE, cur.named)
    BY <1>12 DEF ValidateProperty
  <2> DEFINE c == [cur EXCEPT !.pc = "propertyTried", !.keys = cur.keys \ {key}]
  <2>2. c.errors = cur.errors /\ c.reasons = cur.reasons
    BY <1>0 DEF FrameFields
  <2>3. ValidateInstance(c, Type.mapProperties[key], mapValueForKey(e, key), TRUE, cur.named)
    BY <2>1
  <2> HIDE DEF c
  <2>4. Type.mapProperties[key].type.resolved
    BY <1>0, <1>w, <1>12, RulesResolved DEF ValidateProperty, InRange, Matching, Type
  <2> QED BY <1>0, <1>s, <1>w, <2>2, <2>3, <2>4, InstanceTrue
<1>13. CASE PropertyValidated
  <2> DEFINE errors == IF ret.ok THEN cur.errors ELSE Explained("property", ret.errors, cur.errors)
  <2>1. /\ cur.pc = "propertyTried" /\ ret.errors \in S
        /\ Go([cur EXCEPT !.pc = "properties", !.ok = cur.ok /\ ret.ok, !.errors = errors])
    BY <1>0, <1>13 DEF PropertyValidated, Waits
  <2>2. errors \in S
    <3>1. CASE ret.ok
      BY <1>0, <3>1
    <3>2. CASE ~ret.ok
      <4>1. ~Meant(types, Ok, n, e)
        BY <1>0, <2>1, <3>2 DEF Faithful
      <4> QED BY <1>0, <2>1, <3>2, <4>1, ReasonTrue DEF Whys
    <3> QED BY <3>1, <3>2
  <2> HIDE DEF errors
  <2> QED BY <1>0, <1>u, <1>w, <2>1, <2>2, MovesTrue
<1>14. CASE PropertiesDone
  BY <1>14, <1>0, <1>u, <1>w, MovesTrue DEF PropertiesDone
<1>15. CASE ValidateKey
  <2>1. PICK key \in cur.keys :
          LET caller == [cur EXCEPT !.pc = "keyTried", !.keys = cur.keys \ {key}, !.key = key] IN
          IF MapRule(Type.mapKeyType) = {}
          THEN cur' = caller /\ ret' = Passed /\ UNCHANGED <<callers, types>>
          ELSE \E rule \in MapRule(Type.mapKeyType) :
                 ValidateInstance(caller, rule, Value(key), cur.want, cur.named)
    BY <1>15 DEF ValidateKey
  <2> DEFINE c == [cur EXCEPT !.pc = "keyTried", !.keys = cur.keys \ {key}, !.key = key]
  <2>2. c.errors = cur.errors /\ c.reasons = cur.reasons
    BY <1>0 DEF FrameFields
  <2>3. \/ cur' = c /\ ret'.errors = <<>> /\ callers' = callers
        \/ \E rule \in MapRule(Type.mapKeyType) :
             ValidateInstance(c, rule, Value(key), cur.want, cur.named)
    BY <2>1 DEF Passed
  <2> HIDE DEF c
  <2>4. \A rule \in MapRule(Type.mapKeyType) : rule.type.resolved
    BY <1>r, <1>w, RulesResolved
  <2> QED BY <1>0, <1>s, <1>w, <2>2, <2>3, <2>4, GoTrue, InstanceTrue
<1>16. CASE ValidatePair
  <2> DEFINE c == [cur EXCEPT !.pc = "pairTried", !.ok = cur.ok /\ ret.ok,
                              !.errors = ret.errors \o cur.errors]
  <2>1. ret.errors \o cur.errors \in S
    BY <1>0, <1>16, <1>s DEF ValidatePair, Waits
  <2>2. c.errors = ret.errors \o cur.errors /\ c.reasons = cur.reasons
    BY <1>0 DEF FrameFields
  <2>3. \/ cur' = c /\ ret'.errors = <<>> /\ callers' = callers
        \/ \E rule \in MapRule(Type.mapAllProperties) :
             ValidateInstance(c, rule, e.hash[cur.key], cur.want, cur.named)
    BY <1>16 DEF ValidatePair, Passed
  <2> HIDE DEF c
  <2>4. \A rule \in MapRule(Type.mapAllProperties) : rule.type.resolved
    BY <1>r, <1>w, RulesResolved
  <2> QED BY <1>0, <1>s, <1>w, <2>1, <2>2, <2>3, <2>4, GoTrue, InstanceTrue
<1>17. CASE ValidateBlank
  BY <1>0, <1>17 DEF ValidateBlank, Within, OnPairs
<1>18. CASE PairValidated
  <2>1. ret.errors \o cur.errors \in S
    BY <1>0, <1>18, <1>s DEF PairValidated, Waits
  <2>2. Go([cur EXCEPT !.pc = "pairs", !.ok = cur.ok /\ ret.ok, !.errors = ret.errors \o cur.errors])
    BY <1>18 DEF PairValidated
  <2> QED BY <1>0, <1>u, <1>w, <2>1, <2>2, MovesTrue
<1>19. CASE PairsDone
  BY <1>19, <1>0, <1>u, <1>w, MovesTrue DEF PairsDone
<1>20. CASE FindAdditional
  <2> DEFINE ok == cur.ok /\ AdditionalKeys = {}
             errors == IF AdditionalKeys = {} THEN cur.errors
                       ELSE Explained("additional", <<>>, cur.errors)
  <2>1. cur.pc = "additional" /\ Blanks = 0
    BY <1>0, <1>20, NoBlanks DEF FindAdditional
  <2>2. Go([cur EXCEPT !.pc = "value", !.ok = ok, !.errors = errors])
    BY <1>20, <2>1 DEF FindAdditional
  <2>3. AdditionalKeys = {} <=> NoneAdditional(types, n, e)
    BY DEF AdditionalKeys, Refuses, NoneAdditional, Primitives, Type
  <2>4. errors \in S
    <3>1. CASE AdditionalKeys = {}
      BY <1>0, <3>1
    <3>2. CASE AdditionalKeys # {}
      <4>1. ~Meant(types, Ok, n, e)
        BY <1>0, <2>1, <2>3, <3>2 DEF Faithful
      <4> QED BY <1>0, <1>s, <3>2, <4>1, ReasonTrue DEF Whys
    <3> QED BY <3>1, <3>2
  <2> HIDE DEF ok, errors
  <2> QED BY <1>0, <1>u, <1>w, <2>2, <2>4, MovesTrue
<1>21. CASE ValidateValue
  <2>1. cur.pc = "value"
    BY <1>21 DEF ValidateValue
  <2>2. CASE cur.ok /\ AgainstRegex
    <3>1. ~Meant(types, Ok, n, e)
      BY <1>0, <2>1, <2>2 DEF Faithful, AgainstRegex, ValueFits, If, Primitives, Type
    <3>2. Explained("regex", <<>>, cur.errors) \in S
      BY <1>0, <1>s, <3>1, ReasonTrue DEF Whys
    <3>3. Answer(FALSE, Explained("regex", <<>>, cur.errors))
      BY <1>21, <2>2 DEF ValidateValue
    <3> QED BY <1>w, <3>2, <3>3, AnswerTrue
  <2>3. CASE ~(cur.ok /\ AgainstRegex)
    <3>1. Answer(cur.ok, cur.errors)
      BY <1>21, <2>3 DEF ValidateValue
    <3> QED BY <1>0, <1>w, <3>1, AnswerTrue
  <2> QED BY <2>2, <2>3
<1> QED BY <1>1, <1>2, <1>3, <1>4, <1>5, <1>6, <1>7, <1>8, <1>9, <1>10, <1>11, <1>12, <1>13,
           <1>14, <1>15, <1>16, <1>17, <1>18, <1>19, <1>20, <1>21 DEF ValidateStep

Refusal(why, child) == [why |-> why, type |-> EmptyText, expr |-> asked.expr, child |-> child]
TrueInv(U) ==
  asked.expr \in U => \A Ok, S : IsMeaning(types, U, Ok) /\ TrueLists(types, U, Ok, S) =>
    /\ phase = "asked" => AllTrue(S)
    /\ phase = "loaded" /\ answer.given =>
         answer.errors \in S \/ \E why, child : child \in S /\ answer.errors = <<Refusal(why, child)>>

LEMMA TrueInductive ==
  ASSUME NEW U, Whole(U), MeantInv(U), SafeInv(U), TrueInv(U), RootInv, SchemaInv,
         [SchemaNext]_schemaVars
  PROVE  TrueInv(U)'
<1>1. CASE LoadStep
  <2>1. phase' # "asked" /\ ~answer'.given
    BY <1>1 DEF RootInv, LoadStep, Locate, ParseDocument, CheckVersion, ReadTexts, CreateType,
                TypesCreated, ResolveType, FindRootType, Refuse, Crash, Load, askingVars, Loading
  <2> QED BY <2>1 DEF TrueInv
<1>2. CASE AskNoRoot
  <2>1. phase' # "asked" /\ answer'.errors = <<Refusal("no root type", <<>>)>>'
    BY <1>2 DEF AskNoRoot, Refusal, Failure
  <2> QED BY <2>1 DEF TrueInv, TrueLists
<1>3. CASE Ask
  <2>1. /\ cur'.pc = "kinds" /\ cur'.errors = <<>> /\ cur'.reasons = <<>> /\ phase' = "asked"
        /\ callers' = <<Idle>> /\ types' = types
    BY <1>3 DEF Ask, Frame
  <2>2. Idle.errors = <<>> /\ Idle.reasons = <<>>
    BY DEF Idle, Frame
  <2> HIDE DEF Idle
  <2>3. \A i \in 1 .. Len(callers') : callers'[i] = Idle
    BY <2>1
  <2>4. ASSUME NEW S, <<>> \in S PROVE AllTrue(S)'
    BY <2>1, <2>2, <2>3, <2>4 DEF AllTrue, Waits
  <2> QED BY <2>1, <2>4 DEF TrueInv, TrueLists
<1>4. CASE Validate
  <2>1. /\ Working /\ ValidateStep /\ phase = "asked" /\ phase' = "asked"
        /\ UNCHANGED <<asked, rootType, types>>
    BY <1>4, ValidateWorks DEF Validate, loadingVars
  <2>2. ASSUME asked.expr \in U, NEW Ok, NEW S, IsMeaning(types, U, Ok), TrueLists(types, U, Ok, S)
        PROVE  AllTrue(S)'
    <3>1. Meaning(U, Ok) /\ AllTrue(S)
      BY <2>1, <2>2 DEF Meaning, MeantInv, SafeInv, TrueInv
    <3> QED BY <2>1, <2>2, <3>1, ValidateTrue DEF Same
  <2> QED BY <2>1, <2>2 DEF TrueInv
<1>5. CASE Answered
  <2>1. /\ phase = "asked" /\ cur.pc = "root" /\ phase' = "loaded"
        /\ UNCHANGED <<asked, types, rootType>>
        /\ answer'.errors = ret.errors
           \/ answer'.errors = <<Refusal("unable to validate", ret.errors)>>
    BY <1>5 DEF Answered, Failure, Refusal
  <2>2. ASSUME asked.expr \in U, NEW Ok, NEW S, IsMeaning(types, U, Ok), TrueLists(types, U, Ok, S)
        PROVE  ret.errors \in S
    BY <2>1, <2>2 DEF TrueInv, AllTrue, Waits
  <2> QED BY <2>1, <2>2 DEF TrueInv, Refusal
<1>6. CASE Destroy
  BY <1>6 DEF Destroy, TrueInv
<1>7. CASE UNCHANGED schemaVars
  BY <1>7 DEF schemaVars, TrueInv, AllTrue, Refusal
<1> QED BY <1>1, <1>2, <1>3, <1>4, <1>5, <1>6, <1>7 DEF SchemaNext, LoadStep, Over

(* What is reported is true: the errors of an answer, or those below the one *)
(* that says the validation failed, are in every set of lists that has the  *)
(* empty one and grows by joining two of them and by an error that names a   *)
(* type of the document, an expression that does not conform to it, and a    *)
(* list of the set as its reasons.  So nothing is reported of a type that    *)
(* was tried and matched, at any depth, and no type is found unresolved      *)
(* (wexprSchema_Type_validateObject and wexprSchema_TypeInstance_            *)
(* validateObject, wexprSchema_Error_setChild).                              *)
THEOREM ErrorsAreTrue ==
  ASSUME NEW CONSTANT U, Whole(U)
  PROVE  SchemaSpec =>
           [](phase = "loaded" /\ answer.given /\ asked.expr \in U =>
                \A S : TrueLists(DefinedTypes, U, Conforming(DefinedTypes, U), S) =>
                  \/ answer.errors \in S
                  \/ \E why, child : child \in S /\ answer.errors = <<Refusal(why, child)>>)
<1> DEFINE Truth == phase = "loaded" /\ answer.given /\ asked.expr \in U =>
                     \A S : TrueLists(DefinedTypes, U, Conforming(DefinedTypes, U), S) =>
                       \/ answer.errors \in S
                       \/ \E why, child : child \in S /\ answer.errors = <<Refusal(why, child)>>
<1>1. SchemaInit => SchemaInv /\ DefinedInv /\ RootInv /\ SafeInv(U) /\ MeantInv(U) /\ TrueInv(U)
  <2>1. SchemaInit => phase = "locate" /\ ~answer.given
    BY DEF SchemaInit, Unanswered
  <2> QED BY <2>1, SchemaInvInit, RootInit DEF DefinedInv, SafeInv, MeantInv, TrueInv
<1>2. TrueInv(U) /\ DefinedInv /\ RootInv /\ SafeInv(U) /\ MeantInv(U) /\ SchemaInv /\ [SchemaNext]_schemaVars
        => TrueInv(U)' /\ DefinedInv' /\ RootInv' /\ SafeInv(U)' /\ MeantInv(U)'
  BY DefinedInductive, RootInductive, SafeInductive, MeantInductive, TrueInductive DEF SchemaInv
<1>3. SchemaInv /\ DefinedInv /\ RootInv /\ TrueInv(U) => Truth
  <2> SUFFICES ASSUME SchemaInv, DefinedInv, RootInv, TrueInv(U),
                      phase = "loaded", answer.given, asked.expr \in U,
                      NEW S, TrueLists(DefinedTypes, U, Conforming(DefinedTypes, U), S)
               PROVE  \/ answer.errors \in S
                      \/ \E why, child : child \in S /\ answer.errors = <<Refusal(why, child)>>
    OBVIOUS
  <2>1. types = DefinedTypes
    BY TypesDefined
  <2> QED BY <2>1, ConformingIsMeaning DEF TrueInv
<1> HIDE DEF Truth
<1>4. SchemaSpec => []Truth
  BY <1>1, <1>2, <1>3, SchemaInductive, PTL DEF SchemaSpec
<1> QED BY <1>4 DEF Truth

-----------------------------------------------------------------------------
(* Induction is by the least counterexample: a set of numbers that is not   *)
(* empty has a least one.                                                   *)
LEMMA LeastOf ==
  ASSUME NEW S \in SUBSET Nat, S # {}
  PROVE  \E n \in S : \A m \in S : n <= m
<1> DEFINE R == OpToRel(<, Nat)
<1>1. IsWellFoundedOn(R, Nat)
  BY NatLessThanWellFounded
<1> HIDE DEF R
<1>2. PICK n \in S : \A m \in S : ~(<<m, n>> \in R)
  BY <1>1, WFMin
<1>3. \A m, k \in Nat : m < k => <<m, k>> \in R
  BY DEF OpToRel, R
<1>4. ASSUME NEW m \in S PROVE n <= m
  <2>1. n \in Nat /\ m \in Nat /\ ~(m < n)
    BY <1>2, <1>3
  <2> QED BY <2>1
<1> QED BY <1>4

(* Sets that grow step by step from a first one: there are such sets, and   *)
(* once there is no more to come, or nothing left to add, they stay.        *)
ChainTo(g, n, S, first, step) ==
  /\ g \in [Nat -> SUBSET S] /\ g[0] = first
  /\ \A k \in Nat : k < n => g[k + 1] = step[g[k]]

Chain(f, S, first, step) ==
  f \in [Nat -> SUBSET S] /\ f[0] = first /\ \A n \in Nat : f[n + 1] = step[f[n]]

LEMMA ChainsTo ==
  ASSUME NEW S, NEW first \in SUBSET S, NEW step \in [SUBSET S -> SUBSET S], NEW m \in Nat
  PROVE  \E g : ChainTo(g, m, S, first, step)
<1> DEFINE Without == {n \in Nat : ~ \E g : ChainTo(g, n, S, first, step)}
<1>1. SUFFICES ASSUME NEW n \in Without, \A k \in Without : n <= k PROVE FALSE
  <2>1. Without \in SUBSET Nat
    OBVIOUS
  <2>2. Without = {} => \E g : ChainTo(g, m, S, first, step)
    OBVIOUS
  <2> HIDE DEF Without
  <2> QED BY <2>1, <2>2, LeastOf
<1>2. CASE n = 0
  <2> DEFINE g == [k \in Nat |-> first]
  <2>1. ChainTo(g, 0, S, first, step)
    BY DEF ChainTo
  <2> HIDE DEF g
  <2> QED BY <1>2, <2>1
<1>3. CASE n # 0
  <2>1. n \in Nat /\ n - 1 \in Nat /\ ~(n <= n - 1)
    BY <1>3
  <2>2. PICK g : ChainTo(g, n - 1, S, first, step)
    BY <1>1, <2>1
  <2> DEFINE h == [k \in Nat |-> IF k = n THEN step[g[n - 1]] ELSE g[k]]
  <2>3. h \in [Nat -> SUBSET S] /\ h[0] = first
    BY <1>3, <2>1, <2>2 DEF ChainTo
  <2>4. h[n] = step[g[n - 1]] /\ \A k \in Nat : k # n => h[k] = g[k]
    BY <2>1
  <2> HIDE DEF h
  <2>5. ASSUME NEW k \in Nat, k < n PROVE h[k + 1] = step[h[k]]
    <3>1. CASE k + 1 = n
      <4>1. k = n - 1 /\ k # n
        BY <2>1, <3>1
      <4> QED BY <2>4, <3>1, <4>1
    <3>2. CASE k + 1 # n
      <4>1. k < n - 1 /\ k # n /\ k + 1 \in Nat
        BY <2>1, <2>5, <3>2
      <4>2. g[k + 1] = step[g[k]]
        BY <2>2, <4>1 DEF ChainTo
      <4> QED BY <2>4, <3>2, <4>1, <4>2
    <3> QED BY <3>1, <3>2
  <2>6. ChainTo(h, n, S, first, step)
    BY <2>3, <2>5 DEF ChainTo
  <2> QED BY <2>6
<1> QED BY <1>2, <1>3

LEMMA ChainsAgree ==
  ASSUME NEW S, NEW first, NEW step, NEW n \in Nat, NEW m \in Nat, NEW g, NEW h,
         ChainTo(g, n, S, first, step), ChainTo(h, m, S, first, step),
         NEW k \in Nat, k <= n, k <= m
  PROVE  g[k] = h[k]
<1> DEFINE Apart == {i \in Nat : i <= n /\ i <= m /\ g[i] # h[i]}
<1>1. SUFFICES ASSUME NEW i \in Apart, \A j \in Apart : i <= j PROVE FALSE
  <2>1. Apart \in SUBSET Nat /\ (Apart = {} => g[k] = h[k])
    OBVIOUS
  <2> HIDE DEF Apart
  <2> QED BY <2>1, LeastOf
<1>2. i # 0
  BY DEF ChainTo
<1>3. i - 1 \in Nat /\ i - 1 < n /\ i - 1 < m /\ (i - 1) + 1 = i /\ ~(i <= i - 1)
  BY <1>2
<1>4. i - 1 \notin Apart
  BY <1>1, <1>3
<1>5. g[i - 1] = h[i - 1]
  BY <1>3, <1>4
<1>6. g[(i - 1) + 1] = step[g[i - 1]] /\ h[(i - 1) + 1] = step[h[i - 1]]
  BY <1>3 DEF ChainTo
<1> QED BY <1>3, <1>5, <1>6

LEMMA ChainsExist ==
  ASSUME NEW S, NEW first \in SUBSET S, NEW step \in [SUBSET S -> SUBSET S]
  PROVE  \E f : Chain(f, S, first, step)
<1> DEFINE G(n) == CHOOSE g : ChainTo(g, n, S, first, step)
           f == [n \in Nat |-> G(n)[n]]
<1>1. \A n \in Nat : ChainTo(G(n), n, S, first, step)
  BY ChainsTo
<1> HIDE DEF G
<1>2. f \in [Nat -> SUBSET S] /\ f[0] = first
  BY <1>1 DEF ChainTo
<1>3. ASSUME NEW n \in Nat PROVE f[n + 1] = step[f[n]]
  <2>1. n + 1 \in Nat /\ n <= n /\ n <= n + 1 /\ n < n + 1
    OBVIOUS
  <2>2. ChainTo(G(n), n, S, first, step) /\ ChainTo(G(n + 1), n + 1, S, first, step)
    BY <1>1, <2>1
  <2>3. G(n)[n] = G(n + 1)[n]
    BY <2>1, <2>2, ChainsAgree
  <2>4. G(n + 1)[n + 1] = step[G(n + 1)[n]]
    BY <2>1, <2>2 DEF ChainTo
  <2> QED BY <2>1, <2>3, <2>4
<1> HIDE DEF f
<1>4. Chain(f, S, first, step)
  BY <1>2, <1>3 DEF Chain
<1> QED BY <1>4

LEMMA ChainStops ==
  ASSUME NEW S, IsFiniteSet(S), NEW f \in [Nat -> SUBSET S],
         \A n \in Nat : f[n] \subseteq f[n + 1],
         \A n \in Nat : f[n + 1] = f[n] => f[(n + 1) + 1] = f[n + 1]
  PROVE  f[Cardinality(S) + 1] = f[Cardinality(S)]
<1>0. \A n \in Nat : IsFiniteSet(f[n]) /\ Cardinality(f[n]) \in Nat
  BY FS_Subset, FS_CardinalityType
<1> DEFINE Bad == {n \in Nat : ~(f[n + 1] = f[n] \/ Cardinality(f[n]) >= n)}
<1>1. Bad = {}
  <2>1. SUFFICES ASSUME NEW n \in Bad, \A k \in Bad : n <= k PROVE FALSE
    <3>1. Bad \in SUBSET Nat
      OBVIOUS
    <3> HIDE DEF Bad
    <3> QED BY <3>1, LeastOf
  <2>2. n # 0
    BY <1>0
  <2>3. n - 1 \in Nat /\ (n - 1) + 1 = n /\ ~(n <= n - 1)
    BY <2>2
  <2>4. f[n] = f[n - 1] \/ Cardinality(f[n - 1]) >= n - 1
    BY <2>1, <2>3
  <2>5. f[n] # f[n - 1]
    BY <2>3
  <2>6. f[n - 1] \subseteq f[n]
    BY <2>3
  <2>7. Cardinality(f[n - 1]) < Cardinality(f[n])
    <3>1. Cardinality(f[n - 1]) <= Cardinality(f[n])
          /\ (Cardinality(f[n - 1]) = Cardinality(f[n]) => f[n - 1] = f[n])
      BY <1>0, <2>3, <2>6, FS_Subset
    <3>2. Cardinality(f[n]) \in Nat /\ Cardinality(f[n - 1]) \in Nat
      BY <1>0, <2>3
    <3>3. Cardinality(f[n - 1]) # Cardinality(f[n])
      BY <2>5, <3>1
    <3> QED BY <3>1, <3>2, <3>3
  <2>8. Cardinality(f[n]) >= n
    BY <1>0, <2>3, <2>4, <2>5, <2>7
  <2> QED BY <2>8
<1>2. Cardinality(S) \in Nat
  BY FS_CardinalityType
<1>3. CASE Cardinality(f[Cardinality(S)]) >= Cardinality(S)
  <2>1. f[Cardinality(S)] \subseteq S /\ f[Cardinality(S) + 1] \subseteq S
    BY <1>2
  <2>2. Cardinality(f[Cardinality(S)]) <= Cardinality(S)
        /\ (Cardinality(f[Cardinality(S)]) = Cardinality(S) => f[Cardinality(S)] = S)
    BY <2>1, FS_Subset
  <2>3. f[Cardinality(S)] = S
    BY <1>0, <1>2, <1>3, <2>2
  <2> QED BY <1>2, <2>1, <2>3
<1> QED BY <1>1, <1>2, <1>3

(* What is reached from a type: where its references lead, and theirs, and  *)
(* nothing else.                                                            *)
Reach(next, reached) == reached \cup UNION {next[other] : other \in reached}

LEMMA FollowingIs ==
  ASSUME NEW T, IsFiniteSet(DOMAIN T), NEW next \in [DOMAIN T -> SUBSET DOMAIN T],
         NEW name \in DOMAIN T
  PROVE  /\ Following(T, next, name) \subseteq DOMAIN T
         /\ next[name] \subseteq Following(T, next, name)
         /\ \A other \in Following(T, next, name) : next[other] \subseteq Following(T, next, name)
         /\ \A S : /\ next[name] \subseteq S
                   /\ \A other \in S \cap DOMAIN T : next[other] \subseteq S
                   => Following(T, next, name) \subseteq S
<1> DEFINE step == [reached \in SUBSET DOMAIN T |-> Reach(next, reached)]
           K == Cardinality(DOMAIN T)
<1>1. step \in [SUBSET DOMAIN T -> SUBSET DOMAIN T]
  BY DEF Reach
<1>2. \A reached \in SUBSET DOMAIN T : step[reached] = Reach(next, reached)
  OBVIOUS
<1> HIDE DEF step
<1>3. next[name] \in SUBSET DOMAIN T
  OBVIOUS
<1>b. PICK f : Chain(f, DOMAIN T, next[name], step)
  BY <1>1, <1>3, ChainsExist
<1>4. f \in [Nat -> SUBSET DOMAIN T] /\ f[0] = next[name] /\ \A n \in Nat : f[n + 1] = step[f[n]]
  BY <1>b DEF Chain
<1>5. \A n \in Nat : f[n + 1] = f[n] \cup UNION {next[other] : other \in f[n]}
  BY <1>2, <1>4 DEF Reach
<1>6. f = [n \in Nat |-> IF n = 0 THEN next[name]
                         ELSE f[n - 1] \cup UNION {next[other] : other \in f[n - 1]}]
  <2>1. \A n \in Nat : n # 0 => n - 1 \in Nat /\ (n - 1) + 1 = n
    OBVIOUS
  <2>2. ASSUME NEW n \in Nat, n # 0
        PROVE  f[n] = f[n - 1] \cup UNION {next[other] : other \in f[n - 1]}
    BY <1>5, <2>1, <2>2
  <2> QED BY <1>4, <2>2
<1>7. PICK r : /\ r = [n \in Nat |-> IF n = 0 THEN next[name]
                                     ELSE r[n - 1] \cup UNION {next[other] : other \in r[n - 1]}]
               /\ Following(T, next, name) = r[K]
  BY <1>6 DEF Following
<1>8. r[0] = next[name] /\ \A n \in Nat : r[n + 1] = r[n] \cup UNION {next[other] : other \in r[n]}
  <2>1. r[0] = next[name]
    BY <1>7
  <2>2. ASSUME NEW n \in Nat PROVE r[n + 1] = r[n] \cup UNION {next[other] : other \in r[n]}
    <3>1. n + 1 \in Nat /\ n + 1 # 0 /\ (n + 1) - 1 = n
      OBVIOUS
    <3> QED BY <1>7, <3>1
  <2> QED BY <2>1, <2>2
<1>9. \A n \in Nat : r[n] = f[n]
  <2> DEFINE Apart == {n \in Nat : r[n] # f[n]}
  <2>1. SUFFICES ASSUME NEW n \in Apart, \A k \in Apart : n <= k PROVE FALSE
    <3>1. Apart \in SUBSET Nat
      OBVIOUS
    <3>2. Apart = {} => \A n \in Nat : r[n] = f[n]
      OBVIOUS
    <3> HIDE DEF Apart
    <3> QED BY <3>1, <3>2, LeastOf
  <2>2. n # 0
    BY <1>4, <1>8
  <2>3. n - 1 \in Nat /\ (n - 1) + 1 = n /\ ~(n <= n - 1)
    BY <2>2
  <2>4. r[n - 1] = f[n - 1]
    BY <2>1, <2>3
  <2> QED BY <1>5, <1>8, <2>3, <2>4
<1>10. K \in Nat
  BY FS_CardinalityType
<1>11. Following(T, next, name) = f[K]
  BY <1>7, <1>9, <1>10
<1> HIDE DEF K
<1>12. \A n \in Nat : f[n] \subseteq f[n + 1]
  BY <1>5
<1>13. \A n \in Nat : f[n + 1] = f[n] => f[(n + 1) + 1] = f[n + 1]
  BY <1>4
<1>14. f[K + 1] = f[K]
  BY <1>4, <1>12, <1>13, ChainStops DEF K
<1>15. \A other \in f[K] : next[other] \subseteq f[K]
  BY <1>5, <1>10, <1>14
<1>16. ASSUME NEW S, next[name] \subseteq S, \A other \in S \cap DOMAIN T : next[other] \subseteq S
       PROVE  f[K] \subseteq S
  <2> DEFINE Out == {n \in Nat : ~(f[n] \subseteq S)}
  <2>1. SUFFICES ASSUME NEW n \in Out, \A k \in Out : n <= k PROVE FALSE
    <3>1. Out \in SUBSET Nat /\ (Out = {} => f[K] \subseteq S)
      BY <1>10
    <3> HIDE DEF Out
    <3> QED BY <3>1, LeastOf
  <2>2. n # 0
    BY <1>4, <1>16
  <2>3. n - 1 \in Nat /\ (n - 1) + 1 = n /\ ~(n <= n - 1)
    BY <2>2
  <2>4. f[n - 1] \subseteq S /\ f[n - 1] \subseteq DOMAIN T
    BY <1>4, <2>1, <2>3
  <2>5. f[n] = f[n - 1] \cup UNION {next[other] : other \in f[n - 1]}
    BY <1>5, <2>3
  <2>6. f[n] \subseteq S
    BY <1>16, <2>4, <2>5
  <2> QED BY <2>6
<1>17. f[0] \subseteq f[K]
  <2> DEFINE Out == {n \in Nat : ~(f[0] \subseteq f[n])}
  <2>1. SUFFICES ASSUME NEW n \in Out, \A k \in Out : n <= k PROVE FALSE
    <3>1. Out \in SUBSET Nat /\ (Out = {} => f[0] \subseteq f[K])
      BY <1>10
    <3> HIDE DEF Out
    <3> QED BY <3>1, LeastOf
  <2>2. n # 0
    OBVIOUS
  <2>3. n - 1 \in Nat /\ (n - 1) + 1 = n /\ ~(n <= n - 1)
    BY <2>2
  <2>4. f[0] \subseteq f[n - 1] /\ f[n - 1] \subseteq f[n]
    BY <1>12, <2>1, <2>3
  <2> QED BY <2>4
<1> QED BY <1>4, <1>10, <1>11, <1>15, <1>16, <1>17

-----------------------------------------------------------------------------
(* What a type holds, by its definition. *)
Made(d) == Resolved(createFromExpression(d))
Placed(inner) == ResolvedInstance(TypeInstance(inner))

LEMMA PlacedIs ==
  ASSUME NEW inner
  PROVE  /\ Placed(inner).optional = Says(inner, "optional", "true")
         /\ TypeInstance(inner).type # NullRef =>
              Attribute(inner, "type") = {Placed(inner).type.name}
<1>1. TypeInstance(inner) =
        [type |-> IF "type" \in DOMAIN inner THEN TypeRef(inner["type"]) ELSE NullRef,
         optional |-> Says(inner, "optional", "true")]
  BY DEF TypeInstance
<1>2. IsInstance(TypeInstance(inner))
  BY InstancesAre
<1>3. Placed(inner) = [type |-> ResolvedRef(TypeInstance(inner).type),
                       optional |-> TypeInstance(inner).optional]
  BY <1>2 DEF IsInstance, ResolvedInstance, Placed
<1>4. ResolvedRef(TypeInstance(inner).type) = [name |-> TypeInstance(inner).type.name, resolved |-> TRUE]
  BY <1>2, RefUpdated DEF IsInstance, ResolvedRef
<1>5. TypeInstance(inner).type # NullRef =>
        "type" \in DOMAIN inner /\ TypeInstance(inner).type.name = inner["type"]
  BY <1>1 DEF TypeRef
<1> QED BY <1>1, <1>3, <1>4, <1>5 DEF Attribute

LEMMA MadeIs ==
  ASSUME NEW d
  PROVE  /\ Made(d).primitive = OwnKinds(d)
         /\ Made(d).types = IF "type" \in DOMAIN d
                            THEN [i \in DOMAIN d["type"] |-> ResolvedRef(TypeRefs(d["type"])[i])] ELSE <<>>
         /\ Made(d).regex = Attribute(d, "valueRegex")
         /\ Made(d).arrayAllElements = {Placed(inner) : inner \in Attribute(d, "arrayAllElements")}
         /\ Made(d).mapProperties = [key \in DOMAIN Properties(d).pairs |-> Placed(Properties(d).pairs[key])]
         /\ Made(d).mapKeyType = {Placed(inner) : inner \in Attribute(d, "mapValueForKey")}
         /\ Made(d).mapAllProperties = {Placed(inner) : inner \in Attribute(d, "mapAllProperties")}
         /\ Made(d).mapAllowAdditionalProperties = Says(d, "mapAllowAdditionalProperties", "true")
<1> DEFINE type == createFromExpression(d)
<1>1. IsTypeRecord(type)
  BY CreatedIsType
<1>2. /\ type.primitive = OwnKinds(d)
      /\ type.types = IF "type" \in DOMAIN d THEN TypeRefs(d["type"]) ELSE <<>>
      /\ type.regex = Attribute(d, "valueRegex")
      /\ type.arrayAllElements = Instances(d, "arrayAllElements")
      /\ type.mapProperties = [key \in DOMAIN Properties(d).pairs |-> TypeInstance(Properties(d).pairs[key])]
      /\ type.mapKeyType = Instances(d, "mapValueForKey")
      /\ type.mapAllProperties = Instances(d, "mapAllProperties")
      /\ type.mapAllowAdditionalProperties = Says(d, "mapAllowAdditionalProperties", "true")
  BY DEF createFromExpression, OwnKinds
<1> HIDE DEF type
<1>3. /\ Made(d).primitive = type.primitive
      /\ Made(d).types = [i \in DOMAIN type.types |-> ResolvedRef(type.types[i])]
      /\ Made(d).regex = type.regex
      /\ Made(d).arrayAllElements = ResolvedInstances(type.arrayAllElements)
      /\ Made(d).mapProperties = [key \in DOMAIN type.mapProperties |-> ResolvedInstance(type.mapProperties[key])]
      /\ Made(d).mapKeyType = ResolvedInstances(type.mapKeyType)
      /\ Made(d).mapAllProperties = ResolvedInstances(type.mapAllProperties)
      /\ Made(d).mapAllowAdditionalProperties = type.mapAllowAdditionalProperties
  BY <1>1, ResolvedIs DEF Made, type
<1>4. \A key : ResolvedInstances(Instances(d, key)) = {Placed(inner) : inner \in Attribute(d, key)}
  BY DEF ResolvedInstances, Instances, Placed
<1>5. Made(d).mapProperties = [key \in DOMAIN Properties(d).pairs |-> Placed(Properties(d).pairs[key])]
  BY <1>2, <1>3 DEF Placed
<1>6. Made(d).types = IF "type" \in DOMAIN d
                      THEN [i \in DOMAIN d["type"] |-> ResolvedRef(TypeRefs(d["type"])[i])] ELSE <<>>
  <2>1. \A names : DOMAIN TypeRefs(names) = DOMAIN names
    BY DEF TypeRefs
  <2>2. CASE "type" \in DOMAIN d
    BY <1>2, <1>3, <2>1, <2>2
  <2>3. CASE "type" \notin DOMAIN d
    <3>1. [i \in DOMAIN <<>> |-> ResolvedRef(<<>>[i])] = <<>>
      OBVIOUS
    <3> QED BY <1>2, <1>3, <2>3, <3>1
  <2> QED BY <2>2, <2>3
<1> QED BY <1>2, <1>3, <1>4, <1>5, <1>6

LEMMA MadeNames ==
  ASSUME NEW d, IsDefinition(d)
  PROVE  /\ Made(d).types \in Seq(Refs)
         /\ \A i \in DOMAIN Made(d).types : Made(d).types[i].name \in Named(d)
         /\ \A name \in Named(d) : \E i \in DOMAIN Made(d).types : Made(d).types[i].name = name
<1>1. CASE "type" \notin DOMAIN d
  <2>1. Made(d).types = <<>> /\ Named(d) = {}
    BY <1>1, MadeIs DEF Named, Attribute
  <2> QED BY <2>1
<1>2. CASE "type" \in DOMAIN d
  <2> DEFINE names == d["type"]
             refs == Made(d).types
  <2>1. names \in Seq(STRING) /\ Named(d) = {names[i] : i \in DOMAIN names}
    BY <1>2 DEF IsDefinition, Attribute, Named
  <2>2. refs = [i \in DOMAIN names |-> ResolvedRef(TypeRefs(names)[i])]
    BY <1>2, MadeIs
  <2> HIDE DEF names, refs
  <2>3. Len(names) \in Nat /\ DOMAIN names = 1 .. Len(names)
    BY <2>1
  <2>4. ASSUME NEW i \in DOMAIN names
        PROVE  /\ Len(names) + 1 - i \in DOMAIN names /\ Len(names) + 1 - (Len(names) + 1 - i) = i
               /\ refs[i] = [name |-> names[Len(names) + 1 - i], resolved |-> TRUE]
    <3>1. Len(names) + 1 - i \in DOMAIN names /\ Len(names) + 1 - (Len(names) + 1 - i) = i
      BY <2>3
    <3>2. TypeRefs(names)[i] = TypeRef(names[Len(names) + 1 - i])
      BY DEF TypeRefs
    <3>3. IsRef(TypeRef(names[Len(names) + 1 - i]))
      BY DEF TypeRef, IsRef
    <3>4. refs[i] = ResolvedRef(TypeRef(names[Len(names) + 1 - i]))
      BY <2>2, <3>2
    <3> QED BY <3>1, <3>3, <3>4, RefUpdated DEF ResolvedRef, TypeRef
  <2>5. \A i \in DOMAIN names : names[i] \in STRING
    BY <2>1
  <2>6. ASSUME NEW i \in DOMAIN names PROVE refs[i] \in Refs
    <3>1. names[Len(names) + 1 - i] \in STRING
      BY <2>4, <2>5
    <3>2. refs[i] = [name |-> names[Len(names) + 1 - i], resolved |-> TRUE]
      BY <2>4
    <3> QED BY <3>1, <3>2 DEF Refs
  <2>7. refs \in Seq(Refs)
    BY <2>2, <2>3, <2>6
  <2>8. DOMAIN refs = DOMAIN names
    BY <2>2
  <2>9. \A i \in DOMAIN refs : refs[i].name \in Named(d)
    BY <2>1, <2>4, <2>8
  <2>10. ASSUME NEW i \in DOMAIN names PROVE \E j \in DOMAIN refs : refs[j].name = names[i]
    BY <2>4, <2>8
  <2> QED BY <2>1, <2>7, <2>9, <2>10 DEF refs
<1> QED BY <1>1, <1>2

-----------------------------------------------------------------------------
(* Types made from definitions, every reference of which leads somewhere.   *)
MadeFrom(T, D) ==
  /\ IsFiniteSet(DOMAIN D) /\ T = [name \in DOMAIN D |-> Made(D[name])]
  /\ \A name \in DOMAIN D :
       /\ IsDefinition(D[name]) /\ AllLead(Made(D[name]), DOMAIN D)
       /\ HasTypes(createFromExpression(D[name]))

LEMMA ParentsAre ==
  ASSUME NEW T, NEW D, MadeFrom(T, D)
  PROVE  /\ Parents(T) \in [DOMAIN T -> SUBSET DOMAIN T]
         /\ AskedParents(T) \in [DOMAIN T -> SUBSET DOMAIN T]
         /\ \A name \in DOMAIN D : /\ Parents(T)[name] = Named(D[name])
                                   /\ AskedParents(T)[name] = TakesFrom(D, name)
<1>0. DOMAIN T = DOMAIN D /\ \A name \in DOMAIN D : T[name] = Made(D[name])
  BY DEF MadeFrom
<1>1. ASSUME NEW name \in DOMAIN D
      PROVE  {T[name].types[i].name : i \in DOMAIN T[name].types} = Named(D[name])
  <2>1. IsDefinition(D[name]) /\ T[name] = Made(D[name])
    BY <1>0 DEF MadeFrom
  <2> QED BY <2>1, MadeNames
<1>2. \A name \in DOMAIN D : Parents(T)[name] = Named(D[name])
  BY <1>0, <1>1 DEF Parents
<1>3. ASSUME NEW name \in DOMAIN D PROVE Named(D[name]) \subseteq DOMAIN D
  <2>1. IsDefinition(D[name]) /\ AllLead(Made(D[name]), DOMAIN D)
    BY DEF MadeFrom
  <2>2. \A i \in DOMAIN Made(D[name]).types : Made(D[name]).types[i].name \in DOMAIN D
    BY <2>1 DEF AllLead, Leads
  <2> QED BY <2>1, <2>2, MadeNames
<1>4. \A name \in DOMAIN D : T[name].primitive = OwnKinds(D[name])
  BY <1>0, MadeIs
<1>5. \A name \in DOMAIN D : AskedParents(T)[name] = TakesFrom(D, name)
  BY <1>0, <1>2, <1>4 DEF AskedParents, TakesFrom
<1>6. Parents(T) \in [DOMAIN T -> SUBSET DOMAIN T]
  <2>1. Parents(T) = [name \in DOMAIN T |-> Parents(T)[name]]
    BY DEF Parents
  <2> QED BY <1>0, <1>2, <1>3, <2>1
<1>7. AskedParents(T) \in [DOMAIN T -> SUBSET DOMAIN T]
  <2>1. AskedParents(T) = [name \in DOMAIN T |-> AskedParents(T)[name]]
    BY DEF AskedParents
  <2> QED BY <1>0, <1>3, <1>5, <2>1 DEF TakesFrom
<1> QED BY <1>2, <1>5, <1>6, <1>7

(* The kinds a type may be are those its definition says. *)
LEMMA KindsAre ==
  ASSUME NEW T, NEW D, MadeFrom(T, D), NEW name \in DOMAIN D
  PROVE  primitiveTypes(T, name) = KindsOf(D, name)
<1> DEFINE F == Following(T, AskedParents(T), name)
           complete == {S \in SUBSET DOMAIN D :
                          name \in S /\ \A other \in S : TakesFrom(D, other) \subseteq S}
<1>0. DOMAIN T = DOMAIN D /\ IsFiniteSet(DOMAIN T) /\ \A other \in DOMAIN D : T[other].primitive = OwnKinds(D[other])
  <2>1. \A other \in DOMAIN D : T[other] = Made(D[other])
    BY DEF MadeFrom
  <2> QED BY <2>1, MadeIs DEF MadeFrom
<1>1. /\ AskedParents(T) \in [DOMAIN T -> SUBSET DOMAIN T]
      /\ \A other \in DOMAIN D : AskedParents(T)[other] = TakesFrom(D, other)
  BY ParentsAre
<1> DEFINE next == AskedParents(T)
<1>2. /\ F \subseteq DOMAIN T /\ next[name] \subseteq F
      /\ \A other \in F : next[other] \subseteq F
      /\ \A S : /\ next[name] \subseteq S
                /\ \A other \in S \cap DOMAIN T : next[other] \subseteq S
                => F \subseteq S
  <2> HIDE DEF next
  <2>1. next \in [DOMAIN T -> SUBSET DOMAIN T]
    BY <1>1 DEF next
  <2> QED BY <1>0, <2>1, FollowingIs DEF next
<1> HIDE DEF F, next
<1>3. \A other \in DOMAIN D : next[other] = TakesFrom(D, other)
  BY <1>1 DEF next
<1>4. {name} \cup F \in complete
  BY <1>0, <1>2, <1>3
<1>5. \A S \in complete : {name} \cup F \subseteq S
  BY <1>0, <1>2, <1>3
<1>6. primitiveTypes(T, name) = UNION {OwnKinds(D[other]) : other \in {name} \cup F}
  <2>1. primitiveTypes(T, name) = UNION {T[other].primitive : other \in {name} \cup F}
    BY DEF primitiveTypes, F, next
  <2>2. {name} \cup F \subseteq DOMAIN D
    BY <1>0, <1>2
  <2> QED BY <1>0, <2>1, <2>2
<1>7. \A other : OwnKinds(D[other]) \subseteq PrimitiveTypes
  BY DEF OwnKinds, fromString, PrimitiveTypes
<1>8. KindsOf(D, name) =
        {kind \in PrimitiveTypes : \A S \in complete : \E other \in S : kind \in OwnKinds(D[other])}
  BY DEF KindsOf
<1> HIDE DEF complete
<1>9. ASSUME NEW kind \in UNION {OwnKinds(D[other]) : other \in {name} \cup F}
      PROVE  kind \in KindsOf(D, name)
  <2>1. PICK other \in {name} \cup F : kind \in OwnKinds(D[other])
    OBVIOUS
  <2>2. kind \in PrimitiveTypes
    BY <1>7, <2>1
  <2>3. \A S \in complete : other \in S
    BY <1>5, <2>1
  <2> QED BY <1>8, <2>1, <2>2, <2>3
<1>10. ASSUME NEW kind \in KindsOf(D, name)
       PROVE  kind \in UNION {OwnKinds(D[other]) : other \in {name} \cup F}
  BY <1>4, <1>8
<1> QED BY <1>6, <1>9, <1>10

LEMMA InnerHaveTypes ==
  ASSUME NEW d, HasTypes(createFromExpression(d))
  PROVE  /\ \A key \in {"arrayAllElements", "mapValueForKey", "mapAllProperties"} :
              \A inner \in Attribute(d, key) : TypeInstance(inner).type # NullRef
         /\ \A key \in DOMAIN Properties(d).pairs : TypeInstance(Properties(d).pairs[key]).type # NullRef
<1> DEFINE type == createFromExpression(d)
<1>1. 1 \in 1 .. 4 /\ 2 \in 1 .. 4 /\ 3 \in 1 .. 4 /\ 4 \in 1 .. 4
  OBVIOUS
<1>2. /\ type.arrayAllElements = Instances(d, "arrayAllElements")
      /\ type.mapProperties = [key \in DOMAIN Properties(d).pairs |-> TypeInstance(Properties(d).pairs[key])]
      /\ type.mapKeyType = Instances(d, "mapValueForKey")
      /\ type.mapAllProperties = Instances(d, "mapAllProperties")
  BY DEF createFromExpression
<1>3. /\ \A instance \in Stages(type)[1] : instance.type # NullRef
      /\ \A instance \in Stages(type)[2] : instance.type # NullRef
      /\ \A instance \in Stages(type)[3] : instance.type # NullRef
      /\ \A instance \in Stages(type)[4] : instance.type # NullRef
  BY <1>1 DEF HasTypes
<1> HIDE DEF type
<1>4. /\ \A key \in DOMAIN type.mapProperties : type.mapProperties[key].type # NullRef
      /\ \A instance \in type.arrayAllElements \cup type.mapKeyType \cup type.mapAllProperties :
           instance.type # NullRef
  <2>1. \A key \in DOMAIN type.mapProperties : type.mapProperties[key] \in Stages(type)[1]
    BY StagesAre
  <2> QED BY <1>3, <2>1, StagesAre
<1>5. \A key \in DOMAIN Properties(d).pairs : TypeInstance(Properties(d).pairs[key]).type # NullRef
  BY <1>2, <1>4
<1>6. /\ \A inner \in Attribute(d, "arrayAllElements") : TypeInstance(inner) \in type.arrayAllElements
      /\ \A inner \in Attribute(d, "mapValueForKey") : TypeInstance(inner) \in type.mapKeyType
      /\ \A inner \in Attribute(d, "mapAllProperties") : TypeInstance(inner) \in type.mapAllProperties
  BY <1>2 DEF Instances
<1> QED BY <1>4, <1>5, <1>6

LEMMA PlacedFits ==
  ASSUME NEW inner, TypeInstance(inner).type # NullRef, NEW Ok, NEW e
  PROVE  ConformsInstance(Ok, inner, e) <=> Fits(Ok, Placed(inner), e)
BY PlacedIs DEF ConformsInstance, Fits

(* What the rules ask beyond what is read from a definition: that its keys  *)
(* resolve to the type it names for them.                                   *)
KeysResolve(D, Ok, name, e) ==
  "Map" \in KindsOf(D, name) => \A key \in KeysIn(e) : KeyResolves(Ok, D[name], key)

LEMMA RulesAreMeant ==
  ASSUME NEW T, NEW D, MadeFrom(T, D), NEW name \in DOMAIN D, NEW Ok, NEW e, arrayCount(e) \in Nat
  PROVE  KeepsRules(D, Ok, name, e) <=> Meant(T, Ok, name, e) /\ KeysResolve(D, Ok, name, e)
<1> DEFINE d == D[name]
           t == T[name]
           kinds == KindsOf(D, name)
<1>1. IsDefinition(d) /\ HasTypes(createFromExpression(d)) /\ t = Made(d)
  BY DEF MadeFrom
<1>2. primitiveTypes(T, name) = kinds
  BY KindsAre
<1>3. "Invalid" \notin kinds
  BY DEF KindsOf, PrimitiveTypes, PrimitiveNames
<1>4. /\ t.types \in Seq(Refs)
      /\ \A i \in DOMAIN t.types : t.types[i].name \in Named(d)
      /\ \A other \in Named(d) : \E i \in DOMAIN t.types : t.types[i].name = other
  <2> HIDE DEF d, t
  <2> QED BY <1>1, MadeNames
<1>5. /\ t.regex = Attribute(d, "valueRegex")
      /\ t.arrayAllElements = {Placed(inner) : inner \in Attribute(d, "arrayAllElements")}
      /\ t.mapProperties = [key \in DOMAIN Properties(d).pairs |-> Placed(Properties(d).pairs[key])]
      /\ t.mapKeyType = {Placed(inner) : inner \in Attribute(d, "mapValueForKey")}
      /\ t.mapAllProperties = {Placed(inner) : inner \in Attribute(d, "mapAllProperties")}
      /\ t.mapAllowAdditionalProperties = Says(d, "mapAllowAdditionalProperties", "true")
  <2> HIDE DEF d, t
  <2> QED BY <1>1, MadeIs
<1>6. /\ \A key \in {"arrayAllElements", "mapValueForKey", "mapAllProperties"} :
           \A inner \in Attribute(d, key) : \A x : ConformsInstance(Ok, inner, x) <=> Fits(Ok, Placed(inner), x)
      /\ \A key \in DOMAIN Properties(d).pairs : \A x :
           ConformsInstance(Ok, Properties(d).pairs[key], x) <=> Fits(Ok, Placed(Properties(d).pairs[key]), x)
  <2> HIDE DEF d, t
  <2> QED BY <1>1, InnerHaveTypes, PlacedFits
<1> HIDE DEF d, t, kinds
<1>7. TypeOf(e) \in kinds <=> KindFits(T, name, e)
  BY <1>2, <1>3 DEF KindFits, matchesExpressionType
<1>8. (Named(d) = {} \/ \E other \in Named(d) : <<other, e>> \in Ok)
        <=> (t.types = <<>> \/ SomeTypeFits(T, Ok, name, e, 1))
  <2>1. Len(t.types) \in Nat /\ DOMAIN t.types = 1 .. Len(t.types) /\ (t.types = <<>> <=> Len(t.types) = 0)
    BY <1>4
  <2>2. t.types = <<>> <=> Named(d) = {}
    <3>1. ASSUME t.types = <<>> PROVE Named(d) = {}
      BY <1>4, <2>1, <3>1
    <3>2. ASSUME t.types # <<>> PROVE Named(d) # {}
      <4>1. 1 \in DOMAIN t.types
        BY <2>1, <3>2
      <4> QED BY <1>4, <4>1
    <3> QED BY <3>1, <3>2
  <2>3. SomeTypeFits(T, Ok, name, e, 1) <=> \E j \in DOMAIN t.types : <<t.types[j].name, e>> \in Ok
    <3>1. \A j : j \in DOMAIN t.types <=> j \in Nat \ {0} /\ 1 <= j /\ j <= Len(t.types)
      BY <2>1
    <3> QED BY <3>1 DEF SomeTypeFits, t
  <2>4. (\E j \in DOMAIN t.types : <<t.types[j].name, e>> \in Ok) <=> \E other \in Named(d) : <<other, e>> \in Ok
    BY <1>4
  <2> QED BY <2>2, <2>3, <2>4
<1>9. ("Array" \in kinds => ArrayRules(Ok, d, e)) <=> ElementsFit(T, Ok, name, e, 1)
  <2>1. \A x : x \in Elements(e) <=> \E j \in Nat \ {0} : 1 <= j /\ j <= arrayCount(e) /\ x = e.list[j]
    <3>1. \A j : j \in 1 .. arrayCount(e) <=> j \in Nat \ {0} /\ 1 <= j /\ j <= arrayCount(e)
      OBVIOUS
    <3> QED BY <3>1 DEF Elements
  <2>2. ElementsFit(T, Ok, name, e, 1) <=>
          ("Array" \in kinds => \A rule \in t.arrayAllElements : \A x \in Elements(e) : Fits(Ok, rule, x))
    BY <1>2, <2>1 DEF ElementsFit, If, t
  <2>3. (\A rule \in t.arrayAllElements : \A x \in Elements(e) : Fits(Ok, rule, x)) <=> ArrayRules(Ok, d, e)
    BY <1>5, <1>6 DEF ArrayRules
  <2> QED BY <2>2, <2>3
<1>10. ("Value" \in kinds => ValueRules(d, e)) <=> ValueFits(T, name, e)
  BY <1>2, <1>5 DEF ValueRules, ValueFits, If, t
<1>k. KeysResolve(D, Ok, name, e) <=> ("Map" \in kinds => \A key \in KeysIn(e) : KeyResolves(Ok, d, key))
  BY DEF KeysResolve, d, kinds
<1>11. ("Map" \in kinds => MapRules(Ok, d, e)) <=>
         /\ KeysResolve(D, Ok, name, e)
         /\ PropertiesFit(T, Ok, name, e, If(T, name, "Map", DOMAIN t.mapProperties))
         /\ \A key \in KeysIn(e) : KeyFits(T, Ok, name, key) /\ PairFits(T, Ok, name, e, key)
         /\ NoneAdditional(T, name, e)
  <2> DEFINE properties == Properties(d).pairs
  <2>0. DOMAIN t.mapProperties = DOMAIN properties
    BY <1>5
  <2>1. PropertiesFit(T, Ok, name, e, If(T, name, "Map", DOMAIN t.mapProperties)) <=>
          ("Map" \in kinds => \A key \in DOMAIN properties :
                                ConformsInstance(Ok, properties[key], mapValueForKey(e, key)))
    <3>1. \A key \in DOMAIN properties : \A x :
            Fits(Ok, t.mapProperties[key], x) <=> ConformsInstance(Ok, properties[key], x)
      BY <1>5, <1>6
    <3> HIDE DEF properties
    <3> QED BY <1>2, <2>0, <3>1 DEF PropertiesFit, If, t
  <2>2. ASSUME NEW key
        PROVE  KeyFits(T, Ok, name, key) <=>
                 ("Map" \in kinds => \A rule \in Attribute(d, "mapValueForKey") : ConformsInstance(Ok, rule, Value(key)))
    <3>1. (\A rule \in t.mapKeyType : Fits(Ok, rule, Value(key))) <=>
          \A rule \in Attribute(d, "mapValueForKey") : ConformsInstance(Ok, rule, Value(key))
      BY <1>5, <1>6
    <3> QED BY <1>2, <3>1 DEF KeyFits, If, t
  <2>3. ASSUME NEW key
        PROVE  PairFits(T, Ok, name, e, key) <=>
                 ("Map" \in kinds => \A rule \in Attribute(d, "mapAllProperties") : ConformsInstance(Ok, rule, e.hash[key]))
    <3>1. (\A rule \in t.mapAllProperties : Fits(Ok, rule, e.hash[key])) <=>
          \A rule \in Attribute(d, "mapAllProperties") : ConformsInstance(Ok, rule, e.hash[key])
      BY <1>5, <1>6
    <3> QED BY <1>2, <3>1 DEF PairFits, If, t
  <2>4. NoneAdditional(T, name, e) <=>
          ("Map" \in kinds => \A key \in KeysIn(e) :
                                \/ Attribute(d, "mapAllProperties") # {}
                                \/ Says(d, "mapAllowAdditionalProperties", "true")
                                \/ key \in DOMAIN properties)
    <3>1. t.mapAllProperties # {} <=> Attribute(d, "mapAllProperties") # {}
      BY <1>5
    <3>2. t.mapAllowAdditionalProperties = Says(d, "mapAllowAdditionalProperties", "true")
      BY <1>5
    <3> HIDE DEF properties
    <3> QED BY <1>2, <2>0, <3>1, <3>2 DEF NoneAdditional, t
  <2> QED BY <1>k, <2>1, <2>2, <2>3, <2>4 DEF MapRules, KeyConforms
<1>12. KeepsRules(D, Ok, name, e) <=>
         /\ TypeOf(e) \in kinds
         /\ Named(d) = {} \/ \E other \in Named(d) : <<other, e>> \in Ok
         /\ "Array" \in kinds => ArrayRules(Ok, d, e)
         /\ "Map" \in kinds => MapRules(Ok, d, e)
         /\ "Value" \in kinds => ValueRules(d, e)
  BY DEF KeepsRules, d, kinds
<1>13. Meant(T, Ok, name, e) <=>
         /\ KindFits(T, name, e)
         /\ t.types = <<>> \/ SomeTypeFits(T, Ok, name, e, 1)
         /\ ElementsFit(T, Ok, name, e, 1)
         /\ PropertiesFit(T, Ok, name, e, If(T, name, "Map", DOMAIN t.mapProperties))
         /\ \A key \in KeysIn(e) : KeyFits(T, Ok, name, key) /\ PairFits(T, Ok, name, e, key)
         /\ NoneAdditional(T, name, e)
         /\ ValueFits(T, name, e)
  BY DEF Meant, FromTypes, FromElements, FromProperties, FromPairs, t
<1> QED BY <1>7, <1>8, <1>9, <1>10, <1>11, <1>12, <1>13

LEMMA CountsAre ==
  ASSUME NEW U, Whole(U), NEW e \in U
  PROVE  arrayCount(e) \in Nat
BY DEF Whole, arrayCount

(* The relation that is built up step by step is one the rules allow: after *)
(* as many steps as there are pairs nothing is added to it.                 *)
Keeping(D, ok) == {p \in (DOMAIN D) \X Unrepeated : KeepsRules(D, ok, p[1], p[2])}

LEMMA MoreAreKept ==
  ASSUME NEW T, NEW D, MadeFrom(T, D), NEW ok, NEW more, ok \subseteq more
  PROVE  Keeping(D, ok) \subseteq Keeping(D, more)
<1> SUFFICES ASSUME NEW p \in (DOMAIN D) \X Unrepeated, KeepsRules(D, ok, p[1], p[2])
             PROVE  KeepsRules(D, more, p[1], p[2])
  BY DEF Keeping
<1>1. p[1] \in DOMAIN D /\ arrayCount(p[2]) \in Nat
  BY DepthAssumption, CountsAre
<1>2. Meant(T, ok, p[1], p[2]) /\ KeysResolve(D, ok, p[1], p[2])
  BY <1>1, RulesAreMeant
<1>3. Meant(T, more, p[1], p[2])
  BY <1>2, MoreConforms
<1>4. KeysResolve(D, more, p[1], p[2])
  BY <1>2 DEF KeysResolve, KeyResolves
<1> QED BY <1>1, <1>3, <1>4, RulesAreMeant

LEMMA ConformityIsKept ==
  ASSUME NEW T, NEW D, MadeFrom(T, D)
  PROVE  /\ Conformity(D) \subseteq (DOMAIN D) \X Unrepeated
         /\ Keeping(D, Conformity(D)) = Conformity(D)
         /\ \A ok : Keeping(D, ok) \subseteq ok => Conformity(D) \subseteq ok
<1> DEFINE pairs == (DOMAIN D) \X Unrepeated
           step == [ok \in SUBSET pairs |-> Keeping(D, ok)]
           K == Cardinality(pairs)
<1>1. step \in [SUBSET pairs -> SUBSET pairs]
  BY DEF Keeping
<1>2. \A ok \in SUBSET pairs : step[ok] = Keeping(D, ok)
  OBVIOUS
<1> HIDE DEF step
<1>3. {} \in SUBSET pairs
  OBVIOUS
<1>b. PICK f : Chain(f, pairs, {}, step)
  BY <1>1, <1>3, ChainsExist
<1>4. f \in [Nat -> SUBSET pairs] /\ f[0] = {} /\ \A n \in Nat : f[n + 1] = Keeping(D, f[n])
  BY <1>2, <1>b DEF Chain
<1>5. \A ok : Keeping(D, ok) = {p \in pairs : KeepsRules(D, ok, p[1], p[2])}
  BY DEF Keeping
<1>6. f = [n \in Nat |-> IF n = 0 THEN {} ELSE {p \in pairs : KeepsRules(D, f[n - 1], p[1], p[2])}]
  <2>1. \A n \in Nat : n # 0 => n - 1 \in Nat /\ (n - 1) + 1 = n
    OBVIOUS
  <2>2. ASSUME NEW n \in Nat, n # 0
        PROVE  f[n] = {p \in pairs : KeepsRules(D, f[n - 1], p[1], p[2])}
    BY <1>4, <1>5, <2>1, <2>2
  <2> QED BY <1>4, <2>2
<1>7. PICK r : /\ r = [n \in Nat |-> IF n = 0 THEN {}
                                     ELSE {p \in pairs : KeepsRules(D, r[n - 1], p[1], p[2])}]
               /\ Conformity(D) = r[K]
  BY <1>6 DEF Conformity
<1>8. r[0] = {} /\ \A n \in Nat : r[n + 1] = Keeping(D, r[n])
  <2>1. r[0] = {}
    BY <1>7
  <2>2. ASSUME NEW n \in Nat PROVE r[n + 1] = Keeping(D, r[n])
    <3>1. n + 1 \in Nat /\ n + 1 # 0 /\ (n + 1) - 1 = n
      OBVIOUS
    <3> QED BY <1>5, <1>7, <3>1
  <2> QED BY <2>1, <2>2
<1>9. \A n \in Nat : r[n] = f[n]
  <2> DEFINE Apart == {n \in Nat : r[n] # f[n]}
  <2>1. SUFFICES ASSUME NEW n \in Apart, \A k \in Apart : n <= k PROVE FALSE
    <3>1. Apart \in SUBSET Nat
      OBVIOUS
    <3>2. Apart = {} => \A n \in Nat : r[n] = f[n]
      OBVIOUS
    <3> HIDE DEF Apart
    <3> QED BY <3>1, <3>2, LeastOf
  <2>2. n # 0
    BY <1>4, <1>8
  <2>3. n - 1 \in Nat /\ (n - 1) + 1 = n /\ ~(n <= n - 1)
    BY <2>2
  <2>4. r[n - 1] = f[n - 1]
    BY <2>1, <2>3
  <2> QED BY <1>4, <1>8, <2>3, <2>4
<1>f. IsFiniteSet(DOMAIN D) /\ IsFiniteSet(Unrepeated)
  BY DepthAssumption DEF MadeFrom
<1>g. IsFiniteSet(pairs)
  BY <1>f, FS_Product
<1>10. K \in Nat
  BY <1>g, FS_CardinalityType
<1>11. Conformity(D) = f[K]
  BY <1>7, <1>9, <1>10
<1> HIDE DEF K, pairs
<1>12. \A n \in Nat : f[n] \subseteq f[n + 1]
  <2> DEFINE Out == {n \in Nat : ~(f[n] \subseteq f[n + 1])}
  <2>1. SUFFICES ASSUME NEW n \in Out, \A k \in Out : n <= k PROVE FALSE
    <3>1. Out \in SUBSET Nat
      OBVIOUS
    <3>2. Out = {} => \A n \in Nat : f[n] \subseteq f[n + 1]
      OBVIOUS
    <3> HIDE DEF Out
    <3> QED BY <3>1, <3>2, LeastOf
  <2>2. n # 0
    BY <1>4
  <2>3. n - 1 \in Nat /\ (n - 1) + 1 = n /\ ~(n <= n - 1)
    BY <2>2
  <2>4. f[n - 1] \subseteq f[n]
    BY <2>1, <2>3
  <2>5. Keeping(D, f[n - 1]) \subseteq Keeping(D, f[n])
    BY <2>4, MoreAreKept
  <2>6. f[n] = Keeping(D, f[n - 1]) /\ f[n + 1] = Keeping(D, f[n])
    BY <1>4, <2>3
  <2> QED BY <2>5, <2>6
<1>13. \A n \in Nat : f[n + 1] = f[n] => f[(n + 1) + 1] = f[n + 1]
  BY <1>4
<1>14. f[K + 1] = f[K]
  BY <1>4, <1>g, <1>12, <1>13, ChainStops DEF K
<1>15. f[K + 1] = Keeping(D, f[K]) /\ f[K] \subseteq pairs
  BY <1>4, <1>10
<1>16. ASSUME NEW ok, Keeping(D, ok) \subseteq ok PROVE f[K] \subseteq ok
  <2> DEFINE Out == {n \in Nat : ~(f[n] \subseteq ok)}
  <2>1. SUFFICES ASSUME NEW n \in Out, \A k \in Out : n <= k PROVE FALSE
    <3>1. Out \in SUBSET Nat
      OBVIOUS
    <3>2. Out = {} => \A n \in Nat : f[n] \subseteq ok
      OBVIOUS
    <3> HIDE DEF Out
    <3> QED BY <1>10, <3>1, <3>2, LeastOf
  <2>2. n # 0
    BY <1>4
  <2>3. n - 1 \in Nat /\ (n - 1) + 1 = n /\ ~(n <= n - 1)
    BY <2>2
  <2>4. f[n - 1] \subseteq ok
    BY <2>1, <2>3
  <2>5. Keeping(D, f[n - 1]) \subseteq Keeping(D, ok)
    BY <2>4, MoreAreKept
  <2> QED BY <1>4, <1>16, <2>3, <2>5
<1> QED BY <1>11, <1>14, <1>15, <1>16 DEF pairs

LEMMA ConformityIsMeaning ==
  ASSUME NEW T, NEW D, MadeFrom(T, D), \A name \in DOMAIN D : Attribute(D[name], "mapKeyType") = {}
  PROVE  IsMeaning(T, Unrepeated, Conformity(D))
<1> DEFINE Ok == Conformity(D)
<1>1. Keeping(D, Ok) = Ok
  BY ConformityIsKept
<1>2. DOMAIN T = DOMAIN D
  BY DEF MadeFrom
<1> HIDE DEF Ok
<1>3. ASSUME NEW name \in DOMAIN T, NEW e \in Unrepeated
      PROVE  <<name, e>> \in Ok <=> Meant(T, Ok, name, e)
  <2>1. arrayCount(e) \in Nat
    BY DepthAssumption, CountsAre
  <2>2. <<name, e>> \in Keeping(D, Ok) <=> KeepsRules(D, Ok, name, e)
    BY <1>2 DEF Keeping
  <2>3. KeepsRules(D, Ok, name, e) <=> Meant(T, Ok, name, e) /\ KeysResolve(D, Ok, name, e)
    BY <1>2, <2>1, RulesAreMeant
  <2>4. KeysResolve(D, Ok, name, e)
    BY <1>2 DEF KeysResolve, KeyResolves
  <2> QED BY <1>1, <2>2, <2>3, <2>4
<1> QED BY <1>3 DEF IsMeaning, Ok

(* What conforms to a document conforms to what is read from it. *)
LEMMA ConformityIsLess ==
  ASSUME NEW T, NEW D, MadeFrom(T, D)
  PROVE  Conformity(D) \subseteq Conforming(T, Unrepeated)
<1> DEFINE Ok == Conforming(T, Unrepeated)
<1>1. IsMeaning(T, Unrepeated, Ok)
  BY ConformingIsMeaning
<1>2. DOMAIN T = DOMAIN D
  BY DEF MadeFrom
<1> HIDE DEF Ok
<1>3. ASSUME NEW p \in (DOMAIN D) \X Unrepeated, KeepsRules(D, Ok, p[1], p[2]) PROVE p \in Ok
  <2>1. p[1] \in DOMAIN D /\ p[2] \in Unrepeated /\ p = <<p[1], p[2]>> /\ arrayCount(p[2]) \in Nat
    BY DepthAssumption, CountsAre
  <2>2. Meant(T, Ok, p[1], p[2])
    BY <1>3, <2>1, RulesAreMeant
  <2> QED BY <1>1, <1>2, <2>1, <2>2 DEF IsMeaning
<1>4. Keeping(D, Ok) \subseteq Ok
  BY <1>3 DEF Keeping
<1> QED BY <1>4, ConformityIsKept DEF Ok

(* A schema that was loaded holds types made from its definitions: no       *)
(* instance was without a type, or resolving it would have been undefined.  *)
HadTypes ==
  /\ phase = "resolve" => \A name \in DOMAIN types \ RangeOf(left) : HasTypes(Created(name))
  /\ phase \in {"loaded", "asked"} => \A name \in DOMAIN types : HasTypes(Created(name))

LEMMA NotFollowedNull ==
  ASSUME NEW type, NEW names, ~FollowsNull(type, names), Resolves(type, names)
  PROVE  HasTypes(type)
<1> SUFFICES ASSUME NEW stage \in 1 .. 4, NEW instance \in Stages(type)[stage], instance.type = NullRef
             PROVE  FALSE
  BY DEF HasTypes
<1>1. Reaches(type, names, stage)
  <2>1. \A earlier \in 1 .. stage - 1 : earlier \in 1 .. 5 - 1
    OBVIOUS
  <2> QED BY <2>1 DEF Resolves, Reaches
<1> QED BY <1>1 DEF FollowsNull

LEMMA HadTypesInductive ==
  ASSUME LoadInv, ListInv, DefinedInv, HadTypes, [SchemaNext]_schemaVars
  PROVE  HadTypes'
<1> USE DEF Load
<1>c. \A name : document' = document => Created(name)' = Created(name)
  BY DEF Created
<1>1. CASE Locate \/ ParseDocument \/ CheckVersion \/ ReadTexts \/ CreateType
  <2>1. phase' \notin {"resolve", "loaded", "asked"}
    BY <1>1 DEF Locate, ParseDocument, CheckVersion, ReadTexts, CreateType, Refuse, Crash
  <2> QED BY <2>1 DEF HadTypes
<1>2. CASE TypesCreated
  <2>1. CASE Crash
    BY <2>1 DEF Crash, HadTypes
  <2>2. CASE ~Crash
    <3>1. phase' = "resolve" /\ left' = listed /\ UNCHANGED <<document, types>>
      BY <1>2, <2>2 DEF TypesCreated
    <3>2. DOMAIN types' \ RangeOf(left') = {}
      BY <3>1 DEF ListInv
    <3> QED BY <3>1, <3>2 DEF HadTypes
  <2> QED BY <2>1, <2>2
<1>3. CASE ResolveType
  <2> DEFINE name == Head(left)
  <2>1. CASE Crash \/ Refuse("resolve")
    BY <2>1 DEF Crash, Refuse, HadTypes
  <2>2. CASE ~(Crash \/ Refuse("resolve"))
    <3>1. /\ phase = "resolve" /\ left # <<>> /\ phase' = "resolve" /\ document' = document
          /\ types' = [types EXCEPT ![name] = Resolved(types[name])] /\ left' = Tail(left)
          /\ ~FollowsNull(types[name], DOMAIN types) /\ Resolves(types[name], DOMAIN types)
      BY <1>3, <2>2 DEF ResolveType
    <3>2. left \in Seq(Names) /\ DOMAIN types = Names
      BY <3>1 DEF LoadInv
    <3>3. name \in RangeOf(left) /\ name \in Names /\ RangeOf(left) = {name} \cup RangeOf(left')
      BY <3>1, <3>2, HeadAndTail
    <3>4. types[name] = Created(name)
      BY <3>1, <3>2, <3>3 DEF DefinedInv
    <3>5. HasTypes(Created(name))
      BY <3>1, <3>4, NotFollowedNull
    <3>6. DOMAIN types' = DOMAIN types
      BY <3>1
    <3>7. \A other \in DOMAIN types' \ RangeOf(left') : HasTypes(Created(other))
      BY <3>1, <3>3, <3>5, <3>6 DEF HadTypes
    <3> QED BY <1>c, <3>1, <3>7 DEF HadTypes
  <2> QED BY <2>1, <2>2
<1>4. CASE FindRootType
  <2>1. CASE Crash
    BY <2>1 DEF Crash, HadTypes
  <2>2. CASE ~Crash
    <3>1. phase = "resolve" /\ left = <<>> /\ phase' = "loaded" /\ UNCHANGED <<document, types>>
      BY <1>4, <2>2 DEF FindRootType
    <3>2. RangeOf(left) = {}
      BY <3>1 DEF RangeOf
    <3> QED BY <1>c, <3>1, <3>2 DEF HadTypes
  <2> QED BY <2>1, <2>2
<1>5. CASE AskNoRoot \/ Ask \/ Validate \/ Answered
  <2>1. /\ phase \in {"loaded", "asked"} /\ phase' \in {"loaded", "asked", "undefined"}
        /\ UNCHANGED <<document, types>>
    BY <1>5 DEF AskNoRoot, Ask, Validate, loadingVars, Answered
  <2> QED BY <1>c, <2>1 DEF HadTypes
<1>6. CASE Destroy
  BY <1>6 DEF Destroy, HadTypes
<1>7. CASE UNCHANGED schemaVars
  BY <1>c, <1>7 DEF schemaVars, HadTypes
<1> QED BY <1>1, <1>2, <1>3, <1>4, <1>5, <1>6, <1>7 DEF SchemaNext, LoadStep, Over

LEMMA LoadedIsMade ==
  ASSUME SchemaInv, DefinedInv, RootInv, HadTypes, phase \in {"loaded", "asked"}
  PROVE  MadeFrom(types, document.types.pairs)
<1> DEFINE D == document.types.pairs
<1>1. types = DefinedTypes /\ DOMAIN types = Names
  BY TypesDefined DEF SchemaInv, LoadInv
<1>2. document \in SchemaDocuments /\ \A name \in DOMAIN types : AllLead(types[name], DOMAIN types)
  BY DEF SchemaInv, LoadInv
<1>3. IsFiniteSet(DOMAIN D) /\ \A name \in DOMAIN D : IsDefinition(D[name])
  BY <1>2, DocumentsAssumption, DefinitionsAssumption
<1>4. types = [name \in DOMAIN D |-> Made(D[name])]
  BY <1>1 DEF DefinedTypes, Created, Made, Names
<1>5. \A name \in DOMAIN D : types[name] = Made(D[name])
  BY <1>4
<1>6. \A name \in DOMAIN D : AllLead(Made(D[name]), DOMAIN D)
  BY <1>1, <1>2, <1>5 DEF Names
<1>7. \A name \in DOMAIN D : HasTypes(createFromExpression(D[name]))
  BY <1>1 DEF HadTypes, Created, Names
<1> QED BY <1>3, <1>4, <1>6, <1>7 DEF MadeFrom

LEMMA MeetsIsMeaning ==
  ASSUME SchemaInv, DefinedInv, RootInv, HadTypes, phase \in {"loaded", "asked"}
  PROVE  /\ AllIsRead => IsMeaning(types, Unrepeated, Conformities[document])
         /\ Conformities[document] \subseteq Conforming(types, Unrepeated)
<1>1. MadeFrom(types, document.types.pairs) /\ document \in SchemaDocuments
  BY LoadedIsMade DEF SchemaInv, LoadInv
<1>2. Conformities[document] = Conformity(document.types.pairs)
  BY <1>1 DEF Conformities
<1>3. AllIsRead => \A name \in DOMAIN document.types.pairs :
                      Attribute(document.types.pairs[name], "mapKeyType") = {}
  BY DEF AllIsRead, SaysUnread
<1> QED BY <1>1, <1>2, <1>3, ConformityIsMeaning, ConformityIsLess

(* What was answered is yes or no. *)
YesOrNo == answer.ok \in BOOLEAN

LEMMA YesOrNoInductive ==
  ASSUME SchemaInv, YesOrNo, [SchemaNext]_schemaVars
  PROVE  YesOrNo'
<1>1. CASE LoadStep \/ Destroy
  BY <1>1 DEF YesOrNo, LoadStep, Locate, ParseDocument, CheckVersion, ReadTexts, CreateType,
              TypesCreated, ResolveType, FindRootType, Refuse, Crash, Load, Destroy, askingVars
<1>2. CASE AskNoRoot \/ Ask
  <2>1. answer'.ok = FALSE
    <3>1. CASE AskNoRoot
      BY <3>1 DEF AskNoRoot
    <3>2. CASE Ask
      BY <3>2 DEF Ask, Unanswered
    <3> QED BY <1>2, <3>1, <3>2
  <2> QED BY <2>1 DEF YesOrNo
<1>3. CASE Validate
  BY <1>3 DEF YesOrNo, Validate
<1>4. CASE Answered
  <2>1. phase = "asked" /\ cur.pc = "root" /\ answer'.ok = ret.ok
    BY <1>4 DEF Answered
  <2>2. ret.ok \in BOOLEAN
    BY <2>1 DEF SchemaInv, TellInv, Activations, Waits, Told
  <2> QED BY <2>1, <2>2 DEF YesOrNo
<1>5. CASE UNCHANGED schemaVars
  BY <1>5 DEF YesOrNo, schemaVars
<1> QED BY <1>1, <1>2, <1>3, <1>4, <1>5 DEF SchemaNext, Over

(* Unless the document says what the loader does not read, an expression     *)
(* without a repeated key is accepted exactly when it conforms to what it    *)
(* says of the root type, in the order of its           *)
(* definitions or in any other: by the relation that grows from nothing,     *)
(* rule by rule, until nothing is left to add (createFromExpression,         *)
(* resolveWithSchema, validateObject and what they call).                    *)
THEOREM AnsweredByMeaning == SchemaSpec => []AnswersByMeaning
<1> DEFINE U == Unrepeated
<1>0. Whole(U)
  BY DepthAssumption
<1> HIDE DEF U
<1>1. SchemaInit => SchemaInv /\ DefinedInv /\ RootInv /\ SafeInv(U) /\ MeantInv(U) /\ HadTypes /\ YesOrNo
  <2>1. SchemaInit => phase = "locate" /\ ~answer.given /\ answer.ok = FALSE
    BY DEF SchemaInit, Unanswered
  <2> QED BY <2>1, SchemaInvInit, RootInit DEF DefinedInv, SafeInv, MeantInv, HadTypes, YesOrNo
<1>2. YesOrNo /\ HadTypes /\ DefinedInv /\ RootInv /\ SafeInv(U) /\ MeantInv(U) /\ SchemaInv /\ [SchemaNext]_schemaVars
        => YesOrNo' /\ HadTypes' /\ DefinedInv' /\ RootInv' /\ SafeInv(U)' /\ MeantInv(U)'
  BY <1>0, DefinedInductive, RootInductive, SafeInductive, MeantInductive, HadTypesInductive,
     YesOrNoInductive DEF SchemaInv
<1>3. SchemaInv /\ DefinedInv /\ RootInv /\ MeantInv(U) /\ HadTypes /\ YesOrNo => AnswersByMeaning
  <2> SUFFICES ASSUME SchemaInv, DefinedInv, RootInv, MeantInv(U), HadTypes, YesOrNo,
                      phase = "loaded", answer.given, asked.expr \in Unrepeated, AllIsRead
               PROVE  answer.ok = \E root \in rootType : Meets(root, asked.expr)
    BY DEF AnswersByMeaning
  <2>1. IsMeaning(types, U, Conformities[document])
    BY MeetsIsMeaning DEF U
  <2>2. answer.ok <=> Goal(Conformities[document])
    BY <2>1 DEF MeantInv, U
  <2>3. answer.ok \in BOOLEAN
    BY DEF YesOrNo
  <2> QED BY <2>2, <2>3 DEF Goal, Meets
<1> QED BY <1>1, <1>2, <1>3, SchemaInductive, PTL DEF SchemaSpec

-----------------------------------------------------------------------------
(* Whatever is closed under the reasons of errors has all that is reported. *)
LEMMA ReportedWithin ==
  ASSUME NEW errors, NEW Z, ErrorsIn(errors) \subseteq Z,
         \A error \in Z : ErrorsIn(error.child) \subseteq Z
  PROVE  Reported(errors) \subseteq Z
<1> DEFINE step == [some \in SUBSET Z |-> UNION {ErrorsIn(error.child) : error \in some}]
           first == ErrorsIn(errors)
<1>1. step \in [SUBSET Z -> SUBSET Z]
  OBVIOUS
<1>2. \A some \in SUBSET Z : step[some] = UNION {ErrorsIn(error.child) : error \in some}
  OBVIOUS
<1> HIDE DEF step
<1>3. first \in SUBSET Z
  OBVIOUS
<1>4. PICK f : Chain(f, Z, ErrorsIn(errors), step)
  BY <1>1, <1>3, ChainsExist
<1>5. /\ f \in [Nat -> SUBSET Z] /\ f[0] = ErrorsIn(errors)
      /\ \A n \in Nat : f[n + 1] = UNION {ErrorsIn(error.child) : error \in f[n]}
  BY <1>2, <1>4 DEF Chain
<1>6. f = [n \in Nat |-> IF n = 0 THEN ErrorsIn(errors)
                         ELSE UNION {ErrorsIn(error.child) : error \in f[n - 1]}]
  <2>1. \A n \in Nat : n # 0 => n - 1 \in Nat /\ (n - 1) + 1 = n
    OBVIOUS
  <2>2. ASSUME NEW n \in Nat, n # 0
        PROVE  f[n] = UNION {ErrorsIn(error.child) : error \in f[n - 1]}
    BY <1>5, <2>1, <2>2
  <2> QED BY <1>5, <2>2
<1>7. PICK r : /\ r = [n \in Nat |-> IF n = 0 THEN ErrorsIn(errors)
                                     ELSE UNION {ErrorsIn(error.child) : error \in r[n - 1]}]
               /\ Reported(errors) = UNION {r[n] : n \in 0 .. MaxCalls}
  BY <1>6 DEF Reported
<1>8. r[0] = ErrorsIn(errors) /\ \A n \in Nat : r[n + 1] = UNION {ErrorsIn(error.child) : error \in r[n]}
  <2>1. r[0] = ErrorsIn(errors)
    BY <1>7
  <2>2. ASSUME NEW n \in Nat PROVE r[n + 1] = UNION {ErrorsIn(error.child) : error \in r[n]}
    <3>1. n + 1 \in Nat /\ n + 1 # 0 /\ (n + 1) - 1 = n
      OBVIOUS
    <3> QED BY <1>7, <3>1
  <2> QED BY <2>1, <2>2
<1>9. \A n \in Nat : r[n] \subseteq Z
  <2> DEFINE Out == {n \in Nat : ~(r[n] \subseteq Z)}
  <2>1. SUFFICES ASSUME NEW n \in Out, \A k \in Out : n <= k PROVE FALSE
    <3>1. Out \in SUBSET Nat
      OBVIOUS
    <3>2. Out = {} => \A n \in Nat : r[n] \subseteq Z
      OBVIOUS
    <3> HIDE DEF Out
    <3> QED BY <3>1, <3>2, LeastOf
  <2>2. n # 0
    BY <1>8
  <2>3. n - 1 \in Nat /\ (n - 1) + 1 = n /\ ~(n <= n - 1)
    BY <2>2
  <2>4. r[n - 1] \subseteq Z
    BY <2>1, <2>3
  <2>5. r[n] = UNION {ErrorsIn(error.child) : error \in r[n - 1]}
    BY <1>8, <2>3
  <2>6. r[n] \subseteq Z
    BY <2>4, <2>5
  <2> QED BY <2>6
<1>10. 0 .. MaxCalls \subseteq Nat
  BY MaxCallsAssumption
<1> QED BY <1>7, <1>9, <1>10

-----------------------------------------------------------------------------
(* The true errors, level by level: those without reasons, those whose      *)
(* reasons are of the level below.                                          *)
TrueErrors(T, U, Ok, lists) ==
  {error \in [why : Whys, type : DOMAIN T, expr : U, child : lists] : <<error.type, error.expr>> \notin Ok}
Deeper(T, U, Ok, lists) == Seq(TrueErrors(T, U, Ok, lists))
Levels(g, n, T, U, Ok) ==
  g[0] = {<<>>} /\ \A k \in Nat : k < n => g[k + 1] = Deeper(T, U, Ok, g[k])
AllLevels(f, T, U, Ok) ==
  f[0] = {<<>>} /\ \A k \in Nat : f[k + 1] = Deeper(T, U, Ok, f[k])

LEMMA LevelsTo ==
  ASSUME NEW T, NEW U, NEW Ok, NEW m \in Nat
  PROVE  \E g : Levels(g, m, T, U, Ok)
<1> DEFINE Without == {n \in Nat : ~ \E g : Levels(g, n, T, U, Ok)}
<1>1. SUFFICES ASSUME NEW n \in Without, \A k \in Without : n <= k PROVE FALSE
  <2>1. Without \in SUBSET Nat
    OBVIOUS
  <2>2. Without = {} => \E g : Levels(g, m, T, U, Ok)
    OBVIOUS
  <2> HIDE DEF Without
  <2> QED BY <2>1, <2>2, LeastOf
<1>2. CASE n = 0
  <2> DEFINE g == [k \in Nat |-> {<<>>}]
  <2>1. g[0] = {<<>>}
    OBVIOUS
  <2> HIDE DEF g
  <2>2. Levels(g, 0, T, U, Ok)
    BY <2>1 DEF Levels
  <2> QED BY <1>2, <2>2
<1>3. CASE n # 0
  <2>1. n \in Nat /\ n - 1 \in Nat /\ ~(n <= n - 1)
    BY <1>3
  <2>2. PICK g : Levels(g, n - 1, T, U, Ok)
    BY <1>1, <2>1
  <2> DEFINE h == [k \in Nat |-> IF k = n THEN Deeper(T, U, Ok, g[n - 1]) ELSE g[k]]
  <2>3. h[n] = Deeper(T, U, Ok, g[n - 1]) /\ \A k \in Nat : k # n => h[k] = g[k]
    BY <2>1
  <2> HIDE DEF h
  <2>4. h[0] = {<<>>}
    BY <1>3, <2>2, <2>3 DEF Levels
  <2>5. ASSUME NEW k \in Nat, k < n PROVE h[k + 1] = Deeper(T, U, Ok, h[k])
    <3>1. CASE k + 1 = n
      <4>1. k = n - 1 /\ k # n
        BY <2>1, <3>1
      <4> QED BY <2>3, <3>1, <4>1
    <3>2. CASE k + 1 # n
      <4>1. k < n - 1 /\ k # n /\ k + 1 \in Nat
        BY <2>1, <2>5, <3>2
      <4>2. g[k + 1] = Deeper(T, U, Ok, g[k])
        BY <2>2, <4>1 DEF Levels
      <4> QED BY <2>3, <3>2, <4>1, <4>2
    <3> QED BY <3>1, <3>2
  <2>6. Levels(h, n, T, U, Ok)
    BY <2>4, <2>5 DEF Levels
  <2> QED BY <2>6
<1> QED BY <1>2, <1>3

LEMMA LevelsAgree ==
  ASSUME NEW T, NEW U, NEW Ok, NEW n \in Nat, NEW m \in Nat, NEW g, NEW h,
         Levels(g, n, T, U, Ok), Levels(h, m, T, U, Ok), NEW k \in Nat, k <= n, k <= m
  PROVE  g[k] = h[k]
<1> DEFINE Apart == {i \in Nat : i <= n /\ i <= m /\ g[i] # h[i]}
<1>1. SUFFICES ASSUME NEW i \in Apart, \A j \in Apart : i <= j PROVE FALSE
  <2>1. Apart \in SUBSET Nat /\ (Apart = {} => g[k] = h[k])
    OBVIOUS
  <2> HIDE DEF Apart
  <2> QED BY <2>1, LeastOf
<1>2. i # 0
  BY DEF Levels
<1>3. i - 1 \in Nat /\ i - 1 < n /\ i - 1 < m /\ (i - 1) + 1 = i /\ ~(i <= i - 1)
  BY <1>2
<1>4. i - 1 \notin Apart
  BY <1>1, <1>3
<1>5. g[i - 1] = h[i - 1]
  BY <1>3, <1>4
<1>6. g[(i - 1) + 1] = Deeper(T, U, Ok, g[i - 1]) /\ h[(i - 1) + 1] = Deeper(T, U, Ok, h[i - 1])
  BY <1>3 DEF Levels
<1> QED BY <1>3, <1>5, <1>6

LEMMA LevelsExist ==
  ASSUME NEW T, NEW U, NEW Ok
  PROVE  \E f : AllLevels(f, T, U, Ok)
<1> DEFINE G(n) == CHOOSE g : Levels(g, n, T, U, Ok)
           f == [n \in Nat |-> G(n)[n]]
<1>1. \A n \in Nat : Levels(G(n), n, T, U, Ok)
  BY LevelsTo
<1> HIDE DEF G
<1>2. f[0] = {<<>>}
  BY <1>1 DEF Levels
<1>3. ASSUME NEW n \in Nat PROVE f[n + 1] = Deeper(T, U, Ok, f[n])
  <2>1. n + 1 \in Nat /\ n <= n /\ n <= n + 1 /\ n < n + 1
    OBVIOUS
  <2>2. Levels(G(n), n, T, U, Ok) /\ Levels(G(n + 1), n + 1, T, U, Ok)
    BY <1>1, <2>1
  <2>3. G(n)[n] = G(n + 1)[n]
    BY <2>1, <2>2, LevelsAgree
  <2>4. G(n + 1)[n + 1] = Deeper(T, U, Ok, G(n + 1)[n])
    BY <2>1, <2>2 DEF Levels
  <2> QED BY <2>1, <2>3, <2>4
<1> HIDE DEF f
<1>4. AllLevels(f, T, U, Ok)
  BY <1>2, <1>3 DEF AllLevels
<1> QED BY <1>4

(* All lists of all levels are a set of lists such as ErrorsAreTrue speaks   *)
(* of, and what is in them is true.                                         *)
TrueTogether(T, U, Ok, S, E) ==
  /\ TrueLists(T, U, Ok, S) /\ \A s \in S : ErrorsIn(s) \subseteq E
  /\ \A error \in E : error.child \in S /\ <<error.type, error.expr>> \notin Ok

LEMMA TrueListsExist ==
  ASSUME NEW T, NEW U, NEW Ok
  PROVE  \E S, E : TrueTogether(T, U, Ok, S, E)
<1>1. PICK f : AllLevels(f, T, U, Ok)
  BY LevelsExist
<1>2. f[0] = {<<>>} /\ \A k \in Nat : f[k + 1] = Seq(TrueErrors(T, U, Ok, f[k]))
  BY <1>1 DEF AllLevels, Deeper
<1>m. ASSUME NEW a, NEW b, a \subseteq b
      PROVE  Seq(TrueErrors(T, U, Ok, a)) \subseteq Seq(TrueErrors(T, U, Ok, b))
  <2>1. TrueErrors(T, U, Ok, a) \subseteq TrueErrors(T, U, Ok, b)
    BY <1>m DEF TrueErrors
  <2> QED BY <2>1
<1>3. \A n \in Nat : f[n] \subseteq f[n + 1]
  <2> DEFINE Out == {n \in Nat : ~(f[n] \subseteq f[n + 1])}
  <2>1. SUFFICES ASSUME NEW n \in Out, \A k \in Out : n <= k PROVE FALSE
    <3>1. Out \in SUBSET Nat
      OBVIOUS
    <3>2. Out = {} => \A n \in Nat : f[n] \subseteq f[n + 1]
      OBVIOUS
    <3> HIDE DEF Out
    <3> QED BY <3>1, <3>2, LeastOf
  <2>2. n # 0
    <3>1. \A X : <<>> \in Seq(X)
      OBVIOUS
    <3>2. f[0] \subseteq f[0 + 1]
      BY <1>2, <3>1
    <3> QED BY <3>2
  <2>3. n - 1 \in Nat /\ (n - 1) + 1 = n /\ ~(n <= n - 1)
    BY <2>2
  <2>4. f[n - 1] \subseteq f[n]
    BY <2>1, <2>3
  <2>5. f[n] = Seq(TrueErrors(T, U, Ok, f[n - 1])) /\ f[n + 1] = Seq(TrueErrors(T, U, Ok, f[n]))
    BY <1>2, <2>3
  <2> QED BY <1>m, <2>4, <2>5
<1>4. \A n \in Nat, m \in Nat : f[n] \subseteq f[n + m]
  <2> SUFFICES ASSUME NEW n \in Nat PROVE \A m \in Nat : f[n] \subseteq f[n + m]
    OBVIOUS
  <2> DEFINE Out == {m \in Nat : ~(f[n] \subseteq f[n + m])}
  <2>1. SUFFICES ASSUME NEW m \in Out, \A k \in Out : m <= k PROVE FALSE
    <3>1. Out \in SUBSET Nat
      OBVIOUS
    <3>2. Out = {} => \A m \in Nat : f[n] \subseteq f[n + m]
      OBVIOUS
    <3> HIDE DEF Out
    <3> QED BY <3>1, <3>2, LeastOf
  <2>2. m # 0
    BY n + 0 = n
  <2>3. m - 1 \in Nat /\ n + (m - 1) \in Nat /\ (n + (m - 1)) + 1 = n + m /\ ~(m <= m - 1)
    BY <2>2
  <2>4. f[n] \subseteq f[n + (m - 1)]
    BY <2>1, <2>3
  <2>5. f[n + (m - 1)] \subseteq f[n + m]
    BY <1>3, <2>3
  <2> QED BY <2>4, <2>5
<1> DEFINE S == UNION {f[n] : n \in Nat}
           E == UNION {TrueErrors(T, U, Ok, f[n]) : n \in Nat}
<1>5. \A s : s \in S <=> \E n \in Nat : s \in f[n]
  OBVIOUS
<1>6. \A error : error \in E <=> \E n \in Nat : error \in TrueErrors(T, U, Ok, f[n])
  OBVIOUS
<1> HIDE DEF S, E
<1>7. \A s \in S : \E n \in Nat : s \in Seq(TrueErrors(T, U, Ok, f[n]))
  <2> SUFFICES ASSUME NEW s \in S PROVE \E n \in Nat : s \in Seq(TrueErrors(T, U, Ok, f[n]))
    OBVIOUS
  <2>1. PICK n \in Nat : s \in f[n]
    BY <1>5
  <2> QED BY <1>2, <1>3, <2>1
<1>8. <<>> \in S
  BY <1>2, <1>5
<1>9. ASSUME NEW s \in S, NEW t \in S PROVE s \o t \in S
  <2>1. PICK n \in Nat : s \in f[n]
    BY <1>5
  <2>2. PICK m \in Nat : t \in f[m]
    BY <1>5
  <2>3. s \in f[n + m] /\ t \in f[m + n] /\ m + n = n + m /\ n + m \in Nat
    BY <1>4, <2>1, <2>2
  <2>4. s \in Seq(TrueErrors(T, U, Ok, f[n + m])) /\ t \in Seq(TrueErrors(T, U, Ok, f[n + m]))
    BY <1>2, <1>3, <2>3
  <2>5. s \o t \in Seq(TrueErrors(T, U, Ok, f[n + m]))
    BY <2>4
  <2>6. s \o t \in f[(n + m) + 1] /\ (n + m) + 1 \in Nat
    <3>1. f[(n + m) + 1] = Seq(TrueErrors(T, U, Ok, f[n + m])) /\ (n + m) + 1 \in Nat
      BY <1>2, <2>3
    <3> QED BY <2>5, <3>1
  <2> QED BY <1>5, <2>6
<1>10. ASSUME NEW why \in Whys, NEW name \in DOMAIN T, NEW e \in U, NEW child \in S, <<name, e>> \notin Ok
       PROVE  <<[why |-> why, type |-> name, expr |-> e, child |-> child]>> \in S
  <2> DEFINE error == [why |-> why, type |-> name, expr |-> e, child |-> child]
  <2>1. PICK n \in Nat : child \in f[n]
    BY <1>5
  <2>2. error \in TrueErrors(T, U, Ok, f[n])
    BY <1>10, <2>1 DEF TrueErrors
  <2> HIDE DEF error
  <2>3. <<error>> \in Seq(TrueErrors(T, U, Ok, f[n]))
    BY <2>2
  <2>4. <<error>> \in f[n + 1] /\ n + 1 \in Nat
    <3>1. f[n + 1] = Seq(TrueErrors(T, U, Ok, f[n])) /\ n + 1 \in Nat
      BY <1>2
    <3> QED BY <2>3, <3>1
  <2>5. <<error>> \in S
    BY <1>5, <2>4
  <2> QED BY <2>5 DEF error
<1>11. TrueLists(T, U, Ok, S)
  BY <1>8, <1>9, <1>10 DEF TrueLists
<1>12. ASSUME NEW s \in S PROVE ErrorsIn(s) \subseteq E
  <2>1. PICK n \in Nat : s \in Seq(TrueErrors(T, U, Ok, f[n]))
    BY <1>7
  <2>2. \A i \in DOMAIN s : s[i] \in TrueErrors(T, U, Ok, f[n])
    BY <2>1
  <2> QED BY <1>6, <2>2 DEF ErrorsIn
<1>13. ASSUME NEW error \in E PROVE error.child \in S /\ <<error.type, error.expr>> \notin Ok
  <2>1. PICK n \in Nat : error \in TrueErrors(T, U, Ok, f[n])
    BY <1>6
  <2>2. error.child \in f[n] /\ <<error.type, error.expr>> \notin Ok
    BY <2>1 DEF TrueErrors
  <2> QED BY <1>5, <2>2
<1>14. TrueTogether(T, U, Ok, S, E)
  BY <1>11, <1>12, <1>13 DEF TrueTogether
<1> QED BY <1>14

(* Every error and every reason below it names a type and a part of the     *)
(* expression that does not conform to it, whatever was tried before        *)
(* (wexprSchema_Type_validateObject, wexprSchema_Error_setChild).           *)
THEOREM ErrorsHaveReasons == SchemaSpec => []ErrorsAreReasons
<1> DEFINE U == Unrepeated
<1>0. Whole(U)
  BY DepthAssumption
<1> HIDE DEF U
<1>1. SchemaInit => /\ SchemaInv /\ DefinedInv /\ RootInv /\ SafeInv(U) /\ MeantInv(U) /\ TrueInv(U)
                    /\ HadTypes
  <2>1. SchemaInit => phase = "locate" /\ ~answer.given
    BY DEF SchemaInit, Unanswered
  <2> QED BY <2>1, SchemaInvInit, RootInit DEF DefinedInv, SafeInv, MeantInv, TrueInv, HadTypes
<1>2. HadTypes /\ DefinedInv /\ RootInv /\ SchemaInv /\ [SchemaNext]_schemaVars
        => HadTypes' /\ DefinedInv' /\ RootInv'
  BY DefinedInductive, RootInductive, HadTypesInductive DEF SchemaInv
<1>s. SafeInv(U) /\ SchemaInv /\ [SchemaNext]_schemaVars => SafeInv(U)'
  BY <1>0, SafeInductive
<1>m. MeantInv(U) /\ SafeInv(U) /\ RootInv /\ SchemaInv /\ [SchemaNext]_schemaVars => MeantInv(U)'
  BY <1>0, MeantInductive
<1>t. TrueInv(U) /\ MeantInv(U) /\ SafeInv(U) /\ RootInv /\ SchemaInv /\ [SchemaNext]_schemaVars
        => TrueInv(U)'
  BY <1>0, TrueInductive
<1>3. SchemaInv /\ DefinedInv /\ RootInv /\ TrueInv(U) /\ HadTypes => ErrorsAreReasons
  <2> SUFFICES ASSUME SchemaInv, DefinedInv, RootInv, TrueInv(U), HadTypes,
                      phase = "loaded", answer.given, asked.expr \in Unrepeated,
                      NEW error \in Reported(answer.errors), error.type # EmptyText
               PROVE  ~Meets(error.type, error.expr)
    BY DEF ErrorsAreReasons
  <2> DEFINE Ok == Conforming(types, U)
  <2>0. Conformities[document] \subseteq Ok
    BY MeetsIsMeaning DEF U
  <2>1. IsMeaning(types, U, Ok)
    BY ConformingIsMeaning
  <2> HIDE DEF Ok
  <2>t. PICK S, E : TrueTogether(types, U, Ok, S, E)
    BY TrueListsExist
  <2>2. /\ TrueLists(types, U, Ok, S)
        /\ \A s \in S : ErrorsIn(s) \subseteq E
        /\ \A e \in E : e.child \in S /\ <<e.type, e.expr>> \notin Ok
    BY <2>t DEF TrueTogether
  <2>3. answer.errors \in S \/ \E why, child : child \in S /\ answer.errors = <<Refusal(why, child)>>
    BY <2>1, <2>2 DEF TrueInv, U
  <2>4. CASE answer.errors \in S
    <3>1. Reported(answer.errors) \subseteq E
      BY <2>2, <2>4, ReportedWithin
    <3> QED BY <2>0, <2>2, <3>1 DEF Meets
  <2>5. ASSUME NEW why, NEW child, child \in S, answer.errors = <<Refusal(why, child)>>
        PROVE  ~Meets(error.type, error.expr)
    <3> DEFINE refusal == Refusal(why, child)
               Z == E \cup {refusal}
    <3>1. refusal.type = EmptyText /\ refusal.child = child
      BY DEF Refusal
    <3> HIDE DEF refusal
    <3>2. answer.errors = <<refusal>>
      BY <2>5 DEF refusal
    <3>3. ErrorsIn(answer.errors) = {refusal}
      BY <3>2 DEF ErrorsIn
    <3>4. \A e \in Z : ErrorsIn(e.child) \subseteq Z
      BY <2>2, <2>5, <3>1
    <3> HIDE DEF Z
    <3>5. Reported(answer.errors) \subseteq Z
      <4>1. ErrorsIn(answer.errors) \subseteq Z
        BY <3>3 DEF Z
      <4> QED BY <3>4, <4>1, ReportedWithin
    <3>6. error \in E
      BY <3>1, <3>5 DEF Z
    <3> QED BY <2>0, <2>2, <3>6 DEF Meets
  <2> QED BY <2>3, <2>4, <2>5
<1> QED BY <1>1, <1>2, <1>s, <1>m, <1>t, <1>3, SchemaInductive, PTL DEF SchemaSpec

-----------------------------------------------------------------------------
(* How many types are reached from a type, and how many calls there may     *)
(* still be above one that validates an expression against it: as many as   *)
(* types are reached, and one for every type at every level of the parts.   *)
Rank(T, name) == Cardinality(Following(T, Parents(T), name))
Need(T, name, e) == Rank(T, name) + Cardinality(DOMAIN T) * (Depth[e] - 1)
Ordered(T) ==
  /\ IsFiniteSet(DOMAIN T) /\ Parents(T) \in [DOMAIN T -> SUBSET DOMAIN T]
  /\ \A name \in DOMAIN T : name \notin Following(T, Parents(T), name)

LEMMA Ranks ==
  ASSUME NEW T, Ordered(T), NEW name \in DOMAIN T
  PROVE  /\ Rank(T, name) \in Nat /\ Rank(T, name) < Cardinality(DOMAIN T)
         /\ \A parent \in Parents(T)[name] : Rank(T, parent) < Rank(T, name)
<1> DEFINE next == Parents(T)
           F(n) == Following(T, next, n)
<1>1. IsFiniteSet(DOMAIN T) /\ next \in [DOMAIN T -> SUBSET DOMAIN T] /\ \A n \in DOMAIN T : n \notin F(n)
  BY DEF Ordered
<1>2. \A n \in DOMAIN T : /\ F(n) \subseteq DOMAIN T /\ next[n] \subseteq F(n)
                          /\ \A other \in F(n) : next[other] \subseteq F(n)
                          /\ \A S : /\ next[n] \subseteq S
                                    /\ \A other \in S \cap DOMAIN T : next[other] \subseteq S
                                    => F(n) \subseteq S
  <2> HIDE DEF next
  <2> QED BY <1>1, FollowingIs
<1>3. \A n : Rank(T, n) = Cardinality(F(n))
  BY DEF Rank
<1> HIDE DEF F, next
<1>4. ASSUME NEW A, NEW B, A \subseteq B, IsFiniteSet(B), A # B
      PROVE  Cardinality(A) \in Nat /\ Cardinality(B) \in Nat /\ Cardinality(A) < Cardinality(B)
  <2>1. /\ IsFiniteSet(A) /\ Cardinality(A) <= Cardinality(B)
        /\ (Cardinality(A) = Cardinality(B) => A = B)
    BY <1>4, FS_Subset
  <2>2. Cardinality(A) \in Nat /\ Cardinality(B) \in Nat
    BY <1>4, <2>1, FS_CardinalityType
  <2> QED BY <1>4, <2>1, <2>2
<1>5. F(name) # DOMAIN T /\ F(name) \subseteq DOMAIN T
  BY <1>1, <1>2
<1>6. ASSUME NEW parent \in next[name] PROVE Rank(T, parent) < Rank(T, name)
  <2>1. parent \in DOMAIN T /\ parent \in F(name)
    BY <1>2, <1>6
  <2>2. next[parent] \subseteq F(name) /\ \A other \in F(name) \cap DOMAIN T : next[other] \subseteq F(name)
    BY <1>2, <2>1
  <2>3. F(parent) \subseteq F(name)
    BY <1>2, <2>1, <2>2
  <2>4. F(parent) # F(name)
    BY <1>1, <2>1
  <2>5. IsFiniteSet(F(name))
    BY <1>1, <1>5, FS_Subset
  <2> QED BY <1>3, <1>4, <2>3, <2>4, <2>5
<1>7. Rank(T, name) \in Nat /\ Rank(T, name) < Cardinality(DOMAIN T)
  BY <1>1, <1>3, <1>4, <1>5
<1> QED BY <1>6, <1>7 DEF next

LEMMA AsksAtLast ==
  ASSUME NEW T, Ordered(T), NEW name \in DOMAIN T
  PROVE  ~AsksForEver(T, name)
<1> DEFINE next == Parents(T)
           asks == AskedParents(T)
<1>1. IsFiniteSet(DOMAIN T) /\ next \in [DOMAIN T -> SUBSET DOMAIN T]
      /\ \A n \in DOMAIN T : n \notin Following(T, next, n)
  BY DEF Ordered
<1>2. \A n \in DOMAIN T : asks[n] \subseteq next[n]
  BY DEF AskedParents
<1>3. asks \in [DOMAIN T -> SUBSET DOMAIN T]
  <2>1. asks = [n \in DOMAIN T |-> asks[n]]
    BY DEF AskedParents
  <2> HIDE DEF asks, next
  <2> QED BY <1>1, <1>2, <2>1
<1> HIDE DEF asks, next
<1>4. ASSUME NEW n \in DOMAIN T PROVE n \notin Following(T, asks, n)
  <2>1. /\ next[n] \subseteq Following(T, next, n)
        /\ \A other \in Following(T, next, n) : next[other] \subseteq Following(T, next, n)
    BY <1>1, FollowingIs
  <2>2. /\ asks[n] \subseteq Following(T, next, n)
        /\ \A other \in Following(T, next, n) \cap DOMAIN T : asks[other] \subseteq Following(T, next, n)
    BY <1>2, <2>1
  <2>3. Following(T, asks, n) \subseteq Following(T, next, n)
    BY <1>1, <1>3, <2>2, FollowingIs
  <2> QED BY <1>1, <2>3
<1>5. Following(T, asks, name) \subseteq DOMAIN T
  BY <1>1, <1>3, FollowingIs
<1> QED BY <1>4, <1>5 DEF AsksForEver, asks

LEMMA Multiples ==
  ASSUME NEW K \in Nat, NEW a \in Nat, NEW b \in Nat, a < b
  PROVE  K * a \in Nat /\ K * b \in Nat /\ K * a + K <= K * b
<1>1. PICK c \in Nat : b = a + 1 + c
  <2>1. b - a - 1 \in Nat /\ b = a + 1 + (b - a - 1)
    OBVIOUS
  <2> QED BY <2>1
<1>2. K * b = K * a + K + K * c
  BY <1>1
<1>3. K * a \in Nat /\ K * b \in Nat /\ K * c \in Nat
  OBVIOUS
<1> QED BY <1>2, <1>3

LEMMA PartsNeedLess ==
  ASSUME NEW T, Ordered(T), NEW name \in DOMAIN T, NEW other \in DOMAIN T,
         NEW e \in Unrepeated \ {Absent}, NEW part \in Unrepeated \ {Absent}, Depth[part] < Depth[e]
  PROVE  Need(T, other, part) < Need(T, name, e) /\ Need(T, name, e) \in Nat
<1> DEFINE K == Cardinality(DOMAIN T)
<1>1. /\ Depth[e] \in Nat /\ Depth[part] \in Nat /\ Depth[e] > 0 /\ Depth[part] > 0
  BY DepthAssumption
<1>2. /\ Rank(T, name) \in Nat /\ Rank(T, other) \in Nat /\ Rank(T, other) < K
  BY Ranks
<1>3. K \in Nat
  BY FS_CardinalityType DEF Ordered
<1> HIDE DEF K
<1>4. Depth[e] - 1 \in Nat /\ Depth[part] - 1 \in Nat /\ Depth[part] - 1 < Depth[e] - 1
  BY <1>1
<1>5. /\ K * (Depth[part] - 1) \in Nat /\ K * (Depth[e] - 1) \in Nat
      /\ K * (Depth[part] - 1) + K <= K * (Depth[e] - 1)
  BY <1>3, <1>4, Multiples
<1> DEFINE x == K * (Depth[part] - 1)
           y == K * (Depth[e] - 1)
           r == Rank(T, name)
           s == Rank(T, other)
<1> HIDE DEF x, y, r, s
<1>6. x \in Nat /\ y \in Nat /\ x + K <= y /\ r \in Nat /\ s \in Nat /\ s < K
  BY <1>2, <1>5 DEF x, y, r, s
<1>7. s + x < r + y /\ r + y \in Nat
  BY ONLY <1>3, <1>6
<1> QED BY <1>7 DEF Need, K, x, y, r, s

LEMMA TypesNeedLess ==
  ASSUME NEW T, Ordered(T), NEW name \in DOMAIN T, NEW parent \in Parents(T)[name],
         NEW e \in Unrepeated \ {Absent}
  PROVE  Need(T, parent, e) < Need(T, name, e) /\ Need(T, name, e) \in Nat
<1> DEFINE K == Cardinality(DOMAIN T)
<1>1. parent \in DOMAIN T
  BY DEF Ordered
<1>2. Rank(T, name) \in Nat /\ Rank(T, parent) \in Nat /\ Rank(T, parent) < Rank(T, name)
  BY <1>1, Ranks
<1>3. K \in Nat /\ Depth[e] - 1 \in Nat
  <2>1. Depth[e] \in Nat /\ Depth[e] > 0
    BY DepthAssumption
  <2> QED BY <2>1, FS_CardinalityType DEF Ordered
<1> HIDE DEF K
<1>4. K * (Depth[e] - 1) \in Nat
  BY <1>3
<1> DEFINE x == K * (Depth[e] - 1)
           r == Rank(T, name)
           s == Rank(T, parent)
<1> HIDE DEF x, r, s
<1>5. x \in Nat /\ r \in Nat /\ s \in Nat /\ s < r
  BY <1>2, <1>4 DEF x, r, s
<1>6. s + x < r + x /\ r + x \in Nat
  BY ONLY <1>5
<1> QED BY <1>6 DEF Need, K, x, r, s

-----------------------------------------------------------------------------
(* There is room for an activation with so many below it and for those it   *)
(* will make; one that is asked of nothing makes none.                      *)
Room(below, a) ==
  /\ a.pc # "overflow"
  /\ \/ a = Idle
     \/ a.expr = Absent /\ a.pc = "kinds"
     \/ a.expr # Absent /\ Need(types, a.type, a.expr) \in Nat
        /\ below + 1 + Need(types, a.type, a.expr) <= MaxCalls
AllRoom ==
  Room(Len(callers), cur) /\ \A i \in 1 .. Len(callers) : Room(Len(callers) - i, callers[i])

Proceeds == Working /\ AllSafe(Unrepeated) /\ Ordered(types) /\ AllRoom /\ types' = types

LEMMA RoomAtWork ==
  ASSUME Proceeds
  PROVE  /\ cur.type \in DOMAIN types /\ cur.expr \in Unrepeated /\ Len(callers) \in Nat
         /\ cur.expr = Absent => cur.pc = "kinds"
         /\ cur.expr # Absent => /\ Need(types, cur.type, cur.expr) \in Nat
                                 /\ Len(callers) + 1 + Need(types, cur.type, cur.expr) <= MaxCalls
<1>1. cur # Idle
  BY IdleIsRoot DEF Proceeds, Working
<1>2. cur.type \in DOMAIN types /\ Sequence(callers)
  BY AtWork DEF Proceeds
<1>3. cur.expr \in Unrepeated
  BY SafeAtWork DEF Proceeds, Within
<1>4. Len(callers) \in Nat
  BY <1>2, Pushed
<1> HIDE DEF Idle
<1> QED BY <1>1, <1>2, <1>3, <1>4 DEF Proceeds, AllRoom, Room

LEMMA GoRoom ==
  ASSUME Proceeds, cur.expr # Absent, NEW c, c.type = cur.type, c.expr = cur.expr, c.pc # "overflow",
         cur' = c, callers' = callers
  PROVE  AllRoom'
<1>1. Room(Len(callers), cur)'
  BY RoomAtWork DEF Room, Proceeds, Need, Rank
<1>2. Idle' = Idle
  BY DEF Idle, Frame
<1> HIDE DEF Idle
<1>3. \A i \in 1 .. Len(callers') : Room(Len(callers) - i, callers[i])'
  BY <1>2 DEF Room, Proceeds, Need, Rank, AllRoom
<1> QED BY <1>1, <1>3 DEF AllRoom

LEMMA CallRoom ==
  ASSUME Proceeds, cur.expr # Absent, NEW c, c.type = cur.type, c.expr = cur.expr, c.pc # "overflow",
         NEW type, NEW expr, NEW want, NEW named,
         expr # Absent => /\ Need(types, type, expr) \in Nat
                          /\ Need(types, type, expr) < Need(types, cur.type, cur.expr),
         Call(c, type, expr, want, named)
  PROVE  AllRoom'
<1> DEFINE frame == Frame("kinds", type, expr, want, named)
           need == Need(types, cur.type, cur.expr)
<1>0. /\ Sequence(callers) /\ Len(callers) \in Nat /\ MaxCalls \in Nat
      /\ need \in Nat /\ Len(callers) + 1 + need <= MaxCalls
  BY AtWork, RoomAtWork, MaxCallsAssumption DEF Proceeds
<1>1. Len(callers) < MaxCalls
  <2> HIDE DEF need
  <2> QED BY <1>0
<1>2. cur' = frame /\ callers' = <<c>> \o callers
  BY <1>1 DEF Call
<1>3. frame.pc = "kinds" /\ frame.type = type /\ frame.expr = expr
  BY DEF Frame
<1> HIDE DEF frame
<1>4. /\ Len(callers') = Len(callers) + 1
      /\ callers'[1] = c /\ \A i \in 1 .. Len(callers) : callers'[i + 1] = callers[i]
  BY <1>0, <1>2, Pushed
<1>n. \A name, e : Need(types, name, e)' = Need(types, name, e)
  BY DEF Proceeds, Need, Rank
<1>5. Room(Len(callers), cur)'
  <2>1. CASE expr = Absent
    BY <1>2, <1>3, <2>1 DEF Room
  <2>2. CASE expr # Absent
    <3> DEFINE less == Need(types, type, expr)
    <3>1. less \in Nat /\ less < need
      BY <2>2
    <3> HIDE DEF less, need
    <3>2. Len(callers') + 1 + less <= MaxCalls
      BY <1>0, <1>4, <3>1
    <3>3. Need(types, cur.type, cur.expr)' = less
      BY <1>2, <1>3, <1>n DEF less
    <3> QED BY <1>2, <1>3, <2>2, <3>1, <3>2, <3>3 DEF Room
  <2> QED BY <2>1, <2>2
<1>i. Idle' = Idle
  BY DEF Idle, Frame
<1> HIDE DEF Idle
<1>6. ASSUME NEW i \in 1 .. Len(callers') PROVE Room(Len(callers) - i, callers[i])'
  <2>1. CASE i = 1
    <3>1. Len(callers') - i = Len(callers) /\ callers'[i] = c
      BY <1>0, <1>4, <2>1
    <3> QED BY <1>0, <1>n, <3>1 DEF Room
  <2>2. CASE i # 1
    <3>1. i - 1 \in 1 .. Len(callers) /\ (i - 1) + 1 = i /\ Len(callers') - i = Len(callers) - (i - 1)
      BY <1>0, <1>4, <2>2
    <3>2. callers'[i] = callers[i - 1]
      BY <1>4, <3>1
    <3>3. Room(Len(callers) - (i - 1), callers[i - 1])
      BY <3>1 DEF Proceeds, AllRoom
    <3> QED BY <1>n, <1>i, <3>1, <3>2, <3>3 DEF Room
  <2> QED BY <2>1, <2>2
<1> QED BY <1>5, <1>6 DEF AllRoom

LEMMA AnswerRoom ==
  ASSUME Proceeds, NEW ok, NEW errors, Answer(ok, errors)
  PROVE  AllRoom'
<1>1. callers # <<>> /\ Sequence(callers)
  BY AtWork DEF Proceeds
<1>2. /\ Len(callers') = Len(callers) - 1 /\ Len(callers) \in Nat \ {0}
      /\ cur' = callers[1] /\ \A i \in 1 .. Len(callers) - 1 : callers'[i] = callers[i + 1]
  BY <1>1, Popped DEF Answer
<1>n. \A name, e : Need(types, name, e)' = Need(types, name, e)
  BY DEF Proceeds, Need, Rank
<1>i. Idle' = Idle
  BY DEF Idle, Frame
<1> HIDE DEF Idle
<1>3. Room(Len(callers), cur)'
  <2>1. 1 \in 1 .. Len(callers) /\ Len(callers') = Len(callers) - 1
    BY <1>2
  <2>2. Room(Len(callers) - 1, callers[1])
    BY <2>1 DEF Proceeds, AllRoom
  <2> QED BY <1>2, <1>n, <1>i, <2>1, <2>2 DEF Room
<1>4. ASSUME NEW i \in 1 .. Len(callers') PROVE Room(Len(callers) - i, callers[i])'
  <2>1. i + 1 \in 1 .. Len(callers) /\ Len(callers') - i = Len(callers) - (i + 1)
        /\ callers'[i] = callers[i + 1]
    BY <1>2
  <2>2. Room(Len(callers) - (i + 1), callers[i + 1])
    BY <2>1 DEF Proceeds, AllRoom
  <2> QED BY <1>n, <1>i, <2>1, <2>2 DEF Room
<1> QED BY <1>3, <1>4 DEF AllRoom

LEMMA InstanceRoom ==
  ASSUME Proceeds, cur.expr # Absent, NEW c, c.type = cur.type, c.expr = cur.expr, c.pc # "overflow",
         NEW instance, instance.type.resolved, instance.type.name \in DOMAIN types,
         NEW expr \in Unrepeated, expr = Absent \/ Depth[expr] < Depth[cur.expr],
         NEW want, NEW named, ValidateInstance(c, instance, expr, want, named)
  PROVE  AllRoom'
<1>1. CASE Call(c, instance.type.name, expr, want, named)
  <2>1. ASSUME expr # Absent
        PROVE  /\ Need(types, instance.type.name, expr) \in Nat
               /\ Need(types, instance.type.name, expr) < Need(types, cur.type, cur.expr)
    <3>1. expr \in Unrepeated \ {Absent} /\ cur.expr \in Unrepeated \ {Absent} /\ cur.type \in DOMAIN types
      BY <2>1, RoomAtWork
    <3>2. Need(types, instance.type.name, expr) < Need(types, cur.type, cur.expr)
      BY <2>1, <3>1, PartsNeedLess DEF Proceeds
    <3>3. Need(types, instance.type.name, expr) \in Nat
      <4>1. Rank(types, instance.type.name) \in Nat
        BY Ranks DEF Proceeds
      <4>2. Cardinality(DOMAIN types) \in Nat
        BY FS_CardinalityType DEF Proceeds, Ordered
      <4>3. Depth[expr] \in Nat /\ Depth[expr] > 0
        BY <3>1, DepthAssumption
      <4>4. Depth[expr] - 1 \in Nat
        BY <4>3
      <4>5. Cardinality(DOMAIN types) * (Depth[expr] - 1) \in Nat
        BY <4>2, <4>4
      <4> QED BY <4>1, <4>5 DEF Need
    <3> QED BY <3>2, <3>3
  <2> QED BY <1>1, <2>1, CallRoom
<1>2. CASE cur' = c /\ callers' = callers
  BY <1>2, GoRoom
<1> QED BY <1>1, <1>2 DEF ValidateInstance

LEMMA NeedIsNatural ==
  ASSUME NEW T, Ordered(T), NEW name \in DOMAIN T, NEW e \in Unrepeated \ {Absent}
  PROVE  Need(T, name, e) \in Nat
<1>1. Rank(T, name) \in Nat /\ Cardinality(DOMAIN T) \in Nat
  BY Ranks, FS_CardinalityType DEF Ordered
<1>2. Depth[e] - 1 \in Nat
  <2>1. Depth[e] \in Nat /\ Depth[e] > 0
    BY DepthAssumption
  <2> QED BY <2>1
<1>3. Cardinality(DOMAIN T) * (Depth[e] - 1) \in Nat
  BY <1>1, <1>2
<1> QED BY <1>1, <1>3 DEF Need

LEMMA MovesRoom ==
  ASSUME Proceeds, cur.expr # Absent, NEW pc, pc # "overflow",
         NEW i, NEW keys, NEW ok, NEW errors, NEW reasons,
         \/ Go([cur EXCEPT !.pc = pc])
         \/ Go([cur EXCEPT !.pc = pc, !.i = i, !.reasons = reasons])
         \/ Go([cur EXCEPT !.pc = pc, !.i = i, !.ok = ok, !.errors = errors])
         \/ Go([cur EXCEPT !.pc = pc, !.keys = keys, !.i = i])
         \/ Go([cur EXCEPT !.pc = pc, !.ok = ok, !.errors = errors])
  PROVE  AllRoom'
<1>1. DOMAIN cur = FrameFields
  BY AtWork DEF Proceeds
<1>2. cur'.expr = cur.expr /\ cur'.type = cur.type /\ cur'.pc = pc /\ callers' = callers
  BY <1>1 DEF Go, FrameFields
<1> QED BY <1>2, GoRoom

LEMMA PartsAreLess ==
  ASSUME NEW e \in Unrepeated \ {Absent}
  PROVE  /\ \A i \in Nat \ {0} : i <= arrayCount(e) => Depth[e.list[i]] < Depth[e]
         /\ \A key : mapValueForKey(e, key) = Absent \/ Depth[mapValueForKey(e, key)] < Depth[e]
         /\ \A key \in KeysIn(e) : Depth[e.hash[key]] < Depth[e] /\ Depth[Value(key)] < Depth[e]
<1>1. /\ \A i \in 1 .. arrayCount(e) : Depth[e.list[i]] < Depth[e]
      /\ \A key \in KeysIn(e) : Depth[e.hash[key]] < Depth[e] /\ Depth[Value(key)] < Depth[e]
  BY DepthAssumption
<1>2. arrayCount(e) \in Nat
  BY DepthAssumption, CountsAre
<1>3. \A i \in Nat \ {0} : i <= arrayCount(e) => i \in 1 .. arrayCount(e)
  BY <1>2
<1> QED BY <1>1, <1>3 DEF mapValueForKey

LEMMA ValidateRoom ==
  ASSUME Proceeds, ValidateStep
  PROVE  AllRoom'
<1> DEFINE U == Unrepeated
<1>w. Working /\ AllSafe(U) /\ Whole(U)
  BY DepthAssumption DEF Proceeds
<1>0. DOMAIN cur = FrameFields /\ InRange(cur) /\ Within(U, cur) /\ cur.expr \in U /\ cur.named = TRUE
  BY <1>w, AtWork, SafeAtWork DEF Within
<1>t. cur.type \in DOMAIN types /\ (cur.expr = Absent => cur.pc = "kinds")
  BY RoomAtWork
<1>r. \A S : \A rule \in MapRule(S) : rule \in S
  BY DEF MapRule
<1>b. Blanks = 0
  BY <1>0, <1>w, NoBlanks
<1>p. \A e \in U \ {Absent} :
        /\ \A i \in Nat \ {0} : i <= arrayCount(e) => e.list[i] \in U /\ Depth[e.list[i]] < Depth[e]
        /\ \A key : /\ mapValueForKey(e, key) \in U
                    /\ mapValueForKey(e, key) = Absent \/ Depth[mapValueForKey(e, key)] < Depth[e]
        /\ \A key \in KeysIn(e) : /\ e.hash[key] \in U /\ Depth[e.hash[key]] < Depth[e]
                                  /\ Value(key) \in U /\ Depth[Value(key)] < Depth[e]
  BY <1>w, PartsWithin, PartsAreLess
<1>l. /\ \A rule \in Type.arrayAllElements \cup Type.mapKeyType \cup Type.mapAllProperties :
           rule.type.resolved /\ rule.type.name \in DOMAIN types
      /\ \A key \in DOMAIN Type.mapProperties :
           Type.mapProperties[key].type.resolved /\ Type.mapProperties[key].type.name \in DOMAIN types
  BY <1>w, RulesLead, RulesResolved
<1> HIDE DEF U
<1>d. \A e \in U : e \in Unrepeated
  BY DEF U
<1>1. CASE AskForEver
  BY <1>1, <1>t, AsksAtLast DEF AskForEver, Proceeds
<1>2. CASE WrongPrimitive
  BY <1>0, <1>2, AnswerRoom DEF WrongPrimitive
<1>3. CASE RightPrimitive
  <2>1. Matches /\ Go([cur EXCEPT !.pc = "parents"])
    BY <1>3 DEF RightPrimitive
  <2>2. cur.expr # Absent
    BY <2>1 DEF Matches, matchesExpressionType, TypeOf
  <2> QED BY <2>1, <2>2, MovesRoom
<1>4. CASE TryParent
  <2> DEFINE c == [cur EXCEPT !.pc = "parentTried"]
             parent == Type.types[cur.i].name
  <2>1. Call(c, parent, cur.expr, TRUE, TRUE) /\ cur.pc = "parents" /\ cur.i <= Len(Type.types)
    BY <1>0, <1>4 DEF TryParent
  <2>2. c.pc # "overflow" /\ c.expr = cur.expr /\ c.type = cur.type
    BY <1>0 DEF FrameFields
  <2> HIDE DEF c
  <2>3. cur.expr # Absent
    BY <1>t, <2>1
  <2>4. parent \in Parents(types)[cur.type]
    <3>1. cur.i \in Nat \ {0}
      BY <1>0, <2>1 DEF InRange, Searching, Matching
    <3>2. cur.i \in DOMAIN Type.types
      <4>1. Type.types \in Seq(Refs)
        BY <1>w, AtWork DEF IsTyped
      <4> QED BY <2>1, <3>1, <4>1
    <3> QED BY <1>t, <3>2 DEF Parents, Type
  <2> HIDE DEF parent
  <2>5. Need(types, parent, cur.expr) < Need(types, cur.type, cur.expr)
    BY <1>0, <1>d, <1>t, <2>3, <2>4, TypesNeedLess DEF Proceeds
  <2>6. Need(types, parent, cur.expr) \in Nat
    BY <1>0, <1>d, <1>t, <2>3, <2>4, NeedIsNatural DEF Proceeds, Ordered
  <2> QED BY <2>1, <2>2, <2>3, <2>5, <2>6, CallRoom
<1>5. CASE ParentFailed
  BY <1>5, <1>t, MovesRoom DEF ParentFailed
<1>6. CASE ParentMatched
  BY <1>6, <1>t, MovesRoom DEF ParentMatched
<1>7. CASE NoParentMatched
  BY <1>7, AnswerRoom DEF NoParentMatched
<1>8. CASE NoParents
  BY <1>8, <1>t, MovesRoom DEF NoParents
<1>9. CASE ValidateElement
  <2> DEFINE c == [cur EXCEPT !.pc = "elementTried"]
  <2>1. PICK rule \in ElementRule : ValidateInstance(c, rule, cur.expr.list[cur.i], cur.want, TRUE)
    BY <1>0, <1>9 DEF ValidateElement
  <2>2. c.pc # "overflow" /\ c.expr = cur.expr /\ c.type = cur.type
    BY <1>0 DEF FrameFields
  <2> HIDE DEF c
  <2>3. cur.i \in Nat \ {0} /\ cur.i <= arrayCount(cur.expr) /\ cur.expr # Absent
    BY <1>0, <1>t, <1>9 DEF ValidateElement, ElementsLeft, Within, Looping
  <2>4. cur.expr.list[cur.i] \in Unrepeated /\ Depth[cur.expr.list[cur.i]] < Depth[cur.expr]
    BY <1>0, <1>d, <1>p, <2>3
  <2>5. rule.type.resolved /\ rule.type.name \in DOMAIN types
    BY <1>l, <2>1 DEF ElementRule
  <2> QED BY <2>1, <2>2, <2>3, <2>4, <2>5, InstanceRoom
<1>10. CASE ElementValidated
  BY <1>10, <1>t, MovesRoom DEF ElementValidated
<1>11. CASE ElementsDone
  <2>1. CASE cur.ok
    BY <1>11, <1>t, <2>1, MovesRoom DEF ElementsDone, NextRules
  <2>2. CASE ~cur.ok
    BY <1>11, <2>2, AnswerRoom DEF ElementsDone, NextRules
  <2> QED BY <2>1, <2>2
<1>12. CASE ValidateProperty
  <2>1. PICK key \in cur.keys :
          ValidateInstance([cur EXCEPT !.pc = "propertyTried", !.keys = cur.keys \ {key}],
            Type.mapProperties[key], mapValueForKey(cur.expr, key), TRUE, TRUE)
    BY <1>0, <1>12 DEF ValidateProperty
  <2> DEFINE c == [cur EXCEPT !.pc = "propertyTried", !.keys = cur.keys \ {key}]
  <2>2. c.pc # "overflow" /\ c.expr = cur.expr /\ c.type = cur.type
    BY <1>0 DEF FrameFields
  <2>3. ValidateInstance(c, Type.mapProperties[key], mapValueForKey(cur.expr, key), TRUE, TRUE)
    BY <2>1
  <2> HIDE DEF c
  <2>4. key \in DOMAIN Type.mapProperties /\ cur.expr # Absent
    BY <1>0, <1>t, <1>12 DEF ValidateProperty, InRange, Matching, Type
  <2>5. /\ mapValueForKey(cur.expr, key) \in Unrepeated
        /\ mapValueForKey(cur.expr, key) = Absent \/ Depth[mapValueForKey(cur.expr, key)] < Depth[cur.expr]
    BY <1>0, <1>d, <1>p, <2>4
  <2>6. Type.mapProperties[key].type.resolved /\ Type.mapProperties[key].type.name \in DOMAIN types
    BY <1>l, <2>4
  <2> QED BY <2>2, <2>3, <2>4, <2>5, <2>6, InstanceRoom
<1>13. CASE PropertyValidated
  BY <1>13, <1>t, MovesRoom DEF PropertyValidated
<1>14. CASE PropertiesDone
  BY <1>14, <1>t, MovesRoom DEF PropertiesDone
<1>15. CASE ValidateKey
  <2>1. PICK key \in cur.keys :
          LET caller == [cur EXCEPT !.pc = "keyTried", !.keys = cur.keys \ {key}, !.key = key] IN
          IF MapRule(Type.mapKeyType) = {}
          THEN cur' = caller /\ ret' = Passed /\ UNCHANGED <<callers, types>>
          ELSE \E rule \in MapRule(Type.mapKeyType) :
                 ValidateInstance(caller, rule, Value(key), cur.want, cur.named)
    BY <1>15 DEF ValidateKey
  <2> DEFINE c == [cur EXCEPT !.pc = "keyTried", !.keys = cur.keys \ {key}, !.key = key]
  <2>2. c.pc # "overflow" /\ c.expr = cur.expr /\ c.type = cur.type
    BY <1>0 DEF FrameFields
  <2>3. \/ cur' = c /\ callers' = callers
        \/ \E rule \in MapRule(Type.mapKeyType) :
             ValidateInstance(c, rule, Value(key), cur.want, TRUE)
    BY <1>0, <2>1
  <2> HIDE DEF c
  <2>4. cur.keys \subseteq KeysIn(cur.expr) /\ cur.expr # Absent
    BY <1>0, <1>t, <1>15 DEF ValidateKey, Within, OnPairs
  <2>5. Value(key) \in Unrepeated /\ Depth[Value(key)] < Depth[cur.expr]
    BY <1>0, <1>d, <1>p, <2>1, <2>4
  <2>6. \A rule \in MapRule(Type.mapKeyType) : rule.type.resolved /\ rule.type.name \in DOMAIN types
    BY <1>l, <1>r
  <2> QED BY <2>2, <2>3, <2>4, <2>5, <2>6, GoRoom, InstanceRoom
<1>16. CASE ValidatePair
  <2> DEFINE c == [cur EXCEPT !.pc = "pairTried", !.ok = cur.ok /\ ret.ok,
                              !.errors = ret.errors \o cur.errors]
  <2>1. c.pc # "overflow" /\ c.expr = cur.expr /\ c.type = cur.type
    BY <1>0 DEF FrameFields
  <2>2. \/ cur' = c /\ callers' = callers
        \/ \E rule \in MapRule(Type.mapAllProperties) :
             ValidateInstance(c, rule, cur.expr.hash[cur.key], cur.want, TRUE)
    BY <1>0, <1>16 DEF ValidatePair
  <2> HIDE DEF c
  <2>3. cur.key \in KeysIn(cur.expr) /\ cur.expr # Absent
    BY <1>0, <1>t, <1>16 DEF ValidatePair, Within, OnPairs
  <2>4. cur.expr.hash[cur.key] \in Unrepeated /\ Depth[cur.expr.hash[cur.key]] < Depth[cur.expr]
    BY <1>0, <1>d, <1>p, <2>3
  <2>5. \A rule \in MapRule(Type.mapAllProperties) : rule.type.resolved /\ rule.type.name \in DOMAIN types
    BY <1>l, <1>r
  <2> QED BY <2>1, <2>2, <2>3, <2>4, <2>5, GoRoom, InstanceRoom
<1>17. CASE ValidateBlank
  BY <1>0, <1>17 DEF ValidateBlank, Within, OnPairs
<1>18. CASE PairValidated
  BY <1>18, <1>t, MovesRoom DEF PairValidated
<1>19. CASE PairsDone
  BY <1>19, <1>t, MovesRoom DEF PairsDone
<1>20. CASE FindAdditional
  <2> DEFINE ok == cur.ok /\ AdditionalKeys = {}
             errors == IF AdditionalKeys = {} THEN cur.errors
                       ELSE Explained("additional", <<>>, cur.errors)
  <2>1. ~(Refuses /\ Blanks > 0)
    BY <1>b
  <2>2. Go([cur EXCEPT !.pc = "value", !.ok = ok, !.errors = errors]) /\ cur.expr # Absent
    BY <1>20, <1>t, <2>1 DEF FindAdditional
  <2> HIDE DEF ok, errors
  <2> QED BY <2>2, MovesRoom
<1>21. CASE ValidateValue
  BY <1>21, AnswerRoom DEF ValidateValue
<1> QED BY <1>1, <1>2, <1>3, <1>4, <1>5, <1>6, <1>7, <1>8, <1>9, <1>10, <1>11, <1>12, <1>13,
           <1>14, <1>15, <1>16, <1>17, <1>18, <1>19, <1>20, <1>21 DEF ValidateStep

-----------------------------------------------------------------------------
(* There is room for every activation of a sound schema, and none that has  *)
(* lost its way is left when nothing is asked.                              *)
RoomInv == phase = "asked" /\ SoundSchema /\ asked.expr \in Unrepeated => AllRoom
IdleInv == phase # "asked" => cur.pc = "root"

LEMMA TypesAreOrdered ==
  ASSUME SchemaInv, DefinedInv, RootInv, HadTypes, phase \in {"loaded", "asked"},
         \A name \in DOMAIN types : InOrder(name)
  PROVE  Ordered(types)
<1>1. MadeFrom(types, document.types.pairs)
  BY LoadedIsMade
<1>2. Parents(types) \in [DOMAIN types -> SUBSET DOMAIN types]
  BY <1>1, ParentsAre
<1>3. IsFiniteSet(DOMAIN types)
  BY DEF SchemaInv, ListInv
<1> QED BY <1>2, <1>3 DEF Ordered, InOrder

LEMMA AskRoom ==
  ASSUME SchemaInv, DefinedInv, RootInv, HadTypes, Ask
  PROVE  RoomInv'
<1> SUFFICES ASSUME SoundSchema', asked'.expr \in Unrepeated PROVE AllRoom'
  BY DEF RoomInv
<1>1. PICK root \in rootType, expr \in Expressions, want \in BOOLEAN :
        /\ asked' = [expr |-> expr, want |-> want]
        /\ cur' = Frame("kinds", root, expr, want, TRUE)
  BY DEF Ask
<1>2. callers' = <<Idle>> /\ phase' = "asked" /\ phase = "loaded" /\ UNCHANGED <<types, document>>
  BY DEF Ask
<1>3. cur'.pc = "kinds" /\ cur'.expr = expr /\ cur'.type = root /\ asked'.expr = expr
  BY <1>1 DEF Frame
<1>4. Len(callers') = 1 /\ callers'[1] = Idle /\ \A i \in 1 .. Len(callers') : i = 1
  BY <1>2
<1>5. Ordered(types)
  BY <1>2, TypesAreOrdered DEF SoundSchema, InOrder
<1>6. root \in DOMAIN types /\ DOMAIN types = DOMAIN document.types.pairs /\ document \in SchemaDocuments
  <2>1. rootType \subseteq DOMAIN types
    BY <1>2 DEF SchemaInv, ListInv, LoadInv
  <2>2. DOMAIN types = DOMAIN document.types.pairs
    BY <1>2, LoadedIsMade DEF MadeFrom
  <2> QED BY <2>1, <2>2 DEF SchemaInv, LoadInv
<1>n. \A name, e : Need(types, name, e)' = Need(types, name, e)
  BY <1>2 DEF Need, Rank
<1>i. Idle' = Idle /\ Idle.pc = "root"
  BY IdleIsRoot DEF Idle, Frame
<1> HIDE DEF Idle
<1>7. Room(Len(callers), cur)'
  <2>1. CASE expr = Absent
    BY <1>3, <2>1 DEF Room
  <2>2. CASE expr # Absent
    <3> DEFINE K == Cardinality(DOMAIN types)
               r == Rank(types, root)
    <3>1. expr \in Unrepeated \ {Absent}
      BY <1>3, <2>2
    <3>2. K \in Nat /\ r \in Nat /\ r < K
      BY <1>5, <1>6, Ranks, FS_CardinalityType DEF Ordered
    <3>3. Depth[expr] \in Nat /\ Depth[expr] > 0 /\ K * Depth[expr] < MaxCalls /\ MaxCalls \in Nat
      BY <1>6, <3>1, DepthAssumption, RoomAssumption, MaxCallsAssumption
    <3>4. Need(types, root, expr) = r + K * (Depth[expr] - 1)
      BY DEF Need
    <3> DEFINE n == Depth[expr] - 1
    <3>5. n \in Nat /\ Depth[expr] = n + 1
      BY <3>3
    <3> HIDE DEF K, r, n
    <3>6. K * Depth[expr] = K * n + K /\ K * n \in Nat
      BY <3>2, <3>5
    <3> DEFINE m == K * n
    <3> HIDE DEF m
    <3>7. m \in Nat /\ m + K < MaxCalls
      BY <3>3, <3>6 DEF m
    <3>8. r + m \in Nat /\ 1 + 1 + (r + m) <= MaxCalls
      BY ONLY <3>2, <3>7, MaxCalls \in Nat, <3>3
    <3>9. Need(types, root, expr) = r + m
      BY <3>4 DEF m, n
    <3>10. Need(types, cur.type, cur.expr)' = r + m
      BY <1>3, <1>n, <3>9
    <3> QED BY <1>3, <1>4, <2>2, <3>8, <3>10 DEF Room
  <2> QED BY <2>1, <2>2
<1>8. \A i \in 1 .. Len(callers') : Room(Len(callers) - i, callers[i])'
  BY <1>4, <1>i DEF Room
<1> QED BY <1>7, <1>8 DEF AllRoom

LEMMA RoomInductive ==
  ASSUME SchemaInv, DefinedInv, RootInv, HadTypes, SafeInv(Unrepeated), RoomInv, [SchemaNext]_schemaVars
  PROVE  RoomInv'
<1>1. CASE LoadStep \/ AskNoRoot \/ Answered \/ Destroy
  BY <1>1, NotAsking DEF RoomInv
<1>2. CASE Ask
  BY <1>2, AskRoom
<1>3. CASE Validate
  <2>1. /\ Working /\ ValidateStep /\ phase = "asked"
        /\ UNCHANGED <<asked, phase, document, types>>
    BY <1>3, ValidateWorks DEF Validate, loadingVars
  <2>2. SoundSchema' <=> SoundSchema
    BY <2>1 DEF SoundSchema, SoundDocument, InOrder
  <2>3. ASSUME SoundSchema, asked.expr \in Unrepeated PROVE AllRoom'
    <3>1. Ordered(types)
      BY <2>1, <2>3, TypesAreOrdered DEF SoundSchema
    <3>2. AllSafe(Unrepeated) /\ AllRoom
      BY <2>1, <2>3 DEF SafeInv, RoomInv
    <3>3. Proceeds
      BY <2>1, <3>1, <3>2 DEF Proceeds
    <3> QED BY <2>1, <3>3, ValidateRoom
  <2> QED BY <2>1, <2>2, <2>3 DEF RoomInv
<1>4. CASE UNCHANGED schemaVars
  <2>1. UNCHANGED <<asked, phase, document, types, cur, callers>>
    BY <1>4 DEF schemaVars
  <2>2. SoundSchema' <=> SoundSchema
    BY <2>1 DEF SoundSchema, SoundDocument, InOrder
  <2>3. AllRoom' <=> AllRoom
    <3>1. \A name, e : Need(types, name, e)' = Need(types, name, e)
      BY <2>1 DEF Need, Rank
    <3>2. Idle' = Idle
      BY DEF Idle, Frame
    <3> HIDE DEF Idle
    <3>3. \A n, a : Room(n, a)' <=> Room(n, a)
      BY <3>1, <3>2 DEF Room
    <3> QED BY <2>1, <3>3 DEF AllRoom
  <2> QED BY <2>1, <2>2, <2>3 DEF RoomInv
<1> QED BY <1>1, <1>2, <1>3, <1>4 DEF SchemaNext, Over

LEMMA IdleInductive ==
  ASSUME IdleInv, [SchemaNext]_schemaVars
  PROVE  IdleInv'
<1>1. CASE LoadStep \/ Destroy
  <2>1. cur' = cur /\ phase # "asked"
    BY <1>1 DEF LoadStep, Locate, ParseDocument, CheckVersion, ReadTexts, CreateType, TypesCreated,
                ResolveType, FindRootType, Refuse, Crash, Load, Destroy, askingVars
  <2> QED BY <2>1 DEF IdleInv
<1>2. CASE AskNoRoot
  BY <1>2 DEF AskNoRoot, IdleInv
<1>3. CASE Ask
  BY <1>3 DEF Ask, IdleInv
<1>4. CASE Validate
  BY <1>4 DEF Validate, loadingVars, IdleInv
<1>5. CASE Answered
  BY <1>5 DEF Answered, IdleInv
<1>6. CASE UNCHANGED schemaVars
  BY <1>6 DEF schemaVars, IdleInv
<1> QED BY <1>1, <1>2, <1>3, <1>4, <1>5, <1>6 DEF SchemaNext, Over

(* Against a sound schema (SoundSchema: a sound document, no type of which is*)
(* among its own types, an expression without a repeated key is validated    *)
(* without undefined behaviour and without overflowing the C stack, whatever *)
(* the types, the expression and the order of its pairs: a call is made for  *)
(* a part of the expression, or for a type that reaches fewer types          *)
(* (createFromSchemaID, wexprSchema_Type_validateObject and what they call). *)
THEOREM SoundSchemasNeverLost == SchemaSpec => []SoundSchemasAreSafe
<1> DEFINE U == Unrepeated
<1>0. Whole(U)
  BY DepthAssumption
<1>1. SchemaInit => SchemaInv /\ SoundInv /\ DefinedInv /\ RootInv /\ HadTypes /\ SafeInv(U) /\ RoomInv /\ IdleInv
  <2>1. SchemaInit => phase = "locate" /\ cur = Idle /\ types = <<>>
    BY DEF SchemaInit
  <2> QED BY <2>1, IdleIsRoot, Nothing, SchemaInvInit, RootInit
          DEF DefinedInv, SoundInv, SafeInv, HadTypes, RoomInv, IdleInv
<1>2. SoundInv /\ HadTypes /\ DefinedInv /\ RootInv /\ SafeInv(U) /\ RoomInv /\ IdleInv
        /\ SchemaInv /\ [SchemaNext]_schemaVars
      => SoundInv' /\ HadTypes' /\ DefinedInv' /\ RootInv' /\ SafeInv(U)' /\ RoomInv' /\ IdleInv'
  BY <1>0, SoundInductive, DefinedInductive, RootInductive, SafeInductive, HadTypesInductive,
     RoomInductive, IdleInductive DEF SchemaInv
<1>3. SoundInv /\ SafeInv(U) /\ RoomInv /\ IdleInv => SoundSchemasAreSafe
  <2> SUFFICES ASSUME SoundInv, SafeInv(U), RoomInv, IdleInv, SoundSchema, asked.expr \in Unrepeated
               PROVE  ~Lost
    BY DEF SoundSchemasAreSafe
  <2>1. phase # "undefined"
    BY DEF SoundInv, SoundSchema
  <2>2. CASE phase = "asked"
    BY <2>1, <2>2 DEF SafeInv, AllSafe, Safe, RoomInv, AllRoom, Room, Lost
  <2>3. CASE phase # "asked"
    BY <2>1, <2>3 DEF IdleInv, Lost
  <2> QED BY <2>2, <2>3
<1> QED BY <1>1, <1>2, <1>3, SchemaInductive, PTL DEF SchemaSpec
=============================================================================
