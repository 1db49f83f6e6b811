# A verification development for libWexpr

libWexpr reads and writes *wexpr*, a small format for structured data (values,
null, binary data, arrays and maps, with references inside a text), in a text
and a binary form; libWexprSchema checks an expression against a schema, and
WexprTool is a command line around both.  This directory holds TLA+ models of
the parts of the libraries that carry their logic, TLC configurations that
check them on small instances, and proofs that hold for every instance.

All of it is sequential C: no threads, no I/O inside the libraries but reading
a schema file.  What is hard here is not concurrency but recursion whose calls
share registers (one error, one position, one table of references per parse), a
hash table that is rebuilt while it is being filled, pointers owned by one part
and used by another, and counts that are used as bounds of loops although they
count something else.

## The system

| component | state it keeps | operations | works with | what is hard | what makes it correct |
|---|---|---|---|---|---|
| Text parser (`Expression.c` 245-579, 935-1366, 1754-1862) | C stack of `s_Expression_parseFromString`; `WexprError`; `PrivateParserState` (line, column, internal and external reference table); what is left of the text | `createFromString...` (four entry points, one body) | expression tree (fills it), reference tables (binds `[r]`, inserts `*[r]`), Base64, maps | a failure deep in the recursion; loops that end only by an error; errors overwritten unconditionally; rebinding of references | gives every text of the grammar its meaning and refuses the others, but strings without an ending quote and names it does not look at; first error reported; nothing read or bound after an error; position follows the text; terminates |
| Expression tree (`Expression.c` 60-113, 624-694, 1899-2024, 2208-2457) | nodes with a type and the union it selects | create, copy, destroy, changeType, accessors | hash map (of maps), lists (of arrays) | ownership; copies; maps set twice | a copy shares nothing with what it is a copy of; every node is held once and freed once |
| Hash map (`hashmap.c`) | slots, `table_size`, `size` | new, put (with rehash), get, remove, iterate, length, free | expression maps, reference tables, schema types | put and rehash call each other; bounded chains; stale elements; no memory half way; holes left by removals | it is a map; every put returns; half of the table stays free |
| Reference table (`ReferenceTable.c`) | a hash map of elements it allocates; a callback | set, lookup (may call back and set), remove, count, index of key, key and expression at index, destroy | hash map, parser, user's callback | the key string of a slot belongs to the element it points to; the count as the index of nothing | binds names; every slot points to a live element of its own; indexes agree with lookups |
| Text writer (`Expression.c` 588-622, 1378-1748, 2026-2038) | the buffer it grows and its size | createStringRepresentation | expression tree | sizes computed before what is written; escapes; keys at indexes that hold nothing | never writes past the buffer, leaves no byte of it unset, and what it writes parses back |
| Binary reader and writer (`Expression.c` 696-930, 1864-1897, 2040-2206; `UVLQ64.h`) | C stack of `s_Expression_parseFromBinaryChunk`; the buffer each activation was given and its position in it; error | createFromBinaryChunk, createBinaryRepresentation | expression tree | sizes that are trusted, of chunks in chunks; arithmetic of `size_t`; a failure half way | reading what was written gives the expression back; chunks whose sizes add up never lead out of the buffer; a container ends where it says |
| Base64 (`Base64.c`) | none | encode, decode | parser, text writer | partial groups | decode of encode is the identity |
| Schema: loading (`Schema.c`, `Type.c` 455-775, `TypeInstance.c`, `TypeRef.c`) | types, references to types by name, resolved or not; the root type | createFromSchemaID, typeWithName, resolveWithSchema, destroy | parser, expression tree, hash map | references resolved type by type in the order of a hash map, failure half way; names with `::`; texts and instances taken for granted | after a load every reference leads to a type, or the load failed and the schema is destroyed |
| Schema: validation (`Type.c` 140-451, 812-1036, `TypeInstance.c`, `PrimitiveType.c`) | the chain of errors | validateExpression, validateObject | expression tree, loaded types | recursion over types and over the expression; types in a circle; errors of types that were tried; indexes that hold no key | accepts exactly what the document describes, in whatever order; an error if and only if it was refused, and each of them true; returns |
| Schema: errors, twines (`Error.c`, `Twine.c`) | lists of errors; none | create, destroy, append; resolve to a buffer | validation | | every error is reported and freed once |
| WexprTool (`Application.cpp`) | none | validate, convert text and binary, validate against a schema | all of the above | | exit status follows the outcome |
| sglib, Endian, flags, type names | none | | | | vendored lists, constants |

They interact by plain calls.  The parser calls the reference tables, which call
the hash map; a lookup in the caller's table may call the user's callback and
store what it creates.  Pointers cross these boundaries with their ownership: a
table owns the elements of its map and the map's key strings are the elements'.

## The modules

| module | models | checked by | proved in |
|---|---|---|---|
| `Expression` | expressions as values; `createCopy`, `s_Expression_copyInto` | with `Parser` | |
| `Parser` (extends `Expression`) | the text parser | `MCParser` | `ParserProofs` |
| `Grammar` (extends `Parser`) | what a text means, found by its places | `MCParser` | `ParserProofs` |
| `KeyedStore` | what a map promises (abstract) | | |
| `HashMap` | `hashmap.c` | `MCHashMap` | `HashMapProofs` |
| `Bindings` | what a reference table promises (abstract) | | |
| `ReferenceTable` (extends `HashMap`) | `ReferenceTable.c` on top of the hash map | `MCReferenceTable` | `ReferenceTableProofs` |
| `Characters` | the classes of characters both directions of the text format use | with `RoundTrip` | with `Writer` |
| `Base64` | `Base64.c` | with `RoundTrip` | `WriterProofs` |
| `Writer` (extends `Characters`, `Base64`) | the text writer and its buffer | with `RoundTrip` | `WriterProofs` |
| `Lexer` (extends `Characters`, `Base64`) | the lexemes of `Parser` found in a text of characters | with `RoundTrip` | |
| `RoundTrip` (extends `Writer`, `Lexer`, instantiates `Parser`) | an expression written and parsed again | `MCRoundTrip` | |
| `UVLQ64` | `UVLQ64.h`: the bytes of a size, `wexpr_uvlq64_bytesize`, `wexpr_uvlq64_write` | with `BinaryRoundTrip` | with `BinaryRoundTrip` |
| `BinaryReader` (extends `UVLQ64`) | the reader of binary chunks, `wexpr_uvlq64_read` | `MCBinary` | `BinaryProofs` |
| `BinaryWriter` (extends `UVLQ64`) | the writer of binary chunks | with `BinaryRoundTrip` | with `BinaryRoundTrip` |
| `BinaryRoundTrip` (extends `BinaryReader`, `BinaryWriter`) | an expression written as a chunk and read again | `MCBinary` | `BinaryProofs` |
| `BinaryMeaning` (extends `BinaryReader`) | what a binary document denotes, as a grammar of its bytes | | used in `BinaryProofs` |
| `Trees` | what the calls of `Expression.h` promise (abstract) | | |
| `Nodes` (extends `Expression`) | the nodes of expressions on the heap | `MCNodes` | `NodesProofs` |
| `SchemaTypes` | a type from its definition, its references, the kinds it stands for | with `Schema` | with `Schema` |
| `Validation` (extends `SchemaTypes`) | `validateObject` and its recursion | with `Schema` | with `Schema` |
| `Schema` (extends `Validation`) | a schema from its document to its destruction | `MCSchema` | `SchemaProofs`, `ValidationProofs` |
| `SchemaMeaning` (extends `Schema`) | what a document means, and what the answers are worth | `MCSchema` | `ValidationProofs` |

### Parser

The C stack is state.  `cur` is the running activation of
`s_Expression_parseFromString` and `callers` the ones below it, down to the
entry point (`root`); an activation has the expression it fills, the point where
it resumes, and the two locals that live across a call.  One action is what runs
between two calls or returns: the branches at the head of the function
(`ParseEmpty` ... `ParseInsertOpen`), the array loop (`ArrayNoParen`,
`ArrayClose`, `ArrayElement`, `ArrayElementParsed`), the map loop (`MapNoParen`,
`MapClose`, `MapKey`, `MapKeyParsed`, `MapValueParsed`), the tail of a reference
(`RefParsed`) and the end of the entry point (`Finish`).  `ret` is the
expression a call filled, `str` the text it returned, `<<>>` also when the code
makes it invalid.

A text is a sequence of lexemes: what a branch looks for with `find` and
consumes at once is one lexeme, and a failure of such a search is a lexeme of its
own (`openRef`, `badEscape`, ...) that ends the text, as it does in the code,
which looks for the closing character to the end.  White space and comments are
`blank`.  Line and column are one number.  The reference tables are tables, which
is what `ReferenceTableProofs` shows they are; the callback of the caller's table
is in `Lookup` and `AfterLookup`.

`Grammar` says what a text means without reading it from left to right: where each
part of it ends (`Ends`), which expressions are named before a place and which of
those of one name was bound last (`NamedBefore`, `BoundLast`), and what a part means
in terms of its parts (`MeaningWith`), by the rules of `Spec/wexpr.ebnf`.  Two things
are read into these: blanks behind a declared name, which the rules do not have and
`Tests/Expression.h:274` does, and keys of maps that are named or inserted.  What the
rules derive nothing from has no meaning (`OutsideGrammar`): a string that lacks its
ending quote, a reference by what is no identifier.  The parser takes a string
without its quote, `WexprErrorCodeStringMissingEndingQuote` notwithstanding, and
refuses only the names of declarations, so `ParsesTheGrammar` is about the texts
without such a thing (`Plain`), and says so.  An inserted copy is what `createCopy` and
`copyInto` make of what was bound; with `whole` it would be a whole copy, which
`parser_copy` shows it is not.

### HashMap

`hashmap_put` and `hashmap_rehash` call each other; `puts` is the stack of their
activations.  `Store` is the end of a put that found its slot, `Rehash` the
allocation of a table twice as large, `Move` one turn of the loop that puts the
elements of the old table into it, and `OutOfMemory` the failing `calloc`, which
unwinds all of them and loses what had not been moved.  Gets and removals are
single steps.  The hash function is a constant (any function to the naturals), as
are the first size of the table and the length of chains; 256 and 8 in the code.

### ReferenceTable

The data of its hash map are addresses of elements; `elements` says what is at
each: unallocated, owned or freed.  A freed element keeps its contents in the
model so that a use of it can be seen.  Setting a name is the allocation of an
element and a put; the steps of that put are steps of `HashMap` (`PutSteps`).
`removeKey` frees the element, and with it the string the map will compare, before
it asks the map to remove it: the two outcomes that comparison can have are the two
disjuncts of `RemoveKey`.

### Writer

`text` is the buffer.  The code reallocates it by a size it computes and then
lets `s_writeStringEscapedToBuffer` fill what is new; the model makes it longer by
the same size, with `Unset` in what is not written (`Grown`), and copies a word
one character, or one escape, at a time (`CopyChar`), each against the end of the
buffer (`Fits`).  `copy` holds the three registers of that function.  What is
appended with a size that is a literal of what is written (`null`, a bracket, the
indentation) is one step.  `writing` and `waiting` are the C stack: one action
for each branch of the function (`AppendNull` ... `AppendMap`), for each turn of
the two loops up to the recursive call (`ArrayElement`, `MapKey` and `KeyCopied`,
`MapSkip`), for what follows it (`ItemWritten`) and for the end (`Close`).  A map
is what the writer sees of it: the pairs in the order of the slots and a count
that may be larger.

`Overrun` is a write past the end.  A debug build stops there if nothing at all is
left; the model stops there in either build.

### Lexer and RoundTrip

`Parser` takes a text as lexemes.  `Lex` finds them in a text of characters the
way the branches of the parser do: `TrimFront` with both kinds of comments,
`FirstPass` and `SecondPass` of `s_createValueOfString`, the searches for `]` and
`>`, Base64.  `RoundTrip` lets the writer run to its end, puts comments and white
space around the C string it returned and starts `Parser` on its lexemes.

### BinaryReader, BinaryWriter and BinaryRoundTrip

As in `Parser` the C stack is `cur` and `callers`; an activation has the buffer it
was given (`at`, `room`) and the locals of the code.  The header is read byte by
byte (`SizeByte` is one turn of `wexpr_uvlq64_read`), and every later read of the
buffer is guarded by whether these bytes were handed in: where the code does not
look, `SizeUnended`, `TypeOutside` and the `ELSE` of the leaves lead to
`undefined`, from where nothing happens.  Sums and differences wrap at `Wrap`, the
width of `size_t`, as do the null buffers a failed child returns, which a container
subtracts before it looks at them.  `sound` is history: whether so far each chunk
was within the buffer of its container, each key was a value and binary data had
their byte of compression.  `StaysInBuffer` says that this is all that is needed.

`BinaryWriter` is a function, as the code's writer keeps no state but what it
returns: the chunk of an expression from the chunks of its parts, for the
expressions `Nodes` with all that is below them.  That they are trees is
`NodesAssumption`, which says also what they are made of (`WellFormed`); that memory
holds what is written is `RoomAssumption`.  `BinaryRoundTrip` runs the writer and
hands its bytes, with others behind them, to the reader, which is to give what the
expression means (`Meant`).  The numbers of the chunk types are those of the code.

`BinaryMeaning` has the rules of the format by positions in a document: a chunk is
digits of a size, a type and data; the data of an array are chunks up to its end,
and so on.  Nothing in it is from the reader, and no run uses it: it is what the
proofs put between the writer and the reader.

### Nodes and Trees

A node is what `struct WexprExpression` is, with nodes for its parts.  One action
is one call of `Expression.h` by a caller who keeps to its rules: it passes nodes
it owns or finds in what it owns (`Reachable`, what the accessors hand out), and
gives away only what it owns (`Give`).  The `Tree` of a node is the least set with
the node that has the parts of all its nodes.  `lost` holds the nodes a key had before it
was set again, which nobody can reach any more.  `Trees` promises the same calls on
values: a handle for each expression the caller owns and a tree behind it, a
function from places (the indexes and keys on the way down) to what is there: a
leaf, a map, or an array of so many elements.  `Abstract` reads the heap as such
trees, which is the one place where what a node `Denotes` is followed down, and
`OwnsTrees` is the refinement.  That a copy drops binary data is in the tree it is
compared with (`Copied` of `Trees`).

### SchemaTypes, Validation and Schema

A document is where its text is, whether it parses, and what is found in it: the
version, the texts, the table of types and the root type.  A definition is the
attributes it gives.  `NoText` stands for an expression that is no value where the
code reads a C string, so its uses of `strdup` and `strcmp` without looking are
visible (`DefinitionSound`).  A pointer to a type is its name.

`Schema` is `createFromSchemaID` step by step (`Locate` ... `FindRootType`), with
the two passes over the types one type at a time and in any order the hash map may
have (`Orders`), then any number of validations, and `destroy`.  `phase` is how far
it is; `undefined` that it went where C has no meaning.  `Validation` has the C
stack of `validateObject` as before: the primitive types, the types of the type
(`TryParent` ...), the elements, the properties, the pairs with the indexes that
hold none (`ValidateBlank`), the additional keys and the regular expression.  Each
activation has its list of errors and whether it was given a place for them
(`want`); `reasons` is the `typeErrors` of the types that were tried.  A call when
the stack is full, which only types in a circle reach within the bounds, leads to
`overflow`.

`SoundDocument` is what the loader needs of a document: of what the schema of schemas
(`src/Schema/Core/v1.schema.wexpr`) asks, that texts are texts and that instances have
a type, and what that schema cannot say, that regular expressions compile, that no key
is there twice and that the root type exists.
`Whole` is what is asked of the expressions: no key twice in any of them or their
parts.  `SchemaMeaning` says what a document means from the document alone:
`Conformity` is the least relation between types and expressions that the rules
(`KeepsRules`) allow, reached by unfolding it as often as there are pairs of them,
and reads no state of the validation.  For the keys of maps these have both the type
the core schema names (`mapKeyType`) and the instance the loader looks for
(`mapValueForKey`); `AnswersByMeaning` is about documents that say nothing the loader
does not read (`AllIsRead`), and `schema_keys` is about the others.  The expressions it is about are given with
their depth (`Depth`), which their parts lower.  `SoundSchema` is a sound document in
which no type is among its own types.

## What the runs check

Every run gives small values to the constants and replaces nothing else.

| run | what it asks | bounds, and why they are enough |
|---|---|---|
| `parser_texts` | stack, errors, positions, bindings, meaning and termination over arbitrary texts | every text of up to 5 lexemes of 10 kinds, ending in 8 more that can only end a text, and every balanced document of up to 7 lexemes over a smaller alphabet with its prefixes (1.1 million states): enough for an error two containers deep with something following, a reference rebound and inserted inside nested containers, a map missing its value at each place |
| `parser_copy` | an insertion yields what was bound | texts of up to 5 lexemes; violated |
| `hashmap_map` | there is room, removals hide no other key, every put returns | 4 keys, 2 data, chains of 2 in tables of 4 to 32 slots, with removals; the hash makes chains overlap and wrap around, and makes a rehash start another; beyond 32 slots there is no memory, so putting fails there too |
| `table` | the map of the elements is a map; live elements, indexes, destruction, binding names | 4 names in tables of up to 32 slots, 2 expressions, 4 addresses, so that chains overlap, a name is set again and rehashes happen with elements in place; a callback for one of the names |
| `table_remove` | a removed name is gone | as `table` with removals; violated |
| `writer` | sizes, and that what is written is read back | words of up to 3 of 5 characters (one for each way the lists of unsafe and of escaped characters can differ), the null words, binary data of up to 4 bytes, so every length of a last group; arrays and maps of up to two such things, two deep; counts one larger than the pairs; both forms, indents 0 and 1; 3 texts before it and 2 behind it |
| `writer_overrun` | the buffer is always big enough | as `writer`; violated |
| `binary` | the reader's buffer, errors and ends, and that what is written is read back | digits of 4 values in a `size_t` of 64, so that sizes of one to three digits wrap; every string of up to 6 bytes of 6 values (each type, an unknown one, digits with the bit and without), enough for a container in a container with a failing or too large chunk in it; words and data of up to 17 bytes, past each power of 4; arrays and maps of up to two things, two deep; 3 ends behind the chunk |
| `binary_counted` | every expression has a chunk or a null buffer | as `binary`; violated |
| `schema` | loading, meaning, errors, safety and termination of validations | 41 documents of up to four types: each kind of rule, types of types, types that hold themselves, circles, a missing and a qualified name in each place of a reference, each way a definition or the document can be wrong; every order of their types; 20 expressions of every kind, up to three deep, with keys put twice, each with and without a place for errors; 13 activations, one more than the most types times the depth of the deepest expression (`RoomAssumption`), so that only circles run out of them |
| `schema_keys` | the keys of an accepted map resolve to the type named for them | as `schema`; violated |
| `nodes` | ownership | 4 nodes, 2 words and a value without text, binary data empty and not: a tree of three with a copy of a part, a key set again, a tree freed below a node that stays |

What they show beyond a unit test: an error raised at any depth unwinds through
every caller without reading or binding anything more (`NothingParsedAfterError`,
`NoBindingAfterError`); the first error is the one reported although two places
overwrite it unconditionally (`FirstErrorWins`), because none of these is reached
after an error; the answer of the parser is what `Grammar` says the text means
(`ParsesTheGrammar`), strings without an ending quote and unchecked names aside; a table that is rehashed while being rehashed keeps
every element findable and unique (`InItsChain`, `OneSlotPerKey`) and is a map
(`IsAMap`, a refinement of `KeyedStore`); a reference table's elements are alive
as long as a slot points to them, and it implements `Bindings` (`BindsNames`);
the sizes the writer computes are those of what it writes, or too small for a key
with two escapes, and never too large (`EveryByteWritten`, `OverrunsOnlyAtKeys`);
and writing and parsing are inverse on everything the format can carry, two lists
of characters, two passes over strings, comments and Base64 included
(`ReadsBack`).  The binary reader checks no size against its buffer, yet sizes that
add up keep it inside (`StaysInBuffer`), and only such a container is certain to end
where it says (`ContainersEndWhereTheySay`).  Copies, type changes and frees keep
the heap a forest with one holder per node (`HeldOnce`, `OwnsTrees`, a refinement of
`Trees`).  A schema that loads is complete in every order of its types
(`OnlyResolvedTypes`); the validation agrees with the declarative meaning of the
document, as far as it is read, whatever order it tries things in
(`AnswersByMeaning`), leaves an error
exactly when it refuses (`FailuresAreExplained`), none of which is about something
that was fine (`ErrorsAreReasons`), and is safe and returns for sound schemas
(`SoundSchemasAreSafe`, `ValidationReturns`).

Each property of a passing run has a mutant: a definition changed the way a
plausible slip in the code would, preceded by a comment that says which, under
which the property fails.

Deadlock is checked but where a run ends for good: a reference table that has been
destroyed.  Where a model ends, an action says so: the parser's `Done` is the caller
holding its answer, as is `TripDone`; `Over` is a schema that is gone or a program
that is, `Stopped` the latter in `Nodes`.

### Fairness

`parser_texts` assumes weak fairness of the parser's steps, `hashmap_map` of the
steps of a put under way (also where elements are removed between puts), `binary` of the reader's and `schema` of the steps of a
load or a validation.  All are bodies of functions that run on the caller's thread:
nothing can keep them from going on but the process ending.  Calls of the user
(puts, gets, sets, asking a schema, destroying it) are not fair.

## What is proved

The proofs hold for every value of the constants that satisfies the named
assumptions, which ask for no more than the kinds of things the constants are (a
first table of at least two slots, chains of at least one, NULL no datum, the
absence of a node no node, texts that are strings and one root type at most; of the
expressions the binary writer is given, that they are trees with an end, of strings
and bytes, and fit in memory).  TLC evaluates them in every run.  Theorems with hypotheses of their own say so below;
`TextsAssumption` has TLC check those of `ParserTypes` for the texts of the runs.

* `ParserProofs`: `Inductive` shows an invariant that says of each point of the
  code what is known there: what the running activation and each waiting one fill,
  and that an error implies an invalid text and an activation that cannot read.
  The last part is what makes it inductive: a caller resumed after a failing call
  must find the text invalid.  From it follow `StackStaysInOrder`,
  `NothingIsParsedAfterError`, `AnswersOnce`, `FirstErrorIsReported` and
  `NothingIsBoundAfterError`.  `PositionIsFollowed` and `NestingIsFollowed` ask that
  the texts are sequences.  Their invariant says that, until there is an error, what
  is left of the text is its end behind the position, and the activations that fill
  a container are as many as what was passed has opened and not closed.
  `ParserTypes` asks besides that the texts open no more containers above the tables
  than `MaxDepth` allows.  Its invariant gives each activation a level, the depth of
  the tables and the containers passed less those still being filled: what is
  finished is no deeper than that, a copy as deep as its original (`CopyLevel`).
  `CopiesAreWhole` says what a copy is; both go through the expressions level by
  level, which is how recursive functions are reasoned about here.
  `TextsGetWhatTheyDenote` states what the parser takes, strings without an ending
  quote and all names included, as rules (`ExpressionRule`, `ListRule`, `TableRule`) that say what can be read of a text from what can be read
  of its parts; what can be read has a derivation by these rules.  `ReadsIs` says
  that this is a fixed point of the rules, and `AllOnce`, by the length of the text,
  that every reading leaves less than it was given and that a goal has one outcome at
  most, so that there is only one such fixed point.  The invariant, `MeansText`, is that
  what has been read and what is left mean together what the text means: each
  activation on the stack turns every outcome of the call it waits for into the
  outcomes of its own goal, and the running one wants of what is left what was
  wanted of it; once there is an error, or a call came back from nothing but white
  space, there is no outcome.  That a callback's answer is stored and found again
  by later insertions is part of it (`Answers`).

  `ParsesByTheGrammar` is the property of the run, and rests on `DenotesItsMeaning`:
  what the rules derive from a `Plain` text is what `Grammar` finds in it.  First its two
  recursive functions are shown to exist: the end of a part depends only on ends
  behind it (`EndLooks`), and what a part means only on parts that end before it or
  with it but begin later (`MeaningLooks`, `RankIs`).  Then, from the end of the text
  to its beginning, whatever is read from a place ends where `Ends` says
  (`ReadsAPart`), names nothing that ends outside it (`NamedInside`), and is what the
  part means, if the references bound before it are those `NamedBefore` gives and
  no name in front of it ends within it (`Understood`, one lemma per kind of part).
* `HashMapProofs`: the invariant has to speak of the tables an activation is still
  going through: each element not moved yet has its key in no other place, neither
  in the table nor in the arguments of a waiting put nor in an older table, and the
  count bounds the slots in use.  From it follow `ElementsAreInTheirChains`,
  `KeysAreUnique`, `RoomIsLeft`, `RegistersKeepTheirTypes` and `Refines`, that the
  map implements `KeyedStore`, with what is on its way counted as held.  Removals
  break the chains, and with them all of this but the types and the room
  (`RoomIsLeftByRemoving`); what remains is that no key is lost but the one removed
  (`RemovingKeepsOtherKeys`), because a put goes over a slot only when it is free or
  holds its own key, and a rehash moves everything it finds.
* `WriterProofs`: for expressions of any depth, with any words and binary data.
  `RoomIsExact` is the invariant: while a value is copied, what is filled of the
  buffer and what the rest of the word takes (its characters, its escapes and its
  quote) are together the length of the buffer; for a key they are that and the
  escapes not counted, less the space behind it.  The lemma that carries it,
  `RestOfWord`, says that copying one character lowers what is left by the size of
  that character.  From it follow `NothingIsLeftUnset` and `OnlyKeysOverrun`, and
  from the part about the stack `WriterTypes`.  Characters are a constant: all the
  proof needs to know of them is that the ones the writer writes of itself are
  among them and that `Unset` is not (`CharacterAssumption`).
  `DecodesWhatWasEncoded` is about Base64 alone: decoding what was encoded gives
  back every sequence of bytes.  It needs that the 64 digits differ
  (`TableIsInjective`), that the first `=` is where the digits end
  (`PaddingIsFound`), and that as many digits stand before it as decode to the
  number of bytes encoded (`DigitsHoldTheBytes`).
* `ReferenceTableProofs`: `TableUsesMap` shows that the table drives its map only
  through HashMap's actions, so the invariants above hold of it; with the
  invariant that every element in the table or on its way has an address of its
  own with a live element of its key, `ElementsAreOwned`, `DestroyFreesAll`,
  `IndexesAgree` and `TableRefines` follow.
* `BinaryProofs`: `RegistersKeepTheirWidth` and `ErrorsUnwind` need only what each
  point of the code knows.  `SoundChunksStayInBuffer` and `SoundContainersEnd` need
  an invariant about the whole stack: as long as the history is sound, the buffer
  of each activation lies within the bytes, the buffer of a child is what is left
  of the size of its container, and what a call returned is an end piece of what it
  was given.  Then no sum wraps, no difference is negative, and positions meet
  sizes.  The documents are any byte strings shorter than the address space.

  The round trip is proved through the meaning of documents.  A document denotes an
  expression if there is a derivation by the rules of `BinaryMeaning`, a set of
  readings each of which has its parts in the set.  `DocumentsGetWhatTheyDenote` is
  the half about the reader, whoever wrote the document: the invariant, `OnItsWay`,
  gives each activation on the stack a goal, and says that what it has so far and
  what its goal still reads of its bytes make the expression of the goal, and that
  the end of its goal is where the one below it goes on.  It needs the one before,
  as only then do positions not wrap.  `WhatIsWrittenDenotes` is the half about the
  writer: digits that `uvlq64` writes stand for the size (`DigitsOf`), a document
  means the same inside another one (`ReadingsMove`), chunks one behind the other
  are found at the sums of their lengths (`PartsLie`), so the chunk of a container is
  read if the chunks in it are (`ArrayWritten`, `MapWritten`).  `NodesEnd`, that of
  any expressions one has none of the others in it, is the induction over trees; the
  three recursive functions exist level by level (`RepresentationIs`, `MeantIs`,
  `BelowIs`).  `ReadsBackWhatIsWritten` puts both together for `TripSpec`: an
  expression not yet written, written, or on its way back.
* `NodesProofs`: `NodesHeldOnce` and `NodesAreTrees`.  `HeldOnce` speaks of whole trees and is not
  inductive; `Forest` is: what the caller owns and what was lost are alive, apart
  and no part of anything; no node is at two places; a link leads from a live node
  to a live node; and every set that has the roots and, with a node, its parts has
  all that is alive, which keeps out circles and leaks.  That a node is given away
  only by who owns it is what keeps it so.  `Tree`, the least closed set, carries
  the frees and the copies without recursion.

  `NodesAreTrees` is the refinement, `OwnsTrees`.  The links are a graph; `To` says
  that a way leads from a node to another in it, and the `Table` of a node is what is
  at the end of each of its ways.  In a forest a way leads to one node (`ToOne`), and
  from a root to a node there is one way (`OneWay`).  `DenotesTables` says that the
  recursive `Denotes` is this table: memory is finite (`MemoryAssumption`) and there
  are no circles, so a part has a smaller tree and the equation of `Denotes` has one
  solution.  Then a call is one on trees because of what it does to the graph: ways
  through the node are cut off (`CutTable`: types change, values are set), the ways
  of another root go on from it (`JoinTable`: arrays and maps get an element), a part
  of the graph is there once more (`CopyTable`), and what it leaves alone denotes what
  it did (`Untouched`, `Apart`).
* `SchemaProofs`: for any set of documents.  The invariant of `LoadedIsResolved`
  says that while the second pass runs, each type not in `left` is resolved to
  types of the schema, and each in it is as it was created; that `left` and
  `listed` together name each type of the document comes from the first pass.
  `RefusalsAreExplained` is about the stack of the validator: each activation's
  answer so far agrees with its errors (`Told`), and whether it was to keep errors
  is what the activation below it expects (`Expected`): always for the types and
  the properties of a type, which have lists of their own, else what that
  activation was given itself.  `SchemasAreTyped` is the type invariant of both.
* `ValidationProofs`: what loading and validating are for.  `SoundDocumentsLoad`
  and `TypesAreDefined` follow the two passes.  The others are about any set of
  expressions `U` that is `Whole`.  `ValidationIsDefined` needs that each activation
  is at a part of what was asked about and that the indexes it has left hold keys.
  `AnswersAreMeant` states the meaning without recursion: `Meant` is one unfolding
  of what a type asks of an expression, read off the attributes of its definition;
  `Conforming` is the least relation closed under it, a fixed point by monotonicity
  (`ConformingIsMeaning`).  The invariant, `Faithful`, is that what is left to do for
  each activation on the stack decides whether its type means its expression, the
  activation above it standing for the answer it waits for.  Every fixed point
  satisfies it, so for a validation that returns all of them agree about what was
  asked, circles or not.  `ErrorsAreTrue` runs beside it: each list of errors, in
  whichever activation it grows, has only errors of types that do not mean their
  expressions; reasons below reasons to any depth are covered by asking this for
  every set of lists that such errors can be built up in (`TrueLists`).

  These two hold of any fixed point and of infinite sets of expressions.
  `AnsweredByMeaning` and `ErrorsHaveReasons` bring them down to what the run checks,
  the relation computed from the document.  `RulesAreMeant` says that the rules of a
  definition (`KeepsRules`) ask what `Meant` reads off the type made from it, the
  types it follows for its kinds included (`KindsAre`: what `Following` finds by
  going on is in every closed set, and is one), and besides that keys resolve to the
  type named for them (`KeysResolve`), which is nothing for the documents of
  `AnsweredByMeaning`.  For the others fewer expressions conform than are accepted
  (`ConformityIsLess`), so that errors are reasons all the same.  `ConformityIsKept` says that
  unfolding adds nothing after as many steps as there are pairs: a step that adds
  nothing is the last, and one that adds something raises the number of pairs
  (`ChainStops`).  For the errors, `TrueListsExist` builds the lists level by level,
  and `TrueErrors` says that whatever `Reported` finds in them is true.

  `SoundSchemasNeverLost` adds the C stack.  No type is among its own types, so a type
  reaches more types than each of its own does (`Ranks`), and all are fewer than
  there are.  What an activation may still need is this rank, and as many calls as
  there are types for each level of its expression below the first (`Need`); a call
  for a type of the type lowers the first, a call for a part the second
  (`TypesNeedLess`, `PartsNeedLess`).  `AllRoom`, that each activation has its need
  above it, is kept by every step, and at the root follows from `RoomAssumption`.

Only model-checked, and why:

* termination of parses, of puts, of reading and of validating: liveness;
* `ReadsBack`: the lexer of `RoundTrip` and what it compares with are RECURSIVE
  operators, character by character.  Its part about Base64 is proved
  (`DecodesWhatWasEncoded`).

## Where the code and what it says disagree

* Copies lose binary data: `s_Expression_copyInto` (`Expression.c:691`) has no case
  for it, and `Expression.h:183` promises a deep copy.  A reference to binary data
  or null inserts nothing (`parser_copy`).
* `mapCount` (`Expression.h:317`) and `ReferenceTable_count` count puts, not pairs
  (`hashmap.c:281`).  Loops up to that count ask for keys that are not there: the
  text writer skips them; the binary writer takes the length of a key that is NULL,
  where `Expression.h:226` promises a chunk or a null buffer (`binary_counted`); the
  validator of maps and the loader of schemas do not expect them either
  (`SoundSchema` and `Unrepeated` leave such documents and expressions out).
* `removeKey` uses the key it has just freed (`ReferenceTable.c:254`,
  `table_remove`).
* The core schema has the type of the keys of a map under `mapKeyType`
  (`v1.schema.wexpr:170`, and uses it itself at `:205` and `:216`); `Type.c:586` looks
  for `mapValueForKey`.  A document that is written as the core schema says gets no
  check of its keys, and maps are accepted whose keys do not resolve to their type
  (`schema_keys`).
* The sizes of keys (`Expression.c:1707`, and `:1663` in the human readable form
  for a key that needs no quotes) do not count escapes, against what
  `Expression.c:1391` asks of its callers (`writer_overrun`).  With a single escape
  nothing is overrun, but the space behind the key replaces its last byte, in the
  compact form its closing quote.  `CarriedAsKey` leaves such keys out of
  `ReadsBack`.
* What the text format does not carry, also left out of `ReadsBack` (`Carried`): a
  word with a backslash and nothing that needs quotes is written bare with its
  backslashes doubled, and barewords have no escapes when they are read; the words
  `null` and `nil` are read as null also between quotes (`Expression.c:1341`), where
  `Spec/WexprSpec-0.1.md:40` tells them apart.
* Not the subject of a run:
  * `WexprErrorCodeStringMissingEndingQuote` (`Error.h:54`) is never raised, a text that
    ends inside a quoted string ends the string, against `Spec/wexpr.ebnf:15`; if it
    ends behind a backslash, the second pass over the string begins with the escape
    flag of the first (`Expression.c:540`).  Empty names of references are taken, and
    the names of insertions are not looked at.  These texts are not `Plain`, and
    `ParsesTheGrammar` leaves them out.  The message of an invalid escape
    (`Expression.c:453`) is a literal, and `Error.h:96` says of messages that they
    must be freed.
  * The binary specification and the code number the chunks of arrays and maps the
    other way round.
  * Setting a name or a key that is set leaks what it had (`ReferenceTable.c:185`,
    `Expression.c:2442`; `lost` in `Nodes`), removing one by length leaks the copy of
    the key (`ReferenceTable.c:271`), a failed chunk leaks its node
    (`Expression.c:786`).
  * Copying a value whose text was never set follows NULL (`Expression.c:648`);
    binary data keep their new size when there is no memory for them
    (`Expression.c:2262`).
  * The core schema lets a definition be optional as a whole (`v1.schema.wexpr:146`);
    nothing reads that (`SaysUnread`).
  * Without a root type `validateExpression` writes an error also where it was given
    no place for one (`Schema.c:447`), which its other paths look for; `AskNoRoot`.
  * The rules of maps hold for every type that may be a map, so a type that may be a
    map or a value and has a required property refuses every value
    (`Type.c:1003`); likewise the regular expression of a type that may be a value is
    applied to the empty text for anything else.  `KeepsRules` says the same.
  * A parse error and a refused version leave the text or the parsed document of the
    schema behind (`Schema.c:219`, `:245`, `:290`).

## What is not modelled, and the plan

Not modelled at all: the byte order helpers and the names of types (pure functions
on bytes, covered by table tests), sglib (vendored), twines (they only put messages
together), WexprTool (reading files and printing).  Of what is modelled, left out
are: allocations that fail where the code does not look; the depth of the C stack in
the parser and the binary reader (bounded by the sizes of the instances); the texts
of messages and the fixed buffers they are put together in; a schema whose
referenced schemas are loaded (the code declares the list and never fills it).

What could come next:

1. Proofs: that the steps of a parse, or of a chunk, make what is left smaller; that
   what the text writer writes denotes what it was
   written from, as is proved of the binary writer.
2. The sections of a binary file (`Endian`, the file header WexprTool writes) and
   WexprTool's choice of what to read and write, as a composition of the models.
