# Verification of zetasql-wasm

zetasql-wasm runs Google's ZetaSQL parser and analyzer, compiled to WebAssembly, from Go. This
directory holds TLA+ models of its own logic, TLC configurations that check them on small
instances, and proofs, checked by TLAPS, of the properties that matter most for all instances.
Paths are relative to the root of the repository. `PROJECT.json` maps every definition to lines
of source and lists the runs, mutants, findings, hazards and theorems.

## 1. The system and its parts

| Part | Source | State | Operations | Modelled in |
|---|---|---|---|---|
| Engine, call protocol | `engine.go` | wazero runtime, WASM linear memory; per call: two pointers, deferred frees | `New`, `Close`, the exchange under `Parse`, `ParseNext`, `Analyze`, `AnalyzeNext` | `EngineCall`, `EngineSpec` |
| Script iteration | `engine.go`, `parse_resume_location.go`, `bridge.cc` | `Input`, `BytePosition`, owned by the caller and shared by reference | `ParseNext`, `AnalyzeNext`, `Reset` | `ScriptIteration` |
| Bridge framing | `wasm/assets/bridge.cc`, `wasm/error_protocol.go`, `engine.go` | one block of linear memory | `pack_error`, `pack_proto`, `pack_analyze_payload`; `ParseResultMessage`, `splitAnalyzePayload` | `BridgeFrame` |
| Time zone rewriting, places | `ast/rewrite_named_timezone.go`, `engine.go` | the list of replacements, the text | `RewriteNamedTimezoneLiterals`, `formatTZOffset`, `byteOffsetToLineColumn` | `TimezoneRewrite` |
| Options | `analyzer_options.go`, `language_options.go`, `engine.go` 555-605, `bridge.cc` 417-462 | maps and slices of the caller, clones of the engine | `Enable...`, `Set...`, `Clone`, `enableBigQueryExtensions`, `buildAnalyzeRequestOptions`, `toProto` | `Options` |
| Catalog, functions | `types/simple_catalog.go`, `types/function.go`, `bridge.cc` 236-342 | pointers between catalogs | `FindTable`, `FindFunction`, `ToProto`, `build_catalog_from_proto` | `Catalog` |
| Types, literals | `types/type.go`, `types/wrap_type.go`, `types/proto.go`, `types/literal_value.go`, the `ToProto` methods | none: immutable values | `WrapType`, `TypeFromProto`, `WrapLiteralValue`, the accessors, `ToProto` | `TypeWrap` |
| Trees, cast gate, node map | `*/walk.go`, `engine.go` 607-695, `node_map.go` | an index from byte ranges to nodes, whose slices callers share | `Walk`, `rejectInvalidLiteralCasts`, `NewNodeMap`, `NodeAt`, `NodesAt`, `NodesInRange`, `FindParsedNodes` | `NodeMap` |
| Compilation cache | `wasm_runtime.go` | one wazero object | none of its own | no: no state of this code |
| Generated wrappers | `*_gen.go`, `wasm/generated` | none | one accessor per field | no: generated, no control |
| Generators, build, `inspect` | `wasm/tools`, `wasm/script`, `cmd/inspect` | none | one-shot file processing | no: pure I/O |

How they interact. A client calls a method of `Engine`. The method marshals a request (for the
analyze methods together with the options and the catalog), copies it into a block it allocates
in linear memory, and calls an export of `bridge.cc`. The export parses, perhaps analyzes, and
packs an error text, a proto or a pair of trees into a block of its own. The Go side copies the
answer out, decides from its bytes whether it is an error, wraps it in Go objects, and its
deferred calls free both blocks. `Analyze` may run a whole `Parse` exchange first, to rewrite
named time zones, and may refuse the result afterwards (`RejectInvalidLiteralCasts`). `ParseNext`
and `AnalyzeNext` carry a `ParseResumeLocation` from call to call.

What is hard here, and to test:

* failure in every step, with early returns and deferred frees, and traps that run no destructor;
* memory exhaustion that neither side checks for, in an engine that is used again and again;
* a location that is moved before the call has succeeded, shared by loops that take turns;
* an answer whose kind is told from its first bytes;
* byte offsets that go stale when the text they index is rewritten;
* options that are maps and slices behind pointers, nil in a literal, shared by clones, values
  and goroutines, and extended by the engine on every call;
* catalogs that are built twice, as Go values and behind the bridge, and must agree;
* a walk that stops early, an index whose slices are in callers' hands, and a map in any order;
* types that come back with holes in them and are registered again; bit fields of unlike widths.

There is no concurrency inside the engine: `api.Module` is not safe for concurrent use and
callers must be sequential (`engine_test.go:33-39`). Interleaving exists between callers that
take turns, in the order of calls, and between goroutines with an engine each that call with
the same options.

What makes each part correct:

* Engine: nothing leaks and nothing foreign is freed, whatever fails; an answer belongs to its
  own request; every call comes back; seen from outside each call is one atomic answer.
* Script iteration: statements are handed out once, in order, and none is skipped in silence;
  the documented loop ends and has then read everything.
* Framing: the decoder hears what the bridge said; it never panics.
* Rewriting: only named-zone literals change, in place; the offset written is the zone's; places
  reported later are right in the text they refer to.
* Options: a call leaves what the caller holds as it is; the request carries what was asked and
  the default contract, nothing else; an error of the cast gate has its place; the analyzer knows
  exactly the parameters it was given, or the call is refused.
* Catalog: a lookup finds what is there and misses nothing; the analyzer resolves a path to the
  table that `FindTable` sees, or the call is refused.
* Trees: the gate refuses the first bad cast and lets none pass; a lookup gives exactly the nodes
  at a place, the outermost first, whatever callers did with earlier answers.
* Types: what was read from a tree goes back into a catalog with all its parts, or panics where
  one is missing; an accessor gives what the tree has, or nothing.

## 2. Modules

### EngineCall, EngineSpec

`EngineSpec` is what the engine promises: a client asks, and one reply comes back to it, which is
either a failure or a verdict; while the engine is *sound* the verdict is about that client's
request. Soundness can only be lost in a call of an engine that has trapped.

`EngineCall` is the code: one action per step of the exchange that `Parse`, `ParseNext` and
`callAnalyze` spell out three times.

| Model | Code |
|---|---|
| `NewRuntime`, `Close` | the beginning of `New`, and `Close` (engine.go 70-72, 119-123) |
| `InstantiateWASI`, `CompileModule`, `ExportEmscripten`, `InstantiateEnv`, `InstantiateModule`, `RunInitModule` | the six fallible steps of `New` (73-113), each with its own error path and the `Close` in it |
| `Begin`, `Marshal` | the head of each method; `proto.Marshal` may fail |
| `Malloc` | `mallocFn.Call` and the deferred `free` (142-148) |
| `WriteRequest` | `Memory().Write` (150-152) |
| `ExportReturns`, `ExportTraps` | the call of the export, its deferred `free_proto_buffer`, its error path (154-159) |
| `ReadAndDecode` | two `Read`s, `ParseResultMessage`, unmarshalling (161-183, 452-485) |
| `RunDeferred` | one deferred call |
| `PreparseDone` | `preprocessForAnalyze` (233-242): any failure falls through with the caller's text |
| `Return` | the method's return; `FinalOutcomes` are `buildOutput` and the cast gate |

Memory is a set of unit-size blocks. `malloc` answers a free block, or NULL when there is none
(the module is linked with memory growth to 4 GB, `BUILD.bazel` 43-46, so `malloc` does not
abort). Address 0 is ordinary memory in WASM: storing there succeeds and may reach the C++ data
(`statics`), after which the allocator may do anything. A trap loses whichever free blocks the
export had taken; `lost` remembers them, so that `NothingLeaked` can tell them from blocks that a
call forgot, in an engine that has trapped too. `open` counts the runtimes that were created and not
closed: a step of `New` that returns its error without closing leaves one behind that no later
action reaches, and the next `New` adds another. `RoomAssumption` says that a single call fits into memory; a request larger
than 4 GB is outside the model.

A cancelled context and the deletion of the whole engine by garbage collection are not modelled:
the runtime is not configured to stop on a cancelled context, so `ctx` has no effect on a call.

### ScriptIteration

A statement is reduced to what the two sides make of it (`Kind`), a position to the number of
units before it. `ParseNext` and `AnalyzeNext` are atomic: calls on one engine do not overlap.
`BridgeParseNext` and `BridgeAnalyzeNext` are the exports; `CallFails` is every path that returns
before the location is assigned, `CallAdvances` the rest of the method, in which `buildOutput`,
wrapping and the cast gate can still refuse the statement (`lost`). `StartLoop` and `Iterate` are
the callers, who do what the doc comments tell them to: call until the second result is false.
Where ZetaSQL leaves the position when only white space follows is its own business, so both
answers are allowed (`ResumeAfter`).

### BridgeFrame

Bytes are numbers and memory is a sequence of them. The packing side is `pack_error`,
`pack_proto`, `pack_analyze_payload`, with sizes as little-endian words of 32 bits (`% 256`,
`\div`). `Allocated` is what each of them asks `malloc` for, which it works out apart from the bytes it
then copies: an error takes its NUL along, a pair has two inner sizes. `block` is the size of the
block, and a frame must fit it. The reading side is the two `Read`s, `ParseResultMessage` and `splitAnalyzePayload`.
`Clobber` overwrites the block, as the free of a stranger's block or an overlapping stack may
after a trap; only `NeverPanics` speaks about that case. `ProtoAssumption` records why an error
cannot be a proto: `'E'` is the tag of field 8 with a fixed 32-bit type, and the messages that
cross the bridge have no such field.

### TimezoneRewrite

A text is a sequence of cells that name the item they belong to, so that a misplaced splice is
visible. `Visit` is the callback of `Walk`, in any order of the literals; `SortRewrites` and
`Replace` are `applySourceRewrites`; `Resolve` is `rejectInvalidLiteralCasts` with
`byteOffsetToLineColumn` over `resolverSQL`. What a literal is (`named`: a zone and a date Go can
read, at an offset of so many seconds) is given, in place of the regular expression and the
layouts.

### Options

The model is about who holds what. `Language` and `Value` name the program's `LanguageOptions`
and `AnalyzerOptions`, a call names the copies it makes, and a map or slice has the name of the
struct it was made for, as has the place a `ParseLocationRecordType` points to. A field holds such
a name or `Nil`, so aliasing is two fields with one name; `features`, `keywords`, `kinds`,
`locations` and `tables` are the contents. A map of flags is the set
of its keys, since `toProto` reads nothing else.

| Model | Code |
|---|---|
| `MakeLanguage`, `WriteLiteral` | `NewLanguageOptions`, and `&LanguageOptions{}` with its nil maps |
| `EnableLanguageFeature`, `EnableMaximum...`, `DisableAll...`, `EnableReservableKeyword`, `Set...` | the methods of `LanguageOptions` (language_options.go 55-188) |
| `WriteSlice`, `SetOptions` | assignments to exported fields, and to a slice once handed over |
| `Clone` | `AnalyzerOptions.Clone`, with `LanguageOptions.clone` |
| `Begin`, `Preparsed` | a call of `Analyze` with its pre-parse, which rewrites the text, is refused by the parser, or fails for any reason of its own (engine.go 233-242); in both last cases the caller's text goes on |
| `TakeLanguage`, `Extend`, `BuildOptions` | steps 1 and 2 of `buildAnalyzeRequestOptions` |
| `Serialise` | step 3, `toProto` of both structs |
| `ParametersAdded`, `KnownNamed` | the loops that hand the parameters to the analyzer (bridge.cc 417-462) |
| `Resolve`, `Return` | the answer, and the place that a refused cast names |

The steps of calls interleave; edits happen only while no call runs, because an edit during a
call is a data race of the program. A write to a nil map by the program is likewise its own
panic and not modelled; that of `enableBigQueryExtensions` is. `Clone` inside a call also copies
the language once more and drops it, which nobody can see. Fields that are treated alike stand
for each other: `NameResolutionMode` for `ProductMode`, `ParameterMode` for
`AllowUndeclaredParameters`. Parameter names are compared without their case (`Fold`), and types
that the descriptor pool of the bridge does not have are `Foreign`: PROTO, and ENUM as `EnumType`
sends it, with its name alone. The request is typed (`Message`), so a parameter without a type in it
is a type error. Whether the resolver attaches
the place of a literal (`Located`) is
external.

### Catalog

The program holds catalogs that point to each other; `cat` is what they hold and never changes
under the model's actions, since lookups and calls only read. A sub-catalog may hang in two
places. A lookup runs step by step: `FindTable` with `Descend` and `MatchTable` (`trail` is where
it has come), `FindFunction` with `Visit` and `Exhausted`, the recursion written as the queue of
catalogs still to visit, in the order in which the recursion meets them.

| Model | Code |
|---|---|
| `FindTable`, `Descend`, `MatchTable` | `FindTable` with `descend` (simple_catalog.go 35-50, 77-93) |
| `FindFunction`, `Visit`, `Exhausted` | `FindFunction` with `findFunctionLocal` (56-75) |
| `Serialise` | `callAnalyze`'s default catalog and `ToProto` of catalog, tables, columns, functions |
| `Build` | `build_catalog_from_proto` with `build_function_arg_type` (bridge.cc 237-342) |

On the wire and behind the bridge a catalog is a function from trails to nodes, since a shared
sub-catalog is copied once for each place. A type is a value: one that `ToProto` panics on
(`Holed`, a STRUCT with a field of a nil type), one that the C++ side cannot make (`Foreign`), or
a good one. ZetaSQL stops the module when an object is added under a name that is taken; that is
external, and may happen or not (`MayBeFatal`: two names alike, or any function of the root catalog,
which already has ZetaSQL's own), so nothing depends on it.

The properties say what a lookup must find by sets (`TablesAt`, `FunctionsIn`, `Under`), with no
first match and no recursion: `TableFound` asks for completeness only where a catalog's names are
distinct, because `descend` does not come back from a first match.

### NodeMap

One analyzed statement and what is done with its trees: `Gate` and `GateVisit` are
`rejectInvalidLiteralCasts` before `Analyze` returns, `NewNodeMap` and `IndexVisit` the two walks
that build the index, and the lookups follow. `Walk` is the queue of nodes still to visit; a node
makes way for its children (`Rest`), and a nil child is skipped when its turn comes, as the code
does at its entry.

| Model | Code |
|---|---|
| `Rest`, `Walked`, `StartWalk` | `Walk`, of either package |
| `Rejects`, `CastStringToInt64`, `StartOf`, `GateVisit` | the callback of the gate (engine.go 625-658, 686-695) |
| `Located`, `LocationKey`, `WithNode` | `locationKey` and the callbacks of `NewNodeMap` |
| `NodeAt`, `NodesAt`, `FindParsedNodes` | the lookups by one range; `lent` is what they hand out |
| `NodesInRange`, `RangeOver`, `RangedOver` | the loop over the map, in any order |
| `CallerSorts` | a caller that reorders a slice it was given (external) |

`NodesAt` and `FindParsedNodes` return the slice inside the map, so a caller who sorts it changes
the index. The model lets callers do that and nothing worse: one that overwrites or appends within
the slice's capacity is not modelled. The order in which `NodeAt` picks "the first" is promised
(`OutermostFirst`) only while no caller holds the slice; that the *set* is right is promised always.

`StartOf` gives 0 for a literal with no location, as `GetStart` of a missing range does. The
properties do not walk: `Under` is the smallest closed set, and `Before` compares places in the
tree, so neither repeats the algorithm. Ranges are those of the text that was resolved; behind a
rewritten zone they are shifted against the caller's text, exactly as in run `places`.

### TypeWrap

A caller stands at a literal of a resolved tree: `proto` and `value` are what the tree has there,
`literal` what `WrapLiteralValue` made of it. The caller may go into an array or struct (`Enter`),
ask for a value as some kind (`As`), take the type, or have it read strictly (`ReadType`), and
register what was taken as a column's or an argument's type.

| Model | Code |
|---|---|
| `WrapType`, `TypeFromProto` | the lenient and the strict reading of a `TypeProto` |
| `ToProto` | the `ToProto` methods; on a nil type the call panics, and an ENUM is sent by its name alone |
| `ConvertValue`, `WrapLiteralValue` | literal_value.go 59-142 |
| `Holds`, `As`, `Decoded` | `asScalar` and the accessors |
| `AsTimeOfDay`, `AsDatetime` | the civil-time decoders, with shifts and masks as division and remainder |
| `RegisterColumn`, `RegisterArgument` | `SimpleColumn.ToProto`, `FunctionArgumentType.toProto` |

What takes the place of a type, `Nil`, a `Panic` or an error (`Failed`), has the shape of a type and
a kind of its own; a missing value is `NoValue`. `answer` says who was asked, whether anything came
of it (`ok`), and what. `Depth` is how deep a message is nested, which only the proofs use.

Protos may be malformed (a missing message, a missing element, an ENUM without a name) and values
may not fit their types. Where the oneof of a value holds another kind than the type says, a
getter gives its zero value and the accessor reports it as found; `ReadsAsSent` excludes such
values, which the analyzer does not make. `NameOf` is left out, and the accessors of the scalar
kinds are one action with the kind as its input.

`file` stands for what a `TypeProto` says of an ENUM beside its name: the file, the index of the
descriptor set, and the descriptors themselves. `EnumType` keeps none of it and sends the name
alone (enum_type.go 37-44), so `GoesBackBare` compares what is registered with `Bare[proto]`, the
type without these, and asks for the type itself exactly where none were there. What becomes of
a bare ENUM behind the bridge is in `Catalog` and `Options`, where it is one of the `Foreign`
types: a column or a parameter of it refuses the call, and an argument goes without its type.

The numbers in a value are a sequence: a DATETIME has its packed bits and its nanoseconds, and a
getter of another kind gives a nil pointer (no numbers) or a zero. `time.Date` carries over
what is out of range. `ValuesAssumption` says that the values of a tree are civil times as
ZetaSQL packs them, real days of real months, so there is nothing to carry; a month 0 or an hour 24
is not in the model.

## 3. Runs

| Run | Checks | Instance | Result |
|---|---|---|---|
| `protocol` | `TypeOK RuntimeReleased NothingLeaked FreesOwnBlock NullOnlyAfterTrap CallInvariant`, `[][...]` of `AnswersOwnRequest`, `PromiseSafety` | one client, four methods, a text with and one without a slash, three blocks, symmetric | pass, 1.7 million states |
| `promise` | `KeepsPromise` (with fairness) | two clients, `Analyze` with its pre-parse, two blocks | pass |
| `account` | `TypeOK Accounted FinishedMeansAll`, `LoopEnds` (with fairness) | two callers, every script of at most three units over six kinds | pass, 66 thousand states |
| `bytes` | `TypeOK HeardAsSaid NeverPanics` | texts that look like frames, a text longer than 255 bytes, protos that spell the prefix, overwritten blocks of up to nine bytes | pass, 262 thousand states |
| `short` | `TypeOK Spliced OffsetKept ReportedInResolverText` | every source of at most four items out of eight, literals longer and shorter than their replacement | pass, 80 thousand states |
| `isolation` | `TypeOK WireIsAsked NothingShared PromotionLocates ParametersKnown ZonesRewritten`, `[][...]` of `CallerUntouched` | two calls, two values, two languages, one slice, one kind of statement, two edits; parameters without a type, with one name in two cases, of a foreign type | pass, 1.6 million states |
| `trees` | `TypeOK TableFound FunctionFound AnalyzerSeesTables` | three catalogs in every shape without a cycle, names in two cases, paths of at most three segments | pass, 320 thousand states |
| `index` | `TypeOK FirstCastRefused IndexExact OutermostFirst AnswersExact` | resolved trees of five nodes in three shapes, parsed trees of three or none, ranges shared or missing, two casts beside or below each other | pass, 51 thousand states |
| `types` | `TypeOK GoesBackBare ReadsAsSent` | types of depth three with every kind of hole, ENUMs with and without descriptors, values that fit or do not | pass, 91 thousand states |
| `places` | `ReportedWhereWritten` | a bad cast behind a named zone | violated: finding 1 |
| `contract` | `ContractOnEveryCall` | one call, three edits | violated: finding 2 |
| `cardinality` | `CardinalityArrives` | as `trees` | violated: finding 3 |

Why the bounds are enough. A call holds two blocks at once, so three blocks give a heap with one
block to spare, which a trap can take: the next call then finds memory exhausted, stores at
address 0 and goes on from there. Earlier calls of the same client leave what later ones might
find, so one client shows the cross-talk between calls; two are needed only for whose reply it
is. Three units are enough for a statement before, at and behind the position, two of them lost.
Four items hold two literals with something between and behind them. Two edits connect a value with
a language and then clone or change either, which is enough for
any two structs to share what they ever could. The slice has its contents from the start, so that two
edits put a kind into a request. Features come one of each class (contract, other,
test), the parameters with a nil type among them. Three catalogs hold a chain of two steps, two
siblings, and a sub-catalog in two places; a table and a function may be missing, in the first,
in a later, or in two of them. Five nodes hold two casts with a literal each below
one root, in either order and nested; ranges over three offsets hold equal, nested and
overlapping ones. Types of depth three hold an array in a struct in an array, so that a hole is at
the top, in an element and in a field of an element. TLC's integers have 32 bits, so the run's
dates end in the year 31 and its times of day in the first seconds; the theorems take over from
there. All counters are bounded by the instance (`built` by
`NewSteps`, `open` by the property that it is 0 or 1, positions by the script, `edits` by `MaxEdits`), so no constraint cuts the runs.
Symmetry is used where the permuted values are interchangeable model values and no liveness is
checked.

Deadlock is checked in every run but those of `TimezoneRewrite`, which is one pass that ends, and
`index`, where a refused statement is the end.

Fairness. `EngineCall`: weak fairness of the call's steps together and of `New`'s, because a call
is a sequential Go function: once begun, it executes; no fairness is asked of clients, and none
of particular outcomes, so a property never depends on a step succeeding. It does assume that an
export returns or traps. `ScriptIteration`: weak fairness of each caller's loop; a caller in its
loop goes on. Nothing makes callers start, and `LoopEnds` exempts only locations that are rewound
for ever.

Each property is broken by a mutant, a plausible slip in one definition (comments that begin with
"Fault" mark them): deferred calls in the wrong order, an early return of `New` without `Close`, a
forgotten `free_proto_buffer`, `more` off by one, the NUL counted, or without room in its block, a
missing length check, replacements from the left, offsets looked up in the wrong text, a clone that
shares a slice or a pointer or forgets the modes, a slice of parameters with nil left in it, a
promotion that overrides the caller or is never made, children that wait behind siblings, a bit
field too wide.

### Findings

1. `places`: `Analyze` reports `Line` and `Col` in the rewritten text, while `CastValueError`
   documents the source line and column.
2. `contract`: a `LanguageOptions` written as a literal has nil maps; the clone keeps them nil and
   `enableBigQueryExtensions` panics on it, though "callers do not need to opt in".
3. `cardinality`: `build_function_arg_type` never reads the options of an argument, so an optional
   or repeated argument is a required one to the analyzer.

Met while modelling, with no run of their own:

* `parse_statement_proto` ignores `at_end_of_input`, so `Engine.Parse` accepts a script and returns
  its first statement; the comment of `TestEngine_ParseNext`
  (engine_test.go 2209-2211) says that scripts are an error there.
* The pre-parse uses the default contract, not the caller's options (engine.go 130, 555), and
  whatever error it returns, the statement keeps its named zone (237-240). `ZonesRewritten` says
  that a zone reaches the resolver in two cases only: the pre-parse failed of itself, in `malloc`, a
  trap or the decoding, or the statement is in a syntax that the caller enabled.
* `StructType.ToProto` panics on a struct that `WrapType` left a hole in, while struct_type.go 7-10
  asks callers that iterate fields to be ready for it. `GoesBackBare` says on which types.
* A type with an ENUM in it cannot be registered as it was read: `EnumType` has dropped where the
  descriptors are, and the bridge refuses a column of what is left. `GoesBackBare` says what is left.
* function.go 160-162 says that a wrapped argument's ENUM comes back as nil; `WrapType` gives it an
  `EnumType` whenever it has a name.
* `formatTZOffset` drops seconds, so an instant is not "unchanged"
  (rewrite_named_timezone.go 16-18) for wall times at which the zone's offset has any, such as
  -00:44:30. `OffsetKept` says what does hold: right to the minute.
* Without parse locations the place of a bad cast is looked up at offset 0 and reported as
  `[at 1:1]`, where the comment (analyzer_options.go 81-83) promises zero `Line` and `Col`.
* `isReleasedFeature` goes by the feature's name and never reads the `in_development` option of
  its enum value, so `EnableMaximumLanguageFeatures` turns on features that are so marked.
* A context id of 0 arrives as -1, and `IsPseudoColumn` and `IsWritable` of a column are sent and
  never read.

## 4. Proofs

The eight modules `...Proofs` hold for every value of the constants that satisfies the named
assumptions.

**EngineCall** (`ConstantsAssumption`, `RoomAssumption`). The safety properties are not inductive:
that a free hits the call's own block needs to know which pointers are set at each stage, that an
answer is one's own needs the contents of both blocks at the stages between. `CallInvariant` says so
in named parts: `CallShape` (a call runs in a ready engine), `DeferredShape` (the deferred frees
tell how far the exchange is), `HeapExact` (while the C++ data is intact, the heap is exactly what is
still to be freed and what traps have lost, and without a trap nothing is lost), `BlocksHoldSent` (each block holds what its stage says, for the current request),
`SentServesGoal` (the request on the wire is the caller's or its pre-parse), and `OutcomeShape`. It
is preserved action by action (`CallInvariantHolds`); run `protocol` checks it as an invariant too.
From it follow `TypeCorrect`, `RuntimeClosed`, `NoLeak` (between calls nothing is deferred, so
`HeapExact` leaves what traps have lost), `NoBadFree`, `NullNeedsTrap` (two free blocks always suffice),
`AnswersAreHonest` (an action property of `Return`) and `ImplementsPromise`: under the refinement
mapping of `Promise` the initial state is initial, `NewStep` is `Open` or a stutter, `Begin` is
`Ask`, a trap is `Trap`, a store at address 0 is `LoseSoundness`, `Return` is `Reply`, and
everything else is a stutter.

**ScriptIteration** (`ScriptsAssumption`). `Accounted` needs that the response starts at the
position and that the position skips nothing but a blank; `FinishedMeansAll` needs to know that
`more` was computed from the present position (`EndsAtEnd`), which a `Reset` by somebody else could
spoil were the last call not forgotten with it. `ScriptInv` is their conjunction with `TypeOK`.

**BridgeFrame** (`TextAssumption`, `ProtoAssumption`, `MemoryAssumption`). Lemmas on concatenation,
on words (`Uint32` undoes `Word` below 2^32) and on bodies give `FrameInv`, from which
`FramingIsFaithful`. `FrameTypeCorrect` adds that the answer fits its block: `BlockHolds` compares
what each helper asks for with what it writes and with what Go then reads, and `Unread` says that
nothing was read before. `DecoderNeverPanics` is separate, as it says nothing
about soundness: a byte sequence's first word is a natural number and the guard compares it with
what is left.

**Options** (`NamesAssumption`, `ContractAssumption`, `SyntaxAssumption`, `BoundAssumption`,
`TablesAssumption`: positional parameters are a sequence). `NothingShared` is not inductive: a clone
could be given a name that somebody else already holds. `OwnInv` says who holds what: the map of a
field is the one made for that struct, and a slice is that or one of the program's own, which no
call ever holds. `WireIsAsked` needs what the copies hold at each stage of a call (`Staged`), which
in turn needs that no other call can write to them. What an answer says (`ZonesRewritten`,
`PromotionLocates`, `ParametersKnown`) needs, with `WireIsAsked`, what it was judged by: `Judged`
keeps, next to each answer, that the parameters on its wire were all added and that the statement
needed nothing the wire did not have. `ZonesAreRewritten`
then comes down to the contract being both what the pre-parse knows and what every wire has. For
`OptionsTypeCorrect` the request must have a type wherever nil types stand in the tables
(`SentIsTyped`, `MessageSent`). The loop that skips them is a recursive function `sent[n]` of the
number of rounds: `SendsExists` shows by induction over `0 .. n` that there is such a function, and
`TypedAreSent` that after each round it holds parameters with a type only. The theorems are for any number of calls, structs, features, parameters and edits.

**Catalog** (`NamesAssumption`, `CatalogsAssumption`, `TablesAssumption`, `FunctionsAssumption`,
`ShapesAssumption`, `TypesAssumption`). `LookInv` adds to the two properties what a lookup holds in
its hand. While `FindTable` descends, its trail starts at the start, spells the path, and, if names
are distinct, is the beginning of every trail that does (`Descending`). While `FindFunction` visits,
what was visited has no match and leads only to what was visited or is still queued (`Visiting`);
when the queue is empty the visited catalogs are closed under "sub-catalog of", so they are all
there is. Two things stand in for induction: `Under` is the intersection of all closed sets, not a
recursion, and `FirstExists` (a set of positions has a first) comes from the well-foundedness of the
subsets of a finite set. The theorems `TablesAreFound` and `FunctionsAreFound` speak of answers:
that `FindFunction` comes to one needs catalogs without a cycle, which these two do not assume.

The two theorems about calls do. `ShapesAssumption` says that of any catalogs one holds none of the
others: a program that hangs a catalog below itself never gets past `ToProto`, which recurses for
ever. `TypesAssumption` says that a column or an argument has a type or none. `CallInv` says what a
call has at each stage: once sent, for each trail the message of the catalog it ends in, with every
type good or, for an argument, left out; once built, for each trail the node made of that message.
`CatalogTypeCorrect` follows at once, and `AnalyzerHasTables` from `SameTrails` (the trails that
spell a path are the same ones on both sides, since the copy has a node for every trail) and
`SameTables` (and what they end in has the same tables). That the copy has a node for every trail is
where the cycles matter: a trail is enumerated up to a length, and `TrailsEnd` shows that no trail
is longer, because it passes each catalog at most once.

**NodeMap** (`OutputsAssumption`, `TreesAssumption`). A walk is over when nothing is pending, and
then everything has been visited because at every step what lies below a visited node is visited or
pending, and all of it belongs to the tree (`Progress`): the visited set is closed, and `Under` is
the smallest closed set. For the gate the pending nodes also stand in the tree's order (`InOrder`)
and no visited node is bad, so the head, when it is refused, comes before every other bad cast. The
index holds at each stage the visited nodes with a range (`IndexInv`), which gives `IndexIsExact`;
that callers sort slices changes positions and not elements.

`IndexIsOutermostFirst` and `LookupsAreExact` are about order. `TreesAssumption` says that a tree is
one: a node is not below itself and hangs in one place, as a message that was read from bytes does.
Then nothing below a pending node was visited yet (`Fresh`), all that is still to come stands behind
what was visited (`Passed`), and a node appended to the slice of its key is not in it (`NoTwins`)
and comes behind all that are there (`Ordered`), until a caller is lent the slice. The ranging over
the map collects, in whatever order, the slices of the keys in range seen so far (`AskInv`), and
when no key is left that is the answer; `AInv` keeps it while the caller holds it.

**TypeWrap** (`ProtosAssumption`, `DepthAssumption`, `KindsAssumption`, `ValuesAssumption`). The
theorems are for types and values of any depth. `ProtosAssumption` says what a `TypeProto` can hold:
the message of its own kind or none, an ARRAY's element type at most once, and a name or a place of
descriptors only in an ENUM. A message is not nested in itself (`DepthAssumption`), since it was read from bytes; `Depth`
may be any measure that grows from a message to those it holds. `KindsAssumption`: the scalar kinds
are not those of composites, and no accessor of a whole array or struct is among `Kinds`. A civil
time has bits only where one of its fields has (`ValuesAssumption`): above them the decoders cut
bits off, and packing could not bring them back.

`TimeUnpacks` and `DatetimeUnpacks`: the decoders undo the packing for every time of day to the
nanosecond and every date to the year 9999, with its nanoseconds. `DatetimePacks` and `TimePacks` say the reverse, for
any packed bits. Lemmas on the fields of a clock and of a date carry the arithmetic, each field on
top of what is below it (`FieldsMeet`), which is where a wrong shift or mask would fail.

`WrapType`, `TypeFromProto`, `ToProto`, `ConvertValue`, `Inside` and `Innermost` are recursive over
trees. A recursive function is by definition some function that satisfies its equation, so that
there is one must be proved before anything can be said of it. `TypesFounded` says that among any
types one has none of the others below it, and `GoTypesFounded` says so of the types in Go. Each
equation asks only for what is below (`StepsAskBelow`, `GoStepsAskBelow`), so two functions that
satisfy it as far as they go agree (`TypesReadAgree`, `SentAgree`), and put together they reach
every type: a least deep one they left out could be added (`TypesReadExists`, `SentExists`). Then
`EquationsAt` and `GoEquationsAt` give the equations. The same way, as a least deep type of which
it was false could not be, `WrapsOnlyWrappable` (WrapType gives nil for exactly the types that are
not `Wrappable`), `SendsBack` (ToProto panics on exactly the `Holed` ones, and gives the other
whole ones back bare), `BareIsAll` (a type is its bare form exactly if no ENUM in it has descriptors) and `ReadsOnlyStrict` (TypeFromProto fails on exactly the types that are not
`Strict`, makes of those what WrapType does, and none of them is holed) are proved.

The invariant `IInv` says that the literal in the caller's hand is what `WrapLiteralValue` makes of
the type and value where the caller is (`Reads`), and what the last answer has to do with them
(`Answered`); neither `GoesBackBare` nor `ReadsAsSent` is inductive without it, as they look at
the tree and the steps look at the literal. The step that needs work is `Enter`: the literal in an
array or struct is `WrapLiteralValue` of what is there in the tree (`EnterArray`, `EnterStruct`,
from `ConvertAt`). From it follow `Typed`, `ComesBackBare` and `ReadAsSent`.

**TimezoneRewrite** (`SourcesAssumption`: items are not empty, offsets are integers, and a
replacement has some length). `OffsetsAreKept`: for every offset at all, what is written and read
back is within a minute of it, on its side of zero, and exact for whole minutes.

The other three follow from `RInv`, which says what holds between the literals, the ranges that were
collected and the text as it has become. During the walk the ranges are those of the zones visited,
in the caller's text (`Walking`). While they are applied, what is left of them is sorted from the
right (`Descending`, for any permutation that sorts), and the text is that of the caller with the
zones whose range is gone exchanged (`Applying`, `Left`). One step of `Replace` keeps this because
every zone still to come is in front of those exchanged, so that its range in the caller's text is
its range in the present text: `Exchange` cuts the text into what is before the literal, the
literal, and what is behind it, from lemmas on the texts of items put one behind the other
(`Pieces`, `Joins`, `Sliced`). When nothing is left, every zone is exchanged and nothing else is:
`LiteralsExchanged`. `RewriteTypeCorrect` bounds the ranges by the text at each step. For
`PlaceReported` the line of an offset is the number of line starts at or before it, and its column
is what lies behind the last of them (`LineColumnOfOffset`), so that line and column lead back to
the offset of the bad literal in the rewritten text.

Induction. The library's induction theorems take an operator as a parameter and cannot be used here.
Induction on a set of numbers can: the lemma `Induction` (in two modules) follows from the
well-foundedness of `<` on the naturals, since what is left out of the set would have a least
element. `FlattenSeq`, which lays the texts of items one behind the other, and `sent` are reasoned
about in this way, and types as `TypeWrap` above says, by the depth of what is left out.

Only model-checked: `KeepsPromise` and `LoopEnds`, because liveness under fairness is out of the
prover's reach. Every other property of a passing run is stated by a theorem.

## 5. What is not modelled, and the plan

Not modelled for good: SQL itself (the ZetaSQL parser, analyzer and their serializers appear as
nondeterministic outcomes), generated code, the build tools, `cmd/inspect`, formatting of trees.
The string exports of `bridge.cc` 47-125 are not called by the Go code.

`castStringToInt64` in detail and `requoteStringLiteral` work on the characters of a text, which
the models reduce to its form. `EnumType.NameOf` asks Go's registry of descriptors.
`WrapFunctionSignature` and its parts copy one field after the other.

The plan was worked off in the order of the modules above. What it still has, in this order:

1. `AnalyzeFlow`: a composition of `ScriptIteration` and `TimezoneRewrite` behind one engine, to
   state why `AnalyzeNext` does not rewrite and what a caller of both methods can observe.
2. The literals of `TimezoneRewrite` with their quotes: requoting changes the text of a literal.
