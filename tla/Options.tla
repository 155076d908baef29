------------------------------- MODULE Options -------------------------------
(***************************************************************************)
(* LanguageOptions and AnalyzerOptions: what a program does with them, and *)
(* what a call of Engine.Analyze makes of them before the request leaves,  *)
(* with the place a strict-cast error names as the last thing they decide. *)
(*                                                                         *)
(* The point of the model is who holds what.  A struct is named by an      *)
(* element of Language or Value, the copy a call makes by the call, and a  *)
(* map, a slice or a pointed-to value by the struct it was made for; a     *)
(* field holds such a name or Nil, so two fields may hold the same map.    *)
(* Maps and slices of flags are the sets of their keys, which is all that  *)
(* toProto reads of them.                                                  *)
(*                                                                         *)
(* Several goroutines, each with an engine of its own, may call with the   *)
(* same options; the program changes options only between calls.           *)
(***************************************************************************)
EXTENDS Naturals, Sequences, Functions

CONSTANTS
  Call,        \* the goroutines that call Analyze
  Value,       \* the AnalyzerOptions of the program
  Language,    \* the LanguageOptions of the program
  Slice,       \* the slices of statement kinds of the program
  Features,    \* the language features
  Test,        \* those whose name starts with FEATURE_TEST_
  Named,       \* those whose name contains IN_DEVELOPMENT
  Contract,    \* those of the BigQuery default contract
  Syntax,      \* the sets of features that the syntax of a statement may need
  Keywords,    \* the reservable keywords
  Qualify,     \* the one that the contract reserves
  Kinds,       \* the statement kinds
  Tables,      \* the parameter tables of the program
  Foreign,     \* the types that the C++ side cannot make (ENUM, PROTO without their descriptors)
  Fold,        \* what is left of a parameter's name without its case
  Nil,         \* a nil pointer, map, slice or type
  MaxEdits     \* bounds how often the program changes its options

Struct == Language \union Call
Holder == Value \union Call

ASSUME NamesAssumption ==
  /\ Language \intersect Call = {} /\ Value \intersect Call = {}
  /\ Slice \intersect Struct = {}
  /\ Nil \notin Struct \union Holder \union Slice
ASSUME ContractAssumption == Contract \subseteq Features /\ Qualify \in Keywords
ASSUME SyntaxAssumption == Syntax \subseteq SUBSET Features
ASSUME BoundAssumption == MaxEdits \in Nat
ASSUME TablesAssumption == \A t \in Tables : t.positional \in Seq(Range(t.positional))

Modes     == {"default", "strict"}       \* NameResolutionMode and ProductMode
Binding   == {"named", "positional"}     \* ParameterMode and AllowUndeclaredParameters
Locations == {"none", "full", "search"}  \* ParseLocationRecordType
Stages    == {"idle", "begun", "cloned", "extended", "built", "sent", "answered", "panicked"}
Preparses == {"none", "rewritten", "refused", "failed"}
Answers   == {"none", "refused", "zone", "ok", "cast"}
Places    == {"none", "start", "literal"}

VARIABLES
  language,  \* the fields of each LanguageOptions
  features,  \* the keys of each Features map
  keywords,  \* the keys of each Keywords map
  kinds,     \* the elements of each slice of statement kinds
  value,     \* the fields of each AnalyzerOptions
  locations, \* what each ParseLocationRecordType points to
  tables,    \* the contents of QueryParameters and PositionalQueryParameters
  call,      \* call[c]: how far c is, what it was asked and what it answers
  wire,      \* wire[c]: the options in the request of c
  edits      \* how often the program has changed its options

held == <<language, features, keywords, kinds, value, locations, tables>>
vars == <<held, call, wire, edits>>

LanguageOptions ==
  [features : Struct \union {Nil}, keywords : Struct \union {Nil},
   kinds : Struct \union Slice \union {Nil}, all : BOOLEAN, mode : Modes]
AnalyzerOptions ==
  [language : Struct \union {Nil}, location : Holder \union {Nil}, reject : BOOLEAN,
   mode : Binding, table : Holder \union {Nil}]

NewLanguageOptions(s) == [features |-> s, keywords |-> s, kinds |-> Nil, all |-> FALSE, mode |-> "default"]
NewAnalyzerOptions ==
  [language |-> Nil, location |-> Nil, reject |-> FALSE, mode |-> "named", table |-> Nil]

NoTable == [named |-> <<>>, positional |-> <<>>]
NoWire  == [language |-> Nil, location |-> Nil, mode |-> "named", named |-> <<>>, positional |-> <<>>]
NoCall  == [at |-> "idle", asked |-> Nil, needs |-> {}, preparse |-> "none", answer |-> "none", place |-> "none"]

Init ==
  /\ language = [s \in Struct |-> NewLanguageOptions(s)]
  /\ features = [s \in Struct |-> {}] /\ keywords = [s \in Struct |-> {}]
  /\ \E ks \in [Slice -> SUBSET Kinds] :
       kinds = [s \in Struct \union Slice |-> IF s \in Slice THEN ks[s] ELSE {}]
  /\ value = [h \in Holder |-> NewAnalyzerOptions]
  /\ locations = [h \in Holder |-> "none"] /\ tables = [h \in Holder |-> NoTable]
  /\ call = [c \in Call |-> NoCall] /\ wire = [c \in Call |-> NoWire]
  /\ edits = 0

-----------------------------------------------------------------------------
(* Copies and conversions. *)

Contents(cells, ref) == IF ref = Nil THEN {} ELSE cells[ref]
Copied(ref, owner)   == IF ref = Nil THEN Nil ELSE owner
LocationOf(h)        == IF value[h].location = Nil THEN Nil ELSE locations[value[h].location]
TableOf(h)           == IF value[h].table = Nil THEN NoTable ELSE tables[value[h].table]

(* Faults to check the properties against: every field shared, the slice alone, or the modes forgotten. *)
ShareFields(s, t)  == language[s]
ShareSlice(s, t)   == [language[s] EXCEPT !.features = Copied(@, t), !.keywords = Copied(@, t)]
ForgetModes(s, t)  == [language[s] EXCEPT !.features = Copied(@, t), !.keywords = Copied(@, t),
                                          !.kinds = Copied(@, t), !.mode = "default"]

(* The fields of the copy that clone makes of s under the name t. *)
CloneFields(s, t) ==
  [language[s] EXCEPT !.features = Copied(@, t), !.keywords = Copied(@, t), !.kinds = Copied(@, t)]

CloneLanguage(s, t) ==
  /\ language' = [language EXCEPT ![t] = CloneFields(s, t)]
  /\ features' = [features EXCEPT ![t] = Contents(features, language[s].features)]
  /\ keywords' = [keywords EXCEPT ![t] = Contents(keywords, language[s].keywords)]
  /\ kinds'    = [kinds EXCEPT ![t] = Contents(kinds, language[s].kinds)]

FreshLanguage(t) ==
  /\ language' = [language EXCEPT ![t] = NewLanguageOptions(t)]
  /\ features' = [features EXCEPT ![t] = {}]
  /\ keywords' = [keywords EXCEPT ![t] = {}]
  /\ kinds'    = [kinds EXCEPT ![t] = {}]

(* Fault to check NothingShared against: the pointer itself is copied. *)
SharePointer(v, t, l) == [value[v] EXCEPT !.language = Copied(@, l), !.table = Copied(@, t)]

(* The fields of the copy that AnalyzerOptions.Clone makes of v under the name t, *)
(* with the copy of its Language under the name l.                                *)
OptionsCopy(v, t, l) ==
  [value[v] EXCEPT !.language = Copied(@, l), !.location = Copied(@, t), !.table = Copied(@, t)]

(* LanguageOptions.toProto: with every kind allowed, or none named, the list is empty. *)
LanguageProto(s) ==
  [features |-> Contents(features, language[s].features),
   keywords |-> Contents(keywords, language[s].keywords),
   kinds    |-> IF language[s].all THEN {} ELSE Contents(kinds, language[s].kinds),
   mode     |-> language[s].mode]

(* Fault to check TypeOK against: the slice is made in full, and what is skipped stays nil in it. *)
SentInPlace(table) == table.positional

(* Parameters of a nil type are skipped; behind them positional ones move up. *)
NamedSent(table) == Restrict(table.named, {n \in DOMAIN table.named : table.named[n] # Nil})
PositionalSent(table) ==
  LET sent[n \in 0 .. Len(table.positional)] ==
        IF n = 0 THEN <<>>
        ELSE IF table.positional[n] = Nil THEN sent[n - 1] ELSE Append(sent[n - 1], table.positional[n])
  IN sent[Len(table.positional)]

AnalyzerProto(h) ==
  [language |-> LanguageProto(value[h].language), location |-> LocationOf(h), mode |-> value[h].mode,
   named |-> NamedSent(TableOf(h)), positional |-> PositionalSent(TableOf(h))]

(* isReleasedFeature and isTestFeature go by the name of a feature. *)
ReleasedFeatures    == {f \in Features : f \notin Test /\ f \notin Named}
DevelopmentFeatures == Features \ Test

(* Fault to check ZonesRewritten against: requests to parse carry no language options. *)
NoFeatures == {}

(* What parseRequestLanguageOptions puts into every request to parse. *)
ParserFeatures == Contract

-----------------------------------------------------------------------------
(* What the program does with its options, while none of its calls runs. *)

Edit ==
  /\ edits < MaxEdits /\ edits' = edits + 1
  /\ \A c \in Call : call[c].at = "idle"
  /\ UNCHANGED <<call, wire>>

Unreferenced(l) == \A v \in Value : value[v].language # l

EditLanguage(l) == Edit /\ l \in Language /\ UNCHANGED <<value, locations, tables>>

(* NewLanguageOptions, and the literal &LanguageOptions{}, whose maps are nil. *)
MakeLanguage(l) == EditLanguage(l) /\ Unreferenced(l) /\ FreshLanguage(l)

WriteLiteral(l) ==
  /\ EditLanguage(l) /\ Unreferenced(l)
  /\ language' = [language EXCEPT ![l] = [NewLanguageOptions(l) EXCEPT !.features = Nil, !.keywords = Nil]]
  /\ UNCHANGED <<features, keywords, kinds>>

(* Writing to a nil map panics in the program itself: such calls are its own errors. *)
EnableFeatures(l, fs) ==
  /\ EditLanguage(l) /\ language[l].features # Nil
  /\ features' = [features EXCEPT ![language[l].features] = @ \union fs]
  /\ UNCHANGED <<language, keywords, kinds>>

EnableLanguageFeature(l, f)                    == EnableFeatures(l, {f})
EnableMaximumLanguageFeatures(l)               == EnableFeatures(l, ReleasedFeatures)
EnableMaximumLanguageFeaturesForDevelopment(l) == EnableFeatures(l, DevelopmentFeatures)

DisableAllLanguageFeatures(l) ==
  /\ EditLanguage(l)
  /\ language' = [language EXCEPT ![l].features = l]
  /\ features' = [features EXCEPT ![l] = {}]
  /\ UNCHANGED <<keywords, kinds>>

EnableReservableKeyword(l, k, enable) ==
  /\ EditLanguage(l) /\ language[l].keywords # Nil
  /\ keywords' = [keywords EXCEPT ![language[l].keywords] = IF enable THEN @ \union {k} ELSE @ \ {k}]
  /\ UNCHANGED <<language, features, kinds>>

(* The slice itself is kept, so that the program can still write to it. *)
SetSupportedStatementKinds(l, s) ==
  /\ EditLanguage(l)
  /\ language' = [language EXCEPT ![l] = [@ EXCEPT !.kinds = s, !.all = FALSE]]
  /\ UNCHANGED <<features, keywords, kinds>>

SetSupportsAllStatementKinds(l) ==
  /\ EditLanguage(l)
  /\ language' = [language EXCEPT ![l] = [@ EXCEPT !.kinds = Nil, !.all = TRUE]]
  /\ UNCHANGED <<features, keywords, kinds>>

SetLanguageMode(l, m) ==
  /\ EditLanguage(l) /\ language' = [language EXCEPT ![l].mode = m]
  /\ UNCHANGED <<features, keywords, kinds>>

WriteSlice(s, ks) ==
  /\ Edit /\ kinds' = [kinds EXCEPT ![s] = ks]
  /\ UNCHANGED <<language, features, keywords, value, locations, tables>>

(* A field of an AnalyzerOptions is assigned; a location or a table is written anew. *)
Assign(v, fields) ==
  /\ Edit /\ value' = [value EXCEPT ![v] = fields]
  /\ UNCHANGED <<language, features, keywords, kinds>>

SetOptions(v) ==
  \/ /\ UNCHANGED <<locations, tables>>
     /\ \/ \E l \in Language \union {Nil} : Assign(v, [value[v] EXCEPT !.language = l])
        \/ Assign(v, [value[v] EXCEPT !.location = Nil])
        \/ \E b \in BOOLEAN : Assign(v, [value[v] EXCEPT !.reject = b])
        \/ \E m \in Binding : Assign(v, [value[v] EXCEPT !.mode = m])
  \/ /\ Assign(v, [value[v] EXCEPT !.location = v]) /\ UNCHANGED tables
     /\ \E p \in Locations : locations' = [locations EXCEPT ![v] = p]
  \/ /\ Assign(v, [value[v] EXCEPT !.table = v]) /\ UNCHANGED locations
     /\ \E t \in Tables : tables' = [tables EXCEPT ![v] = t]

(* AnalyzerOptions.Clone, called by the program: l names the copy of the Language. *)
Clone(v, w, l) ==
  /\ Edit /\ v # w
  /\ value'  = [value EXCEPT ![w] = OptionsCopy(v, w, l)]
  /\ locations' = [locations EXCEPT ![w] = IF value[v].location = Nil THEN @ ELSE LocationOf(v)]
  /\ tables' = [tables EXCEPT ![w] = TableOf(v)]
  /\ IF value[v].language = Nil
     THEN UNCHANGED <<language, features, keywords, kinds>>
     ELSE Unreferenced(l) /\ CloneLanguage(value[v].language, l)

-----------------------------------------------------------------------------
(* A call of Analyze, for a statement with a named time zone, and with a   *)
(* string cast to INT64 that may be no number.                             *)

At(c, stage, next) == call[c].at = stage /\ call' = [call EXCEPT ![c].at = next]

(* What becomes of the pre-parse: any step of it may fail, and the parser may refuse the text. *)
Preparsed(needs) == {"failed", IF needs \subseteq ParserFeatures THEN "rewritten" ELSE "refused"}

(* Whichever error the pre-parse returns, the statement keeps its named zone. *)
Begin(c, v, needs) ==
  /\ call[c].at = "idle"
  /\ \E preparse \in Preparsed(needs) :
       call' = [call EXCEPT ![c] = [NoCall EXCEPT !.at = "begun", !.asked = v, !.needs = needs,
                                                 !.preparse = preparse]]
  /\ UNCHANGED <<held, wire, edits>>

AskedLanguage(c) == IF call[c].asked = Nil THEN Nil ELSE value[call[c].asked].language

(* buildAnalyzeRequestOptions, step 1. *)
TakeLanguage(c) ==
  /\ At(c, "begun", "cloned")
  /\ IF AskedLanguage(c) = Nil THEN FreshLanguage(c) ELSE CloneLanguage(AskedLanguage(c), c)
  /\ UNCHANGED <<value, locations, tables, wire, edits>>

(* enableBigQueryExtensions: features first, then the keyword; a nil map panics. *)
Extend(c) ==
  LET fs == language[c].features
      ks == language[c].keywords
  IN /\ At(c, "cloned", IF fs = Nil \/ ks = Nil THEN "panicked" ELSE "extended")
     /\ features' = IF fs = Nil THEN features ELSE [features EXCEPT ![fs] = @ \union Contract]
     /\ keywords' = IF fs = Nil \/ ks = Nil THEN keywords ELSE [keywords EXCEPT ![ks] = @ \union {Qualify}]
     /\ UNCHANGED <<language, kinds, value, locations, tables, wire, edits>>

(* Faults to check the properties against: the choice overridden, or never made. *)
PromotesAlways(o) == o.reject
PromotesNever(o)  == FALSE

(* Step 2. The strict cast gate asks for places unless the caller has chosen. *)
Promotes(o) == o.reject /\ o.location = Nil

BuildOptions(c) ==
  LET v    == call[c].asked
      copy == IF v = Nil THEN NewAnalyzerOptions ELSE OptionsCopy(v, c, c)
  IN /\ At(c, "extended", "built")
     /\ value' = [value EXCEPT ![c] = [copy EXCEPT !.language = c, !.location = IF Promotes(copy) THEN c ELSE @]]
     /\ locations' = [locations EXCEPT ![c] = IF Promotes(copy) THEN "full"
                                              ELSE IF copy.location = Nil THEN @ ELSE LocationOf(v)]
     /\ tables' = [tables EXCEPT ![c] = IF v = Nil THEN NoTable ELSE TableOf(v)]
     /\ UNCHANGED <<language, features, keywords, kinds, wire, edits>>

(* Step 3, and the request on its way. *)
Serialise(c) ==
  /\ At(c, "built", "sent")
  /\ wire' = [wire EXCEPT ![c] = AnalyzerProto(c)]
  /\ UNCHANGED <<held, edits>>

(***************************************************************************)
(* What the bridge makes of the parameters on the wire: each is given to   *)
(* the analyzer, which knows them without their case and refuses a name it *)
(* has; the first that fails ends the call.                                *)
(***************************************************************************)
KnownNamed(w) ==
  [k \in {Fold[n] : n \in DOMAIN w.named} |-> {w.named[n] : n \in {m \in DOMAIN w.named : Fold[m] = k}}]

(* Fault to check ParametersKnown against: the status of AddQueryParameter is dropped. *)
AddedRegardless(w) == Foreign \intersect (Range(w.named) \union Range(w.positional)) = {}

ParametersAdded(w) ==
  /\ Foreign \intersect (Range(w.named) \union Range(w.positional)) = {}
  /\ \A m, n \in DOMAIN w.named : Fold[m] = Fold[n] => m = n

(* Whether the resolver attaches the place of a literal. *)
Located(location) ==
  IF location = "full" THEN {TRUE} ELSE IF location = "search" THEN BOOLEAN ELSE {FALSE}

(* byteOffsetToLineColumn of a range that is not there: offset 0. *)
ReportedPlace(located) == IF located THEN "literal" ELSE "start"

(* The analyzer may refuse for reasons of its own; the gate reads the caller's options. *)
Resolve(c) ==
  LET accepted == ParametersAdded(wire[c]) /\ call[c].needs \subseteq wire[c].language.features
      strict   == call[c].asked # Nil /\ value[call[c].asked].reject
      Answer(answer, place) ==
        call' = [call EXCEPT ![c] = [@ EXCEPT !.at = "answered", !.answer = answer, !.place = place]]
  IN /\ call[c].at = "sent"
     /\ \/ Answer("refused", "none")
        \/ accepted /\ call[c].preparse # "rewritten" /\ Answer("zone", "none")
        \/ accepted /\ call[c].preparse = "rewritten" /\ Answer("ok", "none")
        \/ /\ accepted /\ call[c].preparse = "rewritten" /\ strict
           /\ \E located \in Located(wire[c].location) : Answer("cast", ReportedPlace(located))
     /\ UNCHANGED <<held, wire, edits>>

(* The call returns, or its panic reaches the caller; its copies are garbage. *)
Return(c) ==
  /\ call[c].at \in {"answered", "panicked"}
  /\ call' = [call EXCEPT ![c] = NoCall] /\ wire' = [wire EXCEPT ![c] = NoWire]
  /\ FreshLanguage(c)
  /\ value' = [value EXCEPT ![c] = NewAnalyzerOptions]
  /\ locations' = [locations EXCEPT ![c] = "none"] /\ tables' = [tables EXCEPT ![c] = NoTable]
  /\ UNCHANGED edits

-----------------------------------------------------------------------------
CallStep(c) ==
  \/ \E v \in Value \union {Nil}, needs \in Syntax : Begin(c, v, needs)
  \/ TakeLanguage(c) \/ Extend(c) \/ BuildOptions(c) \/ Serialise(c) \/ Resolve(c) \/ Return(c)

LanguageStep(l) ==
  \/ MakeLanguage(l) \/ WriteLiteral(l)
  \/ \E f \in Features : EnableLanguageFeature(l, f)
  \/ EnableMaximumLanguageFeatures(l) \/ EnableMaximumLanguageFeaturesForDevelopment(l)
  \/ DisableAllLanguageFeatures(l)
  \/ \E k \in Keywords, enable \in BOOLEAN : EnableReservableKeyword(l, k, enable)
  \/ \E s \in Slice : SetSupportedStatementKinds(l, s)
  \/ SetSupportsAllStatementKinds(l)
  \/ \E m \in Modes : SetLanguageMode(l, m)

Next ==
  \/ \E c \in Call : CallStep(c)
  \/ \E l \in Language : LanguageStep(l)
  \/ \E s \in Slice, ks \in SUBSET Kinds : WriteSlice(s, ks)
  \/ \E v \in Value : SetOptions(v)
  \/ \E v, w \in Value, l \in Language : Clone(v, w, l)

Spec == Init /\ [][Next]_vars

-----------------------------------------------------------------------------
(* Properties. *)

HeldOK ==
  /\ language \in [Struct -> LanguageOptions] /\ value \in [Holder -> AnalyzerOptions]
  /\ features \in [Struct -> SUBSET Features] /\ keywords \in [Struct -> SUBSET Keywords]
  /\ kinds \in [Struct \union Slice -> SUBSET Kinds]
  /\ locations \in [Holder -> Locations] /\ tables \in [Holder -> Tables \union {NoTable}]

CallRecord ==
  [at : Stages, asked : Value \union {Nil}, needs : SUBSET Features, preparse : Preparses,
   answer : Answers, place : Places]

CallOK ==
  /\ call \in [Call -> CallRecord] /\ wire = [c \in Call |-> wire[c]]
  /\ edits \in 0 .. MaxEdits

LanguageMessage ==
  [features : SUBSET Features, keywords : SUBSET Keywords, kinds : SUBSET Kinds, mode : Modes]

ParameterTypes == (UNION {Range(t.named) \union Range(t.positional) : t \in Tables}) \ {Nil}

Message(w) ==
  /\ w.language \in LanguageMessage \union {Nil}
  /\ w.location \in Locations \union {Nil} /\ w.mode \in Binding
  /\ Range(w.named) \union Range(w.positional) \subseteq ParameterTypes

(***************************************************************************)
(* The options of the program, the copies of its calls and the requests    *)
(* hold values of their types: no parameter without one is sent, where it  *)
(* would "poison the wire form" (analyzer_options.go:49-54).               *)
(***************************************************************************)
TypeOK == HeldOK /\ CallOK /\ \A c \in Call : Message(wire[c])

(***************************************************************************)
(* What a caller of Analyze asks for with v, or with nil: its own choices  *)
(* on top of the BigQuery contract, and places for the strict cast gate    *)
(* unless it has chosen (analyzer_options.go:79-83, engine.go:560-567).    *)
(***************************************************************************)
AskedFeatures(v) == IF v = Nil \/ value[v].language = Nil THEN {}
                    ELSE Contents(features, language[value[v].language].features)
AskedKeywords(v) == IF v = Nil \/ value[v].language = Nil THEN {}
                    ELSE Contents(keywords, language[value[v].language].keywords)

AskedKinds(v) == IF v = Nil \/ value[v].language = Nil \/ language[value[v].language].all THEN {}
                 ELSE Contents(kinds, language[value[v].language].kinds)
AskedMode(v)  == IF v = Nil \/ value[v].language = Nil THEN "default" ELSE language[value[v].language].mode

AskedLocation(v) == IF v = Nil THEN Nil
                    ELSE IF value[v].reject /\ value[v].location = Nil THEN "full" ELSE LocationOf(v)
AskedBinding(v)  == IF v = Nil THEN "named" ELSE value[v].mode
AskedTable(v)    == IF v = Nil THEN NoTable ELSE TableOf(v)

(* A request carries what its caller asked for, however calls with the same options overlap. *)
WireIsAsked ==
  \A c \in Call : call[c].at \in {"sent", "answered"} =>
    LET v == call[c].asked
    IN /\ wire[c].language.features = AskedFeatures(v) \union Contract
       /\ wire[c].language.keywords = AskedKeywords(v) \union {Qualify}
       /\ wire[c].language.kinds = AskedKinds(v) /\ wire[c].language.mode = AskedMode(v)
       /\ wire[c].location = AskedLocation(v) /\ wire[c].mode = AskedBinding(v)
       /\ wire[c].named = NamedSent(AskedTable(v))
       /\ wire[c].positional = PositionalSent(AskedTable(v))

(***************************************************************************)
(* No two options hold the same map or pointer, and only the program's own *)
(* slices are held twice: what one goroutine writes to its copy no other   *)
(* can read, and an edit of a clone leaves the original alone.             *)
(***************************************************************************)
NothingShared ==
  /\ \A s, t \in Struct : s # t =>
       /\ language[s].features = language[t].features => language[s].features = Nil
       /\ language[s].keywords = language[t].keywords => language[s].keywords = Nil
       /\ language[s].kinds = language[t].kinds => language[s].kinds \in Slice \union {Nil}
  /\ \A c \in Call : language[c].kinds \notin Slice
  /\ \A g, h \in Holder : g # h =>
       /\ value[g].location = value[h].location => value[g].location = Nil
       /\ value[g].table = value[h].table => value[g].table = Nil

(* A call changes nothing that the program holds: its opts are "read but never modified". *)
CallerUntouched ==
  [][\A c \in Call : call'[c].at # call[c].at =>
       /\ \A l \in Language : /\ language'[l] = language[l]
                              /\ features'[l] = features[l] /\ keywords'[l] = keywords[l]
       /\ \A s \in Slice : kinds'[s] = kinds[s]
       /\ \A v \in Value : /\ value'[v] = value[v]
                           /\ locations'[v] = locations[v] /\ tables'[v] = tables[v]]_vars

(* With the gate on and no choice of locations, a cast error names the place of the literal. *)
PromotionLocates ==
  \A c \in Call : call[c].answer = "cast" /\ value[call[c].asked].location = Nil
                    => call[c].place = "literal"

(***************************************************************************)
(* A call that is not refused resolves its statement against exactly the   *)
(* parameters its caller gave a type: none is lost to another of the same  *)
(* name in another case, and none has a type of its own making.            *)
(***************************************************************************)
ParametersKnown ==
  \A c \in Call : call[c].answer \in {"zone", "ok", "cast"} /\ call[c].asked # Nil =>
    LET t     == TableOf(call[c].asked)
        typed == {n \in DOMAIN t.named : t.named[n] # Nil}
    IN /\ DOMAIN KnownNamed(wire[c]) = {Fold[n] : n \in typed}
       /\ \A n \in typed : KnownNamed(wire[c])[Fold[n]] = {t.named[n]} /\ t.named[n] \notin Foreign
       /\ Foreign \intersect Range(PositionalSent(t)) = {}

(***************************************************************************)
(* Where the pre-parse itself did not fail, a named time zone reaches the  *)
(* resolver only in a statement whose syntax the caller opted into beyond  *)
(* the contract: the pre-parse, which knows nothing of the caller's        *)
(* options, then understands every other statement that the analysis       *)
(* accepts (engine.go:189-190, 231-242).                                   *)
(***************************************************************************)
ZonesRewritten ==
  \A c \in Call : call[c].answer = "zone" =>
    \/ call[c].preparse = "failed"
    \/ /\ ~(call[c].needs \subseteq Contract)
       /\ call[c].needs \ Contract \subseteq AskedFeatures(call[c].asked)

(***************************************************************************)
(* What the comments of the repository say and the code does not do.       *)
(***************************************************************************)

(* "Engine.Analyze applies this on every call so callers do not need to opt in"
   (language_options.go:120-121): also when the LanguageOptions is a literal. *)
ContractOnEveryCall == \A c \in Call : call[c].at # "panicked"
=============================================================================
