---------------------------- MODULE OptionsProofs ----------------------------
(***************************************************************************)
(* Proofs about Options, for any number of calls and any options: no map   *)
(* or slice of a call's copies is held by anyone else, a call leaves the   *)
(* options of the program as they are, and its request carries what they   *)
(* say.                                                                    *)
(***************************************************************************)
EXTENDS Options, SequenceTheorems, WellFoundedInduction, TLAPS

(* Every map and slice is held by the struct it was made for. *)
OwnLanguages ==
  /\ \A s \in Struct : /\ language[s].features \in {s, Nil} /\ language[s].keywords \in {s, Nil}
                       /\ language[s].kinds \in {s, Nil} \union Slice
  /\ \A c \in Call : language[c].kinds \in {c, Nil}

OwnOptions ==
  /\ \A h \in Holder : value[h].location \in {h, Nil} /\ value[h].table \in {h, Nil}
  /\ \A v \in Value : value[v].language \in Language \union {Nil}

Own == OwnLanguages /\ OwnOptions

OwnInv == HeldOK /\ CallOK /\ Own

-----------------------------------------------------------------------------
(* The operations on options. *)

LEMMA NewLanguageIsTyped ==
  ASSUME NEW t \in Struct
  PROVE  NewLanguageOptions(t) \in LanguageOptions
BY DEF NewLanguageOptions, LanguageOptions, Modes

(* A fresh LanguageOptions holds its own maps; nothing else changes. *)
LEMMA Fresh ==
  ASSUME HeldOK, NEW t \in Struct, FreshLanguage(t)
  PROVE  /\ language' \in [Struct -> LanguageOptions]
         /\ features' \in [Struct -> SUBSET Features] /\ keywords' \in [Struct -> SUBSET Keywords]
         /\ kinds' \in [Struct \union Slice -> SUBSET Kinds]
         /\ language'[t] = NewLanguageOptions(t)
         /\ features'[t] = {} /\ keywords'[t] = {} /\ kinds'[t] = {}
         /\ \A s \in Struct \ {t} : /\ language'[s] = language[s]
                                    /\ features'[s] = features[s] /\ keywords'[s] = keywords[s]
         /\ \A s \in (Struct \union Slice) \ {t} : kinds'[s] = kinds[s]
BY NewLanguageIsTyped DEF HeldOK, FreshLanguage

(* A copy holds maps of its own, with the contents of the original's. *)
LEMMA Copy ==
  ASSUME OwnInv, NEW s \in Struct, NEW t \in Struct, CloneLanguage(s, t)
  PROVE  /\ language' \in [Struct -> LanguageOptions]
         /\ features' \in [Struct -> SUBSET Features] /\ keywords' \in [Struct -> SUBSET Keywords]
         /\ kinds' \in [Struct \union Slice -> SUBSET Kinds]
         /\ language'[t] = CloneFields(s, t)
         /\ features'[t] = Contents(features, language[s].features)
         /\ keywords'[t] = Contents(keywords, language[s].keywords)
         /\ kinds'[t] = Contents(kinds, language[s].kinds)
         /\ \A r \in Struct \ {t} : /\ language'[r] = language[r]
                                    /\ features'[r] = features[r] /\ keywords'[r] = keywords[r]
         /\ \A r \in (Struct \union Slice) \ {t} : kinds'[r] = kinds[r]
<1>1. CloneFields(s, t) \in LanguageOptions
  <2>1. language[s] \in LanguageOptions
    BY DEF OwnInv, HeldOK
  <2> QED
    BY <2>1 DEF CloneFields, Copied, LanguageOptions
<1>2. /\ Contents(features, language[s].features) \in SUBSET Features
      /\ Contents(keywords, language[s].keywords) \in SUBSET Keywords
      /\ Contents(kinds, language[s].kinds) \in SUBSET Kinds
  BY DEF OwnInv, HeldOK, Own, OwnLanguages, Contents
<1> QED
  BY <1>1, <1>2 DEF OwnInv, HeldOK, CloneLanguage

(* What CloneFields puts into the fields of the copy. *)
LEMMA CopyFields ==
  ASSUME OwnInv, NEW s \in Struct, NEW t \in Struct
  PROVE  /\ CloneFields(s, t).features = IF language[s].features = Nil THEN Nil ELSE t
         /\ CloneFields(s, t).keywords = IF language[s].keywords = Nil THEN Nil ELSE t
         /\ CloneFields(s, t).kinds = IF language[s].kinds = Nil THEN Nil ELSE t
         /\ CloneFields(s, t).all = language[s].all
         /\ CloneFields(s, t).mode = language[s].mode
<1>1. language[s] \in LanguageOptions
  BY DEF OwnInv, HeldOK
<1> QED
  BY <1>1 DEF CloneFields, Copied, LanguageOptions

(* One LanguageOptions changes, and holds nothing of another. *)
LEMMA OwnLanguagesKept ==
  ASSUME OwnLanguages, NEW t \in Struct,
         \A s \in Struct \ {t} : language'[s] = language[s],
         language'[t].features \in {t, Nil}, language'[t].keywords \in {t, Nil},
         language'[t].kinds \in {t, Nil} \union Slice,
         t \in Call => language'[t].kinds \in {t, Nil}
  PROVE  OwnLanguages'
<1>1. \A c \in Call : c \in Struct
  BY DEF Struct
<1>2. \A s \in Struct : /\ language'[s].features \in {s, Nil} /\ language'[s].keywords \in {s, Nil}
                       /\ language'[s].kinds \in {s, Nil} \union Slice
  BY DEF OwnLanguages
<1>3. \A c \in Call : language'[c].kinds \in {c, Nil}
  BY <1>1 DEF OwnLanguages
<1> QED
  BY <1>2, <1>3 DEF OwnLanguages

-----------------------------------------------------------------------------
(* What the program holds, and what the calls but c hold, is as before. *)
Beside(c) ==
  /\ \A s \in Struct \ {c} : /\ language'[s] = language[s]
                             /\ features'[s] = features[s] /\ keywords'[s] = keywords[s]
  /\ \A s \in (Struct \union Slice) \ {c} : kinds'[s] = kinds[s]
  /\ \A h \in Holder \ {c} : /\ value'[h] = value[h]
                             /\ locations'[h] = locations[h] /\ tables'[h] = tables[h]
  /\ \A d \in Call \ {c} : call'[d] = call[d] /\ wire'[d] = wire[d]

LEMMA CallFields ==
  ASSUME CallOK, NEW c \in Call
  PROVE  /\ call[c].asked \in Value \union {Nil}
         /\ call[c].at \in Stages
BY DEF CallOK, CallRecord

(* The Language that a call was asked to use, if any, is one of the program. *)
LEMMA AskedIsHeld ==
  ASSUME OwnInv, NEW c \in Call, AskedLanguage(c) # Nil
  PROVE  /\ AskedLanguage(c) \in Language /\ AskedLanguage(c) \in Struct \ {c}
         /\ call[c].asked \in Value /\ AskedLanguage(c) = value[call[c].asked].language
BY CallFields, NamesAssumption DEF OwnInv, Own, OwnOptions, AskedLanguage, Struct

LEMMA BeginInv ==
  ASSUME OwnInv, NEW c \in Call, NEW v \in Value \union {Nil}, NEW needs \in Syntax, Begin(c, v, needs)
  PROVE  OwnInv' /\ Beside(c)
<1>1. UNCHANGED <<held, wire, edits>>
  BY DEF Begin
<1>2. /\ CallOK'
      /\ \A d \in Call \ {c} : call'[d] = call[d]
  <2>1. PICK preparse \in Preparses :
          call' = [call EXCEPT ![c] = [NoCall EXCEPT !.at = "begun", !.asked = v, !.needs = needs,
                                                    !.preparse = preparse]]
    BY DEF Begin, Preparsed, Preparses
  <2>2. [NoCall EXCEPT !.at = "begun", !.asked = v, !.needs = needs, !.preparse = preparse] \in CallRecord
    BY SyntaxAssumption DEF CallRecord, NoCall, Stages, Answers, Places
  <2> QED
    BY <1>1, <2>1, <2>2 DEF OwnInv, CallOK
<1> QED
  BY <1>1, <1>2 DEF held, OwnInv, HeldOK, Own, OwnLanguages, OwnOptions, Beside

LEMMA TakeLanguageInv ==
  ASSUME OwnInv, NEW c \in Call, TakeLanguage(c)
  PROVE  OwnInv' /\ Beside(c)
<1>1. UNCHANGED <<value, locations, tables, wire, edits>>
  BY DEF TakeLanguage
<1>2. /\ CallOK'
      /\ \A d \in Call \ {c} : call'[d] = call[d]
  BY <1>1 DEF TakeLanguage, At, OwnInv, CallOK, CallRecord, Stages
<1>3. c \in Struct /\ HeldOK
  BY DEF Struct, OwnInv
<1>4. CASE AskedLanguage(c) = Nil
  <2>1. FreshLanguage(c)
    BY <1>4 DEF TakeLanguage
  <2>2. HeldOK'
    BY <1>1, <1>3, <2>1, Fresh DEF HeldOK
  <2>3. Beside(c)
    BY <1>1, <1>2, <1>3, <2>1, Fresh DEF Beside
  <2>4. Own'
    <3>1. /\ language'[c] = NewLanguageOptions(c)
          /\ \A s \in Struct \ {c} : language'[s] = language[s]
      BY <1>3, <2>1, Fresh
    <3>2. OwnLanguages'
      BY <1>3, <3>1, OwnLanguagesKept DEF OwnInv, Own, NewLanguageOptions
    <3> QED
      BY <1>1, <3>2 DEF OwnInv, Own, OwnOptions
  <2> QED
    BY <1>2, <2>2, <2>3, <2>4 DEF OwnInv
<1>5. CASE AskedLanguage(c) # Nil
  <2> DEFINE s == AskedLanguage(c)
  <2>1. CloneLanguage(s, c) /\ s \in Struct
    BY <1>5, AskedIsHeld DEF TakeLanguage
  <2> HIDE DEF s
  <2>2. HeldOK'
    BY <1>1, <1>3, <2>1, Copy DEF HeldOK
  <2>3. Beside(c)
    BY <1>1, <1>2, <1>3, <2>1, Copy DEF Beside
  <2>4. language'[c] = CloneFields(s, c)
    BY <1>3, <2>1, Copy
  <2>5. Own'
    <3>1. /\ language'[c].features \in {c, Nil} /\ language'[c].keywords \in {c, Nil}
          /\ language'[c].kinds \in {c, Nil}
      BY <1>3, <2>1, <2>4, CopyFields
    <3>2. OwnLanguages'
      BY <1>3, <2>3, <3>1, OwnLanguagesKept DEF OwnInv, Own, Beside
    <3> QED
      BY <1>1, <3>2 DEF OwnInv, Own, OwnOptions
  <2> QED
    BY <1>2, <2>2, <2>3, <2>5 DEF OwnInv
<1> QED
  BY <1>4, <1>5

LEMMA ExtendInv ==
  ASSUME OwnInv, NEW c \in Call, Extend(c)
  PROVE  OwnInv' /\ Beside(c)
<1>1. UNCHANGED <<language, kinds, value, locations, tables, wire, edits>>
  BY DEF Extend
<1>2. c \in Struct /\ language[c].features \in {c, Nil} /\ language[c].keywords \in {c, Nil}
  BY DEF OwnInv, Own, OwnLanguages, Struct
<1>3. /\ CallOK'
      /\ \A d \in Call \ {c} : call'[d] = call[d]
  BY SMTT(30), <1>1 DEF Extend, At, OwnInv, CallOK, CallRecord, Stages
<1>4. /\ features' \in [Struct -> SUBSET Features]
      /\ \A s \in Struct \ {c} : features'[s] = features[s]
  BY <1>2, ContractAssumption DEF Extend, OwnInv, HeldOK
<1>5. /\ keywords' \in [Struct -> SUBSET Keywords]
      /\ \A s \in Struct \ {c} : keywords'[s] = keywords[s]
  BY <1>2, ContractAssumption DEF Extend, OwnInv, HeldOK
<1>6. HeldOK' /\ Own'
  BY <1>1, <1>4, <1>5 DEF OwnInv, HeldOK, Own, OwnLanguages, OwnOptions
<1>7. Beside(c)
  BY <1>1, <1>3, <1>4, <1>5 DEF Beside
<1> QED
  BY <1>3, <1>6, <1>7 DEF OwnInv

(* The copy of options that v names, with its table and Language under the name of the call. *)
LEMMA OptionsCopyFields ==
  ASSUME HeldOK, NEW v \in Value, NEW t \in Holder, NEW l \in Struct
  PROVE  /\ OptionsCopy(v, t, l) \in AnalyzerOptions
         /\ OptionsCopy(v, t, l).table \in {t, Nil}
         /\ OptionsCopy(v, t, l).table = Nil <=> value[v].table = Nil
         /\ OptionsCopy(v, t, l).language \in {l, Nil}
         /\ OptionsCopy(v, t, l).location \in {t, Nil}
         /\ OptionsCopy(v, t, l).location = Nil <=> value[v].location = Nil
         /\ OptionsCopy(v, t, l).reject = value[v].reject
         /\ OptionsCopy(v, t, l).mode = value[v].mode
<1>1. value[v] \in AnalyzerOptions
  BY DEF HeldOK, Holder
<1>2. t # Nil
  BY NamesAssumption DEF Holder
<1> QED
  BY <1>1, <1>2 DEF OptionsCopy, Copied, AnalyzerOptions

LEMMA TableIsTyped ==
  ASSUME OwnInv, NEW h \in Holder
  PROVE  /\ TableOf(h) \in Tables \union {NoTable}
         /\ LocationOf(h) \in Locations \union {Nil}
         /\ value[h].location # Nil => LocationOf(h) \in Locations
BY DEF OwnInv, HeldOK, Own, OwnOptions, TableOf, LocationOf

(* What the engine makes of a copy: the language and the place of the promotion are its own. *)
EngineOptions(o, c) == [o EXCEPT !.language = c, !.location = IF Promotes(o) THEN c ELSE @]

LEMMA EngineFields ==
  ASSUME NEW o \in AnalyzerOptions, NEW c \in Call
  PROVE  LET p == EngineOptions(o, c)
         IN /\ p \in AnalyzerOptions
            /\ p.language = c /\ p.table = o.table /\ p.mode = o.mode
            /\ p.location = IF o.reject /\ o.location = Nil THEN c ELSE o.location
BY DEF EngineOptions, Promotes, AnalyzerOptions, Struct, Holder

LEMMA NewOptionsAreTyped ==
  NewAnalyzerOptions \in AnalyzerOptions /\ NewAnalyzerOptions.table = Nil /\ NewAnalyzerOptions.location = Nil
BY DEF NewAnalyzerOptions, AnalyzerOptions, Binding

(* What BuildOptions copies before it attaches the language. *)
Source(c) == IF call[c].asked = Nil THEN NewAnalyzerOptions ELSE OptionsCopy(call[c].asked, c, c)

LEMMA SourceFields ==
  ASSUME OwnInv, NEW c \in Call
  PROVE  Source(c) \in AnalyzerOptions /\ Source(c).table \in {c, Nil} /\ Source(c).location \in {c, Nil}
<1>1. c \in Holder /\ c \in Struct
  BY DEF Holder, Struct
<1> QED
  BY <1>1, CallFields, OptionsCopyFields, NewOptionsAreTyped DEF OwnInv, Source

(* What the copy's own location says, if it has one. *)
EngineLocation(c) ==
  IF Promotes(Source(c)) THEN "full"
  ELSE IF Source(c).location = Nil THEN locations[c] ELSE LocationOf(call[c].asked)

LEMMA EngineLocationTyped ==
  ASSUME OwnInv, NEW c \in Call
  PROVE  EngineLocation(c) \in Locations
<1>1. c \in Holder /\ c \in Struct /\ locations[c] \in Locations
  BY DEF Holder, Struct, OwnInv, HeldOK
<1>2. ASSUME Source(c).location # Nil PROVE LocationOf(call[c].asked) \in Locations
  <2>1. call[c].asked # Nil /\ call[c].asked \in Value
    BY <1>2, CallFields, NewOptionsAreTyped DEF Source, OwnInv
  <2>2. Source(c) = OptionsCopy(call[c].asked, c, c)
    BY <2>1 DEF Source
  <2>3. value[call[c].asked].location # Nil
    BY <1>1, <1>2, <2>1, <2>2, OptionsCopyFields DEF OwnInv
  <2> QED
    BY <2>1, <2>3, TableIsTyped DEF Holder
<1> QED
  BY <1>1, <1>2 DEF EngineLocation, Locations

LEMMA BuildOptionsInv ==
  ASSUME OwnInv, NEW c \in Call, BuildOptions(c)
  PROVE  OwnInv' /\ Beside(c)
<1>1. /\ UNCHANGED <<language, features, keywords, kinds, wire, edits>>
      /\ value' = [value EXCEPT ![c] = EngineOptions(Source(c), c)]
      /\ locations' = [locations EXCEPT ![c] = EngineLocation(c)]
      /\ tables' = [tables EXCEPT ![c] = IF call[c].asked = Nil THEN NoTable ELSE TableOf(call[c].asked)]
  BY DEF BuildOptions, Source, EngineOptions, EngineLocation
<1>2. /\ CallOK'
      /\ \A d \in Call \ {c} : call'[d] = call[d]
  BY <1>1 DEF BuildOptions, At, OwnInv, CallOK, CallRecord, Stages
<1>3. /\ c \in Holder /\ value'[c] \in AnalyzerOptions
      /\ value'[c].table \in {c, Nil} /\ value'[c].location \in {c, Nil}
  <2>1. c \in Holder /\ value'[c] = EngineOptions(Source(c), c)
    BY <1>1 DEF OwnInv, HeldOK, Holder
  <2> QED
    BY <2>1, SourceFields, EngineFields
<1>4. (IF call[c].asked = Nil THEN NoTable ELSE TableOf(call[c].asked)) \in Tables \union {NoTable}
  BY CallFields, TableIsTyped DEF OwnInv, Holder
<1>5. /\ value' \in [Holder -> AnalyzerOptions]
      /\ locations' \in [Holder -> Locations] /\ tables' \in [Holder -> Tables \union {NoTable}]
      /\ \A h \in Holder \ {c} : /\ value'[h] = value[h]
                                 /\ locations'[h] = locations[h] /\ tables'[h] = tables[h]
  BY <1>1, <1>3, <1>4, EngineLocationTyped DEF OwnInv, HeldOK
<1>6. HeldOK'
  BY <1>1, <1>5 DEF OwnInv, HeldOK
<1>7. \A v \in Value : v \in Holder \ {c}
  BY NamesAssumption DEF Holder
<1>8. OwnOptions'
  BY <1>3, <1>5, <1>7 DEF OwnInv, Own, OwnOptions
<1>9. OwnLanguages'
  BY <1>1 DEF OwnInv, Own, OwnLanguages
<1> QED
  BY <1>1, <1>2, <1>5, <1>6, <1>8, <1>9 DEF OwnInv, Own, Beside

LEMMA SerialiseInv ==
  ASSUME OwnInv, NEW c \in Call, Serialise(c)
  PROVE  OwnInv' /\ Beside(c)
<1>1. UNCHANGED <<held, edits>> /\ \A d \in Call \ {c} : wire'[d] = wire[d]
  BY DEF Serialise
<1>2. call[c] \in CallRecord /\ CallOK
  BY DEF OwnInv, CallOK
<1>3. CallOK'
  <2>1. call' = [call EXCEPT ![c].at = "sent"] /\ wire' = [wire EXCEPT ![c] = AnalyzerProto(c)]
    BY DEF Serialise, At
  <2>2. call' \in [Call -> CallRecord]
    BY <1>2, <2>1 DEF CallOK, CallRecord, Stages
  <2>3. wire' = [d \in Call |-> wire'[d]]
    BY <1>2, <2>1 DEF CallOK
  <2> QED
    BY <1>1, <1>2, <2>2, <2>3 DEF CallOK
<1>4. \A d \in Call \ {c} : call'[d] = call[d]
  BY SMTT(60), <1>2 DEF Serialise, At, CallOK
<1> QED
  BY <1>1, <1>3, <1>4 DEF held, OwnInv, HeldOK, Own, OwnLanguages, OwnOptions, Beside

LEMMA ResolveInv ==
  ASSUME OwnInv, NEW c \in Call, Resolve(c)
  PROVE  OwnInv' /\ Beside(c)
<1>1. UNCHANGED <<held, wire, edits>>
  BY DEF Resolve
<1>2. PICK answer \in Answers, place \in Places :
        call' = [call EXCEPT ![c] = [@ EXCEPT !.at = "answered", !.answer = answer, !.place = place]]
  BY DEF Resolve, ReportedPlace, Located, Answers, Places
<1>3. [call[c] EXCEPT !.at = "answered", !.answer = answer, !.place = place] \in CallRecord
  BY DEF OwnInv, CallOK, CallRecord, Stages
<1>4. /\ CallOK'
      /\ \A d \in Call \ {c} : call'[d] = call[d]
  BY <1>1, <1>2, <1>3 DEF OwnInv, CallOK
<1> QED
  BY <1>1, <1>4 DEF held, OwnInv, HeldOK, Own, OwnLanguages, OwnOptions, Beside

LEMMA ReturnInv ==
  ASSUME OwnInv, NEW c \in Call, Return(c)
  PROVE  OwnInv' /\ Beside(c)
<1>1. /\ UNCHANGED edits /\ FreshLanguage(c)
      /\ \A d \in Call \ {c} : wire'[d] = wire[d] /\ call'[d] = call[d]
      /\ value' = [value EXCEPT ![c] = NewAnalyzerOptions]
      /\ locations' = [locations EXCEPT ![c] = "none"] /\ tables' = [tables EXCEPT ![c] = NoTable]
  BY DEF Return
<1>2. CallOK'
  BY <1>1 DEF Return, NoCall, OwnInv, CallOK, CallRecord, Stages, Preparses, Answers, Places
<1>3. c \in Struct /\ c \in Holder /\ HeldOK
  BY DEF Struct, Holder, OwnInv
<1>4. /\ language'[c] = NewLanguageOptions(c)
      /\ \A s \in Struct \ {c} : /\ language'[s] = language[s]
                                 /\ features'[s] = features[s] /\ keywords'[s] = keywords[s]
      /\ \A s \in (Struct \union Slice) \ {c} : kinds'[s] = kinds[s]
  BY <1>1, <1>3, Fresh
<1>5. /\ value' \in [Holder -> AnalyzerOptions]
      /\ locations' \in [Holder -> Locations] /\ tables' \in [Holder -> Tables \union {NoTable}]
      /\ \A h \in Holder \ {c} : /\ value'[h] = value[h]
                                 /\ locations'[h] = locations[h] /\ tables'[h] = tables[h]
      /\ value'[c] = NewAnalyzerOptions
  BY <1>1, <1>3, NewOptionsAreTyped DEF HeldOK, Locations
<1>6. HeldOK'
  BY <1>1, <1>3, <1>5, Fresh DEF HeldOK
<1>7. OwnLanguages'
  BY <1>3, <1>4, OwnLanguagesKept DEF OwnInv, Own, NewLanguageOptions
<1>8. \A v \in Value : v \in Holder \ {c}
  BY NamesAssumption DEF Holder
<1>9. OwnOptions'
  BY <1>5, <1>8, NewOptionsAreTyped DEF OwnInv, Own, OwnOptions
<1> QED
  BY <1>1, <1>2, <1>4, <1>5, <1>6, <1>7, <1>9 DEF OwnInv, Own, Beside

(* A step of a call keeps the invariant, and touches nothing but its own copies. *)
LEMMA CallStepInv ==
  ASSUME OwnInv, NEW c \in Call, CallStep(c)
  PROVE  OwnInv' /\ Beside(c)
BY BeginInv, TakeLanguageInv, ExtendInv, BuildOptionsInv, SerialiseInv, ResolveInv, ReturnInv DEF CallStep

-----------------------------------------------------------------------------
(* What the program does. *)

LEMMA EditFrame ==
  ASSUME CallOK, Edit
  PROVE  CallOK' /\ UNCHANGED <<call, wire>> /\ \A c \in Call : call[c].at = "idle"
BY BoundAssumption DEF Edit, CallOK

LEMMA LanguageIsStruct ==
  ASSUME NEW l \in Language
  PROVE  l \in Struct /\ l \notin Call
BY NamesAssumption DEF Struct

(* An edit that replaces the fields of one LanguageOptions. *)
LEMMA FieldsInv ==
  ASSUME OwnInv, NEW l \in Language, EditLanguage(l), NEW r \in LanguageOptions,
         language' = [language EXCEPT ![l] = r],
         r.features \in {l, Nil}, r.keywords \in {l, Nil}, r.kinds \in {l, Nil} \union Slice,
         features' \in [Struct -> SUBSET Features], keywords' \in [Struct -> SUBSET Keywords],
         kinds' \in [Struct \union Slice -> SUBSET Kinds]
  PROVE  OwnInv'
<1>1. UNCHANGED <<value, locations, tables>> /\ Edit
  BY DEF EditLanguage
<1>2. CallOK'
  BY <1>1, EditFrame DEF OwnInv
<1>3. l \in Struct /\ l \notin Call
  BY LanguageIsStruct
<1>4. /\ language' \in [Struct -> LanguageOptions] /\ language'[l] = r
      /\ \A s \in Struct \ {l} : language'[s] = language[s]
  BY <1>3 DEF OwnInv, HeldOK
<1>5. HeldOK'
  BY <1>1, <1>4 DEF OwnInv, HeldOK
<1>6. OwnLanguages'
  BY <1>3, <1>4, OwnLanguagesKept DEF OwnInv, Own
<1>7. OwnOptions'
  BY <1>1 DEF OwnInv, Own, OwnOptions
<1> QED
  BY <1>2, <1>5, <1>6, <1>7 DEF OwnInv, Own

(* An edit that changes what a map or slice holds. *)
LEMMA ContentsInv ==
  ASSUME OwnInv, Edit, UNCHANGED <<language, value, locations, tables>>,
         features' \in [Struct -> SUBSET Features], keywords' \in [Struct -> SUBSET Keywords],
         kinds' \in [Struct \union Slice -> SUBSET Kinds]
  PROVE  OwnInv'
BY EditFrame DEF OwnInv, HeldOK, Own, OwnLanguages, OwnOptions

LEMMA EnableFeaturesInv ==
  ASSUME OwnInv, NEW l \in Language, NEW fs \in SUBSET Features, EnableFeatures(l, fs)
  PROVE  OwnInv'
<1>1. Edit /\ UNCHANGED <<language, value, locations, tables, keywords, kinds>>
  BY DEF EnableFeatures, EditLanguage
<1>2. language[l].features \in Struct
  BY LanguageIsStruct DEF OwnInv, Own, OwnLanguages, EnableFeatures
<1>3. features' \in [Struct -> SUBSET Features]
  BY <1>2 DEF EnableFeatures, OwnInv, HeldOK
<1> QED
  BY <1>1, <1>3, ContentsInv DEF OwnInv, HeldOK

LEMMA LanguageStepInv ==
  ASSUME OwnInv, NEW l \in Language, LanguageStep(l)
  PROVE  OwnInv'
<1>1. l \in Struct /\ l \notin Call
  BY LanguageIsStruct
<1>2. /\ language[l] \in LanguageOptions
      /\ language[l].features \in {l, Nil} /\ language[l].keywords \in {l, Nil}
      /\ language[l].kinds \in {l, Nil} \union Slice
  BY <1>1 DEF OwnInv, HeldOK, Own, OwnLanguages
<1>3. /\ features \in [Struct -> SUBSET Features] /\ keywords \in [Struct -> SUBSET Keywords]
      /\ kinds \in [Struct \union Slice -> SUBSET Kinds]
  BY DEF OwnInv, HeldOK
<1>4. CASE MakeLanguage(l)
  <2>1. /\ NewLanguageOptions(l) \in LanguageOptions
        /\ NewLanguageOptions(l).features = l /\ NewLanguageOptions(l).keywords = l
        /\ NewLanguageOptions(l).kinds = Nil
    BY <1>1, NewLanguageIsTyped DEF NewLanguageOptions
  <2>2. /\ EditLanguage(l) /\ language' = [language EXCEPT ![l] = NewLanguageOptions(l)]
        /\ features' \in [Struct -> SUBSET Features] /\ keywords' \in [Struct -> SUBSET Keywords]
        /\ kinds' \in [Struct \union Slice -> SUBSET Kinds]
    BY <1>3, <1>4 DEF MakeLanguage, FreshLanguage
  <2> QED
    BY <2>1, <2>2, FieldsInv
<1>5. CASE WriteLiteral(l)
  <2> DEFINE r == [NewLanguageOptions(l) EXCEPT !.features = Nil, !.keywords = Nil]
  <2>1. r \in LanguageOptions /\ r.features = Nil /\ r.keywords = Nil /\ r.kinds = Nil
    BY <1>1 DEF NewLanguageOptions, LanguageOptions, Modes
  <2>2. EditLanguage(l) /\ language' = [language EXCEPT ![l] = r] /\ UNCHANGED <<features, keywords, kinds>>
    BY <1>5 DEF WriteLiteral
  <2> HIDE DEF r
  <2> QED
    BY <1>3, <2>1, <2>2, FieldsInv
<1>6. CASE \E fs \in SUBSET Features : EnableFeatures(l, fs)
  BY <1>6, EnableFeaturesInv
<1>7. CASE DisableAllLanguageFeatures(l)
  <2> DEFINE r == [language[l] EXCEPT !.features = l]
  <2>1. /\ r \in LanguageOptions
        /\ r.features = l /\ r.keywords = language[l].keywords /\ r.kinds = language[l].kinds
    BY <1>1, <1>2 DEF LanguageOptions
  <2>2. /\ EditLanguage(l) /\ language' = [language EXCEPT ![l] = r]
        /\ features' = [features EXCEPT ![l] = {}] /\ UNCHANGED <<keywords, kinds>>
    BY <1>7 DEF DisableAllLanguageFeatures
  <2>3. features' \in [Struct -> SUBSET Features]
    BY <1>3, <2>2
  <2> HIDE DEF r
  <2> QED
    BY <1>2, <1>3, <2>1, <2>2, <2>3, FieldsInv
<1>8. CASE \E k \in Keywords, enable \in BOOLEAN : EnableReservableKeyword(l, k, enable)
  <2>1. PICK k \in Keywords, enable \in BOOLEAN : EnableReservableKeyword(l, k, enable)
    BY <1>8
  <2>2. Edit /\ UNCHANGED <<language, value, locations, tables, features, kinds>>
    BY <2>1 DEF EnableReservableKeyword, EditLanguage
  <2>3. language[l].keywords \in Struct
    BY <1>1, <1>2, <2>1 DEF EnableReservableKeyword
  <2>4. keywords' \in [Struct -> SUBSET Keywords]
    BY <1>3, <2>1, <2>3 DEF EnableReservableKeyword
  <2> QED
    BY <1>3, <2>2, <2>4, ContentsInv
<1>9. CASE \E s \in Slice : SetSupportedStatementKinds(l, s)
  <2>1. PICK s \in Slice : SetSupportedStatementKinds(l, s)
    BY <1>9
  <2> DEFINE r == [language[l] EXCEPT !.kinds = s, !.all = FALSE]
  <2>2. /\ r \in LanguageOptions
        /\ r.features = language[l].features /\ r.keywords = language[l].keywords /\ r.kinds = s
    BY <1>2 DEF LanguageOptions
  <2>3. EditLanguage(l) /\ language' = [language EXCEPT ![l] = r] /\ UNCHANGED <<features, keywords, kinds>>
    BY <2>1 DEF SetSupportedStatementKinds
  <2> HIDE DEF r
  <2> QED
    BY <1>2, <1>3, <2>2, <2>3, FieldsInv
<1>10. CASE SetSupportsAllStatementKinds(l)
  <2> DEFINE r == [language[l] EXCEPT !.kinds = Nil, !.all = TRUE]
  <2>1. /\ r \in LanguageOptions
        /\ r.features = language[l].features /\ r.keywords = language[l].keywords /\ r.kinds = Nil
    BY <1>2 DEF LanguageOptions
  <2>2. EditLanguage(l) /\ language' = [language EXCEPT ![l] = r] /\ UNCHANGED <<features, keywords, kinds>>
    BY <1>10 DEF SetSupportsAllStatementKinds
  <2> HIDE DEF r
  <2> QED
    BY <1>2, <1>3, <2>1, <2>2, FieldsInv
<1>11. CASE \E m \in Modes : SetLanguageMode(l, m)
  <2>1. PICK m \in Modes : SetLanguageMode(l, m)
    BY <1>11
  <2> DEFINE r == [language[l] EXCEPT !.mode = m]
  <2>2. /\ r \in LanguageOptions /\ r.features = language[l].features
        /\ r.keywords = language[l].keywords /\ r.kinds = language[l].kinds
    BY <1>2 DEF LanguageOptions
  <2>3. EditLanguage(l) /\ language' = [language EXCEPT ![l] = r] /\ UNCHANGED <<features, keywords, kinds>>
    BY <2>1 DEF SetLanguageMode
  <2> HIDE DEF r
  <2> QED
    BY <1>2, <1>3, <2>2, <2>3, FieldsInv
<1>12. LanguageStep(l) =>
         \/ MakeLanguage(l) \/ WriteLiteral(l) \/ \E fs \in SUBSET Features : EnableFeatures(l, fs)
         \/ DisableAllLanguageFeatures(l)
         \/ \E k \in Keywords, enable \in BOOLEAN : EnableReservableKeyword(l, k, enable)
         \/ \E s \in Slice : SetSupportedStatementKinds(l, s)
         \/ SetSupportsAllStatementKinds(l) \/ \E m \in Modes : SetLanguageMode(l, m)
  <2>1. /\ ReleasedFeatures \in SUBSET Features /\ DevelopmentFeatures \in SUBSET Features
        /\ \A f \in Features : {f} \in SUBSET Features
    BY DEF ReleasedFeatures, DevelopmentFeatures
  <2> QED
    BY <2>1 DEF LanguageStep, EnableLanguageFeature, EnableMaximumLanguageFeatures,
                EnableMaximumLanguageFeaturesForDevelopment
<1> QED
  BY <1>4, <1>5, <1>6, <1>7, <1>8, <1>9, <1>10, <1>11, <1>12

LEMMA WriteSliceInv ==
  ASSUME OwnInv, NEW s \in Slice, NEW ks \in SUBSET Kinds, WriteSlice(s, ks)
  PROVE  OwnInv'
<1>1. Edit /\ UNCHANGED <<language, features, keywords, value, locations, tables>>
  BY DEF WriteSlice
<1>2. kinds' \in [Struct \union Slice -> SUBSET Kinds]
  BY DEF WriteSlice, OwnInv, HeldOK
<1> QED
  BY <1>1, <1>2, ContentsInv DEF OwnInv, HeldOK

(* An edit that replaces the fields of one AnalyzerOptions. *)
LEMMA OptionsInv ==
  ASSUME OwnInv, NEW v \in Value, NEW r \in AnalyzerOptions, r.location \in {v, Nil}, r.table \in {v, Nil},
         r.language \in Language \union {Nil}, value' = [value EXCEPT ![v] = r],
         tables' \in [Holder -> Tables \union {NoTable}]
  PROVE  /\ OwnOptions'
         /\ value' \in [Holder -> AnalyzerOptions] /\ tables' \in [Holder -> Tables \union {NoTable}]
<1>1. v \in Holder
  BY DEF Holder
<1>2. /\ value' \in [Holder -> AnalyzerOptions] /\ value'[v] = r
      /\ \A h \in Holder \ {v} : value'[h] = value[h]
  BY <1>1 DEF OwnInv, HeldOK
<1>3. \A w \in Value : w \in Holder
  BY DEF Holder
<1> QED
  BY <1>2, <1>3 DEF OwnInv, Own, OwnOptions

LEMMA SetOptionsInv ==
  ASSUME OwnInv, NEW v \in Value, SetOptions(v)
  PROVE  OwnInv'
<1>1. Edit /\ UNCHANGED <<language, features, keywords, kinds>>
  BY DEF SetOptions, Assign
<1>2. /\ value[v] \in AnalyzerOptions /\ value[v].table \in {v, Nil}
      /\ value[v].location \in {v, Nil} /\ value[v].language \in Language \union {Nil}
  BY DEF OwnInv, HeldOK, Own, OwnOptions, Holder
<1>3. PICK r \in AnalyzerOptions :
        /\ r.location \in {v, Nil} /\ r.table \in {v, Nil} /\ r.language \in Language \union {Nil}
        /\ value' = [value EXCEPT ![v] = r]
  <2>1. CASE \E l \in Language \union {Nil} : Assign(v, [value[v] EXCEPT !.language = l])
    BY <1>2, <2>1 DEF Assign, AnalyzerOptions, Struct
  <2>2. CASE \E p \in {v, Nil} : Assign(v, [value[v] EXCEPT !.location = p])
    BY <1>2, <2>2 DEF Assign, AnalyzerOptions, Holder
  <2>3. CASE \E b \in BOOLEAN : Assign(v, [value[v] EXCEPT !.reject = b])
    BY <1>2, <2>3 DEF Assign, AnalyzerOptions
  <2>4. CASE \E m \in Binding : Assign(v, [value[v] EXCEPT !.mode = m])
    BY <1>2, <2>4 DEF Assign, AnalyzerOptions
  <2>5. CASE Assign(v, [value[v] EXCEPT !.table = v])
    BY <1>2, <2>5 DEF Assign, AnalyzerOptions, Holder
  <2> QED
    BY <2>1, <2>2, <2>3, <2>4, <2>5 DEF SetOptions
<1>4. locations' \in [Holder -> Locations] /\ tables' \in [Holder -> Tables \union {NoTable}]
  BY DEF SetOptions, OwnInv, HeldOK
<1>5. /\ OwnOptions' /\ value' \in [Holder -> AnalyzerOptions]
  BY <1>3, <1>4, OptionsInv
<1>6. CallOK'
  BY <1>1, EditFrame DEF OwnInv
<1> QED
  BY <1>1, <1>4, <1>5, <1>6 DEF OwnInv, HeldOK, Own, OwnLanguages

LEMMA CloneInv ==
  ASSUME OwnInv, NEW v \in Value, NEW w \in Value, NEW l \in Language, Clone(v, w, l)
  PROVE  OwnInv'
<1>1. /\ Edit /\ value' = [value EXCEPT ![w] = OptionsCopy(v, w, l)]
      /\ locations' = [locations EXCEPT ![w] = IF value[v].location = Nil THEN @ ELSE LocationOf(v)]
      /\ tables' = [tables EXCEPT ![w] = TableOf(v)]
  BY DEF Clone
<1>2. v \in Holder /\ w \in Holder /\ l \in Struct /\ l \notin Call
  BY LanguageIsStruct DEF Holder
<1>3. CallOK'
  BY <1>1, EditFrame DEF OwnInv
<1>4. /\ OptionsCopy(v, w, l) \in AnalyzerOptions /\ OptionsCopy(v, w, l).table \in {w, Nil}
      /\ OptionsCopy(v, w, l).location \in {w, Nil} /\ OptionsCopy(v, w, l).language \in Language \union {Nil}
  BY <1>2, OptionsCopyFields DEF OwnInv
<1>5. locations' \in [Holder -> Locations] /\ tables' \in [Holder -> Tables \union {NoTable}]
  <2>1. (IF value[v].location = Nil THEN locations[w] ELSE LocationOf(v)) \in Locations
    BY <1>2, TableIsTyped DEF OwnInv, HeldOK
  <2> QED
    BY <1>1, <1>2, <2>1, TableIsTyped DEF OwnInv, HeldOK
<1>6. OwnOptions' /\ value' \in [Holder -> AnalyzerOptions]
  BY <1>1, <1>4, <1>5, OptionsInv
<1>7. CASE value[v].language = Nil
  <2>1. UNCHANGED <<language, features, keywords, kinds>>
    BY <1>7 DEF Clone
  <2> QED
    BY <1>3, <1>5, <1>6, <2>1 DEF OwnInv, HeldOK, Own, OwnLanguages
<1>8. CASE value[v].language # Nil
  <2> DEFINE s == value[v].language
  <2>1. s \in Struct /\ CloneLanguage(s, l)
    BY <1>8, LanguageIsStruct DEF Clone, OwnInv, Own, OwnOptions
  <2> HIDE DEF s
  <2>2. /\ language' \in [Struct -> LanguageOptions]
        /\ features' \in [Struct -> SUBSET Features] /\ keywords' \in [Struct -> SUBSET Keywords]
        /\ kinds' \in [Struct \union Slice -> SUBSET Kinds]
        /\ language'[l] = CloneFields(s, l)
        /\ \A r \in Struct \ {l} : language'[r] = language[r]
    BY <1>2, <2>1, Copy
  <2>3. /\ language'[l].features \in {l, Nil} /\ language'[l].keywords \in {l, Nil}
        /\ language'[l].kinds \in {l, Nil}
    BY <1>2, <2>1, <2>2, CopyFields
  <2>4. OwnLanguages'
    BY <1>2, <2>2, <2>3, OwnLanguagesKept DEF OwnInv, Own
  <2> QED
    BY <1>3, <1>5, <1>6, <2>2, <2>4 DEF OwnInv, HeldOK, Own
<1> QED
  BY <1>7, <1>8

-----------------------------------------------------------------------------
(* The theorems. *)

LEMMA InitInv == Init => OwnInv
<1> SUFFICES ASSUME Init PROVE OwnInv
  OBVIOUS
<1>1. HeldOK
  <2>1. kinds \in [Struct \union Slice -> SUBSET Kinds]
    BY DEF Init
  <2> QED
    BY <2>1, NewLanguageIsTyped, NewOptionsAreTyped DEF Init, HeldOK, Locations
<1>2. CallOK
  BY BoundAssumption DEF Init, CallOK, CallRecord, NoCall, Stages, Preparses, Answers, Places
<1>3. OwnLanguages
  BY DEF Init, OwnLanguages, NewLanguageOptions, Struct
<1>4. OwnOptions
  BY DEF Init, OwnOptions, NewAnalyzerOptions, Holder
<1> QED
  BY <1>1, <1>2, <1>3, <1>4 DEF OwnInv, Own

LEMMA NextInv == OwnInv /\ [Next]_vars => OwnInv'
<1> SUFFICES ASSUME OwnInv, [Next]_vars PROVE OwnInv'
  OBVIOUS
<1>1. CASE UNCHANGED vars
  BY <1>1 DEF vars, held, OwnInv, HeldOK, CallOK, Own, OwnLanguages, OwnOptions
<1>2. CASE Next
  BY <1>2, CallStepInv, LanguageStepInv, WriteSliceInv, SetOptionsInv, CloneInv DEF Next
<1> QED
  BY <1>1, <1>2

(* Every variable has its type, and every map and slice is held by the struct it was made for. *)
THEOREM Ownership == Spec => []OwnInv
BY InitInv, NextInv, PTL DEF Spec

LEMMA OwnedIsNotShared == OwnInv => NothingShared
<1> SUFFICES ASSUME OwnInv PROVE NothingShared
  OBVIOUS
<1>1. ASSUME NEW s \in Struct, NEW t \in Struct, s # t
      PROVE  /\ language[s].features = language[t].features => language[s].features = Nil
             /\ language[s].keywords = language[t].keywords => language[s].keywords = Nil
             /\ language[s].kinds = language[t].kinds => language[s].kinds \in Slice \union {Nil}
  BY <1>1, NamesAssumption DEF OwnInv, Own, OwnLanguages
<1>2. ASSUME NEW c \in Call PROVE language[c].kinds \notin Slice
  BY NamesAssumption DEF OwnInv, Own, OwnLanguages, Struct
<1>3. ASSUME NEW g \in Holder, NEW h \in Holder, g # h
      PROVE  /\ value[g].location = value[h].location => value[g].location = Nil
             /\ value[g].table = value[h].table => value[g].table = Nil
  BY <1>3 DEF OwnInv, Own, OwnOptions
<1> QED
  BY <1>1, <1>2, <1>3 DEF NothingShared

(* No map is held by two options, and no slice but the program's own. *)
THEOREM Isolation == Spec => []NothingShared
BY Ownership, OwnedIsNotShared, PTL

(* The edits of the program leave the calls as they are. *)
LEMMA EditsLeaveCalls ==
  ASSUME NEW c \in Call, [Next]_vars, call'[c].at # call[c].at
  PROVE  \E d \in Call : CallStep(d)
BY DEF Next, vars, LanguageStep, MakeLanguage, WriteLiteral, EnableLanguageFeature, EnableMaximumLanguageFeatures,
       EnableMaximumLanguageFeaturesForDevelopment, EnableFeatures, DisableAllLanguageFeatures,
       EnableReservableKeyword, SetSupportedStatementKinds, SetSupportsAllStatementKinds, SetLanguageMode,
       WriteSlice, SetOptions, Assign, Clone, EditLanguage, Edit

(* A call leaves everything that the program holds as it is. *)
THEOREM Untouched == Spec => CallerUntouched
<1> DEFINE Same == \A c \in Call : call'[c].at # call[c].at =>
             /\ \A l \in Language : /\ language'[l] = language[l]
                                    /\ features'[l] = features[l] /\ keywords'[l] = keywords[l]
             /\ \A s \in Slice : kinds'[s] = kinds[s]
             /\ \A v \in Value : /\ value'[v] = value[v]
                                 /\ locations'[v] = locations[v] /\ tables'[v] = tables[v]
<1>1. OwnInv /\ [Next]_vars => Same
  <2> SUFFICES ASSUME OwnInv, [Next]_vars, NEW c \in Call, call'[c].at # call[c].at
               PROVE  /\ \A l \in Language : /\ language'[l] = language[l]
                                             /\ features'[l] = features[l] /\ keywords'[l] = keywords[l]
                      /\ \A s \in Slice : kinds'[s] = kinds[s]
                      /\ \A v \in Value : value'[v] = value[v] /\ locations'[v] = locations[v] /\ tables'[v] = tables[v]
    OBVIOUS
  <2>1. PICK d \in Call : CallStep(d)
    BY EditsLeaveCalls
  <2>2. Beside(d)
    BY <2>1, CallStepInv
  <2>3. /\ \A l \in Language : l \in Struct \ {d}
        /\ \A s \in Slice : s \in (Struct \union Slice) \ {d}
        /\ \A v \in Value : v \in Holder \ {d}
    BY NamesAssumption DEF Struct, Holder
  <2> QED
    BY <2>2, <2>3 DEF Beside
<1> QED
  BY <1>1, Ownership, PTL DEF Spec, CallerUntouched

-----------------------------------------------------------------------------
(***************************************************************************)
(* WireIsAsked.  It is not inductive: the request is made in four steps    *)
(* from copies, so the invariant says of every stage what the copies hold. *)
(***************************************************************************)
Asked(v) ==
  [features |-> AskedFeatures(v), keywords |-> AskedKeywords(v), kinds |-> AskedKinds(v), mode |-> AskedMode(v),
   location |-> AskedLocation(v), binding |-> AskedBinding(v), table |-> AskedTable(v)]

AskedBy(c) == Asked(call[c].asked)

Holds(c, fs, ks) ==
  /\ Contents(features, language[c].features) = fs
  /\ Contents(keywords, language[c].keywords) = ks
  /\ LanguageProto(c).kinds = AskedBy(c).kinds /\ language[c].mode = AskedBy(c).mode

Taken(c) == call[c].at = "cloned" => Holds(c, AskedBy(c).features, AskedBy(c).keywords)

Extended(c) ==
  call[c].at \in {"extended", "built"} =>
    Holds(c, AskedBy(c).features \union Contract, AskedBy(c).keywords \union {Qualify})

Built(c) ==
  call[c].at = "built" =>
    /\ value[c].language = c
    /\ LocationOf(c) = AskedBy(c).location /\ value[c].mode = AskedBy(c).binding
    /\ TableOf(c) = AskedBy(c).table

Sent(c) ==
  call[c].at \in {"sent", "answered"} =>
    /\ wire[c].language.features = AskedBy(c).features \union Contract
    /\ wire[c].language.keywords = AskedBy(c).keywords \union {Qualify}
    /\ wire[c].language.kinds = AskedBy(c).kinds /\ wire[c].language.mode = AskedBy(c).mode
    /\ wire[c].location = AskedBy(c).location /\ wire[c].mode = AskedBy(c).binding
    /\ wire[c].named = NamedSent(AskedBy(c).table)
    /\ wire[c].positional = PositionalSent(AskedBy(c).table)

Staged(c) == Taken(c) /\ Extended(c) /\ Built(c) /\ Sent(c)

(* What is asked for with v does not change while a call takes a step. *)
LEMMA AskedKept ==
  ASSUME OwnInv, NEW c \in Call, Beside(c), NEW v \in Value \union {Nil}
  PROVE  Asked(v)' = Asked(v) /\ (v # Nil => value'[v] = value[v] /\ LocationOf(v)' = LocationOf(v))
<1>1. CASE v = Nil
  BY <1>1 DEF Asked, AskedFeatures, AskedKeywords, AskedKinds, AskedMode, AskedLocation, AskedBinding, AskedTable
<1>2. CASE v # Nil
  <2>1. /\ v \in Holder \ {c} /\ value[v].table \in {v, Nil} /\ value[v].location \in {v, Nil}
        /\ value[v].language \in Language \union {Nil}
    BY <1>2, NamesAssumption DEF Holder, OwnInv, Own, OwnOptions
  <2>2. value'[v] = value[v] /\ locations'[v] = locations[v] /\ tables'[v] = tables[v]
    BY <2>1 DEF Beside
  <2>3. TableOf(v)' = TableOf(v) /\ LocationOf(v)' = LocationOf(v)
    BY <2>1, <2>2 DEF TableOf, LocationOf
  <2>4. AskedTable(v)' = AskedTable(v) /\ AskedLocation(v)' = AskedLocation(v) /\ AskedBinding(v)' = AskedBinding(v)
    BY <2>2, <2>3 DEF AskedTable, AskedLocation, AskedBinding
  <2>5. /\ AskedFeatures(v)' = AskedFeatures(v) /\ AskedKeywords(v)' = AskedKeywords(v)
        /\ AskedKinds(v)' = AskedKinds(v) /\ AskedMode(v)' = AskedMode(v)
    <3>1. CASE value[v].language = Nil
      BY <1>2, <2>2, <3>1 DEF AskedFeatures, AskedKeywords, AskedKinds, AskedMode
    <3>2. CASE value[v].language # Nil
      <4>1. PICK l \in Language : l = value[v].language
        BY <2>1, <3>2
      <4>2. l \in Struct \ {c} /\ l # Nil
        BY NamesAssumption DEF Struct
      <4>3. /\ language[l].features \in {l, Nil} /\ language[l].keywords \in {l, Nil}
            /\ language[l].kinds \in {l, Nil} \union Slice
        BY <4>2 DEF OwnInv, Own, OwnLanguages
      <4>4. /\ language'[l] = language[l] /\ features'[l] = features[l] /\ keywords'[l] = keywords[l]
            /\ \A s \in Slice \union {l} : kinds'[s] = kinds[s]
        BY <4>2, NamesAssumption DEF Beside, Struct
      <4>5. /\ Contents(features, language[l].features)' = Contents(features, language[l].features)
            /\ Contents(keywords, language[l].keywords)' = Contents(keywords, language[l].keywords)
            /\ Contents(kinds, language[l].kinds)' = Contents(kinds, language[l].kinds)
        BY <4>3, <4>4 DEF Contents
      <4>6. value'[v].language = l /\ value[v].language = l
        BY <2>2, <4>1
      <4> QED
        BY <1>2, <4>2, <4>4, <4>5, <4>6 DEF AskedFeatures, AskedKeywords, AskedKinds, AskedMode
    <3> QED
      BY <3>1, <3>2
  <2> QED
    BY <2>2, <2>3, <2>4, <2>5 DEF Asked
<1> QED
  BY <1>1, <1>2

(* What a call holds does not change while another takes a step. *)
LEMMA OthersStaged ==
  ASSUME OwnInv, NEW c \in Call, Beside(c), NEW d \in Call, d # c, Staged(d)
  PROVE  Staged(d)'
<1>1. /\ d \in Struct \ {c} /\ d \in Holder \ {c}
      /\ language[d].features \in {d, Nil} /\ language[d].keywords \in {d, Nil}
      /\ language[d].kinds \in {d, Nil} /\ value[d].table \in {d, Nil} /\ value[d].location \in {d, Nil}
  BY DEF Struct, Holder, OwnInv, Own, OwnLanguages, OwnOptions
<1>2. /\ language'[d] = language[d] /\ features'[d] = features[d] /\ keywords'[d] = keywords[d]
      /\ kinds'[d] = kinds[d] /\ value'[d] = value[d] /\ locations'[d] = locations[d] /\ tables'[d] = tables[d]
      /\ call'[d] = call[d] /\ wire'[d] = wire[d]
  BY <1>1 DEF Beside
<1>3. /\ Contents(features, language[d].features)' = Contents(features, language[d].features)
      /\ Contents(keywords, language[d].keywords)' = Contents(keywords, language[d].keywords)
      /\ LanguageProto(d).kinds' = LanguageProto(d).kinds
      /\ LocationOf(d)' = LocationOf(d) /\ TableOf(d)' = TableOf(d)
  BY <1>1, <1>2 DEF Contents, LanguageProto, LocationOf, TableOf
<1>4. AskedBy(d)' = AskedBy(d)
  <2>1. PICK v \in Value \union {Nil} : v = call[d].asked
    BY CallFields DEF OwnInv
  <2>2. Asked(v)' = Asked(v)
    BY AskedKept
  <2>3. call[d].asked = v /\ call'[d].asked = v
    BY <1>2, <2>1
  <2> QED
    BY <2>2, <2>3 DEF AskedBy
<1>5. Taken(d)' /\ Extended(d)'
  BY <1>2, <1>3, <1>4 DEF Staged, Taken, Extended, Holds
<1>6. Built(d)'
  BY <1>2, <1>3, <1>4 DEF Staged, Built
<1>7. Sent(d)'
  BY <1>2, <1>4 DEF Staged, Sent
<1> QED
  BY <1>5, <1>6, <1>7 DEF Staged

(* Moving on to another stage changes only the stage. *)
LEMMA AtStage ==
  ASSUME CallOK, NEW c \in Call, NEW stage, NEW next, At(c, stage, next)
  PROVE  /\ call[c].at = stage /\ call'[c].at = next
         /\ call'[c].asked = call[c].asked
BY DEF CallOK, CallRecord, At

(* What a call asked for is still that after a step that keeps its question. *)
LEMMA AskedByKept ==
  ASSUME OwnInv, NEW c \in Call, Beside(c), call'[c].asked = call[c].asked
  PROVE  AskedBy(c)' = AskedBy(c) /\ Asked(call[c].asked)' = AskedBy(c)
<1>1. PICK v \in Value \union {Nil} : v = call[c].asked
  BY CallFields DEF OwnInv
<1>2. Asked(v)' = Asked(v)
  BY AskedKept
<1>3. call[c].asked = v /\ call'[c].asked = v
  BY <1>1
<1> QED
  BY <1>2, <1>3 DEF AskedBy

LEMMA TakeLanguageStaged ==
  ASSUME OwnInv, NEW c \in Call, Staged(c), TakeLanguage(c)
  PROVE  Staged(c)'
<1>1. PICK v \in Value \union {Nil} : v = call[c].asked
  BY CallFields DEF OwnInv
<1>2. call'[c].at = "cloned" /\ call'[c].asked = call[c].asked
  BY AtStage DEF TakeLanguage, OwnInv
<1>3. AskedBy(c)' = Asked(v)
  BY <1>1, <1>2, TakeLanguageInv, AskedByKept DEF AskedBy
<1>4. c \in Struct /\ HeldOK
  BY DEF Struct, OwnInv
<1>5. c # Nil
  BY NamesAssumption DEF Struct
<1>6. /\ Contents(features', language'[c].features) = AskedFeatures(v)
      /\ Contents(keywords', language'[c].keywords) = AskedKeywords(v)
      /\ (IF language'[c].all THEN {} ELSE Contents(kinds', language'[c].kinds)) = AskedKinds(v)
      /\ language'[c].mode = AskedMode(v)
  <2>1. CASE AskedLanguage(c) = Nil
    <3>1. FreshLanguage(c)
      BY <2>1 DEF TakeLanguage
    <3>2. language'[c] = NewLanguageOptions(c) /\ features'[c] = {} /\ keywords'[c] = {} /\ kinds'[c] = {}
      BY <1>4, <3>1, Fresh
    <3>3. AskedFeatures(v) = {} /\ AskedKeywords(v) = {} /\ AskedKinds(v) = {} /\ AskedMode(v) = "default"
      BY <1>1, <2>1 DEF AskedLanguage, AskedFeatures, AskedKeywords, AskedKinds, AskedMode
    <3> QED
      BY <1>5, <3>2, <3>3 DEF NewLanguageOptions, Contents
  <2>2. CASE AskedLanguage(c) # Nil
    <3>1. PICK s \in Struct : s = AskedLanguage(c)
      BY <2>2, AskedIsHeld
    <3>2. CloneLanguage(s, c)
      BY <2>2, <3>1 DEF TakeLanguage
    <3>3. /\ language'[c] = CloneFields(s, c)
          /\ features'[c] = Contents(features, language[s].features)
          /\ keywords'[c] = Contents(keywords, language[s].keywords)
          /\ kinds'[c] = Contents(kinds, language[s].kinds)
      BY <1>4, <3>2, Copy
    <3>4. /\ v # Nil /\ value[v].language = s /\ s # Nil
      BY <1>1, <2>2, <3>1 DEF AskedLanguage
    <3>5. /\ AskedFeatures(v) = Contents(features, language[s].features)
          /\ AskedKeywords(v) = Contents(keywords, language[s].keywords)
          /\ AskedKinds(v) = IF language[s].all THEN {} ELSE Contents(kinds, language[s].kinds)
          /\ AskedMode(v) = language[s].mode
      BY <3>4 DEF AskedFeatures, AskedKeywords, AskedKinds, AskedMode
    <3>6. /\ language'[c].features = IF language[s].features = Nil THEN Nil ELSE c
          /\ language'[c].keywords = IF language[s].keywords = Nil THEN Nil ELSE c
          /\ language'[c].kinds = IF language[s].kinds = Nil THEN Nil ELSE c
          /\ language'[c].all = language[s].all /\ language'[c].mode = language[s].mode
      BY <1>4, <3>3, CopyFields
    <3>7. Contents(features', language'[c].features) = AskedFeatures(v)
      BY <1>5, <3>3, <3>5, <3>6 DEF Contents
    <3>8. Contents(keywords', language'[c].keywords) = AskedKeywords(v)
      BY <1>5, <3>3, <3>5, <3>6 DEF Contents
    <3>9. (IF language'[c].all THEN {} ELSE Contents(kinds', language'[c].kinds)) = AskedKinds(v)
      BY <1>5, <3>3, <3>5, <3>6 DEF Contents
    <3> QED
      BY <3>5, <3>6, <3>7, <3>8, <3>9
  <2> QED
    BY <2>1, <2>2
<1>7. Taken(c)'
  BY <1>3, <1>6 DEF Taken, Holds, LanguageProto, Asked
<1> QED
  BY <1>2, <1>7 DEF Staged, Extended, Built, Sent

LEMMA ExtendStaged ==
  ASSUME OwnInv, NEW c \in Call, Staged(c), Extend(c)
  PROVE  Staged(c)'
<1> DEFINE panics == language[c].features = Nil \/ language[c].keywords = Nil
<1>1. /\ call[c].at = "cloned" /\ call'[c].at = IF panics THEN "panicked" ELSE "extended"
      /\ call'[c].asked = call[c].asked
  BY AtStage DEF Extend, OwnInv
<1>2. CASE panics
  BY <1>1, <1>2 DEF Staged, Taken, Extended, Built, Sent
<1>3. CASE ~panics
  <2>1. AskedBy(c)' = AskedBy(c)
    BY <1>1, ExtendInv, AskedByKept
  <2>2. c \in Struct /\ c # Nil /\ language[c].features = c /\ language[c].keywords = c
    BY <1>3, NamesAssumption DEF OwnInv, Own, OwnLanguages, Struct
  <2>3. /\ features'[c] = features[c] \union Contract /\ keywords'[c] = keywords[c] \union {Qualify}
        /\ UNCHANGED <<language, kinds>>
    BY <2>2 DEF Extend, OwnInv, HeldOK
  <2>4. Holds(c, AskedBy(c).features, AskedBy(c).keywords)
    BY <1>1 DEF Staged, Taken
  <2>5. Extended(c)'
    BY <2>1, <2>2, <2>3, <2>4 DEF Extended, Holds, Contents, LanguageProto
  <2> QED
    BY <1>1, <1>3, <2>5 DEF Staged, Taken, Built, Sent
<1> QED
  BY <1>2, <1>3

LEMMA BuildOptionsStaged ==
  ASSUME OwnInv, NEW c \in Call, Staged(c), BuildOptions(c)
  PROVE  Staged(c)'
<1>1. PICK v \in Value \union {Nil} : v = call[c].asked
  BY CallFields DEF OwnInv
<1>2. call[c].at = "extended" /\ call'[c].at = "built" /\ call'[c].asked = call[c].asked
  BY AtStage DEF BuildOptions, OwnInv
<1>3. /\ UNCHANGED <<language, features, keywords, kinds>>
      /\ value' = [value EXCEPT ![c] = EngineOptions(Source(c), c)]
      /\ locations' = [locations EXCEPT ![c] = EngineLocation(c)]
      /\ tables' = [tables EXCEPT ![c] = IF v = Nil THEN NoTable ELSE TableOf(v)]
  BY <1>1 DEF BuildOptions, Source, EngineOptions, EngineLocation
<1>4. AskedBy(c)' = AskedBy(c) /\ AskedBy(c) = Asked(v)
  BY <1>1, <1>2, BuildOptionsInv, AskedByKept DEF AskedBy
<1>5. Extended(c)'
  BY <1>2, <1>3, <1>4 DEF Staged, Extended, Holds, LanguageProto, Contents
<1>6. /\ c \in Holder /\ c \in Struct /\ c # Nil
      /\ value'[c] = EngineOptions(Source(c), c) /\ locations'[c] = EngineLocation(c)
      /\ tables'[c] = IF v = Nil THEN NoTable ELSE TableOf(v)
  BY <1>3, NamesAssumption DEF OwnInv, HeldOK, Holder, Struct
<1>7. /\ value'[c].language = c /\ value'[c].table = Source(c).table /\ value'[c].mode = Source(c).mode
      /\ value'[c].location = IF Source(c).reject /\ Source(c).location = Nil THEN c ELSE Source(c).location
  BY <1>6, SourceFields, EngineFields
<1>8. /\ LocationOf(c)' = IF value'[c].location = Nil THEN Nil ELSE locations'[value'[c].location]
      /\ TableOf(c)' = IF value'[c].table = Nil THEN NoTable ELSE tables'[value'[c].table]
  BY DEF LocationOf, TableOf
<1>9. LocationOf(c)' = AskedLocation(v) /\ value'[c].mode = AskedBinding(v) /\ TableOf(c)' = AskedTable(v)
  <2>1. CASE v = Nil
    <3>1. Source(c).location = Nil /\ Source(c).reject = FALSE /\ Source(c).table = Nil /\ Source(c).mode = "named"
      BY <1>1, <2>1 DEF Source, NewAnalyzerOptions
    <3> QED
      BY <1>7, <1>8, <2>1, <3>1 DEF AskedLocation, AskedBinding, AskedTable
  <2>2. CASE v # Nil
    <3>1. v \in Value /\ Source(c) = OptionsCopy(v, c, c)
      BY <1>1, <2>2 DEF Source
    <3>2. /\ (Source(c).location = Nil <=> value[v].location = Nil) /\ Source(c).location \in {c, Nil}
          /\ Source(c).mode = value[v].mode /\ Source(c).reject = value[v].reject
          /\ (Source(c).table = Nil <=> value[v].table = Nil) /\ Source(c).table \in {c, Nil}
      BY <1>6, <3>1, OptionsCopyFields DEF OwnInv
    <3>3. value'[c].mode = AskedBinding(v) /\ TableOf(c)' = AskedTable(v)
      <4>1. CASE value[v].table = Nil
        BY <1>7, <1>8, <2>2, <3>2, <4>1 DEF AskedBinding, AskedTable, TableOf
      <4>2. CASE value[v].table # Nil
        BY <1>6, <1>7, <1>8, <2>2, <3>2, <4>2 DEF AskedBinding, AskedTable
      <4> QED
        BY <4>1, <4>2
    <3>4. LocationOf(c)' = AskedLocation(v)
      <4>1. CASE value[v].location # Nil
        <5>1. value'[c].location = c /\ EngineLocation(c) = LocationOf(v)
          BY <1>1, <1>6, <1>7, <3>2, <4>1 DEF EngineLocation, Promotes
        <5> QED
          BY <1>6, <1>8, <2>2, <4>1, <5>1 DEF AskedLocation
      <4>2. CASE value[v].location = Nil /\ value[v].reject
        <5>1. value'[c].location = c /\ EngineLocation(c) = "full"
          BY <1>6, <1>7, <3>2, <4>2 DEF EngineLocation, Promotes
        <5> QED
          BY <1>6, <1>8, <2>2, <4>2, <5>1 DEF AskedLocation
      <4>3. CASE value[v].location = Nil /\ ~value[v].reject
        BY <1>7, <1>8, <2>2, <3>2, <4>3 DEF AskedLocation, LocationOf
      <4> QED
        BY <4>1, <4>2, <4>3
    <3> QED
      BY <3>3, <3>4
  <2> QED
    BY <2>1, <2>2
<1>10. Built(c)'
  BY <1>4, <1>7, <1>9 DEF Built, Asked
<1> QED
  BY <1>2, <1>5, <1>10 DEF Staged, Taken, Sent

LEMMA SerialiseStaged ==
  ASSUME OwnInv, NEW c \in Call, Staged(c), Serialise(c)
  PROVE  Staged(c)'
<1>1. call[c].at = "built" /\ call'[c].at = "sent" /\ call'[c].asked = call[c].asked
  BY AtStage DEF Serialise, OwnInv
<1>2. wire'[c] = AnalyzerProto(c)
  BY DEF Serialise, OwnInv, CallOK
<1>3. AskedBy(c)' = AskedBy(c)
  BY <1>1, SerialiseInv, AskedByKept
<1>4. /\ Holds(c, AskedBy(c).features \union Contract, AskedBy(c).keywords \union {Qualify})
      /\ value[c].language = c /\ LocationOf(c) = AskedBy(c).location
      /\ value[c].mode = AskedBy(c).binding /\ TableOf(c) = AskedBy(c).table
  BY <1>1 DEF Staged, Extended, Built
<1>5. /\ wire'[c].language = LanguageProto(c)
      /\ wire'[c].location = AskedBy(c).location /\ wire'[c].mode = AskedBy(c).binding
      /\ wire'[c].named = NamedSent(AskedBy(c).table) /\ wire'[c].positional = PositionalSent(AskedBy(c).table)
  BY <1>2, <1>4 DEF AnalyzerProto
<1>6. /\ LanguageProto(c).features = AskedBy(c).features \union Contract
      /\ LanguageProto(c).keywords = AskedBy(c).keywords \union {Qualify}
      /\ LanguageProto(c).kinds = AskedBy(c).kinds /\ LanguageProto(c).mode = AskedBy(c).mode
  BY <1>4 DEF Holds, LanguageProto
<1>7. Sent(c)'
  BY <1>3, <1>5, <1>6 DEF Sent
<1> QED
  BY <1>1, <1>7 DEF Staged, Taken, Extended, Built

LEMMA ResolveStaged ==
  ASSUME OwnInv, NEW c \in Call, Staged(c), Resolve(c)
  PROVE  Staged(c)'
<1>1. PICK answer \in Answers, place \in Places :
        call' = [call EXCEPT ![c] = [@ EXCEPT !.at = "answered", !.answer = answer, !.place = place]]
  BY DEF Resolve, ReportedPlace, Located, Answers, Places
<1>2. call'[c].at = "answered" /\ call'[c].asked = call[c].asked
  BY <1>1 DEF OwnInv, CallOK, CallRecord
<1>3. call[c].at = "sent" /\ UNCHANGED wire
  BY DEF Resolve
<1>4. AskedBy(c)' = AskedBy(c)
  BY <1>2, ResolveInv, AskedByKept
<1>5. Sent(c)'
  BY <1>2, <1>3, <1>4 DEF Staged, Sent
<1> QED
  BY <1>2, <1>5 DEF Staged, Taken, Extended, Built

(* A call that begins or returns is at a stage that holds nothing yet. *)
LEMMA CallStepStaged ==
  ASSUME OwnInv, NEW c \in Call, Staged(c), CallStep(c)
  PROVE  Staged(c)'
<1>1. CASE \E v \in Value \union {Nil}, needs \in Syntax : Begin(c, v, needs)
  <2>1. call'[c].at = "begun"
    BY <1>1 DEF Begin, NoCall, OwnInv, CallOK
  <2> QED
    BY <2>1 DEF Staged, Taken, Extended, Built, Sent
<1>2. CASE Return(c)
  <2>1. call'[c].at = "idle"
    BY <1>2 DEF Return, NoCall, OwnInv, CallOK
  <2> QED
    BY <2>1 DEF Staged, Taken, Extended, Built, Sent
<1> QED
  BY <1>1, <1>2, TakeLanguageStaged, ExtendStaged, BuildOptionsStaged, SerialiseStaged, ResolveStaged DEF CallStep

StagedInv == OwnInv /\ \A c \in Call : Staged(c)

LEMMA NextStaged == StagedInv /\ [Next]_vars => StagedInv'
<1> SUFFICES ASSUME StagedInv, [Next]_vars, NEW c \in Call PROVE Staged(c)'
  BY NextInv DEF StagedInv
<1>1. CASE \E d \in Call : CallStep(d)
  <2>1. PICK d \in Call : CallStep(d)
    BY <1>1
  <2>2. CASE d = c
    BY <2>1, <2>2, CallStepStaged DEF StagedInv
  <2>3. CASE d # c
    BY <2>1, <2>3, CallStepInv, OthersStaged DEF StagedInv
  <2> QED
    BY <2>2, <2>3
<1>2. CASE UNCHANGED vars
  <2>1. Beside(c) /\ UNCHANGED <<language, features, keywords, kinds, value, locations, tables, call, wire>>
    BY <1>2 DEF vars, held, Beside
  <2>2. AskedBy(c)' = AskedBy(c)
    BY <2>1, AskedByKept DEF StagedInv
  <2>3. /\ LanguageProto(c)' = LanguageProto(c) /\ LocationOf(c)' = LocationOf(c) /\ TableOf(c)' = TableOf(c)
        /\ Contents(features, language[c].features)' = Contents(features, language[c].features)
        /\ Contents(keywords, language[c].keywords)' = Contents(keywords, language[c].keywords)
    BY <2>1 DEF LanguageProto, LocationOf, TableOf, Contents
  <2>4. Staged(c)
    BY DEF StagedInv
  <2>5. Taken(c)' /\ Extended(c)'
    BY <2>1, <2>2, <2>3, <2>4 DEF Staged, Taken, Extended, Holds
  <2>6. Built(c)' /\ Sent(c)'
    BY <2>1, <2>2, <2>3, <2>4 DEF Staged, Built, Sent
  <2> QED
    BY <2>5, <2>6 DEF Staged
<1>3. CASE Edit
  <2>1. call'[c].at = "idle"
    BY <1>3, EditFrame DEF StagedInv, OwnInv
  <2> QED
    BY <2>1 DEF Staged, Taken, Extended, Built, Sent
<1>4. Next => Edit \/ \E d \in Call : CallStep(d)
  BY DEF Next, LanguageStep, MakeLanguage, WriteLiteral, EnableLanguageFeature, EnableMaximumLanguageFeatures,
         EnableMaximumLanguageFeaturesForDevelopment, EnableFeatures, DisableAllLanguageFeatures,
         EnableReservableKeyword, SetSupportedStatementKinds, SetSupportsAllStatementKinds, SetLanguageMode,
         WriteSlice, SetOptions, Assign, Clone, EditLanguage
<1> QED
  BY <1>1, <1>2, <1>3, <1>4

(* A request carries what its caller asked for, whatever other calls do with the same options. *)
THEOREM Faithful == Spec => []WireIsAsked
<1>1. Init => StagedInv
  <2>1. Init => \A c \in Call : call[c].at = "idle"
    BY DEF Init, NoCall
  <2> QED
    BY <2>1, InitInv DEF StagedInv, Staged, Taken, Extended, Built, Sent
<1>2. StagedInv => WireIsAsked
  BY DEF StagedInv, Staged, Sent, AskedBy, Asked, WireIsAsked
<1> QED
  BY <1>1, <1>2, NextStaged, PTL DEF Spec

-----------------------------------------------------------------------------
(* What an answer says of the options it was computed with. *)
Judged(c) ==
  /\ call[c].answer # "none" => call[c].at = "answered"
  /\ call[c].at # "idle" => call[c].preparse \in Preparsed(call[c].needs)
  /\ call[c].answer = "zone" => call[c].preparse # "rewritten"
  /\ call[c].answer \in {"zone", "ok", "cast"} =>
       ParametersAdded(wire[c]) /\ call[c].needs \subseteq wire[c].language.features
  /\ call[c].answer = "cast" =>
       call[c].asked # Nil /\ (value[call[c].asked].location = Nil => call[c].place = "literal")

LEMMA ResolveJudged ==
  ASSUME OwnInv, NEW c \in Call, Staged(c), Judged(c), Resolve(c)
  PROVE  Judged(c)'
<1>1. /\ call[c].at = "sent" /\ UNCHANGED <<value, wire>>
      /\ call[c] \in CallRecord
  BY DEF Resolve, held, OwnInv, CallOK
<1>2. PICK v \in Value \union {Nil} : v = call[c].asked
  BY CallFields DEF OwnInv
<1> DEFINE strict == call[c].asked # Nil /\ value[call[c].asked].reject
           accepted == ParametersAdded(wire[c]) /\ call[c].needs \subseteq wire[c].language.features
<1>3. PICK answer \in Answers, place \in Places :
        /\ call' = [call EXCEPT ![c] = [@ EXCEPT !.at = "answered", !.answer = answer, !.place = place]]
        /\ answer \in {"zone", "ok", "cast"} => accepted
        /\ answer = "zone" => call[c].preparse # "rewritten"
        /\ answer = "cast" => strict /\ \E located \in Located(wire[c].location) : place = ReportedPlace(located)
  BY DEF Resolve, ReportedPlace, Located, Answers, Places
<1>4. /\ call'[c].at = "answered" /\ call'[c].answer = answer /\ call'[c].place = place
      /\ call'[c].asked = v /\ call'[c].needs = call[c].needs /\ call'[c].preparse = call[c].preparse
  BY <1>1, <1>2, <1>3 DEF OwnInv, CallOK, CallRecord
<1>5. ASSUME answer = "cast", value[v].location = Nil
      PROVE  place = "literal"
  <2>1. strict /\ v # Nil
    BY <1>2, <1>3, <1>5
  <2>2. wire[c].location = "full"
    BY <1>1, <1>2, <1>5, <2>1 DEF Staged, Sent, AskedBy, Asked, AskedLocation
  <2> QED
    BY <1>3, <1>5, <2>2 DEF Located, ReportedPlace
<1>6. call'[c].preparse \in Preparsed(call'[c].needs)
  BY <1>1, <1>4 DEF Judged
<1>7. /\ answer \in {"zone", "ok", "cast"} =>
            ParametersAdded(wire'[c]) /\ call'[c].needs \subseteq wire'[c].language.features
      /\ answer = "zone" => call'[c].preparse # "rewritten"
  BY <1>1, <1>3, <1>4
<1>8. answer = "cast" => v # Nil /\ (value'[v].location = Nil => place = "literal")
  BY <1>1, <1>2, <1>3, <1>5
<1>9. ParametersAdded(wire[c])' = ParametersAdded(wire'[c])
  BY DEF ParametersAdded
<1> QED
  BY <1>4, <1>6, <1>7, <1>8, <1>9 DEF Judged

LEMMA CallStepJudged ==
  ASSUME OwnInv, NEW c \in Call, Staged(c), Judged(c), CallStep(c)
  PROVE  Judged(c)'
<1>1. call[c] \in CallRecord
  BY DEF OwnInv, CallOK
<1>2. ASSUME NEW v \in Value \union {Nil}, NEW needs \in Syntax, Begin(c, v, needs)
      PROVE  Judged(c)'
  <2>1. call'[c].answer = "none" /\ call'[c].needs = needs /\ call'[c].preparse \in Preparsed(needs)
    BY <1>2 DEF Begin, NoCall, OwnInv, CallOK
  <2> QED
    BY <2>1 DEF Judged
<1>3. ASSUME call[c].at \notin {"idle", "answered"}, NEW stage, call' = [call EXCEPT ![c].at = stage]
      PROVE  Judged(c)'
  <2>1. /\ call'[c].answer = "none" /\ call'[c].needs = call[c].needs
        /\ call'[c].preparse \in Preparsed(call'[c].needs)
    BY <1>1, <1>3 DEF OwnInv, CallOK, CallRecord, Judged
  <2> QED
    BY <2>1 DEF Judged
<1>4. CASE TakeLanguage(c) \/ Extend(c) \/ BuildOptions(c) \/ Serialise(c)
  <2>1. PICK stage : call[c].at \notin {"idle", "answered"} /\ call' = [call EXCEPT ![c].at = stage]
    BY <1>4 DEF TakeLanguage, Extend, BuildOptions, Serialise, At
  <2> QED
    BY <2>1, <1>3
<1>5. CASE Return(c)
  <2>1. call'[c].answer = "none" /\ call'[c].at = "idle"
    BY <1>5 DEF Return, NoCall, OwnInv, CallOK
  <2> QED
    BY <2>1 DEF Judged
<1> QED
  BY <1>2, <1>4, <1>5, ResolveJudged DEF CallStep

JudgedInv == StagedInv /\ \A c \in Call : Judged(c)

LEMMA NextJudged == JudgedInv /\ [Next]_vars => JudgedInv'
<1> SUFFICES ASSUME JudgedInv, [Next]_vars, NEW c \in Call PROVE Judged(c)'
  BY NextStaged DEF JudgedInv
<1>1. ASSUME NEW d \in Call, CallStep(d) PROVE Judged(c)'
  <2>1. CASE d = c
    BY <1>1, <2>1, CallStepJudged DEF JudgedInv, StagedInv
  <2>2. CASE d # c
    <3>1. PICK v \in Value \union {Nil} : v = call[c].asked
      BY CallFields DEF JudgedInv, StagedInv, OwnInv
    <3>2. /\ call'[c] = call[c] /\ wire'[c] = wire[c] /\ OwnInv /\ Beside(d)
          /\ v # Nil => value'[v] = value[v]
      BY <1>1, <2>2, CallStepInv, AskedKept DEF JudgedInv, StagedInv, Beside
    <3>3. ParametersAdded(wire[c])' = ParametersAdded(wire[c])
      BY <3>2 DEF ParametersAdded
    <3> QED
      BY <3>1, <3>2, <3>3 DEF JudgedInv, Judged
  <2> QED
    BY <2>1, <2>2
<1>2. CASE UNCHANGED vars
  BY <1>2 DEF vars, held, JudgedInv, Judged, ParametersAdded
<1>3. CASE Edit
  <2>1. call'[c] = call[c] /\ call[c].at = "idle"
    BY <1>3 DEF Edit
  <2> QED
    BY <2>1 DEF JudgedInv, Judged
<1>4. Next => Edit \/ \E d \in Call : CallStep(d)
  BY DEF Next, LanguageStep, MakeLanguage, WriteLiteral, EnableLanguageFeature, EnableMaximumLanguageFeatures,
         EnableMaximumLanguageFeaturesForDevelopment, EnableFeatures, DisableAllLanguageFeatures,
         EnableReservableKeyword, SetSupportedStatementKinds, SetSupportsAllStatementKinds, SetLanguageMode,
         WriteSlice, SetOptions, Assign, Clone, EditLanguage
<1> QED
  BY <1>1, <1>2, <1>3, <1>4

THEOREM JudgedAlways == Spec => []JudgedInv
<1>1. Init => JudgedInv
  <2>1. Init => \A c \in Call : call[c].at = "idle" /\ call[c].answer = "none"
    BY DEF Init, NoCall
  <2> QED
    BY <2>1, InitInv DEF JudgedInv, StagedInv, Staged, Taken, Extended, Built, Sent, Judged
<1> QED
  BY <1>1, NextJudged, PTL DEF Spec

(* With the strict cast gate on and no choice of locations, the gate has the place it names. *)
THEOREM PlacesAreThere == Spec => []PromotionLocates
<1>1. JudgedInv => PromotionLocates
  BY DEF JudgedInv, Judged, PromotionLocates
<1> QED
  BY <1>1, JudgedAlways, PTL

(* Where the pre-parse did not fail, a named zone gets past it only in syntax that the caller opted into. *)
THEOREM ZonesAreRewritten == Spec => []ZonesRewritten
<1>1. ASSUME JudgedInv, NEW c \in Call, call[c].answer = "zone", call[c].preparse # "failed"
      PROVE  /\ ~(call[c].needs \subseteq Contract)
             /\ call[c].needs \ Contract \subseteq AskedFeatures(call[c].asked)
  <2>1. /\ call[c].at = "answered" /\ call[c].preparse # "rewritten"
        /\ call[c].preparse \in Preparsed(call[c].needs)
        /\ call[c].needs \subseteq wire[c].language.features
    BY <1>1 DEF JudgedInv, Judged
  <2>2. ~(call[c].needs \subseteq Contract)
    BY <1>1, <2>1 DEF Preparsed, ParserFeatures
  <2>3. wire[c].language.features = AskedFeatures(call[c].asked) \union Contract
    BY <1>1, <2>1 DEF JudgedInv, StagedInv, Staged, Sent, AskedBy, Asked
  <2> QED
    BY <2>1, <2>2, <2>3
<1>2. JudgedInv => ZonesRewritten
  BY <1>1 DEF ZonesRewritten
<1> QED
  BY <1>2, JudgedAlways, PTL

(* A statement is resolved against the parameters its caller declared, and no other. *)
THEOREM ParametersArrive == Spec => []ParametersKnown
<1>1. ASSUME JudgedInv, NEW c \in Call, call[c].answer \in {"zone", "ok", "cast"}, NEW v \in Value, v = call[c].asked,
             NEW t, t = TableOf(v)
      PROVE  LET typed == {n \in DOMAIN t.named : t.named[n] # Nil}
             IN /\ DOMAIN KnownNamed(wire[c]) = {Fold[n] : n \in typed}
                /\ \A n \in typed : KnownNamed(wire[c])[Fold[n]] = {t.named[n]} /\ t.named[n] \notin Foreign
                /\ Foreign \intersect Range(PositionalSent(t)) = {}
  <2>1. v # Nil /\ call[c].at = "answered" /\ ParametersAdded(wire[c])
    BY <1>1, NamesAssumption DEF JudgedInv, Judged, Holder
  <2>2. wire[c].named = NamedSent(t) /\ wire[c].positional = PositionalSent(t)
    BY <1>1, <2>1 DEF JudgedInv, StagedInv, Staged, Sent, AskedBy, Asked, AskedTable
  <2> DEFINE typed == {n \in DOMAIN t.named : t.named[n] # Nil}
  <2>3. DOMAIN wire[c].named = typed /\ \A n \in typed : wire[c].named[n] = t.named[n]
    BY <2>2 DEF NamedSent, Restrict
  <2>4. \A n \in typed : t.named[n] \in Range(wire[c].named)
    BY <2>3 DEF Range
  <2>5. \A n \in typed : {wire[c].named[m] : m \in {l \in typed : Fold[l] = Fold[n]}} = {t.named[n]}
    BY <2>1, <2>3 DEF ParametersAdded
  <2> HIDE DEF typed
  <2>6. \A n \in typed : KnownNamed(wire[c])[Fold[n]] = {t.named[n]}
    BY <2>3, <2>5 DEF KnownNamed
  <2>7. DOMAIN KnownNamed(wire[c]) = {Fold[n] : n \in typed}
    BY <2>3 DEF KnownNamed
  <2>8. Foreign \intersect Range(PositionalSent(t)) = {} /\ \A n \in typed : t.named[n] \notin Foreign
    BY <2>1, <2>2, <2>4 DEF ParametersAdded
  <2> QED
    BY <2>6, <2>7, <2>8 DEF typed
<1>2. JudgedInv => ParametersKnown
  BY <1>1, CallFields DEF ParametersKnown, JudgedInv, StagedInv, OwnInv
<1> QED
  BY <1>2, JudgedAlways, PTL

-----------------------------------------------------------------------------
(* Induction up to n, for a set of numbers. *)
LEMMA Induction ==
  ASSUME NEW n \in Nat, NEW S, 0 \in S, \A m \in 1 .. n : m - 1 \in S => m \in S
  PROVE  0 .. n \subseteq S
<1> DEFINE T == (0 .. n) \ S
<1>1. SUFFICES ASSUME T # {} PROVE FALSE
  OBVIOUS
<1>2. PICK x \in T : \A y \in T : <<y, x>> \notin OpToRel(<, Nat)
  <2>1. T \subseteq Nat
    OBVIOUS
  <2> QED
    BY <1>1, <2>1, NatLessThanWellFounded, WFMin
<1>3. x \in 1 .. n /\ x - 1 \in Nat /\ x - 1 \in T
  OBVIOUS
<1>4. <<x - 1, x>> \in OpToRel(<, Nat)
  BY <1>3 DEF OpToRel
<1> QED
  BY <1>2, <1>3, <1>4

(* What has been sent of the first m of the parameters s, for each m. *)
SentStep(f, s, n) == IF n = 0 THEN <<>> ELSE IF s[n] = Nil THEN f[n - 1] ELSE Append(f[n - 1], s[n])
Sends(f, s, m)    == f = [n \in 0 .. m |-> SentStep(f, s, n)]

LEMMA SendsAt ==
  ASSUME NEW f, NEW s, NEW m, Sends(f, s, m), NEW n \in 0 .. m
  PROVE  f[n] = SentStep(f, s, n)
<1> DEFINE h == [k \in 0 .. m |-> SentStep(f, s, k)]
<1>1. f = h
  BY DEF Sends
<1>2. h[n] = SentStep(f, s, n)
  OBVIOUS
<1> HIDE DEF h
<1> QED
  BY <1>1, <1>2

LEMMA SendsExists ==
  ASSUME NEW m \in Nat, NEW s
  PROVE  \E f : Sends(f, s, m)
<1> DEFINE S == {k \in 0 .. m : \E f : Sends(f, s, k)}
<1>1. 0 \in S
  <2> DEFINE f == [n \in 0 .. 0 |-> <<>>]
  <2>1. f = [n \in 0 .. 0 |-> SentStep(f, s, n)]
    BY DEF SentStep
  <2> HIDE DEF f
  <2>2. Sends(f, s, 0)
    BY <2>1 DEF Sends
  <2> QED
    BY <2>2
<1>2. ASSUME NEW k \in 1 .. m, k - 1 \in S PROVE k \in S
  <2>1. PICK f : Sends(f, s, k - 1)
    BY <1>2
  <2> DEFINE h == [n \in 0 .. k |-> SentStep(f, s, n)]
  <2>2. ASSUME NEW n \in 0 .. k - 1 PROVE f[n] = h[n]
    <3>1. n \in 0 .. k
      OBVIOUS
    <3>2. f[n] = SentStep(f, s, n)
      BY <2>1, SendsAt
    <3> QED
      BY <3>1, <3>2
  <2>3. ASSUME NEW n \in 0 .. k PROVE h[n] = SentStep(h, s, n)
    <3>1. h[n] = SentStep(f, s, n)
      OBVIOUS
    <3> HIDE DEF h
    <3>2. n # 0 => f[n - 1] = h[n - 1]
      <4>1. n # 0 => n - 1 \in 0 .. k - 1
        OBVIOUS
      <4> QED
        BY <2>2, <4>1
    <3> QED
      BY <3>1, <3>2 DEF SentStep
  <2>4. h = [n \in 0 .. k |-> h[n]]
    OBVIOUS
  <2> HIDE DEF h
  <2>5. h = [n \in 0 .. k |-> SentStep(h, s, n)]
    BY <2>3, <2>4
  <2>6. Sends(h, s, k)
    BY <2>5 DEF Sends
  <2> QED
    BY <2>6
<1>3. 0 .. m \subseteq S
  <2> HIDE DEF S
  <2> QED
    BY <1>1, <1>2, Induction
<1> QED
  BY <1>3

(* Of the positional parameters those with a type are sent. *)
LEMMA TypedAreSent ==
  ASSUME NEW t, NEW C, t.positional \in Seq(C)
  PROVE  PositionalSent(t) \in Seq(C \ {Nil})
<1> DEFINE s == t.positional
           m == Len(s)
           P(f) == f = [n \in 0 .. m |-> IF n = 0 THEN <<>>
                                       ELSE IF s[n] = Nil THEN f[n - 1] ELSE Append(f[n - 1], s[n])]
           D == C \ {Nil}
<1>1. m \in Nat /\ \A n \in 1 .. m : s[n] \in C
  OBVIOUS
<1>2. PositionalSent(t) = (CHOOSE f : P(f))[m]
  BY DEF PositionalSent
<1> HIDE DEF s, m, D
<1>3. \A f : P(f) <=> Sends(f, s, m)
  BY DEF Sends, SentStep
<1>4. \E f : P(f)
  BY <1>1, <1>3, SendsExists
<1> HIDE DEF P
<1>5. PICK f : Sends(f, s, m) /\ PositionalSent(t) = f[m]
  BY <1>2, <1>3, <1>4
<1> DEFINE S == {n \in 0 .. m : f[n] \in Seq(D)}
<1>6. 0 \in S
  <2>1. f[0] = <<>> /\ 0 \in 0 .. m
    BY <1>1, <1>5, SendsAt DEF SentStep
  <2>2. <<>> \in Seq(D)
    OBVIOUS
  <2> QED
    BY <2>1, <2>2
<1>7. ASSUME NEW n \in 1 .. m, n - 1 \in S PROVE n \in S
  <2>1. n \in 0 .. m /\ n # 0 /\ f[n - 1] \in Seq(D) /\ s[n] \in C
    BY <1>1, <1>7
  <2>2. f[n] = IF s[n] = Nil THEN f[n - 1] ELSE Append(f[n - 1], s[n])
    BY <1>5, <2>1, SendsAt DEF SentStep
  <2>3. s[n] # Nil => Append(f[n - 1], s[n]) \in Seq(D)
    BY <2>1, AppendProperties DEF D
  <2> QED
    BY <2>1, <2>2, <2>3
<1>8. 0 .. m \subseteq S
  <2> HIDE DEF S
  <2> QED
    BY <1>1, <1>6, <1>7, Induction
<1>9. f[m] \in Seq(D)
  BY <1>1, <1>8
<1> QED
  BY <1>5, <1>9 DEF D

(* A table of the program, or none, has parameters of known types and of no other. *)
LEMMA TypesOfTables ==
  ASSUME NEW t \in Tables \union {NoTable}
  PROVE  /\ t.positional \in Seq(ParameterTypes \union {Nil})
         /\ Range(t.named) \subseteq ParameterTypes \union {Nil}
<1>1. CASE t \in Tables
  <2>1. t.positional \in Seq(Range(t.positional))
    BY <1>1, TablesAssumption
  <2>2. Range(t.named) \union Range(t.positional) \subseteq ParameterTypes \union {Nil}
    BY <1>1 DEF ParameterTypes
  <2>3. \A i \in 1 .. Len(t.positional) : t.positional[i] \in Range(t.positional)
    BY <2>1
  <2> QED
    BY <2>1, <2>2, <2>3
<1>2. CASE t = NoTable
  <2>1. t.positional = <<>> /\ t.named = <<>>
    BY <1>2 DEF NoTable
  <2>2. <<>> \in Seq(ParameterTypes \union {Nil}) /\ DOMAIN <<>> = {}
    OBVIOUS
  <2> QED
    BY <2>1, <2>2 DEF Range
<1> QED
  BY <1>1, <1>2

(* Of the parameters, what is sent has a type. *)
LEMMA SentIsTyped ==
  ASSUME NEW t \in Tables \union {NoTable}
  PROVE  Range(NamedSent(t)) \union Range(PositionalSent(t)) \subseteq ParameterTypes
<1>1. /\ t.positional \in Seq(ParameterTypes \union {Nil})
      /\ Range(t.named) \subseteq ParameterTypes \union {Nil}
  BY TypesOfTables
<1>2. PositionalSent(t) \in Seq((ParameterTypes \union {Nil}) \ {Nil})
  BY <1>1, TypedAreSent
<1>3. Range(PositionalSent(t)) \subseteq ParameterTypes
  BY <1>2 DEF Range
<1>4. Range(NamedSent(t)) \subseteq ParameterTypes
  BY <1>1 DEF NamedSent, Restrict, Range
<1> QED
  BY <1>3, <1>4

(* What a call that has built its options sends is a message. *)
LEMMA MessageSent ==
  ASSUME StagedInv, NEW c \in Call, call[c].at = "built"
  PROVE  Message(AnalyzerProto(c))
<1>1. /\ c \in Holder /\ c \in Struct /\ value[c].language = c
      /\ value[c] \in AnalyzerOptions /\ language[c] \in LanguageOptions
  BY DEF Holder, Struct, StagedInv, Staged, Built, OwnInv, HeldOK
<1>2. LanguageProto(c) \in LanguageMessage
  <2>1. /\ Contents(features, language[c].features) \in SUBSET Features
        /\ Contents(keywords, language[c].keywords) \in SUBSET Keywords
        /\ Contents(kinds, language[c].kinds) \in SUBSET Kinds
    BY <1>1 DEF StagedInv, OwnInv, HeldOK, Own, OwnLanguages, Contents
  <2> QED
    BY <1>1, <2>1 DEF LanguageProto, LanguageMessage, LanguageOptions
<1>3. TableOf(c) \in Tables \union {NoTable} /\ LocationOf(c) \in Locations \union {Nil}
  BY <1>1, TableIsTyped DEF StagedInv
<1>4. Range(NamedSent(TableOf(c))) \union Range(PositionalSent(TableOf(c))) \subseteq ParameterTypes
  BY <1>3, SentIsTyped
<1>5. value[c].mode \in Binding
  BY <1>1 DEF AnalyzerOptions
<1> QED
  BY <1>1, <1>2, <1>3, <1>4, <1>5 DEF AnalyzerProto, Message

(* The wire of a call changes when its request is sent, and when it returns. *)
LEMMA WireWritten ==
  ASSUME [Next]_vars
  PROVE  \/ wire' = wire
         \/ \E d \in Call : \/ call[d].at = "built" /\ wire' = [wire EXCEPT ![d] = AnalyzerProto(d)]
                          \/ wire' = [wire EXCEPT ![d] = NoWire]
<1>1. ASSUME NEW d \in Call, CallStep(d)
      PROVE  \/ wire' = wire
             \/ call[d].at = "built" /\ wire' = [wire EXCEPT ![d] = AnalyzerProto(d)]
             \/ wire' = [wire EXCEPT ![d] = NoWire]
  BY <1>1 DEF CallStep, Begin, TakeLanguage, Extend, BuildOptions, Serialise, At, Resolve, Return
<1>2. CASE UNCHANGED vars
  BY <1>2 DEF vars
<1>3. ASSUME NEW l \in Language, LanguageStep(l) PROVE wire' = wire
  BY <1>3 DEF LanguageStep, MakeLanguage, WriteLiteral, EnableLanguageFeature, EnableMaximumLanguageFeatures,
       EnableMaximumLanguageFeaturesForDevelopment, EnableFeatures, DisableAllLanguageFeatures,
       EnableReservableKeyword, SetSupportedStatementKinds, SetSupportsAllStatementKinds, SetLanguageMode,
       EditLanguage, Edit
<1>4. ASSUME NEW s \in Slice, NEW ks \in SUBSET Kinds, WriteSlice(s, ks) PROVE wire' = wire
  BY <1>4 DEF WriteSlice, Edit
<1>5. ASSUME NEW v \in Value, SetOptions(v) PROVE wire' = wire
  BY <1>5 DEF SetOptions, Assign, Edit
<1>6. ASSUME NEW v \in Value, NEW w \in Value, NEW l \in Language, Clone(v, w, l) PROVE wire' = wire
  BY <1>6 DEF Clone, Edit
<1> QED
  BY <1>1, <1>2, <1>3, <1>4, <1>5, <1>6 DEF Next

(***************************************************************************)
(* Type correctness of the options, the calls and their requests: whatever *)
(* the caller's tables hold, each parameter that is sent has a type        *)
(* (AnalyzerOptions.toProto, analyzer_options.go:143-158).                 *)
(***************************************************************************)
THEOREM OptionsTypeCorrect == Spec => []TypeOK
<1> DEFINE Messages == \A c \in Call : Message(wire[c])
<1>1. Message(NoWire)
  BY DEF Message, NoWire, Binding, Range
<1>2. Init => Messages
  BY <1>1 DEF Init
<1>3. StagedInv /\ Messages /\ [Next]_vars => Messages'
  <2> SUFFICES ASSUME StagedInv, Messages, [Next]_vars PROVE Messages'
    OBVIOUS
  <2>1. wire = [c \in Call |-> wire[c]]
    BY DEF StagedInv, OwnInv, CallOK
  <2>2. \A d \in Call : call[d].at = "built" => Message(AnalyzerProto(d))
    BY MessageSent
  <2>3. \A c \in Call : Message(wire'[c])
    BY <1>1, <2>1, <2>2, WireWritten
  <2> QED
    BY <2>3 DEF Message
<1>4. StagedInv /\ Messages => TypeOK
  BY DEF StagedInv, OwnInv, TypeOK
<1>5. Spec => []StagedInv
  BY JudgedAlways, PTL DEF JudgedInv
<1> QED
  BY <1>2, <1>3, <1>4, <1>5, PTL DEF Spec
=============================================================================
