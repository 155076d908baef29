------------------------------- MODULE Catalog -------------------------------
(***************************************************************************)
(* types.SimpleCatalog: the lookups FindTable and FindFunction, and the    *)
(* way of a catalog from the Go values through ToProto into the catalog    *)
(* that build_catalog_from_proto makes for the analyzer.                   *)
(*                                                                         *)
(* A catalog holds pointers to its sub-catalogs, so one may hang in two    *)
(* places; a cycle would be the program's own endless recursion.  The      *)
(* place of a catalog below another is the trail of catalogs that leads    *)
(* there.  Lookups and calls write to no catalog, so they are taken one at *)
(* a time, and the program may hold any of the catalogs in Shapes.         *)
(*                                                                         *)
(* A type is a value that ToProto either sends or panics on (Holed: a      *)
(* STRUCT with a field of a nil type), and that the C++ side can make or   *)
(* not (Foreign).  Group, Mode and a column's TableName are left out.      *)
(***************************************************************************)
EXTENDS Naturals, Integers, Sequences, FiniteSets

CONSTANTS
  Catalogs,   \* the SimpleCatalog objects of the program
  Shapes,     \* what they may hold
  Names,      \* the names of catalogs, tables and segments of paths
  Fold,       \* strings.EqualFold: what is left of a name without its case
  Default,    \* the name of the catalog that stands for a nil one
  Paths,      \* the name paths that are looked up
  Tables, Functions,
  Types, Holed, Foreign,
  Nil

ASSUME NamesAssumption == Fold \in [Names -> Names] /\ Default \in Names /\ Paths \subseteq Seq(Names)
ASSUME CatalogsAssumption ==
  /\ IsFiniteSet(Catalogs) /\ Nil \notin Catalogs
  /\ Shapes \subseteq [Catalogs -> [name : Names, tables : Seq(Tables), functions : Seq(Functions),
                                    subs : Seq(Catalogs)]]
ASSUME TablesAssumption ==
  /\ Nil \notin Tables
  /\ \A t \in Tables : t.name \in Names /\ \A i \in DOMAIN t.columns : t.columns[i].name \in Names
ASSUME FunctionsAssumption == Nil \notin Functions /\ \A f \in Functions : f.path \in Seq(Names)

VARIABLES
  cat,   \* cat[c]: the fields of the catalog c
  look,  \* the lookup that runs
  call   \* the catalog of the call that runs: on the wire, and built

vars == <<cat, look, call>>

NoLookup == [at |-> "idle", start |-> Nil, path |-> <<>>, trail |-> <<>>, todo |-> <<>>, done |-> {}, found |-> Nil]
NoCall   == [at |-> "idle", root |-> Nil, wire |-> <<>>, built |-> <<>>]

Init == cat \in Shapes /\ look = NoLookup /\ call = NoCall

Elements(s) == {s[i] : i \in DOMAIN s}
First(S)    == CHOOSE i \in S : \A j \in S : i <= j
SameName(a, b) == Fold[a] = Fold[b]
SamePath(p, q) == Len(p) = Len(q) /\ \A i \in DOMAIN p : SameName(p[i], q[i])

(* In any set of catalogs there is one that holds none of them: no catalog is below itself. *)
ASSUME ShapesAssumption ==
  \A shape \in Shapes : \A S \in (SUBSET Catalogs) \ {{}} :
    \E c \in S : Elements(shape[c].subs) \intersect S = {}

-----------------------------------------------------------------------------
(* FindTable: descend takes the first sub-catalog of each name, then the   *)
(* first table of the last name is taken.                                  *)

(* Fault to check the properties against: the case of a sub-catalog counts. *)
SubHitsExactly(c, n) == {i \in DOMAIN cat[c].subs : cat[cat[c].subs[i]].name = n}

SubHits(c, n)       == {i \in DOMAIN cat[c].subs : SameName(cat[cat[c].subs[i]].name, n)}
TableHits(c, n)     == {i \in DOMAIN cat[c].tables : SameName(cat[c].tables[i].name, n)}
FunctionHits(c, p)  == {i \in DOMAIN cat[c].functions : SamePath(cat[c].functions[i].path, p)}

Answer(found) == look' = [look EXCEPT !.at = "answered", !.found = found]

FindTable(c, path) ==
  /\ look.at = "idle" /\ call.at = "idle"
  /\ look' = [NoLookup EXCEPT !.at = IF path = <<>> THEN "answered" ELSE "table",
                              !.start = c, !.path = path, !.trail = <<c>>]
  /\ UNCHANGED <<cat, call>>

Current == look.trail[Len(look.trail)]
Segment == look.path[Len(look.trail)]

Descend ==
  /\ look.at = "table" /\ Len(look.trail) < Len(look.path)
  /\ LET hits == SubHits(Current, Segment)
     IN IF hits = {} THEN Answer(Nil)
        ELSE look' = [look EXCEPT !.trail = Append(@, cat[Current].subs[First(hits)])]
  /\ UNCHANGED <<cat, call>>

MatchTable ==
  /\ look.at = "table" /\ Len(look.trail) = Len(look.path)
  /\ LET hits == TableHits(Current, Segment)
     IN Answer(IF hits = {} THEN Nil ELSE cat[Current].tables[First(hits)])
  /\ UNCHANGED <<cat, call>>

(* FindFunction: the recursion as the catalogs still to visit, in order;   *)
(* done is kept for the properties.                                        *)
FindFunction(c, path) ==
  /\ look.at = "idle" /\ call.at = "idle"
  /\ look' = [NoLookup EXCEPT !.at = "function", !.start = c, !.path = path, !.todo = <<c>>]
  /\ UNCHANGED <<cat, call>>

(* Fault to check the properties against: what is behind the catalog is forgotten. *)
BehindForgotten(c) == cat[c].subs

Behind(c) == cat[c].subs \o Tail(look.todo)

Visit ==
  /\ look.at = "function" /\ look.todo # <<>>
  /\ LET c    == Head(look.todo)
         hits == FunctionHits(c, look.path)
     IN IF hits # {} THEN Answer(cat[c].functions[First(hits)])
        ELSE look' = [look EXCEPT !.todo = Behind(c), !.done = @ \union {c}]
  /\ UNCHANGED <<cat, call>>

Exhausted == look.at = "function" /\ look.todo = <<>> /\ Answer(Nil) /\ UNCHANGED <<cat, call>>

LookupReturns == look.at = "answered" /\ look' = NoLookup /\ UNCHANGED <<cat, call>>

-----------------------------------------------------------------------------
(* ToProto. *)

(* The trails of n catalogs that start at c. *)
TrailsOf(c, n) ==
  {s \in [1 .. n -> Catalogs] :
     s[1] = c /\ \A i \in 1 .. n - 1 : s[i + 1] \in Elements(cat[s[i]].subs)}

(* Fault to check the properties against: sub-catalogs are sent without theirs. *)
OneLevelDown(c) == UNION {TrailsOf(c, n) : n \in 1 .. 2}

Trails(c) == UNION {TrailsOf(c, n) : n \in 1 .. Cardinality(Catalogs)}

(* Zero values are left out, as are the options of an argument without any. *)
OptionsProto(o) ==
  [cardinality |-> IF o.cardinality = "required" THEN Nil ELSE o.cardinality,
   name |-> IF o.name = "" THEN Nil ELSE o.name]
ArgumentProto(a) ==
  [kind |-> a.kind, type |-> a.type, options |-> IF a.options = Nil THEN Nil ELSE OptionsProto(a.options)]
SignatureProto(s) ==
  [result |-> IF s.result = Nil THEN Nil ELSE ArgumentProto(s.result),
   arguments |-> [i \in DOMAIN s.arguments |-> ArgumentProto(s.arguments[i])],
   context |-> IF s.context = 0 THEN Nil ELSE s.context]
FunctionProto(f) ==
  [path |-> f.path, signatures |-> [i \in DOMAIN f.signatures |-> SignatureProto(f.signatures[i])]]

(* A table is sent with every field that is kept here. *)
CatalogProto(c) ==
  [name |-> cat[c].name, tables |-> cat[c].tables, subs |-> [i \in DOMAIN cat[c].subs |-> cat[cat[c].subs[i]].name],
   functions |-> [i \in DOMAIN cat[c].functions |-> FunctionProto(cat[c].functions[i])]]
DefaultProto == [name |-> Default, tables |-> <<>>, subs |-> <<>>, functions |-> <<>>]

ArgumentsOf(f) ==
  UNION {Elements(s.arguments) \union ({s.result} \ {Nil}) : s \in Elements(f.signatures)}

(* A type is one of Types, or nil. *)
ASSUME TypesAssumption ==
  /\ Nil \notin Types
  /\ \A t \in Tables : \A i \in DOMAIN t.columns : t.columns[i].type \in Types \union {Nil}
  /\ \A f \in Functions : \A a \in ArgumentsOf(f) : a.type \in Types \union {Nil}

(* A column needs a type, an argument may go without. *)
Panics(c) ==
  \/ \E t \in Elements(cat[c].tables) : \E col \in Elements(t.columns) : col.type \in Holed \union {Nil}
  \/ \E f \in Elements(cat[c].functions) : \E a \in ArgumentsOf(f) : a.type \in Holed

Serialise(c) ==
  /\ call.at = "idle" /\ look.at = "idle"
  /\ call' = IF c = Nil THEN [NoCall EXCEPT !.at = "sent", !.wire = [s \in {<<Nil>>} |-> DefaultProto]]
             ELSE IF \E s \in Trails(c) : Panics(s[Len(s)]) THEN [NoCall EXCEPT !.at = "panicked", !.root = c]
             ELSE [NoCall EXCEPT !.at = "sent", !.root = c, !.wire = [s \in Trails(c) |-> CatalogProto(s[Len(s)])]]
  /\ UNCHANGED <<cat, look>>

-----------------------------------------------------------------------------
(* build_catalog_from_proto. *)

(* Fault to check the properties against: the type is taken as it comes. *)
BuildAnyArgument(p) == [kind |-> p.kind, type |-> p.type, cardinality |-> "required"]

(* Kind and type are read, nothing else; a type that cannot be made is dropped. *)
BuildArgument(p) ==
  [kind |-> p.kind, cardinality |-> "required",
   type |-> IF p.kind = "fixed" /\ p.type \notin Foreign THEN p.type ELSE Nil]

(* An unset return type reads as the default message, a fixed kind without a type. *)
BuildSignature(p) ==
  [result |-> BuildArgument(IF p.result = Nil THEN [kind |-> "fixed", type |-> Nil, options |-> Nil] ELSE p.result),
   arguments |-> [i \in DOMAIN p.arguments |-> BuildArgument(p.arguments[i])],
   context |-> IF p.context = Nil THEN -1 ELSE p.context]
BuildFunction(p) ==
  [path |-> p.path, signatures |-> [i \in DOMAIN p.signatures |-> BuildSignature(p.signatures[i])]]

(* Of a column the name and the type are read. *)
BuildTable(t) ==
  [name |-> t.name, value |-> t.value,
   columns |-> [i \in DOMAIN t.columns |-> [name |-> t.columns[i].name, type |-> t.columns[i].type]]]

BuildNode(p) ==
  [name |-> p.name, tables |-> [i \in DOMAIN p.tables |-> BuildTable(p.tables[i])],
   functions |-> [i \in DOMAIN p.functions |-> BuildFunction(p.functions[i])]]

Refused(p) == \E t \in Elements(p.tables) : \E col \in Elements(t.columns) : col.type \in Foreign

(* Adding a second object of the same name is fatal in ZetaSQL, and the root has the builtin functions. *)
Repeated(names)  == \E i, j \in DOMAIN names : i # j /\ SameName(names[i], names[j])
TableNames(p)    == [i \in DOMAIN p.tables |-> p.tables[i].name]
ColumnNames(t)   == [i \in DOMAIN t.columns |-> t.columns[i].name]
MayBeFatal(s, p) ==
  \/ Repeated(p.subs) \/ Repeated(TableNames(p))
  \/ Len(p.functions) > 1 \/ (Len(s) = 1 /\ p.functions # <<>>)
  \/ \E t \in Elements(p.tables) : Repeated(ColumnNames(t))

Build ==
  /\ call.at = "sent"
  /\ \/ /\ \E s \in DOMAIN call.wire : MayBeFatal(s, call.wire[s])
        /\ call' = [call EXCEPT !.at = "trapped"]
     \/ /\ \E s \in DOMAIN call.wire : Refused(call.wire[s])
        /\ call' = [call EXCEPT !.at = "refused"]
     \/ /\ \A s \in DOMAIN call.wire : ~Refused(call.wire[s])
        /\ call' = [call EXCEPT !.at = "built", !.built = [s \in DOMAIN call.wire |-> BuildNode(call.wire[s])]]
  /\ UNCHANGED <<cat, look>>

CallReturns == call.at \notin {"idle", "sent"} /\ call' = NoCall /\ UNCHANGED <<cat, look>>

-----------------------------------------------------------------------------
Next ==
  \/ \E c \in Catalogs, path \in Paths : FindTable(c, path) \/ FindFunction(c, path)
  \/ Descend \/ MatchTable \/ Visit \/ Exhausted \/ LookupReturns
  \/ \E c \in Catalogs \union {Nil} : Serialise(c)
  \/ Build \/ CallReturns

Spec == Init /\ [][Next]_vars

-----------------------------------------------------------------------------
(* Properties. *)

LookOK ==
  /\ look.at \in {"idle", "table", "function", "answered"} /\ look.start \in Catalogs \union {Nil}
  /\ look.path \in Paths \union {<<>>} /\ look.trail \in Seq(Catalogs) /\ look.todo \in Seq(Catalogs)
  /\ look.done \subseteq Catalogs /\ look.found \in Tables \union Functions \union {Nil}

BuiltTypes == (Types \ (Foreign \union Holed)) \union {Nil}

BuiltOK(node) ==
  /\ \A t \in Elements(node.tables) : \A col \in Elements(t.columns) : col.type \in BuiltTypes \ {Nil}
  /\ \A f \in Elements(node.functions) : \A sig \in Elements(f.signatures) :
       \A a \in Elements(sig.arguments) \union {sig.result} : a.type \in BuiltTypes

(* The analyzer is only ever given types it can have, and tables whose columns all have one. *)
TypeOK ==
  /\ cat \in Shapes /\ LookOK
  /\ call.at \in {"idle", "sent", "panicked", "refused", "trapped", "built"}
  /\ call.root \in Catalogs \union {Nil}
  /\ \A s \in DOMAIN call.built : BuiltOK(call.built[s])

Alike(a, b)    == Fold[a] = Fold[b]
IsClosed(S)    == \A c \in S : Elements(cat[c].subs) \subseteq S
(* The catalogs under c, itself among them: those in every closed set that has c. *)
Under(c)       == {d \in Catalogs : \A S \in SUBSET Catalogs : c \in S /\ IsClosed(S) => d \in S}
IsAt(s, path)  == \A i \in 2 .. Len(s) : Alike(cat[s[i]].name, path[i - 1])
TablesAt(c, path) ==
  UNION {{t \in Elements(cat[s[Len(s)]].tables) : Alike(t.name, path[Len(path)])} :
           s \in {r \in TrailsOf(c, Len(path)) : IsAt(r, path)}}
FunctionsIn(c, path) ==
  {f \in Elements(cat[c].functions) : Len(f.path) = Len(path) /\ \A i \in DOMAIN path : Alike(f.path[i], path[i])}

Distinct(c) ==
  \A d \in Under(c) :
    /\ \A i, j \in DOMAIN cat[d].subs : i # j => ~Alike(cat[cat[d].subs[i]].name, cat[cat[d].subs[j]].name)
    /\ \A i, j \in DOMAIN cat[d].tables : i # j => ~Alike(cat[d].tables[i].name, cat[d].tables[j].name)

(***************************************************************************)
(* "FindTable looks up a table by name path": what it finds is there, and  *)
(* where names are distinct it finds whatever is (simple_catalog.go:31).   *)
(***************************************************************************)
TableFound ==
  look.at = "answered" /\ look.trail # <<>> =>
    IF look.path = <<>> THEN look.found = Nil
    ELSE /\ look.found # Nil => look.found \in TablesAt(look.start, look.path)
         /\ Distinct(look.start) => TablesAt(look.start, look.path) \subseteq {look.found}

(***************************************************************************)
(* "Functions registered at the root catalog are searched first, then each *)
(* sub-catalog recursively" (simple_catalog.go:52): the search finds a     *)
(* function if there is one in any catalog, however often catalogs share   *)
(* a sub-catalog.                                                          *)
(***************************************************************************)
FunctionFound ==
  look.at = "answered" /\ look.trail = <<>> =>
    LET here == FunctionsIn(look.start, look.path)
        all  == UNION {FunctionsIn(d, look.path) : d \in Under(look.start)}
    IN IF all = {} THEN look.found = Nil ELSE look.found \in IF here = {} THEN all ELSE here

(* How the analyzer resolves a table path in the catalog that was built. *)
Resolved(path) ==
  UNION {{t \in Elements(call.built[s].tables) : Alike(t.name, path[Len(path)])} :
           s \in {r \in DOMAIN call.built :
                     Len(r) = Len(path) /\ \A i \in 2 .. Len(r) :
                       Alike(call.built[SubSeq(r, 1, i)].name, path[i - 1])}}

(***************************************************************************)
(* A call is refused or has the whole catalog: the analyzer resolves every *)
(* path to the tables that are there for FindTable, column for column.     *)
(***************************************************************************)
AnalyzerSeesTables ==
  call.at = "built" /\ call.root # Nil =>
    \A path \in Paths \ {<<>>} :
      Resolved(path) = {[name |-> t.name, value |-> t.value,
                         columns |-> [i \in DOMAIN t.columns |-> [name |-> t.columns[i].name, type |-> t.columns[i].type]]] :
                          t \in TablesAt(call.root, path)}

(* "Cardinality describes whether a function argument is required, optional, or
   repeated" (types/function.go:50-51): in the analyzer's catalog as in the caller's. *)
Declared(a) == IF a.options = Nil THEN "required" ELSE a.options.cardinality
CardinalityArrives ==
  call.at = "built" =>
    \A s \in DOMAIN call.built \ {<<Nil>>} : \A i \in DOMAIN call.built[s].functions :
      LET declared == cat[s[Len(s)]].functions[i].signatures
      IN \A j \in DOMAIN declared : \A k \in DOMAIN declared[j].arguments :
           call.built[s].functions[i].signatures[j].arguments[k].cardinality = Declared(declared[j].arguments[k])
=============================================================================
