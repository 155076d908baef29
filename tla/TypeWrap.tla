------------------------------- MODULE TypeWrap -------------------------------
(***************************************************************************)
(* Types and literal values as callers read them from a resolved tree:     *)
(* WrapType and TypeFromProto, WrapLiteralValue and its accessors, and the *)
(* way back, a type that was read and is registered in a catalog.          *)
(*                                                                         *)
(* A type of the tree is [kind, has, name, file, parts]: has says whether  *)
(* the message of an ARRAY, STRUCT or ENUM is there, name is that of an    *)
(* ENUM and file where its descriptor is, "" if the message does not say:  *)
(* the name of the file, the index of the set and the sets of descriptors  *)
(* beside it.  parts are the element or the fields, [name, type].  A type  *)
(* in Go has the same shape, without a file.  What takes the place of a    *)
(* type that is missing, or that could not be made, has a kind of its own. *)
(* A value of the tree is [of, got, parts], of "NULL" when its oneof is    *)
(* empty; got are the numbers in it, for a DATETIME its bits and nanos.    *)
(* What Go holds for it has that shape too, a nil pointer no numbers.      *)
(***************************************************************************)
EXTENDS Integers, Sequences, FiniteSets

CONSTANTS
  Protos,     \* the types that may be in a tree, and their parts
  Depth,      \* Depth[p]: how deep the messages of p are nested
  Values,     \* the values, and their parts
  Scalars,    \* the kinds of scalarTypes
  Kinds       \* the kinds a caller asks a literal for

Composite == {"ARRAY", "STRUCT", "ENUM", "PROTO", "EXTENDED"}
Calls     == {"none", "WrapType", "TypeFromProto", "column", "checked column", "argument"}

(* What stands for a type that is missing, for a panic and for an error. *)
InPlaceOfType(kind) == [kind |-> kind, has |-> FALSE, name |-> "", file |-> "", parts |-> <<>>]
Nil    == InPlaceOfType("nil")
Panic  == InPlaceOfType("panic")
Failed == InPlaceOfType("failed")
NoValue == [of |-> "nil", got |-> <<>>, parts |-> <<>>]

Types == Protos \union {Nil}

(* A message holds what belongs to its kind and nothing else; where an ARRAY is, its element type is Nil
   if that is missing. *)
ASSUME ProtosAssumption ==
  \A p \in Protos :
    /\ p = [kind |-> p.kind, has |-> p.has, name |-> p.name, file |-> p.file, parts |-> p.parts]
    /\ p.kind \in STRING \ {"nil", "panic", "failed"} /\ p.has \in BOOLEAN
    /\ p.name \in STRING /\ p.file \in STRING
    /\ p.parts \in Seq([name : STRING, type : Types])
    /\ p.has => p.kind \in Composite
    /\ p.parts # <<>> => p.has /\ p.kind \in {"ARRAY", "STRUCT"}
    /\ p.name # "" \/ p.file # "" => p.has /\ p.kind = "ENUM"
    /\ p.kind = "ARRAY" => Len(p.parts) = (IF p.has THEN 1 ELSE 0) /\ \A i \in DOMAIN p.parts : p.parts[i].name = ""
(* And no message is nested in itself. *)
ASSUME DepthAssumption ==
  /\ Depth \in [Types -> Nat]
  /\ \A p \in Protos : Depth[Nil] < Depth[p] /\ \A i \in DOMAIN p.parts : Depth[p.parts[i].type] < Depth[p]
ASSUME KindsAssumption ==
  /\ Scalars \subseteq STRING /\ Scalars \intersect (Composite \union {"nil", "panic", "failed", "NULL"}) = {}
  /\ Kinds \subseteq Scalars \union {"ENUM"} /\ Kinds \intersect Calls = {}

VARIABLES
  proto,    \* the type in the tree, of the value where the caller is
  value,    \* the value there
  literal,  \* what the caller reads there: [type, value]
  type,     \* the type the caller has taken
  answer    \* what came of the last call: whether it gave something, and what

vars == <<proto, value, literal, type, answer>>

NoAnswer == [by |-> "none", ok |-> FALSE, out |-> Nil]

Go(kind, name, parts) ==
  [kind |-> kind, has |-> kind \in Composite, name |-> name, file |-> "", parts |-> parts]
Part(name, t)         == [name |-> name, type |-> t]
ElementType(p)        == IF p.parts = <<>> THEN Nil ELSE p.parts[1].type

-----------------------------------------------------------------------------
(* WrapType, TypeFromProto and ToProto. *)

TypeFromKind(k) == IF k \in Scalars THEN Go(k, "", <<>>) ELSE Nil

(* Fault to check the properties against: an array of nothing is still an array. *)
WrapArrayAnyway(elem) == Go("ARRAY", "", <<Part("", elem)>>)

WrapArray(elem) == IF elem = Nil THEN Nil ELSE Go("ARRAY", "", <<Part("", elem)>>)

WrapType[p \in Types] ==
  IF p = Nil THEN Nil
  ELSE CASE p.kind = "ARRAY"  -> WrapArray(WrapType[ElementType(p)])
         [] p.kind = "STRUCT" ->
              Go("STRUCT", "", [i \in DOMAIN p.parts |-> Part(p.parts[i].name, WrapType[p.parts[i].type])])
         [] p.kind = "ENUM"   -> IF p.name = "" THEN Nil ELSE Go("ENUM", p.name, <<>>)
         [] OTHER -> TypeFromKind(p.kind)

(* Strict where WrapType is not: what is missing or unsupported anywhere fails all of it. *)
TypeFromProto[p \in Types] ==
  IF p = Nil \/ (p.kind \in {"ARRAY", "STRUCT", "ENUM"} /\ ~p.has) THEN Failed
  ELSE CASE p.kind = "ARRAY" ->
              LET elem == TypeFromProto[ElementType(p)]
              IN IF elem = Failed THEN Failed ELSE IF elem.kind = "ARRAY" THEN Failed
                 ELSE Go("ARRAY", "", <<Part("", elem)>>)
         [] p.kind = "STRUCT" ->
              LET fields == [i \in DOMAIN p.parts |-> TypeFromProto[p.parts[i].type]]
              IN IF \E i \in DOMAIN fields : fields[i] = Failed THEN Failed
                 ELSE Go("STRUCT", "", [i \in DOMAIN fields |-> Part(p.parts[i].name, fields[i])])
         [] p.kind = "ENUM" -> IF p.name = "" THEN Failed ELSE Go("ENUM", p.name, <<>>)
         [] OTHER -> IF TypeFromKind(p.kind) = Nil THEN Failed ELSE TypeFromKind(p.kind)

GoTypes == {WrapType[p] : p \in Types}

(* A method call on a nil type panics.  An ENUM is sent by its name alone: EnumType kept nothing else. *)
ToProto[t \in GoTypes] ==
  IF t = Nil THEN Panic
  ELSE LET parts == [i \in DOMAIN t.parts |-> ToProto[t.parts[i].type]]
       IN IF \E i \in DOMAIN parts : parts[i] = Panic THEN Panic
          ELSE Go(t.kind, t.name, [i \in DOMAIN parts |-> Part(t.parts[i].name, parts[i])])

-----------------------------------------------------------------------------
(* WrapLiteralValue.  The value of an ARRAY or STRUCT literal is the       *)
(* sequence of the literals in it.                                         *)

Literal(t, v) == [type |-> t, value |-> v]
(* A Go value of the kind, which is its dynamic type. *)
Held(kind, got, parts) == [of |-> kind, got |-> got, parts |-> parts]

(* A getter gives the zero value when the oneof holds another kind, for a message a nil pointer. *)
Pointers   == {"DATETIME", "TIMESTAMP"}
NilPointer == <<>>
PartsOf(k, v) == IF v.of = k THEN v.parts ELSE <<>>
GotOf(k, v)   == IF v.of = k THEN v.got ELSE IF k \in Pointers THEN NilPointer ELSE <<0>>

SameFields(parts, fields) == Len(parts) = Len(fields)

ConvertValue[t \in GoTypes] ==
  [v \in Values \union {NoValue} |->
     IF t = Nil \/ v = NoValue THEN NoValue
     ELSE IF v.of = "NULL" THEN NoValue
     ELSE CASE t.kind = "ARRAY" ->
                 LET elem  == t.parts[1].type
                     parts == PartsOf("ARRAY", v)
                 IN Held("ARRAY", <<>>, [i \in DOMAIN parts |-> Literal(elem, ConvertValue[elem][parts[i]])])
            [] t.kind = "STRUCT" ->
                 LET parts == PartsOf("STRUCT", v)
                 IN IF ~SameFields(parts, t.parts) THEN NoValue
                    ELSE Held("STRUCT", <<>>, [i \in DOMAIN t.parts |->
                                                 Literal(t.parts[i].type, ConvertValue[t.parts[i].type][parts[i]])])
            [] OTHER -> Held(t.kind, GotOf(t.kind, v), <<>>)]

WrapLiteralValue(p, v) == Literal(WrapType[p], ConvertValue[WrapType[p]][v])

-----------------------------------------------------------------------------
(* The packed civil times of civil_time.h, as they are unpacked.           *)

(* What a field counts in: the shifts 6, 12, 17, 22, 26 and 30 as powers of two. *)
MinuteUnit == 64
HourUnit   == 4096
DayUnit    == 131072
MonthUnit  == 4194304
YearUnit   == 67108864
NanoUnit   == 1073741824

(* A shift, and a mask of as many values. *)
Bits(u, unit, size) == (u \div unit) % size

TimeOfDay(hms) == [hour |-> Bits(hms, HourUnit, 32), minute |-> Bits(hms, MinuteUnit, 64), second |-> hms % 64]

AsTimeOfDay(u) == [clock |-> TimeOfDay(u \div NanoUnit), nano |-> u % NanoUnit]

AsDatetime(got) ==
  [year |-> Bits(got[1], YearUnit, 16384), month |-> Bits(got[1], MonthUnit, 16),
   day |-> Bits(got[1], DayUnit, 32), clock |-> TimeOfDay(got[1]), nano |-> got[2]]

(* How ZetaSQL packs them. *)
PackClock(c)    == c.hour * HourUnit + c.minute * MinuteUnit + c.second
PackTime(t)     == PackClock(t.clock) * NanoUnit + t.nano
PackDatetime(d) == <<d.year * YearUnit + d.month * MonthUnit + d.day * DayUnit + PackClock(d.clock), d.nano>>

LeapYear(y)  == y % 4 = 0 /\ (y % 100 # 0 \/ y % 400 = 0)
DaysIn(y, m) == IF m = 2 THEN IF LeapYear(y) THEN 29 ELSE 28 ELSE IF m \in {4, 6, 9, 11} THEN 30 ELSE 31

Clocks    == [hour : 0 .. 23, minute : 0 .. 59, second : 0 .. 59]
Times     == {t \in [clock : Clocks, nano : Nat] : t.nano < 1000000000}
Datetimes == {d \in [year : Nat, month : 1 .. 12, day : 1 .. 31, clock : Clocks, nano : Nat] :
                d.year >= 1 /\ d.year <= 9999 /\ d.day <= DaysIn(d.year, d.month) /\ d.nano < 1000000000}

(* Messages are there, and hold civil times as ZetaSQL packs them: time.Date, which carries over what is out
   of range (literal_value.go:260, 281), has nothing to carry, and no bits lie above those of a year or an hour. *)
ASSUME ValuesAssumption ==
  \A v \in Values :
    /\ v.of # "nil" /\ v.parts \in Seq(Values \union {NoValue})
    /\ v.of \in Pointers => v.got # NilPointer
    /\ v.of = "DATETIME" => /\ v.got = <<v.got[1], v.got[2]>> /\ v.got[1] \in Nat /\ v.got[1] \div YearUnit < 16384
                            /\ AsDatetime(v.got) \in Datetimes
    /\ v.of = "TIME" => /\ v.got = <<v.got[1]>> /\ v.got[1] \in Nat /\ (v.got[1] \div NanoUnit) \div HourUnit < 32
                        /\ AsTimeOfDay(v.got[1]) \in Times

-----------------------------------------------------------------------------
(* What a caller does. *)

Init ==
  /\ proto \in Protos /\ value \in Values
  /\ literal = WrapLiteralValue(proto, value) /\ type = Nil /\ answer = NoAnswer

(* asScalar: the kind is the one asked for, and there is a value. *)
Holds(k) == literal.type # Nil /\ literal.type.kind = k /\ literal.value # NoValue

(* AsArray and AsStruct, and a literal of what they give. *)
Enter ==
  /\ Holds("ARRAY") \/ Holds("STRUCT")
  /\ \E i \in DOMAIN literal.value.parts :
       /\ literal' = literal.value.parts[i] /\ value' = value.parts[i]
       /\ proto' = proto.parts[IF literal.type.kind = "ARRAY" THEN 1 ELSE i].type
  /\ answer' = NoAnswer /\ UNCHANGED type

(* Fault to check the properties against: months are taken to have the width of days. *)
WideMonths(k, got) ==
  CASE k = "DATETIME" -> [AsDatetime(got) EXCEPT !.month = Bits(got[1], MonthUnit, 32)]
    [] k = "TIME"     -> AsTimeOfDay(got[1])
    [] OTHER          -> got

Decoded(k, got) ==
  CASE k = "DATETIME" -> AsDatetime(got)
    [] k = "TIME"     -> AsTimeOfDay(got[1])
    [] OTHER          -> got

(* A datetime or timestamp that is not there reads as none. *)
As(k) ==
  /\ k \in Kinds
  /\ LET ok == Holds(k) /\ ~(k \in Pointers /\ literal.value.got = NilPointer)
     IN answer' = [by |-> k, ok |-> ok, out |-> IF ok THEN Decoded(k, literal.value.got) ELSE <<>>]
  /\ UNCHANGED <<proto, value, literal, type>>

(* The caller takes the literal's type, or reads the type in the tree with TypeFromProto. *)
TakeType ==
  /\ type' = literal.type /\ answer' = [by |-> "WrapType", ok |-> TRUE, out |-> Nil]
  /\ UNCHANGED <<proto, value, literal>>

ReadType ==
  /\ LET t == TypeFromProto[proto]
     IN /\ type' = IF t = Failed THEN Nil ELSE t
        /\ answer' = [by |-> "TypeFromProto", ok |-> t # Failed, out |-> Nil]
  /\ UNCHANGED <<proto, value, literal>>

(* The type of a column, which needs one, or of an argument, which is sent without. *)
Registered(by, out) == [by |-> by, ok |-> out # Panic, out |-> out]

RegisterColumn ==
  /\ answer.by \in {"WrapType", "TypeFromProto"} /\ answer.ok
  /\ answer' = Registered(IF answer.by = "WrapType" THEN "column" ELSE "checked column", ToProto[type])
  /\ UNCHANGED <<proto, value, literal, type>>

(* Fault to check the properties against: an argument's type is sent as a column's is. *)
ArgumentNeedsType(t) == ToProto[t]

ArgumentType(t) == IF t = Nil THEN Nil ELSE ToProto[t]

RegisterArgument ==
  /\ answer.by = "WrapType"
  /\ answer' = Registered("argument", ArgumentType(type))
  /\ UNCHANGED <<proto, value, literal, type>>

Next ==
  \/ Enter \/ (\E k \in Kinds : As(k))
  \/ TakeType \/ ReadType \/ RegisterColumn \/ RegisterArgument

Spec == Init /\ [][Next]_vars

-----------------------------------------------------------------------------
(* Properties. *)

(* A type with those inside it at any depth; Nil where one is missing. *)
PartTypes(p) == {p.parts[i].type : i \in DOMAIN p.parts}
Inside[p \in Types] == {p} \union UNION {Inside[q] : q \in PartTypes(p)}

Formed(q)    == q # Nil /\ (q.kind \in {"ARRAY", "STRUCT", "ENUM"} => q.has)
Supported(q) == q.kind \in Scalars \union {"ARRAY", "STRUCT"} \/ (q.kind = "ENUM" /\ q.name # "")
(* "an array's identity is its element type" (wrap_type.go:14). *)
Innermost[p \in Types] == IF p.kind = "ARRAY" THEN Innermost[ElementType(p)] ELSE p
Wrappable(p) == Supported(Innermost[p])
(* A field "whose Type is not wrappable becomes a *StructField with Type=nil" (wrap_type.go:16). *)
Holed(p)     == \E q \in Inside[p] : q.kind = "STRUCT" /\ \E f \in PartTypes(q) : ~Wrappable(f)
Whole(p)     == \A q \in Inside[p] : Formed(q)
(* What TypeFromProto takes: arrays of arrays are no types of ZetaSQL. *)
Strict(p)    == \A q \in Inside[p] : /\ Formed(q) /\ Supported(q)
                                     /\ ~(q.kind = "ARRAY" /\ ElementType(q).kind = "ARRAY")

(* The program's variables have their types, and every array in Go has an element type. *)
TypeOK ==
  /\ proto \in Types /\ value \in Values \union {NoValue}
  /\ literal.type \in GoTypes /\ type \in GoTypes
  /\ \A t \in {literal.type, type} \ {Nil} : t.kind = "ARRAY" => ElementType(t) # Nil

(* A type without what only a tree says of it, where the descriptors of its ENUMs are. *)
Bare[p \in Types] ==
  [kind |-> p.kind, has |-> p.has, name |-> p.name, file |-> "",
   parts |-> [i \in DOMAIN p.parts |-> Part(p.parts[i].name, Bare[p.parts[i].type])]]
Described(p) == \E q \in Inside[p] : q.file # ""

(***************************************************************************)
(* A type that was read goes back into a catalog, as the type of a column  *)
(* or of an argument, with every element, field and name it came with, and *)
(* without the descriptors of its ENUMs (enum_type.go:37-44): it is the    *)
(* type that came exactly when none of these were there.  Registering      *)
(* panics on exactly the types with a part that WrapType left out; an      *)
(* argument of such a type, where all of it was left out, goes without.    *)
(* TypeFromProto fails on all of these, so that what it gives goes back    *)
(* whatever it is.                                                         *)
(***************************************************************************)
GoesBackBare ==
  LET sent == answer.out = Bare[proto] /\ (answer.out = proto <=> ~Described(proto))
      back == (answer.ok <=> ~Holed(proto)) /\ (answer.ok /\ Whole(proto) => sent)
  IN CASE answer.by = "column"         -> IF Wrappable(proto) THEN back ELSE ~answer.ok
       [] answer.by = "argument"       -> IF Wrappable(proto) THEN back ELSE answer.ok /\ answer.out = Nil
       [] answer.by = "checked column" -> answer.ok /\ sent
       [] answer.by = "TypeFromProto"  -> answer.ok <=> Strict(proto)
       [] OTHER                        -> TRUE

(***************************************************************************)
(* What an accessor gives is what the tree has where the caller is, at any *)
(* depth, and it gives something only if the kind is the one asked for     *)
(* and the value is not NULL (literal_value.go:144); civil times are taken *)
(* apart as ZetaSQL put them together.                                     *)
(***************************************************************************)
ReadsAsSent ==
  answer.by \in Kinds /\ (value # NoValue => value.of \in {"NULL", proto.kind}) =>
    /\ answer.ok <=> /\ value # NoValue /\ value.of # "NULL"
                     /\ proto.kind = answer.by /\ Wrappable(proto)
    /\ answer.ok => CASE answer.by = "DATETIME" -> PackDatetime(answer.out) = value.got
                      [] answer.by = "TIME"     -> <<PackTime(answer.out)>> = value.got
                      [] OTHER                  -> answer.out = value.got
=============================================================================
