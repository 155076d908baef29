--------------------------- MODULE TypeWrapProofs ---------------------------
(***************************************************************************)
(* Proofs about TypeWrap, for types and values of any depth: a type that   *)
(* was read goes back into a catalog as it came, but for the descriptors   *)
(* of its ENUMs, and a literal reads as what the tree has, civil times     *)
(* with every bit of their packed form (TLC's integers have 32 bits and    *)
(* reach only the first of them).                                          *)
(*                                                                         *)
(* The civil times come first.  Then, since the program's recursive        *)
(* functions are recursive here too: that types are founded, that          *)
(* functions with the equations of WrapType, TypeFromProto, ToProto and    *)
(* ConvertValue exist, and what these do with a type when they do so with  *)
(* its parts, so that the least deep type they failed on cannot be.  Last  *)
(* is the invariant, by induction over the caller's steps.                 *)
(***************************************************************************)
EXTENDS TypeWrap, SequenceTheorems, WellFoundedInduction, TLAPS

(* The fields of a clock, above which there is a date or nothing. *)
LEMMA ClockFields ==
  ASSUME NEW high \in Nat, NEW h \in Nat, NEW m \in Nat, NEW s \in Nat, h < 32, m < 64, s < 64,
         NEW u, u = high * 131072 + (h * 4096 + m * 64 + s)
  PROVE  (u \div 4096) % 32 = h /\ (u \div 64) % 64 = m /\ u % 64 = s
BY SMT

(* The fields of a date, below which there is a clock. *)
LEMMA DateFields ==
  ASSUME NEW y \in Nat, NEW m \in Nat, NEW d \in Nat, NEW p \in Nat, y < 16384, m < 16, d < 32, p < 131072,
         NEW u, u = y * 67108864 + m * 4194304 + d * 131072 + p
  PROVE  (u \div 131072) % 32 = d /\ (u \div 4194304) % 16 = m /\ (u \div 67108864) % 16384 = y
BY SMT

(* What is above the clock of a date. *)
LEMMA AboveClock ==
  ASSUME NEW y \in Nat, NEW m \in Nat, NEW d \in Nat, NEW p \in Nat,
         NEW u, u = y * 67108864 + m * 4194304 + d * 131072 + p,
         NEW high, high = y * 512 + m * 32 + d
  PROVE  high \in Nat /\ u = high * 131072 + p
BY SMT

(* A clock and the nanoseconds below it. *)
LEMMA NanoFields ==
  ASSUME NEW p \in Nat, NEW n \in Nat, n < 1073741824, NEW u, u = p * 1073741824 + n
  PROVE  u \div 1073741824 = p /\ u % 1073741824 = n
BY SMT

LEMMA ClockIsSmall ==
  ASSUME NEW c \in Clocks
  PROVE  /\ c.hour \in Nat /\ c.minute \in Nat /\ c.second \in Nat
         /\ c.hour < 32 /\ c.minute < 64 /\ c.second < 64
         /\ c = [hour |-> c.hour, minute |-> c.minute, second |-> c.second]
         /\ PackClock(c) \in Nat /\ PackClock(c) < 131072
<1>1. c.hour \in 0 .. 23 /\ c.minute \in 0 .. 59 /\ c.second \in 0 .. 59
  BY SMT DEF Clocks
<1>2. c = [hour |-> c.hour, minute |-> c.minute, second |-> c.second]
  BY SMT DEF Clocks
<1>3. /\ c.hour \in Nat /\ c.minute \in Nat /\ c.second \in Nat
      /\ c.hour < 32 /\ c.minute < 64 /\ c.second < 64
  BY SMT, <1>1
<1>4. PackClock(c) = c.hour * 4096 + c.minute * 64 + c.second
  BY SMT DEF PackClock, HourUnit, MinuteUnit
<1> QED
  BY SMT, <1>2, <1>3, <1>4

LEMMA ClockUnpacks ==
  ASSUME NEW c \in Clocks, NEW high \in Nat, NEW u, u = high * 131072 + PackClock(c)
  PROVE  TimeOfDay(u) = c
<1>1. u = high * 131072 + (c.hour * 4096 + c.minute * 64 + c.second)
  BY SMT DEF PackClock, HourUnit, MinuteUnit
<1>2. (u \div 4096) % 32 = c.hour /\ (u \div 64) % 64 = c.minute /\ u % 64 = c.second
  BY SMT, <1>1, ClockIsSmall, ClockFields
<1>3. TimeOfDay(u) = [hour |-> c.hour, minute |-> c.minute, second |-> c.second]
  BY SMT, <1>2 DEF TimeOfDay, Bits, HourUnit, MinuteUnit
<1> QED
  BY SMT, <1>3, ClockIsSmall

(* TIME "in ZetaSQL's encoded time-of-day form" (literal_value.go:210): AsTimeOfDay gives the clock
   and the nanoseconds that were packed. *)
THEOREM TimeUnpacks == \A t \in Times : AsTimeOfDay(PackTime(t)) = t
<1> SUFFICES ASSUME NEW t \in Times PROVE AsTimeOfDay(PackTime(t)) = t
  OBVIOUS
<1> DEFINE p == PackClock(t.clock)
           u == PackTime(t)
<1>1. t.clock \in Clocks /\ t = [clock |-> t.clock, nano |-> t.nano] /\ t.nano \in Nat /\ t.nano < 1073741824
  BY SMT DEF Times
<1>2. p \in Nat
  BY SMT, <1>1, ClockIsSmall
<1>3. TimeOfDay(p) = t.clock
  <2>1. p = 0 * 131072 + p
    BY SMT, <1>2
  <2> QED
    BY SMT, <1>1, <2>1, ClockUnpacks
<1>4. u = p * 1073741824 + t.nano
  BY SMT DEF PackTime, NanoUnit
<1> HIDE DEF p, u
<1>5. u \div 1073741824 = p /\ u % 1073741824 = t.nano
  BY SMT, <1>1, <1>2, <1>4, NanoFields
<1>6. AsTimeOfDay(u) = [clock |-> t.clock, nano |-> t.nano]
  BY SMT, <1>3, <1>5 DEF AsTimeOfDay, NanoUnit
<1> QED
  BY SMT, <1>1, <1>6 DEF u

LEMMA DatetimeFields ==
  ASSUME NEW d \in Datetimes
  PROVE  /\ d.year \in Nat /\ d.year <= 9999 /\ d.month \in 1 .. 12 /\ d.day \in 1 .. 31 /\ d.clock \in Clocks
         /\ d = [year |-> d.year, month |-> d.month, day |-> d.day, clock |-> d.clock, nano |-> d.nano]
<1>1. d \in [year : Nat, month : 1 .. 12, day : 1 .. 31, clock : Clocks, nano : Nat] /\ d.year <= 9999
  BY SMT DEF Datetimes
<1> QED
  BY SMT, <1>1

LEMMA DatetimeOf ==
  ASSUME NEW u, NEW n
  PROVE  AsDatetime(<<u, n>>) = [year |-> Bits(u, YearUnit, 16384), month |-> Bits(u, MonthUnit, 16),
                                 day |-> Bits(u, DayUnit, 32), clock |-> TimeOfDay(u), nano |-> n]
BY SMT DEF AsDatetime

LEMMA DateIsSmall ==
  ASSUME NEW d \in Datetimes
  PROVE  d.year \in Nat /\ d.month \in Nat /\ d.day \in Nat /\ d.year < 16384 /\ d.month < 16 /\ d.day < 32
<1>1. d.year \in Nat /\ d.year <= 9999
  BY DatetimeFields
<1>2. d.month \in 1 .. 12 /\ d.day \in 1 .. 31
  BY DatetimeFields
<1>3. d.year < 16384
  BY SMT, <1>1
<1>4. d.month \in Nat /\ d.day \in Nat /\ d.month < 16 /\ d.day < 32
  BY SMT, <1>2
<1> QED
  BY SMT, <1>1, <1>3, <1>4

(* DATETIME (literal_value.go:262): AsDatetime gives the date, the clock and the nanoseconds that were packed. *)
THEOREM DatetimeUnpacks == \A d \in Datetimes : AsDatetime(PackDatetime(d)) = d
<1> SUFFICES ASSUME NEW d \in Datetimes PROVE AsDatetime(PackDatetime(d)) = d
  OBVIOUS
<1> DEFINE p == PackClock(d.clock)
           u == PackDatetime(d)[1]
           high == d.year * 512 + d.month * 32 + d.day
<1>1. d.clock \in Clocks
  BY DatetimeFields
<1>2. /\ d.year \in Nat /\ d.month \in Nat /\ d.day \in Nat
      /\ d.year < 16384 /\ d.month < 16 /\ d.day < 32
  BY SMT, DateIsSmall
<1>3. d = [year |-> d.year, month |-> d.month, day |-> d.day, clock |-> d.clock, nano |-> d.nano]
  BY DatetimeFields
<1>4. p \in Nat /\ p < 131072
  BY SMT, <1>1, ClockIsSmall
<1>5. u = d.year * 67108864 + d.month * 4194304 + d.day * 131072 + p 
  BY SMT DEF PackDatetime, YearUnit, MonthUnit, DayUnit
<1> HIDE DEF p, u
<1>above. high = d.year * 512 + d.month * 32 + d.day
  OBVIOUS
<1> HIDE DEF high
<1>6. high \in Nat /\ u = high * 131072 + p
  BY SMT, <1>2, <1>4, <1>5, <1>above, AboveClock
<1>7. TimeOfDay(u) = d.clock
  BY SMT, <1>1, <1>6, ClockUnpacks DEF p
<1>8. (u \div 131072) % 32 = d.day /\ (u \div 4194304) % 16 = d.month /\ (u \div 67108864) % 16384 = d.year
  <2> DEFINE yy == d.year
             mm == d.month
             dd == d.day
  <2>1. yy \in Nat /\ mm \in Nat /\ dd \in Nat /\ yy < 16384 /\ mm < 16 /\ dd < 32
    BY SMT, <1>2
  <2>2. u = yy * 67108864 + mm * 4194304 + dd * 131072 + p
    BY SMT, <1>5
  <2> HIDE DEF yy, mm, dd
  <2>3. (u \div 131072) % 32 = dd /\ (u \div 4194304) % 16 = mm /\ (u \div 67108864) % 16384 = yy
    BY SMT, <2>1, <1>4, <2>2, DateFields
  <2> QED
    BY SMT, <2>3 DEF yy, mm, dd
<1>9. Bits(u, YearUnit, 16384) = d.year /\ Bits(u, MonthUnit, 16) = d.month /\ Bits(u, DayUnit, 32) = d.day
  BY SMT, <1>8 DEF Bits, YearUnit, MonthUnit, DayUnit
<1>10. PackDatetime(d) = <<u, d.nano>>
  BY SMT DEF PackDatetime, u
<1>11. AsDatetime(<<u, d.nano>>) = [year |-> d.year, month |-> d.month, day |-> d.day,
                                   clock |-> d.clock, nano |-> d.nano]
  BY SMT, <1>7, <1>9, DatetimeOf
<1> QED
  BY SMT, <1>3, <1>10, <1>11
-----------------------------------------------------------------------------
(* Types as trees: what is below a type, and induction over it. *)

(* The types that a recursion over the types of trees, or of Go, asks for at p. *)
Below(p)   == IF p = Nil THEN {} ELSE PartTypes(p) \union {Nil}
GoBelow(t) == IF t = Nil THEN {} ELSE PartTypes(t)

LEMMA SeqFacts ==
  ASSUME NEW S, NEW s \in Seq(S)
  PROVE  /\ Len(s) \in Nat /\ DOMAIN s = 1 .. Len(s) /\ \A i \in DOMAIN s : s[i] \in S
         /\ s # <<>> => 1 \in DOMAIN s
<1>1. Len(s) \in Nat /\ DOMAIN s = 1 .. Len(s) /\ \A i \in DOMAIN s : s[i] \in S
  OBVIOUS
<1> QED
  BY <1>1, EmptySeq

LEMMA SeqIsFunction ==
  ASSUME NEW S, NEW s \in Seq(S)
  PROVE  s = [i \in DOMAIN s |-> s[i]]
OBVIOUS

LEMMA Marks ==
  /\ Nil.kind = "nil" /\ Panic.kind = "panic" /\ Failed.kind = "failed"
  /\ Nil.parts = <<>> /\ ~Nil.has /\ Nil.name = "" /\ Nil.file = "" /\ DOMAIN Nil.parts = {}
  /\ Nil \in Types /\ Nil # Panic /\ Nil # Failed /\ Panic # Failed
<1>1. \A k : LET t == InPlaceOfType(k) IN t.kind = k /\ t.parts = <<>> /\ t.name = "" /\ t.file = ""
  BY DEF InPlaceOfType
<1>2. \A k : ~InPlaceOfType(k).has
  BY Zenon DEF InPlaceOfType
<1>3. Nil.kind = "nil" /\ Panic.kind = "panic" /\ Failed.kind = "failed"
  BY <1>1 DEF Nil, Panic, Failed
<1>4. Nil.parts = <<>> /\ Nil.name = "" /\ Nil.file = "" /\ ~Nil.has
  BY <1>1, <1>2 DEF Nil
<1>5. Nil # Panic /\ Nil # Failed /\ Panic # Failed
  BY <1>3
<1>6. DOMAIN Nil.parts = {}
  <2>1. <<>> \in Seq({}) /\ Len(<<>>) = 0
    BY EmptySeq
  <2>2. DOMAIN <<>> = 1 .. 0
    BY <2>1, SeqFacts
  <2>3. 1 .. 0 = {}
    OBVIOUS
  <2> QED
    BY <1>4, <2>2, <2>3, Zenon
<1> QED
  BY <1>3, <1>4, <1>5, <1>6 DEF Types

LEMMA ProtoFacts ==
  ASSUME NEW p \in Protos
  PROVE  /\ p # Nil /\ p # Panic /\ p # Failed /\ p \in Types
         /\ Len(p.parts) \in Nat /\ DOMAIN p.parts = 1 .. Len(p.parts)
         /\ \A i \in DOMAIN p.parts : p.parts[i].type \in Types /\ p.parts[i].type \in Below(p)
         /\ ElementType(p) \in Types /\ ElementType(p) \in Below(p)
         /\ Below(p) \subseteq Types
<1>1. p.kind \notin {"nil", "panic", "failed"} /\ p.parts \in Seq([name : STRING, type : Types])
  BY ProtosAssumption
<1>2. p # Nil /\ p # Panic /\ p # Failed /\ p \in Types
  BY <1>1, Marks DEF Types
<1>3. /\ Len(p.parts) \in Nat /\ DOMAIN p.parts = 1 .. Len(p.parts)
      /\ \A i \in DOMAIN p.parts : p.parts[i] \in [name : STRING, type : Types]
      /\ p.parts # <<>> => 1 \in DOMAIN p.parts
  BY <1>1, SeqFacts
<1>4. \A i \in DOMAIN p.parts : p.parts[i].type \in Types /\ p.parts[i].type \in PartTypes(p)
  BY <1>3 DEF PartTypes
<1>5. Below(p) = PartTypes(p) \union {Nil} /\ PartTypes(p) \subseteq Types
  BY <1>2, <1>4 DEF Below, PartTypes
<1>6. ElementType(p) \in Below(p)
  BY <1>3, <1>4, <1>5 DEF ElementType
<1> QED
  BY <1>2, <1>3, <1>4, <1>5, <1>6, Marks

LEMMA BelowNil == Below(Nil) = {} /\ GoBelow(Nil) = {}
BY DEF Below, GoBelow

LEMMA BelowTypes ==
  ASSUME NEW p \in Types
  PROVE  Below(p) \subseteq Types
BY ProtoFacts, BelowNil DEF Types

(* Of any types one has none of the others below it: the least deep. *)
LEMMA TypesFounded ==
  ASSUME NEW S \in SUBSET Types, S # {}
  PROVE  \E p \in S : Below(p) \intersect S = {}
<1> DEFINE T == {Depth[p] : p \in S}
<1>1. T \subseteq Nat /\ T # {}
  BY DepthAssumption
<1>2. PICK n \in T : \A m \in T : <<m, n>> \notin OpToRel(<, Nat)
  <2> HIDE DEF T
  <2> QED
    BY <1>1, NatLessThanWellFounded, WFMin
<1>3. PICK p \in S : n = Depth[p]
  BY <1>2
<1>4. ASSUME NEW q \in Below(p) \intersect S PROVE FALSE
  <2>1. p \in Protos
    BY <1>4, BelowNil DEF Types
  <2>2. q = Nil \/ \E i \in DOMAIN p.parts : q = p.parts[i].type
    BY <2>1, <1>4 DEF Below, PartTypes
  <2>3. Depth[q] < Depth[p] /\ Depth[q] \in T /\ Depth[p] \in Nat /\ Depth[q] \in Nat
    BY <2>1, <2>2, <1>1, <1>2, <1>3, <1>4, DepthAssumption
  <2>4. <<Depth[q], Depth[p]>> \in OpToRel(<, Nat)
    BY <2>3 DEF OpToRel
  <2> QED
    BY <1>2, <1>3, <2>3, <2>4
<1> QED
  BY <1>4

-----------------------------------------------------------------------------
(***************************************************************************)
(* The recursive functions of TypeWrap satisfy their equations.  A         *)
(* recursive function is a CHOOSE: first there has to be a function that   *)
(* satisfies the equation.  Each step below says what a function has at p, *)
(* given a function f for what is below p; AtType holds the five steps     *)
(* over the types of trees together, so that they need be built up once.   *)
(***************************************************************************)

WrapStep(f, p) ==
  IF p = Nil THEN Nil
  ELSE CASE p.kind = "ARRAY"  -> WrapArray(f[ElementType(p)])
         [] p.kind = "STRUCT" ->
              Go("STRUCT", "", [i \in DOMAIN p.parts |-> Part(p.parts[i].name, f[p.parts[i].type])])
         [] p.kind = "ENUM"   -> IF p.name = "" THEN Nil ELSE Go("ENUM", p.name, <<>>)
         [] OTHER -> TypeFromKind(p.kind)

ReadStep(f, p) ==
  IF p = Nil \/ (p.kind \in {"ARRAY", "STRUCT", "ENUM"} /\ ~p.has) THEN Failed
  ELSE CASE p.kind = "ARRAY" ->
              LET elem == f[ElementType(p)]
              IN IF elem = Failed THEN Failed ELSE IF elem.kind = "ARRAY" THEN Failed
                 ELSE Go("ARRAY", "", <<Part("", elem)>>)
         [] p.kind = "STRUCT" ->
              LET fields == [i \in DOMAIN p.parts |-> f[p.parts[i].type]]
              IN IF \E i \in DOMAIN fields : fields[i] = Failed THEN Failed
                 ELSE Go("STRUCT", "", [i \in DOMAIN fields |-> Part(p.parts[i].name, fields[i])])
         [] p.kind = "ENUM" -> IF p.name = "" THEN Failed ELSE Go("ENUM", p.name, <<>>)
         [] OTHER -> IF TypeFromKind(p.kind) = Nil THEN Failed ELSE TypeFromKind(p.kind)

InsideStep(f, p)    == {p} \union UNION {f[q] : q \in PartTypes(p)}
InnermostStep(f, p) == IF p.kind = "ARRAY" THEN f[ElementType(p)] ELSE p
BareStep(f, p) ==
  [kind |-> p.kind, has |-> p.has, name |-> p.name, file |-> "",
   parts |-> [i \in DOMAIN p.parts |-> Part(p.parts[i].name, f[p.parts[i].type])]]

AtType(f, p) ==
  [wrapped   |-> WrapStep([q \in Types |-> f[q].wrapped], p),
   read      |-> ReadStep([q \in Types |-> f[q].read], p),
   inside    |-> InsideStep([q \in Types |-> f[q].inside], p),
   innermost |-> InnermostStep([q \in Types |-> f[q].innermost], p),
   bare      |-> BareStep([q \in Types |-> f[q].bare], p)]

(* Each step depends on what is below p only. *)
LEMMA StepsAskBelow ==
  ASSUME NEW p \in Types, NEW f, NEW g, \A q \in Below(p) : f[q] = g[q]
  PROVE  /\ WrapStep(f, p) = WrapStep(g, p) /\ ReadStep(f, p) = ReadStep(g, p)
         /\ InsideStep(f, p) = InsideStep(g, p) /\ InnermostStep(f, p) = InnermostStep(g, p)
         /\ BareStep(f, p) = BareStep(g, p)
<1>1. CASE p = Nil
  <2>1. WrapStep(f, p) = WrapStep(g, p) /\ ReadStep(f, p) = ReadStep(g, p)
    BY <1>1 DEF WrapStep, ReadStep
  <2>2. PartTypes(p) = {}
    BY <1>1, Marks DEF PartTypes
  <2>3. p.kind # "ARRAY"
    BY <1>1, Marks
  <2>4. [i \in DOMAIN p.parts |-> Part(p.parts[i].name, f[p.parts[i].type])]
        = [i \in DOMAIN p.parts |-> Part(p.parts[i].name, g[p.parts[i].type])]
    <3>1. DOMAIN p.parts = {}
      BY <1>1, Marks
    <3> QED
      BY <3>1
  <2>5. BareStep(f, p) = BareStep(g, p)
    BY <2>4, Zenon DEF BareStep
  <2> QED
    BY <2>1, <2>2, <2>3, <2>5 DEF InsideStep, InnermostStep
<1>2. CASE p \in Protos
  <2>1. f[ElementType(p)] = g[ElementType(p)] /\ \A i \in DOMAIN p.parts : f[p.parts[i].type] = g[p.parts[i].type]
    BY <1>2, ProtoFacts
  <2>2. [i \in DOMAIN p.parts |-> Part(p.parts[i].name, f[p.parts[i].type])]
        = [i \in DOMAIN p.parts |-> Part(p.parts[i].name, g[p.parts[i].type])]
    BY <2>1
  <2>3. WrapStep(f, p) = WrapStep(g, p)
    BY <2>1, <2>2 DEF WrapStep
  <2>4. [i \in DOMAIN p.parts |-> f[p.parts[i].type]] = [i \in DOMAIN p.parts |-> g[p.parts[i].type]]
    BY <2>1
  <2>5. ReadStep(f, p) = ReadStep(g, p)
    BY <2>1, <2>4, Zenon DEF ReadStep
  <2>6. \A q \in PartTypes(p) : f[q] = g[q]
    BY <2>1 DEF PartTypes
  <2>7. InsideStep(f, p) = InsideStep(g, p)
    BY <2>6 DEF InsideStep
  <2>8. InnermostStep(f, p) = InnermostStep(g, p)
    BY <2>1 DEF InnermostStep
  <2>9. BareStep(f, p) = BareStep(g, p)
    BY <2>2, Zenon DEF BareStep
  <2> QED
    BY <2>3, <2>5, <2>7, <2>8, <2>9
<1> QED
  BY <1>1, <1>2 DEF Types

LEMMA AtTypeAsksBelow ==
  ASSUME NEW p \in Types, NEW f, NEW g, \A q \in Below(p) : f[q] = g[q]
  PROVE  AtType(f, p) = AtType(g, p)
<1>1. \A q \in Below(p) : q \in Types
  BY BelowTypes
<1> DEFINE w(h) == [q \in Types |-> h[q].wrapped]
           r(h) == [q \in Types |-> h[q].read]
           i(h) == [q \in Types |-> h[q].inside]
           n(h) == [q \in Types |-> h[q].innermost]
           b(h) == [q \in Types |-> h[q].bare]
<1>2. \A q \in Below(p) : /\ w(f)[q] = w(g)[q] /\ r(f)[q] = r(g)[q] /\ i(f)[q] = i(g)[q]
                          /\ n(f)[q] = n(g)[q] /\ b(f)[q] = b(g)[q]
  BY <1>1
<1>3. /\ AtType(f, p) = [wrapped |-> WrapStep(w(f), p), read |-> ReadStep(r(f), p),
                         inside |-> InsideStep(i(f), p), innermost |-> InnermostStep(n(f), p),
                         bare |-> BareStep(b(f), p)]
      /\ AtType(g, p) = [wrapped |-> WrapStep(w(g), p), read |-> ReadStep(r(g), p),
                         inside |-> InsideStep(i(g), p), innermost |-> InnermostStep(n(g), p),
                         bare |-> BareStep(b(g), p)]
  BY DEF AtType
<1> HIDE DEF w, r, i, n, b
<1>4. WrapStep(w(f), p) = WrapStep(w(g), p)
  BY <1>2, StepsAskBelow
<1>5. ReadStep(r(f), p) = ReadStep(r(g), p)
  BY <1>2, StepsAskBelow
<1>6. InsideStep(i(f), p) = InsideStep(i(g), p)
  BY <1>2, StepsAskBelow
<1>7. InnermostStep(n(f), p) = InnermostStep(n(g), p)
  BY <1>2, StepsAskBelow
<1>8. BareStep(b(f), p) = BareStep(b(g), p)
  BY <1>2, StepsAskBelow
<1> QED
  BY <1>3, <1>4, <1>5, <1>6, <1>7, <1>8

(* f has what belongs at every type of a set that holds what is below its own. *)
TypesRead(f, C) ==
  /\ C \subseteq Types /\ \A p \in C : Below(p) \subseteq C
  /\ f = [p \in C |-> AtType(f, p)]

LEMMA TypesReadAt ==
  ASSUME NEW f, NEW C, TypesRead(f, C), NEW p \in C
  PROVE  f[p] = AtType(f, p)
<1> DEFINE h == [q \in C |-> AtType(f, q)]
<1>1. f = h
  BY DEF TypesRead
<1>2. h[p] = AtType(f, p)
  OBVIOUS
<1> HIDE DEF h
<1> QED
  BY <1>1, <1>2

(* Two such functions agree where both are defined. *)
LEMMA TypesReadAgree ==
  ASSUME NEW f, NEW C, TypesRead(f, C), NEW g, NEW E, TypesRead(g, E)
  PROVE  \A p \in C \intersect E : f[p] = g[p]
<1> DEFINE S == {p \in C \intersect E : f[p] # g[p]}
<1>1. SUFFICES ASSUME S # {} PROVE FALSE
  OBVIOUS
<1>2. S \in SUBSET Types
  BY DEF TypesRead
<1>3. PICK p \in S : Below(p) \intersect S = {}
  <2> HIDE DEF S
  <2> QED
    BY <1>1, <1>2, TypesFounded
<1>4. p \in C /\ p \in E /\ p \in Types /\ f[p] # g[p]
  BY <1>2
<1>5. \A q \in Below(p) : f[q] = g[q]
  BY <1>3, <1>4 DEF TypesRead
<1>6. AtType(f, p) = AtType(g, p)
  BY <1>4, <1>5, AtTypeAsksBelow
<1>7. f[p] = AtType(f, p) /\ g[p] = AtType(g, p)
  BY <1>4, TypesReadAt
<1> QED
  BY <1>4, <1>6, <1>7

(* Put together they reach every type: the first one left out could be added. *)
LEMMA TypesReadExists == \E f : TypesRead(f, Types)
<1> DEFINE Has(p, f) == \E C : p \in C /\ TypesRead(f, C)
           U == {p \in Types : \E f : Has(p, f)}
           F == [p \in U |-> (CHOOSE f : Has(p, f))[p]]
<1>1. ASSUME NEW f, NEW C, TypesRead(f, C)
      PROVE  C \subseteq U /\ \A p \in C : F[p] = f[p]
  <2>1. \A p \in C : Has(p, f) /\ p \in Types
    BY <1>1 DEF TypesRead
  <2>2. C \subseteq U
    BY <2>1
  <2>3. ASSUME NEW p \in C PROVE F[p] = f[p]
    <3> DEFINE g == CHOOSE h : Has(p, h)
    <3>1. F[p] = g[p]
      BY <2>2
    <3>2. Has(p, g)
      <4>1. \E h : Has(p, h)
        BY <2>1
      <4> HIDE DEF Has
      <4> QED
        BY <4>1
    <3> HIDE DEF g, F, U
    <3>3. PICK E : p \in E /\ TypesRead(g, E)
      BY <3>2
    <3>4. g[p] = f[p]
      BY <1>1, <3>3, TypesReadAgree
    <3> QED
      BY <3>1, <3>4
  <2> HIDE DEF U, F
  <2> QED
    BY <2>2, <2>3
<1>2. ASSUME NEW p \in U PROVE \E f, C : p \in C /\ TypesRead(f, C)
  OBVIOUS
<1>3. U \subseteq Types /\ F = [p \in U |-> F[p]]
  OBVIOUS
<1> HIDE DEF Has, U, F
<1>4. ASSUME NEW p \in U PROVE Below(p) \subseteq U /\ F[p] = AtType(F, p)
  <2>1. PICK f, C : p \in C /\ TypesRead(f, C)
    BY <1>2
  <2>2. C \subseteq U /\ (\A q \in C : F[q] = f[q]) /\ Below(p) \subseteq C
    BY <1>1, <2>1 DEF TypesRead
  <2>3. AtType(f, p) = AtType(F, p)
    BY <1>3, <2>2, AtTypeAsksBelow
  <2> QED
    BY <2>1, <2>2, <2>3, TypesReadAt
<1>5. U = Types
  <2>1. SUFFICES ASSUME Types \ U # {} PROVE FALSE
    BY <1>3
  <2>2. PICK x \in Types \ U : Below(x) \intersect (Types \ U) = {}
    BY <2>1, TypesFounded
  <2> DEFINE C == U \union {x}
             g == [p \in C |-> AtType(F, p)]
  <2>3. C \subseteq Types /\ \A p \in C : Below(p) \subseteq U
    BY <1>3, <1>4, <2>2, BelowTypes
  <2>4. \A p \in C : g[p] = AtType(F, p)
    OBVIOUS
  <2>5. g = [p \in C |-> g[p]] /\ U \subseteq C /\ x \in C
    OBVIOUS
  <2> HIDE DEF C, g
  <2>6. \A q \in U : F[q] = g[q]
    BY <1>4, <2>4, <2>5
  <2>7. \A p \in C : AtType(F, p) = AtType(g, p)
    BY <2>3, <2>6, AtTypeAsksBelow
  <2>8. g = [p \in C |-> AtType(g, p)]
    BY <2>4, <2>5, <2>7
  <2>9. TypesRead(g, C)
    BY <2>3, <2>5, <2>8 DEF TypesRead
  <2> QED
    BY <1>1, <2>2, <2>5, <2>9
<1>6. F = [p \in U |-> AtType(F, p)]
  BY <1>3, <1>4
<1>7. TypesRead(F, U)
  BY <1>3, <1>4, <1>6 DEF TypesRead
<1> QED
  BY <1>5, <1>7

(* The equations of WrapType, TypeFromProto, Inside, Innermost and Bare. *)
LEMMA Equations ==
  /\ WrapType = [p \in Types |-> WrapStep(WrapType, p)]
  /\ TypeFromProto = [p \in Types |-> ReadStep(TypeFromProto, p)]
  /\ Inside = [p \in Types |-> InsideStep(Inside, p)]
  /\ Innermost = [p \in Types |-> InnermostStep(Innermost, p)]
  /\ Bare = [p \in Types |-> BareStep(Bare, p)]
<1>1. PICK F : TypesRead(F, Types)
  BY TypesReadExists
<1> DEFINE w == [p \in Types |-> F[p].wrapped]
           r == [p \in Types |-> F[p].read]
           i == [p \in Types |-> F[p].inside]
           n == [p \in Types |-> F[p].innermost]
           b == [p \in Types |-> F[p].bare]
<1>2. ASSUME NEW p \in Types
      PROVE  /\ w[p] = WrapStep(w, p) /\ r[p] = ReadStep(r, p)
             /\ i[p] = InsideStep(i, p) /\ n[p] = InnermostStep(n, p) /\ b[p] = BareStep(b, p)
  <2>1. F[p] = AtType(F, p)
    BY <1>1, TypesReadAt
  <2>2. AtType(F, p) = [wrapped |-> WrapStep(w, p), read |-> ReadStep(r, p),
                        inside |-> InsideStep(i, p), innermost |-> InnermostStep(n, p), bare |-> BareStep(b, p)]
    BY DEF AtType
  <2>3. /\ w[p] = F[p].wrapped /\ r[p] = F[p].read /\ i[p] = F[p].inside
        /\ n[p] = F[p].innermost /\ b[p] = F[p].bare
    OBVIOUS
  <2> HIDE DEF w, r, i, n, b
  <2> QED
    BY <2>1, <2>2, <2>3
<1>3. /\ w = [p \in Types |-> w[p]] /\ r = [p \in Types |-> r[p]]
      /\ i = [p \in Types |-> i[p]] /\ n = [p \in Types |-> n[p]] /\ b = [p \in Types |-> b[p]]
  OBVIOUS
<1> HIDE DEF w, r, i, n, b
<1>4. w = [p \in Types |-> WrapStep(w, p)]
  BY <1>2, <1>3
<1>5. r = [p \in Types |-> ReadStep(r, p)]
  BY <1>2, <1>3
<1>6. i = [p \in Types |-> InsideStep(i, p)]
  BY <1>2, <1>3
<1>7. n = [p \in Types |-> InnermostStep(n, p)]
  BY <1>2, <1>3
<1>8. WrapType = [p \in Types |-> WrapStep(WrapType, p)]
  <2>1. WrapType = CHOOSE f : f = [p \in Types |-> WrapStep(f, p)]
    BY DEF WrapType, WrapStep
  <2> QED
    BY <1>4, <2>1, Zenon
<1>9. TypeFromProto = [p \in Types |-> ReadStep(TypeFromProto, p)]
  <2>1. TypeFromProto = CHOOSE f : f = [p \in Types |-> ReadStep(f, p)]
    BY DEF TypeFromProto, ReadStep
  <2> QED
    BY <1>5, <2>1, Zenon
<1>10. Inside = [p \in Types |-> InsideStep(Inside, p)]
  <2>1. Inside = CHOOSE f : f = [p \in Types |-> InsideStep(f, p)]
    BY DEF Inside, InsideStep
  <2> QED
    BY <1>6, <2>1, Zenon
<1>11. Innermost = [p \in Types |-> InnermostStep(Innermost, p)]
  <2>1. Innermost = CHOOSE f : f = [p \in Types |-> InnermostStep(f, p)]
    BY DEF Innermost, InnermostStep
  <2> QED
    BY <1>7, <2>1, Zenon
<1>12. Bare = [p \in Types |-> BareStep(Bare, p)]
  <2>1. Bare = CHOOSE f : f = [p \in Types |-> BareStep(f, p)]
    BY DEF Bare, BareStep
  <2>2. b = [p \in Types |-> BareStep(b, p)]
    BY <1>2, <1>3
  <2> QED
    BY <2>1, <2>2, Zenon
<1> QED
  BY <1>8, <1>9, <1>10, <1>11, <1>12

LEMMA EquationsAt ==
  ASSUME NEW p \in Types
  PROVE  /\ WrapType[p] = WrapStep(WrapType, p) /\ TypeFromProto[p] = ReadStep(TypeFromProto, p)
         /\ Inside[p] = InsideStep(Inside, p) /\ Innermost[p] = InnermostStep(Innermost, p)
         /\ Bare[p] = BareStep(Bare, p)
<1> DEFINE w == [q \in Types |-> WrapStep(WrapType, q)]
           r == [q \in Types |-> ReadStep(TypeFromProto, q)]
           i == [q \in Types |-> InsideStep(Inside, q)]
           n == [q \in Types |-> InnermostStep(Innermost, q)]
           b == [q \in Types |-> BareStep(Bare, q)]
<1>1. WrapType = w /\ TypeFromProto = r /\ Inside = i /\ Innermost = n /\ Bare = b
  BY Equations
<1>2. /\ w[p] = WrapStep(WrapType, p) /\ r[p] = ReadStep(TypeFromProto, p)
      /\ i[p] = InsideStep(Inside, p) /\ n[p] = InnermostStep(Innermost, p) /\ b[p] = BareStep(Bare, p)
  OBVIOUS
<1> HIDE DEF w, r, i, n, b
<1> QED
  BY <1>1, <1>2, Zenon

-----------------------------------------------------------------------------
(* Types in Go: what WrapType makes of a type, and what is below that. *)

LEMMA OnePart ==
  ASSUME NEW t
  PROVE  LET parts == <<Part("", t)>>
         IN DOMAIN parts = {1} /\ parts[1].type = t /\ parts[1].name = "" /\ parts # <<>>
<1>1. \A x : DOMAIN <<x>> = {1} /\ <<x>>[1] = x
  OBVIOUS
<1>2. DOMAIN <<>> = {}
  BY Marks
<1>3. Part("", t).type = t /\ Part("", t).name = ""
  BY DEF Part
<1> QED
  BY <1>1, <1>2, <1>3, Zenon

(* A kind that no mark has. *)
Proper(k) == k # "nil" /\ k # "panic" /\ k # "failed"

LEMMA KindFacts == Proper("ARRAY") /\ Proper("STRUCT") /\ Proper("ENUM") /\ \A k \in Scalars : Proper(k)
<1>1. \A k \in Scalars : Proper(k)
  BY KindsAssumption DEF Proper
<1> QED
  BY <1>1 DEF Proper

LEMMA GoFields ==
  \A kind, name, parts, t : t = Go(kind, name, parts) => t.kind = kind /\ t.name = name /\ t.parts = parts
<1>1. \A kind, name, parts : LET t == Go(kind, name, parts) IN t.kind = kind /\ t.name = name /\ t.parts = parts
  BY DEF Go
<1> SUFFICES ASSUME NEW kind, NEW name, NEW parts, NEW t, t = Go(kind, name, parts)
             PROVE  t.kind = kind /\ t.name = name /\ t.parts = parts
  OBVIOUS
<1> QED
  BY <1>1

(* What Go makes is no mark. *)
LEMMA GoIsNoMark ==
  ASSUME NEW kind, Proper(kind), NEW name, NEW parts
  PROVE  LET t == Go(kind, name, parts) IN t # Nil /\ t # Panic /\ t # Failed
<1> DEFINE t == Go(kind, name, parts)
<1>1. t.kind = kind
  BY DEF Go
<1> HIDE DEF t
<1>2. t # Nil /\ t # Panic /\ t # Failed
  BY <1>1, Marks DEF Proper
<1> QED
  BY <1>2 DEF t

LEMMA GoIsThere ==
  \A name, parts : Go("ARRAY", name, parts) # Nil /\ Go("STRUCT", name, parts) # Nil /\ Go("ENUM", name, parts) # Nil
BY KindFacts, GoIsNoMark, Zenon

LEMMA ScalarTypes ==
  ASSUME NEW k
  PROVE  /\ k \in Scalars => TypeFromKind(k) = Go(k, "", <<>>) /\ TypeFromKind(k) # Nil /\ TypeFromKind(k) # Failed
         /\ k \notin Scalars => TypeFromKind(k) = Nil
<1>1. k \in Scalars => TypeFromKind(k) = Go(k, "", <<>>)
  BY DEF TypeFromKind
<1>2. k \notin Scalars => TypeFromKind(k) = Nil
  BY DEF TypeFromKind
<1>3. k \in Scalars => TypeFromKind(k) # Nil /\ TypeFromKind(k) # Failed
  BY <1>1, KindFacts, GoIsNoMark, Zenon
<1> QED
  BY <1>1, <1>2, <1>3

LEMMA WrapNil == WrapType[Nil] = Nil
BY Marks, EquationsAt DEF WrapStep

(* What WrapType makes of a type that is there, by its kind. *)
LEMMA WrapAt ==
  ASSUME NEW p \in Protos
  PROVE  /\ p.kind = "ARRAY" => WrapType[p] = WrapArray(WrapType[ElementType(p)])
         /\ p.kind = "STRUCT" =>
              WrapType[p] = Go("STRUCT", "", [i \in DOMAIN p.parts |-> Part(p.parts[i].name, WrapType[p.parts[i].type])])
         /\ p.kind = "ENUM" => WrapType[p] = IF p.name = "" THEN Nil ELSE Go("ENUM", p.name, <<>>)
         /\ p.kind \notin {"ARRAY", "STRUCT", "ENUM"} => WrapType[p] = TypeFromKind(p.kind)
<1>1. p # Nil /\ p \in Types
  BY ProtoFacts
<1>2. WrapType[p] = WrapStep(WrapType, p)
  BY <1>1, EquationsAt
<1> QED
  BY <1>1, <1>2 DEF WrapStep

(* It has the kind, the element type and the fields of the tree's. *)
LEMMA WrappedArray ==
  ASSUME NEW p \in Types, WrapType[p] # Nil, p.kind = "ARRAY"
  PROVE  LET t == WrapType[p]
             e == WrapType[ElementType(p)]
         IN /\ t.kind = "ARRAY" /\ t.name = "" /\ t = Go("ARRAY", "", <<Part("", e)>>) /\ e # Nil
            /\ DOMAIN t.parts = {1} /\ t.parts[1].type = e /\ t.parts[1].name = "" /\ t.parts # <<>>
<1> DEFINE t == WrapType[p]
           e == WrapType[ElementType(p)]
<1>1. e # Nil /\ t = Go("ARRAY", "", <<Part("", e)>>)
  <2>1. p \in Protos
    BY WrapNil DEF Types
  <2> QED
    BY <2>1, WrapAt DEF WrapArray
<1> HIDE DEF e, t
<1>2. t.kind = "ARRAY" /\ t.name = "" /\ t.parts = <<Part("", e)>>
  BY <1>1 DEF Go
<1>3. DOMAIN t.parts = {1} /\ t.parts[1].type = e /\ t.parts[1].name = "" /\ t.parts # <<>>
  BY <1>2, OnePart
<1> QED
  BY <1>1, <1>2, <1>3 DEF e, t

LEMMA WrappedStruct ==
  ASSUME NEW p \in Types, WrapType[p] # Nil, p.kind = "STRUCT"
  PROVE  LET t == WrapType[p]
         IN /\ t.kind = "STRUCT" /\ t.name = "" /\ t = Go("STRUCT", "", t.parts)
            /\ t.parts = [i \in DOMAIN p.parts |-> Part(p.parts[i].name, WrapType[p.parts[i].type])]
            /\ DOMAIN t.parts = DOMAIN p.parts
            /\ \A i \in DOMAIN p.parts : t.parts[i].type = WrapType[p.parts[i].type] /\ t.parts[i].name = p.parts[i].name
<1> DEFINE t == WrapType[p]
           parts == [i \in DOMAIN p.parts |-> Part(p.parts[i].name, WrapType[p.parts[i].type])]
<1>1. t = Go("STRUCT", "", parts)
  <2>1. p \in Protos
    BY WrapNil DEF Types
  <2> QED
    BY <2>1, WrapAt
<1>2. DOMAIN parts = DOMAIN p.parts
  OBVIOUS
<1>3. \A i \in DOMAIN p.parts : parts[i].type = WrapType[p.parts[i].type] /\ parts[i].name = p.parts[i].name
  BY DEF Part
<1>4. t.kind = "STRUCT" /\ t.name = "" /\ t.parts = parts
  <2> HIDE DEF parts, t
  <2> QED
    BY <1>1 DEF Go
<1> HIDE DEF t
<1> QED
  BY <1>1, <1>2, <1>3, <1>4 DEF t

LEMMA WrappedOther ==
  ASSUME NEW p \in Types, WrapType[p] # Nil, p.kind \notin {"ARRAY", "STRUCT"}
  PROVE  LET t == WrapType[p]
         IN /\ t.kind = p.kind /\ t.parts = <<>> /\ DOMAIN t.parts = {}
            /\ t.name = IF p.kind = "ENUM" THEN p.name ELSE ""
            /\ p.kind = "ENUM" => p.name # "" /\ t = Go("ENUM", p.name, <<>>)
            /\ p.kind # "ENUM" => p.kind \in Scalars /\ t = Go(p.kind, "", <<>>)
<1> DEFINE t == WrapType[p]
<1>1. p \in Protos
  BY WrapNil DEF Types
<1>2. p.kind = "ENUM" => p.name # "" /\ t = Go("ENUM", p.name, <<>>)
  BY <1>1, WrapAt
<1>3. p.kind # "ENUM" => p.kind \in Scalars /\ t = Go(p.kind, "", <<>>)
  <2>1. p.kind # "ENUM" => t = TypeFromKind(p.kind)
    BY <1>1, WrapAt
  <2> QED
    BY <2>1, ScalarTypes
<1> HIDE DEF t
<1>4. \A k, n : t = Go(k, n, <<>>) => t.kind = k /\ t.name = n /\ t.parts = <<>>
  BY GoFields
<1>5. t.kind = p.kind /\ t.parts = <<>> /\ t.name = IF p.kind = "ENUM" THEN p.name ELSE ""
  BY <1>2, <1>3, <1>4
<1> QED
  BY <1>5, <1>2, <1>3, <1>4, Marks DEF t

LEMMA Wrapped ==
  ASSUME NEW p \in Types, WrapType[p] # Nil
  PROVE  /\ p \in Protos /\ WrapType[p].kind = p.kind
         /\ WrapType[p] # Panic /\ WrapType[p] # Failed
<1>1. p \in Protos
  BY WrapNil DEF Types
<1>2. WrapType[p].kind = p.kind
  <2>1. p.kind = "ARRAY" => WrapType[p].kind = p.kind
    BY WrappedArray
  <2>2. p.kind = "STRUCT" => WrapType[p].kind = p.kind
    BY WrappedStruct
  <2>3. p.kind \notin {"ARRAY", "STRUCT"} => WrapType[p].kind = p.kind
    BY WrappedOther
  <2> QED
    BY <2>1, <2>2, <2>3
<1>3. p.kind # "panic" /\ p.kind # "failed"
  BY <1>1, ProtosAssumption
<1> QED
  BY <1>1, <1>2, <1>3, Marks

(* What is below a type in Go was made of what is below the type it was made of. *)
LEMMA WrappedBelow ==
  ASSUME NEW p \in Types, NEW u \in GoBelow(WrapType[p])
  PROVE  \E q \in Below(p) : u = WrapType[q]
<1> DEFINE t == WrapType[p]
<1>1. t # Nil /\ u \in PartTypes(t)
  BY BelowNil DEF GoBelow
<1>2. PICK i \in DOMAIN t.parts : u = t.parts[i].type
  BY <1>1 DEF PartTypes
<1>3. p \in Protos
  BY <1>1, Wrapped
<1>4. CASE p.kind = "ARRAY"
  <2>1. u = WrapType[ElementType(p)]
    BY <1>1, <1>2, <1>4, WrappedArray
  <2> QED
    BY <1>3, <2>1, ProtoFacts
<1>5. CASE p.kind = "STRUCT"
  <2>1. i \in DOMAIN p.parts /\ u = WrapType[p.parts[i].type]
    BY <1>1, <1>2, <1>5, WrappedStruct
  <2> QED
    BY <1>3, <2>1, ProtoFacts
<1>6. CASE p.kind \notin {"ARRAY", "STRUCT"}
  BY <1>1, <1>2, <1>6, WrappedOther
<1> QED
  BY <1>4, <1>5, <1>6

LEMMA GoBelowTypes ==
  ASSUME NEW t \in GoTypes
  PROVE  GoBelow(t) \subseteq GoTypes
<1>1. PICK p \in Types : t = WrapType[p]
  BY DEF GoTypes
<1> QED
  BY <1>1, WrappedBelow, BelowTypes DEF GoTypes

LEMMA GoTypesFounded ==
  ASSUME NEW S \in SUBSET GoTypes, S # {}
  PROVE  \E t \in S : GoBelow(t) \intersect S = {}
<1> DEFINE P == {p \in Types : WrapType[p] \in S}
<1>1. P # {} /\ P \in SUBSET Types
  BY DEF GoTypes
<1>2. PICK p \in P : Below(p) \intersect P = {}
  <2> HIDE DEF P
  <2> QED
    BY <1>1, TypesFounded
<1>3. p \in Types /\ WrapType[p] \in S /\ \A q \in Below(p) : q \in Types /\ q \notin P
  BY <1>2, BelowTypes
<1>4. ASSUME NEW u \in GoBelow(WrapType[p]) PROVE u \notin S
  <2>1. PICK q \in Below(p) : u = WrapType[q]
    BY <1>3, WrappedBelow
  <2> QED
    BY <1>3, <2>1
<1> QED
  BY <1>3, <1>4

(* Every type in Go is Nil or has a kind of its own; an ARRAY has an element type. *)
LEMMA GoTypeFacts ==
  ASSUME NEW t \in GoTypes
  PROVE  /\ t # Panic /\ t # Failed
         /\ \A i \in DOMAIN t.parts : t.parts[i].type \in GoTypes /\ t.parts[i].type \in GoBelow(t)
         /\ t.kind = "ARRAY" => 1 \in DOMAIN t.parts /\ ElementType(t) = t.parts[1].type /\ ElementType(t) # Nil
<1>1. PICK p \in Types : t = WrapType[p]
  BY DEF GoTypes
<1>2. CASE t = Nil
  BY <1>2, Marks
<1>3. CASE t # Nil
  <2>1. t # Panic /\ t # Failed
    BY <1>1, <1>3, Wrapped
  <2>2. \A i \in DOMAIN t.parts : t.parts[i].type \in GoBelow(t)
    BY <1>3 DEF GoBelow, PartTypes
  <2>3. t.kind = "ARRAY" => /\ 1 \in DOMAIN t.parts /\ t.parts # <<>> /\ t.parts[1].type # Nil
    BY <1>1, <1>3, Wrapped, WrappedArray
  <2> QED
    BY <2>1, <2>2, <2>3, GoBelowTypes DEF ElementType
<1> QED
  BY <1>2, <1>3

-----------------------------------------------------------------------------
(* The same for the recursive functions over types in Go. *)

SendStep(f, t) ==
  IF t = Nil THEN Panic
  ELSE LET parts == [i \in DOMAIN t.parts |-> f[t.parts[i].type]]
       IN IF \E i \in DOMAIN parts : parts[i] = Panic THEN Panic
          ELSE Go(t.kind, t.name, [i \in DOMAIN parts |-> Part(t.parts[i].name, parts[i])])

ConvertStep(f, t) ==
  [v \in Values \union {NoValue} |->
     IF t = Nil \/ v = NoValue THEN NoValue
     ELSE IF v.of = "NULL" THEN NoValue
     ELSE CASE t.kind = "ARRAY" ->
                 LET elem  == t.parts[1].type
                     parts == PartsOf("ARRAY", v)
                 IN Held("ARRAY", <<>>, [i \in DOMAIN parts |-> Literal(elem, f[elem][parts[i]])])
            [] t.kind = "STRUCT" ->
                 LET parts == PartsOf("STRUCT", v)
                 IN IF ~SameFields(parts, t.parts) THEN NoValue
                    ELSE Held("STRUCT", <<>>, [i \in DOMAIN t.parts |->
                                              Literal(t.parts[i].type, f[t.parts[i].type][parts[i]])])
            [] OTHER -> Held(t.kind, GotOf(t.kind, v), <<>>)]

AtGoType(f, t) ==
  [sent      |-> SendStep([u \in GoTypes |-> f[u].sent], t),
   converted |-> ConvertStep([u \in GoTypes |-> f[u].converted], t)]

LEMMA GoStepsAskBelow ==
  ASSUME NEW t \in GoTypes, NEW f, NEW g, \A u \in GoBelow(t) : f[u] = g[u]
  PROVE  SendStep(f, t) = SendStep(g, t) /\ ConvertStep(f, t) = ConvertStep(g, t)
<1>1. \A i \in DOMAIN t.parts : f[t.parts[i].type] = g[t.parts[i].type]
  BY GoTypeFacts
<1>2. t.kind = "ARRAY" => f[t.parts[1].type] = g[t.parts[1].type]
  BY <1>1, GoTypeFacts
<1>3. SendStep(f, t) = SendStep(g, t)
  <2>1. [i \in DOMAIN t.parts |-> f[t.parts[i].type]] = [i \in DOMAIN t.parts |-> g[t.parts[i].type]]
    BY <1>1
  <2> QED
    BY <2>1, ZenonT(40) DEF SendStep
<1>4. ASSUME NEW v
      PROVE  [i \in DOMAIN t.parts |-> Literal(t.parts[i].type, f[t.parts[i].type][PartsOf("STRUCT", v)[i]])]
             = [i \in DOMAIN t.parts |-> Literal(t.parts[i].type, g[t.parts[i].type][PartsOf("STRUCT", v)[i]])]
  BY <1>1
<1>5. ConvertStep(f, t) = ConvertStep(g, t)
  <2>1. CASE t.kind = "ARRAY"
    BY <1>2, <2>1 DEF ConvertStep
  <2>2. CASE t.kind # "ARRAY"
    BY <1>4, <2>2 DEF ConvertStep
  <2> QED
    BY <2>1, <2>2
<1> QED
  BY <1>3, <1>5

LEMMA AtGoTypeAsksBelow ==
  ASSUME NEW t \in GoTypes, NEW f, NEW g, \A u \in GoBelow(t) : f[u] = g[u]
  PROVE  AtGoType(f, t) = AtGoType(g, t)
<1>1. \A u \in GoBelow(t) : u \in GoTypes
  BY GoBelowTypes
<1> DEFINE s(h) == [u \in GoTypes |-> h[u].sent]
           c(h) == [u \in GoTypes |-> h[u].converted]
<1>2. \A u \in GoBelow(t) : s(f)[u] = s(g)[u] /\ c(f)[u] = c(g)[u]
  BY <1>1
<1>3. /\ AtGoType(f, t) = [sent |-> SendStep(s(f), t), converted |-> ConvertStep(c(f), t)]
      /\ AtGoType(g, t) = [sent |-> SendStep(s(g), t), converted |-> ConvertStep(c(g), t)]
  BY DEF AtGoType
<1> HIDE DEF s, c
<1>4. SendStep(s(f), t) = SendStep(s(g), t)
  BY <1>2, GoStepsAskBelow
<1>5. ConvertStep(c(f), t) = ConvertStep(c(g), t)
  BY <1>2, GoStepsAskBelow
<1> QED
  BY <1>3, <1>4, <1>5

(* f has what belongs at every type of a set that holds what is below its own. *)
Sent(f, C) ==
  /\ C \subseteq GoTypes /\ \A p \in C : GoBelow(p) \subseteq C
  /\ f = [p \in C |-> AtGoType(f, p)]

LEMMA SentAt ==
  ASSUME NEW f, NEW C, Sent(f, C), NEW p \in C
  PROVE  f[p] = AtGoType(f, p)
<1> DEFINE h == [q \in C |-> AtGoType(f, q)]
<1>1. f = h
  BY DEF Sent
<1>2. h[p] = AtGoType(f, p)
  OBVIOUS
<1> HIDE DEF h
<1> QED
  BY <1>1, <1>2

(* Two such functions agree where both are defined. *)
LEMMA SentAgree ==
  ASSUME NEW f, NEW C, Sent(f, C), NEW g, NEW E, Sent(g, E)
  PROVE  \A p \in C \intersect E : f[p] = g[p]
<1> DEFINE S == {p \in C \intersect E : f[p] # g[p]}
<1>1. SUFFICES ASSUME S # {} PROVE FALSE
  OBVIOUS
<1>2. S \in SUBSET GoTypes
  BY DEF Sent
<1>3. PICK p \in S : GoBelow(p) \intersect S = {}
  <2> HIDE DEF S
  <2> QED
    BY <1>1, <1>2, GoTypesFounded
<1>4. p \in C /\ p \in E /\ p \in GoTypes /\ f[p] # g[p]
  BY <1>2
<1>5. \A q \in GoBelow(p) : f[q] = g[q]
  BY <1>3, <1>4 DEF Sent
<1>6. AtGoType(f, p) = AtGoType(g, p)
  BY <1>4, <1>5, AtGoTypeAsksBelow
<1>7. f[p] = AtGoType(f, p) /\ g[p] = AtGoType(g, p)
  BY <1>4, SentAt
<1> QED
  BY <1>4, <1>6, <1>7

(* Put together they reach every type: the first one left out could be added. *)
LEMMA SentExists == \E f : Sent(f, GoTypes)
<1> DEFINE Has(p, f) == \E C : p \in C /\ Sent(f, C)
           U == {p \in GoTypes : \E f : Has(p, f)}
           F == [p \in U |-> (CHOOSE f : Has(p, f))[p]]
<1>1. ASSUME NEW f, NEW C, Sent(f, C)
      PROVE  C \subseteq U /\ \A p \in C : F[p] = f[p]
  <2>1. \A p \in C : Has(p, f) /\ p \in GoTypes
    BY <1>1 DEF Sent
  <2>2. C \subseteq U
    BY <2>1
  <2>3. ASSUME NEW p \in C PROVE F[p] = f[p]
    <3> DEFINE g == CHOOSE h : Has(p, h)
    <3>1. F[p] = g[p]
      BY <2>2
    <3>2. Has(p, g)
      <4>1. \E h : Has(p, h)
        BY <2>1
      <4> HIDE DEF Has
      <4> QED
        BY <4>1
    <3> HIDE DEF g, F, U
    <3>3. PICK E : p \in E /\ Sent(g, E)
      BY <3>2
    <3>4. g[p] = f[p]
      BY <1>1, <3>3, SentAgree
    <3> QED
      BY <3>1, <3>4
  <2> HIDE DEF U, F
  <2> QED
    BY <2>2, <2>3
<1>2. ASSUME NEW p \in U PROVE \E f, C : p \in C /\ Sent(f, C)
  OBVIOUS
<1>3. U \subseteq GoTypes /\ F = [p \in U |-> F[p]]
  OBVIOUS
<1> HIDE DEF Has, U, F
<1>4. ASSUME NEW p \in U PROVE GoBelow(p) \subseteq U /\ F[p] = AtGoType(F, p)
  <2>1. PICK f, C : p \in C /\ Sent(f, C)
    BY <1>2
  <2>2. C \subseteq U /\ (\A q \in C : F[q] = f[q]) /\ GoBelow(p) \subseteq C
    BY <1>1, <2>1 DEF Sent
  <2>3. AtGoType(f, p) = AtGoType(F, p)
    BY <1>3, <2>2, AtGoTypeAsksBelow
  <2> QED
    BY <2>1, <2>2, <2>3, SentAt
<1>5. U = GoTypes
  <2>1. SUFFICES ASSUME GoTypes \ U # {} PROVE FALSE
    BY <1>3
  <2>2. PICK x \in GoTypes \ U : GoBelow(x) \intersect (GoTypes \ U) = {}
    BY <2>1, GoTypesFounded
  <2> DEFINE C == U \union {x}
             g == [p \in C |-> AtGoType(F, p)]
  <2>3. C \subseteq GoTypes /\ \A p \in C : GoBelow(p) \subseteq U
    BY <1>3, <1>4, <2>2, GoBelowTypes
  <2>4. \A p \in C : g[p] = AtGoType(F, p)
    OBVIOUS
  <2>5. g = [p \in C |-> g[p]] /\ U \subseteq C /\ x \in C
    OBVIOUS
  <2> HIDE DEF C, g
  <2>6. \A q \in U : F[q] = g[q]
    BY <1>4, <2>4, <2>5
  <2>7. \A p \in C : AtGoType(F, p) = AtGoType(g, p)
    BY <2>3, <2>6, AtGoTypeAsksBelow
  <2>8. g = [p \in C |-> AtGoType(g, p)]
    BY <2>4, <2>5, <2>7
  <2>9. Sent(g, C)
    BY <2>3, <2>5, <2>8 DEF Sent
  <2> QED
    BY <1>1, <2>2, <2>5, <2>9
<1>6. F = [p \in U |-> AtGoType(F, p)]
  BY <1>3, <1>4
<1>7. Sent(F, U)
  BY <1>3, <1>4, <1>6 DEF Sent
<1> QED
  BY <1>5, <1>7

LEMMA GoEquations ==
  /\ ToProto = [t \in GoTypes |-> SendStep(ToProto, t)]
  /\ ConvertValue = [t \in GoTypes |-> ConvertStep(ConvertValue, t)]
<1>1. PICK F : Sent(F, GoTypes)
  BY SentExists
<1> DEFINE s == [t \in GoTypes |-> F[t].sent]
           c == [t \in GoTypes |-> F[t].converted]
<1>2. ASSUME NEW t \in GoTypes
      PROVE  s[t] = SendStep(s, t) /\ c[t] = ConvertStep(c, t)
  <2>1. F[t] = AtGoType(F, t)
    BY <1>1, SentAt
  <2>2. AtGoType(F, t) = [sent |-> SendStep(s, t), converted |-> ConvertStep(c, t)]
    BY DEF AtGoType
  <2>3. s[t] = F[t].sent /\ c[t] = F[t].converted
    OBVIOUS
  <2> HIDE DEF s, c
  <2> QED
    BY <2>1, <2>2, <2>3
<1>3. s = [t \in GoTypes |-> s[t]] /\ c = [t \in GoTypes |-> c[t]]
  OBVIOUS
<1> HIDE DEF s, c
<1>4. s = [t \in GoTypes |-> SendStep(s, t)]
  BY <1>2, <1>3
<1>5. c = [t \in GoTypes |-> ConvertStep(c, t)]
  BY <1>2, <1>3
<1>6. ToProto = [t \in GoTypes |-> SendStep(ToProto, t)]
  <2>1. ToProto = CHOOSE f : f = [t \in GoTypes |-> SendStep(f, t)]
    BY DEF ToProto, SendStep
  <2> QED
    BY <1>4, <2>1, Zenon
<1>7. ConvertValue = [t \in GoTypes |-> ConvertStep(ConvertValue, t)]
  <2>1. ConvertValue = CHOOSE f : f = [t \in GoTypes |-> ConvertStep(f, t)]
    BY DEF ConvertValue, ConvertStep
  <2> QED
    BY <1>5, <2>1, Zenon
<1> QED
  BY <1>6, <1>7

LEMMA GoEquationsAt ==
  ASSUME NEW t \in GoTypes
  PROVE  ToProto[t] = SendStep(ToProto, t) /\ ConvertValue[t] = ConvertStep(ConvertValue, t)
<1> DEFINE s == [u \in GoTypes |-> SendStep(ToProto, u)]
           c == [u \in GoTypes |-> ConvertStep(ConvertValue, u)]
<1>1. ToProto = s /\ ConvertValue = c
  BY GoEquations
<1>2. s[t] = SendStep(ToProto, t) /\ c[t] = ConvertStep(ConvertValue, t)
  OBVIOUS
<1> HIDE DEF s, c
<1> QED
  BY <1>1, <1>2, Zenon

-----------------------------------------------------------------------------
(* What the properties say of a type, from what they say of its parts. *)

LEMMA Empty == \A f : DOMAIN f = {} /\ f = [i \in DOMAIN f |-> f[i]] => f = <<>>
<1> SUFFICES ASSUME NEW f, DOMAIN f = {}, f = [i \in DOMAIN f |-> f[i]] PROVE f = <<>>
  OBVIOUS
<1>1. <<>> \in Seq({}) /\ Len(<<>>) = 0 /\ DOMAIN <<>> = {}
  BY EmptySeq, Marks
<1>2. <<>> = [i \in DOMAIN <<>> |-> <<>>[i]]
  BY <1>1
<1> QED
  BY <1>1, <1>2

(* What is in an ARRAY is its element type, and in a STRUCT the types of the fields. *)
LEMMA Parts ==
  ASSUME NEW p \in Types
  PROVE  /\ p.kind = "ARRAY" /\ p.has => PartTypes(p) = {ElementType(p)}
         /\ p.kind = "ARRAY" /\ ~p.has => p.parts = <<>> /\ PartTypes(p) = {} /\ ElementType(p) = Nil
         /\ p.kind \notin {"ARRAY", "STRUCT"} => p.parts = <<>> /\ PartTypes(p) = {}
         /\ \A q \in PartTypes(p) : q \in Below(p) /\ q \in Types
         /\ p.kind = "ARRAY" => ElementType(p) \in Below(p) /\ ElementType(p) \in Types
<1>1. CASE p = Nil
  BY <1>1, Marks DEF PartTypes
<1>2. CASE p \in Protos
  <2>1. /\ p.parts \in Seq([name : STRING, type : Types])
        /\ p.parts # <<>> => p.has /\ p.kind \in {"ARRAY", "STRUCT"}
        /\ p.kind = "ARRAY" => Len(p.parts) = IF p.has THEN 1 ELSE 0
    BY <1>2, ProtosAssumption
  <2>2. p.parts = <<>> => PartTypes(p) = {} /\ ElementType(p) = Nil
    BY Marks DEF PartTypes, ElementType
  <2>3. p.kind = "ARRAY" /\ p.has => PartTypes(p) = {ElementType(p)}
    <3>1. SUFFICES ASSUME p.kind = "ARRAY", p.has PROVE PartTypes(p) = {ElementType(p)}
      OBVIOUS
    <3>2. Len(p.parts) = 1
      BY <2>1, <3>1
    <3>3. DOMAIN p.parts = {1}
      BY <2>1, <3>2, SeqFacts
    <3>4. p.parts # <<>>
      BY <3>3, Marks
    <3> QED
      BY <3>3, <3>4 DEF PartTypes, ElementType
  <2>4. p.kind = "ARRAY" /\ ~p.has => p.parts = <<>>
    BY <2>1
  <2>5. \A q \in PartTypes(p) : q \in Below(p) /\ q \in Types
    BY <1>2, ProtoFacts DEF PartTypes
  <2> QED
    BY <1>2, <2>1, <2>2, <2>3, <2>4, <2>5, ProtoFacts
<1> QED
  BY <1>1, <1>2 DEF Types

LEMMA InsideAt ==
  ASSUME NEW p \in Types
  PROVE  \A r : r \in Inside[p] <=> r = p \/ \E q \in PartTypes(p) : r \in Inside[q]
<1>1. Inside[p] = {p} \union UNION {Inside[q] : q \in PartTypes(p)}
  BY EquationsAt DEF InsideStep
<1> QED
  BY <1>1

LEMMA PropertiesAt ==
  ASSUME NEW p \in Types
  PROVE  /\ Whole(p) <=> Formed(p) /\ \A q \in PartTypes(p) : Whole(q)
         /\ Holed(p) <=> \/ p.kind = "STRUCT" /\ \E q \in PartTypes(p) : ~Wrappable(q)
                         \/ \E q \in PartTypes(p) : Holed(q)
         /\ Described(p) <=> p.file # "" \/ \E q \in PartTypes(p) : Described(q)
         /\ Strict(p) <=> /\ Formed(p) /\ Supported(p) /\ ~(p.kind = "ARRAY" /\ ElementType(p).kind = "ARRAY")
                          /\ \A q \in PartTypes(p) : Strict(q)
<1>1. \A r : r \in Inside[p] <=> r = p \/ \E q \in PartTypes(p) : r \in Inside[q]
  BY InsideAt
<1>2. Whole(p) <=> Formed(p) /\ \A q \in PartTypes(p) : Whole(q)
  BY <1>1, Zenon DEF Whole
<1>3. Holed(p) <=> \/ p.kind = "STRUCT" /\ \E q \in PartTypes(p) : ~Wrappable(q)
                   \/ \E q \in PartTypes(p) : Holed(q)
  BY <1>1, Zenon DEF Holed
<1>4. Strict(p) <=> /\ Formed(p) /\ Supported(p) /\ ~(p.kind = "ARRAY" /\ ElementType(p).kind = "ARRAY")
                    /\ \A q \in PartTypes(p) : Strict(q)
  BY <1>1, Zenon DEF Strict
<1>5. Described(p) <=> p.file # "" \/ \E q \in PartTypes(p) : Described(q)
  BY <1>1, Zenon DEF Described
<1> QED
  BY <1>2, <1>3, <1>4, <1>5

LEMMA WrappableAt ==
  ASSUME NEW p \in Types
  PROVE  /\ p.kind = "ARRAY" => (Wrappable(p) <=> Wrappable(ElementType(p)))
         /\ p.kind # "ARRAY" => (Wrappable(p) <=> Supported(p))
<1>1. Innermost[p] = IF p.kind = "ARRAY" THEN Innermost[ElementType(p)] ELSE p
  BY EquationsAt DEF InnermostStep
<1> QED
  BY <1>1 DEF Wrappable

(* What is supported by its kind. *)
LEMMA SupportedByKind ==
  ASSUME NEW p
  PROVE  /\ p.kind \in {"ARRAY", "STRUCT"} => Supported(p)
         /\ p.kind = "ENUM" => (Supported(p) <=> p.name # "")
         /\ p.kind \notin {"ARRAY", "STRUCT", "ENUM"} => (Supported(p) <=> p.kind \in Scalars)
<1>1. "ENUM" \notin Scalars
  BY KindsAssumption DEF Composite
<1> QED
  BY <1>1 DEF Supported

LEMMA NilIsNone == ~Supported(Nil) /\ ~Wrappable(Nil) /\ ~Formed(Nil)
<1>1. "nil" \notin Scalars
  BY KindsAssumption
<1>2. ~Supported(Nil)
  BY <1>1, Marks DEF Supported
<1> QED
  BY <1>2, Marks, WrappableAt DEF Formed

-----------------------------------------------------------------------------
(* WrapType leaves out the types that are not wrappable, and no others. *)

WrapsRight(p) == WrapType[p] = Nil <=> ~Wrappable(p)

LEMMA WrapsRightStep ==
  ASSUME NEW p \in Types, \A q \in Below(p) : WrapsRight(q)
  PROVE  WrapsRight(p)
<1>1. CASE p = Nil
  BY <1>1, WrapNil, NilIsNone DEF WrapsRight
<1>2. CASE p \in Protos /\ p.kind = "ARRAY"
  <2>1. WrapType[ElementType(p)] = Nil <=> ~Wrappable(ElementType(p))
    BY <1>2, Parts DEF WrapsRight
  <2>2. WrapType[p] = IF WrapType[ElementType(p)] = Nil THEN Nil ELSE Go("ARRAY", "", <<Part("", WrapType[ElementType(p)])>>)
    BY <1>2, WrapAt DEF WrapArray
  <2>3. WrapType[p] = Nil <=> WrapType[ElementType(p)] = Nil
    BY <2>2, GoIsThere
  <2> QED
    BY <1>2, <2>1, <2>3, WrappableAt DEF WrapsRight
<1>3. CASE p \in Protos /\ p.kind = "STRUCT"
  <2>1. WrapType[p] # Nil
    BY <1>3, WrapAt, GoIsThere
  <2> QED
    BY <1>3, <2>1, WrappableAt, SupportedByKind DEF WrapsRight
<1>4. CASE p \in Protos /\ p.kind = "ENUM"
  <2>1. WrapType[p] = Nil <=> p.name = ""
    BY <1>4, WrapAt, GoIsThere
  <2> QED
    BY <1>4, <2>1, WrappableAt, SupportedByKind DEF WrapsRight
<1>5. CASE p \in Protos /\ p.kind \notin {"ARRAY", "STRUCT", "ENUM"}
  <2>1. WrapType[p] = Nil <=> p.kind \notin Scalars
    BY <1>5, WrapAt, ScalarTypes
  <2> QED
    BY <1>5, <2>1, WrappableAt, SupportedByKind DEF WrapsRight
<1> QED
  BY <1>1, <1>2, <1>3, <1>4, <1>5 DEF Types

LEMMA WrapsOnlyWrappable == \A p \in Types : WrapType[p] = Nil <=> ~Wrappable(p)
<1> DEFINE Bad == {p \in Types : ~WrapsRight(p)}
<1>1. Bad = {}
  <2>1. SUFFICES ASSUME Bad # {} PROVE FALSE
    OBVIOUS
  <2>2. PICK p \in Bad : Below(p) \intersect Bad = {}
    BY <2>1, TypesFounded
  <2>3. \A q \in Below(p) : WrapsRight(q)
    BY <2>2, BelowTypes
  <2> QED
    BY <2>2, <2>3, WrapsRightStep
<1> QED
  BY <1>1 DEF WrapsRight

-----------------------------------------------------------------------------
(* ToProto panics on the types with a hole, and gives the others back. *)

LEMMA SendAt ==
  ASSUME NEW t \in GoTypes, t # Nil
  PROVE  ToProto[t] = IF \E i \in DOMAIN t.parts : ToProto[t.parts[i].type] = Panic THEN Panic
                      ELSE Go(t.kind, t.name, [i \in DOMAIN t.parts |-> Part(t.parts[i].name, ToProto[t.parts[i].type])])
<1> DEFINE sent  == [i \in DOMAIN t.parts |-> ToProto[t.parts[i].type]]
           parts == [i \in DOMAIN t.parts |-> Part(t.parts[i].name, ToProto[t.parts[i].type])]
<1>1. DOMAIN sent = DOMAIN t.parts /\ \A i \in DOMAIN t.parts : sent[i] = ToProto[t.parts[i].type]
  OBVIOUS
<1>2. [i \in DOMAIN sent |-> Part(t.parts[i].name, sent[i])] = parts
  OBVIOUS
<1>3. ToProto[t] = IF \E i \in DOMAIN sent : sent[i] = Panic THEN Panic
                   ELSE Go(t.kind, t.name, [i \in DOMAIN sent |-> Part(t.parts[i].name, sent[i])])
  BY GoEquationsAt DEF SendStep
<1> HIDE DEF sent, parts
<1> QED
  BY <1>1, <1>2, <1>3 DEF parts

LEMMA SendPanics ==
  ASSUME NEW t \in GoTypes, t # Nil, \E i \in DOMAIN t.parts : ToProto[t.parts[i].type] = Panic
  PROVE  ToProto[t] = Panic
BY SendAt

LEMMA SendGives ==
  ASSUME NEW t \in GoTypes, t # Nil, \A i \in DOMAIN t.parts : ToProto[t.parts[i].type] # Panic
  PROVE  /\ ToProto[t] = Go(t.kind, t.name, [i \in DOMAIN t.parts |-> Part(t.parts[i].name, ToProto[t.parts[i].type])])
         /\ ToProto[t] # Panic
<1> DEFINE parts == [i \in DOMAIN t.parts |-> Part(t.parts[i].name, ToProto[t.parts[i].type])]
           k == t.kind
           n == t.name
<1>1. ToProto[t] = Go(k, n, parts)
  BY SendAt
<1>2. Proper(k)
  <2>1. PICK p \in Types : t = WrapType[p]
    BY DEF GoTypes
  <2>2. t.kind = p.kind /\ p \in Protos
    BY <2>1, Wrapped
  <2> QED
    BY <2>2, ProtosAssumption DEF Proper
<1> HIDE DEF parts, k, n
<1>3. Go(k, n, parts) # Panic
  BY <1>2, GoIsNoMark, Zenon
<1> QED
  BY <1>1, <1>3 DEF parts, k, n

(* What is left of a message without the files of its ENUMs, and that it is all of it if there are none. *)
LEMMA BareAt ==
  ASSUME NEW p \in Types, NEW parts, parts = [i \in DOMAIN p.parts |-> Part(p.parts[i].name, Bare[p.parts[i].type])]
  PROVE  /\ Bare[p] = [kind |-> p.kind, has |-> p.has, name |-> p.name, file |-> "", parts |-> parts]
         /\ p \in Protos => p.parts = [i \in DOMAIN p.parts |-> Part(p.parts[i].name, p.parts[i].type)]
<1>1. Bare[p] = [kind |-> p.kind, has |-> p.has, name |-> p.name, file |-> "", parts |-> parts]
  BY EquationsAt, Zenon DEF BareStep
<1>2. p \in Protos => p.parts = [i \in DOMAIN p.parts |-> Part(p.parts[i].name, p.parts[i].type)]
  <2>1. SUFFICES ASSUME p \in Protos PROVE p.parts = [i \in DOMAIN p.parts |-> Part(p.parts[i].name, p.parts[i].type)]
    OBVIOUS
  <2>2. p.parts \in Seq([name : STRING, type : Types])
    BY <2>1, ProtosAssumption
  <2>3. /\ p.parts = [i \in DOMAIN p.parts |-> p.parts[i]]
        /\ \A i \in DOMAIN p.parts : p.parts[i] \in [name : STRING, type : Types]
    BY <2>2, SeqFacts, SeqIsFunction
  <2>4. \A i \in DOMAIN p.parts : p.parts[i] = Part(p.parts[i].name, p.parts[i].type)
    BY <2>3 DEF Part
  <2> QED
    BY <2>3, <2>4
<1> QED
  BY <1>1, <1>2, Zenon

BareRight(p) == Bare[p] = p <=> ~Described(p)

LEMMA BareRightStep ==
  ASSUME NEW p \in Types, \A q \in Below(p) : BareRight(q)
  PROVE  BareRight(p)
<1> DEFINE parts == [i \in DOMAIN p.parts |-> Part(p.parts[i].name, Bare[p.parts[i].type])]
<1>1. Described(p) <=> p.file # "" \/ \E i \in DOMAIN p.parts : Described(p.parts[i].type)
  <2>1. Described(p) <=> p.file # "" \/ \E q \in PartTypes(p) : Described(q)
    BY PropertiesAt
  <2> QED
    BY <2>1 DEF PartTypes
<1>2. CASE p = Nil
  <2>1. DOMAIN p.parts = {} /\ p.parts = <<>> /\ p.file = "" /\ parts = <<>>
    <3>1. DOMAIN parts = {} /\ parts = [i \in DOMAIN parts |-> parts[i]]
      BY <1>2, Marks
    <3> HIDE DEF parts
    <3> QED
      BY <1>2, <3>1, Marks, Empty
  <2>2. Bare[p] = [kind |-> p.kind, has |-> p.has, name |-> p.name, file |-> "", parts |-> parts]
    BY BareAt
  <2>3. p = [kind |-> p.kind, has |-> p.has, name |-> p.name, file |-> p.file, parts |-> p.parts]
    BY <1>2 DEF Nil, InPlaceOfType
  <2> HIDE DEF parts
  <2>4. Bare[p] = p
    BY <2>1, <2>2, <2>3, Zenon
  <2> QED
    BY <1>1, <2>1, <2>4 DEF BareRight
<1>3. CASE p \in Protos
  <2>1. /\ Bare[p] = [kind |-> p.kind, has |-> p.has, name |-> p.name, file |-> "", parts |-> parts]
        /\ p.parts = [i \in DOMAIN p.parts |-> Part(p.parts[i].name, p.parts[i].type)]
    BY <1>3, BareAt
  <2>2. \A i \in DOMAIN p.parts : Bare[p.parts[i].type] = p.parts[i].type <=> ~Described(p.parts[i].type)
    BY <1>3, ProtoFacts DEF BareRight
  <2>3. ASSUME ~Described(p) PROVE Bare[p] = p
    <3>1. p.file = "" /\ \A i \in DOMAIN p.parts : Bare[p.parts[i].type] = p.parts[i].type
      BY <1>1, <2>2, <2>3
    <3>2. parts = p.parts
      BY <2>1, <3>1
    <3>3. p = [kind |-> p.kind, has |-> p.has, name |-> p.name, file |-> p.file, parts |-> p.parts]
      BY <1>3, ProtosAssumption
    <3> HIDE DEF parts
    <3> QED
      BY <2>1, <3>1, <3>2, <3>3, Zenon
  <2>4. ASSUME Bare[p] = p PROVE ~Described(p)
    <3>1. p.file = "" /\ p.parts = parts
      <4> HIDE DEF parts
      <4> DEFINE k == p.kind
                 h == p.has
                 n == p.name
      <4>1. p = [kind |-> k, has |-> h, name |-> n, file |-> "", parts |-> parts]
        BY <2>1, <2>4, Zenon
      <4> HIDE DEF k, h, n
      <4> QED
        BY <4>1
    <3>2. \A i \in DOMAIN p.parts : p.parts[i].type = Bare[p.parts[i].type]
      <4>1. \A i \in DOMAIN p.parts : parts[i].type = Bare[p.parts[i].type]
        BY DEF Part
      <4> QED
        BY <3>1, <4>1
    <3> QED
      BY <1>1, <2>2, <3>1, <3>2
  <2> QED
    BY <2>3, <2>4 DEF BareRight
<1> QED
  BY <1>2, <1>3 DEF Types

LEMMA BareIsAll == \A p \in Types : Bare[p] = p <=> ~Described(p)
<1> DEFINE Bad == {p \in Types : ~BareRight(p)}
<1>1. Bad = {}
  <2>1. SUFFICES ASSUME Bad # {} PROVE FALSE
    OBVIOUS
  <2>2. PICK p \in Bad : Below(p) \intersect Bad = {}
    BY <2>1, TypesFounded
  <2>3. \A q \in Below(p) : BareRight(q)
    BY <2>2, BelowTypes
  <2> QED
    BY <2>2, <2>3, BareRightStep
<1> QED
  BY <1>1 DEF BareRight

(* A message that is there is what its kind, name and parts say, but for its files. *)
LEMMA BareIsGo ==
  ASSUME NEW p \in Protos, Formed(p), Supported(p)
  PROVE  /\ Bare[p] = Go(p.kind, p.name, [i \in DOMAIN p.parts |-> Part(p.parts[i].name, Bare[p.parts[i].type])])
         /\ p.kind # "ENUM" => p.name = ""
<1> DEFINE parts == [i \in DOMAIN p.parts |-> Part(p.parts[i].name, Bare[p.parts[i].type])]
<1>1. /\ Bare[p] = [kind |-> p.kind, has |-> p.has, name |-> p.name, file |-> "", parts |-> parts]
      /\ p.has \in BOOLEAN
  BY ProtosAssumption, ProtoFacts, BareAt
<1>2. p.kind \in Composite => p.has
  <2>1. "PROTO" \notin Scalars /\ "EXTENDED" \notin Scalars
    BY KindsAssumption DEF Composite
  <2> QED
    BY <2>1 DEF Formed, Supported, Composite
<1>3. p.has = (p.kind \in Composite)
  <2>1. p.has => p.kind \in Composite
    BY ProtosAssumption
  <2>2. CASE p.has
    BY <1>1, <1>2, <2>1, <2>2, Zenon
  <2>3. CASE ~p.has
    <3>1. p.has = FALSE /\ p.kind \notin Composite
      BY <1>1, <1>2, <2>3
    <3>2. (p.kind \in Composite) = FALSE
      BY <3>1
    <3> QED
      BY <3>1, <3>2, Zenon
  <2> QED
    BY <2>2, <2>3
<1>4. Bare[p] = Go(p.kind, p.name, parts)
  BY <1>1, <1>3, Zenon DEF Go
<1>5. p.kind # "ENUM" => p.name = ""
  BY ProtosAssumption
<1> QED
  BY <1>4, <1>5

SendsRight(p) ==
  Wrappable(p) => /\ ToProto[WrapType[p]] = Panic <=> Holed(p)
                  /\ ~Holed(p) /\ Whole(p) => ToProto[WrapType[p]] = Bare[p]

LEMMA SendNil == ToProto[Nil] = Panic
<1>1. Nil \in GoTypes
  BY WrapNil, Marks DEF GoTypes
<1> QED
  BY <1>1, GoEquationsAt DEF SendStep

LEMMA SendsArray ==
  ASSUME NEW p \in Types, \A q \in Below(p) : SendsRight(q), Wrappable(p), p.kind = "ARRAY",
         NEW t \in GoTypes, t = WrapType[p]
  PROVE  /\ ToProto[t] = Panic <=> Holed(p)
         /\ ~Holed(p) /\ Whole(p) => ToProto[t] = Bare[p]
<1> DEFINE e == ElementType(p)
           w == WrapType[e]
           back == ToProto[w]
<1>1. p \in Protos /\ t # Nil
  BY WrapsOnlyWrappable, Wrapped
<1>2. e \in Types /\ e \in Below(p) /\ Wrappable(e)
  BY Parts, WrappableAt
<1>3. (back = Panic <=> Holed(e)) /\ (~Holed(e) /\ Whole(e) => back = Bare[e])
  BY <1>2 DEF SendsRight
<1>4. PartTypes(p) = {e} /\ p.has
  BY <1>2, Parts, NilIsNone
<1>5. Holed(p) <=> Holed(e)
  BY <1>4, PropertiesAt
<1>6. t.kind = "ARRAY" /\ t.name = "" /\ DOMAIN t.parts = {1} /\ t.parts[1].type = w /\ t.parts[1].name = ""
  BY <1>1, WrappedArray
<1>7. back = Panic => ToProto[t] = Panic
  BY <1>1, <1>6, SendPanics
<1>8. back # Panic => ToProto[t] = Go("ARRAY", "", [i \in {1} |-> Part("", back)]) /\ ToProto[t] # Panic
  <2>1. [i \in DOMAIN t.parts |-> Part(t.parts[i].name, ToProto[t.parts[i].type])] = [i \in {1} |-> Part("", back)]
    BY <1>6
  <2>2. back # Panic => \A i \in DOMAIN t.parts : ToProto[t.parts[i].type] # Panic
    BY <1>6
  <2> HIDE DEF back
  <2> QED
    BY <1>1, <1>6, <2>1, <2>2, SendGives
<1>9. ~Holed(p) /\ Whole(p) => ToProto[t] = Bare[p]
  <2>1. SUFFICES ASSUME ~Holed(p), Whole(p) PROVE ToProto[t] = Bare[p]
    OBVIOUS
  <2>2. Formed(p) /\ Supported(p) /\ Whole(e)
    BY <1>4, <2>1, PropertiesAt, SupportedByKind
  <2>3. back = Bare[e] /\ back # Panic
    BY <1>3, <1>5, <2>1, <2>2
  <2>4. Bare[p] = Go("ARRAY", "", [i \in DOMAIN p.parts |-> Part(p.parts[i].name, Bare[p.parts[i].type])])
    BY <1>1, <2>2, BareIsGo
  <2>5. DOMAIN p.parts = {1} /\ p.parts[1].name = "" /\ p.parts[1].type = e
    <3>1. Len(p.parts) = 1 /\ \A i \in DOMAIN p.parts : p.parts[i].name = ""
      BY <1>1, <1>4, ProtosAssumption
    <3>2. DOMAIN p.parts = 1 .. 1
      BY <1>1, <3>1, ProtoFacts
    <3>3. DOMAIN p.parts = {1}
      BY <3>2
    <3>4. p.parts # <<>>
      BY <3>3, Marks
    <3> QED
      BY <3>1, <3>3, <3>4 DEF ElementType
  <2>6. [i \in DOMAIN p.parts |-> Part(p.parts[i].name, Bare[p.parts[i].type])] = [i \in {1} |-> Part("", Bare[e])]
    BY <2>5
  <2> HIDE DEF back, e
  <2>7. ToProto[t] = Go("ARRAY", "", [i \in {1} |-> Part("", Bare[e])])
    BY <1>8, <2>3
  <2> QED
    BY <2>4, <2>6, <2>7, Zenon
<1> QED
  BY <1>3, <1>5, <1>7, <1>8, <1>9

LEMMA SendsStruct ==
  ASSUME NEW p \in Types, \A q \in Below(p) : SendsRight(q), Wrappable(p), p.kind = "STRUCT",
         NEW t \in GoTypes, t = WrapType[p]
  PROVE  /\ ToProto[t] = Panic <=> Holed(p)
         /\ ~Holed(p) /\ Whole(p) => ToProto[t] = Bare[p]
<1> DEFINE back(i) == ToProto[WrapType[p.parts[i].type]]
           parts   == [i \in DOMAIN p.parts |-> Part(p.parts[i].name, back(i))]
<1>1. p \in Protos /\ t # Nil
  BY WrapsOnlyWrappable, Wrapped
<1>2. /\ t.kind = "STRUCT" /\ t.name = "" /\ DOMAIN t.parts = DOMAIN p.parts
      /\ \A i \in DOMAIN p.parts : t.parts[i].type = WrapType[p.parts[i].type] /\ t.parts[i].name = p.parts[i].name
  BY <1>1, WrappedStruct
<1>3. ASSUME NEW i \in DOMAIN p.parts
      PROVE  /\ back(i) = Panic <=> ~Wrappable(p.parts[i].type) \/ Holed(p.parts[i].type)
             /\ back(i) # Panic /\ Whole(p.parts[i].type) => back(i) = Bare[p.parts[i].type]
  <2>1. p.parts[i].type \in Below(p) /\ p.parts[i].type \in Types
    BY <1>1, ProtoFacts
  <2>2. CASE Wrappable(p.parts[i].type)
    BY <2>1, <2>2 DEF SendsRight
  <2>3. CASE ~Wrappable(p.parts[i].type)
    <3>1. WrapType[p.parts[i].type] = Nil
      BY <2>1, <2>3, WrapsOnlyWrappable
    <3> QED
      BY <2>3, <3>1, SendNil
  <2> QED
    BY <2>2, <2>3
<1>4. Holed(p) <=> \E i \in DOMAIN p.parts : ~Wrappable(p.parts[i].type) \/ Holed(p.parts[i].type)
  <2>1. Holed(p) <=> \E q \in PartTypes(p) : ~Wrappable(q) \/ Holed(q)
    BY PropertiesAt
  <2> QED
    BY <2>1 DEF PartTypes
<1>5. (\E i \in DOMAIN p.parts : back(i) = Panic) => ToProto[t] = Panic
  BY <1>1, <1>2, SendPanics
<1>6. (\A i \in DOMAIN p.parts : back(i) # Panic) => ToProto[t] = Go("STRUCT", "", parts) /\ ToProto[t] # Panic
  <2>1. [i \in DOMAIN t.parts |-> Part(t.parts[i].name, ToProto[t.parts[i].type])] = parts
    BY <1>2
  <2>2. \A i \in DOMAIN t.parts : i \in DOMAIN p.parts /\ ToProto[t.parts[i].type] = back(i)
    BY <1>2
  <2>3. ASSUME \A i \in DOMAIN p.parts : back(i) # Panic
        PROVE  ToProto[t] = Go("STRUCT", "", parts) /\ ToProto[t] # Panic
    <3> HIDE DEF back, parts
    <3>1. \A i \in DOMAIN t.parts : ToProto[t.parts[i].type] # Panic
      BY <2>2, <2>3
    <3>2. ToProto[t] = Go(t.kind, t.name, parts) /\ ToProto[t] # Panic
      BY <1>1, <2>1, <3>1, SendGives
    <3> QED
      BY <1>2, <3>2
  <2> QED
    BY <2>3
<1>7. ~Holed(p) /\ Whole(p) => ToProto[t] = Bare[p]
  <2>1. SUFFICES ASSUME ~Holed(p), Whole(p) PROVE ToProto[t] = Bare[p]
    OBVIOUS
  <2>2. Formed(p) /\ Supported(p) /\ \A q \in PartTypes(p) : Whole(q)
    BY <2>1, PropertiesAt, SupportedByKind
  <2>3. \A i \in DOMAIN p.parts : Whole(p.parts[i].type)
    BY <2>2 DEF PartTypes
  <2>4. Bare[p] = Go("STRUCT", "", [i \in DOMAIN p.parts |-> Part(p.parts[i].name, Bare[p.parts[i].type])])
    BY <1>1, <2>2, BareIsGo
  <2> HIDE DEF back
  <2>5. \A i \in DOMAIN p.parts : back(i) # Panic /\ back(i) = Bare[p.parts[i].type]
    BY <1>3, <1>4, <2>1, <2>3
  <2>6. [i \in DOMAIN p.parts |-> Part(p.parts[i].name, Bare[p.parts[i].type])] = parts
    BY <2>5
  <2> HIDE DEF parts
  <2>7. ToProto[t] = Go("STRUCT", "", parts)
    BY <1>6, <2>5
  <2> QED
    BY <2>4, <2>6, <2>7, Zenon
<1> HIDE DEF back
<1> QED
  BY <1>3, <1>4, <1>5, <1>6, <1>7

LEMMA SendsOther ==
  ASSUME NEW p \in Types, Wrappable(p), p.kind \notin {"ARRAY", "STRUCT"}, NEW t \in GoTypes, t = WrapType[p]
  PROVE  /\ ToProto[t] = Panic <=> Holed(p)
         /\ ~Holed(p) /\ Whole(p) => ToProto[t] = Bare[p]
<1>1. p \in Protos /\ t # Nil
  BY WrapsOnlyWrappable, Wrapped
<1>2. /\ t.kind = p.kind /\ DOMAIN t.parts = {} /\ p.parts = <<>> /\ PartTypes(p) = {}
      /\ t.name = IF p.kind = "ENUM" THEN p.name ELSE ""
  BY <1>1, WrappedOther, Parts
<1>3. ToProto[t] = Go(t.kind, t.name, <<>>) /\ ToProto[t] # Panic
  <2> DEFINE parts == [i \in DOMAIN t.parts |-> Part(t.parts[i].name, ToProto[t.parts[i].type])]
  <2>1. parts = <<>>
    <3>1. DOMAIN parts = {} /\ parts = [i \in DOMAIN parts |-> parts[i]]
      BY <1>2
    <3> HIDE DEF parts
    <3> QED
      BY <3>1, Empty
  <2>2. ToProto[t] = Go(t.kind, t.name, parts) /\ ToProto[t] # Panic
    BY <1>1, <1>2, SendGives
  <2> QED
    BY <2>1, <2>2
<1>4. ~Holed(p)
  BY <1>2, PropertiesAt
<1>5. Whole(p) => ToProto[t] = Bare[p]
  <2>1. SUFFICES ASSUME Whole(p) PROVE ToProto[t] = Bare[p]
    OBVIOUS
  <2>2. Formed(p) /\ Supported(p)
    BY <2>1, PropertiesAt, WrappableAt
  <2> DEFINE parts == [i \in DOMAIN p.parts |-> Part(p.parts[i].name, Bare[p.parts[i].type])]
  <2>3. Bare[p] = Go(p.kind, p.name, <<>>) /\ (p.kind # "ENUM" => p.name = "")
    <3>1. Bare[p] = Go(p.kind, p.name, parts) /\ (p.kind # "ENUM" => p.name = "")
      BY <1>1, <2>2, BareIsGo
    <3>2. DOMAIN parts = {} /\ parts = [i \in DOMAIN parts |-> parts[i]]
      BY <1>2, Marks
    <3> HIDE DEF parts
    <3> QED
      BY <3>1, <3>2, Empty
  <2>4. t.name = p.name
    BY <1>2, <2>3
  <2> QED
    BY <1>2, <1>3, <2>3, <2>4
<1> QED
  BY <1>3, <1>4, <1>5

LEMMA SendsBack ==
  ASSUME NEW p \in Types, Wrappable(p)
  PROVE  /\ ToProto[WrapType[p]] = Panic <=> Holed(p)
         /\ ~Holed(p) /\ Whole(p) => ToProto[WrapType[p]] = Bare[p]
<1> DEFINE Bad == {q \in Types : ~SendsRight(q)}
<1>1. Bad = {}
  <2>1. SUFFICES ASSUME Bad # {} PROVE FALSE
    OBVIOUS
  <2>2. PICK q \in Bad : Below(q) \intersect Bad = {}
    BY <2>1, TypesFounded
  <2>3. \A r \in Below(q) : SendsRight(r)
    BY <2>2, BelowTypes
  <2>4. q \in Types /\ ~SendsRight(q)
    BY <2>2
  <2>5. Wrappable(q) /\ WrapType[q] \in GoTypes
    BY <2>4 DEF SendsRight, GoTypes
  <2>6. SendsRight(q)
    BY <2>3, <2>4, <2>5, SendsArray, SendsStruct, SendsOther DEF SendsRight
  <2> QED
    BY <2>4, <2>6
<1> QED
  BY <1>1 DEF SendsRight

-----------------------------------------------------------------------------
(* TypeFromProto takes the strict types and no others, and makes of them what WrapType does. *)

LEMMA ReadAt ==
  ASSUME NEW p \in Protos
  PROVE  /\ p.kind \in {"ARRAY", "STRUCT", "ENUM"} /\ ~p.has => TypeFromProto[p] = Failed
         /\ p.kind = "ARRAY" /\ p.has =>
              TypeFromProto[p] = LET elem == TypeFromProto[ElementType(p)]
                                 IN IF elem = Failed \/ elem.kind = "ARRAY" THEN Failed
                                    ELSE Go("ARRAY", "", <<Part("", elem)>>)
         /\ p.kind = "STRUCT" /\ p.has =>
              TypeFromProto[p] =
                IF \E i \in DOMAIN p.parts : TypeFromProto[p.parts[i].type] = Failed THEN Failed
                ELSE Go("STRUCT", "", [i \in DOMAIN p.parts |-> Part(p.parts[i].name, TypeFromProto[p.parts[i].type])])
         /\ p.kind = "ENUM" /\ p.has => TypeFromProto[p] = IF p.name = "" THEN Failed ELSE Go("ENUM", p.name, <<>>)
         /\ p.kind \notin {"ARRAY", "STRUCT", "ENUM"} =>
              TypeFromProto[p] = IF TypeFromKind(p.kind) = Nil THEN Failed ELSE TypeFromKind(p.kind)
<1> DEFINE r == TypeFromProto
           read == [i \in DOMAIN p.parts |-> r[p.parts[i].type]]
<1>1. p # Nil /\ p \in Types
  BY ProtoFacts
<1>2. r[p] = ReadStep(r, p)
  BY <1>1, EquationsAt
<1>3. DOMAIN read = DOMAIN p.parts /\ \A i \in DOMAIN p.parts : read[i] = r[p.parts[i].type]
  OBVIOUS
<1>4. [i \in DOMAIN read |-> Part(p.parts[i].name, read[i])]
      = [i \in DOMAIN p.parts |-> Part(p.parts[i].name, r[p.parts[i].type])]
  OBVIOUS
<1>5. p.kind = "STRUCT" /\ p.has =>
        r[p] = IF \E i \in DOMAIN read : read[i] = Failed THEN Failed
               ELSE Go("STRUCT", "", [i \in DOMAIN read |-> Part(p.parts[i].name, read[i])])
  BY <1>1, <1>2 DEF ReadStep
<1>6. p.kind = "STRUCT" /\ p.has =>
        r[p] = IF \E i \in DOMAIN p.parts : r[p.parts[i].type] = Failed THEN Failed
               ELSE Go("STRUCT", "", [i \in DOMAIN p.parts |-> Part(p.parts[i].name, r[p.parts[i].type])])
  <2> DEFINE a == [i \in DOMAIN read |-> Part(p.parts[i].name, read[i])]
             b == [i \in DOMAIN p.parts |-> Part(p.parts[i].name, r[p.parts[i].type])]
  <2>1. a = b
    BY <1>4
  <2>2. p.kind = "STRUCT" /\ p.has => r[p] = IF \E i \in DOMAIN read : read[i] = Failed THEN Failed ELSE Go("STRUCT", "", a)
    BY <1>5
  <2> HIDE DEF read, r, a
  <2>3. p.kind = "STRUCT" /\ p.has =>
          r[p] = IF \E i \in DOMAIN p.parts : r[p.parts[i].type] = Failed THEN Failed ELSE Go("STRUCT", "", a)
    BY <1>3, <2>2
  <2> QED
    BY <2>1, <2>3
<1>7. p.kind = "ARRAY" /\ p.has =>
        r[p] = LET elem == r[ElementType(p)]
               IN IF elem = Failed \/ elem.kind = "ARRAY" THEN Failed ELSE Go("ARRAY", "", <<Part("", elem)>>)
  BY <1>1, <1>2 DEF ReadStep
<1>8. /\ p.kind \in {"ARRAY", "STRUCT", "ENUM"} /\ ~p.has => r[p] = Failed
      /\ p.kind = "ENUM" /\ p.has => r[p] = IF p.name = "" THEN Failed ELSE Go("ENUM", p.name, <<>>)
      /\ p.kind \notin {"ARRAY", "STRUCT", "ENUM"} =>
           r[p] = IF TypeFromKind(p.kind) = Nil THEN Failed ELSE TypeFromKind(p.kind)
  BY <1>1, <1>2 DEF ReadStep
<1> QED
  BY <1>6, <1>7, <1>8, Zenon

ReadsRight(p) ==
  /\ TypeFromProto[p] = Failed <=> ~Strict(p)
  /\ Strict(p) => TypeFromProto[p] = WrapType[p] /\ Wrappable(p) /\ ~Holed(p)

LEMMA ReadsArray ==
  ASSUME NEW p \in Protos, \A q \in Below(p) : ReadsRight(q), p.kind = "ARRAY", p.has
  PROVE  ReadsRight(p)
<1> DEFINE e == ElementType(p)
           elem == TypeFromProto[e]
<1>1. e \in Types /\ e \in Below(p) /\ p \in Types /\ p # Nil /\ PartTypes(p) = {e}
  BY ProtoFacts, Parts
<1>2. ReadsRight(e)
  BY <1>1
<1>3. Strict(p) <=> e.kind # "ARRAY" /\ Strict(e)
  BY <1>1, PropertiesAt, SupportedByKind DEF Formed
<1>4. Strict(e) => elem # Failed /\ elem # Nil /\ elem = WrapType[e] /\ elem.kind = e.kind /\ Wrappable(e) /\ ~Holed(e)
  <2>1. Strict(e) => elem = WrapType[e] /\ elem # Failed /\ Wrappable(e) /\ ~Holed(e)
    BY <1>2 DEF ReadsRight
  <2>2. Wrappable(e) => WrapType[e] # Nil
    BY <1>1, WrapsOnlyWrappable
  <2>3. WrapType[e] # Nil => WrapType[e].kind = e.kind
    BY <1>1, Wrapped
  <2> QED
    BY <2>1, <2>2, <2>3
<1>5. ~Strict(e) => elem = Failed
  BY <1>2 DEF ReadsRight
<1>6. TypeFromProto[p] = IF elem = Failed \/ elem.kind = "ARRAY" THEN Failed ELSE Go("ARRAY", "", <<Part("", elem)>>)
  BY ReadAt
<1>7. WrapType[p] = IF WrapType[e] = Nil THEN Nil ELSE Go("ARRAY", "", <<Part("", WrapType[e])>>)
  BY WrapAt DEF WrapArray
<1>8. Go("ARRAY", "", <<Part("", elem)>>) # Failed
  BY KindFacts, GoIsNoMark, Zenon
<1>9. Strict(p) => Wrappable(p) /\ ~Holed(p)
  BY <1>1, <1>3, <1>4, WrappableAt, PropertiesAt
<1> HIDE DEF e, elem
<1>10. TypeFromProto[p] = Failed <=> ~Strict(p)
  BY <1>3, <1>4, <1>5, <1>6, <1>8
<1>11. Strict(p) => TypeFromProto[p] = WrapType[p]
  BY <1>3, <1>4, <1>6, <1>7
<1> QED
  BY <1>9, <1>10, <1>11 DEF ReadsRight

LEMMA ReadsStruct ==
  ASSUME NEW p \in Protos, \A q \in Below(p) : ReadsRight(q), p.kind = "STRUCT", p.has
  PROVE  ReadsRight(p)
<1> DEFINE read(i) == TypeFromProto[p.parts[i].type]
           wrapped(i) == WrapType[p.parts[i].type]
           strict(i) == Strict(p.parts[i].type)
           a == [i \in DOMAIN p.parts |-> Part(p.parts[i].name, read(i))]
           b == [i \in DOMAIN p.parts |-> Part(p.parts[i].name, wrapped(i))]
<1>1. p \in Types /\ p # Nil
  BY ProtoFacts
<1>2. \A i \in DOMAIN p.parts : (read(i) = Failed <=> ~strict(i)) /\ (strict(i) => read(i) = wrapped(i))
  BY ProtoFacts DEF ReadsRight
<1>3. Strict(p) <=> \A q \in PartTypes(p) : Strict(q)
  BY <1>1, PropertiesAt, SupportedByKind DEF Formed
<1>4. Strict(p) <=> \A i \in DOMAIN p.parts : strict(i)
  BY <1>3 DEF PartTypes
<1>5. Strict(p) => Wrappable(p) /\ ~Holed(p)
  <2>1. \A q \in PartTypes(p) : Strict(q) => Wrappable(q) /\ ~Holed(q)
    BY <1>1, Parts DEF ReadsRight
  <2> QED
    BY <1>1, <1>3, <2>1, WrappableAt, SupportedByKind, PropertiesAt
<1>6. TypeFromProto[p] = IF \E i \in DOMAIN p.parts : read(i) = Failed THEN Failed ELSE Go("STRUCT", "", a)
  BY ReadAt
<1>7. WrapType[p] = Go("STRUCT", "", b)
  BY WrapAt
<1>8. Go("STRUCT", "", a) # Failed
  BY KindFacts, GoIsNoMark, Zenon
<1> HIDE DEF read, wrapped, strict
<1>9. (\A i \in DOMAIN p.parts : strict(i)) => a = b
  BY <1>2
<1> HIDE DEF a, b
<1>10. TypeFromProto[p] = Failed <=> ~Strict(p)
  BY <1>2, <1>4, <1>6, <1>8
<1>11. Strict(p) => TypeFromProto[p] = WrapType[p]
  BY <1>2, <1>4, <1>6, <1>7, <1>9
<1> QED
  BY <1>5, <1>10, <1>11 DEF ReadsRight

LEMMA ReadsOther ==
  ASSUME NEW p \in Protos, p.kind \notin {"ARRAY", "STRUCT"}, p.kind = "ENUM" => p.has
  PROVE  ReadsRight(p)
<1>1. p \in Types /\ p # Nil /\ PartTypes(p) = {}
  BY ProtoFacts, Parts
<1>2. Strict(p) <=> Supported(p)
  BY <1>1, PropertiesAt DEF Formed
<1>3. Strict(p) => Wrappable(p) /\ ~Holed(p)
  BY <1>1, <1>2, WrappableAt, PropertiesAt
<1>4. (TypeFromProto[p] = Failed <=> ~Supported(p)) /\ (Supported(p) => TypeFromProto[p] = WrapType[p])
  <2>1. CASE p.kind = "ENUM"
    <3>1. Go("ENUM", p.name, <<>>) # Failed
      BY KindFacts, GoIsNoMark, Zenon
    <3>2. TypeFromProto[p] = IF p.name = "" THEN Failed ELSE Go("ENUM", p.name, <<>>)
      BY <2>1, ReadAt
    <3>3. WrapType[p] = IF p.name = "" THEN Nil ELSE Go("ENUM", p.name, <<>>)
      BY <2>1, WrapAt
    <3> QED
      BY <2>1, <3>1, <3>2, <3>3, SupportedByKind
  <2>2. CASE p.kind # "ENUM"
    <3> DEFINE t == TypeFromKind(p.kind)
    <3>1. TypeFromProto[p] = IF t = Nil THEN Failed ELSE t
      BY <2>2, ReadAt
    <3>2. WrapType[p] = t
      BY <2>2, WrapAt
    <3>3. (p.kind \in Scalars => t # Nil /\ t # Failed) /\ (p.kind \notin Scalars => t = Nil)
      BY ScalarTypes
    <3>4. Supported(p) <=> p.kind \in Scalars
      BY <2>2, SupportedByKind
    <3> HIDE DEF t
    <3> QED
      BY <3>1, <3>2, <3>3, <3>4
  <2> QED
    BY <2>1, <2>2
<1> QED
  BY <1>2, <1>3, <1>4 DEF ReadsRight

LEMMA ReadsNone ==
  ASSUME NEW p \in Types, p = Nil \/ (p.kind \in {"ARRAY", "STRUCT", "ENUM"} /\ ~p.has)
  PROVE  ReadsRight(p)
<1>1. TypeFromProto[p] = Failed
  BY EquationsAt DEF ReadStep
<1>2. ~Strict(p)
  BY PropertiesAt DEF Formed
<1> QED
  BY <1>1, <1>2 DEF ReadsRight

LEMMA ReadsOnlyStrict ==
  ASSUME NEW p \in Types
  PROVE  /\ TypeFromProto[p] = Failed <=> ~Strict(p)
         /\ Strict(p) => TypeFromProto[p] = WrapType[p] /\ Wrappable(p) /\ ~Holed(p) /\ Whole(p)
<1> DEFINE Bad == {q \in Types : ~ReadsRight(q)}
<1>1. Bad = {}
  <2>1. SUFFICES ASSUME Bad # {} PROVE FALSE
    OBVIOUS
  <2>2. PICK q \in Bad : Below(q) \intersect Bad = {}
    BY <2>1, TypesFounded
  <2>3. \A r \in Below(q) : ReadsRight(r)
    BY <2>2, BelowTypes
  <2>4. q \in Types /\ ~ReadsRight(q)
    BY <2>2
  <2>5. q \in Protos
    BY <2>4, ReadsNone DEF Types
  <2> QED
    BY <2>3, <2>4, <2>5, ReadsArray, ReadsStruct, ReadsOther, ReadsNone
<1>2. Strict(p) => Whole(p)
  BY DEF Strict, Whole
<1> QED
  BY <1>1, <1>2 DEF ReadsRight

-----------------------------------------------------------------------------
(* What WrapLiteralValue makes of a value. *)

LEMMA ConvertAt ==
  ASSUME NEW t \in GoTypes, NEW v \in Values \union {NoValue}
  PROVE  LET parts(k) == PartsOf(k, v)
             conv(u)  == ConvertValue[u]
             got      == ConvertValue[t][v]
         IN /\ t = Nil \/ v = NoValue \/ v.of = "NULL" => got = NoValue
            /\ t # Nil /\ v # NoValue /\ v.of # "NULL" =>
                 /\ t.kind = "ARRAY" =>
                      got = Held("ARRAY", <<>>, [i \in DOMAIN parts("ARRAY") |->
                                                Literal(t.parts[1].type, conv(t.parts[1].type)[parts("ARRAY")[i]])])
                 /\ t.kind = "STRUCT" =>
                      got = IF ~SameFields(parts("STRUCT"), t.parts) THEN NoValue
                            ELSE Held("STRUCT", <<>>, [i \in DOMAIN t.parts |->
                                                      Literal(t.parts[i].type, conv(t.parts[i].type)[parts("STRUCT")[i]])])
                 /\ t.kind \notin {"ARRAY", "STRUCT"} => got = Held(t.kind, GotOf(t.kind, v), <<>>)
<1> DEFINE c == ConvertValue
           At(u) == IF t = Nil \/ u = NoValue THEN NoValue
                    ELSE IF u.of = "NULL" THEN NoValue
                    ELSE CASE t.kind = "ARRAY" ->
                                LET elem  == t.parts[1].type
                                    parts == PartsOf("ARRAY", u)
                                IN Held("ARRAY", <<>>, [i \in DOMAIN parts |-> Literal(elem, c[elem][parts[i]])])
                           [] t.kind = "STRUCT" ->
                                LET parts == PartsOf("STRUCT", u)
                                IN IF ~SameFields(parts, t.parts) THEN NoValue
                                   ELSE Held("STRUCT", <<>>, [i \in DOMAIN t.parts |->
                                                             Literal(t.parts[i].type, c[t.parts[i].type][parts[i]])])
                           [] OTHER -> Held(t.kind, GotOf(t.kind, u), <<>>)
           f == [u \in Values \union {NoValue} |-> At(u)]
<1>1. c[t] = f
  BY GoEquationsAt DEF ConvertStep
<1>2. f[v] = At(v)
  OBVIOUS
<1>3. c[t][v] = At(v)
  <2> HIDE DEF f, At, c
  <2> QED
    BY <1>1, <1>2
<1> HIDE DEF f, c
<1>4. v.of = "NULL" \/ t = Nil \/ v = NoValue => At(v) = NoValue
  OBVIOUS
<1> QED
  BY <1>3, <1>4 DEF c

(* What Go holds for a value is there. *)
LEMMA HeldIsThere ==
  ASSUME NEW k, k # "nil", NEW got, NEW parts
  PROVE  /\ Held(k, got, parts) # NoValue /\ Held(k, got, parts).got = got
         /\ Held(k, got, parts).parts = parts
BY DEF Held, NoValue

(* A literal is the type that WrapType gives and the value as that type reads it. *)
LEMMA LiteralFields == \A t, v : Literal(t, v).type = t /\ Literal(t, v).value = v
BY DEF Literal

-----------------------------------------------------------------------------
(* The packed civil times of values: what is unpacked packs to what was there. *)

LEMMA FieldsMeet ==
  ASSUME NEW u \in Nat
  PROVE  /\ ((u \div 64) % 64) * 64 + (u % 64) = u % 4096
         /\ ((u \div 4096) % 32) * 4096 + (u % 4096) = u % 131072
         /\ ((u \div 131072) % 32) * 131072 + (u % 131072) = u % 4194304
         /\ ((u \div 4194304) % 16) * 4194304 + (u % 4194304) = u % 67108864
         /\ (u \div 67108864) * 67108864 + (u % 67108864) = u
         /\ (u \div 1073741824) * 1073741824 + (u % 1073741824) = u
<1>1. ((u \div 64) % 64) * 64 + (u % 64) = u % 4096
  BY SMT
<1>2. ((u \div 4096) % 32) * 4096 + (u % 4096) = u % 131072
  BY SMT
<1>3. ((u \div 131072) % 32) * 131072 + (u % 131072) = u % 4194304
  BY SMT
<1>4. ((u \div 4194304) % 16) * 4194304 + (u % 4194304) = u % 67108864
  BY SMT
<1>5. (u \div 67108864) * 67108864 + (u % 67108864) = u
  BY SMT
<1>6. (u \div 1073741824) * 1073741824 + (u % 1073741824) = u
  BY SMT
<1> QED
  BY <1>1, <1>2, <1>3, <1>4, <1>5, <1>6

LEMMA ClockPacks ==
  ASSUME NEW u \in Nat
  PROVE  PackClock(TimeOfDay(u)) = u % 131072
<1> DEFINE h == (u \div 4096) % 32
           m == (u \div 64) % 64
           s == u % 64
<1>1. h * 4096 + (u % 4096) = u % 131072 /\ m * 64 + s = u % 4096
  BY FieldsMeet
<1>2. h \in Nat /\ m \in Nat /\ s \in Nat /\ u % 4096 \in Nat /\ u % 131072 \in Nat
  BY SMT
<1>3. PackClock(TimeOfDay(u)) = h * 4096 + m * 64 + s
  <2>1. TimeOfDay(u) = [hour |-> h, minute |-> m, second |-> s]
    BY DEF TimeOfDay, Bits, HourUnit, MinuteUnit
  <2> HIDE DEF h, m, s
  <2> QED
    BY <2>1 DEF PackClock, HourUnit, MinuteUnit
<1> HIDE DEF h, m, s
<1> QED
  BY <1>1, <1>2, <1>3

LEMMA DatetimePacks ==
  ASSUME NEW u \in Nat, u \div YearUnit < 16384, NEW n
  PROVE  PackDatetime(AsDatetime(<<u, n>>)) = <<u, n>>
<1> DEFINE y == u \div 67108864
           m == (u \div 4194304) % 16
           d == (u \div 131072) % 32
           c == TimeOfDay(u)
<1>1. y \in Nat /\ y < 16384
  BY DEF YearUnit
<1>2. y % 16384 = y
  <2> HIDE DEF y
  <2> QED
    BY <1>1
<1>3. AsDatetime(<<u, n>>) = [year |-> y, month |-> m, day |-> d, clock |-> c, nano |-> n]
  <2>1. Bits(u, YearUnit, 16384) = y /\ Bits(u, MonthUnit, 16) = m /\ Bits(u, DayUnit, 32) = d
    BY SMT, <1>2 DEF Bits, YearUnit, MonthUnit, DayUnit
  <2> HIDE DEF y, m, d, c
  <2> QED
    BY SMT, <2>1, DatetimeOf DEF c
<1>4. PackClock(c) = u % 131072
  BY ClockPacks
<1>5. /\ d * 131072 + (u % 131072) = u % 4194304
      /\ m * 4194304 + (u % 4194304) = u % 67108864
      /\ y * 67108864 + (u % 67108864) = u
  BY FieldsMeet
<1>6. /\ m \in Nat /\ d \in Nat /\ u % 131072 \in Nat /\ u % 4194304 \in Nat /\ u % 67108864 \in Nat
  BY SMT
<1> HIDE DEF y, m, d, c
<1>7. PackDatetime(AsDatetime(<<u, n>>)) = <<y * 67108864 + m * 4194304 + d * 131072 + (u % 131072), n>>
  BY <1>3, <1>4 DEF PackDatetime, YearUnit, MonthUnit, DayUnit
<1>8. y * 67108864 + m * 4194304 + d * 131072 + (u % 131072) = u
  BY <1>1, <1>5, <1>6
<1> QED
  BY <1>7, <1>8

LEMMA TimePacks ==
  ASSUME NEW u \in Nat, (u \div NanoUnit) \div HourUnit < 32
  PROVE  PackTime(AsTimeOfDay(u)) = u
<1> DEFINE w == u \div 1073741824
           n == u % 1073741824
           c == TimeOfDay(w)
<1>1. w \in Nat /\ n \in Nat /\ w * 1073741824 + n = u
  BY SMT, FieldsMeet
<1>2. w \div 4096 < 32
  BY DEF NanoUnit, HourUnit
<1>3. w % 131072 = w
  <2> HIDE DEF w
  <2> QED
    BY SMT, <1>1, <1>2
<1>4. PackClock(c) = w
  <2>1. PackClock(c) = w % 131072
    BY <1>1, ClockPacks
  <2> QED
    BY <1>3, <2>1
<1>5. AsTimeOfDay(u) = [clock |-> c, nano |-> n]
  BY DEF AsTimeOfDay, NanoUnit
<1> HIDE DEF w, n, c
<1>6. PackTime(AsTimeOfDay(u)) = w * 1073741824 + n
  BY <1>4, <1>5 DEF PackTime, NanoUnit
<1> QED
  BY <1>1, <1>6

-----------------------------------------------------------------------------
(* The invariant: what the caller holds belongs to where it is in the tree. *)

(* What asking the literal for a kind gives. *)
Given(k) ==
  LET ok == Holds(k) /\ ~(k \in Pointers /\ literal.value.got = NilPointer)
  IN [by |-> k, ok |-> ok, out |-> IF ok THEN Decoded(k, literal.value.got) ELSE <<>>]

(* The literal is that of the type and value in the tree. *)
Reads == /\ proto \in Types /\ value \in Values \union {NoValue} /\ type \in GoTypes
         /\ literal = WrapLiteralValue(proto, value)

(* The last answer is about the type and the literal there. *)
Answered ==
  /\ answer.by \in Calls \union Kinds
  /\ answer.by = "WrapType" => type = WrapType[proto]
  /\ answer.by = "TypeFromProto" => (answer.ok <=> Strict(proto)) /\ (answer.ok => type = WrapType[proto])
  /\ answer.by = "column" => answer = Registered("column", ToProto[WrapType[proto]])
  /\ answer.by = "checked column" => Strict(proto) /\ answer = Registered("checked column", ToProto[WrapType[proto]])
  /\ answer.by = "argument" => answer = Registered("argument", ArgumentType(WrapType[proto]))
  /\ answer.by \in Kinds => answer = Given(answer.by)

IInv == Reads /\ Answered

LEMMA ReadsFields ==
  ASSUME Reads
  PROVE  /\ literal.type = WrapType[proto] /\ literal.value = ConvertValue[WrapType[proto]][value]
         /\ WrapType[proto] \in GoTypes
BY LiteralFields DEF Reads, WrapLiteralValue, GoTypes

(* In a literal of an ARRAY are the literals of the values in it, of its element type. *)
LEMMA EnterArray ==
  ASSUME NEW p \in Types, NEW v \in Values \union {NoValue}, NEW t \in GoTypes, t = WrapType[p],
         t # Nil, t.kind = "ARRAY", ConvertValue[t][v] # NoValue,
         NEW i \in DOMAIN ConvertValue[t][v].parts
  PROVE  /\ p.parts[1].type \in Types /\ v.parts[i] \in Values \union {NoValue}
         /\ ConvertValue[t][v].parts[i] = WrapLiteralValue(p.parts[1].type, v.parts[i])
<1> DEFINE parts == PartsOf("ARRAY", v)
           e     == t.parts[1].type
           held  == [j \in DOMAIN parts |-> Literal(e, ConvertValue[e][parts[j]])]
<1>1. p \in Protos /\ p.kind = "ARRAY"
  BY Wrapped
<1>2. v # NoValue /\ v.of # "NULL" /\ v \in Values
  BY ConvertAt
<1>3. ConvertValue[t][v] = Held("ARRAY", <<>>, held)
  BY <1>2, ConvertAt
<1>4. ConvertValue[t][v].parts = held
  <2> HIDE DEF held
  <2> QED
    BY <1>3, HeldIsThere
<1>5. i \in DOMAIN parts
  BY <1>4
<1>6. v.of = "ARRAY" /\ parts = v.parts
  BY <1>5, Marks DEF PartsOf
<1>7. v.parts[i] \in Values \union {NoValue}
  <2>1. v.parts \in Seq(Values \union {NoValue})
    BY <1>2, ValuesAssumption
  <2> QED
    BY <1>5, <1>6, <2>1, SeqFacts
<1>8. e = WrapType[ElementType(p)] /\ e # Nil
  BY <1>1, WrappedArray
<1>9. ElementType(p) = p.parts[1].type /\ ElementType(p) \in Types
  <2>1. ElementType(p) # Nil
    BY <1>8, WrapNil
  <2> QED
    BY <1>1, <2>1, Parts DEF ElementType
<1>10. held[i] = Literal(e, ConvertValue[e][v.parts[i]])
  BY <1>5, <1>6
<1> HIDE DEF held, e
<1> QED
  BY <1>4, <1>7, <1>8, <1>9, <1>10 DEF WrapLiteralValue

(* In a literal of a STRUCT are the literals of the fields. *)
LEMMA EnterStruct ==
  ASSUME NEW p \in Types, NEW v \in Values \union {NoValue}, NEW t \in GoTypes, t = WrapType[p],
         t # Nil, t.kind = "STRUCT", ConvertValue[t][v] # NoValue,
         NEW i \in DOMAIN ConvertValue[t][v].parts
  PROVE  /\ p.parts[i].type \in Types /\ v.parts[i] \in Values \union {NoValue}
         /\ ConvertValue[t][v].parts[i] = WrapLiteralValue(p.parts[i].type, v.parts[i])
<1> DEFINE parts == PartsOf("STRUCT", v)
           held  == [j \in DOMAIN t.parts |-> Literal(t.parts[j].type, ConvertValue[t.parts[j].type][parts[j]])]
<1>1. p \in Protos /\ p.kind = "STRUCT"
  BY Wrapped
<1>2. v # NoValue /\ v.of # "NULL" /\ v \in Values
  BY ConvertAt
<1>3. ConvertValue[t][v] = IF ~SameFields(parts, t.parts) THEN NoValue ELSE Held("STRUCT", <<>>, held)
  BY <1>2, ConvertAt
<1>4. SameFields(parts, t.parts) /\ ConvertValue[t][v] = Held("STRUCT", <<>>, held)
  <2> HIDE DEF held, parts
  <2> QED
    BY <1>3
<1>5. ConvertValue[t][v].parts = held
  <2> HIDE DEF held
  <2> QED
    BY <1>4, HeldIsThere
<1>6. i \in DOMAIN t.parts
  BY <1>5
<1>7. i \in DOMAIN p.parts /\ t.parts[i].type = WrapType[p.parts[i].type] /\ p.parts[i].type \in Types
  <2>1. DOMAIN t.parts = DOMAIN p.parts /\ \A j \in DOMAIN p.parts : t.parts[j].type = WrapType[p.parts[j].type]
    BY <1>1, WrappedStruct
  <2> QED
    BY <1>1, <1>6, <2>1, ProtoFacts
<1>8. Len(t.parts) = Len(p.parts)
  <2>1. p.parts \in Seq([name : STRING, type : Types])
    BY <1>1, ProtosAssumption
  <2>2. Len(p.parts) \in Nat /\ DOMAIN p.parts = 1 .. Len(p.parts)
    BY <1>1, ProtoFacts
  <2>3. t.parts = [j \in DOMAIN p.parts |-> Part(p.parts[j].name, WrapType[p.parts[j].type])]
    BY <1>1, WrappedStruct
  <2> DEFINE n == Len(p.parts)
             g(j) == Part(p.parts[j].name, WrapType[p.parts[j].type])
  <2>4. t.parts = [j \in 1 .. n |-> g(j)] /\ n \in Nat
    BY <2>2, <2>3
  <2> HIDE DEF n, g
  <2>5. Len(t.parts) = n
    BY <2>4
  <2> QED
    BY <2>5 DEF n
<1>9. v.of = "STRUCT" /\ parts = v.parts /\ i \in DOMAIN v.parts
  <2>1. Len(parts) = Len(p.parts)
    BY <1>4, <1>8 DEF SameFields
  <2>2. DOMAIN p.parts = 1 .. Len(p.parts) /\ Len(p.parts) \in Nat
    BY <1>1, ProtoFacts
  <2>3. Len(p.parts) # 0
    BY <1>7, <2>2
  <2>4. v.of = "STRUCT" /\ parts = v.parts
    BY <2>1, <2>3, EmptySeq DEF PartsOf
  <2>5. DOMAIN v.parts = 1 .. Len(v.parts)
    BY <1>2, ValuesAssumption, SeqFacts
  <2> QED
    BY <1>7, <2>1, <2>2, <2>4, <2>5
<1>10. v.parts[i] \in Values \union {NoValue}
  <2>1. v.parts \in Seq(Values \union {NoValue})
    BY <1>2, ValuesAssumption
  <2> QED
    BY <1>9, <2>1, SeqFacts
<1>11. held[i] = Literal(t.parts[i].type, ConvertValue[t.parts[i].type][v.parts[i]])
  BY <1>6, <1>9
<1> HIDE DEF held
<1> QED
  BY <1>5, <1>7, <1>10, <1>11 DEF WrapLiteralValue

LEMMA EnterReads ==
  ASSUME Reads, Enter
  PROVE  Reads'
<1> DEFINE t == WrapType[proto]
           got == ConvertValue[t][value]
<1>1. t \in GoTypes /\ literal.type = t /\ literal.value = got /\ proto \in Types /\ value \in Values \union {NoValue}
  BY ReadsFields DEF Reads
<1>2. t # Nil /\ got # NoValue /\ t.kind \in {"ARRAY", "STRUCT"}
  BY <1>1 DEF Enter, Holds
<1>3. PICK i \in DOMAIN got.parts :
        /\ literal' = got.parts[i] /\ value' = value.parts[i]
        /\ proto' = proto.parts[IF t.kind = "ARRAY" THEN 1 ELSE i].type
  BY <1>1 DEF Enter
<1>4. proto' \in Types /\ value' \in Values \union {NoValue} /\ literal' = WrapLiteralValue(proto', value')
  <2> HIDE DEF t, got
  <2>1. CASE t.kind = "ARRAY"
    BY <1>1, <1>2, <1>3, <2>1, EnterArray DEF t, got
  <2>2. CASE t.kind = "STRUCT"
    BY <1>1, <1>2, <1>3, <2>2, EnterStruct DEF t, got
  <2> QED
    BY <1>2, <2>1, <2>2
<1>5. type' = type /\ type \in GoTypes
  BY DEF Enter, Reads
<1> QED
  BY <1>4, <1>5 DEF Reads

LEMMA KindsApart ==
  /\ \A k \in Kinds : k \notin Calls /\ k \notin {"ARRAY", "STRUCT", "nil", "NULL"}
  /\ "none" \in Calls
BY KindsAssumption DEF Composite, Calls

LEMMA NilIsGoType == Nil \in GoTypes
BY WrapNil, Marks DEF GoTypes

LEMMA InitInv == Init => IInv
<1> SUFFICES ASSUME Init PROVE IInv
  OBVIOUS
<1>1. Reads
  BY NilIsGoType DEF Init, Reads, Types
<1>2. answer.by = "none"
  BY DEF Init, NoAnswer
<1> QED
  BY <1>1, <1>2, KindsApart DEF IInv, Answered, Calls

LEMMA StepInv == IInv /\ [Next]_vars => IInv'
<1> SUFFICES ASSUME IInv, [Next]_vars PROVE IInv'
  OBVIOUS
<1>1. /\ literal.type = WrapType[proto] /\ WrapType[proto] \in GoTypes /\ proto \in Types
      /\ Reads /\ Answered
  BY ReadsFields DEF IInv, Reads
<1>2. CASE Enter
  <2>1. Reads'
    BY <1>1, <1>2, EnterReads
  <2>2. answer'.by = "none"
    BY <1>2 DEF Enter, NoAnswer
  <2> QED
    BY <2>1, <2>2, KindsApart DEF IInv, Answered, Calls
<1>3. ASSUME NEW k \in Kinds, As(k) PROVE IInv'
  <2>1. /\ answer' = Given(k) /\ UNCHANGED <<proto, value, literal, type>>
    BY <1>3 DEF As, Given
  <2>2. Reads'
    BY <1>1, <2>1 DEF Reads
  <2>3. answer'.by = k
    BY <2>1 DEF Given
  <2>4. Given(k)' = Given(k)
    BY <2>1 DEF Given, Holds
  <2> QED
    BY <2>1, <2>2, <2>3, <2>4, KindsApart DEF IInv, Answered, Calls
<1>4. CASE TakeType
  <2>1. Reads' /\ type' = WrapType[proto]' /\ answer'.by = "WrapType"
    BY <1>1, <1>4 DEF TakeType, Reads
  <2> QED
    BY <2>1, KindsApart DEF IInv, Answered, Calls
<1>5. CASE ReadType
  <2> DEFINE t == TypeFromProto[proto]
  <2>1. /\ type' = IF t = Failed THEN Nil ELSE t
        /\ answer'.by = "TypeFromProto" /\ (answer'.ok <=> t # Failed) /\ UNCHANGED <<proto, value, literal>>
    BY <1>5 DEF ReadType
  <2>2. (t = Failed <=> ~Strict(proto)) /\ (Strict(proto) => t = WrapType[proto])
    BY <1>1, ReadsOnlyStrict
  <2> HIDE DEF t
  <2>3. (answer'.ok <=> Strict(proto)) /\ (answer'.ok => type' = WrapType[proto]) /\ type' \in GoTypes
    BY <1>1, <2>1, <2>2, NilIsGoType
  <2>4. Reads'
    BY <1>1, <2>1, <2>3 DEF Reads
  <2> QED
    BY <2>1, <2>3, <2>4, KindsApart DEF IInv, Answered, Calls
<1>6. CASE RegisterColumn
  <2>1. /\ answer.by \in {"WrapType", "TypeFromProto"} /\ answer.ok
        /\ answer' = Registered(IF answer.by = "WrapType" THEN "column" ELSE "checked column", ToProto[type])
        /\ UNCHANGED <<proto, value, literal, type>>
    BY <1>6 DEF RegisterColumn
  <2>2. type = WrapType[proto] /\ (answer.by = "TypeFromProto" => Strict(proto))
    BY <1>1, <2>1 DEF Answered
  <2>3. Reads'
    BY <1>1, <2>1 DEF Reads
  <2>4. CASE answer.by = "WrapType"
    <3>1. answer' = Registered("column", ToProto[WrapType[proto']])
      BY <2>1, <2>2, <2>4
    <3>2. answer'.by = "column"
      BY <3>1 DEF Registered
    <3> QED
      BY <2>3, <3>1, <3>2, KindsApart DEF IInv, Answered, Calls
  <2>5. CASE answer.by = "TypeFromProto"
    <3>1. answer' = Registered("checked column", ToProto[WrapType[proto']]) /\ Strict(proto')
      BY <2>1, <2>2, <2>5
    <3>2. answer'.by = "checked column"
      BY <3>1 DEF Registered
    <3> QED
      BY <2>3, <3>1, <3>2, KindsApart DEF IInv, Answered, Calls
  <2> QED
    BY <2>1, <2>4, <2>5
<1>7. CASE RegisterArgument
  <2>1. answer' = Registered("argument", ArgumentType(WrapType[proto'])) /\ UNCHANGED <<proto, value, literal, type>>
    BY <1>1, <1>7 DEF RegisterArgument, Answered
  <2>2. answer'.by = "argument"
    BY <2>1 DEF Registered
  <2>3. Reads'
    BY <1>1, <2>1 DEF Reads
  <2> QED
    BY <2>1, <2>2, <2>3, KindsApart DEF IInv, Answered, Calls
<1>8. CASE UNCHANGED vars
  <2>1. Reads'
    BY <1>1, <1>8 DEF Reads, vars
  <2>2. Answered'
    BY <1>1, <1>8 DEF Answered, Given, Holds, vars
  <2> QED
    BY <2>1, <2>2 DEF IInv
<1> QED
  BY <1>2, <1>3, <1>4, <1>5, <1>6, <1>7, <1>8 DEF Next

LEMMA Invariant == Spec => []IInv
BY InitInv, StepInv, PTL DEF Spec

-----------------------------------------------------------------------------
(* What the invariant implies. *)

(* The variables of a caller have their types; whatever the nesting of a type in a tree, WrapType makes no
   array without an element type of it (wrap_type.go:41). *)
THEOREM Typed == Spec => []TypeOK
<1>1. IInv => TypeOK
  <2> SUFFICES ASSUME IInv PROVE TypeOK
    OBVIOUS
  <2>1. literal.type \in GoTypes /\ type \in GoTypes /\ proto \in Types /\ value \in Values \union {NoValue}
    BY ReadsFields DEF IInv, Reads
  <2> QED
    BY <2>1, GoTypeFacts DEF TypeOK
<1> QED
  BY <1>1, Invariant, PTL

(* A type read from a tree of any depth is registered with every part and name it came with, and without the
   descriptors of its ENUMs (enum_type.go:37-44), so as it came exactly if there are none: ToProto panics on
   exactly the types with a field left out by WrapType (wrap_type.go:16), and TypeFromProto (proto.go:13)
   refuses every type that could panic. *)
THEOREM ComesBackBare == Spec => []GoesBackBare
<1>1. IInv => GoesBackBare
  <2> SUFFICES ASSUME IInv PROVE GoesBackBare
    OBVIOUS
  <2> DEFINE sent == ToProto[WrapType[proto]]
  <2>1. proto \in Types /\ Answered
    BY DEF IInv, Reads
  <2>2. WrapType[proto] = Nil <=> ~Wrappable(proto)
    BY <2>1, WrapsOnlyWrappable
  <2>3. Wrappable(proto) => (sent = Panic <=> Holed(proto)) /\ (~Holed(proto) /\ Whole(proto) => sent = Bare[proto])
    BY <2>1, SendsBack
  <2>4. Strict(proto) => Wrappable(proto) /\ ~Holed(proto) /\ Whole(proto)
    BY <2>1, ReadsOnlyStrict
  <2>5. ~Wrappable(proto) => sent = Panic
    BY <2>2, SendNil
  <2>6. Nil # Panic /\ (Bare[proto] = proto <=> ~Described(proto))
    BY <2>1, Marks, BareIsAll
  <2>7. \A by, out : /\ Registered(by, out).by = by /\ Registered(by, out).out = out
                     /\ Registered(by, out).ok <=> out # Panic
    BY Zenon DEF Registered
  <2> HIDE DEF sent
  <2>8. CASE answer.by = "column"
    <3>1. answer.out = sent /\ (answer.ok <=> sent # Panic)
      BY <2>1, <2>7, <2>8 DEF Answered, sent
    <3> QED
      BY <2>3, <2>5, <2>6, <2>8, <3>1 DEF GoesBackBare
  <2>9. CASE answer.by = "checked column"
    <3>1. Strict(proto) /\ answer = Registered("checked column", sent)
      BY <2>1, <2>9 DEF Answered, sent
    <3>2. answer.out = sent /\ (answer.ok <=> sent # Panic)
      BY <2>7, <3>1
    <3> QED
      BY <2>3, <2>4, <2>6, <2>9, <3>1, <3>2 DEF GoesBackBare
  <2>10. CASE answer.by = "argument"
    <3>1. answer.out = ArgumentType(WrapType[proto]) /\ (answer.ok <=> ArgumentType(WrapType[proto]) # Panic)
      BY <2>1, <2>7, <2>10 DEF Answered
    <3>2. ArgumentType(WrapType[proto]) = IF Wrappable(proto) THEN sent ELSE Nil
      BY <2>2 DEF ArgumentType, sent
    <3> QED
      BY <2>3, <2>6, <2>10, <3>1, <3>2 DEF GoesBackBare
  <2>11. CASE answer.by = "TypeFromProto"
    BY <2>1, <2>11 DEF Answered, GoesBackBare
  <2>12. CASE answer.by \notin {"column", "checked column", "argument", "TypeFromProto"}
    BY <2>12 DEF GoesBackBare
  <2> QED
    BY <2>8, <2>9, <2>10, <2>11, <2>12
<1> QED
  BY <1>1, Invariant, PTL

(* Wherever in a tree the caller is, an accessor gives what the tree has there, and gives it exactly when
   the kind is the one asked for and the value is not NULL (literal_value.go:144); civil times pack to
   the bits they were unpacked from. *)
THEOREM ReadAsSent == Spec => []ReadsAsSent
<1>1. IInv => ReadsAsSent
  <2> SUFFICES ASSUME IInv, answer.by \in Kinds, value # NoValue => value.of \in {"NULL", proto.kind}
               PROVE  /\ answer.ok <=> /\ value # NoValue /\ value.of # "NULL"
                                       /\ proto.kind = answer.by /\ Wrappable(proto)
                      /\ answer.ok => CASE answer.by = "DATETIME" -> PackDatetime(answer.out) = value.got
                                        [] answer.by = "TIME"     -> <<PackTime(answer.out)>> = value.got
                                        [] OTHER                  -> answer.out = value.got
    BY DEF ReadsAsSent
  <2> DEFINE k == answer.by
             t == WrapType[proto]
             got == ConvertValue[t][value]
             there == value # NoValue /\ value.of # "NULL"
  <2>1. /\ t \in GoTypes /\ literal.type = t /\ literal.value = got
        /\ proto \in Types /\ value \in Values \union {NoValue}
    BY ReadsFields DEF IInv, Reads
  <2>2. answer = Given(k)
    BY DEF IInv, Answered
  <2>3. k \in Kinds /\ k \notin {"ARRAY", "STRUCT", "nil", "NULL"}
    BY KindsApart
  <2>4. (t # Nil <=> Wrappable(proto)) /\ (t # Nil => t.kind = proto.kind)
    BY <2>1, WrapsOnlyWrappable, Wrapped
  <2>5. ~there => got = NoValue
    BY <2>1, ConvertAt
  <2>6. there /\ t # Nil /\ t.kind = k => got = Held(k, GotOf(k, value), <<>>)
    BY <2>1, <2>3, ConvertAt
  <2>7. there /\ t # Nil /\ t.kind = k => got # NoValue /\ got.got = GotOf(k, value)
    <3> HIDE DEF got, there, t, k
    <3> QED
      BY <2>3, <2>6, HeldIsThere
  <2>8. there /\ proto.kind = k => value.of = k /\ GotOf(k, value) = value.got /\ value \in Values
    BY <2>1 DEF GotOf
  <2>9. there /\ proto.kind = k /\ k \in Pointers => value.got # NilPointer
    BY <2>8, ValuesAssumption
  <2> DEFINE ok == Holds(k) /\ ~(k \in Pointers /\ literal.value.got = NilPointer)
  <2>10. (answer.ok <=> ok) /\ (ok => answer.out = Decoded(k, got.got))
    <3> DEFINE out == IF ok THEN Decoded(k, got.got) ELSE <<>>
    <3>1. answer = [by |-> k, ok |-> ok, out |-> out]
      BY <2>1, <2>2 DEF Given
    <3>2. ok => out = Decoded(k, got.got)
      OBVIOUS
    <3> HIDE DEF ok, out, k, got
    <3>3. answer.out = out
      BY <3>1
    <3>4. answer.ok <=> ok
      BY <3>1, Zenon
    <3> QED
      BY <3>2, <3>3, <3>4
  <2>11. Holds(k) <=> t # Nil /\ t.kind = k /\ got # NoValue
    BY <2>1 DEF Holds
  <2> HIDE DEF got, t
  <2>12. ok <=> there /\ proto.kind = k /\ Wrappable(proto)
    BY <2>1, <2>4, <2>5, <2>7, <2>8, <2>9, <2>11
  <2>13. ok => answer.out = Decoded(k, value.got) /\ value \in Values /\ value.of = k
    BY <2>4, <2>7, <2>8, <2>10, <2>12
  <2> HIDE DEF ok, k
  <2>14. ok => CASE k = "DATETIME" -> PackDatetime(answer.out) = value.got
                 [] k = "TIME"     -> <<PackTime(answer.out)>> = value.got
                 [] OTHER          -> answer.out = value.got
    <3>1. SUFFICES ASSUME ok PROVE CASE k = "DATETIME" -> PackDatetime(answer.out) = value.got
                                     [] k = "TIME"     -> <<PackTime(answer.out)>> = value.got
                                     [] OTHER          -> answer.out = value.got
      OBVIOUS
    <3>2. CASE k = "DATETIME"
      <4>1. /\ value.got = <<value.got[1], value.got[2]>>
            /\ value.got[1] \in Nat /\ value.got[1] \div YearUnit < 16384
        BY <2>13, <3>1, <3>2, ValuesAssumption
      <4>2. answer.out = AsDatetime(value.got)
        BY <2>13, <3>1, <3>2 DEF Decoded
      <4>3. PackDatetime(AsDatetime(<<value.got[1], value.got[2]>>)) = <<value.got[1], value.got[2]>>
        BY <4>1, DatetimePacks
      <4> QED
        BY <3>2, <4>1, <4>2, <4>3
    <3>3. CASE k = "TIME"
      <4>1. /\ value.got = <<value.got[1]>>
            /\ value.got[1] \in Nat /\ (value.got[1] \div NanoUnit) \div HourUnit < 32
        BY <2>13, <3>1, <3>3, ValuesAssumption
      <4>2. answer.out = AsTimeOfDay(value.got[1])
        BY <2>13, <3>1, <3>3 DEF Decoded
      <4>3. PackTime(AsTimeOfDay(value.got[1])) = value.got[1]
        BY <4>1, TimePacks
      <4> QED
        BY <3>3, <4>1, <4>2, <4>3
    <3>4. CASE k \notin {"DATETIME", "TIME"}
      BY <2>13, <3>1, <3>4 DEF Decoded
    <3> QED
      BY <3>2, <3>3, <3>4
  <2> QED
    BY <2>10, <2>12, <2>14 DEF k
<1> QED
  BY <1>1, Invariant, PTL
=============================================================================
