----------------------------- MODULE MCTypeWrap -----------------------------
(* Model checking of TypeWrap: types up to three deep, and values that fit them or do not. *)
EXTENDS TypeWrap, TLC

Scalar(k)       == Go(k, "", <<>>)
Enum(n, file)   == [Go("ENUM", n, <<>>) EXCEPT !.file = file]
ArrayOf(p)      == Go("ARRAY", "", <<Part("", p)>>)
StructOf(a, b)  == Go("STRUCT", "", <<Part("a", a), Part("b", b)>>)
Without(k)      == [Go(k, "", <<>>) EXCEPT !.has = FALSE]

Simple  == {Scalar("INT64"), Scalar("DATETIME"), Scalar("TIME"), Scalar("TOKENLIST"), Enum("part", "parts.proto"),
            Enum("part", ""), Enum("", "parts.proto"), Scalar("PROTO")}
Missing == {Without("ARRAY"), Without("STRUCT"), Without("ENUM")}
Arrays  == {ArrayOf(p) : p \in Simple \union Missing \union {Nil}}
Structs == {StructOf(p, Scalar("INT64")) : p \in Simple \union Arrays \union {Without("STRUCT")}}
             \union {StructOf(Scalar("DATETIME"), Scalar("PROTO"))}
Deep    == {ArrayOf(p) : p \in Arrays \union Structs}
SomeProtos == Simple \union Missing \union Arrays \union Structs \union Deep

Deepest(S) == IF S = {} THEN 0 ELSE CHOOSE n \in S : \A m \in S : m <= n
Nesting[p \in SomeProtos \union {Nil}] ==
  IF p = Nil THEN 0 ELSE 1 + Deepest({Nesting[p.parts[i].type] : i \in DOMAIN p.parts})

Value(k, got, parts) == [of |-> k, got |-> got, parts |-> parts]
Null                 == Value("NULL", <<>>, <<>>)
Clock(h, m, sec)     == [hour |-> h, minute |-> m, second |-> sec]
Dates ==
  {PackDatetime([year |-> y, month |-> mo, day |-> d, clock |-> c, nano |-> n]) :
     y \in {1, 31}, mo \in {1, 12}, d \in {1, 31}, c \in {Clock(0, 0, 0), Clock(23, 59, 59)}, n \in {0, 999999999}}
SomeTimes == {PackTime([clock |-> Clock(0, 0, sec), nano |-> n]) : sec \in {0, 1}, n \in {0, 999999999}}

Plain  == {Null, Value("INT64", <<7>>, <<>>), Value("ENUM", <<3>>, <<>>), Value("PROTO", <<5>>, <<>>)}
            \union {Value("DATETIME", d, <<>>) : d \in Dates} \union {Value("TIME", <<t>>, <<>>) : t \in SomeTimes}
Fields == {Value("DATETIME", <<3 * YearUnit + MonthUnit + DayUnit, 5>>, <<>>), Value("INT64", <<7>>, <<>>), Null}
Lists  == {Value("ARRAY", <<>>, s) : s \in {<<>>} \union {<<v, w>> : v \in Fields, w \in {Null, NoValue, Value("INT64", <<9>>, <<>>)}}}
Rows   == {Value("STRUCT", <<>>, <<v, Value("INT64", <<8>>, <<>>)>>) : v \in Fields \union Lists}
            \union {Value("STRUCT", <<>>, s) : s \in {<<>>, <<Null>>, <<Null, Null, Null>>}}
Tables == {Value("ARRAY", <<>>, <<Null, v>>) : v \in Rows}
SomeValues == Plain \union Fields \union {Value("INT64", <<n>>, <<>>) : n \in 8 .. 9} \union Lists \union Rows \union Tables
=============================================================================
