------------------------------ MODULE MCCatalog ------------------------------
(* Model checking of Catalog on small trees: r holds s and u, s holds u. *)
EXTENDS Catalog, TLC

CONSTANTS r, s, u, nil

SomeNames == {"a", "A", "b", "default"}
SomeFold  == [n \in SomeNames |-> IF n = "A" THEN "a" ELSE n]

Three == {r, s, u}

(* Every path of up to two segments in lower case, some that are longer, and some in upper case. *)
SomePaths ==
  {<<>>, <<"a">>, <<"b">>, <<"a", "a">>, <<"a", "b">>, <<"b", "a">>, <<"b", "b">>,
   <<"A", "a">>, <<"b", "A", "a">>, <<"a", "a", "a">>, <<"a", "b", "a">>}

Column(n, t)  == [name |-> n, type |-> t]
Table(n, cs)  == [name |-> n, columns |-> cs, value |-> FALSE]
TableA        == Table("a", <<Column("a", "INT64")>>)
TableB        == Table("b", <<Column("a", "INT64"), Column("b", "ENUM")>>)
TableAgain    == Table("A", <<>>)
TableHoled    == Table("b", <<Column("a", "STRUCT")>>)
SomeTables    == {TableA, TableB, TableAgain, TableHoled}

Argument(k, t, o) == [kind |-> k, type |-> t, options |-> o]
Repeated1         == [cardinality |-> "repeated", name |-> "rest"]
Signature(res, args) == [result |-> res, arguments |-> args, context |-> 0]

FunctionA == [path |-> <<"a">>,
              signatures |-> <<Signature(Argument("fixed", "INT64", nil), <<Argument("any", nil, Repeated1)>>)>>]
FunctionB == [path |-> <<"A", "b">>,
              signatures |-> <<Signature(nil, <<Argument("fixed", "ENUM", nil)>>)>>]
FunctionC == [path |-> <<"a">>, signatures |-> <<Signature(Argument("fixed", "STRUCT", nil), <<>>)>>]
SomeFunctions == {FunctionA, FunctionB, FunctionC}

Holding(n, ts, fs, subs) == [name |-> n, tables |-> ts, functions |-> fs, subs |-> subs]

SubsOfR == {<<>>, <<s>>, <<u>>, <<s, u>>, <<u, s>>, <<u, u>>}
SubsOfS == {<<>>, <<u>>}

(* Trees with tables, whose names and order matter, and trees with functions, whose places do. *)
TableShapes ==
  {(r :> Holding("b", tr, <<>>, sr)) @@ (s :> Holding(ns, ts, <<>>, ss)) @@ (u :> Holding(nu, tu, <<>>, <<>>)) :
     tr \in {<<>>, <<TableB, TableA>>}, ts \in {<<>>, <<TableA>>, <<TableAgain, TableA>>},
     tu \in {<<TableA>>, <<TableB>>, <<TableHoled>>}, sr \in SubsOfR, ss \in SubsOfS,
     ns \in {"a", "b"}, nu \in {"a", "A", "b"}}
FunctionShapes ==
  {(r :> Holding("b", <<>>, fr, sr)) @@ (s :> Holding("a", <<>>, fs, ss)) @@ (u :> Holding("b", <<>>, fu, <<>>)) :
     fr \in {<<>>, <<FunctionB>>, <<FunctionB, FunctionA>>}, fs \in {<<>>, <<FunctionA>>, <<FunctionC>>},
     fu \in {<<>>, <<FunctionA>>, <<FunctionB>>}, sr \in SubsOfR, ss \in SubsOfS}
SmallShapes == TableShapes \union FunctionShapes
=============================================================================
