----------------------------- MODULE MCOptions ------------------------------
(* Model checking of Options: two calls, two values, few flags of each sort. *)
EXTENDS Options, TLC, FiniteSets

CONSTANTS c1, c2, v1, v2, l1, l2, s1, nil

TwoCalls     == {c1, c2}
OneCall      == {c1}
TwoValues    == {v1, v2}
TwoLanguages == {l1, l2}
OneSlice     == {s1}

(* A feature of the contract, another, and one for tests, in development by its name too. *)
SomeFeatures == {"QUALIFY_CLAUSE", "PIPES", "TEST"}

(* A named parameter without a type, and a positional one; one name in two cases; an ENUM. *)
SomeTables ==
  {[named |-> [p |-> "INT64", q |-> nil], positional |-> <<nil, "STRING">>],
   [named |-> [p |-> "INT64", P |-> "STRING"], positional |-> <<>>],
   [named |-> <<>>, positional |-> <<"ENUM">>]}

SomeFold == [n \in {"p", "P", "q"} |-> IF n = "P" THEN "p" ELSE n]

(* A statement in a syntax of the contract, and one that needs an opt-in. *)
SomeSyntax == {{"QUALIFY_CLAUSE"}, {"PIPES"}}

Alike == Permutations(Call) \union Permutations(Value) \union Permutations(Language)
=============================================================================
