------------------------------ MODULE MCNodeMap ------------------------------
(* Model checking of NodeMap: a resolved tree of five nodes in three shapes, one parsed tree. *)
EXTENDS NodeMap, TLC

CONSTANTS nil, r1, r2, r3, r4, r5

All == {r1, r2, r3, r4, r5}

(* What some nodes have, and nil for the others. *)
Have(f)     == f @@ [n \in All |-> nil]
Children(f) == f @@ [n \in All |-> <<>>]

Text(f, v) == [form |-> f, value |-> v]
Good       == Text("empty", 0)
Low        == Text("hex", -2)
High       == Text("decimal", 2)
Bad        == Text("other", 0)
Far        == Text("decimal", 3)
SomeTexts  == {Good, Low, High, Bad, Far}

Range(a, b) == [start |-> a, end |-> b]
Cast(sf, src, tgt) == [safe |-> sf, source |-> src, target |-> tgt]

(* Two casts beside each other, one below the other, and a nil child in front. *)
Beside == Children((r1 :> <<r2, r4>>) @@ (r2 :> <<r3>>) @@ (r4 :> <<r5>>))
Nested == Children((r1 :> <<nil, r2>>) @@ (r2 :> <<r4, r3>>) @@ (r4 :> <<r5>>))
InTurn == Children((r1 :> <<r3, r2>>) @@ (r2 :> <<r4>>) @@ (r4 :> <<r5>>))

(* The casts of each shape, and what is cast. *)
CastsOf(children) ==
  IF children = Beside
  THEN {Have((r2 :> Cast(sf, r3, t)) @@ (r4 :> Cast(FALSE, r5, "INT64"))) : sf \in BOOLEAN, t \in {"INT64", nil}}
  ELSE {Have((r2 :> Cast(FALSE, r4, "INT64")) @@ (r4 :> Cast(sf, r5, "INT64"))) : sf \in BOOLEAN}
       \union {Have(r4 :> Cast(FALSE, nil, "INT64"))}
TextsOf(children) ==
  {Have((r3 :> x) @@ (r5 :> y)) : x \in IF children = Beside THEN SomeTexts \union {nil} ELSE {nil}, y \in {Good, Far}}

(* Nodes that share a range with the one above, or beside; without an end, or without a range at all. *)
Places ==
  {Have((r1 :> Range(0, 2)) @@ (r2 :> Range(0, 2)) @@ (r3 :> x) @@ (r4 :> y) @@ (r5 :> Range(1, 2))) :
     x \in {Range(1, 2), nil}, y \in {Range(1, 2), Range(0, nil)}}

ATree(children, range, cast, text) ==
  [root |-> r1, children |-> children, range |-> range, cast |-> cast, text |-> text]

Parsed(x) == ATree(Children(r1 :> <<r2, r3>>), Have((r1 :> Range(0, 2)) @@ (r2 :> Range(0, 2)) @@ (r3 :> x)),
                  Have(<<>>), Have(<<>>))

(* Trees to index, with a parsed tree or without, and trees with casts. *)
Indexed ==
  [resolved : {ATree(c, p, Have(<<>>), Have(<<>>)) : c \in {Beside, Nested}, p \in Places},
   parsed : {Parsed(Range(1, 2)), nil}]
Gated ==
  UNION {{[resolved |-> ATree(c, Have(r3 :> Range(1, 2)), k, x), parsed |-> nil] :
            k \in CastsOf(c), x \in TextsOf(c)} : c \in {Beside, Nested, InTurn}}

SomeOutputs == Indexed \union Gated
MinusTwo    == -2
=============================================================================
