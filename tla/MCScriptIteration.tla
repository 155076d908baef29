------------------------- MODULE MCScriptIteration --------------------------
(* Model checking of ScriptIteration on small scripts. *)
EXTENDS ScriptIteration, TLC

CONSTANTS c1, c2

TwoClients == {c1, c2}

(* Every script of at most three units, the last of which may be blank. *)
SmallScripts ==
  {s \in UNION {[1 .. n -> Kind] : n \in 0 .. 3} :
     \A i \in DOMAIN s : s[i] = "blank" => i = Len(s)}
=============================================================================
