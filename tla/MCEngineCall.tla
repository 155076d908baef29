---------------------------- MODULE MCEngineCall ----------------------------
(* Model checking of EngineCall on small instances. *)
EXTENDS EngineCall, TLC

CONSTANTS a1, a2, a3, c1, c2

TwoBlocks   == {a1, a2}
ThreeBlocks == {a1, a2, a3}
OneClient   == {c1}
TwoClients  == {c1, c2}
TwoTexts    == {"plain", "slashed"}
OneText     == {"slashed"}
SlashedText == {"slashed"}
AllOps      == {"Parse", "ParseNext", "Analyze", "AnalyzeNext"}
AnalyzeOnly == {"Analyze"}

Blocks == Permutations(Addr)
=============================================================================
