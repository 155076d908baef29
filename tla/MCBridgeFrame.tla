---------------------------- MODULE MCBridgeFrame ----------------------------
(* Model checking of BridgeFrame on short messages and one long text. *)
EXTENDS BridgeFrame, SequencesExt

(* Texts that look like a frame or a proto themselves, and one longer than a byte counts. *)
Texts ==
  {<<0>>, <<69>>, ErrorPrefix, <<10, 0>>, [i \in 1 .. 300 |-> 65]}

(* The empty proto, short ones, and one whose payload spells "Error: ". *)
Protos ==
  {<<>>, <<10>>, <<18, 69>>, <<10, 7>> \o ErrorPrefix}

(* The block ends the memory, or something follows it. *)
After == {<<>>, <<0>>, <<69, 69>>}

(* Every frame of up to nine bytes 0 or 1 under some outer sizes. *)
Overwritten ==
  {<<>>, <<1>>} \union
  {Word(n) \o s : n \in {3, 8, 9, 10}, s \in BoundedSeq({0, 1}, 9)}
=============================================================================
