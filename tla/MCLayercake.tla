----------------------------- MODULE MCLayercake -----------------------------
(* A small instance of Layercake for TLC: a base layer that names less than   *)
(* the default, and on it a layer that asks for more, or by an edit for just  *)
(* the default and to be exported.                                            *)
EXTENDS Layercake, TLC

CONSTANTS base, tools, v1, v2

TwoLayers == {base, tools}
Line == base :> Scratch @@ tools :> base
TwoEdited == [l \in TwoLayers |-> {v1, v2}]
LineMBs == base :> (v1 :> 1 @@ v2 :> 1) @@ tools :> (v1 :> 4 @@ v2 :> 2)
Tops == base :> {} @@ tools :> {v2}
=============================================================================
