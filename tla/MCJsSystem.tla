----------------------------- MODULE MCJsSystem -----------------------------
(* JsSystem for TLC: the calls are interchangeable.                        *)
EXTENDS JsSystem, TLC

Symmetry == Permutations(Calls)
=============================================================================
