----------------------------- MODULE MCPySystem -----------------------------
(* PySystem for TLC: the calls are interchangeable.                        *)
EXTENDS PySystem, TLC

Symmetry == Permutations(Calls)
=============================================================================
