--------------------------- MODULE MCSessionHandle ---------------------------
(* Instances of SessionHandle for model checking. *)
EXTENDS SessionHandle, TLC

Symmetry == Permutations(Handle) \cup Permutations(Instance)
===============================================================================
