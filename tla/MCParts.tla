------------------------------ MODULE MCParts ------------------------------
(* Parts for TLC: requests are alike. *)
EXTENDS Parts, TLC

Symmetry == Permutations(Requests)
=============================================================================
