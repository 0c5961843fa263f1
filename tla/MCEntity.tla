----------------------------- MODULE MCEntity -----------------------------
(* Entity for TLC: sessions, ids and values are alike. *)
EXTENDS Entity, TLC

Symmetry == Permutations(Sessions) \cup Permutations(Ids) \cup Permutations(Values)
=============================================================================
