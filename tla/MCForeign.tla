----------------------------- MODULE MCForeign -----------------------------
(* Foreign for TLC: ids are alike. *)
EXTENDS Foreign, FiniteSets, Naturals, TLC

Symmetry == Permutations(Ids)

\* Enough to add and to remove the same id, and for an id to change the field before
\* another one.
MCDocuments ==
  {d \in [add : SUBSET Ids, remove : SUBSET Ids] :
     Cardinality(d.add) + Cardinality(d.remove) \in 1..2}
=============================================================================
