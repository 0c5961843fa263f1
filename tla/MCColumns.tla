----------------------------- MODULE MCColumns -----------------------------
(* Columns for TLC. *)
EXTENDS Columns

\* The new version has a value more, and gave up another one.
MCKnown == [v \in Versions |-> IF v = "old" THEN 0..2 ELSE 1..3]
=============================================================================
