---------------------------- MODULE TxnContract ----------------------------
(***************************************************************************)
(* What a transaction promises its caller and its callbacks, whatever the  *)
(* connection does (TxnManager and TxCallback of src/src/db/mod.rs): its   *)
(* fate is decided once, at the latest when the caller is answered; the    *)
(* answer is true; each callback hears once; nobody hears Committed of     *)
(* work that is not, and whoever heard RolledBack is not contradicted by a *)
(* commit the manager knows of.  A commit whose answer never came is       *)
(* "unanswered", an outcome that the caller can only be told as an error.  *)
(***************************************************************************)
CONSTANT Callbacks

VARIABLES fate, answer, heard

vars == <<fate, answer, heard>>

Fate == {"undecided", "committed", "rolledback", "unanswered"}
Answer == {"none", "ok", "biz", "sys"}
Verdict == {"no", "Committed", "RolledBack", "ignored"}

Init == fate = "undecided" /\ answer = "none" /\ heard = [c \in Callbacks |-> "no"]

\* What may be answered for a transaction with this fate, and heard of it.
Answerable(f, a) ==
  /\ a = "ok"  => f = "committed"
  /\ a = "biz" => f = "rolledback"
  /\ a = "sys" => f # "committed"

Hearable(f, h) ==
  /\ h = "Committed"  => f = "committed"
  /\ h = "RolledBack" => f # "committed"
  /\ h = "ignored"    => f = "undecided"

\* The fate is decided, the caller is answered, callbacks hear of it, or all at once.
Advance ==
  /\ fate' \in Fate /\ Answerable(fate', answer')
  /\ fate # "undecided" \/ answer # "none" => fate' = fate
  /\ answer' \in Answer
  /\ answer # "none" => answer' = answer
  /\ heard' \in [Callbacks -> Verdict]
  /\ \A c \in Callbacks : heard[c] # "no" => heard'[c] = heard[c]
  /\ \A c \in Callbacks : Hearable(fate', heard'[c])

Spec == Init /\ [][Advance]_vars
=============================================================================
