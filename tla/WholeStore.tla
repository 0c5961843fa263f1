----------------------------- MODULE WholeStore -----------------------------
(***************************************************************************)
(* What a repository promises of an entity that is stored in several       *)
(* parts: a request changes all the parts it means to, at one moment, or   *)
(* none, unless it ignores that a part was not there.  Parts implements    *)
(* this.                                                                   *)
(***************************************************************************)
EXTENDS Naturals

CONSTANTS Requests, N, Gone

VARIABLES
  store,     \* what each part holds
  call,      \* what each request is for
  last       \* if a request has just ended: which one, with which effect and answer

vars == <<store, call, last>>

Part == 1..N
Calls == [op : {"save", "delete"}, needs : {Part}] \cup [op : {"update"}, needs : SUBSET Part]
NoCall == [op |-> "none", needs |-> {}]

Init ==
  /\ store \in [Part -> {Gone}] \cup [Part -> {"first"}]
  /\ call = [r \in Requests |-> NoCall]
  /\ last = <<>>

Begin(r) ==
  /\ call[r] = NoCall
  /\ \E c \in Calls : call' = [call EXCEPT ![r] = c]
  /\ last' = <<>> /\ UNCHANGED store

\* What a request writes into the parts S.
Stored(r, S) ==
  [p \in Part |-> IF p \notin S THEN store[p] ELSE IF call[r].op = "delete" THEN Gone ELSE r]

End(r, effect, answers) ==
  /\ call[r] # NoCall /\ call' = [call EXCEPT ![r] = NoCall]
  /\ \E a \in answers : last' = <<r, effect, a>>

\* The whole write takes effect, on parts that are all there, or all not there for a
\* save.  The answer may get lost.
Apply(r) ==
  /\ End(r, "Ok", {"ok", "sys", "cancelled"})
  /\ \A p \in call[r].needs : store[p] = Gone <=> call[r].op = "save"
  /\ store' = Stored(r, call[r].needs)

\* Nothing takes effect, which is answered by a success only if the effect was ignored.
Refuse(r) ==
  /\ \/ \E e \in {"none", "Ok"} : End(r, e, {"biz", "sys", "cancelled"})
     \/ \E e \in {"Conflict", "NotFound"} : End(r, e, {"ok", "biz", "sys", "cancelled"})
  /\ UNCHANGED store

\* An ignored NotFound: some of the parts change, because not all are there.
Cut(r) ==
  /\ End(r, "NotFound", {"ok", "sys", "cancelled"})
  /\ \E S \in SUBSET call[r].needs :
       /\ \A p \in S : store[p] # Gone
       /\ store' = Stored(r, S)
  /\ \E p \in call[r].needs : store[p] = Gone

\* Others delete a part.
Lose(p) ==
  /\ store' = [store EXCEPT ![p] = Gone]
  /\ last' = <<>> /\ UNCHANGED call

\* A request is at work.
Work == last' = <<>> /\ UNCHANGED <<store, call>>

Next ==
  \/ \E r \in Requests : Begin(r) \/ Apply(r) \/ Refuse(r) \/ Cut(r)
  \/ \E p \in Part : Lose(p)
  \/ Work

Spec == Init /\ [][Next]_vars
=============================================================================
