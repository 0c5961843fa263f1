------------------------------- MODULE Parts -------------------------------
(***************************************************************************)
(* An entity that is stored in several parts, each written by a statement  *)
(* of its own: a parent, its own row, its children.  The repository goes   *)
(* from part to part with check_save_effect!, check_update_effect! and     *)
(* check_delete_effect! (src/src/repository.rs), which return an effect    *)
(* that is not Ok as a success of the call; what becomes of it is decided  *)
(* by the use case, with ensure_biz! (src/src/result.rs) or by ignoring    *)
(* it, and do_transaction commits or rolls back accordingly.               *)
(*                                                                         *)
(* Requests run at the same time, each in a transaction of PostgreSQL      *)
(* (READ COMMITTED), which is external: a statement sees the committed     *)
(* rows and its own writes, waits for the transaction that wrote a row     *)
(* before, and a unique violation, which the repository answers as         *)
(* Conflict, aborts its transaction: what it wrote is undone, and its      *)
(* locks are released.                                                     *)
(***************************************************************************)
EXTENDS Naturals

CONSTANTS
  Requests,   \* requests at a time; one that is over makes room for another
  N,          \* parts of the entity
  Gone        \* the content of a part that has no row

ASSUME PartsAssumption ==
  /\ N \in Nat \ {0}
  /\ Gone \notin Requests \cup {"first"}

VARIABLES
  rows,      \* committed: the request that wrote each part last
  call,      \* what each request is for
  at,        \* parts its repository is done with
  effect,    \* what the repository returned, "none" while it is at work
  mine,      \* parts that the request's transaction wrote, and locks
  last,      \* if a request has just ended: which one, with which effect and answer
  split      \* history: a part was deleted on its own

vars == <<rows, call, at, effect, mine, last, split>>

Part == 1..N

\* A request's operation, and the parts that it has something to write to.
Calls == [op : {"save", "delete"}, needs : {Part}] \cup [op : {"update"}, needs : SUBSET Part]
NoCall == [op |-> "none", needs |-> {}]

\* The effects of each operation.
SaveEffect == {"Ok", "Conflict"}
UpdateEffect == {"Ok", "Conflict", "NotFound"}
DeleteEffect == {"Ok", "NotFound"}
Effects(op) ==
  IF op = "save" THEN SaveEffect ELSE IF op = "delete" THEN DeleteEffect ELSE UpdateEffect

Answers == {"ok", "biz", "sys", "cancelled"}

TypeOK ==
  /\ rows \in [Part -> Requests \cup {"first", Gone}]
  /\ call \in [Requests -> Calls \cup {NoCall}]
  /\ at \in [Requests -> 0..N]
  /\ effect \in [Requests -> UpdateEffect \cup {"none"}]
  /\ \A r \in Requests : effect[r] # "none" => effect[r] \in Effects(call[r].op)
  /\ mine \in [Requests -> SUBSET Part]
  /\ last \in {<<>>} \cup (Requests \X (UpdateEffect \cup {"none"}) \X Answers)
  /\ split \in BOOLEAN

Init ==
  /\ rows \in [Part -> {Gone}] \cup [Part -> {"first"}]
  /\ call = [r \in Requests |-> NoCall]
  /\ at = [r \in Requests |-> 0]
  /\ effect = [r \in Requests |-> "none"]
  /\ mine = [r \in Requests |-> {}]
  /\ last = <<>> /\ split = FALSE

\* What the parts S hold once a request has written them.
Stored(r, S) ==
  [p \in Part |-> IF p \notin S THEN rows[p] ELSE IF call[r].op = "delete" THEN Gone ELSE r]

Begin(r) ==
  /\ call[r] = NoCall
  /\ \E c \in Calls : call' = [call EXCEPT ![r] = c]
  /\ last' = <<>> /\ UNCHANGED <<rows, at, effect, mine, split>>

-----------------------------------------------------------------------------
(* The repository, part by part.                                           *)

\* Parts in the order of an operation: rows that refer to others are deleted first.
Nth(r, k) == IF call[r].op = "delete" THEN N + 1 - k ELSE k
Turn(r) == Nth(r, at[r] + 1)

\* The repository has a part to look at, and its statement need not wait: a row that
\* another transaction inserts stops only those that insert it too.
Reaches(r) ==
  /\ call[r] # NoCall /\ effect[r] = "none" /\ at[r] < N
  /\ Turn(r) \in call[r].needs
  /\ \A q \in Requests \ {r} : Turn(r) \in mine[q] =>
       call[q].op = "save" /\ call[r].op # "save"

Go(r) ==
  /\ at' = [at EXCEPT ![r] = @ + 1]
  /\ last' = <<>> /\ UNCHANGED <<rows, call, effect, split>>

\* Nothing changed in this part: its effect is Ok without a statement.
SkipPart(r) ==
  /\ call[r] # NoCall /\ effect[r] = "none" /\ at[r] < N
  /\ Turn(r) \notin call[r].needs
  /\ Go(r) /\ UNCHANGED mine

\* Faulty variant: the statements run outside a transaction.
WritePartNow(r) ==
  /\ Reaches(r)
  /\ rows[Turn(r)] = Gone <=> call[r].op = "save"
  /\ rows' = Stored(r, {Turn(r)})
  /\ at' = [at EXCEPT ![r] = @ + 1]
  /\ last' = <<>> /\ UNCHANGED <<call, effect, mine, split>>

\* The statement finds what it needs, and its effect is Ok.
WritePart(r) ==
  /\ Reaches(r)
  /\ rows[Turn(r)] = Gone <=> call[r].op = "save"
  /\ mine' = [mine EXCEPT ![r] = @ \cup {Turn(r)}]
  /\ Go(r)

\* An effect leaves the repository as a success of the call.
Return(r, e) ==
  /\ effect' = [effect EXCEPT ![r] = e]
  /\ last' = <<>> /\ UNCHANGED <<rows, call, at, split>>

\* Faulty variant: the effect of a part is not checked.
CheckNotFoundNot(r) ==
  /\ Reaches(r)
  /\ call[r].op # "save" /\ rows[Turn(r)] = Gone
  /\ Go(r) /\ UNCHANGED mine

\* check_update_effect! and check_delete_effect! on a row that is not there.
CheckNotFound(r) ==
  /\ Reaches(r)
  /\ call[r].op # "save" /\ rows[Turn(r)] = Gone
  /\ Return(r, "NotFound") /\ UNCHANGED mine

\* Faulty variant: statements that pass over conflicts, and abort nothing.
CheckConflictSoft(r) ==
  /\ Reaches(r)
  /\ call[r].op = "save" \/ (call[r].op = "update" /\ rows[Turn(r)] # Gone)
  /\ Return(r, "Conflict") /\ UNCHANGED mine

\* check_save_effect! and check_update_effect! on a unique violation: the row is
\* there already, or another entity has a value that must be unique.  COMMIT finds
\* nothing left of the transaction, and succeeds.
CheckConflict(r) ==
  /\ Reaches(r)
  /\ call[r].op = "save" \/ (call[r].op = "update" /\ rows[Turn(r)] # Gone)
  /\ Return(r, "Conflict") /\ mine' = [mine EXCEPT ![r] = {}]

ReturnOk(r) ==
  /\ call[r] # NoCall /\ effect[r] = "none" /\ at[r] = N
  /\ Return(r, "Ok") /\ UNCHANGED mine

-----------------------------------------------------------------------------
(* The use case and the end of its transaction.                            *)

End(r, answer, written) ==
  /\ rows' = Stored(r, written)
  /\ last' = <<r, effect[r], answer>>
  /\ call' = [call EXCEPT ![r] = NoCall]
  /\ at' = [at EXCEPT ![r] = 0]
  /\ effect' = [effect EXCEPT ![r] = "none"]
  /\ mine' = [mine EXCEPT ![r] = {}]
  /\ UNCHANGED split

\* The use case goes on, with Ok or with an effect that it ignores (ignore_effect) or
\* does not ask for.
CommitOk(r) == effect[r] # "none" /\ End(r, "ok", mine[r])

\* COMMIT is executed or not, and nobody hears of it: the connection is lost, or the
\* request is dropped.
CommitLost(r) ==
  /\ effect[r] # "none"
  /\ \E a \in {"sys", "cancelled"}, written \in {{}, mine[r]} : End(r, a, written)

\* Faulty variant: a business error commits.
CommitBiz(r) == effect[r] # "none" /\ End(r, "biz", mine[r])

\* ensure_biz! turns the effect into a business error, or the use case has another
\* reason for one.
RollbackBiz(r) == effect[r] # "none" /\ End(r, "biz", {})

\* A statement fails (with its connection, or as the victim of a deadlock), or the
\* request is dropped at an await.
Fail(r) ==
  /\ call[r] # NoCall
  /\ \E a \in {"sys", "cancelled"} : End(r, a, {})

\* A part is deleted on its own, by the repository of a parent or a child.
DeletePart(p) ==
  /\ rows[p] # Gone /\ \A r \in Requests : p \notin mine[r]
  /\ rows' = [rows EXCEPT ![p] = Gone]
  /\ split' = TRUE
  /\ last' = <<>> /\ UNCHANGED <<call, at, effect, mine>>

Next ==
  \/ \E r \in Requests :
       \/ Begin(r)
       \/ SkipPart(r) \/ WritePart(r)
       \/ CheckNotFound(r) \/ CheckConflict(r) \/ ReturnOk(r)
       \/ CommitOk(r) \/ CommitLost(r) \/ RollbackBiz(r) \/ Fail(r)
  \/ \E p \in Part : DeletePart(p)

Spec == Init /\ [][Next]_vars

-----------------------------------------------------------------------------
(* Properties.                                                             *)

\* This step ends a request.
Ends(r) == call[r] # NoCall /\ call'[r] = NoCall

\* A write becomes durable as a whole or not at all, whatever other requests do
\* meanwhile and wherever it fails, unless its use case ignores a NotFound.
AllOrNothing ==
  [][\A r \in Requests : Ends(r) /\ ~(effect[r] = "NotFound" /\ last'[3] # "biz") =>
       rows' \in {rows, Stored(r, call[r].needs)}]_vars

\* What the caller concludes from its answer: Ok with an effect that was Ok means that
\* all is durable, on parts that were all there (or all not there, for a save); a
\* business error means that nothing is.
ToldIsDone ==
  [][\A r \in Requests : Ends(r) =>
       /\ effect[r] = "Ok" /\ last'[3] = "ok" =>
            /\ rows' = Stored(r, call[r].needs)
            /\ \A p \in call[r].needs : rows[p] = Gone <=> call[r].op = "save"
       /\ last'[3] = "biz" => rows' = rows]_vars

\* What is left of a write that was cut, or whose effect was ignored: after NotFound the
\* parts before the missing one, which still is missing; after Conflict nothing.
CutBeforeMissing ==
  [][\A r \in Requests : Ends(r) /\ rows' # rows /\ effect[r] # "Ok" =>
       /\ effect[r] = "NotFound" /\ rows[Turn(r)] = Gone
       /\ rows' = Stored(r, {Nth(r, k) : k \in 1..at[r]} \cap call[r].needs)]_vars

\* Unless a part is deleted on its own, the parts of the entity are all there or all
\* gone, even if use cases ignore effects: no request can meet a part that is there
\* and then one that is not.
EntityWhole == ~split => \A p, q \in Part : rows[p] = Gone <=> rows[q] = Gone

\* The parts are written as if each request wrote them at one moment.
Whole == INSTANCE WholeStore WITH store <- rows
ImplementsWhole == Whole!Spec
=============================================================================
