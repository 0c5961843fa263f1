-------------------------------- MODULE Txn --------------------------------
(***************************************************************************)
(* One request's transaction layer: TxnManagerDiesel over DbAdapterDiesel  *)
(* (src/src/db/diesel/mod.rs), driven the way UseCase::execute_in_txn and  *)
(* TxnUseCase drive it (src/src/usecase.rs).                               *)
(*                                                                         *)
(* The clones of a manager share its state and its callbacks, and its      *)
(* adapter shares one lazily fetched connection, so the module keeps one   *)
(* copy of each.  Everything runs on one thread: the steps are what        *)
(* happens between two awaits, and the request can be dropped at any of    *)
(* them.  A use case may run another transactional use case inside its own *)
(* transaction, which nests do_transaction on the same manager.            *)
(*                                                                         *)
(* The connection is external.  It counts nested transactions as diesel    *)
(* does: BEGIN at depth 0, a savepoint above; COMMIT or ROLLBACK at depth  *)
(* 1, a savepoint's release or rollback above.  A failed statement aborts  *)
(* a PostgreSQL transaction, after which savepoints are refused and a      *)
(* COMMIT is answered normally but rolls back.                             *)
(***************************************************************************)
EXTENDS Integers

CONSTANTS
  Callbacks,      \* the callbacks the use cases may register
  Owning,         \* those that hold a clone of the manager
  MaxDepth,       \* bound: do_transaction calls nested in one another
  MaxTxns,        \* bound: outermost do_transaction calls of the request
  MaxHandles,     \* bound: clones of the manager held outside callbacks
  MaySwallow      \* whether a use case may go on after a failed statement

ASSUME OwningAssumption == Owning \subseteq Callbacks
ASSUME BoundAssumption ==
  /\ MaxDepth \in Nat \ {0}
  /\ MaxTxns \in Nat \ {0}
  /\ MaxHandles \in Nat \ {0}
ASSUME SwallowAssumption == MaySwallow \in BOOLEAN

VARIABLES
  state,     \* TxnManagerDiesel::state
  pending,   \* TxnManagerDiesel::callbacks
  handles,   \* clones of the manager outside callbacks
  level,     \* do_transaction calls in progress
  phase,     \* where the innermost of them stands
  conn,      \* DbAdapterDiesel::conn: not fetched yet, ready, in a PostgreSQL
             \* transaction that refuses statements, or of no use any more
  depth,     \* nested transactions the connection has open
  n,         \* outermost do_transaction calls so far; txn m is the m-th
  db,        \* what became of the work of each txn
  ret,       \* what each outermost call returned
  base,      \* depth of the connection when txn m began
  dirty,     \* txns whose own body went on over a failed statement, or in which a
             \* nested commit failed and left its savepoint behind
  lost,      \* txns whose call ended without set_state and invoke_callbacks
  reg,       \* txn each callback was registered in, 0 outside, -1 not yet
  told,      \* what each callback was called with
  inner,     \* callbacks called by a nested do_transaction
  nested     \* txns in which a nested do_transaction set the state

manager == <<state, pending, handles>>
call    == <<level, phase, n>>
session == <<conn, depth, db>>
history == <<ret, base, dirty, lost>>
heard   == <<reg, told, inner, nested>>
vars    == <<manager, call, session, history, heard>>

Txns == 1..MaxTxns
TxnState == {"NotInTransaction", "Begun", "Committed", "RolledBack"}
Undoing == {"rollback_biz", "rollback_sys"}
Phase == {"idle", "begin", "body", "commit"} \cup Undoing

TypeOK ==
  /\ state \in TxnState
  /\ pending \subseteq Callbacks
  /\ handles \in 0..MaxHandles
  /\ level \in 0..MaxDepth
  /\ phase \in Phase
  /\ conn \in {"none", "ready", "aborted", "broken"}
  /\ depth \in Nat
  /\ n \in 0..MaxTxns
  /\ db \in [Txns -> {"none", "open", "committed", "rolledback"}]
  /\ ret \in [Txns -> {"none", "ok", "biz", "sys"}]
  /\ base \in [Txns -> Nat]
  /\ dirty \subseteq Txns
  /\ lost \subseteq Txns
  /\ reg \in [Callbacks -> -1..MaxTxns]
  /\ told \in [Callbacks -> {"no", "Committed", "RolledBack", "ignored"}]
  /\ inner \subseteq Callbacks
  /\ nested \subseteq Txns

Init ==
  /\ state = "NotInTransaction" /\ pending = {} /\ handles \in 1..MaxHandles
  /\ level = 0 /\ phase = "idle" /\ n = 0
  /\ conn = "none" /\ depth = 0
  /\ db = [m \in Txns |-> "none"]
  /\ ret = [m \in Txns |-> "none"]
  /\ base = [m \in Txns |-> 0]
  /\ dirty = {} /\ lost = {}
  /\ reg = [c \in Callbacks |-> -1]
  /\ told = [c \in Callbacks |-> "no"]
  /\ inner = {} /\ nested = {}

-----------------------------------------------------------------------------
(* The database session (external).                                        *)

Live == conn \in {"ready", "aborted"}
Open == {m \in Txns : db[m] = "open"}
Settle(S, fate) == [m \in Txns |-> IF m \in S THEN fate ELSE db[m]]

\* The connection is lost: the server rolls back what is open.
ConnLost ==
  /\ conn' = "broken" /\ depth' = 0
  /\ db' = Settle(Open, "rolledback")

\* A COMMIT whose answer never arrives: it was executed, or it was not.
AnswerLost ==
  \/ ConnLost
  \/ /\ conn = "ready" /\ depth = 1
     /\ conn' = "broken" /\ depth' = 0
     /\ db' = Settle(Open, "committed")

\* Faulty variant: a begin inside a transaction opens no savepoint.
BeginFlat ==
  /\ conn \in {"none", "ready"}
  /\ conn' = "ready" /\ depth' = 1

\* BEGIN at depth 0, a savepoint above.
Begin ==
  /\ conn \in {"none", "ready"}
  /\ conn' = "ready" /\ depth' = depth + 1

\* COMMIT at depth 1, a savepoint's release above.
Commit ==
  /\ Live /\ depth > 0
  /\ depth > 1 => conn = "ready"
  /\ conn' = "ready" /\ depth' = depth - 1
  /\ db' = IF depth > 1 THEN db
           ELSE Settle(Open, IF conn = "aborted" THEN "rolledback" ELSE "committed")

\* ROLLBACK at depth 1, above it back to the innermost savepoint, which undoes
\* the whole of a txn only if that txn set it.
Rollback ==
  /\ Live /\ depth > 0
  /\ conn' = "ready" /\ depth' = depth - 1
  /\ db' = IF depth = 1 THEN Settle(Open, "rolledback")
           ELSE IF depth = base[n] + 1 THEN Settle({n}, "rolledback")
           ELSE db

-----------------------------------------------------------------------------
(* The manager.                                                            *)

\* do_transaction returns to its caller.
Leave(r) ==
  /\ level' = level - 1
  /\ phase' = IF level = 1 THEN "idle" ELSE "body"
  /\ ret' = IF level = 1 THEN [ret EXCEPT ![n] = r] ELSE ret
  /\ UNCHANGED n

\* A `?` leaves do_transaction before set_state and invoke_callbacks.
LeaveEarly ==
  /\ Leave("sys")
  /\ lost' = IF level = 1 THEN lost \cup {n} ELSE lost
  /\ UNCHANGED <<manager, heard, base>>

\* Faulty variant: the callbacks are called and stay registered.
InvokeKeeping(verdict) ==
  /\ told' = [c \in Callbacks |-> IF c \in pending THEN verdict ELSE told[c]]
  /\ inner' = IF level > 1 THEN inner \cup pending ELSE inner
  /\ nested' = IF level > 1 THEN nested \cup {n} ELSE nested
  /\ UNCHANGED <<pending, reg>>

\* invoke_callbacks at the end of do_transaction: the registered callbacks are
\* taken and called, each once.  One that holds the manager may register another,
\* which waits for the next occasion.
Invoke(verdict) ==
  /\ told' = [c \in Callbacks |-> IF c \in pending THEN verdict ELSE told[c]]
  /\ inner' = IF level > 1 THEN inner \cup pending ELSE inner
  /\ nested' = IF level > 1 THEN nested \cup {n} ELSE nested
  /\ \/ pending' = {} /\ UNCHANGED reg
     \/ \E c \in Callbacks :
          /\ reg[c] = -1
          /\ pending \cap Owning # {}
          /\ pending' = {c}
          /\ reg' = [reg EXCEPT ![c] = IF level > 1 THEN n ELSE 0]

\* do_transaction is called, by the request or by the body of an outer call.
CallTxn ==
  /\ handles > 0
  /\ \/ phase = "idle" /\ n < MaxTxns /\ n' = n + 1
     \/ phase = "body" /\ level < MaxDepth /\ UNCHANGED n
  /\ level' = level + 1 /\ phase' = "begin"
  /\ UNCHANGED <<manager, session, history, heard>>

BeginOk ==
  /\ phase = "begin"
  /\ Begin
  /\ db' = IF level = 1 THEN Settle({n}, "open") ELSE db
  /\ base' = IF level = 1 THEN [base EXCEPT ![n] = depth] ELSE base
  /\ state' = "Begun" /\ phase' = "body"
  /\ UNCHANGED <<pending, handles, level, n, ret, dirty, lost, heard>>

\* No connection from the pool, a refused BEGIN or savepoint, or a lost connection.
BeginErr ==
  /\ phase = "begin"
  /\ UNCHANGED session \/ ConnLost
  /\ Leave("sys")
  /\ UNCHANGED <<manager, heard, base, dirty, lost>>

\* The body, or the request around it, registers a callback.
Register(c) ==
  /\ phase \in {"idle", "body"} /\ handles > 0
  /\ reg[c] = -1
  /\ pending' = pending \cup {c}
  /\ reg' = [reg EXCEPT ![c] = IF level > 0 THEN n ELSE 0]
  /\ UNCHANGED <<state, handles, call, session, history, told, inner, nested>>

\* A statement of the body fails, and the body passes the error on with `?`.
SqlErr ==
  /\ phase = "body" /\ Live
  /\ conn' = "aborted" /\ phase' = "rollback_sys"
  /\ UNCHANGED <<manager, level, n, depth, db, history, heard>>

\* A statement of the body fails, and the body goes on: what is_conflict is for.
SqlErrSwallowed ==
  /\ MaySwallow
  /\ phase = "body" /\ Live
  /\ conn' = "aborted"
  /\ dirty' = IF level = 1 THEN dirty \cup {n} ELSE dirty
  /\ UNCHANGED <<manager, call, depth, db, ret, base, lost, heard>>

\* The connection is lost under the body, which notices at its next statement.
SqlConnLost ==
  /\ phase = "body" /\ Live
  /\ ConnLost
  /\ UNCHANGED <<manager, call, history, heard>>

\* The body completes with Ok(Ok(_)), Ok(Err(_)) or Err(_).
Complete(next) ==
  /\ phase = "body"
  /\ phase' = next
  /\ UNCHANGED <<manager, level, n, session, history, heard>>

BodyDone == \E next \in {"commit"} \cup Undoing : Complete(next)

CommitOk ==
  /\ phase = "commit"
  /\ Commit
  /\ state' = "Committed"
  /\ Invoke("Committed")
  /\ Leave("ok")
  /\ UNCHANGED <<handles, base, dirty, lost>>

\* Faulty variant: the error of commit_txn is not looked at.
CommitErrIgnored ==
  /\ phase = "commit"
  /\ \/ conn = "broken" /\ UNCHANGED session
     \/ Live /\ AnswerLost
  /\ state' = "Committed"
  /\ Invoke("Committed")
  /\ Leave("ok")
  /\ UNCHANGED <<handles, base, dirty, lost>>

\* Faulty variant: a business error commits.
RollbackOkCommits ==
  /\ phase \in Undoing
  /\ Commit
  /\ state' = "RolledBack"
  /\ Invoke("RolledBack")
  /\ Leave(IF phase = "rollback_biz" THEN "biz" ELSE "sys")
  /\ UNCHANGED <<handles, base, dirty, lost>>

\* Faulty variant: a rollback does not record the state.
RollbackOkStateless ==
  /\ phase \in Undoing
  /\ Rollback
  /\ Invoke("RolledBack")
  /\ Leave(IF phase = "rollback_biz" THEN "biz" ELSE "sys")
  /\ UNCHANGED <<state, handles, base, dirty, lost>>

\* Faulty variant: a rollback calls no callbacks.
RollbackOkSilent ==
  /\ phase \in Undoing
  /\ Rollback
  /\ state' = "RolledBack"
  /\ Leave(IF phase = "rollback_biz" THEN "biz" ELSE "sys")
  /\ UNCHANGED <<pending, handles, base, dirty, lost, heard>>

\* The commit is refused: on a connection that cannot run it, with the answer lost,
\* with diesel's own rollback after it, or leaving an aborted savepoint behind.
CommitErr ==
  /\ phase = "commit"
  /\ \/ conn = "broken" /\ UNCHANGED <<session, dirty>>
     \/ Live /\ AnswerLost /\ UNCHANGED dirty
     \/ Rollback /\ UNCHANGED dirty
     \/ /\ Live /\ depth > 1
        /\ conn' = "aborted" /\ UNCHANGED <<depth, db>>
        /\ dirty' = dirty \cup {n}
  /\ LeaveEarly

RollbackOk ==
  /\ phase \in Undoing
  /\ Rollback
  /\ state' = "RolledBack"
  /\ Invoke("RolledBack")
  /\ Leave(IF phase = "rollback_biz" THEN "biz" ELSE "sys")
  /\ UNCHANGED <<handles, base, dirty, lost>>

RollbackErr ==
  /\ phase \in Undoing
  /\ \/ conn = "broken" /\ UNCHANGED session
     \/ Live /\ ConnLost
  /\ LeaveEarly
  /\ UNCHANGED dirty

\* The future of the request is dropped at an await: every call in progress ends
\* where it stands.  A statement in flight may have been executed or not.
Cancel ==
  /\ level > 0
  /\ level' = 0 /\ phase' = "idle"
  /\ lost' = lost \cup {n}
  /\ \/ UNCHANGED session
     \/ Live /\ phase # "commit" /\ ConnLost
     \/ Live /\ phase = "commit" /\ AnswerLost
  /\ UNCHANGED <<manager, n, ret, base, dirty, heard>>

\* Faulty variant: a transaction left open counts as committed.
VerdictHopeful ==
  IF state = "NotInTransaction" THEN "ignored"
  ELSE IF state = "RolledBack" THEN "RolledBack" ELSE "Committed"

\* What a callback still registered when the last clone is dropped is called with.
Verdict ==
  IF state = "NotInTransaction" THEN "ignored"
  ELSE IF state = "Committed" THEN "Committed" ELSE "RolledBack"

\* Faulty variant: dropping the last clone calls nothing.
DropHandleSilent ==
  /\ phase \in {"idle", "body"}
  /\ handles > (IF level > 0 THEN 1 ELSE 0)
  /\ handles' = handles - 1
  /\ UNCHANGED <<state, pending, call, session, history, heard>>

\* A clone of the manager is dropped.  The last one calls the callbacks, unless a
\* callback itself holds one.
DropHandle ==
  /\ phase \in {"idle", "body"}
  /\ handles > (IF level > 0 THEN 1 ELSE 0)
  /\ handles' = handles - 1
  /\ IF handles = 1 /\ pending \cap Owning = {}
     THEN /\ told' = [c \in Callbacks |-> IF c \in pending THEN Verdict ELSE told[c]]
          /\ pending' = {}
     ELSE UNCHANGED <<told, pending>>
  /\ UNCHANGED <<state, call, session, history, reg, inner, nested>>

\* Faulty variant: a connection with a transaction open is kept.
ReleaseIdleConn ==
  /\ handles = 0 /\ pending \cap Owning = {}
  /\ conn # "none" /\ depth = 0
  /\ conn' = "none" /\ UNCHANGED <<depth, db>>
  /\ UNCHANGED <<manager, call, history, heard>>

\* With the last clone the adapter goes, and the connection back to the pool, which
\* closes one that still has a transaction open.
ReleaseConn ==
  /\ handles = 0 /\ pending \cap Owning = {}
  /\ conn # "none"
  /\ conn' = "none" /\ depth' = 0
  /\ db' = Settle(Open, "rolledback")
  /\ UNCHANGED <<manager, call, history, heard>>

Answered == BeginOk \/ BeginErr \/ CommitOk \/ CommitErr \/ RollbackOk \/ RollbackErr

Next ==
  \/ CallTxn \/ BeginOk \/ BeginErr
  \/ \E c \in Callbacks : Register(c)
  \/ SqlErr \/ SqlErrSwallowed \/ SqlConnLost \/ BodyDone
  \/ CommitOk \/ CommitErr \/ RollbackOk \/ RollbackErr
  \/ Cancel \/ DropHandle \/ ReleaseConn

Spec == Init /\ [][Next]_vars

\* The database answers or the connection fails, the body of every call completes,
\* and the request that holds the manager and the adapter ends.
Fairness ==
  /\ WF_vars(Answered)
  /\ \A l \in 1..MaxDepth : SF_vars(level = l /\ BodyDone)
  /\ WF_vars(DropHandle)
  /\ WF_vars(ReleaseConn)

FairSpec == Spec /\ Fairness

-----------------------------------------------------------------------------
(* Properties.                                                             *)

\* do_transaction returns Ok(Ok(_)) for work that is committed, with two exceptions, and
\* in these always for work that is not: the call was made on a connection that still had
\* a transaction open, whose commit is a savepoint's release, or its body went on over a
\* failure.
OkIsDurable ==
  \A m \in Txns : ret[m] = "ok" => (db[m] = "committed" <=> base[m] = 0 /\ m \notin dirty)

\* An error is for work that is undone: after a business error the transaction is
\* rolled back, after a system error too, if it began, unless its call was abandoned by
\* an error of commit or rollback.  One whose nested commit left its savepoint behind
\* may stay open on the connection, but is not committed either.
ErrIsUndone ==
  \A m \in Txns : ret[m] \in {"biz", "sys"} /\ m \notin lost =>
    /\ db[m] # "committed"
    /\ m \notin dirty => db[m] = "rolledback" \/ (ret[m] = "sys" /\ db[m] = "none")

\* A callback registered in a transaction is told Committed if that transaction is
\* committed, with the exceptions of OkIsDurable, and RolledBack only if it is not and
\* never will be, or the answer of its COMMIT was lost.  If its call was abandoned, it is
\* told Committed on somebody else's account only: that of a later transaction, or of a
\* nested call that had set the state.  Callbacks that a nested do_transaction calls with
\* its own verdict are set apart.
VerdictTruth ==
  \A c \in Callbacks : reg[c] > 0 /\ c \notin inner =>
    LET m == reg[c] IN
    /\ told[c] = "Committed" =>
         IF m \notin lost THEN db[m] = "committed" <=> base[m] = 0 /\ m \notin dirty
         ELSE m \in nested \/ \E k \in Txns : k > m /\ ret[k] = "ok"
    /\ told[c] = "RolledBack" => db[m] # "committed" \/ m \in lost

\* When do_transaction returns, every callback registered in it has been called, or the
\* call was abandoned before invoke_callbacks, and they stay registered.
DeliveredBeforeReturn ==
  \A c \in Callbacks : reg[c] > 0 =>
    \/ told[c] # "no"
    \/ c \in pending /\ (ret[reg[c]] = "none" \/ reg[c] \in lost)

\* The state that callbacks and state() rely on is that of the last transaction that
\* began: its outcome, or Begun while it is in progress and for ever after its call was
\* abandoned, unless a nested call left another state there.
StateMatchesLast ==
  LET begun == {m \in Txns : db[m] # "none"}
      last  == CHOOSE m \in begun : \A k \in begun : k <= m
  IN  IF begun = {} THEN state = "NotInTransaction"
      ELSE IF ret[last] # "none" /\ last \notin lost
      THEN state = IF ret[last] = "ok" THEN "Committed" ELSE "RolledBack"
      ELSE state = "Begun" \/ last \in nested

\* The last clone leaves nobody uncalled, except callbacks kept alive by a callback
\* that holds a clone itself.
LeftOnlyByCycle == handles = 0 => pending = {} \/ pending \cap Owning # {}

\* Work becomes durable only by the outermost commit of its own transaction: neither
\* a nested commit nor a later transaction makes work durable that was abandoned.
CommitOnlyCurrent ==
  [][\A m \in Txns : db[m] # "committed" /\ db'[m] = "committed" =>
       m = n /\ level = 1 /\ phase = "commit"]_vars

\* A callback is called once.
ToldOnce ==
  [][/\ \A c \in Callbacks : told[c] # "no" => told'[c] = told[c]
     /\ \A c \in Callbacks : told[c] # "no" => c \notin pending']_vars

\* A callback that holds a clone waits in the list of that same manager, and nobody
\* outside is left who could drop it.
Cycle == handles = 0 /\ pending \cap Owning # {}

\* Every registered callback is called in the end, unless a
\* callback keeps the manager for itself.
EventuallyTold == \A c \in Callbacks : reg[c] >= 0 ~> told[c] # "no" \/ Cycle

\* The connection a request took goes back to the pool, with the same exception.
EventuallyReleased == conn # "none" ~> conn = "none" \/ Cycle

\* For one transaction whose body stops at a failed statement, the layer implements
\* the contract of TxnContract: towards the caller, and towards every callback, also
\* those registered before or after it and those that hold the manager themselves.
Contract == INSTANCE TxnContract WITH
  fate  <- IF db[1] \in {"none", "open"} THEN "undecided"
           ELSE IF db[1] = "committed" /\ 1 \in lost THEN "unanswered" ELSE db[1],
  answer <- ret[1],
  heard <- told
ImplementsContract == Contract!Spec
=============================================================================
