----------------------------- MODULE TxnProofs -----------------------------
(* What holds of Txn for any callbacks, any nesting and any number of     *)
(* transactions on one request.                                           *)
EXTENDS Txn, TLAPS

\* The call stack: a phase belongs to a call, and a call to a transaction, which has
\* returned nothing yet.
Shape ==
  /\ level = 0 <=> phase = "idle"
  /\ level > 0 => n > 0 /\ handles > 0 /\ ret[n] = "none" /\ n \notin lost
  /\ \A m \in Txns : m > n => db[m] = "none" /\ ret[m] = "none" /\ m \notin lost /\ m \notin dirty

TypeInv == TypeOK /\ Shape

-----------------------------------------------------------------------------
(* Typing.                                                                 *)

LEMMA TypeInit == Init => TypeInv
BY BoundAssumption DEF Init, TypeInv, TypeOK, Shape, Txns, TxnState, Phase, Undoing

LEMMA TypeStep == TypeInv /\ [Next]_vars => TypeInv'
<1> SUFFICES ASSUME TypeInv, [Next]_vars PROVE TypeInv'
  OBVIOUS
<1> USE BoundAssumption DEF TypeInv, TypeOK, Shape, Txns, TxnState, Phase, Undoing,
      manager, call, session, history, heard
<1>1. CASE CallTxn
  BY <1>1 DEF CallTxn
<1>2. CASE BeginOk
  BY <1>2 DEF BeginOk, Begin, Settle
<1>3. CASE BeginErr
  BY <1>3 DEF BeginErr, ConnLost, Settle, Open, Leave
<1>4. ASSUME NEW c \in Callbacks, Register(c) PROVE TypeInv'
  BY <1>4 DEF Register
<1>5. CASE SqlErr
  BY <1>5 DEF SqlErr
<1>16. CASE SqlErrSwallowed
  BY <1>16 DEF SqlErrSwallowed
<1>6. CASE SqlConnLost
  BY <1>6 DEF SqlConnLost, ConnLost, Settle, Open
<1>7. CASE BodyDone
  BY <1>7 DEF BodyDone, Complete
<1>17. ASSUME NEW v \in {"Committed", "RolledBack"}, Invoke(v), level > 0, n \in Txns
       PROVE  /\ pending' \subseteq Callbacks /\ inner' \subseteq Callbacks /\ nested' \subseteq Txns
              /\ reg' \in [Callbacks -> -1..MaxTxns]
              /\ told' \in [Callbacks -> {"no", "Committed", "RolledBack", "ignored"}]
  <2>1. pending' \subseteq Callbacks /\ inner' \subseteq Callbacks /\ nested' \subseteq Txns
    BY <1>17 DEF Invoke
  <2>2. told' \in [Callbacks -> {"no", "Committed", "RolledBack", "ignored"}]
    BY <1>17 DEF Invoke
  <2>3. reg' = reg \/ \E c \in Callbacks : reg' = [reg EXCEPT ![c] = IF level > 1 THEN n ELSE 0]
    BY <1>17 DEF Invoke
  <2>5. n \in -1..MaxTxns /\ 0 \in -1..MaxTxns
    OBVIOUS
  <2>4. reg' \in [Callbacks -> -1..MaxTxns]
    BY <2>3, <2>5
  <2> QED
    BY <2>1, <2>2, <2>4
<1>8. CASE CommitOk
  <2>1. level > 0 /\ n \in Txns /\ phase = "commit"
    BY <1>8 DEF CommitOk
  <2>2. /\ pending' \subseteq Callbacks /\ inner' \subseteq Callbacks /\ nested' \subseteq Txns
        /\ reg' \in [Callbacks -> -1..MaxTxns]
        /\ told' \in [Callbacks -> {"no", "Committed", "RolledBack", "ignored"}]
    BY <1>8, <1>17, <2>1 DEF CommitOk
  <2>3. /\ conn' = "ready" /\ depth' \in Nat
        /\ db' \in [Txns -> {"none", "open", "committed", "rolledback"}]
        /\ \A m \in Txns : m > n => db'[m] = "none"
    BY <1>8, <2>1 DEF CommitOk, Commit, Live, Settle, Open
  <2> QED
    BY <1>8, <2>1, <2>2, <2>3 DEF CommitOk, Leave
<1>9. CASE CommitErr
  <2> USE DEF Leave, LeaveEarly
  <2>1. level > 0 /\ n \in Txns
    BY <1>9 DEF CommitErr
  <2>2. CASE UNCHANGED <<session, dirty>>
    BY <1>9, <2>1, <2>2 DEF CommitErr
  <2>3. CASE AnswerLost /\ UNCHANGED dirty
    BY <1>9, <2>1, <2>3 DEF CommitErr, AnswerLost, ConnLost, Settle, Open
  <2>4. CASE Rollback /\ UNCHANGED dirty
    BY <1>9, <2>1, <2>4 DEF CommitErr, Rollback, Settle, Open
  <2>5. CASE conn' = "aborted" /\ UNCHANGED <<depth, db>> /\ dirty' = dirty \cup {n}
    BY <1>9, <2>1, <2>5 DEF CommitErr
  <2> QED
    BY <1>9, <2>2, <2>3, <2>4, <2>5 DEF CommitErr
<1>10. CASE RollbackOk
  BY <1>10, <1>17 DEF RollbackOk, Rollback, Live, Settle, Open, Leave
<1>11. CASE RollbackErr
  BY <1>11 DEF RollbackErr, ConnLost, Settle, Open, Leave, LeaveEarly
<1>12. CASE Cancel
  BY <1>12 DEF Cancel, AnswerLost, ConnLost, Live, Settle, Open
<1>13. CASE DropHandle
  BY <1>13 DEF DropHandle, Verdict
<1>14. CASE ReleaseConn
  BY <1>14 DEF ReleaseConn, Settle, Open
<1>15. CASE UNCHANGED vars
  BY <1>15 DEF vars
<1> QED
  BY <1>1, <1>2, <1>3, <1>4, <1>5, <1>6, <1>7, <1>8, <1>9, <1>10, <1>11, <1>12,
     <1>13, <1>14, <1>15, <1>16 DEF Next

-----------------------------------------------------------------------------
(* The connection is where the calls in progress think it is.              *)

\* The transaction of the calls in progress has begun.
Started == level > 0 /\ (level = 1 => phase # "begin")

\* How many of the calls in progress have begun.
Begun == IF phase = "begin" THEN level - 1 ELSE level

\* A connection counts at least as many transactions as are begun on it, and unless
\* the transaction is dirty exactly as many; at depth 1 it holds no other work.
Aligned ==
  Live /\ Started =>
    /\ db[n] = "open"
    /\ depth >= base[n] + Begun
    /\ n \notin dirty => depth = base[n] + Begun
    /\ base[n] = 0 => \A m \in Txns : db[m] = "open" => m = n

Empty == ~Live \/ depth = 0 => depth = 0 /\ \A m \in Txns : db[m] # "open"
Fresh == level = 1 /\ phase = "begin" => db[n] = "none" /\ n \notin dirty
Fetched == Started => conn # "none"
Marked ==
  conn = "aborted" =>
    /\ level = 1 /\ phase \in {"body", "commit"} => n \in dirty
    /\ level = 2 /\ phase = "begin" => n \in dirty

SessionInv == Empty /\ Fresh /\ Fetched /\ Aligned /\ Marked

LEMMA SessionInit == Init => SessionInv
BY DEF Init, SessionInv, Empty, Fresh, Fetched, Marked, Aligned, Started, Live, Open

LEMMA SessionStep == TypeInv /\ SessionInv /\ [Next]_vars => SessionInv'
<1> SUFFICES ASSUME TypeInv, SessionInv, [Next]_vars PROVE SessionInv'
  OBVIOUS
<1> USE BoundAssumption DEF TypeInv, TypeOK, Shape, SessionInv, Empty, Fresh, Fetched, Marked,
      Aligned, Started, Begun, Live, Open, Txns, TxnState, Phase, Undoing, manager, call, session, history, heard
<1>1. CASE CallTxn
  BY <1>1 DEF CallTxn
<1>2. CASE BeginOk
  <2>1. Empty'
    BY <1>2 DEF BeginOk, Begin, Settle
  <2>2. Fresh'
    BY <1>2 DEF BeginOk, Begin, Settle
  <2>3. Aligned'
    <3>1. n \in Txns /\ depth' = depth + 1 /\ Begun' = level /\ UNCHANGED <<level, n, dirty>>
      BY <1>2 DEF BeginOk, Begin
    <3>4. depth \in Nat /\ level \in Nat /\ level > 0
      BY <1>2 DEF BeginOk
    <3>2. CASE level = 1
      <4>1. db' = Settle({n}, "open") /\ base' = [base EXCEPT ![n] = depth] /\ n \notin dirty
        BY <1>2, <3>2 DEF BeginOk
      <4>2. depth = 0 => \A m \in Txns : db[m] # "open"
        OBVIOUS
      <4> QED
        BY <3>1, <3>2, <4>1, <4>2 DEF Settle
    <3>3. CASE level > 1
      <4>1. UNCHANGED <<db, base>> /\ Started /\ phase' = "body"
        BY <1>2, <3>3 DEF BeginOk
      <4>2. Live
        BY <1>2, <4>1 DEF BeginOk, Begin
      <4>3. /\ db[n] = "open" /\ base[n] \in Nat /\ depth >= base[n] + level - 1
            /\ n \notin dirty => depth = base[n] + level - 1
            /\ base[n] = 0 => \A m \in Txns : db[m] = "open" => m = n
        BY <1>2, <4>1, <4>2 DEF BeginOk
      <4> HIDE DEF TypeInv, SessionInv
      <4> QED
        BY <3>1, <3>3, <3>4, <4>1, <4>3
    <3> HIDE DEF TypeInv, SessionInv
    <3> QED
      BY <3>2, <3>3, <3>4
  <2>5. Fetched'
    BY <1>2 DEF BeginOk, Begin, Settle
  <2>4. Marked'
    BY <1>2 DEF BeginOk, Begin, Settle
  <2> QED
    BY <2>1, <2>2, <2>3, <2>4, <2>5
<1>3. CASE BeginErr
  BY <1>3 DEF BeginErr, ConnLost, Settle, Leave
<1>4. ASSUME NEW c \in Callbacks, Register(c) PROVE SessionInv'
  BY <1>4 DEF Register
<1>5. CASE SqlErr
  BY <1>5 DEF SqlErr
<1>6. CASE SqlErrSwallowed
  BY <1>6 DEF SqlErrSwallowed
<1>7. CASE SqlConnLost
  BY <1>7 DEF SqlConnLost, ConnLost, Settle
<1>8. CASE BodyDone
  BY <1>8 DEF BodyDone, Complete
<1>9. CASE CommitOk
  <2>1. Empty'
    BY <1>9 DEF CommitOk, Commit, Settle, Leave, Invoke
  <2>2. Fresh'
    BY <1>9 DEF CommitOk, Commit, Settle, Leave, Invoke
  <2>3. Aligned'
    <3> SUFFICES ASSUME Live', Started' PROVE Aligned'
      BY DEF Aligned
    <3>1. level > 1 /\ level' = level - 1 /\ phase' = "body" /\ UNCHANGED <<n, base>>
      BY <1>9 DEF CommitOk, Commit, Settle, Leave, Invoke
    <3>2. /\ db[n] = "open" /\ base[n] \in Nat /\ depth >= base[n] + level
          /\ n \notin dirty => depth = base[n] + level
          /\ base[n] = 0 => \A m \in Txns : db[m] = "open" => m = n
      BY <1>9, <3>1 DEF CommitOk, Commit, Settle, Leave, Invoke
    <3>3. depth' = depth - 1 /\ UNCHANGED <<db, dirty>>
      BY <1>9, <3>1, <3>2 DEF CommitOk, Commit, Settle, Leave, Invoke
    <3>4. depth \in Nat /\ level \in Nat
      OBVIOUS
    <3> HIDE DEF TypeInv, SessionInv
    <3> QED
      BY <3>1, <3>2, <3>3, <3>4
  <2>5. Fetched'
    BY <1>9 DEF CommitOk, Commit, Settle, Leave, Invoke
  <2>4. Marked'
    BY <1>9 DEF CommitOk, Commit, Settle, Leave, Invoke
  <2> QED
    BY <2>1, <2>2, <2>3, <2>4, <2>5
<1>10. CASE CommitErr
  <2> USE DEF Leave, LeaveEarly
  <2>1. CASE conn = "broken" /\ UNCHANGED <<session, dirty>>
    BY <1>10, <2>1 DEF CommitErr
  <2>2. CASE AnswerLost /\ UNCHANGED dirty
    BY <1>10, <2>2 DEF CommitErr, AnswerLost, ConnLost, Settle
  <2>3. CASE Rollback /\ UNCHANGED dirty
    <3>1. Empty'
      BY <1>10, <2>3 DEF CommitErr, Rollback, Settle
    <3>2. Fresh'
      BY <1>10, <2>3 DEF CommitErr, Rollback, Settle
    <3>3. Aligned'
      <4> SUFFICES ASSUME Live', Started' PROVE Aligned'
        BY DEF Aligned
      <4>1. level > 1 /\ level' = level - 1 /\ phase' = "body" /\ UNCHANGED <<n, base>>
        BY <1>10, <2>3 DEF CommitErr, Rollback, Settle
      <4>2. /\ db[n] = "open" /\ base[n] \in Nat /\ depth >= base[n] + level
            /\ n \notin dirty => depth = base[n] + level
            /\ base[n] = 0 => \A m \in Txns : db[m] = "open" => m = n
        BY <1>10, <2>3, <4>1 DEF CommitErr, Rollback, Settle
      <4>3. depth' = depth - 1 /\ UNCHANGED <<db, dirty>>
        BY <1>10, <2>3, <4>1, <4>2 DEF CommitErr, Rollback, Settle
      <4>4. depth \in Nat /\ level \in Nat
        OBVIOUS
      <4> HIDE DEF TypeInv, SessionInv
      <4> QED
        BY <4>1, <4>2, <4>3, <4>4
    <3>5. Fetched'
      BY <1>10, <2>3 DEF CommitErr, Rollback, Settle
    <3>4. Marked'
      BY <1>10, <2>3 DEF CommitErr, Rollback, Settle
    <3> QED
      BY <3>1, <3>2, <3>3, <3>4, <3>5
  <2>4. CASE Live /\ depth > 1 /\ conn' = "aborted" /\ UNCHANGED <<depth, db>> /\ dirty' = dirty \cup {n}
    <3>1. Empty'
      BY <1>10, <2>4 DEF CommitErr
    <3>2. Fresh'
      BY <1>10, <2>4 DEF CommitErr
    <3>3. Aligned'
      <4> SUFFICES ASSUME Live', Started' PROVE Aligned'
        BY DEF Aligned
      <4>1. level > 1 /\ level' = level - 1 /\ phase' = "body" /\ UNCHANGED <<n, base>>
        BY <1>10, <2>4 DEF CommitErr
      <4>2. /\ db[n] = "open" /\ base[n] \in Nat /\ depth >= base[n] + level
            /\ n \notin dirty => depth = base[n] + level
            /\ base[n] = 0 => \A m \in Txns : db[m] = "open" => m = n
        BY <1>10, <2>4, <4>1 DEF CommitErr
      <4>3. dirty' = dirty \cup {n} /\ UNCHANGED <<depth, db>>
        BY <1>10, <2>4, <4>1, <4>2 DEF CommitErr
      <4>4. depth \in Nat /\ level \in Nat
        OBVIOUS
      <4> HIDE DEF TypeInv, SessionInv
      <4> QED
        BY <4>1, <4>2, <4>3, <4>4
    <3>5. Fetched'
      BY <1>10, <2>4 DEF CommitErr
    <3>4. Marked'
      BY <1>10, <2>4 DEF CommitErr
    <3> QED
      BY <3>1, <3>2, <3>3, <3>4, <3>5
  <2> QED
    BY <1>10, <2>1, <2>2, <2>3, <2>4 DEF CommitErr
<1>11. CASE RollbackOk
  <2>1. Empty'
    BY <1>11 DEF RollbackOk, Rollback, Settle, Leave, Invoke
  <2>2. Fresh'
    BY <1>11 DEF RollbackOk, Rollback, Settle, Leave, Invoke
  <2>3. Aligned'
    <3> SUFFICES ASSUME Live', Started' PROVE Aligned'
      BY DEF Aligned
    <3>1. level > 1 /\ level' = level - 1 /\ phase' = "body" /\ UNCHANGED <<n, base>>
      BY <1>11 DEF RollbackOk, Rollback, Settle, Leave, Invoke
    <3>2. /\ db[n] = "open" /\ base[n] \in Nat /\ depth >= base[n] + level
          /\ n \notin dirty => depth = base[n] + level
          /\ base[n] = 0 => \A m \in Txns : db[m] = "open" => m = n
      BY <1>11, <3>1 DEF RollbackOk, Rollback, Settle, Leave, Invoke
    <3>3. depth' = depth - 1 /\ UNCHANGED <<db, dirty>>
      BY <1>11, <3>1, <3>2 DEF RollbackOk, Rollback, Settle, Leave, Invoke
    <3>4. depth \in Nat /\ level \in Nat
      OBVIOUS
    <3> HIDE DEF TypeInv, SessionInv
    <3> QED
      BY <3>1, <3>2, <3>3, <3>4
  <2>5. Fetched'
    BY <1>11 DEF RollbackOk, Rollback, Settle, Leave, Invoke
  <2>4. Marked'
    BY <1>11 DEF RollbackOk, Rollback, Settle, Leave, Invoke
  <2> QED
    BY <2>1, <2>2, <2>3, <2>4, <2>5
<1>12. CASE RollbackErr
  BY <1>12 DEF RollbackErr, ConnLost, Settle, Leave, LeaveEarly
<1>13. CASE Cancel
  BY <1>13 DEF Cancel, AnswerLost, ConnLost, Settle
<1>14. CASE DropHandle
  BY <1>14 DEF DropHandle
<1>15. CASE ReleaseConn
  BY <1>15 DEF ReleaseConn, Settle
<1>16. CASE UNCHANGED vars
  BY <1>16 DEF vars
<1> QED
  BY <1>1, <1>2, <1>3, <1>4, <1>5, <1>6, <1>7, <1>8, <1>9, <1>10, <1>11, <1>12,
     <1>13, <1>14, <1>15, <1>16 DEF Next

-----------------------------------------------------------------------------
(* What is committed.                                                      *)

\* What a step does to the records of the transactions: it commits the one in
\* progress or none, and what is settled stays so.
Frame ==
  /\ \A m \in Txns : db[m] \in {"committed", "rolledback"} => db'[m] = db[m]
  /\ \A m \in Txns : db[m] # "committed" /\ db'[m] = "committed" =>
       m = n /\ level = 1 /\ phase = "commit"
  /\ dirty \subseteq dirty' /\ lost \subseteq lost'
  /\ \A m \in dirty' : m \in dirty \/ (m = n /\ level > 0)
  /\ \A m \in Txns : base'[m] # base[m] => m = n /\ level = 1 /\ phase = "begin"
  /\ \A m \in Txns : ret'[m] # ret[m] => m = n /\ level = 1

\* In a call that waits for COMMIT, the connection at depth 1 holds its work alone.
LEMMA AtCommit ==
  ASSUME TypeInv, SessionInv, phase = "commit" \/ phase \in Undoing, Live
  PROVE  /\ n \in Txns /\ level > 0 /\ db[n] = "open" /\ depth >= base[n] + level
         /\ base[n] \in Nat /\ level \in Nat /\ depth \in Nat
         /\ n \notin dirty => depth = base[n] + level
         /\ base[n] = 0 => \A m \in Txns : db[m] = "open" => m = n
         /\ depth = 1 => level = 1 /\ \A m \in Txns : db[m] = "open" => m = n
<1> USE BoundAssumption DEF TypeInv, TypeOK, Shape, SessionInv, Aligned, Txns, Undoing
<1>1. Started /\ Begun = level /\ level \in Nat /\ depth \in Nat /\ n \in Txns /\ base[n] \in Nat
  BY DEF Started, Begun
<1>2. /\ db[n] = "open" /\ depth >= base[n] + level
      /\ n \notin dirty => depth = base[n] + level
      /\ base[n] = 0 => \A m \in Txns : db[m] = "open" => m = n
  BY <1>1
<1> QED
  BY <1>1, <1>2 DEF Started

LEMMA FrameStep == TypeInv /\ SessionInv /\ [Next]_vars => Frame
<1> SUFFICES ASSUME TypeInv, SessionInv, [Next]_vars PROVE Frame
  OBVIOUS
<1> USE DEF Frame, TypeInv, TypeOK, manager, call, session, history, heard
<1>1. CASE CallTxn \/ (\E c \in Callbacks : Register(c)) \/ SqlErr \/ BodyDone \/ DropHandle
  BY <1>1 DEF CallTxn, Register, SqlErr, BodyDone, Complete, DropHandle
<1>2. CASE BeginOk
  <2>1. level = 1 => db[n] = "none"
    BY <1>2 DEF BeginOk, SessionInv, Fresh
  <2> QED
    BY <1>2, <2>1 DEF BeginOk, Settle
<1>3. CASE BeginErr
  BY <1>3 DEF BeginErr, ConnLost, Settle, Open, Leave
<1>4. CASE SqlErrSwallowed
  BY <1>4 DEF SqlErrSwallowed
<1>5. CASE SqlConnLost \/ ReleaseConn
  BY <1>5 DEF SqlConnLost, ReleaseConn, ConnLost, Settle, Open
<1>6. CASE CommitOk
  BY <1>6, AtCommit DEF CommitOk, Commit, Leave, Settle, Open
<1>7. CASE CommitErr
  <2> USE DEF Leave, LeaveEarly
  <2>1. CASE conn = "broken" /\ UNCHANGED <<session, dirty>>
    BY <1>7, <2>1 DEF CommitErr
  <2>2. CASE Live /\ AnswerLost /\ UNCHANGED dirty
    BY <1>7, <2>2, AtCommit DEF CommitErr, AnswerLost, ConnLost, Settle, Open
  <2>3. CASE Rollback /\ UNCHANGED dirty
    BY <1>7, <2>3, AtCommit DEF CommitErr, Rollback, Settle, Open
  <2>4. CASE Live /\ depth > 1 /\ conn' = "aborted" /\ UNCHANGED <<depth, db>> /\ dirty' = dirty \cup {n}
    BY <1>7, <2>4 DEF CommitErr, Shape
  <2> QED
    BY <1>7, <2>1, <2>2, <2>3, <2>4 DEF CommitErr
<1>8. CASE RollbackOk
  BY <1>8, AtCommit DEF RollbackOk, Rollback, Leave, Settle, Open
<1>9. CASE RollbackErr
  BY <1>9 DEF RollbackErr, ConnLost, Settle, Open, Leave, LeaveEarly
<1>10. CASE Cancel
  BY <1>10, AtCommit DEF Cancel, AnswerLost, ConnLost, Settle, Open
<1>11. CASE UNCHANGED vars
  BY <1>11 DEF vars
<1> QED
  BY <1>1, <1>2, <1>3, <1>4, <1>5, <1>6, <1>7, <1>8, <1>9, <1>10, <1>11 DEF Next

\* A dirty transaction that may still be committed has a savepoint too many on its
\* connection, or the connection refuses statements until the transaction ends.
Soiled ==
  Live /\ Started /\ n \in dirty =>
    \/ depth > base[n] + Begun
    \/ conn = "aborted" /\ (level = 1 \/ (level = 2 /\ phase = "begin"))

LEMMA SoiledStep == TypeInv /\ SessionInv /\ Soiled /\ [Next]_vars => Soiled'
<1> SUFFICES ASSUME TypeInv, SessionInv, Soiled, [Next]_vars, Live', Started', n' \in dirty'
             PROVE  Soiled'
  BY DEF Soiled
<1> USE BoundAssumption DEF TypeInv, TypeOK, Shape, Soiled, Started, Begun, Live, Txns, Undoing,
      Phase, manager, call, session, history
<1>1. CASE CallTxn
  BY <1>1 DEF CallTxn
<1>2. CASE BeginOk
  <2>1. CASE level = 1
    BY <1>2, <2>1 DEF BeginOk, SessionInv, Fresh
  <2>2. CASE level # 1
    <3>1. conn = "ready" \/ conn = "none"
      BY <1>2 DEF BeginOk, Begin
    <3>2. Started /\ UNCHANGED <<level, n, dirty, base>> /\ depth' = depth + 1
      BY <1>2, <2>2 DEF BeginOk, Begin
    <3>3. conn = "ready"
      BY <3>1, <3>2 DEF SessionInv, Fetched
    <3>4. depth > base[n] + (level - 1)
      BY <1>2, <3>2, <3>3 DEF BeginOk
    <3>5. Begun' = level /\ base[n] \in Nat
      BY <1>2, <3>2 DEF BeginOk
    <3> QED
      BY <3>2, <3>4, <3>5
  <2> QED
    BY <2>1, <2>2
<1>3. CASE BeginErr
  BY <1>3 DEF BeginErr, ConnLost, Leave
<1>4. CASE (\E c \in Callbacks : Register(c)) \/ SqlErr \/ BodyDone \/ DropHandle \/ UNCHANGED vars
  BY <1>4 DEF Register, SqlErr, BodyDone, Complete, DropHandle, vars
<1>5. CASE SqlErrSwallowed
  BY <1>5 DEF SqlErrSwallowed
<1>6. CASE SqlConnLost \/ RollbackErr \/ Cancel \/ ReleaseConn
  BY <1>6 DEF SqlConnLost, RollbackErr, Cancel, ReleaseConn, ConnLost, LeaveEarly, Leave
<1>7. ASSUME level' = level - 1, phase' = IF level = 1 THEN "idle" ELSE "body",
             phase \in {"commit"} \cup Undoing,
             UNCHANGED <<n, base, dirty>>, Live, depth' = depth - 1
      PROVE  Soiled'
  <2>1. Started /\ Begun = level /\ level > 1 /\ Begun' = level - 1
    BY <1>7
  <2>2. depth > base[n] + level
    BY <1>7, <2>1
  <2> QED
    BY <1>7, <2>1, <2>2
<1>8. CASE CommitOk \/ RollbackOk
  BY <1>7, <1>8 DEF CommitOk, RollbackOk, Commit, Rollback, Leave
<1>9. CASE CommitErr
  <2> USE DEF LeaveEarly, Leave
  <2>1. CASE conn = "broken" /\ UNCHANGED <<session, dirty>>
    BY <1>9, <2>1 DEF CommitErr
  <2>2. CASE AnswerLost /\ UNCHANGED dirty
    BY <1>9, <2>2 DEF CommitErr, AnswerLost, ConnLost
  <2>3. CASE Rollback /\ UNCHANGED dirty
    BY <1>7, <1>9, <2>3 DEF CommitErr, Rollback
  <2>4. CASE Live /\ conn' = "aborted" /\ UNCHANGED <<depth, db>>
    <3>1. level > 1 /\ level' = level - 1 /\ phase' = "body" /\ UNCHANGED <<n, base, depth>>
      BY <1>9, <2>4 DEF CommitErr
    <3>2. depth >= base[n] + level
      BY <1>9, <2>4, AtCommit DEF CommitErr
    <3>3. Begun' = level - 1 /\ base[n] \in Nat
      BY <3>1
    <3> QED
      BY <3>1, <3>2, <3>3
  <2> QED
    BY <1>9, <2>1, <2>2, <2>3, <2>4 DEF CommitErr
<1> QED
  BY <1>1, <1>2, <1>3, <1>4, <1>5, <1>6, <1>8, <1>9 DEF Next

LEMMA DurableStep ==
  TypeInv /\ SessionInv /\ Soiled /\ OkIsDurable /\ [Next]_vars => OkIsDurable'
<1> SUFFICES ASSUME TypeInv, SessionInv, Soiled, OkIsDurable, [Next]_vars,
                    NEW m \in Txns, ret'[m] = "ok"
             PROVE  db'[m] = "committed" <=> base'[m] = 0 /\ m \notin dirty'
  BY DEF OkIsDurable, Txns
<1>1. Frame
  BY FrameStep
<1>2. CASE ret[m] = "ok"
  <2>1. ~(m = n /\ level > 0)
    BY <1>2 DEF TypeInv, Shape
  <2>2. base[m] = base'[m] /\ (m \in dirty <=> m \in dirty')
    BY <1>1, <2>1 DEF Frame
  <2>3. db[m] = "committed" <=> db'[m] = "committed"
    BY <1>1, <2>1 DEF Frame
  <2> QED
    BY <1>2, <2>2, <2>3 DEF OkIsDurable
<1>3. CASE ret[m] # "ok"
  <2>1. CommitOk /\ m = n /\ level = 1
    BY <1>1, <1>3 DEF Frame, Next, vars, history, CallTxn, BeginOk, BeginErr, Register, SqlErr,
       SqlErrSwallowed, SqlConnLost, BodyDone, Complete, CommitErr, RollbackOk, RollbackErr,
       Cancel, DropHandle, ReleaseConn, Leave, LeaveEarly, TypeInv, TypeOK
  <2>2. Live /\ phase = "commit" /\ UNCHANGED <<base, dirty>> /\ (depth > 1 => conn = "ready")
    BY <2>1 DEF CommitOk, Commit
  <2>3. /\ n \in Txns /\ db[n] = "open" /\ depth >= base[n] + 1 /\ base[n] \in Nat /\ depth \in Nat
        /\ n \notin dirty => depth = base[n] + 1
    BY <2>1, <2>2, AtCommit
  <2>4. CASE base[n] = 0 /\ n \notin dirty
    <3>1. depth = 1 /\ conn = "ready"
      BY <2>1, <2>2, <2>3, <2>4 DEF SessionInv, Marked, Live
    <3> QED
      BY <2>1, <2>2, <2>3, <2>4, <3>1 DEF CommitOk, Commit, Settle, Open
  <2>5. CASE base[n] # 0 \/ n \in dirty
    <3>1. depth > 1 \/ conn = "aborted"
      BY <2>1, <2>2, <2>3, <2>5 DEF Soiled, Started, Begun
    <3>2. db'[n] # "committed"
      BY <2>1, <2>2, <2>3, <3>1 DEF CommitOk, Commit, Settle, Open, TypeInv, TypeOK
    <3> QED
      BY <2>1, <2>2, <2>5, <3>2
  <2> QED
    BY <2>4, <2>5
<1> QED
  BY <1>2, <1>3

\* Only begin_txn of an outermost call makes a record of a transaction.
LEMMA RecordStep ==
  ASSUME TypeInv, SessionInv, [Next]_vars, ~(BeginOk /\ level = 1)
  PROVE  \A m \in Txns : db'[m] = "none" <=> db[m] = "none"
<1> USE DEF TypeInv, TypeOK, session
<1>1. CASE CallTxn \/ (\E c \in Callbacks : Register(c)) \/ SqlErr \/ BodyDone \/ DropHandle
           \/ SqlErrSwallowed \/ BeginOk
  BY <1>1 DEF CallTxn, Register, SqlErr, BodyDone, Complete, DropHandle, SqlErrSwallowed, BeginOk
<1>2. CASE BeginErr \/ SqlConnLost \/ ReleaseConn \/ RollbackErr
  BY <1>2 DEF BeginErr, SqlConnLost, ReleaseConn, RollbackErr, ConnLost, Settle, Open
<1>3. CASE CommitOk \/ RollbackOk
  BY <1>3, AtCommit DEF CommitOk, RollbackOk, Commit, Rollback, Settle, Open
<1>4. CASE CommitErr
  BY <1>4, AtCommit DEF CommitErr, AnswerLost, ConnLost, Rollback, Settle, Open
<1>5. CASE Cancel
  BY <1>5 DEF Cancel, AnswerLost, ConnLost, Settle, Open
<1>6. CASE UNCHANGED vars
  BY <1>6 DEF vars
<1> QED
  BY <1>1, <1>2, <1>3, <1>4, <1>5, <1>6 DEF Next

\* Whoever's work is committed was answered Ok, or its call was abandoned; nobody who
\* was answered by do_transaction itself counts as abandoned.
Accounted ==
  \A m \in Txns :
    /\ m \in lost => ret[m] \in {"none", "sys"}
    /\ db[m] = "committed" => ret[m] = "ok" \/ m \in lost

\* A step by which an outermost call ends, and how.
LEMMA Returns ==
  ASSUME TypeInv, [Next]_vars, NEW m \in Txns, ret'[m] # ret[m]
  PROVE  /\ m = n /\ level = 1 /\ level' = 0
         /\ \/ BeginErr /\ ret'[m] = "sys"
            \/ CommitOk /\ ret'[m] = "ok"
            \/ RollbackOk /\ ret'[m] = IF phase = "rollback_biz" THEN "biz" ELSE "sys"
            \/ (CommitErr \/ RollbackErr) /\ ret'[m] = "sys" /\ lost' = lost \cup {n}
BY DEF Next, vars, history, CallTxn, BeginOk, BeginErr, Register, SqlErr, SqlErrSwallowed,
   SqlConnLost, BodyDone, Complete, CommitOk, CommitErr, RollbackOk, RollbackErr,
   Cancel, DropHandle, ReleaseConn, Leave, LeaveEarly, TypeInv, TypeOK

\* A step by which work becomes durable, and how.
LEMMA Commits ==
  ASSUME TypeInv, SessionInv, [Next]_vars, NEW m \in Txns,
         db[m] # "committed", db'[m] = "committed"
  PROVE  m = n /\ level = 1 /\ (CommitOk \/ CommitErr \/ Cancel)
BY FrameStep DEF Frame, Next, vars, session, CallTxn, BeginOk, BeginErr, Register, SqlErr,
   SqlErrSwallowed, SqlConnLost, BodyDone, Complete, RollbackOk, RollbackErr, DropHandle,
   ReleaseConn, Settle, TypeInv, TypeOK, Undoing

\* Only the transaction in progress is abandoned.
LEMMA LostBy ==
  ASSUME TypeInv, [Next]_vars
  PROVE  \A m \in lost' : m \in lost \/ (m = n /\ level > 0 /\ (CommitErr \/ RollbackErr \/ Cancel))
BY DEF Next, vars, history, CallTxn, BeginOk, BeginErr, Register, SqlErr,
   SqlErrSwallowed, SqlConnLost, BodyDone, Complete, CommitOk, CommitErr, RollbackOk,
   RollbackErr, Cancel, DropHandle, ReleaseConn, Leave, LeaveEarly, TypeInv, TypeOK

LEMMA AccountedStep == TypeInv /\ SessionInv /\ Accounted /\ [Next]_vars => Accounted'
<1> SUFFICES ASSUME TypeInv, SessionInv, Accounted, [Next]_vars, NEW m \in Txns
             PROVE  /\ m \in lost' => ret'[m] \in {"none", "sys"}
                    /\ db'[m] = "committed" => ret'[m] = "ok" \/ m \in lost'
  BY DEF Accounted, Txns
<1>1. Frame
  BY FrameStep
<1>2. ret[m] # "none" => ret'[m] = ret[m]
  BY Returns DEF TypeInv, Shape
<1>3. ASSUME m \in lost' PROVE ret'[m] \in {"none", "sys"}
  <2>1. CASE m \in lost
    BY <1>2, <2>1, Returns DEF Accounted, TypeInv, Shape
  <2>2. CASE m \notin lost
    <3>1. m = n /\ level > 0 /\ (CommitErr \/ RollbackErr \/ Cancel)
      BY <1>3, <2>2, LostBy
    <3>2. ret[n] = "none"
      BY <3>1 DEF TypeInv, Shape
    <3> QED
      BY <3>1, <3>2 DEF CommitErr, RollbackErr, Cancel, Leave, LeaveEarly, TypeInv, TypeOK
  <2> QED
    BY <2>1, <2>2
<1>4. ASSUME db'[m] = "committed" PROVE ret'[m] = "ok" \/ m \in lost'
  <2>1. CASE db[m] = "committed"
    BY <1>1, <1>2, <2>1 DEF Accounted, Frame
  <2>2. CASE db[m] # "committed"
    <3>1. m = n /\ level = 1 /\ (CommitOk \/ CommitErr \/ Cancel)
      BY <1>4, <2>2, Commits
    <3> QED
      BY <3>1 DEF CommitOk, CommitErr, Cancel, Leave, LeaveEarly, TypeInv, TypeOK
  <2> QED
    BY <2>1, <2>2
<1> QED
  BY <1>3, <1>4

LEMMA UndoneStep == TypeInv /\ SessionInv /\ ErrIsUndone /\ [Next]_vars => ErrIsUndone'
<1> SUFFICES ASSUME TypeInv, SessionInv, ErrIsUndone, [Next]_vars,
                    NEW m \in Txns, ret'[m] \in {"biz", "sys"}, m \notin lost'
             PROVE  /\ db'[m] # "committed"
                    /\ m \notin dirty' =>
                         db'[m] = "rolledback" \/ (ret'[m] = "sys" /\ db'[m] = "none")
  BY DEF ErrIsUndone, Txns
<1>1. Frame
  BY FrameStep
<1>2. CASE ret'[m] = ret[m]
  <2>1. ~(m = n /\ level > 0)
    BY <1>2 DEF TypeInv, Shape
  <2>2. /\ db[m] # "committed"
        /\ m \notin dirty => db[m] = "rolledback" \/ (ret[m] = "sys" /\ db[m] = "none")
    BY <1>1, <1>2 DEF Frame, ErrIsUndone
  <2>3. db[m] = "none" => db'[m] = "none"
    BY <2>1, RecordStep DEF BeginOk, Settle, TypeInv, TypeOK
  <2> QED
    BY <1>1, <1>2, <2>1, <2>2, <2>3, Commits DEF Frame
<1>3. CASE ret'[m] # ret[m]
  <2>1. m = n /\ level = 1
    BY <1>3, Returns
  <2>2. CASE BeginErr
    <3>1. db[n] = "none" /\ ret'[n] = "sys"
      BY <2>1, <2>2 DEF BeginErr, Leave, SessionInv, Fresh, TypeInv, TypeOK
    <3>2. db'[n] = "none"
      BY <2>1, <2>2, <3>1 DEF BeginErr, session, ConnLost, Settle, Open
    <3> QED
      BY <2>1, <3>1, <3>2
  <2>3. CASE RollbackOk
    <3>1. Live /\ phase \in Undoing /\ UNCHANGED dirty
      BY <2>3 DEF RollbackOk, Rollback
    <3>2. /\ db[n] = "open" /\ base[n] \in Nat /\ depth \in Nat
          /\ n \notin dirty => depth = base[n] + 1
      BY <2>1, <3>1, AtCommit
    <3>3. db'[n] # "committed"
      BY <1>1, <2>1, <3>1, <3>2 DEF Frame, Undoing
    <3>4. n \notin dirty => db'[n] = "rolledback"
      BY <2>1, <2>3, <3>2 DEF RollbackOk, Rollback, Settle, Open
    <3> QED
      BY <2>1, <3>1, <3>3, <3>4
  <2> QED
    BY <1>3, <2>1, <2>2, <2>3, Returns
<1> QED
  BY <1>2, <1>3

-----------------------------------------------------------------------------
(* What the callbacks are told.                                            *)

\* Registered and not yet called are those in the manager's list.  They belong to
\* the transaction in progress, or to one whose call was abandoned; one that the
\* transaction in progress no longer lists was called by a nested call.
HeardFor(c) ==
  /\ IF level = 1 /\ phase = "begin" THEN reg[c] < n ELSE reg[c] <= n
  /\ c \in pending <=> reg[c] >= 0 /\ told[c] = "no"
  /\ reg[c] = -1 => told[c] = "no"
  /\ reg[c] > 0 =>
       IF level > 0 /\ reg[c] = n THEN c \in pending \/ c \in inner
                                  ELSE c \in pending => reg[c] \in lost

HeardInv == \A c \in Callbacks : HeardFor(c)

LEMMA HeardStep == TypeInv /\ HeardInv /\ [Next]_vars => HeardInv'
<1> SUFFICES ASSUME TypeInv, HeardInv, [Next]_vars, NEW c \in Callbacks
             PROVE  HeardFor(c)'
  BY DEF HeardInv
<1> HeardFor(c)
  BY DEF HeardInv
<1> USE BoundAssumption DEF HeardFor, TypeInv, TypeOK, Shape, Phase, Undoing, Txns,
      manager, call, session, history, heard
<1>1. CASE CallTxn
  BY <1>1 DEF CallTxn
<1>2. CASE BeginOk \/ SqlErr \/ SqlErrSwallowed \/ SqlConnLost \/ BodyDone \/ ReleaseConn
  BY <1>2 DEF BeginOk, SqlErr, SqlErrSwallowed, SqlConnLost, BodyDone, Complete, ReleaseConn
<1>3. CASE BeginErr
  BY <1>3 DEF BeginErr, Leave
<1>4. ASSUME NEW d \in Callbacks, Register(d) PROVE HeardFor(c)'
  <2>1. HeardFor(d) /\ reg[d] = -1
    BY <1>4 DEF Register, HeardInv
  <2>2. CASE d = c
    BY <1>4, <2>1, <2>2 DEF Register
  <2>3. CASE d # c
    BY <1>4, <2>3 DEF Register
  <2> QED
    BY <2>2, <2>3
<1>5. ASSUME NEW v \in {"Committed", "RolledBack"}, Invoke(v), phase # "begin",
             level > 0, level' = level - 1, phase' # "begin", UNCHANGED <<n, lost>>
      PROVE  HeardFor(c)'
  <2>1. told'[c] = IF c \in pending THEN v ELSE told[c]
    BY <1>5 DEF Invoke
  <2>2. CASE pending' = {} /\ UNCHANGED reg
    BY <1>5, <2>1, <2>2 DEF Invoke
  <2>3. ASSUME NEW d \in Callbacks, reg[d] = -1, pending' = {d},
               reg' = [reg EXCEPT ![d] = IF level > 1 THEN n ELSE 0]
        PROVE  HeardFor(c)'
    <3>1. inner' = IF level > 1 THEN inner \cup pending ELSE inner
      BY <1>5 DEF Invoke
    <3>2. HeardFor(d)
      BY DEF HeardInv
    <3>3. CASE d = c
      BY <1>5, <2>1, <2>3, <3>1, <3>2, <3>3
    <3>4. CASE d # c
      BY <1>5, <2>1, <2>3, <3>1, <3>4
    <3> QED
      BY <3>3, <3>4
  <2> QED
    BY <1>5, <2>2, <2>3 DEF Invoke
<1>6. CASE CommitOk \/ RollbackOk
  BY <1>5, <1>6 DEF CommitOk, RollbackOk, Leave
<1>7. CASE CommitErr \/ RollbackErr
  BY <1>7 DEF CommitErr, RollbackErr, Leave, LeaveEarly
<1>8. CASE Cancel
  BY <1>8 DEF Cancel
<1>9. CASE DropHandle
  <2>1. CASE handles = 1 /\ pending \cap Owning = {}
    <3>1. told'[c] = IF c \in pending THEN Verdict ELSE told[c]
      BY <1>9, <2>1 DEF DropHandle
    <3> QED
      BY <1>9, <2>1, <3>1 DEF DropHandle, Verdict
  <2>2. CASE UNCHANGED <<told, pending>>
    BY <1>9, <2>2 DEF DropHandle
  <2> QED
    BY <1>9, <2>1, <2>2 DEF DropHandle
<1>10. CASE UNCHANGED vars
  BY <1>10 DEF vars
<1> QED
  BY <1>1, <1>2, <1>3, <1>4, <1>6, <1>7, <1>8, <1>9, <1>10 DEF Next

\* A step that changes what a callback was told is the end of a call or a last drop.
LEMMA ToldBy ==
  ASSUME TypeInv, HeardInv, [Next]_vars, NEW c \in Callbacks, told'[c] # told[c]
  PROVE  c \in pending /\ (CommitOk \/ RollbackOk \/ DropHandle)
BY DEF Next, vars, heard, CallTxn, BeginOk, BeginErr, Register, SqlErr, SqlErrSwallowed,
   SqlConnLost, BodyDone, Complete, CommitOk, CommitErr, RollbackOk, RollbackErr, Cancel,
   DropHandle, ReleaseConn, LeaveEarly, Invoke, TypeInv, TypeOK

\* Registration is kept.
LEMMA RegKept ==
  ASSUME TypeInv, [Next]_vars, NEW c \in Callbacks, reg[c] # -1
  PROVE  reg'[c] = reg[c] /\ inner \subseteq inner'
BY DEF Next, vars, heard, CallTxn, BeginOk, BeginErr, Register, SqlErr, SqlErrSwallowed,
   SqlConnLost, BodyDone, Complete, CommitOk, CommitErr, RollbackOk, RollbackErr, Cancel,
   DropHandle, ReleaseConn, LeaveEarly, Invoke, TypeInv, TypeOK

\* What a nested call has called, and in which transaction, is kept.
LEMMA NestedKept ==
  ASSUME TypeInv, [Next]_vars
  PROVE  /\ nested \subseteq nested'
         /\ \A m \in nested' : m \in nested \/ (m = n /\ level > 1 /\ (CommitOk \/ RollbackOk))
BY DEF Next, vars, heard, CallTxn, BeginOk, BeginErr, Register, SqlErr, SqlErrSwallowed,
   SqlConnLost, BodyDone, Complete, CommitOk, CommitErr, RollbackOk, RollbackErr, Cancel,
   DropHandle, ReleaseConn, LeaveEarly, Invoke, TypeInv, TypeOK

-----------------------------------------------------------------------------
(* What the manager's state says.                                          *)

Newest(m) == db[m] # "none" /\ \A k \in Txns : k > m => db[k] = "none"

\* What the newest transaction that began has left in the manager's state.
StateOf(m) ==
  IF ret[m] # "none" /\ m \notin lost
  THEN state = IF ret[m] = "ok" THEN "Committed" ELSE "RolledBack"
  ELSE state = "Begun" \/ m \in nested

\* A transaction that has not begun is in begin_txn; of those that have, there is a newest
\* one, which gave the manager its state.
StateInv ==
  /\ level > 0 /\ db[n] = "none" => level = 1 /\ phase = "begin"
  /\ \A m \in Txns : Newest(m) => StateOf(m)
  /\ (\A m \in Txns : db[m] = "none") => state = "NotInTransaction"
  /\ (\E m \in Txns : db[m] # "none") => \E m \in Txns : Newest(m)

LEMMA StateStep == TypeInv /\ SessionInv /\ StateInv /\ [Next]_vars => StateInv'
<1> SUFFICES ASSUME TypeInv, SessionInv, StateInv, [Next]_vars PROVE StateInv'
  OBVIOUS
<1> USE BoundAssumption DEF StateInv, StateOf, TypeInv, TypeOK, Shape, Txns, manager, call, history
<1>0. nested \subseteq nested'
  BY NestedKept
<1>1. CASE BeginOk
  <2>1. /\ UNCHANGED <<level, n, ret, lost>> /\ phase' = "body" /\ level > 0 /\ n \in Txns
        /\ ret[n] = "none" /\ state' = "Begun"
    BY <1>1 DEF BeginOk
  <2>2. db'[n] # "none" /\ \A m \in Txns : m > n => db'[m] = "none"
    BY <1>1 DEF BeginOk, Settle
  <2>3. \A m \in Txns : Newest(m)' <=> m = n
    BY <2>1, <2>2 DEF Newest
  <2> QED
    BY <2>1, <2>2, <2>3
<1>2. ASSUME ~BeginOk PROVE \A m \in Txns : (db'[m] = "none" <=> db[m] = "none") /\ (Newest(m)' <=> Newest(m))
  BY <1>2, RecordStep DEF Newest
<1>3. level > 0 /\ phase # "begin" => n \in Txns /\ \A m \in Txns : Newest(m) => m = n
  BY DEF Newest
<1>4. CASE CallTxn
  <2>1. ~BeginOk
    BY <1>4 DEF CallTxn, BeginOk
  <2>2. UNCHANGED <<state, ret, lost>>
    BY <1>4 DEF CallTxn
  <2>3. CASE phase = "idle"
    <3>1. level' = 1 /\ phase' = "begin"
      BY <1>4, <2>3 DEF CallTxn
    <3> QED
      BY <1>0, <1>2, <2>1, <2>2, <3>1
  <2>4. CASE phase = "body"
    <3>1. n' = n
      BY <1>4, <2>4 DEF CallTxn
    <3> QED
      BY <1>0, <1>2, <1>3, <2>1, <2>2, <2>4, <3>1
  <2> QED
    BY <1>4, <2>3, <2>4 DEF CallTxn
<1>5. CASE BeginErr
  <2>1. ~BeginOk
    BY <1>5 DEF BeginErr, BeginOk, Leave
  <2>2. UNCHANGED <<state, lost, n>> /\ level > 0 /\ level' = level - 1 /\ phase = "begin" /\ n \in Txns
    BY <1>5 DEF BeginErr, Leave
  <2>3. \A m \in Txns : m # n => ret'[m] = ret[m]
    BY <1>5 DEF BeginErr, Leave
  <2>4. CASE level = 1
    <3>1. \A m \in Txns : Newest(m) => m # n
      BY <2>2, <2>4 DEF SessionInv, Fresh, Newest
    <3> QED
      BY <1>0, <1>2, <2>1, <2>2, <2>3, <2>4, <3>1
  <2>5. CASE level > 1
    <3>1. db[n] # "none" /\ ret' = ret
      BY <1>5, <2>2, <2>5 DEF BeginErr, Leave
    <3> QED
      BY <1>0, <1>2, <2>1, <2>2, <2>5, <3>1
  <2> QED
    BY <2>2, <2>4, <2>5
<1>6. CASE CommitOk \/ RollbackOk
  <2>1. ~BeginOk
    BY <1>6 DEF CommitOk, RollbackOk, BeginOk, Undoing
  <2>2. /\ level > 0 /\ level' = level - 1 /\ phase # "begin" /\ UNCHANGED <<n, lost>>
        /\ level > 1 => phase' = "body"
    BY <1>6 DEF CommitOk, RollbackOk, Leave, Undoing
  <2>3. StateOf(n)'
    <3>1. CASE level = 1
      <4>1. ret'[n] # "none" /\ n \notin lost'
        BY <1>6, <2>2, <3>1 DEF CommitOk, RollbackOk, Leave
      <4>2. state' = IF ret'[n] = "ok" THEN "Committed" ELSE "RolledBack"
        BY <1>6, <2>2, <3>1 DEF CommitOk, RollbackOk, Leave, Undoing
      <4> QED
        BY <2>2, <4>1, <4>2
    <3>2. CASE level > 1
      <4>1. n \in nested' /\ ret'[n] = "none"
        BY <1>6, <2>2, <3>2 DEF CommitOk, RollbackOk, Leave, Invoke
      <4> QED
        BY <2>2, <4>1
    <3> QED
      BY <2>2, <3>1, <3>2
  <2>4. \A m \in Txns : Newest(m)' => m = n
    BY <1>2, <1>3, <2>1, <2>2
  <2>5. db[n] # "none" /\ n \in Txns
    BY <1>3, <2>2
  <2> HIDE DEF StateOf
  <2> QED
    BY <1>2, <2>1, <2>2, <2>3, <2>4, <2>5
<1>7. CASE CommitErr \/ RollbackErr
  <2>1. ~BeginOk
    BY <1>7 DEF CommitErr, RollbackErr, BeginOk, Undoing
  <2>2. /\ level > 0 /\ level' = level - 1 /\ phase # "begin" /\ UNCHANGED <<n, state>>
        /\ level > 1 => phase' = "body" /\ UNCHANGED ret
        /\ level = 1 => n \in lost'
    BY <1>7 DEF CommitErr, RollbackErr, LeaveEarly, Leave, Undoing
  <2>3. ret[n] = "none" /\ n \in Txns
    BY <2>2
  <2>4. ret'[n] = "none" \/ n \in lost'
    BY <2>2, <2>3
  <2>5. \A m \in Txns : Newest(m)' => m = n /\ StateOf(m)'
    BY <1>0, <1>2, <1>3, <2>1, <2>2, <2>3, <2>4
  <2>6. db[n] # "none"
    BY <2>2
  <2> HIDE DEF StateOf
  <2> QED
    BY <1>2, <2>1, <2>2, <2>3, <2>5, <2>6
<1>8. CASE Cancel
  <2>1. ~BeginOk
    BY <1>8 DEF Cancel, BeginOk
  <2>2. level' = 0 /\ lost' = lost \cup {n} /\ UNCHANGED <<state, n, ret>> /\ ret[n] = "none"
    BY <1>8 DEF Cancel
  <2> QED
    BY <1>0, <1>2, <2>1, <2>2
<1>9. CASE (\E c \in Callbacks : Register(c)) \/ SqlErr \/ SqlErrSwallowed \/ SqlConnLost
           \/ BodyDone \/ DropHandle \/ ReleaseConn \/ UNCHANGED vars
  <2>1. UNCHANGED <<state, level, n, ret, lost>> /\ (phase' = phase \/ phase = "body")
    BY <1>9 DEF Register, SqlErr, SqlErrSwallowed, SqlConnLost, BodyDone, Complete, DropHandle,
                ReleaseConn, vars
  <2>2. phase = "body" => db[n] # "none"
    OBVIOUS
  <2> QED
    BY <1>0, <1>1, <1>2, <2>1, <2>2
<1> QED
  BY <1>1, <1>4, <1>5, <1>6, <1>7, <1>8, <1>9 DEF Next

-----------------------------------------------------------------------------
(* The truth of what the callbacks are told.                               *)

\* A callback that waits was registered in a transaction that began, and no nested call
\* of a later one has come by, which would have called it.
Listed ==
  /\ \A k \in nested : k <= n
  /\ \A c \in pending : reg[c] > 0 => db[reg[c]] # "none" /\ \A k \in nested : k <= reg[c]

LEMMA ListedStep ==
  TypeInv /\ SessionInv /\ HeardInv /\ StateInv /\ Listed /\ [Next]_vars => Listed'
<1> SUFFICES ASSUME TypeInv, SessionInv, HeardInv, StateInv, Listed, [Next]_vars PROVE Listed'
  OBVIOUS
<1>00. TypeInv'
  BY TypeStep
<1> USE BoundAssumption DEF TypeInv, TypeOK, Shape, Listed, Txns
<1>0. n' >= n /\ n \in Nat /\ n' \in Nat
  BY <1>00 DEF Next, vars, call, CallTxn, BeginOk, BeginErr, Register, SqlErr, SqlErrSwallowed,
     SqlConnLost, BodyDone, Complete, CommitOk, CommitErr, RollbackOk, RollbackErr, Cancel,
     DropHandle, ReleaseConn, LeaveEarly, Leave
<1>1. \A k \in nested' : k <= n'
  <2> HIDE DEF TypeInv, TypeOK, Shape, Listed, Txns
  <2>1. ASSUME NEW k \in Nat, k \in nested' PROVE k <= n'
    <3>1. k \in nested \/ k = n
      BY <2>1, NestedKept
    <3>2. k \in nested => k <= n
      BY DEF Listed
    <3> QED
      BY <1>0, <2>1, <3>1, <3>2
  <2>2. nested' \subseteq Nat
    BY <1>00 DEF TypeInv, TypeOK, Txns
  <2> QED
    BY <2>1, <2>2
<1>2. \A m \in Txns : db[m] # "none" => db'[m] # "none"
  <2>1. CASE BeginOk /\ level = 1
    BY <2>1 DEF BeginOk, Settle
  <2>2. CASE ~(BeginOk /\ level = 1)
    BY <2>2, RecordStep
  <2> QED
    BY <2>1, <2>2
<1>3. level > 0 /\ phase # "begin" => n \in Txns /\ db[n] # "none"
  BY DEF StateInv
<1>4. ASSUME NEW c \in pending', reg'[c] > 0, reg'[c] # reg[c] \/ c \notin pending
      PROVE  db'[reg'[c]] # "none" /\ \A k \in nested' : k <= reg'[c]
  <2>1. reg'[c] = n /\ n' = n /\ level > 0 /\ phase # "begin"
    BY <1>4 DEF Next, vars, manager, call, heard, CallTxn, BeginOk, BeginErr, Register, SqlErr,
       SqlErrSwallowed, SqlConnLost, BodyDone, Complete, CommitOk, CommitErr, RollbackOk,
       RollbackErr, Cancel, DropHandle, ReleaseConn, LeaveEarly, Leave, Invoke, Undoing
  <2> QED
    BY <1>1, <1>2, <1>3, <2>1
<1>5. ASSUME NEW c \in pending', reg'[c] > 0, reg'[c] = reg[c], c \in pending
      PROVE  db'[reg'[c]] # "none" /\ \A k \in nested' : k <= reg'[c]
  <2>1. reg[c] \in Txns /\ c \in Callbacks
    BY <1>5
  <2>2. reg[c] # -1
    BY <1>5
  <2>3. ~(CommitOk \/ RollbackOk)
    <3>1. SUFFICES ASSUME CommitOk \/ RollbackOk PROVE FALSE
      OBVIOUS
    <3>2. pending' = {} \/ \E d \in Callbacks : reg[d] = -1 /\ pending' = {d}
      BY <3>1 DEF CommitOk, RollbackOk, Invoke
    <3> QED
      BY <1>5, <2>2, <3>2
  <2>4. nested' \subseteq nested
    BY <2>3, NestedKept
  <2> QED
    BY <1>2, <1>5, <2>1, <2>4
<1> QED
  BY <1>1, <1>4, <1>5

LEMMA VerdictStep ==
  TypeInv /\ SessionInv /\ HeardInv /\ StateInv /\ Listed /\ Accounted /\ VerdictTruth
    /\ OkIsDurable' /\ [Next]_vars => VerdictTruth'
<1> SUFFICES ASSUME TypeInv, SessionInv, HeardInv, StateInv, Listed, Accounted, VerdictTruth,
                    OkIsDurable', [Next]_vars,
                    NEW c \in Callbacks, reg'[c] > 0, c \notin inner'
             PROVE  /\ told'[c] = "Committed" =>
                         IF reg'[c] \notin lost'
                         THEN db'[reg'[c]] = "committed" <=> base'[reg'[c]] = 0 /\ reg'[c] \notin dirty'
                         ELSE reg'[c] \in nested' \/ \E k \in Txns : k > reg'[c] /\ ret'[k] = "ok"
                    /\ told'[c] = "RolledBack" => db'[reg'[c]] # "committed" \/ reg'[c] \in lost'
  BY DEF VerdictTruth, Txns
<1>1. Frame /\ TypeInv' /\ HeardFor(c) /\ nested \subseteq nested'
  BY FrameStep, TypeStep, NestedKept DEF HeardInv
<1>5. -1 # 0 /\ ~(-1 > 0) /\ reg[c] \in -1..MaxTxns /\ n \in Nat /\ MaxTxns \in Nat
  BY BoundAssumption DEF TypeInv, TypeOK
<1>2. CASE told'[c] = "no"
  BY <1>2
<1>3. CASE told'[c] = told[c] /\ told[c] # "no"
  <2>1. reg[c] # -1
    BY <1>1, <1>3 DEF HeardFor
  <2>2. reg'[c] = reg[c] /\ c \notin inner /\ reg[c] \in Txns
    BY <1>5, <2>1, RegKept DEF Txns
  <2>3. ~(reg[c] = n /\ level > 0)
    BY <1>1, <1>3, <2>2 DEF HeardFor, Txns
  <2>4. reg[c] \in lost <=> reg[c] \in lost'
    <3>1. \A m \in lost' : m \in lost \/ (m = n /\ level > 0)
      BY LostBy
    <3> QED
      BY <1>1, <2>3, <3>1 DEF Frame
  <2>5. /\ base'[reg[c]] = base[reg[c]]
        /\ reg[c] \in dirty <=> reg[c] \in dirty'
        /\ db[reg[c]] = "committed" <=> db'[reg[c]] = "committed"
    BY <1>1, <2>2, <2>3 DEF Frame
  <2>6. \A k \in Txns : ret[k] = "ok" => ret'[k] = "ok"
    BY Returns DEF TypeInv, Shape
  <2>7. /\ told[c] = "Committed" =>
             IF reg[c] \notin lost
             THEN db[reg[c]] = "committed" <=> base[reg[c]] = 0 /\ reg[c] \notin dirty
             ELSE reg[c] \in nested \/ \E k \in Txns : k > reg[c] /\ ret[k] = "ok"
        /\ told[c] = "RolledBack" => db[reg[c]] # "committed" \/ reg[c] \in lost
    BY <2>2 DEF VerdictTruth, Txns
  <2> QED
    BY <1>1, <1>3, <2>2, <2>4, <2>5, <2>6, <2>7
<1>4. CASE told'[c] # told[c]
  <2>1. c \in pending /\ (CommitOk \/ RollbackOk \/ DropHandle)
    BY <1>4, ToldBy
  <2>2. reg[c] # -1
    BY <1>1, <2>1 DEF HeardFor, TypeInv, TypeOK
  <2>3. reg'[c] = reg[c] /\ reg[c] \in Txns
    BY <1>1, <2>2, RegKept DEF TypeInv, TypeOK, Txns
  <2>4. CASE CommitOk
    <3>1. Live /\ phase = "commit" /\ told'[c] = "Committed" /\ lost' = lost
      BY <2>1, <2>4 DEF CommitOk, Commit, Invoke, TypeInv, TypeOK
    <3>2. level = 1
      BY <2>1, <2>4, <3>1 DEF CommitOk, Invoke, TypeInv, TypeOK, Shape
    <3>3. n \in Txns /\ ret'[n] = "ok" /\ n \notin lost
      BY <2>4, <3>2 DEF CommitOk, Leave, TypeInv, TypeOK, Shape, Txns
    <3>4. CASE reg[c] \notin lost
      <4>1. reg[c] = n
        BY <1>1, <2>1, <2>3, <3>4 DEF HeardFor, Txns
      <4> QED
        BY <2>3, <3>1, <3>3, <3>4, <4>1 DEF OkIsDurable, Txns
    <3>5. CASE reg[c] \in lost
      <4>1. n > reg[c]
        BY <1>1, <2>3, <3>1, <3>3, <3>5 DEF HeardFor, TypeInv, TypeOK, Txns
      <4> QED
        BY <2>3, <3>1, <3>3, <3>5, <4>1
    <3> QED
      BY <3>4, <3>5
  <2>5. CASE RollbackOk
    <3>1. Live /\ phase \in Undoing /\ told'[c] = "RolledBack"
      BY <2>1, <2>5 DEF RollbackOk, Rollback, Invoke, TypeInv, TypeOK
    <3>2. CASE reg[c] \in lost
      BY <1>1, <2>3, <3>1, <3>2 DEF Frame
    <3>3. CASE reg[c] \notin lost
      <4>1. reg[c] = n
        BY <1>1, <2>1, <2>3, <3>3 DEF HeardFor, Txns
      <4>2. db[n] = "open" /\ n \in Txns
        BY <3>1, AtCommit
      <4> QED
        BY <1>1, <2>3, <3>1, <4>1, <4>2 DEF Frame, Undoing
    <3> QED
      BY <3>2, <3>3
  <2>6. CASE DropHandle
    <3>1. told'[c] = Verdict /\ level = 0 /\ lost' = lost /\ ret' = ret
      BY <1>4, <2>6 DEF DropHandle, history, TypeInv, TypeOK
    <3>2. reg[c] \in lost
      BY <1>1, <2>1, <2>3, <3>1 DEF HeardFor, Txns
    <3>3. ASSUME told'[c] = "Committed"
          PROVE  reg[c] \in nested \/ \E k \in Txns : k > reg[c] /\ ret[k] = "ok"
      <4>1. state = "Committed"
        BY <3>1, <3>3 DEF Verdict
      <4>2. db[reg[c]] # "none" /\ \A k \in nested : k <= reg[c]
        BY <2>1, <2>3 DEF Listed, Txns
      <4>3. PICK m \in Txns : Newest(m)
        BY <2>3, <4>2 DEF StateInv
      <4>4. StateOf(m) /\ m >= reg[c]
        BY <2>3, <4>2, <4>3 DEF StateInv, Newest, Txns
      <4>5. CASE ret[m] = "ok"
        <5>1. m # reg[c]
          BY <3>2, <4>5 DEF Accounted
        <5> QED
          BY <2>3, <4>4, <4>5, <5>1 DEF Txns
      <4>6. CASE ret[m] # "ok"
        <5>1. m \in nested
          BY <4>1, <4>4, <4>6 DEF StateOf
        <5>2. m = reg[c]
          BY <2>3, <4>2, <4>4, <5>1 DEF Txns
        <5> QED
          BY <5>1, <5>2
      <4> QED
        BY <4>5, <4>6
    <3> QED
      BY <1>1, <2>3, <3>1, <3>2, <3>3
  <2> QED
    BY <2>1, <2>4, <2>5, <2>6
<1> QED
  BY <1>2, <1>3, <1>4

-----------------------------------------------------------------------------
(* Who is left.                                                            *)

\* Callbacks are kept only as long as there is a clone of the manager: while one is held
\* outside, or by a callback.
LEMMA LeftStep == TypeInv /\ LeftOnlyByCycle /\ [Next]_vars => LeftOnlyByCycle'
<1> SUFFICES ASSUME TypeInv, LeftOnlyByCycle, [Next]_vars, handles' = 0
             PROVE  pending' = {} \/ pending' \cap Owning # {}
  BY DEF LeftOnlyByCycle
<1> USE DEF TypeInv, TypeOK, Shape, LeftOnlyByCycle, manager
<1>1. CASE DropHandle
  BY <1>1 DEF DropHandle
<1>2. CASE CallTxn \/ BeginOk \/ BeginErr \/ SqlErr \/ SqlErrSwallowed \/ SqlConnLost \/ BodyDone
           \/ CommitErr \/ RollbackErr \/ Cancel \/ ReleaseConn \/ UNCHANGED vars
  BY <1>2 DEF CallTxn, BeginOk, BeginErr, SqlErr, SqlErrSwallowed, SqlConnLost, BodyDone, Complete,
              CommitErr, RollbackErr, LeaveEarly, Cancel, ReleaseConn, vars
<1>3. ~(CommitOk \/ RollbackOk \/ \E c \in Callbacks : Register(c))
  BY DEF CommitOk, RollbackOk, Register, Undoing
<1> QED
  BY <1>1, <1>2, <1>3 DEF Next

-----------------------------------------------------------------------------
(* The theorems.                                                           *)

IInv ==
  /\ TypeInv /\ SessionInv /\ Soiled /\ OkIsDurable /\ HeardInv /\ VerdictTruth
  /\ StateInv /\ Listed /\ LeftOnlyByCycle /\ Accounted /\ ErrIsUndone

LEMMA Inductive == Spec => []IInv
<1>1. Init => IInv
  <2> SUFFICES ASSUME Init PROVE IInv
    OBVIOUS
  <2>1. TypeInv /\ SessionInv /\ Soiled
    BY TypeInit, SessionInit DEF Init, Soiled, Live
  <2>2. OkIsDurable /\ VerdictTruth /\ HeardInv
    BY DEF Init, OkIsDurable, VerdictTruth, HeardInv, HeardFor
  <2>3. StateInv /\ Listed /\ LeftOnlyByCycle /\ Accounted /\ ErrIsUndone
    BY DEF Init, StateInv, Newest, Listed, LeftOnlyByCycle, Accounted, ErrIsUndone
  <2> QED
    BY <2>1, <2>2, <2>3 DEF IInv
<1>2. IInv /\ [Next]_vars => IInv'
  BY TypeStep, SessionStep, SoiledStep, DurableStep, HeardStep, VerdictStep, StateStep,
     ListedStep, LeftStep, AccountedStep, UndoneStep DEF IInv
<1> QED
  BY <1>1, <1>2, PTL DEF Spec

\* The types of the variables, for any number of callbacks, transactions and levels.
THEOREM TypeCorrect == Spec => []TypeOK
BY Inductive, PTL DEF IInv, TypeInv

\* do_transaction answers Ok(Ok(_)) only for committed work (do_transaction, l.191-225).
THEOREM Durable == Spec => []OkIsDurable
BY Inductive, PTL DEF IInv

\* do_transaction answers an error of its own for undone work only: Http and Parts take
\* from it that a business error leaves nothing behind.
THEOREM Undone == Spec => []ErrIsUndone
BY Inductive, PTL DEF IInv

\* Callbacks hear the truth about the transaction they were registered in.
THEOREM Truthful == Spec => []VerdictTruth
BY Inductive, PTL DEF IInv

\* No callback of a transaction is left uncalled when do_transaction returns normally.
THEOREM Delivered == Spec => []DeliveredBeforeReturn
<1>1. IInv => DeliveredBeforeReturn
  BY DEF IInv, HeardInv, HeardFor, DeliveredBeforeReturn, TypeInv, TypeOK, Shape, Txns
<1> QED
  BY <1>1, Inductive, PTL

\* Only the outermost commit of a transaction makes its work durable.
THEOREM CommitPoint == Spec => CommitOnlyCurrent
<1>1. IInv /\ [Next]_vars =>
        [\A m \in Txns : db[m] # "committed" /\ db'[m] = "committed" =>
           m = n /\ level = 1 /\ phase = "commit"]_vars
  BY FrameStep DEF IInv, Frame
<1> QED
  BY <1>1, Inductive, PTL DEF Spec, CommitOnlyCurrent

\* At any moment, state() is the outcome of the newest transaction that began, or Begun for
\* one in progress or abandoned, unless a nested call has left its own state there.
THEOREM StateTells == Spec => []StateMatchesLast
<1>1. IInv => StateMatchesLast
  <2> SUFFICES ASSUME IInv PROVE StateMatchesLast
    OBVIOUS
  <2> DEFINE begun == {m \in Txns : db[m] # "none"}
             last == CHOOSE m \in begun : \A k \in begun : k <= m
  <2>1. CASE begun = {}
    BY <2>1 DEF IInv, StateInv, StateMatchesLast
  <2>2. CASE begun # {}
    <3>1. \E m \in begun : \A k \in begun : k <= m
      BY <2>2 DEF IInv, StateInv, Newest, Txns
    <3>2. last \in Txns /\ Newest(last)
      BY <3>1 DEF Newest, Txns
    <3> HIDE DEF last
    <3>3. StateOf(last)
      BY <3>2 DEF IInv, StateInv
    <3> QED
      BY <2>2, <3>3 DEF StateMatchesLast, StateOf, last
  <2> QED
    BY <2>1, <2>2
<1> QED
  BY <1>1, Inductive, PTL

\* When the last clone of the manager is dropped, only callbacks that a clone of theirs
\* keeps alive stay uncalled.
THEOREM NobodyLeft == Spec => []LeftOnlyByCycle
BY Inductive, PTL DEF IInv

\* A callback is called once and forgotten.
THEOREM OnceTold == Spec => ToldOnce
<1>1. IInv /\ IInv' /\ [Next]_vars =>
        /\ \A c \in Callbacks : told[c] # "no" => told'[c] = told[c]
        /\ \A c \in Callbacks : told[c] # "no" => c \notin pending'
  <2> SUFFICES ASSUME IInv, IInv', [Next]_vars, NEW c \in Callbacks, told[c] # "no"
               PROVE  told'[c] = told[c] /\ c \notin pending'
    OBVIOUS
  <2>1. c \notin pending
    BY DEF IInv, HeardInv, HeardFor
  <2>2. told'[c] = told[c]
    BY <2>1, ToldBy DEF IInv
  <2>3. c \notin pending'
    BY <2>2 DEF IInv, HeardInv, HeardFor
  <2> QED
    BY <2>2, <2>3
<1> QED
  BY <1>1, Inductive, PTL DEF Spec, ToldOnce
-----------------------------------------------------------------------------
(* The contract.                                                           *)

\* The standard wiring: a request's one use case, whose body stops at a failed statement.
Standard == MaxTxns = 1 /\ MaxDepth = 1 /\ MaySwallow = FALSE

\* The transaction has the connection to itself, the manager's state is the state of it,
\* an answered caller is at a settled transaction, and callbacks have heard what a last
\* clone would tell them, when no other transaction can follow.
SingleInv ==
  /\ base[1] = 0 /\ dirty = {}
  /\ db[1] = "none" => depth = 0
  /\ state = "NotInTransaction" <=> db[1] = "none"
  /\ state = "Committed" <=> ret[1] = "ok"
  /\ ret[1] = "sys" => db[1] # "open"
  /\ \A c \in Callbacks : told[c] # "no" => told[c] = Verdict /\ level = 0 /\ (n = 1 \/ handles = 0)

\* The transaction of the standard wiring is number 1, and has no nested calls.
LEMMA StandardRange ==
  ASSUME Standard, TypeInv
  PROVE  /\ Txns = {1} /\ n \in {0, 1} /\ level \in {0, 1}
         /\ level > 0 => n = 1 /\ level = 1 /\ ret[1] = "none" /\ 1 \notin lost /\ handles > 0
BY DEF Standard, TypeInv, TypeOK, Shape, Txns

LEMMA SingleInit == Standard /\ Init => SingleInv
BY DEF Standard, Init, SingleInv, Txns

\* What a step of the standard wiring does to the connection and the records of the
\* transaction.
LEMMA SingleSession ==
  ASSUME Standard, TypeInv, SessionInv, SingleInv, [Next]_vars
  PROVE  /\ base'[1] = 0 /\ dirty' = {}
         /\ db'[1] = "none" => depth' = 0
         /\ ret'[1] = "sys" => db'[1] # "open"
<1>0. /\ Txns = {1} /\ n \in {0, 1} /\ level \in {0, 1}
      /\ level > 0 => n = 1 /\ level = 1 /\ ret[1] = "none"
  BY StandardRange
<1> USE <1>0 DEF SingleInv, TypeInv, TypeOK, manager, call, session, history
<1>1. CASE CallTxn \/ (\E c \in Callbacks : Register(c)) \/ SqlErr \/ BodyDone \/ DropHandle
  BY <1>1 DEF CallTxn, Register, SqlErr, BodyDone, Complete, DropHandle
<1>2. CASE BeginOk
  <2>1. db[1] = "none"
    BY <1>2 DEF BeginOk, SessionInv, Fresh, Shape
  <2> QED
    BY <1>2, <2>1 DEF BeginOk, Begin, Settle, Shape
<1>3. CASE BeginErr
  <2>1. db[1] = "none"
    BY <1>3 DEF BeginErr, SessionInv, Fresh, Shape
  <2> QED
    BY <1>3, <2>1 DEF BeginErr, ConnLost, Settle, Open, Leave, Shape
<1>4. CASE SqlErrSwallowed
  BY <1>4 DEF SqlErrSwallowed, Standard
<1>5. CASE SqlConnLost \/ ReleaseConn
  BY <1>5 DEF SqlConnLost, ReleaseConn, ConnLost, Settle, Open
<1>6. ASSUME phase = "commit" \/ phase \in Undoing, Live
      PROVE  depth = 1 /\ level = 1 /\ n = 1 /\ db[1] = "open"
  BY <1>6, AtCommit
<1>7. CASE CommitOk \/ RollbackOk
  BY <1>6, <1>7 DEF CommitOk, RollbackOk, Commit, Rollback, Leave, Settle, Open
<1>8. CASE CommitErr
  <2>1. Live => depth = 1 /\ db[1] = "open"
    BY <1>6, <1>8 DEF CommitErr
  <2>2. conn = "broken" => db[1] # "open" /\ depth = 0
    BY DEF SessionInv, Empty, Live
  <2> QED
    BY <1>8, <2>1, <2>2 DEF CommitErr, AnswerLost, ConnLost, Rollback, Leave, LeaveEarly, Settle,
       Open, Live
<1>9. CASE RollbackErr
  <2>1. conn = "broken" => db[1] # "open" /\ depth = 0
    BY DEF SessionInv, Empty, Live
  <2> QED
    BY <1>9, <2>1 DEF RollbackErr, ConnLost, Leave, LeaveEarly, Settle, Open
<1>10. CASE Cancel
  BY <1>10 DEF Cancel, AnswerLost, ConnLost, Settle, Open
<1>11. CASE UNCHANGED vars
  BY <1>11 DEF vars
<1> QED
  BY <1>1, <1>2, <1>3, <1>4, <1>5, <1>7, <1>8, <1>9, <1>10, <1>11 DEF Next

\* What it does to the manager's state and to the callbacks.
LEMMA SingleState ==
  ASSUME Standard, TypeInv, SessionInv, HeardInv, SingleInv, [Next]_vars
  PROVE  /\ state' = "NotInTransaction" <=> db'[1] = "none"
         /\ state' = "Committed" <=> ret'[1] = "ok"
         /\ \A c \in Callbacks :
              told'[c] # "no" => told'[c] = Verdict' /\ level' = 0 /\ (n' = 1 \/ handles' = 0)
<1>0. /\ Txns = {1} /\ n \in {0, 1} /\ level \in {0, 1}
      /\ level > 0 => n = 1 /\ level = 1 /\ ret[1] = "none" /\ handles > 0
  BY StandardRange
<1> USE <1>0 DEF SingleInv, TypeInv, TypeOK, manager, call, history
<1>1. CASE BeginOk
  BY <1>1 DEF BeginOk, Settle, heard, Verdict, Shape
<1>2. ASSUME ~BeginOk PROVE db'[1] = "none" <=> db[1] = "none"
  BY <1>2, RecordStep
<1>3. CASE CallTxn
  <2>1. ~BeginOk
    BY <1>3 DEF CallTxn, BeginOk
  <2>2. n = 0 /\ level = 0 /\ handles > 0
    BY <1>3 DEF CallTxn, Standard, Shape
  <2> QED
    BY <1>2, <1>3, <2>1, <2>2 DEF CallTxn, heard, Verdict
<1>4. CASE BeginErr
  <2>1. ~BeginOk
    BY <1>4 DEF BeginErr, BeginOk, Leave
  <2> QED
    BY <1>2, <1>4, <2>1 DEF BeginErr, Leave, heard, Verdict, Shape
<1>5. CASE CommitOk \/ RollbackOk
  <2>1. ~BeginOk
    BY <1>5 DEF CommitOk, RollbackOk, BeginOk, Undoing
  <2>2. db[1] = "open" /\ level = 1 /\ n = 1
    BY <1>5, AtCommit DEF CommitOk, RollbackOk, Commit, Rollback
  <2>3. level' = 0 /\ n' = 1 /\ (ret'[1] = "ok" <=> CommitOk)
    BY <1>5, <2>2 DEF CommitOk, RollbackOk, Leave, Undoing
  <2>4. \A c \in Callbacks : told[c] = "no"
    BY <2>2
  <2>5. CASE CommitOk
    BY <1>2, <2>1, <2>2, <2>3, <2>4, <2>5 DEF CommitOk, Invoke, Verdict
  <2>6. CASE RollbackOk
    <3>1. state' = "RolledBack" /\ \A c \in Callbacks : told'[c] \in {"no", "RolledBack"}
      BY <2>4, <2>6 DEF RollbackOk, Invoke
    <3>2. ret'[1] # "ok"
      BY <2>2, <2>6 DEF RollbackOk, Leave
    <3> QED
      BY <1>2, <2>1, <2>2, <2>3, <3>1, <3>2 DEF Verdict
  <2> QED
    BY <1>5, <2>5, <2>6
<1>6. CASE CommitErr \/ RollbackErr
  <2>1. ~BeginOk
    BY <1>6 DEF CommitErr, RollbackErr, BeginOk, Undoing
  <2> QED
    BY <1>2, <1>6, <2>1 DEF CommitErr, RollbackErr, Leave, LeaveEarly, heard, Verdict, Shape, Undoing
<1>7. CASE Cancel
  <2>1. ~BeginOk
    BY <1>7 DEF Cancel, BeginOk
  <2> QED
    BY <1>2, <1>7, <2>1 DEF Cancel, heard, Verdict
<1>8. CASE DropHandle
  <2>1. ~BeginOk
    BY <1>8 DEF DropHandle, BeginOk
  <2>2. UNCHANGED <<state, level, n, ret>> /\ handles' = handles - 1
    BY <1>8 DEF DropHandle
  <2>3. handles > 0 /\ (handles = 1 => level = 0)
    BY <1>8 DEF DropHandle
  <2>4. Verdict' = Verdict
    BY <2>2 DEF Verdict
  <2>5. \A c \in Callbacks : told'[c] = told[c] \/ (handles = 1 /\ told'[c] = Verdict)
    BY <1>8 DEF DropHandle
  <2> QED
    BY <1>2, <2>1, <2>2, <2>3, <2>4, <2>5
<1>9. CASE (\E c \in Callbacks : Register(c)) \/ SqlErr \/ SqlErrSwallowed \/ SqlConnLost
           \/ BodyDone \/ ReleaseConn \/ UNCHANGED vars
  <2>1. UNCHANGED <<state, level, n, ret, handles, told>>
    BY <1>9 DEF Register, SqlErr, SqlErrSwallowed, SqlConnLost, BodyDone, Complete, ReleaseConn,
                heard, vars
  <2> QED
    BY <1>1, <1>2, <2>1 DEF Verdict
<1> QED
  BY <1>1, <1>3, <1>4, <1>5, <1>6, <1>7, <1>8, <1>9 DEF Next

LEMMA SingleStep ==
  ASSUME Standard PROVE IInv /\ SingleInv /\ [Next]_vars => SingleInv'
BY SingleSession, SingleState DEF IInv, SingleInv

LEMMA ContractInit == Standard /\ Init => Contract!Init
BY DEF Standard, Init, Contract!Init, Txns
\* A step of the standard wiring keeps what the contract has decided, and what it then
\* says of the answer and of the callbacks is true.
LEMMA ContractNext ==
  ASSUME Standard PROVE IInv /\ IInv' /\ SingleInv /\ SingleInv' /\ [Next]_vars => Contract!Advance
<1> SUFFICES ASSUME IInv, IInv', SingleInv, SingleInv', [Next]_vars PROVE Contract!Advance
  OBVIOUS
<1> DEFINE Fate == IF db[1] \in {"none", "open"} THEN "undecided"
                   ELSE IF db[1] = "committed" /\ 1 \in lost THEN "unanswered" ELSE db[1]
<1>0. /\ Txns = {1} /\ TypeOK /\ TypeOK' /\ Frame
      /\ level > 0 => n = 1 /\ ret[1] = "none" /\ 1 \notin lost
  BY StandardRange, FrameStep DEF IInv, TypeInv
<1>1. Fate' \in Contract!Fate /\ ret'[1] \in Contract!Answer /\ told' \in [Callbacks -> Contract!Verdict]
  BY <1>0 DEF TypeOK, Contract!Fate, Contract!Answer, Contract!Verdict
<1>2. ret[1] # "none" => ret'[1] = ret[1] /\ level = 0
  BY <1>0, Returns DEF IInv, TypeOK
<1>3. Fate # "undecided" => Fate' = Fate
  <2> SUFFICES ASSUME db[1] \in {"committed", "rolledback"} PROVE Fate' = Fate
    BY <1>0 DEF TypeOK
  <2>1. db'[1] = db[1]
    BY <1>0 DEF Frame
  <2>2. CASE db[1] = "rolledback"
    BY <2>1, <2>2
  <2>3. CASE db[1] = "committed"
    <3>1. ret[1] = "ok" \/ 1 \in lost
      BY <1>0, <2>3 DEF IInv, Accounted
    <3>2. ret[1] = "ok" => 1 \notin lost /\ 1 \notin lost'
      BY <1>0, <1>2 DEF IInv, Accounted
    <3> QED
      BY <1>0, <2>1, <2>3, <3>1, <3>2 DEF Frame
  <2> QED
    BY <2>2, <2>3
<1>4. ret[1] # "none" => Fate' = Fate
  <2> SUFFICES ASSUME ret[1] # "none" PROVE Fate' = Fate
    OBVIOUS
  <2>1. db[1] # "open"
    BY <1>0 DEF TypeOK, IInv, OkIsDurable, ErrIsUndone, Accounted, SingleInv
  <2>2. level = 0
    BY <1>2
  <2>3. ~BeginOk
    BY <2>2 DEF BeginOk, IInv, TypeInv, Shape
  <2>4. db[1] = "none" => db'[1] = "none"
    BY <1>0, <2>3, RecordStep DEF IInv
  <2> QED
    BY <1>0, <1>3, <2>1, <2>4 DEF TypeOK
<1>5. Contract!Answerable(Fate', ret'[1])
  <2>1. ret'[1] = "ok" => db'[1] = "committed" /\ 1 \notin lost'
    BY <1>0 DEF IInv, OkIsDurable, Accounted, SingleInv
  <2>2. ret'[1] = "biz" => db'[1] = "rolledback"
    BY <1>0 DEF IInv, ErrIsUndone, Accounted, SingleInv
  <2>3. ret'[1] = "sys" => db'[1] # "committed" \/ 1 \in lost'
    BY <1>0 DEF IInv, ErrIsUndone
  <2> QED
    BY <2>1, <2>2, <2>3 DEF Contract!Answerable
<1>6. ASSUME NEW c \in Callbacks PROVE Contract!Hearable(Fate', told'[c])
  <2>1. told'[c] # "no" => told'[c] = Verdict'
    BY DEF SingleInv
  <2>2. told'[c] = "Committed" => ret'[1] = "ok"
    BY <1>0, <2>1 DEF SingleInv, Verdict
  <2>3. ret'[1] = "ok" => db'[1] = "committed" /\ 1 \notin lost'
    BY <1>0 DEF IInv, OkIsDurable, Accounted, SingleInv
  <2>4. told'[c] = "RolledBack" => ret'[1] # "ok"
    BY <1>0, <2>1 DEF SingleInv, Verdict
  <2>5. ret'[1] # "ok" /\ db'[1] = "committed" => 1 \in lost'
    BY <1>0 DEF IInv, Accounted
  <2>6. told'[c] = "ignored" => db'[1] = "none"
    BY <1>0, <2>1 DEF SingleInv, Verdict
  <2> QED
    BY <1>0, <2>2, <2>3, <2>4, <2>5, <2>6 DEF TypeOK, Contract!Hearable
<1>7. \A c \in Callbacks : told[c] # "no" => told'[c] = told[c]
  BY ToldBy DEF IInv, HeardInv, HeardFor
<1> QED
  BY <1>1, <1>2, <1>3, <1>4, <1>5, <1>6, <1>7 DEF Contract!Advance

\* Whatever becomes of the connection, and wherever the request is dropped, the layer
\* keeps the contract of TxnContract towards the caller of the standard wiring's one
\* transaction and every callback.
THEOREM KeepsContract == Standard => (Spec => ImplementsContract)
<1> SUFFICES ASSUME Standard PROVE Spec => ImplementsContract
  OBVIOUS
<1>1. Init => SingleInv
  BY SingleInit
<1>2. IInv /\ SingleInv /\ [Next]_vars => SingleInv'
  BY SingleStep
<1>3. Init => Contract!Init
  BY ContractInit
<1>4. IInv /\ IInv' /\ SingleInv /\ SingleInv' /\ [Next]_vars => [Contract!Advance]_(Contract!vars)
  BY ContractNext
<1> QED
  BY <1>1, <1>2, <1>3, <1>4, Inductive, PTL DEF Spec, ImplementsContract, Contract!Spec
=============================================================================
