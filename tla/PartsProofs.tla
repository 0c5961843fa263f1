---------------------------- MODULE PartsProofs ----------------------------
(* What holds of Parts for any requests and any number of parts.           *)
EXTENDS Parts, TLAPS

\* A request that is not there has done nothing.
Fresh(r) == call[r] = NoCall => at[r] = 0 /\ effect[r] = "none" /\ mine[r] = {}

\* Parts that a request's repository is done with.
Done(r, p) == IF call[r].op = "delete" THEN p > N - at[r] ELSE p <= at[r]

\* What a request wrote are the parts it had to write so far, unless its transaction is
\* aborted.
Progress(r) ==
  /\ effect[r] = "Conflict" => mine[r] = {}
  /\ effect[r] # "Conflict" =>
       \A p \in Part : p \in mine[r] <=> p \in call[r].needs /\ Done(r, p)
  /\ effect[r] = "Ok" => at[r] = N
  /\ effect[r] = "NotFound" => at[r] < N /\ Turn(r) \in call[r].needs

\* The rows that a request wrote are as it found them, since they are locked: nobody else
\* wrote them, and the missing one cannot come back as long as others are there.
Locked(r) ==
  /\ \A p \in mine[r] : rows[p] = Gone <=> call[r].op = "save"
  /\ \A q \in Requests \ {r} : mine[q] \cap mine[r] = {}
  /\ effect[r] = "NotFound" /\ mine[r] # {} => rows[Turn(r)] = Gone

IInv == TypeOK /\ EntityWhole /\ \A r \in Requests : Fresh(r) /\ Progress(r) /\ Locked(r)

-----------------------------------------------------------------------------
(* Helpers.                                                                *)

LEMMA TurnIsPart ==
  ASSUME TypeOK, NEW r \in Requests, at[r] < N
  PROVE  Turn(r) \in Part
BY PartsAssumption DEF TypeOK, Turn, Nth, Part

\* A delete goes down the parts, the others go up.
LEMMA DoneIsNth ==
  ASSUME TypeOK, NEW r \in Requests, NEW p \in Part
  PROVE  Done(r, p) <=> \E k \in 1..at[r] : p = Nth(r, k)
<1> USE PartsAssumption DEF TypeOK, Done, Nth, Part
<1>1. at[r] \in 0..N
  OBVIOUS
<1>2. CASE call[r].op = "delete"
  <2>1. ASSUME p > N - at[r] PROVE \E k \in 1..at[r] : p = Nth(r, k)
    <3>1. N + 1 - p \in 1..at[r] /\ p = Nth(r, N + 1 - p)
      BY <1>1, <1>2, <2>1
    <3> QED
      BY <3>1
  <2> QED
    BY <1>1, <1>2, <2>1
<1>3. CASE call[r].op # "delete"
  BY <1>1, <1>3
<1> QED
  BY <1>2, <1>3

LEMMA StoredNothing == ASSUME TypeOK, NEW r \in Requests PROVE Stored(r, {}) = rows
BY DEF TypeOK, Stored

\* An effect that is Ok covers everything.
LEMMA OkIsAll ==
  ASSUME TypeOK, NEW r \in Requests, call[r] # NoCall, Progress(r), effect[r] = "Ok"
  PROVE  mine[r] = call[r].needs
<1>1. call[r] \in Calls /\ mine[r] \subseteq Part
  BY DEF TypeOK
<1>2. call[r].needs \subseteq Part
  BY <1>1 DEF Calls
<1>3. \A p \in Part : Done(r, p)
  BY PartsAssumption DEF Progress, Done, Part
<1>4. \A p \in Part : p \in mine[r] <=> p \in call[r].needs
  BY <1>3 DEF Progress
<1> QED
  BY <1>1, <1>2, <1>4

\* The steps in which a request ends.
LEMMA Ending ==
  ASSUME TypeOK, NEW r \in Requests, call[r] # NoCall,
         CommitOk(r) \/ CommitLost(r) \/ RollbackBiz(r) \/ Fail(r)
  PROVE  \E a \in Answers, w \in {{}, mine[r]} :
           /\ End(r, a, w)
           /\ w # {} => effect[r] # "none"
           /\ a = "ok" => effect[r] # "none" /\ w = mine[r]
           /\ a = "biz" => effect[r] # "none" /\ w = {}
BY DEF CommitOk, CommitLost, RollbackBiz, Fail, Answers

-----------------------------------------------------------------------------
(* The invariant.                                                          *)

LEMMA Initially == Init => IInv
<1> SUFFICES ASSUME Init PROVE IInv
  OBVIOUS
<1> USE PartsAssumption DEF Init
<1>1. TypeOK
  <2>1. rows \in [Part -> Requests \cup {"first", Gone}]
    OBVIOUS
  <2>2. \A r \in Requests : effect[r] = "none"
    OBVIOUS
  <2>3. /\ call \in [Requests -> Calls \cup {NoCall}]
        /\ at \in [Requests -> 0..N]
        /\ effect \in [Requests -> UpdateEffect \cup {"none"}]
        /\ mine \in [Requests -> SUBSET Part]
    OBVIOUS
  <2> QED
    BY <2>1, <2>2, <2>3 DEF TypeOK
<1>2. EntityWhole
  BY DEF EntityWhole
<1>3. ASSUME NEW r \in Requests PROVE Fresh(r) /\ Progress(r) /\ Locked(r)
  <2>1. call[r] = NoCall /\ at[r] = 0 /\ effect[r] = "none" /\ mine[r] = {}
    OBVIOUS
  <2>2. \A q \in Requests : mine[q] = {}
    OBVIOUS
  <2>3. call[r].needs = {}
    BY <2>1 DEF NoCall
  <2> QED
    BY <2>1, <2>2, <2>3 DEF Fresh, Progress, Locked
<1> QED
  BY <1>1, <1>2, <1>3 DEF IInv

\* Steps of the repository and of the beginning leave the rows alone.
LEMMA WorkSteps ==
  ASSUME IInv, NEW r \in Requests,
         \/ Begin(r) \/ SkipPart(r) \/ WritePart(r)
         \/ CheckNotFound(r) \/ CheckConflict(r) \/ ReturnOk(r)
  PROVE  IInv'
<1> USE PartsAssumption DEF IInv, TypeOK
<1>1. EntityWhole'
  BY DEF Begin, SkipPart, WritePart, CheckNotFound, CheckConflict, ReturnOk, Go, Return, EntityWhole
<1>2. CASE Begin(r)
  <2>1. TypeOK'
    BY <1>2 DEF Begin, Fresh
  <2>2. ASSUME NEW q \in Requests PROVE Fresh(q)' /\ Progress(q)' /\ Locked(q)'
    BY <1>2, <2>2 DEF Begin, Fresh, Progress, Locked, Done, Turn, Nth, Calls, NoCall, Part
  <2> QED
    BY <1>1, <2>1, <2>2
<1>3. CASE SkipPart(r)
  <2>1. TypeOK'
    BY <1>3 DEF SkipPart, Go
  <2>2. ASSUME NEW q \in Requests PROVE Fresh(q)' /\ Progress(q)' /\ Locked(q)'
    BY <1>3, <2>2 DEF SkipPart, Go, Fresh, Progress, Locked, Done, Turn, Nth, Part
  <2> QED
    BY <1>1, <2>1, <2>2
<1>4. CASE WritePart(r)
  <2>1. Turn(r) \in Part
    BY <1>4, TurnIsPart DEF WritePart, Reaches
  <2>2. TypeOK'
    BY <1>4, <2>1 DEF WritePart, Reaches, Go
  <2>3. ASSUME NEW q \in Requests \ {r} PROVE Turn(r) \notin mine[q]
    BY <1>4, <2>3 DEF WritePart, Reaches, Locked
  <2>4. Fresh(r)' /\ Progress(r)' /\ Locked(r)'
    <3>1. Fresh(r)' /\ Progress(r)'
      BY <1>4, <2>1 DEF WritePart, Reaches, Go, Fresh, Progress, Done, Turn, Nth, Part
    <3>2. Locked(r)'
      BY <1>4, <2>1, <2>3 DEF WritePart, Reaches, Go, Locked, Turn, Nth
    <3> QED
      BY <3>1, <3>2
  <2>5. ASSUME NEW q \in Requests \ {r} PROVE Fresh(q)' /\ Progress(q)' /\ Locked(q)'
    BY <1>4, <2>3, <2>5 DEF WritePart, Reaches, Go, Fresh, Progress, Locked, Done, Turn, Nth, Part
  <2> QED
    BY <1>1, <2>2, <2>4, <2>5
<1>5. CASE CheckNotFound(r)
  <2>1. TypeOK'
    BY <1>5 DEF CheckNotFound, Reaches, Return, Calls, Effects, DeleteEffect, UpdateEffect
  <2>2. ASSUME NEW q \in Requests PROVE Fresh(q)' /\ Progress(q)' /\ Locked(q)'
    BY <1>5, <2>2 DEF CheckNotFound, Reaches, Return, Fresh, Progress, Locked, Done, Turn, Nth, Part
  <2> QED
    BY <1>1, <2>1, <2>2
<1>6. CASE CheckConflict(r)
  <2>1. TypeOK'
    BY <1>6 DEF CheckConflict, Reaches, Return, Calls, Effects, SaveEffect, UpdateEffect
  <2>2. ASSUME NEW q \in Requests PROVE Fresh(q)' /\ Progress(q)' /\ Locked(q)'
    BY <1>6, <2>2 DEF CheckConflict, Reaches, Return, Fresh, Progress, Locked, Done, Turn, Nth, Part
  <2> QED
    BY <1>1, <2>1, <2>2
<1>7. CASE ReturnOk(r)
  <2>1. TypeOK'
    BY <1>7 DEF ReturnOk, Return, Calls, Effects, SaveEffect, DeleteEffect, UpdateEffect
  <2>2. ASSUME NEW q \in Requests PROVE Fresh(q)' /\ Progress(q)' /\ Locked(q)'
    BY <1>7, <2>2 DEF ReturnOk, Return, Fresh, Progress, Locked, Done, Turn, Nth, Part
  <2> QED
    BY <1>1, <2>1, <2>2
<1> QED
  BY <1>2, <1>3, <1>4, <1>5, <1>6, <1>7

LEMMA DeleteStep == ASSUME IInv, NEW p \in Part, DeletePart(p) PROVE IInv'
<1> USE PartsAssumption DEF IInv, TypeOK, DeletePart
<1>1. TypeOK' /\ EntityWhole'
  BY DEF EntityWhole
<1>2. ASSUME NEW q \in Requests PROVE Fresh(q)' /\ Progress(q)' /\ Locked(q)'
  BY <1>2 DEF Fresh, Progress, Locked, Done, Turn, Nth, Part
<1> QED
  BY <1>1, <1>2

\* A request ends, and what it wrote becomes durable or is gone.
LEMMA EndStep ==
  ASSUME IInv, NEW r \in Requests, call[r] # NoCall,
         NEW a \in Answers, NEW w \in {{}, mine[r]}, End(r, a, w),
         w # {} => effect[r] # "none"
  PROVE  IInv'
<1> USE PartsAssumption DEF IInv, TypeOK, End
<1>1. TypeOK'
  BY DEF Stored, UpdateEffect
<1>2. w # {} => effect[r] \in {"Ok", "NotFound"} /\ w = mine[r] /\ call[r] \in Calls
  BY DEF Progress, UpdateEffect
<1>3. EntityWhole'
  <2> SUFFICES ASSUME ~split, w # {} PROVE \A p, q \in Part : rows'[p] = Gone <=> rows'[q] = Gone
    BY StoredNothing DEF EntityWhole
  <2>1. \A p, q \in Part : rows[p] = Gone <=> rows[q] = Gone
    BY DEF EntityWhole
  <2>2. PICK x \in mine[r] : TRUE
    BY <1>2
  <2>3. x \in Part /\ (rows[x] = Gone <=> call[r].op = "save")
    BY <2>2 DEF Locked
  <2>4. CASE effect[r] = "NotFound"
    <3>1. Turn(r) \in Part /\ rows[Turn(r)] = Gone
      BY <2>2, <2>4, TurnIsPart DEF Progress, Locked
    <3>2. call[r].op = "save"
      BY <2>1, <2>3, <3>1
    <3> QED
      BY <1>2, <2>4, <3>2 DEF Effects, SaveEffect
  <2>5. CASE effect[r] = "Ok"
    <3>1. mine[r] = call[r].needs
      BY <2>5, OkIsAll
    <3>2. CASE call[r].op \in {"save", "delete"}
      BY <1>2, <3>1, <3>2 DEF Calls, Stored
    <3>3. CASE call[r].op = "update"
      BY <1>2, <2>1, <2>3, <3>3 DEF Stored
    <3> QED
      BY <1>2, <3>2, <3>3 DEF Calls
  <2> QED
    BY <1>2, <2>4, <2>5
<1>4. Fresh(r)' /\ Progress(r)' /\ Locked(r)'
  BY DEF Fresh, Progress, Locked, Done, NoCall, Part
<1>5. ASSUME NEW q \in Requests \ {r} PROVE Fresh(q)' /\ Progress(q)' /\ Locked(q)'
  <2>1. call'[q] = call[q] /\ at'[q] = at[q] /\ effect'[q] = effect[q] /\ mine'[q] = mine[q]
    BY <1>5
  <2>2. Fresh(q)' /\ Progress(q)'
    BY <1>5, <2>1 DEF Fresh, Progress, Done, Turn, Nth
  <2>3. mine[r] \cap mine[q] = {}
    BY <1>5 DEF Locked
  <2>4. \A p \in mine'[q] : rows'[p] = Gone <=> call'[q].op = "save"
    BY <1>5, <2>1, <2>3 DEF Locked, Stored
  <2>5. \A s \in Requests \ {q} : mine'[s] \cap mine'[q] = {}
    BY <1>5, <2>1 DEF Locked
  <2>6. ASSUME effect[q] = "NotFound", mine[q] # {} PROVE rows'[Turn(q)] = Gone
    <3>1. Turn(q) \in Part /\ rows[Turn(q)] = Gone
      BY <1>5, <2>6, TurnIsPart DEF Progress, Locked
    <3>2. CASE Turn(q) \notin w
      BY <3>1, <3>2 DEF Stored
    <3>3. CASE Turn(q) \in w
      <4>1. Turn(q) \in mine[r] /\ call[r].op = "save"
        BY <1>2, <3>1, <3>3 DEF Locked
      <4>2. effect[r] = "Ok" /\ mine[r] = Part
        BY <1>2, <3>3, <4>1, OkIsAll DEF Effects, SaveEffect, Calls
      <4> QED
        BY <2>3, <2>6, <4>2
    <3> QED
      BY <3>2, <3>3
  <2>7. Turn(q)' = Turn(q)
    BY <2>1 DEF Turn, Nth
  <2> QED
    BY <2>1, <2>2, <2>4, <2>5, <2>6, <2>7 DEF Locked
<1> QED
  BY <1>1, <1>3, <1>4, <1>5

LEMMA NextStep == IInv /\ [Next]_vars => IInv'
<1> SUFFICES ASSUME IInv, [Next]_vars PROVE IInv'
  OBVIOUS
<1>1. ASSUME NEW r \in Requests, CommitOk(r) \/ CommitLost(r) \/ RollbackBiz(r) \/ Fail(r)
      PROVE  IInv'
  <2>1. call[r] # NoCall
    BY <1>1 DEF IInv, Fresh, CommitOk, CommitLost, RollbackBiz, Fail
  <2> QED
    BY <1>1, <2>1, Ending, EndStep DEF IInv
<1>2. CASE UNCHANGED vars
  BY <1>2 DEF vars, IInv, TypeOK, EntityWhole, Fresh, Progress, Locked, Done, Turn, Nth
<1> QED
  BY <1>1, <1>2, WorkSteps, DeleteStep DEF Next

LEMMA Inductive == Spec => []IInv
BY Initially, NextStep, PTL DEF Spec

-----------------------------------------------------------------------------
(* What a request leaves behind when it ends.                              *)

\* The effect, the answer and what became durable, of the step that ends a request.
LEMMA EndsHow ==
  ASSUME IInv, Next, NEW r \in Requests, Ends(r)
  PROVE  \E a \in Answers, w \in {{}, mine[r]} :
           /\ End(r, a, w)
           /\ w # {} => effect[r] # "none"
           /\ a = "ok" => effect[r] # "none" /\ w = mine[r]
           /\ a = "biz" => effect[r] # "none" /\ w = {}
<1> USE DEF Ends
<1>1. \A q \in Requests \ {r} : ~(CommitOk(q) \/ CommitLost(q) \/ RollbackBiz(q) \/ Fail(q))
  BY DEF CommitOk, CommitLost, RollbackBiz, Fail, End, IInv, TypeOK
<1>2. \A q \in Requests : ~Begin(q)
  BY DEF Begin, IInv, TypeOK, Calls, NoCall
<1>3. \A q \in Requests :
        ~(SkipPart(q) \/ WritePart(q) \/ CheckNotFound(q) \/ CheckConflict(q) \/ ReturnOk(q))
  BY DEF SkipPart, WritePart, CheckNotFound, CheckConflict, ReturnOk, Go, Return
<1>4. \A p \in Part : ~DeletePart(p)
  BY DEF DeletePart
<1>5. CommitOk(r) \/ CommitLost(r) \/ RollbackBiz(r) \/ Fail(r)
  BY <1>1, <1>2, <1>3, <1>4 DEF Next
<1> QED
  BY <1>5, Ending DEF IInv

\* After NotFound, the parts before the missing one.
LEMMA MineIsPrefix ==
  ASSUME IInv, NEW r \in Requests, call[r] # NoCall, effect[r] # "Conflict"
  PROVE  mine[r] = {Nth(r, k) : k \in 1..at[r]} \cap call[r].needs
<1>1. call[r] \in Calls /\ mine[r] \subseteq Part
  BY DEF IInv, TypeOK
<1>2. call[r].needs \subseteq Part
  BY <1>1 DEF Calls
<1>3. \A p \in Part : p \in mine[r] <=> p \in call[r].needs /\ \E k \in 1..at[r] : p = Nth(r, k)
  BY DoneIsNth DEF IInv, Progress
<1> QED
  BY <1>1, <1>2, <1>3

-----------------------------------------------------------------------------
(* Theorems.                                                               *)

\* The variables of Parts keep their types.
THEOREM TypeCorrect == Spec => []TypeOK
BY Inductive, PTL DEF IInv

\* As long as no part is deleted on its own, an entity is there with all its parts or
\* with none, whatever requests do with check_save_effect! and its like.
THEOREM IsWhole == Spec => []EntityWhole
BY Inductive, PTL DEF IInv

\* A write that ends without an ignored NotFound is durable as a whole or not at all.
THEOREM WritesAllOrNothing == Spec => AllOrNothing
<1>1. ASSUME IInv, [Next]_vars, NEW r \in Requests, Ends(r),
             ~(effect[r] = "NotFound" /\ last'[3] # "biz")
      PROVE  rows' \in {rows, Stored(r, call[r].needs)}
  <2>1. Next /\ call[r] # NoCall
    BY <1>1 DEF Ends, vars
  <2>2. PICK a \in Answers, w \in {{}, mine[r]} :
          End(r, a, w) /\ (w # {} => effect[r] # "none") /\ (a = "biz" => w = {})
    BY <1>1, <2>1, EndsHow
  <2>3. rows' = Stored(r, w) /\ last'[3] = a
    BY <2>2 DEF End
  <2>4. CASE w = {}
    BY <1>1, <2>3, <2>4, StoredNothing DEF IInv
  <2>5. CASE w # {}
    <3>1. effect[r] = "Ok" /\ w = mine[r]
      BY <1>1, <2>2, <2>3, <2>5 DEF IInv, TypeOK, UpdateEffect, Progress
    <3> QED
      BY <1>1, <2>1, <2>3, <3>1, OkIsAll DEF IInv
  <2> QED
    BY <2>4, <2>5
<1>2. IInv /\ [Next]_vars =>
        \A r \in Requests : Ends(r) /\ ~(effect[r] = "NotFound" /\ last'[3] # "biz") =>
          rows' \in {rows, Stored(r, call[r].needs)}
  BY <1>1
<1> QED
  BY <1>2, Inductive, PTL DEF Spec, AllOrNothing

\* What an answer says is so: Ok with an effect that was Ok, that everything is durable;
\* a business error, that nothing is.
THEOREM AnswerIsTrue == Spec => ToldIsDone
<1>1. ASSUME IInv, [Next]_vars, NEW r \in Requests, Ends(r)
      PROVE  /\ effect[r] = "Ok" /\ last'[3] = "ok" =>
                  /\ rows' = Stored(r, call[r].needs)
                  /\ \A p \in call[r].needs : rows[p] = Gone <=> call[r].op = "save"
             /\ last'[3] = "biz" => rows' = rows
  <2>1. Next /\ call[r] # NoCall
    BY <1>1 DEF Ends, vars
  <2>2. PICK a \in Answers, w \in {{}, mine[r]} :
          End(r, a, w) /\ (a = "ok" => w = mine[r]) /\ (a = "biz" => w = {})
    BY <1>1, <2>1, EndsHow
  <2>3. rows' = Stored(r, w) /\ last'[3] = a
    BY <2>2 DEF End
  <2>4. ASSUME effect[r] = "Ok", a = "ok"
        PROVE  /\ rows' = Stored(r, call[r].needs)
               /\ \A p \in call[r].needs : rows[p] = Gone <=> call[r].op = "save"
    BY <1>1, <2>1, <2>2, <2>3, <2>4, OkIsAll DEF IInv, Locked
  <2>5. a = "biz" => rows' = rows
    BY <1>1, <2>2, <2>3, StoredNothing DEF IInv
  <2> QED
    BY <2>3, <2>4, <2>5
<1>2. IInv /\ [Next]_vars =>
        \A r \in Requests : Ends(r) =>
          /\ effect[r] = "Ok" /\ last'[3] = "ok" =>
               /\ rows' = Stored(r, call[r].needs)
               /\ \A p \in call[r].needs : rows[p] = Gone <=> call[r].op = "save"
          /\ last'[3] = "biz" => rows' = rows
  BY <1>1
<1> QED
  BY <1>2, Inductive, PTL DEF Spec, ToldIsDone

\* What a request that met a missing part leaves behind are the parts before it; one
\* that met a conflict leaves nothing.
THEOREM CutsBeforeMissing == Spec => CutBeforeMissing
<1>1. ASSUME IInv, [Next]_vars, NEW r \in Requests, Ends(r), rows' # rows, effect[r] # "Ok"
      PROVE  /\ effect[r] = "NotFound" /\ rows[Turn(r)] = Gone
             /\ rows' = Stored(r, {Nth(r, k) : k \in 1..at[r]} \cap call[r].needs)
  <2>1. Next /\ call[r] # NoCall
    BY <1>1 DEF Ends, vars
  <2>2. PICK a \in Answers, w \in {{}, mine[r]} :
          End(r, a, w) /\ (w # {} => effect[r] # "none")
    BY <1>1, <2>1, EndsHow
  <2>3. rows' = Stored(r, w)
    BY <2>2 DEF End
  <2>4. w # {} /\ w = mine[r]
    BY <1>1, <2>2, <2>3, StoredNothing DEF IInv
  <2>5. effect[r] = "NotFound"
    BY <1>1, <2>2, <2>4 DEF IInv, TypeOK, UpdateEffect, Progress
  <2>6. rows[Turn(r)] = Gone
    BY <1>1, <2>4, <2>5 DEF IInv, Locked
  <2>7. mine[r] = {Nth(r, k) : k \in 1..at[r]} \cap call[r].needs
    BY <1>1, <2>1, <2>5, MineIsPrefix
  <2> QED
    BY <2>3, <2>4, <2>5, <2>6, <2>7
<1>2. IInv /\ [Next]_vars =>
        \A r \in Requests : Ends(r) /\ rows' # rows /\ effect[r] # "Ok" =>
          /\ effect[r] = "NotFound" /\ rows[Turn(r)] = Gone
          /\ rows' = Stored(r, {Nth(r, k) : k \in 1..at[r]} \cap call[r].needs)
  BY <1>1
<1> QED
  BY <1>2, Inductive, PTL DEF Spec, CutBeforeMissing

-----------------------------------------------------------------------------
(* The refinement.                                                         *)

LEMMA WholeInit == Init => Whole!Init
BY DEF Init, Whole!Init, NoCall, Whole!NoCall, Part, Whole!Part

\* The step that ends a request is the one in which the abstract store is written.
LEMMA WholeEnd ==
  ASSUME IInv, NEW r \in Requests, call[r] # NoCall,
         NEW a \in Answers, NEW w \in {{}, mine[r]}, End(r, a, w),
         w # {} => effect[r] # "none",
         a = "ok" => effect[r] # "none" /\ w = mine[r],
         a = "biz" => effect[r] # "none" /\ w = {}
  PROVE  Whole!Apply(r) \/ Whole!Refuse(r) \/ Whole!Cut(r)
<1>1. /\ call[r] # Whole!NoCall /\ call' = [call EXCEPT ![r] = Whole!NoCall]
      /\ last' = <<r, effect[r], a>>
  BY DEF End, NoCall, Whole!NoCall
<1>2. rows' = Whole!Stored(r, w)
  BY DEF End, Stored, Whole!Stored, Part, Whole!Part
<1>3. /\ effect[r] \in {"none", "Ok", "Conflict", "NotFound"}
      /\ a \in {"ok", "biz", "sys", "cancelled"}
  BY DEF IInv, TypeOK, UpdateEffect, Answers
<1>4. ASSUME effect[r] = "Ok", w = mine[r], a # "biz" PROVE Whole!Apply(r)
  <2>1. w = call[r].needs
    BY <1>4, OkIsAll DEF IInv
  <2>2. \A p \in call[r].needs : rows[p] = Gone <=> call[r].op = "save"
    BY <1>4, <2>1 DEF IInv, Locked
  <2> QED
    BY <1>1, <1>2, <1>3, <1>4, <2>1, <2>2 DEF Whole!Apply, Whole!End
<1>5. ASSUME w = {}, ~(effect[r] = "Ok" /\ a = "ok") PROVE Whole!Refuse(r)
  <2>1. rows' = rows
    BY <1>5, StoredNothing DEF End, IInv
  <2>2. effect[r] = "none" => a # "ok"
    OBVIOUS
  <2> QED
    BY <1>1, <1>3, <1>5, <2>1, <2>2 DEF Whole!Refuse, Whole!End
<1>6. ASSUME w # {}, effect[r] # "Ok" PROVE Whole!Cut(r)
  <2>1. effect[r] = "NotFound" /\ w = mine[r] /\ a # "biz"
    BY <1>3, <1>6 DEF IInv, Progress
  <2>2. mine[r] \subseteq call[r].needs
    BY <2>1 DEF IInv, TypeOK, Progress
  <2>3. call[r].op # "save"
    BY <2>1 DEF IInv, TypeOK, Effects, SaveEffect
  <2>4. \A p \in mine[r] : rows[p] # Gone
    BY <2>3 DEF IInv, Locked
  <2>5. Turn(r) \in call[r].needs /\ rows[Turn(r)] = Gone
    BY <1>6, <2>1 DEF IInv, Progress, Locked
  <2>6. Whole!End(r, "NotFound", {"ok", "sys", "cancelled"})
    BY <1>1, <1>3, <2>1 DEF Whole!End
  <2> QED
    BY <1>2, <2>1, <2>2, <2>4, <2>5, <2>6 DEF Whole!Cut
<1> QED
  BY <1>3, <1>4, <1>5, <1>6

LEMMA WholeNext == IInv /\ [Next]_vars => [Whole!Next]_(Whole!vars)
<1> SUFFICES ASSUME IInv, [Next]_vars PROVE [Whole!Next]_(Whole!vars)
  OBVIOUS
<1>1. ASSUME NEW r \in Requests, Begin(r) PROVE Whole!Next
  BY <1>1 DEF Begin, Whole!Begin, Whole!Next, Calls, Whole!Calls, NoCall, Whole!NoCall, Part, Whole!Part
<1>2. ASSUME NEW r \in Requests,
             SkipPart(r) \/ WritePart(r) \/ CheckNotFound(r) \/ CheckConflict(r) \/ ReturnOk(r)
      PROVE  Whole!Next
  BY <1>2 DEF SkipPart, WritePart, CheckNotFound, CheckConflict, ReturnOk, Go, Return,
              Whole!Work, Whole!Next
<1>3. ASSUME NEW r \in Requests, CommitOk(r) \/ CommitLost(r) \/ RollbackBiz(r) \/ Fail(r)
      PROVE  Whole!Next
  <2>1. call[r] # NoCall
    BY <1>3 DEF IInv, Fresh, CommitOk, CommitLost, RollbackBiz, Fail
  <2>2. Whole!Apply(r) \/ Whole!Refuse(r) \/ Whole!Cut(r)
    BY <1>3, <2>1, Ending, WholeEnd DEF IInv
  <2> QED
    BY <2>2 DEF Whole!Next
<1>4. ASSUME NEW p \in Part, DeletePart(p) PROVE Whole!Next
  BY <1>4 DEF DeletePart, Whole!Lose, Whole!Next, Part, Whole!Part
<1>5. CASE UNCHANGED vars
  BY <1>5 DEF vars, Whole!vars
<1> QED
  BY <1>1, <1>2, <1>3, <1>4, <1>5 DEF Next

\* A repository that goes from part to part, with others at work meanwhile, writes the
\* entity as if at one moment.
THEOREM WritesAtOnce == Spec => ImplementsWhole
BY Inductive, WholeInit, WholeNext, PTL DEF Spec, ImplementsWhole, Whole!Spec
=============================================================================
