--------------------------- MODULE ConnPoolProofs ---------------------------
(* What holds of ConnPool for any callers and adapters, any number of      *)
(* requests, and a pool of any size.                                       *)
EXTENDS ConnPool, SequenceTheorems, FunctionTheorems, FiniteSetTheorems, TLAPS

\* Nobody waits twice.
Queued == \A i, j \in DOMAIN queue : queue[i] = queue[j] => i = j

\* Before the pool is there, no loop runs and no request has come.
Installed == pool = None => Loops = {} /\ \A r \in Requests : request[r] = "out"

\* A request that is over holds nothing, and one that waits has an adapter to go.
Owned == \A s \in Places : conn[s] \in Requests => request[conn[s]] # "out"
Wants == \A r \in Requests : request[r] = "wait" => Cardinality(Holds(r)) < Adapters

IInv == TypeOK /\ Queued /\ Installed /\ Owned /\ Wants

-----------------------------------------------------------------------------
(* The invariant.                                                          *)

LEMMA Initially == Init => IInv
<1> SUFFICES ASSUME Init PROVE IInv
  OBVIOUS
<1> USE NamesAssumption DEF Init
<1>1. DOMAIN queue = {} /\ Loops = {}
  BY DEF Loops
<1>2. TypeOK
  BY <1>1 DEF TypeOK, MaxAge
<1>3. Owned
  BY DEF Owned
<1> QED
  BY <1>1, <1>2, <1>3 DEF IInv, Queued, Installed, Wants

\* Callers of init.
LEMMA InitSteps ==
  ASSUME IInv, NEW i \in Callers, InitCustomPool(i) \/ ProbeErr(i) \/ Publish(i)
  PROVE  IInv'
<1> USE NamesAssumption DEF IInv, TypeOK, conns, demand, Return
<1>1. Loops \subseteq Loops' /\ (pool' = None => Loops' = Loops)
  BY DEF InitCustomPool, ProbeErr, Publish, Loops, Installed
<1>2. UNCHANGED <<checked, request, queue>> /\ (pool' = None => pool = None)
  BY DEF InitCustomPool, ProbeErr, Publish
<1>3. \A s \in Places : conn'[s] = conn[s] \/ (conn'[s] = "idle" /\ pool = None)
  BY DEF InitCustomPool, ProbeErr, Publish
<1>4. \A s \in Places : conn[s] \in Requests => pool # None
  BY DEF Installed, Owned
<1>5. \A r \in Requests : Holds(r)' = Holds(r)
  BY <1>3, <1>4 DEF Holds
<1>6. TypeOK'
  <2>1. pool' \in Callers \cup {None} /\ pc' \in [Callers -> {"start", "build", "done"}]
    BY DEF InitCustomPool, ProbeErr, Publish
  <2>2. conn' \in [Places -> {"closed", "idle"} \cup Requests] /\ used' \in [Places -> 0..MaxAge]
    BY DEF InitCustomPool, ProbeErr, Publish
  <2>3. checked' \subseteq Loops'
    BY <1>1, <1>2
  <2> QED
    BY <1>2, <2>1, <2>2, <2>3
<1>7. Queued' /\ Installed'
  BY <1>1, <1>2 DEF Queued, Installed
<1>8. Owned' /\ Wants'
  BY <1>2, <1>3, <1>5 DEF Owned, Wants
<1> QED
  BY <1>6, <1>7, <1>8

\* The check loops close idle connections only.
LEMMA CheckSteps == ASSUME IInv, (\E i \in Callers : Check(i)) \/ Tick PROVE IInv'
<1> USE NamesAssumption DEF IInv, TypeOK, demand
<1>1. UNCHANGED <<pool, pc, request, queue>> /\ Loops' = Loops
  <2>1. UNCHANGED <<pool, pc, request, queue>>
    BY DEF Check, Tick
  <2> QED
    BY <2>1 DEF Loops
<1>2. \A s \in Places : conn'[s] = conn[s] \/ (conn[s] = "idle" /\ conn'[s] = "closed")
  BY DEF Check, Tick, Retained
<1>3. \A r \in Requests : Holds(r)' = Holds(r)
  BY <1>2 DEF Holds
<1>4. checked' \subseteq Loops /\ used' \in [Places -> 0..MaxAge]
  BY DEF Check, Tick, Forget, MaxAge, Loops
<1>5. conn' \in [Places -> {"closed", "idle"} \cup Requests]
  BY DEF Check, Tick
<1>6. TypeOK'
  BY <1>1, <1>4, <1>5
<1>7. Queued' /\ Installed' /\ Owned' /\ Wants'
  BY <1>1, <1>2, <1>3 DEF Queued, Installed, Owned, Wants
<1> QED
  BY <1>6, <1>7

LEMMA ArriveStep == ASSUME IInv, NEW r \in Requests, Arrive(r) PROVE IInv'
<1> USE DEF IInv, TypeOK, Arrive, calls, conns
<1>1. Loops' = Loops /\ \A q \in Requests : Holds(q)' = Holds(q)
  BY DEF Loops, Holds
<1>2. TypeOK'
  BY <1>1
<1> QED
  BY <1>1, <1>2 DEF Queued, Installed, Owned, Wants

\* A request takes its place at the end of the queue.
LEMMA FetchStep == ASSUME IInv, NEW r \in Requests, Fetch(r) PROVE IInv'
<1> USE DEF IInv, TypeOK, Fetch, Wait, calls, conns
<1>1. Loops' = Loops /\ \A q \in Requests : Holds(q)' = Holds(q)
  BY DEF Loops, Holds
<1>2. /\ queue' \in Seq(Requests) /\ Len(queue) \in Nat
      /\ DOMAIN queue = 1..Len(queue) /\ DOMAIN queue' = 1..(Len(queue) + 1)
      /\ \A i \in DOMAIN queue : queue'[i] = queue[i]
      /\ queue'[Len(queue) + 1] = r
  OBVIOUS
<1>3. \A i \in DOMAIN queue : queue[i] # r
  OBVIOUS
<1>4. \A q \in Requests :
        (\E i \in DOMAIN queue' : queue'[i] = q) <=> q = r \/ \E i \in DOMAIN queue : queue[i] = q
  BY <1>2
<1>5. TypeOK'
  BY <1>1, <1>2, <1>4
<1>6. Queued'
  BY <1>2, <1>3 DEF Queued
<1> QED
  BY <1>1, <1>5, <1>6 DEF Installed, Owned, Wants

\* What leaves the queue at its head.
LEMMA HeadLeaves ==
  ASSUME IInv, queue # <<>>
  PROVE  /\ Head(queue) \in Requests /\ request[Head(queue)] = "wait"
         /\ Tail(queue) \in Seq(Requests)
         /\ \A q \in Requests :
              (\E i \in DOMAIN Tail(queue) : Tail(queue)[i] = q)
                <=> q # Head(queue) /\ \E i \in DOMAIN queue : queue[i] = q
         /\ \A i, j \in DOMAIN Tail(queue) : Tail(queue)[i] = Tail(queue)[j] => i = j
<1> USE DEF IInv, TypeOK
<1>1. /\ Len(queue) \in Nat \ {0} /\ DOMAIN queue = 1..Len(queue)
      /\ Head(queue) = queue[1] /\ Tail(queue) \in Seq(Requests)
      /\ DOMAIN Tail(queue) = 1..(Len(queue) - 1)
      /\ \A i \in 1..(Len(queue) - 1) : Tail(queue)[i] = queue[i + 1]
  OBVIOUS
<1>2. \A i \in DOMAIN queue : queue[i] = queue[1] => i = 1
  <2>1. 1 \in DOMAIN queue
    BY <1>1
  <2> QED
    BY <2>1 DEF Queued
<1>3. \A i, j \in DOMAIN Tail(queue) : Tail(queue)[i] = Tail(queue)[j] => i = j
  BY <1>1 DEF Queued
<1>4. Head(queue) \in Requests /\ request[Head(queue)] = "wait"
  BY <1>1
<1>5. ASSUME NEW q \in Requests, NEW i \in DOMAIN queue, queue[i] = q, q # Head(queue)
      PROVE  \E j \in DOMAIN Tail(queue) : Tail(queue)[j] = q
  <2>1. i - 1 \in 1..(Len(queue) - 1) /\ Tail(queue)[i - 1] = q
    BY <1>1, <1>5
  <2> QED
    BY <1>1, <2>1
<1>6. ASSUME NEW q \in Requests, NEW j \in DOMAIN Tail(queue), Tail(queue)[j] = q
      PROVE  q # Head(queue) /\ \E i \in DOMAIN queue : queue[i] = q
  <2>1. j + 1 \in DOMAIN queue /\ queue[j + 1] = q
    BY <1>1, <1>6
  <2> QED
    BY <1>1, <1>2, <1>6, <2>1
<1> QED
  BY <1>1, <1>3, <1>4, <1>5, <1>6

LEMMA ServeSteps == ASSUME IInv, Grant \/ FetchErr PROVE IInv'
<1> USE NamesAssumption DEF IInv, TypeOK, calls, conns
<1>1. /\ queue # <<>> /\ queue' = Tail(queue)
      /\ request' = [request EXCEPT ![Head(queue)] = "run"]
      /\ UNCHANGED <<pool, pc, checked>>
  BY DEF Grant, FetchErr
<1>2. /\ Head(queue) \in Requests /\ request[Head(queue)] = "wait"
      /\ Tail(queue) \in Seq(Requests)
      /\ \A q \in Requests :
           (\E i \in DOMAIN Tail(queue) : Tail(queue)[i] = q)
             <=> q # Head(queue) /\ \E i \in DOMAIN queue : queue[i] = q
      /\ \A i, j \in DOMAIN Tail(queue) : Tail(queue)[i] = Tail(queue)[j] => i = j
  BY <1>1, HeadLeaves
<1>3. /\ conn' \in [Places -> {"closed", "idle"} \cup Requests]
      /\ used' \in [Places -> 0..MaxAge]
      /\ \A s \in Places : conn'[s] = conn[s] \/ conn'[s] = Head(queue)
      /\ \A s \in Places : conn[s] \in Requests => conn'[s] = conn[s]
  <2>1. CASE FetchErr
    BY <2>1 DEF FetchErr
  <2>2. CASE Grant
    <3>1. PICK s \in Places :
            /\ conn[s] \in {"closed", "idle"}
            /\ conn' = [conn EXCEPT ![s] = Head(queue)]
            /\ used' = [used EXCEPT ![s] = 0]
      BY <2>2 DEF Grant
    <3>2. used' \in [Places -> 0..MaxAge]
      BY <3>1 DEF MaxAge
    <3>3. \A t \in Places : conn'[t] = IF t = s THEN Head(queue) ELSE conn[t]
      BY <3>1
    <3>4. conn' \in [Places -> {"closed", "idle"} \cup Requests]
      BY <1>2, <3>1
    <3> QED
      BY <3>1, <3>2, <3>3, <3>4
  <2> QED
    BY <2>1, <2>2
<1>4. Loops' = Loops
  BY <1>1 DEF Loops
<1>5. TypeOK'
  BY <1>1, <1>2, <1>3, <1>4
<1>6. Queued' /\ Installed'
  BY <1>1, <1>2, <1>4 DEF Queued, Installed
<1>7. Owned'
  BY <1>1, <1>2, <1>3 DEF Owned
<1>8. \A q \in Requests \ {Head(queue)} : Holds(q)' = Holds(q)
  BY <1>3 DEF Holds
<1>9. Wants'
  BY <1>1, <1>2, <1>8 DEF Wants
<1> QED
  BY <1>5, <1>6, <1>7, <1>9

\* A request that is over, or cancelled, gives its connections back or closes them.
LEMMA DropIs ==
  ASSUME IInv, NEW r \in Requests, Drop(r)
  PROVE  /\ conn' \in [Places -> {"closed", "idle"} \cup Requests]
         /\ used' \in [Places -> 0..MaxAge]
         /\ \A s \in Places : IF conn[s] = r THEN conn'[s] \in {"closed", "idle"}
                              ELSE conn'[s] = conn[s]
         /\ request' = [request EXCEPT ![r] = "out"]
         /\ UNCHANGED <<pool, pc, checked>>
<1> USE DEF IInv, TypeOK
<1>1. PICK back \in SUBSET Holds(r) :
        /\ conn' = [s \in Places |-> IF s \in back THEN "idle"
                                   ELSE IF s \in Holds(r) THEN "closed" ELSE conn[s]]
        /\ Forget(Holds(r) \ back)
  BY DEF Drop
<1>2. used' \in [Places -> 0..MaxAge]
  BY <1>1 DEF Forget, MaxAge
<1>3. \A s \in Places : s \in Holds(r) <=> conn[s] = r
  BY DEF Holds
<1>4. request' = [request EXCEPT ![r] = "out"] /\ UNCHANGED <<pool, pc, checked>>
  BY DEF Drop, calls
<1>5. /\ conn' \in [Places -> {"closed", "idle"} \cup Requests]
      /\ \A s \in Places : IF conn[s] = r THEN conn'[s] \in {"closed", "idle"}
                           ELSE conn'[s] = conn[s]
  <2>1. \A s \in Places : conn'[s] = IF s \in back THEN "idle"
                                     ELSE IF s \in Holds(r) THEN "closed" ELSE conn[s]
    BY <1>1
  <2>2. conn' \in [Places -> {"closed", "idle"} \cup Requests]
    BY <1>1
  <2> QED
    BY <1>3, <2>1, <2>2
<1> QED
  BY <1>2, <1>4, <1>5

LEMMA DropKeeps ==
  ASSUME IInv, NEW r \in Requests, Drop(r)
  PROVE  Loops' = Loops /\ Installed' /\ Owned' /\ Wants'
<1> USE NamesAssumption DEF IInv, TypeOK
<1>1. /\ \A s \in Places : IF conn[s] = r THEN conn'[s] \in {"closed", "idle"}
                           ELSE conn'[s] = conn[s]
      /\ request' = [request EXCEPT ![r] = "out"]
      /\ UNCHANGED <<pool, pc, checked>>
  BY DropIs
<1>2. Loops' = Loops
  BY <1>1 DEF Loops
<1>3. Installed' /\ Owned'
  BY <1>1, <1>2 DEF Installed, Owned
<1>4. \A q \in Requests \ {r} : Holds(q)' = Holds(q)
  BY <1>1 DEF Holds
<1>5. Wants'
  BY <1>1, <1>4 DEF Wants
<1> QED
  BY <1>2, <1>3, <1>5

LEMMA FinishStep == ASSUME IInv, NEW r \in Requests, Finish(r) PROVE IInv'
<1> USE DEF Finish
<1>1. Drop(r) /\ request[r] = "run" /\ queue' = queue
  OBVIOUS
<1>2. /\ conn' \in [Places -> {"closed", "idle"} \cup Requests]
      /\ used' \in [Places -> 0..MaxAge]
      /\ request' = [request EXCEPT ![r] = "out"]
      /\ UNCHANGED <<pool, pc, checked>>
  BY <1>1, DropIs
<1>3. Loops' = Loops /\ Installed' /\ Owned' /\ Wants'
  BY <1>1, DropKeeps
<1>4. TypeOK'
  BY <1>1, <1>2, <1>3 DEF IInv, TypeOK
<1>5. Queued'
  BY <1>1 DEF IInv, Queued
<1> QED
  BY <1>3, <1>4, <1>5 DEF IInv

LEMMA Shift ==
  ASSUME NEW n \in Nat, NEW i \in 1..n, NEW k \in 1..(n - 1), ~(k < i)
  PROVE  k - (i - 1) \in 1..(n - i) /\ (k - (i - 1)) + i = k + 1
OBVIOUS

\* What is left of a queue without the one at position i.
LEMMA RestIs ==
  ASSUME NEW q \in Seq(Requests), NEW i \in DOMAIN q,
         NEW rest, rest = SubSeq(q, 1, i - 1) \o SubSeq(q, i + 1, Len(q))
  PROVE  /\ rest \in Seq(Requests) /\ DOMAIN rest = 1..(Len(q) - 1)
         /\ \A k \in 1..(Len(q) - 1) : rest[k] = IF k < i THEN q[k] ELSE q[k + 1]
<1> DEFINE a == SubSeq(q, 1, i - 1)
           b == SubSeq(q, i + 1, Len(q))
<1>1. Len(q) \in Nat /\ DOMAIN q = 1..Len(q) /\ i \in 1..Len(q)
  OBVIOUS
<1>2. a \in Seq(Requests) /\ Len(a) = i - 1 /\ \A k \in 1..(i - 1) : a[k] = q[k]
  <2>1. \A k \in 1..(i - 1) : q[k] \in Requests
    BY <1>1
  <2> QED
    BY <1>1, <2>1, SubSeqProperties
<1>3. b \in Seq(Requests) /\ Len(b) = Len(q) - i /\ \A k \in 1..(Len(q) - i) : b[k] = q[k + i]
  <2>1. \A k \in (i + 1)..Len(q) : q[k] \in Requests
    BY <1>1
  <2>2. i + 1 \in Int /\ Len(q) \in Int /\ Len(q) - (i + 1) + 1 = Len(q) - i
    BY <1>1
  <2>3. /\ b \in Seq(Requests)
        /\ Len(b) = IF i + 1 <= Len(q) THEN Len(q) - (i + 1) + 1 ELSE 0
        /\ \A k \in 1..(Len(q) - (i + 1) + 1) : b[k] = q[i + 1 + k - 1]
    BY <2>1, <2>2, SubSeqProperties
  <2>4. Len(b) = Len(q) - i
    BY <1>1, <2>3
  <2>5. \A k \in 1..(Len(q) - i) : i + 1 + k - 1 = k + i
    BY <1>1
  <2> QED
    BY <2>2, <2>3, <2>4, <2>5
<1>4. rest = a \o b
  OBVIOUS
<1> HIDE DEF a, b
<1>5. /\ a \o b \in Seq(Requests) /\ Len(a \o b) = Len(q) - 1
      /\ \A k \in 1..(Len(q) - 1) : (a \o b)[k] = IF k <= i - 1 THEN a[k] ELSE b[k - (i - 1)]
  <2>1. /\ a \o b \in Seq(Requests) /\ Len(a \o b) = Len(a) + Len(b)
        /\ \A k \in 1..(Len(a) + Len(b)) :
             (a \o b)[k] = IF k <= Len(a) THEN a[k] ELSE b[k - Len(a)]
    BY <1>2, <1>3, ConcatProperties
  <2>2. Len(a) = i - 1 /\ Len(a) + Len(b) = Len(q) - 1
    BY <1>1, <1>2, <1>3
  <2> QED
    BY <2>1, <2>2
<1>6. ASSUME NEW k \in 1..(Len(q) - 1) PROVE (a \o b)[k] = IF k < i THEN q[k] ELSE q[k + 1]
  <2>1. CASE k < i
    BY <1>1, <1>2, <1>5, <2>1
  <2>2. CASE ~(k < i)
    <3> DEFINE j == k - (i - 1)
    <3>1. k \in Int /\ i \in Int /\ k <= Len(q) - 1 /\ ~(k <= i - 1)
      BY <1>1, <1>6, <2>2
    <3>2. j \in 1..(Len(q) - i) /\ j + i = k + 1
      BY <1>1, <2>2, Shift
    <3>3. (a \o b)[k] = b[j]
      BY <1>5, <1>6, <3>1
    <3> HIDE DEF j
    <3> QED
      BY <1>3, <2>2, <3>2, <3>3
  <2> QED
    BY <2>1, <2>2
<1>7. DOMAIN (a \o b) = 1..(Len(q) - 1)
  BY <1>5
<1> QED
  BY <1>4, <1>5, <1>6, <1>7

LEMMA GiveUpStep == ASSUME IInv, NEW r \in Requests, GiveUp(r) PROVE IInv'
<1> USE DEF IInv
<1>1. PICK i \in DOMAIN queue :
        /\ queue[i] = r
        /\ queue' = SubSeq(queue, 1, i - 1) \o SubSeq(queue, i + 1, Len(queue))
  BY DEF GiveUp
<1>2. Drop(r) /\ request[r] = "wait"
  BY DEF GiveUp
<1>3. queue \in Seq(Requests) /\ Len(queue) \in Nat /\ DOMAIN queue = 1..Len(queue)
  BY DEF TypeOK
<1>4. /\ queue' \in Seq(Requests) /\ DOMAIN queue' = 1..(Len(queue) - 1)
      /\ \A k \in 1..(Len(queue) - 1) : queue'[k] = IF k < i THEN queue[k] ELSE queue[k + 1]
  BY <1>1, <1>3, RestIs
<1>5. ASSUME NEW q \in Requests \ {r}, NEW k \in DOMAIN queue, queue[k] = q
      PROVE  \E j \in DOMAIN queue' : queue'[j] = q
  <2>1. CASE k < i
    BY <1>3, <1>4, <1>5, <2>1
  <2>2. CASE k > i
    <3>1. k - 1 \in DOMAIN queue' /\ queue'[k - 1] = q
      BY <1>3, <1>4, <1>5, <2>2
    <3> QED
      BY <3>1
  <2>3. k # i /\ k \in Int /\ i \in Int
    BY <1>1, <1>3, <1>5
  <2>4. k < i \/ k > i
    BY <2>3
  <2> QED
    BY <2>1, <2>2, <2>4
<1>6. ASSUME NEW q \in Requests, NEW j \in DOMAIN queue', queue'[j] = q
      PROVE  q # r /\ \E k \in DOMAIN queue : queue[k] = q
  <2>1. PICK k \in DOMAIN queue : k # i /\ queue[k] = q
    <3>1. CASE j < i
      BY <1>3, <1>4, <1>6, <3>1
    <3>2. CASE ~(j < i)
      <4>1. j + 1 \in DOMAIN queue /\ j + 1 # i /\ queue[j + 1] = q
        BY <1>3, <1>4, <1>6, <3>2
      <4> QED
        BY <4>1
    <3> QED
      BY <3>1, <3>2
  <2> QED
    BY <1>1, <2>1 DEF Queued
<1>7. \A q \in Requests : (\E j \in DOMAIN queue' : queue'[j] = q)
                            <=> q # r /\ \E k \in DOMAIN queue : queue[k] = q
  BY <1>5, <1>6
<1>8. /\ conn' \in [Places -> {"closed", "idle"} \cup Requests]
      /\ used' \in [Places -> 0..MaxAge]
      /\ request' = [request EXCEPT ![r] = "out"]
      /\ UNCHANGED <<pool, pc, checked>>
  BY <1>2, DropIs
<1>9. Loops' = Loops /\ Installed' /\ Owned' /\ Wants'
  BY <1>2, DropKeeps
<1>10. TypeOK'
  <2>1. \A q \in Requests : request'[q] = "wait" <=> \E j \in DOMAIN queue' : queue'[j] = q
    BY <1>7, <1>8 DEF TypeOK
  <2> QED
    BY <1>4, <1>8, <1>9, <2>1 DEF TypeOK
<1>11. Queued'
  <2> SUFFICES ASSUME NEW j \in DOMAIN queue', NEW k \in DOMAIN queue', queue'[j] = queue'[k]
               PROVE  j = k
    BY DEF Queued
  <2> DEFINE Old(n) == IF n < i THEN n ELSE n + 1
  <2>1. \A n \in DOMAIN queue' : Old(n) \in DOMAIN queue /\ queue'[n] = queue[Old(n)]
    BY <1>3, <1>4
  <2>2. Old(j) = Old(k)
    BY <2>1 DEF Queued
  <2>3. j \in Int /\ k \in Int /\ i \in Int
    BY <1>3, <1>4
  <2> QED
    BY <2>2, <2>3
<1> QED
  BY <1>9, <1>10, <1>11

LEMMA NextStep == IInv /\ [Next]_vars => IInv'
<1> SUFFICES ASSUME IInv, [Next]_vars PROVE IInv'
  OBVIOUS
<1>1. CASE UNCHANGED vars
  <2>1. UNCHANGED <<pool, pc, checked, conn, used, request, queue>>
    BY <1>1 DEF vars, calls, conns, demand
  <2> QED
    BY <2>1 DEF IInv, TypeOK, Loops, Queued, Installed, Owned, Wants, Holds
<1> QED
  BY <1>1, InitSteps, CheckSteps, ArriveStep, FetchStep, ServeSteps, FinishStep, GiveUpStep DEF Next

LEMMA Inductive == Spec => []IInv
BY Initially, NextStep, PTL DEF Spec

-----------------------------------------------------------------------------
(* Theorems.                                                               *)

\* The variables of ConnPool keep their types: nobody waits without being in the queue.
THEOREM TypeCorrect == Spec => []TypeOK
BY Inductive, PTL DEF IInv

\* Once a caller of init has installed a pool, it is the pool for ever.
THEOREM PoolStays == Spec => OnePool
<1>1. IInv /\ [Next]_vars => (pool # None => pool' = pool)
  BY DEF Next, InitCustomPool, ProbeErr, Publish, Check, Tick, Grant, FetchErr, Arrive, Fetch, Wait,
         Finish, GiveUp, Drop, vars, calls
<1> QED
  BY <1>1, Inductive, PTL DEF Spec, OnePool

\* When all places are held by requests that wait, each of which wants one more, the
\* places can be numbered by the request that holds them and, from 1 to Adapters - 1,
\* among those that it holds: there are no more places than such pairs.
LEMMA Circle ==
  ASSUME IInv, Stuck
  PROVE  /\ IsFiniteSet(Holders)
         /\ Cardinality(Places) <= Cardinality(Holders) * (Adapters - 1)
<1> USE PlacesAssumption
<1> DEFINE Nr(r) == CHOOSE f : f \in Bijection(Holds(r), 1..Cardinality(Holds(r)))
           T == Holders \X (1..(Adapters - 1))
           g == [s \in Places |-> <<conn[s], Nr(conn[s])[s]>>]
<1>1. \A s \in Places : /\ conn[s] \in Requests /\ request[conn[s]] = "wait"
                        /\ s \in Holds(conn[s]) /\ conn[s] \in Holders
  BY DEF Stuck, Holds, Holders
<1>2. ASSUME NEW r \in Requests, request[r] = "wait"
      PROVE  /\ Cardinality(Holds(r)) \in 0..(Adapters - 1)
             /\ Nr(r) \in Bijection(Holds(r), 1..Cardinality(Holds(r)))
  <2>1. IsFiniteSet(Holds(r))
    BY FS_Subset DEF Holds
  <2>2. Cardinality(Holds(r)) \in Nat /\ ExistsBijection(1..Cardinality(Holds(r)), Holds(r))
    BY <2>1, FS_CardinalityType
  <2>3. ExistsBijection(Holds(r), 1..Cardinality(Holds(r)))
    BY <2>2, Fun_ExistsBijSymmetric
  <2>4. \E f : f \in Bijection(Holds(r), 1..Cardinality(Holds(r)))
    BY <2>3 DEF ExistsBijection
  <2> QED
    BY <1>2, <2>2, <2>4 DEF IInv, Wants
<1>3. ASSUME NEW s \in Places PROVE Nr(conn[s])[s] \in 1..(Adapters - 1)
  <2> DEFINE r == conn[s]
  <2>1. /\ r \in Requests /\ s \in Holds(r) /\ Cardinality(Holds(r)) \in 0..(Adapters - 1)
        /\ Nr(r) \in Bijection(Holds(r), 1..Cardinality(Holds(r)))
    BY <1>1, <1>2
  <2>2. Nr(r) \in [Holds(r) -> 1..Cardinality(Holds(r))]
    BY <2>1 DEF Bijection, Injection
  <2> HIDE DEF r, Nr
  <2>3. Nr(r)[s] \in 1..(Adapters - 1)
    BY <2>1, <2>2
  <2> QED
    BY <2>3 DEF r
<1>4. ASSUME NEW s \in Places, NEW t \in Places, s # t, conn[s] = conn[t]
      PROVE  Nr(conn[s])[s] # Nr(conn[t])[t]
  <2>1. /\ s \in Holds(conn[s]) /\ t \in Holds(conn[s])
        /\ Nr(conn[s]) \in Bijection(Holds(conn[s]), 1..Cardinality(Holds(conn[s])))
    BY <1>1, <1>2, <1>4
  <2> QED
    BY <1>4, <2>1 DEF Bijection, Injection, IsInjective
<1> HIDE DEF Nr
<1>5. g \in [Places -> T]
  BY <1>1, <1>3
<1>6. \A s, t \in Places : s # t => g[s] # g[t]
  BY <1>4
<1>7. IsFiniteSet(Holders) /\ Cardinality(Holders) \in Nat
  <2>1. conn \in Surjection(Places, Holders)
    BY DEF Surjection, Holders, IInv, TypeOK
  <2> QED
    BY <2>1, FS_Surjection, FS_CardinalityType
<1>8. IsFiniteSet(T) /\ Cardinality(T) = Cardinality(Holders) * (Adapters - 1)
  <2>1. IsFiniteSet(1..(Adapters - 1)) /\ Cardinality(1..(Adapters - 1)) = Adapters - 1
    BY FS_Interval
  <2>2. /\ IsFiniteSet(T)
        /\ Cardinality(T) = Cardinality(Holders) * Cardinality(1..(Adapters - 1))
    BY <1>7, <2>1, FS_Product
  <2> QED
    BY <2>1, <2>2
<1> HIDE DEF g, T
<1>9. Cardinality(Places) <= Cardinality(T)
  <2>1. Cardinality(Places) \in Nat /\ Cardinality(T) \in Nat
    BY <1>8, FS_CardinalityType
  <2> QED
    BY <1>5, <1>6, <1>8, <2>1, FS_PigeonHole
<1> QED
  BY <1>7, <1>8, <1>9

\* A circle of requests that wait for one another needs a request for every Adapters - 1
\* places, however large the pool is and however many requests there are.
THEOREM CircleOfHolders == Spec => []StuckByHolders
<1>1. IInv => StuckByHolders
  BY Circle DEF StuckByHolders
<1> QED
  BY <1>1, Inductive, PTL

\* If every request is wired with one adapter, as Wiring shows of those whose manager is
\* built first, there is none: some place is free, or held by a request that goes on.
THEOREM OneAdapterNeverStuck == Places # {} /\ Adapters = 1 => (Spec => []~Stuck)
<1> SUFFICES ASSUME Places # {}, Adapters = 1 PROVE Spec => []~Stuck
  OBVIOUS
<1>1. IInv => ~Stuck
  <2> SUFFICES ASSUME IInv, Stuck PROVE FALSE
    OBVIOUS
  <2>1. Cardinality(Holders) \in Nat /\ Cardinality(Places) <= 0
    BY Circle, FS_CardinalityType
  <2>2. Cardinality(Places) \in Nat /\ Cardinality(Places) # 0
    BY PlacesAssumption, FS_CardinalityType, FS_EmptySet
  <2> QED
    BY <2>1, <2>2
<1> QED
  BY <1>1, Inductive, PTL

\* A pool that was installed has the check loop of the caller that installed it; until
\* then there are no connections to check.
Watched ==
  IF pool = None THEN \A s \in Places : conn[s] = "closed" ELSE pool \in Loops

LEMMA WatchedStep ==
  ASSUME IInv, Watched, [Next]_vars
  PROVE  Watched'
<1> USE NamesAssumption DEF IInv, TypeOK
<1>1. \A i \in Callers : pc[i] = "done" => pc'[i] = "done"
  BY DEF Next, InitCustomPool, ProbeErr, Publish, Return, Check, Tick, Grant, FetchErr, Arrive,
         Fetch, Wait, Finish, GiveUp, Drop, vars, calls
<1>2. CASE pool # None
  <2>1. pool' = pool
    BY <1>2 DEF Next, InitCustomPool, ProbeErr, Publish, Check, Tick, Grant, FetchErr, Arrive,
                Fetch, Wait, Finish, GiveUp, Drop, vars, calls
  <2> QED
    BY <1>1, <1>2, <2>1 DEF Watched, Loops
<1>3. CASE pool = None
  <2>1. \A r \in Requests : request[r] = "out"
    BY <1>3 DEF Installed
  <2>2. queue = <<>>
    BY <2>1
  <2>3. Loops = {}
    BY <1>3 DEF Installed
  <2>4. ASSUME NEW i \in Callers, Publish(i)
        PROVE  Watched'
    <3>1. pool' = i /\ i # None /\ pc'[i] = "done"
      BY <1>3, <2>4 DEF Publish, Return
    <3> QED
      BY <3>1 DEF Watched, Loops
  <2>5. ASSUME NEW i \in Callers, InitCustomPool(i) \/ ProbeErr(i)
        PROVE  Watched'
    BY <1>3, <2>5 DEF InitCustomPool, ProbeErr, conns, Watched
  <2>6. CASE UNCHANGED vars
    BY <1>3, <2>6 DEF vars, calls, conns, Watched
  <2>7. \/ UNCHANGED vars
        \/ \E i \in Callers : Publish(i) \/ InitCustomPool(i) \/ ProbeErr(i)
    BY <2>1, <2>2, <2>3 DEF Next, Check, Tick, Grant, FetchErr, Arrive, Fetch, Finish, GiveUp
  <2> QED
    BY <2>4, <2>5, <2>6, <2>7
<1> QED
  BY <1>2, <1>3

\* Where EventuallyClosed starts from: an open connection is in a pool that a loop
\* checks, whoever won the race, and a request is served from no other.
THEOREM OpenIsChecked ==
  Spec => [](\A s \in Places : conn[s] # "closed" => pool \in Loops)
<1>1. Init => Watched
  BY DEF Init, Watched
<1>2. IInv /\ Watched /\ [Next]_vars => Watched'
  BY WatchedStep
<1>3. Watched => \A s \in Places : conn[s] # "closed" => pool \in Loops
  BY DEF Watched
<1> QED
  BY <1>1, <1>2, <1>3, Inductive, PTL DEF Spec
=============================================================================
