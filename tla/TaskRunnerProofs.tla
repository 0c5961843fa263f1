-------------------------- MODULE TaskRunnerProofs --------------------------
(* What holds of TaskRunner for any number of threads and tasks.           *)
EXTENDS TaskRunner, Integers, TLAPS

\* Whoever is about to publish a runner has its executor running, which a sender keeps
\* from ending; a sender in the OnceLock keeps its executor for ever.
Kept ==
  /\ \A t \in Threads : pc[t] = "publish" => executor[t] = "recv"
  /\ handle # None => executor[handle] = "recv"

\* Tasks come from somebody who has a runner.
HandleFirst ==
  handle = None => /\ \A k \in Tasks : status[k] = "new"
                   /\ \A c \in Threads : queue[c] = <<>>

\* However the calls of get_or_init race, everybody has the runner of the OnceLock.
OneRunner == \A t \in Threads : runner[t] \in {None, handle}

\* Only the channel of the OnceLock has tasks, each of them once, and no task that is
\* queued was ever received.
Queued ==
  \A c \in Threads :
    /\ c # handle => queue[c] = <<>>
    /\ \A i \in 1..Len(queue[c]) : status[queue[c][i]] = "queued"
    /\ \A i, j \in 1..Len(queue[c]) : queue[c][i] = queue[c][j] => i = j

IInv == TypeOK /\ Kept /\ OneRunner /\ HandleFirst /\ NeverRefused /\ Queued

-----------------------------------------------------------------------------
(* The invariant.                                                          *)

\* A step that leaves the channels and the OnceLock alone, and no task queued that was
\* not, or no longer queued that was.
LEMMA QueuedStays ==
  ASSUME TypeOK, Queued, UNCHANGED queue, handle = None \/ handle' = handle,
         handle = None => \A c \in Threads : queue[c] = <<>>,
         \A k \in Tasks : status[k] = "queued" => status'[k] = "queued"
  PROVE  Queued'
<1> SUFFICES ASSUME NEW c \in Threads
             PROVE  /\ c # handle' => queue[c] = <<>>
                    /\ \A i \in 1..Len(queue[c]) : status'[queue[c][i]] = "queued"
                    /\ \A i, j \in 1..Len(queue[c]) : queue[c][i] = queue[c][j] => i = j
  BY DEF Queued
<1>1. queue[c] \in Seq(Tasks)
  BY DEF TypeOK
<1>2. \A i \in 1..Len(queue[c]) : queue[c][i] \in Tasks
  BY <1>1
<1> QED
  BY <1>1, <1>2 DEF Queued

LEMMA Initially == Init => IInv
<1> SUFFICES ASSUME Init PROVE IInv
  OBVIOUS
<1>1. TypeOK
  BY NoneAssumption DEF Init, TypeOK
<1> QED
  BY <1>1 DEF Init, IInv, Kept, OneRunner, HandleFirst, NeverRefused, Queued

\* The race for the OnceLock.
LEMMA InitSteps ==
  ASSUME IInv, NEW t \in Threads,
         Get(t) \/ StartExecutor(t) \/ StartExecutorErr(t) \/ Publish(t) \/ DropRunner(t)
  PROVE  IInv'
<1>0. Queued'
  BY QueuedStays DEF IInv, HandleFirst, Get, StartExecutor, StartExecutorErr, Publish, DropRunner
<1> USE <1>0, NoneAssumption DEF IInv, TypeOK
<1>1. CASE Get(t)
  <2>1. TypeOK'
    BY <1>1 DEF Get, Up
  <2> QED
    BY <1>1, <2>1 DEF Get, Up, Kept, OneRunner, HandleFirst, NeverRefused
<1>2. CASE StartExecutor(t)
  <2>1. TypeOK'
    BY <1>2 DEF StartExecutor, Up
  <2> QED
    BY <1>2, <2>1 DEF StartExecutor, Up, Kept, OneRunner, HandleFirst, NeverRefused
<1>3. CASE StartExecutorErr(t)
  <2>1. TypeOK'
    BY <1>3 DEF StartExecutorErr, Up
  <2> QED
    BY <1>3, <2>1 DEF StartExecutorErr, Up, Kept, OneRunner, HandleFirst, NeverRefused
<1>4. CASE Publish(t)
  <2>1. handle' \in Threads /\ (handle # None => handle' = handle)
    BY <1>4 DEF Publish
  <2>2. TypeOK'
    BY <1>4, <2>1 DEF Publish, Up
  <2>3. Kept'
    BY <1>4, <2>1 DEF Publish, Kept
  <2>4. OneRunner'
    BY <1>4, <2>1 DEF Publish, OneRunner
  <2> QED
    BY <1>4, <2>1, <2>2, <2>3, <2>4 DEF Publish, HandleFirst, NeverRefused
<1>5. CASE DropRunner(t)
  <2>1. TypeOK'
    BY <1>5 DEF DropRunner, Up
  <2> QED
    BY <1>5, <2>1 DEF DropRunner, Up, Kept, OneRunner, HandleFirst, NeverRefused
<1> QED
  BY <1>1, <1>2, <1>3, <1>4, <1>5

\* A runner's channel is the one of the OnceLock, whose executor receives.
LEMMA SendStep ==
  ASSUME IInv, NEW c, NEW k \in Tasks, c # None, c = handle, Up, Send(c, k)
  PROVE  IInv'
<1> USE NoneAssumption DEF IInv, TypeOK
<1>1. c \in Threads /\ executor[c] = "recv"
  BY DEF Kept
<1>2. /\ status' = [status EXCEPT ![k] = "queued"]
      /\ queue' = [queue EXCEPT ![c] = Append(@, k)]
      /\ UNCHANGED <<handle, pc, runner, executor, process>>
  BY <1>1 DEF Send, Up
<1>3. TypeOK'
  <2>1. Append(queue[c], k) \in Seq(Tasks)
    BY <1>1
  <2> QED
    BY <1>1, <1>2, <2>1
<1>4. Queued'
  <2>1. \A d \in Threads : d # c => queue'[d] = <<>>
    BY <1>2 DEF Queued
  <2> DEFINE q == queue[c]
  <2>2. /\ q \in Seq(Tasks) /\ queue'[c] = Append(q, k)
        /\ \A i \in 1..Len(q) : q[i] \in Tasks
    BY <1>1, <1>2
  <2>3. /\ status[k] = "new"
        /\ \A i \in 1..Len(q) : status[q[i]] = "queued" /\ q[i] # k
    BY <1>1 DEF Queued, Send
  <2>4. /\ Len(queue'[c]) = Len(q) + 1 /\ Len(q) \in Nat
        /\ queue'[c][Len(q) + 1] = k
        /\ \A i \in 1..Len(q) : queue'[c][i] = q[i]
    BY <2>2
  <2>5. \A i \in 1..Len(queue'[c]) : status'[queue'[c][i]] = "queued"
    BY <1>2, <2>2, <2>3, <2>4
  <2>6. \A i, j \in 1..Len(queue'[c]) : queue'[c][i] = queue'[c][j] => i = j
    BY <1>1, <2>3, <2>4 DEF Queued
  <2> QED
    BY <1>2, <2>1, <2>5, <2>6 DEF Queued
<1> QED
  BY <1>2, <1>3, <1>4 DEF Kept, OneRunner, HandleFirst, NeverRefused

LEMMA SpawnSteps ==
  ASSUME IInv, NEW k \in Tasks,
         (\E t \in Threads : Spawn(t, k)) \/ \E j \in Tasks : SpawnFrom(j, k)
  PROVE  IInv'
<1>1. ASSUME NEW t \in Threads, Spawn(t, k) PROVE IInv'
  BY <1>1, SendStep DEF Spawn, IInv, OneRunner, Up
<1>2. ASSUME NEW j \in Tasks, SpawnFrom(j, k) PROVE IInv'
  BY <1>2, SendStep DEF SpawnFrom, IInv, HandleFirst, Up
<1> QED
  BY <1>1, <1>2

LEMMA ExecutorSteps ==
  ASSUME IInv, (\E c \in Threads : Receive(c) \/ EndExecutor(c)) \/ Exit
  PROVE  IInv'
<1> USE NoneAssumption DEF IInv, TypeOK
<1>1. ASSUME NEW c \in Threads, Receive(c) PROVE IInv'
  <2>1. queue[c] \in Seq(Tasks) /\ queue[c] # <<>>
    BY <1>1 DEF Receive
  <2>2. Head(queue[c]) \in Tasks /\ Tail(queue[c]) \in Seq(Tasks)
    BY <2>1
  <2>3. TypeOK'
    BY <1>1, <2>2 DEF Receive, Up
  <2>4. HandleFirst'
    BY <1>1, <2>2 DEF Receive, HandleFirst
  <2>5. Queued'
    <3> DEFINE q == queue[c]
    <3>1. \A d \in Threads : queue'[d] = IF d = c THEN Tail(q) ELSE queue[d]
      BY <1>1 DEF Receive
    <3>2. c = handle /\ \A d \in Threads : d # c => queue[d] = <<>>
      BY <2>1 DEF Queued
    <3>3. /\ Len(q) \in Nat \ {0} /\ Len(Tail(q)) = Len(q) - 1 /\ Head(q) = q[1]
          /\ \A i \in 1..Len(q) : q[i] \in Tasks
          /\ \A i \in 1..Len(Tail(q)) : Tail(q)[i] = q[i + 1]
      BY <2>1
    <3>4. /\ \A i \in 1..Len(q) : status[q[i]] = "queued"
          /\ \A i, j \in 1..Len(q) : q[i] = q[j] => i = j
      BY DEF Queued
    <3>5. \A i \in 1..Len(Tail(q)) : status'[Tail(q)[i]] = "queued"
      <4>1. \A i \in 1..Len(Tail(q)) : i + 1 \in 1..Len(q) /\ i + 1 # 1
        BY <3>3
      <4>2. \A i \in 1..Len(Tail(q)) : Tail(q)[i] \in Tasks /\ Tail(q)[i] # Head(q)
        BY <3>3, <3>4, <4>1
      <4> QED
        BY <1>1, <3>3, <3>4, <4>1, <4>2 DEF Receive
    <3>6. \A i, j \in 1..Len(Tail(q)) : Tail(q)[i] = Tail(q)[j] => i = j
      BY <3>3, <3>4
    <3>7. handle' = handle
      BY <1>1 DEF Receive
    <3>8. \A d \in Threads : d # c => queue'[d] = <<>> /\ 1..Len(queue'[d]) = {}
      BY <3>1, <3>2
    <3>9. /\ \A i \in 1..Len(queue'[c]) : status'[queue'[c][i]] = "queued"
          /\ \A i, j \in 1..Len(queue'[c]) : queue'[c][i] = queue'[c][j] => i = j
      <4>1. queue'[c] = Tail(q)
        BY <3>1
      <4> QED
        BY <3>5, <3>6, <4>1
    <3> HIDE DEF IInv, TypeOK
    <3> QED
      BY <3>2, <3>7, <3>8, <3>9 DEF Queued
  <2> QED
    BY <1>1, <2>2, <2>3, <2>4, <2>5 DEF Receive, Kept, OneRunner, NeverRefused
<1>2. ASSUME NEW c \in Threads, EndExecutor(c) PROVE IInv'
  <2>1. handle # c /\ pc[c] # "publish"
    BY <1>2 DEF EndExecutor, Held
  <2>2. TypeOK'
    BY <1>2 DEF EndExecutor, Up
  <2>3. Queued'
    BY <1>2, QueuedStays DEF EndExecutor, HandleFirst
  <2> QED
    BY <1>2, <2>1, <2>2, <2>3 DEF EndExecutor, Kept, OneRunner, HandleFirst, NeverRefused
<1>3. CASE Exit
  <2>1. Queued'
    BY <1>3, QueuedStays DEF Exit, HandleFirst
  <2> QED
    BY <1>3, <2>1 DEF Exit, Kept, OneRunner, HandleFirst, NeverRefused
<1> QED
  BY <1>1, <1>2, <1>3

LEMMA TaskSteps ==
  ASSUME IInv, NEW k \in Tasks, StartTask(k) \/ FinishTask(k) \/ PanicTask(k)
  PROVE  IInv'
<1> USE DEF IInv, TypeOK, StartTask, FinishTask, PanicTask, Move, Up
<1>1. PICK to \in Started : status' = [status EXCEPT ![k] = to]
  BY DEF Started
<1>2. TypeOK'
  BY <1>1
<1>3. HandleFirst'
  BY <1>1 DEF HandleFirst
<1>4. NeverRefused'
  BY <1>1 DEF NeverRefused, Started
<1>5. Queued'
  <2>1. status[k] # "queued" /\ UNCHANGED <<queue, handle>>
    OBVIOUS
  <2> QED
    BY <1>1, <2>1, QueuedStays DEF HandleFirst
<1> QED
  BY <1>2, <1>3, <1>4, <1>5 DEF Kept, OneRunner

LEMMA NextStep == IInv /\ [Next]_vars => IInv'
<1> SUFFICES ASSUME IInv, [Next]_vars PROVE IInv'
  OBVIOUS
<1>1. CASE UNCHANGED vars
  BY <1>1 DEF vars, IInv, TypeOK, Kept, OneRunner, HandleFirst, NeverRefused, Queued
<1> QED
  BY <1>1, InitSteps, SpawnSteps, ExecutorSteps, TaskSteps DEF Next

LEMMA Inductive == Spec => []IInv
BY Initially, NextStep, PTL DEF Spec

-----------------------------------------------------------------------------
(* The one queue.                                                          *)

\* A runner in hand has the channel of the OnceLock, so a spawn puts its task there.
LEMMA QueueAccepts ==
  ASSUME IInv, NEW c, NEW k \in Tasks, c # None, c = handle, Up, Send(c, k)
  PROVE  Queue!Accept(k)
<1>1. c \in Threads /\ executor[c] = "recv"
  BY DEF IInv, TypeOK, Kept
<1>2. /\ status[k] = "new" /\ status' = [status EXCEPT ![k] = "queued"]
      /\ queue' = [queue EXCEPT ![c] = Append(@, k)]
      /\ handle' = handle /\ process = "up" /\ process' = process
  BY <1>1 DEF Send, Up
<1>3. queue'[c] = Append(queue[c], k)
  BY <1>1, <1>2 DEF IInv, TypeOK
<1> QED
  BY <1>2, <1>3 DEF Queue!Accept, Queue!Move

\* Only the executor of the runner in the OnceLock has anything to receive.
LEMMA QueueTakesUp ==
  ASSUME IInv, NEW c \in Threads, Receive(c)
  PROVE  Queue!TakeUp
<1>1. queue[c] \in Seq(Tasks) /\ queue[c] # <<>>
  BY DEF IInv, TypeOK, Receive
<1>2. c = handle /\ handle # None
  BY <1>1, NoneAssumption DEF IInv, Queued
<1>3. status[Head(queue[c])] = "queued"
  <2>1. 1 \in 1..Len(queue[c]) /\ Head(queue[c]) = queue[c][1]
    BY <1>1
  <2> QED
    BY <2>1 DEF IInv, Queued
<1>4. queue'[c] = Tail(queue[c]) /\ handle' = handle
  BY DEF Receive, IInv, TypeOK
<1> QED
  BY <1>1, <1>2, <1>3, <1>4 DEF Receive, Up, Queue!TakeUp, Queue!Move

\* The race for the OnceLock is nobody's business: the channel that wins it is empty.
LEMMA QueueStays ==
  ASSUME IInv, NEW t \in Threads,
         Get(t) \/ StartExecutor(t) \/ StartExecutorErr(t) \/ Publish(t) \/ DropRunner(t)
           \/ EndExecutor(t)
  PROVE  UNCHANGED Queue!vars
<1>1. status' = status /\ process' = process /\ queue' = queue
  BY DEF Get, StartExecutor, StartExecutorErr, Publish, DropRunner, EndExecutor, Up
<1>2. CASE Publish(t)
  <2>1. handle # None => handle' = handle
    BY <1>2 DEF Publish
  <2>2. handle = None => handle' = t /\ t # None /\ queue[t] = <<>>
    BY <1>2, NoneAssumption DEF Publish, IInv, HandleFirst
  <2> QED
    BY <1>1, <2>1, <2>2 DEF Queue!vars
<1>3. CASE ~Publish(t)
  <2>1. handle' = handle
    BY <1>3 DEF Get, StartExecutor, StartExecutorErr, DropRunner, EndExecutor
  <2> QED
    BY <1>1, <2>1 DEF Queue!vars
<1> QED
  BY <1>2, <1>3

LEMMA QueueRuns ==
  ASSUME NEW k \in Tasks, StartTask(k) \/ FinishTask(k) \/ PanicTask(k)
  PROVE  Queue!Run(k) \/ Queue!End(k)
<1>1. handle' = handle /\ queue' = queue /\ process = "up" /\ process' = process
  BY DEF StartTask, FinishTask, PanicTask, Move, Up
<1> QED
  BY <1>1 DEF StartTask, FinishTask, PanicTask, Move, Queue!Run, Queue!End, Queue!Move

LEMMA QueueInit == Init => Queue!Init
BY DEF Init, Queue!Init

LEMMA QueueNext == IInv /\ [Next]_vars => [Queue!Next]_(Queue!vars)
<1> SUFFICES ASSUME IInv, [Next]_vars PROVE [Queue!Next]_(Queue!vars)
  OBVIOUS
<1>1. ASSUME NEW t \in Threads,
             Get(t) \/ StartExecutor(t) \/ StartExecutorErr(t) \/ Publish(t) \/ DropRunner(t)
               \/ EndExecutor(t)
      PROVE  UNCHANGED Queue!vars
  BY <1>1, QueueStays
<1>2. ASSUME NEW t \in Threads, Receive(t)
      PROVE  Queue!Next
  BY <1>2, QueueTakesUp DEF Queue!Next
<1>3. ASSUME NEW t \in Threads, NEW k \in Tasks, Spawn(t, k)
      PROVE  Queue!Next
  <2>1. runner[t] # None /\ runner[t] = handle /\ Up /\ Send(runner[t], k)
    BY <1>3 DEF Spawn, IInv, OneRunner
  <2> QED
    BY <2>1, QueueAccepts DEF Queue!Next
<1>4. ASSUME NEW j \in Tasks, NEW k \in Tasks, SpawnFrom(j, k)
      PROVE  Queue!Next
  <2>1. handle # None /\ Up /\ Send(handle, k)
    BY <1>4 DEF SpawnFrom, IInv, HandleFirst
  <2> QED
    BY <2>1, QueueAccepts DEF Queue!Next
<1>5. ASSUME NEW k \in Tasks, StartTask(k) \/ FinishTask(k) \/ PanicTask(k)
      PROVE  Queue!Next
  BY <1>5, QueueRuns DEF Queue!Next
<1>6. CASE Exit
  BY <1>6 DEF Exit, Queue!Exit, Queue!Next
<1>7. CASE UNCHANGED vars
  BY <1>7 DEF vars, Queue!vars
<1> QED
  BY <1>1, <1>2, <1>3, <1>4, <1>5, <1>6, <1>7 DEF Next

-----------------------------------------------------------------------------
(* No task is lost.                                                        *)

Waiting == IF handle = None THEN <<>> ELSE queue[handle]

NoneLost == \A k \in Tasks : status[k] = "queued" => \E i \in 1..Len(Waiting) : Waiting[i] = k

\* That a queued task is waiting follows from the steps of the queue alone.
LEMMA NoneLostStep ==
  ASSUME IInv, NoneLost, [Next]_vars
  PROVE  NoneLost'
<1> DEFINE w == Waiting
<1>1. w \in Seq(Tasks) /\ status \in [Tasks -> {status[k] : k \in Tasks}]
  BY DEF IInv, TypeOK, Waiting
<1>2. [Queue!Next]_(Queue!vars)
  BY QueueNext
<1> SUFFICES ASSUME NEW k \in Tasks, status'[k] = "queued"
             PROVE  \E i \in 1..Len(Waiting') : Waiting'[i] = k
  BY DEF NoneLost
<1>3. ASSUME status[k] = "queued", UNCHANGED Waiting
      PROVE  \E i \in 1..Len(Waiting') : Waiting'[i] = k
  BY <1>3 DEF NoneLost
<1>4. ASSUME NEW j \in Tasks, Queue!Accept(j)
      PROVE  \E i \in 1..Len(Waiting') : Waiting'[i] = k
  <2>1. Waiting' = Append(w, j) /\ status' = [status EXCEPT ![j] = "queued"]
    BY <1>4 DEF Queue!Accept, Queue!Move, Waiting
  <2> HIDE DEF w
  <2>2. /\ Len(Append(w, j)) = Len(w) + 1 /\ Len(w) \in Nat
        /\ Append(w, j)[Len(w) + 1] = j
        /\ \A i \in 1..Len(w) : Append(w, j)[i] = w[i]
    BY <1>1
  <2>3. CASE k = j
    BY <2>1, <2>2, <2>3
  <2>4. CASE k # j
    <3>1. status[k] = "queued"
      BY <1>1, <2>1, <2>4
    <3>2. PICK i \in 1..Len(w) : w[i] = k
      BY <3>1 DEF NoneLost, w
    <3> QED
      BY <2>1, <2>2, <3>2
  <2> QED
    BY <2>3, <2>4
<1>5. CASE Queue!TakeUp
  <2>1. /\ w # <<>> /\ Waiting' = Tail(w)
        /\ status' = [status EXCEPT ![Head(w)] = "received"]
    BY <1>5 DEF Queue!TakeUp, Queue!Move, Waiting
  <2> HIDE DEF w
  <2>2. /\ Len(w) \in Nat \ {0} /\ Len(Tail(w)) = Len(w) - 1 /\ Head(w) = w[1]
        /\ Head(w) \in Tasks
        /\ \A i \in 1..Len(Tail(w)) : Tail(w)[i] = w[i + 1]
    BY <1>1, <2>1
  <2>3. k # Head(w) /\ status[k] = "queued"
    BY <1>1, <2>1, <2>2
  <2>4. PICK i \in 1..Len(w) : w[i] = k
    BY <2>3 DEF NoneLost, w
  <2>5. i - 1 \in 1..Len(Tail(w)) /\ Tail(w)[i - 1] = k
    BY <2>2, <2>3, <2>4
  <2> QED
    BY <2>1, <2>5
<1>6. ASSUME NEW j \in Tasks, Queue!Run(j) \/ Queue!End(j)
      PROVE  \E i \in 1..Len(Waiting') : Waiting'[i] = k
  <2>1. UNCHANGED Waiting /\ \E how \in {"running", "done", "panicked"} :
          status' = [status EXCEPT ![j] = how]
    BY <1>6 DEF Queue!Run, Queue!End, Queue!Move, Waiting
  <2>2. status[k] = "queued"
    BY <1>1, <2>1
  <2> QED
    BY <1>3, <2>1, <2>2
<1>7. CASE Queue!Exit \/ UNCHANGED Queue!vars
  BY <1>3, <1>7 DEF Queue!Exit, Queue!vars, Waiting
<1> QED
  BY <1>2, <1>4, <1>5, <1>6, <1>7 DEF Queue!Next

-----------------------------------------------------------------------------
(* Theorems.                                                               *)

\* The variables of TaskRunner keep their types.
THEOREM TypeCorrect == Spec => []TypeOK
BY Inductive, PTL DEF IInv

\* However many threads race in get_or_init_with, those that have a runner have the one
\* of the OnceLock.
THEOREM RunnerIsOne == Spec => []OneRunner
BY Inductive, PTL DEF IInv

\* No spawn panics: a channel that a task is sent to has its executor.
THEOREM SpawnsAccepted == Spec => []NeverRefused
BY Inductive, PTL DEF IInv

\* The runner is a WorkQueue: whatever threads race for it, every task that is spawned
\* is taken, and given to an executor once, in the order of the spawns.
THEOREM OneWorkQueue == Spec => ImplementsQueue
<1>1. Init => Queue!Init
  BY QueueInit
<1>2. IInv /\ [Next]_vars => [Queue!Next]_(Queue!vars)
  BY QueueNext
<1> QED
  BY <1>1, <1>2, Inductive, PTL DEF Spec, ImplementsQueue, Queue!Spec

\* Where EventuallyOver starts from: a task that was spawned and not taken up is in the
\* channel of the OnceLock, whose executor receives.
THEOREM NoTaskLost ==
  Spec => [](\A k \in Tasks : status[k] = "queued" =>
               /\ handle # None /\ executor[handle] = "recv"
               /\ \E i \in 1..Len(queue[handle]) : queue[handle][i] = k)
<1>1. Init => NoneLost
  BY DEF Init, NoneLost
<1>2. IInv /\ NoneLost /\ [Next]_vars => NoneLost'
  BY NoneLostStep
<1>3. IInv /\ NoneLost => \A k \in Tasks : status[k] = "queued" =>
                             /\ handle # None /\ executor[handle] = "recv"
                             /\ \E i \in 1..Len(queue[handle]) : queue[handle][i] = k
  BY DEF IInv, Kept, HandleFirst, NoneLost, Waiting
<1> QED
  BY <1>1, <1>2, <1>3, Inductive, PTL DEF Spec

\* Where LosersEnd starts from: once its thread has published or found another runner, an
\* executor that lost the race has no sender and nothing to receive.
THEOREM LosersIdle ==
  Spec => [](\A c \in Threads :
               executor[c] = "recv" /\ handle \notin {None, c} /\ pc[c] # "publish" =>
                 queue[c] = <<>> /\ ~Held(c))
<1>1. IInv => \A c \in Threads :
                executor[c] = "recv" /\ handle \notin {None, c} /\ pc[c] # "publish" =>
                  queue[c] = <<>> /\ ~Held(c)
  BY NoneAssumption DEF IInv, TypeOK, Queued, OneRunner, Held
<1> QED
  BY <1>1, Inductive, PTL
=============================================================================
