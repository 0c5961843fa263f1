----------------------------- MODULE TaskRunner -----------------------------
(***************************************************************************)
(* The background task runner (src/src/async_task.rs): threads race in     *)
(* get_or_init_with for the one runner that a static OnceLock keeps, each  *)
(* starting an executor thread before it knows whether it won; tasks go    *)
(* through the winner's unbounded channel and run concurrently, on one     *)
(* thread, between their awaits.  A channel and its executor bear the name *)
(* of the thread that made them.                                           *)
(*                                                                         *)
(* In which order tokio polls the tasks it was given is left open.  The    *)
(* executor's thread is detached: when the process exits, it is gone.      *)
(***************************************************************************)
EXTENDS Sequences

CONSTANTS
  Threads,
  None,
  Tasks,
  Joining     \* tasks whose body awaits the end of every task that is not Joining

ASSUME NoneAssumption == None \notin Threads
ASSUME JoiningAssumption == Joining \subseteq Tasks

VARIABLES
  handle,     \* the OnceLock: the channel whose sender it keeps
  pc,         \* where get_or_init_with stands in each thread
  runner,     \* the channel of the runner each thread holds
  executor,   \* what became of the receiving loop of each channel
  queue,      \* the channels
  status,     \* of each task
  process     \* up, exited

vars == <<handle, pc, runner, executor, queue, status, process>>

Started == {"running", "done", "panicked"}
TypeOK ==
  /\ handle \in Threads \cup {None}
  /\ pc \in [Threads -> {"start", "create", "publish", "done"}]
  /\ runner \in [Threads -> Threads \cup {None}]
  /\ \A t \in Threads : pc[t] = "done" <=> runner[t] # None
  /\ executor \in [Threads -> {"none", "recv", "ended"}]
  /\ queue \in [Threads -> Seq(Tasks)]
  /\ status \in [Tasks -> {"new", "queued", "refused", "received"} \cup Started]
  /\ process \in {"up", "exited"}

Init ==
  /\ handle = None
  /\ pc = [t \in Threads |-> "start"]
  /\ runner = [t \in Threads |-> None]
  /\ executor = [t \in Threads |-> "none"]
  /\ queue = [t \in Threads |-> <<>>]
  /\ status = [k \in Tasks |-> "new"]
  /\ process = "up"

Up == process = "up" /\ UNCHANGED process
Over(k) == status[k] \in {"done", "panicked"}

-----------------------------------------------------------------------------
(* get_or_init_with, and the end of the runner it returned.                *)

\* The OnceLock has a runner, which is cloned, or it has not.
Get(t) ==
  /\ Up /\ pc[t] = "start"
  /\ runner' = [runner EXCEPT ![t] = handle]
  /\ pc' = [pc EXCEPT ![t] = IF handle = None THEN "create" ELSE "done"]
  /\ UNCHANGED <<handle, executor, queue, status>>

\* A channel, and the executor that receives from it.
StartExecutor(t) ==
  /\ Up /\ pc[t] = "create"
  /\ executor' = [executor EXCEPT ![t] = "recv"]
  /\ pc' = [pc EXCEPT ![t] = "publish"]
  /\ UNCHANGED <<handle, runner, queue, status>>

\* The runtime cannot be built: the caller gets the error, and may call again.
StartExecutorErr(t) ==
  /\ Up /\ pc[t] = "create"
  /\ pc' = [pc EXCEPT ![t] = "start"]
  /\ UNCHANGED <<handle, runner, executor, queue, status>>

\* Faulty variant: the caller keeps its own runner, whoever won.
PublishOwn(t) ==
  /\ Up /\ pc[t] = "publish"
  /\ handle' = IF handle = None THEN t ELSE handle
  /\ runner' = [runner EXCEPT ![t] = t]
  /\ pc' = [pc EXCEPT ![t] = "done"]
  /\ UNCHANGED <<executor, queue, status>>

\* The first one fills the OnceLock; the others drop their senders and get its runner.
Publish(t) ==
  /\ Up /\ pc[t] = "publish"
  /\ handle' = IF handle = None THEN t ELSE handle
  /\ runner' = [runner EXCEPT ![t] = handle']
  /\ pc' = [pc EXCEPT ![t] = "done"]
  /\ UNCHANGED <<executor, queue, status>>

DropRunner(t) ==
  /\ Up /\ pc[t] = "done"
  /\ runner' = [runner EXCEPT ![t] = None]
  /\ pc' = [pc EXCEPT ![t] = "start"]
  /\ UNCHANGED <<handle, executor, queue, status>>

-----------------------------------------------------------------------------
(* spawn.                                                                  *)

\* A send to a channel whose receiver is gone panics.
Send(c, k) ==
  /\ status[k] = "new"
  /\ IF executor[c] = "recv"
     THEN /\ status' = [status EXCEPT ![k] = "queued"]
          /\ queue' = [queue EXCEPT ![c] = Append(@, k)]
     ELSE /\ status' = [status EXCEPT ![k] = "refused"]
          /\ UNCHANGED queue
  /\ UNCHANGED <<handle, pc, runner, executor>>

Spawn(t, k) == Up /\ runner[t] # None /\ Send(runner[t], k)

\* A running task asks for the runner itself, and spawns another one.
SpawnFrom(j, k) == Up /\ status[j] = "running" /\ Send(handle, k)

-----------------------------------------------------------------------------
(* The executors.                                                          *)

\* Faulty variant: the OnceLock keeps no sender.
HeldByClones(c) == pc[c] = "publish" \/ \E t \in Threads : runner[t] = c

\* Faulty variant: a sender that lost the race is kept.
HeldByLosers(c) == executor[c] = "recv"

\* Whether the channel has a sender.
Held(c) == handle = c \/ pc[c] = "publish" \/ \E t \in Threads : runner[t] = c

\* Faulty variant: the loop awaits the task it received.
ReceiveInline(c) ==
  /\ Up /\ executor[c] = "recv" /\ queue[c] # <<>>
  /\ \A k \in Tasks : status[k] \notin {"received", "running"}
  /\ queue' = [queue EXCEPT ![c] = Tail(@)]
  /\ status' = [status EXCEPT ![Head(queue[c])] = "received"]
  /\ UNCHANGED <<handle, pc, runner, executor>>

\* The loop gives what it receives to the LocalSet, and goes on receiving.
Receive(c) ==
  /\ Up /\ executor[c] = "recv" /\ queue[c] # <<>>
  /\ queue' = [queue EXCEPT ![c] = Tail(@)]
  /\ status' = [status EXCEPT ![Head(queue[c])] = "received"]
  /\ UNCHANGED <<handle, pc, runner, executor>>

\* recv returns None: no sender is left, and nothing is queued.
EndExecutor(c) ==
  /\ Up /\ executor[c] = "recv" /\ queue[c] = <<>> /\ ~Held(c)
  /\ executor' = [executor EXCEPT ![c] = "ended"]
  /\ UNCHANGED <<handle, pc, runner, queue, status>>

Move(k, to) ==
  /\ Up /\ status' = [status EXCEPT ![k] = to]
  /\ UNCHANGED <<handle, pc, runner, executor, queue>>

\* pre_run, and run up to its first await.
StartTask(k) == status[k] = "received" /\ Move(k, "running")

\* run ends, and post_run is called.
FinishTask(k) ==
  /\ status[k] = "running"
  /\ k \in Joining => \A j \in Tasks \ Joining : Over(j)
  /\ Move(k, "done")

\* A panic of run ends the task without post_run, and nothing else.
PanicTask(k) == status[k] = "running" /\ Move(k, "panicked")

\* The process exits, and its detached threads with it.
Exit ==
  /\ process = "up" /\ process' = "exited"
  /\ UNCHANGED <<handle, pc, runner, executor, queue, status>>

Next ==
  \/ \E t \in Threads : Get(t) \/ StartExecutor(t) \/ StartExecutorErr(t) \/ Publish(t)
  \/ \E t \in Threads : DropRunner(t) \/ Receive(t) \/ EndExecutor(t)
  \/ \E t \in Threads, k \in Tasks : Spawn(t, k)
  \/ \E j, k \in Tasks : SpawnFrom(j, k)
  \/ \E k \in Tasks : StartTask(k) \/ FinishTask(k) \/ PanicTask(k)
  \/ Exit

Spec == Init /\ [][Next]_vars

\* A thread in get_or_init_with goes on, an executor polls what it has, and a body
\* that waits for nobody ends.
FairSpec ==
  /\ Spec
  /\ \A t \in Threads : WF_vars(StartExecutor(t)) /\ WF_vars(Publish(t))
  /\ \A t \in Threads : WF_vars(Receive(t)) /\ WF_vars(EndExecutor(t))
  /\ \A k \in Tasks : WF_vars(StartTask(k)) /\ WF_vars(FinishTask(k))

-----------------------------------------------------------------------------
(* Properties.                                                             *)

\* The `expect` of spawn does not fail: nobody gets a runner whose executor never
\* started or has ended, not even after every earlier clone has been dropped.
NeverRefused == \A k \in Tasks : status[k] # "refused"

\* An executor started by a thread that lost the race ends.
LosersEnd ==
  \A t \in Threads :
    executor[t] = "recv" /\ handle \notin {None, t}
      ~> executor[t] = "ended" \/ process = "exited"

\* A spawned task runs to its end, even one that waits for tasks spawned after it,
\* once they are: the loop does not stop receiving while a task runs.
EventuallyOver ==
  \A k \in Tasks :
    (/\ status[k] # "new"
     /\ k \in Joining => \A j \in Tasks \ Joining : status[j] # "new")
      ~> Over(k) \/ process = "exited"

\* Threads that race in get_or_init_with, runners dropped and asked for again, executors
\* that start and end: to whoever spawns, they are one queue, which takes every task and
\* gives each to an executor once, in the order of the spawns.
Queue == INSTANCE WorkQueue WITH waiting <- IF handle = None THEN <<>> ELSE queue[handle]

ImplementsQueue == Queue!Spec
=============================================================================
