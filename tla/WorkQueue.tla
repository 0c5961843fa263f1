----------------------------- MODULE WorkQueue -----------------------------
(***************************************************************************)
(* What a task runner promises to whoever spawns tasks (LocalTaskRunner    *)
(* and LocalAsyncTask of src/src/async_task.rs), however many threads      *)
(* asked for the runner: there is one queue, spawn always takes a task,    *)
(* tasks are taken up in the order in which they were spawned, each runs   *)
(* at most once, and the process forgets them when it exits.               *)
(***************************************************************************)
EXTENDS Sequences

CONSTANT Tasks

VARIABLES
  waiting,    \* the tasks that nobody took up yet
  status,     \* of each task
  process     \* up, exited

vars == <<waiting, status, process>>

Init ==
  /\ waiting = <<>>
  /\ status = [k \in Tasks |-> "new"]
  /\ process = "up"

Move(k, from, to) ==
  /\ process = "up" /\ UNCHANGED process
  /\ status[k] = from
  /\ status' = [status EXCEPT ![k] = to]

Accept(k) == Move(k, "new", "queued") /\ waiting' = Append(waiting, k)

TakeUp ==
  /\ waiting # <<>>
  /\ Move(Head(waiting), "queued", "received")
  /\ waiting' = Tail(waiting)

Run(k) == Move(k, "received", "running") /\ UNCHANGED waiting

\* run ends, or panics.
End(k) == (\E how \in {"done", "panicked"} : Move(k, "running", how)) /\ UNCHANGED waiting

Exit == process = "up" /\ process' = "exited" /\ UNCHANGED <<waiting, status>>

Next == (\E k \in Tasks : Accept(k) \/ Run(k) \/ End(k)) \/ TakeUp \/ Exit

Spec == Init /\ [][Next]_vars
=============================================================================
