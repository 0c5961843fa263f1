------------------------------ MODULE ConnPool ------------------------------
(***************************************************************************)
(* The PostgreSQL pool of the process (src/src/db/diesel/pg_pool.rs) and   *)
(* the requests that take connections from it through their adapters       *)
(* (fetch_or_reuse_conn! in src/src/db/diesel/mod.rs).                     *)
(*                                                                         *)
(* Callers of init race for the OnceLock, and each one that returns leaves *)
(* a check loop behind.  A request is wired with some adapters; each keeps *)
(* the connection it fetched first until the request ends.                 *)
(*                                                                         *)
(* deadpool is external: it has a place for each connection it may open,   *)
(* gives them out first come, first served, and calls a connection used    *)
(* when it gives it out.  Time goes by in checking intervals (30 seconds). *)
(***************************************************************************)
EXTENDS Naturals, Sequences, FiniteSets

CONSTANTS
  Callers,     \* tasks that call init
  None,
  Requests,
  Adapters,    \* how many adapters a request is wired with, at most
  Places       \* connections that the pool may open, max_conn of them

\* There may be any number of requests: nothing in the code relates it to max_conn.
ASSUME PlacesAssumption == IsFiniteSet(Places) /\ Adapters \in Nat \ {0}

ASSUME NamesAssumption == None \notin Callers /\ Requests \cap {"closed", "idle"} = {}

VARIABLES
  pool,        \* the OnceLock: the caller whose pool it keeps
  pc,          \* where each caller stands
  checked,     \* callers whose check loop has run in this interval
  conn,        \* who has the connection in each place
  used,        \* intervals since it was given out
  request,     \* what each request does
  queue        \* requests waiting for a connection

calls   == <<pool, pc, checked>>
conns   == <<conn, used>>
demand  == <<request, queue>>
vars    == <<calls, conns, demand>>

MaxAge == 2    \* intervals: 60 seconds
Loops == {i \in Callers : pc[i] = "done"}
Holds(r) == {s \in Places : conn[s] = r}

TypeOK ==
  /\ pool \in Callers \cup {None}
  /\ pc \in [Callers -> {"start", "build", "done"}]
  /\ checked \subseteq Loops
  /\ conn \in [Places -> {"closed", "idle"} \cup Requests]
  /\ used \in [Places -> 0..MaxAge]
  /\ request \in [Requests -> {"out", "run", "wait"}]
  /\ queue \in Seq(Requests)
  /\ \A r \in Requests : request[r] = "wait" <=> \E i \in DOMAIN queue : queue[i] = r

Init ==
  /\ pool = None /\ pc = [i \in Callers |-> "start"]
  /\ checked = {}
  /\ conn = [s \in Places |-> "closed"]
  /\ used = [s \in Places |-> 0]
  /\ request = [r \in Requests |-> "out"]
  /\ queue = <<>>

-----------------------------------------------------------------------------
(* init.                                                                   *)

\* Each return leaves a check loop running.
Return(i) == pc' = [pc EXCEPT ![i] = "done"]

\* The pool is there: init goes on to its loop.  Otherwise it builds one, whose
\* config may be refused, and asks it for a connection.
InitCustomPool(i) ==
  /\ pc[i] = "start"
  /\ IF pool # None THEN Return(i)
     ELSE pc' = [pc EXCEPT ![i] = "build"]
  /\ UNCHANGED <<pool, checked, conns, demand>>

\* No connection: the caller gets the error, and may call again.
ProbeErr(i) ==
  /\ pc[i] = "build"
  /\ pc' = [pc EXCEPT ![i] = "start"]
  /\ UNCHANGED <<pool, checked, conns, demand>>

\* Faulty variant: the pool that was built last is used.
PublishLast(i) ==
  /\ pc[i] = "build"
  /\ pool' = i /\ Return(i)
  /\ \E s \in Places : conn' = [t \in Places |-> IF t = s THEN "idle" ELSE "closed"]
  /\ used' = [s \in Places |-> 0]
  /\ UNCHANGED <<checked, demand>>

\* The first one fills the OnceLock, and its connection is idle from then on; the
\* pools of the others are closed.
Publish(i) ==
  /\ pc[i] = "build"
  /\ Return(i)
  /\ IF pool # None THEN UNCHANGED <<pool, conns>>
     ELSE /\ pool' = i
          /\ \E s \in Places :
               /\ conn' = [conn EXCEPT ![s] = "idle"]
               /\ UNCHANGED used
  /\ UNCHANGED <<checked, demand>>

-----------------------------------------------------------------------------
(* The check loops.                                                        *)

Forget(S) == used' = [s \in Places |-> IF s \in S THEN 0 ELSE used[s]]

\* Faulty variant: a connection that has not been used is kept.
RetainedTooLong(s) == TRUE

\* The predicate of retain, which looks at idle connections only.
Retained(s) == conn[s] = "idle" => used[s] < MaxAge

Check(i) ==
  /\ i \in Loops \ checked
  /\ checked' = checked \cup {i}
  /\ conn' = [s \in Places |-> IF Retained(s) THEN conn[s] ELSE "closed"]
  /\ Forget({s \in Places : ~Retained(s)})
  /\ UNCHANGED <<pool, pc, demand>>

\* An interval goes by, in which every loop runs once.
Tick ==
  /\ Loops # {} /\ checked = Loops
  /\ checked' = {}
  /\ used' = [s \in Places |->
                IF conn[s] # "closed" /\ used[s] < MaxAge THEN used[s] + 1 ELSE used[s]]
  /\ UNCHANGED <<pool, pc, conn, demand>>

-----------------------------------------------------------------------------
(* Requests.                                                               *)

\* pg_conn panics before the pool is there, so requests come after init.
Arrive(r) ==
  /\ Loops # {}
  /\ request[r] = "out"
  /\ request' = [request EXCEPT ![r] = "run"]
  /\ UNCHANGED <<calls, conns, queue>>

Wait(r) ==
  /\ request' = [request EXCEPT ![r] = "wait"]
  /\ queue' = Append(queue, r)
  /\ UNCHANGED <<calls, conns>>

\* Faulty variant: the connection that was fetched is not looked for.
FetchAnew(r) == request[r] = "run" /\ Wait(r)

\* An adapter is used that has no connection yet.
Fetch(r) ==
  /\ request[r] = "run" /\ Cardinality(Holds(r)) < Adapters
  /\ Wait(r)

\* The pool serves the first in the queue: with an idle connection, or a new one.
Grant ==
  /\ queue # <<>>
  /\ \E s \in Places :
       /\ conn[s] \in {"closed", "idle"}
       /\ conn[s] = "closed" => \A t \in Places : conn[t] # "idle"
       /\ conn' = [conn EXCEPT ![s] = Head(queue)]
       /\ used' = [used EXCEPT ![s] = 0]
  /\ request' = [request EXCEPT ![Head(queue)] = "run"]
  /\ queue' = Tail(queue)
  /\ UNCHANGED calls

\* No connection can be opened: the first in the queue gets the error, and keeps what
\* it has.
FetchErr ==
  /\ queue # <<>>
  /\ \E s \in Places : conn[s] = "closed"
  /\ \A s \in Places : conn[s] # "idle"
  /\ request' = [request EXCEPT ![Head(queue)] = "run"]
  /\ queue' = Tail(queue)
  /\ UNCHANGED <<calls, conns>>

\* Every value of the request is dropped, its connections with them; one that has a
\* transaction open, or is broken, is closed.
Drop(r) ==
  /\ \E back \in SUBSET Holds(r) :
       /\ conn' = [s \in Places |-> IF s \in back THEN "idle"
                                  ELSE IF s \in Holds(r) THEN "closed" ELSE conn[s]]
       /\ Forget(Holds(r) \ back)
  /\ request' = [request EXCEPT ![r] = "out"]
  /\ UNCHANGED calls

\* Faulty variant: a connection outlives its request.
FinishKeeping(r) ==
  /\ request[r] = "run"
  /\ request' = [request EXCEPT ![r] = "out"]
  /\ UNCHANGED <<calls, conns, queue>>

Finish(r) == request[r] = "run" /\ Drop(r) /\ UNCHANGED queue

\* A waiting request is cancelled.
GiveUp(r) ==
  /\ request[r] = "wait" /\ Drop(r)
  /\ \E i \in DOMAIN queue :
       /\ queue[i] = r
       /\ queue' = SubSeq(queue, 1, i - 1) \o SubSeq(queue, i + 1, Len(queue))

Next ==
  \/ \E i \in Callers : InitCustomPool(i) \/ ProbeErr(i) \/ Publish(i) \/ Check(i)
  \/ Tick \/ Grant \/ FetchErr
  \/ \E r \in Requests : Arrive(r) \/ Fetch(r) \/ Finish(r) \/ GiveUp(r)

Spec == Init /\ [][Next]_vars

\* The loops and the clock run, the pool serves who comes first, and a request that
\* does not wait ends.
FairSpec ==
  /\ Spec
  /\ WF_vars(Tick) /\ WF_vars(Grant)
  /\ \A i \in Callers : WF_vars(Check(i))
  /\ \A r \in Requests : WF_vars(Finish(r))

-----------------------------------------------------------------------------
(* Properties.                                                             *)

\* Everybody who could give a connection back waits for another one.
Stuck == \A s \in Places : conn[s] \in Requests /\ request[conn[s]] = "wait"
Holders == {conn[s] : s \in Places}

\* What it takes for requests to wait for one another in a circle: each holder keeps
\* the connections of all its adapters but one, so that there are requests enough with
\* several adapters to hold every place that way.  A request that was wired with one
\* adapter (see Wiring) is never part of it.
StuckByHolders ==
  Stuck => Cardinality(Places) <= Cardinality(Holders) * (Adapters - 1)

\* What one caller of init installed stays: connections in use are those of the pool
\* that everybody uses from then on.
OnePool == [][pool # None => pool' = pool]_vars

\* A request that waits for a connection gets one, or gives up, unless all places come
\* to be held by requests that wait: nothing but such a circle starves anybody.
EventuallyServed == \A r \in Requests : request[r] = "wait" ~> request[r] # "wait" \/ Stuck

\* A connection that nobody uses any more is closed.
EventuallyClosed == \A s \in Places : conn[s] = "idle" ~> conn[s] # "idle"
=============================================================================
