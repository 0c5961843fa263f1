# Verification of bagua

TLA+ models of bagua, a Rust library for layered business applications: use
cases that run in database transactions, entities whose fields remember what
changed, providers that wire both together, and a runner for background tasks.
Each module translates code of this repository (`src/`, `macros/`); TLC checks
the modules on small instances and TLAPS proves the results listed below for
every value of the constants. `PROJECT.json` maps every definition to the lines
it models.

## The system

| component | code | state | operations | what is hard |
|---|---|---|---|---|
| transaction manager | `src/db/diesel/mod.rs`, `src/db/mod.rs` | `TxnState`, list of callbacks, both shared by all clones | `do_transaction`, `register_callback`, `state`, drop | every await may fail or be the last one; nesting; callbacks told on return or on the drop of the last clone |
| database adapter | `src/db/diesel/mod.rs` | one connection, fetched at first use, shared by the clones | begin, commit, rollback, statements | the connection counts nested transactions, may be aborted or lost; who shares it depends on the wiring |
| use cases | `src/usecase.rs` | none | `execute`, `execute_in_txn`, `TxnUseCase` | a use case inside a use case nests transactions |
| providers | `src/provider.rs`, `macros/src/provider.rs` | a map from types to values | `get`, `insert`, `remove`, `build`, `build_single` | the order of the fields decides what is shared |
| foreign entities | `src/entity/foreign.rs`, `src/repository.rs` | one to-many field: variant, original, additions, removals | `add`, `remove`, `reset`, readers, `save_foreign` | calls cancel each other; a save has two writes and leaves the field as it was |
| background tasks | `src/async_task.rs` | a static `OnceLock`, a channel, an executor thread | `get_or_init`, `spawn`, the executor's loop | threads race; losers leave an executor behind |
| connection pool | `src/db/diesel/pg_pool.rs` | a static `OnceLock` with a bounded pool | `init`, `get_conn`, the check loop | initialisation race, waiting while holding |
| fields and entities | `src/entity/*.rs`, `macros/src/entity/*.rs`, `macros/src/has_changed.rs` | per field: unloaded, unchanged or set | `set`, `to_mut`, `update_fields`, `changed`, subsets, models | what is written back is what was changed, not what was read |
| repositories | `src/repository.rs` | none; the rows are PostgreSQL's | `find`, `save`, `update`, `delete`, `check_save_effect!` and its like | one call is several statements, of which a later one finds that it must not go on |
| HTTP layer | `src/http.rs`, `macros/src/err_enum.rs` | none between requests | extractors, `http_api!`, error codes | one payload, several readers; codes and statuses |
| value types | `src/entity/field.rs`, `src/db/primitives.rs`, `src/db/diesel/int_enum.rs`, `new_type.rs` | a column's bytes | conversions to and from a column | a value that does not fit, or that the other version of the program wrote |
| init, configuration | the rest | none | macros | little |

A request is one task on one thread. `http_api!` provides a `TxnUseCase`, whose
provider builds the transaction manager first and then the use case; repositories
of the use case hold clones of the manager's adapter, and the transaction covers
what they write through its connection. Callbacks registered in a transaction
are called when it is over. Background tasks run on a thread of their own, and
entities are plain values that one request edits and repositories write back.

## Modules

### Txn

One request's manager and adapter. The clones of a manager share `state` and
`pending` (its callbacks), so the module keeps one of each; `handles` counts the
clones outside callbacks. A clone made later is counted from the start, so that
`handles` only goes down. `level` and `phase` are the nested `do_transaction`
calls and where the innermost of them stands: before the answer of BEGIN, in the
body, before the answer of COMMIT or ROLLBACK. Each exit of `do_transaction` is
an action of its own, and the ones that leave by `?` go through `LeaveEarly`,
which touches neither `state` nor the callbacks. `Cancel` drops the request's
future at an await. `DropHandle` is `Drop`, with the count it looks at, and the
callbacks of `Owning` hold a clone themselves.

The connection is external: `conn` and `depth` follow what diesel's transaction
manager does (BEGIN or a savepoint, and so on), `db` is what became of the work
of each outermost call. A lost connection rolls back; a COMMIT whose answer is
lost was executed or not; a failed statement aborts the transaction, and a COMMIT
then rolls back and reports success.

The rest is history that the properties read. `dirty` names the transactions whose
body went on over a failure, `lost` those whose call was abandoned by an error or by
cancellation, `base` the depth of the connection at which an outermost call began,
and `nested` the transactions in which a nested call set the manager's state. The
properties speak of all of these. Of a dirty transaction, and of one that began
inside another's savepoint, `OkIsDurable` and `VerdictTruth` say that Ok and
`Committed` are then never true of it, so that the exceptions are exact. A callback
of an abandoned call may hear `Committed` only because a later transaction was
answered Ok or a nested call had overwritten the state; it hears `RolledBack`
whatever the lost answer of the COMMIT was. `StateMatchesLast` says what `state()`
is at any moment, in nested calls too. What `VerdictTruth` leaves out are
the callbacks that a nested call calls with its own verdict (`inner`): no comment
says what they should hear. What is not modelled: a future dropped inside a body that goes on
(a timeout around a nested use case), and callbacks that panic.

### TxnContract

What a transaction promises its caller and its callbacks, without a connection: one
fate, which is decided at the latest when the caller is answered; an answer that is
true of it; one call for each callback, which the fate does not contradict. A commit
whose answer was lost is `unanswered`, and may only be told as an error.
`Txn!Contract` maps `db` and `lost`, `ret` and `told` to the three variables.

### Foreign

One `ForeignEntities` field as a record, edited by `Add`, `Remove` and `ResetTo`
and written by the two steps of `save_foreign`, each of which may fail. `want` is
the set that the calls amount to. A document that an updater was read from is
applied as the generated code does it: `Patch` or `PatchReset` takes it, `PatchAdd`
goes through the items it adds, and `PatchRemove` through those it removes, each in
any order, which a `HashSet` leaves open; `todo` is what is left of it. No other step of the entity, and no other
session, is in the midst of a document, since the code has no await there.
`asked` is what the document amounts to as a whole, which the steps must arrive
at. The exceptions are named by sets of ids:
`confused` (a call that repeats what a changed field already said), `drift`
(another session wrote the row, or the field was edited after its deltas had been
written). `MCForeign` adds the symmetry of the ids and the documents.

### Parts, WholeStore

An entity that a repository stores in several parts (its own row, its parent's,
its children's), each with a statement of its own. `check_save_effect!`,
`check_update_effect!` and `check_delete_effect!` return the effect of a part that
is not Ok as a success of the whole call, so that the transaction goes on and what
becomes of the parts before is decided by the use case: `RollbackBiz` is
`ensure_biz!`, `CommitOk` is a use case that ignores the effect. Several requests
are at work, and other repositories delete single parts (`DeletePart`). Locks and
what a unique violation does to a transaction are PostgreSQL's, and external.

`WholeStore` is the same entity written at one moment: a request changes all it
means to, nothing, or, if it ignores that a part is missing, some of it.
`ImplementsWhole` maps `rows` to its `store`.

### Columns, MCColumns

A column and the conversions of one field, one kind at a time: `convert_int!`
panics for a number that does not fit, an enum and a new type refuse what they do
not know, a `JsonProxy` refuses what does not parse. Two versions of the program
use it, of which each knows values that the other does not, and so does a program
of somebody else. A text is one number, and the bytes that PostgreSQL puts before
the text of a `Jsonb` value are one more. A write panics for no other value than one
that the column's type does not have (`RefusedForReason`).

### Wiring

The fields of a use case, built in any order by the generated `build`, and then
one transaction in which every repository writes. An adapter is its connection
slot: a repository is in the transaction if it has the manager's slot.

### TaskRunner

`get_or_init_with` in several threads, the channel and the executor of each, and
the tasks. `Held` says whether a channel has a sender, which is what keeps its
executor running. Tasks in `Joining` await the others; a running task may spawn
tasks; a task may panic; the process may exit.

### WorkQueue

What a runner promises to whoever spawns tasks: one queue, without threads, channels
or a race. Every task is accepted, taken up once and in the order of the spawns, and
runs to its end or panics. `TaskRunner!Queue` maps the channel of the runner in the
`OnceLock` to `waiting`, and an empty queue as long as there is none; so a second
channel that a task could get into, or the loss of the winner's, is no `WorkQueue`.

### ConnPool

The callers of `init` that race for the `OnceLock`, the check loop that each of
them leaves behind, and requests whose adapters fetch their connections one after
the other (`fetch_or_reuse_conn!`) and keep them to the end. A request waits in
the pool's queue, gets the connection of a place or an error, or is cancelled.
Nothing relates the number of requests and of their adapters to that of the places,
so that requests may come to hold all of them and wait for one another (`Stuck`).
Time is counted in the intervals of the check loops; `used` is what deadpool calls
the time since the last use. The pool is external.

### Entity, MCEntity

Entities from load to write-back, in the hands of several sessions. A field is
`Unloaded`, `Unchanged` or `Set`; `ToEntity` is what a subset makes of a row,
`BuildEntity` what a model becomes, `Patch` what an updater read from a document of
changes does, `Changed` and `HasChanged` what the derived `changed` finds. The
macros give an entity and its group code of their own, and so does the module,
over the same field map: `GroupBuilt`, `GroupFull`, `GroupUpdated`. Documents that
the updater cannot be read from are refused before they reach an entity and are
not steps. The repository's statements are the application's, as the tests and the
documentation write them, and atomic; the table and its unique columns are
external.

`held` and `assigned` are history: what a session read or assigned last, and which
fields it assigned. `UpdateExact` names what the code does and one may not
expect: Copy fields are written back as they were read, over another session's
write; a second update writes the assigned values again, since nothing resets a
field; an update without a change is Ok even if the row is gone. `MCEntity` adds
the symmetry of sessions, rows and values.

### Http, MCHttp

The handler of one `http_api!`, from a client's request to the answer. `api` is
what the application wrote: the bounds, which the macro nests into composes, and
whether the use case has `no_transaction!`. `Extract` takes the bounds one after
the other, `payload` is what the nested `payload.take()` hand on. `Convert` to
`Commit` are `HttpAdapter::run` with the `TxnUseCase` in it; of `do_transaction`
there is what a caller may rely on, which `Txn` checks. `RespondTo` is
`respond_to`, which sets the status of the response after its body was serialised.
Codes and statuses are computed as `#[BizErrorEnum]` does, with its 16 bits. The
bases are any numbers, since the macro compares none of them; `CodeTells` names the
codes that two enums, or an enum and the system errors, have in common.
`Abandon` stands for a client that hangs up and for a panic. `MCHttp` has
handlers without bounds, with the body last, with the body first, and with two
bodies; a handler that asks for the body twice builds and refuses everything,
which `RunsWholeRequests` and `RefusedForReason` name.

## Checks

| run | bounds | what it shows |
|---|---|---|
| `txn` | two callbacks, one of which holds a clone; two outermost calls, two levels, two clones | what callers and callbacks are told is what happened: Ok is durable, an error is undone |
| `txn_standard` | one call, one level, two callbacks, one of which holds a clone, errors propagate; fair | the contract of TxnContract; unless a callback keeps the manager for itself, everybody is told and the connection is released |
| `foreign` | three ids, documents that name one or two | edits, documents and saves end as intended |
| `foreign_current` | two ids | a doc comment does not hold |
| `parts` | two requests at a time, three parts | a write is whole or not at all, and its answer is true; the repository implements WholeStore |
| `columns` | numbers of three bits, two versions | no conversion makes one value of another, refuses one without a reason, or panics but for an overflow |
| `columns_jsonb` | the same, of a `Jsonb` column | a written value is refused as corrupted |
| `wiring` | four fields, two instance types | one manager; a rollback reaches every repository built after it |
| `task_runner` | two threads, three tasks, one waiting for the others; fair | the runner implements WorkQueue: one runner, no refused spawn, tasks taken up once and in order; no leaked executor, every task ends |
| `pool` | two callers, three requests of two adapters, two places; fair | one pool; a circle of waiting requests needs holders enough, and without one everybody is served; idle connections are closed |
| `entity` | two sessions, two rows, two values; a business id without updates, an optional Copy field in a group | an entity holds what it was given; a write that is Ok writes that and nothing else |
| `http` | two requests, four handlers, two enums whose codes overlap each other's and the 1 of a system error, two statements; fair | what a client may conclude from an answer; only whole requests run; everybody is answered |

Why these bounds are enough. In `txn`, two transactions are needed for a stale
callback or savepoint to meet a later transaction, two levels for a nested
verdict, two callbacks for one that is registered by another one. A third level
would leave savepoints without limit and adds no new kind of step; the proofs
cover every depth. In `foreign` no operation relates two ids except through the
variant of the field, so three are one edited id, one that makes the field
changed, and a bystander; documents of two names contain one that adds and removes
the same id, and one whose first name decides the variant in which the second
arrives. In `parts` a third part is one that is neither the first nor the last,
and a request that is over makes room for another, so that two are any two that
overlap; a third could only wait where the second waits. In `columns` each
version knows a value that the other does not, and the integers have both signs
and both bounds. In `wiring` four fields allow a repository before, one
between and one after two managers. In `task_runner` a race has one winner, and
what a loser does does not depend on other losers. In `pool` two
requests of two adapters can hold both places and wait for each other for ever, while
a third one waits behind them; the run reaches this, and also the behaviours in which
requests with one connection each finish in time. In `entity`
the two fields have every attribute between them; a third session could only
repeat the writes of the second, and a second row is what unique columns need. In
`http` requests share nothing; two are needed to compare answers, and two
statements for work that is half done.

Runs whose systems stop (a request that is over, a build that failed, a process
that exited) do not check for deadlock.

### Fairness

`Txn!FairSpec`: the database answers or the connection fails (`Answered`); a body
completes, strongly fair because a lost connection or a statement's error can
change what it is doing meanwhile; the values of a request are dropped when it
ends (`DropHandle`, `ReleaseConn`). Rust guarantees the last, the others are what
one has to assume of a database and of application code. No step of the
application is assumed to happen otherwise: a transaction need not be called.

`TaskRunner!FairSpec`: a thread inside `get_or_init_with` goes on, and an executor
polls its loop and the tasks that are ready; a body ends once the tasks it waits
for have ended. Spawning, dropping a runner and exiting are not fair.

`ConnPool!FairSpec`: the check loops and the clock run, the pool answers the first
in its queue while it has a free place, and a request that does not wait ends.

`Http!FairSpec`: the server polls a request that can go on, use cases complete, and
the database answers or fails. Clients need not send anything, and a use case
need not write.

## Findings

* `foreign_current`: on a changed field, `remove` of an id that is not linked
  followed by `add` of it leaves it out (`foreign.rs` l. 206), although
  `current_value` should return the current entities (l. 121).
* `columns_jsonb`: `from_sql` of a `JsonProxy` hands the bytes of a `Jsonb` column
  to serde_json (`db/primitives.rs` l. 82), which begin with the number of the
  format that `to_sql` wrote; what was written is refused as a "corrupted db json
  value" (l. 83). `Json` columns are not concerned.

Three more comments do not say what the code does, and no run is needed to see it:

* `origin_value_ref` returns what `reset` set, not the original entities
  (`entity/foreign.rs` l. 97 and 107).
* An adapter is not always a singleton, as `db/diesel/mod.rs` l. 52 says: two
  repositories that are built before a manager have one each. A rollback does not
  reach them (`StrayOnlyBeforeManager`), and a request with two adapters can be part of
  the circle that `pool` describes.
* The check loop does not delete connections older than a minute, as `pg_pool.rs` l. 46
  says: it goes by the time since the last use (l. 52), so that a connection in steady
  use is kept for ever.

## Proofs

`TxnProofs` proves for every set of callbacks and every bound: the types, that Ok
means committed, with its two exceptions and there never (`OkIsDurable`), that an error means undone (`ErrIsUndone`, on which
`Http` and `Parts` rely), that callbacks are told the truth
(`VerdictTruth`) and once (`ToldOnce`), that a call which was not abandoned has
called its callbacks on return (`DeliveredBeforeReturn`), that the last clone
leaves nobody out (`LeftOnlyByCycle`), that the manager's state is at any moment
what the last transaction left there (`StateMatchesLast`), and that work becomes
durable only at the outermost commit of its own transaction (`CommitOnlyCurrent`).
The assumptions are those of `Txn` on its constants.

Most of them are not inductive. `IInv` adds six facts. `SessionInv` relates the
connection to the calls: which transaction can be open, that the connection is at
least as deep as the calls in progress unless it is broken, and that a clean
outermost call which began at depth 0 is at depth 1 when it commits. `Soiled` is the
other half, for the calls that are not clean: a dirty transaction has a savepoint too
many on its connection, or the connection refuses statements until the end, so that
its commit makes nothing durable. `HeardInv`
relates the callbacks to the calls: a callback that waits has heard nothing, one
registered in a transaction that is over has heard its verdict or waits in one
that was abandoned. `StateInv` relates the state to the newest transaction that has
begun: its outcome, once it was answered, and before that and after it was abandoned
`Begun`, or what a nested call left. `Listed` says that a callback which waits was
registered in a transaction that began, and that no nested call of a later one has come by,
which would have called it; with `StateInv` it tells what the callbacks of an
abandoned call can hear. `Accounted`
says that whoever is committed was answered Ok or abandoned, which `ErrIsUndone` needs
for a step of a later transaction. Each has one lemma for all actions;
`VerdictTruth` is then a step from `HeardInv`, `StateInv`, `Listed`, `Accounted` and
`OkIsDurable`.

The refinement of `TxnContract` (`KeepsContract`) is proved for any callbacks and
clones under `Standard`: one outermost call, no nested ones, and a body that stops at
a failed statement. These are the conditions under which the code keeps the contract.
A nested `do_transaction` calls the callbacks of the transaction around it with its
own verdict, a body that goes on over a failed statement is answered Ok for a COMMIT
that rolls back, and a manager that begins a second transaction may have callbacks of
an abandoned first one. `SingleInv` is what the refinement needs above `IInv`: the
transaction starts at depth 0 of the connection, the manager's state and the caller's
answer agree (`state = "Committed"` exactly if the answer is Ok), whoever got a system
error is at a transaction that is not open, and callbacks were told what the state
says now. `SingleStep` proves it inductive; `ContractNext` then maps every step to an
`Advance` or a stutter.

`ForeignProofs` proves the types and the four properties of the run for every set
of ids and every set of documents, from `DocumentsAssumption`; its invariant states
per id what the field's variant says about it, between the two writes of a save
which rows are already as intended, and in the midst of a document that what is
left of it leads from `want` to `asked`.

`PartsProofs` proves the types, the four properties of the run and the refinement
of `WholeStore` for any number of requests and parts, from `PartsAssumption`.
`EntityWhole` and the locks depend on each other: `Progress` says that a request
wrote exactly what it had to up to where it stands, `Locked` that nobody else
touched those rows, so that they are as the request found them and the missing
part of a cut write cannot come back before the request ends. From that follows
that a cut write has nothing to write while the entity is whole, and with it that
the entity stays whole.

`EntityProofs` proves the types and the three properties of the run for all
sessions, rows, fields, attributes and subsets, from `FieldsAssumption`. `Marked`
strengthens `HoldsWhatItWasGiven`: a field is `Set` exactly if its session
assigned it. With it `UpdateExact` and `SaveExact` follow from one step. The module
also proves both properties of `Columns`, where the fields are stored, for every
width of integers and any versions that know any values, from `ColumnsAssumption`;
`RefusedForReason`, with what it says of panics, for columns that are not `Jsonb`,
since it does not hold of those (`columns_jsonb`). `ColumnInv` says what the bytes of a column can be (`Bytes`), and
the lemma `Reads` what a version makes of them: a value of its type or none, and
never another one than was written.

`HttpProofs` proves the types and the four safety properties of the run for all
requests, lists of bounds and enums, from `ApisAssumption` and `EnumsAssumption`,
of which the latter says nothing of the bases but that they are numbers.
The lemma `Codes` derives that the variants of an enum have different codes, all
in the range of the enum and none of them 0: two answers with one code that did
not end alike are then of two ranges that overlap. The invariant
has two parts per request: `Read` says what the bounds extracted so far have in
common with the request and with the payload, `Worked` what is durable at each
stage and how each end is answered.

`WiringProofs` proves the types and both properties of the run for any number
of fields, from `MaxPartsAssumption`: the context remembers the one manager and
the adapter it was built on (`Remembered`), so that every repository built after a
manager shares its slot (`OnItsAdapter`), and what is durable before the end was
written outside the transaction (`Outside`).

`TaskRunnerProofs` proves the types, that no spawn is refused, that all threads share
one runner (`OneRunner`), and the refinement of `WorkQueue`, for any number of
threads and tasks: `Kept` is the point, the executor of
whoever is about to publish, and of the runner in the `OnceLock`, receives, because a
sender is held. The refinement needs `Queued` as well: a channel that lost the race is
empty, and in the winner's each task is once and was never received. Then a spawn is
an `Accept`, whatever runner it goes through, a `Receive` is the `TakeUp` of the one
queue, and the race itself is a stutter. Two more theorems are the part of the
liveness properties that needs no fairness: a spawned task that was not taken up is
in that channel (`NoTaskLost`, a step from the refinement), and a losing executor has
no sender and nothing to receive (`LosersIdle`), so that `LosersEnd` only needs it to
be polled.

`ConnPoolProofs` proves the types, `OnePool` and `StuckByHolders`, from
`PlacesAssumption`, that there are finitely many places, and `NamesAssumption`. The
invariant is that a request that waits has an adapter without a connection. If all
places are held by waiting requests, numbering the places of each of them from 1 to
`Adapters - 1` puts them into that many pairs of a holder and a number, which bounds
their number: the pigeonhole principle (`Circle`). So whether requests can wait for
one another is a matter of the wiring and of `max_conn`, for any number of requests;
and if all of them have one adapter they never do, however small the pool is
(`OneAdapterNeverStuck`). `OpenIsChecked` adds that an
open connection is in a pool that a loop checks, which `EventuallyClosed` needs before
any fairness.

The type invariants are proved and not checked by a run; `Columns` and the abstract
modules `TxnContract`, `WholeStore` and `WorkQueue` have none.

Only model-checked: liveness (`EventuallyTold`, `EventuallyReleased`, `LosersEnd`,
`EventuallyOver`, `EventuallyServed`, `EventuallyClosed`, `EventuallyAnswered`) and
ENABLED, which are out of the prover's reach. Every other property of a passing run
is a theorem.

## Plan

1. `TxnContract` for each of several outermost calls of one manager, with what an
   abandoned call does to the next one as part of the contract.
2. `Parts` on the transactions of `Txn` instead of its own account of commit and
   rollback, so that what a nested `do_transaction` does to a cut write is seen.

## Not modelled

* Init functions: `#[init_functions]` puts a function into a slice; who runs them,
  and in which order, is not in this repository but in a test's or an
  application's code.
* Configuration accessors, which keep no state, and the id generator, which is the
  external crate flaken.
* Documents that name an item twice in `add_xs`, which a `Vec` may: the two calls
  are those of `Add`, which the module has outside documents.
* Groups in groups: `field_group.rs` l. 488 names a type `FlattenStruct` that
  `flatten.rs` does not define, so that they do not compile; and the subset of a group that is not whole
  cannot be reached by an entity's attribute.
* What the parts of an HTTP request contain (`headers` keeps the last value of a
  repeated header), the routing macros, and the conversions between types of
  actix-web and http.
* The `Deserialize` that an updater is read with: what it refuses changes nothing. A
  document without a group's key is refused as a whole (`entity.rs` l. 742).
