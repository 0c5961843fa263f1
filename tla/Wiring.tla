------------------------------- MODULE Wiring -------------------------------
(***************************************************************************)
(* How a use case is put together and what its transaction then covers:    *)
(* ProviderContext and build_single (src/src/provider.rs), the fields that *)
(* derive(Provider) builds in order (macros/src/provider.rs), and the      *)
(* Provider impls of DbAdapterDiesel and TxnManagerDiesel                  *)
(* (src/src/db/diesel/mod.rs).                                             *)
(*                                                                         *)
(* Nested structs build their fields depth first, so a build is one        *)
(* sequence of parts.  A repository is a part that holds an adapter.  An   *)
(* adapter is known by the connection slot its clones share, a manager by  *)
(* the state and callbacks its clones share.  What runs afterwards is one  *)
(* do_transaction in which every repository may write.                     *)
(***************************************************************************)
EXTENDS Naturals, Sequences

CONSTANTS
  Insts,       \* types of the values inserted for #[provider(instance)] fields
  MaxParts     \* bound: fields of the use case

ASSUME MaxPartsAssumption == MaxParts \in Nat

VARIABLES
  ctx,         \* ProviderContext: the adapter, the manager and the instances in it
  parts,       \* the fields built so far
  made,        \* adapters and managers made so far; the next one's identity
  phase,       \* insert, build, failed, run, committed, rolledback
  wrote,       \* repositories that wrote
  durable      \* repositories whose write outlives a rollback

vars == <<ctx, parts, made, phase, wrote, durable>>

Id == 1..(2 * MaxParts + 1)
None == [slot |-> 0, own |-> 0]
Adapter == [slot : Id, own : {0}]       \* its connection slot
Manager == [slot : Id, own : Id]        \* its adapter's slot, and its own identity
Part ==
  [kind : {"repository"}, is : Adapter] \cup [kind : {"manager"}, is : Manager]
  \cup [kind : {"instance"}, is : Insts]

TypeOK ==
  /\ ctx \in [adapter : Adapter \cup {None}, manager : Manager \cup {None},
              insts : SUBSET Insts]
  /\ parts \in Seq(Part) /\ Len(parts) <= MaxParts
  /\ made \in Nat
  /\ phase \in {"insert", "build", "failed", "run", "committed", "rolledback"}
  /\ wrote \subseteq DOMAIN parts
  /\ durable \subseteq wrote

Init ==
  /\ ctx = [adapter |-> None, manager |-> None, insts |-> {}]
  /\ parts = <<>> /\ made = 0 /\ phase = "insert"
  /\ wrote = {} /\ durable = {}

-----------------------------------------------------------------------------
(* provide_with: the caller fills the context, then the fields are built.  *)

Idle == UNCHANGED <<wrote, durable>>

Insert(i) ==
  /\ phase = "insert"
  /\ ctx' = [ctx EXCEPT !.insts = @ \cup {i}]
  /\ UNCHANGED <<parts, made, phase>> /\ Idle

\* An adapter made by the caller, which the context then hands to everybody.
InsertAdapter ==
  /\ phase = "insert" /\ ctx.adapter = None
  /\ ctx' = [ctx EXCEPT !.adapter = [slot |-> 1, own |-> 0]]
  /\ made' = 1
  /\ UNCHANGED <<parts, phase>> /\ Idle

StartBuild ==
  /\ phase = "insert" /\ phase' = "build"
  /\ UNCHANGED <<ctx, parts, made>> /\ Idle

Building == phase = "build" /\ Len(parts) < MaxParts
Built(kind, x) == parts' = Append(parts, [kind |-> kind, is |-> x])
Fresh == [slot |-> made + 1, own |-> 0]

\* DbAdapterDiesel::build: the one in the context, or a new one, not put there.
BuildRepository ==
  /\ Building
  /\ IF ctx.adapter # None
     THEN Built("repository", ctx.adapter) /\ UNCHANGED made
     ELSE Built("repository", Fresh) /\ made' = made + 1
  /\ UNCHANGED <<ctx, phase>> /\ Idle

\* Faulty variant: the manager's adapter is built without being kept.
BuildManagerApart ==
  /\ Building
  /\ IF ctx.manager # None
     THEN Built("manager", ctx.manager) /\ UNCHANGED <<ctx, made>>
     ELSE LET m == [slot |-> made + 1, own |-> made + 2] IN
          /\ Built("manager", m) /\ made' = made + 2
          /\ ctx' = [ctx EXCEPT !.manager = m]
  /\ UNCHANGED phase /\ Idle

\* Faulty variant: the manager is not looked up.
BuildManagerAnew ==
  /\ Building
  /\ LET a == IF ctx.adapter # None THEN ctx.adapter ELSE Fresh
         m == [slot |-> a.slot, own |-> made + 2]
     IN  /\ Built("manager", m) /\ made' = made + 2
         /\ ctx' = [ctx EXCEPT !.adapter = a, !.manager = m]
  /\ UNCHANGED phase /\ Idle

\* TxnManagerDiesel::build: the one in the context, or a new one on the adapter that
\* build_single finds or puts there.
BuildManager ==
  /\ Building
  /\ IF ctx.manager # None
     THEN Built("manager", ctx.manager) /\ UNCHANGED <<ctx, made>>
     ELSE LET a == IF ctx.adapter # None THEN ctx.adapter ELSE Fresh
              m == [slot |-> a.slot, own |-> made + 2]
          IN  /\ Built("manager", m) /\ made' = made + 2
              /\ ctx' = [ctx EXCEPT !.adapter = a, !.manager = m]
  /\ UNCHANGED phase /\ Idle

\* Faulty variant: an instance is looked at, not taken.
TakeInstanceShared(i) ==
  /\ Building /\ i \in ctx.insts
  /\ Built("instance", i)
  /\ UNCHANGED <<ctx, made, phase>> /\ Idle

\* An instance field takes its value out of the context.
TakeInstance(i) ==
  /\ Building /\ i \in ctx.insts
  /\ ctx' = [ctx EXCEPT !.insts = @ \ {i}]
  /\ Built("instance", i)
  /\ UNCHANGED <<made, phase>> /\ Idle

\* It is not there: the whole build fails, and what was built is dropped.
MissInstance(i) ==
  /\ Building /\ i \notin ctx.insts
  /\ phase' = "failed" /\ parts' = <<>>
  /\ UNCHANGED <<ctx, made>> /\ Idle

-----------------------------------------------------------------------------
(* The use case runs in a transaction of the manager it was built with.    *)

Managers == {p \in DOMAIN parts : parts[p].kind = "manager"}
Repositories == {p \in DOMAIN parts : parts[p].kind = "repository"}
InTxn(p) == \E q \in Managers : parts[q].is.slot = parts[p].is.slot

Run ==
  /\ phase = "build" /\ Managers # {} /\ phase' = "run"
  /\ UNCHANGED <<ctx, parts, made>> /\ Idle

\* A repository writes on its adapter's connection: in the transaction if that is
\* the manager's, and on its own at once if it is not.
Write(p) ==
  /\ phase = "run" /\ p \in Repositories \ wrote
  /\ wrote' = wrote \cup {p}
  /\ durable' = IF InTxn(p) THEN durable ELSE durable \cup {p}
  /\ UNCHANGED <<ctx, parts, made, phase>>

Finish ==
  /\ phase = "run"
  /\ \/ phase' = "committed" /\ durable' = wrote
     \/ phase' = "rolledback" /\ UNCHANGED durable
  /\ UNCHANGED <<ctx, parts, made, wrote>>

Next ==
  \/ \E i \in Insts : Insert(i) \/ TakeInstance(i) \/ MissInstance(i)
  \/ InsertAdapter \/ StartBuild \/ BuildRepository \/ BuildManager
  \/ Run \/ Finish
  \/ \E p \in 1..MaxParts : Write(p)

Spec == Init /\ [][Next]_vars

-----------------------------------------------------------------------------
(* Properties.                                                             *)

\* However many fields ask for the transaction manager, they get clones of one; an
\* inserted value goes to one field only.
SharedAreManagers ==
  \A p, q \in DOMAIN parts \ Repositories :
    parts[p].kind = parts[q].kind /\ p # q =>
      (parts[p].is = parts[q].is <=> parts[p].kind = "manager")

\* A rollback undoes the writes of every repository built after the manager: of all
\* of them in the order of TxnUseCase::build, which builds the manager first.  Only a
\* repository built before it, in a context without an adapter, escapes.
StrayOnlyBeforeManager ==
  phase = "rolledback" => \A p \in durable, q \in Managers : p < q
=============================================================================
