---------------------------- MODULE WiringProofs ----------------------------
(* What holds of Wiring for any number of fields and any instances.        *)
EXTENDS Wiring, TLAPS

\* Until the use case runs, each field has taken two identities at most, after the one of
\* an inserted adapter, and nothing is written.
Budget ==
  /\ phase = "insert" => parts = <<>>
  /\ phase \in {"insert", "build"} => made <= 2 * Len(parts) + 1 /\ wrote = {}
  /\ wrote \subseteq Repositories

\* The context remembers the manager that was built, and the adapter it was built on.
Remembered ==
  /\ \A p \in Managers : parts[p].is = ctx.manager
  /\ ctx.manager # None => ctx.adapter # None /\ ctx.adapter.slot = ctx.manager.slot

\* Once there is a manager, repositories get its adapter.
OnItsAdapter ==
  \A q \in Managers, p \in Repositories : q < p => parts[p].is.slot = parts[q].is.slot

\* An instance that a field took is not there for another one.
Taken ==
  phase # "insert" => \A p \in DOMAIN parts : parts[p].kind = "instance" => parts[p].is \notin ctx.insts

\* No two fields took the same instance.
InstanceOnce ==
  \A p, q \in DOMAIN parts :
    parts[p].kind = "instance" /\ parts[q].kind = "instance" /\ p # q
      => parts[p].is # parts[q].is

\* Before the commit, only writes outside the transaction are durable.
Outside == phase # "committed" => \A p \in durable : ~InTxn(p)

IInv == TypeOK /\ Budget /\ Remembered /\ OnItsAdapter /\ Taken /\ InstanceOnce /\ Outside

-----------------------------------------------------------------------------
(* One more field.                                                         *)

LEMMA BuiltIs ==
  ASSUME TypeOK, NEW kind, NEW x, Built(kind, x)
  PROVE  /\ DOMAIN parts = 1..Len(parts) /\ DOMAIN parts' = 1..(Len(parts) + 1)
         /\ Len(parts') = Len(parts) + 1 /\ Len(parts) \in Nat
         /\ \A p \in DOMAIN parts : parts'[p] = parts[p]
         /\ parts'[Len(parts) + 1] = [kind |-> kind, is |-> x]
BY DEF TypeOK, Built

LEMMA BuiltType ==
  ASSUME TypeOK, Len(parts) < MaxParts,
         NEW kind, NEW x, [kind |-> kind, is |-> x] \in Part, Built(kind, x)
  PROVE  parts' \in Seq(Part) /\ Len(parts') <= MaxParts /\ DOMAIN parts \subseteq DOMAIN parts'
BY MaxPartsAssumption DEF TypeOK, Built

-----------------------------------------------------------------------------
(* The invariant.                                                          *)

LEMMA Initially == Init => IInv
<1> SUFFICES ASSUME Init PROVE IInv
  OBVIOUS
<1> USE MaxPartsAssumption DEF Init
<1>1. TypeOK
  BY DEF TypeOK, None
<1>2. DOMAIN parts = {} /\ Len(parts) = 0
  OBVIOUS
<1> QED
  BY <1>1, <1>2 DEF IInv, Budget, Remembered, OnItsAdapter, Taken, InstanceOnce, Outside,
                    Managers, Repositories

LEMMA InsertSteps ==
  ASSUME IInv, (\E i \in Insts : Insert(i)) \/ InsertAdapter \/ StartBuild
  PROVE  IInv'
<1> USE MaxPartsAssumption DEF IInv, Idle, Insert, InsertAdapter, StartBuild
<1>1. phase = "insert" /\ parts = <<>> /\ parts' = parts /\ DOMAIN parts = {} /\ Len(parts) = 0
  BY DEF Budget
<1>2. Managers = {} /\ Managers' = {} /\ Repositories = {} /\ Repositories' = {}
  BY <1>1 DEF Managers, Repositories
<1>3. 1 \in Id /\ 1 \in Nat
  BY DEF Id
<1>4. TypeOK'
  BY <1>1, <1>3 DEF TypeOK, Adapter
<1>5. Budget'
  BY <1>1, <1>2 DEF Budget
<1>6. ctx.manager # None => ctx'.manager = ctx.manager /\ ctx'.adapter = ctx.adapter
  BY DEF Remembered, TypeOK
<1>7. ctx'.manager = ctx.manager
  BY DEF TypeOK
<1>8. Remembered' /\ OnItsAdapter'
  BY <1>2, <1>6, <1>7 DEF Remembered, OnItsAdapter
<1>9. Taken' /\ InstanceOnce' /\ Outside'
  BY <1>1 DEF Taken, InstanceOnce, Outside, Budget, TypeOK
<1> QED
  BY <1>4, <1>5, <1>8, <1>9

\* A repository gets the adapter of the context, which is the manager's if there is one.
LEMMA RepositoryStep == ASSUME IInv, BuildRepository PROVE IInv'
<1> USE MaxPartsAssumption DEF IInv, Idle, Building
<1> DEFINE a == IF ctx.adapter # None THEN ctx.adapter ELSE Fresh
<1>1. /\ Built("repository", a) /\ UNCHANGED <<ctx, phase, wrote, durable>>
      /\ phase = "build" /\ Len(parts) < MaxParts
      /\ made' = made \/ made' = made + 1
  BY DEF BuildRepository
<1>2. a \in Adapter
  <2>1. made + 1 \in Id
    BY <1>1 DEF TypeOK, Budget, Id
  <2> QED
    BY <2>1 DEF TypeOK, Fresh, Adapter
<1>3. [kind |-> "repository", is |-> a] \in Part
  BY <1>2 DEF Part
<1> HIDE DEF a
<1>4. /\ DOMAIN parts = 1..Len(parts) /\ DOMAIN parts' = 1..(Len(parts) + 1)
      /\ Len(parts') = Len(parts) + 1 /\ Len(parts) \in Nat
      /\ \A p \in DOMAIN parts : parts'[p] = parts[p]
      /\ parts'[Len(parts) + 1] = [kind |-> "repository", is |-> a]
  BY <1>1, BuiltIs
<1>5. Managers' = Managers /\ Repositories' = Repositories \cup {Len(parts) + 1}
  BY <1>4 DEF Managers, Repositories
<1>6. TypeOK'
  BY <1>1, <1>3, BuiltType DEF TypeOK
<1>7. Budget'
  BY <1>1, <1>4, <1>5 DEF Budget, TypeOK
<1>8. Remembered'
  BY <1>1, <1>4, <1>5 DEF Remembered, Managers
<1>9. OnItsAdapter'
  <2>1. \A q \in Managers : parts[q].is = ctx.manager /\ parts[q].is \in Manager
    BY DEF Managers, Remembered, TypeOK, Part
  <2>2. Managers # {} => a = ctx.adapter /\ ctx.adapter.slot = ctx.manager.slot
    BY <2>1 DEF Remembered, None, Manager, Id, a
  <2>3. \A q \in Managers : a.slot = parts[q].is.slot
    BY <2>1, <2>2
  <2>4. Managers \subseteq 1..Len(parts) /\ Repositories \subseteq 1..Len(parts)
    BY <1>4 DEF Managers, Repositories
  <2> QED
    BY <1>4, <1>5, <2>3, <2>4 DEF OnItsAdapter
<1>10. Taken' /\ InstanceOnce'
  BY <1>1, <1>4 DEF Taken, InstanceOnce
<1>11. Outside'
  BY <1>1 DEF Outside, Budget, TypeOK
<1> QED
  BY <1>6, <1>7, <1>8, <1>9, <1>10, <1>11

\* The first manager is put into the context with its adapter, the others are that one.
LEMMA ManagerStep == ASSUME IInv, BuildManager PROVE IInv'
<1> USE MaxPartsAssumption DEF IInv, Idle, Building
<1> DEFINE a == IF ctx.adapter # None THEN ctx.adapter ELSE Fresh
           new == [slot |-> a.slot, own |-> made + 2]
           m == IF ctx.manager # None THEN ctx.manager ELSE new
<1>1. /\ Built("manager", m) /\ UNCHANGED <<phase, wrote, durable>>
      /\ phase = "build" /\ Len(parts) < MaxParts
      /\ ctx.manager # None => ctx' = ctx /\ made' = made
      /\ ctx.manager = None => ctx' = [ctx EXCEPT !.adapter = a, !.manager = new] /\ made' = made + 2
  BY DEF BuildManager
<1>2. a \in Adapter
  <2>1. made + 1 \in Id
    BY <1>1 DEF TypeOK, Budget, Id
  <2> QED
    BY <2>1 DEF TypeOK, Fresh, Adapter
<1>3. made + 2 \in Id /\ a.slot \in Id
  BY <1>1, <1>2 DEF TypeOK, Budget, Adapter, Id
<1>4. m \in Manager
  BY <1>3 DEF TypeOK, Manager
<1>5. [kind |-> "manager", is |-> m] \in Part
  BY <1>4 DEF Part
<1>6. /\ ctx' \in [adapter : Adapter \cup {None}, manager : Manager \cup {None}, insts : SUBSET Insts]
      /\ ctx'.manager = m /\ ctx'.insts = ctx.insts
      /\ ctx'.adapter # None /\ ctx'.adapter.slot = m.slot
  <2>1. CASE ctx.manager # None
    BY <1>1, <2>1 DEF TypeOK, Remembered
  <2>2. CASE ctx.manager = None
    <3>1. new \in Manager /\ a # None
      BY <1>2, <1>4, <2>2 DEF Adapter, None, Id
    <3> HIDE DEF a
    <3> QED
      BY <1>1, <1>2, <2>2, <3>1 DEF TypeOK
  <2> QED
    BY <2>1, <2>2
<1> HIDE DEF m, new, a
<1>7. /\ DOMAIN parts = 1..Len(parts) /\ DOMAIN parts' = 1..(Len(parts) + 1)
      /\ Len(parts') = Len(parts) + 1 /\ Len(parts) \in Nat
      /\ \A p \in DOMAIN parts : parts'[p] = parts[p]
      /\ parts'[Len(parts) + 1] = [kind |-> "manager", is |-> m]
  BY <1>1, BuiltIs
<1>8. Managers' = Managers \cup {Len(parts) + 1} /\ Repositories' = Repositories
  BY <1>7 DEF Managers, Repositories
<1>9. TypeOK'
  BY <1>1, <1>5, <1>6, BuiltType DEF TypeOK
<1>10. Budget'
  BY <1>1, <1>7, <1>8 DEF Budget, TypeOK
<1>11. \A q \in Managers : parts[q].is = m
  <2>1. \A q \in Managers : parts[q].is = ctx.manager /\ parts[q].is \in Manager
    BY DEF Managers, Remembered, TypeOK, Part
  <2> QED
    BY <2>1 DEF None, Manager, Id, m
<1>12. Remembered'
  BY <1>6, <1>7, <1>8, <1>11 DEF Remembered, Managers
<1>13. OnItsAdapter'
  BY <1>7, <1>8 DEF OnItsAdapter, Managers, Repositories
<1>14. Taken' /\ InstanceOnce'
  BY <1>1, <1>6, <1>7 DEF Taken, InstanceOnce
<1>15. Outside'
  BY <1>1 DEF Outside, Budget, TypeOK
<1> QED
  BY <1>9, <1>10, <1>12, <1>13, <1>14, <1>15

LEMMA TakeStep == ASSUME IInv, NEW i \in Insts, TakeInstance(i) PROVE IInv'
<1> USE MaxPartsAssumption DEF IInv, Idle, Building, TakeInstance
<1>1. [kind |-> "instance", is |-> i] \in Part
  BY DEF Part
<1>2. /\ DOMAIN parts = 1..Len(parts) /\ DOMAIN parts' = 1..(Len(parts) + 1)
      /\ Len(parts') = Len(parts) + 1 /\ Len(parts) \in Nat
      /\ \A p \in DOMAIN parts : parts'[p] = parts[p]
      /\ parts'[Len(parts) + 1] = [kind |-> "instance", is |-> i]
  BY BuiltIs
<1>3. Managers' = Managers /\ Repositories' = Repositories
  BY <1>2 DEF Managers, Repositories
<1>4. /\ ctx'.manager = ctx.manager /\ ctx'.adapter = ctx.adapter
      /\ ctx'.insts = ctx.insts \ {i}
  BY DEF TypeOK
<1>5. TypeOK'
  BY <1>1, BuiltType DEF TypeOK
<1>6. Budget'
  BY <1>2, <1>3 DEF Budget, TypeOK
<1>7. Remembered' /\ OnItsAdapter'
  BY <1>2, <1>3, <1>4 DEF Remembered, OnItsAdapter, Managers, Repositories
<1>8. Taken' /\ InstanceOnce'
  BY <1>2, <1>4 DEF Taken, InstanceOnce
<1>9. Outside'
  BY DEF Outside, Budget, TypeOK
<1> QED
  BY <1>5, <1>6, <1>7, <1>8, <1>9

LEMMA MissStep == ASSUME IInv, NEW i \in Insts, MissInstance(i) PROVE IInv'
<1> USE MaxPartsAssumption DEF IInv, Idle, Building, MissInstance
<1>1. DOMAIN parts' = {} /\ wrote = {} /\ durable = {} /\ Len(parts') = 0
  BY DEF Budget, TypeOK
<1>2. Managers' = {} /\ Repositories' = {}
  BY <1>1 DEF Managers, Repositories
<1>3. TypeOK'
  BY <1>1 DEF TypeOK
<1> QED
  BY <1>1, <1>2, <1>3 DEF Budget, Remembered, OnItsAdapter, Taken, InstanceOnce, Outside

LEMMA RunSteps ==
  ASSUME IInv, Run \/ Finish \/ \E p \in 1..MaxParts : Write(p)
  PROVE  IInv'
<1> USE DEF IInv, Idle, Run, Finish, Write
<1>1. UNCHANGED <<ctx, parts, made>>
  OBVIOUS
<1>2. Managers' = Managers /\ Repositories' = Repositories /\ \A p : InTxn(p)' <=> InTxn(p)
  BY <1>1 DEF Managers, Repositories, InTxn
<1>3. /\ phase \in {"build", "run"} /\ phase' \in {"run", "committed", "rolledback"}
      /\ wrote' \subseteq Repositories /\ durable' \subseteq wrote'
  BY DEF Budget, TypeOK
<1>4. TypeOK'
  BY <1>1, <1>3 DEF TypeOK, Repositories
<1>5. Budget' /\ Remembered' /\ OnItsAdapter' /\ Taken' /\ InstanceOnce'
  BY <1>1, <1>2, <1>3 DEF Budget, Remembered, OnItsAdapter, Taken, InstanceOnce
<1>6. Outside'
  BY <1>2 DEF Outside
<1> QED
  BY <1>4, <1>5, <1>6

LEMMA NextStep == IInv /\ [Next]_vars => IInv'
<1> SUFFICES ASSUME IInv, [Next]_vars PROVE IInv'
  OBVIOUS
<1>1. CASE UNCHANGED vars
  BY <1>1 DEF vars, IInv, TypeOK, Budget, Remembered, OnItsAdapter, Taken, InstanceOnce, Outside,
              Managers, Repositories, InTxn
<1> QED
  BY <1>1, InsertSteps, RepositoryStep, ManagerStep, TakeStep, MissStep, RunSteps DEF Next

LEMMA Inductive == Spec => []IInv
BY Initially, NextStep, PTL DEF Spec

-----------------------------------------------------------------------------
(* Theorems.                                                               *)

\* The variables of Wiring keep their types: a build of MaxParts fields makes at most
\* twice as many adapters and managers, and the one that was inserted.
THEOREM TypeCorrect == Spec => []TypeOK
BY Inductive, PTL DEF IInv

\* However many fields ask TxnManagerDiesel::build for a manager, they get the one of
\* the context, and what was inserted into the context is handed to one field at most.
THEOREM OnlyManagersShared == Spec => []SharedAreManagers
<1>1. IInv => SharedAreManagers
  <2> SUFFICES ASSUME IInv, NEW p \in DOMAIN parts \ Repositories,
                      NEW q \in DOMAIN parts \ Repositories,
                      parts[p].kind = parts[q].kind, p # q
               PROVE  parts[p].is = parts[q].is <=> parts[p].kind = "manager"
    BY DEF SharedAreManagers
  <2>1. CASE parts[p].kind = "manager"
    <3>1. p \in Managers /\ q \in Managers
      BY <2>1 DEF Managers
    <3> QED
      BY <2>1, <3>1 DEF IInv, Remembered
  <2>2. CASE parts[p].kind = "instance"
    BY <2>2 DEF IInv, InstanceOnce
  <2>3. parts[p] \in Part
    BY DEF IInv, TypeOK
  <2>4. parts[p].kind \in {"manager", "instance"}
    BY <2>3 DEF Part, Repositories
  <2> QED
    BY <2>1, <2>2, <2>4
<1> QED
  BY <1>1, Inductive, PTL

\* After a rollback, what outlives it was written by a repository that was built before
\* the manager.
THEOREM StraysAreEarly == Spec => []StrayOnlyBeforeManager
<1>1. IInv => StrayOnlyBeforeManager
  <2> SUFFICES ASSUME IInv, phase = "rolledback", NEW p \in durable, NEW q \in Managers
               PROVE  p < q
    BY DEF StrayOnlyBeforeManager
  <2>1. p \in Repositories /\ ~InTxn(p)
    BY DEF IInv, TypeOK, Budget, Outside
  <2>2. parts[p].is.slot # parts[q].is.slot
    BY <2>1 DEF InTxn
  <2>3. ~(q < p) /\ p # q
    BY <2>1, <2>2 DEF IInv, OnItsAdapter, Managers, Repositories
  <2>4. p \in Nat /\ q \in Nat
    BY <2>1 DEF IInv, TypeOK, Managers, Repositories
  <2> QED
    BY <2>3, <2>4
<1> QED
  BY <1>1, Inductive, PTL
=============================================================================
