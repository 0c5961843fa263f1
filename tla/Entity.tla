------------------------------- MODULE Entity -------------------------------
(***************************************************************************)
(* Entities as #[Entity] and #[FieldGroup] generate them                   *)
(* (src/macros/src/entity/) over Field (src/src/entity/field.rs): built    *)
(* from a model, read through a subset, changed field by field or by an    *)
(* updater, and written by a repository that inserts what filled gives and *)
(* updates what changed gives.  Nothing marks the fields clean after a     *)
(* write.  Several requests have the same entity in hand.                  *)
(*                                                                         *)
(* The fields of the one group are among the fields; an entity's group is  *)
(* always used as a whole.  To-many fields are in Foreign.  The table and  *)
(* the statements are the application's; each is atomic.                   *)
(***************************************************************************)
EXTENDS FiniteSets

CONSTANTS
  Sessions,
  Ids,
  Fields,
  Group,       \* fields of the group
  BizIds,      \* fields that are a business id: columns without duplicates
  NoUpdate,    \* fields marked no_update
  CopyFields,  \* fields whose changes are taken as values (MarkCopy)
  Optional,    \* fields of type Option
  Subsets,     \* the fields that each subset of the application names
  Values,
  Null,        \* None of a field of type Option
  Absent       \* no value at all

ASSUME FieldsAssumption ==
  /\ Group \subseteq Fields /\ BizIds \subseteq Fields /\ NoUpdate \subseteq Fields
  /\ CopyFields \subseteq Fields /\ Optional \subseteq Fields
  /\ \A S \in Subsets : S \subseteq Fields /\ (S \cap Group \in {{}, Group})
  /\ Null \notin Values /\ Absent \notin Values \cup {Null}

VARIABLES
  rows,        \* the table
  entity,      \* what each session has in hand
  last,        \* if this step was a write: whose, which one, and its effect
  held,        \* history: what each session read or assigned last, per field
  assigned     \* history: the fields that each session assigned

history == <<held, assigned>>
vars == <<rows, entity, last, history>>

Type(f) == IF f \in Optional THEN Values \cup {Null} ELSE Values
Row == {r \in [Fields -> Values \cup {Null}] : \A f \in Fields : r[f] \in Type(f)}

\* Field<T>; held and assigned use Absent for a value that is not known.
Unloaded == [tag |-> "Unloaded", val |-> Absent]
Unchanged(v) == [tag |-> "Unchanged", val |-> v]
Set(v) == [tag |-> "Set", val |-> v]
Field(f) == {Unloaded} \cup [tag : {"Unchanged", "Set"}, val : Type(f)]
AnyField == {Unloaded} \cup [tag : {"Unchanged", "Set"}, val : Values \cup {Null}]

NoEntity == [id |-> Absent]
Blank == [f \in Fields |-> Absent]   \* no row; nothing known
Entities == {e \in [id : Ids, fields : [Fields -> AnyField]] :
               \A f \in Fields : e.fields[f] \in Field(f)}

Effects == {"Ok", "Conflict", "NotFound"}

TypeOK ==
  /\ rows \in [Ids -> Row \cup {Blank}]
  /\ entity \in [Sessions -> Entities \cup {NoEntity}]
  /\ last \in {<<>>} \cup (Sessions \X {"save", "update", "delete"} \X Effects)
  /\ held \in [Sessions -> [Fields -> Values \cup {Null, Absent}]]
  /\ assigned \in [Sessions -> SUBSET Fields]

Init ==
  /\ rows \in [Ids -> Row \cup {Blank}]
  /\ entity = [s \in Sessions |-> NoEntity]
  /\ last = <<>>
  /\ held = [s \in Sessions |-> Blank]
  /\ assigned = [s \in Sessions |-> {}]

-----------------------------------------------------------------------------
(* Fields.                                                                 *)

IsLoaded(x) == x.tag # "Unloaded"

\* Faulty variant: a field that was read counts as changed.
ChangedEager(f, x) == x.val

\* What the changed of a FiledValue finds; a Copy field gives any value it has.
Changed(f, x) ==
  IF f \in CopyFields \/ x.tag = "Set" THEN x.val ELSE Absent

\* has_changed of a struct of options; without a change there is no statement.
HasChanged(e) == \E f \in Fields : Changed(f, e.fields[f]) # Absent

-----------------------------------------------------------------------------
(* Entities come from a model or from a subset.                            *)

Give(s, i, fields) == entity' = [entity EXCEPT ![s] = [id |-> i, fields |-> fields]]

\* A group is built from its own model, read through its own full subset or not at
\* all, and changed by its own updater.
GroupBuilt(model) == [f \in Group |-> Set(model[f])]
GroupFull(row) == [f \in Group |-> Unchanged(row[f])]
GroupUnloaded == [f \in Group |-> Unloaded]

\* Everything is new: the id, from a generator that does not repeat itself, and the
\* values.
BuildEntity(s, i, model) ==
  /\ entity[s] = NoEntity
  /\ rows[i] = Blank /\ \A t \in Sessions : entity[t].id # i
  /\ Give(s, i, [f \in Fields |-> IF f \in Group THEN GroupBuilt(model)[f] ELSE Set(model[f])])
  /\ held' = [held EXCEPT ![s] = model]
  /\ assigned' = [assigned EXCEPT ![s] = Fields]
  /\ last' = <<>> /\ UNCHANGED rows

\* The subsets of the application, Mini and Full.
AllSubsets == Subsets \cup {{}, Fields}

\* Subset::to_entity: what it names is unchanged, the rest is not loaded.
ToEntity(S, row) ==
  [f \in Fields |->
     IF f \in Group THEN IF f \in S THEN GroupFull(row)[f] ELSE GroupUnloaded[f]
     ELSE IF f \in S THEN Unchanged(row[f]) ELSE Unloaded]

Find(s, i, S) ==
  /\ entity[s] = NoEntity
  /\ rows[i] # Blank
  /\ Give(s, i, ToEntity(S, rows[i]))
  /\ held' = [held EXCEPT ![s] = [f \in Fields |-> IF f \in S THEN rows[i][f] ELSE Absent]]
  /\ assigned' = [assigned EXCEPT ![s] = {}]
  /\ last' = <<>> /\ UNCHANGED rows

\* The session drops the entity, or panics.
Drop(s) ==
  /\ entity' = [entity EXCEPT ![s] = NoEntity]
  /\ held' = [held EXCEPT ![s] = Blank]
  /\ assigned' = [assigned EXCEPT ![s] = {}]
  /\ last' = <<>> /\ UNCHANGED rows

-----------------------------------------------------------------------------
(* Changing an entity.                                                     *)

Change(s, f, x) == Give(s, entity[s].id, [entity[s].fields EXCEPT ![f] = x])

Assign(s, f, v) ==
  /\ held' = [held EXCEPT ![s] = [@ EXCEPT ![f] = v]]
  /\ assigned' = [assigned EXCEPT ![s] = @ \cup {f}]
  /\ last' = <<>> /\ UNCHANGED rows

\* Field::set
SetField(s, f, v) ==
  /\ entity[s] # NoEntity
  /\ Change(s, f, Set(v)) /\ Assign(s, f, v)

\* Field::to_mut, through which the value is replaced; it panics on an unloaded field.
ToMut(s, f, v) ==
  /\ entity[s] # NoEntity
  /\ IF IsLoaded(entity[s].fields[f]) THEN Change(s, f, Set(v)) /\ Assign(s, f, v)
     ELSE Drop(s)

\* Field::to_set: an unchanged value is to be written.
ToSet(s, f) ==
  /\ entity[s] # NoEntity /\ IsLoaded(entity[s].fields[f])
  /\ Change(s, f, Set(entity[s].fields[f].val))
  /\ Assign(s, f, held[s][f])

\* Dereferencing: a panic on an unloaded field.
Deref(s, f) ==
  /\ entity[s] # NoEntity /\ ~IsLoaded(entity[s].fields[f])
  /\ Drop(s)

\* Fields of the updater.
Updatable == Fields \ NoUpdate

\* A document of changes that the updater can be read from: null stands only for
\* an option.  Keys the updater does not have are passed over.
Documents ==
  {d \in [Fields -> Values \cup {Null, Absent}] :
     \A f \in Updatable : d[f] # Absent => d[f] \in Type(f)}

\* Faulty variant: null is taken for a key that is not there.
ParseSingle(d) == [f \in Updatable |-> IF d[f] = Null THEN Absent ELSE d[f]]

\* de_double_option: a key that is there is a change, even if its value is null.
Parse(d) == [f \in Updatable |-> d[f]]

\* update_fields of the group.
GroupUpdated(fields, d) ==
  [f \in Group |-> IF f \in Updatable /\ Parse(d)[f] # Absent THEN Set(Parse(d)[f]) ELSE fields[f]]

\* update_fields of the entity.
UpdateFields(fields, d) ==
  [f \in Fields |->
     IF f \in Group THEN GroupUpdated(fields, d)[f]
     ELSE IF f \in Updatable /\ Parse(d)[f] # Absent THEN Set(Parse(d)[f]) ELSE fields[f]]

Patch(s, d) ==
  LET named == {f \in Updatable : d[f] # Absent} IN
  /\ entity[s] # NoEntity
  /\ Give(s, entity[s].id, UpdateFields(entity[s].fields, d))
  /\ held' = [held EXCEPT ![s] = [f \in Fields |-> IF f \in named THEN d[f] ELSE @[f]]]
  /\ assigned' = [assigned EXCEPT ![s] = @ \cup named]
  /\ last' = <<>> /\ UNCHANGED rows

-----------------------------------------------------------------------------
(* The repository.                                                         *)

Answer(s, op, effect) == last' = <<s, op, effect>> /\ UNCHANGED <<entity, history>>

\* A row that the unique columns do not allow beside the others.
Taken(i, row) ==
  \E j \in Ids \ {i} : \E f \in BizIds :
    rows[j] # Blank /\ rows[j][f] = row[f] /\ row[f] # Null

\* Faulty variant: what is not loaded is inserted all the same.
SaveUnfilled(s) ==
  LET e == entity[s]  row == [f \in Fields |-> e.fields[f].val] IN
  /\ e # NoEntity
  /\ IF rows[e.id] # Blank \/ Taken(e.id, row)
     THEN Answer(s, "save", "Conflict") /\ UNCHANGED rows
     ELSE Answer(s, "save", "Ok") /\ rows' = [rows EXCEPT ![e.id] = row]

\* save inserts the values that filled gives, and panics if there is none.
Save(s) ==
  LET e == entity[s]  row == [f \in Fields |-> e.fields[f].val] IN
  /\ e # NoEntity
  /\ IF \E f \in Fields : ~IsLoaded(e.fields[f]) THEN Drop(s)
     ELSE IF rows[e.id] # Blank \/ Taken(e.id, row)
     THEN Answer(s, "save", "Conflict") /\ UNCHANGED rows
     ELSE Answer(s, "save", "Ok") /\ rows' = [rows EXCEPT ![e.id] = row]

Update(s) ==
  LET e == entity[s]
      row == [f \in Fields |-> IF Changed(f, e.fields[f]) # Absent
                               THEN Changed(f, e.fields[f]) ELSE rows[e.id][f]] IN
  /\ e # NoEntity
  /\ IF ~HasChanged(e) THEN Answer(s, "update", "Ok") /\ UNCHANGED rows
     ELSE IF rows[e.id] = Blank THEN Answer(s, "update", "NotFound") /\ UNCHANGED rows
     ELSE IF Taken(e.id, row) THEN Answer(s, "update", "Conflict") /\ UNCHANGED rows
     ELSE Answer(s, "update", "Ok") /\ rows' = [rows EXCEPT ![e.id] = row]

Delete(s, i) ==
  /\ rows' = [rows EXCEPT ![i] = Blank]
  /\ Answer(s, "delete", IF rows[i] = Blank THEN "NotFound" ELSE "Ok")

Next == \E s \in Sessions :
  \/ \E i \in Ids, model \in Row : BuildEntity(s, i, model)
  \/ \E i \in Ids, S \in AllSubsets : Find(s, i, S)
  \/ \E f \in Fields : Deref(s, f) \/ ToSet(s, f)
  \/ \E f \in Fields : \E v \in Type(f) : SetField(s, f, v) \/ ToMut(s, f, v)
  \/ \E d \in Documents : Patch(s, d)
  \/ Save(s) \/ Update(s)
  \/ \E i \in Ids : Delete(s, i)
  \/ entity[s] # NoEntity /\ Drop(s)

Spec == Init /\ [][Next]_vars

-----------------------------------------------------------------------------
(* Properties.                                                             *)

\* An entity has the values that its session read or assigned last, and no others:
\* what panics is what the subset left out and nobody assigned, and null in a document
\* is an assignment.
HoldsWhatItWasGiven ==
  \A s \in Sessions : entity[s] # NoEntity =>
    \A f \in Fields : entity[s].fields[f].val = held[s][f]

\* An update that is Ok writes what its session assigned, in this write or before an
\* earlier one, and the Copy fields it knows as it knows them; every other column
\* keeps what others wrote, and there is a row if there was anything to write.
UpdateExact ==
  [][\A s \in Sessions : last' = <<s, "update", "Ok">> =>
       LET i == entity[s].id
           named == assigned[s] \cup {f \in CopyFields : held[s][f] # Absent} IN
       /\ named # {} => rows[i] # Blank
       /\ rows' = [rows EXCEPT ![i] =
                     [f \in Fields |-> IF f \in named THEN held[s][f] ELSE @[f]]]]_vars

\* A save that is Ok inserts a whole row where there was none.
SaveExact ==
  [][\A s \in Sessions : last' = <<s, "save", "Ok">> =>
       LET i == entity[s].id IN
       /\ rows[i] = Blank /\ rows'[i] \in Row
       /\ rows' = [rows EXCEPT ![i] = held[s]]]_vars
=============================================================================
