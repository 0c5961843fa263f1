------------------------------ MODULE Foreign ------------------------------
(***************************************************************************)
(* The to-many field of one entity held in memory: ForeignEntities         *)
(* (src/src/entity/foreign.rs), edited by add, remove and reset, one call  *)
(* at a time or by a document that an updater was read from                *)
(* (src/macros/src/entity/entity.rs), and written back by                  *)
(* ForeignEntitiesOperator::save_foreign (src/src/repository.rs).  Its two *)
(* writes have an await between them and can each fail.  Nothing marks the *)
(* field clean after a save, so the entity can be edited and saved again,  *)
(* after a success as after a failure.  Items are known by their ids:      *)
(* equality, hashing and storage (which ignores an insert that conflicts,  *)
(* foreign.rs l.179) go by id.                                             *)
(*                                                                         *)
(* The rows of the join table are external; anybody else may write them.   *)
(***************************************************************************)
CONSTANTS
  Ids,
  Documents    \* what add_xs and remove_xs name in the documents that come

ASSUME DocumentsAssumption == Documents \subseteq [add : SUBSET Ids, remove : SUBSET Ids]

VARIABLES
  fe,        \* the field
  rows,      \* ids linked to the entity in the database
  pc,        \* edit, or what save_foreign has done so far
  want,      \* ids the user's calls amount to, applied to the rows as loaded
  todo,      \* what is left of the document that is being applied
  asked,     \* ids the last document amounts to as a whole, or the calls since
  confused,  \* ids of which a call repeated what the changed field already said
  written,   \* ids that the deltas written so far name
  drift      \* ids whose row no longer is what the field's deltas refer to

vars == <<fe, rows, pc, want, todo, asked, confused, written, drift>>

\* ForeignEntities; Changed with an original, or ChangedBlind without one.  `orig`
\* holds the value of Unchanged and Reset and the original of Changed.
Tag == {"Unloaded", "Unchanged", "Reset", "Changed", "ChangedBlind"}
Loaded(f) == f.tag \notin {"Unloaded", "ChangedBlind"}
Delta(f) == f.tag \in {"Changed", "ChangedBlind"}

ForeignEntities ==
  {f \in [tag : Tag, orig : SUBSET Ids, add : SUBSET Ids, remove : SUBSET Ids] :
     /\ ~Loaded(f) => f.orig = {}
     /\ ~Delta(f) => f.add = {} /\ f.remove = {}}
Field(t, o) == [tag |-> t, orig |-> o, add |-> {}, remove |-> {}]

TypeOK ==
  /\ fe \in ForeignEntities
  /\ rows \subseteq Ids
  /\ pc \in {"edit", "cleared", "added", "saved"}
  /\ want \subseteq Ids
  /\ todo \in [add : SUBSET Ids, remove : SUBSET Ids]
  /\ asked \subseteq Ids
  /\ confused \subseteq Ids
  /\ written \subseteq Ids
  /\ drift \subseteq Ids

NoTodo == [add |-> {}, remove |-> {}]

\* An entity read with the field, read without it, or built by the program.
Init ==
  /\ rows \in SUBSET Ids
  /\ \/ fe = Field("Unchanged", rows) /\ want = rows
     \/ fe = Field("Unloaded", {}) /\ want = rows
     \/ \E c \in SUBSET Ids : fe = Field("Reset", c) /\ want = c
  /\ pc = "edit"
  /\ todo = NoTodo /\ asked = want
  /\ confused = {} /\ written = {} /\ drift = {}

-----------------------------------------------------------------------------
(* Reading.                                                                *)

\* current_value, where it does not panic.
current_value(f) ==
  IF f.tag = "Changed" THEN (f.orig \ f.remove) \cup f.add ELSE f.orig

-----------------------------------------------------------------------------
(* Editing.                                                                *)

\* The variant that a first change leads to.
Edited(t) ==
  IF t = "Unloaded" THEN "ChangedBlind" ELSE IF t = "Unchanged" THEN "Changed" ELSE t

\* ForeignEntities::add
Added(f, i) ==
  IF f.tag = "Reset" THEN [f EXCEPT !.orig = @ \cup {i}]
  ELSE IF f.tag = "Unchanged" /\ i \in f.orig THEN f
  ELSE IF i \in f.remove THEN [f EXCEPT !.remove = @ \ {i}]
  ELSE [f EXCEPT !.tag = Edited(@), !.add = @ \cup {i}]

\* Faulty variant: an item added before is removed from the rows only.
RemovedForgetful(f, i) ==
  IF f.tag = "Reset" THEN [f EXCEPT !.orig = @ \ {i}]
  ELSE IF f.tag = "Unchanged" /\ i \notin f.orig THEN f
  ELSE [f EXCEPT !.tag = Edited(@), !.remove = @ \cup {i}]

\* ForeignEntities::remove
Removed(f, i) ==
  IF f.tag = "Reset" THEN [f EXCEPT !.orig = @ \ {i}]
  ELSE IF f.tag = "Unchanged" /\ i \notin f.orig THEN f
  ELSE IF i \in f.add THEN [f EXCEPT !.add = @ \ {i}]
  ELSE [f EXCEPT !.tag = Edited(@), !.remove = @ \cup {i}]

\* An edit of a field that has been written makes its deltas refer to other rows
\* than the ones there.
Edit ==
  /\ pc \in {"edit", "saved"} /\ pc' = "edit"
  /\ drift' = drift \cup written /\ written' = {}
  /\ UNCHANGED rows

CallAdd(i) ==
  /\ Edit
  /\ fe' = Added(fe, i)
  /\ want' = want \cup {i}
  /\ confused' = IF i \in want /\ fe.tag \notin {"Unchanged", "Reset"}
                 THEN confused \cup {i} ELSE confused

CallRemove(i) ==
  /\ Edit
  /\ fe' = Removed(fe, i)
  /\ want' = want \ {i}
  /\ confused' = IF i \notin want /\ fe.tag \notin {"Unchanged", "Reset"}
                 THEN confused \cup {i} ELSE confused

\* The program's own calls; no document is half applied.
Call == todo = NoTodo /\ asked' = want' /\ UNCHANGED todo

Add(i) == CallAdd(i) /\ Call

Remove(i) == CallRemove(i) /\ Call

\* reset, and update_value with a value.
ResetTo(c) ==
  /\ Edit
  /\ fe' = Field("Reset", c)
  /\ want' = c /\ confused' = {}
  /\ Call

\* A document is applied to an entity.
Document(d) ==
  /\ todo = NoTodo /\ todo' = d
  /\ asked' = (want' \cup d.add) \ d.remove

Patch(d) ==
  /\ Edit /\ UNCHANGED <<fe, want, confused>>
  /\ Document(d)

\* It gives the field a value, too.
PatchReset(c, d) ==
  /\ Edit
  /\ fe' = Field("Reset", c)
  /\ want' = c /\ confused' = {}
  /\ Document(d)

\* Items are added in the order of their container.
PatchAdd(i) ==
  /\ i \in todo.add
  /\ CallAdd(i)
  /\ todo' = [todo EXCEPT !.add = @ \ {i}] /\ UNCHANGED asked

\* Faulty variant: items are removed first.
PatchRemoveEarly(i) ==
  /\ i \in todo.remove
  /\ CallRemove(i)
  /\ todo' = [todo EXCEPT !.remove = @ \ {i}] /\ UNCHANGED asked

\* Then items are removed, in the order of a hash set.
PatchRemove(i) ==
  /\ i \in todo.remove /\ todo.add = {}
  /\ CallRemove(i)
  /\ todo' = [todo EXCEPT !.remove = @ \ {i}] /\ UNCHANGED asked

-----------------------------------------------------------------------------
(* save_foreign.                                                           *)

Keep == todo = NoTodo /\ UNCHANGED <<fe, want, todo, asked, confused, drift>>

\* Nothing to write.
SaveNothing ==
  /\ pc = "edit" /\ fe.tag \in {"Unloaded", "Unchanged"}
  /\ pc' = "saved"
  /\ UNCHANGED <<rows, written>> /\ Keep

\* Faulty variant: a reset adds to what is there.
ClearForeignSkipped ==
  /\ pc = "edit" /\ fe.tag = "Reset"
  /\ pc' = "cleared" /\ UNCHANGED <<rows, written>> /\ Keep

ClearForeign ==
  /\ pc = "edit" /\ fe.tag = "Reset"
  /\ rows' = {} /\ pc' = "cleared"
  /\ UNCHANGED written /\ Keep

AddReset ==
  /\ pc = "cleared"
  /\ rows' = rows \cup fe.orig /\ pc' = "saved"
  /\ UNCHANGED written /\ Keep

\* Faulty variant: the second write of a change is forgotten.
AddForeignOnly ==
  /\ pc = "edit" /\ Delta(fe)
  /\ rows' = rows \cup fe.add /\ pc' = "saved"
  /\ written' = written \cup fe.add /\ Keep

AddForeign ==
  /\ pc = "edit" /\ Delta(fe)
  /\ rows' = rows \cup fe.add /\ pc' = "added"
  /\ written' = written \cup fe.add /\ Keep

RemoveForeign ==
  /\ pc = "added"
  /\ rows' = rows \ fe.remove /\ pc' = "saved"
  /\ written' = written \cup fe.remove /\ Keep

\* The second write fails: outside a transaction the first one stays, and the field
\* can be saved again as it is.
SaveErr ==
  /\ pc \in {"cleared", "added"} /\ pc' = "edit"
  /\ UNCHANGED <<rows, written>> /\ Keep

\* Somebody else links or unlinks an item, seen before a document or after it.
OtherWrite(i) ==
  /\ todo = NoTodo
  /\ rows' = IF i \in rows THEN rows \ {i} ELSE rows \cup {i}
  /\ drift' = drift \cup {i}
  /\ UNCHANGED <<fe, pc, want, todo, asked, confused, written>>

Next ==
  \/ \E i \in Ids : Add(i) \/ Remove(i) \/ OtherWrite(i)
  \/ \E c \in SUBSET Ids : ResetTo(c)
  \/ \E d \in Documents : Patch(d) \/ \E c \in SUBSET Ids : PatchReset(c, d)
  \/ \E i \in Ids : PatchAdd(i) \/ PatchRemove(i)
  \/ SaveNothing \/ ClearForeign \/ AddReset \/ AddForeign \/ RemoveForeign \/ SaveErr

Spec == Init /\ [][Next]_vars

-----------------------------------------------------------------------------
(* Properties.                                                             *)

\* No id is both to be added and to be removed, so that the order in which
\* save_foreign writes (add first, remove second) and current_value computes (remove
\* first, add second) does not matter.
AddRemoveDisjoint == fe.add \cap fe.remove = {}

\* current_value is what the calls and the documents amount to, for every id of which
\* no call repeated what a changed field already said; a document is the value it
\* gives, with add_xs, without remove_xs, in whatever order its items come.
CurrentAsIntended ==
  Loaded(fe) /\ todo = NoTodo =>
    \A i \in Ids \ confused : i \in current_value(fe) <=> i \in asked

\* A save, however often it failed half-way and was tried again, leaves the rows as
\* the calls and the documents intend, for an entity read with or without the field:
\* except for the ids that somebody else wrote, and those edited again after they had
\* been written.
SavedAsIntended ==
  pc = "saved" => \A i \in Ids \ (confused \cup drift) : i \in rows <=> i \in asked

\* A save leaves the rows as current_value shows them, confused ids included.
SavedAsShown ==
  pc = "saved" /\ Loaded(fe) =>
    \A i \in Ids \ drift : i \in rows <=> i \in current_value(fe)

\* "Returns the current foreign entities" (foreign.rs l.121).
CurrentIsCurrent == Loaded(fe) => current_value(fe) = want
=============================================================================
