--------------------------- MODULE ForeignProofs ---------------------------
(* What holds of Foreign for any set of ids.  Everything is said of one id *)
(* at a time: no call and no write relates two of them.                    *)
EXTENDS Foreign, TLAPS

\* What save_foreign has done fits the field it saves.
Shape ==
  /\ pc = "cleared" => fe.tag = "Reset"
  /\ pc = "added" => Delta(fe)
  /\ pc # "edit" => todo = NoTodo

\* What is left of the document leads from the calls so far to the document as a whole.
AskedInv == asked = (want \cup todo.add) \ todo.remove

\* An id of a field that was reset: the rows follow the value.
ResetInv(i) ==
  fe.tag = "Reset" =>
    /\ i \in want <=> i \in fe.orig
    /\ i \notin confused
    /\ i \notin drift =>
         /\ pc = "cleared" => i \notin rows
         /\ pc = "saved" => (i \in rows <=> i \in fe.orig)

\* An id of a field that was read: what is not written yet is as it was read.
ReadInv(i) ==
  /\ fe.tag = "Unchanged" => (i \in want <=> i \in fe.orig)
  /\ fe.tag \in {"Unchanged", "Unloaded"} => i \notin confused
  /\ fe.tag \in {"Unchanged", "Changed"} /\ i \notin drift \cup written
       => (i \in rows <=> i \in fe.orig)

\* The deltas of a changed field, where no call repeated what it said.
DeltaInv(i) ==
  /\ ~(i \in fe.add /\ i \in fe.remove)
  /\ i \in written => i \in fe.add \/ i \in fe.remove
  /\ i \notin confused /\ fe.tag # "Reset" =>
       /\ i \in fe.add => i \in want
       /\ i \in fe.remove => i \notin want
       /\ fe.tag = "Changed" =>
            /\ i \in fe.add => i \notin fe.orig
            /\ i \in fe.remove => i \in fe.orig
            /\ i \notin fe.add /\ i \notin fe.remove => (i \in fe.orig <=> i \in want)

\* The rows of the ids that only this field wrote.
RowsInv(i) ==
  i \notin drift =>
    /\ pc \in {"added", "saved"} /\ i \in fe.add => i \in rows
    /\ pc = "saved" /\ i \in fe.remove => i \notin rows
    /\ i \notin confused /\ fe.tag # "Reset" =>
         /\ i \in fe.add => i \notin rows \/ i \in written
         /\ i \in fe.remove => i \in rows \/ i \in written
         /\ i \notin fe.add /\ i \notin fe.remove => (i \in rows <=> i \in want)

IdInv(i) == ResetInv(i) /\ ReadInv(i) /\ DeltaInv(i) /\ RowsInv(i)

IInv == TypeOK /\ Shape /\ AskedInv /\ \A i \in Ids : IdInv(i)

LEMMA Initially == Init => IInv
BY DEF Init, IInv, TypeOK, Shape, AskedInv, NoTodo, IdInv, ResetInv, ReadInv, DeltaInv, RowsInv, Field,
   ForeignEntities, Tag, Delta, Loaded

\* What the two edits do to each component of the field.
LEMMA EditedFields ==
  ASSUME NEW f \in ForeignEntities, NEW i \in Ids
  PROVE  /\ Added(f, i) \in ForeignEntities /\ Removed(f, i) \in ForeignEntities
         /\ IF f.tag = "Reset" THEN
              /\ Added(f, i).tag = f.tag /\ Removed(f, i).tag = f.tag
              /\ Added(f, i).orig = f.orig \cup {i} /\ Removed(f, i).orig = f.orig \ {i}
              /\ Added(f, i).add = f.add /\ Removed(f, i).add = f.add
              /\ Added(f, i).remove = f.remove /\ Removed(f, i).remove = f.remove
            ELSE
              /\ Added(f, i).orig = f.orig /\ Removed(f, i).orig = f.orig
              /\ IF f.tag = "Unchanged" /\ i \in f.orig THEN Added(f, i) = f
                 ELSE IF i \in f.remove THEN
                   /\ Added(f, i).tag = f.tag /\ Added(f, i).add = f.add
                   /\ Added(f, i).remove = f.remove \ {i}
                 ELSE
                   /\ Added(f, i).tag = Edited(f.tag) /\ Added(f, i).add = f.add \cup {i}
                   /\ Added(f, i).remove = f.remove
              /\ IF f.tag = "Unchanged" /\ i \notin f.orig THEN Removed(f, i) = f
                 ELSE IF i \in f.add THEN
                   /\ Removed(f, i).tag = f.tag /\ Removed(f, i).add = f.add \ {i}
                   /\ Removed(f, i).remove = f.remove
                 ELSE
                   /\ Removed(f, i).tag = Edited(f.tag) /\ Removed(f, i).add = f.add
                   /\ Removed(f, i).remove = f.remove \cup {i}
BY DEF Added, Removed, Edited, ForeignEntities, Tag, Loaded, Delta

\* The steps that edit the field.
LEMMA EditSteps ==
  ASSUME [Next]_vars
  PROVE  \/ \E i \in Ids : CallAdd(i) \/ CallRemove(i)
         \/ \E c \in SUBSET Ids : Edit /\ fe' = Field("Reset", c) /\ want' = c /\ confused' = {}
         \/ Edit /\ UNCHANGED <<fe, want, confused>>
         \/ SaveNothing \/ ClearForeign \/ AddReset \/ AddForeign \/ RemoveForeign \/ SaveErr
         \/ \E i \in Ids : OtherWrite(i)
         \/ UNCHANGED vars
BY DEF Next, Add, Remove, ResetTo, Patch, PatchReset, PatchAdd, PatchRemove

LEMMA TypeStep == TypeOK /\ Shape /\ [Next]_vars => fe' \in ForeignEntities /\ Shape'
<1> SUFFICES ASSUME TypeOK, Shape, [Next]_vars PROVE fe' \in ForeignEntities /\ Shape'
  OBVIOUS
<1> USE DEF TypeOK, Shape, Delta, Loaded
<1>1. ASSUME NEW j \in Ids, CallAdd(j) \/ CallRemove(j) PROVE fe' \in ForeignEntities /\ Shape'
  BY <1>1, EditedFields DEF CallAdd, CallRemove, Edit, Edited, ForeignEntities, Tag
<1>2. ASSUME NEW c \in SUBSET Ids, Edit, fe' = Field("Reset", c)
      PROVE  fe' \in ForeignEntities /\ Shape'
  BY <1>2 DEF Edit, Field, ForeignEntities, Tag
<1>3. CASE Edit /\ UNCHANGED <<fe, want, confused>>
  BY <1>3 DEF Edit
<1>4. CASE SaveNothing \/ ClearForeign \/ AddReset \/ AddForeign \/ RemoveForeign \/ SaveErr
  BY <1>4 DEF SaveNothing, ClearForeign, AddReset, AddForeign, RemoveForeign, SaveErr, Keep,
     ForeignEntities
<1>5. ASSUME NEW j \in Ids, OtherWrite(j) PROVE fe' \in ForeignEntities /\ Shape'
  BY <1>5 DEF OtherWrite
<1>6. CASE UNCHANGED vars
  BY <1>6 DEF vars
<1> QED
  BY <1>1, <1>2, <1>3, <1>4, <1>5, <1>6, EditSteps

\* Sets of ids.
Ghosts ==
  /\ rows \subseteq Ids /\ pc \in {"edit", "cleared", "added", "saved"}
  /\ want \subseteq Ids /\ confused \subseteq Ids
  /\ written \subseteq Ids /\ drift \subseteq Ids
  /\ todo \in [add : SUBSET Ids, remove : SUBSET Ids]
  /\ asked \subseteq Ids

LEMMA GhostStep == TypeOK /\ AskedInv /\ [Next]_vars => Ghosts' /\ AskedInv'
<1> SUFFICES ASSUME TypeOK, AskedInv, [Next]_vars PROVE Ghosts' /\ AskedInv'
  OBVIOUS
<1> USE DEF TypeOK, Ghosts, AskedInv, NoTodo
<1>1. ASSUME NEW j \in Ids, Add(j) \/ Remove(j) PROVE Ghosts' /\ AskedInv'
  BY <1>1 DEF Add, Remove, CallAdd, CallRemove, Call, Edit
<1>2. ASSUME NEW c \in SUBSET Ids, ResetTo(c) PROVE Ghosts' /\ AskedInv'
  BY <1>2 DEF ResetTo, Call, Edit
<1>3. ASSUME NEW d \in Documents, NEW c \in SUBSET Ids, Patch(d) \/ PatchReset(c, d)
      PROVE  Ghosts' /\ AskedInv'
  BY <1>3, DocumentsAssumption DEF Patch, PatchReset, Document, Edit
<1>4. ASSUME NEW j \in Ids, PatchAdd(j) PROVE Ghosts' /\ AskedInv'
  BY <1>4 DEF PatchAdd, CallAdd, Edit
<1>5. ASSUME NEW j \in Ids, PatchRemove(j) PROVE Ghosts' /\ AskedInv'
  BY <1>5 DEF PatchRemove, CallRemove, Edit
<1>6. CASE SaveNothing \/ ClearForeign \/ AddReset \/ AddForeign \/ RemoveForeign \/ SaveErr
  BY <1>6 DEF SaveNothing, ClearForeign, AddReset, AddForeign, RemoveForeign, SaveErr, Keep,
     ForeignEntities
<1>7. ASSUME NEW j \in Ids, OtherWrite(j) PROVE Ghosts' /\ AskedInv'
  BY <1>7 DEF OtherWrite
<1>8. CASE UNCHANGED vars
  BY <1>8 DEF vars
<1> QED
  BY <1>1, <1>2, <1>3, <1>4, <1>5, <1>6, <1>7, <1>8 DEF Next

LEMMA IdStep ==
  ASSUME TypeOK, Shape, [Next]_vars, NEW i \in Ids, IdInv(i)
  PROVE  IdInv(i)'
<1> USE DEF TypeOK, ForeignEntities, Shape, Delta, Loaded, IdInv, ResetInv, ReadInv, DeltaInv, RowsInv
<1>1. ASSUME NEW j \in Ids, CallAdd(j) PROVE IdInv(i)'
  <2>1. CASE j = i
    BY <1>1, <2>1, EditedFields DEF CallAdd, Edit, Edited
  <2>2. CASE j # i
    BY <1>1, <2>2, EditedFields DEF CallAdd, Edit, Edited
  <2> QED
    BY <2>1, <2>2
<1>2. ASSUME NEW j \in Ids, CallRemove(j) PROVE IdInv(i)'
  <2>1. CASE j = i
    BY <1>2, <2>1, EditedFields DEF CallRemove, Edit, Edited
  <2>2. CASE j # i
    BY <1>2, <2>2, EditedFields DEF CallRemove, Edit, Edited
  <2> QED
    BY <2>1, <2>2
<1>3. ASSUME NEW c \in SUBSET Ids, Edit, fe' = Field("Reset", c), want' = c, confused' = {}
      PROVE  IdInv(i)'
  BY <1>3 DEF Edit, Field
<1>4. CASE Edit /\ UNCHANGED <<fe, want, confused>>
  BY <1>4 DEF Edit
<1>5. CASE SaveNothing
  BY <1>5 DEF SaveNothing, Keep
<1>6. CASE ClearForeign \/ AddReset
  BY <1>6 DEF ClearForeign, AddReset, Keep
<1>7. CASE AddForeign
  BY <1>7 DEF AddForeign, Keep
<1>8. CASE RemoveForeign
  BY <1>8 DEF RemoveForeign, Keep
<1>9. CASE SaveErr
  BY <1>9 DEF SaveErr, Keep
<1>10. ASSUME NEW j \in Ids, OtherWrite(j) PROVE IdInv(i)'
  BY <1>10 DEF OtherWrite
<1>11. CASE UNCHANGED vars
  BY <1>11 DEF vars
<1> QED
  BY <1>1, <1>2, <1>3, <1>4, <1>5, <1>6, <1>7, <1>8, <1>9, <1>10, <1>11, EditSteps

LEMMA Inductive == Spec => []IInv
<1>1. IInv /\ [Next]_vars => IInv'
  BY TypeStep, GhostStep, IdStep DEF IInv, TypeOK, Ghosts
<1> QED
  BY Initially, <1>1, PTL DEF Spec

-----------------------------------------------------------------------------
(* The theorems.                                                           *)

\* The types of the field, of the rows and of the ghosts.
THEOREM TypeCorrect == Spec => []TypeOK
BY Inductive, PTL DEF IInv

\* add and remove keep the two deltas apart (foreign.rs l.164-258).
THEOREM Disjoint == Spec => []AddRemoveDisjoint
<1>1. IInv => AddRemoveDisjoint
  BY DEF IInv, IdInv, DeltaInv, AddRemoveDisjoint, TypeOK, ForeignEntities
<1> QED
  BY <1>1, Inductive, PTL

\* current_value is what the calls amount to (foreign.rs l.121-156).
THEOREM Intended == Spec => []CurrentAsIntended
<1>1. IInv => CurrentAsIntended
  <2> SUFFICES ASSUME IInv, Loaded(fe), todo = NoTodo, NEW i \in Ids, i \notin confused
               PROVE  i \in current_value(fe) <=> i \in asked
    BY DEF CurrentAsIntended
  <2>1. asked = want
    BY DEF IInv, AskedInv, TypeOK, NoTodo
  <2>2. i \in current_value(fe) <=> i \in want
    BY DEF IInv, IdInv, ResetInv, ReadInv, DeltaInv, current_value, Loaded, TypeOK,
       ForeignEntities, Tag
  <2> QED
    BY <2>1, <2>2
<1> QED
  BY <1>1, Inductive, PTL

\* A save, retried or not, leaves the rows as intended (repository.rs l.212-235).
THEOREM SaveIntended == Spec => []SavedAsIntended
<1>1. IInv => SavedAsIntended
  <2> SUFFICES ASSUME IInv, pc = "saved", NEW i \in Ids, i \notin confused, i \notin drift
               PROVE  i \in rows <=> i \in asked
    BY DEF SavedAsIntended
  <2>1. asked = want
    BY DEF IInv, Shape, AskedInv, TypeOK, NoTodo
  <2>2. i \in rows <=> i \in want
    BY DEF IInv, IdInv, ResetInv, DeltaInv, RowsInv, TypeOK
  <2> QED
    BY <2>1, <2>2
<1> QED
  BY <1>1, Inductive, PTL

\* A save leaves the rows as current_value shows them.
THEOREM SaveShown == Spec => []SavedAsShown
<1>1. IInv => SavedAsShown
  <2> SUFFICES ASSUME IInv, pc = "saved", Loaded(fe), NEW i \in Ids, i \notin drift
               PROVE  i \in rows <=> i \in current_value(fe)
    BY DEF SavedAsShown
  <2> USE DEF IInv, Shape, IdInv, ResetInv, ReadInv, DeltaInv, RowsInv, TypeOK, current_value
  <2>1. CASE fe.tag \in {"Reset", "Unchanged"}
    BY <2>1 DEF Delta
  <2>2. CASE fe.tag = "Changed"
    BY <2>2
  <2> QED
    BY <2>1, <2>2 DEF Loaded, ForeignEntities, Tag
<1> QED
  BY <1>1, Inductive, PTL
=============================================================================
