---------------------------- MODULE EntityProofs ----------------------------
(***************************************************************************)
(* Proofs about Entity, for every set of sessions, ids, fields and values, *)
(* and about Columns, in which the fields of an entity are stored, for     *)
(* every width of integers and any versions of the program.                *)
(***************************************************************************)
EXTENDS Entity, Integers, Sequences, TLAPS

\* The fields that are Set are those that the session assigned.
Marked ==
  \A s \in Sessions : entity[s] # NoEntity =>
    \A f \in Fields : f \in assigned[s] <=> entity[s].fields[f].tag = "Set"

IInv == TypeOK /\ HoldsWhatItWasGiven /\ Marked

\* What an entity in hand is made of.
Fits(fields, h, a) ==
  /\ fields \in [Fields -> AnyField]
  /\ h \in [Fields -> Values \cup {Null, Absent}]
  /\ a \in SUBSET Fields
  /\ \A f \in Fields :
       /\ fields[f] \in Field(f)
       /\ fields[f].val = h[f]
       /\ f \in a <=> fields[f].tag = "Set"

\* A session in a state of the invariant has an entity that fits its history.
LEMMA InHand ==
  ASSUME IInv, NEW s \in Sessions, entity[s] # NoEntity
  PROVE  /\ entity[s].id \in Ids
         /\ entity[s] = [id |-> entity[s].id, fields |-> entity[s].fields]
         /\ Fits(entity[s].fields, held[s], assigned[s])
BY DEF IInv, TypeOK, HoldsWhatItWasGiven, Marked, Fits, Entities

\* Values of a field belong to every kind of field value.
LEMMA FieldTypes ==
  ASSUME NEW f \in Fields
  PROVE  /\ Type(f) \subseteq Values \cup {Null}
         /\ Field(f) \subseteq AnyField
         /\ Unloaded \in Field(f)
         /\ \A v \in Type(f) : Unchanged(v) \in Field(f) /\ Set(v) \in Field(f)
BY DEF Type, Field, AnyField, Unloaded, Unchanged, Set

LEMMA Tags ==
  /\ Unloaded.tag # "Set" /\ Unloaded.val = Absent
  /\ \A v : Unchanged(v).tag # "Set" /\ Unchanged(v).val = v
  /\ \A v : Set(v).tag = "Set" /\ Set(v).val = v
BY DEF Unloaded, Unchanged, Set

\* Giving a session an entity that fits its new history keeps the invariant.
LEMMA GiveKeeps ==
  ASSUME IInv, NEW s \in Sessions, NEW i \in Ids, NEW fields, NEW h, NEW a,
         Fits(fields, h, a), Give(s, i, fields),
         held' = [held EXCEPT ![s] = h],
         assigned' = [assigned EXCEPT ![s] = a],
         last' = <<>>, UNCHANGED rows
  PROVE  IInv'
<1> DEFINE e == [id |-> i, fields |-> fields]
<1>1. e \in Entities /\ e.fields = fields /\ e # NoEntity
  BY DEF Entities, Fits, NoEntity
<1>2. entity' = [entity EXCEPT ![s] = e]
  BY DEF Give
<1> HIDE DEF e
<1>3. TypeOK'
  BY <1>1, <1>2 DEF IInv, TypeOK, Fits
<1>4. entity'[s] = e /\ held'[s] = h /\ assigned'[s] = a
  BY <1>2 DEF IInv, TypeOK
<1>5. \A t \in Sessions \ {s} :
        entity'[t] = entity[t] /\ held'[t] = held[t] /\ assigned'[t] = assigned[t]
  BY <1>2 DEF IInv, TypeOK
<1>6. HoldsWhatItWasGiven'
  BY <1>1, <1>4, <1>5 DEF IInv, HoldsWhatItWasGiven, Fits
<1>7. Marked'
  BY <1>1, <1>4, <1>5 DEF IInv, Marked, Fits
<1>8. QED
  BY <1>3, <1>6, <1>7 DEF IInv

\* So does dropping one.
LEMMA DropKeeps ==
  ASSUME IInv, NEW s \in Sessions, Drop(s)
  PROVE  IInv'
<1>1. TypeOK'
  BY DEF IInv, TypeOK, Drop, Blank
<1>2. HoldsWhatItWasGiven'
  BY DEF IInv, TypeOK, HoldsWhatItWasGiven, Drop
<1>3. Marked'
  BY DEF IInv, TypeOK, Marked, Drop
<1>4. QED
  BY <1>1, <1>2, <1>3 DEF IInv

\* And a write, which leaves every entity alone.
LEMMA WriteKeeps ==
  ASSUME IInv, NEW s \in Sessions, NEW op \in {"save", "update", "delete"}, NEW x \in Effects,
         Answer(s, op, x), rows' \in [Ids -> Row \cup {Blank}]
  PROVE  IInv'
<1>1. TypeOK'
  BY DEF IInv, TypeOK, Answer, history
<1>2. HoldsWhatItWasGiven' /\ Marked'
  BY DEF IInv, HoldsWhatItWasGiven, Marked, Answer, history
<1>3. QED
  BY <1>1, <1>2 DEF IInv

\* Rows that a write leaves.
LEMMA RowsOf ==
  ASSUME IInv, NEW i \in Ids, NEW row \in Row \cup {Blank},
         rows' = [rows EXCEPT ![i] = row]
  PROVE  rows' \in [Ids -> Row \cup {Blank}]
BY DEF IInv, TypeOK

\* A row with the changed values of an entity in hand, and what is there for the rest.
LEMMA ChangedRow ==
  ASSUME IInv, NEW s \in Sessions, entity[s] # NoEntity, rows[entity[s].id] # Blank
  PROVE  [f \in Fields |-> IF Changed(f, entity[s].fields[f]) # Absent
                           THEN Changed(f, entity[s].fields[f])
                           ELSE rows[entity[s].id][f]] \in Row
<1> DEFINE e == entity[s]
           R == [f \in Fields |-> IF Changed(f, e.fields[f]) # Absent
                                  THEN Changed(f, e.fields[f]) ELSE rows[e.id][f]]
<1>1. e.id \in Ids /\ rows[e.id] \in Row /\ \A f \in Fields : e.fields[f] \in Field(f)
  BY InHand DEF Fits, IInv, TypeOK
<1>2. \A f \in Fields : rows[e.id][f] \in Type(f) /\ Type(f) \subseteq Values \cup {Null}
  BY <1>1, FieldTypes DEF Row
<1>3. ASSUME NEW f \in Fields
      PROVE  R[f] \in Type(f)
  <2>1. CASE Changed(f, e.fields[f]) # Absent
    <3>1. Changed(f, e.fields[f]) = e.fields[f].val
      BY <2>1 DEF Changed
    <3>2. e.fields[f] # Unloaded
      BY <2>1, <3>1 DEF Unloaded
    <3>3. e.fields[f].val \in Type(f)
      BY <1>1, <3>2 DEF Field
    <3>4. QED
      BY <2>1, <3>1, <3>3
  <2>2. CASE Changed(f, e.fields[f]) = Absent
    BY <1>2, <2>2
  <2>3. QED
    BY <2>1, <2>2
<1>4. R \in [Fields -> Values \cup {Null}]
  BY <1>2, <1>3
<1>5. R \in Row
  BY <1>3, <1>4 DEF Row
<1>6. QED
  BY <1>5

-----------------------------------------------------------------------------
(* One lemma for each kind of step.                                        *)

LEMMA BuildKeeps ==
  ASSUME IInv, NEW s \in Sessions, NEW i \in Ids, NEW model \in Row, BuildEntity(s, i, model)
  PROVE  IInv'
<1> DEFINE F == [f \in Fields |-> IF f \in Group THEN GroupBuilt(model)[f] ELSE Set(model[f])]
<1>1. \A f \in Fields : F[f] = Set(model[f]) /\ model[f] \in Type(f)
  BY DEF GroupBuilt, Row
<1>2. \A f \in Fields : F[f] \in Field(f) /\ Field(f) \subseteq AnyField
  BY <1>1, FieldTypes
<1>3. Fits(F, model, Fields)
  BY <1>1, <1>2 DEF Fits, Row, Set
<1>4. QED
  BY <1>3, GiveKeeps DEF BuildEntity

LEMMA FindKeeps ==
  ASSUME IInv, NEW s \in Sessions, NEW i \in Ids, NEW S, Find(s, i, S)
  PROVE  IInv'
<1> DEFINE F == ToEntity(S, rows[i])
           h == [f \in Fields |-> IF f \in S THEN rows[i][f] ELSE Absent]
<1>1. \A f \in Fields : F[f] = IF f \in S THEN Unchanged(rows[i][f]) ELSE Unloaded
  BY DEF ToEntity, GroupFull, GroupUnloaded
<1>2. \A f \in Fields : rows[i][f] \in Type(f) /\ rows[i][f] \in Values \cup {Null}
  BY DEF Find, IInv, TypeOK, Row
<1>3. \A f \in Fields : F[f] \in Field(f) /\ Field(f) \subseteq AnyField
  BY <1>1, <1>2, FieldTypes
<1>4. F \in [Fields -> AnyField]
  BY <1>3 DEF ToEntity
<1>5. h \in [Fields -> Values \cup {Null, Absent}]
  BY <1>2
<1>6. ASSUME NEW f \in Fields
      PROVE  F[f].val = h[f] /\ F[f].tag # "Set"
  <2> HIDE DEF F
  <2>1. CASE f \in S
    BY <1>1, <2>1, Tags
  <2>2. CASE f \notin S
    BY <1>1, <2>2, Tags
  <2>3. QED
    BY <2>1, <2>2
<1>7. Fits(F, h, {})
  <2> HIDE DEF F, h
  <2>1. QED
    BY <1>3, <1>4, <1>5, <1>6 DEF Fits
<1>8. QED
  BY <1>7, GiveKeeps DEF Find

\* An assignment to one field.
LEMMA AssignKeeps ==
  ASSUME IInv, NEW s \in Sessions, NEW f \in Fields, NEW v \in Type(f),
         entity[s] # NoEntity, Change(s, f, Set(v)), Assign(s, f, v)
  PROVE  IInv'
<1> DEFINE F == [entity[s].fields EXCEPT ![f] = Set(v)]
           h == [held[s] EXCEPT ![f] = v]
           a == assigned[s] \cup {f}
<1>1. entity[s].id \in Ids /\ Fits(entity[s].fields, held[s], assigned[s])
  BY InHand
<1>2. Set(v) \in Field(f) /\ Set(v) \in AnyField /\ v \in Values \cup {Null}
  BY FieldTypes
<1>3. Fits(F, h, a)
  BY <1>1, <1>2 DEF Fits, Set
<1>4. /\ Give(s, entity[s].id, F)
      /\ held' = [held EXCEPT ![s] = h]
      /\ assigned' = [assigned EXCEPT ![s] = a]
      /\ last' = <<>> /\ UNCHANGED rows
  BY DEF Change, Assign, IInv, TypeOK
<1>5. QED
  BY <1>1, <1>3, <1>4, GiveKeeps

LEMMA ToSetKeeps ==
  ASSUME IInv, NEW s \in Sessions, NEW f \in Fields, ToSet(s, f)
  PROVE  IInv'
<1>1. Fits(entity[s].fields, held[s], assigned[s])
  BY InHand DEF ToSet
<1>2. entity[s].fields[f].val \in Type(f) /\ entity[s].fields[f].val = held[s][f]
  BY <1>1 DEF Fits, Field, ToSet, IsLoaded, Unloaded
<1>3. QED
  BY <1>2, AssignKeeps DEF ToSet

LEMMA PatchKeeps ==
  ASSUME IInv, NEW s \in Sessions, NEW d \in Documents, Patch(s, d)
  PROVE  IInv'
<1> DEFINE named == {f \in Updatable : d[f] # Absent}
           F == UpdateFields(entity[s].fields, d)
           h == [f \in Fields |-> IF f \in named THEN d[f] ELSE held[s][f]]
           a == assigned[s] \cup named
<1>1. entity[s].id \in Ids /\ Fits(entity[s].fields, held[s], assigned[s])
  BY InHand DEF Patch
<1>2. Updatable \subseteq Fields
  BY DEF Updatable
<1>3. \A f \in Fields : F[f] = IF f \in named THEN Set(d[f]) ELSE entity[s].fields[f]
  BY <1>2 DEF UpdateFields, GroupUpdated, Parse
<1>4. \A f \in named : d[f] \in Type(f) /\ d[f] \in Values \cup {Null}
  BY <1>2, FieldTypes DEF Documents
<1>5. \A f \in Fields : F[f] \in Field(f) /\ Field(f) \subseteq AnyField
  BY <1>1, <1>3, <1>4, FieldTypes DEF Fits
<1>6. F \in [Fields -> AnyField]
  BY <1>5 DEF UpdateFields
<1>7. h \in [Fields -> Values \cup {Null, Absent}] /\ a \in SUBSET Fields
  BY <1>1, <1>2, <1>4 DEF Fits
<1>8. ASSUME NEW f \in Fields
      PROVE  F[f].val = h[f] /\ (f \in a <=> F[f].tag = "Set")
  <2> HIDE DEF F, named
  <2>1. CASE f \in named
    BY <1>3, <2>1, Tags
  <2>2. CASE f \notin named
    BY <1>1, <1>3, <2>2 DEF Fits
  <2>3. QED
    BY <2>1, <2>2
<1>9. Fits(F, h, a)
  <2> HIDE DEF F, h, a
  <2>1. QED
    BY <1>5, <1>6, <1>7, <1>8 DEF Fits
<1>10. /\ Give(s, entity[s].id, F)
      /\ held' = [held EXCEPT ![s] = h]
      /\ assigned' = [assigned EXCEPT ![s] = a]
      /\ last' = <<>> /\ UNCHANGED rows
  BY DEF Patch, IInv, TypeOK
<1>11. QED
  BY <1>1, <1>9, <1>10, GiveKeeps

LEMMA SaveKeeps ==
  ASSUME IInv, NEW s \in Sessions, Save(s)
  PROVE  IInv'
<1> DEFINE e == entity[s]
           row == [f \in Fields |-> e.fields[f].val]
<1>1. CASE \E f \in Fields : ~IsLoaded(e.fields[f])
  BY <1>1, DropKeeps DEF Save
<1>2. CASE \A f \in Fields : IsLoaded(e.fields[f])
  <2>1. e.id \in Ids /\ \A f \in Fields : e.fields[f] \in Field(f)
    BY InHand DEF Save, Fits
  <2>2. \A f \in Fields : e.fields[f].val \in Type(f)
    BY <1>2, <2>1 DEF Field, IsLoaded, Unloaded
  <2>3. row \in Row
    BY <2>2, FieldTypes DEF Row
  <2>4. CASE Answer(s, "save", "Conflict") /\ UNCHANGED rows
    BY <2>4, WriteKeeps DEF IInv, TypeOK, Effects
  <2>5. CASE Answer(s, "save", "Ok") /\ rows' = [rows EXCEPT ![e.id] = row]
    <3>1. rows' \in [Ids -> Row \cup {Blank}]
      BY <2>1, <2>3, <2>5, RowsOf
    <3>2. QED
      BY <2>5, <3>1, WriteKeeps DEF Effects
  <2>6. QED
    BY <1>2, <2>4, <2>5 DEF Save
<1>3. QED
  BY <1>1, <1>2

LEMMA UpdateKeeps ==
  ASSUME IInv, NEW s \in Sessions, Update(s)
  PROVE  IInv'
<1> DEFINE e == entity[s]
           row == [f \in Fields |-> IF Changed(f, e.fields[f]) # Absent
                                    THEN Changed(f, e.fields[f]) ELSE rows[e.id][f]]
<1>1. CASE UNCHANGED rows /\ \E x \in Effects : Answer(s, "update", x)
  BY <1>1, WriteKeeps DEF IInv, TypeOK
<1>2. CASE /\ rows[e.id] # Blank /\ Answer(s, "update", "Ok")
           /\ rows' = [rows EXCEPT ![e.id] = row]
  <2>1. e.id \in Ids /\ row \in Row
    BY <1>2, InHand, ChangedRow DEF Update
  <2>2. rows' \in [Ids -> Row \cup {Blank}]
    BY <1>2, <2>1, RowsOf
  <2>3. QED
    BY <1>2, <2>2, WriteKeeps DEF Effects
<1>3. QED
  BY <1>1, <1>2 DEF Update, Effects

LEMMA DeleteKeeps ==
  ASSUME IInv, NEW s \in Sessions, NEW i \in Ids, Delete(s, i)
  PROVE  IInv'
<1>1. rows' \in [Ids -> Row \cup {Blank}]
  BY RowsOf DEF Delete
<1>2. \E x \in Effects : Answer(s, "delete", x)
  BY DEF Delete, Effects
<1>3. QED
  BY <1>1, <1>2, WriteKeeps

-----------------------------------------------------------------------------
(* The invariant and the theorems.                                         *)

LEMMA Initially == Init => IInv
<1> SUFFICES ASSUME Init PROVE IInv
  OBVIOUS
<1>1. TypeOK
  BY DEF Init, TypeOK, Blank
<1>2. HoldsWhatItWasGiven /\ Marked
  BY DEF Init, HoldsWhatItWasGiven, Marked
<1>3. QED
  BY <1>1, <1>2 DEF IInv

LEMMA NextKeeps ==
  ASSUME IInv, [Next]_vars
  PROVE  IInv'
<1>1. CASE UNCHANGED vars
  BY <1>1 DEF vars, history, IInv, TypeOK, HoldsWhatItWasGiven, Marked
<1>2. CASE Next
  <2>1. PICK s \in Sessions :
          \/ \E i \in Ids, model \in Row : BuildEntity(s, i, model)
          \/ \E i \in Ids, S \in AllSubsets : Find(s, i, S)
          \/ \E f \in Fields : Deref(s, f) \/ ToSet(s, f)
          \/ \E f \in Fields : \E v \in Type(f) : SetField(s, f, v) \/ ToMut(s, f, v)
          \/ \E d \in Documents : Patch(s, d)
          \/ Save(s) \/ Update(s)
          \/ \E i \in Ids : Delete(s, i)
          \/ Drop(s)
    BY <1>2 DEF Next
  <2>2. CASE \E i \in Ids, model \in Row : BuildEntity(s, i, model)
    BY <2>2, BuildKeeps
  <2>3. CASE \E i \in Ids, S \in AllSubsets : Find(s, i, S)
    BY <2>3, FindKeeps
  <2>4. CASE \E f \in Fields : Deref(s, f)
    BY <2>4, DropKeeps DEF Deref
  <2>5. CASE \E f \in Fields : ToSet(s, f)
    BY <2>5, ToSetKeeps
  <2>6. CASE \E f \in Fields : \E v \in Type(f) : SetField(s, f, v) \/ ToMut(s, f, v)
    BY <2>6, AssignKeeps, DropKeeps DEF SetField, ToMut
  <2>7. CASE \E d \in Documents : Patch(s, d)
    BY <2>7, PatchKeeps
  <2>8. CASE Save(s)
    BY <2>8, SaveKeeps
  <2>9. CASE Update(s)
    BY <2>9, UpdateKeeps
  <2>10. CASE \E i \in Ids : Delete(s, i)
    BY <2>10, DeleteKeeps
  <2>11. CASE Drop(s)
    BY <2>11, DropKeeps
  <2>12. QED
    BY <2>1, <2>2, <2>3, <2>4, <2>5, <2>6, <2>7, <2>8, <2>9, <2>10, <2>11
<1>3. QED
  BY <1>1, <1>2

\* The invariant holds in every reachable state.
THEOREM Invariance == Spec => []IInv
<1>1. Init => IInv
  BY Initially
<1>2. IInv /\ [Next]_vars => IInv'
  BY NextKeeps
<1>3. QED
  BY <1>1, <1>2, PTL DEF Spec

\* Rows, entities and what sessions know of them have their types: no field gets a value
\* that its type does not have, whatever a document says.
THEOREM TypeCorrect == Spec => []TypeOK
<1>1. IInv => TypeOK
  BY DEF IInv
<1>2. QED
  BY <1>1, Invariance, PTL

\* An entity has the values that its session read or assigned last, and no others.
THEOREM Holds == Spec => []HoldsWhatItWasGiven
<1>1. IInv => HoldsWhatItWasGiven
  BY DEF IInv
<1>2. QED
  BY <1>1, Invariance, PTL

\* The step of an update that is Ok.
LEMMA UpdateStep ==
  ASSUME IInv, NEW s \in Sessions, Update(s), last' = <<s, "update", "Ok">>
  PROVE  LET i == entity[s].id
             named == assigned[s] \cup {f \in CopyFields : held[s][f] # Absent} IN
         /\ named # {} => rows[i] # Blank
         /\ rows' = [rows EXCEPT ![i] =
                       [f \in Fields |-> IF f \in named THEN held[s][f] ELSE @[f]]]
<1> DEFINE e == entity[s]
           named == assigned[s] \cup {f \in CopyFields : held[s][f] # Absent}
           row == [f \in Fields |-> IF Changed(f, e.fields[f]) # Absent
                                    THEN Changed(f, e.fields[f]) ELSE rows[e.id][f]]
           kept == [f \in Fields |-> IF f \in named THEN held[s][f] ELSE rows[e.id][f]]
<1>1. e # NoEntity /\ e.id \in Ids /\ Fits(e.fields, held[s], assigned[s])
  BY InHand DEF Update
<1>2. named \subseteq Fields
  BY <1>1, FieldsAssumption DEF Fits
<1>3. ASSUME NEW f \in Fields
      PROVE  /\ f \in named <=> Changed(f, e.fields[f]) # Absent
             /\ f \in named => Changed(f, e.fields[f]) = held[s][f]
  <2>1. e.fields[f].val = held[s][f] /\ (f \in assigned[s] <=> e.fields[f].tag = "Set")
    BY <1>1 DEF Fits
  <2>2. f \in assigned[s] => held[s][f] # Absent
    <3>1. e.fields[f] \in Field(f) /\ Absent \notin Type(f)
      BY <1>1, FieldsAssumption DEF Fits, Type
    <3>2. QED
      BY <2>1, <3>1 DEF Field, Unloaded
  <2>3. QED
    BY <2>1, <2>2 DEF Changed
<1>4. row = kept
  <2>1. \A f \in Fields : row[f] = kept[f]
    <3> HIDE DEF named
    <3>1. QED
      BY <1>3
  <2>2. QED
    BY <2>1
<1>5. CASE ~HasChanged(e)
  <2>1. named = {}
    BY <1>2, <1>3, <1>5 DEF HasChanged
  <2>2. rows' = rows
    BY <1>5 DEF Update
  <2>3. rows[e.id] = kept
    <3>1. rows[e.id] = [f \in Fields |-> rows[e.id][f]]
      BY <1>1 DEF IInv, TypeOK, Row, Blank
    <3>2. kept = [f \in Fields |-> rows[e.id][f]]
      BY <2>1
    <3>3. QED
      BY <3>1, <3>2
  <2>4. rows = [rows EXCEPT ![e.id] = kept]
    BY <1>1, <2>3 DEF IInv, TypeOK
  <2>5. QED
    BY <2>1, <2>2, <2>4
<1>6. CASE HasChanged(e)
  <2>1. rows[e.id] # Blank /\ rows' = [rows EXCEPT ![e.id] = row]
    BY <1>6 DEF Update, Answer
  <2>2. QED
    BY <1>4, <2>1
<1>7. QED
  BY <1>5, <1>6

\* Only a session's own save or update looks like one.
LEMMA OnlyWrites ==
  ASSUME Next, NEW s \in Sessions, NEW op \in {"save", "update"}, last' = <<s, op, "Ok">>
  PROVE  \/ op = "save" /\ Save(s)
         \/ op = "update" /\ Update(s)
<1>1. \E t \in Sessions : Save(t) \/ Update(t) \/ \E i \in Ids : Delete(t, i)
  BY DEF Next, BuildEntity, Find, Deref, ToSet, SetField, ToMut, Patch, Drop, Assign
<1>2. PICK t \in Sessions : Save(t) \/ Update(t) \/ \E i \in Ids : Delete(t, i)
  BY <1>1
<1>3. ASSUME NEW o, NEW x, last' = <<t, o, x>>
      PROVE  s = t /\ op = o
  BY <1>3
<1>4. CASE Save(t)
  <2>1. \E x : last' = <<t, "save", x>>
    BY <1>4 DEF Save, Answer, Drop
  <2>2. QED
    BY <1>3, <1>4, <2>1
<1>5. CASE Update(t)
  <2>1. \E x : last' = <<t, "update", x>>
    BY <1>5 DEF Update, Answer
  <2>2. QED
    BY <1>3, <1>5, <2>1
<1>6. CASE \E i \in Ids : Delete(t, i)
  <2>1. \E x : last' = <<t, "delete", x>>
    BY <1>6 DEF Delete, Answer
  <2>2. QED
    BY <1>3, <2>1
<1>7. QED
  BY <1>2, <1>4, <1>5, <1>6

\* An update that is Ok writes what its session assigned and the Copy fields it knows,
\* leaves every other column as others left it, and had a row to write to.
THEOREM UpdatesExact == Spec => UpdateExact
<1>1. ASSUME IInv, [Next]_vars
      PROVE  [\A s \in Sessions : last' = <<s, "update", "Ok">> =>
                LET i == entity[s].id
                    named == assigned[s] \cup {f \in CopyFields : held[s][f] # Absent} IN
                /\ named # {} => rows[i] # Blank
                /\ rows' = [rows EXCEPT ![i] =
                     [f \in Fields |-> IF f \in named THEN held[s][f] ELSE @[f]]]]_vars
  <2>1. CASE Next
    <3>1. ASSUME NEW s \in Sessions, last' = <<s, "update", "Ok">>
          PROVE  Update(s)
      BY <2>1, <3>1, OnlyWrites
    <3>2. QED
      BY <1>1, <3>1, UpdateStep
  <2>2. QED
    BY <1>1, <2>1
<1>2. QED
  BY <1>1, Invariance, PTL DEF Spec, UpdateExact

\* The step of a save that is Ok.
LEMMA SaveStep ==
  ASSUME IInv, NEW s \in Sessions, Save(s), last' = <<s, "save", "Ok">>
  PROVE  LET i == entity[s].id IN
         /\ rows[i] = Blank /\ rows'[i] \in Row
         /\ rows' = [rows EXCEPT ![i] = held[s]]
<1> DEFINE e == entity[s]
           row == [f \in Fields |-> e.fields[f].val]
<1>1. e.id \in Ids /\ Fits(e.fields, held[s], assigned[s])
  BY InHand DEF Save
<1>2. /\ \A f \in Fields : IsLoaded(e.fields[f])
      /\ rows[e.id] = Blank
      /\ rows' = [rows EXCEPT ![e.id] = row]
  BY DEF Save, Drop, Answer
<1>3. \A f \in Fields : e.fields[f].val = held[s][f] /\ e.fields[f].val \in Type(f)
  BY <1>1, <1>2 DEF Fits, Field, IsLoaded, Unloaded
<1>4. row = held[s] /\ row \in Row
  BY <1>1, <1>3, FieldTypes DEF Fits, Row
<1>5. QED
  BY <1>1, <1>2, <1>4 DEF IInv, TypeOK

\* A save that is Ok inserts a whole row where there was none.
THEOREM SavesExact == Spec => SaveExact
<1>1. ASSUME IInv, [Next]_vars
      PROVE  [\A s \in Sessions : last' = <<s, "save", "Ok">> =>
                LET i == entity[s].id IN
                /\ rows[i] = Blank /\ rows'[i] \in Row
                /\ rows' = [rows EXCEPT ![i] = held[s]]]_vars
  <2>1. CASE Next
    <3>1. ASSUME NEW s \in Sessions, last' = <<s, "save", "Ok">>
          PROVE  Save(s)
      BY <2>1, <3>1, OnlyWrites
    <3>2. QED
      BY <1>1, <3>1, SaveStep
  <2>2. QED
    BY <1>1, <2>1
<1>2. QED
  BY <1>1, Invariance, PTL DEF Spec, SaveExact

-----------------------------------------------------------------------------
(* The columns that fields are stored in.                                  *)

CONSTANTS Kinds, Versions, Max, Known
VARIABLES kind, column, hold, written, lastUse

Col == INSTANCE Columns WITH last <- lastUse

\* What a program wrote is in the column as its conversion made it, and fitted; what
\* another program wrote is any number that the column's type has.
Bytes ==
  \/ column = <<>> /\ written = Col!None
  \/ /\ written = Col!Corrupt
     /\ \E x \in Col!Signed : column = IF kind = "jsonb" THEN Col!ToJsonb(x) ELSE <<x>>
  \/ /\ \E v \in Versions : written \in Col!Domain(v)
     /\ column = Col!ToSql(written) /\ column # Col!Panic

ColumnInv ==
  /\ kind \in Kinds
  /\ \A v \in Versions : hold[v] # Col!None => hold[v] \in Col!Domain(v)
  /\ hold = [v \in Versions |-> hold[v]]
  /\ Bytes

\* No value of a type is one of the marks for a missing or a foreign one.
LEMMA DomainValues ==
  ASSUME Col!ColumnsAssumption, NEW v \in Versions
  PROVE  Col!Domain(v) \subseteq Nat /\ Known[v] \subseteq 0..Max
BY DEF Col!ColumnsAssumption, Col!Domain

\* A value that a program could write is in the column as it is, and within what the
\* column's type has.
LEMMA Writes ==
  ASSUME Col!ColumnsAssumption, kind \in Kinds, NEW v \in Versions, NEW x \in Col!Domain(v),
         Col!ToSql(x) # Col!Panic
  PROVE  /\ kind = "int" => x \in 0..Max /\ Col!ToSql(x) = <<x>>
         /\ kind = "jsonb" => Col!ToSql(x) = <<Col!FormatVersion, x>>
         /\ kind \notin {"int", "jsonb"} => Col!ToSql(x) = <<x>>
<1>1. CASE kind = "int"
  <2>1. x \in Nat /\ Max \in Nat
    BY DomainValues DEF Col!ColumnsAssumption
  <2>2. Col!ToSql(x) = IF x \in Col!Signed THEN <<x>> ELSE <<>>
    BY <1>1 DEF Col!ToSql, Col!ConvertTo, Col!Panic
  <2>3. x \in Col!Signed /\ Col!ToSql(x) = <<x>>
    BY <2>2 DEF Col!Panic
  <2>4. x \in 0..Max
    BY <2>1, <2>3 DEF Col!Signed
  <2>5. QED
    BY <1>1, <2>3, <2>4
<1>2. CASE kind = "jsonb"
  BY <1>2 DEF Col!ToSql, Col!ToJsonb
<1>3. CASE kind \notin {"int", "jsonb"}
  BY <1>3 DEF Col!ToSql
<1>4. QED
  BY <1>1, <1>2, <1>3

\* What a version makes of the bytes of a column: a value of its type or none, the value
\* that a program wrote if it makes any of it, and this always, except of a Jsonb column.
LEMMA Reads ==
  ASSUME Col!ColumnsAssumption, ColumnInv, column # <<>>, NEW v \in Versions
  PROVE  LET x == Col!FromSql(v, column) IN
         /\ x # Col!None => x \in Col!Domain(v)
         /\ x # Col!None /\ written # Col!Corrupt => x = written
         /\ kind # "jsonb" /\ written \in Col!Domain(v) => x # Col!None
<1> DEFINE x == Col!FromSql(v, column)
<1>0. /\ kind \in Kinds /\ Bytes
      /\ Max \in Nat /\ Known[v] \subseteq 0..Max
      /\ \A w \in Versions : Col!Domain(w) \subseteq Nat
  BY DomainValues DEF ColumnInv, Col!ColumnsAssumption
<1>1. PICK y : /\ column = IF kind = "jsonb" THEN <<Col!FormatVersion, y>> ELSE <<y>>
               /\ kind = "int" => y \in -(Max + 1)..Max
               /\ written = Col!Corrupt \/ written = y
  <2>1. CASE written = Col!Corrupt
             /\ \E z \in Col!Signed : column = IF kind = "jsonb" THEN Col!ToJsonb(z) ELSE <<z>>
    BY <2>1 DEF Col!ToJsonb, Col!Signed
  <2>2. CASE /\ \E w \in Versions : written \in Col!Domain(w)
             /\ column = Col!ToSql(written) /\ column # Col!Panic
    <3>1. PICK w \in Versions : written \in Col!Domain(w)
      BY <2>2
    <3>2. /\ kind = "int" => written \in 0..Max /\ column = <<written>>
          /\ kind = "jsonb" => column = <<Col!FormatVersion, written>>
          /\ kind \notin {"int", "jsonb"} => column = <<written>>
      BY <1>0, <2>2, <3>1, Writes
    <3>3. kind = "int" => written \in -(Max + 1)..Max
      BY <1>0, <3>2
    <3>4. QED
      BY <3>2, <3>3
  <2>3. QED
    BY <1>0, <2>1, <2>2 DEF Bytes
<1>2. written \in Col!Domain(v) => written = y
  <2>1. Col!Corrupt \notin Nat
    BY DEF Col!Corrupt
  <2>2. QED
    BY <1>0, <1>1, <2>1
<1>3. CASE kind = "int"
  <2>1. column[1] = y /\ y \in Int /\ y <= Max
    BY <1>0, <1>1, <1>3
  <2>2. x = IF y >= 0 THEN y ELSE Col!None
    BY <1>3, <2>1 DEF Col!FromSql, Col!FromInt
  <2>3. Col!Domain(v) = 0..(2 * Max + 1)
    BY <1>3 DEF Col!Domain
  <2>4. x # Col!None => x = y /\ y \in Col!Domain(v)
    BY <1>0, <2>1, <2>2, <2>3
  <2>5. y \in Col!Domain(v) => x # Col!None
    BY <1>0, <2>1, <2>2, <2>3 DEF Col!None
  <2>6. QED
    BY <1>1, <1>2, <2>4, <2>5
<1>4. CASE kind = "jsonb"
  <2>1. Len(column) = 2
    BY <1>1, <1>4
  <2>2. Col!FromSlice(column) = Col!None
    BY <2>1 DEF Col!FromSlice
  <2>3. x = Col!None
    BY <1>4, <2>2 DEF Col!FromSql, Col!Accept
  <2>4. QED
    BY <1>4, <2>3
<1>5. CASE kind \notin {"int", "jsonb"}
  <2>1. Len(column) = 1 /\ column[1] = y
    BY <1>1, <1>5
  <2>2. x = IF y \in Known[v] THEN y ELSE Col!None
    BY <1>5, <2>1 DEF Col!FromSql, Col!FromSlice, Col!Accept
  <2>3. Col!Domain(v) = Known[v] /\ Col!None \notin Known[v]
    BY <1>0, <1>5 DEF Col!Domain, Col!None
  <2>4. QED
    BY <1>1, <1>2, <2>2, <2>3
<1>6. QED
  BY <1>3, <1>4, <1>5

\* What a column holds is kept by every step.
LEMMA ColumnStep ==
  ASSUME Col!ColumnsAssumption, ColumnInv, [Col!Next]_(Col!vars)
  PROVE  ColumnInv'
<1>1. ASSUME NEW v \in Versions, NEW x \in Col!Domain(v), Col!Assign(v, x)
      PROVE  ColumnInv'
  BY <1>1 DEF Col!Assign, ColumnInv, Bytes, Col!Domain, Col!ToSql
<1>2. ASSUME NEW v \in Versions, Col!Write(v)
      PROVE  ColumnInv'
  BY <1>2 DEF Col!Write, ColumnInv, Bytes, Col!Domain, Col!ToSql
<1>3. ASSUME NEW v \in Versions, Col!Lose(v)
      PROVE  ColumnInv'
  BY <1>3 DEF Col!Lose, ColumnInv, Bytes, Col!Domain, Col!ToSql
<1>4. ASSUME NEW v \in Versions, Col!Read(v)
      PROVE  ColumnInv'
  <2>1. Col!FromSql(v, column) \in Col!Domain(v)
    BY <1>4, Reads DEF Col!Read
  <2>2. QED
    BY <1>4, <2>1 DEF Col!Read, ColumnInv, Bytes, Col!Domain, Col!ToSql
<1>5. ASSUME NEW x \in Col!Signed, Col!OtherWrite(x)
      PROVE  ColumnInv'
  BY <1>5 DEF Col!OtherWrite, ColumnInv, Bytes, Col!Domain, Col!Signed
<1>6. CASE UNCHANGED Col!vars
  BY <1>6 DEF Col!vars, ColumnInv, Bytes, Col!Domain, Col!ToSql
<1>7. QED
  BY <1>1, <1>2, <1>3, <1>4, <1>5, <1>6 DEF Col!Next, Col!WritePanics, Col!Refuse

\* What a column holds is what was written to it, as the conversion made it.
LEMMA ColumnInvariance == Col!ColumnsAssumption => (Col!Spec => []ColumnInv)
<1> SUFFICES ASSUME Col!ColumnsAssumption PROVE Col!Spec => []ColumnInv
  OBVIOUS
<1>1. Col!Init => ColumnInv
  BY DEF Col!Init, ColumnInv, Bytes
<1>2. ColumnInv /\ [Col!Next]_(Col!vars) => ColumnInv'
  BY ColumnStep
<1>3. QED
  BY <1>1, <1>2, PTL DEF Col!Spec

\* A step that read, or refused, or panicked, is the action of that name.
LEMMA Uses ==
  ASSUME Col!Next, NEW v \in Versions
  PROVE  /\ lastUse' = <<v, "read">> => Col!Read(v)
         /\ lastUse' = <<v, "refused">> => Col!Refuse(v)
         /\ lastUse' = <<v, "panicked">> => Col!WritePanics(v)
<1>1. ASSUME NEW x \in {"read", "refused", "panicked"}, lastUse' = <<v, x>>
      PROVE  \/ x = "read" /\ Col!Read(v)
             \/ x = "refused" /\ Col!Refuse(v)
             \/ x = "panicked" /\ Col!WritePanics(v)
  <2>1. PICK w \in Versions : Col!Write(w) \/ Col!WritePanics(w) \/ Col!Read(w) \/ Col!Refuse(w)
    BY <1>1 DEF Col!Next, Col!Assign, Col!OtherWrite
  <2>2. ASSUME NEW o, lastUse' = <<w, o>>
        PROVE  v = w /\ x = o
    BY <1>1, <2>2
  <2>3. CASE Col!Write(w)
    BY <2>2, <2>3 DEF Col!Write
  <2>7. CASE Col!WritePanics(w)
    BY <2>2, <2>7 DEF Col!WritePanics
  <2>4. CASE Col!Read(w)
    BY <2>2, <2>4 DEF Col!Read
  <2>5. CASE Col!Refuse(w)
    BY <2>2, <2>5 DEF Col!Refuse
  <2>6. QED
    BY <2>1, <2>3, <2>4, <2>5, <2>7
<1>2. QED
  BY <1>1

\* What a version reads is a value of its type, and the one that was written, if a version
\* wrote it: of any kind of column, for any widths of integers and any two sets of values.
THEOREM NoConversionMakesAnother ==
  Col!ColumnsAssumption => (Col!Spec => Col!ReadsWhatWasWritten)
<1> SUFFICES ASSUME Col!ColumnsAssumption PROVE Col!Spec => Col!ReadsWhatWasWritten
  OBVIOUS
<1> DEFINE Exact == \A v \in Versions : lastUse' = <<v, "read">> =>
                      /\ hold'[v] \in Col!Domain(v)
                      /\ written # Col!Corrupt => hold'[v] = written
<1>1. ASSUME ColumnInv, Col!Next
      PROVE  Exact
  <2>1. SUFFICES ASSUME NEW v \in Versions, lastUse' = <<v, "read">>
                 PROVE  /\ hold'[v] \in Col!Domain(v)
                        /\ written # Col!Corrupt => hold'[v] = written
    OBVIOUS
  <2>2. Col!Read(v)
    BY <1>1, <2>1, Uses
  <2>3. hold'[v] = Col!FromSql(v, column)
    BY <1>1, <2>2 DEF Col!Read, ColumnInv
  <2>4. QED
    BY <1>1, <2>2, <2>3, Reads DEF Col!Read
<1>2. ColumnInv /\ [Col!Next]_(Col!vars) => [Exact]_(Col!vars)
  BY <1>1
<1>3. QED
  BY <1>2, ColumnInvariance, PTL DEF Col!Spec, Col!ReadsWhatWasWritten

\* Without a Jsonb column, no version refuses a value of its type that was written, and
\* none panics over one that fits.
THEOREM RefusesForReason ==
  Col!ColumnsAssumption /\ "jsonb" \notin Kinds => (Col!Spec => Col!RefusedForReason)
<1> SUFFICES ASSUME Col!ColumnsAssumption, "jsonb" \notin Kinds
             PROVE  Col!Spec => Col!RefusedForReason
  OBVIOUS
<1> DEFINE Reason == \A v \in Versions :
                       /\ lastUse' = <<v, "refused">> => written \notin Col!Domain(v)
                       /\ lastUse' = <<v, "panicked">> => hold[v] \in Col!Domain(v) \ Col!Signed
<1>1. ASSUME ColumnInv, Col!Next
      PROVE  Reason
  <2>1. ASSUME NEW v \in Versions, lastUse' = <<v, "refused">>
        PROVE  written \notin Col!Domain(v)
    <3>1. Col!Refuse(v)
      BY <1>1, <2>1, Uses
    <3>2. kind # "jsonb"
      BY <1>1 DEF ColumnInv
    <3>3. QED
      BY <1>1, <3>1, <3>2, Reads DEF Col!Refuse
  <2>2. ASSUME NEW v \in Versions, lastUse' = <<v, "panicked">>
        PROVE  hold[v] \in Col!Domain(v) \ Col!Signed
    <3>1. Col!WritePanics(v)
      BY <1>1, <2>2, Uses
    <3>2. hold[v] \in Col!Domain(v)
      BY <1>1, <3>1 DEF Col!WritePanics, ColumnInv
    <3>3. Col!ToSql(hold[v]) = <<>>
      BY <3>1 DEF Col!WritePanics, Col!Panic
    <3>4. hold[v] \notin Col!Signed
      BY <3>3 DEF Col!ToSql, Col!ConvertTo, Col!ToJsonb
    <3>5. QED
      BY <3>2, <3>4
  <2>3. QED
    BY <2>1, <2>2
<1>2. ColumnInv /\ [Col!Next]_(Col!vars) => [Reason]_(Col!vars)
  BY <1>1
<1>3. QED
  BY <1>2, ColumnInvariance, PTL DEF Col!Spec, Col!RefusedForReason
=============================================================================
