------------------------------ MODULE Columns ------------------------------
(***************************************************************************)
(* One column of a table and the conversions between it and a field of an  *)
(* entity: unsigned integers in a signed column (convert_int!,             *)
(* src/src/entity/field.rs), enums (impl_enum_to_sql!), new types          *)
(* (diesel_sql_type_wrapper!) and JsonProxy in a Json or a Jsonb column.   *)
(* Two versions of the program, as during a deployment, read and write it; *)
(* one may know variants, or accept values, that the other does not; a     *)
(* variant keeps its number.                                               *)
(*                                                                         *)
(* A value is a number here.  What the database stores, and hands out as   *)
(* the bytes of a value, is external: a sequence of one number, which for  *)
(* Jsonb has the number of the format in front.                            *)
(***************************************************************************)
EXTENDS Integers, Sequences

CONSTANTS
  Kinds,      \* the kinds of columns that there are
  Versions,   \* versions of the program that run
  Max,        \* the largest number of the signed type; the unsigned one has twice as many
  Known       \* the values that a version's enum has, or its types accept

ASSUME ColumnsAssumption ==
  /\ Kinds \subseteq {"int", "enum", "wrapper", "json", "jsonb"}
  /\ Max \in Nat
  /\ Known \in [Versions -> SUBSET (0..Max)]

VARIABLES
  kind,      \* the column's
  column,    \* its bytes; <<>> before the first write
  hold,      \* the value of the field that each version has in hand
  written,   \* history: the value that was written last
  last       \* if this step used the column: which version, and what came of it

vars == <<kind, column, hold, written, last>>

None == -1      \* no value: nothing was read or assigned, nothing written
Corrupt == -2   \* bytes of another program

\* The values of the field's type.
Domain(v) == IF kind = "int" THEN 0..(2 * Max + 1) ELSE Known[v]
Signed == -(Max + 1)..Max

Init ==
  /\ kind \in Kinds
  /\ column = <<>> /\ written = None
  /\ hold = [v \in Versions |-> None]
  /\ last = <<>>

\* The program assigns the field.
Assign(v, x) ==
  /\ hold' = [hold EXCEPT ![v] = x]
  /\ last' = <<>> /\ UNCHANGED <<kind, column, written>>

Lose(v) == hold' = [hold EXCEPT ![v] = None] /\ UNCHANGED <<kind, column, written>>

-----------------------------------------------------------------------------
(* To the column.                                                          *)

\* Faulty variant: `as` instead of try_from.
ConvertToWrapped(x) == <<IF x > Max THEN x - 2 * (Max + 1) ELSE x>>

Panic == <<>>

\* convert_to panics on a number that does not fit.
ConvertTo(x) == IF x \in Signed THEN <<x>> ELSE Panic

FormatVersion == 1

\* to_sql of serde_json::Value.
ToJsonb(x) == <<FormatVersion, x>>

\* The number of a variant, the inner value of a new type, the text of a json value.
ToSql(x) ==
  IF kind = "int" THEN ConvertTo(x) ELSE IF kind = "jsonb" THEN ToJsonb(x) ELSE <<x>>

Write(v) ==
  /\ hold[v] # None
  /\ ToSql(hold[v]) # Panic
  /\ column' = ToSql(hold[v]) /\ written' = hold[v]
  /\ last' = <<v, "wrote">>
  /\ UNCHANGED <<kind, hold>>

\* The panic comes before the statement, and the entity is gone with the request.
WritePanics(v) ==
  /\ hold[v] # None
  /\ ToSql(hold[v]) = Panic
  /\ last' = <<v, "panicked">> /\ Lose(v)

-----------------------------------------------------------------------------
(* From the column.                                                        *)

\* serde_json::from_slice refuses whatever does not begin as a value, or goes on after it.
FromSlice(b) == IF Len(b) = 1 THEN b[1] ELSE None

\* Faulty variant: what a version does not know becomes one that it does.
AcceptDefault(v, x) == IF x \in Known[v] \/ Known[v] = {} THEN x ELSE CHOOSE y \in Known[v] : TRUE

\* The match over the numbers of an enum, from_inner of a new type, the Deserialize of
\* the type in a JsonProxy.
Accept(v, x) == IF x \in Known[v] THEN x ELSE None

\* An application's query casts signed numbers back with try_from.
FromInt(b) == IF b[1] >= 0 THEN b[1] ELSE None

FromSql(v, b) ==
  IF kind = "int" THEN FromInt(b)
  ELSE IF kind \in {"json", "jsonb"} THEN Accept(v, FromSlice(b))
  ELSE Accept(v, b[1])

Read(v) ==
  /\ column # <<>>
  /\ FromSql(v, column) # None
  /\ hold' = [hold EXCEPT ![v] = FromSql(v, column)]
  /\ last' = <<v, "read">>
  /\ UNCHANGED <<kind, column, written>>

\* "corrupted db json value", "invalid ... value from DB", the error of from_inner.
Refuse(v) ==
  /\ column # <<>>
  /\ FromSql(v, column) = None
  /\ last' = <<v, "refused">> /\ Lose(v)

\* Another program writes what the column's type allows.
OtherWrite(x) ==
  /\ column' = IF kind = "jsonb" THEN ToJsonb(x) ELSE <<x>>
  /\ written' = Corrupt
  /\ last' = <<>> /\ UNCHANGED <<kind, hold>>

Next ==
  \/ \E v \in Versions :
       \/ \E x \in Domain(v) : Assign(v, x)
       \/ Write(v) \/ WritePanics(v) \/ Read(v) \/ Refuse(v)
  \/ \E x \in Signed : OtherWrite(x)

Spec == Init /\ [][Next]_vars

-----------------------------------------------------------------------------
(* Properties.                                                             *)

\* What a version reads is what a version wrote last, and always a value of its type,
\* whoever wrote it: no conversion makes one value out of another.
ReadsWhatWasWritten ==
  [][\A v \in Versions : last' = <<v, "read">> =>
       /\ hold'[v] \in Domain(v)
       /\ written # Corrupt => hold'[v] = written]_vars

\* A value that was written can be read by every version that has it in its types: only
\* "corrupted db json value"s are refused (src/src/db/primitives.rs l.83), and values
\* invalid in the enum (src/src/db/diesel/int_enum.rs l.73) or the new type.  A write
\* panics only with a "Field value overflow" (src/src/entity/field.rs l.167): a value of the
\* field's type that the column's does not have.
RefusedForReason ==
  [][\A v \in Versions :
       /\ last' = <<v, "refused">> => written \notin Domain(v)
       /\ last' = <<v, "panicked">> => hold[v] \in Domain(v) \ Signed]_vars
=============================================================================
