------------------------------ MODULE ValueTypes ------------------------------
(***************************************************************************)
(* The types of a program and the values of a run: what a type accepts     *)
(* (crates/model), which types and values may cross into another branch,   *)
(* how a value is decoded against a type (crates/runtime/evaluation), and  *)
(* how the compiler finds the type of a bound race from what its branches  *)
(* provide (crates/analysis/compiler/statements).  A record has one field, *)
(* "a".  Operators only.                                                   *)
(***************************************************************************)
EXTENDS Naturals, Sequences, SequencesExt

Plain(k) == [k |-> k]
Of(k, t) == [k |-> k, of |-> t]
NoFields == [k |-> "Record", fields |-> {}]
Field(t, optional) == [k |-> "Record", fields |-> {[ty |-> t, optional |-> optional]}]
Unknown == Plain("Unknown")

FieldOf(record) == CHOOSE f \in record.fields : TRUE

RECURSIVE IsTransferable(_)
IsTransferable(t) ==
  CASE t.k \in {"List", "Option"} -> IsTransferable(t.of)
    [] t.k = "Record" -> \A f \in t.fields : IsTransferable(f.ty)
    [] OTHER -> t.k \in {"Null", "Bool", "Int", "Float", "String", "Duration", "Url", "Json"}

JsonKinds == {"Null", "Bool", "Int", "Float", "String", "List", "Record"}

\* What may stand where "expected" is expected.
RECURSIVE Accepts(_, _)
Accepts(expected, actual) ==
  \/ expected = actual \/ "Unknown" \in {expected.k, actual.k}
  \/ expected.k = "Float" /\ actual.k = "Int"
  \/ {expected.k, actual.k} = {"StatusCode", "Int"}
  \/ expected.k = "Json" /\ actual.k \in JsonKinds
  \/ expected.k = "Option" /\ actual.k = "Null"
  \/ /\ expected.k = "Option"
     /\ Accepts(expected.of, IF actual.k = "Option" THEN actual.of ELSE actual)
  \/ expected.k = actual.k /\ expected.k \in {"List", "Response"} /\ Accepts(expected.of, actual.of)
  \/ /\ expected.k = "Record" /\ actual.k = "Record"
     /\ \A f \in expected.fields :
          IF actual.fields = {} THEN f.optional
          ELSE LET g == FieldOf(actual) IN Accepts(f.ty, g.ty) /\ (f.optional \/ ~g.optional)

-----------------------------------------------------------------------------
(* The type of a bound race                                                *)

\* Mutant: a branch that provides null leaves the type as it is.
OrNullNot(t) == t

OrNull(t) == Of("Option", t)

\* The set of the one type both fit, or none.
RECURSIVE Compatible(_, _)
Compatible(left, right) ==
  LET Wrapped(k, ts) == {Of(k, t) : t \in ts} IN
  CASE Accepts(left, right) -> {left}
    [] Accepts(right, left) -> {right}
    [] left.k = "Null" -> {OrNull(right)}
    [] right.k = "Null" -> {OrNull(left)}
    [] left.k = "Option" /\ right.k = "Option" -> Wrapped("Option", Compatible(left.of, right.of))
    [] left.k = "List" /\ right.k = "List" -> Wrapped("List", Compatible(left.of, right.of))
    [] left.k = "Option" -> Wrapped("Option", Compatible(left.of, right))
    [] right.k = "Option" -> Wrapped("Option", Compatible(right.of, left))
    [] OTHER -> {}

\* Mutant: the first branch decides.
JoinOneFirst(sofar, actual, annotated) ==
  IF sofar.ty = Unknown THEN [sofar EXCEPT !.ty = actual] ELSE sofar

Joined(sofar, types) ==
  IF types = {} THEN [sofar EXCEPT !.fits = FALSE] ELSE [sofar EXCEPT !.ty = CHOOSE t \in types : TRUE]

\* A branch more: an annotation constrains it, else the type widens.  "fits" is what the
\* compiler has found no mismatch in.
JoinOne(sofar, actual, annotated) ==
  CASE sofar.ty = Unknown -> [sofar EXCEPT !.ty = actual]
    [] sofar.ty # Unknown /\ Accepts(sofar.ty, actual) -> sofar
    [] OTHER -> Joined(sofar, IF annotated THEN {} ELSE Compatible(sofar.ty, actual))

Transferable(results, joined) ==
  [joined EXCEPT !.fits = @ /\ IsTransferable(joined.ty)
                          /\ \A i \in DOMAIN results : IsTransferable(results[i])]

\* The annotations are the set of the one that is written, or empty.
RaceType(results, annotations) ==
  Transferable(results,
    FoldLeft(LAMBDA sofar, t : JoinOne(sofar, t, annotations # {}),
             [ty |-> IF annotations = {} THEN Unknown ELSE CHOOSE t \in annotations : TRUE, fits |-> TRUE],
             results))

-----------------------------------------------------------------------------
(* Values                                                                  *)

Scalar(k) == [v |-> k]
ListOf(value) == [v |-> "list", of |-> {value}]
RecordOf(values) == [v |-> "record", of |-> values]

RECURSIVE RuntimeTransferable(_)
RuntimeTransferable(value) ==
  IF value.v \in {"list", "record"} THEN \A x \in value.of : RuntimeTransferable(x)
  ELSE value.v \in {"null", "bool", "int", "float", "string", "duration"}

\* The set of what a value becomes, empty where it does not fit.
RECURSIVE DecodeValue(_, _)
DecodeValue(value, expected) ==
  CASE expected.k \in {"Json", "Unknown"} -> {value}
    [] expected.k = "Null" -> {value} \cap {Scalar("null")}
    [] expected.k \in {"Int", "StatusCode"} -> {value} \cap {Scalar("int")}
    [] expected.k = "Float" -> IF value.v \in {"int", "float"} THEN {Scalar("float")} ELSE {}
    [] expected.k = "Duration" -> {value} \cap {Scalar("duration")}
    [] expected.k = "Bytes" -> {value} \cap {Scalar("bytes")}
    [] expected.k = "Option" -> IF value.v = "null" THEN {value} ELSE DecodeValue(value, expected.of)
    [] expected.k = "List" ->
         IF value.v # "list" THEN {}
         ELSE {ListOf(x) : x \in UNION {DecodeValue(y, expected.of) : y \in value.of}}
              \cup {x \in {value} : x.of = {}}
    [] expected.k = "Record" ->
         CASE value.v # "record" -> {}
           [] expected.fields = {} -> {RecordOf({})}
           [] value.of # {} -> {RecordOf({x}) :
                                  x \in UNION {DecodeValue(y, FieldOf(expected).ty) : y \in value.of}}
           [] OTHER -> IF FieldOf(expected).optional THEN {RecordOf({Scalar("null")})} ELSE {}
    [] OTHER -> {}

\* execute_step(): a provide leaves its branch only as a value that may cross and is of its type.
Provided(value, ty) == IF RuntimeTransferable(value) THEN DecodeValue(value, ty) ELSE {}
=============================================================================
