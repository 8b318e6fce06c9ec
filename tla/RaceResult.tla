------------------------------ MODULE RaceResult ------------------------------
(***************************************************************************)
(* A bound race from its source to the binding: the compiler joins what    *)
(* the branches provide to the type of the binding, the winner provides a  *)
(* value of the type of its own branch, and the parent binds it as one of  *)
(* the type that was found (compile_concurrent(), execute_step() and       *)
(* bind_transfer()).                                                       *)
(***************************************************************************)
EXTENDS ValueTypes

CONSTANTS
  Types,       \* of what branches provide, and of annotations
  Values,      \* of a run
  MaxBranches  \* MAX_PARALLEL_BRANCHES

VARIABLES
  annotation,  \* the set of the type that is written, or empty
  provides,    \* the type of what each branch provides
  race,        \* what the compiler found: the type, and whether all fits it
  winner       \* the set of what the parent bound, Nobody before there is a winner

vars == <<annotation, provides, race, winner>>

Nobody == {Scalar("nobody")}
Unjoined == [ty |-> Unknown, fits |-> FALSE]

Init ==
  /\ annotation \in {{}} \cup {{t} : t \in Types}
  /\ provides = <<>> /\ race = Unjoined /\ winner = Nobody

Branch(t) ==
  /\ race = Unjoined /\ Len(provides) < MaxBranches
  /\ provides' = Append(provides, t)
  /\ UNCHANGED <<annotation, race, winner>>

Join ==
  /\ race = Unjoined /\ provides # <<>>
  /\ race' = RaceType(provides, annotation)
  /\ UNCHANGED <<annotation, provides, winner>>

\* Only what was compiled without a finding is run.
Win(i, value) ==
  /\ race.fits /\ winner = Nobody
  /\ \E provided \in Provided(value, provides[i]) : winner' = DecodeValue(provided, race.ty)
  /\ UNCHANGED <<annotation, provides, race>>

Next ==
  \/ \E t \in Types : Branch(t)
  \/ Join
  \/ \E i \in DOMAIN provides, value \in Values : Win(i, value)

Spec == Init /\ [][Next]_vars

-----------------------------------------------------------------------------
(* Properties                                                              *)

\* What a branch provided the parent can bind: decoding it against the type the compiler
\* found does not fail ("race winner value violates its result type").
WinnerBinds == winner # {}
=============================================================================
