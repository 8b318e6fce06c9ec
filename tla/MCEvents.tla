------------------------------- MODULE MCEvents -------------------------------
(***************************************************************************)
(* One part at a time: the events of two runs of a Runner on two threads,  *)
(* a test root each; and the scopes such runs are made of, two resource    *)
(* scopes, one with a cooperative adapter, over one free wait              *)
(* registration.  The part is chosen at the start and runs alone.          *)
(***************************************************************************)
EXTENDS Events, TLC

CONSTANTS a, b, x, z

TwoRuns == {a, b}
TwoRoots == {x, z}
RunOfTwo == (x :> a) @@ (z :> b)

VARIABLE part

PartInit == part \in {"events", "scopes"} /\ Init /\ Scope!Init

PartNext ==
  \/ part = "events" /\ Next /\ UNCHANGED <<part, scopeVars>>
  \/ part = "scopes" /\ Scope!Next /\ UNCHANGED <<part, vars>>

\* The events of a run that has not begun enable nothing; the scopes' safety needs no fairness.
PartSpec == PartInit /\ [][PartNext]_<<part, vars, scopeVars>> /\ Fairness
=============================================================================
