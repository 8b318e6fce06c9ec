-------------------------- MODULE MCResourceRegistry --------------------------
(* Two owners of two resources, four ids and generations. *)
EXTENDS ResourceRegistry, TLC

Symmetry == Permutations(Resources)
=============================================================================
