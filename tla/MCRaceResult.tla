----------------------------- MODULE MCRaceResult -----------------------------
(* A race whose branches provide records with a field that is optional, or not. *)
EXTENDS RaceResult, MCSources
=============================================================================
