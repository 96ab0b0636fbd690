------------------------------ MODULE MCEncounter ------------------------------
(* The encounter on a small battlefield. *)
EXTENDS EncounterProperties
=============================================================================
