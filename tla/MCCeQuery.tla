------------------------------- MODULE MCCeQuery -------------------------------
(* Three records over up to three pages, with empty pages, for TLC. *)
EXTENDS CeQuery
=============================================================================
