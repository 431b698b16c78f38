------------------------------- MODULE MCDisplay -------------------------------
(* The instance of Display for TLC. *)
EXTENDS Display
=============================================================================
