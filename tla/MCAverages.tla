------------------------------- MODULE MCAverages -------------------------------
(* The instance of Averages for TLC. *)
EXTENDS Averages
=============================================================================
