----------------------------- MODULE MCLifeCycle ------------------------------
(* LifeCycle for TLC: MaxQueue is given in the configurations. *)
EXTENDS LifeCycle
=============================================================================
