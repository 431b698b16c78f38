---------------------------- MODULE MCPacketBuffer ----------------------------
(* The instance of PacketBuffer for TLC: all of its constants are model      *)
(* values and numbers, given in the configuration.                           *)
EXTENDS PacketBuffer
=============================================================================
