---------------------------- MODULE MCPacketChecks ----------------------------
(* The instance of PacketChecks for TLC: lengths on both sides of every       *)
(* limit in the code.                                                         *)
EXTENDS PacketChecks

\* Captures cut at and around the shortest ones that each branch lets
\* through, and at SNAPLEN.
Caplens == {0, 19, 20, 33, 34, 36, 57, 58, 60, 74, 78, 98, SNAPLEN}

TestFrames ==
  [dlt : {EN10MB, "LINUX_SLL", "RAW"}, caplen : Caplens, vlan : BOOLEAN, ip : BOOLEAN,
   ver : {4, 5, 6}, hl : {0, 4, 5, 15}, iplen : {0, 20, 39, 40, 120}, tcp : BOOLEAN,
   off : {4, 5, 15}, sport : {1}, dport : {0, 1}]
=============================================================================
