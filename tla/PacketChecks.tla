----------------------------- MODULE PacketChecks -----------------------------
(***************************************************************************)
(* What becomes of a captured frame: getnlp() strips the link level        *)
(* header, checknlp() turns down what is not TCP over IP, and the packet   *)
(* buffer's thread builds a TCPPacket, whose constructors assert what      *)
(* checknlp() has checked.  The module follows one frame, in the fields    *)
(* that these functions look at:                                           *)
(*   dlt: link type, caplen: bytes captured, vlan: has a VLAN tag,         *)
(*   ip: the (inner) ether type is IP or IPv6, ver: IP version,            *)
(*   hl: IPv4 header length in words, iplen: the length field of the IP    *)
(*   header, tcp: its protocol is TCP, off: TCP header length in words,    *)
(*   sport, dport: ports.                                                  *)
(* The header fields are what is read where the code looks for them.  A    *)
(* NULL link (four bytes of address family) is taken for one with no       *)
(* header, so its fields are not those of the packet that was sent.        *)
(***************************************************************************)
EXTENDS Integers

CONSTANT Frames    \* the frames that may be captured

EN10MB == "EN10MB"
LinkTypes == {EN10MB, "LINUX_SLL", "RAW", "NULL"}

\* Values of an u_short.
UShort == 0 .. 65535

FrameType ==
  [dlt : LinkTypes, caplen : Nat, vlan : BOOLEAN, ip : BOOLEAN, ver : 0 .. 15,
   hl : 0 .. 15, iplen : UShort, tcp : BOOLEAN, off : 0 .. 15,
   sport : UShort, dport : UShort]

ASSUME FramesAssumption == Frames \subseteq FrameType

VARIABLES frame,    \* the captured frame
          len,      \* nlp::len: bytes of the network layer packet
          pc        \* captured, stripped, accepted, built or ignored

vars == <<frame, len, pc>>

IP_HEADER_LEN == 20
IP6_HEADER_LEN == 40
TCP_HEADER_LEN == 20

\* Faulty: no room for IP options.
SNAPLENShort == 80
SNAPLEN == 100

\* ENET_HEADER_LEN and VLAN_HEADER_LEN, SLL_HEADER_LEN, nothing.
LinkHeaderLen(f) == CASE f.dlt = EN10MB /\ f.vlan      -> 18
                      [] f.dlt = EN10MB /\ f.vlan = FALSE -> 14
                      [] f.dlt = "LINUX_SLL"           -> 16
                      [] OTHER                         -> 0

-----------------------------------------------------------------------------
\* The frame is long enough for a minimal IP header; a VLAN tag is not counted.
MinCaplen(f) == CASE f.dlt = EN10MB      -> 14 + IP_HEADER_LEN
                  [] f.dlt = "LINUX_SLL" -> 16 + IP_HEADER_LEN
                  [] OTHER               -> IP_HEADER_LEN

\* Faulty: only the link header has to be there.
StripsAnything(f) == f.dlt = EN10MB => f.ip

Strips(f) == f.caplen >= MinCaplen(f) /\ (f.dlt = EN10MB => f.ip)

GetNlp ==
  /\ pc = "captured"
  /\ IF Strips(frame)
     THEN pc' = "stripped" /\ len' = frame.caplen - LinkHeaderLen(frame)
     ELSE pc' = "ignored" /\ len' = len
  /\ UNCHANGED frame

HeaderLen(f) == IF f.ver = 6 THEN IP6_HEADER_LEN ELSE f.hl * 4

TcpChecks(f) == f.off >= 5 /\ f.sport # 0 /\ f.dport # 0

\* Faulty: forgets the smallest IPv4 header, the TCP header.
Checks4AnyHeader(f, n) == /\ n >= HeaderLen(f) + TCP_HEADER_LEN
                          /\ f.ver = 4
                          /\ f.iplen >= HeaderLen(f) + TCP_HEADER_LEN
                          /\ f.tcp /\ TcpChecks(f)
Checks4NoTcp(f, n) == /\ n >= HeaderLen(f)
                      /\ f.ver = 4
                      /\ f.iplen >= HeaderLen(f) + TCP_HEADER_LEN
                      /\ f.hl >= 5 /\ f.tcp /\ TcpChecks(f)

\* The checks of a packet of n bytes whose version is 6, and of any other.
Checks6(f, n) == /\ n >= IP6_HEADER_LEN + TCP_HEADER_LEN
                 /\ f.tcp /\ TcpChecks(f)
Checks4(f, n) == /\ n >= HeaderLen(f) + TCP_HEADER_LEN
                 /\ f.ver = 4
                 /\ f.iplen >= HeaderLen(f) + TCP_HEADER_LEN
                 /\ f.hl >= 5 /\ f.tcp /\ TcpChecks(f)

CheckNlp ==
  /\ pc = "stripped"
  /\ pc' = IF \/ frame.ver = 6 /\ Checks6(frame, len)
              \/ frame.ver # 6 /\ Checks4(frame, len)
           THEN "accepted" ELSE "ignored"
  /\ UNCHANGED <<frame, len>>

\* newTCPPacket() and the constructors of TCPPacket and TCPHeader.
NewTCPPacket ==
  /\ pc = "accepted" /\ pc' = "built"
  /\ UNCHANGED <<frame, len>>

Init == frame \in Frames /\ len = 0 /\ pc = "captured"
Next == GetNlp \/ CheckNlp \/ NewTCPPacket
Spec == Init /\ [][Next]_vars

-----------------------------------------------------------------------------
(* Properties. *)

\* The type invariant: the length of what is copied is never negative.
TypeOK == /\ frame \in Frames /\ len \in Nat
          /\ pc \in {"captured", "stripped", "accepted", "built", "ignored"}

\* No assertion fails on a packet that was let through: those of TCPPacket
\* (TCPPacket.cc:18-20, 40), of TCPHeader (TCPHeader.cc:11), that of the packet
\* buffer that a packet was made (PacketBuffer.cc:158), and those of the hash
\* of its socket pair, which divides by the ports (SocketPair.cc:57-61).
Assertions(f, n) == /\ f.ver \in {4, 6} /\ f.tcp /\ f.off >= 5
                    /\ f.sport # 0 /\ f.dport # 0
                    /\ f.ver = 4 => n >= 20 /\ f.iplen >= 20 /\ f.hl >= 5
AssertionsHold == pc \in {"accepted", "built"} => Assertions(frame, len)

\* The fields the constructors read have been captured: the IP header of the
\* length it claims and the fixed part of the TCP header, in the copy that
\* getnlp() made of the end of the frame.
FieldsCaptured ==
  pc \in {"accepted", "built"} =>
    /\ HeaderLen(frame) + TCP_HEADER_LEN <= len
    /\ LinkHeaderLen(frame) + len = frame.caplen

\* Every correct TCP packet is let through although only SNAPLEN bytes of it
\* are captured, whatever options its headers carry (defs.h:17-18, "as long
\* as biggest link level header len + vlan header len + IP header len + tcp
\* header len").
PacketLen(f) == IF f.ver = 6 THEN IP6_HEADER_LEN + f.iplen ELSE f.iplen
Correct(f) ==
  /\ f.dlt # "NULL" /\ (f.dlt = EN10MB => f.ip)
  /\ f.ver \in {4, 6} /\ (f.ver = 4 => f.hl >= 5)
  /\ f.tcp /\ TcpChecks(f)
  /\ PacketLen(f) >= HeaderLen(f) + f.off * 4
  /\ f.caplen >= (IF LinkHeaderLen(f) + PacketLen(f) <= SNAPLEN
                  THEN LinkHeaderLen(f) + PacketLen(f) ELSE SNAPLEN)
CorrectIsAccepted == Correct(frame) => pc # "ignored"

=============================================================================
