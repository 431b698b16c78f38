----------------------------- MODULE TCPConnection -----------------------------
(***************************************************************************)
(* One tracked TCP connection: the record a TCPConnection object keeps and *)
(* what its constructor, acceptPacket(), match() and isFinished() do with  *)
(* a captured packet.  The module has no variables: Conversation feeds one *)
(* record with the traffic of two TCP peers, TCContainer keeps many.       *)
(*                                                                         *)
(* An endpoint is [addr, port].  A packet is a record                      *)
(*   [src, dst: endpoint, flags: set of flag names, seq, ack: 0..Word-1,   *)
(*    len: bytes of TCP payload, ver: 4 or 6]                              *)
(* without IP or TCP options.  Byte and packet counters, averages and host *)
(* names are left out: nothing below depends on them.                      *)
(***************************************************************************)
EXTENDS Integers

CONSTANT Word    \* number of values of seq_t, 2^32 in the program

ASSUME WordAssumption == Word \in Nat \ {0}

Sides == {"src", "dst"}            \* the two ends of a tracked connection
Other(s) == IF s = "src" THEN "dst" ELSE "src"

States == {"SYN_SYNACK", "SYNACK_ACK", "UP", "FIN_FINACK", "CLOSED", "RESET"}

(***************************************************************************)
(* Lengths.  total_len is the total length field of an IPv4 header, but    *)
(* the payload length field of an IPv6 header; header_len is the length of *)
(* the IP header in both cases, and the subtraction that yields the number *)
(* of user bytes is unsigned.                                              *)
(***************************************************************************)
TcpHeaderLen == 20
IpHeaderLen(p) == IF p.ver = 4 THEN 20 ELSE 40
TotalLen(p) == IF p.ver = 4 THEN 20 + TcpHeaderLen + p.len ELSE TcpHeaderLen + p.len
PayloadLen(p) == (TotalLen(p) - IpHeaderLen(p) - TcpHeaderLen) % Word

-----------------------------------------------------------------------------
(***************************************************************************)
(* match(): a packet belongs to the connection in either direction.  The   *)
(* bookkeeping of acceptPacket() then compares addresses only, so the      *)
(* "senders" of a packet are both sides when the two addresses are equal.  *)
(***************************************************************************)
Match(c, p) == \/ p.src = c.src /\ p.dst = c.dst
               \/ p.src = c.dst /\ p.dst = c.src

Senders(c, p) == {s \in Sides : p.src.addr = c[s].addr}

\* Faulty: a closed connection takes packets.
AcceptsWhenClosed(c, p) == Match(c, p)

Accepts(c, p) == c.state # "CLOSED" /\ Match(c, p)

\* Faulty: the payload of the FIN is not counted; the sum does not wrap.
FinAckNumberNoPayload(p) == (p.seq + 1) % Word
FinAckNumberNoWrap(p) == p.seq + PayloadLen(p) + 1

\* The acknowledgement number that a FIN asks for.
FinAckNumber(p) == (p.seq + PayloadLen(p) + 1) % Word

\* A FIN: finack_from_<other side> is set and its recvd_ flag is cleared.
NoteFin(c, p) ==
  LET asked == {s \in Sides : Other(s) \in Senders(c, p)}
  IN  IF "FIN" \in p.flags
      THEN [c EXCEPT
             !.finack = [s \in Sides |-> IF s \in asked THEN FinAckNumber(p) ELSE @[s]],
             !.recvd  = [s \in Sides |-> s \notin asked /\ @[s]]]
      ELSE c

\* Faulty: any ACK will do.
NoteFinAckAny(c, p) ==
  IF c.state = "FIN_FINACK" /\ "ACK" \in p.flags
  THEN [c EXCEPT !.recvd = [s \in Sides |-> @[s] \/ s \in Senders(c, p)]]
  ELSE c

\* An ACK seen while closing: recvd_finack_from_<sender> may become true.
NoteFinAck(c, p) ==
  IF c.state = "FIN_FINACK" /\ "ACK" \in p.flags
  THEN [c EXCEPT !.recvd =
         [s \in Sides |-> @[s] \/ (s \in Senders(c, p) /\ p.ack = c.finack[s])]]
  ELSE c

\* Faulty: the SYN|ACK is enough; one acknowledged FIN is enough.
NextStateNoFinalAck(c, p) ==
  CASE c.state \in {"SYN_SYNACK", "SYNACK_ACK"} /\ "ACK" \in p.flags -> "UP"
    [] c.state = "UP" /\ "FIN" \in p.flags                          -> "FIN_FINACK"
    [] OTHER                                                        -> c.state
NextStateOneFin(c, p) ==
  CASE c.state = "SYNACK_ACK" /\ "ACK" \in p.flags           -> "UP"
    [] c.state = "SYN_SYNACK" /\ {"SYN", "ACK"} \subseteq p.flags -> "SYNACK_ACK"
    [] c.state = "UP" /\ "FIN" \in p.flags                   -> "FIN_FINACK"
    [] c.state = "FIN_FINACK" /\ (\E s \in Sides : c.recvd[s]) -> "CLOSED"
    [] OTHER                                                 -> c.state

\* The chain of else-ifs on the state, after the bookkeeping above.
NextState(c, p) ==
  CASE c.state = "SYNACK_ACK" /\ "ACK" \in p.flags           -> "UP"
    [] c.state = "SYN_SYNACK" /\ {"SYN", "ACK"} \subseteq p.flags -> "SYNACK_ACK"
    [] c.state = "UP" /\ "FIN" \in p.flags                   -> "FIN_FINACK"
    [] c.state = "FIN_FINACK" /\ "ACK" \in p.flags /\ (\A s \in Sides : c.recvd[s])
                                                             -> "CLOSED"
    [] OTHER                                                 -> c.state

\* Faulty: RST is looked at on an open connection only; the idle time goes on.
AcceptPacketRstIfUp(c, p) ==
  LET d == NoteFinAck(NoteFin(c, p), p)
  IN  [d EXCEPT !.state = IF "RST" \in p.flags /\ @ = "UP" THEN "RESET" ELSE NextState(d, p),
                !.idle  = 0]
AcceptPacketStillIdle(c, p) ==
  LET d == NoteFinAck(NoteFin(c, p), p)
  IN  [d EXCEPT !.state = IF "RST" \in p.flags THEN "RESET" ELSE NextState(d, p)]

\* acceptPacket() on a packet with Accepts(c, p): a RST overrides the chain,
\* and every accepted packet restarts the idle time (last_pkt_ts).
AcceptPacket(c, p) ==
  LET d == NoteFinAck(NoteFin(c, p), p)
  IN  [d EXCEPT !.state = IF "RST" \in p.flags THEN "RESET" ELSE NextState(d, p),
                !.idle  = 0]

\* The constructor: the packet's source becomes the client.
NewConnection(p) ==
  [src    |-> p.src,
   dst    |-> p.dst,
   state  |-> IF "SYN" \in p.flags THEN "SYN_SYNACK" ELSE "UP",
   finack |-> [s \in Sides |-> 0],
   recvd  |-> [s \in Sides |-> FALSE],
   idle   |-> 0]

IsFinished(c) == c.state \in {"CLOSED", "RESET"}

=============================================================================
