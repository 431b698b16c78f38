------------------------------ MODULE Conversation ------------------------------
(***************************************************************************)
(* One TCP conversation watched by tcptrack.  Two peers, which are not     *)
(* part of the program, open, use and close a connection; the segments of  *)
(* each pass the sniffer on their way to the other.  conn is the record    *)
(* tcptrack keeps: TCContainer::processPacket() creates it from the first  *)
(* SYN and gives it every later segment that is captured.                  *)
(*                                                                         *)
(* The peers follow TCP as far as the record can tell: cumulative          *)
(* acknowledgement, delayed or piggybacked ACKs, half close, retransmission*)
(* of the oldest unacknowledged segment, abort by RST.  The network loses  *)
(* segments on either side of the sniffer and reorders them before it, and *)
(* the kernel may drop a copy before the sniffer reads it.  Every such     *)
(* event draws on a budget.                                                *)
(***************************************************************************)
EXTENDS TCPConnection, Sequences

CONSTANTS ClientAddr, ServerAddr,   \* equal for a conversation over loopback
          ClientPort, ServerPort,
          Version,                  \* 4 or 6
          ISS,                      \* [client, server]: initial sequence numbers
          Budgets                   \* the allowed counts of disturbances

\* What may happen besides the orderly exchange: data segments, resends (of
\* SYNs, of other segments), lost, missed and reordered segments, aborts.
Kinds == {"data", "resyn", "resend", "lost", "missed", "swapped", "abort"}

ASSUME ConversationAssumption ==
  /\ Version \in {4, 6}
  /\ Budgets \subseteq [Kinds -> Nat]
  /\ ISS.client \in 0 .. Word - 1 /\ ISS.server \in 0 .. Word - 1
  /\ <<ClientAddr, ClientPort>> # <<ServerAddr, ServerPort>>

VARIABLES peer,     \* what each peer knows
          before,   \* segments of each peer that have not reached the sniffer
          after,    \* segments of each peer between the sniffer and the other
          conn,     \* the tracked connection, or NoConn
          spent     \* how often each kind of disturbance has happened

vars == <<peer, before, after, conn, spent>>

Peers == {"client", "server"}
Partner(x) == IF x = "client" THEN "server" ELSE "client"
Endpoint == [client |-> [addr |-> ClientAddr, port |-> ClientPort],
             server |-> [addr |-> ServerAddr, port |-> ServerPort]]
NoConn == [state |-> "none"]

-----------------------------------------------------------------------------
(* The peers. *)

\* Sequence numbers a segment occupies, and the number that follows it.
Size(g) == g.len + (IF g.flags \cap {"SYN", "FIN"} # {} THEN 1 ELSE 0)
Next_(g) == (g.seq + Size(g)) % Word

Segment(x, flags, seq, ack, len) ==
  [src |-> Endpoint[x], dst |-> Endpoint[Partner(x)],
   flags |-> flags, seq |-> seq, ack |-> ack, len |-> len, ver |-> Version]

\* Peer x, in the state q, sends a new segment; it acknowledges what it owes.
Emit(x, q, flags, len) ==
  LET g == Segment(x, flags, q.snd, IF "ACK" \in flags THEN q.rcv ELSE 0, len)
  IN  /\ before' = [before EXCEPT ![x] = Append(@, g)]
      /\ peer' = [peer EXCEPT ![x] =
           [q EXCEPT !.snd     = Next_(g),
                     !.unacked = IF Size(g) > 0 THEN Append(@, g) ELSE @,
                     !.fin     = @ \/ "FIN" \in flags,
                     !.owes    = @ /\ "ACK" \notin flags]]

\* One more disturbance, within one of the budgets.
Spend(kind) ==
  /\ spent' = [spent EXCEPT ![kind] = @ + 1]
  /\ \E b \in Budgets : \A k \in Kinds : spent'[k] <= b[k]

Open ==
  /\ peer["client"].stage = "closed"
  /\ Emit("client", [peer["client"] EXCEPT !.stage = "opening"], {"SYN"}, 0)
  /\ UNCHANGED <<after, conn, spent>>

SendAck(x) ==
  /\ peer[x].owes
  /\ Emit(x, peer[x], {"ACK"}, 0)
  /\ UNCHANGED <<after, conn, spent>>

SendData(x) ==
  /\ peer[x].stage = "open" /\ ~peer[x].fin
  /\ Spend("data")
  /\ Emit(x, peer[x], {"ACK"}, 1)
  /\ UNCHANGED <<after, conn>>

\* A FIN, alone or on the last byte of data.
SendFin(x, len) ==
  /\ peer[x].stage = "open" /\ ~peer[x].fin
  /\ Emit(x, peer[x], {"FIN", "ACK"}, len)
  /\ UNCHANGED <<after, conn, spent>>

Abort(x) ==
  /\ peer[x].stage = "open"
  /\ Spend("abort")
  /\ Emit(x, [peer[x] EXCEPT !.stage = "aborted", !.owes = FALSE, !.unacked = <<>>],
          {"RST", "ACK"}, 0)
  /\ UNCHANGED <<after, conn>>

\* The retransmission timer: the oldest unacknowledged segment once more.
Resend(x) ==
  /\ peer[x].unacked # <<>>
  /\ Spend(IF "SYN" \in Head(peer[x].unacked).flags THEN "resyn" ELSE "resend")
  /\ LET g == Head(peer[x].unacked)
         h == [g EXCEPT !.ack = IF "ACK" \in g.flags THEN peer[x].rcv ELSE 0]
     IN  before' = [before EXCEPT ![x] = Append(@, h)]
  /\ peer' = [peer EXCEPT ![x].owes = @ /\ "ACK" \notin Head(peer[x].unacked).flags]
  /\ UNCHANGED <<after, conn>>

-----------------------------------------------------------------------------
(* What a peer does with a segment g that reaches it. *)

\* The unacknowledged segments that remain after the acknowledgement in g.
StillUnacked(q, g) ==
  LET covered == {i \in 1 .. Len(q.unacked) : Next_(q.unacked[i]) = g.ack}
  IN  IF "ACK" \in g.flags /\ covered # {}
      THEN SubSeq(q.unacked, 1 + (CHOOSE i \in covered : TRUE), Len(q.unacked))
      ELSE q.unacked

\* The peer's state after g, in order or a duplicate.
Digest(q, g) ==
  LET inOrder == g.seq = q.rcv
  IN  [q EXCEPT !.unacked = StillUnacked(q, g),
                !.rcv     = IF inOrder THEN Next_(g) ELSE @,
                !.owes    = @ \/ Size(g) > 0,
                !.heard   = @ \/ (inOrder /\ "FIN" \in g.flags)]

ReceiveSyn(x, g) ==
  /\ x = "server" /\ peer[x].stage = "closed" /\ "SYN" \in g.flags
  /\ Emit(x, [peer[x] EXCEPT !.stage = "opening", !.rcv = Next_(g)], {"SYN", "ACK"}, 0)

ReceiveSynAck(x, g) ==
  /\ x = "client" /\ peer[x].stage = "opening" /\ {"SYN", "ACK"} \subseteq g.flags
  /\ Emit(x, [Digest([peer[x] EXCEPT !.rcv = g.seq], g) EXCEPT !.stage = "open"],
          {"ACK"}, 0)

ReceiveRst(x, g) ==
  /\ "RST" \in g.flags
  /\ peer' = [peer EXCEPT ![x].stage = "aborted", ![x].owes = FALSE, ![x].unacked = <<>>]
  /\ UNCHANGED before

ReceiveOther(x, g) ==
  /\ "RST" \notin g.flags
  /\ \/ peer[x].stage = "open"
     \/ x = "server" /\ peer[x].stage = "opening"
  /\ peer' = [peer EXCEPT ![x] =
       LET q == Digest(@, g)
       IN  [q EXCEPT !.stage = IF q.unacked = <<>> THEN "open" ELSE @]]
  /\ UNCHANGED before

\* A segment the peer has no use for: it has aborted, or has not opened yet.
ReceiveNothing(x, g) ==
  /\ "RST" \notin g.flags
  /\ \/ peer[x].stage = "aborted"
     \/ x = "client" /\ peer[x].stage = "opening" /\ ~({"SYN", "ACK"} \subseteq g.flags)
  /\ UNCHANGED <<peer, before>>

Receive(x) ==
  /\ after[Partner(x)] # <<>>
  /\ after' = [after EXCEPT ![Partner(x)] = Tail(@)]
  /\ LET g == Head(after[Partner(x)])
     IN  \/ ReceiveSyn(x, g)
         \/ ReceiveSynAck(x, g)
         \/ ReceiveRst(x, g)
         \/ ReceiveOther(x, g)
         \/ ReceiveNothing(x, g)
  /\ UNCHANGED <<conn, spent>>

-----------------------------------------------------------------------------
(* The network and the sniffer. *)

Pass(x) == /\ before[x] # <<>>
           /\ before' = [before EXCEPT ![x] = Tail(@)]
           /\ after' = [after EXCEPT ![x] = Append(@, Head(before[x]))]

\* processPacket() for the one socket pair of this conversation: the record
\* is offered the packet, or is created by a SYN without an ACK.
Observe(c, g) ==
  IF c # NoConn
  THEN IF Accepts(c, g) THEN AcceptPacket(c, g) ELSE c
  ELSE IF "SYN" \in g.flags /\ "ACK" \notin g.flags THEN NewConnection(g) ELSE c

Capture(x) ==
  /\ Pass(x)
  /\ conn' = Observe(conn, Head(before[x]))
  /\ UNCHANGED <<peer, spent>>

Miss(x) == Pass(x) /\ Spend("missed") /\ UNCHANGED <<peer, conn>>

LoseBefore(x) ==
  /\ before[x] # <<>> /\ Spend("lost")
  /\ before' = [before EXCEPT ![x] = Tail(@)]
  /\ UNCHANGED <<peer, after, conn>>

\* A segment is overtaken by the one behind it.
SwapBefore(x) ==
  /\ Len(before[x]) > 1 /\ Spend("swapped")
  /\ before' = [before EXCEPT ![x] = <<@[2], @[1]>> \o SubSeq(@, 3, Len(@))]
  /\ UNCHANGED <<peer, after, conn>>

LoseAfter(x) ==
  /\ after[x] # <<>> /\ Spend("lost")
  /\ after' = [after EXCEPT ![x] = Tail(@)]
  /\ UNCHANGED <<peer, before, conn>>

-----------------------------------------------------------------------------
Init ==
  /\ peer = [x \in Peers |-> [stage |-> "closed", snd |-> ISS[x], rcv |-> 0,
                              unacked |-> <<>>, owes |-> FALSE,
                              fin |-> FALSE, heard |-> FALSE]]
  /\ before = [x \in Peers |-> <<>>]
  /\ after = [x \in Peers |-> <<>>]
  /\ conn = NoConn
  /\ spent = [k \in Kinds |-> 0]

Next ==
  \/ Open
  \/ \E x \in Peers :
       \/ SendAck(x) \/ SendData(x) \/ (\E len \in {0, 1} : SendFin(x, len))
       \/ Abort(x) \/ Resend(x) \/ Receive(x)
       \/ Capture(x) \/ Miss(x) \/ LoseBefore(x) \/ LoseAfter(x)
       \/ SwapBefore(x)

Spec == Init /\ [][Next]_vars

-----------------------------------------------------------------------------
(* Properties. *)

Flags == {"SYN", "ACK", "FIN", "RST"}
Segments == [src : {Endpoint[x] : x \in Peers}, dst : {Endpoint[x] : x \in Peers},
             flags : SUBSET Flags, seq : 0 .. Word - 1, ack : 0 .. Word - 1,
             len : {0, 1}, ver : {Version}]

\* The type invariant: the record of TCPConnection.h, and the peers around it.
TypeOK ==
  /\ \A x \in Peers :
       /\ peer[x].stage \in {"closed", "opening", "open", "aborted"}
       /\ peer[x].snd \in 0 .. Word - 1 /\ peer[x].rcv \in 0 .. Word - 1
       /\ peer[x].fin \in BOOLEAN /\ peer[x].heard \in BOOLEAN /\ peer[x].owes \in BOOLEAN
       /\ \A w \in {before, after} : \A i \in 1 .. Len(w[x]) : w[x][i] \in Segments
  /\ conn # NoConn =>
       /\ conn.state \in States /\ conn.idle = 0
       /\ conn.finack \in [Sides -> 0 .. Word - 1] /\ conn.recvd \in [Sides -> BOOLEAN]
  /\ spent \in [Kinds -> Nat]

\* The sequence numbers the peers use stay apart: only the one that follows a
\* FIN may wrap around, and it then is none of those used before.  (The record
\* starts with finack = 0, so that no other number may be 0.)
NumbersApart ==
  /\ Budgets # {}
  /\ \A b \in Budgets, x \in Peers : ISS[x] + 1 + b["data"] < Word /\ b["data"] + 3 < Word

Never(kinds) == \A k \in kinds : spent[k] = 0

\* A connection shown as established has been opened by both peers: the
\* client has the server's SYN|ACK.  (TCPConnection.h:36: "SYN&ACK response
\* sent, waiting for ACK", TCPConnection.cc:272: "connection up".)  A SYN|ACK
\* that is sent again is taken for the last ACK of the handshake.
UpMeansOpened ==
  Never({"resyn"}) /\ conn.state = "UP" => peer["client"].stage # "opening"

\* A connection shown as CLOSED is closed in both directions: each peer has
\* sent its FIN and the other one has received it.  (acceptPacket() closes
\* after "an appropriate ack" from both, TCPConnection.cc:249-250.)
ClosedMeansBothClosed ==
  conn.state = "CLOSED" => \A x \in Peers : peer[x].fin /\ peer[x].heard

\* When both peers have closed and there is nothing left to send, resend or
\* acknowledge, tcptrack knows that the connection is over: no further
\* packet could tell it.  Not so if it missed a segment, or saw one that was
\* lost behind it, or if an acknowledgement overtook the FIN it belongs to.
Quiet == /\ before = [x \in Peers |-> <<>>] /\ after = [x \in Peers |-> <<>>]
         /\ \A x \in Peers : /\ peer[x].fin /\ peer[x].heard
                             /\ peer[x].unacked = <<>> /\ ~peer[x].owes
QuietMeansFinished == Never({"lost", "missed", "swapped"}) /\ Quiet => IsFinished(conn)

\* When one peer has aborted and the other one knows, the connection is shown
\* as reset or closed, whatever is still in flight (TCPConnection.cc:298-299).
\* Not so if the capture missed a segment; and two RSTs may cross before they
\* reach the sniffer.
AbortedMeansFinished ==
  Never({"missed"}) /\ spent["abort"] <= 1 /\ (\A x \in Peers : peer[x].stage = "aborted")
    => IsFinished(conn)

=============================================================================
