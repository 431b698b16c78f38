--------------------------- MODULE ConversationProofs ---------------------------
(***************************************************************************)
(* Proofs about a conversation, for any budgets of losses, misses,         *)
(* overtakings, data and aborts, any initial sequence numbers and either   *)
(* version of IP: tcptrack does not show a connection as established       *)
(* before the handshake has reached the client.                            *)
(***************************************************************************)
EXTENDS Conversation, SequenceTheorems, TLAPS

Fields == {"stage", "snd", "rcv", "unacked", "owes", "fin", "heard"}

\* What the steps of a peer and of the network look at is there.
Shape == /\ DOMAIN peer = Peers /\ DOMAIN before = Peers /\ DOMAIN after = Peers
         /\ \A x \in Peers : DOMAIN peer[x] = Fields
         /\ "state" \in DOMAIN conn
         /\ spent \in [Kinds -> Nat]

\* At most one segment, with these flags.
AtMost(s, flags) == s = <<>> \/ \E g : s = <<g>> /\ g.flags = flags

Silent(x) == before[x] = <<>> /\ after[x] = <<>>
NothingDue == \A x \in Peers : ~peer[x].owes

\* The phases of the handshake.
NotOpened ==
  /\ peer["client"].stage = "closed" /\ peer["server"].stage = "closed"
  /\ \A x \in Peers : Silent(x) /\ peer[x].unacked = <<>>
  /\ NothingDue /\ conn = NoConn

SynSent ==
  /\ peer["client"].stage = "opening" /\ peer["server"].stage = "closed"
  /\ AtMost(before["client"], {"SYN"}) /\ AtMost(after["client"], {"SYN"})
  /\ before["client"] = <<>> \/ after["client"] = <<>>
  /\ AtMost(peer["client"].unacked, {"SYN"})
  /\ Silent("server") /\ peer["server"].unacked = <<>>
  /\ NothingDue /\ conn.state \in {"none", "SYN_SYNACK"}

SynAckSent ==
  /\ peer["client"].stage = "opening" /\ peer["server"].stage = "opening"
  /\ Silent("client") /\ AtMost(peer["client"].unacked, {"SYN"})
  /\ AtMost(before["server"], {"SYN", "ACK"}) /\ AtMost(after["server"], {"SYN", "ACK"})
  /\ AtMost(peer["server"].unacked, {"SYN", "ACK"})
  /\ NothingDue
  /\ conn.state \in {"none", "SYN_SYNACK", "SYNACK_ACK"}
  /\ before["server"] = <<>> \/ (after["server"] = <<>> /\ conn.state # "SYNACK_ACK")

Opened == peer["client"].stage \in {"open", "aborted"}

Phases == NotOpened \/ SynSent \/ SynAckSent \/ Opened

\* Nothing is retransmitted in the first phases but a SYN.
IInv == Shape /\ (spent["resyn"] = 0 => Phases)

LEMMA InitIInv == Init => IInv
PROOF
  <1> SUFFICES ASSUME Init  PROVE IInv
    OBVIOUS
  <1>1. Shape
    BY DEF Init, Shape, Fields, NoConn
  <1>2. NotOpened
    BY DEF Init, NotOpened, Silent, NothingDue, Peers
  <1> QED  BY <1>1, <1>2 DEF IInv, Phases

-----------------------------------------------------------------------------
(* The parts of the steps. *)

\* What Emit does to the peer that sends, and to the other.
Sends(x, q, flags) ==
  /\ DOMAIN peer' = Peers /\ DOMAIN before' = Peers
  /\ DOMAIN peer'[x] = Fields
  /\ \A y \in Peers : y # x => peer'[y] = peer[y] /\ before'[y] = before[y]
  /\ peer'[x].stage = q.stage
  /\ peer'[x].owes = (q.owes /\ "ACK" \notin flags)
  /\ \E g : /\ g.flags = flags
            /\ before'[x] = Append(before[x], g)
            /\ peer'[x].unacked = q.unacked \/ peer'[x].unacked = Append(q.unacked, g)

LEMMA Emitted ==
  ASSUME Shape, NEW x \in Peers, NEW q, DOMAIN q = Fields, NEW flags, NEW len,
         Emit(x, q, flags, len)
  PROVE  Sends(x, q, flags)
PROOF
  <1> DEFINE g == Segment(x, flags, q.snd, IF "ACK" \in flags THEN q.rcv ELSE 0, len)
  <1>1. g.flags = flags
    BY DEF Segment
  <1> DEFINE r == [q EXCEPT !.snd     = Next_(g),
                            !.unacked = IF Size(g) > 0 THEN Append(@, g) ELSE @,
                            !.fin     = @ \/ "FIN" \in flags,
                            !.owes    = @ /\ "ACK" \notin flags]
  <1>2. /\ before' = [before EXCEPT ![x] = Append(before[x], g)]
        /\ peer' = [peer EXCEPT ![x] = r]
    BY DEF Emit
  <1> HIDE DEF g
  <1>3. /\ DOMAIN r = Fields /\ r.stage = q.stage
        /\ r.owes = (q.owes /\ "ACK" \notin flags)
        /\ r.unacked = q.unacked \/ r.unacked = Append(q.unacked, g)
    BY DEF Fields
  <1> HIDE DEF r
  <1> QED  BY <1>1, <1>2, <1>3 DEF Shape, Sends

\* The budgets only grow.
LEMMA Spent ==
  ASSUME Shape, NEW kind \in Kinds, Spend(kind)
  PROVE  /\ spent' \in [Kinds -> Nat]
         /\ spent'["resyn"] = 0 => spent["resyn"] = 0 /\ kind # "resyn"
  BY DEF Shape, Spend, Kinds

\* A record that the handshake has made is not established by a SYN, nor by the
\* first SYN|ACK.
LEMMA Observed ==
  ASSUME NEW c, "state" \in DOMAIN c, NEW g
  PROVE  /\ "state" \in DOMAIN Observe(c, g)
         /\ c.state \in {"none", "SYN_SYNACK"} /\ g.flags = {"SYN"} =>
              Observe(c, g).state \in {"none", "SYN_SYNACK"}
         /\ c.state \in {"none", "SYN_SYNACK"} /\ g.flags = {"SYN", "ACK"} =>
              Observe(c, g).state \in {"none", "SYN_SYNACK", "SYNACK_ACK"}
  BY DEF Observe, AcceptPacket, NoteFin, NoteFinAck, NextState, NewConnection, NoConn

\* Every peer that sends does it with one of these states, and what it makes of a
\* segment has the fields of a peer.
LEMMA Digested ==
  ASSUME NEW q, DOMAIN q = Fields, NEW g
  PROVE  DOMAIN Digest(q, g) = Fields /\ Digest(q, g).stage = q.stage
  BY DEF Digest, Fields

-----------------------------------------------------------------------------
(* The shape, and connections that are open, stay. *)

\* A step of a peer moves it on from its stage as TCP has it, and changes
\* neither the other peer nor the record.
PeerStep(x) ==
  /\ DOMAIN peer' = Peers /\ DOMAIN before' = Peers /\ DOMAIN after' = Peers
  /\ \A y \in Peers : DOMAIN peer'[y] = Fields
  /\ \A y \in Peers : y # x => peer'[y] = peer[y]
  /\ peer[x].stage \in {"open", "aborted"} => peer'[x].stage \in {"open", "aborted"}
  /\ conn' = conn

LEMMA PeerSteps ==
  ASSUME Shape, NEW x \in Peers,
         \/ x = "client" /\ Open
         \/ SendAck(x) \/ SendData(x) \/ (\E len \in {0, 1} : SendFin(x, len))
         \/ Abort(x) \/ Resend(x) \/ Receive(x)
  PROVE  PeerStep(x)
PROOF
  <1>1. /\ DOMAIN peer = Peers /\ DOMAIN before = Peers /\ DOMAIN after = Peers
        /\ \A y \in Peers : DOMAIN peer[y] = Fields
    BY DEF Shape
  \* Whoever emits a segment is left in the state it emits it in.
  <1>2. ASSUME NEW q, NEW flags, NEW len, Emit(x, q, flags, len), DOMAIN q = Fields,
               peer[x].stage \in {"open", "aborted"} => q.stage \in {"open", "aborted"},
               DOMAIN after' = Peers, conn' = conn
        PROVE  PeerStep(x)
    <2>1. /\ DOMAIN peer' = Peers /\ DOMAIN before' = Peers
          /\ DOMAIN peer'[x] = Fields /\ peer'[x].stage = q.stage
          /\ \A y \in Peers : y # x => peer'[y] = peer[y] /\ before'[y] = before[y]
      BY <1>2, Emitted DEF Sends
    <2> QED  BY <1>1, <1>2, <2>1 DEF PeerStep
  <1>3. CASE x = "client" /\ Open
    BY <1>1, <1>2, <1>3 DEF Open, Fields
  <1>4. CASE SendAck(x) \/ SendData(x) \/ (\E len \in {0, 1} : SendFin(x, len))
    BY <1>1, <1>2, <1>4 DEF SendAck, SendData, SendFin
  <1>5. CASE Abort(x)
    BY <1>1, <1>2, <1>5 DEF Abort, Fields
  <1>6. CASE Resend(x)
    BY <1>1, <1>6 DEF Resend, PeerStep, Fields
  <1>7. CASE Receive(x)
    <2>1. PICK g : /\ conn' = conn /\ DOMAIN after' = Peers
                   /\ \/ ReceiveSyn(x, g) \/ ReceiveSynAck(x, g) \/ ReceiveRst(x, g)
                      \/ ReceiveOther(x, g) \/ ReceiveNothing(x, g)
      BY <1>1, <1>7 DEF Receive
    <2>2. CASE ReceiveSyn(x, g)
      BY <1>1, <1>2, <2>1, <2>2 DEF ReceiveSyn, Fields
    <2>3. CASE ReceiveSynAck(x, g)
      <3> DEFINE d == Digest([peer[x] EXCEPT !.rcv = g.seq], g)
                 q == [d EXCEPT !.stage = "open"]
      <3>1. DOMAIN d = Fields
        BY <1>1, Digested
      <3> HIDE DEF d
      <3>2. DOMAIN q = Fields /\ q.stage = "open"
        BY <3>1 DEF Fields
      <3> HIDE DEF q
      <3>3. Emit(x, q, {"ACK"}, 0)
        BY <2>3 DEF ReceiveSynAck, q, d
      <3> QED  BY <1>2, <2>1, <3>2, <3>3
    <2>4. CASE ReceiveRst(x, g)
      BY <1>1, <2>1, <2>4 DEF ReceiveRst, PeerStep, Fields
    <2>5. CASE ReceiveOther(x, g)
      <3> DEFINE q == Digest(peer[x], g)
                 r == [q EXCEPT !.stage = IF q.unacked = <<>> THEN "open" ELSE @]
      <3>1. DOMAIN q = Fields /\ q.stage = peer[x].stage
        BY <1>1, Digested
      <3> HIDE DEF q
      <3>2. DOMAIN r = Fields /\ r.stage \in {"open", q.stage}
        BY <3>1 DEF Fields
      <3> HIDE DEF r
      <3>3. peer' = [peer EXCEPT ![x] = r] /\ before' = before
        BY <2>5 DEF ReceiveOther, q, r
      <3> QED  BY <1>1, <2>1, <3>1, <3>2, <3>3 DEF PeerStep
    <2>6. CASE ReceiveNothing(x, g)
      BY <1>1, <2>1, <2>6 DEF ReceiveNothing, PeerStep
    <2> QED  BY <2>1, <2>2, <2>3, <2>4, <2>5, <2>6
  <1> QED  BY <1>3, <1>4, <1>5, <1>6, <1>7

\* The steps of the network keep the peers, and let the record see a segment.
NetworkStep(x) ==
  /\ peer' = peer /\ DOMAIN before' = Peers /\ DOMAIN after' = Peers
  /\ conn' = conn \/ conn' = Observe(conn, Head(before[x]))

LEMMA NetworkSteps ==
  ASSUME Shape, NEW x \in Peers,
         Capture(x) \/ Miss(x) \/ LoseBefore(x) \/ LoseAfter(x) \/ SwapBefore(x)
  PROVE  NetworkStep(x)
  BY DEF Shape, NetworkStep, Capture, Miss, LoseBefore, LoseAfter, SwapBefore, Pass

\* Nothing is undone of what was spent.
LEMMA SpentSteps ==
  ASSUME Shape, [Next]_vars
  PROVE  spent' \in [Kinds -> Nat] /\ (spent'["resyn"] = 0 => spent["resyn"] = 0)
PROOF
  <1>1. \A kind \in Kinds : Spend(kind) =>
          spent' \in [Kinds -> Nat] /\ (spent'["resyn"] = 0 => spent["resyn"] = 0)
    BY Spent
  <1>2. CASE \E kind \in Kinds : Spend(kind)
    BY <1>1, <1>2
  <1>3. CASE spent' = spent
    BY <1>3 DEF Shape
  <1>4. (\E kind \in Kinds : Spend(kind)) \/ spent' = spent
    BY DEF Next, Open, SendAck, SendData, SendFin, Abort, Resend, Receive, Capture, Miss,
           LoseBefore, LoseAfter, SwapBefore, Kinds, vars
  <1> QED  BY <1>2, <1>3, <1>4

LEMMA ShapeKept ==
  ASSUME Shape, [Next]_vars
  PROVE  Shape' /\ (Opened => Opened')
PROOF
  <1>1. spent' \in [Kinds -> Nat]
    BY SpentSteps
  <1>2. "client" \in Peers
    BY DEF Peers
  <1>3. ASSUME NEW x \in Peers, PeerStep(x)
        PROVE  Shape' /\ (Opened => Opened')
    BY <1>1, <1>2, <1>3 DEF PeerStep, Shape, Opened
  <1>4. ASSUME NEW x \in Peers, NetworkStep(x)
        PROVE  Shape' /\ (Opened => Opened')
    <2>1. "state" \in DOMAIN conn'
      BY <1>4, Observed DEF NetworkStep, Shape
    <2> QED  BY <1>1, <1>4, <2>1 DEF NetworkStep, Shape, Opened
  <1>5. CASE UNCHANGED vars
    BY <1>5 DEF vars, Shape, Opened
  <1> QED
    BY <1>2, <1>3, <1>4, <1>5, PeerSteps, NetworkSteps DEF Next

-----------------------------------------------------------------------------
(* The handshake. *)

\* In the first phases a peer sends nothing but what opens the connection: it
\* owes nothing, and what it could send again is a SYN.
LEMMA OnlyOpening ==
  ASSUME Shape, NotOpened \/ SynSent \/ SynAckSent, NEW x \in Peers,
         spent'["resyn"] = 0
  PROVE  ~( \/ SendAck(x) \/ SendData(x) \/ (\E len \in {0, 1} : SendFin(x, len))
            \/ Abort(x) \/ Resend(x))
PROOF
  <1>1. /\ peer[x].stage \in {"closed", "opening"} /\ ~peer[x].owes
        /\ peer[x].unacked = <<>> \/ "SYN" \in Head(peer[x].unacked).flags
    <2>1. \A s : AtMost(s, {"SYN"}) \/ AtMost(s, {"SYN", "ACK"}) =>
                   s = <<>> \/ "SYN" \in Head(s).flags
      <3> SUFFICES ASSUME NEW s, AtMost(s, {"SYN"}) \/ AtMost(s, {"SYN", "ACK"}), s # <<>>
                   PROVE  "SYN" \in Head(s).flags
        OBVIOUS
      <3>1. PICK g : s = <<g>> /\ (g.flags = {"SYN"} \/ g.flags = {"SYN", "ACK"})
        BY DEF AtMost
      <3>2. Head(<<g>>) = g
        OBVIOUS
      <3> QED  BY <3>1, <3>2
    <2>2. x \in {"client", "server"}
      BY DEF Peers
    <2>3. CASE NotOpened
      BY <2>2, <2>3 DEF NotOpened, NothingDue, Peers
    <2>4. CASE SynSent
      BY <2>1, <2>2, <2>4 DEF SynSent, NothingDue, Peers
    <2>5. CASE SynAckSent
      BY <2>1, <2>2, <2>5 DEF SynAckSent, NothingDue, Peers
    <2> QED  BY <2>3, <2>4, <2>5
  <1>2. ~(SendAck(x) \/ SendData(x) \/ (\E len \in {0, 1} : SendFin(x, len)) \/ Abort(x))
    BY <1>1 DEF SendAck, SendData, SendFin, Abort
  <1>3. ~Resend(x)
    <2> SUFFICES ASSUME Resend(x)  PROVE FALSE
      OBVIOUS
    <2>1. Spend("resyn") /\ "resyn" \in Kinds
      BY <1>1 DEF Resend, Kinds
    <2> QED  BY <2>1, Spent
  <1> QED  BY <1>2, <1>3

\* The queues in the network, when at most one segment is in each: nothing is
\* overtaken, and a segment goes on or is lost.
Moves(x, flags) ==
  /\ \A y \in Peers : y # x => before'[y] = before[y] /\ after'[y] = after[y]
  /\ peer' = peer
  /\ \/ \E g : /\ before[x] = <<g>> /\ g.flags = flags /\ before'[x] = <<>>
               /\ after'[x] = <<>> \/ after'[x] = <<g>>
               /\ conn' = conn \/ conn' = Observe(conn, g)
     \/ before'[x] = before[x] /\ after'[x] = <<>> /\ conn' = conn

LEMMA Moved ==
  ASSUME Shape, NEW x \in Peers, NEW flags, AtMost(before[x], flags), AtMost(after[x], flags),
         before[x] = <<>> \/ after[x] = <<>>,
         Capture(x) \/ Miss(x) \/ LoseBefore(x) \/ LoseAfter(x) \/ SwapBefore(x)
  PROVE  Moves(x, flags)
PROOF
  <1>1. DOMAIN before = Peers /\ DOMAIN after = Peers
    BY DEF Shape
  <1>2. ~SwapBefore(x)
    BY DEF AtMost, SwapBefore
  <1>3. CASE LoseAfter(x)
    <2>1. PICK g : after[x] = <<g>>
      BY <1>3 DEF LoseAfter, AtMost
    <2>2. Tail(<<g>>) = <<>>
      OBVIOUS
    <2>3. after' = [after EXCEPT ![x] = <<>>] /\ UNCHANGED <<peer, before, conn>>
      BY <1>3, <2>1, <2>2 DEF LoseAfter
    <2> QED  BY <1>1, <2>3 DEF Moves
  <1>4. CASE before[x] # <<>> /\ (Capture(x) \/ Miss(x) \/ LoseBefore(x))
    <2>1. PICK g : before[x] = <<g>> /\ g.flags = flags
      BY <1>4 DEF AtMost
    <2>2. Head(<<g>>) = g /\ Tail(<<g>>) = <<>> /\ after[x] = <<>> /\ Append(<<>>, g) = <<g>>
      BY <1>4
    <2>3. /\ before' = [before EXCEPT ![x] = <<>>] /\ peer' = peer
          /\ after' = after \/ after' = [after EXCEPT ![x] = <<g>>]
          /\ conn' = conn \/ conn' = Observe(conn, g)
      BY <1>4, <2>1, <2>2 DEF Capture, Miss, LoseBefore, Pass
    <2>4. before'[x] = <<>> /\ (after'[x] = <<>> \/ after'[x] = <<g>>)
      BY <1>1, <2>2, <2>3
    <2>5. \A y \in Peers : y # x => before'[y] = before[y] /\ after'[y] = after[y]
      BY <1>1, <2>3
    <2> QED  BY <2>1, <2>3, <2>4, <2>5 DEF Moves
  <1>5. before[x] # <<>> \/ ~(Capture(x) \/ Miss(x) \/ LoseBefore(x))
    BY DEF Capture, Miss, LoseBefore, Pass
  <1> QED  BY <1>2, <1>3, <1>4, <1>5

LEMMA NotOpenedStep ==
  ASSUME Shape, NotOpened, Next, spent'["resyn"] = 0
  PROVE  Phases'
PROOF
  <1>1. ASSUME NEW x \in Peers
        PROVE  ~(Receive(x) \/ Capture(x) \/ Miss(x) \/ LoseBefore(x) \/ LoseAfter(x)
                 \/ SwapBefore(x))
    <2>1. before[x] = <<>> /\ after[x] = <<>> /\ after[Partner(x)] = <<>>
      BY DEF NotOpened, Silent, Peers, Partner
    <2> QED
      BY <2>1 DEF Receive, Capture, Miss, LoseBefore, LoseAfter, SwapBefore, Pass
  <1>2. Open
    BY <1>1, OnlyOpening DEF Next
  <1> DEFINE q == [peer["client"] EXCEPT !.stage = "opening"]
  <1>3. /\ DOMAIN q = Fields /\ q.stage = "opening" /\ q.unacked = <<>> /\ ~q.owes
        /\ "client" \in Peers
    BY DEF Shape, Fields, NotOpened, NothingDue, Peers
  <1>4. Emit("client", q, {"SYN"}, 0) /\ UNCHANGED <<after, conn>>
    BY <1>2 DEF Open
  <1> HIDE DEF q
  <1>5. /\ \A y \in Peers : y # "client" => peer'[y] = peer[y] /\ before'[y] = before[y]
        /\ peer'["client"].stage = "opening" /\ ~peer'["client"].owes
        /\ \E g : /\ g.flags = {"SYN"}
                  /\ before'["client"] = Append(before["client"], g)
                  /\ \/ peer'["client"].unacked = <<>>
                     \/ peer'["client"].unacked = Append(<<>>, g)
    <2>1. Sends("client", q, {"SYN"})
      BY <1>3, <1>4, Emitted
    <2>2. ~peer'["client"].owes
      BY <1>3, <2>1, Zenon DEF Sends
    <2> QED  BY <1>3, <2>1, <2>2 DEF Sends
  <1>6. AtMost(before'["client"], {"SYN"}) /\ AtMost(peer'["client"].unacked, {"SYN"})
    <2>1. before["client"] = <<>> /\ \A g : Append(<<>>, g) = <<g>>
      BY DEF NotOpened, Silent, Peers
    <2> QED  BY <1>5, <2>1 DEF AtMost
  <1>7. /\ peer'["server"] = peer["server"] /\ before'["server"] = <<>>
        /\ after' = after /\ after["client"] = <<>> /\ after["server"] = <<>>
        /\ conn'.state = "none"
    BY <1>4, <1>5 DEF NotOpened, Silent, Peers, NoConn
  <1>8. NothingDue'
    BY <1>5, <1>7 DEF NotOpened, NothingDue, Peers
  <1>9. SynSent'
    BY <1>5, <1>6, <1>7, <1>8 DEF NotOpened, SynSent, Silent, AtMost, Peers
  <1> QED  BY <1>9 DEF Phases

\* The SYN travels and is lost, or the server answers it.
LEMMA SynSentStep ==
  ASSUME Shape, SynSent, Next, spent'["resyn"] = 0
  PROVE  Phases'
PROOF
  <1>1. "client" \in Peers /\ "server" \in Peers /\ \A x \in Peers : x \in {"client", "server"}
    BY DEF Peers
  <1>2. ~Open
    BY DEF Open, SynSent
  <1>3. PICK x \in Peers : Receive(x) \/ Capture(x) \/ Miss(x) \/ LoseBefore(x) \/ LoseAfter(x)
                           \/ SwapBefore(x)
    BY <1>2, OnlyOpening DEF Next
  <1>4. CASE Receive(x)
    <2>1. x = "server"
      BY <1>1, <1>4 DEF Receive, Partner, SynSent, Silent
    <2>2. PICK g : after["client"] = <<g>> /\ g.flags = {"SYN"}
      BY <1>4, <2>1 DEF Receive, Partner, SynSent, AtMost
    <2>3. Head(<<g>>) = g /\ Tail(<<g>>) = <<>>
      OBVIOUS
    <2>4. /\ after' = [after EXCEPT !["client"] = <<>>] /\ UNCHANGED <<conn, spent>>
          /\ ReceiveSyn(x, g)
      <3>1. Partner(x) = "client"
        BY <2>1 DEF Partner
      <3>2. ~ReceiveSynAck(x, g) /\ ~ReceiveRst(x, g) /\ ~ReceiveOther(x, g) /\ ~ReceiveNothing(x, g)
        BY <2>1, <2>2 DEF SynSent, ReceiveSynAck, ReceiveRst, ReceiveOther, ReceiveNothing
      <3> QED  BY <1>4, <2>2, <2>3, <3>1, <3>2 DEF Receive
    <2> DEFINE q == [peer[x] EXCEPT !.stage = "opening", !.rcv = Next_(g)]
    <2>5. DOMAIN q = Fields /\ q.stage = "opening" /\ q.unacked = <<>> /\ ~q.owes
      BY <2>1 DEF Shape, Fields, SynSent, NothingDue
    <2>6. Emit(x, q, {"SYN", "ACK"}, 0)
      BY <2>4 DEF ReceiveSyn
    <2> HIDE DEF q
    <2>7. /\ \A y \in Peers : y # x => peer'[y] = peer[y] /\ before'[y] = before[y]
          /\ peer'[x].stage = "opening" /\ ~peer'[x].owes
          /\ \E h : /\ h.flags = {"SYN", "ACK"}
                    /\ before'[x] = Append(before[x], h)
                    /\ peer'[x].unacked = <<>> \/ peer'[x].unacked = Append(<<>>, h)
      <3>1. Sends(x, q, {"SYN", "ACK"})
        BY <2>5, <2>6, Emitted
      <3>2. ~peer'[x].owes
        BY <2>5, <3>1, Zenon DEF Sends
      <3> QED  BY <2>5, <3>1, <3>2 DEF Sends
    <2>8. \A h : Append(<<>>, h) = <<h>>
      OBVIOUS
    <2>9. after'["client"] = <<>> /\ after'["server"] = <<>> /\ before["client"] = <<>>
          /\ before["server"] = <<>>
      BY <1>1, <2>2, <2>4 DEF Shape, SynSent, Silent
    <2>10. SynAckSent'
      BY <1>1, <2>1, <2>4, <2>7, <2>8, <2>9
         DEF SynSent, SynAckSent, Silent, NothingDue, AtMost
    <2> QED  BY <2>10 DEF Phases
  <1>5. CASE ~Receive(x)
    <2>1. Capture(x) \/ Miss(x) \/ LoseBefore(x) \/ LoseAfter(x) \/ SwapBefore(x)
      BY <1>3, <1>5
    <2>2. x = "client"
      BY <1>1, <2>1 DEF Capture, Miss, LoseBefore, LoseAfter, SwapBefore, Pass, SynSent, Silent
    <2>3. Moves(x, {"SYN"})
      BY <2>1, <2>2, Moved DEF SynSent
    <2>4. /\ before'["server"] = <<>> /\ after'["server"] = <<>> /\ peer' = peer
      BY <1>1, <2>2, <2>3 DEF Moves, SynSent, Silent
    <2>5. CASE \E g : /\ before[x] = <<g>> /\ g.flags = {"SYN"} /\ before'[x] = <<>>
                      /\ after'[x] = <<>> \/ after'[x] = <<g>>
                      /\ conn' = conn \/ conn' = Observe(conn, g)
      <3>1. PICK g : /\ before[x] = <<g>> /\ g.flags = {"SYN"} /\ before'[x] = <<>>
                     /\ after'[x] = <<>> \/ after'[x] = <<g>>
                     /\ conn' = conn \/ conn' = Observe(conn, g)
        BY <2>5
      <3>2. before[x] # <<>> /\ conn.state \in {"none", "SYN_SYNACK"} /\ "state" \in DOMAIN conn
        BY <2>2, <3>1 DEF SynSent, Shape
      <3>3. conn'.state \in {"none", "SYN_SYNACK"}
        BY <3>1, <3>2, Observed
      <3>4. AtMost(after'[x], {"SYN"}) /\ AtMost(before'[x], {"SYN"})
        BY <3>1 DEF AtMost
      <3>5. SynSent'
        BY <2>2, <2>4, <3>1, <3>3, <3>4 DEF SynSent, Silent, NothingDue, AtMost
      <3> QED  BY <3>5 DEF Phases
    <2>6. CASE before'[x] = before[x] /\ after'[x] = <<>> /\ conn' = conn
      <3>1. SynSent'
        BY <2>2, <2>4, <2>6 DEF SynSent, Silent, NothingDue, AtMost
      <3> QED  BY <3>1 DEF Phases
    <2> QED  BY <2>3, <2>5, <2>6 DEF Moves
  <1> QED  BY <1>4, <1>5

\* The SYN|ACK travels and is lost, or opens the client.
LEMMA SynAckSentStep ==
  ASSUME Shape, SynAckSent, Next, spent'["resyn"] = 0
  PROVE  Phases'
PROOF
  <1>1. "client" \in Peers /\ "server" \in Peers /\ \A x \in Peers : x \in {"client", "server"}
    BY DEF Peers
  <1>2. ~Open
    BY DEF Open, SynAckSent
  <1>3. PICK x \in Peers : Receive(x) \/ Capture(x) \/ Miss(x) \/ LoseBefore(x) \/ LoseAfter(x)
                           \/ SwapBefore(x)
    BY <1>2, OnlyOpening DEF Next
  <1>4. CASE Receive(x)
    <2>1. x = "client"
      BY <1>1, <1>4 DEF Receive, Partner, SynAckSent, Silent
    <2>2. PICK g : after["server"] = <<g>> /\ g.flags = {"SYN", "ACK"}
      BY <1>4, <2>1 DEF Receive, Partner, SynAckSent, AtMost
    <2>3. Head(<<g>>) = g
      OBVIOUS
    <2>4. ReceiveSynAck(x, g)
      <3>1. Partner(x) = "server"
        BY <2>1 DEF Partner
      <3>2. ~ReceiveSyn(x, g) /\ ~ReceiveRst(x, g) /\ ~ReceiveOther(x, g) /\ ~ReceiveNothing(x, g)
        BY <2>1, <2>2 DEF SynAckSent, ReceiveSyn, ReceiveRst, ReceiveOther, ReceiveNothing
      <3> QED  BY <1>4, <2>2, <2>3, <3>1, <3>2 DEF Receive
    <2> DEFINE d == Digest([peer[x] EXCEPT !.rcv = g.seq], g)
               q == [d EXCEPT !.stage = "open"]
    <2>5. DOMAIN d = Fields
      BY Digested DEF Shape, Fields
    <2>6. Emit(x, q, {"ACK"}, 0)
      BY <2>4 DEF ReceiveSynAck
    <2> HIDE DEF d
    <2>7. DOMAIN q = Fields /\ q.stage = "open"
      BY <2>5 DEF Fields
    <2> HIDE DEF q
    <2>8. peer'[x].stage = "open"
      BY <2>6, <2>7, Emitted DEF Sends
    <2> QED  BY <2>1, <2>8 DEF Phases, Opened
  <1>5. CASE ~Receive(x)
    <2>1. Capture(x) \/ Miss(x) \/ LoseBefore(x) \/ LoseAfter(x) \/ SwapBefore(x)
      BY <1>3, <1>5
    <2>2. x = "server"
      BY <1>1, <2>1 DEF Capture, Miss, LoseBefore, LoseAfter, SwapBefore, Pass, SynAckSent, Silent
    <2>3. Moves(x, {"SYN", "ACK"})
      BY <2>1, <2>2, Moved DEF SynAckSent
    <2>4. /\ before'["client"] = <<>> /\ after'["client"] = <<>> /\ peer' = peer
      BY <1>1, <2>2, <2>3 DEF Moves, SynAckSent, Silent
    <2>5. CASE \E g : /\ before[x] = <<g>> /\ g.flags = {"SYN", "ACK"} /\ before'[x] = <<>>
                      /\ after'[x] = <<>> \/ after'[x] = <<g>>
                      /\ conn' = conn \/ conn' = Observe(conn, g)
      <3>1. PICK g : /\ before[x] = <<g>> /\ g.flags = {"SYN", "ACK"} /\ before'[x] = <<>>
                     /\ after'[x] = <<>> \/ after'[x] = <<g>>
                     /\ conn' = conn \/ conn' = Observe(conn, g)
        BY <2>5
      <3>2. before[x] # <<>> /\ conn.state \in {"none", "SYN_SYNACK"} /\ "state" \in DOMAIN conn
        BY <2>2, <3>1 DEF SynAckSent, Shape
      <3>3. conn'.state \in {"none", "SYN_SYNACK", "SYNACK_ACK"}
        BY <3>1, <3>2, Observed
      <3>4. AtMost(after'[x], {"SYN", "ACK"}) /\ AtMost(before'[x], {"SYN", "ACK"})
        BY <3>1 DEF AtMost
      <3>5. SynAckSent'
        BY <2>2, <2>4, <3>1, <3>3, <3>4 DEF SynAckSent, Silent, NothingDue, AtMost
      <3> QED  BY <3>5 DEF Phases
    <2>6. CASE before'[x] = before[x] /\ after'[x] = <<>> /\ conn' = conn
      <3>1. SynAckSent'
        BY <2>2, <2>4, <2>6 DEF SynAckSent, Silent, NothingDue, AtMost
      <3> QED  BY <3>1 DEF Phases
    <2> QED  BY <2>3, <2>5, <2>6 DEF Moves
  <1> QED  BY <1>4, <1>5

-----------------------------------------------------------------------------
LEMMA NextIInv == IInv /\ [Next]_vars => IInv'
PROOF
  <1> SUFFICES ASSUME Shape, spent["resyn"] = 0 => Phases, [Next]_vars
               PROVE  IInv'
    BY DEF IInv
  <1>1. Shape' /\ (Opened => Opened')
    BY ShapeKept
  <1>2. spent'["resyn"] = 0 => spent["resyn"] = 0
    BY SpentSteps
  <1>3. ASSUME spent'["resyn"] = 0
        PROVE  Phases'
    <2>1. CASE UNCHANGED vars
      BY <1>2, <1>3, <2>1
         DEF vars, Phases, NotOpened, SynSent, SynAckSent, Opened, Silent, NothingDue, AtMost
    <2>2. CASE Next
      BY <1>1, <1>2, <1>3, <2>2, NotOpenedStep, SynSentStep, SynAckSentStep DEF Phases
    <2> QED  BY <2>1, <2>2
  <1> QED  BY <1>1, <1>3 DEF IInv

LEMMA Inductive == Spec => []IInv
  BY InitIInv, NextIInv, PTL DEF Spec

\* A connection is not shown as established while the client still waits for
\* the server's SYN|ACK (acceptPacket(), TCPConnection.cc:265-281), whatever
\* is lost or overtaken: only a SYN or SYN|ACK that is sent again can be
\* taken for the last ACK of the handshake.
THEOREM EstablishedMeansOpened == Spec => []UpMeansOpened
PROOF
  <1>1. IInv => UpMeansOpened
    <2> SUFFICES ASSUME IInv, spent["resyn"] = 0, conn.state = "UP"
                 PROVE  peer["client"].stage # "opening"
      BY DEF UpMeansOpened, Never
    <2> QED  BY DEF IInv, Phases, NotOpened, SynSent, SynAckSent, Opened
  <1> QED  BY <1>1, Inductive, PTL

-----------------------------------------------------------------------------
(* Types: whose segments are where. *)

Numbers == 0 .. Word - 1
Stages == {"closed", "opening", "open", "aborted"}

\* The segments of peer x, and those that do not abort the connection.
Sent(x) == [src : {Endpoint[x]}, dst : {Endpoint[Partner(x)]}, flags : SUBSET Flags,
            seq : Numbers, ack : Numbers, len : {0, 1}, ver : {Version}]
Harmless(x) == {g \in Sent(x) : "RST" \notin g.flags}

\* A peer never sends a RST again.
PeerState(x) == [stage : Stages, snd : Numbers, rcv : Numbers, unacked : Seq(Harmless(x)),
                 owes : BOOLEAN, fin : BOOLEAN, heard : BOOLEAN]

\* The records of this conversation, made from a segment of either peer.
Records == [src : {Endpoint[x] : x \in Peers}, dst : {Endpoint[x] : x \in Peers},
            state : States, finack : [Sides -> Numbers], recvd : [Sides -> BOOLEAN],
            idle : {0}]
Its(c) == /\ c \in Records
          /\ \E x \in Peers : c.src = Endpoint[x] /\ c.dst = Endpoint[Partner(x)]

Queues(f) == f = [x \in Peers |-> f[x]] /\ \A x \in Peers : f[x] \in Seq(Sent(x))

Typed == /\ peer = [x \in Peers |-> peer[x]] /\ \A x \in Peers : peer[x] \in PeerState(x)
         /\ Queues(before) /\ Queues(after)
         /\ conn = NoConn \/ Its(conn)
         /\ spent \in [Kinds -> Nat]

LEMMA PartnerIsOther ==
  ASSUME NEW x \in Peers
  PROVE  Partner(x) \in Peers /\ Partner(x) # x /\ Partner(Partner(x)) = x
         /\ \A y \in Peers : y = x \/ y = Partner(x)
  BY DEF Peers, Partner

LEMMA InitTyped == Init => Typed
PROOF
  <1> SUFFICES ASSUME Init  PROVE Typed
    OBVIOUS
  <1>1. 0 \in Numbers /\ \A x \in Peers : ISS[x] \in Numbers
    BY WordAssumption, ConversationAssumption DEF Numbers, Peers
  <1>2. \A S : <<>> \in Seq(S)
    OBVIOUS
  <1>3. \A x \in Peers : peer[x] \in PeerState(x)
    BY <1>1, <1>2 DEF Init, PeerState, Stages
  <1> QED  BY <1>2, <1>3 DEF Init, Typed, Queues

LEMMA NextIsNumber ==
  ASSUME NEW x, NEW g \in Sent(x)
  PROVE  Next_(g) \in Numbers
PROOF
  <1>1. Size(g) \in Nat /\ g.seq \in Nat
    BY WordAssumption DEF Size, Sent, Numbers
  <1>2. \A n \in Nat : n % Word \in Numbers
    BY WordAssumption DEF Numbers
  <1> QED  BY <1>1, <1>2 DEF Next_

\* What Emit does, with types.
Emits(x, q, flags) ==
  \E g \in Sent(x), r \in PeerState(x) :
    /\ g.flags = flags /\ r.stage = q.stage
    /\ r.unacked = q.unacked \/ r.unacked = Append(q.unacked, g)
    /\ r.owes => q.owes
    /\ before' = [before EXCEPT ![x] = Append(@, g)]
    /\ peer' = [peer EXCEPT ![x] = r]

LEMMA EmitIsTyped ==
  ASSUME NEW x \in Peers, NEW q \in PeerState(x), NEW flags \in SUBSET Flags,
         NEW len \in {0, 1}, "RST" \in flags => len = 0 /\ flags \cap {"SYN", "FIN"} = {},
         Emit(x, q, flags, len)
  PROVE  Emits(x, q, flags)
PROOF
  <1> DEFINE g == Segment(x, flags, q.snd, IF "ACK" \in flags THEN q.rcv ELSE 0, len)
             unacked == IF Size(g) > 0 THEN Append(q.unacked, g) ELSE q.unacked
             fin == q.fin \/ "FIN" \in flags
             owes == q.owes /\ "ACK" \notin flags
             r == [q EXCEPT !.snd = Next_(g), !.unacked = unacked, !.fin = fin, !.owes = owes]
  <1>1. 0 \in Numbers
    BY WordAssumption DEF Numbers
  <1>2. g \in Sent(x) /\ g.flags = flags /\ g.len = len
    BY <1>1 DEF Segment, Sent, PeerState
  <1>3. before' = [before EXCEPT ![x] = Append(@, g)] /\ peer' = [peer EXCEPT ![x] = r]
    BY DEF Emit
  <1>4. Next_(g) \in Numbers
    BY <1>2, NextIsNumber
  <1>5. unacked \in Seq(Harmless(x))
    <2>1. q.unacked \in Seq(Harmless(x))
      BY DEF PeerState
    <2>2. CASE Size(g) > 0
      <3>1. "RST" \notin flags
        BY <1>2, <2>2 DEF Size
      <3> QED  BY <1>2, <2>1, <3>1 DEF Harmless
    <2> QED  BY <2>1, <2>2
  <1>6. unacked = q.unacked \/ unacked = Append(q.unacked, g)
    OBVIOUS
  <1>7. fin \in BOOLEAN /\ owes \in BOOLEAN /\ (owes => q.owes)
    OBVIOUS
  <1> HIDE DEF g, unacked, fin, owes
  <1>8. /\ r \in PeerState(x) /\ r.stage = q.stage /\ r.unacked = unacked
        /\ r.owes = owes
    BY <1>4, <1>5, <1>7 DEF PeerState
  <1> HIDE DEF r
  <1> QED  BY <1>2, <1>3, <1>6, <1>7, <1>8 DEF Emits

LEMMA DigestIsTyped ==
  ASSUME NEW x \in Peers, NEW q \in PeerState(x), NEW y, NEW g \in Sent(y)
  PROVE  Digest(q, g) \in PeerState(x) /\ Digest(q, g).stage = q.stage
PROOF
  <1>1. StillUnacked(q, g) \in Seq(Harmless(x))
    <2>1. q.unacked \in Seq(Harmless(x))
      BY DEF PeerState
    <2>2. ASSUME NEW i \in 1 .. Len(q.unacked)
          PROVE  SubSeq(q.unacked, 1 + i, Len(q.unacked)) \in Seq(Harmless(x))
      <3>1. Len(q.unacked) \in Nat /\ 1 + i \in Int /\ 1 + i >= 1
        BY <2>1
      <3>2. \A k \in 1 + i .. Len(q.unacked) : q.unacked[k] \in Harmless(x)
        BY <2>1, <3>1, ElementOfSeq
      <3> QED  BY <3>1, <3>2, SubSeqProperties
    <2> DEFINE covered == {i \in 1 .. Len(q.unacked) : Next_(q.unacked[i]) = g.ack}
    <2>3. CASE "ACK" \in g.flags /\ covered # {}
      <3>1. (CHOOSE i \in covered : TRUE) \in 1 .. Len(q.unacked)
        BY <2>3
      <3> QED  BY <2>2, <2>3, <3>1 DEF StillUnacked
    <2>4. CASE ~("ACK" \in g.flags /\ covered # {})
      BY <2>1, <2>4 DEF StillUnacked
    <2> QED  BY <2>3, <2>4
  <1> DEFINE rcv == IF g.seq = q.rcv THEN Next_(g) ELSE q.rcv
             owes == q.owes \/ Size(g) > 0
             heard == q.heard \/ (g.seq = q.rcv /\ "FIN" \in g.flags)
             still == StillUnacked(q, g)
  <1>2. rcv \in Numbers
    BY NextIsNumber DEF PeerState
  <1>3. owes \in BOOLEAN /\ heard \in BOOLEAN
    OBVIOUS
  <1>4. Digest(q, g) = [q EXCEPT !.unacked = still, !.rcv = rcv, !.owes = owes,
                                 !.heard = heard]
    BY DEF Digest
  <1> HIDE DEF rcv, owes, heard, still
  <1>5. still \in Seq(Harmless(x))
    BY <1>1 DEF still
  <1> QED  BY <1>2, <1>3, <1>4, <1>5 DEF PeerState

\* acceptPacket() on a segment of the conversation: the record stays its own, a
\* RST resets it, and once it is finished it stays so.
LEMMA ObserveIsTyped ==
  ASSUME NEW c, c = NoConn \/ Its(c), NEW x \in Peers, NEW g \in Sent(x)
  PROVE  /\ Observe(c, g) = NoConn \/ Its(Observe(c, g))
         /\ c # NoConn => Observe(c, g) # NoConn
         /\ c # NoConn /\ "RST" \in g.flags => IsFinished(Observe(c, g))
         /\ IsFinished(c) => IsFinished(Observe(c, g))
         /\ g.flags = {"SYN"} => Observe(c, g) # NoConn
PROOF
  <1>1. \A d : Its(d) => d # NoConn
    BY DEF Its, Records, States, NoConn
  <1>2. 0 \in Numbers /\ \A n \in Int : n % Word \in Numbers
    BY WordAssumption DEF Numbers
  <1>3. g.src = Endpoint[x] /\ g.dst = Endpoint[Partner(x)]
    BY DEF Sent
  <1>4. CASE c = NoConn
    <2>1. ~IsFinished(c)
      BY <1>4 DEF IsFinished, NoConn
    <2>2. CASE "SYN" \in g.flags /\ "ACK" \notin g.flags
      <3>1. Observe(c, g) = NewConnection(g)
        BY <1>4, <2>2 DEF Observe
      <3>2. NewConnection(g) = [src |-> g.src, dst |-> g.dst, state |-> "SYN_SYNACK",
                                finack |-> [s \in Sides |-> 0],
                                recvd |-> [s \in Sides |-> FALSE], idle |-> 0]
        BY <2>2 DEF NewConnection
      <3>3. Its(NewConnection(g))
        BY <1>2, <1>3, <3>2, PartnerIsOther DEF Its, Records, States
      <3> QED  BY <1>1, <1>4, <2>1, <3>1, <3>3
    <2>3. CASE ~("SYN" \in g.flags /\ "ACK" \notin g.flags)
      BY <1>4, <2>1, <2>3 DEF Observe
    <2> QED  BY <2>2, <2>3
  <1>5. CASE Its(c)
    <2> DEFINE d == NoteFin(c, g)
               e == NoteFinAck(d, g)
               n == IF "RST" \in g.flags THEN "RESET" ELSE NextState(e, g)
    <2>1. c # NoConn
      BY <1>1, <1>5
    <2>2. Match(c, g)
      BY <1>3, <1>5, PartnerIsOther DEF Its, Match
    <2>3. FinAckNumber(g) \in Numbers
      <3>1. TotalLen(g) - IpHeaderLen(g) - TcpHeaderLen \in Int /\ g.seq \in Int
        BY DEF Sent, Numbers, TotalLen, IpHeaderLen, TcpHeaderLen
      <3>2. PayloadLen(g) \in Int
        BY <1>2, <3>1 DEF PayloadLen, Numbers
      <3> QED  BY <1>2, <3>1, <3>2 DEF FinAckNumber
    <2>4. d \in Records /\ d.src = c.src /\ d.dst = c.dst /\ d.state = c.state
      BY <1>5, <2>3 DEF NoteFin, Its, Records
    <2>5. e \in Records /\ e.src = c.src /\ e.dst = c.dst /\ e.state = c.state
      BY <2>4 DEF NoteFinAck, Records
    <2>6. NextState(e, g) \in States /\ (e.state \in {"RESET", "CLOSED"} => NextState(e, g) = e.state)
      BY <2>5 DEF NextState, States, Records
    <2>7. AcceptPacket(c, g) = [e EXCEPT !.state = n, !.idle = 0]
      BY DEF AcceptPacket
    <2>8. n \in States /\ ("RST" \in g.flags => n = "RESET")
          /\ (e.state \in {"RESET", "CLOSED"} => n \in {"RESET", "CLOSED"})
      BY <2>6 DEF States
    <2> HIDE DEF d, e, n
    <2>9. Its(AcceptPacket(c, g)) /\ AcceptPacket(c, g).state = n
      BY <1>5, <2>5, <2>7, <2>8 DEF Its, Records
    <2>10. Observe(c, g) = IF c.state # "CLOSED" THEN AcceptPacket(c, g) ELSE c
      BY <2>1, <2>2 DEF Observe, Accepts
    <2> QED
      BY <1>1, <1>5, <2>1, <2>5, <2>8, <2>9, <2>10 DEF IsFinished
  <1> QED  BY <1>4, <1>5

\* What a step of a peer, and what one of the network, may do with whose
\* segments.  A RST comes from Abort, and a peer aborts on its own or because it
\* got a RST.
Aborts == spent'["abort"] = spent["abort"] + 1

PeerMoves(x) ==
  /\ \E r \in PeerState(x) :
       /\ peer' = [peer EXCEPT ![x] = r]
       /\ peer[x].stage = "aborted" => r.stage = "aborted"
       /\ r.stage = "aborted" => \/ peer[x].stage = "aborted" \/ Aborts
                                 \/ after[Partner(x)] \notin Seq(Harmless(Partner(x)))
       /\ Aborts => after' = after /\ r.stage = "aborted"
  /\ \/ before' = before
     \/ \E g \in Sent(x) : /\ before' = [before EXCEPT ![x] = Append(@, g)]
                           /\ "RST" \in g.flags => Aborts
  /\ \/ after' = after
     \/ /\ after[Partner(x)] # <<>>
        /\ after' = [after EXCEPT ![Partner(x)] = Tail(@)]
  /\ conn' = conn
  /\ spent'["missed"] = spent["missed"]
  /\ spent'["abort"] = spent["abort"] \/ Aborts

Captured(x) ==
  /\ before[x] # <<>>
  /\ before' = [before EXCEPT ![x] = Tail(@)]
  /\ after' = [after EXCEPT ![x] = Append(@, Head(before[x]))]
  /\ \/ conn' = Observe(conn, Head(before[x])) /\ spent'["missed"] = spent["missed"]
     \/ conn' = conn /\ spent'["missed"] > 0

Disturbed(x) ==
  /\ conn' = conn /\ spent'["missed"] = spent["missed"]
  /\ \/ /\ after' = after
        /\ \E s : /\ before' = [before EXCEPT ![x] = s]
                  /\ \A S : before[x] \in Seq(S) => s \in Seq(S)
     \/ /\ before' = before /\ after[x] # <<>>
        /\ after' = [after EXCEPT ![x] = Tail(@)]

NetworkMoves(x) == /\ Captured(x) \/ Disturbed(x)
                   /\ peer' = peer /\ spent'["abort"] = spent["abort"]

LEMMA SpendIsExact ==
  ASSUME Typed, NEW kind \in Kinds, Spend(kind)
  PROVE  spent'[kind] = spent[kind] + 1 /\ \A k \in Kinds : k # kind => spent'[k] = spent[k]
  BY DEF Typed, Queues, Spend

LEMMA NetworkMovesSo ==
  ASSUME Typed, NEW x \in Peers,
         Capture(x) \/ Miss(x) \/ LoseBefore(x) \/ LoseAfter(x) \/ SwapBefore(x)
  PROVE  NetworkMoves(x)
PROOF
  <1>1. /\ {"missed", "lost", "swapped", "abort"} \subseteq Kinds
        /\ \A k \in Kinds : spent[k] \in Nat
    BY DEF Typed, Queues, Kinds
  <1>2. CASE Capture(x)
    BY <1>2 DEF Capture, Pass, NetworkMoves, Captured
  <1>3. CASE Miss(x)
    <2>1. spent'["missed"] > 0 /\ spent'["abort"] = spent["abort"]
      BY <1>1, <1>3, SpendIsExact DEF Miss
    <2> QED  BY <1>3, <2>1 DEF Miss, Pass, NetworkMoves, Captured
  <1>4. ASSUME LoseBefore(x) \/ LoseAfter(x) \/ SwapBefore(x)
        PROVE  spent'["missed"] = spent["missed"] /\ spent'["abort"] = spent["abort"]
    BY <1>1, <1>4, SpendIsExact DEF LoseBefore, LoseAfter, SwapBefore
  <1>5. CASE LoseBefore(x)
    <2>1. \A S : before[x] \in Seq(S) => Tail(before[x]) \in Seq(S)
      BY <1>5, HeadTailProperties DEF LoseBefore
    <2>2. before' = [before EXCEPT ![x] = Tail(before[x])]
          /\ after' = after /\ peer' = peer /\ conn' = conn
      BY <1>5 DEF LoseBefore
    <2> QED  BY <1>4, <1>5, <2>1, <2>2 DEF NetworkMoves, Disturbed
  <1>6. CASE LoseAfter(x)
    BY <1>4, <1>6 DEF LoseAfter, NetworkMoves, Disturbed
  <1>7. CASE SwapBefore(x)
    <2> DEFINE b == before[x]
               s == <<b[2], b[1]>> \o SubSeq(b, 3, Len(b))
    <2>1. Len(b) > 1 /\ before' = [before EXCEPT ![x] = s]
          /\ after' = after /\ peer' = peer /\ conn' = conn
      BY <1>7 DEF SwapBefore
    <2>2. ASSUME NEW S, b \in Seq(S)
          PROVE  s \in Seq(S)
      <3>1. Len(b) \in Nat /\ b[1] \in S /\ b[2] \in S
        BY <2>1, <2>2, ElementOfSeq
      <3>2. SubSeq(b, 3, Len(b)) \in Seq(S)
        <4>1. \A k \in 3 .. Len(b) : b[k] \in S
          BY <2>2, <3>1, ElementOfSeq
        <4> QED  BY <3>1, <4>1, SubSeqProperties
      <3>3. <<b[2], b[1]>> \in Seq(S)
        BY <3>1
      <3> QED  BY <3>2, <3>3, ConcatProperties
    <2> HIDE DEF s
    <2> QED  BY <1>4, <1>7, <2>1, <2>2 DEF NetworkMoves, Disturbed
  <1> QED  BY <1>2, <1>3, <1>5, <1>6, <1>7

\* A segment leaves the queue between the sniffer and the other peer.
Taken(y) == after[y] # <<>> /\ after' = [after EXCEPT ![y] = Tail(@)]

\* A peer that sends something else than a RST, and did not abort.
LEMMA EmitMoves ==
  ASSUME Typed, NEW x \in Peers, NEW q \in PeerState(x), NEW flags \in SUBSET Flags,
         NEW len \in {0, 1}, Emit(x, q, flags, len), "RST" \notin flags,
         q.stage = "aborted" <=> peer[x].stage = "aborted",
         after' = after \/ Taken(Partner(x)), conn' = conn,
         spent'["missed"] = spent["missed"] /\ spent'["abort"] = spent["abort"]
  PROVE  PeerMoves(x)
PROOF
  <1>1. Emits(x, q, flags)
    BY EmitIsTyped
  <1>2. ~Aborts
    <2>1. spent["abort"] \in Nat
      BY DEF Typed, Queues, Kinds
    <2> QED  BY <2>1 DEF Aborts
  <1> QED  BY <1>1, <1>2 DEF Emits, PeerMoves, Taken

\* A peer that sends nothing.
LEMMA StillMoves ==
  ASSUME Typed, NEW x \in Peers, NEW r \in PeerState(x), peer' = [peer EXCEPT ![x] = r],
         peer[x].stage = "aborted" => r.stage = "aborted",
         r.stage = "aborted" => \/ peer[x].stage = "aborted"
                                \/ after[Partner(x)] \notin Seq(Harmless(Partner(x))),
         before' = before, Taken(Partner(x)), conn' = conn, spent' = spent
  PROVE  PeerMoves(x)
PROOF
  <1>1. ~Aborts
    <2>1. spent["abort"] \in Nat
      BY DEF Typed, Queues, Kinds
    <2> QED  BY <2>1 DEF Aborts
  <1> QED  BY <1>1 DEF PeerMoves, Taken

LEMMA ReceiveMoves ==
  ASSUME Typed, NEW x \in Peers, Receive(x)
  PROVE  PeerMoves(x)
PROOF
  <1> DEFINE y == Partner(x)
  <1>1. y \in Peers
    BY PartnerIsOther
  <1>2. after[y] \in Seq(Sent(y)) /\ after[y] # <<>>
    BY <1>1 DEF Typed, Queues, Receive
  <1>3. PICK g : g = Head(after[y])
    OBVIOUS
  <1>4. g \in Sent(y)
    BY <1>2, <1>3
  <1>5. Taken(y) /\ conn' = conn /\ spent' = spent
    BY DEF Receive, Taken
  <1>6. \/ ReceiveSyn(x, g) \/ ReceiveSynAck(x, g) \/ ReceiveRst(x, g)
        \/ ReceiveOther(x, g) \/ ReceiveNothing(x, g)
    BY <1>3 DEF Receive
  <1>7. peer[x] \in PeerState(x) /\ DOMAIN peer = Peers /\ [peer EXCEPT ![x] = peer[x]] = peer
    BY DEF Typed, Queues
  <1>8. /\ {"SYN", "ACK"} \in SUBSET Flags /\ {"ACK"} \in SUBSET Flags
        /\ {"opening", "open", "aborted"} \subseteq Stages
        /\ \A S : <<>> \in Seq(S)
    BY DEF Flags, Stages
  <1>9. CASE ReceiveSyn(x, g)
    <2> DEFINE q == [peer[x] EXCEPT !.stage = "opening", !.rcv = Next_(g)]
    <2>1. Next_(g) \in Numbers
      BY <1>4, NextIsNumber
    <2>2. q \in PeerState(x) /\ q.stage = "opening"
      BY <1>7, <1>8, <2>1 DEF PeerState
    <2>3. Emit(x, q, {"SYN", "ACK"}, 0) /\ peer[x].stage = "closed"
      BY <1>9 DEF ReceiveSyn
    <2> HIDE DEF q
    <2> QED  BY <1>5, <1>8, <2>2, <2>3, EmitMoves
  <1>10. CASE ReceiveSynAck(x, g)
    <2> DEFINE p == [peer[x] EXCEPT !.rcv = g.seq]
               d == Digest(p, g)
               q == [d EXCEPT !.stage = "open"]
    <2>1. p \in PeerState(x)
      BY <1>4, <1>7 DEF PeerState, Sent
    <2> HIDE DEF p
    <2>2. d \in PeerState(x)
      BY <1>4, <2>1, DigestIsTyped
    <2> HIDE DEF d
    <2>3. q \in PeerState(x) /\ q.stage = "open"
      BY <1>8, <2>2 DEF PeerState
    <2>4. Emit(x, q, {"ACK"}, 0) /\ peer[x].stage = "opening"
      BY <1>10 DEF ReceiveSynAck, d, p
    <2> HIDE DEF q
    <2> QED  BY <1>5, <1>8, <2>3, <2>4, EmitMoves
  <1>11. CASE ReceiveRst(x, g)
    <2> DEFINE r == [peer[x] EXCEPT !.stage = "aborted", !.owes = FALSE, !.unacked = <<>>]
    <2>1. r \in PeerState(x) /\ r.stage = "aborted"
      BY <1>7, <1>8 DEF PeerState
    <2>2. peer' = [peer EXCEPT ![x] = r] /\ before' = before
      BY <1>7, <1>11 DEF ReceiveRst
    <2>3. after[y] \notin Seq(Harmless(y))
      <3>1. g \notin Harmless(y)
        BY <1>11 DEF ReceiveRst, Harmless
      <3> QED  BY <1>2, <1>3, <3>1, HeadTailProperties
    <2> HIDE DEF r
    <2> QED  BY <1>5, <2>1, <2>2, <2>3, StillMoves
  <1>12. CASE ReceiveOther(x, g)
    <2> DEFINE q == Digest(peer[x], g)
               stage == IF q.unacked = <<>> THEN "open" ELSE q.stage
               r == [q EXCEPT !.stage = stage]
    <2>1. q \in PeerState(x) /\ q.stage = peer[x].stage /\ q.stage # "aborted"
      BY <1>4, <1>7, <1>12, DigestIsTyped DEF ReceiveOther
    <2>2. peer' = [peer EXCEPT ![x] = r] /\ before' = before
      BY <1>12 DEF ReceiveOther
    <2> HIDE DEF q
    <2>3. stage \in Stages /\ stage # "aborted"
      BY <1>8, <2>1 DEF PeerState
    <2> HIDE DEF stage
    <2>4. r \in PeerState(x) /\ r.stage # "aborted"
      BY <2>1, <2>3 DEF PeerState
    <2> HIDE DEF r
    <2> QED  BY <1>5, <2>1, <2>2, <2>4, StillMoves
  <1>13. CASE ReceiveNothing(x, g)
    <2>1. peer' = [peer EXCEPT ![x] = peer[x]] /\ before' = before
      BY <1>7, <1>13 DEF ReceiveNothing
    <2> QED  BY <1>5, <1>7, <2>1, StillMoves
  <1> QED  BY <1>6, <1>9, <1>10, <1>11, <1>12, <1>13

LEMMA PeerMovesSo ==
  ASSUME Typed, NEW x \in Peers,
         \/ x = "client" /\ Open
         \/ SendAck(x) \/ SendData(x) \/ (\E len \in {0, 1} : SendFin(x, len))
         \/ Abort(x) \/ Resend(x) \/ Receive(x)
  PROVE  PeerMoves(x)
PROOF
  <1>1. peer[x] \in PeerState(x) /\ DOMAIN peer = Peers /\ spent["abort"] \in Nat
    BY DEF Typed, Queues, Kinds
  <1>2. /\ {{"SYN"}, {"ACK"}, {"FIN", "ACK"}, {"RST", "ACK"}} \subseteq SUBSET Flags
        /\ {"opening", "open", "aborted"} \subseteq Stages
        /\ \A S : <<>> \in Seq(S)
        /\ {"data", "resyn", "resend", "missed", "abort"} \subseteq Kinds
    BY DEF Flags, Stages, Kinds
  <1>3. CASE x = "client" /\ Open
    <2> DEFINE q == [peer[x] EXCEPT !.stage = "opening"]
    <2>1. q \in PeerState(x) /\ q.stage = "opening"
      BY <1>1, <1>2 DEF PeerState
    <2>2. Emit(x, q, {"SYN"}, 0) /\ peer[x].stage = "closed" /\ UNCHANGED <<after, conn, spent>>
      BY <1>3 DEF Open
    <2> HIDE DEF q
    <2> QED  BY <1>2, <2>1, <2>2, EmitMoves
  <1>4. CASE SendAck(x)
    BY <1>1, <1>2, <1>4, EmitMoves DEF SendAck
  <1>5. CASE SendData(x)
    <2>1. spent'["missed"] = spent["missed"] /\ spent'["abort"] = spent["abort"]
      BY <1>2, <1>5, SpendIsExact DEF SendData
    <2> QED  BY <1>1, <1>2, <1>5, <2>1, EmitMoves DEF SendData
  <1>6. CASE \E len \in {0, 1} : SendFin(x, len)
    BY <1>1, <1>2, <1>6, EmitMoves DEF SendFin
  <1>7. CASE Abort(x)
    <2> DEFINE q == [peer[x] EXCEPT !.stage = "aborted", !.owes = FALSE, !.unacked = <<>>]
    <2>1. q \in PeerState(x) /\ q.stage = "aborted"
      BY <1>1, <1>2 DEF PeerState
    <2>2. Emit(x, q, {"RST", "ACK"}, 0) /\ UNCHANGED <<after, conn>>
      BY <1>7 DEF Abort
    <2>3. Aborts /\ spent'["missed"] = spent["missed"]
      BY <1>2, <1>7, SpendIsExact DEF Abort, Aborts
    <2> HIDE DEF q
    <2>4. Emits(x, q, {"RST", "ACK"})
      BY <1>2, <2>1, <2>2, EmitIsTyped
    <2> QED  BY <2>1, <2>2, <2>3, <2>4 DEF Emits, PeerMoves
  <1>8. CASE Resend(x)
    <2>1. spent'["missed"] = spent["missed"] /\ spent'["abort"] = spent["abort"]
      <3>1. PICK kind \in {"resyn", "resend"} : Spend(kind)
        BY <1>8 DEF Resend
      <3> QED  BY <1>2, <3>1, SpendIsExact
    <2>2. ~Aborts
      BY <1>1, <2>1 DEF Aborts
    <2>3. PICK g : g = Head(peer[x].unacked)
      OBVIOUS
    <2>4. g \in Harmless(x)
      BY <1>1, <1>8, <2>3, HeadTailProperties DEF Resend, PeerState
    <2> DEFINE ack == IF "ACK" \in g.flags THEN peer[x].rcv ELSE 0
               h == [g EXCEPT !.ack = ack]
               owes == peer[x].owes /\ "ACK" \notin g.flags
               r == [peer[x] EXCEPT !.owes = owes]
    <2>5. ack \in Numbers
      BY <1>1, WordAssumption DEF PeerState, Numbers
    <2>6. owes \in BOOLEAN
      OBVIOUS
    <2>7. /\ before' = [before EXCEPT ![x] = Append(@, h)]
          /\ UNCHANGED <<after, conn>>
      BY <1>8, <2>3 DEF Resend
    <2>8. peer' = [peer EXCEPT ![x] = r]
      BY <1>1, <1>8, <2>3 DEF Resend
    <2> HIDE DEF ack, owes
    <2>9. h \in Sent(x) /\ "RST" \notin h.flags
      BY <2>4, <2>5 DEF Harmless, Sent
    <2>10. r \in PeerState(x) /\ r.stage = peer[x].stage
      BY <1>1, <2>6 DEF PeerState
    <2> HIDE DEF h, r
    <2> QED  BY <2>1, <2>2, <2>7, <2>8, <2>9, <2>10 DEF PeerMoves
  <1>9. CASE Receive(x)
    BY <1>9, ReceiveMoves
  <1> QED  BY <1>3, <1>4, <1>5, <1>6, <1>7, <1>8, <1>9

\* One queue changes.
LEMMA QueueChange ==
  ASSUME NEW f, Queues(f), NEW x \in Peers, NEW s \in Seq(Sent(x)), NEW h, h = [f EXCEPT ![x] = s]
  PROVE  Queues(h)
  BY DEF Queues

LEMMA TypedKept ==
  ASSUME Shape, Typed, [Next]_vars
  PROVE  Typed'
PROOF
  <1>0. Queues(before) /\ Queues(after)
    BY DEF Typed, Queues
  <1>1. spent' \in [Kinds -> Nat]
    BY SpentSteps
  <1>2. ASSUME NEW x \in Peers, PeerMoves(x)
        PROVE  Typed'
    <2>1. PICK r \in PeerState(x) : peer' = [peer EXCEPT ![x] = r]
      BY <1>2 DEF PeerMoves
    <2>2. peer' = [z \in Peers |-> peer'[z]] /\ \A z \in Peers : peer'[z] \in PeerState(z)
      BY <2>1 DEF Typed, Queues
    <2>3. Queues(before')
      <3>1. CASE before' = before
        BY <1>0, <3>1
      <3>2. ASSUME NEW g \in Sent(x), before' = [before EXCEPT ![x] = Append(@, g)]
            PROVE  Queues(before')
        <4>1. Append(before[x], g) \in Seq(Sent(x))
          BY DEF Typed, Queues
        <4>2. PICK s : s = Append(before[x], g)
          OBVIOUS
        <4>3. s \in Seq(Sent(x)) /\ before' = [before EXCEPT ![x] = s]
          BY <3>2, <4>1, <4>2
        <4> QED  BY <1>0, <4>3, QueueChange
      <3>3. before' = before \/ \E g \in Sent(x) : before' = [before EXCEPT ![x] = Append(@, g)]
        BY <1>2 DEF PeerMoves
      <3> QED  BY <3>1, <3>2, <3>3
    <2>4. Queues(after')
      <3>1. CASE after' = after
        BY <1>0, <3>1
      <3>2. CASE after[Partner(x)] # <<>> /\ after' = [after EXCEPT ![Partner(x)] = Tail(@)]
        <4>1. Partner(x) \in Peers
          BY PartnerIsOther
        <4>2. Tail(after[Partner(x)]) \in Seq(Sent(Partner(x)))
          BY <3>2, <4>1 DEF Typed, Queues
        <4> QED  BY <1>0, <3>2, <4>1, <4>2, QueueChange
      <3> QED  BY <1>2, <3>1, <3>2 DEF PeerMoves
    <2> QED  BY <1>1, <1>2, <2>2, <2>3, <2>4 DEF Typed, PeerMoves
  <1>3. ASSUME NEW x \in Peers, Captured(x), peer' = peer
        PROVE  Typed'
    <2>1. PICK g \in Sent(x) : g = Head(before[x])
      BY <1>3 DEF Typed, Queues, Captured
    <2>2. Tail(before[x]) \in Seq(Sent(x))
      BY <1>3 DEF Typed, Queues, Captured
    <2>3. /\ before' = [before EXCEPT ![x] = Tail(before[x])]
          /\ after' = [after EXCEPT ![x] = Append(@, g)]
          /\ conn' \in {conn, Observe(conn, g)}
      BY <1>3, <2>1 DEF Captured
    <2>4. conn' = NoConn \/ Its(conn')
      BY <2>3, ObserveIsTyped DEF Typed, Queues
    <2>5. Append(after[x], g) \in Seq(Sent(x))
      BY <2>1 DEF Typed, Queues
    <2>6. PICK s : s = Append(after[x], g)
      OBVIOUS
    <2>7. s \in Seq(Sent(x)) /\ after' = [after EXCEPT ![x] = s]
      BY <2>3, <2>5, <2>6
    <2>8. Queues(before') /\ Queues(after')
      BY <1>0, <2>2, <2>3, <2>7, QueueChange
    <2> QED  BY <1>1, <1>3, <2>4, <2>8 DEF Typed
  <1>4. ASSUME NEW x \in Peers, Disturbed(x), peer' = peer
        PROVE  Typed'
    <2>1. CASE after' = after
      <3>1. PICK s : /\ before' = [before EXCEPT ![x] = s]
                     /\ \A S : before[x] \in Seq(S) => s \in Seq(S)
        <4>1. before' = before => before' = [before EXCEPT ![x] = before[x]]
          BY DEF Typed, Queues
        <4> QED  BY <1>4, <2>1, <4>1 DEF Disturbed
      <3>2. s \in Seq(Sent(x))
        BY <3>1 DEF Typed, Queues
      <3>3. Queues(before') /\ conn' = conn
        BY <1>0, <1>4, <3>1, <3>2, QueueChange DEF Disturbed
      <3>4. Queues(after')
        BY <1>0, <2>1
      <3>5. conn' = NoConn \/ Its(conn')
        BY <3>3 DEF Typed
      <3>6. peer' = [z \in Peers |-> peer'[z]] /\ \A z \in Peers : peer'[z] \in PeerState(z)
        BY <1>4 DEF Typed
      <3> QED  BY <1>1, <3>3, <3>4, <3>5, <3>6 DEF Typed
    <2>2. CASE after' # after
      <3>1. before' = before /\ after[x] # <<>> /\ after' = [after EXCEPT ![x] = Tail(@)]
        BY <1>4, <2>2 DEF Disturbed
      <3>2. Tail(after[x]) \in Seq(Sent(x))
        BY <3>1 DEF Typed, Queues
      <3> QED  BY <1>1, <1>4, <3>1, <3>2 DEF Typed, Queues, Disturbed
    <2> QED  BY <2>1, <2>2
  <1>5. CASE UNCHANGED vars
    BY <1>5 DEF vars, Typed
  <1>6. "client" \in Peers
    BY DEF Peers
  <1> QED
    BY <1>2, <1>3, <1>4, <1>5, <1>6, PeerMovesSo, NetworkMovesSo DEF Next, NetworkMoves

-----------------------------------------------------------------------------
(* Aborts. *)

\* Nothing but SYNs of the client has been sent, and none got past the sniffer.
Syns == {g \in Sent("client") : g.flags = {"SYN"}}
NothingPassed ==
  /\ peer["client"].stage \in {"closed", "opening"} /\ peer["server"].stage = "closed"
  /\ peer["client"].unacked \in Seq(Syns) /\ before["client"] \in Seq(Syns)
  /\ peer["server"].unacked = <<>> /\ Silent("server") /\ after["client"] = <<>>
  /\ NothingDue

\* Unless a segment was missed, all that passes the sniffer has a record.
RecordMade == spent["missed"] = 0 /\ conn = NoConn => NothingPassed

\* Peer x aborted.  When its RST has passed the sniffer the record is finished.
AbortedBy(x) ==
  /\ peer[x].stage = "aborted"
  /\ before[Partner(x)] \in Seq(Harmless(Partner(x)))
  /\ after[Partner(x)] \in Seq(Harmless(Partner(x)))
  /\ \/ IsFinished(conn)
     \/ after[x] \in Seq(Harmless(x)) /\ peer[Partner(x)].stage # "aborted"

NoneAborted ==
  \A x \in Peers : /\ peer[x].stage # "aborted"
                   /\ before[x] \in Seq(Harmless(x)) /\ after[x] \in Seq(Harmless(x))

OneAborts ==
  spent["missed"] = 0 => /\ spent["abort"] = 0 => NoneAborted
                         /\ spent["abort"] = 1 => \E x \in Peers : AbortedBy(x)

LEMMA InitAborts == Init => RecordMade /\ OneAborts
PROOF
  <1> SUFFICES ASSUME Init  PROVE RecordMade /\ OneAborts
    OBVIOUS
  <1>1. \A S : <<>> \in Seq(S)
    OBVIOUS
  <1>2. "client" \in Peers /\ "server" \in Peers
    BY DEF Peers
  <1>3. NothingPassed
    BY <1>1, <1>2 DEF Init, NothingPassed, Silent, NothingDue
  <1>4. NoneAborted
    BY <1>1 DEF Init, NoneAborted
  <1>5. spent["abort"] = 0
    BY DEF Init, Kinds
  <1> QED  BY <1>3, <1>4, <1>5 DEF RecordMade, OneAborts

\* The client sends a SYN, for the first time or again.
LEMMA SynSentAgain ==
  ASSUME Typed, NothingPassed, Open \/ \E x \in Peers : Resend(x)
  PROVE  NothingPassed'
PROOF
  <1>1. /\ "client" \in Peers /\ "server" \in Peers
        /\ \A x \in Peers : x = "client" \/ x = "server"
        /\ {"SYN"} \in SUBSET Flags
    BY DEF Peers, Flags
  <1>2. peer["client"] \in PeerState("client") /\ DOMAIN peer = Peers /\ DOMAIN before = Peers
    BY <1>1 DEF Typed, Queues
  <1>3. CASE Open
    <2> DEFINE q == [peer["client"] EXCEPT !.stage = "opening"]
    <2>1. /\ q \in PeerState("client") /\ q.stage = "opening"
          /\ q.unacked = peer["client"].unacked /\ q.owes = peer["client"].owes
      BY <1>2 DEF PeerState, Stages
    <2>2. Emit("client", q, {"SYN"}, 0) /\ UNCHANGED <<after, conn, spent>>
      BY <1>3 DEF Open
    <2> HIDE DEF q
    <2>3. Emits("client", q, {"SYN"})
      BY <1>1, <2>1, <2>2, EmitIsTyped
    <2>4. PICK g \in Sent("client"), r \in PeerState("client") :
            /\ g.flags = {"SYN"} /\ r.stage = q.stage
            /\ r.unacked = q.unacked \/ r.unacked = Append(q.unacked, g)
            /\ r.owes => q.owes
            /\ before' = [before EXCEPT !["client"] = Append(@, g)]
            /\ peer' = [peer EXCEPT !["client"] = r]
      BY <2>3 DEF Emits
    <2>5. g \in Syns
      BY <2>4 DEF Syns
    <2>6. r.unacked \in Seq(Syns) /\ before'["client"] \in Seq(Syns)
          /\ before'["server"] = before["server"]
      <3>1. Append(before["client"], g) \in Seq(Syns) /\ Append(q.unacked, g) \in Seq(Syns)
            /\ q.unacked \in Seq(Syns)
        BY <2>1, <2>5 DEF NothingPassed
      <3> QED  BY <1>1, <1>2, <2>4, <3>1
    <2>7. peer'["client"] = r /\ peer'["server"] = peer["server"]
      BY <1>1, <1>2, <2>4
    <2>8. ~r.owes
      BY <1>1, <2>1, <2>4 DEF NothingPassed, NothingDue
    <2> QED
      BY <1>1, <2>1, <2>2, <2>4, <2>6, <2>7, <2>8 DEF NothingPassed, Silent, NothingDue
  <1>4. CASE \E x \in Peers : Resend(x)
    <2>1. Resend("client")
      BY <1>1, <1>4 DEF NothingPassed, Resend
    <2>2. PICK g : g = Head(peer["client"].unacked)
      OBVIOUS
    <2>3. g \in Syns
      BY <2>1, <2>2, HeadTailProperties DEF Resend, NothingPassed
    <2> DEFINE h == [g EXCEPT !.ack = 0]
    <2>4. h \in Syns
      BY <2>3, WordAssumption DEF Syns, Sent, Numbers
    <2>5. /\ before' = [before EXCEPT !["client"] = Append(@, h)]
          /\ UNCHANGED <<after, conn>>
      <3>1. "ACK" \notin g.flags
        BY <2>3 DEF Syns
      <3> QED  BY <2>1, <2>2, <3>1 DEF Resend
    <2>6. /\ peer'["server"] = peer["server"]
          /\ peer'["client"].stage = peer["client"].stage
          /\ peer'["client"].unacked = peer["client"].unacked
      BY <1>1, <1>2, <2>1 DEF Resend, PeerState
    <2>7. ~peer'["client"].owes
      <3>1. peer'["client"].owes = (peer["client"].owes /\ "ACK" \notin g.flags)
        BY <1>1, <1>2, <2>1, <2>2 DEF Resend, PeerState
      <3> QED  BY <1>1, <3>1, Zenon DEF NothingPassed, NothingDue
    <2> HIDE DEF h
    <2>8. before'["client"] \in Seq(Syns) /\ before'["server"] = before["server"]
      BY <1>1, <1>2, <2>4, <2>5 DEF NothingPassed
    <2> QED
      BY <1>1, <2>5, <2>6, <2>7, <2>8 DEF NothingPassed, Silent, NothingDue
  <1> QED  BY <1>3, <1>4

LEMMA RecordMadeKept ==
  ASSUME Typed, RecordMade, [Next]_vars
  PROVE  RecordMade'
PROOF
  <1> SUFFICES ASSUME spent'["missed"] = 0, conn' = NoConn
               PROVE  NothingPassed'
    BY DEF RecordMade
  <1>1. /\ "client" \in Peers /\ "server" \in Peers
        /\ \A x \in Peers : x = "client" \/ x = "server"
    BY DEF Peers
  \* So it was before the step.
  <1>2. ASSUME NEW x \in Peers, PeerMoves(x) \/ Disturbed(x)
        PROVE  NothingPassed
    BY <1>2 DEF PeerMoves, Disturbed, RecordMade
  <1>3. ASSUME NEW x \in Peers, Captured(x)
        PROVE  NothingPassed /\ conn' = Observe(conn, Head(before[x]))
    <2>1. Head(before[x]) \in Sent(x)
      BY <1>3 DEF Typed, Queues, Captured
    <2>2. conn' = Observe(conn, Head(before[x])) /\ spent["missed"] = 0
      BY <1>3 DEF Captured
    <2>3. conn = NoConn
      BY <2>1, <2>2, ObserveIsTyped DEF Typed, Queues
    <2> QED  BY <2>2, <2>3 DEF RecordMade
  <1>4. CASE UNCHANGED vars
    BY <1>4 DEF vars, RecordMade, NothingPassed, Silent, NothingDue
  <1>5. CASE Open \/ \E x \in Peers : Resend(x)
    BY <1>1, <1>2, <1>5, PeerMovesSo, SynSentAgain
  <1>6. ASSUME NEW x \in Peers,
               SendAck(x) \/ SendData(x) \/ (\E len \in {0, 1} : SendFin(x, len))
               \/ Abort(x) \/ Receive(x)
        PROVE  FALSE
    <2>1. NothingPassed
      BY <1>2, <1>6, PeerMovesSo
    <2>2. ~peer[x].owes /\ peer[x].stage # "open" /\ after[Partner(x)] = <<>>
      BY <1>1, <2>1, PartnerIsOther DEF NothingPassed, NothingDue, Silent
    <2> QED  BY <1>6, <2>2 DEF SendAck, SendData, SendFin, Abort, Receive
  <1>7. ASSUME NEW x \in Peers,
               Capture(x) \/ Miss(x) \/ LoseBefore(x) \/ LoseAfter(x) \/ SwapBefore(x)
        PROVE  NothingPassed'
    <2>1. NetworkMoves(x)
      BY <1>7, NetworkMovesSo
    <2>2. NothingPassed
      BY <1>2, <1>3, <2>1 DEF NetworkMoves
    <2>3. x = "client"
      BY <1>1, <1>7, <2>2
         DEF NothingPassed, Silent, Capture, Miss, LoseBefore, LoseAfter, SwapBefore, Pass
    <2>4. ~Captured(x)
      <3> SUFFICES ASSUME Captured(x)  PROVE FALSE
        OBVIOUS
      <3>1. PICK g \in Syns : g = Head(before[x])
        BY <2>2, <2>3 DEF NothingPassed, Captured
      <3>2. conn' = Observe(conn, g)
        BY <1>3, <3>1
      <3>3. g \in Sent(x) /\ g.flags = {"SYN"}
        BY <2>3 DEF Syns
      <3> QED  BY <3>2, <3>3, ObserveIsTyped DEF Typed, Queues
    <2>5. PICK s : /\ before' = [before EXCEPT ![x] = s] /\ after' = after
                   /\ \A S : before[x] \in Seq(S) => s \in Seq(S)
      BY <2>1, <2>2, <2>3, <2>4 DEF NetworkMoves, Disturbed, NothingPassed
    <2>6. before'["client"] \in Seq(Syns) /\ before'["server"] = before["server"]
      BY <1>1, <2>2, <2>3, <2>5 DEF Typed, Queues, NothingPassed
    <2>7. peer' = peer
      BY <2>1 DEF NetworkMoves
    <2> QED  BY <2>2, <2>5, <2>6, <2>7 DEF NothingPassed, Silent, NothingDue
  <1> QED  BY <1>4, <1>5, <1>6, <1>7 DEF Next

\* Queues with no RST in them.
LEMMA HarmlessQueues ==
  ASSUME NEW z, NEW s \in Seq(Harmless(z))
  PROVE  /\ \A g \in Sent(z) : "RST" \notin g.flags => Append(s, g) \in Seq(Harmless(z))
         /\ s # <<>> => Tail(s) \in Seq(Harmless(z)) /\ Head(s) \in Harmless(z)
PROOF
  <1>1. \A g \in Sent(z) : "RST" \notin g.flags => g \in Harmless(z)
    BY DEF Harmless
  <1>2. \A g \in Harmless(z) : Append(s, g) \in Seq(Harmless(z))
    OBVIOUS
  <1> QED  BY <1>1, <1>2, HeadTailProperties

\* A step of peer x, as far as RSTs are concerned.
LEMMA PeerAborts ==
  ASSUME Typed, NEW x \in Peers, PeerMoves(x)
  PROVE  /\ \A z \in Peers : /\ z # x => peer'[z] = peer[z]
                             /\ peer[z].stage = "aborted" => peer'[z].stage = "aborted"
         /\ peer'[x].stage = "aborted" => \/ peer[x].stage = "aborted" \/ Aborts
                                          \/ after[Partner(x)] \notin Seq(Harmless(Partner(x)))
         /\ Aborts => after' = after /\ peer'[x].stage = "aborted"
         /\ \A z \in Peers : z # x \/ ~Aborts =>
              (before[z] \in Seq(Harmless(z)) => before'[z] \in Seq(Harmless(z)))
         /\ \A z \in Peers : after[z] \in Seq(Harmless(z)) => after'[z] \in Seq(Harmless(z))
PROOF
  <1>1. PICK r \in PeerState(x) :
          /\ peer' = [peer EXCEPT ![x] = r]
          /\ peer[x].stage = "aborted" => r.stage = "aborted"
          /\ r.stage = "aborted" => \/ peer[x].stage = "aborted" \/ Aborts
                                    \/ after[Partner(x)] \notin Seq(Harmless(Partner(x)))
          /\ Aborts => after' = after /\ r.stage = "aborted"
    BY DEF PeerMoves
  <1>2. peer'[x] = r /\ \A z \in Peers : z # x => peer'[z] = peer[z]
    BY <1>1 DEF Typed
  <1>3. ASSUME NEW z \in Peers, z # x \/ ~Aborts, before[z] \in Seq(Harmless(z))
        PROVE  before'[z] \in Seq(Harmless(z))
    <2>1. CASE before' = before
      BY <1>3, <2>1
    <2>2. ASSUME NEW g \in Sent(x), before' = [before EXCEPT ![x] = Append(@, g)],
                 "RST" \in g.flags => Aborts
          PROVE  before'[z] \in Seq(Harmless(z))
      <3>1. z # x => before'[z] = before[z]
        BY <2>2 DEF Typed, Queues
      <3>2. before'[x] = Append(before[x], g)
        BY <2>2 DEF Typed, Queues
      <3>3. CASE z = x
        BY <1>3, <2>2, <3>2, <3>3, HarmlessQueues
      <3> QED  BY <1>3, <3>1, <3>3
    <2> QED  BY <2>1, <2>2 DEF PeerMoves
  <1>4. ASSUME NEW z \in Peers, after[z] \in Seq(Harmless(z))
        PROVE  after'[z] \in Seq(Harmless(z))
    <2>1. CASE after' = after
      BY <1>4, <2>1
    <2>2. CASE after[Partner(x)] # <<>> /\ after' = [after EXCEPT ![Partner(x)] = Tail(@)]
      <3>1. after'[z] = after[z] \/ (after[z] # <<>> /\ after'[z] = Tail(after[z]))
        BY <2>2 DEF Typed, Queues
      <3> QED  BY <1>4, <3>1, HarmlessQueues
    <2> QED  BY <2>1, <2>2 DEF PeerMoves
  <1> QED  BY <1>1, <1>2, <1>3, <1>4

\* A step of the network on the segments of x: no RST comes up, and one that
\* passes the sniffer finishes the record.
LEMMA NetworkAborts ==
  ASSUME Typed, RecordMade, NEW x \in Peers, NetworkMoves(x),
         spent["missed"] = 0, spent'["missed"] = 0
  PROVE  /\ \A z \in Peers : before[z] \in Seq(Harmless(z)) => before'[z] \in Seq(Harmless(z))
         /\ \A z \in Peers : z # x \/ before[z] \in Seq(Harmless(z)) =>
              (after[z] \in Seq(Harmless(z)) => after'[z] \in Seq(Harmless(z)))
         /\ IsFinished(conn) => IsFinished(conn')
         /\ peer[x].stage = "aborted" /\ after[x] \in Seq(Harmless(x)) =>
              IsFinished(conn') \/ after'[x] \in Seq(Harmless(x))
PROOF
  <1>1. CASE Captured(x)
    <2>1. PICK g \in Sent(x) : g = Head(before[x])
      BY <1>1 DEF Typed, Queues, Captured
    <2>2. /\ before[x] # <<>> /\ before'[x] = Tail(before[x])
          /\ after'[x] = Append(after[x], g)
          /\ \A z \in Peers : z # x => before'[z] = before[z] /\ after'[z] = after[z]
      BY <1>1, <2>1 DEF Typed, Queues, Captured
    <2>3. conn' = Observe(conn, g)
      BY <1>1, <2>1 DEF Captured
    <2>4. /\ IsFinished(conn) => IsFinished(conn')
          /\ conn # NoConn /\ "RST" \in g.flags => IsFinished(conn')
      BY <2>1, <2>3, ObserveIsTyped DEF Typed
    <2>5. peer[x].stage = "aborted" => conn # NoConn
      <3>1. x = "client" \/ x = "server"
        BY DEF Peers
      <3> QED  BY <3>1 DEF RecordMade, NothingPassed
    <2>6. \A z \in Peers : before[z] \in Seq(Harmless(z)) => before'[z] \in Seq(Harmless(z))
      BY <2>2, HarmlessQueues
    <2>7. after[x] \in Seq(Harmless(x)) =>
            "RST" \in g.flags \/ after'[x] \in Seq(Harmless(x))
      BY <2>1, <2>2, HarmlessQueues
    <2>8. before[x] \in Seq(Harmless(x)) => "RST" \notin g.flags
      BY <2>1, <2>2, HarmlessQueues DEF Harmless
    <2> QED  BY <2>2, <2>4, <2>5, <2>6, <2>7, <2>8
  <1>2. CASE Disturbed(x)
    <2>1. conn' = conn
      BY <1>2 DEF Disturbed
    <2>2. ASSUME NEW z \in Peers, before[z] \in Seq(Harmless(z))
          PROVE  before'[z] \in Seq(Harmless(z))
      <3>1. CASE before' = before
        BY <2>2, <3>1
      <3>2. ASSUME NEW s, before' = [before EXCEPT ![x] = s],
                   \A S : before[x] \in Seq(S) => s \in Seq(S)
            PROVE  before'[z] \in Seq(Harmless(z))
        <4>1. before'[x] = s /\ (z # x => before'[z] = before[z])
          BY <3>2 DEF Typed, Queues
        <4> QED  BY <2>2, <3>2, <4>1
      <3> QED  BY <1>2, <3>1, <3>2 DEF Disturbed
    <2>3. ASSUME NEW z \in Peers, after[z] \in Seq(Harmless(z))
          PROVE  after'[z] \in Seq(Harmless(z))
      <3>1. CASE after' = after
        BY <2>3, <3>1
      <3>2. CASE after[x] # <<>> /\ after' = [after EXCEPT ![x] = Tail(@)]
        <4>1. after'[z] = after[z] \/ (after[z] # <<>> /\ after'[z] = Tail(after[z]))
          BY <3>2 DEF Typed, Queues
        <4> QED  BY <2>3, <4>1, HarmlessQueues
      <3> QED  BY <1>2, <3>1, <3>2 DEF Disturbed
    <2> QED  BY <2>1, <2>2, <2>3
  <1> QED  BY <1>1, <1>2 DEF NetworkMoves

LEMMA OneAbortsKept ==
  ASSUME Typed, RecordMade, OneAborts, [Next]_vars
  PROVE  OneAborts'
PROOF
  <1> SUFFICES ASSUME spent'["missed"] = 0
               PROVE  /\ spent'["abort"] = 0 => NoneAborted'
                      /\ spent'["abort"] = 1 => \E z \in Peers : AbortedBy(z)'
    BY DEF OneAborts
  <1>1. spent["abort"] \in Nat
    BY DEF Typed, Kinds
  <1>2. ASSUME NEW x \in Peers, PeerMoves(x)
        PROVE  /\ spent'["abort"] = 0 => NoneAborted'
               /\ spent'["abort"] = 1 => \E z \in Peers : AbortedBy(z)'
    <2>1. spent["missed"] = 0 /\ conn' = conn /\ (spent'["abort"] = spent["abort"] \/ Aborts)
      BY <1>2 DEF PeerMoves
    <2>2. CASE spent'["abort"] = 0
      <3>1. spent["abort"] = 0 /\ ~Aborts
        BY <1>1, <2>1, <2>2 DEF Aborts
      <3>2. NoneAborted
        BY <2>1, <3>1 DEF OneAborts
      <3>3. Partner(x) \in Peers
        BY PartnerIsOther
      <3>4. NoneAborted'
        BY <1>2, <3>1, <3>2, <3>3, PeerAborts DEF NoneAborted
      <3> QED  BY <2>2, <3>4
    <2>3. CASE spent'["abort"] = 1 /\ Aborts
      <3>1. NoneAborted
        BY <1>1, <2>1, <2>3 DEF OneAborts, Aborts
      <3>2. Partner(x) \in Peers /\ Partner(x) # x
        BY PartnerIsOther
      <3>3. AbortedBy(x)'
        BY <1>2, <2>3, <3>1, <3>2, PeerAborts DEF NoneAborted, AbortedBy
      <3> QED  BY <2>3, <3>3
    <2>4. CASE spent'["abort"] = 1 /\ ~Aborts
      <3>1. PICK z \in Peers : AbortedBy(z)
        BY <2>1, <2>4 DEF OneAborts
      <3>2. Partner(z) \in Peers /\ Partner(z) # z /\ (x = Partner(z) => Partner(x) = z)
            /\ (x = z \/ x = Partner(z))
        BY PartnerIsOther
      <3>3. peer'[z].stage = "aborted"
        BY <1>2, <3>1, PeerAborts DEF AbortedBy
      <3>4. /\ before'[Partner(z)] \in Seq(Harmless(Partner(z)))
            /\ after'[Partner(z)] \in Seq(Harmless(Partner(z)))
        BY <1>2, <2>4, <3>1, <3>2, PeerAborts DEF AbortedBy
      <3>5. ~IsFinished(conn) =>
              after'[z] \in Seq(Harmless(z)) /\ peer'[Partner(z)].stage # "aborted"
        BY <1>2, <2>4, <3>1, <3>2, PeerAborts DEF AbortedBy
      <3>6. AbortedBy(z)'
        BY <2>1, <3>3, <3>4, <3>5 DEF AbortedBy
      <3> QED  BY <2>4, <3>6
    <2> QED  BY <2>2, <2>3, <2>4
  <1>3. ASSUME NEW x \in Peers, NetworkMoves(x)
        PROVE  /\ spent'["abort"] = 0 => NoneAborted'
               /\ spent'["abort"] = 1 => \E z \in Peers : AbortedBy(z)'
    <2>1. spent["missed"] = 0 /\ spent'["abort"] = spent["abort"] /\ peer' = peer
      BY <1>3 DEF NetworkMoves, Captured, Disturbed
    <2>2. CASE spent'["abort"] = 0
      <3>1. NoneAborted
        BY <2>1, <2>2 DEF OneAborts
      <3>2. NoneAborted'
        BY <1>3, <2>1, <3>1, NetworkAborts DEF NoneAborted
      <3> QED  BY <2>2, <3>2
    <2>3. CASE spent'["abort"] = 1
      <3>1. PICK z \in Peers : AbortedBy(z)
        BY <2>1, <2>3 DEF OneAborts
      <3>2. Partner(z) \in Peers /\ (x = z \/ x = Partner(z)) /\ Partner(z) # z
        BY PartnerIsOther
      <3>3. /\ before'[Partner(z)] \in Seq(Harmless(Partner(z)))
            /\ after'[Partner(z)] \in Seq(Harmless(Partner(z)))
        BY <1>3, <2>1, <3>1, <3>2, NetworkAborts DEF AbortedBy
      <3>4. IsFinished(conn') \/ (after'[z] \in Seq(Harmless(z)) /\ peer[Partner(z)].stage # "aborted")
        BY <1>3, <2>1, <3>1, <3>2, NetworkAborts DEF AbortedBy
      <3>5. AbortedBy(z)'
        BY <2>1, <3>1, <3>3, <3>4 DEF AbortedBy
      <3> QED  BY <2>3, <3>5
    <2> QED  BY <2>2, <2>3
  <1>4. CASE UNCHANGED vars
    BY <1>4 DEF vars, OneAborts, NoneAborted, AbortedBy
  <1>5. "client" \in Peers
    BY DEF Peers
  <1> QED
    BY <1>2, <1>3, <1>4, <1>5, PeerMovesSo, NetworkMovesSo DEF Next

LEMMA TypedInvariant == Spec => [](Shape /\ Typed)
PROOF
  <1>1. Init => Shape /\ Typed
    BY InitIInv, InitTyped DEF IInv
  <1>2. (Shape /\ Typed) /\ [Next]_vars => (Shape /\ Typed)'
    BY ShapeKept, TypedKept
  <1> QED  BY <1>1, <1>2, PTL DEF Spec

\* The peers, their segments, wherever they are, and the record of
\* TCPConnection.h keep their types: the numbers that the FINs ask for wrap.
THEOREM TypeCorrect == Spec => []TypeOK
PROOF
  <1>1. Typed => TypeOK
    <2> SUFFICES ASSUME Typed  PROVE TypeOK
      OBVIOUS
    <2>1. \A x \in Peers : Sent(x) \subseteq Segments
      BY PartnerIsOther DEF Sent, Segments, Numbers
    <2>2. \A x \in Peers, w \in {before, after} : \A i \in 1 .. Len(w[x]) : w[x][i] \in Segments
      <3>1. ASSUME NEW x \in Peers, NEW s \in Seq(Sent(x)), NEW i \in 1 .. Len(s)
            PROVE  s[i] \in Segments
        BY <2>1, <3>1, ElementOfSeq
      <3> QED  BY <3>1 DEF Typed, Queues
    <2>3. \A x \in Peers : /\ peer[x].stage \in {"closed", "opening", "open", "aborted"}
                           /\ peer[x].snd \in 0 .. Word - 1 /\ peer[x].rcv \in 0 .. Word - 1
                           /\ peer[x].fin \in BOOLEAN /\ peer[x].heard \in BOOLEAN
                           /\ peer[x].owes \in BOOLEAN
      BY DEF Typed, PeerState, Stages, Numbers
    <2>4. conn # NoConn =>
            /\ conn.state \in States /\ conn.idle = 0
            /\ conn.finack \in [Sides -> 0 .. Word - 1] /\ conn.recvd \in [Sides -> BOOLEAN]
      BY DEF Typed, Its, Records, Numbers
    <2> QED  BY <2>2, <2>3, <2>4 DEF TypeOK, Typed
  <1> QED  BY <1>1, TypedInvariant, PTL

\* When one peer has aborted and the other one knows, the record is finished
\* (acceptPacket(), TCPConnection.cc:298-299): its RST has passed the sniffer
\* behind the SYN that made the record, and no later segment undoes it.
THEOREM AbortIsSeen == Spec => []AbortedMeansFinished
PROOF
  <1>1. Typed /\ RecordMade /\ OneAborts => AbortedMeansFinished
    <2> SUFFICES ASSUME Typed, OneAborts, spent["missed"] = 0, spent["abort"] <= 1,
                        \A x \in Peers : peer[x].stage = "aborted"
                 PROVE  IsFinished(conn)
      BY DEF AbortedMeansFinished, Never
    <2>1. "client" \in Peers /\ spent["abort"] \in Nat
      BY DEF Typed, Kinds, Peers
    <2>2. spent["abort"] = 1
      BY <2>1 DEF OneAborts, NoneAborted
    <2>3. PICK x \in Peers : AbortedBy(x)
      BY <2>2 DEF OneAborts
    <2> QED  BY <2>3, PartnerIsOther DEF AbortedBy
  <1>2. Spec => [](RecordMade /\ OneAborts)
    <2>1. (RecordMade /\ OneAborts) /\ (Shape /\ Typed) /\ [Next]_vars
            => (RecordMade /\ OneAborts)'
      BY RecordMadeKept, OneAbortsKept
    <2> QED  BY <2>1, InitAborts, TypedInvariant, PTL DEF Spec
  <1> QED  BY <1>1, <1>2, TypedInvariant, PTL
=============================================================================
