------------------------------ MODULE ClosingProofs ------------------------------
(***************************************************************************)
(* Proofs about the end of a conversation: what the record takes for the   *)
(* acknowledgement of a FIN is one.  The argument is about sequence        *)
(* numbers: which numbers a peer has used for what, and that a number      *)
(* which acknowledges a FIN is never sent before the FIN has arrived.      *)
(*                                                                         *)
(* In what follows r is the state of peer x, p that of its partner and d   *)
(* the number of data segments sent so far.                                *)
(***************************************************************************)
EXTENDS ConversationProofs

\* Numbers of x that its FIN does not use up: acknowledging one of them does
\* not acknowledge the FIN.
Plain(x, r) == {n \in ISS[x] + 1 .. Word - 1 : IF r.fin THEN n # r.snd ELSE n <= r.snd}

\* What x may acknowledge: the number after the FIN only once it has heard it.
Acked(x, r, p, n) == n \in Plain(Partner(x), p) \/ (r.heard /\ n = p.snd)

\* Peer x knows the numbers of the other one, and takes part.
Synced(x, r) == r.stage = "open" \/ (x = "server" /\ r.stage = "opening")

\* The segments of x: SYN, FIN, all others.
OpeningFlags(x) == IF x = "client" THEN {"SYN"} ELSE {"SYN", "ACK"}
IsSyn(x, r, g) == g.flags = OpeningFlags(x) /\ g.seq = ISS[x] /\ Next_(g) \in Plain(x, r)
IsFin(x, r, g) == /\ g.flags = {"FIN", "ACK"} /\ r.fin
                  /\ g.seq \in Plain(x, r) /\ Next_(g) = r.snd
IsData(x, r, g) == /\ g.flags = {"ACK"} \/ g.flags = {"RST", "ACK"}
                   /\ \/ g.seq \in Plain(x, r) /\ Next_(g) \in Plain(x, r)
                      \/ r.fin /\ g.seq = r.snd /\ Next_(g) = r.snd
Numbered(x, r, p) == {g \in Sent(x) : /\ IsSyn(x, r, g) \/ IsFin(x, r, g) \/ IsData(x, r, g)
                                      /\ "ACK" \in g.flags => Acked(x, r, p, g.ack)}
Bare(x) == {g \in Sent(x) : "ACK" \notin g.flags}

\* The numbers x has used.
Used(x, r, d) == /\ ~r.fin => r.snd \in ISS[x] .. ISS[x] + 1 + d
                 /\ r.fin => r.snd # ISS[x] /\ r.stage \in {"open", "aborted"}
Started(x, r) == /\ r.stage = "closed" => r.snd = ISS[x]
                 /\ r.stage \in {"opening", "open"} => r.snd # ISS[x]

\* What x knows of the other one.
Knows(x, r, p) ==
  /\ r.heard => /\ Synced(x, r) \/ r.stage = "aborted"
                /\ p.fin /\ r.rcv = p.snd
  /\ Synced(x, r) => Acked(x, r, p, r.rcv)
  /\ ~Synced(x, r) => ~r.owes /\ r.unacked \in Seq(Bare(x))

\* The segments of x, in its queues b and a, are those it may have sent.
Consistent(x, r, p, d, b, a) ==
  /\ Used(x, r, d) /\ Started(x, r) /\ Knows(x, r, p)
  /\ r.unacked \in Seq(Numbered(x, r, p))
  /\ b \in Seq(Numbered(x, r, p)) /\ a \in Seq(Numbered(x, r, p))

InBudget == \E b \in Budgets : spent["data"] <= b["data"]

NumbersKept ==
  /\ InBudget
  /\ \A x \in Peers : Consistent(x, peer[x], peer[Partner(x)], spent["data"], before[x], after[x])

-----------------------------------------------------------------------------
(* Arithmetic. *)

LEMMA Remainder ==
  ASSUME NEW n \in Nat
  PROVE  /\ n < Word => n % Word = n
         /\ n >= Word /\ n < 2 * Word => n % Word = n - Word
  BY WordAssumption

\* Room for d data segments of x, and for a FIN behind them.
Room(x, d) == ISS[x] \in Nat /\ d \in Nat /\ ISS[x] + 1 + d < Word /\ d + 3 < Word

LEMMA HasRoom ==
  ASSUME NumbersApart, NEW d \in Nat, \E b \in Budgets : d <= b["data"], NEW x \in Peers
  PROVE  Room(x, d)
PROOF
  <1>1. PICK b \in Budgets : d <= b["data"]
    OBVIOUS
  <1>2. b["data"] \in Nat
    BY ConversationAssumption DEF Kinds
  <1>3. ISS[x] \in Nat
    BY ConversationAssumption DEF Peers
  <1> QED  BY <1>1, <1>2, <1>3, WordAssumption DEF NumbersApart, Room

\* The number that follows a segment.
LEMMA Following ==
  ASSUME Word > 3, NEW x, NEW g \in Sent(x)
  PROVE  /\ Size(g) \in 0 .. 2 /\ g.seq \in Numbers
         /\ Next_(g) = IF g.seq + Size(g) < Word THEN g.seq + Size(g) ELSE g.seq + Size(g) - Word
         /\ g.flags \cap {"SYN", "FIN"} = {} => Size(g) = g.len
         /\ g.flags \cap {"SYN", "FIN"} # {} => Size(g) = g.len + 1
PROOF
  <1>1. Size(g) \in 0 .. 2 /\ g.seq \in Numbers
    BY DEF Size, Sent
  <1>2. g.seq + Size(g) \in Nat /\ g.seq + Size(g) < 2 * Word
    BY <1>1, WordAssumption DEF Numbers
  <1>3. Next_(g) = (g.seq + Size(g)) % Word
    BY DEF Next_
  <1>4. Next_(g) = IF g.seq + Size(g) < Word THEN g.seq + Size(g) ELSE g.seq + Size(g) - Word
    BY <1>1, <1>2, <1>3, Remainder, WordAssumption DEF Numbers
  <1>5. /\ g.flags \cap {"SYN", "FIN"} = {} => Size(g) = g.len
        /\ g.flags \cap {"SYN", "FIN"} # {} => Size(g) = g.len + 1
    BY DEF Size, Sent
  <1> QED  BY <1>1, <1>4, <1>5

-----------------------------------------------------------------------------
(* Nothing that was so of a number is undone. *)

Ahead(x, r, s) == /\ r.heard => s.heard
                  /\ r.fin => s.fin /\ s.snd = r.snd
                  /\ Plain(x, r) \subseteq Plain(x, s)

LEMMA AheadTransitive ==
  ASSUME NEW x, NEW r, NEW s, NEW t, Ahead(x, r, s), Ahead(x, s, t)
  PROVE  Ahead(x, r, t)
  BY DEF Ahead

LEMMA NumberedAhead ==
  ASSUME NEW x, NEW r, NEW s, NEW p, NEW o, Ahead(x, r, s), Ahead(Partner(x), p, o),
         r.heard => p.fin
  PROVE  /\ \A n : Acked(x, r, p, n) => Acked(x, s, o, n)
         /\ Numbered(x, r, p) \subseteq Numbered(x, s, o)
         /\ \A q \in Seq(Numbered(x, r, p)) : q \in Seq(Numbered(x, s, o))
PROOF
  <1>1. \A n : Acked(x, r, p, n) => Acked(x, s, o, n)
    BY DEF Ahead, Acked
  <1>2. \A g : /\ IsSyn(x, r, g) => IsSyn(x, s, g)
               /\ IsFin(x, r, g) => IsFin(x, s, g)
               /\ IsData(x, r, g) => IsData(x, s, g)
    BY DEF Ahead, IsSyn, IsFin, IsData
  <1>3. Numbered(x, r, p) \subseteq Numbered(x, s, o)
    BY <1>1, <1>2 DEF Numbered
  <1> QED  BY <1>1, <1>3, SeqMonotonic, ElementOfSeq

\* The state of the other peer moves on.
LEMMA PartnerConsistent ==
  ASSUME NEW x, NEW r, NEW p, NEW o, NEW d \in Nat, NEW e \in Nat, d <= e, ISS[x] \in Nat,
         NEW b, NEW a, NEW c, NEW f,
         Consistent(x, r, p, d, b, a), Ahead(Partner(x), p, o),
         \A S : b \in Seq(S) => c \in Seq(S), \A S : a \in Seq(S) => f \in Seq(S)
  PROVE  Consistent(x, r, o, e, c, f)
PROOF
  <1>1. Ahead(x, r, r)
    BY DEF Ahead
  <1>2. r.heard => p.fin
    BY DEF Consistent, Knows
  <1>3. Used(x, r, e)
    BY DEF Consistent, Used
  <1>4. Knows(x, r, o)
    BY <1>1, <1>2, NumberedAhead DEF Consistent, Knows, Ahead
  <1>5. \A q \in Seq(Numbered(x, r, p)) : q \in Seq(Numbered(x, r, o))
    BY <1>1, <1>2, NumberedAhead
  <1> QED  BY <1>3, <1>4, <1>5 DEF Consistent

-----------------------------------------------------------------------------
(* Sending. *)

\* The segment that peer x sends in the state q, and the state that leaves it in.
Sending(x, q, flags, len, g, r) ==
  /\ g \in Sent(x) /\ g.flags = flags /\ g.seq = q.snd /\ g.len = len
  /\ g.ack = IF "ACK" \in flags THEN q.rcv ELSE 0
  /\ r \in PeerState(x)
  /\ r.stage = q.stage /\ r.rcv = q.rcv /\ r.heard = q.heard
  /\ r.snd = Next_(g) /\ r.fin = (q.fin \/ "FIN" \in flags)
  /\ r.owes = (q.owes /\ "ACK" \notin flags)
  /\ r.unacked = IF Size(g) > 0 THEN Append(q.unacked, g) ELSE q.unacked

LEMMA EmitIsExact ==
  ASSUME NEW x \in Peers, NEW q \in PeerState(x), NEW flags \in SUBSET Flags,
         NEW len \in {0, 1}, "RST" \in flags => len = 0 /\ flags \cap {"SYN", "FIN"} = {},
         Emit(x, q, flags, len)
  PROVE  \E g, r : /\ Sending(x, q, flags, len, g, r)
                   /\ before' = [before EXCEPT ![x] = Append(@, g)]
                   /\ peer' = [peer EXCEPT ![x] = r]
PROOF
  <1> DEFINE g == Segment(x, flags, q.snd, IF "ACK" \in flags THEN q.rcv ELSE 0, len)
             unacked == IF Size(g) > 0 THEN Append(q.unacked, g) ELSE q.unacked
             fin == q.fin \/ "FIN" \in flags
             owes == q.owes /\ "ACK" \notin flags
             r == [q EXCEPT !.snd = Next_(g), !.unacked = unacked, !.fin = fin, !.owes = owes]
  <1>1. 0 \in Numbers
    BY WordAssumption DEF Numbers
  <1>2. /\ g \in Sent(x) /\ g.flags = flags /\ g.len = len /\ g.seq = q.snd
        /\ g.ack = IF "ACK" \in flags THEN q.rcv ELSE 0
    BY <1>1 DEF Segment, Sent, PeerState
  <1>3. before' = [before EXCEPT ![x] = Append(@, g)] /\ peer' = [peer EXCEPT ![x] = r]
    BY DEF Emit
  <1>4. Next_(g) \in Numbers
    BY <1>2, NextIsNumber
  <1>5. unacked \in Seq(Harmless(x))
    <2>1. q.unacked \in Seq(Harmless(x))
      BY DEF PeerState
    <2>2. CASE Size(g) > 0
      <3>1. "RST" \notin flags
        BY <1>2, <2>2 DEF Size
      <3> QED  BY <1>2, <2>1, <3>1 DEF Harmless
    <2> QED  BY <2>1, <2>2
  <1>6. unacked = IF Size(g) > 0 THEN Append(q.unacked, g) ELSE q.unacked
    OBVIOUS
  <1>7. /\ fin \in BOOLEAN /\ owes \in BOOLEAN
        /\ fin = (q.fin \/ "FIN" \in flags) /\ owes = (q.owes /\ "ACK" \notin flags)
    OBVIOUS
  <1> HIDE DEF g, unacked, fin, owes
  <1>8. /\ r \in PeerState(x) /\ r.stage = q.stage /\ r.unacked = unacked
        /\ r.rcv = q.rcv /\ r.heard = q.heard /\ r.snd = Next_(g)
        /\ r.fin = fin /\ r.owes = owes
    BY <1>4, <1>5, <1>7 DEF PeerState
  <1> HIDE DEF r
  <1>9. Sending(x, q, flags, len, g, r)
    BY <1>2, <1>6, <1>7, <1>8 DEF Sending
  <1> QED  BY <1>3, <1>9

\* What a peer sends: the segment that opens the connection, an acknowledgement
\* or a RST, data (the last of d), a FIN.
Sendable(x, q, flags, len, d) ==
  \/ flags = OpeningFlags(x) /\ len = 0 /\ q.stage = "opening" /\ q.snd = ISS[x] /\ ~q.fin
  \/ (flags = {"ACK"} \/ flags = {"RST", "ACK"}) /\ len = 0 /\ q.snd # ISS[x]
  \/ flags = {"ACK"} /\ len = 1 /\ q.snd # ISS[x] /\ ~q.fin /\ q.snd < ISS[x] + 1 + d
  \/ flags = {"FIN", "ACK"} /\ q.snd # ISS[x] /\ ~q.fin /\ q.stage = "open"

\* The number of a segment, the numbers of the peer that sent it.
LEMMA SendingNumbers ==
  ASSUME NEW x \in Peers, NEW d, Room(x, d), NEW q \in PeerState(x), NEW flags,
         NEW len \in {0, 1}, NEW g, NEW r, Sending(x, q, flags, len, g, r),
         Used(x, q, d), Sendable(x, q, flags, len, d)
  PROVE  /\ Ahead(x, q, r) /\ Used(x, r, d)
         /\ IsSyn(x, r, g) \/ IsFin(x, r, g) \/ IsData(x, r, g)
         /\ r.stage \in {"opening", "open"} => r.snd # ISS[x]
PROOF
  <1>1. /\ Word > 3 /\ ISS[x] \in Nat /\ d \in Nat /\ Word \in Nat
        /\ q.snd \in Numbers /\ q.fin \in BOOLEAN /\ g.flags = flags /\ g.len = len
        /\ g.seq = q.snd /\ r.snd = Next_(g) /\ r.stage = q.stage /\ r.heard = q.heard
        /\ r.fin \in BOOLEAN /\ r.fin = (q.fin \/ "FIN" \in flags)
    BY WordAssumption DEF Room, Sending, PeerState
  <1>2. /\ Next_(g) = IF q.snd + Size(g) < Word THEN q.snd + Size(g) ELSE q.snd + Size(g) - Word
        /\ flags \cap {"SYN", "FIN"} = {} => Size(g) = len
        /\ flags \cap {"SYN", "FIN"} # {} => Size(g) = len + 1
    BY <1>1, Following DEF Sending
  <1>3. CASE flags = OpeningFlags(x) /\ len = 0 /\ q.stage = "opening" /\ q.snd = ISS[x] /\ ~q.fin
    <2>1. ~r.fin /\ Next_(g) = ISS[x] + 1
      BY <1>1, <1>2, <1>3 DEF OpeningFlags, Room
    <2> QED
      BY <1>1, <1>3, <2>1 DEF Ahead, Used, Plain, IsSyn, Room
  <1>4. CASE (flags = {"ACK"} \/ flags = {"RST", "ACK"}) /\ len = 0 /\ q.snd # ISS[x]
    <2>1. r.fin = q.fin /\ Next_(g) = q.snd
      BY <1>1, <1>2, <1>4 DEF Numbers
    <2>2. Plain(x, r) = Plain(x, q)
      BY <1>1, <2>1 DEF Plain
    <2>3. ~q.fin => q.snd \in Plain(x, r)
      BY <1>1, <1>4, <2>1 DEF Used, Plain, Numbers
    <2> QED
      BY <1>1, <1>4, <2>1, <2>2, <2>3 DEF Ahead, Used, IsData
  <1>5. CASE flags = {"ACK"} /\ len = 1 /\ q.snd # ISS[x] /\ ~q.fin /\ q.snd < ISS[x] + 1 + d
    <2>1. ~r.fin /\ Next_(g) = q.snd + 1
      BY <1>1, <1>2, <1>5 DEF Numbers, Room
    <2> QED
      BY <1>1, <1>5, <2>1 DEF Ahead, Used, Plain, IsData, Room, Numbers
  <1>6. CASE flags = {"FIN", "ACK"} /\ q.snd # ISS[x] /\ ~q.fin /\ q.stage = "open"
    <2>1. r.fin /\ Next_(g) = IF q.snd + len + 1 < Word THEN q.snd + len + 1
                                                        ELSE q.snd + len + 1 - Word
      <3>1. "FIN" \in flags
        BY <1>6
      <3>2. r.fin
        BY <1>1, <3>1, Zenon
      <3>3. Size(g) = len + 1
        BY <1>2, <1>6
      <3> QED  BY <1>1, <1>2, <3>2, <3>3 DEF Numbers
    <2>2. q.snd \in ISS[x] + 1 .. ISS[x] + 1 + d
      BY <1>1, <1>6 DEF Used
    <2>3. \A n \in ISS[x] .. q.snd : n # r.snd
      BY <1>1, <2>1, <2>2 DEF Room
    <2>4. Plain(x, q) \subseteq Plain(x, r) /\ q.snd \in Plain(x, r) /\ r.snd # ISS[x]
      BY <1>1, <1>6, <2>1, <2>2, <2>3 DEF Plain, Room
    <2> QED
      BY <1>1, <1>6, <2>1, <2>4 DEF Ahead, Used, IsFin
  <1> QED  BY <1>3, <1>4, <1>5, <1>6 DEF Sendable

\* A segment that is sent is numbered as it should be, and the peer knows what it
\* knew.
LEMMA SendingConsistent ==
  ASSUME NEW x \in Peers, NEW d, Room(x, d), NEW q \in PeerState(x), NEW flags,
         NEW len \in {0, 1}, NEW g, NEW r, Sending(x, q, flags, len, g, r), NEW p,
         Used(x, q, d), Sendable(x, q, flags, len, d), Knows(x, q, p),
         q.unacked \in Seq(Numbered(x, q, p)), q.stage # "closed",
         "ACK" \in flags => Acked(x, q, p, q.rcv),
         ~Synced(x, q) => "ACK" \notin flags \/ (len = 0 /\ flags \cap {"SYN", "FIN"} = {}),
         NEW b, b \in Seq(Numbered(x, q, p)), NEW a, a \in Seq(Numbered(x, q, p))
  PROVE  Ahead(x, q, r) /\ Consistent(x, r, p, d, Append(b, g), a)
PROOF
  <1>1. /\ Ahead(x, q, r) /\ Used(x, r, d)
        /\ IsSyn(x, r, g) \/ IsFin(x, r, g) \/ IsData(x, r, g)
        /\ r.stage \in {"opening", "open"} => r.snd # ISS[x]
    BY SendingNumbers
  <1>2. /\ g \in Sent(x) /\ g.flags = flags /\ g.len = len /\ r.stage = q.stage
        /\ r.rcv = q.rcv /\ r.heard = q.heard
        /\ r.unacked = IF Size(g) > 0 THEN Append(q.unacked, g) ELSE q.unacked
        /\ "ACK" \in flags => g.ack = q.rcv
    BY DEF Sending
  <1>3. r.owes => q.owes
    BY DEF Sending
  <1>4. \A n : Acked(x, q, p, n) <=> Acked(x, r, p, n)
    BY <1>2 DEF Acked
  <1>5. g \in Numbered(x, r, p)
    BY <1>1, <1>2, <1>4 DEF Numbered
  <1>6. \A s \in Seq(Numbered(x, q, p)) : s \in Seq(Numbered(x, r, p))
    <2>1. Ahead(Partner(x), p, p) /\ (q.heard => p.fin)
      BY DEF Ahead, Knows
    <2> QED  BY <1>1, <2>1, NumberedAhead
  <1>7. r.unacked \in Seq(Numbered(x, r, p))
    BY <1>2, <1>5, <1>6
  <1>8. Synced(x, r) = Synced(x, q)
    BY <1>2 DEF Synced
  <1>9. ~Synced(x, r) => r.unacked \in Seq(Bare(x))
    <2> SUFFICES ASSUME ~Synced(x, q)  PROVE r.unacked \in Seq(Bare(x))
      BY <1>8
    <2>1. q.unacked \in Seq(Bare(x))
      BY DEF Knows
    <2>2. "ACK" \notin flags => g \in Bare(x)
      BY <1>2 DEF Bare
    <2>3. len = 0 /\ flags \cap {"SYN", "FIN"} = {} => ~(Size(g) > 0)
      BY <1>2 DEF Size
    <2> QED  BY <1>2, <2>1, <2>2, <2>3
  <1>10. Knows(x, r, p)
    BY <1>2, <1>3, <1>4, <1>8, <1>9 DEF Knows
  <1>11. Started(x, r)
    BY <1>1, <1>2 DEF Started
  <1>12. Append(b, g) \in Seq(Numbered(x, r, p)) /\ a \in Seq(Numbered(x, r, p))
    BY <1>5, <1>6
  <1> QED  BY <1>1, <1>7, <1>10, <1>11, <1>12 DEF Consistent

-----------------------------------------------------------------------------
(* Receiving. *)

\* Acknowledged segments are dropped from the front.
LEMMA StillInSeq ==
  ASSUME NEW q, NEW g, NEW S, q.unacked \in Seq(S)
  PROVE  StillUnacked(q, g) \in Seq(S)
PROOF
  <1>1. ASSUME NEW i \in 1 .. Len(q.unacked)
        PROVE  SubSeq(q.unacked, 1 + i, Len(q.unacked)) \in Seq(S)
    <2>1. Len(q.unacked) \in Nat /\ 1 + i \in Int /\ 1 + i >= 1
      OBVIOUS
    <2>2. \A k \in 1 + i .. Len(q.unacked) : q.unacked[k] \in S
      BY <2>1, ElementOfSeq
    <2> QED  BY <2>1, <2>2, SubSeqProperties
  <1> DEFINE covered == {i \in 1 .. Len(q.unacked) : Next_(q.unacked[i]) = g.ack}
  <1>2. CASE "ACK" \in g.flags /\ covered # {}
    <2>1. (CHOOSE i \in covered : TRUE) \in 1 .. Len(q.unacked)
      BY <1>2
    <2> QED  BY <1>1, <1>2, <2>1 DEF StillUnacked
  <1>3. CASE ~("ACK" \in g.flags /\ covered # {})
    BY <1>3 DEF StillUnacked
  <1> QED  BY <1>2, <1>3

\* The state after a segment g.
LEMMA DigestIsExact ==
  ASSUME NEW x \in Peers, NEW q \in PeerState(x), NEW y, NEW g \in Sent(y)
  PROVE  LET t == Digest(q, g)
         IN  /\ t \in PeerState(x) /\ t.stage = q.stage
             /\ t.snd = q.snd /\ t.fin = q.fin
             /\ t.rcv = IF g.seq = q.rcv THEN Next_(g) ELSE q.rcv
             /\ t.heard = (q.heard \/ (g.seq = q.rcv /\ "FIN" \in g.flags))
             /\ t.owes = (q.owes \/ Size(g) > 0)
             /\ t.unacked = StillUnacked(q, g)
PROOF
  <1>1. Digest(q, g) \in PeerState(x) /\ Digest(q, g).stage = q.stage
    BY DigestIsTyped
  <1> DEFINE rcv == IF g.seq = q.rcv THEN Next_(g) ELSE q.rcv
             owes == q.owes \/ Size(g) > 0
             heard == q.heard \/ (g.seq = q.rcv /\ "FIN" \in g.flags)
             still == StillUnacked(q, g)
             t == Digest(q, g)
  <1>2. t = [q EXCEPT !.unacked = still, !.rcv = rcv, !.owes = owes, !.heard = heard]
    BY DEF Digest
  <1> HIDE DEF rcv, owes, heard, still, t
  <1>3. /\ t.snd = q.snd /\ t.fin = q.fin /\ t.rcv = rcv /\ t.heard = heard
        /\ t.owes = owes /\ t.unacked = still
    BY <1>2 DEF PeerState
  <1>4. /\ heard = (q.heard \/ (g.seq = q.rcv /\ "FIN" \in g.flags))
        /\ owes = (q.owes \/ Size(g) > 0)
    BY DEF heard, owes
  <1> QED  BY <1>1, <1>3, <1>4 DEF t, rcv, still

\* A peer that knows the numbers of the other one takes in a segment of it: what
\* it acknowledges from now on is the number after the FIN only if this was the FIN.
LEMMA DigestConsistent ==
  ASSUME NEW x \in Peers, NEW q \in PeerState(x), NEW p \in PeerState(Partner(x)), NEW e,
         Used(Partner(x), p, e), Synced(x, q), Knows(x, q, p),
         NEW g \in Numbered(Partner(x), p, q)
  PROVE  Ahead(x, q, Digest(q, g)) /\ Knows(x, Digest(q, g), p)
PROOF
  <1> DEFINE y == Partner(x)
             t == Digest(q, g)
  <1>1. g \in Sent(y) /\ (IsSyn(y, p, g) \/ IsFin(y, p, g) \/ IsData(y, p, g))
    BY DEF Numbered
  <1>2. /\ t \in PeerState(x) /\ t.stage = q.stage /\ t.snd = q.snd /\ t.fin = q.fin
        /\ t.rcv = IF g.seq = q.rcv THEN Next_(g) ELSE q.rcv
        /\ t.heard = (q.heard \/ (g.seq = q.rcv /\ "FIN" \in g.flags))
    BY <1>1, DigestIsExact
  <1> HIDE DEF t
  <1>3. q.heard \in BOOLEAN /\ t.heard \in BOOLEAN /\ p.fin \in BOOLEAN
    BY <1>2 DEF PeerState
  <1>4. Ahead(x, q, t) /\ Synced(x, t)
    BY <1>2, <1>3 DEF Ahead, Plain, Synced
  <1>5. /\ q.heard => p.fin /\ q.rcv = p.snd
        /\ q.rcv \in Plain(y, p) \/ (q.heard /\ q.rcv = p.snd)
    BY DEF Knows, Acked
  <1>6. p.fin => p.snd \notin Plain(y, p)
    BY DEF Plain
  <1>7. ISS[y] \notin Plain(y, p) /\ (p.fin => p.snd # ISS[y])
    <2>1. ISS[y] \in Int
      BY PartnerIsOther, ConversationAssumption DEF Peers
    <2> QED  BY <2>1 DEF Plain, Used
  <1>8. /\ t.heard => p.fin /\ t.rcv = p.snd
        /\ t.rcv \in Plain(y, p) \/ (t.heard /\ t.rcv = p.snd)
    <2>1. CASE g.seq # q.rcv
      <3>1. t.rcv = q.rcv /\ t.heard = q.heard
        BY <1>2, <1>3, <2>1
      <3> QED  BY <1>5, <3>1
    <2>2. CASE g.seq = q.rcv /\ IsSyn(y, p, g)
      BY <1>5, <1>7, <2>2 DEF IsSyn
    <2>3. CASE g.seq = q.rcv /\ IsFin(y, p, g)
      <3>1. t.heard /\ t.rcv = p.snd /\ p.fin
        <4>1. "FIN" \in g.flags /\ t.rcv = p.snd /\ p.fin
          BY <1>2, <2>3 DEF IsFin
        <4> QED  BY <1>2, <2>3, <4>1, Zenon
      <3> QED  BY <3>1
    <2>4. CASE g.seq = q.rcv /\ IsData(y, p, g)
      <3>1. t.rcv = Next_(g) /\ t.heard = q.heard
        BY <1>2, <1>3, <2>4 DEF IsData
      <3> QED  BY <1>5, <1>6, <2>4, <3>1 DEF IsData
    <2> QED  BY <1>1, <2>1, <2>2, <2>3, <2>4
  <1>9. Knows(x, t, p)
    BY <1>4, <1>8 DEF Knows, Acked
  <1> QED  BY <1>4, <1>9 DEF t

-----------------------------------------------------------------------------
(* The steps of a peer. *)

\* Nothing is spent beyond the budgets.
LEMMA BudgetKept ==
  ASSUME Typed, InBudget, [Next]_vars
  PROVE  /\ InBudget' /\ spent' \in [Kinds -> Nat] /\ spent["data"] <= spent'["data"]
         /\ \A x \in Peers : SendData(x) => spent'["data"] = spent["data"] + 1
PROOF
  <1>1. "data" \in Kinds /\ \A k \in Kinds : spent[k] \in Nat
    BY DEF Typed, Kinds
  <1>2. ASSUME NEW kind \in Kinds, Spend(kind)
        PROVE  /\ InBudget' /\ spent' \in [Kinds -> Nat] /\ spent["data"] <= spent'["data"]
               /\ kind = "data" => spent'["data"] = spent["data"] + 1
    <2>1. InBudget'
      BY <1>1, <1>2 DEF Spend, InBudget
    <2>2. spent' \in [Kinds -> Nat]
      BY <1>2 DEF Spend, Typed
    <2> QED  BY <1>1, <1>2, <2>1, <2>2, SpendIsExact
  <1>3. CASE spent' = spent
    <2>1. \A x \in Peers : ~SendData(x)
      BY <1>1, <1>2, <1>3 DEF SendData
    <2> QED  BY <1>1, <1>3, <2>1 DEF InBudget, Typed
  <1>4. (\E kind \in Kinds : Spend(kind)) \/ spent' = spent
    BY DEF Next, Open, SendAck, SendData, SendFin, Abort, Resend, Receive, Capture, Miss,
           LoseBefore, LoseAfter, SwapBefore, Kinds, vars
  <1> QED  BY <1>1, <1>2, <1>3, <1>4 DEF SendData

\* Peer x moves on, and what it sends is as it should be.
Turn(x) ==
  \E r : /\ peer' = [peer EXCEPT ![x] = r] /\ Ahead(x, peer[x], r)
         /\ before' = before \/ \E g : before' = [before EXCEPT ![x] = Append(@, g)]
         /\ Consistent(x, r, peer[Partner(x)], spent'["data"], before'[x], after[x])

LEMMA TurnKeeps ==
  ASSUME NumbersApart, Typed, NumbersKept, NEW x \in Peers, Turn(x),
         after' = after \/ Taken(Partner(x)), InBudget',
         spent' \in [Kinds -> Nat], spent["data"] <= spent'["data"]
  PROVE  NumbersKept'
PROOF
  <1> DEFINE y == Partner(x)
  <1>1. y \in Peers /\ y # x /\ Partner(y) = x /\ \A z \in Peers : z = x \/ z = y
    BY PartnerIsOther
  <1>2. PICK r : /\ peer' = [peer EXCEPT ![x] = r] /\ Ahead(x, peer[x], r)
                 /\ before' = before \/ \E g : before' = [before EXCEPT ![x] = Append(@, g)]
                 /\ Consistent(x, r, peer[y], spent'["data"], before'[x], after[x])
    BY DEF Turn
  <1> HIDE DEF y
  <1>3. /\ DOMAIN peer = Peers /\ DOMAIN before = Peers /\ DOMAIN after = Peers
    BY DEF Typed, Queues
  <1>4. peer'[x] = r /\ peer'[y] = peer[y] /\ before'[y] = before[y]
    BY <1>1, <1>2, <1>3
  <1>5. after'[x] = after[x] /\ \A S : after[y] \in Seq(S) => after'[y] \in Seq(S)
    <2>1. CASE after' = after
      BY <2>1
    <2>2. CASE Taken(y)
      BY <1>1, <1>3, <2>2, HeadTailProperties DEF Taken
    <2> QED  BY <2>1, <2>2 DEF y
  <1>6. Consistent(y, peer[y], peer[x], spent["data"], before[y], after[y])
    BY <1>1 DEF NumbersKept
  <1>7. Consistent(y, peer[y], r, spent'["data"], before'[y], after'[y])
    <2>1. spent["data"] \in Nat /\ spent'["data"] \in Nat
      BY DEF Typed, Kinds
    <2>2. ISS[y] \in Nat
      BY <1>1, ConversationAssumption DEF Peers
    <2>3. \A S : before[y] \in Seq(S) => before'[y] \in Seq(S)
      BY <1>4
    <2> QED  BY <1>1, <1>2, <1>5, <1>6, <2>1, <2>2, <2>3, PartnerConsistent
  <1> QED  BY <1>1, <1>2, <1>4, <1>5, <1>7 DEF NumbersKept, y

\* A peer that sends a segment in the state q.
LEMMA EmitTurn ==
  ASSUME Typed, NumbersKept, NEW x \in Peers, Room(x, spent'["data"]),
         NEW q \in PeerState(x), NEW flags \in SUBSET Flags, NEW len \in {0, 1},
         "RST" \in flags => len = 0 /\ flags \cap {"SYN", "FIN"} = {},
         Emit(x, q, flags, len), Ahead(x, peer[x], q),
         Used(x, q, spent'["data"]), Sendable(x, q, flags, len, spent'["data"]),
         Knows(x, q, peer[Partner(x)]), q.stage # "closed",
         q.unacked \in Seq(Numbered(x, peer[x], peer[Partner(x)])),
         "ACK" \in flags => Acked(x, q, peer[Partner(x)], q.rcv),
         ~Synced(x, q) => "ACK" \notin flags \/ (len = 0 /\ flags \cap {"SYN", "FIN"} = {})
  PROVE  Turn(x)
PROOF
  <1> DEFINE p == peer[Partner(x)]
  <1>1. PICK g, r : /\ Sending(x, q, flags, len, g, r)
                    /\ before' = [before EXCEPT ![x] = Append(@, g)]
                    /\ peer' = [peer EXCEPT ![x] = r]
    BY EmitIsExact
  <1>2. Consistent(x, peer[x], p, spent["data"], before[x], after[x])
    BY DEF NumbersKept
  <1>3. before'[x] = Append(before[x], g)
    BY <1>1 DEF Typed, Queues
  <1> HIDE DEF p
  <1>4. \A s \in Seq(Numbered(x, peer[x], p)) : s \in Seq(Numbered(x, q, p))
    <2>1. Ahead(Partner(x), p, p) /\ (peer[x].heard => p.fin)
      BY <1>2 DEF Ahead, Consistent, Knows
    <2> QED  BY <2>1, NumberedAhead
  <1>5. Ahead(x, q, r) /\ Consistent(x, r, p, spent'["data"], Append(before[x], g), after[x])
    BY <1>1, <1>2, <1>4, SendingConsistent DEF p, Consistent
  <1>6. Ahead(x, peer[x], r)
    BY <1>5, AheadTransitive
  <1> QED  BY <1>1, <1>3, <1>5, <1>6 DEF Turn, p

\* A peer that sends nothing.
LEMMA StillTurn ==
  ASSUME Typed, NumbersKept, NEW x \in Peers, NEW r, peer' = [peer EXCEPT ![x] = r],
         Ahead(x, peer[x], r), before' = before,
         Used(x, r, spent'["data"]), Started(x, r), Knows(x, r, peer[Partner(x)]),
         r.unacked \in Seq(Numbered(x, peer[x], peer[Partner(x)]))
  PROVE  Turn(x)
PROOF
  <1> DEFINE p == peer[Partner(x)]
  <1>1. Consistent(x, peer[x], p, spent["data"], before[x], after[x])
    BY DEF NumbersKept
  <1> HIDE DEF p
  <1>2. \A s \in Seq(Numbered(x, peer[x], p)) : s \in Seq(Numbered(x, r, p))
    <2>1. Ahead(Partner(x), p, p) /\ (peer[x].heard => p.fin)
      BY <1>1 DEF Ahead, Consistent, Knows
    <2> QED  BY <2>1, NumberedAhead
  <1>3. Consistent(x, r, p, spent'["data"], before[x], after[x])
    BY <1>1, <1>2 DEF Consistent, p
  <1> QED  BY <1>3 DEF Turn, p

\* The steps that begin with a segment of the other peer.
LEMMA ReceiveTurn ==
  ASSUME Typed, NumbersKept, NEW x \in Peers, Room(x, spent'["data"]), Receive(x),
         spent' = spent
  PROVE  Turn(x)
PROOF
  <1> DEFINE y == Partner(x)
             p == peer[y]
             q == peer[x]
             d == spent["data"]
  <1>1. /\ y \in Peers /\ y # x /\ Partner(y) = x
        /\ (x = "client" => y = "server") /\ (x = "server" => y = "client")
        /\ x \in {"client", "server"}
    BY PartnerIsOther DEF Peers
  <1>2. q \in PeerState(x) /\ p \in PeerState(y) /\ DOMAIN peer = Peers
    BY <1>1 DEF Typed
  <1>3. /\ Consistent(x, q, p, d, before[x], after[x])
        /\ Consistent(y, p, q, d, before[y], after[y])
    BY <1>1 DEF NumbersKept
  <1>4. after[y] \in Seq(Numbered(y, p, q)) /\ after[y] # <<>>
    BY <1>3 DEF Consistent, Receive
  <1>5. PICK g : g = Head(after[y])
    OBVIOUS
  <1>6. g \in Numbered(y, p, q) /\ g \in Sent(y) /\ Next_(g) \in Numbers
    <2>1. g \in Numbered(y, p, q)
      BY <1>4, <1>5
    <2> QED  BY <2>1, NextIsNumber DEF Numbered
  <1>7. /\ {"SYN", "ACK"} \in SUBSET Flags /\ {"ACK"} \in SUBSET Flags
        /\ {"opening", "open", "aborted"} \subseteq Stages
        /\ \A S : <<>> \in Seq(S)
        /\ 0 \in {0, 1}
    BY DEF Flags, Stages
  <1>8. \/ ReceiveSyn(x, g) \/ ReceiveSynAck(x, g) \/ ReceiveRst(x, g)
        \/ ReceiveOther(x, g) \/ ReceiveNothing(x, g)
    BY <1>5 DEF Receive
  <1>9. spent'["data"] = d
    OBVIOUS
  <1>10. [peer EXCEPT ![x] = q] = peer /\ Ahead(x, q, q)
    BY DEF Typed, Ahead
  <1>11. CASE ReceiveSyn(x, g)
    <2> DEFINE r == [q EXCEPT !.stage = "opening", !.rcv = Next_(g)]
    <2>1. /\ x = "server" /\ q.stage = "closed" /\ "SYN" \in g.flags
          /\ Emit(x, r, {"SYN", "ACK"}, 0)
      BY <1>11 DEF ReceiveSyn
    <2>2. /\ r \in PeerState(x) /\ r.stage = "opening" /\ r.rcv = Next_(g) /\ r.snd = q.snd
          /\ r.fin = q.fin /\ r.heard = q.heard /\ r.unacked = q.unacked
      BY <1>2, <1>6, <1>7 DEF PeerState
    <2> HIDE DEF r
    <2>3. Ahead(x, q, r) /\ Used(x, r, d) /\ q.snd = ISS[x] /\ ~q.fin /\ ~q.heard
      BY <1>3, <2>1, <2>2
         DEF Ahead, Plain, Consistent, Used, Started, Knows, Synced
    <2>4. Next_(g) \in Plain(y, p)
      BY <1>6, <2>1 DEF Numbered, IsSyn, IsFin, IsData
    <2>5. Synced(x, r) /\ Acked(x, r, p, r.rcv) /\ Knows(x, r, p)
      BY <2>1, <2>2, <2>3, <2>4 DEF Synced, Acked, Knows
    <2>6. r.unacked \in Seq(Numbered(x, q, p))
      BY <1>3, <2>2 DEF Consistent
    <2>7. Sendable(x, r, {"SYN", "ACK"}, 0, d)
      BY <2>1, <2>2, <2>3 DEF Sendable, OpeningFlags
    <2> QED  BY <1>7, <2>1, <2>2, <2>3, <2>5, <2>6, <2>7, EmitTurn
  <1>12. CASE ReceiveSynAck(x, g)
    <2> DEFINE o == [q EXCEPT !.rcv = g.seq]
               t == Digest(o, g)
               r == [t EXCEPT !.stage = "open"]
    <2>1. /\ x = "client" /\ q.stage = "opening" /\ {"SYN", "ACK"} \subseteq g.flags
          /\ Emit(x, r, {"ACK"}, 0)
      BY <1>12 DEF ReceiveSynAck
    <2>2. /\ o \in PeerState(x) /\ o.rcv = g.seq /\ o.snd = q.snd /\ o.fin = q.fin
          /\ o.heard = q.heard /\ o.unacked = q.unacked
      BY <1>2, <1>6 DEF PeerState, Sent
    <2> HIDE DEF o
    <2>3. /\ t \in PeerState(x) /\ t.snd = q.snd /\ t.fin = q.fin /\ t.rcv = Next_(g)
          /\ t.heard = (q.heard \/ "FIN" \in g.flags) /\ t.unacked = StillUnacked(o, g)
      BY <1>6, <2>2, DigestIsExact
    <2> HIDE DEF t
    <2>4. /\ r \in PeerState(x) /\ r.stage = "open" /\ r.rcv = Next_(g) /\ r.snd = q.snd
          /\ r.fin = q.fin /\ r.heard = t.heard /\ r.unacked = t.unacked
      BY <1>2, <1>7, <2>3 DEF PeerState
    <2> HIDE DEF r
    <2>5. "FIN" \notin g.flags /\ Next_(g) \in Plain(y, p)
      BY <1>1, <1>6, <2>1 DEF Numbered, IsSyn, IsFin, IsData, OpeningFlags
    <2>6. ~q.heard /\ ~q.fin /\ q.snd # ISS[x]
      BY <1>3, <2>1 DEF Consistent, Used, Started, Knows, Synced
    <2>7. ~r.heard
      BY <2>3, <2>4, <2>5, <2>6
    <2>8. Ahead(x, q, r) /\ Used(x, r, d)
      BY <1>3, <2>4, <2>6 DEF Ahead, Plain, Consistent, Used
    <2>9. Synced(x, r) /\ Acked(x, r, p, r.rcv) /\ Knows(x, r, p)
      BY <2>4, <2>5, <2>7 DEF Synced, Acked, Knows
    <2>10. r.unacked \in Seq(Numbered(x, q, p))
      BY <1>3, <2>2, <2>3, <2>4, StillInSeq DEF Consistent
    <2>11. Sendable(x, r, {"ACK"}, 0, d)
      BY <2>4, <2>6 DEF Sendable
    <2> QED  BY <1>7, <2>1, <2>4, <2>8, <2>9, <2>10, <2>11, EmitTurn
  <1>13. CASE ReceiveRst(x, g)
    <2> DEFINE r == [q EXCEPT !.stage = "aborted", !.owes = FALSE, !.unacked = <<>>]
    <2>1. peer' = [peer EXCEPT ![x] = r] /\ before' = before
      BY <1>2, <1>13 DEF ReceiveRst
    <2>2. /\ r.stage = "aborted" /\ ~r.owes /\ r.unacked = <<>> /\ r.snd = q.snd
          /\ r.fin = q.fin /\ r.heard = q.heard /\ r.rcv = q.rcv
      BY <1>2 DEF PeerState
    <2> HIDE DEF r
    <2>3. Ahead(x, q, r) /\ Used(x, r, d) /\ Started(x, r) /\ Knows(x, r, p)
      BY <1>3, <1>7, <2>2 DEF Ahead, Plain, Consistent, Used, Started, Knows, Synced
    <2>4. r.unacked \in Seq(Numbered(x, q, p))
      BY <1>7, <2>2
    <2> QED  BY <1>9, <2>1, <2>3, <2>4, StillTurn
  <1>14. CASE ReceiveOther(x, g)
    <2> DEFINE t == Digest(q, g)
               stage == IF t.unacked = <<>> THEN "open" ELSE t.stage
               r == [t EXCEPT !.stage = stage]
    <2>1. /\ Synced(x, q) /\ peer' = [peer EXCEPT ![x] = r] /\ before' = before
      BY <1>14 DEF ReceiveOther, Synced
    <2>2. /\ t \in PeerState(x) /\ t.stage = q.stage /\ t.snd = q.snd /\ t.fin = q.fin
          /\ t.unacked = StillUnacked(q, g)
      BY <1>2, <1>6, DigestIsExact
    <2>3. Ahead(x, q, t) /\ Knows(x, t, p)
      BY <1>1, <1>2, <1>3, <1>6, <2>1, DigestConsistent DEF Consistent
    <2> HIDE DEF t
    <2>4. stage = q.stage \/ stage = "open"
      BY <2>2
    <2> HIDE DEF stage
    <2>5. /\ r.stage = stage /\ r.snd = q.snd /\ r.fin = q.fin /\ r.heard = t.heard
          /\ r.rcv = t.rcv /\ r.unacked = t.unacked
      BY <2>2 DEF PeerState
    <2> HIDE DEF r
    <2>6. Synced(x, r) /\ Synced(x, t)
      BY <2>1, <2>2, <2>4, <2>5 DEF Synced
    <2>7. Ahead(x, q, r) /\ Used(x, r, d) /\ Started(x, r) /\ Knows(x, r, p)
      BY <1>3, <2>1, <2>2, <2>3, <2>4, <2>5, <2>6
         DEF Ahead, Plain, Consistent, Used, Started, Knows, Synced, Acked
    <2>8. r.unacked \in Seq(Numbered(x, q, p))
      BY <1>3, <2>2, <2>5, StillInSeq DEF Consistent
    <2> QED  BY <1>9, <2>1, <2>7, <2>8, StillTurn
  <1>15. CASE ReceiveNothing(x, g)
    <2>1. peer' = [peer EXCEPT ![x] = q] /\ before' = before
      BY <1>10, <1>15 DEF ReceiveNothing
    <2> QED  BY <1>3, <1>9, <1>10, <2>1, StillTurn DEF Consistent
  <1> QED  BY <1>8, <1>11, <1>12, <1>13, <1>14, <1>15

\* The other steps of a peer.
LEMMA PeerTurns ==
  ASSUME Typed, NumbersKept, NEW x \in Peers, Room(x, spent'["data"]),
         spent["data"] <= spent'["data"],
         SendData(x) => spent'["data"] = spent["data"] + 1,
         \/ x = "client" /\ Open
         \/ SendAck(x) \/ SendData(x) \/ (\E len \in {0, 1} : SendFin(x, len))
         \/ Abort(x) \/ Resend(x)
  PROVE  Turn(x)
PROOF
  <1> DEFINE p == peer[Partner(x)]
             q == peer[x]
             d == spent'["data"]
  <1>1. q \in PeerState(x) /\ DOMAIN peer = Peers
    BY DEF Typed
  <1>2. Consistent(x, q, p, spent["data"], before[x], after[x])
    BY DEF NumbersKept
  <1>3. spent["data"] \in Nat /\ ISS[x] \in Nat /\ d \in Nat
    BY DEF Typed, Kinds, Room
  <1>4. Used(x, q, d) /\ Ahead(x, q, q) /\ Knows(x, q, p) /\ Started(x, q)
        /\ q.unacked \in Seq(Numbered(x, q, p))
    BY <1>2, <1>3 DEF Consistent, Used, Ahead
  <1>5. /\ {{"SYN"}, {"ACK"}, {"FIN", "ACK"}, {"RST", "ACK"}} \subseteq SUBSET Flags
        /\ {"opening", "open", "aborted"} \subseteq Stages
        /\ \A S : <<>> \in Seq(S)
        /\ 0 \in {0, 1} /\ 1 \in {0, 1}
    BY DEF Flags, Stages
  <1>6. q.stage = "open" => Synced(x, q)
    BY DEF Synced
  <1>7. Synced(x, q) => Acked(x, q, p, q.rcv) /\ q.snd # ISS[x] /\ q.stage # "closed"
    BY <1>4 DEF Knows, Started, Synced
  <1>8. CASE x = "client" /\ Open
    <2> DEFINE r == [q EXCEPT !.stage = "opening"]
    <2>1. /\ r \in PeerState(x) /\ r.stage = "opening" /\ r.snd = q.snd /\ r.fin = q.fin
          /\ r.heard = q.heard /\ r.rcv = q.rcv /\ r.unacked = q.unacked /\ r.owes = q.owes
      BY <1>1, <1>5 DEF PeerState
    <2>2. Emit(x, r, {"SYN"}, 0) /\ q.stage = "closed"
      BY <1>8 DEF Open
    <2> HIDE DEF r
    <2>3. ~q.fin /\ q.snd = ISS[x] /\ ~Synced(x, q) /\ ~Synced(x, r) /\ ~q.heard
      BY <1>4, <1>8, <2>1, <2>2 DEF Used, Started, Knows, Synced
    <2>4. Ahead(x, q, r) /\ Used(x, r, d) /\ Knows(x, r, p)
      BY <1>4, <2>1, <2>3 DEF Ahead, Plain, Used, Knows
    <2>5. Sendable(x, r, {"SYN"}, 0, d)
      BY <1>8, <2>1, <2>3 DEF Sendable, OpeningFlags
    <2> QED  BY <1>4, <1>5, <2>1, <2>2, <2>4, <2>5, EmitTurn
  <1>9. CASE SendAck(x)
    <2>1. Emit(x, q, {"ACK"}, 0) /\ Synced(x, q)
      BY <1>4, <1>9 DEF SendAck, Knows
    <2>2. Sendable(x, q, {"ACK"}, 0, d)
      BY <1>7, <2>1 DEF Sendable
    <2> QED  BY <1>1, <1>4, <1>5, <1>7, <2>1, <2>2, EmitTurn
  <1>10. CASE SendData(x)
    <2>1. Emit(x, q, {"ACK"}, 1) /\ q.stage = "open" /\ ~q.fin
      BY <1>10 DEF SendData
    <2>2. q.snd < ISS[x] + 1 + d
      <3>1. d = spent["data"] + 1
        BY <1>10
      <3>2. q.snd \in ISS[x] .. ISS[x] + 1 + spent["data"]
        BY <1>2, <2>1 DEF Consistent, Used
      <3> QED  BY <1>3, <3>1, <3>2
    <2>3. Sendable(x, q, {"ACK"}, 1, d)
      BY <1>6, <1>7, <2>1, <2>2 DEF Sendable
    <2> QED  BY <1>1, <1>4, <1>5, <1>6, <1>7, <2>1, <2>3, EmitTurn
  <1>11. ASSUME NEW len \in {0, 1}, SendFin(x, len)
         PROVE  Turn(x)
    <2>1. Emit(x, q, {"FIN", "ACK"}, len) /\ q.stage = "open" /\ ~q.fin
      BY <1>11 DEF SendFin
    <2>2. Sendable(x, q, {"FIN", "ACK"}, len, d)
      BY <1>6, <1>7, <2>1 DEF Sendable
    <2> QED  BY <1>1, <1>4, <1>5, <1>6, <1>7, <2>1, <2>2, EmitTurn
  <1>12. CASE Abort(x)
    <2> DEFINE r == [q EXCEPT !.stage = "aborted", !.owes = FALSE, !.unacked = <<>>]
    <2>1. Emit(x, r, {"RST", "ACK"}, 0) /\ q.stage = "open"
      BY <1>12 DEF Abort
    <2>2. /\ r \in PeerState(x) /\ r.stage = "aborted" /\ ~r.owes /\ r.unacked = <<>>
          /\ r.snd = q.snd /\ r.fin = q.fin /\ r.heard = q.heard /\ r.rcv = q.rcv
      BY <1>1, <1>5 DEF PeerState
    <2> HIDE DEF r
    <2>3. Ahead(x, q, r) /\ Used(x, r, d) /\ Knows(x, r, p) /\ Acked(x, r, p, r.rcv)
      BY <1>4, <1>5, <1>6, <1>7, <2>1, <2>2 DEF Ahead, Plain, Used, Knows, Synced, Acked
    <2>4. r.unacked \in Seq(Numbered(x, q, p))
      BY <1>5, <2>2
    <2>5. Sendable(x, r, {"RST", "ACK"}, 0, d)
      BY <1>6, <1>7, <2>1, <2>2 DEF Sendable
    <2>6. {"RST", "ACK"} \cap {"SYN", "FIN"} = {}
      OBVIOUS
    <2> QED  BY <1>5, <2>1, <2>2, <2>3, <2>4, <2>5, <2>6, EmitTurn
  <1>13. CASE Resend(x)
    <2>1. PICK g : g = Head(q.unacked)
      OBVIOUS
    <2>2. q.unacked # <<>> /\ g \in Numbered(x, q, p) /\ g \in Sent(x)
      <3>1. q.unacked # <<>>
        BY <1>13 DEF Resend
      <3>2. g \in Numbered(x, q, p)
        BY <1>4, <2>1, <3>1
      <3> QED  BY <3>1, <3>2 DEF Numbered
    <2> DEFINE ack == IF "ACK" \in g.flags THEN q.rcv ELSE 0
               h == [g EXCEPT !.ack = ack]
               owes == q.owes /\ "ACK" \notin g.flags
               r == [q EXCEPT !.owes = owes]
    <2>3. before' = [before EXCEPT ![x] = Append(@, h)]
      BY <1>13, <2>1 DEF Resend
    <2>4. peer' = [peer EXCEPT ![x] = r]
      BY <1>1, <1>13, <2>1 DEF Resend
    <2>5. "ACK" \in g.flags => Synced(x, q)
      <3> SUFFICES ASSUME ~Synced(x, q)  PROVE "ACK" \notin g.flags
        OBVIOUS
      <3>1. q.unacked \in Seq(Bare(x))
        BY <1>4 DEF Knows
      <3>2. g \in Bare(x)
        BY <2>1, <2>2, <3>1
      <3> QED  BY <3>2 DEF Bare
    <2>6. ack \in Numbers
      BY <1>1, WordAssumption DEF PeerState, Numbers
    <2>7. "ACK" \in g.flags => ack = q.rcv
      OBVIOUS
    <2>8. owes => q.owes
      OBVIOUS
    <2> HIDE DEF ack, owes
    <2>9. /\ h \in Sent(x) /\ h.flags = g.flags /\ h.seq = g.seq /\ h.len = g.len /\ h.ack = ack
      BY <2>2, <2>6 DEF Sent
    <2>10. /\ r.stage = q.stage /\ r.snd = q.snd /\ r.fin = q.fin /\ r.heard = q.heard
           /\ r.rcv = q.rcv /\ r.unacked = q.unacked /\ r.owes = owes
      BY <1>1 DEF PeerState
    <2> HIDE DEF h, r
    <2>11. Next_(h) = Next_(g)
      BY <2>9 DEF Next_, Size
    <2>12. h \in Numbered(x, r, p)
      BY <1>7, <2>2, <2>5, <2>7, <2>9, <2>10, <2>11
         DEF Numbered, IsSyn, IsFin, IsData, Plain, Acked
    <2>13. Ahead(x, q, r) /\ Used(x, r, d) /\ Started(x, r) /\ Knows(x, r, p)
      BY <1>4, <2>8, <2>10 DEF Ahead, Plain, Used, Started, Knows, Synced, Acked
    <2>14. \A s \in Seq(Numbered(x, q, p)) : s \in Seq(Numbered(x, r, p))
      <3>1. Ahead(Partner(x), p, p) /\ (q.heard => p.fin)
        BY <1>4 DEF Ahead, Knows
      <3> QED  BY <2>13, <3>1, NumberedAhead
    <2>15. before'[x] = Append(before[x], h)
      BY <2>3 DEF Typed, Queues
    <2>16. Consistent(x, r, p, d, before'[x], after[x])
      <3>1. before[x] \in Seq(Numbered(x, r, p)) /\ after[x] \in Seq(Numbered(x, r, p))
        BY <1>2, <2>14 DEF Consistent
      <3>2. r.unacked \in Seq(Numbered(x, r, p))
        BY <1>4, <2>10, <2>14
      <3>3. before'[x] \in Seq(Numbered(x, r, p))
        BY <2>12, <2>15, <3>1
      <3> QED  BY <2>13, <3>1, <3>2, <3>3 DEF Consistent
    <2> QED  BY <2>3, <2>4, <2>13, <2>16 DEF Turn
  <1> QED  BY <1>8, <1>9, <1>10, <1>11, <1>12, <1>13

LEMMA InitNumbers == NumbersApart /\ Init => NumbersKept
PROOF
  <1> SUFFICES ASSUME NumbersApart, Init  PROVE NumbersKept
    OBVIOUS
  <1>1. InBudget
    <2>1. PICK b \in Budgets : TRUE
      BY DEF NumbersApart
    <2>2. spent["data"] = 0 /\ b["data"] \in Nat
      BY <2>1, ConversationAssumption DEF Init, Kinds
    <2> QED  BY <2>1, <2>2 DEF InBudget
  <1>2. ASSUME NEW x \in Peers
        PROVE  Consistent(x, peer[x], peer[Partner(x)], spent["data"], before[x], after[x])
    <2>1. /\ peer[x].stage = "closed" /\ peer[x].snd = ISS[x] /\ peer[x].unacked = <<>>
          /\ ~peer[x].owes /\ ~peer[x].fin /\ ~peer[x].heard
          /\ before[x] = <<>> /\ after[x] = <<>> /\ spent["data"] = 0
      BY DEF Init, Kinds
    <2>2. \A S : <<>> \in Seq(S)
      OBVIOUS
    <2>3. ISS[x] \in Int
      BY ConversationAssumption DEF Peers
    <2> QED  BY <2>1, <2>2, <2>3 DEF Consistent, Used, Started, Knows, Synced
  <1> QED  BY <1>1, <1>2 DEF NumbersKept

\* Whatever the network does, the segments stay those that were sent.
LEMMA NetworkKeepsQueues ==
  ASSUME Typed, NEW x \in Peers, NetworkMoves(x), NEW z \in Peers, NEW S,
         before[z] \in Seq(S), after[z] \in Seq(S)
  PROVE  before'[z] \in Seq(S) /\ after'[z] \in Seq(S)
PROOF
  <1>1. DOMAIN before = Peers /\ DOMAIN after = Peers
    BY DEF Typed, Queues
  <1>2. CASE Captured(x)
    <2>1. PICK g : g = Head(before[x])
      OBVIOUS
    <2>2. /\ before[x] # <<>> /\ before' = [before EXCEPT ![x] = Tail(before[x])]
          /\ after' = [after EXCEPT ![x] = Append(after[x], g)]
      BY <1>2, <2>1 DEF Captured
    <2>3. CASE z = x
      <3>1. before'[z] = Tail(before[x]) /\ after'[z] = Append(after[x], g)
        BY <1>1, <2>2, <2>3
      <3>2. Tail(before[x]) \in Seq(S) /\ g \in S
        BY <2>1, <2>2, <2>3, HeadTailProperties
      <3> QED  BY <2>3, <3>1, <3>2
    <2> QED  BY <1>1, <2>2, <2>3
  <1>3. CASE Disturbed(x)
    <2>1. before'[z] \in Seq(S)
      <3>1. before' = before \/ \E s : /\ before' = [before EXCEPT ![x] = s]
                                       /\ \A T : before[x] \in Seq(T) => s \in Seq(T)
        BY <1>3 DEF Disturbed
      <3> QED  BY <1>1, <3>1
    <2>2. after'[z] \in Seq(S)
      <3>1. after' = after \/ (after[x] # <<>> /\ after' = [after EXCEPT ![x] = Tail(@)])
        BY <1>3 DEF Disturbed
      <3> QED  BY <1>1, <3>1, HeadTailProperties
    <2> QED  BY <2>1, <2>2
  <1> QED  BY <1>2, <1>3 DEF NetworkMoves

\* What a step of a peer does, as far as numbers go.
LEMMA PeerTurnsSo ==
  ASSUME NumbersApart, Typed, NumbersKept, [Next]_vars, NEW x \in Peers,
         \/ x = "client" /\ Open
         \/ SendAck(x) \/ SendData(x) \/ (\E len \in {0, 1} : SendFin(x, len))
         \/ Abort(x) \/ Resend(x) \/ Receive(x)
  PROVE  Turn(x) /\ conn' = conn /\ (after' = after \/ Taken(Partner(x)))
PROOF
  <1>1. /\ InBudget' /\ spent' \in [Kinds -> Nat] /\ spent["data"] <= spent'["data"]
        /\ SendData(x) => spent'["data"] = spent["data"] + 1
    BY BudgetKept DEF NumbersKept
  <1>2. Room(x, spent'["data"])
    <2>1. spent'["data"] \in Nat /\ \E b \in Budgets : spent'["data"] <= b["data"]
      BY <1>1 DEF InBudget, Kinds
    <2> QED  BY <2>1, HasRoom
  <1>3. CASE Receive(x)
    <2>1. spent' = spent /\ conn' = conn /\ Taken(Partner(x))
      BY <1>3 DEF Receive, Taken
    <2> QED  BY <1>2, <1>3, <2>1, ReceiveTurn
  <1>4. CASE ~Receive(x)
    <2>1. Turn(x)
      BY <1>1, <1>2, <1>4, PeerTurns
    <2>2. after' = after /\ conn' = conn
      BY <1>4 DEF Open, SendAck, SendData, SendFin, Abort, Resend
    <2> QED  BY <2>1, <2>2
  <1> QED  BY <1>3, <1>4

LEMMA NumbersKeptByNext ==
  ASSUME NumbersApart, Typed, NumbersKept, [Next]_vars
  PROVE  NumbersKept'
PROOF
  <1>1. /\ InBudget' /\ spent' \in [Kinds -> Nat] /\ spent["data"] <= spent'["data"]
    BY BudgetKept DEF NumbersKept
  <1>2. ASSUME NEW x \in Peers, Turn(x), after' = after \/ Taken(Partner(x))
        PROVE  NumbersKept'
    BY <1>1, <1>2, TurnKeeps
  <1>3. ASSUME NEW x \in Peers, NetworkMoves(x)
        PROVE  NumbersKept'
    <2>1. peer' = peer
      BY <1>3 DEF NetworkMoves
    <2>2. ASSUME NEW z \in Peers
          PROVE  Consistent(z, peer[z], peer[Partner(z)], spent'["data"], before'[z], after'[z])
      <3>1. Consistent(z, peer[z], peer[Partner(z)], spent["data"], before[z], after[z])
        BY DEF NumbersKept
      <3>2. before'[z] \in Seq(Numbered(z, peer[z], peer[Partner(z)]))
            /\ after'[z] \in Seq(Numbered(z, peer[z], peer[Partner(z)]))
        BY <1>3, <3>1, NetworkKeepsQueues DEF Consistent
      <3>3. Used(z, peer[z], spent'["data"])
        <4>1. ISS[z] \in Nat /\ spent["data"] \in Nat /\ spent'["data"] \in Nat
          BY <1>1, ConversationAssumption DEF Typed, Kinds, Peers
        <4> QED  BY <1>1, <3>1, <4>1 DEF Consistent, Used
      <3> QED  BY <3>1, <3>2, <3>3 DEF Consistent
    <2> QED  BY <1>1, <2>1, <2>2 DEF NumbersKept
  <1>4. CASE UNCHANGED vars
    BY <1>4 DEF vars, NumbersKept, InBudget
  <1>5. "client" \in Peers
    BY DEF Peers
  <1> QED
    BY <1>2, <1>3, <1>4, <1>5, PeerTurnsSo, NetworkMovesSo DEF Next

-----------------------------------------------------------------------------
(* The record. *)

\* The side of the record that is peer x.
Side(x) == IF x = "client" THEN "src" ELSE "dst"

\* The record is that of this conversation, its number for a FIN is that of the
\* FIN or not set, and it takes for acknowledged what the other peer has heard.
Remembers(c) ==
  /\ c.src = Endpoint["client"] /\ c.dst = Endpoint["server"]
  /\ \A x \in Peers :
       /\ \/ c.finack[Side(x)] = 0
          \/ peer[Partner(x)].fin /\ c.finack[Side(x)] = peer[Partner(x)].snd
       /\ c.recvd[Side(x)] => peer[x].heard
  /\ c.state = "CLOSED" => \A s \in Sides : c.recvd[s]

\* The two peers are told apart by their addresses, and the length of a payload is
\* what it should be.
Distinct == Version = 4 /\ ClientAddr # ServerAddr

LEMMA FinAckIsNext ==
  ASSUME Distinct, Word > 3, NEW x, NEW g \in Sent(x), "FIN" \in g.flags
  PROVE  FinAckNumber(g) = Next_(g)
PROOF
  <1>1. g.ver = 4 /\ g.len \in {0, 1}
    BY DEF Sent, Distinct
  <1>2. PayloadLen(g) = g.len % Word
    <2>1. TotalLen(g) - IpHeaderLen(g) - TcpHeaderLen = g.len
      BY <1>1 DEF TotalLen, IpHeaderLen, TcpHeaderLen
    <2> QED  BY <2>1 DEF PayloadLen
  <1>3. PayloadLen(g) = g.len
    <2>1. g.len \in Nat /\ g.len < Word
      BY <1>1, WordAssumption
    <2> QED  BY <1>2, <2>1, Remainder
  <1>4. Size(g) = g.len + 1
    BY DEF Size
  <1>5. g.seq + g.len + 1 = g.seq + Size(g)
    BY <1>1, <1>4 DEF Sent, Numbers
  <1> QED  BY <1>3, <1>5 DEF FinAckNumber, Next_

\* What acceptPacket() makes of a segment g of x: a FIN asks the other side for
\* its number, an acknowledgement may be the one x is asked for.
LEMMA ObserveIsExact ==
  ASSUME Distinct, Word > 3, NEW x \in Peers, NEW g \in Sent(x), NEW c, Its(c),
         c.src = Endpoint["client"], c.dst = Endpoint["server"], c.state # "CLOSED"
  PROVE  LET e == Observe(c, g)
             s == Side(x)
             o == Side(Partner(x))
         IN  /\ Its(e) /\ e.src = c.src /\ e.dst = c.dst
             /\ e.finack[s] = c.finack[s]
             /\ e.finack[o] = IF "FIN" \in g.flags THEN Next_(g) ELSE c.finack[o]
             /\ e.recvd[s] = (c.recvd[s] \/ /\ c.state = "FIN_FINACK" /\ "ACK" \in g.flags
                                            /\ g.ack = c.finack[s])
             /\ e.recvd[o] = ("FIN" \notin g.flags /\ c.recvd[o])
             /\ e.state = IF "RST" \in g.flags THEN "RESET"
                          ELSE NextState([c EXCEPT !.recvd = e.recvd], g)
PROOF
  <1> DEFINE s == Side(x)
             o == Side(Partner(x))
             d == NoteFin(c, g)
             f == NoteFinAck(d, g)
             e == Observe(c, g)
  <1>1. s \in Sides /\ o \in Sides /\ s # o /\ Other(o) = s /\ Other(s) = o
        /\ \A t \in Sides : t = s \/ t = o
    BY DEF Side, Sides, Other, Partner, Peers
  <1>2. c \in Records /\ c # NoConn
    BY DEF Its, Records, States, NoConn
  <1>3. Senders(c, g) = {s}
    BY <1>1 DEF Senders, Sent, Distinct, Side, Sides, Peers, Partner, Endpoint
  <1>4. Match(c, g)
    BY DEF Match, Sent, Peers, Partner
  <1>5. "FIN" \in g.flags => FinAckNumber(g) = Next_(g) /\ Next_(g) \in Numbers
    BY FinAckIsNext, NextIsNumber
  <1> HIDE DEF s, o
  <1>6. {t \in Sides : Other(t) \in Senders(c, g)} = {o}
    BY <1>1, <1>3
  <1>7. /\ d \in Records /\ d.src = c.src /\ d.dst = c.dst /\ d.state = c.state
        /\ d.finack[s] = c.finack[s] /\ d.recvd[s] = c.recvd[s]
        /\ d.finack[o] = IF "FIN" \in g.flags THEN Next_(g) ELSE c.finack[o]
        /\ d.recvd[o] = ("FIN" \notin g.flags /\ c.recvd[o])
    <2>1. CASE "FIN" \notin g.flags
      <3>1. d = c /\ c.recvd[o] \in BOOLEAN
        BY <1>1, <1>2, <2>1 DEF NoteFin, Records
      <3> QED  BY <1>2, <2>1, <3>1
    <2>2. CASE "FIN" \in g.flags
      <3> DEFINE finack == [t \in Sides |-> IF t \in {o} THEN FinAckNumber(g) ELSE c.finack[t]]
                 recvd == [t \in Sides |-> t \notin {o} /\ c.recvd[t]]
      <3>1. d = [c EXCEPT !.finack = finack, !.recvd = recvd]
        BY <1>6, <2>2 DEF NoteFin
      <3>2. /\ finack \in [Sides -> Numbers] /\ recvd \in [Sides -> BOOLEAN]
            /\ finack[s] = c.finack[s] /\ finack[o] = Next_(g)
            /\ recvd[s] = c.recvd[s] /\ recvd[o] = FALSE
        BY <1>1, <1>2, <1>5, <2>2 DEF Records
      <3> HIDE DEF finack, recvd
      <3> QED  BY <1>2, <2>2, <3>1, <3>2 DEF Records
    <2> QED  BY <2>1, <2>2
  <1> HIDE DEF d
  <1>8. Senders(d, g) = {s}
    BY <1>3, <1>7 DEF Senders, Sides
  <1>9. /\ f \in Records /\ f.src = c.src /\ f.dst = c.dst /\ f.state = c.state
        /\ f.finack = d.finack /\ f.recvd[o] = d.recvd[o]
        /\ f.recvd[s] = (c.recvd[s] \/ /\ c.state = "FIN_FINACK" /\ "ACK" \in g.flags
                                       /\ g.ack = c.finack[s])
    <2>1. c.recvd[s] \in BOOLEAN
      BY <1>1, <1>2 DEF Records
    <2>2. CASE ~(d.state = "FIN_FINACK" /\ "ACK" \in g.flags)
      BY <1>7, <2>1, <2>2 DEF NoteFinAck
    <2>3. CASE d.state = "FIN_FINACK" /\ "ACK" \in g.flags
      <3> DEFINE recvd == [t \in Sides |-> d.recvd[t] \/ (t \in {s} /\ g.ack = d.finack[t])]
      <3>1. f = [d EXCEPT !.recvd = recvd]
        BY <1>8, <2>3 DEF NoteFinAck
      <3>2. /\ recvd \in [Sides -> BOOLEAN]
            /\ recvd[s] = (d.recvd[s] \/ g.ack = d.finack[s]) /\ recvd[o] = d.recvd[o]
        BY <1>1, <1>7 DEF Records
      <3> HIDE DEF recvd
      <3> QED  BY <1>7, <2>1, <2>3, <3>1, <3>2 DEF Records
    <2> QED  BY <2>2, <2>3
  <1> HIDE DEF f
  <1>10. e = AcceptPacket(c, g)
    BY <1>2, <1>4 DEF Observe, Accepts
  <1>11. e = [f EXCEPT !.state = IF "RST" \in g.flags THEN "RESET" ELSE NextState(f, g),
                       !.idle = 0]
    BY <1>10 DEF AcceptPacket, f, d
  <1>12. Its(e)
    BY <1>2, ObserveIsTyped
  <1> HIDE DEF e
  <1>13. /\ e.src = f.src /\ e.dst = f.dst /\ e.finack = f.finack /\ e.recvd = f.recvd
         /\ e.state = IF "RST" \in g.flags THEN "RESET" ELSE NextState(f, g)
    BY <1>9, <1>11 DEF Records
  <1>14. NextState([c EXCEPT !.recvd = e.recvd], g) = NextState(f, g)
    BY <1>2, <1>9, <1>13 DEF NextState, Records
  <1> QED  BY <1>7, <1>9, <1>12, <1>13, <1>14 DEF e, s, o

\* A segment of the conversation leaves the record one that remembers.
LEMMA ObserveRemembers ==
  ASSUME Distinct, NumbersApart, Typed, NumbersKept, NEW x \in Peers,
         NEW g \in Numbered(x, peer[x], peer[Partner(x)]),
         conn # NoConn => Remembers(conn), Observe(conn, g) # NoConn
  PROVE  Remembers(Observe(conn, g))
PROOF
  <1> DEFINE y == Partner(x)
             e == Observe(conn, g)
  <1>1. y \in Peers /\ y # x /\ Partner(y) = x /\ \A z \in Peers : z = x \/ z = y
    BY PartnerIsOther
  <1>2. /\ g \in Sent(x)
        /\ IsSyn(x, peer[x], g) \/ IsFin(x, peer[x], g) \/ IsData(x, peer[x], g)
        /\ "ACK" \in g.flags => Acked(x, peer[x], peer[y], g.ack)
    BY DEF Numbered
  <1>3. Word > 3
    <2>1. spent["data"] \in Nat /\ \E b \in Budgets : spent["data"] <= b["data"]
      BY DEF NumbersKept, InBudget, Typed, Kinds
    <2>2. Room(x, spent["data"])
      BY <2>1, HasRoom
    <2> QED  BY <2>1, <2>2, WordAssumption DEF Room
  <1>4. CASE conn = NoConn
    <2>1. "SYN" \in g.flags /\ "ACK" \notin g.flags /\ e = NewConnection(g)
      BY <1>4 DEF Observe
    <2>2. x = "client"
      BY <1>2, <2>1 DEF IsSyn, IsFin, IsData, OpeningFlags
    <2>3. /\ e.src = Endpoint["client"] /\ e.dst = Endpoint["server"]
          /\ e.state = "SYN_SYNACK"
          /\ \A s \in Sides : e.finack[s] = 0 /\ ~e.recvd[s]
      BY <1>2, <2>1, <2>2 DEF NewConnection, Sent, Partner
    <2>4. \A z \in Peers : Side(z) \in Sides
      BY DEF Side, Sides
    <2> QED  BY <2>3, <2>4 DEF Remembers
  <1>5. CASE conn # NoConn /\ conn.state = "CLOSED"
    <2>1. e = conn
      BY <1>5 DEF Observe, Accepts
    <2> QED  BY <1>5, <2>1
  <1>6. CASE conn # NoConn /\ conn.state # "CLOSED"
    <2> DEFINE s == Side(x)
               o == Side(y)
    <2>0. Its(conn) /\ Remembers(conn)
      BY <1>6 DEF Typed
    <2>1. /\ e.src = conn.src /\ e.dst = conn.dst
          /\ e.finack[s] = conn.finack[s]
          /\ e.finack[o] = IF "FIN" \in g.flags THEN Next_(g) ELSE conn.finack[o]
          /\ e.recvd[s] = (conn.recvd[s] \/ /\ conn.state = "FIN_FINACK" /\ "ACK" \in g.flags
                                            /\ g.ack = conn.finack[s])
          /\ e.recvd[o] = ("FIN" \notin g.flags /\ conn.recvd[o])
          /\ e.state = IF "RST" \in g.flags THEN "RESET"
                       ELSE NextState([conn EXCEPT !.recvd = e.recvd], g)
      BY <1>2, <1>3, <1>6, <2>0, ObserveIsExact DEF Remembers
    <2> HIDE DEF e
    <2>2. /\ conn.finack[s] = 0 \/ (peer[y].fin /\ conn.finack[s] = peer[y].snd)
          /\ conn.finack[o] = 0 \/ (peer[x].fin /\ conn.finack[o] = peer[x].snd)
          /\ conn.recvd[s] => peer[x].heard
          /\ conn.recvd[o] => peer[y].heard
      BY <1>1, <2>0 DEF Remembers
    <2>3. "FIN" \in g.flags => peer[x].fin /\ Next_(g) = peer[x].snd
      BY <1>2 DEF IsSyn, IsFin, IsData, OpeningFlags
    <2>4. e.finack[o] = 0 \/ (peer[x].fin /\ e.finack[o] = peer[x].snd)
      BY <2>1, <2>2, <2>3
    <2>5. e.recvd[o] => peer[y].heard
      BY <2>1, <2>2
    <2>6. "ACK" \in g.flags /\ g.ack = conn.finack[s] => peer[x].heard
      <3> SUFFICES ASSUME Acked(x, peer[x], peer[y], g.ack), g.ack = conn.finack[s]
                   PROVE  peer[x].heard
        BY <1>2
      <3>1. ISS[y] \in Nat
        BY <1>1, ConversationAssumption DEF Peers
      <3>2. g.ack \notin Plain(y, peer[y])
        BY <2>2, <3>1 DEF Plain
      <3> QED  BY <3>2 DEF Acked
    <2>7. e.recvd[s] => peer[x].heard
      BY <2>1, <2>2, <2>6
    <2>8. e.state = "CLOSED" => \A t \in Sides : e.recvd[t]
      <3>1. conn \in Records
        BY <2>0 DEF Its
      <3> HIDE DEF s, o
      <3> QED  BY <1>6, <2>1, <3>1 DEF NextState, Records
    <2> QED  BY <1>1, <2>0, <2>1, <2>2, <2>4, <2>5, <2>7, <2>8 DEF Remembers, e
  <1> QED  BY <1>4, <1>5, <1>6

RecordKept == conn # NoConn => Remembers(conn)

\* What the record remembers stays true of the peers.
LEMMA RecordKeptByNext ==
  ASSUME Distinct, NumbersApart, Typed, NumbersKept, RecordKept, [Next]_vars
  PROVE  RecordKept'
PROOF
  <1>1. ASSUME NEW x \in Peers, Turn(x), conn' = conn
        PROVE  RecordKept'
    <2>1. PICK r : peer' = [peer EXCEPT ![x] = r] /\ Ahead(x, peer[x], r)
      BY <1>1 DEF Turn
    <2>2. \A z \in Peers : /\ peer[z].heard => peer'[z].heard
                           /\ peer[z].fin => peer'[z].fin /\ peer'[z].snd = peer[z].snd
      BY <2>1 DEF Ahead, Typed
    <2>3. \A z \in Peers : Partner(z) \in Peers
      BY PartnerIsOther
    <2> QED  BY <1>1, <2>2, <2>3 DEF RecordKept, Remembers
  <1>2. ASSUME NEW x \in Peers, NetworkMoves(x)
        PROVE  RecordKept'
    <2>1. peer' = peer
      BY <1>2 DEF NetworkMoves
    <2>2. CASE conn' = conn
      BY <2>1, <2>2 DEF RecordKept, Remembers
    <2>3. CASE before[x] # <<>> /\ conn' = Observe(conn, Head(before[x]))
      <3>1. before[x] \in Seq(Numbered(x, peer[x], peer[Partner(x)]))
        BY DEF NumbersKept, Consistent
      <3>2. PICK g \in Numbered(x, peer[x], peer[Partner(x)]) : conn' = Observe(conn, g)
        BY <2>3, <3>1
      <3>3. conn' # NoConn => Remembers(Observe(conn, g))
        BY <3>2, ObserveRemembers DEF RecordKept
      <3> QED  BY <2>1, <3>2, <3>3 DEF RecordKept, Remembers
    <2> QED  BY <1>2, <2>2, <2>3 DEF NetworkMoves, Captured, Disturbed
  <1>3. CASE UNCHANGED vars
    BY <1>3 DEF vars, RecordKept, Remembers
  <1>4. "client" \in Peers
    BY DEF Peers
  <1> QED
    BY <1>1, <1>2, <1>3, <1>4, PeerTurnsSo, NetworkMovesSo DEF Next

\* A connection that is shown as closed is closed in both directions
\* (acceptPacket(), TCPConnection.cc:249-250), over IPv4 and between two addresses,
\* if the sequence numbers stay apart: no segment is taken for the acknowledgement
\* of a FIN that was sent before the FIN had arrived.
THEOREM ClosedIsMutual ==
  ASSUME Version = 4, ClientAddr # ServerAddr, NumbersApart
  PROVE  Spec => []ClosedMeansBothClosed
PROOF
  <1>1. Distinct
    BY DEF Distinct
  <1>2. Init => NumbersKept /\ RecordKept
    BY InitNumbers DEF Init, RecordKept
  <1>3. (Shape /\ Typed) /\ (NumbersKept /\ RecordKept) /\ [Next]_vars
          => (NumbersKept /\ RecordKept)'
    BY <1>1, NumbersKeptByNext, RecordKeptByNext
  <1>4. Typed /\ NumbersKept /\ RecordKept => ClosedMeansBothClosed
    <2> SUFFICES ASSUME NumbersKept, RecordKept, conn.state = "CLOSED", NEW x \in Peers
                 PROVE  peer[x].fin /\ peer[x].heard
      BY DEF ClosedMeansBothClosed
    <2>1. conn # NoConn
      BY DEF NoConn
    <2>2. \A z \in Peers : peer[z].heard
      BY <2>1 DEF RecordKept, Remembers, Side, Sides
    <2>3. Partner(x) \in Peers /\ Partner(Partner(x)) = x
      BY PartnerIsOther
    <2>4. peer[x].fin
      BY <2>2, <2>3 DEF NumbersKept, Consistent, Knows
    <2> QED  BY <2>2, <2>4
  <1> QED  BY <1>2, <1>3, <1>4, TypedInvariant, PTL DEF Spec

-----------------------------------------------------------------------------
(* Queues. *)

Some(s, F) == \E i \in 1 .. Len(s) : s[i] \in F

LEMMA SomeAppend ==
  ASSUME NEW T, NEW s \in Seq(T), NEW g \in T, NEW F
  PROVE  Some(Append(s, g), F) <=> Some(s, F) \/ g \in F
PROOF
  <1>1. /\ Len(s) \in Nat /\ Len(Append(s, g)) = Len(s) + 1
        /\ \A i \in 1 .. Len(s) : Append(s, g)[i] = s[i]
        /\ Append(s, g)[Len(s) + 1] = g
    BY AppendProperties
  <1> DEFINE a == Append(s, g)
  <1> HIDE DEF a
  <1>2. ASSUME NEW i \in 1 .. Len(a), a[i] \in F
        PROVE  Some(s, F) \/ g \in F
    <2>1. i \in 1 .. Len(s) \/ i = Len(s) + 1
      BY <1>1 DEF a
    <2> QED  BY <1>1, <1>2, <2>1 DEF Some, a
  <1>3. ASSUME Some(s, F) \/ g \in F
        PROVE  Some(a, F)
    BY <1>1, <1>3 DEF Some, a
  <1> QED  BY <1>2, <1>3 DEF Some, a

LEMMA SomeTail ==
  ASSUME NEW T, NEW s \in Seq(T), s # <<>>, NEW F
  PROVE  Some(s, F) <=> Head(s) \in F \/ Some(Tail(s), F)
PROOF
  <1>1. /\ Len(s) \in Nat /\ Len(s) >= 1 /\ Len(Tail(s)) = Len(s) - 1 /\ Head(s) = s[1]
        /\ \A i \in 1 .. Len(Tail(s)) : Tail(s)[i] = s[i + 1]
    BY HeadTailProperties, EmptySeq
  <1> DEFINE t == Tail(s)
  <1> HIDE DEF t
  <1>2. ASSUME NEW i \in 1 .. Len(s), s[i] \in F
        PROVE  Head(s) \in F \/ Some(t, F)
    <2>1. i = 1 \/ (i - 1 \in 1 .. Len(t) /\ t[i - 1] = s[i])
      BY <1>1 DEF t
    <2> QED  BY <1>1, <1>2, <2>1 DEF Some
  <1>3. ASSUME Head(s) \in F \/ Some(t, F)
        PROVE  Some(s, F)
    <2>1. \A i \in 1 .. Len(t) : i + 1 \in 1 .. Len(s) /\ t[i] = s[i + 1]
      BY <1>1 DEF t
    <2>2. 1 \in 1 .. Len(s)
      BY <1>1
    <2> QED  BY <1>1, <1>3, <2>1, <2>2 DEF Some
  <1> QED  BY <1>2, <1>3 DEF Some, t

\* The first segment that is not a SYN is a plain acknowledgement.
Led(s) == \E k \in 1 .. Len(s) : s[k].flags = {"ACK"}
                                 /\ \A i \in 1 .. k - 1 : s[i].flags = {"SYN"}

LEMMA LedQueues ==
  ASSUME NEW T, NEW s \in Seq(T), NEW g \in T
  PROVE  /\ Led(s) => Led(Append(s, g))
         /\ s \in Seq(Syns) /\ g.flags = {"ACK"} => Led(Append(s, g))
         /\ Led(s) => /\ s # <<>>
                      /\ \/ Head(s).flags = {"ACK"}
                         \/ Head(s).flags = {"SYN"} /\ Led(Tail(s))
PROOF
  <1>1. /\ Len(s) \in Nat /\ Len(Append(s, g)) = Len(s) + 1
        /\ \A i \in 1 .. Len(s) : Append(s, g)[i] = s[i]
        /\ Append(s, g)[Len(s) + 1] = g
    BY AppendProperties
  <1>2. ASSUME Led(s)
        PROVE  Led(Append(s, g))
    BY <1>1, <1>2 DEF Led
  <1>3. ASSUME s \in Seq(Syns), g.flags = {"ACK"}
        PROVE  Led(Append(s, g))
    <2>1. \A i \in 1 .. Len(s) : s[i].flags = {"SYN"}
      BY <1>3, ElementOfSeq DEF Syns
    <2> DEFINE k == Len(s) + 1
    <2>2. k \in 1 .. Len(Append(s, g)) /\ Append(s, g)[k].flags = {"ACK"}
      BY <1>1, <1>3
    <2>3. \A i \in 1 .. k - 1 : Append(s, g)[i].flags = {"SYN"}
      BY <1>1, <2>1
    <2> QED  BY <2>2, <2>3 DEF Led
  <1>4. ASSUME Led(s)
        PROVE  /\ s # <<>>
               /\ Head(s).flags = {"ACK"} \/ (Head(s).flags = {"SYN"} /\ Led(Tail(s)))
    <2>1. PICK k \in 1 .. Len(s) :
                 s[k].flags = {"ACK"} /\ \A i \in 1 .. k - 1 : s[i].flags = {"SYN"}
      BY <1>4 DEF Led
    <2>2. s # <<>> /\ Len(s) >= 1
      BY <1>1, <2>1
    <2>3. /\ Len(Tail(s)) = Len(s) - 1 /\ Head(s) = s[1]
          /\ \A i \in 1 .. Len(Tail(s)) : Tail(s)[i] = s[i + 1]
      BY <2>2, HeadTailProperties
    <2>4. CASE k = 1
      BY <2>1, <2>2, <2>3, <2>4
    <2>5. CASE k # 1
      <3> DEFINE t == Tail(s)
      <3>1. Head(s).flags = {"SYN"}
        BY <1>1, <2>1, <2>3, <2>5
      <3>2. k - 1 \in 1 .. Len(t) /\ t[k - 1].flags = {"ACK"}
        BY <1>1, <2>1, <2>3, <2>5
      <3>3. \A i \in 1 .. (k - 1) - 1 : t[i].flags = {"SYN"}
        BY <1>1, <2>1, <2>3
      <3> QED  BY <2>2, <3>1, <3>2, <3>3 DEF Led
    <2> QED  BY <2>4, <2>5
  <1> QED  BY <1>2, <1>3, <1>4

-----------------------------------------------------------------------------
(* What a peer does in answer to what it hears. *)

Acts(x) == \/ x = "client" /\ Open
           \/ SendAck(x) \/ SendData(x) \/ (\E len \in {0, 1} : SendFin(x, len))
           \/ Abort(x) \/ Resend(x) \/ Receive(x)

Fins(x) == {g \in Sent(x) : "FIN" \in g.flags}
Rsts(x) == {g \in Sent(x) : "RST" \in g.flags}
Takes(y, F) == Taken(y) /\ Head(after[y]) \in F

\* A peer has heard the FIN only when it got it, and owes an answer to it until it
\* acknowledges what it has received.  It aborts with a RST or because of one.
Answering(x) ==
  \E r \in PeerState(x) :
    /\ peer' = [peer EXCEPT ![x] = r]
    /\ peer[x].stage = "aborted" => r.stage = "aborted"
    /\ r.heard => peer[x].heard \/ Takes(Partner(x), Fins(Partner(x)))
    /\ r.heard /\ Takes(Partner(x), Fins(Partner(x))) => r.owes \/ r.stage = "aborted"
    /\ \/ /\ before' = before
          /\ peer[x].owes => r.owes \/ r.stage = "aborted"
          /\ r.stage = "aborted" => \/ peer[x].stage = "aborted"
                                    \/ Takes(Partner(x), Rsts(Partner(x)))
       \/ \E g \in Sent(x) :
            /\ before' = [before EXCEPT ![x] = Append(@, g)]
            /\ peer[x].owes => r.owes \/ ("ACK" \in g.flags /\ g.ack = r.rcv)
            /\ r.stage = "aborted" => peer[x].stage = "aborted" \/ g \in Rsts(x)
    /\ after' = after \/ Taken(Partner(x))

LEMMA EmitAnswers ==
  ASSUME Typed, NEW x \in Peers, NEW q \in PeerState(x), NEW flags \in SUBSET Flags,
         NEW len \in {0, 1}, "RST" \in flags => len = 0 /\ flags \cap {"SYN", "FIN"} = {},
         Emit(x, q, flags, len),
         peer[x].stage = "aborted" => q.stage = "aborted",
         q.heard => peer[x].heard,
         q.heard => ~Takes(Partner(x), Fins(Partner(x))),
         peer[x].owes => q.owes \/ "ACK" \in flags,
         q.stage = "aborted" => peer[x].stage = "aborted" \/ "RST" \in flags,
         after' = after \/ Taken(Partner(x))
  PROVE  Answering(x)
PROOF
  <1>1. PICK g, r : /\ Sending(x, q, flags, len, g, r)
                    /\ before' = [before EXCEPT ![x] = Append(@, g)]
                    /\ peer' = [peer EXCEPT ![x] = r]
    BY EmitIsExact
  <1>2. /\ g \in Sent(x) /\ g.flags = flags /\ r \in PeerState(x)
        /\ "ACK" \in flags => g.ack = r.rcv
        /\ r.stage = q.stage /\ r.heard = q.heard
    BY <1>1 DEF Sending
  <1>3. q.owes => r.owes \/ "ACK" \in flags
    <2>1. r.owes = (q.owes /\ "ACK" \notin flags)
      BY <1>1 DEF Sending
    <2> QED  BY <2>1, Zenon
  <1>4. "RST" \in flags => g \in Rsts(x)
    BY <1>2 DEF Rsts
  <1> QED  BY <1>1, <1>2, <1>3, <1>4 DEF Answering

LEMMA ReceiveAnswers ==
  ASSUME Typed, NumbersKept, NEW x \in Peers, Receive(x)
  PROVE  Answering(x)
PROOF
  <1> DEFINE y == Partner(x)
             q == peer[x]
  <1>1. y \in Peers
    BY PartnerIsOther
  <1>2. q \in PeerState(x) /\ DOMAIN peer = Peers
    BY DEF Typed
  <1>3. after[y] \in Seq(Sent(y)) /\ after[y] # <<>> /\ Taken(y)
    BY <1>1 DEF Typed, Queues, Receive, Taken
  <1>4. PICK g : g = Head(after[y])
    OBVIOUS
  <1>5. g \in Sent(y) /\ Next_(g) \in Numbers
    BY <1>3, <1>4, NextIsNumber
  <1>6. Takes(y, Fins(y)) => "FIN" \in g.flags
    BY <1>4 DEF Takes, Fins
  <1>7. "RST" \in g.flags => Takes(y, Rsts(y))
    BY <1>3, <1>4, <1>5 DEF Takes, Rsts
  <1>8. "FIN" \in g.flags => Takes(y, Fins(y))
    BY <1>3, <1>4, <1>5 DEF Takes, Fins
  <1>9. q.heard => Synced(x, q) \/ q.stage = "aborted"
    BY DEF NumbersKept, Consistent, Knows
  <1>10. /\ {"SYN", "ACK"} \in SUBSET Flags /\ {"ACK"} \in SUBSET Flags
         /\ {"opening", "open", "aborted"} \subseteq Stages
         /\ \A S : <<>> \in Seq(S)
         /\ 0 \in {0, 1}
    BY DEF Flags, Stages
  <1>11. \/ ReceiveSyn(x, g) \/ ReceiveSynAck(x, g) \/ ReceiveRst(x, g)
         \/ ReceiveOther(x, g) \/ ReceiveNothing(x, g)
    BY <1>4 DEF Receive
  <1>12. {"SYN", "ACK"} \subseteq g.flags \/ "SYN" \in g.flags => "FIN" \notin g.flags
    <2>1. after[y] \in Seq(Numbered(y, peer[y], peer[Partner(y)]))
      BY <1>1 DEF NumbersKept, Consistent
    <2>2. g \in Numbered(y, peer[y], peer[Partner(y)])
      BY <1>3, <1>4, <2>1
    <2> QED  BY <2>2 DEF Numbered, IsSyn, IsFin, IsData, OpeningFlags
  <1>13. CASE ReceiveSyn(x, g)
    <2> DEFINE r == [q EXCEPT !.stage = "opening", !.rcv = Next_(g)]
    <2>1. /\ x = "server" /\ q.stage = "closed" /\ Emit(x, r, {"SYN", "ACK"}, 0)
      BY <1>13 DEF ReceiveSyn
    <2>2. /\ r \in PeerState(x) /\ r.stage = "opening" /\ r.heard = q.heard /\ r.owes = q.owes
      BY <1>2, <1>5, <1>10 DEF PeerState
    <2>3. ~q.heard
      BY <1>9, <2>1 DEF Synced
    <2> HIDE DEF r
    <2> QED  BY <1>3, <1>10, <2>1, <2>2, <2>3, EmitAnswers
  <1>14. CASE ReceiveSynAck(x, g)
    <2> DEFINE o == [q EXCEPT !.rcv = g.seq]
               t == Digest(o, g)
               r == [t EXCEPT !.stage = "open"]
    <2>1. /\ x = "client" /\ q.stage = "opening" /\ {"SYN", "ACK"} \subseteq g.flags
          /\ Emit(x, r, {"ACK"}, 0)
      BY <1>14 DEF ReceiveSynAck
    <2>2. o \in PeerState(x) /\ o.heard = q.heard /\ o.owes = q.owes
      BY <1>2, <1>5 DEF PeerState, Sent
    <2> HIDE DEF o
    <2>3. t \in PeerState(x) /\ t.heard = (o.heard \/ (g.seq = o.rcv /\ "FIN" \in g.flags))
      BY <1>5, <2>2, DigestIsExact
    <2> HIDE DEF t
    <2>4. r \in PeerState(x) /\ r.stage = "open" /\ r.heard = t.heard
      BY <1>10, <2>3 DEF PeerState
    <2> HIDE DEF r
    <2>5. ~q.heard /\ "FIN" \notin g.flags
      BY <1>9, <1>12, <2>1 DEF Synced
    <2>6. ~r.heard
      BY <2>2, <2>3, <2>4, <2>5
    <2> QED  BY <1>3, <1>10, <2>1, <2>4, <2>6, EmitAnswers
  <1>15. CASE ReceiveRst(x, g)
    <2> DEFINE r == [q EXCEPT !.stage = "aborted", !.owes = FALSE, !.unacked = <<>>]
    <2>1. peer' = [peer EXCEPT ![x] = r] /\ before' = before
      BY <1>2, <1>15 DEF ReceiveRst
    <2>2. r \in PeerState(x) /\ r.stage = "aborted" /\ r.heard = q.heard
      BY <1>2, <1>10 DEF PeerState
    <2>3. Takes(y, Rsts(y))
      BY <1>7, <1>15 DEF ReceiveRst
    <2> HIDE DEF r
    <2> QED  BY <1>3, <2>1, <2>2, <2>3 DEF Answering
  <1>16. CASE ReceiveOther(x, g)
    <2> DEFINE t == Digest(q, g)
               stage == IF t.unacked = <<>> THEN "open" ELSE t.stage
               r == [t EXCEPT !.stage = stage]
    <2>1. /\ Synced(x, q) /\ peer' = [peer EXCEPT ![x] = r] /\ before' = before
      BY <1>16 DEF ReceiveOther, Synced
    <2>2. /\ t \in PeerState(x) /\ t.stage = q.stage
          /\ t.heard = (q.heard \/ (g.seq = q.rcv /\ "FIN" \in g.flags))
          /\ t.owes = (q.owes \/ Size(g) > 0)
      BY <1>2, <1>5, DigestIsExact
    <2> HIDE DEF t
    <2>3. stage \in Stages /\ (stage = q.stage \/ stage = "open")
      BY <1>10, <2>2 DEF PeerState
    <2> HIDE DEF stage
    <2>4. r \in PeerState(x) /\ r.stage = stage /\ r.heard = t.heard /\ r.owes = t.owes
      BY <2>2, <2>3 DEF PeerState
    <2> HIDE DEF r
    <2>5. r.stage # "aborted" /\ q.stage # "aborted"
      BY <2>1, <2>3, <2>4 DEF Synced
    <2>6. "FIN" \in g.flags => Size(g) > 0
      BY <1>5 DEF Size, Sent
    <2>7. r.heard => q.heard \/ "FIN" \in g.flags
      BY <2>2, <2>4, Zenon
    <2>8. ("FIN" \in g.flags => r.owes) /\ (q.owes => r.owes)
      BY <2>2, <2>4, <2>6, Zenon
    <2> QED  BY <1>3, <1>6, <1>8, <2>1, <2>4, <2>5, <2>7, <2>8 DEF Answering
  <1>17. CASE ReceiveNothing(x, g)
    <2>1. peer' = [peer EXCEPT ![x] = q] /\ before' = before
      BY <1>17 DEF ReceiveNothing, Typed
    <2>2. q.heard => q.stage = "aborted"
      BY <1>9, <1>17 DEF ReceiveNothing, Synced
    <2> QED  BY <1>2, <1>3, <2>1, <2>2 DEF Answering
  <1> QED  BY <1>11, <1>13, <1>14, <1>15, <1>16, <1>17

LEMMA ActsAnswer ==
  ASSUME Typed, NumbersKept, NEW x \in Peers, Acts(x)
  PROVE  Answering(x)
PROOF
  <1> DEFINE q == peer[x]
  <1>1. q \in PeerState(x) /\ DOMAIN peer = Peers
    BY DEF Typed
  <1>2. /\ {{"SYN"}, {"ACK"}, {"FIN", "ACK"}, {"RST", "ACK"}} \subseteq SUBSET Flags
        /\ {"opening", "open", "aborted"} \subseteq Stages
        /\ \A S : <<>> \in Seq(S)
        /\ 0 \in {0, 1} /\ 1 \in {0, 1}
    BY DEF Flags, Stages
  <1>3. CASE ~Receive(x)
    <2>1. after' = after
      BY <1>3 DEF Acts, Open, SendAck, SendData, SendFin, Abort, Resend
    <2>2. ~Takes(Partner(x), Fins(Partner(x)))
      <3>1. ~Taken(Partner(x))
        <4> SUFFICES ASSUME Taken(Partner(x))  PROVE FALSE
          OBVIOUS
        <4> DEFINE s == after[Partner(x)]
        <4>1. Partner(x) \in Peers /\ DOMAIN after = Peers /\ s \in Seq(Sent(Partner(x)))
          BY PartnerIsOther DEF Typed, Queues
        <4>2. s # <<>>
          BY DEF Taken
        <4>3. s = Tail(s)
          BY <2>1, <4>1 DEF Taken
        <4> HIDE DEF s
        <4>4. Len(Tail(s)) = Len(s) - 1
          BY <4>1, <4>2, HeadTailProperties
        <4>5. Len(s) \in Nat
          BY <4>1
        <4> QED  BY <4>3, <4>4, <4>5
      <3> QED  BY <3>1 DEF Takes
    <2>3. CASE x = "client" /\ Open
      <3> DEFINE r == [q EXCEPT !.stage = "opening"]
      <3>1. /\ r \in PeerState(x) /\ r.stage = "opening" /\ r.heard = q.heard /\ r.owes = q.owes
        BY <1>1, <1>2 DEF PeerState
      <3>2. Emit(x, r, {"SYN"}, 0) /\ q.stage = "closed"
        BY <2>3 DEF Open
      <3> HIDE DEF r
      <3> QED  BY <1>2, <2>1, <2>2, <3>1, <3>2, EmitAnswers
    <2>4. CASE SendAck(x)
      BY <1>1, <1>2, <2>1, <2>2, <2>4, EmitAnswers DEF SendAck
    <2>5. CASE SendData(x)
      BY <1>1, <1>2, <2>1, <2>2, <2>5, EmitAnswers DEF SendData
    <2>6. CASE \E len \in {0, 1} : SendFin(x, len)
      BY <1>1, <1>2, <2>1, <2>2, <2>6, EmitAnswers DEF SendFin
    <2>7. CASE Abort(x)
      <3> DEFINE r == [q EXCEPT !.stage = "aborted", !.owes = FALSE, !.unacked = <<>>]
      <3>1. r \in PeerState(x) /\ r.stage = "aborted" /\ r.heard = q.heard
        BY <1>1, <1>2 DEF PeerState
      <3>2. Emit(x, r, {"RST", "ACK"}, 0)
        BY <2>7 DEF Abort
      <3>3. {"RST", "ACK"} \cap {"SYN", "FIN"} = {}
        OBVIOUS
      <3> HIDE DEF r
      <3> QED  BY <1>2, <2>1, <2>2, <3>1, <3>2, <3>3, EmitAnswers
    <2>8. CASE Resend(x)
      <3>1. PICK g : g = Head(q.unacked)
        OBVIOUS
      <3>2. g \in Sent(x) /\ "RST" \notin g.flags
        <4>1. q.unacked \in Seq(Harmless(x)) /\ q.unacked # <<>>
          BY <1>1, <2>8 DEF PeerState, Resend
        <4>2. g \in Harmless(x)
          BY <3>1, <4>1
        <4> QED  BY <4>2 DEF Harmless
      <3> DEFINE ack == IF "ACK" \in g.flags THEN q.rcv ELSE 0
                 h == [g EXCEPT !.ack = ack]
                 owes == q.owes /\ "ACK" \notin g.flags
                 r == [q EXCEPT !.owes = owes]
      <3>3. before' = [before EXCEPT ![x] = Append(@, h)]
        BY <2>8, <3>1 DEF Resend
      <3>4. peer' = [peer EXCEPT ![x] = r]
        BY <1>1, <2>8, <3>1 DEF Resend
      <3>5. ack \in Numbers /\ ("ACK" \in g.flags => ack = q.rcv)
        BY <1>1, WordAssumption DEF PeerState, Numbers
      <3>6. owes \in BOOLEAN /\ (q.owes => owes \/ "ACK" \in g.flags)
        OBVIOUS
      <3> HIDE DEF ack, owes
      <3>7. h \in Sent(x) /\ h.flags = g.flags /\ h.ack = ack
        BY <3>2, <3>5 DEF Sent
      <3>8. /\ r \in PeerState(x) /\ r.stage = q.stage /\ r.heard = q.heard /\ r.rcv = q.rcv
            /\ r.owes = owes
        BY <1>1, <3>6 DEF PeerState
      <3> HIDE DEF h, r
      <3> QED  BY <2>1, <2>2, <3>3, <3>4, <3>5, <3>6, <3>7, <3>8 DEF Answering
    <2> QED  BY <1>3, <2>3, <2>4, <2>5, <2>6, <2>7, <2>8 DEF Acts
  <1>4. CASE Receive(x)
    BY <1>4, ReceiveAnswers
  <1> QED  BY <1>3, <1>4

-----------------------------------------------------------------------------
(* What a peer does before the connection is open. *)

\* The client repeats its SYN until it gets the SYN|ACK, and then acknowledges that.
LEMMA ClientOpening ==
  ASSUME Typed, NumbersKept, peer["client"].stage = "opening", Acts("client")
  PROVE  \/ /\ peer'["client"].stage = "opening"
            /\ \/ before' = before
               \/ \E g \in Syns : before' = [before EXCEPT !["client"] = Append(@, g)]
         \/ /\ Taken("server") /\ peer'["client"].stage = "open"
            /\ \E g \in Sent("client") :
                 g.flags = {"ACK"} /\ before' = [before EXCEPT !["client"] = Append(@, g)]
         \/ Takes("server", Rsts("server"))
PROOF
  <1> DEFINE x == "client"
             q == peer[x]
             p == peer["server"]
  <1>1. /\ x \in Peers /\ "server" \in Peers /\ Partner(x) = "server" /\ x # "server"
        /\ DOMAIN peer = Peers /\ q \in PeerState(x)
    BY DEF Typed, Peers, Partner
  <1>2. Knows(x, q, p) /\ q.unacked \in Seq(Numbered(x, q, p)) /\ ~Synced(x, q)
    BY <1>1 DEF NumbersKept, Consistent, Synced
  <1>3. ~q.owes /\ q.unacked \in Seq(Bare(x))
    BY <1>2 DEF Knows
  <1>4. ~Open /\ ~SendAck(x) /\ ~SendData(x) /\ ~Abort(x)
        /\ ~(\E len \in {0, 1} : SendFin(x, len))
    BY <1>3 DEF Open, SendAck, SendData, SendFin, Abort
  <1>5. CASE Resend(x)
    <2>1. PICK g : g = Head(q.unacked)
      OBVIOUS
    <2>2. q.unacked # <<>> /\ g \in Numbered(x, q, p) /\ g \in Bare(x)
      <3>1. q.unacked # <<>>
        BY <1>5 DEF Resend
      <3> QED  BY <1>2, <1>3, <2>1, <3>1
    <2>3. g \in Sent(x) /\ g.flags = {"SYN"}
      BY <2>2 DEF Numbered, Bare, IsSyn, IsFin, IsData, OpeningFlags
    <2> DEFINE h == [g EXCEPT !.ack = 0]
    <2>4. h \in Syns
      BY <2>3, WordAssumption DEF Syns, Sent, Numbers
    <2>5. before' = [before EXCEPT ![x] = Append(@, h)]
      <3>1. "ACK" \notin g.flags
        BY <2>3
      <3> QED  BY <1>5, <2>1, <3>1 DEF Resend
    <2>6. peer'[x].stage = q.stage
      BY <1>1, <1>5 DEF Resend, PeerState
    <2> QED  BY <2>4, <2>5, <2>6
  <1>6. CASE Receive(x)
    <2>1. PICK g : g = Head(after["server"])
      OBVIOUS
    <2>2. /\ g \in Sent("server") /\ Taken("server")
          /\ \/ ReceiveSyn(x, g) \/ ReceiveSynAck(x, g) \/ ReceiveRst(x, g)
             \/ ReceiveOther(x, g) \/ ReceiveNothing(x, g)
      <3>1. after["server"] # <<>> /\ Taken("server")
        BY <1>1, <1>6 DEF Receive, Taken
      <3>2. g \in Sent("server")
        BY <1>1, <2>1, <3>1 DEF Typed, Queues
      <3> QED  BY <1>1, <1>6, <2>1, <3>1, <3>2 DEF Receive
    <2>3. CASE ReceiveRst(x, g)
      BY <2>1, <2>2, <2>3 DEF ReceiveRst, Takes, Rsts
    <2>4. CASE ReceiveNothing(x, g)
      BY <2>4 DEF ReceiveNothing
    <2>5. CASE ReceiveSynAck(x, g)
      <3> DEFINE o == [q EXCEPT !.rcv = g.seq]
                 t == Digest(o, g)
                 r == [t EXCEPT !.stage = "open"]
      <3>1. Emit(x, r, {"ACK"}, 0)
        BY <2>5 DEF ReceiveSynAck
      <3>2. o \in PeerState(x)
        BY <1>1, <2>2 DEF PeerState, Sent
      <3> HIDE DEF o
      <3>3. t \in PeerState(x)
        BY <1>1, <2>2, <3>2, DigestIsExact
      <3> HIDE DEF t
      <3>4. r \in PeerState(x) /\ r.stage = "open"
        BY <3>3 DEF PeerState, Stages
      <3> HIDE DEF r
      <3>5. {"ACK"} \in SUBSET Flags /\ 0 \in {0, 1}
        BY DEF Flags
      <3>6. PICK h, s : /\ Sending(x, r, {"ACK"}, 0, h, s)
                        /\ before' = [before EXCEPT ![x] = Append(@, h)]
                        /\ peer' = [peer EXCEPT ![x] = s]
        BY <1>1, <3>1, <3>4, <3>5, EmitIsExact
      <3>7. h \in Sent(x) /\ h.flags = {"ACK"} /\ s.stage = "open"
        BY <3>4, <3>6 DEF Sending
      <3> QED  BY <1>1, <2>2, <3>6, <3>7
    <2>6. ~ReceiveSyn(x, g) /\ ~ReceiveOther(x, g)
      BY DEF ReceiveSyn, ReceiveOther
    <2> QED  BY <2>2, <2>3, <2>4, <2>5, <2>6
  <1> QED  BY <1>4, <1>5, <1>6 DEF Acts

\* The server, as long as it gets nothing but SYNs: it answers the first one with a
\* SYN|ACK, and repeats that.
LEMMA ServerOpening ==
  ASSUME Typed, NumbersKept, Acts("server"), after["client"] \in Seq(Syns)
  PROVE  /\ peer["server"].stage = "closed" =>
              /\ peer'["server"].stage = "opening" /\ peer'["server"].unacked # <<>>
              /\ \E g \in Sent("server") :
                   /\ g.flags = {"SYN", "ACK"}
                   /\ before' = [before EXCEPT !["server"] = Append(@, g)]
         /\ peer["server"].stage = "opening" /\ peer["server"].unacked # <<>> =>
              /\ peer'["server"].stage = "opening" /\ peer'["server"].unacked # <<>>
              /\ \/ before' = before
                 \/ \E g \in Sent("server") :
                      before' = [before EXCEPT !["server"] = Append(@, g)]
PROOF
  <1> DEFINE x == "server"
             q == peer[x]
             p == peer["client"]
  <1>1. /\ x \in Peers /\ "client" \in Peers /\ Partner(x) = "client" /\ x # "client"
        /\ DOMAIN peer = Peers /\ q \in PeerState(x)
    BY DEF Typed, Peers, Partner
  <1>2. Knows(x, q, p) /\ q.unacked \in Seq(Numbered(x, q, p))
    BY <1>1 DEF NumbersKept, Consistent
  <1>3. q.unacked \in Seq(Harmless(x)) /\ q.owes \in BOOLEAN
    BY <1>1 DEF PeerState
  <1>4. {"ACK"} \in SUBSET Flags /\ {"SYN", "ACK"} \in SUBSET Flags /\ 0 \in {0, 1}
        /\ "opening" \in Stages
    BY DEF Flags, Stages
  <1>5. ASSUME Receive(x), NEW g, g = Head(after["client"])
        PROVE  /\ g \in Syns
               /\ \/ ReceiveSyn(x, g) \/ ReceiveOther(x, g) \/ ReceiveNothing(x, g)
    <2>1. after["client"] # <<>>
      BY <1>1, <1>5 DEF Receive
    <2>2. g \in Syns
      BY <1>5, <2>1
    <2>3. ~ReceiveRst(x, g) /\ ~ReceiveSynAck(x, g)
      BY <2>2 DEF Syns, ReceiveRst, ReceiveSynAck
    <2> QED  BY <1>1, <1>5, <2>2, <2>3 DEF Receive
  <1>6. CASE q.stage = "closed"
    <2>1. ~Synced(x, q)
      BY <1>6 DEF Synced
    <2>2. ~q.owes /\ q.unacked \in Seq(Bare(x))
      BY <1>2, <2>1 DEF Knows
    <2>3. ~Resend(x)
      <3> SUFFICES ASSUME q.unacked # <<>>  PROVE FALSE
        BY DEF Resend
      <3>1. Head(q.unacked) \in Numbered(x, q, p) /\ Head(q.unacked) \in Bare(x)
        BY <1>2, <2>2
      <3> QED  BY <3>1 DEF Numbered, Bare, IsSyn, IsFin, IsData, OpeningFlags
    <2>4. Receive(x)
      BY <1>6, <2>2, <2>3 DEF Acts, SendAck, SendData, SendFin, Abort
    <2>5. PICK g : g = Head(after["client"])
      OBVIOUS
    <2>6. g \in Syns /\ ReceiveSyn(x, g)
      BY <1>5, <1>6, <2>4, <2>5 DEF ReceiveOther, ReceiveNothing
    <2> DEFINE r == [q EXCEPT !.stage = "opening", !.rcv = Next_(g)]
    <2>7. Emit(x, r, {"SYN", "ACK"}, 0)
      BY <2>6 DEF ReceiveSyn
    <2>8. r \in PeerState(x) /\ r.stage = "opening"
      <3>1. Next_(g) \in Numbers
        BY <2>6, NextIsNumber DEF Syns
      <3> QED  BY <1>1, <1>4, <3>1 DEF PeerState
    <2> HIDE DEF r
    <2>9. PICK h, s : /\ Sending(x, r, {"SYN", "ACK"}, 0, h, s)
                      /\ before' = [before EXCEPT ![x] = Append(@, h)]
                      /\ peer' = [peer EXCEPT ![x] = s]
      BY <1>1, <1>4, <2>7, <2>8, EmitIsExact
    <2>10. h \in Sent(x) /\ h.flags = {"SYN", "ACK"} /\ h.len = 0 /\ s.stage = "opening"
      BY <2>8, <2>9 DEF Sending
    <2>11. Size(h) > 0
      BY <2>10 DEF Size
    <2>12. s.unacked = Append(r.unacked, h) /\ r.unacked \in Seq(Harmless(x))
      BY <2>8, <2>9, <2>11 DEF Sending, PeerState
    <2>13. s.unacked # <<>>
      BY <2>12, AppendProperties
    <2> QED  BY <1>1, <1>6, <2>9, <2>10, <2>13
  <1>7. CASE q.stage = "opening" /\ q.unacked # <<>>
    <2>1. ~Open \/ x # "client"
      OBVIOUS
    <2>2. ~SendData(x) /\ ~Abort(x) /\ ~(\E len \in {0, 1} : SendFin(x, len))
      BY <1>7 DEF SendData, SendFin, Abort
    <2>3. CASE SendAck(x)
      <3>1. Emit(x, q, {"ACK"}, 0)
        BY <2>3 DEF SendAck
      <3>2. PICK h, s : /\ Sending(x, q, {"ACK"}, 0, h, s)
                        /\ before' = [before EXCEPT ![x] = Append(@, h)]
                        /\ peer' = [peer EXCEPT ![x] = s]
        BY <1>1, <1>4, <3>1, EmitIsExact
      <3>3. /\ h \in Sent(x) /\ s.stage = "opening"
            /\ s.unacked = q.unacked \/ s.unacked = Append(q.unacked, h)
        BY <1>7, <3>2 DEF Sending
      <3>4. Append(q.unacked, h) # <<>>
        BY <1>3
      <3> QED  BY <1>1, <1>7, <3>2, <3>3, <3>4
    <2>4. CASE Resend(x)
      <3>1. peer'[x].stage = q.stage /\ peer'[x].unacked = q.unacked
        BY <1>1, <2>4 DEF Resend, PeerState
      <3>2. PICK h : h = Head(q.unacked)
        OBVIOUS
      <3>3. h \in Sent(x)
        BY <1>3, <1>7, <3>2 DEF Harmless
      <3> DEFINE ack == IF "ACK" \in h.flags THEN q.rcv ELSE 0
                 k == [h EXCEPT !.ack = ack]
      <3>4. before' = [before EXCEPT ![x] = Append(@, k)]
        BY <2>4, <3>2 DEF Resend
      <3>5. ack \in Numbers
        BY <1>1, WordAssumption DEF PeerState, Numbers
      <3> HIDE DEF ack
      <3>6. k \in Sent(x)
        BY <3>3, <3>5 DEF Sent
      <3> QED  BY <1>7, <3>1, <3>4, <3>6
    <2>5. CASE Receive(x)
      <3>1. PICK g : g = Head(after["client"])
        OBVIOUS
      <3>2. g \in Syns /\ ReceiveOther(x, g)
        BY <1>5, <1>7, <2>5, <3>1 DEF ReceiveSyn, ReceiveNothing
      <3> DEFINE t == Digest(q, g)
                 r == [t EXCEPT !.stage = IF t.unacked = <<>> THEN "open" ELSE @]
      <3>3. peer' = [peer EXCEPT ![x] = r] /\ before' = before
        BY <3>2 DEF ReceiveOther
      <3>4. /\ t \in PeerState(x) /\ t.stage = q.stage /\ t.unacked = StillUnacked(q, g)
        BY <1>1, <3>2, DigestIsExact DEF Syns
      <3>5. StillUnacked(q, g) = q.unacked
        BY <3>2 DEF StillUnacked, Syns
      <3> HIDE DEF t
      <3>6. r.stage = "opening" /\ r.unacked = q.unacked
        BY <1>7, <3>4, <3>5 DEF PeerState
      <3> HIDE DEF r
      <3> QED  BY <1>1, <1>7, <3>3, <3>6
    <2> QED  BY <1>7, <2>1, <2>2, <2>3, <2>4, <2>5 DEF Acts
  <1> QED  BY <1>6, <1>7

-----------------------------------------------------------------------------
(* What the record knows of the peers when the sniffer sees all they send, in the *)
(* order they send it.                                                            *)

Undisturbed == Never({"lost", "missed", "swapped"})

\* A RST that has passed the sniffer has finished the record, and one that a peer
\* has sent is on its way.
RstSeen ==
  \A x \in Peers : /\ Some(after[x], Rsts(x)) => IsFinished(conn)
                   /\ peer[x].stage = "aborted" => IsFinished(conn) \/ Some(before[x], Rsts(x))

\* The SYN was seen: the SYN|ACK is still to come, and comes before anything else of
\* the server.
SynSeen ==
  conn.state = "SYN_SYNACK" =>
    /\ peer["client"].stage = "opening"
    /\ before["client"] \in Seq(Syns) /\ after["client"] \in Seq(Syns)
    /\ after["server"] = <<>>
    /\ \/ peer["server"].stage = "closed" /\ before["server"] = <<>>
       \/ /\ peer["server"].stage = "opening" /\ peer["server"].unacked # <<>>
          /\ before["server"] # <<>> /\ Head(before["server"]).flags = {"SYN", "ACK"}

\* The SYN|ACK was seen: an acknowledgement without a FIN is still to come.
SynAckSeen ==
  conn.state = "SYNACK_ACK" =>
    /\ peer["server"].stage = "opening" /\ peer["server"].unacked # <<>>
    /\ after["client"] \in Seq(Syns)
    /\ \/ peer["client"].stage = "opening" /\ before["client"] \in Seq(Syns)
       \/ peer["client"].stage \in {"open", "aborted"} /\ Led(before["client"])

\* Before the record is closing no FIN has passed.
NoFinSeen ==
  conn.state \in {"none", "SYN_SYNACK", "SYNACK_ACK", "UP"} =>
    \A x \in Peers : ~peer[x].heard /\ ~Some(after[x], Fins(x))

\* While it is closing, the number it waits for is that of the FIN that has passed,
\* and the acknowledgement is still to come.
FinAcks(x) == {g \in Sent(x) : "ACK" \in g.flags /\ g.ack = peer[Partner(x)].snd}
FinSeen ==
  conn.state = "FIN_FINACK" =>
    /\ ~ \A s \in Sides : conn.recvd[s]
    /\ \A x \in Peers :
         /\ peer[x].heard \/ Some(after[Partner(x)], Fins(Partner(x))) =>
              conn.finack[Side(x)] = peer[Partner(x)].snd
         /\ peer[x].heard => \/ conn.recvd[Side(x)] \/ peer[x].owes \/ peer[x].stage = "aborted"
                             \/ Some(after[Partner(x)], Fins(Partner(x)))
                             \/ Some(before[x], FinAcks(x))

Seen == Undisturbed => RstSeen /\ SynSeen /\ SynAckSeen /\ NoFinSeen /\ FinSeen

LEMMA InitSeen == Init => Seen
PROOF
  <1> SUFFICES ASSUME Init  PROVE RstSeen /\ SynSeen /\ SynAckSeen /\ NoFinSeen /\ FinSeen
    BY DEF Seen
  <1>1. /\ conn.state = "none"
        /\ \A x \in Peers : /\ peer[x].stage = "closed" /\ ~peer[x].heard
                            /\ after[x] = <<>>
    BY DEF Init, NoConn
  <1>2. \A F : ~Some(<<>>, F)
    BY DEF Some
  <1> QED  BY <1>1, <1>2 DEF RstSeen, SynSeen, SynAckSeen, NoFinSeen, FinSeen

LEMMA UndisturbedStep ==
  ASSUME Typed, [Next]_vars, Undisturbed'
  PROVE  /\ Undisturbed
         /\ UNCHANGED vars \/ \E x \in Peers : Acts(x) \/ Capture(x)
PROOF
  <1>1. /\ {"lost", "missed", "swapped"} \subseteq Kinds
        /\ \A k \in Kinds : spent[k] \in Nat
        /\ \A k \in {"lost", "missed", "swapped"} : spent'[k] = 0
    BY DEF Typed, Kinds, Undisturbed, Never
  <1>2. ASSUME NEW kind \in Kinds, Spend(kind)
        PROVE  kind \notin {"lost", "missed", "swapped"} /\ Undisturbed
    <2>1. spent'[kind] = spent[kind] + 1 /\ \A k \in Kinds : k # kind => spent'[k] = spent[k]
      BY <1>2, SpendIsExact
    <2> QED  BY <1>1, <2>1 DEF Undisturbed, Never
  <1>3. ASSUME spent' = spent
        PROVE  Undisturbed
    BY <1>1, <1>3 DEF Undisturbed, Never
  <1>4. (\E kind \in Kinds : Spend(kind)) \/ spent' = spent
    BY DEF Next, Open, SendAck, SendData, SendFin, Abort, Resend, Receive, Capture, Miss,
           LoseBefore, LoseAfter, SwapBefore, Kinds, vars
  <1>5. Undisturbed
    BY <1>2, <1>3, <1>4
  <1>6. \A x \in Peers : ~(Miss(x) \/ LoseBefore(x) \/ LoseAfter(x) \/ SwapBefore(x))
    BY <1>1, <1>2 DEF Miss, LoseBefore, LoseAfter, SwapBefore
  <1>7. UNCHANGED vars \/ \E x \in Peers : Acts(x) \/ Capture(x)
    <2>1. "client" \in Peers
      BY DEF Peers
    <2>2. CASE Open
      BY <2>1, <2>2 DEF Acts
    <2>3. CASE ~Open /\ ~(UNCHANGED vars)
      <3>1. PICK x \in Peers :
              \/ SendAck(x) \/ SendData(x) \/ (\E len \in {0, 1} : SendFin(x, len))
              \/ Abort(x) \/ Resend(x) \/ Receive(x) \/ Capture(x)
        BY <1>6, <2>3 DEF Next
      <3> QED  BY <3>1 DEF Acts
    <2> QED  BY <2>2, <2>3
  <1> QED  BY <1>5, <1>7

\* The queues when peer x answers.
LEMMA AnsweringQueues ==
  ASSUME Typed, NEW x \in Peers, Answering(x)
  PROVE  LET y == Partner(x)
         IN  /\ y \in Peers /\ y # x /\ Partner(y) = x /\ \A z \in Peers : z = x \/ z = y
             /\ peer'[y] = peer[y] /\ before'[y] = before[y] /\ after'[x] = after[x]
             /\ \A F : Some(before[x], F) => Some(before'[x], F)
             /\ \A F : Some(after[y], F) <=> Some(after'[y], F) \/ Takes(y, F)
             /\ \A F : Some(after'[y], F) => Some(after[y], F)
             /\ \A S : after[y] \in Seq(S) => after'[y] \in Seq(S)
PROOF
  <1> DEFINE y == Partner(x)
  <1>1. y \in Peers /\ y # x /\ Partner(y) = x /\ \A z \in Peers : z = x \/ z = y
    BY PartnerIsOther
  <1> HIDE DEF y
  <1>2. /\ DOMAIN peer = Peers /\ DOMAIN before = Peers /\ DOMAIN after = Peers
        /\ before[x] \in Seq(Sent(x)) /\ after[y] \in Seq(Sent(y))
    BY <1>1 DEF Typed, Queues
  <1>3. /\ \E r : peer' = [peer EXCEPT ![x] = r]
        /\ before' = before \/ \E g \in Sent(x) : before' = [before EXCEPT ![x] = Append(@, g)]
        /\ after' = after \/ Taken(y)
    BY DEF Answering, y
  <1>4. peer'[y] = peer[y] /\ before'[y] = before[y] /\ after'[x] = after[x]
    BY <1>1, <1>2, <1>3 DEF Taken
  <1>5. ASSUME NEW F, Some(before[x], F)
        PROVE  Some(before'[x], F)
    <2>1. CASE before' = before
      BY <1>5, <2>1
    <2>2. ASSUME NEW g \in Sent(x), before' = [before EXCEPT ![x] = Append(@, g)]
          PROVE  Some(before'[x], F)
      <3>1. before'[x] = Append(before[x], g)
        BY <1>2, <2>2
      <3> QED  BY <1>2, <1>5, <3>1, SomeAppend
    <2> QED  BY <1>3, <2>1, <2>2
  <1>6. CASE Taken(y)
    <2>1. after[y] # <<>> /\ after'[y] = Tail(after[y])
      BY <1>1, <1>2, <1>6 DEF Taken
    <2>2. \A F : Some(after[y], F) <=> Head(after[y]) \in F \/ Some(Tail(after[y]), F)
      BY <1>2, <2>1, SomeTail
    <2>3. \A S : after[y] \in Seq(S) => Tail(after[y]) \in Seq(S)
      BY <2>1, HeadTailProperties
    <2> QED  BY <1>1, <1>4, <1>5, <1>6, <2>1, <2>2, <2>3 DEF Takes, y
  <1>7. CASE after' = after /\ ~Taken(y)
    <2>1. \A F : ~Takes(y, F)
      BY <1>7 DEF Takes
    <2> QED  BY <1>1, <1>4, <1>5, <1>7, <2>1 DEF y
  <1> QED  BY <1>3, <1>6, <1>7

LEMMA RstSeenActs ==
  ASSUME Typed, NEW x \in Peers, Answering(x), conn' = conn, RstSeen
  PROVE  RstSeen'
PROOF
  <1> DEFINE y == Partner(x)
  <1>1. /\ y \in Peers /\ y # x /\ Partner(y) = x /\ \A z \in Peers : z = x \/ z = y
        /\ peer'[y] = peer[y] /\ before'[y] = before[y] /\ after'[x] = after[x]
        /\ \A F : Some(before[x], F) => Some(before'[x], F)
        /\ \A F : Some(after[y], F) <=> Some(after'[y], F) \/ Takes(y, F)
    BY AnsweringQueues
  <1>2. IsFinished(conn') <=> IsFinished(conn)
    OBVIOUS
  <1>3. peer'[x].stage = "aborted" => IsFinished(conn) \/ Some(before'[x], Rsts(x))
    <2>1. PICK r \in PeerState(x) :
            /\ peer' = [peer EXCEPT ![x] = r]
            /\ r.stage = "aborted" =>
                 \/ peer[x].stage = "aborted" \/ Takes(y, Rsts(y))
                 \/ \E g \in Sent(x) : /\ before' = [before EXCEPT ![x] = Append(@, g)]
                                       /\ g \in Rsts(x)
      BY DEF Answering
    <2>2. peer'[x] = r
      BY <2>1 DEF Typed
    <2>3. ASSUME NEW g \in Sent(x), before' = [before EXCEPT ![x] = Append(@, g)], g \in Rsts(x)
          PROVE  Some(before'[x], Rsts(x))
      <3>1. before'[x] = Append(before[x], g) /\ before[x] \in Seq(Sent(x))
        BY <2>3 DEF Typed, Queues
      <3> QED  BY <2>3, <3>1, SomeAppend
    <2>4. Takes(y, Rsts(y)) => IsFinished(conn)
      BY <1>1 DEF RstSeen
    <2> QED  BY <1>1, <2>1, <2>2, <2>3, <2>4 DEF RstSeen
  <1>4. \A z \in Peers : Some(after'[z], Rsts(z)) => IsFinished(conn)
    BY <1>1 DEF RstSeen
  <1>5. peer'[y].stage = "aborted" => IsFinished(conn) \/ Some(before'[y], Rsts(y))
    BY <1>1 DEF RstSeen
  <1> QED  BY <1>1, <1>2, <1>3, <1>4, <1>5 DEF RstSeen

LEMMA NoFinSeenActs ==
  ASSUME Typed, NEW x \in Peers, Answering(x), conn' = conn, NoFinSeen
  PROVE  NoFinSeen'
PROOF
  <1> SUFFICES ASSUME conn.state \in {"none", "SYN_SYNACK", "SYNACK_ACK", "UP"}
               PROVE  \A z \in Peers : ~peer'[z].heard /\ ~Some(after'[z], Fins(z))
    BY DEF NoFinSeen
  <1> DEFINE y == Partner(x)
  <1>1. /\ y \in Peers /\ \A z \in Peers : z = x \/ z = y
        /\ peer'[y] = peer[y] /\ after'[x] = after[x]
        /\ \A F : Some(after[y], F) <=> Some(after'[y], F) \/ Takes(y, F)
    BY AnsweringQueues
  <1>2. \A z \in Peers : ~peer[z].heard /\ ~Some(after[z], Fins(z))
    BY DEF NoFinSeen
  <1>3. ~peer'[x].heard
    <2>1. PICK r \in PeerState(x) : /\ peer' = [peer EXCEPT ![x] = r]
                                    /\ r.heard => peer[x].heard \/ Takes(y, Fins(y))
      BY DEF Answering
    <2>2. peer'[x] = r
      BY <2>1 DEF Typed
    <2> QED  BY <1>1, <1>2, <2>1, <2>2
  <1> QED  BY <1>1, <1>2, <1>3

LEMMA FinSeenActs ==
  ASSUME Typed, NumbersKept, NumbersKept', NEW x \in Peers, Answering(x),
         Ahead(x, peer[x], peer'[x]), conn' = conn, FinSeen
  PROVE  FinSeen'
PROOF
  <1> SUFFICES ASSUME conn.state = "FIN_FINACK"
      PROVE
        /\ ~ \A s \in Sides : conn.recvd[s]
        /\ \A z \in Peers :
             /\ peer'[z].heard \/ Some(after'[Partner(z)], Fins(Partner(z))) =>
                  conn.finack[Side(z)] = peer'[Partner(z)].snd
             /\ peer'[z].heard =>
                  \/ conn.recvd[Side(z)] \/ peer'[z].owes \/ peer'[z].stage = "aborted"
                  \/ Some(after'[Partner(z)], Fins(Partner(z)))
                  \/ Some(before'[z], FinAcks(z)')
    BY DEF FinSeen
  <1> DEFINE y == Partner(x)
  <1>1. /\ y \in Peers /\ y # x /\ Partner(y) = x /\ \A z \in Peers : z = x \/ z = y
        /\ peer'[y] = peer[y] /\ before'[y] = before[y] /\ after'[x] = after[x]
        /\ \A F : Some(before[x], F) => Some(before'[x], F)
        /\ \A F : Some(after[y], F) <=> Some(after'[y], F) \/ Takes(y, F)
    BY AnsweringQueues
  <1>2. PICK r \in PeerState(x) :
          /\ peer' = [peer EXCEPT ![x] = r]
          /\ peer[x].stage = "aborted" => r.stage = "aborted"
          /\ r.heard => peer[x].heard \/ Takes(y, Fins(y))
          /\ r.heard /\ Takes(y, Fins(y)) => r.owes \/ r.stage = "aborted"
          /\ \/ peer[x].owes => r.owes \/ r.stage = "aborted"
             \/ \E g \in Sent(x) :
                  /\ before' = [before EXCEPT ![x] = Append(@, g)]
                  /\ peer[x].owes => r.owes \/ ("ACK" \in g.flags /\ g.ack = r.rcv)
    BY DEF Answering
  <1>3. peer'[x] = r
    BY <1>2 DEF Typed
  \* The FIN of z is the one that was sent.
  <1>4. ASSUME NEW z \in Peers, peer[z].heard \/ Some(after[Partner(z)], Fins(Partner(z)))
        PROVE  /\ peer'[Partner(z)].snd = peer[Partner(z)].snd
               /\ conn.finack[Side(z)] = peer[Partner(z)].snd
    <2> DEFINE w == Partner(z)
    <2>1. w \in Peers
      BY PartnerIsOther
    <2>2. Some(after[w], Fins(w)) => peer[w].fin
      <3> SUFFICES ASSUME NEW i \in 1 .. Len(after[w]), after[w][i] \in Fins(w)
                   PROVE  peer[w].fin
        BY DEF Some
      <3>1. after[w] \in Seq(Numbered(w, peer[w], peer[Partner(w)]))
        BY <2>1 DEF NumbersKept, Consistent
      <3>2. after[w][i] \in Numbered(w, peer[w], peer[Partner(w)])
        BY <3>1, ElementOfSeq
      <3> QED  BY <3>2 DEF Numbered, IsSyn, IsFin, IsData, OpeningFlags, Fins
    <2>3. peer[z].heard => peer[w].fin
      BY DEF NumbersKept, Consistent, Knows
    <2>4. peer'[w].snd = peer[w].snd
      <3>1. peer[w].fin
        BY <1>4, <2>2, <2>3
      <3> QED  BY <1>1, <2>1, <3>1 DEF Ahead
    <2> QED  BY <1>4, <2>4 DEF FinSeen
  <1>5. ASSUME NEW z \in Peers, peer'[z].heard \/ Some(after'[Partner(z)], Fins(Partner(z)))
        PROVE  peer[z].heard \/ Some(after[Partner(z)], Fins(Partner(z)))
    BY <1>1, <1>2, <1>3, <1>5
  <1>6. ASSUME peer'[y].heard
        PROVE  \/ conn.recvd[Side(y)] \/ peer'[y].owes \/ peer'[y].stage = "aborted"
               \/ Some(after'[x], Fins(x)) \/ Some(before'[y], FinAcks(y)')
    <2>1. FinAcks(y)' = FinAcks(y)
      BY <1>1, <1>4, <1>6 DEF FinAcks
    <2> QED  BY <1>1, <1>6, <2>1 DEF FinSeen
  <1>7. ASSUME peer'[x].heard
        PROVE  \/ conn.recvd[Side(x)] \/ peer'[x].owes \/ peer'[x].stage = "aborted"
               \/ Some(after'[y], Fins(y)) \/ Some(before'[x], FinAcks(x)')
    <2>1. FinAcks(x)' = FinAcks(x)
      BY <1>1 DEF FinAcks
    <2>2. CASE Takes(y, Fins(y))
      BY <1>2, <1>3, <1>7, <2>2
    <2>3. CASE ~Takes(y, Fins(y))
      <3>1. \/ conn.recvd[Side(x)] \/ peer[x].owes \/ peer[x].stage = "aborted"
            \/ Some(after[y], Fins(y)) \/ Some(before[x], FinAcks(x))
        BY <1>2, <1>3, <1>7, <2>3 DEF FinSeen
      <3>2. ASSUME NEW g \in Sent(x), before' = [before EXCEPT ![x] = Append(@, g)],
                   "ACK" \in g.flags, g.ack = r.rcv
            PROVE  Some(before'[x], FinAcks(x))
        <4>1. r.rcv = peer'[y].snd
          BY <1>3, <1>7 DEF NumbersKept, Consistent, Knows
        <4>2. g \in FinAcks(x)
          BY <1>1, <3>2, <4>1 DEF FinAcks
        <4>3. before'[x] = Append(before[x], g) /\ before[x] \in Seq(Sent(x))
          BY <3>2 DEF Typed, Queues
        <4> QED  BY <4>2, <4>3, SomeAppend
      <3>3. peer[x].owes => \/ peer'[x].owes \/ peer'[x].stage = "aborted"
                            \/ Some(before'[x], FinAcks(x))
        BY <1>2, <1>3, <3>2
      <3>4. peer[x].stage = "aborted" => peer'[x].stage = "aborted"
        BY <1>2, <1>3
      <3>5. Some(after[y], Fins(y)) => Some(after'[y], Fins(y))
        BY <1>1, <2>3
      <3>6. Some(before[x], FinAcks(x)) => Some(before'[x], FinAcks(x))
        BY <1>1
      <3> QED  BY <2>1, <3>1, <3>3, <3>4, <3>5, <3>6
    <2> QED  BY <2>2, <2>3
  <1>8. ~ \A s \in Sides : conn.recvd[s]
    BY DEF FinSeen
  <1>9. \A z \in Peers : peer'[z].heard \/ Some(after'[Partner(z)], Fins(Partner(z))) =>
                           conn.finack[Side(z)] = peer'[Partner(z)].snd
    BY <1>4, <1>5
  <1>10. \A z \in Peers : peer'[z].heard =>
           \/ conn.recvd[Side(z)] \/ peer'[z].owes \/ peer'[z].stage = "aborted"
           \/ Some(after'[Partner(z)], Fins(Partner(z))) \/ Some(before'[z], FinAcks(z)')
    BY <1>1, <1>6, <1>7
  <1> QED  BY <1>8, <1>9, <1>10

LEMMA SynSeenActs ==
  ASSUME Typed, NumbersKept, NEW x \in Peers, Acts(x), Answering(x), conn' = conn, SynSeen
  PROVE  SynSeen'
PROOF
  <1> SUFFICES ASSUME conn.state = "SYN_SYNACK"
      PROVE
        /\ peer'["client"].stage = "opening"
        /\ before'["client"] \in Seq(Syns) /\ after'["client"] \in Seq(Syns)
        /\ after'["server"] = <<>>
        /\ \/ peer'["server"].stage = "closed" /\ before'["server"] = <<>>
           \/ /\ peer'["server"].stage = "opening" /\ peer'["server"].unacked # <<>>
              /\ before'["server"] # <<>> /\ Head(before'["server"]).flags = {"SYN", "ACK"}
    BY DEF SynSeen
  <1>1. /\ peer["client"].stage = "opening"
        /\ before["client"] \in Seq(Syns) /\ after["client"] \in Seq(Syns)
        /\ after["server"] = <<>>
        /\ \/ peer["server"].stage = "closed" /\ before["server"] = <<>>
           \/ /\ peer["server"].stage = "opening" /\ peer["server"].unacked # <<>>
              /\ before["server"] # <<>> /\ Head(before["server"]).flags = {"SYN", "ACK"}
    BY DEF SynSeen
  <1>2. /\ "client" \in Peers /\ "server" \in Peers /\ (x = "client" \/ x = "server")
        /\ Partner("client") = "server" /\ Partner("server") = "client"
        /\ DOMAIN before = Peers /\ before["server"] \in Seq(Sent("server"))
    BY DEF Peers, Partner, Typed, Queues
  <1>3. /\ peer'[Partner(x)] = peer[Partner(x)] /\ before'[Partner(x)] = before[Partner(x)]
        /\ after'[x] = after[x]
        /\ \A S : after[Partner(x)] \in Seq(S) => after'[Partner(x)] \in Seq(S)
        /\ after' = after \/ Taken(Partner(x))
    BY AnsweringQueues DEF Answering
  <1>4. CASE x = "client"
    <2>1. ~Taken("server")
      BY <1>1 DEF Taken
    <2>2. after' = after
      BY <1>2, <1>3, <1>4, <2>1
    <2>3. /\ peer'["client"].stage = "opening"
          /\ \/ before' = before
             \/ \E g \in Syns : before' = [before EXCEPT !["client"] = Append(@, g)]
      BY <1>1, <1>4, <2>1, ClientOpening DEF Takes
    <2>4. before'["client"] \in Seq(Syns)
      BY <1>1, <1>2, <2>3
    <2> QED  BY <1>1, <1>2, <1>3, <1>4, <2>2, <2>3, <2>4
  <1>5. CASE x = "server"
    <2>1. /\ peer["server"].stage = "closed" =>
               /\ peer'["server"].stage = "opening" /\ peer'["server"].unacked # <<>>
               /\ \E g \in Sent("server") :
                    /\ g.flags = {"SYN", "ACK"}
                    /\ before' = [before EXCEPT !["server"] = Append(@, g)]
          /\ peer["server"].stage = "opening" /\ peer["server"].unacked # <<>> =>
               /\ peer'["server"].stage = "opening" /\ peer'["server"].unacked # <<>>
               /\ \/ before' = before
                  \/ \E g \in Sent("server") :
                       before' = [before EXCEPT !["server"] = Append(@, g)]
      BY <1>1, <1>5, ServerOpening
    <2>2. \A g : before' = [before EXCEPT !["server"] = Append(@, g)] =>
                   before'["server"] = Append(before["server"], g)
      BY <1>2
    <2>3. CASE peer["server"].stage = "closed"
      <3>1. PICK g \in Sent("server") : /\ g.flags = {"SYN", "ACK"}
                                        /\ before'["server"] = Append(before["server"], g)
        BY <2>1, <2>2, <2>3
      <3>2. before'["server"] # <<>> /\ Head(before'["server"]) = g
        <4>1. before["server"] = <<>>
          BY <1>1, <2>3
        <4>2. \A s : s = <<g>> => s # <<>> /\ Head(s) = g
          OBVIOUS
        <4> QED  BY <3>1, <4>1, <4>2
      <3> QED  BY <1>1, <1>2, <1>3, <1>5, <2>1, <2>3, <3>1, <3>2
    <2>4. CASE peer["server"].stage = "opening"
      <3>1. before'["server"] # <<>> /\ Head(before'["server"]) = Head(before["server"])
        <4> DEFINE b == before["server"]
        <4>1. ASSUME NEW g \in Sent("server"), NEW s, s = Append(b, g)
              PROVE  s # <<>> /\ Head(s) = Head(b)
          <5>1. b \in Seq(Sent("server")) /\ b # <<>>
            BY <1>1, <1>2, <2>4
          <5> HIDE DEF b
          <5> QED  BY <4>1, <5>1
        <4>2. b # <<>>
          BY <1>1, <2>4
        <4> QED  BY <1>1, <2>1, <2>2, <2>4, <4>1, <4>2
      <3> QED  BY <1>1, <1>2, <1>3, <1>5, <2>1, <2>4, <3>1
    <2> QED  BY <1>1, <2>3, <2>4
  <1> QED  BY <1>2, <1>4, <1>5

LEMMA SynAckSeenActs ==
  ASSUME Shape, Typed, NumbersKept, NEW x \in Peers, Acts(x), Answering(x), conn' = conn,
         RstSeen, SynAckSeen
  PROVE  SynAckSeen'
PROOF
  <1> SUFFICES ASSUME conn.state = "SYNACK_ACK"
      PROVE
        /\ peer'["server"].stage = "opening" /\ peer'["server"].unacked # <<>>
        /\ after'["client"] \in Seq(Syns)
        /\ \/ peer'["client"].stage = "opening" /\ before'["client"] \in Seq(Syns)
           \/ peer'["client"].stage \in {"open", "aborted"} /\ Led(before'["client"])
    BY DEF SynAckSeen
  <1>1. /\ peer["server"].stage = "opening" /\ peer["server"].unacked # <<>>
        /\ after["client"] \in Seq(Syns)
        /\ \/ peer["client"].stage = "opening" /\ before["client"] \in Seq(Syns)
           \/ peer["client"].stage \in {"open", "aborted"} /\ Led(before["client"])
    BY DEF SynAckSeen
  <1>2. /\ "client" \in Peers /\ "server" \in Peers /\ (x = "client" \/ x = "server")
        /\ Partner("client") = "server" /\ Partner("server") = "client"
        /\ DOMAIN before = Peers /\ before["client"] \in Seq(Sent("client"))
    BY DEF Peers, Partner, Typed, Queues
  <1>3. /\ peer'[Partner(x)] = peer[Partner(x)] /\ before'[Partner(x)] = before[Partner(x)]
        /\ after'[x] = after[x]
        /\ \A S : after[Partner(x)] \in Seq(S) => after'[Partner(x)] \in Seq(S)
        /\ \A F : Takes(Partner(x), F) => Some(after[Partner(x)], F)
    BY AnsweringQueues
  <1>4. CASE x = "server"
    <2>1. peer'["server"].stage = "opening" /\ peer'["server"].unacked # <<>>
      BY <1>1, <1>4, ServerOpening
    <2> QED  BY <1>1, <1>2, <1>3, <1>4, <2>1
  <1>5. CASE x = "client"
    <2>1. \A g : before' = [before EXCEPT !["client"] = Append(@, g)] =>
                   before'["client"] = Append(before["client"], g)
      BY <1>2
    <2>2. CASE peer["client"].stage = "opening" /\ before["client"] \in Seq(Syns)
      <3>1. ~Takes("server", Rsts("server"))
        BY <1>2, <1>3, <1>5 DEF RstSeen, IsFinished
      <3>2. \/ /\ peer'["client"].stage = "opening"
               /\ \/ before' = before
                  \/ \E g \in Syns : before' = [before EXCEPT !["client"] = Append(@, g)]
            \/ /\ peer'["client"].stage = "open"
               /\ \E g \in Sent("client") :
                    g.flags = {"ACK"} /\ before' = [before EXCEPT !["client"] = Append(@, g)]
        BY <1>5, <2>2, <3>1, ClientOpening
      <3>3. ASSUME NEW g \in Sent("client"), g.flags = {"ACK"}
            PROVE  Led(Append(before["client"], g))
        BY <1>2, <2>2, <3>3, LedQueues
      <3>4. \A g \in Syns : Append(before["client"], g) \in Seq(Syns)
        BY <2>2
      <3> QED  BY <1>1, <1>2, <1>3, <1>5, <2>1, <2>2, <3>2, <3>3, <3>4
    <2>3. CASE peer["client"].stage \in {"open", "aborted"} /\ Led(before["client"])
      <3>1. peer'["client"].stage \in {"open", "aborted"}
        BY <1>2, <1>5, <2>3, PeerSteps DEF Acts, PeerStep
      <3>2. before' = before \/ \E g \in Sent("client") :
                                  before' = [before EXCEPT !["client"] = Append(@, g)]
        BY <1>5 DEF Answering
      <3>3. Led(before'["client"])
        <4>1. ASSUME NEW g \in Sent("client")
              PROVE  Led(Append(before["client"], g))
          BY <1>2, <2>3, LedQueues
        <4> QED  BY <2>1, <2>3, <3>2, <4>1
      <3> QED  BY <1>1, <1>2, <1>3, <1>5, <3>1, <3>3
    <2> QED  BY <1>1, <2>2, <2>3
  <1> QED  BY <1>2, <1>4, <1>5

\* A step of a peer.
LEMMA ActsKeepSeen ==
  ASSUME NumbersApart, Shape, Typed, NumbersKept, NumbersKept', [Next]_vars,
         NEW x \in Peers, Acts(x), Undisturbed, Seen
  PROVE  Seen'
PROOF
  <1>1. RstSeen /\ SynSeen /\ SynAckSeen /\ NoFinSeen /\ FinSeen
    BY DEF Seen
  <1>2. Answering(x)
    BY ActsAnswer
  <1>3. Turn(x) /\ conn' = conn
    BY PeerTurnsSo DEF Acts
  <1>4. Ahead(x, peer[x], peer'[x])
    BY <1>3 DEF Turn, Typed
  <1>5. RstSeen' /\ NoFinSeen'
    BY <1>1, <1>2, <1>3, RstSeenActs, NoFinSeenActs
  <1>6. FinSeen'
    BY <1>1, <1>2, <1>3, <1>4, FinSeenActs
  <1>7. SynSeen' /\ SynAckSeen'
    BY <1>1, <1>2, <1>3, SynSeenActs, SynAckSeenActs
  <1> QED  BY <1>5, <1>6, <1>7 DEF Seen

-----------------------------------------------------------------------------
(* What the record makes of a segment that passes. *)

\* The segment g of x passes the sniffer.
Passes(x, g) ==
  /\ before[x] # <<>> /\ g = Head(before[x])
  /\ before'[x] = Tail(before[x]) /\ after'[x] = Append(after[x], g)
  /\ \A z \in Peers : z # x => before'[z] = before[z] /\ after'[z] = after[z]
  /\ \A F : Some(before[x], F) <=> g \in F \/ Some(before'[x], F)
  /\ \A F : Some(after'[x], F) <=> Some(after[x], F) \/ g \in F
  /\ peer' = peer

LEMMA CapturePasses ==
  ASSUME Typed, NumbersKept, NEW x \in Peers, Capture(x)
  PROVE  \E g \in Numbered(x, peer[x], peer[Partner(x)]) :
           Passes(x, g) /\ conn' = Observe(conn, g)
PROOF
  <1>1. /\ before[x] # <<>> /\ before[x] \in Seq(Sent(x)) /\ after[x] \in Seq(Sent(x))
        /\ before[x] \in Seq(Numbered(x, peer[x], peer[Partner(x)]))
    BY DEF NumbersKept, Consistent, Typed, Queues, Capture, Pass
  <1>2. PICK g : g = Head(before[x])
    OBVIOUS
  <1>3. g \in Numbered(x, peer[x], peer[Partner(x)]) /\ g \in Sent(x)
    BY <1>1, <1>2, HeadTailProperties
  <1>4. /\ before' = [before EXCEPT ![x] = Tail(before[x])]
        /\ after' = [after EXCEPT ![x] = Append(after[x], g)]
        /\ conn' = Observe(conn, g) /\ peer' = peer
    BY <1>2 DEF Capture, Pass
  <1>5. /\ before'[x] = Tail(before[x]) /\ after'[x] = Append(after[x], g)
        /\ \A z \in Peers : z # x => before'[z] = before[z] /\ after'[z] = after[z]
    BY <1>4 DEF Typed, Queues
  <1>6. /\ \A F : Some(before[x], F) <=> g \in F \/ Some(Tail(before[x]), F)
        /\ \A F : Some(Append(after[x], g), F) <=> Some(after[x], F) \/ g \in F
    BY <1>1, <1>2, <1>3, SomeTail, SomeAppend
  <1> QED  BY <1>1, <1>2, <1>3, <1>4, <1>5, <1>6 DEF Passes

\* The flags of a segment of x.
LEMMA FlagsOf ==
  ASSUME NEW x \in Peers, NEW r, NEW p, NEW g \in Numbered(x, r, p)
  PROVE  /\ g \in Sent(x)
         /\ "FIN" \in g.flags => "ACK" \in g.flags /\ r.fin /\ Next_(g) = r.snd
         /\ "ACK" \notin g.flags => x = "client" /\ g.flags = {"SYN"} /\ g \in Syns
         /\ g.flags = {"SYN"} => x = "client" /\ g \in Syns
PROOF
  <1>1. g \in Sent(x) /\ (IsSyn(x, r, g) \/ IsFin(x, r, g) \/ IsData(x, r, g))
    BY DEF Numbered
  <1>2. CASE IsSyn(x, r, g)
    BY <1>1, <1>2 DEF IsSyn, OpeningFlags, Syns, Peers
  <1>3. CASE IsFin(x, r, g)
    BY <1>1, <1>3 DEF IsFin
  <1>4. CASE IsData(x, r, g)
    BY <1>1, <1>4 DEF IsData
  <1> QED  BY <1>1, <1>2, <1>3, <1>4

\* The chain of states of acceptPacket().
LEMMA StateAfter ==
  ASSUME NEW c \in Records, NEW recvd, NEW g
  PROVE  LET n == NextState([c EXCEPT !.recvd = recvd], g)
         IN  /\ c.state = "SYN_SYNACK" =>
                  n = IF {"SYN", "ACK"} \subseteq g.flags THEN "SYNACK_ACK" ELSE c.state
             /\ c.state = "SYNACK_ACK" => n = IF "ACK" \in g.flags THEN "UP" ELSE c.state
             /\ c.state = "UP" => n = IF "FIN" \in g.flags THEN "FIN_FINACK" ELSE c.state
             /\ c.state = "FIN_FINACK" =>
                  n = IF "ACK" \in g.flags /\ (\A s \in Sides : recvd[s])
                      THEN "CLOSED" ELSE c.state
             /\ c.state = "RESET" => n = "RESET"
  BY DEF NextState, Records

\* The first SYN.
LEMMA FirstSynSeen ==
  ASSUME Typed, NumbersKept, NothingPassed, conn = NoConn, NEW x \in Peers,
         NEW g \in Numbered(x, peer[x], peer[Partner(x)]), Passes(x, g),
         conn' = Observe(conn, g)
  PROVE  (RstSeen /\ SynSeen /\ SynAckSeen /\ NoFinSeen /\ FinSeen)'
PROOF
  <1>1. /\ "client" \in Peers /\ "server" \in Peers
        /\ \A z \in Peers : z = "client" \/ z = "server"
    BY DEF Peers
  <1>2. x = "client" /\ before["server"] = <<>> /\ after["server"] = <<>>
        /\ after["client"] = <<>>
    BY <1>1 DEF NothingPassed, Silent, Passes
  <1>3. g \in Syns /\ g.flags = {"SYN"} /\ before'["client"] \in Seq(Syns)
    <2>1. before["client"] \in Seq(Syns) /\ before["client"] # <<>> /\ g = Head(before["client"])
      BY <1>2 DEF NothingPassed, Passes
    <2>2. g \in Syns /\ Tail(before["client"]) \in Seq(Syns)
      BY <2>1, HeadTailProperties
    <2> QED  BY <1>2, <2>2 DEF Passes, Syns
  <1>4. conn'.state = "SYN_SYNACK"
    BY <1>3 DEF Observe, NewConnection
  <1>5. /\ peer' = peer /\ before'["server"] = <<>> /\ after'["server"] = <<>>
        /\ after'["client"] = Append(after["client"], g)
    BY <1>1, <1>2 DEF Passes
  <1>6. after'["client"] \in Seq(Syns)
    <2>1. <<>> \in Seq(Syns)
      OBVIOUS
    <2> QED  BY <1>2, <1>3, <1>5, <2>1
  <1>7. peer["client"].stage = "opening" /\ peer["server"].stage = "closed"
    <2>1. Next_(g) \in Plain("client", peer["client"])
      BY <1>2, <1>3 DEF Numbered, IsSyn, IsFin, IsData
    <2>2. /\ peer["client"].stage = "closed" => peer["client"].snd = ISS["client"]
          /\ peer["client"].fin => peer["client"].stage \in {"open", "aborted"}
      BY <1>1 DEF NumbersKept, Consistent, Started, Used
    <2>3. ISS["client"] \in Int
      BY ConversationAssumption
    <2>4. peer["client"].stage # "closed"
      BY <2>1, <2>2, <2>3 DEF Plain
    <2> QED  BY <2>4 DEF NothingPassed
  <1>8. \A z \in Peers : ~peer[z].heard
    BY <1>1, <1>7 DEF NumbersKept, Consistent, Knows, Synced
  <1>9. \A z \in Peers : \A F : Some(after'[z], F) => z = "client" /\ g \in F
    <2>1. \A F : ~Some(<<>>, F)
      BY DEF Some
    <2> QED  BY <1>1, <1>2, <1>5, <2>1 DEF Passes
  <1>10. \A z \in Peers : ~Some(after'[z], Rsts(z)) /\ ~Some(after'[z], Fins(z))
    BY <1>3, <1>9 DEF Rsts, Fins
  <1>11. RstSeen'
    BY <1>1, <1>5, <1>7, <1>10 DEF RstSeen
  <1>12. SynSeen'
    BY <1>3, <1>5, <1>6, <1>7 DEF SynSeen
  <1>13. NoFinSeen'
    BY <1>5, <1>8, <1>10 DEF NoFinSeen
  <1>14. SynAckSeen' /\ FinSeen'
    BY <1>4 DEF SynAckSeen, FinSeen
  <1> QED  BY <1>11, <1>12, <1>13, <1>14

\* A segment, not a RST, of a connection that is not finished, seen before any FIN.
LEMMA OpeningSeen ==
  ASSUME Typed, NumbersKept, NEW x \in Peers,
         NEW g \in Numbered(x, peer[x], peer[Partner(x)]), Passes(x, g),
         conn \in Records, NEW recvd,
         conn'.state = NextState([conn EXCEPT !.recvd = recvd], g),
         conn.state \in {"SYN_SYNACK", "SYNACK_ACK"},
         SynSeen, SynAckSeen, NoFinSeen
  PROVE  (SynSeen /\ SynAckSeen /\ NoFinSeen /\ FinSeen)'
PROOF
  <1>1. /\ "client" \in Peers /\ "server" \in Peers /\ "client" # "server"
        /\ \A z \in Peers : z = "client" \/ z = "server"
    BY DEF Peers
  <1>2. /\ peer' = peer /\ before[x] # <<>> /\ g = Head(before[x])
        /\ before'[x] = Tail(before[x]) /\ after'[x] = Append(after[x], g)
        /\ \A z \in Peers : z # x => before'[z] = before[z] /\ after'[z] = after[z]
    BY DEF Passes
  <1>3. /\ conn.state = "SYN_SYNACK" =>
             conn'.state = IF {"SYN", "ACK"} \subseteq g.flags THEN "SYNACK_ACK" ELSE conn.state
        /\ conn.state = "SYNACK_ACK" =>
             conn'.state = IF "ACK" \in g.flags THEN "UP" ELSE conn.state
    BY StateAfter
  <1>4. "FIN" \notin g.flags =>
          \A z \in Peers : ~peer'[z].heard /\ ~Some(after'[z], Fins(z))
    <2> SUFFICES ASSUME "FIN" \notin g.flags
                 PROVE  \A z \in Peers : ~peer[z].heard /\ ~Some(after'[z], Fins(z))
      BY <1>2
    <2>1. g \notin Fins(x)
      BY DEF Fins
    <2>2. \A z \in Peers : ~peer[z].heard /\ ~Some(after[z], Fins(z))
      BY DEF NoFinSeen
    <2> QED  BY <1>2, <2>1, <2>2 DEF Passes
  <1>5. /\ \A S : before[x] \in Seq(S) => g \in S /\ before'[x] \in Seq(S)
        /\ \A S : after[x] \in Seq(S) /\ g \in S => after'[x] \in Seq(S)
    BY <1>2, HeadTailProperties
  <1>6. ASSUME g \in Syns
        PROVE  g.flags = {"SYN"}
    BY <1>6 DEF Syns
  <1>7. CASE conn.state = "SYN_SYNACK" /\ x = "client"
    <2>1. g \in Syns /\ before'["client"] \in Seq(Syns) /\ after'["client"] \in Seq(Syns)
      BY <1>5, <1>7 DEF SynSeen
    <2>2. conn'.state = "SYN_SYNACK" /\ "FIN" \notin g.flags
      BY <1>3, <1>6, <1>7, <2>1
    <2>3. SynSeen'
      BY <1>1, <1>2, <1>7, <2>1 DEF SynSeen
    <2> QED  BY <1>4, <2>2, <2>3 DEF SynAckSeen, NoFinSeen, FinSeen
  <1>8. CASE conn.state = "SYN_SYNACK" /\ x = "server"
    <2>1. g.flags = {"SYN", "ACK"} /\ peer["server"].stage = "opening"
          /\ peer["server"].unacked # <<>>
      BY <1>2, <1>8 DEF SynSeen
    <2>2. conn'.state = "SYNACK_ACK" /\ "FIN" \notin g.flags
      BY <1>3, <1>8, <2>1
    <2>3. SynAckSeen'
      BY <1>1, <1>2, <1>8, <2>1 DEF SynSeen, SynAckSeen
    <2> QED  BY <1>4, <2>2, <2>3 DEF SynSeen, NoFinSeen, FinSeen
  <1>9. CASE conn.state = "SYNACK_ACK" /\ x = "server"
    <2>1. ~peer[x].fin
      BY <1>9 DEF SynAckSeen, NumbersKept, Consistent, Used
    <2>2. "FIN" \notin g.flags /\ "ACK" \in g.flags
      BY <1>9, <2>1, FlagsOf
    <2>3. conn'.state = "UP"
      BY <1>3, <1>9, <2>2
    <2> QED  BY <1>4, <2>2, <2>3 DEF SynSeen, SynAckSeen, NoFinSeen, FinSeen
  <1>10. CASE conn.state = "SYNACK_ACK" /\ x = "client"
    <2>1. ASSUME g \in Syns,
                 \/ peer["client"].stage = "opening" /\ before'["client"] \in Seq(Syns)
                 \/ peer["client"].stage \in {"open", "aborted"} /\ Led(before'["client"])
          PROVE  (SynSeen /\ SynAckSeen /\ NoFinSeen /\ FinSeen)'
      <3>1. conn'.state = "SYNACK_ACK" /\ "FIN" \notin g.flags
        BY <1>3, <1>6, <1>10, <2>1
      <3>2. after'["client"] \in Seq(Syns)
        BY <1>5, <1>10, <2>1 DEF SynAckSeen
      <3>3. SynAckSeen'
        BY <1>2, <1>10, <2>1, <3>2 DEF SynAckSeen
      <3> QED  BY <1>4, <3>1, <3>3 DEF SynSeen, NoFinSeen, FinSeen
    <2>2. CASE peer["client"].stage = "opening" /\ before["client"] \in Seq(Syns)
      BY <1>5, <1>10, <2>1, <2>2
    <2>3. CASE peer["client"].stage \in {"open", "aborted"} /\ Led(before["client"])
      <3>1. before["client"] \in Seq(Sent("client")) /\ g \in Sent("client")
        BY <1>1, <1>5, <1>10 DEF Typed, Queues
      <3>2. g.flags = {"ACK"} \/ (g.flags = {"SYN"} /\ Led(before'["client"]))
        <4>1. g = Head(before["client"]) /\ before'["client"] = Tail(before["client"])
          BY <1>2, <1>10
        <4>2. \/ Head(before["client"]).flags = {"ACK"}
              \/ Head(before["client"]).flags = {"SYN"} /\ Led(Tail(before["client"]))
          BY <2>3, <3>1, LedQueues
        <4> QED  BY <4>1, <4>2
      <3>3. CASE g.flags = {"ACK"}
        <4>1. conn'.state = "UP" /\ "FIN" \notin g.flags
          BY <1>3, <1>10, <3>3
        <4> QED  BY <1>4, <4>1 DEF SynSeen, SynAckSeen, NoFinSeen, FinSeen
      <3>4. CASE g.flags = {"SYN"} /\ Led(before'["client"])
        BY <2>1, <2>3, <3>1, <3>4 DEF Syns
      <3> QED  BY <3>2, <3>3, <3>4
    <2> QED  BY <1>10, <2>2, <2>3 DEF SynAckSeen
  <1> QED  BY <1>1, <1>7, <1>8, <1>9, <1>10

\* What is left of the record after a segment, as ObserveIsExact has it.
Closing(x, g) ==
  LET s == Side(x)
      o == Side(Partner(x))
  IN  /\ conn'.finack[s] = conn.finack[s]
      /\ conn'.finack[o] = IF "FIN" \in g.flags THEN Next_(g) ELSE conn.finack[o]
      /\ conn'.recvd[s] = (conn.recvd[s] \/ /\ conn.state = "FIN_FINACK" /\ "ACK" \in g.flags
                                            /\ g.ack = conn.finack[s])
      /\ conn'.recvd[o] = ("FIN" \notin g.flags /\ conn.recvd[o])
      /\ conn'.state = NextState([conn EXCEPT !.recvd = conn'.recvd], g)

\* The first FIN, or data before it.
LEMMA UpSeen ==
  ASSUME Typed, NumbersKept, NEW x \in Peers,
         NEW g \in Numbered(x, peer[x], peer[Partner(x)]), Passes(x, g),
         conn \in Records, Closing(x, g), conn.state = "UP", NoFinSeen
  PROVE  (SynSeen /\ SynAckSeen /\ NoFinSeen /\ FinSeen)'
PROOF
  <1> DEFINE y == Partner(x)
  <1>1. y \in Peers /\ y # x /\ Partner(y) = x /\ \A z \in Peers : z = x \/ z = y
    BY PartnerIsOther
  <1>2. Side(x) \in Sides /\ Side(y) \in Sides
    BY DEF Side, Sides
  <1>3. conn'.state = IF "FIN" \in g.flags THEN "FIN_FINACK" ELSE "UP"
    BY StateAfter DEF Closing
  <1>4. peer' = peer /\ \A z \in Peers : ~peer[z].heard /\ ~Some(after[z], Fins(z))
    BY DEF NoFinSeen, Passes
  <1>5. CASE "FIN" \notin g.flags
    <2>1. g \notin Fins(x)
      BY <1>5 DEF Fins
    <2>2. \A z \in Peers : ~Some(after'[z], Fins(z))
      BY <1>4, <2>1 DEF Passes
    <2> QED  BY <1>3, <1>4, <1>5, <2>2 DEF SynSeen, SynAckSeen, NoFinSeen, FinSeen
  <1>6. CASE "FIN" \in g.flags
    <2>1. ~ \A s \in Sides : conn'.recvd[s]
      <3>1. conn'.recvd[Side(y)] = ("FIN" \notin g.flags /\ conn.recvd[Side(y)])
        BY DEF Closing
      <3> QED  BY <1>2, <1>6, <3>1
    <2>2. conn'.finack[Side(y)] = peer'[x].snd
      <3>1. Next_(g) = peer[x].snd
        BY <1>6, FlagsOf
      <3> QED  BY <1>4, <1>6, <3>1 DEF Closing
    <2>3. ~Some(after'[y], Fins(y))
      BY <1>1, <1>4 DEF Passes
    <2>4. FinSeen'
      BY <1>1, <1>4, <2>1, <2>2, <2>3 DEF FinSeen
    <2> QED  BY <1>3, <1>6, <2>4 DEF SynSeen, SynAckSeen, NoFinSeen
  <1> QED  BY <1>5, <1>6

\* While the record is closing.
LEMMA ClosingSeen ==
  ASSUME Typed, NumbersKept, NEW x \in Peers,
         NEW g \in Numbered(x, peer[x], peer[Partner(x)]), Passes(x, g),
         conn \in Records, Closing(x, g), conn.state = "FIN_FINACK", FinSeen,
         conn'.state # "CLOSED"
  PROVE  (SynSeen /\ SynAckSeen /\ NoFinSeen /\ FinSeen)'
PROOF
  <1> DEFINE y == Partner(x)
  <1>1. y \in Peers /\ y # x /\ Partner(y) = x /\ \A z \in Peers : z = x \/ z = y
    BY PartnerIsOther
  <1>2. Side(x) \in Sides /\ Side(y) \in Sides /\ \A s \in Sides : s = Side(x) \/ s = Side(y)
    BY <1>1 DEF Side, Sides, Partner, Peers
  <1>3. /\ conn'.state = IF "ACK" \in g.flags /\ (\A s \in Sides : conn'.recvd[s])
                         THEN "CLOSED" ELSE "FIN_FINACK"
    BY StateAfter DEF Closing
  <1>4. /\ g \in Sent(x)
        /\ "FIN" \in g.flags => "ACK" \in g.flags /\ Next_(g) = peer[x].snd
    BY FlagsOf
  <1>5. /\ conn'.finack[Side(x)] = conn.finack[Side(x)]
        /\ conn'.finack[Side(y)] = IF "FIN" \in g.flags THEN Next_(g) ELSE conn.finack[Side(y)]
        /\ conn.recvd[Side(x)] => conn'.recvd[Side(x)]
        /\ "ACK" \in g.flags /\ g.ack = conn.finack[Side(x)] => conn'.recvd[Side(x)]
        /\ conn'.recvd[Side(x)] => conn.recvd[Side(x)] \/ "ACK" \in g.flags
        /\ conn'.recvd[Side(y)] => conn.recvd[Side(y)]
        /\ "FIN" \notin g.flags /\ conn.recvd[Side(y)] => conn'.recvd[Side(y)]
    <2>1. /\ conn'.recvd[Side(x)] =
               (conn.recvd[Side(x)] \/ /\ conn.state = "FIN_FINACK" /\ "ACK" \in g.flags
                                       /\ g.ack = conn.finack[Side(x)])
          /\ conn'.recvd[Side(y)] = ("FIN" \notin g.flags /\ conn.recvd[Side(y)])
      BY DEF Closing
    <2>2. /\ conn.recvd[Side(x)] => conn'.recvd[Side(x)]
          /\ "ACK" \in g.flags /\ g.ack = conn.finack[Side(x)] => conn'.recvd[Side(x)]
          /\ conn'.recvd[Side(x)] => conn.recvd[Side(x)] \/ "ACK" \in g.flags
          /\ conn'.recvd[Side(y)] => conn.recvd[Side(y)]
          /\ "FIN" \notin g.flags /\ conn.recvd[Side(y)] => conn'.recvd[Side(y)]
      BY <2>1, Zenon
    <2> QED  BY <2>2 DEF Closing
  <1>6. ~ \A s \in Sides : conn'.recvd[s]
    <2>1. CASE "ACK" \in g.flags
      BY <1>3, <2>1
    <2>2. CASE "ACK" \notin g.flags
      <3>1. \E s \in Sides : ~conn.recvd[s]
        BY DEF FinSeen
      <3> QED  BY <1>2, <1>5, <2>2, <3>1
    <2> QED  BY <2>1, <2>2
  <1>7. peer' = peer /\ before'[y] = before[y] /\ after'[y] = after[y]
    BY <1>1 DEF Passes
  <1>8. peer[x].heard \/ Some(after[y], Fins(y)) => conn'.finack[Side(x)] = peer[y].snd
    BY <1>1, <1>5 DEF FinSeen
  <1>9. peer[y].heard \/ Some(after'[x], Fins(x)) => conn'.finack[Side(y)] = peer[x].snd
    <2>1. CASE "FIN" \in g.flags
      BY <1>4, <1>5, <2>1
    <2>2. CASE "FIN" \notin g.flags
      <3>1. Some(after'[x], Fins(x)) => Some(after[x], Fins(x))
        BY <2>2 DEF Passes, Fins
      <3> QED  BY <1>1, <1>5, <2>2, <3>1 DEF FinSeen
    <2> QED  BY <2>1, <2>2
  <1>10. FinAcks(x)' = FinAcks(x) /\ FinAcks(y)' = FinAcks(y)
    BY <1>7 DEF FinAcks
  <1>11. peer[x].heard => \/ conn'.recvd[Side(x)] \/ peer[x].owes \/ peer[x].stage = "aborted"
                          \/ Some(after[y], Fins(y)) \/ Some(before'[x], FinAcks(x))
    <2>1. Some(before[x], FinAcks(x)) => g \in FinAcks(x) \/ Some(before'[x], FinAcks(x))
      BY DEF Passes
    <2>2. peer[x].heard /\ g \in FinAcks(x) => conn'.recvd[Side(x)]
      BY <1>5, <1>8 DEF FinAcks
    <2> QED  BY <1>5, <2>1, <2>2 DEF FinSeen
  <1>12. peer[y].heard => \/ conn'.recvd[Side(y)] \/ peer[y].owes \/ peer[y].stage = "aborted"
                          \/ Some(after'[x], Fins(x)) \/ Some(before[y], FinAcks(y))
    <2>1. "FIN" \in g.flags => Some(after'[x], Fins(x))
      BY <1>4 DEF Passes, Fins
    <2>2. Some(after[x], Fins(x)) => Some(after'[x], Fins(x))
      BY DEF Passes
    <2> QED  BY <1>1, <1>5, <2>1, <2>2 DEF FinSeen
  <1>13. FinSeen'
    <2> SUFFICES
          /\ ~ \A s \in Sides : conn'.recvd[s]
          /\ \A z \in Peers :
               /\ peer'[z].heard \/ Some(after'[Partner(z)], Fins(Partner(z))) =>
                    conn'.finack[Side(z)] = peer'[Partner(z)].snd
               /\ peer'[z].heard =>
                    \/ conn'.recvd[Side(z)] \/ peer'[z].owes \/ peer'[z].stage = "aborted"
                    \/ Some(after'[Partner(z)], Fins(Partner(z)))
                    \/ Some(before'[z], FinAcks(z)')
      BY DEF FinSeen
    <2> QED  BY <1>1, <1>6, <1>7, <1>8, <1>9, <1>10, <1>11, <1>12
  <1> QED  BY <1>3, <1>13 DEF SynSeen, SynAckSeen, NoFinSeen

\* RSTs, behind the SYN.
LEMMA RstSeenPassing ==
  ASSUME NEW x \in Peers, NEW g, Passes(x, g), RstSeen, IsFinished(conn) => IsFinished(conn'),
         "RST" \in g.flags => IsFinished(conn')
  PROVE  RstSeen'
PROOF
  <1>1. peer' = peer /\ \A z \in Peers : z # x => before'[z] = before[z] /\ after'[z] = after[z]
    BY DEF Passes
  <1>2. g \in Rsts(x) => IsFinished(conn')
    BY DEF Rsts
  <1>3. Some(after'[x], Rsts(x)) => IsFinished(conn')
    BY <1>2 DEF Passes, RstSeen
  <1>4. peer[x].stage = "aborted" => IsFinished(conn') \/ Some(before'[x], Rsts(x))
    BY <1>2 DEF Passes, RstSeen
  <1> QED  BY <1>1, <1>3, <1>4 DEF RstSeen

\* A step of the sniffer.
LEMMA CaptureKeepsSeen ==
  ASSUME Distinct, NumbersApart, Typed, NumbersKept, RecordKept, RecordMade,
         NEW x \in Peers, Capture(x), Undisturbed, Seen
  PROVE  Seen'
PROOF
  <1>1. RstSeen /\ SynSeen /\ SynAckSeen /\ NoFinSeen /\ FinSeen
    BY DEF Seen
  <1> SUFFICES (RstSeen /\ SynSeen /\ SynAckSeen /\ NoFinSeen /\ FinSeen)'
    BY DEF Seen
  <1>2. PICK g \in Numbered(x, peer[x], peer[Partner(x)]) :
               Passes(x, g) /\ conn' = Observe(conn, g)
    BY CapturePasses
  <1>3. g \in Sent(x) /\ spent["missed"] = 0
    BY <1>2, FlagsOf DEF Undisturbed, Never
  <1>4. CASE conn = NoConn
    BY <1>2, <1>3, <1>4, FirstSynSeen DEF RecordMade
  <1>5. ASSUME IsFinished(conn')
        PROVE  (RstSeen /\ SynSeen /\ SynAckSeen /\ NoFinSeen /\ FinSeen)'
    BY <1>5 DEF IsFinished, RstSeen, SynSeen, SynAckSeen, NoFinSeen, FinSeen
  <1>6. CASE conn # NoConn /\ conn.state = "CLOSED"
    <2>1. conn' = conn
      BY <1>2, <1>6 DEF Observe, Accepts
    <2> QED  BY <1>5, <1>6, <2>1 DEF IsFinished
  <1>7. CASE conn # NoConn /\ conn.state # "CLOSED"
    <2>1. Its(conn) /\ conn \in Records /\ conn.state \in States
          /\ conn.src = Endpoint["client"] /\ conn.dst = Endpoint["server"]
      BY <1>7 DEF Typed, Its, RecordKept, Remembers, Records
    <2>2. Word > 3
      <3>1. spent["data"] \in Nat /\ \E b \in Budgets : spent["data"] <= b["data"]
        BY DEF NumbersKept, InBudget, Typed, Kinds
      <3>2. Room(x, spent["data"])
        BY <3>1, HasRoom
      <3> QED  BY <3>1, <3>2, WordAssumption DEF Room
    <2>3. CASE "RST" \in g.flags
      <3>1. conn'.state = "RESET"
        BY <1>2, <1>3, <1>7, <2>1, <2>2, <2>3, ObserveIsExact
      <3> QED  BY <1>5, <3>1 DEF IsFinished
    <2>4. CASE "RST" \notin g.flags
      <3>1. Closing(x, g)
        BY <1>2, <1>3, <1>7, <2>1, <2>2, <2>4, ObserveIsExact DEF Closing
      <3>2. conn'.state = NextState([conn EXCEPT !.recvd = conn'.recvd], g)
        BY <3>1 DEF Closing
      <3>3. CASE conn.state = "RESET"
        BY <1>5, <2>1, <3>2, <3>3, StateAfter DEF IsFinished
      <3>4. CASE conn.state # "RESET"
        <4>1. RstSeen'
          BY <1>1, <1>2, <1>7, <2>4, <3>4, RstSeenPassing DEF IsFinished
        <4>2. CASE conn.state \in {"SYN_SYNACK", "SYNACK_ACK"}
          BY <1>1, <1>2, <2>1, <3>2, <4>1, <4>2, OpeningSeen
        <4>3. CASE conn.state = "UP"
          BY <1>1, <1>2, <2>1, <3>1, <4>1, <4>3, UpSeen
        <4>4. CASE conn.state = "FIN_FINACK" /\ conn'.state # "CLOSED"
          BY <1>1, <1>2, <2>1, <3>1, <4>1, <4>4, ClosingSeen
        <4>5. CASE conn'.state = "CLOSED"
          BY <1>5, <4>5 DEF IsFinished
        <4> QED  BY <1>7, <2>1, <3>4, <4>2, <4>3, <4>4, <4>5 DEF States
      <3> QED  BY <3>3, <3>4
    <2> QED  BY <2>3, <2>4
  <1> QED  BY <1>4, <1>6, <1>7

LEMMA SeenKept ==
  ASSUME Distinct, NumbersApart, Shape, Typed, NumbersKept, NumbersKept', RecordKept,
         RecordMade, [Next]_vars, Seen
  PROVE  Seen'
PROOF
  <1> SUFFICES ASSUME Undisturbed'  PROVE Seen'
    BY DEF Seen
  <1>1. /\ Undisturbed
        /\ UNCHANGED vars \/ \E x \in Peers : Acts(x) \/ Capture(x)
    BY UndisturbedStep
  <1>2. CASE UNCHANGED vars
    BY <1>2 DEF vars, Seen, Undisturbed, Never, RstSeen, SynSeen, SynAckSeen, NoFinSeen,
                FinSeen, FinAcks
  <1>3. ASSUME NEW x \in Peers, Acts(x)
        PROVE  Seen'
    BY <1>1, <1>3, ActsKeepSeen
  <1>4. ASSUME NEW x \in Peers, Capture(x)
        PROVE  Seen'
    BY <1>1, <1>4, CaptureKeepsSeen
  <1> QED  BY <1>1, <1>2, <1>3, <1>4

\* When both peers have closed and nothing is left to send, resend or acknowledge,
\* the record is closed or reset, if the sniffer saw all that was sent in the order
\* it was sent in (acceptPacket(), TCPConnection.cc:225-300).
THEOREM QuietIsFinished ==
  ASSUME Version = 4, ClientAddr # ServerAddr, NumbersApart
  PROVE  Spec => []QuietMeansFinished
PROOF
  <1> DEFINE Inv == NumbersKept /\ RecordKept /\ RecordMade /\ Seen
  <1>1. Distinct
    BY DEF Distinct
  <1>2. Init => Inv
    BY InitNumbers, InitAborts, InitSeen DEF Init, RecordKept
  <1>3. (Shape /\ Typed) /\ Inv /\ [Next]_vars => Inv'
    <2> SUFFICES ASSUME Shape, Typed, Inv, [Next]_vars  PROVE Inv'
      OBVIOUS
    <2>1. NumbersKept' /\ RecordKept' /\ RecordMade'
      BY <1>1, NumbersKeptByNext, RecordKeptByNext, RecordMadeKept
    <2> QED  BY <1>1, <2>1, SeenKept
  <1>4. (Shape /\ Typed) /\ Inv => QuietMeansFinished
    <2> SUFFICES ASSUME Typed, NumbersKept, RecordKept, Seen, Undisturbed, Quiet,
                        ~IsFinished(conn)
                 PROVE  FALSE
      BY DEF QuietMeansFinished, Undisturbed
    <2>1. /\ "client" \in Peers /\ \A x \in Peers : Side(x) \in Sides
          /\ \A s \in Sides : \E x \in Peers : s = Side(x)
      BY DEF Peers, Side, Sides
    <2>2. /\ \A x \in Peers : /\ before[x] = <<>> /\ after[x] = <<>>
                              /\ peer[x].heard /\ ~peer[x].owes
          /\ \A F : ~Some(<<>>, F)
      BY DEF Quiet, Some
    <2>3. \A x \in Peers : peer[x].stage # "aborted"
      BY <2>2 DEF Seen, RstSeen
    <2>4. conn.state \notin {"none", "SYN_SYNACK", "SYNACK_ACK", "UP"}
      BY <2>1, <2>2 DEF Seen, NoFinSeen
    <2>5. conn.state = "FIN_FINACK"
      BY <2>4 DEF Typed, NoConn, Its, Records, States, IsFinished
    <2>6. \A x \in Peers : conn.recvd[Side(x)]
      BY <2>2, <2>3, <2>5, PartnerIsOther DEF Seen, FinSeen
    <2> QED  BY <2>1, <2>5, <2>6 DEF Seen, FinSeen
  <1> HIDE DEF Inv
  <1> QED  BY <1>2, <1>3, <1>4, TypedInvariant, PTL DEF Spec
=============================================================================
