--------------------------- MODULE TCContainerProofs ---------------------------
(***************************************************************************)
(* Proofs about the container, for any packets, any hashes of addresses    *)
(* and any timeouts.                                                       *)
(***************************************************************************)
EXTENDS TCContainer, TLAPS

-----------------------------------------------------------------------------
(* Socket pairs. *)

\* The key of a connection or stray between the endpoints a and b.
KeyOf(a, b) ==
  [ends |-> {a, b}, hash |-> (AddrHash[a.addr] % b.port) + (AddrHash[b.addr] % a.port)]

LEMMA EndpointsHash ==
  ASSUME NEW e \in Endpoints
  PROVE  AddrHash[e.addr] \in Nat /\ e.port \in Nat \ {0}
  BY PacketsAssumption, GuesserAssumption
     DEF Endpoints, SocketPairs, SocketPair, Ends, Hosts

LEMMA PacketEnds ==
  ASSUME NEW p \in Packets
  PROVE  /\ p.src \in Endpoints /\ p.dst \in Endpoints
         /\ SocketPair(p) = KeyOf(p.src, p.dst) /\ SocketPair(p) \in SocketPairs
         /\ <<p.src, p.dst>> \in Directions
PROOF
  <1>1. SocketPair(p) \in SocketPairs
    BY DEF SocketPairs
  <1>2. SocketPair(p).ends = {p.src, p.dst}
    BY DEF SocketPair, Ends
  <1>3. p.src \in Endpoints /\ p.dst \in Endpoints
    BY <1>1, <1>2 DEF Endpoints
  <1>4. SocketPair(p) = KeyOf(p.src, p.dst)
    BY DEF SocketPair, Ends, Hash, KeyOf
  <1>5. <<p.src, p.dst>> \in Directions
    BY DEF Directions
  <1> QED  BY <1>1, <1>3, <1>4, <1>5

LEMMA ModIsNat ==
  ASSUME NEW n \in Nat, NEW m \in Nat \ {0}
  PROVE  n % m \in 0 .. m - 1
  OBVIOUS

\* The two directions of a connection have the same key, and no two
\* connections have.
LEMMA KeyIsUndirected ==
  ASSUME NEW a \in Endpoints, NEW b \in Endpoints, NEW c \in Endpoints, NEW d \in Endpoints
  PROVE  KeyOf(a, b) = KeyOf(c, d) <=> (a = c /\ b = d) \/ (a = d /\ b = c)
PROOF
  <1> DEFINE x == AddrHash[a.addr] % b.port
             y == AddrHash[b.addr] % a.port
  <1>0. \A n \in Nat, m \in Nat \ {0} : n % m \in Nat
    BY ModIsNat
  <1>5. /\ AddrHash[a.addr] \in Nat /\ a.port \in Nat \ {0}
        /\ AddrHash[b.addr] \in Nat /\ b.port \in Nat \ {0}
    BY EndpointsHash
  <1>1. x \in Nat /\ y \in Nat
    BY <1>0, <1>5
  <1>2. x + y = y + x
    BY <1>1
  <1>3. KeyOf(a, b) = KeyOf(b, a)
    BY <1>2 DEF KeyOf
  <1>4. KeyOf(a, b).ends = {a, b} /\ KeyOf(c, d).ends = {c, d}
    BY DEF KeyOf
  <1> QED  BY <1>3, <1>4

-----------------------------------------------------------------------------
(* One record. *)

LEMMA FinAckIsWord ==
  ASSUME NEW p \in Packets
  PROVE  FinAckNumber(p) \in 0 .. Word - 1
PROOF
  <1> DEFINE total == TotalLen(p) - IpHeaderLen(p) - TcpHeaderLen
  <1>1. \A n \in Int : n % Word \in 0 .. Word - 1
    BY WordAssumption
  <1>2. total \in Int
    BY PacketsAssumption DEF TotalLen, IpHeaderLen, TcpHeaderLen
  <1>3. PayloadLen(p) \in 0 .. Word - 1
    BY <1>1, <1>2 DEF PayloadLen
  <1>4. p.seq + PayloadLen(p) + 1 \in Int
    BY <1>3, PacketsAssumption, WordAssumption
  <1> QED  BY <1>1, <1>4 DEF FinAckNumber

\* acceptPacket() keeps the ends of the record and restarts its idle time.
LEMMA AcceptedRecord ==
  ASSUME NEW c \in Connections, NEW p \in Packets
  PROVE  /\ AcceptPacket(c, p) \in Connections
         /\ AcceptPacket(c, p).src = c.src /\ AcceptPacket(c, p).dst = c.dst
         /\ AcceptPacket(c, p).idle = 0
PROOF
  <1> DEFINE d == NoteFin(c, p)
             e == NoteFinAck(d, p)
  <1>1. d \in Connections /\ d.src = c.src /\ d.dst = c.dst
    BY FinAckIsWord DEF NoteFin, Connections
  <1>2. e \in Connections /\ e.src = c.src /\ e.dst = c.dst
    BY <1>1 DEF NoteFinAck, Connections
  <1>3. NextState(e, p) \in States
    BY <1>2 DEF NextState, States, Connections
  <1>4. 0 \in 0 .. MaxAge /\ "RESET" \in States
    BY ContainerAssumption DEF States
  <1> DEFINE n == IF "RST" \in p.flags THEN "RESET" ELSE NextState(e, p)
  <1>5. AcceptPacket(c, p) = [e EXCEPT !.state = n, !.idle = 0]
    BY DEF AcceptPacket
  <1>6. n \in States
    BY <1>3, <1>4
  <1> HIDE DEF e, n
  <1> QED  BY <1>2, <1>4, <1>5, <1>6 DEF Connections

LEMMA NewRecord ==
  ASSUME NEW p, p.src \in Endpoints, p.dst \in Endpoints
  PROVE  /\ NewConnection(p) \in Connections /\ NewConnection(p) # NoConnection
         /\ NewConnection(p).src = p.src /\ NewConnection(p).dst = p.dst
         /\ NewConnection(p).idle = 0
         /\ NewConnection(p).state = IF "SYN" \in p.flags THEN "SYN_SYNACK" ELSE "UP"
  BY WordAssumption, ContainerAssumption
     DEF NewConnection, NoConnection, Connections, States, Sides

-----------------------------------------------------------------------------
(* The inductive invariant. *)

\* Every record is filed under the pair of its ends.
Filed == /\ \A k \in DOMAIN conhash : k = KeyOf(conhash[k].src, conhash[k].dst)
         /\ \A k \in DOMAIN strays : k = KeyOf(strays[k].src, strays[k].dst)

\* A record that still takes packets has seen all that was captured on its pair.
IdleSinceHeard ==
  \A k \in DOMAIN conhash : conhash[k].state # "CLOSED" =>
    \A d \in Both(k) : conhash[k].idle <= heard[d]

\* A stray was heard when it was kept, or again since then.
StraysHeard ==
  \A k \in DOMAIN strays :
    LET d == <<strays[k].src, strays[k].dst>>
    IN  d \in Directions /\ heard[d] <= strays[k].age

IInv == TypeOK /\ Filed /\ IdleSinceHeard /\ StraysHeard

\* A packet finds its records, and only its own.
LEMMA FiledIsFound == IInv => FoundByItsPackets
PROOF
  <1> SUFFICES ASSUME IInv, NEW p \in Packets  
               PROVE  /\ \A k \in DOMAIN conhash : SocketPair(p) = k <=> Match(conhash[k], p)
                      /\ \A k \in DOMAIN strays : SocketPair(p) = k <=> Match(strays[k], p)
    BY DEF FoundByItsPackets
  <1>1. p.src \in Endpoints /\ p.dst \in Endpoints /\ SocketPair(p) = KeyOf(p.src, p.dst)
    BY PacketEnds
  <1>2. ASSUME NEW k \in DOMAIN conhash  PROVE SocketPair(p) = k <=> Match(conhash[k], p)
    <2>1. conhash[k].src \in Endpoints /\ conhash[k].dst \in Endpoints
      BY DEF IInv, TypeOK, Connections
    <2>2. k = KeyOf(conhash[k].src, conhash[k].dst)
      BY DEF IInv, Filed
    <2>3. KeyOf(p.src, p.dst) = KeyOf(conhash[k].src, conhash[k].dst)
            <=> \/ p.src = conhash[k].src /\ p.dst = conhash[k].dst
                \/ p.src = conhash[k].dst /\ p.dst = conhash[k].src
      BY <1>1, <2>1, KeyIsUndirected
    <2> QED  BY <1>1, <2>2, <2>3 DEF Match
  <1>3. ASSUME NEW k \in DOMAIN strays  PROVE SocketPair(p) = k <=> Match(strays[k], p)
    <2>1. strays[k].src \in Endpoints /\ strays[k].dst \in Endpoints
      BY DEF IInv, TypeOK
    <2>2. k = KeyOf(strays[k].src, strays[k].dst)
      BY DEF IInv, Filed
    <2>3. KeyOf(p.src, p.dst) = KeyOf(strays[k].src, strays[k].dst)
            <=> \/ p.src = strays[k].src /\ p.dst = strays[k].dst
                \/ p.src = strays[k].dst /\ p.dst = strays[k].src
      BY <1>1, <2>1, KeyIsUndirected
    <2> QED  BY <1>1, <2>2, <2>3 DEF Match
  <1> QED  BY <1>2, <1>3

\* The directions of a packet's socket pair are the packet's own and the other.
LEMMA BothWays ==
  ASSUME NEW p \in Packets, NEW d \in Both(SocketPair(p))
  PROVE  d \in Directions /\ (d = <<p.src, p.dst>> \/ d = <<p.dst, p.src>>)
PROOF
  <1>1. SocketPair(p).ends = {p.src, p.dst}
    BY DEF SocketPair, Ends
  <1>2. PICK q \in Packets : d = <<q.src, q.dst>>
    BY DEF Both, Directions
  <1>3. {q.src, q.dst} = {p.src, p.dst}
    BY <1>1, <1>2 DEF Both
  <1> QED  BY <1>2, <1>3 DEF Both

-----------------------------------------------------------------------------
(* Captured packets. *)

\* What is left of the strays: nothing new, one gone, or the packet kept.
LEMMA StraysAfter ==
  ASSUME NEW p \in Packets
  PROVE  AddPacket(strays, p).strays
           \in {strays, Forget(strays, SocketPair(p)), Keep(strays, p)}
  BY DEF AddPacket

\* What a connection that a packet adds to the table must show.
Evidence(p, c) ==
  /\ c \in Connections /\ c.idle = 0 /\ SocketPair(p) = KeyOf(c.src, c.dst)
  /\ IF c.state = "SYN_SYNACK"
     THEN c.src = p.src /\ c.dst = p.dst
     ELSE /\ c.src.port >= c.dst.port /\ 0 < GuessWindow
          /\ \A d \in Both(SocketPair(p)) : d = <<p.src, p.dst>> \/ heard[d] < GuessWindow

LEMMA OpeningIsEvidence ==
  ASSUME NEW p \in Packets, IsOpening(p)
  PROVE  Evidence(p, NewConnection(p))
  BY PacketEnds, NewRecord DEF Evidence, IsOpening

\* A stray that is answered went from the packet's destination to its source.
LEMMA GuessIsEvidence ==
  ASSUME IInv, NEW p \in Packets, AddPacket(strays, p).con # NoConnection
  PROVE  Evidence(p, AddPacket(strays, p).con)
PROOF
  <1> DEFINE k == SocketPair(p)
             o == strays[k]
             q == IF p.src.port > p.dst.port
                  THEN p ELSE [p EXCEPT !.src = o.src, !.dst = o.dst]
  <1>1. /\ "SYN" \notin p.flags /\ k \in DOMAIN strays /\ Answers(p, o)
        /\ AddPacket(strays, p).con = NewConnection(q)
    BY DEF AddPacket, Guess
  <1>2. /\ p.src \in Endpoints /\ p.dst \in Endpoints /\ k = KeyOf(p.src, p.dst)
        /\ p.src.port \in Nat /\ p.dst.port \in Nat
    BY PacketEnds, EndpointsHash
  <1>3. o.src = p.dst /\ o.dst = p.src
    <2>1. Match(o, p)
      BY <1>1, FiledIsFound DEF FoundByItsPackets
    <2> QED  BY <2>1, <1>1 DEF Match, Answers
  <1>4. /\ q.flags = p.flags /\ q.src.port >= q.dst.port
        /\ (q.src = p.src /\ q.dst = p.dst) \/ (q.src = p.dst /\ q.dst = p.src)
    BY <1>2, <1>3, PacketsAssumption
  <1>5. k = KeyOf(q.src, q.dst) /\ q.src \in Endpoints /\ q.dst \in Endpoints
    BY <1>2, <1>4, KeyIsUndirected
  <1>6. o.age \in Nat /\ heard[<<p.dst, p.src>>] <= o.age /\ o.age < GuessWindow
    BY <1>1, <1>3, ContainerAssumption DEF IInv, TypeOK, StraysHeard, Answers
  <1>7. \A d \in Both(k) : d = <<p.src, p.dst>> \/ heard[d] < GuessWindow
    <2> TAKE d \in Both(k)
    <2>1. d = <<p.src, p.dst>> \/ (d = <<p.dst, p.src>> /\ d \in Directions)
      BY BothWays
    <2>2. CASE d = <<p.dst, p.src>> /\ d \in Directions
      <3>1. heard[d] \in Nat
        BY <2>2, ContainerAssumption DEF IInv, TypeOK
      <3> QED  BY <1>6, <2>2, <3>1, GuesserAssumption
    <2> QED  BY <2>1, <2>2
  <1>8. 0 < GuessWindow
    BY <1>6, GuesserAssumption
  <1> HIDE DEF q
  <1>9. /\ NewConnection(q) \in Connections /\ NewConnection(q).idle = 0
        /\ NewConnection(q).src = q.src /\ NewConnection(q).dst = q.dst
        /\ NewConnection(q).state # "SYN_SYNACK"
    BY <1>1, <1>4, <1>5, NewRecord
  <1> QED  BY <1>1, <1>4, <1>5, <1>7, <1>8, <1>9 DEF Evidence

\* The table has one new record.
AddsTo(p, c) ==
  /\ SocketPair(p) \notin DOMAIN conhash
  /\ conhash' = [j \in DOMAIN conhash \cup {SocketPair(p)} |->
                   IF j = SocketPair(p) THEN c ELSE conhash[j]]

\* A packet is taken by its record, adds a record on evidence, or leaves the
\* table alone because its connection is not in it or is closed.
LEMMA PacketEffect ==
  ASSUME IInv, NEW p \in Packets, ProcessPacket(p)
  PROVE  /\ strays' \in {strays, Forget(strays, SocketPair(p)), Keep(strays, p)}
         /\ \/ Taken(p) /\ conhash' = [conhash EXCEPT ![SocketPair(p)] = AcceptPacket(@, p)]
            \/ \E c : AddsTo(p, c) /\ Evidence(p, c)
            \/ /\ conhash' = conhash
               /\ \/ SocketPair(p) \notin DOMAIN conhash
                  \/ conhash[SocketPair(p)].state = "CLOSED"
PROOF
  <1> DEFINE k == SocketPair(p)
  <1>1. CASE Track(p)
    BY <1>1 DEF Track
  <1>2. ~Taken(p) /\ k \in DOMAIN conhash => conhash[k].state = "CLOSED"
    BY FiledIsFound DEF Taken, Accepts, FoundByItsPackets
  <1>3. ASSUME NEW c, ~Taken(p), Store(p, c), Evidence(p, c)
        PROVE  (AddsTo(p, c) /\ Evidence(p, c)) \/ (conhash' = conhash /\ k \in DOMAIN conhash)
    BY <1>3 DEF Store, Insert, AddsTo
  <1>4. CASE Begin(p)
    BY <1>2, <1>3, <1>4, OpeningIsEvidence DEF Begin
  <1>5. CASE Stray(p)
    <2>1. strays' \in {strays, Forget(strays, k), Keep(strays, p)}
      BY <1>5, StraysAfter DEF Stray
    <2>2. CASE AddPacket(strays, p).con = NoConnection
      BY <1>2, <1>5, <2>1, <2>2 DEF Stray
    <2>3. CASE AddPacket(strays, p).con # NoConnection
      BY <1>2, <1>3, <1>5, <2>1, <2>3, GuessIsEvidence DEF Stray
    <2> QED  BY <2>2, <2>3
  <1>6. CASE Drop(p)
    BY <1>2, <1>6 DEF Drop
  <1> QED  BY <1>1, <1>4, <1>5, <1>6 DEF ProcessPacket

-----------------------------------------------------------------------------
(* The steps preserve the invariant. *)

LEMMA InitIInv == Init => IInv
PROOF
  <1> SUFFICES ASSUME Init  PROVE IInv
    OBVIOUS
  <1>1. DOMAIN conhash = {} /\ DOMAIN strays = {}
    BY DEF Init
  <1>2. heard \in [Directions -> 0 .. MaxAge]
    BY ContainerAssumption DEF Init
  <1> QED  BY <1>1, <1>2 DEF Init, IInv, TypeOK, Filed, IdleSinceHeard, StraysHeard

LEMMA StraysKept ==
  ASSUME IInv, NEW p \in Packets, heard' = [heard EXCEPT ![<<p.src, p.dst>>] = 0],
         strays' \in {strays, Forget(strays, SocketPair(p)), Keep(strays, p)}
  PROVE  /\ DOMAIN strays' \subseteq SocketPairs
         /\ \A k \in DOMAIN strays' :
              /\ strays'[k] \in [src : Endpoints, dst : Endpoints, age : 0 .. MaxAge]
              /\ k = KeyOf(strays'[k].src, strays'[k].dst)
         /\ StraysHeard'
PROOF
  <1> DEFINE new == [src |-> p.src, dst |-> p.dst, age |-> 0]
  <1>1. heard \in [Directions -> 0 .. MaxAge] /\ 0 \in 0 .. MaxAge
    BY ContainerAssumption DEF IInv, TypeOK
  <1>2. DOMAIN strays' \subseteq DOMAIN strays \cup {SocketPair(p)}
    BY DEF Forget, Keep
  <1>3. ASSUME NEW k \in DOMAIN strays'
        PROVE  \/ k \in DOMAIN strays /\ strays'[k] = strays[k]
               \/ k = SocketPair(p) /\ strays'[k] = new
    BY DEF Forget, Keep
  <1>4. ASSUME NEW k \in DOMAIN strays'
        PROVE  /\ strays'[k] \in [src : Endpoints, dst : Endpoints, age : 0 .. MaxAge]
               /\ k = KeyOf(strays'[k].src, strays'[k].dst)
               /\ <<strays'[k].src, strays'[k].dst>> \in Directions
               /\ heard'[<<strays'[k].src, strays'[k].dst>>] <= strays'[k].age
    <2>1. CASE k \in DOMAIN strays /\ strays'[k] = strays[k]
      <3> DEFINE d == <<strays[k].src, strays[k].dst>>
      <3>1. d \in Directions /\ heard[d] <= strays[k].age /\ strays[k].age \in 0 .. MaxAge
        BY <2>1 DEF IInv, TypeOK, StraysHeard
      <3>2. heard'[d] <= strays[k].age
        BY <1>1, <3>1
      <3> QED  BY <2>1, <3>1, <3>2 DEF IInv, TypeOK, Filed
    <2>2. CASE k = SocketPair(p) /\ strays'[k] = new
      <3>1. heard'[<<p.src, p.dst>>] = 0
        BY <1>1, PacketEnds
      <3> QED  BY <1>1, <2>2, <3>1, PacketEnds
    <2> QED  BY <1>3, <2>1, <2>2
  <1> QED  BY <1>2, <1>4, PacketEnds DEF StraysHeard, IInv, TypeOK

LEMMA RecordsKept ==
  ASSUME IInv, NEW p \in Packets, ProcessPacket(p)
  PROVE  /\ DOMAIN conhash \subseteq DOMAIN conhash'
         /\ DOMAIN conhash' \subseteq SocketPairs
         /\ \A k \in DOMAIN conhash' :
              /\ conhash'[k] \in Connections
              /\ k = KeyOf(conhash'[k].src, conhash'[k].dst)
              /\ \/ k \in DOMAIN conhash /\ conhash'[k] = conhash[k]
                    /\ (k = SocketPair(p) => conhash[k].state = "CLOSED")
                 \/ k = SocketPair(p) /\ conhash'[k].idle = 0
                    /\ (k \in DOMAIN conhash => conhash[k].state # "CLOSED")
PROOF
  <1> DEFINE sp == SocketPair(p)
  <1>1. \A k \in DOMAIN conhash :
          conhash[k] \in Connections /\ k = KeyOf(conhash[k].src, conhash[k].dst)
    BY DEF IInv, TypeOK, Filed
  <1>2. DOMAIN conhash \subseteq SocketPairs /\ sp \in SocketPairs
    BY PacketEnds DEF IInv, TypeOK
  <1>3. CASE Taken(p) /\ conhash' = [conhash EXCEPT ![sp] = AcceptPacket(@, p)]
    <2> DEFINE new == AcceptPacket(conhash[sp], p)
    <2>1. sp \in DOMAIN conhash /\ conhash[sp].state # "CLOSED"
      BY <1>3 DEF Taken, Accepts
    <2>2. new \in Connections /\ sp = KeyOf(new.src, new.dst) /\ new.idle = 0
      BY <1>1, <2>1, AcceptedRecord
    <2> HIDE DEF new
    <2>3. /\ DOMAIN conhash' = DOMAIN conhash /\ conhash'[sp] = new
          /\ \A k \in DOMAIN conhash : k # sp => conhash'[k] = conhash[k]
      BY <1>3, <2>1 DEF new
    <2> QED  BY <1>1, <1>2, <2>1, <2>2, <2>3
  <1>4. ASSUME NEW c, AddsTo(p, c), Evidence(p, c)
        PROVE  /\ DOMAIN conhash' = DOMAIN conhash \cup {sp} /\ sp \notin DOMAIN conhash
               /\ conhash'[sp] = c
               /\ \A k \in DOMAIN conhash : conhash'[k] = conhash[k]
    BY <1>4 DEF AddsTo
  <1>5. CASE \E c : AddsTo(p, c) /\ Evidence(p, c)
    BY <1>1, <1>2, <1>4, <1>5 DEF Evidence
  <1>6. CASE conhash' = conhash /\ (sp \in DOMAIN conhash => conhash[sp].state = "CLOSED")
    BY <1>1, <1>2, <1>6
  <1> QED  BY <1>3, <1>5, <1>6, PacketEffect

LEMMA PacketKeepsIInv ==
  ASSUME IInv, NEW p \in Packets, ProcessPacket(p)
  PROVE  IInv'
PROOF
  <1>1. /\ heard' = [heard EXCEPT ![<<p.src, p.dst>>] = 0]
        /\ strays' \in {strays, Forget(strays, SocketPair(p)), Keep(strays, p)}
        /\ UNCHANGED <<purgeflag, holder, todo>> /\ untracked' \in BOOLEAN
    <2>1. untracked' \in BOOLEAN
      BY DEF ProcessPacket, Track, Begin, Stray, Drop, Store, IInv, TypeOK
    <2> QED  BY <2>1, PacketEffect DEF ProcessPacket
  <1>2. heard \in [Directions -> 0 .. MaxAge] /\ heard' \in [Directions -> 0 .. MaxAge]
    <2>1. 0 \in 0 .. MaxAge /\ heard \in [Directions -> 0 .. MaxAge]
      BY ContainerAssumption DEF IInv, TypeOK
    <2> QED  BY <1>1, <2>1
  <1>3. TypeOK'
    BY <1>1, <1>2, StraysKept, RecordsKept DEF TypeOK, IInv, Endpoints, Connections
  <1>4. Filed'
    BY <1>1, StraysKept, RecordsKept DEF Filed
  \* What was captured is on the packet's own pair.
  <1>5. IdleSinceHeard'
    <2> SUFFICES ASSUME NEW k \in DOMAIN conhash', conhash'[k].state # "CLOSED",
                        NEW d \in Both(k)
                 PROVE  conhash'[k].idle <= heard'[d]
      BY DEF IdleSinceHeard, Both
    <2>1. d \in Directions /\ {d[1], d[2]} = k.ends /\ heard'[d] \in Nat /\ heard[d] \in Nat
      BY <1>2, ContainerAssumption DEF Both
    <2>2. CASE k = SocketPair(p) /\ conhash'[k].idle = 0
      BY <2>1, <2>2
    <2>3. CASE /\ k \in DOMAIN conhash /\ conhash'[k] = conhash[k]
               /\ (k = SocketPair(p) => conhash[k].state = "CLOSED")
      <3>1. d # <<p.src, p.dst>>
        <4> SUFFICES ASSUME d = <<p.src, p.dst>>  PROVE FALSE
          OBVIOUS
        <4>1. k = KeyOf(conhash[k].src, conhash[k].dst) /\ k.ends = {p.src, p.dst}
          BY <2>1, <2>3 DEF IInv, Filed
        <4>2. {conhash[k].src, conhash[k].dst} = {p.src, p.dst}
          BY <4>1 DEF KeyOf
        <4>3. Match(conhash[k], p)
          BY <4>2 DEF Match
        <4>4. SocketPair(p) = k
          BY <2>3, <4>3, FiledIsFound DEF FoundByItsPackets
        <4> QED  BY <2>3, <4>4
      <3>2. heard'[d] = heard[d]
        BY <1>1, <1>2, <2>1, <3>1
      <3> QED  BY <2>3, <3>2 DEF IInv, IdleSinceHeard
    <2> QED  BY <2>2, <2>3, RecordsKept
  <1>6. StraysHeard'
    BY <1>1, StraysKept
  <1> QED  BY <1>3, <1>4, <1>5, <1>6 DEF IInv

LEMMA OlderGrows ==
  /\ \A n \in 0 .. MaxAge : Older(n) \in 0 .. MaxAge /\ n <= Older(n)
  /\ \A m, n \in 0 .. MaxAge : m <= n => Older(m) <= Older(n)
PROOF
  <1>1. MaxAge \in Nat
    BY ContainerAssumption
  <1> QED  BY <1>1 DEF Older

\* Time makes every record one second older, or leaves it at the limit.
LEMMA TickAges ==
  ASSUME IInv, Tick
  PROVE  /\ DOMAIN conhash' = DOMAIN conhash /\ DOMAIN strays' = DOMAIN strays
         /\ \A k \in DOMAIN conhash :
              /\ conhash'[k] = [conhash[k] EXCEPT !.idle = Older(conhash[k].idle)]
              /\ conhash'[k] \in Connections
              /\ conhash'[k].idle = Older(conhash[k].idle)
              /\ conhash'[k].src = conhash[k].src /\ conhash'[k].dst = conhash[k].dst
              /\ conhash'[k].state = conhash[k].state
         /\ \A k \in DOMAIN strays :
              /\ strays'[k] \in [src : Endpoints, dst : Endpoints, age : 0 .. MaxAge]
              /\ strays'[k].src = strays[k].src /\ strays'[k].dst = strays[k].dst
              /\ strays'[k].age = Older(strays[k].age)
         /\ heard' \in [Directions -> 0 .. MaxAge]
         /\ \A d \in Directions : heard'[d] = Older(heard[d])
PROOF
  <1>1. /\ \A k \in DOMAIN conhash : conhash[k] \in Connections
        /\ \A k \in DOMAIN strays :
             strays[k] \in [src : Endpoints, dst : Endpoints, age : 0 .. MaxAge]
        /\ heard \in [Directions -> 0 .. MaxAge]
    BY DEF IInv, TypeOK
  <1>2. \A n \in 0 .. MaxAge : Older(n) \in 0 .. MaxAge
    BY OlderGrows
  <1>3. ASSUME NEW k \in DOMAIN conhash
        PROVE  /\ conhash'[k] = [conhash[k] EXCEPT !.idle = Older(conhash[k].idle)]
               /\ conhash'[k] \in Connections
               /\ conhash'[k].idle = Older(conhash[k].idle)
               /\ conhash'[k].src = conhash[k].src /\ conhash'[k].dst = conhash[k].dst
               /\ conhash'[k].state = conhash[k].state
    BY <1>1, <1>2 DEF Tick, Connections
  <1>4. ASSUME NEW k \in DOMAIN strays
        PROVE  /\ strays'[k] \in [src : Endpoints, dst : Endpoints, age : 0 .. MaxAge]
               /\ strays'[k].src = strays[k].src /\ strays'[k].dst = strays[k].dst
               /\ strays'[k].age = Older(strays[k].age)
    BY <1>1, <1>2 DEF Tick
  <1>5. /\ heard' \in [Directions -> 0 .. MaxAge]
        /\ \A d \in Directions : heard'[d] = Older(heard[d])
    BY <1>1, <1>2 DEF Tick
  <1>6. DOMAIN conhash' = DOMAIN conhash /\ DOMAIN strays' = DOMAIN strays
    BY DEF Tick
  <1> QED  BY <1>3, <1>4, <1>5, <1>6

LEMMA TickKeepsIInv ==
  ASSUME IInv, Tick
  PROVE  IInv'
PROOF
  <1>1. TypeOK'
    BY TickAges DEF Tick, IInv, TypeOK, Connections, Endpoints
  <1>2. Filed'
    BY TickAges DEF IInv, Filed
  <1>3. IdleSinceHeard'
    <2> SUFFICES ASSUME NEW k \in DOMAIN conhash', conhash'[k].state # "CLOSED",
                        NEW d \in Both(k)
                 PROVE  conhash'[k].idle <= heard'[d]
      BY DEF IdleSinceHeard, Both
    <2>1. d \in Directions
      BY DEF Both
    <2>2. /\ k \in DOMAIN conhash /\ conhash[k].state # "CLOSED"
          /\ conhash'[k].idle = Older(conhash[k].idle) /\ heard'[d] = Older(heard[d])
      BY <2>1, TickAges
    <2>3. /\ conhash[k].idle \in 0 .. MaxAge /\ heard[d] \in 0 .. MaxAge
          /\ conhash[k].idle <= heard[d]
      BY <2>1, <2>2 DEF IInv, TypeOK, IdleSinceHeard, Connections
    <2> QED  BY <2>2, <2>3, OlderGrows
  <1>4. StraysHeard'
    <2> SUFFICES ASSUME NEW k \in DOMAIN strays'
                 PROVE  LET d == <<strays'[k].src, strays'[k].dst>>
                        IN  d \in Directions /\ heard'[d] <= strays'[k].age
      BY DEF StraysHeard
    <2> DEFINE d == <<strays[k].src, strays[k].dst>>
    <2>1. /\ k \in DOMAIN strays /\ <<strays'[k].src, strays'[k].dst>> = d
          /\ strays'[k].age = Older(strays[k].age)
      BY TickAges
    <2>2. /\ d \in Directions /\ heard[d] <= strays[k].age
          /\ strays[k].age \in 0 .. MaxAge /\ heard[d] \in 0 .. MaxAge
      BY <2>1 DEF IInv, TypeOK, StraysHeard
    <2>3. heard'[d] = Older(heard[d])
      BY <2>2, TickAges
    <2> QED  BY <2>1, <2>2, <2>3, OlderGrows
  <1> QED  BY <1>1, <1>2, <1>3, <1>4 DEF IInv

\* A visit leaves the record of a connection as it is, or removes it.
LEMMA VisitRemoves ==
  ASSUME NEW k \in SocketPairs, MaintVisit(k)
  PROVE  /\ DOMAIN conhash' = IF purgeflag /\ Expired(conhash[k])
                              THEN DOMAIN conhash \ {k} ELSE DOMAIN conhash
         /\ \A j \in DOMAIN conhash' : conhash'[j] = conhash[j]
  BY DEF MaintVisit

LEMMA OthersKeepIInv ==
  ASSUME IInv, UNCHANGED <<strays, untracked, heard>>,
         DOMAIN conhash' \subseteq DOMAIN conhash,
         \A j \in DOMAIN conhash' : conhash'[j] = conhash[j],
         purgeflag' \in BOOLEAN, holder' \in {"none", "maint"},
         todo' \subseteq DOMAIN conhash'
  PROVE  IInv'
  BY DEF IInv, TypeOK, Filed, IdleSinceHeard, StraysHeard, Both, Endpoints, Connections

LEMMA NextIInv == IInv /\ [Next]_vars => IInv'
PROOF
  <1> SUFFICES ASSUME IInv, [Next]_vars  PROVE IInv'
    OBVIOUS
  <1>1. CASE \E p \in Packets : ProcessPacket(p)
    BY <1>1, PacketKeepsIInv
  <1>2. CASE Tick
    BY <1>2, TickKeepsIInv
  <1>3. ASSUME NEW k \in SocketPairs, MaintVisit(k)
        PROVE  IInv'
    <2>1. todo' \subseteq DOMAIN conhash'
      BY <1>3, VisitRemoves DEF IInv, TypeOK, MaintVisit
    <2>2. DOMAIN conhash' \subseteq DOMAIN conhash
      BY <1>3, VisitRemoves
    <2>3. /\ UNCHANGED <<strays, untracked, heard>>
          /\ purgeflag' \in BOOLEAN /\ holder' \in {"none", "maint"}
      BY <1>3 DEF IInv, TypeOK, MaintVisit
    <2> QED  BY <1>3, <2>1, <2>2, <2>3, VisitRemoves, OthersKeepIInv
  <1>4. CASE MaintLock
    BY <1>4, OthersKeepIInv DEF MaintLock, IInv, TypeOK
  <1>5. CASE MaintUnlock
    BY <1>5, OthersKeepIInv DEF MaintUnlock, IInv, TypeOK
  <1>6. CASE \E flag \in BOOLEAN : Purge(flag)
    BY <1>6, OthersKeepIInv DEF Purge, IInv, TypeOK
  <1>7. CASE UNCHANGED vars
    BY <1>7, OthersKeepIInv DEF vars, IInv, TypeOK
  <1> QED  BY <1>1, <1>2, <1>3, <1>4, <1>5, <1>6, <1>7 DEF Next

LEMMA Inductive == Spec => []IInv
  BY InitIInv, NextIInv, PTL DEF Spec

-----------------------------------------------------------------------------
\* The variables of the container and the guesser keep their types.
THEOREM TypeCorrect == Spec => []TypeOK
PROOF
  <1>1. IInv => TypeOK
    BY DEF IInv
  <1> QED  BY <1>1, Inductive, PTL

\* A packet finds the record of its own connection, in either direction, and
\* no other (SocketPair.cc:27-31).
THEOREM PacketsFindTheirRecords == Spec => []FoundByItsPackets
  BY FiledIsFound, Inductive, PTL

-----------------------------------------------------------------------------
(* What a step may never do. *)

\* Only a visit of a maintenance pass takes a connection out of the table.
LEMMA OnlyVisitsRemove ==
  ASSUME IInv, Next, NEW k \in SocketPairs, Removed(k)
  PROVE  MaintVisit(k) /\ purgeflag /\ Expired(conhash[k])
PROOF
  <1>1. CASE \E p \in Packets : ProcessPacket(p)
    BY <1>1, RecordsKept DEF Removed
  <1>2. CASE Tick
    BY <1>2, TickAges DEF Removed
  <1>3. ASSUME NEW j \in SocketPairs, MaintVisit(j)
        PROVE  MaintVisit(k) /\ purgeflag /\ Expired(conhash[k])
    BY <1>3, VisitRemoves DEF Removed
  <1>4. CASE MaintLock \/ MaintUnlock \/ \E flag \in BOOLEAN : Purge(flag)
    BY <1>4 DEF MaintLock, MaintUnlock, Purge, Removed
  <1> QED  BY <1>1, <1>2, <1>3, <1>4 DEF Next

\* No connection on which something was captured within the timeout of its
\* state is removed, and no open or half open one is (TCContainer.cc:183-189).
THEOREM NoTalkingConnectionRemoved == Spec => RemovedOnlyWhenSilent
PROOF
  <1> DEFINE Allowed(k) ==
        \/ Tracked(k, {"CLOSED"})
        \/ Tracked(k, {"RESET"}) /\ SilentFor(k, Remto)
        \/ Tracked(k, {"SYN_SYNACK"}) /\ SilentFor(k, SynSynackWait)
        \/ Tracked(k, {"FIN_FINACK"}) /\ SilentFor(k, FinFinackWait)
  <1>1. IInv /\ [Next]_vars => [\A k \in SocketPairs : Removed(k) => Allowed(k)]_vars
    <2> SUFFICES ASSUME IInv, Next, NEW k \in SocketPairs, Removed(k)
                 PROVE  Allowed(k)
      OBVIOUS
    <2>1. k \in DOMAIN conhash /\ Expired(conhash[k])
      BY OnlyVisitsRemove DEF Removed
    <2>2. conhash[k].idle \in Nat /\ {Remto, SynSynackWait, FinFinackWait} \subseteq Nat
      BY <2>1, ContainerAssumption DEF IInv, TypeOK, Connections
    <2>3. ASSUME conhash[k].state # "CLOSED", NEW n \in Nat, conhash[k].idle > n
          PROVE  SilentFor(k, n)
      <3> SUFFICES ASSUME NEW d \in Both(k)  PROVE heard[d] > n
        BY DEF SilentFor
      <3>1. heard[d] \in Nat
        BY ContainerAssumption DEF Both, IInv, TypeOK
      <3>2. conhash[k].idle <= heard[d]
        BY <2>1, <2>3 DEF IInv, IdleSinceHeard
      <3> QED  BY <2>2, <2>3, <3>1, <3>2
    <2> QED  BY <2>1, <2>2, <2>3 DEF Expired, IsFinished, Tracked
  <1> QED  BY <1>1, Inductive, PTL DEF Spec, RemovedOnlyWhenSilent

\* The record of a closed connection changes only in that it grows older,
\* until it is removed: no packet reopens it.
THEOREM ClosedStaysClosed == Spec => ClosedIsFinal
PROOF
  <1> DEFINE Final(k) ==
        Tracked(k, {"CLOSED"}) /\ ~Removed(k) =>
          \E n \in 0 .. MaxAge : conhash'[k] = [conhash[k] EXCEPT !.idle = n]
  <1>1. IInv /\ [Next]_vars => [\A k \in SocketPairs : Final(k)]_vars
    <2> SUFFICES ASSUME IInv, Next, NEW k \in SocketPairs,
                        Tracked(k, {"CLOSED"}), ~Removed(k)
                 PROVE  \E n \in 0 .. MaxAge : conhash'[k] = [conhash[k] EXCEPT !.idle = n]
      OBVIOUS
    <2>1. /\ k \in DOMAIN conhash /\ k \in DOMAIN conhash' /\ conhash[k].state = "CLOSED"
          /\ conhash[k] \in Connections
      BY DEF Tracked, Removed, IInv, TypeOK
    <2>2. conhash[k].idle \in 0 .. MaxAge
          /\ conhash[k] = [conhash[k] EXCEPT !.idle = conhash[k].idle]
      BY <2>1 DEF Connections
    <2>3. CASE Tick
      BY <2>1, <2>2, <2>3, TickAges, OlderGrows
    <2>4. CASE \E p \in Packets : ProcessPacket(p)
      <3>1. conhash'[k] = conhash[k]
        BY <2>1, <2>4, RecordsKept
      <3> QED  BY <2>2, <3>1
    <2>5. CASE \E j \in SocketPairs : MaintVisit(j)
      <3>1. conhash'[k] = conhash[k]
        BY <2>1, <2>5, VisitRemoves
      <3> QED  BY <2>2, <3>1
    <2>6. CASE MaintLock \/ MaintUnlock \/ \E flag \in BOOLEAN : Purge(flag)
      <3>1. conhash'[k] = conhash[k]
        BY <2>6 DEF MaintLock, MaintUnlock, Purge
      <3> QED  BY <2>2, <3>1
    <2> QED  BY <2>3, <2>4, <2>5, <2>6 DEF Next
  <1> QED  BY <1>1, Inductive, PTL DEF Spec, ClosedIsFinal

\* A connection is put into the table only because its client has just sent a
\* SYN, or because both its ends were heard within the guessing window.
THEOREM NoConnectionInvented == Spec => AddedOnEvidence
PROOF
  <1> DEFINE Shown(k) ==
        LET c == conhash'[k]
        IN  IF c.state = "SYN_SYNACK"
            THEN heard'[<<c.src, c.dst>>] = 0
            ELSE /\ c.src.port >= c.dst.port
                 /\ \A d \in Both(k) : heard'[d] < GuessWindow
  <1>1. IInv /\ [Next]_vars => [\A k \in SocketPairs : Added(k) => Shown(k)]_vars
    <2> SUFFICES ASSUME IInv, Next, NEW k \in SocketPairs, Added(k)
                 PROVE  Shown(k)
      OBVIOUS
    <2>1. PICK p \in Packets : ProcessPacket(p)
      <3>1. ~Tick
        BY TickAges DEF Added
      <3>2. ~(\E j \in SocketPairs : MaintVisit(j))
        BY VisitRemoves DEF Added
      <3>3. ~(MaintLock \/ MaintUnlock \/ \E flag \in BOOLEAN : Purge(flag))
        BY DEF MaintLock, MaintUnlock, Purge, Added
      <3> QED  BY <3>1, <3>2, <3>3 DEF Next
    <2>2. PICK c : AddsTo(p, c) /\ Evidence(p, c)
      <3>1. k \notin DOMAIN conhash /\ k \in DOMAIN conhash'
        BY DEF Added
      <3> QED  BY <2>1, <3>1, PacketEffect
    <2>3. k = SocketPair(p) /\ conhash'[k] = c
      BY <2>2 DEF AddsTo, Added
    <2>4. /\ heard'[<<p.src, p.dst>>] = 0
          /\ \A d \in Directions : d # <<p.src, p.dst>> => heard'[d] = heard[d]
      BY <2>1, PacketEnds DEF ProcessPacket, IInv, TypeOK
    <2> QED  BY <2>2, <2>3, <2>4 DEF Evidence, Both
  <1> QED  BY <1>1, Inductive, PTL DEF Spec, AddedOnEvidence

-----------------------------------------------------------------------------
(* The refinement of ConnTable. *)

Ripe == {k \in DOMAIN conhash : Expired(conhash[k])}

LEMMA InitRefines == Init => Abstract!Init
  BY DEF Init, Abstract!Init

\* A record that has just taken a packet is not ripe.
LEMMA FreshIsNotRipe ==
  ASSUME NEW c, c.idle = 0
  PROVE  ~Expired(c)
  BY ContainerAssumption DEF Expired

LEMMA PacketRefines ==
  ASSUME IInv, NEW p \in Packets, ProcessPacket(p)
  PROVE  [Abstract!Next]_(Abstract!vars)
PROOF
  <1> DEFINE k == SocketPair(p)
  <1>1. k \in SocketPairs /\ holder = "none" /\ UNCHANGED <<purgeflag, holder, todo>>
    BY PacketEnds DEF ProcessPacket
  <1>2. CASE conhash' = conhash
    BY <1>1, <1>2 DEF Abstract!vars
  \* Its own record becomes fresh, all others stay as they are.
  <1>3. ASSUME DOMAIN conhash' = DOMAIN conhash \cup {k}, conhash'[k].idle = 0,
               \A j \in DOMAIN conhash : j # k => conhash'[j] = conhash[j]
        PROVE  [Abstract!Next]_(Abstract!vars)
    <2>1. Ripe' = Ripe \ {k}
      <3>1. ~Expired(conhash'[k])
        BY <1>3, FreshIsNotRipe
      <3> QED  BY <1>3, <3>1 DEF Ripe, Expired, IsFinished
    <2>2. Abstract!Hear(k)
      BY <1>1, <1>3, <2>1 DEF Abstract!Hear, Ripe
    <2> QED  BY <1>1, <2>2 DEF Abstract!Next
  <1>4. CASE Taken(p) /\ conhash' = [conhash EXCEPT ![k] = AcceptPacket(@, p)]
    <2>1. k \in DOMAIN conhash /\ conhash[k] \in Connections
      BY <1>4 DEF Taken, IInv, TypeOK
    <2>2. AcceptPacket(conhash[k], p).idle = 0
      BY <2>1, AcceptedRecord
    <2> QED  BY <1>3, <1>4, <2>1, <2>2
  <1>5. CASE \E c : AddsTo(p, c) /\ Evidence(p, c)
    BY <1>3, <1>5 DEF AddsTo, Evidence
  <1> QED  BY <1>2, <1>4, <1>5, PacketEffect

LEMMA TickRefines ==
  ASSUME IInv, Tick
  PROVE  Abstract!Ripen
PROOF
  <1>1. Ripe \subseteq Ripe' /\ Ripe' \subseteq DOMAIN conhash
    <2> SUFFICES ASSUME NEW k \in DOMAIN conhash, Expired(conhash[k])
                 PROVE  Expired(conhash'[k])
      BY TickAges DEF Ripe, Expired, IsFinished
    <2>1. conhash'[k].state = conhash[k].state /\ conhash'[k].idle = Older(conhash[k].idle)
      BY TickAges
    <2>2. conhash[k].idle \in Nat /\ conhash[k].idle <= Older(conhash[k].idle)
          /\ Older(conhash[k].idle) \in Nat
      BY OlderGrows, ContainerAssumption DEF IInv, TypeOK, Connections
    <2>3. {Remto, SynSynackWait, FinFinackWait} \subseteq Nat
      BY ContainerAssumption
    <2> QED  BY <2>1, <2>2, <2>3 DEF Expired, IsFinished
  <1>2. Ripe' = Ripe \cup Ripe' /\ Ripe' \in SUBSET DOMAIN conhash
    BY <1>1
  <1> QED  BY <1>2, TickAges DEF Tick, Abstract!Ripen, Ripe

LEMMA VisitRefines ==
  ASSUME IInv, NEW k \in SocketPairs, MaintVisit(k)
  PROVE  Abstract!Keep(k) \/ Abstract!Remove(k)
PROOF
  <1>1. /\ holder = "maint" /\ k \in todo /\ k \in DOMAIN conhash /\ todo' = todo \ {k}
        /\ UNCHANGED <<purgeflag, holder>>
    BY DEF MaintVisit, IInv, TypeOK
  <1>2. CASE purgeflag /\ Expired(conhash[k])
    <2>1. DOMAIN conhash' = DOMAIN conhash \ {k} /\ Ripe' = Ripe \ {k} /\ k \in Ripe
      BY <1>1, <1>2, VisitRemoves DEF Ripe, Expired, IsFinished
    <2> QED  BY <1>1, <1>2, <2>1 DEF Abstract!Remove, Ripe
  <1>3. CASE ~(purgeflag /\ Expired(conhash[k]))
    <2>1. DOMAIN conhash' = DOMAIN conhash /\ Ripe' = Ripe
      BY <1>3, VisitRemoves DEF Ripe, Expired, IsFinished
    <2> QED  BY <1>1, <1>3, <2>1 DEF Abstract!Keep, Ripe
  <1> QED  BY <1>2, <1>3

\* The container does to the connections what the table of connections allows,
\* whatever packets arrive, whatever the timeouts are, and also when purging
\* is switched off during a maintenance pass.
THEOREM TableImplemented == Spec => RefinesTable
PROOF
  <1>1. IInv /\ [Next]_vars => [Abstract!Next]_(Abstract!vars)
    <2> SUFFICES ASSUME IInv, [Next]_vars  PROVE [Abstract!Next]_(Abstract!vars)
      OBVIOUS
    <2>1. CASE \E p \in Packets : ProcessPacket(p)
      BY <2>1, PacketRefines
    <2>2. CASE Tick
      BY <2>2, TickRefines DEF Abstract!Next
    <2>3. CASE \E k \in SocketPairs : MaintVisit(k)
      BY <2>3, VisitRefines DEF Abstract!Next
    <2>4. CASE MaintLock
      BY <2>4 DEF MaintLock, Abstract!Next, Abstract!Lock
    <2>5. CASE MaintUnlock
      BY <2>5 DEF MaintUnlock, Abstract!Next, Abstract!Unlock
    <2>6. CASE \E flag \in BOOLEAN : Purge(flag)
      BY <2>6 DEF Purge, Abstract!Next, Abstract!Switch
    <2>7. CASE UNCHANGED vars
      BY <2>7 DEF vars, Abstract!vars
    <2> QED  BY <2>1, <2>2, <2>3, <2>4, <2>5, <2>6, <2>7 DEF Next
  <1> QED  BY <1>1, InitRefines, Inductive, PTL DEF Spec, RefinesTable, Abstract!Spec
=============================================================================
