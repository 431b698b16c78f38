-------------------------------- MODULE Guesser --------------------------------
(***************************************************************************)
(* The Guesser: packets that belong to no tracked connection are kept, one *)
(* per socket pair, until a packet in the other direction shows that there *)
(* is a connection.  strays is Guesser::hash, a function from socket pairs *)
(* to the captured packet, of which only the endpoints and the age matter. *)
(***************************************************************************)
EXTENDS TCPConnection

CONSTANTS AddrHash,       \* hash() of each IP address
          GuessWindow     \* seconds in which the two packets must be seen (60)

ASSUME GuesserAssumption ==
  GuessWindow \in Nat /\ \A a \in DOMAIN AddrHash : AddrHash[a] \in Nat

\* A SocketPair compares equal to its mirror image: an unordered pair.
Ends(p) == {p.src, p.dst}

\* Faulty: each address is divided by its own port, the second one by both.
HashOneWay(p) == (AddrHash[p.src.addr] % p.src.port) + (AddrHash[p.dst.addr] % p.src.port)

\* Each address modulo the port of the other end; no port is zero.
Hash(p) == (AddrHash[p.src.addr] % p.dst.port) + (AddrHash[p.dst.addr] % p.src.port)

\* What the hash tables look for: a pair with that hash that compares equal.
SocketPair(p) == [ends |-> Ends(p), hash |-> Hash(p)]

NoConnection == [state |-> "none"]

Forget(strays, k) == [j \in DOMAIN strays \ {k} |-> strays[j]]
Keep(strays, p) ==
  [j \in DOMAIN strays \cup {SocketPair(p)} |->
     IF j = SocketPair(p) THEN [src |-> p.src, dst |-> p.dst, age |-> 0] ELSE strays[j]]

\* Faulty: the age of the stray is not looked at.
AnswersLate(p, o) == o.src = p.dst

\* The stray packet o went the other way, from the endpoint p goes to, and recently.
Answers(p, o) == o.src = p.dst /\ o.age < GuessWindow

\* The higher port is taken for the client's: the connection is built from
\* the packet that went from it.
Guess(p, o) ==
  NewConnection(IF p.src.port > p.dst.port
                THEN p
                ELSE [p EXCEPT !.src = o.src, !.dst = o.dst])

\* addPacket(): the strays it leaves behind and the connection it returns.
AddPacket(strays, p) ==
  LET k == SocketPair(p)
      ignored == p.flags \cap {"SYN", "ECE"} # {}
      ending  == p.flags \cap {"FIN", "RST"} # {}
  IN  CASE ignored -> [strays |-> strays, con |-> NoConnection]
        [] ~ignored /\ ending ->
             [strays |-> Forget(strays, k), con |-> NoConnection]
        [] ~ignored /\ ~ending /\ k \in DOMAIN strays /\ Answers(p, strays[k]) ->
             [strays |-> Forget(strays, k), con |-> Guess(p, strays[k])]
        [] OTHER -> [strays |-> Keep(strays, p), con |-> NoConnection]

=============================================================================
