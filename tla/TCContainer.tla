------------------------------ MODULE TCContainer ------------------------------
(***************************************************************************)
(* The container of tracked connections.  Three threads use it: the packet *)
(* buffer's thread calls processPacket(), the maintenance thread makes its *)
(* passes over the table, and the user interface switches purging off and  *)
(* on with purge().  processPacket() runs under conlist_lock and is one    *)
(* step; a maintenance pass holds the lock too but takes a step for each   *)
(* connection, because purge() does not take the lock and time goes on.    *)
(*                                                                         *)
(* Time is the number of seconds since a record last saw a packet, up to   *)
(* MaxAge, past which no comparison in the code can tell the difference.   *)
(***************************************************************************)
EXTENDS Guesser

CONSTANTS Packets,          \* the packets that may be captured
          Detect,           \* app->detect: guess connections from strays
          Remto,            \* app->remto: seconds a finished record is kept
          SynSynackWait,    \* SYN_SYNACK_WAIT
          FinFinackWait,    \* FIN_FINACK_WAIT
          MaxAge            \* ages are not counted beyond this

ASSUME ContainerAssumption ==
  /\ Detect \in BOOLEAN
  /\ MaxAge \in Nat
  /\ {Remto, SynSynackWait, FinFinackWait} \subseteq 0 .. MaxAge - 1
  /\ GuessWindow \in 0 .. MaxAge

\* The header fields of a captured packet.  A socket pair divides by both ports
\* and asserts that neither is zero.
Flags == {"FIN", "SYN", "RST", "PSH", "ACK", "URG", "ECE", "CWR"}
Hosts == [addr : DOMAIN AddrHash, port : Nat \ {0}]
ASSUME PacketsAssumption ==
  Packets \subseteq [src : Hosts, dst : Hosts, flags : SUBSET Flags,
                     seq : 0 .. Word - 1, ack : 0 .. Word - 1, len : Nat, ver : {4, 6}]

VARIABLES conhash,    \* conhash2: tracked connections by socket pair
          strays,     \* guesser.hash
          purgeflag,  \* may the maintenance thread remove connections?
          holder,     \* "maint" while a pass holds conlist_lock
          todo,       \* socket pairs the current pass has yet to visit
          untracked,  \* a connection was created and could not be stored
          heard       \* history: seconds since a packet from one endpoint to another

vars == <<conhash, strays, purgeflag, holder, todo, untracked, heard>>

SocketPairs == {SocketPair(p) : p \in Packets}
Directions == {<<p.src, p.dst>> : p \in Packets}

\* Faulty: no saturation.
OlderNoLimit(n) == n + 1
Older(n) == IF n < MaxAge THEN n + 1 ELSE n

-----------------------------------------------------------------------------
(* processPacket() *)

\* hash_map::insert: an existing entry is left as it is.
Insert(table, k, c) ==
  IF k \in DOMAIN table THEN table ELSE [j \in DOMAIN table \cup {k} |->
                                           IF j = k THEN c ELSE table[j]]

IsOpening(p) == "SYN" \in p.flags /\ "ACK" \notin p.flags
Taken(p) == SocketPair(p) \in DOMAIN conhash /\ Accepts(conhash[SocketPair(p)], p)

Store(p, c) ==
  /\ conhash' = Insert(conhash, SocketPair(p), c)
  /\ untracked' = (untracked \/ SocketPair(p) \in DOMAIN conhash)

\* The record of the socket pair takes the packet.
Track(p) ==
  /\ Taken(p)
  /\ conhash' = [conhash EXCEPT ![SocketPair(p)] = AcceptPacket(@, p)]
  /\ UNCHANGED <<strays, untracked>>

\* No record took it and it opens a new connection.
Begin(p) ==
  /\ ~Taken(p) /\ IsOpening(p)
  /\ Store(p, NewConnection(p))
  /\ UNCHANGED strays

\* A stray packet is fed to the guesser.
Stray(p) ==
  /\ ~Taken(p) /\ ~IsOpening(p) /\ Detect
  /\ LET g == AddPacket(strays, p)
     IN  /\ strays' = g.strays
         /\ IF g.con = NoConnection THEN UNCHANGED <<conhash, untracked>>
                                    ELSE Store(p, g.con)

Drop(p) ==
  /\ ~Taken(p) /\ ~IsOpening(p) /\ ~Detect
  /\ UNCHANGED <<conhash, strays, untracked>>

ProcessPacket(p) ==
  /\ holder = "none"
  /\ Track(p) \/ Begin(p) \/ Stray(p) \/ Drop(p)
  /\ heard' = [heard EXCEPT ![<<p.src, p.dst>>] = 0]
  /\ UNCHANGED <<purgeflag, holder, todo>>

-----------------------------------------------------------------------------
(* The maintenance thread, purge() and the clock. *)

\* Faulty: CLOSED does not count as finished; closing connections stay.
ExpiredUnlessClosed(c) == \/ c.state = "RESET" /\ c.idle > Remto
                          \/ c.state = "SYN_SYNACK" /\ c.idle > SynSynackWait
                          \/ c.state = "FIN_FINACK" /\ c.idle > FinFinackWait
ExpiredUnlessClosing(c) == \/ IsFinished(c) /\ c.idle > Remto
                           \/ c.state = "SYN_SYNACK" /\ c.idle > SynSynackWait

Expired(c) == \/ IsFinished(c) /\ c.idle > Remto
              \/ c.state = "SYN_SYNACK" /\ c.idle > SynSynackWait
              \/ c.state = "FIN_FINACK" /\ c.idle > FinFinackWait

MaintLock ==
  /\ holder = "none" /\ holder' = "maint"
  /\ todo' = DOMAIN conhash
  /\ UNCHANGED <<conhash, strays, purgeflag, untracked, heard>>

\* Faulty: purgeflag is not looked at.
MaintVisitAlways(k) ==
  /\ holder = "maint" /\ k \in todo
  /\ todo' = todo \ {k}
  /\ conhash' = IF Expired(conhash[k])
                THEN [j \in DOMAIN conhash \ {k} |-> conhash[j]]
                ELSE conhash
  /\ UNCHANGED <<strays, purgeflag, holder, untracked, heard>>

MaintVisit(k) ==
  /\ holder = "maint" /\ k \in todo
  /\ todo' = todo \ {k}
  /\ conhash' = IF purgeflag /\ Expired(conhash[k])
                THEN [j \in DOMAIN conhash \ {k} |-> conhash[j]]
                ELSE conhash
  /\ UNCHANGED <<strays, purgeflag, holder, untracked, heard>>

MaintUnlock ==
  /\ holder = "maint" /\ todo = {}
  /\ holder' = "none"
  /\ UNCHANGED <<conhash, strays, purgeflag, todo, untracked, heard>>

Purge(flag) ==
  /\ purgeflag' = flag
  /\ UNCHANGED <<conhash, strays, holder, todo, untracked, heard>>

Tick ==
  /\ conhash' = [k \in DOMAIN conhash |-> [conhash[k] EXCEPT !.idle = Older(@)]]
  /\ strays' = [k \in DOMAIN strays |-> [strays[k] EXCEPT !.age = Older(@)]]
  /\ heard' = [d \in Directions |-> Older(heard[d])]
  /\ UNCHANGED <<purgeflag, holder, todo, untracked>>

-----------------------------------------------------------------------------
Init ==
  /\ conhash = [k \in {} |-> NoConnection]
  /\ strays = [k \in {} |-> NoConnection]
  /\ purgeflag = TRUE
  /\ holder = "none" /\ todo = {}
  /\ untracked = FALSE
  /\ heard = [d \in Directions |-> MaxAge]

Next ==
  \/ \E p \in Packets : ProcessPacket(p)
  \/ MaintLock \/ MaintUnlock \/ \E k \in SocketPairs : MaintVisit(k)
  \/ \E flag \in BOOLEAN : Purge(flag)
  \/ Tick

Spec == Init /\ [][Next]_vars

\* The maintenance thread runs for ever and time passes; nothing obliges
\* packets to arrive or the user to press a key.
Fairness == /\ WF_vars(MaintLock) /\ WF_vars(MaintUnlock)
            /\ \A k \in SocketPairs : WF_vars(MaintVisit(k))
            /\ WF_vars(Tick)

FairSpec == Spec /\ Fairness

-----------------------------------------------------------------------------
(* Properties. *)

Endpoints == UNION {k.ends : k \in SocketPairs}
Connections ==
  [src : Endpoints, dst : Endpoints, state : States,
   finack : [Sides -> 0 .. Word - 1], recvd : [Sides -> BOOLEAN], idle : 0 .. MaxAge]

\* The type invariant of the container and of the guesser's table.
TypeOK ==
  /\ DOMAIN conhash \subseteq SocketPairs
  /\ \A k \in DOMAIN conhash : conhash[k] \in Connections
  /\ DOMAIN strays \subseteq SocketPairs
  /\ \A k \in DOMAIN strays :
       strays[k] \in [src : Endpoints, dst : Endpoints, age : 0 .. MaxAge]
  /\ purgeflag \in BOOLEAN /\ untracked \in BOOLEAN
  /\ holder \in {"none", "maint"} /\ todo \subseteq DOMAIN conhash
  /\ heard \in [Directions -> 0 .. MaxAge]

\* A packet finds a connection or a stray in its hash table exactly when it
\* runs between the same two endpoints, whichever way it goes
\* (SocketPair.cc:27-31, "so packets heading in either direction will match
\* the same connection").
FoundByItsPackets ==
  \A p \in Packets :
    /\ \A k \in DOMAIN conhash : SocketPair(p) = k <=> Match(conhash[k], p)
    /\ \A k \in DOMAIN strays : SocketPair(p) = k <=> Match(strays[k], p)

Tracked(k, states) == k \in DOMAIN conhash /\ conhash[k].state \in states
Removed(k) == k \in DOMAIN conhash /\ k \notin DOMAIN conhash'
Added(k) == k \notin DOMAIN conhash /\ k \in DOMAIN conhash'

\* The directions of the socket pair k, and how long both have been silent.
Both(k) == {d \in Directions : {d[1], d[2]} = k.ends}
SilentFor(k, n) == \A d \in Both(k) : heard[d] > n

\* The maintenance thread removes a connection that is opening, closing or
\* reset only when no packet was captured on its socket pair, in either
\* direction, for longer than the timeout of its state, and never one that
\* is open or half open (TCContainer.cc:183-189).
RemovedOnlyWhenSilent ==
  [][\A k \in SocketPairs : Removed(k) =>
       \/ Tracked(k, {"CLOSED"})
       \/ Tracked(k, {"RESET"}) /\ SilentFor(k, Remto)
       \/ Tracked(k, {"SYN_SYNACK"}) /\ SilentFor(k, SynSynackWait)
       \/ Tracked(k, {"FIN_FINACK"}) /\ SilentFor(k, FinFinackWait)]_vars

\* A connection that has closed never comes back to life: until it is
\* removed its record only grows older, whatever is captured.
ClosedIsFinal ==
  [][\A k \in SocketPairs : Tracked(k, {"CLOSED"}) /\ ~Removed(k) =>
       \E n \in 0 .. MaxAge : conhash'[k] = [conhash[k] EXCEPT !.idle = n]]_vars

\* A connection enters the table because of a SYN just captured from its
\* client, or because both its ends were heard within the guessing window.
AddedOnEvidence ==
  [][\A k \in SocketPairs : Added(k) =>
       LET c == conhash'[k]
       IN  IF c.state = "SYN_SYNACK"
           THEN heard'[<<c.src, c.dst>>] = 0
           ELSE /\ c.src.port >= c.dst.port
                /\ \A d \in Both(k) : heard'[d] < GuessWindow]_vars

\* A closed connection is removed, unless the user pauses the display.
ClosedIsRemoved ==
  \A k \in SocketPairs :
    Tracked(k, {"CLOSED"}) ~> ~purgeflag \/ ~Tracked(k, {"CLOSED"})

\* If a socket pair falls silent and the display stays unpaused, a record
\* that is waiting for its first answer, closing or finished goes away.
Hushed(k) == purgeflag /\ \A d \in Both(k) : heard[d] = MaxAge
SilentIsRemoved ==
  \A k \in SocketPairs :
    <>[]Hushed(k) => <>[]~Tracked(k, {"SYN_SYNACK", "FIN_FINACK", "CLOSED", "RESET"})

\* The container implements the table of connections that the display is
\* modelled against: what socket pairs, states and ages there are in it,
\* nothing else makes a connection appear or go.  While the display is paused
\* nothing goes, even in the middle of a maintenance pass (tcptrack.1: "all
\* currently displayed connections will remain in the display").
Abstract == INSTANCE ConnTable
              WITH Keys <- SocketPairs, table <- DOMAIN conhash,
                   ripe <- {k \in DOMAIN conhash : Expired(conhash[k])},
                   purging <- purgeflag
RefinesTable == Abstract!Spec

\* TCContainer.h:115-116 calls conhash2 "a hash table that stores all the
\* connections we're currently tracking": every connection made is in it.
AllAreTracked == ~untracked

=============================================================================
