# tcptrack in TLA+

tcptrack captures packets with libpcap, follows the TCP connections it sees and
lists them on a terminal.  It is a program of about 4,000 lines of C++,
licence headers included, and has five kinds of threads.  This directory holds a model of its
core in TLA+, the TLC configurations that check it on small instances, and
proofs, checked by TLAPS, of what holds for instances of any size.  Paths such
as `TCContainer.cc:138` are relative to `src/src/`.

## 1. Inventory

| Part | State it keeps | Operations |
|---|---|---|
| `Sniffer` | `pb` (where packets go) under `pb_mutex`; the pcap handle | `dest`, `init`, `processPacket` (called by `pcap_loop`) |
| `util.cc`, `TCPPacket`, `TCPHeader` | none; a parsed packet | `getnlp` strips the link header, `checknlp` turns bad packets down, the constructors assert what `checknlp` checked |
| `PacketBuffer` | queues `pq1`, `pq2`; pointers `inq`, `outq`; `c` under `c_lock`; `inq_lock`, `inq_flag` | `dest`, `pushPacket`, `maint_thread_run` |
| `TCContainer` | `conhash2`: socket pair to connection; `guesser`; `purgeflag`; `conlist_lock` | `processPacket`, `purge`, `maint_thread_run`, `lock`/`unlock` (with a timeout), `stop` |
| `TCPConnection` | state 1..6, the two expected FIN acknowledgements and whether they came, time of the last packet; `total_byte_count`, `total_bytes_this_interval`, `avgstack`; its lookup thread | constructor, `acceptPacket`, `isFinished`, `getIdleSeconds`, `updateCounters`, `purgeAvgStack`, `recalcAvg`, `doNameLookup`, the destructor that joins it |
| `Guesser` | `hash`: socket pair to one stray packet | `addPacket` |
| `SocketPair` | two endpoints | `==`, `hash`: both must be blind to the direction of a packet |
| `TextUI` | the iterator of the current screen, `paused`, `sort_type`, `doffset`, the size of the screen | `displayer_run` (keys, lock, draw), `drawui`, `print_bps`, `stop` |
| `SortedIterator` | an array of pointers to connections | constructor, `sort` with four comparison functions, `getNext` |
| `TCPTrack`, `main` | `ferr`, `quitflag`, the four objects above | `run`, `shutdown`, `fatal`, the SIGINT handler |
| `Collector`, `TCPCapture`, addresses, errors, options | values | |

How they interact:

    pcap thread          packet buffer thread         maintenance thread
    Sniffer::process ->  PacketBuffer::maint ->  TCContainer::processPacket
      pb_mutex, c_lock,    inq_lock; c_lock         conlist_lock
      inq_lock             conlist_lock               ^        |
                                                      |        v
    display thread (TextUI): conlist_lock ------------+   removes, collects
    main thread (TCPTrack::run): waits, then detaches, stops, deletes
    one name lookup thread per connection: joined by the destructor, which the
      maintenance thread runs under conlist_lock

What is hard:

  - *Interleaving.*  The buffer swaps two queues of which only one has a lock;
    `purgeflag` is written without a lock in the middle of a maintenance pass;
    the display keeps pointers to connections between two refreshes.
  - *Ordering and loss.*  The state machine of a connection only sees what
    passes the sniffer: segments that are lost behind it, sent again, missed by
    the capture, or that carry data, a FIN and an acknowledgement at once.
  - *Numbers.*  Sequence numbers wrap, lengths are unsigned differences, zero
    stands for "no FIN seen".
  - *Time.*  Records are removed after timeouts that depend on their state; the
    averages are made of passes that may be late, at an interval that the user
    changes, with time stamps of a clock that may be set back; the sort compares
    idle times while the clock goes on.
  - *Shutdown and errors.*  Objects are detached and deleted while the threads
    that use them run; `lock()` gives up after two seconds and throws.

What makes each part correct:

  - *Connection*: shown as closed only when both directions are, recognised as
    over when it is, not shown as established too early; it is not freed while its
    lookup thread writes into it.
  - *Container*: a packet is counted on its own connection only; nothing is
    removed while its endpoints talk, nor while the display is paused; what is
    over, or never finishes opening or closing, goes away; every new connection
    is tracked.
  - *Averages*: every byte is counted once, the speed shown is the average of the
    last seconds, and it fades when nothing comes any more.
  - *Guesser*: a connection is invented only from packets of both ends.
  - *Buffer*: a FIFO queue; no queue is used by two threads at a time; nothing
    reaches the container after it was detached; no packet leaks.
  - *Packet checks*: what is let through meets what is asserted later, and no
    correct packet is turned down.
  - *Display*: what is drawn is alive; pausing freezes the list; what is tracked
    is listed; no row lies on the status lines and no key scrolls past a row that
    was not shown; columns do not overlap; the orders of the rows are orders.
  - *Life cycle*: nothing is used after it was deleted; a request to quit or an
    error ends the program; stopping never hangs.

## 2. Modules

    TCPConnection     operators: one record, one packet          (EXTENDS Integers)
      Conversation    two TCP peers, a network, one record       (MCConversation)
        ConversationProofs
          ClosingProofs
      Guesser         operators: socket pairs, the table of stray packets
        TCContainer   the container, its thread, purge(), time   (MCTCContainer)
          TCContainerProofs
    ConnTable         what the container promises to the threads around it:
                      refined by TCContainer and by Display
    Display           the display between the threads that change the container;
                      its iterator and its rows; name lookups    (MCDisplay)
      DisplayProofs
    Averages          the byte counters of one connection        (MCAverages)
      AveragesProofs
    LifeCycle         start, failure and end of all threads      (MCLifeCycle)
      LifeCycleProofs
    PacketChecks      one frame, from capture to TCPPacket       (MCPacketChecks)
      PacketChecksProofs
    PacketFifo        what the buffer promises
      PacketBuffer    three threads, three mutexes, two queues   (MCPacketBuffer)
        PacketBufferProofs
    SortedIterator    operators: the four orders of the rows
    Layout            operators: the columns, the width of numbers
                      (proofs about both are in DisplayProofs)

The container module uses the operators of `TCPConnection` and `Guesser`
directly: `processPacket()` calls them under `conlist_lock`.  The buffer hands
packets to the container one at a time, so the two meet in one step,
`MaintProcess` of the buffer and `ProcessPacket` of the container.  The container
and the display meet in `ConnTable`: the container implements it, and all that
the display's environment does to its connections is allowed by it.

**TCPConnection.**  A record `[src, dst, state, finack, recvd, idle]`: `src` is
the client; `finack[s]` and `recvd[s]` are `finack_from_src`/`_dst` and
`recvd_finack_from_src`/`_dst`.  `AcceptPacket` composes the three parts of
`acceptPacket()` in their order: note a FIN, look at an acknowledgement if the
state *before* the packet was FIN_FINACK, go to the next state; then RST
overrides.  `PayloadLen` follows `TCPPacket.cc`: unsigned, and computed from the
payload length field when the packet is IPv6.  The direction of a packet is found
from its addresses alone, as in the code, hence `Senders` is a set.  `seq_t`
is 32 bits; `Word` is the number of its values.

**Conversation.**  The environment: two peers that follow TCP (handshake,
cumulative and piggybacked acknowledgements, half close, FIN with data,
retransmission of the oldest segment, abort by RST).  A segment passes
`before` (sender to sniffer) and `after` (sniffer to receiver); it can be lost
in either, be overtaken in the first, or pass the sniffer without being
captured.  `spent` counts these disturbances, `Budgets` bounds them.  The record `conn` changes
in `Capture` only.  The peers are external; they are what gives the properties
of the record a meaning: `CLOSED` is compared with what the peers did.

**Guesser.**  `AddPacket` returns the new table and the guessed connection; the
branches are those of `Guesser.cc:21-99`.  `SocketPair(p)` is what the two hash tables
look for: the unordered pair of endpoints (`==`) and the sum of `hash()`, with
the hashes of the addresses as a parameter.

**TCContainer.**  `conhash` and `strays` are functions from socket pairs.  `ProcessPacket` is one step, because it runs under `conlist_lock`; its
four disjuncts are the paths of the code, `Insert` is `hash_map::insert`, which
keeps an old entry.  A maintenance pass is `MaintLock`, one `MaintVisit` per
connection in any order (the order of a hash table), `MaintUnlock`: `purge()`
and the clock may come in between.  Time is relative: `idle` and `age` are
seconds since the last packet, counted by `Tick` up to `MaxAge`.  `heard` is a
history variable, the age of the last packet in each direction as the *wire*
saw it, and `untracked` records an insertion that did nothing.

**PacketBuffer.**  `pc` says where each of the threads is; one action per locking
call or piece of code between two of them.  `pthread_cond_wait` is `MaintSleep`
and `MaintWake`; a signal sets `woken` only if somebody sleeps, and
`SpuriousWakeup` is what POSIX permits.  The main thread detaches the sniffer,
then the buffer, then deletes the container, in the order of `TCPTrack::run`.
`live` is the set of allocated packets.

**PacketFifo.**  Put, take, close.  `Queue` in `PacketBuffer` is the refinement
mapping: the rest of `outq` followed by `inq`, without the packet that was just
handed over and is not popped yet.

**PacketChecks.**  One frame goes through `getnlp()`, `checknlp()` and the
constructors.  A frame is a record of the fields these look at; `Frames` is the
set of those that may be captured.  `Assertions` collects what `TCPPacket`,
`TCPHeader` and `PacketBuffer` assert, and `Correct` says, apart from the code,
which frames hold a TCP packet that should be let through, cut at `SNAPLEN`.
Header fields are what the code reads at the place where it looks.  On a NULL
link the code skips no header, so it does not see the packet that was sent;
`Correct` leaves these links out.

**ConnTable.**  The table as the other threads see it: a packet puts a connection
in or makes it fresh, time makes connections ripe, and a pass takes out the ripe
ones it visits while purging is on.  `Abstract` in `TCContainer` and in `Display`
is the refinement mapping; `ripe` is what `Expired` holds of, or the status
"expired".

**Averages.**  One connection, the passes of the maintenance thread, the refreshes
of the display, the keys + and -, and two clocks: `now` is time, `clock` is what
`gettimeofday()` says.  `Pass` is `updateCounters()` with the sleep to the next
multiple of the interval that follows it, `Draw` is `recalcAvg()`.  `arrivals`,
`last`, `inTime` and `setAt` are history variables: when each packet came and
which pass moved it, how many passes in a row came one interval apart, and when
the clock was last set back.  The counters keep their widths: `Word` values for
`unsigned int`, `LongWord` for `uint64_t`.

**Display.**  Connections are objects with a state: new, tracked, expired (the
maintenance thread may remove it now), collected (in its destructor) or deleted.
An iterator is the set of objects it points to; it is drawn in any order, since
the order is the hash table's or that of a sort.  The display
thread is one step per turn of `displayer_run()` up to the lock (`UiKey`), under
the lock (`UiLock`, `UiDraw`) and at its release (`UiUnlock`); a maintenance pass may
be under way at any key.  `LineAfter` is the loop of `drawui()`: `ic_i` and `i` of the
code are the index and the value of `line`; IPv6 connections (`tall`) take two lines.
`lookups` are the threads that run `doNameLookup()`; `MaintDelete` is the
destructor, which waits for its thread under the lock.  `locked` and
`listed` are history variables: whether
the iterator was made under the lock, and what the last refresh showed since the
pause key.  The very first iterator (`TextUI.cc:132`) is made without the lock;
if the display is paused at once, while a pass is under way, its connections may
be deleted as well.  The properties are about the iterators made under the lock.
While paused the scroll offset is compared with the size of the container and not
of the iterator on the screen, so scrolling may then show no row.

**SortedIterator.**  The four comparison functions.  `GetIdleSeconds` reads the clock
at every call, up to four times in a comparison: `t` is what the readings return.

**Layout.**  The columns as functions of the width of the terminal, and the number
of characters that `print_bps()` writes, by way of what `printf()` rounds to.

**LifeCycle.**  Five threads, each reduced to the locks it takes and the places
where it can be stopped, cancelled or fail.  The main thread runs through
`TCPTrack::run()`: it starts the threads, waits for `quitflag`, and then, by the
normal path or in the catch block (`caught`), stops, detaches and deletes.  `TimedOut` is
`lock()` giving up; it is possible whenever somebody else holds the lock, since
a maintenance pass may join name lookups of any length.  `Fatal` is `fatal()`;
the buffer's thread has no handler, so its exceptions abort the program.
`DisplayThrow` keeps `conlist_lock`, as `drawui()` does on a small screen.
`queue` counts packets; how they are queued is the matter of `PacketBuffer`.

Operators marked *Faulty* are variants of the definition that follows them,
each with one mistake that code of this kind might have.  No specification uses
them; replacing the definition by its variant makes the property it is listed
with in `PROJECT.json` fail.

## 3. Runs

| Run | Instance | Result |
|---|---|---|
| `conversation_peers` | IPv4, two hosts, a data segment, FIN numbers that wrap; either retransmissions and an abort, or a lost, a missed and a resent segment, or segments that overtake one another, or aborts by one peer or both with a segment lost or missed; 2,137,000 states | `ClosedMeansBothClosed`, `QuietMeansFinished`, `AbortedMeansFinished`, `UpMeansOpened` hold |
| `container_table` | the flag combinations that the code tells apart on one socket pair, a SYN on another that shares an endpoint, guessing on; 167,000 states | eight properties hold: packets find their entry, what makes connections appear and disappear, `CLOSED` is final, removal of closed and of silent connections, refinement of `ConnTable` (pausing included) |
| `averages_window` | a packet or two, a clock that may be set back once, one change of the interval, late passes; 8,100,000 states | `EveryByteOnce`, `RateIsAverage`, `RateFades` hold |
| `buffer_fifo` | three packets, two spurious wakeups, stop at any time; 44,000 states | `NoQueueRace`, `DrainedBeforeSwap`, `LiveIsOwned`, `NothingAfterDetach`, `RefinesFifo`, `RefinesFairFifo` and `SnifferReturns` hold |
| `display_pause` | three connections, one with a slow name lookup, all IPv4 or one IPv6, two lines for rows; 342,000 states | `PausedIsLive`, `ScrollSkipsNone`, `CollectedIsDeleted`, `PausedListsSame`, `TrackedIsListed` and the refinement of `ConnTable` hold |
| `packets_frames` | 294,000 frames around every limit of the code | `AssertionsHold`, `FieldsCaptured`, `CorrectIsAccepted` hold |
| `lifecycle_stop` | up to two packets in the buffer, failures everywhere; 36,000 states | `DeletedIsUnused`, `LeavingEnds`, `FailureEnds` hold |
| `conversation_ipv6` | an orderly exchange over IPv6 | **violated**: `QuietMeansFinished` |
| `conversation_loopback` | an orderly exchange between two ports of one host | **violated**: `ClosedMeansBothClosed` |
| `container_untracked` | one socket pair | **violated**: `AllAreTracked` |
| `display_unpause` | as `display_pause` | **violated**: `DrawnIsLive` |
| `lifecycle_quit` | as `lifecycle_stop` | **violated**: `QuitIsHeard` |

The violated properties state what a comment of the code says; `findings` in
`PROJECT.json` quotes it:

  - Over IPv6 the length of a payload comes out 40 bytes short, so a FIN waits
    for an acknowledgement that nobody sends: an orderly close stays in
    CLOSING until the 60 second timeout.
  - When both endpoints have the same address (a connection over the loopback
    interface) one segment is counted for both directions.
  - A SYN on a socket pair whose CLOSED record was not removed yet makes a
    connection that `hash_map::insert` rejects.  It is not tracked, nor freed.
  - The pause key, pressed a second time, lets the maintenance thread purge before
    the display has dropped the iterator it kept: deleted connections are drawn.
  - `run()` waits for `quitflag` once, without a predicate.  A thread that fails, or
    a user who quits, before the wait is not heard; every later `fatal()`
    returns early, and the program stays although all its threads are gone.

Seen while modelling, not checked by a run:

  - A RESET record keeps taking packets, which restart its idle time, and so may
    stay for ever; a record in SYNACK_ACK (handshake stopped after the SYN|ACK)
    has no timeout.
  - An error of the display on a screen that became too small is not printed if
    the packet buffer's thread is in `processPacket()`, because its `lock()` times
    out and nothing catches the exception.  The same happens when the
    maintenance thread waits more than two seconds for a name lookup, which it
    does with the lock held: the next `lock()` of another thread throws.
  - The loop of `drawui()` stops when `i` *equals* the line of the status bar.  An
    IPv6 connection adds two, so it may step over it: rows are then drawn over the
    status lines, and the page keys, which count lines, skip connections.
    `ScrollSkipsNone` leaves two-line rows out for that reason.
    On a screen of four lines the page keys do not move.
  - `IPv6Address::hash()` takes a 16 bit word although its comment speaks of the
    last four bytes; it is a function of the address, which is all that
    `FoundByItsPackets` needs.
  - The total of a connection is 64 bits but is drawn and summed in 32
    (`TextUI.cc:352`, `443`).  The words "Sorted by" on the status line are cut
    off below 72 columns, and a number of nine characters below 78.
  - `refresh_intvl` is read twice to compute a sleep (`TCContainer.cc:168`) and may
    change in between.

The properties, or the budgets, leave out some behaviours in which the
record is known to be wrong, so that the properties can be checked on the rest:

  - An acknowledgement number of 0 matches the initial value of `finack`, so in
    FIN_FINACK it counts as the acknowledgement of a FIN never seen.  The initial
    sequence numbers of the runs make only FINs be acknowledged by 0.
  - A retransmitted SYN|ACK takes the record from SYNACK_ACK to UP: `UpMeansOpened`
    says `Never({"resyn"})`.
  - A FIN that piggybacks the last ACK of the handshake, and an acknowledgement
    that the capture missed or that overtook its FIN, leave the record in
    FIN_FINACK; so may a FIN that is
    retransmitted after its acknowledgement was captured and is then lost.
    `QuietMeansFinished` says `Never({"lost", "missed", "swapped"})`.  The
    ChangeLog (1.1.2) mentions connections stuck in CLOSING "due to dropped
    packets"; the 60 second timeout is for them.
  - A record that does not exist because the capture missed the SYN cannot end, and
    when both peers
    abort at once they are gone before either RST has reached the sniffer: `AbortedMeansFinished`
    says `Never({"missed"})` and `spent["abort"] <= 1`.
  - When the clock is set back, the entries from before look young until it has
    caught up or they are followed by an old one; the exact counts
    (`EveryByteOnce`, `RateIsAverage`) are stated for a clock that was not set.
    `RateFades` covers both.

**Bounds.**  The state machine of a record has no counters: a repeated segment
matters at most once per side and per flag, so one or two retransmissions, one
loss, two overtakings and one data segment reach every combination of `finack` and
`recvd`.  `Word` is 128 in conversations (no more than ten sequence numbers are
used) and 8 in the container, where the sequence number is always the same.  The
container compares ages with four limits; `MaxAge = 2` lies beyond all of them: 2, 30,
60 and 60 seconds (to remove a finished record, an unanswered SYN, a closing one, and
to guess) become 0, 1, 1 and 2, of which the first three are exceeded and the
last is not reached, so that their order is kept up to ties.  Two socket pairs are enough for the hash tables, since `processPacket` touches
one.  In the display three connections allow for one that is kept, one that is
deleted and one that comes later, and for offsets on both sides of a page:
`SizeY = 5` leaves two lines for rows and makes a page of one.  In the averages a
second is one unit of time, the interval is 1 or 2, so that the window of three
seconds is or is not a multiple of it; `Word = 16` is small enough for the counter
of an interval to wrap with two packets of 12 bytes; the clock goes back by 8,
more than the window, and `MaxTime = 11` lies beyond the silence that `RateFades`
waits for.  The
life cycle only tells an empty buffer from one that is not, so two packets
are enough; the frames of `packets_frames` have the lengths around each
limit, and the proofs cover the others.  Three packets fill both queues and leave one in the sniffer's hands; the
proofs remove the bound.  `CHECK_DEADLOCK` is off for conversations, for
the averages, for the buffer, for the frames and for the life cycle, all of which end.

**Fairness.**  `TCContainer`: weak fairness of the steps of the maintenance
thread, which is an endless loop around a `nanosleep`, and of `Tick`.  Nothing
obliges packets to arrive or keys to be pressed.  `PacketBuffer`: weak fairness of
each of the two threads; `SnifferCapture`, the spurious wakeup and the main
thread are not fair: there may be no packet, no wakeup and no end.  `Display`: weak fairness of what a thread does while it holds the lock and of the
display's own steps, strong fairness of `UiLock`, since the other holders release
the lock and then sleep; and weak fairness of the end of a name lookup, since
`getnameinfo()` returns, if only with an error; connections and keys come as they like.  `LifeCycle`:
weak fairness of each thread; strong fairness of `SnifferDest` and of the
cancellation of the sniffer, which waits in `pcap_loop()` between packets with
`pb_mutex` free; capturing, failing at will, the interrupt and spurious wakeups
are not fair.  A timed lock needs no strong fairness: either it is free or its time runs out.
In `PacketBuffer` the mutexes need no strong fairness either: the number of packets is finite,
so no thread can be overtaken for ever.  `Averages` and `Conversation` have safety and
action properties only and assume none.

## 4. Proofs

`PacketBufferProofs` proves, for every set of packets and every number of
spurious wakeups, from the assumption of `PacketBuffer` only (None is neither a
packet nor a thread):

| Theorem | Statement |
|---|---|
| `TypeCorrect` | `Spec => []TypeOK` |
| `LocksAreHeld` | `Spec => []LockDiscipline` |
| `QueueRaceFreedom` | `Spec => []NoQueueRace` |
| `SwapWhenDrained` | `Spec => []DrainedBeforeSwap` |
| `DetachIsABarrier` | `Spec => NothingAfterDetach` |
| `BufferIsFifo` | `Spec => RefinesFifo` |
| `PacketsAreOwned` | `Spec => []LiveIsOwned` |

`PacketChecksProofs` proves, for every set of frames whose fields have the widths
they have in `headers.h` (`FramesAssumption`), captured at any length:

| Theorem | Statement |
|---|---|
| `TypeCorrect` | `Spec => []TypeOK` |
| `ChecksMeetAssertions` | `Spec => []AssertionsHold` |
| `HeadersAreCaptured` | `Spec => []FieldsCaptured` |
| `NoCorrectPacketIgnored` | `Spec => []CorrectIsAccepted` |

Its invariant adds to the properties what a step hands to the next: `Stripped`, the
length that `getnlp()` computed, and `Checked`, that a packet let through has passed
one of the two lists of checks.  The lemma `CorrectPasses` holds the arithmetic: 18
bytes of link header, 60 of IPv4 header and 20 of TCP header still fit in
`SNAPLEN`.

The inductive invariant of the buffer is the conjunction of the type invariant,
`LockDiscipline`, `inq # outq`, `DrainedBeforeSwap` and three small facts: the
maint thread has a packet at the head of `outq` while it processes and pops
(`HandsFull`), the buffer stays detached once it is (`DetachedStays`), and the
sniffer pushes only while the buffer is attached (`AttachedToPush`).  None of the
first four is inductive alone: `NoQueueRace` needs the locks; that the sniffer
never pushes to `outq` needs `inq # outq`; and the FIFO order needs `outq` to be
empty at a swap, which needs that nobody but the maint thread pushes or pops
there.  The refinement is proved step by step: `SnifferPush` is `Put`,
`MaintProcess` is `Take`, `DetachBuffer` is `Close` and everything else,
`MaintPop` and the swap of the pointers included, is a stutter.
Ownership has an invariant of its own over the *places* in the queues: no packet
is in two of them (`QueuedOnce`), what the sniffer holds is in none until it has
pushed it (`InHands`), a live packet has a place (`LiveIsPlaced`), and the main
thread detaches the sniffer before the buffer (`DetachOrder`), without which
`pushPacket()` would drop a packet that nobody frees.

`TCContainerProofs` proves, for every set of packets, every hash of addresses and
any timeouts within `ContainerAssumption` and `PacketsAssumption` (the widths of the
header fields, and ports other than zero, by which `SocketPair` divides and which
its constructor asserts):

| Theorem | Statement |
|---|---|
| `TypeCorrect` | `Spec => []TypeOK` |
| `PacketsFindTheirRecords` | `Spec => []FoundByItsPackets` |
| `NoTalkingConnectionRemoved` | `Spec => RemovedOnlyWhenSilent` |
| `ClosedStaysClosed` | `Spec => ClosedIsFinal` |
| `NoConnectionInvented` | `Spec => AddedOnEvidence` |
| `TableImplemented` | `Spec => RefinesTable` |

A record is found only because it is *filed* under the key of its own endpoints,
in either direction (`Filed`), which is why `processPacket()` may hand it a packet
that `match()` accepts and not move it.  That a record is not removed while its
ends talk needs its idle time to be at most the time since a packet of it was
captured (`IdleSinceHeard`), and that a guess is evidence needs the same of a kept stray
(`StraysHeard`): both relate the program's state to what was on the wire, and
neither follows from the types.

`DisplayProofs` proves, for any finite set of connections, any name lookups and any screen of
four lines or more:

| Theorem | Statement |
|---|---|
| `PausedConnectionsLive` | `Spec => []PausedIsLive` |
| `PausedListIsFixed` | `Spec => PausedListsSame` |
| `DisplayKeepsTheTable` | `Spec => RefinesTable` |
| `TypeCorrect` | `Spec => []TypeOK` |
| `KeysSkipNothing` | `Spec => ScrollSkipsNone` |

The invariant says that `paused` and the container's `purgeflag` are opposites
between two keys (`FlagsAgree`), that an iterator outlives the lock on a paused
display only (`KeptIfPaused`, `PausedLater`) and that what was listed since is the
whole of it (`ListedIsIter`).  A deletion needs `purgeflag`, so none can reach
the iterator; `PausedIsLive` alone is not inductive because unpausing and pausing again
would keep an iterator made before.

The other two rest on what the loop of `drawui()` computes.  The line that it has
reached after so many connections is a recursive function; the lemmas say that there is
one (`IterationExists`), that it counts the rows if each takes one line
(`OneLineEach`), and that the loop ends at the last connection or on the line of the status
bar (`LoopEnds`, the least such number).  The invariant is `ScreenFull`: a refresh that
left something out has filled the lines from the offset on.  A key moves the offset by
no more than these, so the next refresh starts at most where this one ended.

The same module proves facts about the operators of `SortedIterator` and `Layout`,
for all integers:

| Theorem | Statement |
|---|---|
| `ComparisonIsAnOrder` | while the clock stands still, each comparison function is antisymmetric and transitive, ties included, as `qsort()` demands |
| `TickMovesNothingFar` | if it ticks once, only connections whose last packets are within a second of one another are affected |
| `ColumnsFit` | from 69 columns on, everything up to the speed is on the screen, from 77 on the bytes, and no column of a wide terminal is given away |
| `NumbersFit` | a number below 2^32 takes eight or nine characters, and never reaches the next column |

They are split by the sort type and by the ranges of `print_bps()`; the leaves are
linear arithmetic.

`LifeCycleProofs` proves, for a buffer of any capacity:

| Theorem | Statement |
|---|---|
| `TypeCorrect` | `Spec => []TypeOK` |
| `NothingUsedAfterDelete` | `Spec => []DeletedIsUnused` |

Its invariant follows main through the catch block of `TCPTrack.cc`: what has been
joined at each place (`Joined`), what has been deleted (`DeletedInOrder`), and that
a thread that is gone stays so.

`ConversationProofs` proves, for any budgets of disturbances, any data and any initial
sequence numbers:

| Theorem | Statement |
|---|---|
| `TypeCorrect` | `Spec => []TypeOK` |
| `EstablishedMeansOpened` | `Spec => []UpMeansOpened` |
| `AbortIsSeen` | `Spec => []AbortedMeansFinished` |

The handshake goes through the phases `NotOpened`,
`SynSent`, `SynAckSent` and `Opened`; in each but the last no queue holds more
than one segment and its flags are known, so that losing, missing or overtaking
cannot produce the ACK that would take the record to UP.  The phases hold as
long as no SYN or SYN|ACK was sent again; the property is false otherwise (see
above).  The types need to know whose segments a queue holds and which fields they have (`Typed`).  An abort is seen because, unless a
segment was missed, there are only SYNs of the client as long as there is no record
(`RecordMade`), and because a RST that is past the sniffer means that the record is
finished, which no later segment undoes but another RST (`OneAborts`).

`ClosingProofs` proves how a conversation ends, for any budgets of disturbances,

| Theorem | Statement |
|---|---|
| `ClosedIsMutual` | `Spec => []ClosedMeansBothClosed` |
| `QuietIsFinished` | `Spec => []QuietMeansFinished` |

from three assumptions: `Version = 4` and `ClientAddr # ServerAddr`, since the runs
`conversation_ipv6` and `conversation_loopback` show the properties false without
them, and `NumbersApart`: there is room above the initial sequence numbers for
the data, so that only the number that follows a FIN may wrap around.  Without it an
acknowledgement of 0 meets the initial value of `finack`, and a number may be used
twice.  `MCConversation` assumes `NumbersApart`, so TLC evaluates it for the instance.

The core is `NumbersKept`: each peer's numbers are split into those its FIN does
not use up (`Plain`) and the one after the FIN, and every segment in a queue
acknowledges a `Plain` number unless its sender has heard the FIN (`Acked`).  It is
about both ends of both queues at once: sending a FIN makes the set of plain
numbers smaller than what `snd` covers, and must not turn an older acknowledgement
into one of the FIN.  `RecordKept` adds what the record remembers: `finack[s]`, the
acknowledgement it expects of side `s`, is 0 or the number after the FIN of the other
side, and `recvd[s]` is set only when `s` has heard that FIN; `CLOSED` needs both.  For `QuietIsFinished` the invariant `Seen`
compares the record with what has passed the sniffer, as long as nothing was lost,
missed or overtaken: a FIN that has been captured is remembered, and so is
its acknowledgement, so that at rest both are.

`AveragesProofs` proves, for any sizes of packets, any lateness of the passes, any
use of the keys + and - and any number of settings of the clock:

| Theorem | Statement |
|---|---|
| `TypeCorrect` | `Spec => []TypeOK` |
| `BytesCountedOnce` | `Spec => []EveryByteOnce` |
| `SpeedIsTheAverage` | `Spec => RateIsAverage` |
| `SilentHasNoSpeed` | `Spec => RateFades` |

The assumption says that an `uint64_t` holds the window and one interval in
microseconds, and that the clock does not start so early that it is set back into its first
three seconds.  Nothing bounds the sum of the sizes: the counter of an interval and the sum
of `avgstack` may wrap, and the theorems are about their values modulo `Word`.

The sums are recursive functions over a list.  The lemmas `SumStep`, `SumPlus`,
`SumSame` and `SumOfNothing` say what they are, by an induction over a *set* of
natural numbers (the lemma `Induct`, which follows from the well-foundedness of
`<` and needs no operator parameter).  `BytesIn(arrivals, T)` is the sum of the packets
moved at one of the times `T`; that it is additive over disjoint sets of times
(`BytesUnion`) is the reason why no byte counts twice.

While the clock was not set the invariant gives each entry the time of the pass that made it
(`PassedAt`), whose bytes it holds (`Marked`).  The entries are in the order of
their times (`Descending`), all of them in the window, and no pass of the window that moved
anything lacks its entry (`Listed`): the last is why `purgeAvgStack()` may drop
everything behind the first old entry.  `Calm` is what remains after the clock has been
set back and is what `SilentHasNoSpeed` needs: after the first pass that follows the last
packet and the last setting, entries with bytes are not newer than that pass and
no entry is older than the window.  For the average, `Paced` counts the passes in
time: the last `inTime` of them lie one interval apart, and no packet was moved in
between.  Hence `avgstack` has one entry for every interval of the window, rounded up,
and the time it spans is that window.

Model-checked only: liveness (`RefinesFairFifo`, `SnifferReturns`,
`ClosedIsRemoved`, `SilentIsRemoved`, `TrackedIsListed`, `CollectedIsDeleted`,
`LeavingEnds`, `FailureEnds`), since TLAPS does not reason about ENABLED
and fairness.  Every other property of a run that passes is a theorem.  There is no RECURSIVE
operator in any module; induction is used where it can be stated with sets (`Induct`),
not with the library's theorems, which take an operator.

## 5. Not modelled

The packet counter and the activity light of a connection, the texts of names, rows
and status lines, a terminal that changes its size between two refreshes,
`qsort()` itself, the pcap calls, the copies and the printing of addresses and captures,
error classes, options and the build files.
Of the life cycle: a constructor that throws before the `try` block, and a SIGINT
handler that interrupts the owner of `quitflag_mutex`.  `PROJECT.json` lists each
part with its reason, and each hazard no property covers with a note.

## 6. Plan

1. *(done)* Connection, conversation, guesser, container, buffer, display, life
   cycle, packet checks; proofs about the buffer and the packet checks.
2. *(done)* `Averages`; reordering in `Conversation`; name lookups and rows in
   `Display`; the hash of `SocketPair`; `ConnTable` and its two refinements;
   `SortedIterator` and `Layout` with their proofs.
3. *(done)* Proofs about the container, the display, the life cycle, the
   handshake and the ownership of packets in the buffer.
4. *(done)* Proofs about the end of a conversation, the rows of the display and the
   averages: every invariant and action property of the runs is a theorem.
5. Open: the steps of the liveness arguments that are safety properties (a variant that
   each pass of the maintenance thread makes smaller); the end of a conversation when
   sequence numbers wrap around in the middle of the data.
