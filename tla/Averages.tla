-------------------------------- MODULE Averages --------------------------------
(***************************************************************************)
(* The throughput of one connection.  acceptPacket() adds the bytes of a   *)
(* packet to two counters, each pass of the maintenance thread moves one   *)
(* of them to the front of avgstack with a time stamp and drops what is    *)
(* older than three seconds, and the display divides the sum of avgstack   *)
(* by the time it spans.  All of it happens under conlist_lock; but the    *)
(* passes may be late, the + and - keys change the refresh interval in     *)
(* between, and the time stamps come from a clock that may be set back.    *)
(*                                                                         *)
(* now is the time that really passes, clock what gettimeofday() returns,  *)
(* both in units of 1/Second of a second.                                  *)
(***************************************************************************)
EXTENDS Integers, Sequences

CONSTANTS Second,          \* units of time in a second, 1000000 in the program
          MinIntvl,        \* 31250, shortest refresh interval
          MaxIntvl,        \* 32000000, longest
          Word,            \* number of values of an unsigned int, 2^32
          LongWord,        \* number of values of an uint64_t, 2^64
          Sizes,           \* totalLen() of the packets
          Epoch,           \* the clock at the start
          Slack,           \* how late a pass may be, for want of the lock
          Setback,         \* by how much the clock may be set back
          MaxPackets, MaxKeys, MaxSets, MaxTime    \* bounds of an instance

ASSUME AveragesAssumption ==
  /\ {Second, MinIntvl, MaxIntvl, Word, LongWord, Epoch} \subseteq Nat \ {0}
  /\ {Slack, Setback, MaxPackets, MaxKeys, MaxSets, MaxTime} \subseteq Nat
  /\ Sizes \subseteq Nat
  /\ MinIntvl <= Second /\ Second <= MaxIntvl
  /\ Epoch > Setback * MaxSets + 3 * Second
  /\ 3 * Second + MaxIntvl <= LongWord

VARIABLES now, clock,
          intvl,      \* TCPTrack::refresh_intvl
          wake,       \* when the maintenance thread next wakes up
          total,      \* total_byte_count
          pending,    \* total_bytes_this_interval
          avgstack,   \* newest entry first, [ts, size]
          rate,       \* avg_bps
          keys, sets, \* how often the interval was changed, the clock set back
          arrivals,   \* history: of each packet its time, its size and the time
                      \* of the first pass after it, or Never
          last,       \* history: time of the last pass
          inTime,     \* history: passes since, each one interval after the other
          setAt       \* history: when the clock was last set back

vars == <<now, clock, intvl, wake, total, pending, avgstack, rate, keys, sets,
          arrivals, last, inTime, setAt>>

history == <<keys, sets, arrivals, last, inTime, setAt>>

Never == MaxTime + 1

Window == 3 * Second     \* "Keep 3 seconds of statistics"
\* The window rounded up to whole intervals.
Span == ((Window + intvl - 1) \div intvl) * intvl

\* The sum of the first n values of f.
SumTo(f, n) ==
  LET upTo[i \in 0 .. n] == IF i = 0 THEN 0 ELSE upTo[i - 1] + f[i]
  IN  upTo[n]

SumOfSizes(s) == SumTo([i \in 1 .. Len(s) |-> s[i].size], Len(s))

-----------------------------------------------------------------------------
\* The constructor and updateCountersForPacket() count the whole packet.
Packet(n) ==
  /\ Len(arrivals) < MaxPackets
  /\ total' = total + n
  /\ pending' = (pending + n) % Word
  /\ arrivals' = Append(arrivals, [at |-> now, size |-> n, moved |-> Never])
  /\ UNCHANGED <<now, clock, intvl, wake, avgstack, rate, keys, sets, last, inTime, setAt>>

\* Faulty: an entry of exactly three seconds is kept; only the entries that
\* are themselves too old are dropped.
PurgeAvgStackLate(s) ==
  LET old == {i \in 1 .. Len(s) : s[i].ts < clock - Window}
  IN  IF old = {} THEN s
      ELSE SubSeq(s, 1, (CHOOSE i \in old : \A j \in old : i <= j) - 1)
PurgeAvgStackEach(s) == SelectSeq(s, LAMBDA e : e.ts > clock - Window)

\* purgeAvgStack(): the first entry that is too old goes with all behind it.
PurgeAvgStack(s) ==
  LET old == {i \in 1 .. Len(s) : s[i].ts <= clock - Window}
  IN  IF old = {} THEN s
      ELSE SubSeq(s, 1, (CHOOSE i \in old : \A j \in old : i <= j) - 1)

\* The sleep to the next multiple of the refresh interval by the clock.
SleepTime(t) == intvl - (t % intvl)

\* One pass of the maintenance thread: updateCounters(), then sleep again.
Pass ==
  /\ now >= wake
  /\ avgstack' = <<[ts |-> clock, size |-> pending]>> \o PurgeAvgStack(avgstack)
  /\ pending' = 0
  /\ wake' = now + SleepTime(clock)
  /\ arrivals' = [i \in 1 .. Len(arrivals) |->
                    IF arrivals[i].moved = Never THEN [arrivals[i] EXCEPT !.moved = now]
                                                 ELSE arrivals[i]]
  /\ last' = now
  /\ inTime' = IF now - last # intvl THEN 0
               ELSE IF inTime * intvl < Span THEN inTime + 1 ELSE inTime
  /\ UNCHANGED <<now, clock, intvl, total, rate, keys, sets, setAt>>

\* Faulty: the interval of the oldest entry is not counted.
AvgBpsNoIntvl(s) ==
  LET span == IF s = <<>> THEN 0 ELSE (s[1].ts - s[Len(s)].ts) % LongWord
  IN  IF span > 0 THEN ((SumOfSizes(s) % Word) * Second) \div span ELSE 0

\* recalcAvg(): the sum over the time from the oldest entry to the newest,
\* and one interval for the oldest.
AvgBps(s) ==
  LET span == (intvl + IF s = <<>> THEN 0 ELSE s[1].ts - s[Len(s)].ts) % LongWord
  IN  IF span > 0 THEN ((SumOfSizes(s) % Word) * Second) \div span ELSE 0

\* A refresh of the display, by time or by a key.
Draw ==
  /\ rate' = AvgBps(avgstack)
  /\ UNCHANGED <<now, clock, intvl, wake, total, pending, avgstack, history>>

\* Faulty: no shortest interval.
HalvedNoLimit == intvl \div 2

\* The keys + and -.
Halved == IF intvl \div 2 < MinIntvl THEN MinIntvl ELSE intvl \div 2
Doubled == IF intvl * 2 > MaxIntvl THEN MaxIntvl ELSE intvl * 2

PressPlusMinus ==
  /\ keys < MaxKeys /\ keys' = keys + 1
  /\ intvl' \in {Halved, Doubled}
  /\ inTime' = 0
  /\ UNCHANGED <<now, clock, wake, total, pending, avgstack, rate, sets, arrivals, last, setAt>>

Tick ==
  /\ now < MaxTime /\ now < wake + Slack
  /\ now' = now + 1 /\ clock' = clock + 1
  /\ UNCHANGED <<intvl, wake, total, pending, avgstack, rate, history>>

\* Somebody sets the clock back.
SetClock ==
  /\ sets < MaxSets /\ sets' = sets + 1
  /\ clock' = clock - Setback
  /\ setAt' = now
  /\ inTime' = 0
  /\ UNCHANGED <<now, intvl, wake, total, pending, avgstack, rate, keys, arrivals, last>>

\* The connection is made of its first packet, at any time between two passes.
Init ==
  /\ now = 0 /\ clock \in Epoch .. Epoch + MaxIntvl - 1
  /\ intvl = Second
  /\ wake = SleepTime(clock)
  /\ \E n \in Sizes :
       /\ total = n /\ pending = n % Word
       /\ arrivals = <<[at |-> 0, size |-> n, moved |-> Never]>>
  /\ avgstack = <<>> /\ rate = 0
  /\ keys = 0 /\ sets = 0 /\ last = 0 /\ inTime = 0 /\ setAt = 0

Next ==
  \/ \E n \in Sizes : Packet(n)
  \/ Pass \/ Draw \/ PressPlusMinus \/ Tick \/ SetClock

Spec == Init /\ [][Next]_vars

-----------------------------------------------------------------------------
(* Properties. *)

\* The type invariant of the counters.
TypeOK ==
  /\ now \in 0 .. MaxTime /\ clock \in Nat
  /\ intvl \in MinIntvl .. MaxIntvl /\ wake \in Nat
  /\ total \in Nat /\ pending \in 0 .. Word - 1
  /\ \A i \in 1 .. Len(avgstack) : avgstack[i] \in [ts : Nat, size : 0 .. Word - 1]
  /\ rate \in Nat

\* The bytes of the packets whose time of the first pass is one of times.
BytesOf(times) ==
  [i \in 1 .. Len(arrivals) |->
     IF arrivals[i].moved \in times THEN arrivals[i].size ELSE 0]
BytesWhere(times) == SumTo(BytesOf(times), Len(arrivals))

\* Until somebody sets the clock, every byte is in the counter of its
\* interval until the next pass, then in avgstack for exactly as long as the
\* pass that put it there lies within the window, and in the total for ever:
\* none is lost between the threads and none counted twice
\* (TCPConnection.cc:156-171, 222-228).
Waiting == {Never}
Kept == {m \in 0 .. MaxTime : m > last - Window}
EveryByteOnce ==
  sets = 0 =>
    /\ total = SumOfSizes(arrivals)
    /\ pending = BytesWhere(Waiting) % Word
    /\ SumOfSizes(avgstack) % Word = BytesWhere(Kept) % Word

\* When the passes have been in time for that long, at one refresh interval,
\* and nobody has set the clock, the speed drawn is the number of bytes
\* that came in during the last three seconds, rounded up to whole intervals,
\* divided by that time (TCPConnection.h:105-107, "average number of bytes
\* per second").
During == {m \in 0 .. MaxTime : m > last - Span}
RateIsAverage ==
  [][Draw /\ sets = 0 /\ inTime * intvl >= Span /\ BytesWhere(During) < Word =>
       rate' = (BytesWhere(During) * Second) \div Span]_vars

\* The speed of a connection that has fallen silent goes to zero, whatever
\* the user does to the refresh interval, and although the time stamps of
\* its last bytes lie in the future once somebody has set the clock back:
\* they are counted from then (TCPConnection.cc:146-153).
LastChange == LET arrived == arrivals[Len(arrivals)].at
              IN  IF setAt > arrived THEN setAt ELSE arrived
Silence == Window + 2 * (MaxIntvl + Slack)
RateFades ==
  [][Draw /\ now - LastChange > Silence => rate' = 0]_vars

=============================================================================
