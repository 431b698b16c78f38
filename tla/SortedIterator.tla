----------------------------- MODULE SortedIterator -----------------------------
(***************************************************************************)
(* The four orders in which the display lists connections: the functions   *)
(* that SortedIterator::sort() gives to qsort().  Connections are records  *)
(* of the fields they compare: rate (avg_bps), bytes (total_byte_count)    *)
(* and last (last_pkt_ts, a second).  The result is negative if the first  *)
(* connection is to be listed before the second one.                       *)
(*                                                                         *)
(* A comparison asks for the idle times of the two connections up to twice *)
(* each, and each time getIdleSeconds() reads the clock anew: t[i] is what *)
(* the i-th reading returns, and the clock may tick between two of them.   *)
(***************************************************************************)
EXTENDS Integers

Connections == [rate : Int, bytes : Int, last : Int]

\* Four readings of the clock in the course of one comparison.
Readings == {t \in [1 .. 4 -> Int] : t[1] <= t[2] /\ t[2] <= t[3] /\ t[3] <= t[4]}

\* During one comparison the clock stands still; it ticks at most once.
Still(t) == t[1] = t[4]
TicksOnce(t) == t[4] <= t[1] + 1

GetIdleSeconds(c, now) == now - c.last

\* compare_active: the connection with the latest packet first.
CompareActive(c1, c2, t) ==
  IF GetIdleSeconds(c1, t[1]) < GetIdleSeconds(c2, t[2]) THEN -1
  ELSE IF GetIdleSeconds(c1, t[3]) > GetIdleSeconds(c2, t[4]) THEN 1
  ELSE 0

\* compare_idle: the connection that is idle for longest first.
CompareIdle(c1, c2, t) ==
  IF GetIdleSeconds(c1, t[1]) < GetIdleSeconds(c2, t[2]) THEN 1
  ELSE IF GetIdleSeconds(c1, t[3]) > GetIdleSeconds(c2, t[4]) THEN -1
  ELSE 0

\* compare_rate and compare_bytes: the highest number first, among equal ones
\* the connection with the latest packet.
CompareRate(c1, c2, t) ==
  IF c1.rate > c2.rate THEN -1
  ELSE IF c1.rate < c2.rate THEN 1
  ELSE CompareActive(c1, c2, t)

CompareBytes(c1, c2, t) ==
  IF c1.bytes > c2.bytes THEN -1
  ELSE IF c1.bytes < c2.bytes THEN 1
  ELSE CompareActive(c1, c2, t)

SORT_TYPES == {"SORT_RATE", "SORT_BYTES", "SORT_IDLE", "SORT_ACTIVE"}

\* sort(): the function that belongs to a sort type.
Compare(type, c1, c2, t) ==
  CASE type = "SORT_RATE"   -> CompareRate(c1, c2, t)
    [] type = "SORT_BYTES"  -> CompareBytes(c1, c2, t)
    [] type = "SORT_IDLE"   -> CompareIdle(c1, c2, t)
    [] type = "SORT_ACTIVE" -> CompareActive(c1, c2, t)

=============================================================================
