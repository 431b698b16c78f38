----------------------------- MODULE DisplayProofs -----------------------------
(***************************************************************************)
(* Proofs about the display, for any number of connections, any screen and *)
(* any name lookups: what a paused display lists does not change and is    *)
(* not deleted, the keys that scroll skip no connection, and the display   *)
(* and the threads around it do to the connections what the table of       *)
(* connections allows; the comparison functions of the sort order them,    *)
(* and the columns and numbers of a line fit.                              *)
(***************************************************************************)
EXTENDS Display, SortedIterator, Layout, TLAPS,
        WellFoundedInduction, FiniteSetTheorems, SequenceTheorems

Statuses == {"new", "tracked", "expired", "collected", "deleted"}

\* The two flags of the p key agree; between the turns of the loop an iterator
\* made under the lock exists only on a paused display; and what was drawn
\* since the pause key is the whole iterator.  The display thread draws with
\* the lock held.
FlagsAgree == paused \in BOOLEAN /\ purgeflag = ~paused
KeptIfPaused == pc = "key" /\ locked => paused
PausedLater == pc = "first" => ~paused
ListedIsIter == paused /\ listed # None => listed = iter
DrawsLocked == pc \in {"draw", "unlock"} => lock = "ui"

IInv == /\ status \in [Conns -> Statuses] /\ locked \in BOOLEAN
        /\ FlagsAgree /\ KeptIfPaused /\ PausedLater /\ ListedIsIter /\ DrawsLocked
        /\ PausedIsLive

LEMMA InitIInv == Init => IInv
  BY DEF Init, IInv, Statuses, FlagsAgree, KeptIfPaused, PausedLater, ListedIsIter,
         DrawsLocked, PausedIsLive

-----------------------------------------------------------------------------
(* The other threads. *)

\* Whatever they do, they add to the deleted connections only while purging
\* is on, that is, while the display is not paused.
LEMMA OthersKeepIInv ==
  ASSUME IInv, UNCHANGED othersVars, status' \in [Conns -> Statuses],
         purgeflag \/ Deleted' = Deleted, lock' = lock \/ lock # "ui"
  PROVE  IInv'
  BY DEF IInv, FlagsAgree, KeptIfPaused, PausedLater, ListedIsIter, DrawsLocked,
         PausedIsLive, othersVars

\* Each of their steps on one connection.
LEMMA StepOfOthers ==
  ASSUME IInv, NEW c \in Conns,
         Packet(c) \/ LookupDone(c) \/ Expire(c) \/ MaintVisit(c) \/ MaintDelete(c)
  PROVE  IInv'
PROOF
  <1> USE DEF IInv
  <1>1. CASE Packet(c)
    <2>1. status' \in [Conns -> Statuses] /\ Deleted' = Deleted
      BY <1>1 DEF Packet, Statuses, Deleted
    <2> QED  BY <1>1, <2>1, OthersKeepIInv DEF Packet
  <1>2. CASE LookupDone(c)
    <2>1. status' \in [Conns -> Statuses] /\ Deleted' = Deleted
      BY <1>2 DEF LookupDone, Deleted
    <2> QED  BY <1>2, <2>1, OthersKeepIInv DEF LookupDone
  <1>3. CASE Expire(c)
    <2>1. status' \in [Conns -> Statuses] /\ Deleted' = Deleted
      BY <1>3 DEF Expire, Statuses, Deleted
    <2> QED  BY <1>3, <2>1, OthersKeepIInv DEF Expire
  <1>4. CASE MaintVisit(c)
    <2>1. status' \in [Conns -> Statuses]
      BY <1>4 DEF MaintVisit, Statuses
    <2>2. purgeflag \/ Deleted' = Deleted
      BY <1>4 DEF MaintVisit, Deleted, FlagsAgree
    <2> QED  BY <1>4, <2>1, <2>2, OthersKeepIInv DEF MaintVisit
  <1>5. CASE MaintDelete(c)
    <2>1. status' \in [Conns -> Statuses] /\ Deleted' = Deleted
      BY <1>5 DEF MaintDelete, Statuses, Deleted
    <2> QED  BY <1>5, <2>1, OthersKeepIInv DEF MaintDelete
  <1> QED  BY <1>1, <1>2, <1>3, <1>4, <1>5

-----------------------------------------------------------------------------
(* The display thread. *)

LEMMA StepOfDisplay ==
  ASSUME IInv, UiFirst \/ UiKey \/ UiLock \/ UiDraw \/ UiUnlock
  PROVE  IInv'
PROOF
  <1> USE DEF IInv, FlagsAgree, KeptIfPaused, PausedLater, ListedIsIter, DrawsLocked,
              PausedIsLive, Go, connVars
  <1>1. CASE UiFirst
    BY <1>1 DEF UiFirst, Deleted
  <1>2. CASE UiKey
    <2>1. Deleted' = Deleted
      BY <1>2 DEF UiKey, Deleted
    <2>2. CASE PressP
      BY <1>2, <2>1, <2>2 DEF UiKey, PressP
    <2>3. CASE Scroll \/ UNCHANGED <<paused, purgeflag, doffset, listed>>
      BY <1>2, <2>1, <2>3 DEF UiKey, Scroll
    <2> QED  BY <1>2, <2>2, <2>3 DEF UiKey
  \* A new iterator points to what is in the table, and nothing in the table
  \* has been deleted.
  <1>3. CASE UiLock
    <2>1. Deleted' = Deleted /\ Table \cap Deleted = {}
      BY <1>3 DEF UiLock, Deleted, Table
    <2> QED  BY <1>3, <2>1 DEF UiLock
  \* Nothing is skipped while the display is paused.
  <1>4. CASE UiDraw
    <2>1. Deleted' = Deleted
      BY <1>4 DEF UiDraw, Deleted
    <2>2. paused => listed' = iter
      BY <1>4 DEF UiDraw, MaySkip
    <2> QED  BY <1>4, <2>1, <2>2 DEF UiDraw
  <1>5. CASE UiUnlock
    BY <1>5 DEF UiUnlock, Deleted
  <1> QED  BY <1>1, <1>2, <1>3, <1>4, <1>5

LEMMA NextIInv == IInv /\ [Next]_vars => IInv'
PROOF
  <1> SUFFICES ASSUME IInv, [Next]_vars  PROVE IInv'
    OBVIOUS
  <1>1. CASE MaintLock \/ MaintUnlock
    BY <1>1, OthersKeepIInv DEF IInv, MaintLock, MaintUnlock, Deleted
  <1>2. CASE UNCHANGED vars
    BY <1>2 DEF vars, IInv, FlagsAgree, KeptIfPaused, PausedLater, ListedIsIter,
                DrawsLocked, PausedIsLive, Deleted
  <1> QED
    BY <1>1, <1>2, StepOfOthers, StepOfDisplay DEF Next

LEMMA Inductive == Spec => []IInv
  BY InitIInv, NextIInv, PTL DEF Spec

-----------------------------------------------------------------------------
\* None of the connections that a paused display lists is deleted, if the list
\* was made under the lock (TextUI.cc:219-220, 243).
THEOREM PausedConnectionsLive == Spec => []PausedIsLive
PROOF
  <1>1. IInv => PausedIsLive
    BY DEF IInv
  <1> QED  BY <1>1, Inductive, PTL

\* Every refresh of a paused display lists the same connections
\* (tcptrack.1:77-78).
THEOREM PausedListIsFixed == Spec => PausedListsSame
PROOF
  <1>1. IInv /\ [Next]_vars => [paused /\ paused' /\ listed # None => listed' = listed]_vars
    <2> SUFFICES ASSUME IInv, Next, paused, paused', listed # None
                 PROVE  listed' = listed
      OBVIOUS
    <2>1. CASE UiDraw
      BY <2>1 DEF UiDraw, MaySkip, IInv, ListedIsIter
    <2>2. CASE UiKey
      BY <2>2 DEF UiKey, PressP, Scroll, IInv, FlagsAgree
    <2>3. CASE UiFirst \/ UiLock \/ UiUnlock
      BY <2>3 DEF UiFirst, UiLock, UiUnlock
    <2>4. CASE ~(UiDraw \/ UiKey \/ UiFirst \/ UiLock \/ UiUnlock)
      BY <2>4 DEF Next, Packet, LookupDone, Expire, MaintVisit, MaintDelete, MaintLock,
                  MaintUnlock, othersVars
    <2> QED  BY <2>1, <2>2, <2>3, <2>4
  <1> QED  BY <1>1, Inductive, PTL DEF Spec, PausedListsSame

-----------------------------------------------------------------------------
(* The refinement of ConnTable. *)

LEMMA InitRefines == Init => Abstract!Init
  BY DEF Init, Abstract!Init, Table

LEMMA OthersRefine ==
  ASSUME IInv, NEW c \in Conns,
         Packet(c) \/ LookupDone(c) \/ Expire(c) \/ MaintVisit(c) \/ MaintDelete(c)
  PROVE  [Abstract!Next]_(Abstract!vars)
PROOF
  <1> DEFINE table == Table
             ripe == {d \in Conns : status[d] = "expired"}
  <1> USE DEF IInv, FlagsAgree
  \* A packet makes the connection fresh, new or not.
  <1>1. CASE Packet(c)
    <2>1. table' = table \cup {c} /\ ripe' = ripe \ {c}
      BY <1>1 DEF Packet, Table
    <2>2. Abstract!Hear(c)
      BY <1>1, <2>1 DEF Packet, Abstract!Hear, othersVars
    <2> QED  BY <2>2 DEF Abstract!Next
  <1>2. CASE LookupDone(c)
    BY <1>2 DEF LookupDone, Abstract!vars, Table, othersVars
  <1>3. CASE Expire(c)
    <2>1. table' = table /\ ripe' = ripe \cup {c} /\ {c} \in SUBSET table
      BY <1>3 DEF Expire, Table
    <2>2. Abstract!Ripen
      BY <1>3, <2>1 DEF Expire, Abstract!Ripen, othersVars
    <2> QED  BY <2>2 DEF Abstract!Next
  \* The visit of a pass removes the connection, or keeps it.
  <1>4. CASE MaintVisit(c) /\ purgeflag /\ status[c] = "expired"
    <2>1. table' = table \ {c} /\ ripe' = ripe \ {c}
      BY <1>4 DEF MaintVisit, Table
    <2>2. Abstract!Remove(c)
      BY <1>4, <2>1 DEF MaintVisit, Abstract!Remove, othersVars
    <2> QED  BY <2>2 DEF Abstract!Next
  <1>5. CASE MaintVisit(c) /\ ~(purgeflag /\ status[c] = "expired")
    <2>1. table' = table /\ ripe' = ripe
      BY <1>5 DEF MaintVisit, Table
    <2>2. Abstract!Keep(c)
      BY <1>5, <2>1 DEF MaintVisit, Abstract!Keep, othersVars
    <2> QED  BY <2>2 DEF Abstract!Next
  <1>6. CASE MaintDelete(c)
    <2>1. table' = table /\ ripe' = ripe
      BY <1>6 DEF MaintDelete, Table
    <2> QED  BY <1>6, <2>1 DEF MaintDelete, Abstract!vars, othersVars
  <1> QED  BY <1>1, <1>2, <1>3, <1>4, <1>5, <1>6

\* The display thread changes nothing but the purge flag.
LEMMA DisplayRefines ==
  ASSUME IInv, UiFirst \/ UiKey \/ UiLock \/ UiDraw \/ UiUnlock
  PROVE  [Abstract!Next]_(Abstract!vars)
PROOF
  <1> USE DEF Abstract!vars, Table, connVars
  <1>1. CASE UiKey
    <2>1. Abstract!Switch(purgeflag')
      BY <1>1 DEF UiKey, Abstract!Switch
    <2>2. purgeflag' \in BOOLEAN
      BY <1>1 DEF UiKey, PressP, Scroll, IInv, FlagsAgree
    <2> QED  BY <2>1, <2>2 DEF Abstract!Next
  <1>2. CASE UiFirst \/ UiLock \/ UiDraw \/ UiUnlock
    BY <1>2 DEF UiFirst, UiLock, UiDraw, UiUnlock, Go, IInv, DrawsLocked
  <1> QED  BY <1>1, <1>2

LEMMA NextRefines == IInv /\ [Next]_vars => [Abstract!Next]_(Abstract!vars)
PROOF
  <1> SUFFICES ASSUME IInv, [Next]_vars  PROVE [Abstract!Next]_(Abstract!vars)
    OBVIOUS
  <1>1. CASE MaintLock
    <2>1. Abstract!Lock
      BY <1>1 DEF MaintLock, Abstract!Lock, Table, othersVars
    <2> QED  BY <2>1 DEF Abstract!Next
  <1>2. CASE MaintUnlock
    <2>1. Abstract!Unlock
      BY <1>2 DEF MaintUnlock, Abstract!Unlock, Table, othersVars
    <2> QED  BY <2>1 DEF Abstract!Next
  <1>3. CASE UNCHANGED vars
    BY <1>3 DEF vars, Abstract!vars, Table
  <1> QED
    BY <1>1, <1>2, <1>3, OthersRefine, DisplayRefines DEF Next

\* All that the packets, the maintenance thread, time and the pause key do to
\* the connections is allowed by the table of connections, and the display
\* does nothing else to them (TCContainer.cc:150-205, TextUI.cc:208-245).
THEOREM DisplayKeepsTheTable == Spec => RefinesTable
PROOF
  <1> QED
    BY InitRefines, NextRefines, Inductive, PTL DEF Spec, RefinesTable, Abstract!Spec

-----------------------------------------------------------------------------
(* Recursion: how drawui() counts lines. *)

\* A set of natural numbers has a least element.
LEMMA Least ==
  ASSUME NEW T, T \subseteq Nat, T # {}
  PROVE  \E x \in T : \A y \in T : x <= y
PROOF
  <1>1. PICK x \in T : \A y \in T : ~(<<y, x>> \in OpToRel(<, Nat))
    BY NatLessThanWellFounded, WFMin
  <1>2. \A y \in T : ~(y < x)
    <2> SUFFICES ASSUME NEW y \in T, y < x  PROVE FALSE
      OBVIOUS
    <2>1. <<y, x>> \in OpToRel(<, Nat)
      BY DEF OpToRel
    <2> QED  BY <1>1, <2>1
  <1> QED
    BY <1>2

\* Induction over the natural numbers, for a set of them.
LEMMA Induct ==
  ASSUME NEW S, 0 \in S, \A n \in Nat : n \in S => n + 1 \in S
  PROVE  Nat \subseteq S
PROOF
  <1> SUFFICES ASSUME Nat \ S # {}  PROVE FALSE
    OBVIOUS
  <1>1. PICK x \in Nat \ S : \A y \in Nat \ S : x <= y
    BY Least
  <1>2. x \in Nat /\ x # 0 /\ x \notin S
    BY <1>1
  <1>3. x - 1 \in Nat \ S
    BY <1>2
  <1> QED
    BY <1>1, <1>2, <1>3

\* f begins with first, and next says what follows after k - 1 at k.
Iterates(f, n, V, first, next) ==
  /\ f \in [0 .. n -> V]
  /\ f[0] = first /\ \A k \in 1 .. n : f[k] = next[<<k, f[k - 1]>>]

\* There is such a function.
LEMMA IterationExists ==
  ASSUME NEW n \in Nat, NEW V, NEW first \in V, NEW next \in [Nat \X V -> V]
  PROVE  \E f : Iterates(f, n, V, first, next)
PROOF
  <1> DEFINE Made(f, m) ==
               \A k \in 0 .. m : f[k] = IF k = 0 THEN first ELSE next[<<k, f[k - 1]>>]
             Possible == {m \in Nat : \E f \in [0 .. m -> V] : Made(f, m)}
  <1>1. 0 \in Possible
    <2>1. [k \in 0 .. 0 |-> first] \in [0 .. 0 -> V]
      OBVIOUS
    <2>2. Made([k \in 0 .. 0 |-> first], 0)
      OBVIOUS
    <2> QED  BY <2>1, <2>2
  <1>2. \A m \in Nat : m \in Possible => m + 1 \in Possible
    <2> SUFFICES ASSUME NEW m \in Nat, m \in Possible  PROVE m + 1 \in Possible
      OBVIOUS
    <2>1. PICK f \in [0 .. m -> V] : Made(f, m)
      OBVIOUS
    <2> DEFINE g == [k \in 0 .. m + 1 |-> IF k = m + 1 THEN next[<<m + 1, f[m]>>] ELSE f[k]]
    <2>2. g \in [0 .. m + 1 -> V]
      BY <2>1
    <2>4. \A j \in 0 .. m : g[j] = f[j]
      <3> TAKE j \in 0 .. m
      <3>1. j \in 0 .. m + 1 /\ j # m + 1
        OBVIOUS
      <3> QED  BY <3>1, Zenon
    <2>3. Made(g, m + 1)
      <3> SUFFICES ASSUME NEW k \in 0 .. m + 1
                   PROVE  g[k] = IF k = 0 THEN first ELSE next[<<k, g[k - 1]>>]
        OBVIOUS
      <3>1. CASE k = m + 1
        <4>1. m + 1 # 0 /\ (m + 1) - 1 = m /\ m \in 0 .. m + 1 /\ m # m + 1
          OBVIOUS
        <4>2. g[m + 1] = next[<<m + 1, f[m]>>] /\ g[m] = f[m]
          BY <4>1
        <4> QED  BY <3>1, <4>1, <4>2
      <3>2. CASE k # m + 1
        <4>1. k \in 0 .. m /\ (k # 0 => k - 1 \in 0 .. m)
          BY <3>2
        <4>2. f[k] = IF k = 0 THEN first ELSE next[<<k, f[k - 1]>>]
          BY <2>1, <4>1
        <4>3. g[k] = f[k]
          BY <2>4, <4>1, Zenon
        <4>4. ASSUME k # 0  PROVE g[k - 1] = f[k - 1]
          BY <2>4, <4>1, <4>4, Zenon
        <4> QED  BY <4>2, <4>3, <4>4
      <3> QED  BY <3>1, <3>2
    <2>5. m + 1 \in Nat
      OBVIOUS
    <2> HIDE DEF g, Made
    <2> QED  BY <2>2, <2>3, <2>5, Zenon
  <1>3. n \in Possible
    BY <1>1, <1>2, Induct
  <1>4. PICK f \in [0 .. n -> V] : Made(f, n)
    BY <1>3
  <1>5. f[0] = first
    <2>1. 0 \in 0 .. n
      OBVIOUS
    <2> QED  BY <1>4, <2>1
  <1>6. ASSUME NEW k \in 1 .. n  PROVE f[k] = next[<<k, f[k - 1]>>]
    <2>1. k \in 0 .. n /\ k # 0
      OBVIOUS
    <2> QED  BY <1>4, <2>1
  <1> QED
    BY <1>4, <1>5, <1>6 DEF Iterates

\* What the loop of drawui() computes.
LineStep(order, skipped, k, at) ==
  IF at = StatusLine \/ k <= doffset \/ order[k] \in skipped
  THEN at
  ELSE at + IF order[k] \in tall THEN 2 ELSE 1

LEMMA Lines ==
  ASSUME NEW order \in Seq(Conns), NEW skipped, doffset \in Nat
  PROVE  LET line == LineAfter(order, skipped)
         IN  \A k \in 0 .. Len(order) :
               /\ line[k] \in Nat
               /\ line[k] = IF k = 0 THEN 1
                            ELSE LineStep(order, skipped, k, line[k - 1])
PROOF
  <1> DEFINE n == Len(order)
             Loop(f) == [k \in 0 .. n |->
                IF k = 0 THEN 1
                ELSE IF \/ f[k - 1] = StatusLine \/ k <= doffset
                        \/ order[k] \in skipped
                     THEN f[k - 1]
                     ELSE f[k - 1] + IF order[k] \in tall THEN 2 ELSE 1]
             next == [p \in Nat \X Nat |-> LineStep(order, skipped, p[1], p[2])]
             line == LineAfter(order, skipped)
  <1>1. n \in Nat
    OBVIOUS
  <1>2. next \in [Nat \X Nat -> Nat]
    BY DEF LineStep
  <1>3. PICK f : Iterates(f, n, Nat, 1, next)
    <2>1. 1 \in Nat
      OBVIOUS
    <2> HIDE DEF next, n
    <2> QED  BY <1>1, <1>2, <2>1, IterationExists, Zenon
  <1>4. \A k \in 0 .. n : f[k] = IF k = 0 THEN 1 ELSE LineStep(order, skipped, k, f[k - 1])
    <2> SUFFICES ASSUME NEW k \in 0 .. n, k # 0
                 PROVE  f[k] = LineStep(order, skipped, k, f[k - 1])
      BY <1>3 DEF Iterates
    <2>1. k \in 1 .. n /\ k \in Nat /\ f[k - 1] \in Nat
      BY <1>1, <1>3 DEF Iterates
    <2>2. next[<<k, f[k - 1]>>] = LineStep(order, skipped, k, f[k - 1])
      BY <2>1
    <2> QED  BY <1>3, <2>1, <2>2 DEF Iterates
  <1>5. f = Loop(f)
    <2>1. \A k \in 0 .. n : f[k] = Loop(f)[k]
      BY <1>4 DEF LineStep
    <2>2. f = [k \in 0 .. n |-> f[k]]
      BY <1>3 DEF Iterates
    <2> QED  BY <2>1, <2>2
  <1>6. line = CHOOSE g : g = Loop(g)
    BY DEF LineAfter
  <1>7. line = Loop(line)
    <2> HIDE DEF Loop, line
    <2> QED  BY <1>5, <1>6
  <1> HIDE DEF line
  <1>8. \A k \in 0 .. n : line[k] = IF k = 0 THEN 1
                                     ELSE LineStep(order, skipped, k, line[k - 1])
    BY <1>7 DEF LineStep
  <1> DEFINE S == {k \in Nat : k <= n => line[k] \in Nat}
  <1>9. 0 \in S
    BY <1>1, <1>8
  <1>10. \A k \in Nat : k \in S => k + 1 \in S
    <2> SUFFICES ASSUME NEW k \in S, k + 1 <= n  PROVE line[k + 1] \in Nat
      OBVIOUS
    <2>1. line[k] \in Nat /\ k + 1 \in 0 .. n /\ k + 1 # 0 /\ (k + 1) - 1 = k
      BY <1>1
    <2> HIDE DEF S, n
    <2>2. line[k + 1] = LineStep(order, skipped, k + 1, line[k])
      BY <1>8, <2>1
    <2> QED  BY <2>1, <2>2 DEF LineStep
  <1>11. \A k \in 0 .. n : line[k] \in Nat
    <2>1. Nat \subseteq S
      <3> HIDE DEF S
      <3> QED  BY <1>9, <1>10, Induct
    <2> QED  BY <1>1, <2>1
  <1> QED
    BY <1>8, <1>11 DEF line

\* A screen without IPv6 connections: a line holds one connection.
LEMMA OneLineEach ==
  ASSUME NEW order \in Seq(Conns), NEW skipped, doffset \in Nat, tall = {}
  PROVE  \A k \in 0 .. Len(order) :
           LineAfter(order, skipped)[k] <= 1 + IF k > doffset THEN k - doffset ELSE 0
PROOF
  <1> DEFINE n == Len(order)
             line == LineAfter(order, skipped)
             most(k) == 1 + IF k > doffset THEN k - doffset ELSE 0
             S == {k \in Nat : k <= n => line[k] <= most(k)}
  <1>1. n \in Nat
    OBVIOUS
  <1>2. \A k \in 0 .. n : /\ line[k] \in Nat
                          /\ line[k] = IF k = 0 THEN 1
                                       ELSE LineStep(order, skipped, k, line[k - 1])
    BY Lines
  <1> HIDE DEF line, n
  <1>3. 0 \in S
    BY <1>1, <1>2
  <1>4. \A k \in Nat : k \in S => k + 1 \in S
    <2> SUFFICES ASSUME NEW k \in S, k + 1 <= n  PROVE line[k + 1] <= most(k + 1)
      OBVIOUS
    <2>1. /\ k \in 0 .. n /\ k + 1 \in 0 .. n /\ k + 1 # 0 /\ (k + 1) - 1 = k
          /\ line[k] <= most(k)
      BY <1>1
    <2>2. line[k + 1] = LineStep(order, skipped, k + 1, line[k]) /\ line[k] \in Nat
      BY <1>2, <2>1
    <2>3. CASE k + 1 <= doffset
      BY <2>1, <2>2, <2>3 DEF LineStep
    <2>4. CASE k + 1 > doffset
      BY <2>1, <2>2, <2>4 DEF LineStep
    <2> QED  BY <2>1, <2>3, <2>4
  <1>5. Nat \subseteq S
    <2> HIDE DEF S
    <2> QED  BY <1>3, <1>4, Induct
  <1>6. \A k \in 0 .. n : line[k] <= most(k)
    BY <1>1, <1>5
  <1> QED
    BY <1>6 DEF n, line

\* The loop ends at the last connection or when the line of the status is reached.
LEMMA LoopEnds ==
  ASSUME NEW n \in Nat, NEW line
  PROVE  /\ Through(line, n) \in 0 .. n
         /\ Through(line, n) = n \/ line[Through(line, n)] = StatusLine
PROOF
  <1> DEFINE T == {k \in 0 .. n : k = n \/ line[k] = StatusLine}
             Stops(k) == /\ k = n \/ line[k] = StatusLine
                         /\ \A j \in 0 .. k - 1 : line[j] # StatusLine
  <1>1. PICK x \in T : \A y \in T : x <= y
    <2>1. T \subseteq Nat /\ n \in T
      OBVIOUS
    <2> HIDE DEF T
    <2> QED  BY <2>1, Least
  <1>2. x \in 0 .. n /\ Stops(x)
    <2>1. ASSUME NEW j \in 0 .. x - 1, line[j] = StatusLine  PROVE FALSE
      <3>1. j \in T /\ ~(x <= j)
        BY <2>1
      <3> QED  BY <1>1, <3>1
    <2> QED  BY <2>1
  <1>3. Through(line, n) = CHOOSE k \in 0 .. n : Stops(k)
    BY DEF Through
  <1>4. Through(line, n) \in 0 .. n /\ Stops(Through(line, n))
    <2> HIDE DEF Stops
    <2> QED  BY <1>2, <1>3
  <1> QED
    BY <1>4

\* What drawui() leaves out at the end lies below a full screen.
LEMMA FullScreen ==
  ASSUME NEW order \in Seq(Conns), NEW skipped, doffset \in Nat, tall = {},
         NEW shown, shown = Through(LineAfter(order, skipped), Len(order)),
         shown < Len(order)
  PROVE  doffset + (SizeY - 3) <= shown
PROOF
  <1> DEFINE n == Len(order)
             line == LineAfter(order, skipped)
  <1>1. n \in Nat
    OBVIOUS
  <1>2. shown \in 0 .. n /\ line[shown] = SizeY - 2
    <2> HIDE DEF n, line
    <2>1. Through(line, n) \in 0 .. n /\ (Through(line, n) = n \/ line[Through(line, n)] = StatusLine)
      BY <1>1, LoopEnds
    <2>2. shown = Through(line, n) /\ shown < n
      BY DEF line, n
    <2> QED  BY <1>1, <2>1, <2>2 DEF StatusLine
  <1>3. line[shown] <= 1 + IF shown > doffset THEN shown - doffset ELSE 0
    BY <1>2, OneLineEach
  <1> HIDE DEF n, line
  <1> QED
    BY <1>1, <1>2, <1>3, DisplayAssumption

\* An order of drawing is a sequence of connections.
LEMMA Orders ==
  ASSUME NEW S, S \subseteq Conns, NEW order \in SetToSeqs(S)
  PROVE  order \in Seq(Conns) /\ Len(order) \in 0 .. Cardinality(Conns)
PROOF
  <1>1. /\ Cardinality(S) \in Nat /\ Cardinality(Conns) \in Nat
        /\ Cardinality(S) <= Cardinality(Conns)
    BY FS_Subset, FS_CardinalityType, DisplayAssumption
  <1>2. order \in [1 .. Cardinality(S) -> S]
    BY DEF SetToSeqs
  <1>3. order \in Seq(Conns) /\ Len(order) = Cardinality(S)
    BY <1>1, <1>2
  <1> QED
    BY <1>1, <1>3

-----------------------------------------------------------------------------
(* The types, and what a scrolling key may skip. *)

\* Before the first refresh nothing is left out; after one that left something
\* out, and up to the next key, the connections from the offset on filled the
\* screen, unless some of them take two lines.
NothingYet == pc = "first" => ~more
ScreenFull == pc \in {"unlock", "key"} /\ more /\ tall = {}
              => doffset + (SizeY - 3) <= upto
SInv == TypeOK /\ NothingYet /\ ScreenFull

LEMMA InitSInv == Init => SInv
PROOF
  <1> SUFFICES ASSUME Init  PROVE SInv
    OBVIOUS
  <1>1. 0 \in 0 .. Cardinality(Conns)
    BY FS_CardinalityType, DisplayAssumption
  <1>2. status \in [Conns -> Statuses]
    BY DEF Init, Statuses
  <1>3. TypeOK
    BY <1>1, <1>2, DisplayAssumption DEF Init, TypeOK, Statuses
  <1> QED
    BY <1>3 DEF Init, SInv, NothingYet, ScreenFull

\* The other threads leave the screen alone.
LEMMA OthersKeepSInv ==
  ASSUME SInv, UNCHANGED othersVars, status' \in [Conns -> Statuses],
         lookups' \subseteq Slow, lock' \in {"free", "maint", "ui"}, todo' \subseteq Conns
  PROVE  SInv'
  BY DEF SInv, TypeOK, NothingYet, ScreenFull, othersVars, Statuses

LEMMA StepOfOthersTyped ==
  ASSUME SInv, NEW c \in Conns,
         Packet(c) \/ LookupDone(c) \/ Expire(c) \/ MaintVisit(c) \/ MaintDelete(c)
  PROVE  SInv'
PROOF
  <1>1. status' \in [Conns -> Statuses] /\ UNCHANGED othersVars
    BY DEF Packet, LookupDone, Expire, MaintVisit, MaintDelete, SInv, TypeOK, Statuses
  <1>2. lookups' \subseteq Slow
    BY DEF Packet, LookupDone, Expire, MaintVisit, MaintDelete, SInv, TypeOK
  <1>3. lock' \in {"free", "maint", "ui"} /\ todo' \subseteq Conns
    BY DEF Packet, LookupDone, Expire, MaintVisit, MaintDelete, SInv, TypeOK
  <1> QED
    BY <1>1, <1>2, <1>3, OthersKeepSInv

\* The numbers of a refresh: a screen that had no room for all is full.
LEMMA DrawKeepsSInv == SInv /\ UiDraw => SInv'
PROOF
  <1> SUFFICES ASSUME SInv, UiDraw  PROVE SInv'
    OBVIOUS
  <1>1. iter \subseteq Conns /\ doffset \in Nat /\ Cardinality(Conns) \in Nat
    BY FS_CardinalityType, DisplayAssumption DEF UiDraw, Go, SInv, TypeOK
  <1>2. PICK skipped \in MaySkip, order \in SetToSeqs(iter) :
          /\ listed' = iter \ skipped
          /\ upto' = Through(LineAfter(order, skipped), Len(order))
          /\ more' = (upto' < Len(order))
    BY DEF UiDraw
  <1>3. order \in Seq(Conns) /\ Len(order) \in 0 .. Cardinality(Conns)
    BY <1>1, Orders
  <1>4. upto' \in 0 .. Cardinality(Conns)
    <2>1. Len(order) \in Nat
      BY <1>1, <1>3
    <2>2. upto' \in 0 .. Len(order)
      BY <1>2, <2>1, LoopEnds
    <2> QED  BY <1>1, <1>3, <2>2
  <1>5. more' /\ tall = {} => doffset + (SizeY - 3) <= upto'
    BY <1>1, <1>2, <1>3, FullScreen
  <1>6. more' \in BOOLEAN
    BY <1>2
  <1>7. TypeOK'
    <2>1. listed' \subseteq Conns
      BY <1>1, <1>2
    <2> QED  BY <1>1, <1>4, <1>6, <2>1 DEF UiDraw, Go, connVars, SInv, TypeOK
  <1> QED
    BY <1>5, <1>7 DEF UiDraw, Go, connVars, SInv, NothingYet, ScreenFull

LEMMA StepOfDisplayTyped ==
  ASSUME SInv, UiFirst \/ UiKey \/ UiLock \/ UiDraw \/ UiUnlock
  PROVE  SInv'
PROOF
  <1> USE DEF SInv, TypeOK, NothingYet, ScreenFull, Go, connVars
  <1>1. Table \subseteq Conns /\ Table # None /\ Cardinality(Table) \in Nat
    <2>1. Table \subseteq Conns
      BY DEF Table
    <2>2. IsFiniteSet(Table)
      BY <2>1, FS_Subset, DisplayAssumption
    <2> QED  BY <2>1, <2>2, FS_CardinalityType, DisplayAssumption
  <1>2. CASE UiFirst
    BY <1>1, <1>2 DEF UiFirst
  <1>3. CASE UiKey
    <2>1. doffset' \in Nat
      BY <1>3, DisplayAssumption DEF UiKey, PressP, Scroll, Scrolled, Page
    <2> QED  BY <1>3, <2>1 DEF UiKey, PressP, Scroll
  <1>4. CASE UiLock
    <2>1. doffset' \in Nat
      <3>1. Table # {} => Cardinality(Table) # 0
        BY <1>1, FS_EmptySet, FS_Subset, DisplayAssumption
      <3> QED  BY <1>1, <1>4, <3>1 DEF UiLock, Clamp
    <2> QED  BY <1>1, <1>4, <2>1 DEF UiLock
  <1>5. CASE UiDraw
    BY <1>5, DrawKeepsSInv
  <1>6. CASE UiUnlock
    BY <1>6 DEF UiUnlock
  <1> QED
    BY <1>2, <1>3, <1>4, <1>5, <1>6

LEMMA NextSInv == SInv /\ [Next]_vars => SInv'
PROOF
  <1> SUFFICES ASSUME SInv, [Next]_vars  PROVE SInv'
    OBVIOUS
  <1>1. CASE MaintLock \/ MaintUnlock
    <2>1. todo' \subseteq Conns
      BY <1>1 DEF MaintLock, MaintUnlock, Table, SInv, TypeOK
    <2> QED
      BY <1>1, <2>1, OthersKeepSInv DEF MaintLock, MaintUnlock, SInv, TypeOK, Statuses
  <1>2. CASE UNCHANGED vars
    BY <1>2 DEF vars, SInv, TypeOK, NothingYet, ScreenFull
  <1> QED
    BY <1>1, <1>2, StepOfOthersTyped, StepOfDisplayTyped DEF Next

LEMMA TypedAndFull == Spec => []SInv
  BY InitSInv, NextSInv, PTL DEF Spec

\* The display and its iterator keep their types; there is an iterator when it
\* is drawn (TextUI.cc:208-245).
THEOREM TypeCorrect == Spec => []TypeOK
PROOF
  <1>1. SInv => TypeOK
    BY DEF SInv
  <1> QED
    BY <1>1, TypedAndFull, PTL

\* No key scrolls past a connection that was on no page, on any screen, for
\* any number of connections and whatever is skipped (TextUI.cc:156-170, 314-364).
THEOREM KeysSkipNothing == Spec => ScrollSkipsNone
PROOF
  <1>1. SInv /\ [Next]_vars => [pc = "key" /\ more /\ tall = {} => doffset' <= upto]_vars
    <2> SUFFICES ASSUME SInv, Next, pc = "key", more, tall = {}
                 PROVE  doffset' <= upto
      OBVIOUS
    <2>1. /\ doffset + (SizeY - 3) <= upto
          /\ doffset \in Nat /\ upto \in Nat /\ SizeY \in Nat /\ SizeY >= 4
      BY DisplayAssumption, FS_CardinalityType DEF SInv, TypeOK, ScreenFull
    <2>2. CASE UiKey
      <3>1. doffset' \in Scrolled \cup {doffset}
        BY <2>2 DEF UiKey, PressP, Scroll
      <3> QED  BY <2>1, <3>1 DEF Scrolled, Page
    <2>3. CASE UiFirst \/ UiLock \/ UiDraw \/ UiUnlock
      BY <2>3 DEF UiFirst, UiLock, UiDraw, UiUnlock, Go
    <2>4. CASE ~(UiDraw \/ UiKey \/ UiFirst \/ UiLock \/ UiUnlock)
      <3>1. doffset' = doffset
        BY <2>4 DEF Next, Packet, LookupDone, Expire, MaintVisit, MaintDelete, MaintLock,
                    MaintUnlock, othersVars
      <3> QED  BY <2>1, <3>1
    <2> QED
      BY <2>2, <2>3, <2>4
  <1> QED
    BY <1>1, TypedAndFull, PTL DEF Spec, ScrollSkipsNone

-----------------------------------------------------------------------------
(* The order of the rows. *)

\* What a comparison of idle times says when the clock stands still: it
\* compares the times of the last packets (SortedIterator.cc:156-170).
LEMMA StillCompares ==
  ASSUME NEW c1 \in Connections, NEW c2 \in Connections,
         NEW t \in Readings, Still(t)
  PROVE  /\ CompareActive(c1, c2, t) = IF c1.last > c2.last THEN -1
                                       ELSE IF c1.last < c2.last THEN 1 ELSE 0
         /\ CompareIdle(c1, c2, t) = IF c1.last > c2.last THEN 1
                                     ELSE IF c1.last < c2.last THEN -1 ELSE 0
PROOF
  <1>1. c1.last \in Int /\ c2.last \in Int
    BY DEF Connections
  <1>2. /\ t[1] \in Int /\ t[2] = t[1] /\ t[3] = t[1] /\ t[4] = t[1]
    BY DEF Readings, Still
  <1> QED
    BY <1>1, <1>2 DEF CompareActive, CompareIdle, GetIdleSeconds

\* While the clock stands still each of the four functions is a weak order,
\* as qsort() demands: swapping the arguments changes the sign of the result,
\* and "not after" is transitive, ties included (SortedIterator.cc:86-170).
THEOREM ComparisonIsAnOrder ==
  ASSUME NEW type \in SORT_TYPES,
         NEW c1 \in Connections, NEW c2 \in Connections, NEW c3 \in Connections,
         NEW t \in Readings, NEW u \in Readings, NEW v \in Readings,
         Still(t), Still(u), Still(v)
  PROVE  /\ Compare(type, c1, c2, t) = -Compare(type, c2, c1, u)
         /\ Compare(type, c1, c2, t) <= 0 /\ Compare(type, c2, c3, u) <= 0
              => Compare(type, c1, c3, v) <= 0
PROOF
  <1>1. /\ c1.rate \in Int /\ c1.bytes \in Int /\ c1.last \in Int
        /\ c2.rate \in Int /\ c2.bytes \in Int /\ c2.last \in Int
        /\ c3.rate \in Int /\ c3.bytes \in Int /\ c3.last \in Int
    BY DEF Connections
  <1> DEFINE Latest(a, b) == IF a.last > b.last THEN -1
                             ELSE IF a.last < b.last THEN 1 ELSE 0
  <1> DEFINE Longest(a, b) == IF a.last > b.last THEN 1
                              ELSE IF a.last < b.last THEN -1 ELSE 0
  <1>2. /\ CompareActive(c1, c2, t) = Latest(c1, c2)
        /\ CompareActive(c2, c1, u) = Latest(c2, c1)
        /\ CompareActive(c2, c3, u) = Latest(c2, c3)
        /\ CompareActive(c1, c3, v) = Latest(c1, c3)
    BY StillCompares
  <1>3. /\ CompareIdle(c1, c2, t) = Longest(c1, c2)
        /\ CompareIdle(c2, c1, u) = Longest(c2, c1)
        /\ CompareIdle(c2, c3, u) = Longest(c2, c3)
        /\ CompareIdle(c1, c3, v) = Longest(c1, c3)
    BY StillCompares
  <1>4. CASE type = "SORT_RATE"
    BY <1>1, <1>2, <1>4 DEF Compare, CompareRate
  <1>5. CASE type = "SORT_BYTES"
    BY <1>1, <1>2, <1>5 DEF Compare, CompareBytes
  <1>6. CASE type = "SORT_IDLE"
    BY <1>1, <1>3, <1>6 DEF Compare
  <1>7. CASE type = "SORT_ACTIVE"
    BY <1>1, <1>2, <1>7 DEF Compare
  <1> QED
    BY <1>4, <1>5, <1>6, <1>7 DEF SORT_TYPES

\* If the clock ticks in the middle of a comparison of idle times, the
\* connection called the more recent one is at least as recent as the other,
\* and two connections are called equal only if their last packets are no
\* more than a second apart (SortedIterator.cc:156-170, TCPConnection.cc:219).
THEOREM TickMovesNothingFar ==
  ASSUME NEW c1 \in Connections, NEW c2 \in Connections,
         NEW t \in Readings, TicksOnce(t)
  PROVE  /\ CompareActive(c1, c2, t) = -1 => c1.last >= c2.last
         /\ CompareActive(c1, c2, t) = 1 => c1.last < c2.last
         /\ CompareActive(c1, c2, t) = 0 => c2.last \in c1.last .. c1.last + 1
         /\ CompareIdle(c1, c2, t) = -CompareActive(c1, c2, t)
PROOF
  <1>1. c1.last \in Int /\ c2.last \in Int
    BY DEF Connections
  <1>2. /\ t[1] \in Int /\ t[2] \in Int /\ t[3] \in Int /\ t[4] \in Int
        /\ t[1] <= t[2] /\ t[2] <= t[3] /\ t[3] <= t[4] /\ t[4] <= t[1] + 1
    BY DEF Readings, TicksOnce
  <1> QED
    BY <1>1, <1>2 DEF CompareActive, CompareIdle, GetIdleSeconds

-----------------------------------------------------------------------------
(* The columns. *)

\* Where the last three columns begin, for every width.
LEMMA Begin ==
  ASSUME NEW x \in Nat
  PROVE  /\ Act(x).from = 58 + ExtraCl(x) + ExtraSr(x)
         /\ Speed(x).from = 60 + ExtraCl(x) + ExtraSr(x)
         /\ Bytes(x).from = 69 + ExtraCl(x) + ExtraSr(x)
         /\ ExtraCl(x) \in Nat /\ ExtraSr(x) \in Nat
         /\ ExtraCl(x) + ExtraSr(x) = IF x > 78 THEN x - 78 ELSE 0
PROOF
  <1>1. /\ ExtraCl(x) \in Nat /\ ExtraSr(x) \in Nat
        /\ ExtraCl(x) + ExtraSr(x) = IF x > 78 THEN x - 78 ELSE 0
    BY DEF ExtraCl, ExtraSr
  \* Each column begins one character after the end of the one before.
  <1> DEFINE Follows(col, from, len) == col.from = from /\ col.len = len
  <1>2. Follows(Client(x), 1, 15 + ExtraCl(x))
    BY DEF Client, Column
  <1>3. Follows(ClientPt(x), 17 + ExtraCl(x), 5)
    BY <1>1, <1>2 DEF ClientPt, Column, After
  <1>4. Follows(Server(x), 23 + ExtraCl(x), 15 + ExtraSr(x))
    BY <1>1, <1>3 DEF Server, Column, After
  <1>5. Follows(ServerPt(x), 39 + ExtraCl(x) + ExtraSr(x), 5)
    BY <1>1, <1>4 DEF ServerPt, Column, After
  <1>6. Follows(State(x), 45 + ExtraCl(x) + ExtraSr(x), 7)
    BY <1>1, <1>5 DEF State, Column, After
  <1>7. Follows(Idle(x), 53 + ExtraCl(x) + ExtraSr(x), 4)
    BY <1>1, <1>6 DEF Idle, Column, After
  <1>8. Follows(Act(x), 58 + ExtraCl(x) + ExtraSr(x), 1)
    BY <1>1, <1>7 DEF Act, Column, After
  <1>9. Follows(Speed(x), 60 + ExtraCl(x) + ExtraSr(x), 8)
    BY <1>1, <1>8 DEF Speed, Column, After
  <1>10. Follows(Bytes(x), 69 + ExtraCl(x) + ExtraSr(x), 8)
    BY <1>1, <1>9 DEF Bytes, Column, After
  <1> QED
    BY <1>1, <1>8, <1>9, <1>10

\* On every terminal of at least MinWidth columns all columns up to the speed
\* are on the screen, the byte count is there from 77 on, and no character of
\* a wide terminal is given away (TextUI.cc:272-310, 440).
THEOREM ColumnsFit ==
  ASSUME NEW x \in Nat, x >= MinWidth
  PROVE  /\ Ends(Speed(x)) <= x
         /\ BytesShown(x) <=> x >= 77
         /\ x >= 78 => Ends(Bytes(x)) = x - 1
PROOF
  <1> DEFINE extra == ExtraCl(x) + ExtraSr(x)
  <1>1. /\ Speed(x).from = 60 + extra /\ Bytes(x).from = 69 + extra
        /\ extra = IF x > 78 THEN x - 78 ELSE 0
    <2>1. /\ Speed(x).from = 60 + ExtraCl(x) + ExtraSr(x)
          /\ Bytes(x).from = 69 + ExtraCl(x) + ExtraSr(x)
          /\ ExtraCl(x) \in Nat /\ ExtraSr(x) \in Nat
          /\ ExtraCl(x) + ExtraSr(x) = IF x > 78 THEN x - 78 ELSE 0
      BY Begin
    <2> QED
      BY ONLY <2>1
  <1>2. Speed(x).len = 8 /\ Bytes(x).len = 8
    BY DEF Speed, Bytes, Column
  <1> HIDE DEF extra
  <1>3. Ends(Speed(x)) = 68 + extra /\ Ends(Bytes(x)) = 77 + extra /\ extra \in Nat
    BY <1>1, <1>2 DEF Ends
  <1> QED
    BY <1>1, <1>3 DEF BytesShown, MinWidth

\* print_bps() writes eight characters, or nine where rounding gives the
\* number a digit more; so what it writes into the column of the speed never
\* reaches the column of the bytes (TextUI.cc:539-557).
THEOREM NumbersFit ==
  ASSUME NEW x \in Nat, NEW n \in Nat, n < 4 * GB
  PROVE  /\ PrintBps(n) \in {8, 9}
         /\ Speed(x).from + PrintBps(n) <= Bytes(x).from
PROOF
  <1>1. PrintBps(n) \in {8, 9}
    <2>1. CASE n < 10 * KB
      <3>1. Rounded(n, KB, 100) \in Int /\ Rounded(n, KB, 100) <= 1000
        BY SMT, <2>1 DEF Rounded, KB
      <3> QED
        BY SMT, <2>1, <3>1 DEF PrintBps, Number, WithPoint, KB
    <2>2. CASE n >= 10 * KB /\ n < 100 * KB
      <3>1. Rounded(n, KB, 10) \in Int /\ Rounded(n, KB, 10) <= 1000
        BY SMT, <2>2 DEF Rounded, KB
      <3> QED
        BY SMT, <2>2, <3>1 DEF PrintBps, Number, WithPoint, KB
    <2>3. CASE n >= 100 * KB /\ n < 1000 * KB
      <3>1. Rounded(n, KB, 1) \in Int /\ Rounded(n, KB, 1) <= 1000
        BY SMT, <2>3 DEF Rounded, KB
      <3> QED
        BY SMT, <2>3, <3>1 DEF PrintBps, Number, NoPoint, KB
    <2>4. CASE n >= 1000 * KB /\ n < 10 * MB
      <3>1. Rounded(n, MB, 100) \in Int /\ Rounded(n, MB, 100) <= 1000
        BY SMT, <2>4 DEF Rounded, MB, KB
      <3> QED
        BY SMT, <2>4, <3>1 DEF PrintBps, Number, WithPoint, KB, MB
    <2>5. CASE n >= 10 * MB /\ n < 100 * MB
      <3>1. Rounded(n, MB, 10) \in Int /\ Rounded(n, MB, 10) <= 1000
        BY SMT, <2>5 DEF Rounded, MB, KB
      <3> QED
        BY SMT, <2>5, <3>1 DEF PrintBps, Number, WithPoint, KB, MB
    <2>6. CASE n >= 100 * MB /\ n < 1000 * MB
      <3>1. Rounded(n, MB, 1) \in Int /\ Rounded(n, MB, 1) <= 1000
        BY SMT, <2>6 DEF Rounded, MB, KB
      <3> QED
        BY SMT, <2>6, <3>1 DEF PrintBps, Number, NoPoint, KB, MB
    <2>7. CASE n >= 1000 * MB
      <3>1. Rounded(n, GB, 100) \in Int /\ Rounded(n, GB, 100) <= 1000
        BY SMT, <2>7 DEF Rounded, GB, MB, KB
      <3> QED
        BY SMT, <2>7, <3>1 DEF PrintBps, Number, WithPoint, KB, MB
    <2> QED
      BY SMT, <2>1, <2>2, <2>3, <2>4, <2>5, <2>6, <2>7 DEF KB, MB
  <1>2. Bytes(x).from = Speed(x).from + 9 /\ Speed(x).from \in Nat
    <2>1. /\ Speed(x).from = 60 + ExtraCl(x) + ExtraSr(x)
          /\ Bytes(x).from = 69 + ExtraCl(x) + ExtraSr(x)
          /\ ExtraCl(x) \in Nat /\ ExtraSr(x) \in Nat
      BY Begin
    <2> QED
      BY ONLY <2>1
  <1> QED
    BY <1>1, <1>2

=============================================================================
