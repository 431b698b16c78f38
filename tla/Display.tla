-------------------------------- MODULE Display --------------------------------
(***************************************************************************)
(* The display thread, TextUI::displayer_run(), between the maintenance    *)
(* thread, which deletes connections, and the packet buffer's thread,      *)
(* which adds them.  All three take conlist_lock; but the display keeps    *)
(* its SortedIterator, an array of pointers to connections, from one       *)
(* refresh to the next while it is paused.                                 *)
(*                                                                         *)
(* A connection is an object on the heap; of its state only matters        *)
(* whether the maintenance thread may remove it now (TCContainer!Expired), *)
(* whether the thread that looks up the names of its hosts is running, and *)
(* how many lines of the screen it takes.  An iterator is the set of the   *)
(* connections it points to, and the order in which they are drawn, by the *)
(* hash table or by one of the four sorts, is any order.                   *)
(***************************************************************************)
EXTENDS Naturals, FiniteSets, SequencesExt

CONSTANTS Conns,     \* connection objects, each allocated at most once
          Slow,      \* those whose names are still looked up when they expire
          Families,  \* the sets of those that may be the IPv6 connections
          SizeY,     \* size_y, the lines of the screen
          None

ASSUME DisplayAssumption ==
  /\ IsFiniteSet(Conns) /\ Slow \subseteq Conns /\ Families \subseteq SUBSET Conns
  /\ SizeY \in Nat /\ SizeY >= 4
  /\ \A S \in SUBSET Conns : S # None

VARIABLES status,     \* of each object: new, tracked, expired, collected (in
                      \* its destructor) or deleted
          lookups,    \* connections whose name lookup thread is running
          tall,       \* the IPv6 connections, which take two lines each
          lock,       \* the thread that holds conlist_lock, or "free"
          todo,       \* connections the maintenance pass has yet to visit
          paused,     \* TextUI::paused
          purgeflag,  \* TCContainer::purgeflag
          iter,       \* TextUI::iter, or None
          doffset,    \* how many connections are scrolled off the screen
          upto,       \* ic_i, how many connections the last drawui() got through
          more,       \* whether it left some out at the end
          pc,         \* what the display thread is about to do
          locked,     \* history: iter was made under the lock
          listed      \* history: what was last drawn since the pause key, or None

vars == <<status, lookups, tall, lock, todo, paused, purgeflag, iter, doffset,
          upto, more, pc, locked, listed>>

Table == {c \in Conns : status[c] \in {"tracked", "expired"}}
Deleted == {c \in Conns : status[c] \in {"collected", "deleted"}}

-----------------------------------------------------------------------------
(* The other threads. *)

othersVars == <<tall, paused, purgeflag, iter, doffset, upto, more, pc, locked, listed>>
connVars == <<status, lookups, tall>>

\* Faulty: conlist_lock is not taken.
PacketNoLock(c) ==
  /\ status[c] \in {"new", "expired"}
  /\ status' = [status EXCEPT ![c] = "tracked"]
  /\ lookups' = IF status[c] = "new" /\ c \in Slow THEN lookups \cup {c} ELSE lookups
  /\ UNCHANGED <<lock, todo, othersVars>>

\* processPacket() makes a connection, which starts its name lookup, or
\* restarts the idle time of one.
Packet(c) ==
  /\ lock = "free" /\ status[c] \in {"new", "expired"}
  /\ status' = [status EXCEPT ![c] = "tracked"]
  /\ lookups' = IF status[c] = "new" /\ c \in Slow THEN lookups \cup {c} ELSE lookups
  /\ UNCHANGED <<lock, todo, othersVars>>

\* Faulty: a lookup that fails is tried again, for ever.
LookupDoneRetrying(c) ==
  /\ c \in lookups
  /\ UNCHANGED <<lookups, status, lock, todo, othersVars>>

\* doNameLookup() has stored the names and its thread ends.
LookupDone(c) ==
  /\ c \in lookups
  /\ lookups' = lookups \ {c}
  /\ UNCHANGED <<status, lock, todo, othersVars>>

\* The connection has been finished, opening or closing for too long.
Expire(c) ==
  /\ status[c] = "tracked"
  /\ status' = [status EXCEPT ![c] = "expired"]
  /\ UNCHANGED <<lookups, lock, todo, othersVars>>

MaintLock ==
  /\ lock = "free" /\ lock' = "maint"
  /\ todo' = Table
  /\ UNCHANGED <<status, lookups, othersVars>>

\* The connection that is being destroyed, if any.
Dying == {c \in Conns : status[c] = "collected"}

\* One turn of the loop of the pass: what is erased is handed to the
\* Collector, which deletes it.
MaintVisit(c) ==
  /\ lock = "maint" /\ c \in todo /\ Dying = {}
  /\ todo' = todo \ {c}
  /\ status' = IF purgeflag /\ status[c] = "expired"
               THEN [status EXCEPT ![c] = "collected"] ELSE status
  /\ UNCHANGED <<lookups, lock, othersVars>>

\* The destructor: it joins the lookup thread, with the lock held.
MaintDelete(c) ==
  /\ status[c] = "collected" /\ c \notin lookups
  /\ status' = [status EXCEPT ![c] = "deleted"]
  /\ UNCHANGED <<lookups, lock, todo, othersVars>>

MaintUnlock ==
  /\ lock = "maint" /\ todo = {} /\ Dying = {}
  /\ lock' = "free"
  /\ UNCHANGED <<status, lookups, todo, othersVars>>

-----------------------------------------------------------------------------
(* The display thread. *)

Go(from, to) == pc = from /\ pc' = to

\* The iterator made before the loop, without the lock.
UiFirst ==
  /\ Go("first", "key")
  /\ iter' = Table /\ locked' = FALSE
  /\ UNCHANGED <<connVars, lock, todo, paused, purgeflag, doffset, upto, more, listed>>

\* Faulty: purge() is not called; the offset is not compared with zero.
PressPNoPurge ==
  /\ paused' = ~paused /\ listed' = None
  /\ UNCHANGED <<purgeflag, doffset>>
ScrolledNoTest == {doffset - 1, doffset + 1}

\* The p key.  Nothing can tell the two assignments from one.
PressP ==
  /\ paused' = ~paused /\ purgeflag' = paused
  /\ listed' = None
  /\ UNCHANGED doffset

\* Faulty: a page is as long as the screen.
PageWhole == SizeY - 1

\* By how much the page keys scroll.
Page == SizeY - 4

\* Where the four scrolling keys lead.
Scrolled == {doffset + 1, doffset + Page,
             IF doffset > 0 THEN doffset - 1 ELSE 0,
             IF doffset > Page THEN doffset - Page ELSE 0}

Scroll ==
  /\ doffset' \in Scrolled
  /\ UNCHANGED <<paused, purgeflag, listed>>

\* select() returns with a key or after the refresh interval.
UiKey ==
  /\ Go("key", "lock")
  /\ PressP \/ Scroll \/ UNCHANGED <<paused, purgeflag, doffset, listed>>
  /\ UNCHANGED <<connVars, lock, todo, iter, upto, more, locked>>

\* The offset, made to point at a connection if there is one.
Clamp(n) == CASE Table = {} -> 0
              [] Table # {} /\ n >= Cardinality(Table) -> Cardinality(Table) - 1
              [] OTHER -> n

UiLock ==
  /\ Go("lock", "draw")
  /\ lock = "free" /\ lock' = "ui"
  /\ doffset' = Clamp(doffset)
  /\ iter' = IF iter = None THEN Table ELSE iter
  /\ locked' = (locked \/ iter = None)
  /\ UNCHANGED <<connVars, todo, paused, purgeflag, upto, more, listed>>

\* The first of the two status lines; the rows begin at line 1.
StatusLine == SizeY - 2

\* The loop of drawui(): the line after the first k connections of order.
LineAfter(order, skipped) ==
  LET line[k \in 0 .. Len(order)] ==
        IF k = 0 THEN 1
        ELSE IF \/ line[k - 1] = StatusLine \/ k <= doffset
                \/ order[k] \in skipped
             THEN line[k - 1]
             ELSE line[k - 1] + IF order[k] \in tall THEN 2 ELSE 1
  IN  line

\* How many connections it takes until the loop stops.
Through(line, n) ==
  CHOOSE k \in 0 .. n : /\ k = n \/ line[k] = StatusLine
                        /\ \A j \in 0 .. k - 1 : line[j] # StatusLine

\* Unless paused, finished connections are skipped when their time is over.
MaySkip == SUBSET {c \in iter : status[c] = "expired" /\ ~paused}

UiDraw ==
  /\ Go("draw", "unlock")
  /\ \E skipped \in MaySkip, order \in SetToSeqs(iter) :
       /\ listed' = iter \ skipped
       /\ upto' = Through(LineAfter(order, skipped), Len(order))
       /\ more' = (upto' < Len(order))
  /\ UNCHANGED <<connVars, lock, todo, paused, purgeflag, iter, doffset, locked>>

\* Faulty: the iterator is always dropped; it is never dropped.
UiUnlockDropping ==
  /\ Go("unlock", "key")
  /\ lock' = "free" /\ iter' = None /\ locked' = FALSE
  /\ UNCHANGED <<connVars, todo, paused, purgeflag, doffset, upto, more, listed>>
UiUnlockKeeping ==
  /\ Go("unlock", "key")
  /\ lock' = "free"
  /\ UNCHANGED <<connVars, todo, paused, purgeflag, iter, doffset, upto, more,
                 locked, listed>>

\* The iterator is kept for the next refresh only if the display is paused.
UiUnlock ==
  /\ Go("unlock", "key")
  /\ lock' = "free"
  /\ iter' = IF paused THEN iter ELSE None
  /\ locked' = (paused /\ locked)
  /\ UNCHANGED <<connVars, todo, paused, purgeflag, doffset, upto, more, listed>>

-----------------------------------------------------------------------------
Init ==
  /\ status = [c \in Conns |-> "new"] /\ lookups = {} /\ tall \in Families
  /\ lock = "free" /\ todo = {}
  /\ paused = FALSE /\ purgeflag = TRUE
  /\ iter = None /\ doffset = 0 /\ upto = 0 /\ more = FALSE /\ pc = "first"
  /\ locked = FALSE /\ listed = None

Next ==
  \/ \E c \in Conns : \/ Packet(c) \/ LookupDone(c) \/ Expire(c)
                      \/ MaintVisit(c) \/ MaintDelete(c)
  \/ MaintLock \/ MaintUnlock
  \/ UiFirst \/ UiKey \/ UiLock \/ UiDraw \/ UiUnlock

Spec == Init /\ [][Next]_vars

\* Every thread gets on with what it does under the lock and then sleeps
\* (nanosleep, select, the condition of the buffer), so the display gets the
\* lock in the end.  getnameinfo() returns, if only with an error.
Fairness == /\ WF_vars(UiFirst) /\ WF_vars(UiKey) /\ SF_vars(UiLock)
            /\ WF_vars(UiDraw) /\ WF_vars(UiUnlock)
            /\ \A c \in Conns : WF_vars(MaintVisit(c)) /\ WF_vars(MaintDelete(c))
            /\ \A c \in Slow : WF_vars(LookupDone(c))
            /\ WF_vars(MaintUnlock)

FairSpec == Spec /\ Fairness

-----------------------------------------------------------------------------
(* Properties. *)

\* The type invariant of the display and its iterator.
TypeOK ==
  /\ status \in [Conns -> {"new", "tracked", "expired", "collected", "deleted"}]
  /\ lookups \subseteq Slow /\ tall \in Families
  /\ upto \in 0 .. Cardinality(Conns) /\ more \in BOOLEAN
  /\ lock \in {"free", "maint", "ui"} /\ todo \subseteq Conns
  /\ paused \in BOOLEAN /\ purgeflag \in BOOLEAN
  /\ (iter = None \/ iter \subseteq Conns) /\ doffset \in Nat
  /\ pc \in {"first", "key", "lock", "draw", "unlock"}
  /\ (pc \in {"draw", "unlock"} => iter # None)
  /\ locked \in BOOLEAN /\ (listed = None \/ listed \subseteq Conns)

\* While the display is paused, none of the connections its iterator points
\* to is deleted, provided that the iterator was made under the lock: the
\* purge flag was down before the iterator was made (TextUI.cc:219-220, 243).
PausedIsLive == paused /\ locked => iter \cap Deleted = {}

\* When the screen has no room for all connections no key scrolls past one
\* that was not shown, unless some take two lines (tcptrack.1:88-89, "Scroll
\* the display to view connections on the second page").
ScrollSkipsNone ==
  [][pc = "key" /\ more /\ tall = {} => doffset' <= upto]_vars

\* What is handed to the Collector is deleted in the end, although its
\* destructor, under conlist_lock, waits for a thread that waits for the
\* resolver (TCContainer.h:110-112, "Right now it just deletes them").
CollectedIsDeleted ==
  \A c \in Conns : status[c] = "collected" ~> status[c] = "deleted"

\* While the display is paused every refresh lists the same connections
\* (tcptrack.1:77-78, "No new connections will be added to the display, and
\* all currently displayed connections will remain").
PausedListsSame ==
  [][paused /\ paused' /\ listed # None => listed' = listed]_vars

\* A connection that is tracked and does not expire is listed sooner or
\* later, unless the user pauses the display (tcptrack.1:105-108, "When you
\* unpause, the display will be updated").
TrackedIsListed ==
  \A c \in Conns :
    status[c] = "tracked" ~> paused \/ status[c] # "tracked" \/ (listed # None /\ c \in listed)

\* The other threads and the pause key do to the connections what the table
\* of connections allows, as the container does: the display's own reading
\* of it, under the lock, changes nothing.
Abstract == INSTANCE ConnTable
              WITH Keys <- Conns, table <- Table,
                   ripe <- {c \in Conns : status[c] = "expired"},
                   purging <- purgeflag,
                   holder <- IF lock = "maint" THEN "maint" ELSE "none"
RefinesTable == Abstract!Spec

\* Collector.cc:28-30 has it that the deletion of a connection only needs
\* care "in the future when multiple SortedIterators are allowed and the
\* TCContainer isn't locked": no connection that is drawn, from an iterator
\* made under the lock, has been deleted.
DrawnIsLive == pc = "draw" /\ locked => iter \cap Deleted = {}

=============================================================================
