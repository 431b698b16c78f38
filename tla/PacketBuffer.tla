----------------------------- MODULE PacketBuffer -----------------------------
(***************************************************************************)
(* The double-buffered queue between the sniffer's thread and the packet   *)
(* buffer's own ("maint") thread, with the main thread that detaches both  *)
(* ends before it deletes the objects.  One action is what a thread does   *)
(* between two points at which another thread can see the difference: the  *)
(* locking calls, and the call into the container.                         *)
(*                                                                         *)
(* Locks: pb_mutex of the Sniffer guards its pb pointer, c_lock guards the *)
(* buffer's c pointer, inq_lock guards inq.  outq has no lock.             *)
(***************************************************************************)
EXTENDS Integers, Sequences

Threads == {"sniffer", "maint", "main"}

CONSTANTS Packets,      \* the packets pcap hands to the sniffer, each once
          None,
          MaxSpurious   \* how many times inq_flag may wake up its waiter for nothing

ASSUME BufferAssumption == None \notin Packets /\ None \notin Threads /\ MaxSpurious \in Nat

VARIABLES pc,           \* what each thread is about to do
          pq,           \* the queues pq1 and pq2
          inq, outq,    \* which of the two each pointer points to
          attached,     \* the buffer's c # NULL
          sending,      \* the sniffer's pb # NULL
          owner,        \* the thread that holds each mutex, or None
          woken,        \* the maint thread, asleep on inq_flag, was signalled
          pkt,          \* the packet in the sniffer's hands, or None
          unseen,       \* packets pcap has yet to hand over
          delivered,    \* history: packets given to processPacket(), in order
          spurious,     \* spurious wakeups so far
          live          \* packets allocated by getnlp() and not yet freed

vars == <<pc, pq, inq, outq, attached, sending, owner, woken, pkt, unseen,
          delivered, spurious, live>>

queueVars  == <<pq, inq, outq>>
destVars   == <<attached, sending>>
wakeVars   == <<woken, spurious>>
packetVars == <<pkt, unseen, live>>

Locks == {"pb_mutex", "c_lock", "inq_lock"}
Queues == {1, 2}

Go(t, from, to) == pc[t] = from /\ pc' = [pc EXCEPT ![t] = to]
Lock(t, m) == owner[m] = None /\ owner' = [owner EXCEPT ![m] = t]
Unlock(m) == owner' = [owner EXCEPT ![m] = None]

-----------------------------------------------------------------------------
(* The sniffer's thread: Sniffer::processPacket() and pushPacket(). *)

SnifferCapture ==
  /\ Go("sniffer", "idle", "pb")
  /\ \E p \in unseen : pkt' = p /\ unseen' = unseen \ {p}
  /\ UNCHANGED <<queueVars, destVars, wakeVars, owner, delivered, live>>

SnifferLockPb ==
  /\ Go("sniffer", "pb", "build") /\ Lock("sniffer", "pb_mutex")
  /\ UNCHANGED <<queueVars, destVars, wakeVars, packetVars, delivered>>

\* No buffer to send to, or a packet that getnlp() or checknlp() turns down:
\* whatever was allocated has been freed again.
SnifferIgnore ==
  /\ Go("sniffer", "build", "idle") /\ Unlock("pb_mutex")
  /\ pkt' = None
  /\ UNCHANGED <<queueVars, destVars, wakeVars, unseen, delivered, live>>

SnifferBuild ==
  /\ sending
  /\ Go("sniffer", "build", "c")
  /\ live' = live \cup {pkt}
  /\ UNCHANGED <<queueVars, destVars, wakeVars, owner, pkt, unseen, delivered>>

SnifferLockC ==
  /\ Go("sniffer", "c", "check") /\ Lock("sniffer", "c_lock")
  /\ UNCHANGED <<queueVars, destVars, wakeVars, packetVars, delivered>>

\* Faulty: inq_lock is not taken.
SnifferCheckNoLock ==
  /\ Go("sniffer", "check", IF attached THEN "push" ELSE "unpb")
  /\ IF attached THEN UNCHANGED owner ELSE Unlock("c_lock")
  /\ UNCHANGED <<queueVars, destVars, wakeVars, packetVars, delivered>>

\* c == NULL: the packet is dropped, and nothing frees it.
SnifferCheck ==
  /\ Go("sniffer", "check", IF attached THEN "push" ELSE "unpb")
  /\ IF attached THEN Lock("sniffer", "inq_lock") ELSE Unlock("c_lock")
  /\ UNCHANGED <<queueVars, destVars, wakeVars, packetVars, delivered>>

\* Faulty: pushes to the wrong queue; does not signal.
SnifferPushToOutq ==
  /\ Go("sniffer", "push", "uninq")
  /\ pq' = [pq EXCEPT ![outq] = Append(@, pkt)]
  /\ woken' = (pc["maint"] = "wait")
  /\ UNCHANGED <<destVars, packetVars, inq, outq, owner, delivered, spurious>>
SnifferPushNoSignal ==
  /\ Go("sniffer", "push", "uninq")
  /\ pq' = [pq EXCEPT ![inq] = Append(@, pkt)]
  /\ UNCHANGED <<destVars, packetVars, inq, outq, owner, delivered, wakeVars>>

\* inq->push(p) and pthread_cond_signal(), which is lost on a thread that is
\* not asleep.
SnifferPush ==
  /\ Go("sniffer", "push", "uninq")
  /\ pq' = [pq EXCEPT ![inq] = Append(@, pkt)]
  /\ woken' = (pc["maint"] = "wait")
  /\ UNCHANGED <<destVars, packetVars, inq, outq, owner, delivered, spurious>>

SnifferUnlockInq ==
  /\ Go("sniffer", "uninq", "unc") /\ Unlock("inq_lock")
  /\ UNCHANGED <<queueVars, destVars, wakeVars, packetVars, delivered>>

SnifferUnlockC ==
  /\ Go("sniffer", "unc", "unpb") /\ Unlock("c_lock")
  /\ UNCHANGED <<queueVars, destVars, wakeVars, packetVars, delivered>>

SnifferUnlockPb ==
  /\ Go("sniffer", "unpb", "idle") /\ Unlock("pb_mutex")
  /\ pkt' = None
  /\ UNCHANGED <<queueVars, destVars, wakeVars, unseen, delivered, live>>

Sniffer == \/ SnifferLockPb \/ SnifferIgnore \/ SnifferBuild \/ SnifferLockC
           \/ SnifferCheck \/ SnifferPush
           \/ SnifferUnlockInq \/ SnifferUnlockC \/ SnifferUnlockPb

-----------------------------------------------------------------------------
(* The packet buffer's thread: maint_thread_run(). *)

MaintLockInq ==
  /\ Go("maint", "lock", "test") /\ Lock("maint", "inq_lock")
  /\ UNCHANGED <<queueVars, destVars, wakeVars, packetVars, delivered>>

\* pthread_cond_wait() gives the lock back while the thread sleeps.
MaintSleep ==
  /\ pq[inq] = <<>>
  /\ Go("maint", "test", "wait") /\ Unlock("inq_lock")
  /\ UNCHANGED <<queueVars, destVars, wakeVars, packetVars, delivered>>

MaintNoSleep ==
  /\ pq[inq] # <<>>
  /\ Go("maint", "test", "swap")
  /\ UNCHANGED <<queueVars, destVars, wakeVars, packetVars, owner, delivered>>

\* POSIX allows pthread_cond_wait() to return without a signal.
SpuriousWakeup ==
  /\ pc["maint"] = "wait" /\ ~woken /\ spurious < MaxSpurious
  /\ woken' = TRUE /\ spurious' = spurious + 1
  /\ UNCHANGED <<queueVars, destVars, packetVars, pc, owner, delivered>>

\* The code does not test the queue again.
MaintWake ==
  /\ woken /\ woken' = FALSE
  /\ Go("maint", "wait", "swap") /\ Lock("maint", "inq_lock")
  /\ UNCHANGED <<queueVars, destVars, packetVars, delivered, spurious>>

\* Faulty: goes to the next queue without end.
MaintSwapNoWrap ==
  /\ Go("maint", "swap", "drain") /\ Unlock("inq_lock")
  /\ inq' = inq + 1
  /\ outq' = inq
  /\ UNCHANGED <<destVars, wakeVars, packetVars, pq, delivered>>

MaintSwap ==
  /\ Go("maint", "swap", "drain") /\ Unlock("inq_lock")
  /\ inq' = (IF inq = 1 THEN 2 ELSE 1)
  /\ outq' = (IF inq = 1 THEN 1 ELSE 2)
  /\ UNCHANGED <<destVars, wakeVars, packetVars, pq, delivered>>

\* Faulty: leaves outq before it is empty.
MaintDrainedEarly ==
  /\ Go("maint", "drain", "lock")
  /\ UNCHANGED <<queueVars, destVars, wakeVars, packetVars, owner, delivered>>

MaintDrained ==
  /\ pq[outq] = <<>>
  /\ Go("maint", "drain", "lock")
  /\ UNCHANGED <<queueVars, destVars, wakeVars, packetVars, owner, delivered>>

MaintLockC ==
  /\ pq[outq] # <<>>
  /\ Go("maint", "drain", "process") /\ Lock("maint", "c_lock")
  /\ UNCHANGED <<queueVars, destVars, wakeVars, packetVars, delivered>>

\* Faulty: does not look at c.
MaintProcessAlways ==
  /\ Go("maint", "process", "unc")
  /\ delivered' = Append(delivered, Head(pq[outq]))
  /\ UNCHANGED <<queueVars, destVars, wakeVars, packetVars, owner>>

\* if( c != NULL ) c->processPacket(...), for as long as the container's own
\* lock makes it wait.
MaintProcess ==
  /\ Go("maint", "process", "unc")
  /\ delivered' = IF attached THEN Append(delivered, Head(pq[outq])) ELSE delivered
  /\ UNCHANGED <<queueVars, destVars, wakeVars, packetVars, owner>>

\* Faulty: c_lock is not released.
MaintUnlockCNot ==
  /\ Go("maint", "unc", "pop")
  /\ UNCHANGED <<queueVars, destVars, wakeVars, packetVars, owner, delivered>>

MaintUnlockC ==
  /\ Go("maint", "unc", "pop") /\ Unlock("c_lock")
  /\ UNCHANGED <<queueVars, destVars, wakeVars, packetVars, delivered>>

MaintPop ==
  /\ Go("maint", "pop", "drain")
  /\ live' = live \ {Head(pq[outq])}
  /\ pq' = [pq EXCEPT ![outq] = Tail(@)]
  /\ UNCHANGED <<destVars, wakeVars, inq, outq, owner, pkt, unseen, delivered>>

Maint == \/ MaintLockInq \/ MaintSleep \/ MaintNoSleep \/ MaintWake \/ MaintSwap
         \/ MaintDrained \/ MaintLockC \/ MaintProcess \/ MaintUnlockC \/ MaintPop

-----------------------------------------------------------------------------
(* The main thread when the program stops: s->dest(), pb->dest(), then the *)
(* container is stopped and, after an error, deleted.                      *)

\* Faulty: the sniffer is not detached.
DetachSnifferNot ==
  /\ Go("main", "run", "detach_buffer")
  /\ UNCHANGED <<queueVars, destVars, wakeVars, packetVars, owner, delivered>>

DetachSniffer ==
  /\ Go("main", "run", "detach_buffer") /\ owner["pb_mutex"] = None
  /\ sending' = FALSE
  /\ UNCHANGED <<queueVars, wakeVars, packetVars, attached, owner, delivered>>

DetachBuffer ==
  /\ Go("main", "detach_buffer", "delete") /\ owner["c_lock"] = None
  /\ attached' = FALSE
  /\ UNCHANGED <<queueVars, wakeVars, packetVars, sending, owner, delivered>>

DeleteContainer ==
  /\ Go("main", "delete", "done")
  /\ UNCHANGED <<queueVars, destVars, wakeVars, packetVars, owner, delivered>>

Main == DetachSniffer \/ DetachBuffer \/ DeleteContainer

-----------------------------------------------------------------------------
Init ==
  /\ pc = [sniffer |-> "idle", maint |-> "lock", main |-> "run"]
  /\ pq = [q \in Queues |-> <<>>] /\ inq = 1 /\ outq = 2
  /\ attached = TRUE /\ sending = TRUE
  /\ owner = [m \in Locks |-> None]
  /\ woken = FALSE /\ pkt = None /\ unseen = Packets
  /\ delivered = <<>> /\ spurious = 0 /\ live = {}

Next == SnifferCapture \/ Sniffer \/ Maint \/ SpuriousWakeup \/ Main

Spec == Init /\ [][Next]_vars

\* Both threads get on with what they have begun; pcap need not have another
\* packet, nobody need stop the program, and no wakeup need be spurious.
Fairness == WF_vars(Sniffer) /\ WF_vars(Maint)
FairSpec == Spec /\ Fairness

-----------------------------------------------------------------------------
(* Properties. *)

SnifferPcs == {"idle", "pb", "build", "c", "check", "push", "uninq", "unc", "unpb"}
MaintPcs   == {"lock", "test", "wait", "swap", "drain", "process", "unc", "pop"}
MainPcs    == {"run", "detach_buffer", "delete", "done"}

\* The type invariant of the buffer and its threads.
TypeOK ==
  /\ pc \in [Threads -> SnifferPcs \cup MaintPcs \cup MainPcs]
  /\ pc["sniffer"] \in SnifferPcs /\ pc["maint"] \in MaintPcs /\ pc["main"] \in MainPcs
  /\ pq \in [Queues -> Seq(Packets)] /\ inq \in Queues /\ outq \in Queues
  /\ attached \in BOOLEAN /\ sending \in BOOLEAN /\ woken \in BOOLEAN
  /\ owner \in [Locks -> Threads \cup {None}]
  /\ pkt \in Packets \cup {None} /\ unseen \subseteq Packets
  /\ (pkt = None <=> pc["sniffer"] = "idle")
  /\ delivered \in Seq(Packets) /\ spurious \in Nat /\ live \subseteq Packets

\* Where each thread holds each mutex.
Holds(t, m) ==
  \/ t = "sniffer" /\ m = "pb_mutex" /\ pc[t] \notin {"idle", "pb"}
  \/ t = "sniffer" /\ m = "c_lock"   /\ pc[t] \in {"check", "push", "uninq", "unc"}
  \/ t = "sniffer" /\ m = "inq_lock" /\ pc[t] \in {"push", "uninq"}
  \/ t = "maint"   /\ m = "inq_lock" /\ pc[t] \in {"test", "swap"}
  \/ t = "maint"   /\ m = "c_lock"   /\ pc[t] \in {"process", "unc"}

\* A mutex is held by the thread that is in a section it protects, and by no
\* other: the sniffer takes three of them in turn and releases them in the
\* opposite order, the maint thread never holds two.
LockDiscipline == \A m \in Locks, t \in Threads : Holds(t, m) <=> owner[m] = t

\* The two threads never work on one std::queue at a time, although the maint
\* thread uses outq without a lock (PacketBuffer.cc:142-144): while the
\* sniffer pushes, nobody tests or moves inq, and inq and outq "never both
\* point to the same pqX queue" (PacketBuffer.h:56-57).
NoQueueRace ==
  pc["sniffer"] = "push" => pc["maint"] \notin {"test", "swap"} /\ inq # outq

\* The output queue is empty whenever the pointers are about to be swapped: a
\* packet can not be overtaken by those that came after it.
DrainedBeforeSwap == pc["maint"] \in {"lock", "test", "wait", "swap"} => pq[outq] = <<>>

\* The packets that are allocated and not freed are those in the two queues
\* and the one in the hands of the sniffer (util.h:63 "dont forget to free
\* this!"): no queue holds a freed packet, and the packet that pushPacket()
\* drops would leak, but none is dropped because the main thread detaches the
\* sniffer first.
Queued == UNION {{pq[q][i] : i \in 1 .. Len(pq[q])} : q \in Queues}
LiveIsOwned == Queued \subseteq live /\ live \subseteq Queued \cup {pkt}

\* Once the main thread is past pb->dest(), which it has to be before it
\* deletes the container, no packet is given to the container any more.
NothingAfterDetach == [][pc["main"] \in {"delete", "done"} => delivered' = delivered]_vars

\* The buffer implements PacketFifo: the packet at the head of outq has left
\* the queue once processPacket() has been called with it.
Handed == pc["maint"] \in {"unc", "pop"}
Queue == (IF Handed THEN Tail(pq[outq]) ELSE pq[outq]) \o pq[inq]
Fifo == INSTANCE PacketFifo WITH queue <- Queue, delivered <- delivered, open <- attached

RefinesFifo == Fifo!Spec
RefinesFairFifo == Fifo!FairSpec

\* The sniffer is never stuck: processPacket() always returns to pcap_loop().
SnifferReturns == pc["sniffer"] # "idle" ~> pc["sniffer"] = "idle"

=============================================================================
