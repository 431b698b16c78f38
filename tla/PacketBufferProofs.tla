--------------------------- MODULE PacketBufferProofs ---------------------------
(***************************************************************************)
(* Proofs about PacketBuffer for any set of packets: its type invariant,   *)
(* the safety invariants, that nothing is delivered after the detach, and  *)
(* that it implements PacketFifo.                                          *)
(***************************************************************************)
EXTENDS PacketBuffer, SequenceTheorems, TLAPS

\* Between its test of outq and pop() the maint thread has a packet.
HandsFull == pc["maint"] \in {"process", "unc", "pop"} => pq[outq] # <<>>

\* After pb->dest() there is no destination.
DetachedStays == pc["main"] \in {"delete", "done"} => attached = FALSE

\* The destination cannot be taken away while the sniffer holds c_lock to push.
AttachedToPush == pc["sniffer"] = "push" => attached = TRUE

\* The inductive invariant.
IInv == /\ TypeOK
        /\ LockDiscipline
        /\ inq # outq
        /\ DrainedBeforeSwap
        /\ HandsFull
        /\ DetachedStays
        /\ AttachedToPush

LEMMA InitIInv == Init => IInv
  <1> SUFFICES ASSUME Init PROVE IInv
    OBVIOUS
  <1> USE DEF Init, SnifferPcs, MaintPcs, MainPcs, Threads, Locks, Queues
  <1>1. TypeOK
    <2>1. pq \in [Queues -> Seq(Packets)] /\ delivered \in Seq(Packets)
      OBVIOUS
    <2>2. pc \in [Threads -> SnifferPcs \cup MaintPcs \cup MainPcs]
      OBVIOUS
    <2>3. owner \in [Locks -> Threads \cup {None}]
      OBVIOUS
    <2>4. QED
      BY <2>1, <2>2, <2>3 DEF TypeOK
  <1>2. LockDiscipline
    BY BufferAssumption DEF LockDiscipline, Holds
  <1>3. QED
    BY <1>1, <1>2 DEF IInv, DrainedBeforeSwap, HandsFull, DetachedStays,
                   AttachedToPush

LEMMA SnifferIInv == ASSUME IInv, SnifferCapture \/ Sniffer PROVE IInv'
  <1> USE BufferAssumption
       DEF IInv, TypeOK, LockDiscipline, Holds, DrainedBeforeSwap, HandsFull,
           DetachedStays, AttachedToPush, SnifferPcs, MaintPcs, MainPcs, Threads, Locks, Queues, Go, Lock, Unlock,
           queueVars, destVars, wakeVars, packetVars
  <1>1. CASE SnifferCapture
    BY <1>1 DEF SnifferCapture
  <1>2. CASE SnifferLockPb
    BY <1>2 DEF SnifferLockPb
  <1>3. CASE SnifferIgnore
    BY <1>3 DEF SnifferIgnore
  <1>4. CASE SnifferBuild
    BY <1>4 DEF SnifferBuild
  <1>5. CASE SnifferLockC
    BY <1>5 DEF SnifferLockC
  <1>6. CASE SnifferCheck
    BY <1>6 DEF SnifferCheck
  <1>7. CASE SnifferPush
    BY <1>7 DEF SnifferPush
  <1>8. CASE SnifferUnlockInq
    BY <1>8 DEF SnifferUnlockInq
  <1>9. CASE SnifferUnlockC
    BY <1>9 DEF SnifferUnlockC
  <1>10. CASE SnifferUnlockPb
    BY <1>10 DEF SnifferUnlockPb
  <1>11. QED
    BY <1>1, <1>2, <1>3, <1>4, <1>5, <1>6, <1>7, <1>8, <1>9, <1>10 DEF Sniffer

LEMMA MaintIInv == ASSUME IInv, Maint \/ SpuriousWakeup PROVE IInv'
  <1> USE BufferAssumption
       DEF IInv, TypeOK, LockDiscipline, Holds, DrainedBeforeSwap, HandsFull,
           DetachedStays, AttachedToPush, SnifferPcs, MaintPcs, MainPcs, Threads, Locks, Queues,
           Go, Lock, Unlock, queueVars, destVars, wakeVars, packetVars
  <1>1. CASE MaintLockInq
    BY <1>1 DEF MaintLockInq
  <1>2. CASE MaintSleep
    BY <1>2 DEF MaintSleep
  <1>3. CASE MaintNoSleep
    BY <1>3 DEF MaintNoSleep
  <1>4. CASE MaintWake
    <2>1. TypeOK'
      BY <1>4 DEF MaintWake
    <2>2. LockDiscipline'
      BY <1>4 DEF MaintWake
    <2>3. QED
      BY <1>4, <2>1, <2>2 DEF MaintWake
  <1>5. CASE MaintSwap
    BY <1>5 DEF MaintSwap
  <1>6. CASE MaintDrained
    BY <1>6 DEF MaintDrained
  <1>7. CASE MaintLockC
    BY <1>7 DEF MaintLockC
  <1>8. CASE MaintProcess
    BY <1>8 DEF MaintProcess
  <1>9. CASE MaintUnlockC
    BY <1>9 DEF MaintUnlockC
  <1>10. CASE MaintPop
    BY <1>10 DEF MaintPop
  <1>11. CASE SpuriousWakeup
    BY <1>11 DEF SpuriousWakeup
  <1>12. QED
    BY <1>1, <1>2, <1>3, <1>4, <1>5, <1>6, <1>7, <1>8, <1>9, <1>10, <1>11 DEF Maint

LEMMA MainIInv == ASSUME IInv, Main PROVE IInv'
  <1> USE BufferAssumption
       DEF IInv, TypeOK, LockDiscipline, Holds, DrainedBeforeSwap, HandsFull,
           DetachedStays, AttachedToPush, SnifferPcs, MaintPcs, MainPcs, Threads, Locks, Queues,
           Go, queueVars, destVars, wakeVars, packetVars
  <1>1. CASE DetachSniffer
    <2>1. TypeOK'
      BY <1>1 DEF DetachSniffer
    <2>2. LockDiscipline'
      BY <1>1 DEF DetachSniffer
    <2>3. DetachedStays'
      BY <1>1 DEF DetachSniffer
    <2>4. QED
      BY <1>1, <2>1, <2>2, <2>3 DEF DetachSniffer
  <1>2. CASE DetachBuffer
    <2>1. TypeOK'
      BY <1>2 DEF DetachBuffer
    <2>2. LockDiscipline'
      BY <1>2 DEF DetachBuffer
    <2>3. DetachedStays'
      BY <1>2 DEF DetachBuffer
    <2>4. QED
      BY <1>2, <2>1, <2>2, <2>3 DEF DetachBuffer
  <1>3. CASE DeleteContainer
    BY <1>3 DEF DeleteContainer
  <1>4. QED
    BY <1>1, <1>2, <1>3 DEF Main

LEMMA NextIInv == IInv /\ [Next]_vars => IInv'
  <1> SUFFICES ASSUME IInv, [Next]_vars PROVE IInv'
    OBVIOUS
  <1>1. CASE SnifferCapture \/ Sniffer
    BY <1>1, SnifferIInv
  <1>2. CASE Maint \/ SpuriousWakeup
    BY <1>2, MaintIInv
  <1>3. CASE Main
    BY <1>3, MainIInv
  <1>4. CASE UNCHANGED vars
    BY <1>4 DEF vars, IInv, TypeOK, LockDiscipline, Holds, DrainedBeforeSwap,
                HandsFull, DetachedStays, AttachedToPush
  <1>5. QED
    BY <1>1, <1>2, <1>3, <1>4 DEF Next

LEMMA Invariance == Spec => []IInv
  BY InitIInv, NextIInv, PTL DEF Spec

\* Every variable of the buffer always has its type.
THEOREM TypeCorrect == Spec => []TypeOK
  <1>1. IInv => TypeOK
    BY DEF IInv
  <1>2. QED
    BY <1>1, Invariance, PTL

\* Each of the three mutexes is held exactly by the thread that is between
\* the calls that lock and unlock it (PacketBuffer.cc, Sniffer.cc).
THEOREM LocksAreHeld == Spec => []LockDiscipline
  <1>1. IInv => LockDiscipline
    BY DEF IInv
  <1>2. QED
    BY <1>1, Invariance, PTL

\* The sniffer never pushes to a queue while the maint thread uses it or
\* changes the pointers (PacketBuffer.h:56-57, PacketBuffer.cc:130-144).
THEOREM QueueRaceFreedom == Spec => []NoQueueRace
  <1>1. IInv => NoQueueRace
    BY BufferAssumption
    DEF IInv, LockDiscipline, Holds, NoQueueRace, TypeOK, Locks, Threads
  <1>2. QED
    BY <1>1, Invariance, PTL

\* The pointers are swapped only when the output queue is empty.
THEOREM SwapWhenDrained == Spec => []DrainedBeforeSwap
  <1>1. IInv => DrainedBeforeSwap
    BY DEF IInv
  <1>2. QED
    BY <1>1, Invariance, PTL

-----------------------------------------------------------------------------
(* After pb->dest() nothing more reaches the container. *)

LEMMA DetachedStep ==
  IInv /\ [Next]_vars => (pc["main"] \in {"delete", "done"} => delivered' = delivered)
  <1> SUFFICES ASSUME IInv, [Next]_vars, pc["main"] \in {"delete", "done"}
               PROVE  delivered' = delivered
    OBVIOUS
  <1>1. attached = FALSE
    BY DEF IInv, DetachedStays
  <1>2. CASE MaintProcess
    BY <1>1, <1>2 DEF MaintProcess
  <1>3. CASE SnifferCapture \/ Sniffer
    BY <1>3 DEF Sniffer, SnifferCapture, SnifferLockPb, SnifferIgnore, SnifferBuild,
                SnifferLockC, SnifferCheck, SnifferPush,
                SnifferUnlockInq, SnifferUnlockC, SnifferUnlockPb
  <1>4. CASE (Maint /\ ~MaintProcess) \/ SpuriousWakeup
    BY <1>4 DEF Maint, MaintLockInq, MaintSleep, MaintNoSleep, MaintWake, MaintSwap,
                MaintDrained, MaintLockC, MaintUnlockC, MaintPop, SpuriousWakeup
  <1>5. CASE Main
    BY <1>5 DEF Main, DetachSniffer, DetachBuffer, DeleteContainer
  <1>6. CASE UNCHANGED vars
    BY <1>6 DEF vars
  <1>7. QED
    BY <1>2, <1>3, <1>4, <1>5, <1>6 DEF Next

\* Once the main thread is past pb->dest(), no packet is handed to the
\* container, so it can be deleted (TCPTrack.cc:76-87).
THEOREM DetachIsABarrier == Spec => NothingAfterDetach
  <1>1. IInv /\ [Next]_vars =>
          [pc["main"] \in {"delete", "done"} => delivered' = delivered]_vars
    BY DetachedStep
  <1>2. QED
    BY <1>1, Invariance, PTL DEF Spec, NothingAfterDetach

-----------------------------------------------------------------------------
(* The buffer implements the abstract queue. *)

LEMMA InitFifo == Init => Fifo!Init
  BY DEF Init, Fifo!Init, Queue, Handed, Queues

\* Steps that touch neither the queues nor where the maint thread is among
\* its packets leave the abstract queue alone.
LEMMA QueueUnchanged ==
  ASSUME UNCHANGED <<queueVars, delivered, attached>>, Handed' <=> Handed
  PROVE  UNCHANGED Fifo!vars
  BY DEF queueVars, Fifo!vars, Queue

\* Appending to the second of two sequences appends to their concatenation.
LEMMA ConcatAppend ==
  ASSUME NEW S, NEW s \in Seq(S), NEW t \in Seq(S), NEW e \in S
  PROVE  s \o Append(t, e) = Append(s \o t, e)
  <1>1. <<e>> \in Seq(S) /\ s \o t \in Seq(S)
    OBVIOUS
  <1>2. Append(t, e) = t \o <<e>> /\ Append(s \o t, e) = (s \o t) \o <<e>>
    BY <1>1, AppendIsConcat
  <1>3. QED
    BY <1>1, <1>2, ConcatAssociative

LEMMA SnifferFifo ==
  ASSUME IInv, SnifferCapture \/ Sniffer
  PROVE  (\E p \in Packets : Fifo!Put(p)) \/ UNCHANGED Fifo!vars
  <1> USE DEF IInv, TypeOK, SnifferPcs, MaintPcs, MainPcs, Threads, Go
  <1>1. CASE SnifferPush
    <2>1. pkt \in Packets /\ attached
      BY <1>1 DEF SnifferPush, AttachedToPush
    <2>2. pq' = [pq EXCEPT ![inq] = Append(pq[inq], pkt)] /\ UNCHANGED <<inq, outq>>
      BY <1>1 DEF SnifferPush
    <2>3. pq'[inq'] = Append(pq[inq], pkt) /\ pq'[outq'] = pq[outq]
      BY <2>2
    <2>4. Handed' <=> Handed
      BY <1>1 DEF SnifferPush, Handed
    <2> DEFINE taken == IF Handed THEN Tail(pq[outq]) ELSE pq[outq]
    <2>5. taken \in Seq(Packets) /\ pq[inq] \in Seq(Packets)
      BY DEF HandsFull, Handed
    <2>6. Queue = taken \o pq[inq] /\ Queue' = taken \o Append(pq[inq], pkt)
      BY <2>3, <2>4 DEF Queue
    <2>7. taken \o Append(pq[inq], pkt) = Append(taken \o pq[inq], pkt)
      <3> HIDE DEF taken
      <3>1. QED
        BY ONLY <2>1, <2>5, ConcatAppend
    <2>8. Queue' = Append(Queue, pkt)
      BY <2>6, <2>7
    <2>9. QED
      BY <1>1, <2>1, <2>8 DEF SnifferPush, Fifo!Put, destVars
  <1>2. CASE SnifferCapture \/ (Sniffer /\ ~SnifferPush)
    <2>1. UNCHANGED <<queueVars, delivered, attached>>
      BY <1>2 DEF Sniffer, SnifferCapture, SnifferLockPb, SnifferIgnore, SnifferBuild,
                  SnifferLockC, SnifferCheck, SnifferUnlockInq,
                  SnifferUnlockC, SnifferUnlockPb, queueVars, destVars
    <2>2. pc'["maint"] = pc["maint"]
      BY <1>2 DEF Sniffer, SnifferCapture, SnifferLockPb, SnifferIgnore, SnifferBuild,
                  SnifferLockC, SnifferCheck, SnifferUnlockInq,
                  SnifferUnlockC, SnifferUnlockPb
    <2>3. QED
      BY <2>1, <2>2, QueueUnchanged DEF Handed
  <1>3. QED
    BY <1>1, <1>2 DEF Sniffer

LEMMA MaintFifo ==
  ASSUME IInv, Maint \/ SpuriousWakeup
  PROVE  Fifo!Take \/ UNCHANGED Fifo!vars
  <1> USE DEF IInv, TypeOK, SnifferPcs, MaintPcs, MainPcs, Threads, Go
  <1>1. CASE MaintProcess
    <2>1. pq[outq] # <<>> /\ pq[outq] \in Seq(Packets) /\ pq[inq] \in Seq(Packets)
      BY <1>1 DEF MaintProcess, HandsFull
    <2>2. ~Handed /\ Handed'
      BY <1>1 DEF MaintProcess, Handed
    <2>3. Queue = pq[outq] \o pq[inq] /\ Queue' = Tail(pq[outq]) \o pq[inq]
      BY <1>1, <2>2 DEF MaintProcess, Queue, queueVars
    <2>4. Queue # <<>> /\ Queue' = Tail(Queue) /\ Head(Queue) = Head(pq[outq])
      BY <2>1, <2>3
    <2>5. QED
      BY <1>1, <2>4 DEF MaintProcess, Fifo!Take, destVars
  <1>2. CASE MaintPop
    <2>1. pq[outq] # <<>> /\ pq[outq] \in Seq(Packets)
      BY <1>2 DEF MaintPop, HandsFull
    <2>2. Handed /\ ~Handed'
      BY <1>2 DEF MaintPop, Handed
    <2>3. pq'[outq'] = Tail(pq[outq]) /\ pq'[inq'] = pq[inq]
      BY <1>2 DEF MaintPop
    <2>4. Queue' = Queue
      BY <2>2, <2>3 DEF Queue
    <2>5. QED
      BY <1>2, <2>4 DEF MaintPop, Fifo!vars, destVars
  <1>3. CASE MaintSwap
    <2>1. pq[outq] = <<>> /\ ~Handed /\ ~Handed'
      BY <1>3 DEF MaintSwap, DrainedBeforeSwap, Handed
    <2>2. inq' = outq /\ outq' = inq /\ pq' = pq
      BY <1>3 DEF MaintSwap, Queues
    <2>3. Queue = <<>> \o pq[inq] /\ Queue' = pq[inq] \o <<>>
      BY <2>1, <2>2 DEF Queue
    <2>4. Queue' = Queue
      BY <2>3, pq[inq] \in Seq(Packets), ConcatEmptySeq
    <2>5. QED
      BY <1>3, <2>4 DEF MaintSwap, Fifo!vars, destVars
  <1>4. CASE (Maint /\ ~MaintProcess /\ ~MaintPop /\ ~MaintSwap) \/ SpuriousWakeup
    <2>1. UNCHANGED <<queueVars, delivered, attached>>
      BY <1>4 DEF Maint, MaintLockInq, MaintSleep, MaintNoSleep, MaintWake,
                  MaintDrained, MaintLockC, MaintUnlockC, SpuriousWakeup,
                  queueVars, destVars
    <2>2. Handed' <=> Handed
      BY <1>4 DEF Maint, MaintLockInq, MaintSleep, MaintNoSleep, MaintWake,
                  MaintDrained, MaintLockC, MaintUnlockC, SpuriousWakeup, Handed
    <2>3. QED
      BY <2>1, <2>2, QueueUnchanged
  <1>5. QED
    BY <1>1, <1>2, <1>3, <1>4

LEMMA MainFifo ==
  ASSUME IInv, Main
  PROVE  Fifo!Close \/ UNCHANGED Fifo!vars
  <1> USE DEF IInv, TypeOK, MainPcs, MaintPcs, Threads, Go
  <1>1. pc'["maint"] = pc["maint"] /\ UNCHANGED <<queueVars, delivered>>
    BY DEF Main, DetachSniffer, DetachBuffer, DeleteContainer
  <1>2. UNCHANGED Queue
    BY <1>1 DEF Queue, Handed, queueVars
  <1>3. attached' = attached \/ attached' = FALSE
    BY DEF Main, DetachSniffer, DetachBuffer, DeleteContainer, destVars
  <1>4. QED
    BY <1>1, <1>2, <1>3 DEF Fifo!Close, Fifo!vars

LEMMA FifoStep == IInv /\ [Next]_vars => [Fifo!Next]_(Fifo!vars)
  <1> SUFFICES ASSUME IInv, [Next]_vars PROVE [Fifo!Next]_(Fifo!vars)
    OBVIOUS
  <1>1. CASE SnifferCapture \/ Sniffer
    BY <1>1, SnifferFifo DEF Fifo!Next
  <1>2. CASE Maint \/ SpuriousWakeup
    BY <1>2, MaintFifo DEF Fifo!Next
  <1>3. CASE Main
    BY <1>3, MainFifo DEF Fifo!Next
  <1>4. CASE UNCHANGED vars
    BY <1>4 DEF vars, Fifo!vars, Queue, Handed
  <1>5. QED
    BY <1>1, <1>2, <1>3, <1>4 DEF Next

\* The double-buffered queue is a FIFO queue: what the sniffer pushes while
\* there is a destination is processed once, in order, and nothing is
\* delivered after the detach (PacketBuffer.cc:71-169).
THEOREM BufferIsFifo == Spec => RefinesFifo
  <1>1. QED
    BY InitFifo, FifoStep, Invariance, PTL DEF Spec, RefinesFifo, Fifo!Spec

-----------------------------------------------------------------------------
(* Who owns the packets. *)

\* The places in the queues, and what is there.
Places == {x \in Queues \X Nat : x[2] \in 1 .. Len(pq[x[1]])}
At(x) == pq[x[1]][x[2]]

\* No packet is twice in the queues, and none of those is still to come.
QueuedOnce == /\ \A x, y \in Places : At(x) = At(y) => x = y
              /\ \A x \in Places : At(x) \in live /\ At(x) \notin unseen

\* What becomes of the packet in the sniffer's hands: allocated, then queued.
InHands ==
  /\ pkt \notin unseen
  /\ pc["sniffer"] \in {"pb", "build"} => pkt \notin live
  /\ pc["sniffer"] \in {"c", "check", "push"} => pkt \in live /\ \A x \in Places : At(x) # pkt
  /\ pc["sniffer"] \in {"uninq", "unc", "unpb"} /\ pkt \in live =>
       \E x \in Places : At(x) = pkt

LiveIsPlaced == \A p \in live : p = pkt \/ \E x \in Places : At(x) = p

\* The sniffer is detached first, and not while it has allocated a packet.
DetachOrder == /\ sending => pc["main"] = "run"
               /\ pc["main"] = "run" => attached
               /\ pc["sniffer"] \in {"c", "check"} => pc["main"] = "run"

OwnInv == QueuedOnce /\ InHands /\ LiveIsPlaced /\ DetachOrder

LEMMA PlacesAreQueued ==
  ASSUME TypeOK
  PROVE  Queued = {At(x) : x \in Places}
PROOF
  <1>1. ASSUME NEW q \in Queues  PROVE Len(pq[q]) \in Nat
    BY <1>1 DEF TypeOK
  <1>2. ASSUME NEW p \in Queued  PROVE \E x \in Places : At(x) = p
    <2>1. PICK q \in Queues : p \in {pq[q][i] : i \in 1 .. Len(pq[q])}
      BY DEF Queued
    <2>2. PICK i \in 1 .. Len(pq[q]) : p = pq[q][i]
      BY <2>1
    <2>3. <<q, i>> \in Places /\ At(<<q, i>>) = p
      BY <1>1, <2>2 DEF Places, At
    <2> QED  BY <2>3
  <1>3. ASSUME NEW x \in Places  PROVE At(x) \in Queued
    <2>1. x[1] \in Queues /\ x[2] \in 1 .. Len(pq[x[1]])
      BY <1>1 DEF Places
    <2> QED  BY <2>1 DEF Queued, At
  <1> QED  BY <1>2, <1>3

LEMMA InitOwnInv == Init => OwnInv
PROOF
  <1> SUFFICES ASSUME Init  PROVE OwnInv
    OBVIOUS
  <1>1. Places = {}
    BY DEF Init, Places, Queues
  <1>2. /\ live = {} /\ pkt = None /\ unseen = Packets /\ attached
        /\ pc["sniffer"] = "idle" /\ pc["main"] = "run"
    BY DEF Init
  <1> QED
    BY <1>1, <1>2, BufferAssumption DEF OwnInv, QueuedOnce, InHands, LiveIsPlaced, DetachOrder

\* Steps that leave the queues alone.
LEMMA SamePlaces ==
  ASSUME pq' = pq
  PROVE  Places' = Places /\ \A x \in Places : At(x)' = At(x)
  BY DEF Places, At

LEMMA SnifferOwnInv ==
  ASSUME IInv, OwnInv, SnifferCapture \/ (Sniffer /\ ~SnifferPush)
  PROVE  OwnInv'
PROOF
  <1> USE BufferAssumption DEF OwnInv, QueuedOnce, InHands, LiveIsPlaced, DetachOrder, Go
  <1>1. pq' = pq
    BY DEF Sniffer, SnifferCapture, SnifferLockPb, SnifferIgnore, SnifferBuild,
           SnifferLockC, SnifferCheck, SnifferUnlockInq, SnifferUnlockC,
           SnifferUnlockPb, queueVars
  <1>2. Places' = Places /\ \A x \in Places : At(x)' = At(x)
    BY <1>1, SamePlaces
  <1>3. /\ DOMAIN pc = Threads /\ pkt \in Packets \cup {None} /\ live \subseteq Packets
        /\ unseen \subseteq Packets /\ (pkt = None <=> pc["sniffer"] = "idle")
    BY DEF IInv, TypeOK
  <1> USE DEF queueVars, destVars, wakeVars, packetVars, Threads
  <1> HIDE DEF Places, At
  <1>4. CASE SnifferCapture
    BY <1>2, <1>3, <1>4 DEF SnifferCapture
  <1>5. CASE SnifferLockPb
    BY <1>2, <1>3, <1>5 DEF SnifferLockPb
  <1>6. CASE SnifferIgnore
    BY <1>2, <1>3, <1>6 DEF SnifferIgnore
  <1>7. CASE SnifferBuild
    BY <1>2, <1>3, <1>7 DEF SnifferBuild
  <1>8. CASE SnifferLockC
    BY <1>2, <1>3, <1>8 DEF SnifferLockC
  <1>9. CASE SnifferCheck
    BY <1>2, <1>3, <1>9 DEF SnifferCheck
  <1>10. CASE SnifferUnlockInq
    BY <1>2, <1>3, <1>10 DEF SnifferUnlockInq
  <1>11. CASE SnifferUnlockC
    BY <1>2, <1>3, <1>11 DEF SnifferUnlockC
  <1>12. CASE SnifferUnlockPb
    BY <1>2, <1>3, <1>12 DEF SnifferUnlockPb
  <1> QED
    BY <1>4, <1>5, <1>6, <1>7, <1>8, <1>9, <1>10, <1>11, <1>12 DEF Sniffer

\* The queues get one place more, with the packet.
LEMMA PushOwnInv ==
  ASSUME IInv, OwnInv, SnifferPush
  PROVE  OwnInv'
PROOF
  \* The new place, as a constant.
  <1>0. PICK new : new = <<inq, Len(pq[inq]) + 1>>
    OBVIOUS
  <1>1. /\ pq \in [Queues -> Seq(Packets)] /\ inq \in Queues /\ pkt \in Packets
        /\ pc["sniffer"] = "push" /\ pc' = [pc EXCEPT !["sniffer"] = "uninq"]
        /\ pc \in [Threads -> SnifferPcs \cup MaintPcs \cup MainPcs]
        /\ pq' = [pq EXCEPT ![inq] = Append(@, pkt)]
        /\ UNCHANGED <<pkt, unseen, live, sending, attached>>
    BY BufferAssumption DEF IInv, TypeOK, SnifferPush, Go, packetVars, destVars
  <1>2. pc'["sniffer"] = "uninq" /\ pc'["main"] = pc["main"]
    BY <1>1 DEF Threads
  <1>3. /\ pq[inq] \in Seq(Packets) /\ pq'[inq] = Append(pq[inq], pkt)
        /\ \A q \in Queues : q # inq => pq'[q] = pq[q]
    BY <1>1
  <1>4. /\ Len(pq'[inq]) = Len(pq[inq]) + 1 /\ Len(pq[inq]) \in Nat
        /\ \A i \in 1 .. Len(pq[inq]) : pq'[inq][i] = pq[inq][i]
        /\ pq'[inq][Len(pq[inq]) + 1] = pkt
    BY <1>1, <1>3
  <1>5. Places' = Places \cup {new} /\ new \notin Places
    BY <1>0, <1>1, <1>3, <1>4 DEF Places
  <1>6. At(new)' = pkt /\ \A x \in Places : At(x)' = At(x)
    BY <1>0, <1>1, <1>3, <1>4 DEF Places, At
  <1>7. pkt \in live /\ pkt \notin unseen /\ \A x \in Places : At(x) # pkt
    BY <1>1 DEF OwnInv, InHands
  <1> QED
    BY <1>1, <1>2, <1>5, <1>6, <1>7
       DEF OwnInv, QueuedOnce, InHands, LiveIsPlaced, DetachOrder

\* The first place of the output queue goes, the others move up.
LEMMA PopOwnInv ==
  ASSUME IInv, OwnInv, MaintPop
  PROVE  OwnInv'
PROOF
  \* The output queue and its first packet, as constants.
  <1>0. PICK o, h : o = outq /\ h = Head(pq[outq])
    OBVIOUS
  <1> DEFINE Old(x) == IF x[1] = o THEN <<o, x[2] + 1>> ELSE x
  <1>1. /\ pq \in [Queues -> Seq(Packets)] /\ o \in Queues /\ pq[o] # <<>>
        /\ pc["sniffer"]' = pc["sniffer"] /\ pc["main"]' = pc["main"]
        /\ pq' = [pq EXCEPT ![o] = Tail(@)] /\ live' = live \ {h}
        /\ UNCHANGED <<pkt, unseen, sending, attached>>
    BY <1>0 DEF IInv, TypeOK, HandsFull, MaintPop, Go, Threads, destVars
  <1>2. /\ pq[o] \in Seq(Packets) /\ pq'[o] = Tail(pq[o])
        /\ \A q \in Queues : q # o => pq'[q] = pq[q]
    BY <1>1
  <1>3. /\ Len(pq[o]) \in Nat \ {0} /\ Len(pq'[o]) = Len(pq[o]) - 1
        /\ \A i \in 1 .. Len(pq[o]) - 1 : pq'[o][i] = pq[o][i + 1]
        /\ h = pq[o][1]
    BY <1>0, <1>1, <1>2
  <1>4. <<o, 1>> \in Places /\ At(<<o, 1>>) = h
    BY <1>1, <1>3 DEF Places, At
  <1>5. ASSUME NEW x \in Places'
        PROVE  Old(x) \in Places /\ Old(x) # <<o, 1>> /\ At(x)' = At(Old(x))
    <2>1. x \in Queues \X Nat /\ x[2] \in 1 .. Len(pq'[x[1]])
      BY DEF Places
    <2>2. CASE x[1] = o
      <3>1. x[2] \in 1 .. Len(pq[o]) - 1
        BY <1>3, <2>1, <2>2
      <3>2. <<o, x[2] + 1>> \in Places /\ x[2] + 1 # 1
        BY <1>1, <1>3, <3>1 DEF Places
      <3>3. pq'[o][x[2]] = pq[o][x[2] + 1]
        BY <1>3, <3>1
      <3> QED  BY <2>2, <3>2, <3>3 DEF At
    <2>3. CASE x[1] # o
      BY <1>2, <2>1, <2>3 DEF Places, At
    <2> QED  BY <2>2, <2>3
  <1>6. ASSUME NEW x \in Places', NEW y \in Places', Old(x) = Old(y)
        PROVE  x = y
    <2>1. x \in Queues \X Nat /\ y \in Queues \X Nat
      BY DEF Places
    <2> QED  BY <1>6, <2>1
  <1>7. ASSUME NEW y \in Places, y # <<o, 1>>
        PROVE  \E x \in Places' : At(x)' = At(y)
    <2>1. y \in Queues \X Nat /\ y[2] \in 1 .. Len(pq[y[1]])
      BY DEF Places
    <2>2. CASE y[1] = o
      <3>1. y = <<o, y[2]>> /\ y[2] - 1 \in 1 .. Len(pq[o]) - 1
        BY <1>3, <1>7, <2>1, <2>2
      <3>2. <<o, y[2] - 1>> \in Places'
        BY <1>1, <1>3, <3>1 DEF Places
      <3>3. pq'[o][y[2] - 1] = pq[o][y[2]]
        BY <1>3, <2>1, <3>1
      <3> QED  BY <3>1, <3>2, <3>3 DEF At
    <2>3. CASE y[1] # o
      BY <1>2, <2>1, <2>3 DEF Places, At
    <2> QED  BY <2>2, <2>3
  <1> HIDE DEF Old
  <1> USE DEF OwnInv, QueuedOnce
  <1>8. QueuedOnce'
    BY <1>1, <1>4, <1>5, <1>6
  <1>9. LiveIsPlaced'
    <2> SUFFICES ASSUME NEW p \in live', p # pkt
                 PROVE  \E x \in Places' : At(x)' = p
      BY <1>1 DEF LiveIsPlaced
    <2>1. PICK y \in Places : At(y) = p
      BY <1>1 DEF LiveIsPlaced
    <2>2. y # <<o, 1>>
      BY <1>1, <1>4, <2>1
    <2> QED  BY <1>7, <2>1, <2>2
  <1>10. InHands'
    <2>1. CASE pc["sniffer"] \in {"c", "check", "push"}
      BY <1>1, <1>4, <1>5, <2>1 DEF InHands
    <2>2. CASE pc["sniffer"] \in {"uninq", "unc", "unpb"}
      <3> SUFFICES ASSUME pkt \in live'
                   PROVE  \E x \in Places' : At(x)' = pkt
        BY <1>1, <2>2 DEF InHands
      <3>1. PICK y \in Places : At(y) = pkt
        BY <1>1, <2>2 DEF InHands
      <3>2. y # <<o, 1>>
        BY <1>1, <1>4, <3>1
      <3> QED  BY <1>7, <3>1, <3>2
    <2> QED  BY <1>1, <2>1, <2>2 DEF InHands
  <1>11. DetachOrder'
    BY <1>1 DEF DetachOrder
  <1> QED  BY <1>8, <1>9, <1>10, <1>11

\* The other steps of the packet buffer's thread and those of main.
LEMMA OthersOwnInv ==
  ASSUME IInv, OwnInv, (Maint /\ ~MaintPop) \/ SpuriousWakeup \/ Main \/ UNCHANGED vars
  PROVE  OwnInv'
PROOF
  <1>0. DOMAIN pc = {"sniffer", "maint", "main"}
    BY DEF IInv, TypeOK, Threads
  <1>1. UNCHANGED <<pq, pkt, unseen, live>> /\ pc'["sniffer"] = pc["sniffer"]
    BY <1>0 DEF Maint, MaintLockInq, MaintSleep, MaintNoSleep, MaintWake, MaintSwap,
           MaintDrained, MaintLockC, MaintProcess, MaintUnlockC, SpuriousWakeup, Main,
           DetachSniffer, DetachBuffer, DeleteContainer, Go, vars, queueVars, packetVars
  <1>2. Places' = Places /\ \A x \in Places : At(x)' = At(x)
    BY <1>1, SamePlaces
  <1>3. QueuedOnce' /\ InHands' /\ LiveIsPlaced'
    BY <1>1, <1>2 DEF OwnInv, QueuedOnce, InHands, LiveIsPlaced
  <1>4. DetachOrder'
    <2>1. CASE Main
      \* pb_mutex is free only while the sniffer has not allocated a packet.
      <3>1. DetachSniffer => pc["sniffer"] \in {"idle", "pb"}
        BY BufferAssumption
           DEF DetachSniffer, IInv, TypeOK, LockDiscipline, Holds, Locks, Threads
      <3> QED
        BY <1>1, <2>1, <3>1
           DEF Main, DetachSniffer, DetachBuffer, DeleteContainer, Go, destVars, OwnInv,
               DetachOrder, IInv, TypeOK, Threads
    <2>2. CASE ~Main
      <3>1. UNCHANGED <<sending, attached>> /\ pc'["main"] = pc["main"]
        BY <1>0, <2>2 DEF Maint, MaintLockInq, MaintSleep, MaintNoSleep, MaintWake, MaintSwap,
                    MaintDrained, MaintLockC, MaintProcess, MaintUnlockC,
                    SpuriousWakeup, Go, vars, destVars
      <3> QED  BY <1>1, <3>1 DEF OwnInv, DetachOrder
    <2> QED  BY <2>1, <2>2
  <1> QED  BY <1>3, <1>4 DEF OwnInv

\* Nothing leaks, and no queue holds a packet that was freed: what is allocated is
\* in the queues, once, or in the sniffer's hands (util.h:63).
THEOREM PacketsAreOwned == Spec => []LiveIsOwned
PROOF
  <1>1. OwnInv /\ IInv /\ [Next]_vars => OwnInv'
    BY SnifferOwnInv, PushOwnInv, PopOwnInv, OthersOwnInv DEF Next, Sniffer
  <1>2. OwnInv /\ IInv => LiveIsOwned
    BY PlacesAreQueued DEF OwnInv, QueuedOnce, LiveIsPlaced, LiveIsOwned, IInv
  <1>3. Spec => []OwnInv
    BY <1>1, InitOwnInv, Invariance, PTL DEF Spec
  <1> QED  BY <1>2, <1>3, Invariance, PTL

=============================================================================
