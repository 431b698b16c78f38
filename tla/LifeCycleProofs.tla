---------------------------- MODULE LifeCycleProofs ----------------------------
(***************************************************************************)
(* Proofs about the end of the program, for any number of packets in the   *)
(* buffer: whatever fails, and whenever it does, an object is deleted only *)
(* when the threads that use it are gone.                                  *)
(***************************************************************************)
EXTENDS LifeCycle, TLAPS

\* Where main is once it has joined each of the other threads.
AfterS == {"del_pb", "pb_join", "del_c", "end"}
AfterC == {"del_ui", "del_s", "s_join"} \cup AfterS
AfterUi == {"s_dest", "pb_dest", "c_stop", "c_join"} \cup AfterC
MainPc == {"ui_init", "s_init", "pb_init", "wait", "ui_stop", "ui_join"} \cup AfterUi

\* The program counters and the owners are those of the threads and the locks.
Domains == /\ DOMAIN pc = Threads /\ pc["main"] \in MainPc
           /\ DOMAIN owner = Locks

\* A packet is at hand where the buffer's thread needs one, and there is room
\* for the packet that the sniffer holds.
QueueFits == /\ pc["buffer"] \in {"front", "lock", "process"} => queue > 0
             /\ pc["sniffer"] \in {"pb", "push"} => queue < MaxQueue

\* A thread that was joined stays gone.
Joined == /\ pc["main"] \in AfterUi => Gone("display")
          /\ pc["main"] \in AfterC => Gone("maint")
          /\ pc["main"] \in AfterS => Gone("sniffer")
          /\ pc["main"] = "del_c" \/ "pb" \in deleted => Gone("buffer")

\* What has been deleted, by where main is.
DeletedInOrder == /\ "ui" \in deleted => pc["main"] \in AfterC
                  /\ "s" \in deleted => pc["main"] \in AfterS
                  /\ "pb" \in deleted => pc["main"] \in {"del_c", "end"}
                  /\ pc["main"] = "del_c" => "pb" \in deleted
                  /\ "c" \in deleted => pc["main"] = "end" /\ "pb" \in deleted

IInv == TypeOK /\ Domains /\ QueueFits /\ Joined /\ DeletedInOrder

LEMMA InitIInv == Init => IInv
PROOF
  <1> SUFFICES ASSUME Init  PROVE IInv
    OBVIOUS
  <1>1. /\ DOMAIN pc = Threads /\ pc["main"] = "ui_init" /\ pc["maint"] = "top"
        /\ pc["display"] = "none" /\ pc["sniffer"] = "none" /\ pc["buffer"] = "none"
    BY DEF Init, Threads
  <1>2. DOMAIN owner = Locks /\ \A m \in Locks : owner[m] = "free"
    BY DEF Init
  <1>3. TypeOK
    <2>1. {attached, sending, ferr, caught, woken, asked, sigint} \subseteq BOOLEAN
      BY DEF Init
    <2>2. /\ queue = 0 /\ stopped = {} /\ cancelled = {} /\ deleted = {}
          /\ outcome = "running"
      BY DEF Init
    <2> QED  BY <1>1, <1>2, <2>1, <2>2, LifeCycleAssumption DEF TypeOK
  <1>4. deleted = {}
    BY DEF Init
  <1> QED
    BY <1>1, <1>2, <1>3, <1>4
       DEF IInv, Domains, QueueFits, Joined, DeletedInOrder, MainPc, AfterUi, AfterC,
           AfterS, Gone

-----------------------------------------------------------------------------
\* What has to be shown of a step that moves one thread.
Kept == TypeOK' /\ DOMAIN owner' = Locks /\ QueueFits' /\ UNCHANGED deleted

\* A thread other than main goes from one place to another; it was there before.
LEMMA ThreadStep ==
  ASSUME IInv, NEW t \in {"maint", "display", "sniffer", "buffer"},
         NEW from, NEW to, Go(t, from, to), from \notin {"none", "gone"}, Kept
  PROVE  IInv'
PROOF
  <1>1. /\ DOMAIN pc' = Threads /\ \A u \in Threads : u # t => pc'[u] = pc[u]
        /\ pc[t] = from /\ pc'["main"] = pc["main"]
    BY DEF Go, IInv, Domains, Threads
  <1>2. \A u \in Threads : Gone(u) => Gone(u)'
    BY <1>1 DEF Gone
  <1>3. Joined'
    BY <1>1, <1>2 DEF Kept, IInv, Joined, Threads
  <1> QED  BY <1>1, <1>3 DEF Kept, IInv, Domains, DeletedInOrder

\* Actions that neither move a thread nor delete anything keep the invariant.
LEMMA NobodyMoves ==
  ASSUME IInv, UNCHANGED <<pc, owner, queue, deleted>>, TypeOK'
  PROVE  IInv'
  BY DEF IInv, Domains, QueueFits, Joined, DeletedInOrder, Gone

LEMMA MaintKeepsIInv == IInv /\ Maint => IInv'
PROOF
  <1> SUFFICES ASSUME IInv, Maint  PROVE IInv'
    OBVIOUS
  <1>1. CASE MaintTop
    <2>1. Kept
      BY <1>1, LifeCycleAssumption
         DEF Kept, MaintTop, Go, Lock, Unlock, IInv, TypeOK, Domains, QueueFits, Threads, Locks,
             mainVars, quitVars, Shutdown
    <2> QED  BY <1>1, <2>1, ThreadStep DEF MaintTop
  <1>2. CASE Take("maint", "pass")
    <2>1. Kept
      BY <1>2, LifeCycleAssumption
         DEF Kept, Take, Go, Lock, Unlock, IInv, TypeOK, Domains, QueueFits, Threads, Locks,
             mainVars, quitVars, Shutdown
    <2> QED  BY <1>2, <2>1, ThreadStep DEF Take
  <1>3. CASE TimedOut("maint")
    <2>1. Kept
      BY <1>3, LifeCycleAssumption
         DEF Kept, TimedOut, Go, Lock, Unlock, IInv, TypeOK, Domains, QueueFits, Threads, Locks,
             mainVars, quitVars, Shutdown
    <2> QED  BY <1>3, <2>1, ThreadStep DEF TimedOut
  <1>4. CASE MaintPass
    <2>1. Kept
      BY <1>4, LifeCycleAssumption
         DEF Kept, MaintPass, Go, Lock, Unlock, IInv, TypeOK, Domains, QueueFits, Threads, Locks,
             mainVars, quitVars, Shutdown
    <2> QED  BY <1>4, <2>1, ThreadStep DEF MaintPass
  <1>5. CASE Fatal("maint")
    <2>1. Kept
      BY <1>5, LifeCycleAssumption
         DEF Kept, Fatal, Go, Lock, Unlock, IInv, TypeOK, Domains, QueueFits, Threads, Locks,
             mainVars, quitVars, Shutdown
    <2> QED  BY <1>5, <2>1, ThreadStep DEF Fatal
  <1> QED  BY <1>1, <1>2, <1>3, <1>4, <1>5 DEF Maint

LEMMA DisplayKeepsIInv == IInv /\ Display => IInv'
PROOF
  <1> SUFFICES ASSUME IInv, Display  PROVE IInv'
    OBVIOUS
  <1>1. CASE DisplayTop
    <2>1. Kept
      BY <1>1, LifeCycleAssumption
         DEF Kept, DisplayTop, Go, Lock, Unlock, IInv, TypeOK, Domains, QueueFits, Threads, Locks,
             mainVars, quitVars, Shutdown
    <2> QED  BY <1>1, <2>1, ThreadStep DEF DisplayTop
  <1>2. CASE DisplayKey
    <2>1. Kept
      BY <1>2, LifeCycleAssumption
         DEF Kept, DisplayKey, Go, Lock, Unlock, IInv, TypeOK, Domains, QueueFits, Threads, Locks,
             mainVars, quitVars, Shutdown
    <2> QED  BY <1>2, <2>1, ThreadStep DEF DisplayKey
  <1>3. CASE Take("display", "draw")
    <2>1. Kept
      BY <1>3, LifeCycleAssumption
         DEF Kept, Take, Go, Lock, Unlock, IInv, TypeOK, Domains, QueueFits, Threads, Locks,
             mainVars, quitVars, Shutdown
    <2> QED  BY <1>3, <2>1, ThreadStep DEF Take
  <1>4. CASE TimedOut("display")
    <2>1. Kept
      BY <1>4, LifeCycleAssumption
         DEF Kept, TimedOut, Go, Lock, Unlock, IInv, TypeOK, Domains, QueueFits, Threads, Locks,
             mainVars, quitVars, Shutdown
    <2> QED  BY <1>4, <2>1, ThreadStep DEF TimedOut
  <1>5. CASE DisplayDraw
    <2>1. Kept
      BY <1>5, LifeCycleAssumption
         DEF Kept, DisplayDraw, Go, Lock, Unlock, IInv, TypeOK, Domains, QueueFits, Threads, Locks,
             mainVars, quitVars, Shutdown
    <2> QED  BY <1>5, <2>1, ThreadStep DEF DisplayDraw
  <1>6. CASE DisplayThrow
    <2>1. Kept
      BY <1>6, LifeCycleAssumption
         DEF Kept, DisplayThrow, Go, Lock, Unlock, IInv, TypeOK, Domains, QueueFits, Threads, Locks,
             mainVars, quitVars, Shutdown
    <2> QED  BY <1>6, <2>1, ThreadStep DEF DisplayThrow
  <1>7. CASE Fatal("display")
    <2>1. Kept
      BY <1>7, LifeCycleAssumption
         DEF Kept, Fatal, Go, Lock, Unlock, IInv, TypeOK, Domains, QueueFits, Threads, Locks,
             mainVars, quitVars, Shutdown
    <2> QED  BY <1>7, <2>1, ThreadStep DEF Fatal
  <1> QED  BY <1>1, <1>2, <1>3, <1>4, <1>5, <1>6, <1>7 DEF Display

LEMMA SnifferKeepsIInv == IInv /\ Sniffer => IInv'
PROOF
  <1> SUFFICES ASSUME IInv, Sniffer  PROVE IInv'
    OBVIOUS
  <1>1. CASE SnifferCapture
    <2>1. Kept
      BY <1>1, LifeCycleAssumption
         DEF Kept, SnifferCapture, Go, Lock, Unlock, IInv, TypeOK, Domains, QueueFits, Threads, Locks,
             mainVars, quitVars, Shutdown
    <2> QED  BY <1>1, <2>1, ThreadStep DEF SnifferCapture
  <1>2. CASE SnifferThrow
    <2>1. Kept
      BY <1>2, LifeCycleAssumption
         DEF Kept, SnifferThrow, Go, Lock, Unlock, IInv, TypeOK, Domains, QueueFits, Threads, Locks,
             mainVars, quitVars, Shutdown
    <2> QED  BY <1>2, <2>1, ThreadStep DEF SnifferThrow
  <1>3. CASE SnifferIgnore
    <2>1. Kept
      BY <1>3, LifeCycleAssumption
         DEF Kept, SnifferIgnore, Go, Lock, Unlock, IInv, TypeOK, Domains, QueueFits, Threads, Locks,
             mainVars, quitVars, Shutdown
    <2> QED  BY <1>3, <2>1, ThreadStep DEF SnifferIgnore
  <1>4. CASE SnifferLockPb
    <2>1. Kept
      BY <1>4, LifeCycleAssumption
         DEF Kept, SnifferLockPb, Go, Lock, Unlock, IInv, TypeOK, Domains, QueueFits, Threads, Locks,
             mainVars, quitVars, Shutdown
    <2> QED  BY <1>4, <2>1, ThreadStep DEF SnifferLockPb
  <1>5. CASE SnifferPush
    <2>1. Kept
      BY <1>5, LifeCycleAssumption
         DEF Kept, SnifferPush, Go, Lock, Unlock, IInv, TypeOK, Domains, QueueFits, Threads, Locks,
             mainVars, quitVars, Shutdown
    <2> QED  BY <1>5, <2>1, ThreadStep DEF SnifferPush
  <1>6. CASE Fatal("sniffer")
    <2>1. Kept
      BY <1>6, LifeCycleAssumption
         DEF Kept, Fatal, Go, Lock, Unlock, IInv, TypeOK, Domains, QueueFits, Threads, Locks,
             mainVars, quitVars, Shutdown
    <2> QED  BY <1>6, <2>1, ThreadStep DEF Fatal
  <1>7. CASE Cancelled("sniffer")
    <2>1. Kept
      BY <1>7, LifeCycleAssumption
         DEF Kept, Cancelled, Go, Lock, Unlock, IInv, TypeOK, Domains, QueueFits, Threads, Locks,
             mainVars, quitVars, Shutdown
    <2>2. Go("sniffer", pc["sniffer"], "gone") /\ pc["sniffer"] \notin {"none", "gone"}
      BY <1>7 DEF Cancelled, Go
    <2> QED  BY <2>1, <2>2, ThreadStep
  <1>8. CASE SnifferExit
    <2>1. TypeOK' /\ UNCHANGED <<pc, owner, queue, deleted>>
      BY <1>8 DEF SnifferExit, IInv, TypeOK, mainVars, quitVars
    <2> QED  BY <2>1, NobodyMoves
  <1> QED  BY <1>1, <1>2, <1>3, <1>4, <1>5, <1>6, <1>7, <1>8 DEF Sniffer

LEMMA BufferKeepsIInv == IInv /\ Buffer => IInv'
PROOF
  <1> SUFFICES ASSUME IInv, Buffer  PROVE IInv'
    OBVIOUS
  <1>1. CASE BufferWake
    <2>1. Kept
      BY <1>1, LifeCycleAssumption
         DEF Kept, BufferWake, Go, Lock, Unlock, IInv, TypeOK, Domains, QueueFits, Threads, Locks,
             mainVars, quitVars, Shutdown
    <2> QED  BY <1>1, <2>1, ThreadStep DEF BufferWake
  <1>2. CASE BufferDrop
    <2>1. Kept
      BY <1>2, LifeCycleAssumption
         DEF Kept, BufferDrop, AfterPop, Go, Lock, Unlock, IInv, TypeOK, Domains, QueueFits, Threads, Locks,
             mainVars, quitVars, Shutdown
    <2> QED  BY <1>2, <2>1, ThreadStep DEF BufferDrop
  <1>3. CASE BufferLockC
    <2>1. Kept
      BY <1>3, LifeCycleAssumption
         DEF Kept, BufferLockC, Go, Lock, Unlock, IInv, TypeOK, Domains, QueueFits, Threads, Locks,
             mainVars, quitVars, Shutdown
    <2> QED  BY <1>3, <2>1, ThreadStep DEF BufferLockC
  <1>4. CASE Take("buffer", "process")
    <2>1. Kept
      BY <1>4, LifeCycleAssumption
         DEF Kept, Take, Go, Lock, Unlock, IInv, TypeOK, Domains, QueueFits, Threads, Locks,
             mainVars, quitVars, Shutdown
    <2> QED  BY <1>4, <2>1, ThreadStep DEF Take
  <1>5. CASE BufferProcess
    <2>1. Kept
      BY <1>5, LifeCycleAssumption
         DEF Kept, BufferProcess, AfterPop, Go, Lock, Unlock, IInv, TypeOK, Domains, QueueFits, Threads, Locks,
             mainVars, quitVars, Shutdown
    <2> QED  BY <1>5, <2>1, ThreadStep DEF BufferProcess
  <1>6. CASE Cancelled("buffer")
    <2>1. Kept
      BY <1>6, LifeCycleAssumption
         DEF Kept, Cancelled, Go, Lock, Unlock, IInv, TypeOK, Domains, QueueFits, Threads, Locks,
             mainVars, quitVars, Shutdown
    <2>2. Go("buffer", pc["buffer"], "gone") /\ pc["buffer"] \notin {"none", "gone"}
      BY <1>6 DEF Cancelled, Go
    <2> QED  BY <2>1, <2>2, ThreadStep
  <1>7. CASE BufferThrow
    <2>1. TypeOK' /\ UNCHANGED <<pc, owner, queue, deleted>>
      BY <1>7 DEF BufferThrow, IInv, TypeOK, mainVars, quitVars
    <2> QED  BY <2>1, NobodyMoves
  <1> QED  BY <1>1, <1>2, <1>3, <1>4, <1>5, <1>6, <1>7 DEF Buffer

LEMMA MainKeepsIInv == IInv /\ Main => IInv'
PROOF
  <1> SUFFICES ASSUME IInv, Main  PROVE IInv'
    OBVIOUS
  <1> USE DEF Go, Gone, IInv, TypeOK, Domains, QueueFits, Joined, DeletedInOrder, MainPc,
              AfterUi, AfterC, AfterS, Threads, mainVars, othersVars, quitVars
  <1>1. CASE UiInit
    BY <1>1 DEF UiInit, Start
  <1>2. CASE SnifferInit
    BY <1>2 DEF SnifferInit, Start
  <1>3. CASE BufferInit
    BY <1>3 DEF BufferInit, Start
  <1>4. CASE InitThrow
    BY <1>4 DEF InitThrow
  <1>5. CASE Quit
    BY <1>5 DEF Quit
  <1>6. CASE Stop("ui", "ui_stop", "ui_join")
    BY <1>6 DEF Stop
  <1>7. CASE Join("display", "ui_join", "s_dest")
    BY <1>7 DEF Join
  <1>8. CASE SnifferDest
    BY <1>8 DEF SnifferDest
  <1>9. CASE BufferDest
    BY <1>9 DEF BufferDest
  <1>10. CASE Stop("c", "c_stop", "c_join")
    BY <1>10 DEF Stop
  <1>11. CASE Join("maint", "c_join", IF caught THEN "del_ui" ELSE "del_s")
    BY <1>11 DEF Join
  <1>12. CASE DeleteUi
    BY <1>12 DEF DeleteUi, Delete
  <1>13. CASE Cancel("sniffer", "del_s", "s_join")
    BY <1>13 DEF Cancel
  <1>14. CASE Gone("sniffer") /\ Delete("s", "s_join", IF caught THEN "del_pb" ELSE "end")
    BY <1>14 DEF Delete
  <1>15. CASE Cancel("buffer", "del_pb", "pb_join")
    BY <1>15 DEF Cancel
  <1>16. CASE Gone("buffer") /\ Delete("pb", "pb_join", "del_c")
    BY <1>16 DEF Delete
  <1>17. CASE DeleteContainer
    BY <1>17 DEF DeleteContainer, Delete
  <1>18. CASE Return
    BY <1>18 DEF Return
  <1> HIDE DEF Go, Gone, IInv
  <1> QED
    BY <1>1, <1>2, <1>3, <1>4, <1>5, <1>6, <1>7, <1>8, <1>9, <1>10, <1>11, <1>12, <1>13, <1>14, <1>15, <1>16, <1>17, <1>18
       DEF Main, UiStop, ContainerStop, DeleteSniffer, DeleteBuffer

-----------------------------------------------------------------------------
LEMMA NextIInv == IInv /\ [Next]_vars => IInv'
PROOF
  <1> SUFFICES ASSUME IInv, [Next]_vars  PROVE IInv'
    OBVIOUS
  <1>1. CASE Interrupt
    <2>1. TypeOK' /\ UNCHANGED <<pc, owner, queue, deleted>>
      BY <1>1 DEF Interrupt, Shutdown, IInv, TypeOK, mainVars
    <2> QED  BY <2>1, NobodyMoves
  <1>2. CASE SpuriousWakeup
    <2>1. TypeOK' /\ UNCHANGED <<pc, owner, queue, deleted>>
      BY <1>2 DEF SpuriousWakeup, IInv, TypeOK, mainVars
    <2> QED  BY <2>1, NobodyMoves
  <1>3. CASE UNCHANGED vars
    <2>1. TypeOK' /\ UNCHANGED <<pc, owner, queue, deleted>>
      BY <1>3 DEF vars, IInv, TypeOK
    <2> QED  BY <2>1, NobodyMoves
  <1> QED
    BY <1>1, <1>2, <1>3, MainKeepsIInv, MaintKeepsIInv, DisplayKeepsIInv,
       SnifferKeepsIInv, BufferKeepsIInv DEF Next

LEMMA Inductive == Spec => []IInv
  BY InitIInv, NextIInv, PTL DEF Spec

\* The threads and what main knows about them keep their types; the number of
\* packets in the buffer never goes below zero.
THEOREM TypeCorrect == Spec => []TypeOK
PROOF
  <1>1. IInv => TypeOK
    BY DEF IInv
  <1> QED  BY <1>1, Inductive, PTL

\* Whatever has failed, and whichever threads were started, no thread runs in an
\* object that has been deleted (TCPTrack.cc:77-79).
THEOREM NothingUsedAfterDelete == Spec => []DeletedIsUnused
PROOF
  <1>1. IInv => DeletedIsUnused
    <2> SUFFICES ASSUME IInv, NEW obj \in deleted, NEW t \in Users(obj)
                 PROVE  Gone(t)
      BY DEF DeletedIsUnused
    <2>1. obj \in {"ui", "s", "pb", "c"}
      BY DEF IInv, TypeOK
    <2> USE DEF IInv, Joined, DeletedInOrder, AfterUi, AfterC, AfterS
    <2>2. CASE obj = "ui"
      <3>1. t = "display"
        BY <2>2 DEF Users
      <3> QED  BY <2>2, <3>1
    <2>3. CASE obj = "s"
      <3>1. t = "sniffer"
        BY <2>3 DEF Users
      <3> QED  BY <2>3, <3>1
    <2>4. CASE obj = "pb"
      <3>1. t \in {"buffer", "sniffer"}
        BY <2>4 DEF Users
      <3> QED  BY <2>4, <3>1
    <2>5. CASE obj = "c"
      <3>1. t \in {"maint", "display", "buffer"}
        BY <2>5 DEF Users
      <3> QED  BY <2>5, <3>1
    <2> QED  BY <2>1, <2>2, <2>3, <2>4, <2>5
  <1> QED  BY <1>1, Inductive, PTL

=============================================================================
