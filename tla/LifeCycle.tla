------------------------------ MODULE LifeCycle -------------------------------
(***************************************************************************)
(* Start and end of the program: TCPTrack::run() starts the threads, waits *)
(* for shutdown() or fatal(), then detaches, stops and deletes the objects *)
(* while the threads run.  What matters of each thread is which locks it   *)
(* takes, where it may be stopped or cancelled, and where it may throw:    *)
(*   maint    TCContainer::maint_thread_run()                              *)
(*   display  TextUI::displayer_run()                                      *)
(*   sniffer  Sniffer::run() and, in pcap_loop(), processPacket()          *)
(*   buffer   PacketBuffer::maint_thread_run()                             *)
(* An exception in the first three is caught and handed to fatal(); in the *)
(* buffer's thread nothing catches it, and the program is aborted.         *)
(***************************************************************************)
EXTENDS Naturals

CONSTANT MaxQueue    \* bound: packets in the buffer

ASSUME LifeCycleAssumption == MaxQueue \in Nat \ {0}

VARIABLES pc,         \* what each thread is about to do; none: not started
          owner,      \* the thread that holds each mutex, or "free"
          queue,      \* number of packets in the buffer
          attached,   \* the buffer's c # NULL
          sending,    \* the sniffer's pb # NULL
          stopped,    \* objects whose stop() has been called
          cancelled,  \* threads that have been cancelled
          deleted,    \* objects that have been deleted
          ferr,       \* fatal() has been given an error
          caught,     \* run() is in its catch block
          woken,      \* main, waiting for quitflag, has been signalled
          asked,      \* history: somebody called shutdown()
          sigint,     \* SIGINT has been received, and is ignored now
          outcome     \* running, returned, printed, exited or aborted

vars == <<pc, owner, queue, attached, sending, stopped, cancelled, deleted,
          ferr, caught, woken, asked, sigint, outcome>>

Threads == {"main", "maint", "display", "sniffer", "buffer"}
Locks == {"conlist_lock", "c_lock", "pb_mutex"}

mainVars == <<attached, sending, stopped, cancelled, deleted, caught>>
quitVars == <<ferr, woken, asked, sigint>>

\* The end of the process stops every thread.
Going == outcome = "running"
Go(t, from, to) == Going /\ pc[t] = from /\ pc' = [pc EXCEPT ![t] = to]
Gone(t) == pc[t] \in {"none", "gone"}
Lock(t, m) == owner[m] = "free" /\ owner' = [owner EXCEPT ![m] = t]
Unlock(m) == owner' = [owner EXCEPT ![m] = "free"]

-----------------------------------------------------------------------------
(* Asking the program to quit. *)

\* TCPTrack::shutdown(): the signal is lost unless main waits for it.
Shutdown == /\ woken' = (woken \/ pc["main"] = "wait")
            /\ asked' = TRUE

\* Faulty: only the error is kept.
FatalQuietly(t) ==
  /\ Go(t, "fatal", "gone") /\ ferr' = TRUE
  /\ UNCHANGED <<owner, queue, mainVars, woken, asked, sigint, outcome>>

\* TCPTrack::fatal() and the end of the thread that called it.
Fatal(t) ==
  /\ Go(t, "fatal", "gone")
  /\ IF ferr THEN UNCHANGED <<ferr, woken, asked>>
             ELSE ferr' = TRUE /\ Shutdown
  /\ UNCHANGED <<owner, queue, mainVars, sigint, outcome>>

\* inthandler(), on any thread.
Interrupt ==
  /\ Going /\ ~sigint /\ sigint' = TRUE
  /\ Shutdown
  /\ UNCHANGED <<pc, owner, queue, mainVars, ferr, outcome>>

\* POSIX lets pthread_cond_wait() return without a signal.
SpuriousWakeup ==
  /\ Going /\ pc["main"] = "wait" /\ woken' = TRUE
  /\ UNCHANGED <<pc, owner, queue, mainVars, ferr, asked, sigint, outcome>>

-----------------------------------------------------------------------------
(* Threads that use conlist_lock. *)

\* Faulty: waits for ever, like pthread_mutex_lock().
TimedOutNever(t) == FALSE

\* TCContainer::lock() gives up after two seconds.
TimedOut(t) ==
  /\ owner["conlist_lock"] # "free" /\ Go(t, "lock", "fatal")
  /\ UNCHANGED <<owner, queue, mainVars, quitVars, outcome>>

Take(t, to) ==
  /\ Go(t, "lock", to) /\ Lock(t, "conlist_lock")
  /\ UNCHANGED <<queue, mainVars, quitVars, outcome>>

MaintTop ==
  /\ Go("maint", "top", IF "c" \in stopped THEN "gone" ELSE "lock")
  /\ UNCHANGED <<owner, queue, mainVars, quitVars, outcome>>

MaintPass ==
  /\ Go("maint", "pass", "top") /\ Unlock("conlist_lock")
  /\ UNCHANGED <<queue, mainVars, quitVars, outcome>>

DisplayTop ==
  /\ Go("display", "top", IF "ui" \in stopped THEN "gone" ELSE "key")
  /\ UNCHANGED <<owner, queue, mainVars, quitVars, outcome>>

\* A key may be the q key.
DisplayKey ==
  /\ Go("display", "key", "lock")
  /\ Shutdown \/ UNCHANGED <<woken, asked>>
  /\ UNCHANGED <<owner, queue, mainVars, ferr, sigint, outcome>>

DisplayDraw ==
  /\ Go("display", "draw", "top") /\ Unlock("conlist_lock")
  /\ UNCHANGED <<queue, mainVars, quitVars, outcome>>

\* The screen has become too small; the lock stays with the thread.
DisplayThrow ==
  /\ Go("display", "draw", "fatal")
  /\ UNCHANGED <<owner, queue, mainVars, quitVars, outcome>>

Maint == MaintTop \/ Take("maint", "pass") \/ TimedOut("maint") \/ MaintPass \/ Fatal("maint")
Display == \/ DisplayTop \/ DisplayKey \/ Take("display", "draw")
           \/ TimedOut("display") \/ DisplayDraw \/ DisplayThrow \/ Fatal("display")

-----------------------------------------------------------------------------
(* The threads that carry packets. *)

SnifferCapture ==
  /\ queue < MaxQueue /\ Go("sniffer", "loop", "pb")
  /\ UNCHANGED <<owner, queue, mainVars, quitVars, outcome>>

\* pcap_loop() fails.
SnifferThrow ==
  /\ Go("sniffer", "loop", "fatal")
  /\ UNCHANGED <<owner, queue, mainVars, quitVars, outcome>>

\* The capture file has ended: exit(0).
SnifferExit ==
  /\ Going /\ pc["sniffer"] = "loop" /\ outcome' = "exited"
  /\ UNCHANGED <<pc, owner, queue, mainVars, quitVars>>

SnifferIgnore ==
  /\ owner["pb_mutex"] = "free" /\ Go("sniffer", "pb", "loop")
  /\ UNCHANGED <<owner, queue, mainVars, quitVars, outcome>>

SnifferLockPb ==
  /\ sending
  /\ Go("sniffer", "pb", "push") /\ Lock("sniffer", "pb_mutex")
  /\ UNCHANGED <<queue, mainVars, quitVars, outcome>>

\* pushPacket() and the end of processPacket().
SnifferPush ==
  /\ owner["c_lock"] = "free"
  /\ Go("sniffer", "push", "loop") /\ Unlock("pb_mutex")
  /\ queue' = IF attached THEN queue + 1 ELSE queue
  /\ UNCHANGED <<mainVars, quitVars, outcome>>

BufferWake ==
  /\ queue > 0 /\ Go("buffer", "wait", "front")
  /\ UNCHANGED <<owner, queue, mainVars, quitVars, outcome>>

\* Faulty: does not look whether the queue is empty.
AfterPopAlways(n) == "front"

\* Where the thread goes on with n packets left.
AfterPop(n) == IF n > 0 THEN "front" ELSE "wait"

BufferDrop ==
  /\ owner["c_lock"] = "free" /\ ~attached
  /\ queue' = queue - 1 /\ Go("buffer", "front", AfterPop(queue - 1))
  /\ UNCHANGED <<owner, mainVars, quitVars, outcome>>

BufferLockC ==
  /\ attached
  /\ Go("buffer", "front", "lock") /\ Lock("buffer", "c_lock")
  /\ UNCHANGED <<queue, mainVars, quitVars, outcome>>

BufferProcess ==
  /\ queue' = queue - 1 /\ Go("buffer", "process", AfterPop(queue - 1))
  /\ owner' = [owner EXCEPT !["conlist_lock"] = "free", !["c_lock"] = "free"]
  /\ UNCHANGED <<mainVars, quitVars, outcome>>

\* lock() times out, or a lookup thread cannot be started: std::terminate().
BufferThrow ==
  /\ Going
  /\ \/ pc["buffer"] = "lock" /\ owner["conlist_lock"] # "free"
     \/ pc["buffer"] = "process"
  /\ outcome' = "aborted"
  /\ UNCHANGED <<pc, owner, queue, mainVars, quitVars>>

\* Cancellation takes effect where the thread sleeps.
Cancelled(t) ==
  /\ Going /\ t \in cancelled /\ pc[t] \in {"loop", "wait"}
  /\ pc' = [pc EXCEPT ![t] = "gone"]
  /\ UNCHANGED <<owner, queue, mainVars, quitVars, outcome>>

Sniffer == \/ SnifferCapture \/ SnifferThrow \/ SnifferExit \/ SnifferIgnore
           \/ SnifferLockPb \/ SnifferPush \/ Fatal("sniffer") \/ Cancelled("sniffer")
Buffer == \/ BufferWake \/ BufferDrop \/ BufferLockC \/ Take("buffer", "process")
          \/ BufferProcess \/ BufferThrow \/ Cancelled("buffer")
-----------------------------------------------------------------------------
(* The main thread: TCPTrack::run(). *)

othersVars == <<queue, quitVars, outcome>>

\* init() of one object starts its thread.
Start(from, t, at, to) ==
  /\ Going /\ pc["main"] = from
  /\ pc' = [pc EXCEPT !["main"] = to, ![t] = at]
  /\ UNCHANGED <<owner, mainVars, othersVars>>

UiInit == Start("ui_init", "display", "top", "s_init")
SnifferInit == Start("s_init", "sniffer", "loop", "pb_init")
BufferInit == Start("pb_init", "buffer", "wait", "wait")

\* init() throws before its thread is started.
InitThrow ==
  /\ Going /\ pc["main"] \in {"ui_init", "s_init", "pb_init"}
  /\ pc' = [pc EXCEPT !["main"] = "ui_stop"] /\ caught' = TRUE
  /\ UNCHANGED <<owner, attached, sending, stopped, cancelled, deleted, othersVars>>

\* pthread_cond_wait() returns, and ferr is looked at.
Quit ==
  /\ woken /\ Go("main", "wait", "ui_stop")
  /\ caught' = ferr
  /\ UNCHANGED <<owner, attached, sending, stopped, cancelled, deleted, othersVars>>

\* stop() of an object asks its thread to end, and joins it.
Stop(obj, from, to) ==
  /\ Go("main", from, to) /\ stopped' = stopped \cup {obj}
  /\ UNCHANGED <<owner, attached, sending, cancelled, deleted, caught, othersVars>>
Join(t, from, to) ==
  /\ Go("main", from, to) /\ Gone(t)
  /\ UNCHANGED <<owner, mainVars, othersVars>>

UiStop == Stop("ui", "ui_stop", "ui_join") \/ Join("display", "ui_join", "s_dest")

SnifferDest ==
  /\ owner["pb_mutex"] = "free" /\ sending' = FALSE
  /\ Go("main", "s_dest", "pb_dest")
  /\ UNCHANGED <<owner, attached, stopped, cancelled, deleted, caught, othersVars>>

BufferDest ==
  /\ owner["c_lock"] = "free" /\ attached' = FALSE
  /\ Go("main", "pb_dest", "c_stop")
  /\ UNCHANGED <<owner, sending, stopped, cancelled, deleted, caught, othersVars>>

\* Faulty: the maintenance thread is not joined.
ContainerStopNoJoin == Stop("c", "c_stop", IF caught THEN "del_ui" ELSE "del_s")

ContainerStop == \/ Stop("c", "c_stop", "c_join")
                 \/ Join("maint", "c_join", IF caught THEN "del_ui" ELSE "del_s")

\* The destructors of Sniffer and PacketBuffer cancel the thread, if there is
\* one, and join it; those of the others call stop(), which returns at once.
Cancel(t, from, to) ==
  /\ Go("main", from, to) /\ cancelled' = cancelled \cup {t}
  /\ UNCHANGED <<owner, attached, sending, stopped, deleted, caught, othersVars>>
Delete(obj, from, to) ==
  /\ Go("main", from, to)
  /\ deleted' = deleted \cup {obj}
  /\ UNCHANGED <<owner, attached, sending, stopped, cancelled, caught, othersVars>>

DeleteUi == Delete("ui", "del_ui", "del_s")
DeleteSniffer == \/ Cancel("sniffer", "del_s", "s_join")
                 \/ Gone("sniffer") /\ Delete("s", "s_join", IF caught THEN "del_pb" ELSE "end")
DeleteBuffer == \/ Cancel("buffer", "del_pb", "pb_join")
                \/ Gone("buffer") /\ Delete("pb", "pb_join", "del_c")
DeleteContainer == Delete("c", "del_c", "end")

\* The end of run(), and of the program; an error is printed.
Return ==
  /\ Going /\ pc["main"] = "end"
  /\ outcome' = IF caught THEN "printed" ELSE "returned"
  /\ UNCHANGED <<pc, owner, queue, mainVars, quitVars>>

Main == \/ UiInit \/ SnifferInit \/ BufferInit \/ InitThrow \/ Quit
        \/ UiStop \/ SnifferDest \/ BufferDest \/ ContainerStop
        \/ DeleteUi \/ DeleteSniffer \/ DeleteBuffer \/ DeleteContainer \/ Return

-----------------------------------------------------------------------------
\* The objects have been made and connected; the constructor of the container
\* has started its thread.
Init ==
  /\ pc = [t \in Threads |-> CASE t = "main"  -> "ui_init"
                               [] t = "maint" -> "top"
                               [] OTHER       -> "none"]
  /\ owner = [m \in Locks |-> "free"]
  /\ queue = 0 /\ attached = TRUE /\ sending = TRUE
  /\ stopped = {} /\ cancelled = {} /\ deleted = {}
  /\ ferr = FALSE /\ caught = FALSE
  /\ woken = FALSE /\ asked = FALSE /\ sigint = FALSE
  /\ outcome = "running"

Next == Main \/ Maint \/ Display \/ Sniffer \/ Buffer \/ Interrupt \/ SpuriousWakeup

Spec == Init /\ [][Next]_vars

\* Each thread gets on with what it can do; the sniffer leaves pb_mutex free
\* while it waits for packets, so main gets it in the end.  Nothing obliges
\* packets to arrive, keys to be pressed, or anything to fail.
Fairness ==
  /\ WF_vars(Main) /\ SF_vars(SnifferDest)
  /\ WF_vars(Maint) /\ WF_vars(Display) /\ WF_vars(Buffer)
  /\ WF_vars(SnifferIgnore \/ SnifferLockPb \/ SnifferPush)
  /\ WF_vars(Fatal("sniffer")) /\ SF_vars(Cancelled("sniffer"))

FairSpec == Spec /\ Fairness

-----------------------------------------------------------------------------
(* Properties. *)

\* The type invariant of the threads and of what main knows about them.
TypeOK ==
  /\ \A t \in {"maint", "display"} : pc[t] \in
       {"none", "top", "key", "lock", "pass", "draw", "fatal", "gone"}
  /\ pc["sniffer"] \in {"none", "loop", "pb", "push", "fatal", "gone"}
  /\ pc["buffer"] \in {"none", "wait", "front", "lock", "process", "gone"}
  /\ \A m \in Locks : owner[m] = "free" \/ owner[m] \in Threads \ {"main"}
  /\ queue \in 0 .. MaxQueue
  /\ {attached, sending, ferr, caught, woken, asked, sigint} \subseteq BOOLEAN
  /\ stopped \subseteq {"ui", "c"} /\ cancelled \subseteq {"sniffer", "buffer"}
  /\ deleted \subseteq {"ui", "s", "pb", "c"}
  /\ outcome \in {"running", "returned", "printed", "exited", "aborted"}

\* No thread runs in an object that has been deleted, whichever threads had
\* been started and whichever have failed (TCPTrack.cc:77-79, "other threads
\* may be running after a delete and may follow a bad pointer").
Users(obj) == CASE obj = "ui" -> {"display"}
                [] obj = "s"  -> {"sniffer"}
                [] obj = "pb" -> {"buffer", "sniffer"}
                [] obj = "c"  -> {"maint", "display", "buffer"}
DeletedIsUnused == \A obj \in deleted : \A t \in Users(obj) : Gone(t)

\* Once main has stopped waiting the program ends, even if a thread has failed
\* with conlist_lock in its hands: nobody waits for ever for a lock or for
\* a thread (TCPTrack.cc:66-95, TCContainer.cc:211-222).
Leaving == pc["main"] \notin {"ui_init", "s_init", "pb_init", "wait"}
LeavingEnds == Leaving ~> outcome # "running"

\* The first error that a thread meets while main waits ends the program
\* (TCPTrack.cc:107-121).
FailureEnds ==
  (\E t \in Threads : pc[t] = "fatal") /\ ~ferr /\ pc["main"] = "wait" ~> outcome # "running"

\* TCPTrack.h:19 says of shutdown() "quit tcptrack", and TCPTrack.cc:52-53
\* "just sit here until someone calls shutdown()": once it has been called
\* the program ends.
QuitIsHeard == asked ~> outcome # "running"

=============================================================================
