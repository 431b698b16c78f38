------------------------------- MODULE ConnTable -------------------------------
(***************************************************************************)
(* What the table of connections promises to the threads around it.        *)
(* Packets put connections in and keep them from going, time makes them    *)
(* ripe, and the maintenance thread takes ripe ones out, one at a time,    *)
(* between taking the lock and giving it back, while purging is on.  The   *)
(* container of the program implements it, with its socket pairs, records, *)
(* states and ages; the display is modelled against it.                    *)
(***************************************************************************)
CONSTANT Keys

VARIABLES table,    \* the connections in the table
          ripe,     \* those of them that may be removed
          purging,  \* may they be removed now?
          holder,   \* "maint" during a maintenance pass
          todo      \* what the pass has yet to visit

vars == <<table, ripe, purging, holder, todo>>

\* A packet of connection k; no pass is under way.
Hear(k) ==
  /\ holder = "none"
  /\ table' = table \cup {k} /\ ripe' = ripe \ {k}
  /\ UNCHANGED <<purging, holder, todo>>

\* The timeouts of some connections run out, at any time.
Ripen ==
  /\ \E S \in SUBSET table : ripe' = ripe \cup S
  /\ UNCHANGED <<table, purging, holder, todo>>

Lock ==
  /\ holder = "none" /\ holder' = "maint"
  /\ todo' = table
  /\ UNCHANGED <<table, ripe, purging>>

Keep(k) ==
  /\ holder = "maint" /\ k \in todo /\ todo' = todo \ {k}
  /\ ~(purging /\ k \in ripe)
  /\ UNCHANGED <<table, ripe, purging, holder>>

Remove(k) ==
  /\ holder = "maint" /\ k \in todo /\ todo' = todo \ {k}
  /\ purging /\ k \in ripe
  /\ table' = table \ {k} /\ ripe' = ripe \ {k}
  /\ UNCHANGED <<purging, holder>>

Unlock ==
  /\ holder = "maint" /\ todo = {}
  /\ holder' = "none"
  /\ UNCHANGED <<table, ripe, purging, todo>>

\* Purging is switched on and off without the lock, even during a pass.
Switch(flag) == purging' = flag /\ UNCHANGED <<table, ripe, holder, todo>>

Init == table = {} /\ ripe = {} /\ purging = TRUE /\ holder = "none" /\ todo = {}

Next ==
  \/ \E k \in Keys : Hear(k) \/ Keep(k) \/ Remove(k)
  \/ Ripen \/ Lock \/ Unlock \/ \E flag \in BOOLEAN : Switch(flag)

Spec == Init /\ [][Next]_vars

=============================================================================
