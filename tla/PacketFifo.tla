------------------------------ MODULE PacketFifo ------------------------------
(***************************************************************************)
(* What the PacketBuffer promises to the Sniffer and the TCContainer: the  *)
(* packets put in while a destination is set come out in the same order,   *)
(* each once; after the destination is taken away nothing more is          *)
(* delivered, and what is still in the buffer is discarded.                *)
(***************************************************************************)
EXTENDS Sequences

CONSTANT Packets

VARIABLES queue,      \* packets put in and not yet taken out
          delivered,  \* packets given to the destination, in order
          open        \* there is a destination

vars == <<queue, delivered, open>>

Init == queue = <<>> /\ delivered = <<>> /\ open = TRUE

Put(p) == open /\ queue' = Append(queue, p) /\ UNCHANGED <<delivered, open>>

Take == /\ queue # <<>>
        /\ queue' = Tail(queue)
        /\ delivered' = IF open THEN Append(delivered, Head(queue)) ELSE delivered
        /\ UNCHANGED open

Close == open /\ open' = FALSE /\ UNCHANGED <<queue, delivered>>

Next == (\E p \in Packets : Put(p)) \/ Take \/ Close

Spec == Init /\ [][Next]_vars
FairSpec == Spec /\ WF_vars(Take)

=============================================================================
