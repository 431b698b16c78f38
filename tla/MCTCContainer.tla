----------------------------- MODULE MCTCContainer -----------------------------
(* Instances of TCContainer for TLC. *)
EXTENDS TCContainer

Client  == [addr |-> "hostA", port |-> 3]
Client2 == [addr |-> "hostA", port |-> 2]
Server  == [addr |-> "hostB", port |-> 1]

Hashes == [a \in {"hostA", "hostB"} |-> IF a = "hostA" THEN 7 ELSE 5]

\* Every packet from a to b with one of the given sets of flags and one of
\* the given acknowledgement numbers.  The sequence number is always 5, so a
\* FIN is acknowledged with 6.
From(a, b, flagSets, acks) ==
  {[src |-> a, dst |-> b, flags |-> f, seq |-> 5, ack |-> n, len |-> 0, ver |-> 4] :
     f \in flagSets, n \in acks}

Between(a, b, flagSets, acks) == From(a, b, flagSets, acks) \cup From(b, a, flagSets, acks)

\* All that can happen to one socket pair.  The number only matters where
\* something may be waiting for its acknowledgement.
OnePair == Between(Client, Server, {{"SYN"}, {"RST"}}, {0})
             \cup Between(Client, Server, {{"SYN", "ACK"}}, {7})
             \cup Between(Client, Server, {{"ACK"}, {"FIN", "ACK"}}, {6, 7})

\* The same, with segments that the guesser ignores, and the start of another
\* connection with an endpoint in common.
TwoPairs == OnePair \cup Between(Client, Server, {{"ACK", "ECE"}}, {6})
                    \cup From(Client2, Server, {{"SYN"}}, {6})
=============================================================================
