---------------------------- MODULE MCConversation ----------------------------
(* Instances of Conversation for TLC. *)
EXTENDS Conversation

\* Initial sequence numbers: small ones, and ones with which the numbers of
\* the FINs wrap around (no other segment is acknowledged with 0).
SmallISS == [client |-> 10, server |-> 20]
WrapISS  == [client |-> Word - 3, server |-> Word - 3]

Allow(data, resyn, resend, lost, missed, swapped, abort) ==
  [data |-> data, resyn |-> resyn, resend |-> resend, lost |-> lost,
   missed |-> missed, swapped |-> swapped, abort |-> abort]

Orderly  == Allow(1, 0, 0, 0, 0, 0, 0)   \* one byte of data, nothing goes wrong
Retrying == Allow(1, 1, 1, 0, 0, 0, 1)   \* spurious retransmissions, an abort
Lossy    == Allow(1, 0, 1, 1, 1, 0, 0)   \* a lost and a missed segment, one resent
Reordered == Allow(1, 0, 1, 0, 0, 2, 1)  \* segments overtake one another, an abort
Aborting == Allow(0, 0, 0, 1, 1, 0, 2)   \* both peers abort, a RST or the SYN is lost or missed

OrderlyOnly == {Orderly}
Disturbed   == {Retrying, Lossy, Reordered, Aborting}

\* The hypothesis of the theorems of ClosingProofs.
ASSUME NumbersApart
=============================================================================
