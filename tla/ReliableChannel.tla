-------------------------- MODULE ReliableChannel --------------------------
(***************************************************************************)
(* What the OpenVPN reliability layer promises its caller, the TLS object  *)
(* of each peer (reliable.h, "allow SSL/TLS to be run over UDP"): a pair   *)
(* of first-in first-out channels.  Everything a peer puts into its        *)
(* channel reaches the other peer exactly once and in order; the messages  *)
(* of a peer are numbered in the order in which they are written.          *)
(***************************************************************************)
EXTENDS Naturals, Sequences

CONSTANTS Peers,        \* the two ends of the control channel
          Other(_)      \* the peer of a peer

VARIABLES written,      \* written[p]: how many messages p has written
          delivered     \* delivered[p]: the messages handed to p, in order

vars == <<written, delivered>>

Init ==
    /\ written = [p \in Peers |-> 0]
    /\ delivered = [p \in Peers |-> <<>>]

Write(p) ==
    /\ written' = [written EXCEPT ![p] = @ + 1]
    /\ UNCHANGED delivered

Deliver(p) ==
    LET n == Len(delivered[p]) + 1
    IN  /\ n <= written[Other(p)]
        /\ delivered' = [delivered EXCEPT ![p] = Append(@, n)]
        /\ UNCHANGED written

Next == \E p \in Peers : Write(p) \/ Deliver(p)

\* A message that has been written is not left undelivered for ever.
Fairness == \A p \in Peers : WF_vars(Deliver(p))

Spec == Init /\ [][Next]_vars

FairSpec == Spec /\ Fairness
=============================================================================
