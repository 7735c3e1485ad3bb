--------------------------- MODULE FragmentTunnel ---------------------------
(***************************************************************************)
(* One direction of an OpenVPN tunnel with --fragment, in point-to-point   *)
(* mode: the sender's event loop (pre_select, io_wait, process_io), a      *)
(* network that loses, repeats and reorders datagrams, and the receiver.   *)
(*                                                                         *)
(* Reach is an assumption about the network: a fragment that arrives is at *)
(* most N_SEQ_ID - N_FRAG_BUF datagrams away from the receiver's window.   *)
(* Sequence ids are eight bits wide and cannot tell more.                  *)
(***************************************************************************)
EXTENDS Fragment

CONSTANTS Lengths,         \* of the datagrams that the tun device delivers
          Payloads,        \* PAYLOAD_SIZE_DYNAMIC, which a path MTU hint changes
          InitialSeqIds,   \* what get_random() may give
          Reach,
          MaxPackets,      \* bound: datagrams that are fragmented
          NetCapacity      \* bound: fragments in flight

ASSUME TunnelAssumption ==
  /\ Lengths \subseteq 1 .. Capacity /\ Payloads \subseteq Nat
  /\ \A size \in Payloads : size >= FRAG_SIZE_ROUND
  /\ InitialSeqIds \subseteq 0 .. (N_SEQ_ID - 1)
  /\ Reach \in Nat /\ Reach <= N_SEQ_ID - N_FRAG_BUF

VARIABLES
  phase,       \* the sender's event loop: "pre_select" or "io_wait"
  out,         \* the sender's outgoing datagram
  outgoing_seq_id,
  to_link,     \* what waits to be written: a set of at most one packet
  net,         \* fragments in flight
  list,        \* the receiver's fragment_list
  sent,        \* history: the datagrams that were fragmented, and the bytes taken from each
  position,    \* history: number of the datagram that list.seq_id stands for
  heard,       \* history: <<number, frag_id>> of the fragments that arrived since
               \* their datagram was last delivered or given up
  delivered    \* history: what the receiver's tun device got last

senderVars == <<phase, out, outgoing_seq_id, to_link, sent>>
receiverVars == <<list, position, heard, delivered>>
vars == <<senderVars, net, receiverVars>>

Other == [pkt |-> 0]     \* a packet that is no fragment: FRAG_WHOLE or TLS

Numbers == DOMAIN sent

\* The receiver starts at sequence id 0, the sender anywhere.
Init ==
  /\ phase = "pre_select"
  /\ out = NothingOutgoing
  /\ outgoing_seq_id \in InitialSeqIds
  /\ to_link = {}
  /\ net = {}
  /\ list = list_init
  /\ sent = [n \in {} |-> 0]
  /\ position \in {k \in (1 - N_SEQ_ID) .. N_SEQ_ID : (outgoing_seq_id + k) % N_SEQ_ID = 0}
  /\ heard = {} /\ delivered = Empty

fragment_outgoing_defined == out.len > 0

\* The datagram with number n, as it was sent.
Whole(n) == [i \in 0 .. (sent[n].len - 1) |-> <<n, i>>]

----------------------------------------------------------------------------
(* The sender.  An encrypted packet goes to to_link; one for which there   *)
(* is no key is dropped there (tls_pre_encrypt).                           *)
encrypt_sign(packet) == to_link' \in {{packet}, {}}

IgnoresFragments == to_link # {}

\* Something waits to be written, or is going to once the link is free.
TO_LINK_DEF == to_link # {} \/ fragment_outgoing_defined

\* encrypt_sign with fragment_outgoing, for a datagram of length len: it goes
\* whole, or is dropped, or its first fragment goes and the rest waits.
fragment_outgoing(len, payload) ==
  LET size == optimal_fragment_size(len, payload)
      number == Cardinality(Numbers) + 1
      seq_id == modulo_add(outgoing_seq_id, 1, N_SEQ_ID)
      whole == outgoing(number, len, size)
      first == next_fragment(whole, seq_id)
  IN \/ /\ len <= payload
        /\ encrypt_sign(Other)
        /\ UNCHANGED <<out, outgoing_seq_id, sent>>
     \/ /\ len > payload /\ len > size * MAX_FRAGS
        /\ UNCHANGED <<out, outgoing_seq_id, sent, to_link>>
     \/ /\ len > payload /\ len <= size * MAX_FRAGS /\ number <= MaxPackets
        /\ outgoing_seq_id' = seq_id
        /\ encrypt_sign(first)
        /\ out' = rest(whole)
        /\ sent' = [n \in Numbers \cup {number} |-> IF n \in Numbers THEN sent[n]
                      ELSE [len |-> len, payload |-> payload, size |-> size, taken |-> first.len]]

\* check_tls may have a control packet to send ...
check_tls ==
  /\ phase = "pre_select" /\ to_link = {}
  /\ to_link' = {Other}
  /\ UNCHANGED <<phase, out, outgoing_seq_id, sent, net, receiverVars>>

\* ... and check_ping_send and check_send_occ_msg (an MTU test may be long) a
\* data packet, before check_fragment ...
check_send_occ_msg(len, payload) ==
  /\ phase = "pre_select" /\ ~ TO_LINK_DEF
  /\ fragment_outgoing(len, payload)
  /\ UNCHANGED <<phase, net, receiverVars>>

\* ... which ends pre_select.
check_fragment ==
  LET f == next_fragment(out, outgoing_seq_id)
  IN /\ phase = "pre_select"
     /\ phase' = "io_wait"
     /\ IF fragment_outgoing_defined /\ to_link = {}
        THEN /\ encrypt_sign(f)
             /\ out' = rest(out)
             /\ sent' = [sent EXCEPT ![out.pkt].taken = @ + f.len]
        ELSE UNCHANGED <<out, to_link, sent>>
     /\ UNCHANGED <<outgoing_seq_id, net, receiverVars>>

\* The link takes a packet, which is in flight then; packets may get lost.
process_outgoing_link ==
  /\ phase = "io_wait" /\ to_link # {}
  /\ phase' = "pre_select"
  /\ to_link' = {}
  /\ net' \in SUBSET (net \cup (to_link \ {Other}))
  /\ Cardinality(net') <= NetCapacity
  /\ UNCHANGED <<out, outgoing_seq_id, sent, receiverVars>>

\* io_wait waits for the tun device only when there is nothing to write and no
\* fragment is left (IOW_FRAG).
process_incoming_tun(len, payload) ==
  /\ phase = "io_wait" /\ ~ TO_LINK_DEF
  /\ phase' = "pre_select"
  /\ fragment_outgoing(len, payload)
  /\ UNCHANGED <<net, receiverVars>>

\* Anything else wakes the event loop up.
other_event ==
  /\ phase = "io_wait"
  /\ phase' = "pre_select"
  /\ UNCHANGED <<out, outgoing_seq_id, to_link, sent, net, receiverVars>>

----------------------------------------------------------------------------
(* The network and the receiver.                                           *)
Fragments(n) == 0 .. ((sent[n].len - 1) \div sent[n].size)

\* What the window gives up when a fragment of datagram q arrives: what falls
\* out of it, or everything when q is too old.
GivenUp(q) == {h \in heard : q >= h[1] + N_FRAG_BUF \/ q <= position - N_FRAG_BUF}

\* read_incoming_link, decryption and fragment_incoming.
process_incoming_link(f) ==
  LET r == fragment_incoming(list, f)
      arrived == (heard \ GivenUp(f.pkt)) \cup {<<f.pkt, f.frag_id>>}
  IN /\ f \in net /\ abs(f.pkt - position) <= Reach
     /\ net' \in {net, net \ {f}}      \* it may arrive again
     /\ list' = r.list
     /\ delivered' = r.datagram
     /\ heard' = IF r.datagram = Empty THEN arrived ELSE {h \in arrived : h[1] # f.pkt}
     /\ position' = IF f.pkt > position \/ f.pkt <= position - N_FRAG_BUF THEN f.pkt ELSE position
     /\ UNCHANGED senderVars

\* fragment_wakeup: fragment_ttl_reap gives up the buffers that are too old.
fragment_ttl_reap ==
  \E old \in SUBSET {i \in DOMAIN list.fragments : list.fragments[i].defined} :
    /\ old # {}
    /\ list' = [list EXCEPT !.fragments = [i \in DOMAIN @ |-> IF i \in old THEN Undefined ELSE @[i]]]
    /\ heard' = {h \in heard : \A i \in old : \A b \in DOMAIN list.fragments[i].buf :
                                   list.fragments[i].buf[b][1] # h[1]}
    /\ UNCHANGED <<senderVars, net, position, delivered>>

Next ==
  \/ check_tls \/ check_fragment \/ process_outgoing_link \/ other_event
  \/ \E len \in Lengths, payload \in Payloads :
       check_send_occ_msg(len, payload) \/ process_incoming_tun(len, payload)
  \/ \E f \in net : process_incoming_link(f)
  \/ fragment_ttl_reap

Spec == Init /\ [][Next]_vars

----------------------------------------------------------------------------
\* The receiver never gives its tun device anything but a datagram that was
\* sent, whole and with every byte in its place: fragments of different
\* datagrams are never put together, although sequence ids are used again.
OnlyWholeDatagrams == delivered = Empty \/ \E n \in Numbers : delivered = Whole(n)

\* The window does what it is for: a datagram is delivered as soon as all of
\* its fragments arrived, in any order and between the fragments of others,
\* unless one arrives that is N_FRAG_BUF or more ahead of it or behind the
\* latest one, or its time runs out.
ReorderedFragmentsJoin ==
  \A n \in Numbers : \E k \in Fragments(n) : <<n, k>> \notin heard

\* Every byte of a datagram that the sender began to cut was taken, or still
\* waits: no other datagram, not even a ping, takes the place of the rest
\* ("outgoing buffer is not empty", which fragment_outgoing only logs).
NoRestOverwritten ==
  \A n \in Numbers : sent[n].taken + (IF out.pkt = n THEN out.len ELSE 0) = sent[n].len

\* "Without changing the number of fragments": evening the sizes out makes no
\* more and no fewer fragments than the largest size would.
SameNumberOfFragments ==
  \A n \in Numbers :
    (sent[n].len - 1) \div sent[n].size = (sent[n].len - 1) \div aligned(sent[n].payload)
=============================================================================
