---------------------------- MODULE ReliableLink ----------------------------
(***************************************************************************)
(* Two OpenVPN peers that run the reliability layer of one key state over  *)
(* a network that loses, duplicates and reorders packets (UDP).  The       *)
(* layer's callers are tls_process, which writes, transmits, acknowledges  *)
(* and delivers, and the end of tls_pre_decrypt, which takes a packet from *)
(* the network.                                                            *)
(*                                                                         *)
(* The first message of each peer is its hard reset.  Until a peer has the *)
(* other's hard reset it has no remote session id and every other packet   *)
(* is unroutable; and until its own hard reset is acknowledged it is not   *)
(* in S_START and writes no ciphertext.  TLS itself is an environment that *)
(* writes at will.  A peer whose negotiation takes too long gives up: the  *)
(* key state is in S_ERROR and takes no further step.                      *)
(***************************************************************************)
EXTENDS Reliable

CONSTANTS TLS_RELIABLE_N_SEND_BUFFERS,
          TLS_RELIABLE_N_REC_BUFFERS,
          CONTROL_SEND_ACK_MAX,     \* acknowledgements that ride on a packet
          FirstPids,    \* ids the link may start from: 0 is a new key state, another
                        \* one a key state that has exchanged that many packets
          MaxMessages,  \* bound: messages that each peer writes
          NetCapacity   \* bound: packets in flight

ASSUME BufferAssumption ==
    /\ TLS_RELIABLE_N_SEND_BUFFERS \in Nat \ {0}
    /\ TLS_RELIABLE_N_REC_BUFFERS \in Nat \ {0}
    /\ CONTROL_SEND_ACK_MAX \in Nat
    /\ FirstPids \subseteq packet_id_type

\* The receive window is smaller than half of the id space (8 in the code).
ASSUME WindowAssumption == TLS_RELIABLE_N_REC_BUFFERS < Half

Peers == {"client", "server"}
Other(p) == CHOOSE q \in Peers : q # p

VARIABLES send_reliable,  \* [Peers -> struct reliable]
          rec_reliable,   \* [Peers -> struct reliable]
          rec_ack,        \* [Peers -> struct reliable_ack]
          known,          \* known[p]: p has the other's session id; the burst is done
          state,          \* ks->state; S_START stands for every later one too
          net,            \* packets in flight
          written,        \* history: number of messages written by each peer
          delivered       \* history: messages given to each peer's TLS object

vars == <<send_reliable, rec_reliable, rec_ack, known, state, net, written, delivered>>

opcodes == {"HARD_RESET", "P_CONTROL_V1"}

\* A packet: its addressee, its acknowledgement record and, but for P_ACK_V1,
\* the packet id and the message of an entry.
ack_v1(p, acks) ==
    [to |-> Other(p), op |-> "P_ACK_V1", acks |-> acks, packet_id |-> 0, msg |-> 0]
control_v1(p, acks, e) ==
    [to |-> Other(p), op |-> e.opcode, acks |-> acks, packet_id |-> e.packet_id, msg |-> e.msg]

\* Sending never blocks; when the network is full some packet is lost.
Send(m) ==
    IF Cardinality(net \cup {m}) <= NetCapacity
    THEN net' = net \cup {m}
    ELSE \E lost \in net : net' = (net \ {lost}) \cup {m}

InUse(p) == state[p] # "S_ERROR"

FULL_SYNC(p) == reliable_empty(send_reliable[p]) /\ rec_ack[p] = <<>>

----------------------------------------------------------------------------
Init ==
    \E first \in FirstPids, xmit_hold \in BOOLEAN :
        LET fresh == first = 0
            at(rel) == [rel EXCEPT !.packet_id = first]
        IN  /\ xmit_hold => fresh
            /\ send_reliable = [p \in Peers |->
                  at(reliable_init(TLS_RELIABLE_N_SEND_BUFFERS, xmit_hold /\ p = "server"))]
            /\ rec_reliable = [p \in Peers |->
                  at(reliable_init(TLS_RELIABLE_N_REC_BUFFERS, FALSE))]
            /\ known = [p \in Peers |-> ~ fresh]
            /\ state = [p \in Peers |-> IF fresh THEN "S_INITIAL" ELSE "S_START"]
            /\ rec_ack = [p \in Peers |-> <<>>]
            /\ net = {}
            /\ written = [p \in Peers |-> 0]
            /\ delivered = [p \in Peers |-> <<>>]

\* tls_process puts a message into the send buffer: the hard reset in
\* S_INITIAL, ciphertext from S_START on.
Write(p) ==
    /\ state[p] \in {"S_INITIAL", "S_START"}
    /\ written[p] < MaxMessages[p]
    /\ reliable_get_buf_output_sequenced(send_reliable[p])
    /\ written' = [written EXCEPT ![p] = @ + 1]
    /\ send_reliable' = [send_reliable EXCEPT ![p] =
           reliable_mark_active_outgoing(@,
               IF state[p] = "S_INITIAL" THEN "HARD_RESET" ELSE "P_CONTROL_V1", written'[p])]
    /\ state' = [state EXCEPT ![p] = IF @ = "S_INITIAL" THEN "S_PRE_START" ELSE @]
    /\ UNCHANGED <<rec_reliable, rec_ack, known, net, delivered>>

BuggyStart(p) ==
    /\ state[p] = "S_PRE_START"
    /\ rec_ack[p] = <<>>
    /\ state' = [state EXCEPT ![p] = "S_START"]
    /\ UNCHANGED <<send_reliable, rec_reliable, rec_ack, known, net, written, delivered>>

\* The initial handshake is acknowledged.
Start(p) ==
    /\ state[p] = "S_PRE_START"
    /\ FULL_SYNC(p)
    /\ state' = [state EXCEPT ![p] = "S_START"]
    /\ UNCHANGED <<send_reliable, rec_reliable, rec_ack, known, net, written, delivered>>

\* tls_process goes to error when now >= must_negotiate and the key state is not
\* active yet.  handshake_window may run out at any time between the two; the
\* session is reset, and nothing uses this key state any more.
GiveUp(p) ==
    /\ state[p] \in {"S_PRE_START", "S_START"}
    /\ state' = [state EXCEPT ![p] = "S_ERROR"]
    /\ UNCHANGED <<send_reliable, rec_reliable, rec_ack, known, net, written, delivered>>

\* tls_process sends, or sends again, the lowest packet that is due, with as
\* many acknowledgements as may ride on it.
Transmit(p) ==
    /\ InUse(p)
    /\ reliable_can_send(send_reliable[p])
    /\ \E best \in lowest(due(send_reliable[p])) :
          /\ send_reliable' = [send_reliable EXCEPT ![p] = reliable_send(@, best)]
          /\ Send(control_v1(p, ack_record(rec_ack[p], CONTROL_SEND_ACK_MAX), best))
    /\ rec_ack' = [rec_ack EXCEPT ![p] = ack_rest(@, CONTROL_SEND_ACK_MAX)]
    /\ UNCHANGED <<rec_reliable, known, state, written, delivered>>

\* The clock reaches next_try of an entry.
Expire(p) ==
    \E e \in send_reliable[p].array \ due(send_reliable[p]) :
        /\ InUse(p)
        /\ send_reliable' = [send_reliable EXCEPT
               ![p].array = (@ \ {e}) \cup {[e EXCEPT !.due = TRUE]}]
        /\ UNCHANGED <<rec_reliable, rec_ack, known, state, net, written, delivered>>

\* A dedicated acknowledgement: tls_process sends it (TLS_AGGREGATE_ACK) when
\* its loop has nothing left to send and nothing left to deliver.
SendAck(p) ==
    /\ InUse(p)
    /\ rec_ack[p] # <<>>
    /\ ~ reliable_can_send(send_reliable[p])
    /\ reliable_get_buf_sequenced(rec_reliable[p]) = {}
    /\ Send(ack_v1(p, ack_record(rec_ack[p], RELIABLE_ACK_SIZE)))
    /\ rec_ack' = [rec_ack EXCEPT ![p] = ack_rest(@, RELIABLE_ACK_SIZE)]
    /\ UNCHANGED <<send_reliable, rec_reliable, known, state, written, delivered>>

\* tls_process hands the next message in sequence to the TLS object.
Deliver(p) ==
    \E e \in reliable_get_buf_sequenced(rec_reliable[p]) :
        /\ InUse(p)
        /\ rec_reliable' = [rec_reliable EXCEPT ![p] = reliable_mark_deleted(@, e)]
        /\ delivered' = [delivered EXCEPT ![p] = Append(@, e.msg)]
        /\ UNCHANGED <<send_reliable, rec_ack, known, state, net, written>>

BuggyAccept(p, m) ==
    LET rel == rec_reliable[p]
        taken == reliable_wont_break_sequentiality(rel, m.packet_id)
    IN  /\ rec_reliable' = [rec_reliable EXCEPT ![p] =
               IF taken /\ reliable_can_get(rel) /\ reliable_not_replay(rel, m.packet_id)
               THEN reliable_mark_active_incoming(rel, m.packet_id, m.op, m.msg) ELSE rel]
        /\ rec_ack' = [rec_ack EXCEPT ![p] =
               reliable_ack_acknowledge_packet_id(@, m.packet_id)]

NoReplayAcknowledged(p, m) ==
    LET rel == rec_reliable[p]
        taken == /\ reliable_can_get(rel)
                 /\ reliable_wont_break_sequentiality(rel, m.packet_id)
                 /\ reliable_not_replay(rel, m.packet_id)
    IN  /\ rec_reliable' = [rec_reliable EXCEPT ![p] =
               IF taken THEN reliable_mark_active_incoming(rel, m.packet_id, m.op, m.msg) ELSE rel]
        /\ rec_ack' = [rec_ack EXCEPT ![p] =
               IF taken THEN reliable_ack_acknowledge_packet_id(@, m.packet_id) ELSE @]

\* The packet id and the message of a packet that is not P_ACK_V1: a replay is
\* acknowledged again but not stored, a packet too far ahead is ignored.
Accept(p, m) ==
    LET rel == rec_reliable[p]
        taken == reliable_can_get(rel) /\ reliable_wont_break_sequentiality(rel, m.packet_id)
    IN  /\ rec_reliable' = [rec_reliable EXCEPT ![p] =
               IF taken /\ reliable_not_replay(rel, m.packet_id)
               THEN reliable_mark_active_incoming(rel, m.packet_id, m.op, m.msg) ELSE rel]
        /\ rec_ack' = [rec_ack EXCEPT ![p] =
               IF taken THEN reliable_ack_acknowledge_packet_id(@, m.packet_id) ELSE @]

\* A hard reset from a peer that is not known yet schedules everything that is
\* unacknowledged for transmission at once; a packet's acknowledgements then
\* empty the send buffer.
Acknowledged(p, m) ==
    reliable_send_purge(IF known[p] THEN send_reliable[p]
                        ELSE reliable_schedule_now(send_reliable[p]), m.acks)

\* tls_pre_decrypt takes packet m; it ignores what it cannot route.
Receive(m) ==
    LET p == m.to
    IN  /\ m \in net
        /\ \/ net' = net \ {m}
           \/ UNCHANGED net           \* the network delivers another copy later
        /\ IF InUse(p) /\ (known[p] \/ m.op = "HARD_RESET")
           THEN /\ known' = [known EXCEPT ![p] = TRUE]
                /\ send_reliable' = [send_reliable EXCEPT ![p] = Acknowledged(p, m)]
                /\ IF m.op = "P_ACK_V1" THEN UNCHANGED <<rec_reliable, rec_ack>>
                                        ELSE Accept(p, m)
           ELSE UNCHANGED <<known, send_reliable, rec_reliable, rec_ack>>
        /\ UNCHANGED <<state, written, delivered>>

Lose ==
    /\ \E m \in net : net' = net \ {m}
    /\ UNCHANGED <<send_reliable, rec_reliable, rec_ack, known, state, written, delivered>>

Next ==
    \/ \E p \in Peers :
          Write(p) \/ Start(p) \/ GiveUp(p) \/ Transmit(p) \/ Expire(p) \/ SendAck(p) \/ Deliver(p)
    \/ \E m \in net : Receive(m)
    \/ Lose

Spec == Init /\ [][Next]_vars

----------------------------------------------------------------------------
(* Fairness.  A peer's event loop calls tls_process at least once a second *)
(* and time passes, until the peer gives up.  The network does not lose    *)
(* every copy of a message, or every acknowledgement of it, that is sent   *)
(* again and again.                                                        *)

ReceiveMessage(p, k) ==
    \E m \in net : m.to = p /\ m.msg = k /\ Receive(m)

ReceiveAck(p, k) ==
    \E m \in net :
        /\ m.to = p
        /\ \E e \in send_reliable[p].array : e.msg = k /\ e.packet_id \in m.acks
        /\ Receive(m)

Fairness ==
    \A p \in Peers :
        /\ WF_vars(Start(p)) /\ WF_vars(Transmit(p)) /\ WF_vars(Expire(p))
        /\ WF_vars(SendAck(p)) /\ WF_vars(Deliver(p))
        /\ WF_vars(Write(p) /\ state[p] = "S_INITIAL")
        /\ \A k \in 1 .. MaxMessages[Other(p)] : SF_vars(ReceiveMessage(p, k))
        /\ \A k \in 1 .. MaxMessages[p] : SF_vars(ReceiveAck(p, k))

FairSpec == Spec /\ Fairness

----------------------------------------------------------------------------
Entries == [packet_id : packet_id_type, opcode : opcodes, msg : Nat, due : BOOLEAN]
reliables == [size : Nat, packet_id : packet_id_type, hold : BOOLEAN, array : SUBSET Entries]
Packets == [to : Peers, op : opcodes \cup {"P_ACK_V1"}, acks : SUBSET packet_id_type,
            packet_id : packet_id_type, msg : Nat]

\* The shape of every variable; the acknowledgement list never outgrows its array.
TypeOK ==
    /\ send_reliable \in [Peers -> reliables]
    /\ rec_reliable \in [Peers -> reliables]
    /\ rec_ack \in [Peers -> Seq(packet_id_type)]
    /\ \A p \in Peers : Len(rec_ack[p]) <= RELIABLE_ACK_SIZE
    /\ known \in [Peers -> BOOLEAN]
    /\ state \in [Peers -> {"S_INITIAL", "S_PRE_START", "S_START", "S_ERROR"}]
    /\ net \in SUBSET Packets
    /\ written \in [Peers -> Nat]
    /\ delivered \in [Peers -> Seq(Nat)]

\* A message that is written and not delivered is held by its sender or by its
\* receiver: an acknowledgement (reliable_send_purge) never lets go of a message
\* that the other end has not stored, whatever the network lost or repeated.
NothingForgotten ==
    \A p \in Peers :
        \A k \in (Len(delivered[Other(p)]) + 1) .. written[p] :
            \/ \E e \in send_reliable[p].array : e.msg = k
            \/ \E e \in rec_reliable[Other(p)].array : e.msg = k

\* The receive buffer never fills up with packets that cannot be delivered:
\* while the next packet in sequence is missing there is room for it, and when
\* it comes it is not taken for a replay or for one too far ahead.
RoomForNext ==
    \A p \in Peers :
        LET rel == rec_reliable[p]
        IN  reliable_get_buf_sequenced(rel) = {} =>
               /\ reliable_can_get(rel)
               /\ reliable_wont_break_sequentiality(rel, rel.packet_id)
               /\ reliable_not_replay(rel, rel.packet_id)

\* Messages of p that its peer has neither stored nor delivered.
Missing(p) ==
    {k \in (Len(delivered[Other(p)]) + 1) .. written[p] :
        \A e \in rec_reliable[Other(p)].array : e.msg # k}

\* The send window: a peer has written nothing that is ahead of a message the
\* other still misses by the size of its send buffer or more, so that what it
\* sends always fits the other's receive buffer in the end.
WithinWindow ==
    \A p \in Peers :
        \A k \in Missing(p) : written[p] - k < TLS_RELIABLE_N_SEND_BUFFERS

\* S_START is "three-way handshake is complete": a peer that writes ciphertext
\* knows the other's session, and the other knows its.
HandshakeComplete ==
    \A p \in Peers : state[p] = "S_START" => known[p] /\ known[Other(p)]

Channel == INSTANCE ReliableChannel WITH written <- written, delivered <- delivered

\* The layer implements a pair of reliable first-in first-out channels: each
\* message is delivered exactly once, in order ...
ImplementsChannel == Channel!Spec

\* ... and, under the fairness above, eventually, unless a peer gives the key
\* state up: the handshake either goes on or ends with an error, it never hangs
\* with a message undelivered.
DeliversAll == <>(\E p \in Peers : state[p] = "S_ERROR") \/ Channel!Fairness
=============================================================================
