------------------------------ MODULE Reliable ------------------------------
(***************************************************************************)
(* The data structures of OpenVPN's reliability layer (reliable.c): the    *)
(* packet id arithmetic, the array of unacknowledged or undelivered        *)
(* packets, and the list of ids to be acknowledged.                        *)
(*                                                                         *)
(* Packet ids are unsigned integers of a fixed width: PID_MOD is 2^32 in   *)
(* the code and a small even number in the instances that are checked.     *)
(* The array of a struct reliable is the set of its active entries: no     *)
(* function depends on the index an entry has.                             *)
(***************************************************************************)
EXTENDS Integers, Sequences, FiniteSets

CONSTANTS PID_MOD,            \* number of packet ids
          RELIABLE_ACK_SIZE   \* capacity of a struct reliable_ack

ASSUME PidModAssumption == PID_MOD \in Nat \ {0} /\ PID_MOD % 2 = 0
ASSUME AckSizeAssumption == RELIABLE_ACK_SIZE \in Nat \ {0}

packet_id_type == 0 .. (PID_MOD - 1)
Half == PID_MOD \div 2

U(n) == n % PID_MOD         \* unsigned arithmetic wraps

----------------------------------------------------------------------------
(* Comparison of ids that may have wrapped around.                         *)

\* test - base < extent
reliable_pid_in_range1(test, base, extent) ==
    IF test >= base
    THEN test - base < extent
    ELSE U(U(test + Half) - U(base + Half)) < extent

\* test < base + extent
reliable_pid_in_range2(test, base, extent) ==
    IF U(base + extent) >= base
    THEN test < U(base + extent)
    ELSE U(test + Half) < U(U(base + Half) + extent)

\* p1 < p2
reliable_pid_min(p1, p2) == ~ reliable_pid_in_range1(p1, p2, Half)

----------------------------------------------------------------------------
(* A struct reliable is a record of its size, the next packet id to assign *)
(* (outgoing) or to deliver (incoming), its hold flag and its active       *)
(* entries.  An entry's next_try is abstracted to whether it has passed.   *)

reliable_init(array_size, hold) ==
    [size |-> array_size, packet_id |-> 0, hold |-> hold, array |-> {}]

reliable_empty(rel) == rel.array = {}

reliable_can_get(rel) == Cardinality(rel.array) < rel.size

active_ids(rel) == {e.packet_id : e \in rel.array}

\* What the loops of the code that look for the lowest id end with.
lowest(entries) ==
    {e \in entries : \A f \in entries : ~ reliable_pid_min(f.packet_id, e.packet_id)}

reliable_send_purge(rel, acks) ==
    [rel EXCEPT !.array = {e \in @ : e.packet_id \notin acks}]

BuggyNotReplay(rel, id) == id \notin active_ids(rel)

reliable_not_replay(rel, id) ==
    /\ ~ reliable_pid_min(id, rel.packet_id)
    /\ id \notin active_ids(rel)

reliable_wont_break_sequentiality(rel, id) ==
    reliable_pid_in_range2(id, rel.packet_id, rel.size)

BuggyOutputSequenced(rel) == reliable_can_get(rel)

\* The caller gets a buffer for the next outgoing packet.
reliable_get_buf_output_sequenced(rel) ==
    /\ \A e \in lowest(rel.array) :
          reliable_pid_in_range1(rel.packet_id, e.packet_id, rel.size)
    /\ reliable_can_get(rel)

\* The entries whose turn it is to be handed to the TLS object: at most one.
reliable_get_buf_sequenced(rel) ==
    {e \in rel.array : e.packet_id = rel.packet_id}

due(rel) == {e \in rel.array : e.due}

reliable_can_send(rel) == due(rel) # {} /\ ~ rel.hold

\* The entry that is sent now is scheduled for a later retransmission.
reliable_send(rel, best) ==
    [rel EXCEPT !.array = (@ \ {best}) \cup {[best EXCEPT !.due = FALSE]}]

reliable_schedule_now(rel) ==
    [rel EXCEPT !.hold = FALSE, !.array = {[e EXCEPT !.due = TRUE] : e \in @}]

entry(id, opcode, msg) ==
    [packet_id |-> id, opcode |-> opcode, msg |-> msg, due |-> TRUE]

reliable_mark_active_incoming(rel, id, opcode, msg) ==
    [rel EXCEPT !.array = @ \cup {entry(id, opcode, msg)}]

reliable_mark_active_outgoing(rel, opcode, msg) ==
    [rel EXCEPT !.array = @ \cup {entry(rel.packet_id, opcode, msg)},
                !.packet_id = U(@ + 1)]

BuggyMarkDeleted(rel, e) == [rel EXCEPT !.array = @ \ {e}]

reliable_mark_deleted(rel, e) ==
    [rel EXCEPT !.array = @ \ {e}, !.packet_id = U(e.packet_id + 1)]

----------------------------------------------------------------------------
(* A struct reliable_ack is the sequence of its packet ids.                *)

reliable_ack_packet_id_present(ack, pid) ==
    \E i \in 1 .. Len(ack) : ack[i] = pid

BuggyAcknowledge(ack, pid) ==
    IF ~ reliable_ack_packet_id_present(ack, pid) THEN Append(ack, pid) ELSE ack

reliable_ack_acknowledge_packet_id(ack, pid) ==
    IF ~ reliable_ack_packet_id_present(ack, pid) /\ Len(ack) < RELIABLE_ACK_SIZE
    THEN Append(ack, pid)
    ELSE ack

\* What reliable_ack_write puts on the wire, and what it leaves behind.
ack_count(ack, max) == IF Len(ack) > max THEN max ELSE Len(ack)
ack_record(ack, max) == {ack[i] : i \in 1 .. ack_count(ack, max)}
ack_rest(ack, max) == SubSeq(ack, ack_count(ack, max) + 1, Len(ack))
=============================================================================
