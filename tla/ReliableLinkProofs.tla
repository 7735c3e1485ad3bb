------------------------- MODULE ReliableLinkProofs -------------------------
(***************************************************************************)
(* The reliability layer implements a pair of first-in first-out channels: *)
(* for every size of the buffers, every number of acknowledgements that    *)
(* ride on a packet, and every network, as long as the packet ids of a key *)
(* state do not wrap around (NoWrap: fewer than 2^31 messages).            *)
(***************************************************************************)
EXTENDS ReliableLink, FiniteSetTheorems, TLAPS

NoWrap ==
    /\ FirstPids = {0}
    /\ MaxMessages \in [Peers -> Nat]
    /\ \A p \in Peers : MaxMessages[p] < Half

----------------------------------------------------------------------------
(* The inductive invariant.                                                *)

\* Packet pid of the other peer has reached p.
Received(p, pid) ==
    \/ pid < Len(delivered[p])
    \/ \E e \in rec_reliable[p].array : e.packet_id = pid

\* The k-th message has packet id k - 1, wherever it is.
SendNumbered ==
    \A p \in Peers :
        /\ send_reliable[p].packet_id = written[p]
        /\ written[p] <= MaxMessages[p]
        /\ \A e \in send_reliable[p].array : e.msg = e.packet_id + 1 /\ e.msg <= written[p]

RecNumbered ==
    \A p \in Peers :
        /\ rec_reliable[p].packet_id = Len(delivered[p])
        /\ Len(delivered[p]) <= written[Other(p)]
        /\ \A e \in rec_reliable[p].array :
              /\ e.msg = e.packet_id + 1
              /\ Len(delivered[p]) < e.msg
              /\ e.msg <= written[Other(p)]

\* The receive buffer holds one packet of an id.
RecDistinct ==
    \A p \in Peers : \A e, f \in rec_reliable[p].array : e.packet_id = f.packet_id => e = f

NetNumbered ==
    \A m \in net :
        m.op # "P_ACK_V1" => m.msg = m.packet_id + 1 /\ m.msg <= written[Other(m.to)]

\* Only what has been received is acknowledged, or will be.
HonestAcks ==
    /\ \A p \in Peers : \A i \in 1 .. Len(rec_ack[p]) : Received(p, rec_ack[p][i])
    /\ \A m \in net : \A pid \in m.acks : Received(Other(m.to), pid)

\* What has been delivered are the first messages in their order.
InOrder ==
    \A p \in Peers : \A i \in 1 .. Len(delivered[p]) : delivered[p][i] = i

\* A peer that has received anything, or whose hard reset is acknowledged,
\* knows the other's session.
Acquainted ==
    \A p \in Peers :
        /\ (rec_reliable[p].array # {} \/ Len(delivered[p]) > 0) => known[p]
        /\ state[p] # "S_INITIAL" => written[p] > 0
        /\ written[p] > 0 => known[p] \/ (\E e \in send_reliable[p].array : e.msg = 1)

Types ==
    /\ send_reliable \in [Peers -> reliables]
    /\ rec_reliable \in [Peers -> reliables]
    /\ rec_ack \in [Peers -> Seq(packet_id_type)]
    /\ known \in [Peers -> BOOLEAN]
    /\ state \in [Peers -> {"S_INITIAL", "S_PRE_START", "S_START", "S_ERROR"}]
    /\ net \in SUBSET Packets
    /\ written \in [Peers -> Nat]
    /\ delivered \in [Peers -> Seq(Nat)]

IInv ==
    /\ Types
    /\ SendNumbered
    /\ RecNumbered
    /\ RecDistinct
    /\ NetNumbered
    /\ HonestAcks
    /\ NothingForgotten
    /\ InOrder
    /\ Acquainted
    /\ HandshakeComplete

----------------------------------------------------------------------------
(* Arithmetic of packet ids.                                               *)

\* The ids fall into two halves of equal size.
LEMMA HalfFacts == Half \in Nat /\ Half > 0 /\ PID_MOD = Half + Half /\ PID_MOD \in Nat
  BY PidModAssumption, SMT DEF Half

\* Unsigned arithmetic leaves ids alone ...
LEMMA NoOverflow == \A n \in 0 .. (PID_MOD - 1) : U(n) = n
  BY PidModAssumption, SMT DEF U

\* ... and wraps a negative number once.
LEMMA Borrow == \A n \in Int : -PID_MOD <= n /\ n < 0 => U(n) = n + PID_MOD
  BY PidModAssumption, SMT DEF U

\* Below half the id space the comparison is the usual one.
LEMMA PidMin ==
  ASSUME NEW a \in 0 .. (Half - 1), NEW b \in 0 .. (Half - 1)
  PROVE  reliable_pid_min(a, b) <=> a < b
<1> USE HalfFacts
<1>1. CASE a >= b
  BY <1>1 DEF reliable_pid_min, reliable_pid_in_range1
<1>2. CASE a < b
  <2>1. U(a + Half) = a + Half /\ U(b + Half) = b + Half
    BY NoOverflow
  <2>2. U((a + Half) - (b + Half)) = a - b + PID_MOD
    BY <1>2, Borrow
  <2>3. ~ (a - b + PID_MOD < Half)
    BY <1>2
  <2> QED BY <1>2, <2>1, <2>2, <2>3 DEF reliable_pid_min, reliable_pid_in_range1
<1> QED BY <1>1, <1>2

\* The two peers.
LEMMA OtherPeer ==
  /\ Other("client") = "server" /\ Other("server") = "client"
  /\ \A p \in Peers : Other(p) \in Peers /\ Other(Other(p)) = p /\ Other(p) # p
<1>1. Other("client") = "server"
  BY DEF Other, Peers
<1>2. Other("server") = "client"
  BY DEF Other, Peers
<1> QED BY <1>1, <1>2 DEF Peers

----------------------------------------------------------------------------
(* What the operations on a struct reliable do to its fields.              *)

\* A new outgoing packet takes the next id.
LEMMA OutgoingFields ==
  ASSUME NEW rel \in reliables, NEW opcode \in opcodes, NEW msg \in Nat,
         rel.packet_id + 1 < PID_MOD
  PROVE  LET r == reliable_mark_active_outgoing(rel, opcode, msg)
         IN  /\ r \in reliables
             /\ r.array = rel.array \cup {entry(rel.packet_id, opcode, msg)}
             /\ r.packet_id = rel.packet_id + 1
<1>1. rel.packet_id \in packet_id_type
  BY DEF reliables
<1>2. U(rel.packet_id + 1) = rel.packet_id + 1 /\ rel.packet_id + 1 \in packet_id_type
  BY <1>1, NoOverflow, HalfFacts DEF packet_id_type
<1>3. entry(rel.packet_id, opcode, msg) \in Entries
  BY <1>1 DEF entry, Entries
<1> QED BY <1>2, <1>3 DEF reliable_mark_active_outgoing, reliables

\* An incoming packet is stored.
LEMMA IncomingFields ==
  ASSUME NEW rel \in reliables, NEW opcode \in opcodes, NEW msg \in Nat,
         NEW id \in packet_id_type
  PROVE  LET r == reliable_mark_active_incoming(rel, id, opcode, msg)
         IN  /\ r \in reliables
             /\ r.array = rel.array \cup {entry(id, opcode, msg)}
             /\ r.packet_id = rel.packet_id
<1>1. entry(id, opcode, msg) \in Entries
  BY DEF entry, Entries
<1> QED BY <1>1 DEF reliable_mark_active_incoming, reliables

\* A delivered packet is removed and the next one is expected.
LEMMA DeletedFields ==
  ASSUME NEW rel \in reliables, NEW e \in rel.array, e.packet_id + 1 < PID_MOD
  PROVE  LET r == reliable_mark_deleted(rel, e)
         IN  /\ r \in reliables
             /\ r.array = rel.array \ {e}
             /\ r.packet_id = e.packet_id + 1
<1>1. e.packet_id \in packet_id_type
  BY DEF reliables, Entries
<1>2. U(e.packet_id + 1) = e.packet_id + 1 /\ e.packet_id + 1 \in packet_id_type
  BY <1>1, NoOverflow, HalfFacts DEF packet_id_type
<1> QED BY <1>2 DEF reliable_mark_deleted, reliables

\* Transmitting changes no more than the schedule of an entry.
LEMMA SendFields ==
  ASSUME NEW rel \in reliables, NEW best \in rel.array
  PROVE  LET r == reliable_send(rel, best)
         IN  /\ r \in reliables
             /\ r.packet_id = rel.packet_id
             /\ \A e \in r.array : \E f \in rel.array :
                   e.packet_id = f.packet_id /\ e.msg = f.msg
             /\ \A f \in rel.array : \E e \in r.array :
                   e.packet_id = f.packet_id /\ e.msg = f.msg
<1>1. best \in Entries
  BY DEF reliables
<1>2. [best EXCEPT !.due = FALSE] \in Entries
  BY <1>1 DEF Entries
<1>3. /\ [best EXCEPT !.due = FALSE].packet_id = best.packet_id
      /\ [best EXCEPT !.due = FALSE].msg = best.msg
  BY <1>1 DEF Entries
<1> QED BY <1>1, <1>2, <1>3 DEF reliable_send, reliables

\* So does the burst.
LEMMA ScheduleFields ==
  ASSUME NEW rel \in reliables
  PROVE  LET r == reliable_schedule_now(rel)
         IN  /\ r \in reliables
             /\ r.packet_id = rel.packet_id
             /\ \A e \in r.array : \E f \in rel.array :
                   e.packet_id = f.packet_id /\ e.msg = f.msg
             /\ \A f \in rel.array : \E e \in r.array :
                   e.packet_id = f.packet_id /\ e.msg = f.msg
<1>1. \A e \in rel.array :
         /\ e \in Entries
         /\ [e EXCEPT !.due = TRUE] \in Entries
         /\ [e EXCEPT !.due = TRUE].packet_id = e.packet_id
         /\ [e EXCEPT !.due = TRUE].msg = e.msg
  BY DEF reliables, Entries
<1>2. reliable_schedule_now(rel).array = {[e EXCEPT !.due = TRUE] : e \in rel.array}
  BY DEF reliable_schedule_now, reliables
<1>3. reliable_schedule_now(rel) \in reliables /\ reliable_schedule_now(rel).packet_id = rel.packet_id
  BY <1>1 DEF reliable_schedule_now, reliables
<1> QED BY <1>1, <1>2, <1>3

\* Acknowledgements remove exactly the entries they name.
LEMMA PurgeFields ==
  ASSUME NEW rel \in reliables, NEW acks \in SUBSET packet_id_type
  PROVE  LET r == reliable_send_purge(rel, acks)
         IN  /\ r \in reliables
             /\ r.packet_id = rel.packet_id
             /\ r.array = {e \in rel.array : e.packet_id \notin acks}
  BY DEF reliable_send_purge, reliables

\* Writing acknowledgements takes them from the list.
LEMMA AckFields ==
  ASSUME NEW ack \in Seq(packet_id_type), NEW max \in Nat
  PROVE  /\ ack_record(ack, max) \in SUBSET packet_id_type
         /\ \A pid \in ack_record(ack, max) : \E i \in 1 .. Len(ack) : ack[i] = pid
         /\ ack_rest(ack, max) \in Seq(packet_id_type)
         /\ \A i \in 1 .. Len(ack_rest(ack, max)) :
               \E j \in 1 .. Len(ack) : ack_rest(ack, max)[i] = ack[j]
<1> DEFINE c == ack_count(ack, max)
<1>1. c \in 0 .. Len(ack)
  BY DEF ack_count
<1>2. ack_rest(ack, max) = SubSeq(ack, c + 1, Len(ack))
  BY DEF ack_rest
<1> HIDE DEF c
<1>3. /\ SubSeq(ack, c + 1, Len(ack)) \in Seq(packet_id_type)
      /\ \A i \in 1 .. Len(SubSeq(ack, c + 1, Len(ack))) :
            SubSeq(ack, c + 1, Len(ack))[i] = ack[c + i] /\ c + i \in 1 .. Len(ack)
  BY <1>1, SMTT(40)
<1>4. ack_record(ack, max) = {ack[i] : i \in 1 .. c}
  BY DEF ack_record, c
<1> QED BY <1>1, <1>2, <1>3, <1>4

----------------------------------------------------------------------------
(* The invariant holds at the start and is kept by every step.             *)

\* A new key state.
LEMMA InitIInv ==
  ASSUME NoWrap, Init
  PROVE  IInv
<1>1. 0 \in packet_id_type
  BY HalfFacts DEF packet_id_type
<1>2. PICK hold \in BOOLEAN :
        /\ send_reliable = [p \in Peers |->
              [reliable_init(TLS_RELIABLE_N_SEND_BUFFERS, hold /\ p = "server") EXCEPT !.packet_id = 0]]
        /\ rec_reliable = [p \in Peers |->
              [reliable_init(TLS_RELIABLE_N_REC_BUFFERS, FALSE) EXCEPT !.packet_id = 0]]
        /\ known = [p \in Peers |-> FALSE]
        /\ state = [p \in Peers |-> "S_INITIAL"]
        /\ rec_ack = [p \in Peers |-> <<>>]
        /\ net = {}
        /\ written = [p \in Peers |-> 0]
        /\ delivered = [p \in Peers |-> <<>>]
  BY DEF Init, NoWrap
<1>3. \A p \in Peers :
        /\ send_reliable[p] \in reliables /\ rec_reliable[p] \in reliables
        /\ send_reliable[p].packet_id = 0 /\ send_reliable[p].array = {}
        /\ rec_reliable[p].packet_id = 0 /\ rec_reliable[p].array = {}
        /\ rec_ack[p] = <<>> /\ written[p] = 0 /\ delivered[p] = <<>>
        /\ state[p] = "S_INITIAL"
  BY <1>1, <1>2, BufferAssumption DEF reliable_init, reliables
<1>4. Types
  <2>1. send_reliable \in [Peers -> reliables] /\ rec_reliable \in [Peers -> reliables]
    BY <1>2, <1>3
  <2>2. known \in [Peers -> BOOLEAN] /\ state \in [Peers -> {"S_INITIAL", "S_PRE_START", "S_START", "S_ERROR"}]
    BY <1>2
  <2>3. rec_ack \in [Peers -> Seq(packet_id_type)] /\ delivered \in [Peers -> Seq(Nat)]
    BY <1>2
  <2>4. net \in SUBSET Packets /\ written \in [Peers -> Nat]
    BY <1>2
  <2> QED BY <2>1, <2>2, <2>3, <2>4 DEF Types
<1>5. \A p \in Peers : Len(delivered[p]) = 0 /\ Len(rec_ack[p]) = 0 /\ Other(p) \in Peers
  BY <1>3, OtherPeer
<1>6. SendNumbered /\ RecNumbered /\ RecDistinct /\ NetNumbered
  <2>1. \A p \in Peers : MaxMessages[p] \in Nat
    BY DEF NoWrap
  <2>2. net = {}
    BY <1>2
  <2> QED BY <1>3, <1>5, <2>1, <2>2 DEF SendNumbered, RecNumbered, RecDistinct, NetNumbered
<1>7. HonestAcks /\ InOrder
  BY <1>2, <1>3, <1>5 DEF HonestAcks, InOrder
<1>8. Acquainted /\ HandshakeComplete
  BY <1>3, <1>5 DEF Acquainted, HandshakeComplete
<1>9. NothingForgotten
  BY <1>3, <1>5 DEF NothingForgotten
<1> QED BY <1>4, <1>6, <1>7, <1>8, <1>9 DEF IInv

\* tls_process writes a message.
LEMMA WriteIInv ==
  ASSUME NoWrap, IInv, NEW p \in Peers, Write(p)
  PROVE  IInv'
<1> DEFINE q == Other(p)
           op == IF state[p] = "S_INITIAL" THEN "HARD_RESET" ELSE "P_CONTROL_V1"
           r == reliable_mark_active_outgoing(send_reliable[p], op, written[p] + 1)
<1>0. Types /\ SendNumbered /\ RecNumbered /\ RecDistinct /\ NetNumbered /\ HonestAcks /\ NothingForgotten /\ InOrder /\ Acquainted /\ HandshakeComplete
  BY DEF IInv
<1>1. /\ written' = [written EXCEPT ![p] = written[p] + 1]
      /\ written[p] \in Nat /\ written[p] + 1 <= MaxMessages[p]
      /\ send_reliable' = [send_reliable EXCEPT ![p] = r]
      /\ state' = [state EXCEPT ![p] = IF state[p] = "S_INITIAL" THEN "S_PRE_START" ELSE state[p]]
      /\ state[p] # "S_PRE_START"
      /\ UNCHANGED <<rec_reliable, rec_ack, known, net, delivered>>
  BY <1>0 DEF Write, Types, NoWrap
<1>2. /\ send_reliable[p] \in reliables /\ send_reliable[p].packet_id = written[p]
      /\ op \in opcodes
      /\ written[p] + 1 < PID_MOD
  BY <1>0, <1>1, HalfFacts DEF Types, SendNumbered, NoWrap, opcodes
<1>3. /\ r \in reliables
      /\ r.array = send_reliable[p].array \cup {entry(written[p], op, written[p] + 1)}
      /\ r.packet_id = written[p] + 1
  BY <1>1, <1>2, OutgoingFields
<1>4. /\ entry(written[p], op, written[p] + 1).msg = written[p] + 1
      /\ entry(written[p], op, written[p] + 1).packet_id = written[p]
  BY DEF entry
<1> HIDE DEF r, op
<1>5. Types'
  BY <1>0, <1>1, <1>3 DEF Types
<1>6. \A x \in Peers : /\ written'[x] = (IF x = p THEN written[p] + 1 ELSE written[x])
                       /\ send_reliable'[x] = (IF x = p THEN r ELSE send_reliable[x])
                       /\ written[x] \in Nat /\ written'[x] \in Nat
                       /\ Other(x) \in Peers
                       /\ Len(delivered[x]) \in Nat
  BY <1>0, <1>1, OtherPeer DEF Types
<1>7. SendNumbered' /\ RecNumbered' /\ RecDistinct' /\ NetNumbered'
  <2>1. \A x \in Peers : \A e \in send_reliable'[x].array :
            e.msg = e.packet_id + 1 /\ e.msg <= written'[x]
    <3> TAKE x \in Peers
    <3>1. CASE x # p
      BY <3>1, <1>0, <1>6 DEF SendNumbered
    <3>2. CASE x = p
      <4> TAKE e \in send_reliable'[x].array
      <4>1. CASE e \in send_reliable[p].array
        <5>1. e.msg = e.packet_id + 1 /\ e.msg <= written[p] /\ e.msg \in Nat
          BY <4>1, <1>0 DEF SendNumbered, Types, reliables, Entries
        <5> QED BY <5>1, <3>2, <1>6
      <4>2. CASE e = entry(written[p], op, written[p] + 1)
        BY <4>2, <3>2, <1>1, <1>4, <1>6
      <4> QED BY <4>1, <4>2, <3>2, <1>3, <1>6
    <3> QED BY <3>1, <3>2
  <2>2. \A x \in Peers : \A e \in rec_reliable[x].array : e.msg \in Nat
    BY <1>0 DEF Types, reliables, Entries
  <2>3. \A m \in net : m.msg \in Nat /\ m.to \in Peers
    BY <1>0 DEF Types, Packets
  <2>4. \A x \in Peers : MaxMessages[x] \in Nat
    BY DEF NoWrap
  <2>5. \A x \in Peers : written[x] <= written'[x]
    BY <1>6
  <2>6. \A x \in Peers :
          /\ send_reliable'[x].packet_id = written'[x]
          /\ written'[x] <= MaxMessages[x]
    <3>1. \A x \in Peers : send_reliable[x].packet_id = written[x] /\ written[x] <= MaxMessages[x]
      BY <1>0 DEF SendNumbered
    <3> QED BY <3>1, <1>1, <1>3, <1>6
  <2>7. \A x \in Peers :
          /\ rec_reliable'[x].packet_id = Len(delivered'[x])
          /\ Len(delivered'[x]) <= written'[Other(x)]
          /\ \A e \in rec_reliable'[x].array :
                /\ e.msg = e.packet_id + 1
                /\ Len(delivered'[x]) < e.msg
                /\ e.msg <= written'[Other(x)]
    <3> TAKE x \in Peers
    <3>1. /\ written[Other(x)] \in Nat /\ written'[Other(x)] \in Nat
          /\ written[Other(x)] <= written'[Other(x)]
      BY <1>6, <2>5
    <3>2. /\ rec_reliable[x].packet_id = Len(delivered[x])
          /\ Len(delivered[x]) <= written[Other(x)]
          /\ \A e \in rec_reliable[x].array :
                /\ e.msg = e.packet_id + 1
                /\ Len(delivered[x]) < e.msg
                /\ e.msg <= written[Other(x)]
      BY <1>0 DEF RecNumbered
    <3>3. rec_reliable' = rec_reliable /\ delivered' = delivered
      BY <1>1
    <3> QED BY <3>1, <3>2, <3>3, <1>6, <2>2
  <2>8. \A m \in net' : m.op # "P_ACK_V1" =>
            m.msg = m.packet_id + 1 /\ m.msg <= written'[Other(m.to)]
    BY <1>0, <1>1, <1>6, <2>3, <2>5 DEF NetNumbered
  <2>9. RecDistinct'
    BY <1>0, <1>1 DEF RecDistinct
  <2> QED BY <2>1, <2>6, <2>7, <2>8, <2>9 DEF SendNumbered, RecNumbered, RecDistinct, NetNumbered
<1>8. HonestAcks' /\ InOrder'
  BY <1>0, <1>1 DEF HonestAcks, InOrder, Received
<1>9. NothingForgotten'
  <2> SUFFICES ASSUME NEW x \in Peers, NEW k \in (Len(delivered[Other(x)]) + 1) .. written'[x]
               PROVE  \/ \E e \in send_reliable'[x].array : e.msg = k
                      \/ \E e \in rec_reliable[Other(x)].array : e.msg = k
    BY <1>1 DEF NothingForgotten
  <2>1. CASE k <= written[x]
    <3>1. k \in (Len(delivered[Other(x)]) + 1) .. written[x]
      BY <2>1, <1>6
    <3>2. \/ \E e \in send_reliable[x].array : e.msg = k
          \/ \E e \in rec_reliable[Other(x)].array : e.msg = k
      BY <3>1, <1>0 DEF NothingForgotten
    <3> QED BY <3>2, <1>3, <1>6
  <2>2. CASE k > written[x]
    <3>1. x = p /\ k = written[p] + 1
      BY <2>2, <1>6
    <3> QED BY <3>1, <1>3, <1>4, <1>6
  <2> QED BY <2>1, <2>2, <1>6
<1>10. Acquainted'
  <2>1. \A x \in Peers : written'[x] > 0 => known[x] \/ (\E e \in send_reliable'[x].array : e.msg = 1)
    <3> SUFFICES ASSUME NEW x \in Peers, written'[x] > 0, ~ known[x]
                 PROVE  \E e \in send_reliable'[x].array : e.msg = 1
      OBVIOUS
    <3>1. CASE written[x] > 0
      BY <3>1, <1>0, <1>3, <1>6 DEF Acquainted
    <3>2. CASE written[x] = 0
      BY <3>2, <1>3, <1>4, <1>6
    <3> QED BY <3>1, <3>2, <1>6
  <2>2. \A x \in Peers : state'[x] # "S_INITIAL" => written'[x] > 0
    <3> TAKE x \in Peers
    <3>1. CASE x = p
      BY <3>1, <1>6
    <3>2. CASE x # p
      BY <3>2, <1>0, <1>1, <1>6 DEF Acquainted, Types
    <3> QED BY <3>1, <3>2
  <2> QED BY <2>1, <2>2, <1>0, <1>1 DEF Acquainted
<1>11. HandshakeComplete'
  BY <1>0, <1>1 DEF HandshakeComplete, Types
<1> QED BY <1>5, <1>7, <1>8, <1>9, <1>10, <1>11 DEF IInv

\* The steps that move no message from one end to the other: they reschedule
\* entries, put packets into the network or take them out of it, and shorten
\* the list of acknowledgements.
Carries(m) ==
    \E p \in Peers :
        /\ m.to = Other(p)
        /\ \A pid \in m.acks : \E i \in 1 .. Len(rec_ack[p]) : rec_ack[p][i] = pid
        /\ m.op # "P_ACK_V1" =>
              \E e \in send_reliable[p].array : m.packet_id = e.packet_id /\ m.msg = e.msg

Shuffle ==
    /\ UNCHANGED <<rec_reliable, known, state, written, delivered>>
    /\ \A p \in Peers :
        /\ send_reliable'[p].packet_id = send_reliable[p].packet_id
        /\ \A e \in send_reliable'[p].array : \E f \in send_reliable[p].array :
              e.packet_id = f.packet_id /\ e.msg = f.msg
        /\ \A f \in send_reliable[p].array : \E e \in send_reliable'[p].array :
              e.packet_id = f.packet_id /\ e.msg = f.msg
        /\ \A i \in 1 .. Len(rec_ack'[p]) : \E j \in 1 .. Len(rec_ack[p]) :
              rec_ack'[p][i] = rec_ack[p][j]
    /\ \A m \in net' : m \in net \/ Carries(m)

\* Such steps keep the invariant.
LEMMA ShuffleIInv ==
  ASSUME IInv, Types', Shuffle
  PROVE  IInv'
<1>0. Types /\ SendNumbered /\ RecNumbered /\ RecDistinct /\ NetNumbered /\ HonestAcks /\ NothingForgotten
      /\ InOrder /\ Acquainted /\ HandshakeComplete
  BY DEF IInv
<1>1. UNCHANGED <<rec_reliable, known, state, written, delivered>>
  BY DEF Shuffle
<1>2. \A p \in Peers :
        /\ send_reliable'[p].packet_id = send_reliable[p].packet_id
        /\ \A e \in send_reliable'[p].array : \E f \in send_reliable[p].array :
              e.packet_id = f.packet_id /\ e.msg = f.msg
        /\ \A f \in send_reliable[p].array : \E e \in send_reliable'[p].array :
              e.packet_id = f.packet_id /\ e.msg = f.msg
  BY DEF Shuffle
<1>3. SendNumbered'
  BY <1>0, <1>1, <1>2 DEF SendNumbered
<1>4. RecNumbered' /\ RecDistinct' /\ InOrder' /\ HandshakeComplete'
  BY <1>0, <1>1 DEF RecNumbered, RecDistinct, InOrder, HandshakeComplete
<1>5. \A m \in net' : m \in net \/ Carries(m)
  BY DEF Shuffle
<1>6. NetNumbered'
  <2> SUFFICES ASSUME NEW m \in net', m.op # "P_ACK_V1"
               PROVE  m.msg = m.packet_id + 1 /\ m.msg <= written[Other(m.to)]
    BY <1>1 DEF NetNumbered
  <2>1. CASE m \in net
    BY <2>1, <1>0 DEF NetNumbered
  <2>2. CASE Carries(m)
    <3>1. PICK p \in Peers : m.to = Other(p) /\
                \E e \in send_reliable[p].array : m.packet_id = e.packet_id /\ m.msg = e.msg
      BY <2>2 DEF Carries
    <3>2. Other(m.to) = p
      BY <3>1, OtherPeer
    <3> QED BY <3>1, <3>2, <1>0 DEF SendNumbered
  <2> QED BY <2>1, <2>2, <1>5
<1>7. HonestAcks'
  <2>2. ASSUME NEW p \in Peers, NEW i \in 1 .. Len(rec_ack'[p])
        PROVE  Received(p, rec_ack[p][i])'
    <3>1. PICK j \in 1 .. Len(rec_ack[p]) : rec_ack'[p][i] = rec_ack[p][j]
      BY DEF Shuffle
    <3>2. Received(p, rec_ack[p][j])
      BY <1>0 DEF HonestAcks
    <3> QED BY <3>1, <3>2, <1>1 DEF Received
  <2>3. ASSUME NEW m \in net', NEW pid \in m.acks
        PROVE  Received(Other(m.to), pid)'
    <3>1. CASE m \in net
      <4>1. Received(Other(m.to), pid)
        BY <3>1, <1>0 DEF HonestAcks
      <4> QED BY <4>1, <1>1 DEF Received
    <3>2. CASE Carries(m)
      <4>1. PICK p \in Peers : m.to = Other(p) /\
                  \E i \in 1 .. Len(rec_ack[p]) : rec_ack[p][i] = pid
        BY <3>2 DEF Carries
      <4>2. Received(p, pid)
        BY <4>1, <1>0 DEF HonestAcks
      <4>3. Other(m.to) = p
        BY <4>1, OtherPeer
      <4> QED BY <4>2, <4>3, <1>1 DEF Received
    <3> QED BY <3>1, <3>2, <1>5
  <2>4. (\A p \in Peers : \A i \in 1 .. Len(rec_ack[p]) : Received(p, rec_ack[p][i]))'
    BY <2>2
  <2>5. (\A m \in net : \A pid \in m.acks : Received(Other(m.to), pid))'
    BY <2>3
  <2> QED BY <2>4, <2>5 DEF HonestAcks
<1>8. NothingForgotten'
  BY <1>0, <1>1, <1>2 DEF NothingForgotten
<1>9. Acquainted'
  BY <1>0, <1>1, <1>2 DEF Acquainted
<1> QED BY <1>3, <1>4, <1>6, <1>7, <1>8, <1>9 DEF IInv

\* Putting a packet into the network, with a loss when it is full.
LEMMA SendNet ==
  ASSUME NEW m, Send(m)
  PROVE  \A x \in net' : x \in net \/ x = m
  BY DEF Send

\* A transmission.
LEMMA TransmitIInv ==
  ASSUME IInv, NEW p \in Peers, Transmit(p)
  PROVE  IInv'
<1>0. Types
  BY DEF IInv
<1>1. PICK best \in lowest(due(send_reliable[p])) :
        /\ send_reliable' = [send_reliable EXCEPT ![p] = reliable_send(send_reliable[p], best)]
        /\ Send(control_v1(p, ack_record(rec_ack[p], CONTROL_SEND_ACK_MAX), best))
  BY <1>0 DEF Transmit, Types
<1>2. /\ rec_ack' = [rec_ack EXCEPT ![p] = ack_rest(rec_ack[p], CONTROL_SEND_ACK_MAX)]
      /\ UNCHANGED <<rec_reliable, known, state, written, delivered>>
  BY <1>0 DEF Transmit, Types
<1>3. best \in send_reliable[p].array /\ send_reliable[p] \in reliables /\ rec_ack[p] \in Seq(packet_id_type)
  BY <1>0, <1>1 DEF lowest, due, Types
<1>4. best \in Entries
  BY <1>3 DEF reliables
<1> DEFINE r == reliable_send(send_reliable[p], best)
           m == control_v1(p, ack_record(rec_ack[p], CONTROL_SEND_ACK_MAX), best)
<1>5. /\ r \in reliables
      /\ r.packet_id = send_reliable[p].packet_id
      /\ \A e \in r.array : \E f \in send_reliable[p].array :
            e.packet_id = f.packet_id /\ e.msg = f.msg
      /\ \A f \in send_reliable[p].array : \E e \in r.array :
            e.packet_id = f.packet_id /\ e.msg = f.msg
  BY <1>3, SendFields
<1>6. /\ ack_record(rec_ack[p], CONTROL_SEND_ACK_MAX) \in SUBSET packet_id_type
      /\ \A pid \in ack_record(rec_ack[p], CONTROL_SEND_ACK_MAX) :
            \E i \in 1 .. Len(rec_ack[p]) : rec_ack[p][i] = pid
      /\ ack_rest(rec_ack[p], CONTROL_SEND_ACK_MAX) \in Seq(packet_id_type)
      /\ \A i \in 1 .. Len(ack_rest(rec_ack[p], CONTROL_SEND_ACK_MAX)) :
            \E j \in 1 .. Len(rec_ack[p]) :
               ack_rest(rec_ack[p], CONTROL_SEND_ACK_MAX)[i] = rec_ack[p][j]
  BY <1>3, AckFields, BufferAssumption
<1>7. m \in Packets /\ Carries(m)
  <2>1. /\ m.to = Other(p) /\ m.op = best.opcode /\ m.msg = best.msg
        /\ m.packet_id = best.packet_id /\ m.acks = ack_record(rec_ack[p], CONTROL_SEND_ACK_MAX)
    BY DEF control_v1
  <2>2. m \in Packets
    BY <1>4, <1>6, OtherPeer DEF control_v1, Packets, Entries
  <2> QED BY <2>1, <2>2, <1>3, <1>6 DEF Carries
<1>8. \A x \in net' : x \in net \/ x = m
  BY <1>1, SendNet
<1> HIDE DEF r, m
<1>9. send_reliable' = [send_reliable EXCEPT ![p] = r]
  BY <1>1 DEF r
<1>10. Types'
  BY <1>0, <1>2, <1>5, <1>6, <1>7, <1>8, <1>9 DEF Types
<1>11. Shuffle
  <2>1. \A x \in Peers : send_reliable'[x] = IF x = p THEN r ELSE send_reliable[x]
    BY <1>0, <1>9 DEF Types
  <2>2. \A x \in Peers : rec_ack'[x] = IF x = p THEN ack_rest(rec_ack[p], CONTROL_SEND_ACK_MAX)
                                                ELSE rec_ack[x]
    BY <1>0, <1>2 DEF Types
  <2>3. \A x \in Peers : \A i \in 1 .. Len(rec_ack'[x]) : \E j \in 1 .. Len(rec_ack[x]) :
              rec_ack'[x][i] = rec_ack[x][j]
    BY <2>2, <1>6
  <2>4. \A x \in Peers :
        /\ send_reliable'[x].packet_id = send_reliable[x].packet_id
        /\ \A e \in send_reliable'[x].array : \E f \in send_reliable[x].array :
              e.packet_id = f.packet_id /\ e.msg = f.msg
        /\ \A f \in send_reliable[x].array : \E e \in send_reliable'[x].array :
              e.packet_id = f.packet_id /\ e.msg = f.msg
    BY <2>1, <1>5
  <2> QED BY <2>3, <2>4, <1>2, <1>7, <1>8 DEF Shuffle
<1> QED BY <1>10, <1>11, ShuffleIInv

\* A dedicated acknowledgement.
LEMMA SendAckIInv ==
  ASSUME IInv, NEW p \in Peers, SendAck(p)
  PROVE  IInv'
<1>0. Types
  BY DEF IInv
<1> DEFINE m == ack_v1(p, ack_record(rec_ack[p], RELIABLE_ACK_SIZE))
<1>1. /\ Send(m)
      /\ rec_ack' = [rec_ack EXCEPT ![p] = ack_rest(rec_ack[p], RELIABLE_ACK_SIZE)]
      /\ UNCHANGED <<send_reliable, rec_reliable, known, state, written, delivered>>
  BY <1>0 DEF SendAck, Types
<1>2. rec_ack[p] \in Seq(packet_id_type)
  BY <1>0 DEF Types
<1>3. /\ ack_record(rec_ack[p], RELIABLE_ACK_SIZE) \in SUBSET packet_id_type
      /\ \A pid \in ack_record(rec_ack[p], RELIABLE_ACK_SIZE) :
            \E i \in 1 .. Len(rec_ack[p]) : rec_ack[p][i] = pid
      /\ ack_rest(rec_ack[p], RELIABLE_ACK_SIZE) \in Seq(packet_id_type)
      /\ \A i \in 1 .. Len(ack_rest(rec_ack[p], RELIABLE_ACK_SIZE)) :
            \E j \in 1 .. Len(rec_ack[p]) :
               ack_rest(rec_ack[p], RELIABLE_ACK_SIZE)[i] = rec_ack[p][j]
  BY <1>2, AckFields, AckSizeAssumption
<1>4. m \in Packets /\ Carries(m)
  <2>1. m.to = Other(p) /\ m.op = "P_ACK_V1" /\ m.acks = ack_record(rec_ack[p], RELIABLE_ACK_SIZE)
    BY DEF ack_v1
  <2>2. 0 \in packet_id_type
    BY HalfFacts DEF packet_id_type
  <2>3. m \in Packets
    BY <1>3, <2>2, OtherPeer DEF ack_v1, Packets
  <2> QED BY <2>1, <2>3, <1>3 DEF Carries
<1>5. \A x \in net' : x \in net \/ x = m
  BY <1>1, SendNet
<1> HIDE DEF m
<1>6. Types'
  BY <1>0, <1>1, <1>3, <1>4, <1>5 DEF Types
<1>7. Shuffle
  <2>1. \A x \in Peers : rec_ack'[x] = IF x = p THEN ack_rest(rec_ack[p], RELIABLE_ACK_SIZE)
                                                ELSE rec_ack[x]
    BY <1>0, <1>1 DEF Types
  <2>2. \A x \in Peers : \A i \in 1 .. Len(rec_ack'[x]) : \E j \in 1 .. Len(rec_ack[x]) :
              rec_ack'[x][i] = rec_ack[x][j]
    BY <2>1, <1>3
  <2> QED BY <2>2, <1>1, <1>4, <1>5 DEF Shuffle
<1> QED BY <1>6, <1>7, ShuffleIInv

\* The clock.
LEMMA ExpireIInv ==
  ASSUME IInv, NEW p \in Peers, Expire(p)
  PROVE  IInv'
<1>0. Types
  BY DEF IInv
<1>1. PICK e \in send_reliable[p].array :
        /\ send_reliable' = [send_reliable EXCEPT ![p] = [send_reliable[p] EXCEPT
               !.array = (send_reliable[p].array \ {e}) \cup {[e EXCEPT !.due = TRUE]}]]
        /\ UNCHANGED <<rec_reliable, rec_ack, known, state, net, written, delivered>>
  BY <1>0 DEF Expire, Types, reliables
<1> DEFINE r == [send_reliable[p] EXCEPT
               !.array = (send_reliable[p].array \ {e}) \cup {[e EXCEPT !.due = TRUE]}]
<1>2. /\ send_reliable[p] \in reliables /\ e \in Entries
  BY <1>0, <1>1 DEF Types, reliables
<1>3. /\ [e EXCEPT !.due = TRUE] \in Entries
      /\ [e EXCEPT !.due = TRUE].packet_id = e.packet_id
      /\ [e EXCEPT !.due = TRUE].msg = e.msg
  BY <1>2 DEF Entries
<1>4. /\ r \in reliables
      /\ r.packet_id = send_reliable[p].packet_id
      /\ r.array = (send_reliable[p].array \ {e}) \cup {[e EXCEPT !.due = TRUE]}
  BY <1>2, <1>3 DEF reliables
<1> HIDE DEF r
<1>5. send_reliable' = [send_reliable EXCEPT ![p] = r]
  BY <1>1 DEF r
<1>6. Types'
  BY <1>0, <1>1, <1>4, <1>5 DEF Types
<1>7. Shuffle
  <2>1. \A x \in Peers : send_reliable'[x] = IF x = p THEN r ELSE send_reliable[x]
    BY <1>0, <1>5 DEF Types
  <2>2. \A x \in Peers :
        /\ send_reliable'[x].packet_id = send_reliable[x].packet_id
        /\ \A g \in send_reliable'[x].array : \E f \in send_reliable[x].array :
              g.packet_id = f.packet_id /\ g.msg = f.msg
        /\ \A f \in send_reliable[x].array : \E g \in send_reliable'[x].array :
              g.packet_id = f.packet_id /\ g.msg = f.msg
    <3> DEFINE d == [e EXCEPT !.due = TRUE]
    <3>1. /\ d.packet_id = e.packet_id /\ d.msg = e.msg /\ e \in send_reliable[p].array
          /\ r.array = (send_reliable[p].array \ {e}) \cup {d}
      BY <1>1, <1>3, <1>4
    <3> HIDE DEF d
    <3>2. /\ \A g \in r.array : \E f \in send_reliable[p].array :
                g.packet_id = f.packet_id /\ g.msg = f.msg
          /\ \A f \in send_reliable[p].array : \E g \in r.array :
                g.packet_id = f.packet_id /\ g.msg = f.msg
      BY <3>1
    <3>3. ASSUME NEW x \in Peers, x = p PROVE send_reliable'[x] = r
      BY <2>1, <3>3
    <3>4. ASSUME NEW x \in Peers, x # p PROVE send_reliable'[x] = send_reliable[x]
      BY <2>1, <3>4
    <3> QED BY <1>4, <3>2, <3>3, <3>4
  <2> QED BY <2>2, <1>1 DEF Shuffle
<1> QED BY <1>6, <1>7, ShuffleIInv

\* A loss, and a step of someone else.
LEMMA LoseIInv ==
  ASSUME IInv, Lose \/ UNCHANGED vars
  PROVE  IInv'
<1>1. /\ UNCHANGED <<send_reliable, rec_reliable, rec_ack, known, state, written, delivered>>
      /\ net' \subseteq net
  BY DEF Lose, vars
<1>2. Types'
  BY <1>1 DEF IInv, Types
<1>3. Shuffle
  BY <1>1 DEF Shuffle
<1> QED BY <1>2, <1>3, ShuffleIInv

\* S_PRE_START is left when the hard reset is acknowledged: then the other peer
\* has it, and this peer has heard from the other.
LEMMA StartIInv ==
  ASSUME IInv, NEW p \in Peers, Start(p)
  PROVE  IInv'
<1>0. Types /\ SendNumbered /\ RecNumbered /\ RecDistinct /\ NetNumbered /\ HonestAcks /\ NothingForgotten
      /\ InOrder /\ Acquainted /\ HandshakeComplete
  BY DEF IInv
<1>1. /\ state[p] = "S_PRE_START" /\ send_reliable[p].array = {}
      /\ state' = [state EXCEPT ![p] = "S_START"]
      /\ UNCHANGED <<send_reliable, rec_reliable, rec_ack, known, net, written, delivered>>
  BY DEF Start, FULL_SYNC, reliable_empty
<1>2. Types'
  BY <1>0, <1>1 DEF Types
<1>3. written[p] > 0 /\ written[p] \in Nat /\ Other(p) \in Peers /\ Len(delivered[Other(p)]) \in Nat
  BY <1>0, <1>1, OtherPeer DEF Acquainted, Types
<1>4. known[p]
  BY <1>0, <1>1, <1>3 DEF Acquainted
<1>5. known[Other(p)]
  <2>1. CASE Len(delivered[Other(p)]) > 0
    BY <2>1, <1>0, <1>3 DEF Acquainted
  <2>2. CASE Len(delivered[Other(p)]) = 0
    <3>1. 1 \in (Len(delivered[Other(p)]) + 1) .. written[p]
      BY <2>2, <1>3
    <3>2. \E e \in rec_reliable[Other(p)].array : e.msg = 1
      BY <3>1, <1>0, <1>1 DEF NothingForgotten
    <3> QED BY <3>2, <1>0, <1>3 DEF Acquainted
  <2> QED BY <2>1, <2>2, <1>3
<1>6. HandshakeComplete'
  <2> SUFFICES ASSUME NEW x \in Peers, state'[x] = "S_START"
               PROVE  known[x] /\ known[Other(x)]
    BY <1>1 DEF HandshakeComplete
  <2>1. CASE x = p
    BY <2>1, <1>4, <1>5
  <2>2. CASE x # p
    BY <2>2, <1>0, <1>1 DEF HandshakeComplete, Types
  <2> QED BY <2>1, <2>2
<1>7. Acquainted'
  BY <1>0, <1>1, <1>3 DEF Acquainted, Types
<1>8. SendNumbered' /\ RecNumbered' /\ RecDistinct' /\ NetNumbered' /\ HonestAcks' /\ NothingForgotten' /\ InOrder'
  BY <1>0, <1>1 DEF SendNumbered, RecNumbered, RecDistinct, NetNumbered, HonestAcks, Received, NothingForgotten, InOrder
<1> QED BY <1>2, <1>6, <1>7, <1>8 DEF IInv

\* A peer that gives up leaves everything but its state as it is.
LEMMA GiveUpIInv ==
  ASSUME IInv, NEW p \in Peers, GiveUp(p)
  PROVE  IInv'
<1>0. Types /\ SendNumbered /\ RecNumbered /\ RecDistinct /\ NetNumbered /\ HonestAcks /\ NothingForgotten
      /\ InOrder /\ Acquainted /\ HandshakeComplete
  BY DEF IInv
<1>1. /\ state[p] # "S_INITIAL" /\ state' = [state EXCEPT ![p] = "S_ERROR"]
      /\ UNCHANGED <<send_reliable, rec_reliable, rec_ack, known, net, written, delivered>>
  BY DEF GiveUp
<1>2. Types'
  BY <1>0, <1>1 DEF Types
<1>3. HandshakeComplete' /\ Acquainted'
  BY <1>0, <1>1 DEF HandshakeComplete, Acquainted, Types
<1>4. SendNumbered' /\ RecNumbered' /\ RecDistinct' /\ NetNumbered' /\ HonestAcks' /\ NothingForgotten' /\ InOrder'
  BY <1>0, <1>1 DEF SendNumbered, RecNumbered, RecDistinct, NetNumbered, HonestAcks, Received, NothingForgotten, InOrder
<1> QED BY <1>2, <1>3, <1>4 DEF IInv

\* A delivery to the TLS object.
LEMMA DeliverIInv ==
  ASSUME NoWrap, IInv, NEW p \in Peers, Deliver(p)
  PROVE  /\ IInv'
         /\ written' = written
         /\ delivered' = [delivered EXCEPT ![p] = Append(delivered[p], Len(delivered[p]) + 1)]
         /\ Len(delivered[p]) + 1 <= written[Other(p)]
<1>0. Types /\ SendNumbered /\ RecNumbered /\ RecDistinct /\ NetNumbered /\ HonestAcks
      /\ NothingForgotten /\ InOrder /\ Acquainted /\ HandshakeComplete
  BY DEF IInv
<1> DEFINE n == Len(delivered[p])
<1>1. PICK e \in rec_reliable[p].array :
        /\ e.packet_id = rec_reliable[p].packet_id
        /\ rec_reliable' = [rec_reliable EXCEPT ![p] = reliable_mark_deleted(rec_reliable[p], e)]
        /\ delivered' = [delivered EXCEPT ![p] = Append(delivered[p], e.msg)]
        /\ UNCHANGED <<send_reliable, rec_ack, known, state, net, written>>
  BY <1>0 DEF Deliver, reliable_get_buf_sequenced, Types
<1>2. /\ n \in Nat /\ e.packet_id = n /\ e.msg = n + 1 /\ n + 1 <= written[Other(p)]
      /\ Other(p) \in Peers /\ written[Other(p)] \in Nat
      /\ rec_reliable[p] \in reliables /\ delivered[p] \in Seq(Nat)
  BY <1>0, <1>1, OtherPeer DEF RecNumbered, Types
<1>3. n + 1 < PID_MOD
  <2>1. written[Other(p)] <= MaxMessages[Other(p)] /\ MaxMessages[Other(p)] < Half
        /\ MaxMessages[Other(p)] \in Nat
    BY <1>0, <1>2 DEF SendNumbered, NoWrap
  <2> QED BY <2>1, <1>2, HalfFacts
<1> DEFINE r == reliable_mark_deleted(rec_reliable[p], e)
<1>4. r \in reliables /\ r.array = rec_reliable[p].array \ {e} /\ r.packet_id = n + 1
  BY <1>1, <1>2, <1>3, DeletedFields
<1> HIDE DEF r
<1>5. rec_reliable' = [rec_reliable EXCEPT ![p] = r]
  BY <1>1 DEF r
<1>6. /\ Append(delivered[p], n + 1) \in Seq(Nat)
      /\ Len(Append(delivered[p], n + 1)) = n + 1
      /\ \A i \in 1 .. n : Append(delivered[p], n + 1)[i] = delivered[p][i]
      /\ Append(delivered[p], n + 1)[n + 1] = n + 1
  BY <1>2
<1>7. \A x \in Peers :
        /\ rec_reliable'[x] = (IF x = p THEN r ELSE rec_reliable[x])
        /\ delivered'[x] = (IF x = p THEN Append(delivered[p], n + 1) ELSE delivered[x])
        /\ Len(delivered[x]) \in Nat
        /\ Len(delivered'[x]) = (IF x = p THEN n + 1 ELSE Len(delivered[x]))
        /\ written[x] \in Nat
        /\ Other(x) \in Peers
  BY <1>0, <1>1, <1>2, <1>5, <1>6, OtherPeer DEF Types
<1> HIDE DEF n
<1>8. Types'
  <2>1. rec_reliable' \in [Peers -> reliables]
    BY <1>0, <1>4, <1>5 DEF Types
  <2>2. delivered' \in [Peers -> Seq(Nat)]
    BY <1>0, <1>1, <1>2, <1>6 DEF Types
  <2> QED BY <2>1, <2>2, <1>0, <1>1 DEF Types
<1>9. \A f \in r.array : f \in rec_reliable[p].array /\ f.msg \in Nat /\ f.msg > n + 1 /\
         f.msg = f.packet_id + 1 /\ f.msg <= written[Other(p)]
  <2> TAKE f \in r.array
  <2>1. f \in rec_reliable[p].array /\ f # e
    BY <1>4
  <2>2. /\ f.msg = f.packet_id + 1 /\ f.msg > n /\ f.msg <= written[Other(p)]
        /\ f.msg \in Nat /\ f.packet_id \in Nat
    BY <2>1, <1>0, HalfFacts DEF RecNumbered, Types, reliables, Entries, packet_id_type, n
  <2>3. f.packet_id # e.packet_id
    BY <2>1, <1>0, <1>1 DEF RecDistinct
  <2> QED BY <2>1, <2>2, <2>3, <1>2
<1>10. RecNumbered'
  <2> SUFFICES ASSUME NEW x \in Peers
               PROVE  /\ rec_reliable'[x].packet_id = Len(delivered'[x])
                      /\ Len(delivered'[x]) <= written[Other(x)]
                      /\ \A f \in rec_reliable'[x].array :
                            /\ f.msg = f.packet_id + 1
                            /\ Len(delivered'[x]) < f.msg
                            /\ f.msg <= written[Other(x)]
    BY <1>1 DEF RecNumbered
  <2>1. CASE x = p
    BY <2>1, <1>2, <1>4, <1>7, <1>9
  <2>2. CASE x # p
    BY <2>2, <1>0, <1>7 DEF RecNumbered
  <2> QED BY <2>1, <2>2
<1>11. RecDistinct'
  <2> SUFFICES ASSUME NEW x \in Peers, NEW f \in rec_reliable'[x].array, NEW g \in rec_reliable'[x].array,
                      f.packet_id = g.packet_id
               PROVE  f = g
    BY DEF RecDistinct
  <2>1. f \in rec_reliable[x].array /\ g \in rec_reliable[x].array
    BY <1>4, <1>7
  <2> QED BY <2>1, <1>0 DEF RecDistinct
<1>12. SendNumbered' /\ NetNumbered' /\ HandshakeComplete'
  BY <1>0, <1>1 DEF SendNumbered, NetNumbered, HandshakeComplete
<1>13. HonestAcks'
  <2>1. ASSUME NEW x \in Peers, NEW pid \in packet_id_type, Received(x, pid)
        PROVE  Received(x, pid)'
    <3>0. pid \in Nat
      BY HalfFacts DEF packet_id_type
    <3>1. CASE pid < Len(delivered[x])
      <4>1. pid < Len(delivered'[x])
        BY <3>0, <3>1, <1>2, <1>7 DEF n
      <4> QED BY <4>1 DEF Received
    <3>2. CASE \E f \in rec_reliable[x].array : f.packet_id = pid
      <4>1. PICK f \in rec_reliable[x].array : f.packet_id = pid
        BY <3>2
      <4>2. CASE x = p /\ f = e
        <5>1. pid < Len(delivered'[x])
          BY <4>1, <4>2, <1>2, <1>7
        <5> QED BY <5>1 DEF Received
      <4>3. CASE ~ (x = p /\ f = e)
        <5>1. f \in rec_reliable'[x].array
          BY <4>1, <4>3, <1>4, <1>7
        <5> QED BY <4>1, <5>1 DEF Received
      <4> QED BY <4>2, <4>3
    <3> QED BY <2>1, <3>1, <3>2 DEF Received
  <2>2. ASSUME NEW x \in Peers, NEW i \in 1 .. Len(rec_ack[x])
        PROVE  Received(x, rec_ack[x][i])'
    <3>1. rec_ack[x][i] \in packet_id_type /\ Received(x, rec_ack[x][i])
      BY <1>0 DEF HonestAcks, Types
    <3>2. rec_ack' = rec_ack
      BY <1>1
    <3>3. \A pid \in packet_id_type : Received(x, pid) => Received(x, pid)'
      BY <2>1
    <3> QED BY <3>1, <3>2, <3>3 DEF Received
  <2>3. ASSUME NEW m \in net, NEW pid \in m.acks
        PROVE  Received(Other(m.to), pid)'
    <3>1. m.to \in Peers /\ pid \in packet_id_type /\ Received(Other(m.to), pid)
      BY <1>0 DEF HonestAcks, Types, Packets
    <3> QED BY <3>1, <2>1, <1>7
  <2>4. (\A x \in Peers : \A i \in 1 .. Len(rec_ack[x]) : Received(x, rec_ack[x][i]))'
    BY <2>2, <1>1
  <2>5. (\A m \in net : \A pid \in m.acks : Received(Other(m.to), pid))'
    BY <2>3, <1>1
  <2> QED BY <2>4, <2>5 DEF HonestAcks
<1>14. NothingForgotten'
  <2> SUFFICES ASSUME NEW x \in Peers, NEW k \in (Len(delivered'[Other(x)]) + 1) .. written[x]
               PROVE  \/ \E f \in send_reliable[x].array : f.msg = k
                      \/ \E f \in rec_reliable'[Other(x)].array : f.msg = k
    BY <1>1 DEF NothingForgotten
  <2>1. k \in (Len(delivered[Other(x)]) + 1) .. written[x]
    BY <1>2, <1>7, SMTT(60) DEF n
  <2>2. CASE \E f \in send_reliable[x].array : f.msg = k
    BY <2>2
  <2>3. CASE \E f \in rec_reliable[Other(x)].array : f.msg = k
    <3>1. PICK f \in rec_reliable[Other(x)].array : f.msg = k
      BY <2>3
    <3>2. CASE Other(x) = p
      <4>1. k # n + 1
        BY <3>2, <1>2, <1>7
      <4> QED BY <3>1, <3>2, <4>1, <1>2, <1>4, <1>7
    <3>3. CASE Other(x) # p
      BY <3>1, <3>3, <1>7
    <3> QED BY <3>2, <3>3
  <2> QED BY <2>1, <2>2, <2>3, <1>0 DEF NothingForgotten
<1>15. InOrder'
  <2> SUFFICES ASSUME NEW x \in Peers, NEW i \in 1 .. Len(delivered'[x])
               PROVE  delivered'[x][i] = i
    BY DEF InOrder
  <2>1. CASE x # p
    BY <2>1, <1>0, <1>7 DEF InOrder
  <2>2. CASE x = p
    <3>1. CASE i = n + 1
      BY <2>2, <3>1, <1>6, <1>7
    <3>2. CASE i \in 1 .. n
      BY <2>2, <3>2, <1>0, <1>6, <1>7 DEF InOrder, n
    <3> QED BY <3>1, <3>2, <2>2, <1>2, <1>7
  <2> QED BY <2>1, <2>2
<1>16. Acquainted'
  <2>1. known[p]
    BY <1>0, <1>1 DEF Acquainted
  <2>2. \A x \in Peers : (rec_reliable'[x].array # {} \/ Len(delivered'[x]) > 0) => known[x]
    BY <2>1, <1>0, <1>7 DEF Acquainted
  <2>3. UNCHANGED <<send_reliable, known, state, written>>
    BY <1>1
  <2> QED BY <2>2, <2>3, <1>0 DEF Acquainted
<1>17. IInv'
  BY <1>8, <1>10, <1>11, <1>12, <1>13, <1>14, <1>15, <1>16 DEF IInv
<1> QED BY <1>17, <1>1, <1>2 DEF n

\* What a routable packet m does to the receive side of its addressee.
Taken(m) ==
    LET p == m.to
    IN  /\ rec_reliable' \in [Peers -> reliables]
        /\ rec_ack' \in [Peers -> Seq(packet_id_type)]
        /\ \A x \in Peers \ {p} : rec_reliable'[x] = rec_reliable[x] /\ rec_ack'[x] = rec_ack[x]
        /\ rec_reliable'[p].packet_id = rec_reliable[p].packet_id
        /\ \/ rec_reliable'[p].array = rec_reliable[p].array
           \/ /\ m.op # "P_ACK_V1"
              /\ rec_reliable'[p].array = rec_reliable[p].array \cup {entry(m.packet_id, m.op, m.msg)}
              /\ rec_reliable[p].packet_id <= m.packet_id
              /\ m.packet_id \notin active_ids(rec_reliable[p])
        /\ \A i \in 1 .. Len(rec_ack'[p]) :
              \/ \E j \in 1 .. Len(rec_ack[p]) : rec_ack'[p][i] = rec_ack[p][j]
              \/ /\ rec_ack'[p][i] = m.packet_id
                 /\ \/ m.packet_id < rec_reliable[p].packet_id
                    \/ \E e \in rec_reliable'[p].array : e.packet_id = m.packet_id

\* A packet id is stored or recognised as a replay before it is acknowledged.
LEMMA AcceptTakes ==
  ASSUME NoWrap, IInv, NEW m \in net,
         IF m.op = "P_ACK_V1" THEN UNCHANGED <<rec_reliable, rec_ack>> ELSE Accept(m.to, m)
  PROVE  Taken(m)
<1>0. Types /\ SendNumbered /\ RecNumbered /\ NetNumbered
  BY DEF IInv
<1> DEFINE p == m.to
           rel == rec_reliable[p]
<1>1. /\ m \in Packets /\ p \in Peers /\ m.packet_id \in packet_id_type /\ m.msg \in Nat
      /\ rel \in reliables /\ rec_ack[p] \in Seq(packet_id_type) /\ Other(p) \in Peers
  BY <1>0, OtherPeer DEF Types, Packets
<1>2. CASE m.op = "P_ACK_V1"
  <2>1. rec_reliable' = rec_reliable /\ rec_ack' = rec_ack
    BY <1>2
  <2>2. \A i \in 1 .. Len(rec_ack[p]) : \E j \in 1 .. Len(rec_ack[p]) : rec_ack[p][i] = rec_ack[p][j]
    OBVIOUS
  <2> QED BY <2>1, <2>2, <1>0 DEF Taken, Types
<1>3. CASE m.op # "P_ACK_V1"
  <2> DEFINE taken == reliable_can_get(rel) /\ reliable_wont_break_sequentiality(rel, m.packet_id)
             r == IF taken /\ reliable_not_replay(rel, m.packet_id)
                  THEN reliable_mark_active_incoming(rel, m.packet_id, m.op, m.msg) ELSE rel
             a == IF taken THEN reliable_ack_acknowledge_packet_id(rec_ack[p], m.packet_id)
                  ELSE rec_ack[p]
  <2>1. rec_reliable' = [rec_reliable EXCEPT ![p] = r] /\ rec_ack' = [rec_ack EXCEPT ![p] = a]
    BY <1>0, <1>1, <1>3 DEF Accept, Types
  <2>2. m.op \in opcodes
    BY <1>1, <1>3 DEF Packets
  <2>3. /\ m.packet_id \in 0 .. (Half - 1)
        /\ rel.packet_id \in 0 .. (Half - 1)
    <3>1. /\ m.msg = m.packet_id + 1 /\ m.msg <= written[Other(p)]
          /\ rel.packet_id = Len(delivered[p]) /\ Len(delivered[p]) <= written[Other(p)]
          /\ written[Other(p)] <= MaxMessages[Other(p)] /\ MaxMessages[Other(p)] < Half
          /\ MaxMessages[Other(p)] \in Nat /\ written[Other(p)] \in Nat
          /\ Len(delivered[p]) \in Nat
      BY <1>0, <1>1, <1>3 DEF NetNumbered, RecNumbered, SendNumbered, NoWrap, Types
    <3>2. m.packet_id \in Nat
      BY <1>1, HalfFacts DEF packet_id_type
    <3> QED BY <3>1, <3>2, HalfFacts
  <2>4. reliable_pid_min(m.packet_id, rel.packet_id) <=> m.packet_id < rel.packet_id
    BY <2>3, PidMin
  <2>5. /\ r \in reliables /\ r.packet_id = rel.packet_id
        /\ \/ r.array = rel.array
           \/ /\ r.array = rel.array \cup {entry(m.packet_id, m.op, m.msg)}
              /\ rel.packet_id <= m.packet_id
              /\ m.packet_id \notin active_ids(rel)
    <3>1. LET s == reliable_mark_active_incoming(rel, m.packet_id, m.op, m.msg)
          IN  /\ s \in reliables /\ s.packet_id = rel.packet_id
              /\ s.array = rel.array \cup {entry(m.packet_id, m.op, m.msg)}
      BY <1>1, <2>2, IncomingFields
    <3>2. reliable_not_replay(rel, m.packet_id) =>
             rel.packet_id <= m.packet_id /\ m.packet_id \notin active_ids(rel)
      BY <2>3, <2>4, HalfFacts DEF reliable_not_replay
    <3> QED BY <3>1, <3>2, <1>1
  <2>6. taken => \/ m.packet_id < rel.packet_id
                 \/ \E e \in r.array : e.packet_id = m.packet_id
    <3> SUFFICES ASSUME taken PROVE \/ m.packet_id < rel.packet_id
                                    \/ \E e \in r.array : e.packet_id = m.packet_id
      OBVIOUS
    <3>1. CASE reliable_not_replay(rel, m.packet_id)
      <4>1. r.array = rel.array \cup {entry(m.packet_id, m.op, m.msg)}
        BY <3>1, <1>1, <2>2, IncomingFields
      <4>2. entry(m.packet_id, m.op, m.msg).packet_id = m.packet_id
        BY DEF entry
      <4> QED BY <4>1, <4>2
    <3>2. CASE ~ reliable_not_replay(rel, m.packet_id)
      BY <3>2, <2>4 DEF reliable_not_replay, active_ids
    <3> QED BY <3>1, <3>2
  <2>7. a \in Seq(packet_id_type) /\
        \A i \in 1 .. Len(a) : \/ \E j \in 1 .. Len(rec_ack[p]) : a[i] = rec_ack[p][j]
                               \/ a[i] = m.packet_id /\ taken
    <3>1. Append(rec_ack[p], m.packet_id) \in Seq(packet_id_type) /\
          \A i \in 1 .. Len(Append(rec_ack[p], m.packet_id)) :
             \/ i \in 1 .. Len(rec_ack[p]) /\ Append(rec_ack[p], m.packet_id)[i] = rec_ack[p][i]
             \/ Append(rec_ack[p], m.packet_id)[i] = m.packet_id
      BY <1>1
    <3> QED BY <3>1, <1>1 DEF reliable_ack_acknowledge_packet_id
  <2> HIDE DEF r, a, taken
  <2>8. rec_reliable' \in [Peers -> reliables] /\ rec_ack' \in [Peers -> Seq(packet_id_type)]
    BY <1>0, <2>1, <2>5, <2>7 DEF Types
  <2>9. /\ rec_reliable'[p] = r /\ rec_ack'[p] = a
        /\ \A x \in Peers \ {p} : rec_reliable'[x] = rec_reliable[x] /\ rec_ack'[x] = rec_ack[x]
    BY <1>0, <1>1, <2>1 DEF Types
  <2>10. \A i \in 1 .. Len(a) :
              \/ \E j \in 1 .. Len(rec_ack[p]) : a[i] = rec_ack[p][j]
              \/ /\ a[i] = m.packet_id
                 /\ \/ m.packet_id < rel.packet_id
                    \/ \E e \in r.array : e.packet_id = m.packet_id
    BY <2>6, <2>7
  <2> HIDE DEF rel
  <2> QED BY <1>3, <2>5, <2>8, <2>9, <2>10 DEF Taken, rel
<1> QED BY <1>2, <1>3

\* What it does to the send side.
LEMMA AcknowledgedFields ==
  ASSUME Types, NEW m \in net
  PROVE  LET r == Acknowledged(m.to, m)
             rel == send_reliable[m.to]
         IN  /\ r \in reliables
             /\ r.packet_id = rel.packet_id
             /\ \A e \in r.array : \E f \in rel.array : e.packet_id = f.packet_id /\ e.msg = f.msg
             /\ \A f \in rel.array : f.packet_id \notin m.acks =>
                   \E e \in r.array : e.packet_id = f.packet_id /\ e.msg = f.msg
<1> DEFINE rel == send_reliable[m.to]
           b == IF known[m.to] THEN rel ELSE reliable_schedule_now(rel)
<1>1. rel \in reliables /\ m.acks \in SUBSET packet_id_type
  BY DEF Types, Packets
<1>2. /\ b \in reliables
      /\ b.packet_id = rel.packet_id
      /\ \A e \in b.array : \E f \in rel.array : e.packet_id = f.packet_id /\ e.msg = f.msg
      /\ \A f \in rel.array : \E e \in b.array : e.packet_id = f.packet_id /\ e.msg = f.msg
  BY <1>1, ScheduleFields
<1>3. Acknowledged(m.to, m) = reliable_send_purge(b, m.acks)
  BY DEF Acknowledged
<1> HIDE DEF b
<1>4. LET r == reliable_send_purge(b, m.acks)
      IN  /\ r \in reliables /\ r.packet_id = b.packet_id
          /\ r.array = {e \in b.array : e.packet_id \notin m.acks}
  BY <1>1, <1>2, PurgeFields
<1> QED BY <1>2, <1>3, <1>4

\* A packet is received, or ignored.
LEMMA ReceiveIInv ==
  ASSUME NoWrap, IInv, NEW m \in net, Receive(m)
  PROVE  IInv'
<1>0. Types /\ SendNumbered /\ RecNumbered /\ RecDistinct /\ NetNumbered /\ HonestAcks
      /\ NothingForgotten /\ InOrder /\ Acquainted /\ HandshakeComplete
  BY DEF IInv
<1> DEFINE p == m.to
           q == Other(m.to)
<1>1. net' \subseteq net /\ UNCHANGED <<state, written, delivered>>
  BY DEF Receive
<1>2. p \in Peers /\ q \in Peers /\ Other(q) = p /\ p # q /\ m \in Packets
  BY <1>0, OtherPeer DEF Types, Packets
<1>3. CASE ~ (InUse(p) /\ (known[p] \/ m.op = "HARD_RESET"))
  <2>1. UNCHANGED <<known, send_reliable, rec_reliable, rec_ack>>
    BY <1>3 DEF Receive
  <2>2. Types'
    BY <2>1, <1>0, <1>1 DEF Types
  <2>3. Shuffle
    BY <2>1, <1>1 DEF Shuffle
  <2> QED BY <2>2, <2>3, ShuffleIInv
<1>4. CASE InUse(p) /\ (known[p] \/ m.op = "HARD_RESET")
  <2> DEFINE r == Acknowledged(m.to, m)
  <2>1. /\ known' = [known EXCEPT ![p] = TRUE]
        /\ send_reliable' = [send_reliable EXCEPT ![p] = r]
        /\ IF m.op = "P_ACK_V1" THEN UNCHANGED <<rec_reliable, rec_ack>> ELSE Accept(m.to, m)
    BY <1>4 DEF Receive
  <2>2. Taken(m)
    BY <2>1, AcceptTakes
  <2>3. /\ r \in reliables
        /\ r.packet_id = send_reliable[p].packet_id
        /\ \A e \in r.array : \E f \in send_reliable[p].array :
              e.packet_id = f.packet_id /\ e.msg = f.msg
        /\ \A f \in send_reliable[p].array : f.packet_id \notin m.acks =>
              \E e \in r.array : e.packet_id = f.packet_id /\ e.msg = f.msg
    BY <1>0, AcknowledgedFields
  <2> HIDE DEF r
  <2>4. /\ rec_reliable' \in [Peers -> reliables] /\ rec_ack' \in [Peers -> Seq(packet_id_type)]
        /\ rec_reliable'[q] = rec_reliable[q] /\ rec_ack'[q] = rec_ack[q]
        /\ rec_reliable'[p].packet_id = rec_reliable[p].packet_id
        /\ \/ rec_reliable'[p].array = rec_reliable[p].array
           \/ /\ m.op # "P_ACK_V1"
              /\ rec_reliable'[p].array = rec_reliable[p].array \cup {entry(m.packet_id, m.op, m.msg)}
              /\ rec_reliable[p].packet_id <= m.packet_id
              /\ m.packet_id \notin active_ids(rec_reliable[p])
    BY <2>2, <1>2 DEF Taken
  <2>5. Types'
    BY <2>1, <2>3, <2>4, <1>0, <1>1 DEF Types
  <2>6. /\ send_reliable'[p] = r /\ send_reliable'[q] = send_reliable[q]
        /\ known'[p] = TRUE /\ known'[q] = known[q]
        /\ \A x \in Peers : x = p \/ x = q
    BY <2>1, <1>0, <1>2, OtherPeer DEF Types, Peers
  <2>7. /\ entry(m.packet_id, m.op, m.msg).packet_id = m.packet_id
        /\ entry(m.packet_id, m.op, m.msg).msg = m.msg
    BY DEF entry
  <2>8. rec_reliable[p].array \subseteq rec_reliable'[p].array
    BY <2>4
  <2>9. SendNumbered'
    <3>1. \A e \in r.array : e.msg = e.packet_id + 1 /\ e.msg <= written[p]
      BY <2>3, <1>0, <1>2 DEF SendNumbered
    <3>2. r.packet_id = written[p] /\ written[p] <= MaxMessages[p]
      BY <2>3, <1>0, <1>2 DEF SendNumbered
    <3>3. send_reliable[q].packet_id = written[q] /\ written[q] <= MaxMessages[q] /\
          \A e \in send_reliable[q].array : e.msg = e.packet_id + 1 /\ e.msg <= written[q]
      BY <1>0, <1>2 DEF SendNumbered
    <3> QED BY <3>1, <3>2, <3>3, <2>6, <1>1 DEF SendNumbered
  <2>10. RecNumbered'
    <3>1. \A x \in Peers : /\ rec_reliable[x].packet_id = Len(delivered[x])
                           /\ Len(delivered[x]) <= written[Other(x)]
                           /\ \A e \in rec_reliable[x].array :
                                 /\ e.msg = e.packet_id + 1
                                 /\ Len(delivered[x]) < e.msg
                                 /\ e.msg <= written[Other(x)]
      BY <1>0 DEF RecNumbered
    <3>2. m.op # "P_ACK_V1" => m.msg = m.packet_id + 1 /\ m.msg <= written[q]
      BY <1>0 DEF NetNumbered
    <3>3. m.packet_id \in Nat /\ Len(delivered[p]) \in Nat
      BY <1>0, <1>2, HalfFacts DEF Types, Packets, packet_id_type
    <3>4. \A e \in rec_reliable'[p].array : /\ e.msg = e.packet_id + 1
                                            /\ Len(delivered[p]) < e.msg
                                            /\ e.msg <= written[q]
      <4> TAKE e \in rec_reliable'[p].array
      <4>1. CASE e \in rec_reliable[p].array
        BY <4>1, <3>1, <1>2
      <4>2. CASE e \notin rec_reliable[p].array
        <5>1. /\ e = entry(m.packet_id, m.op, m.msg) /\ m.op # "P_ACK_V1"
              /\ rec_reliable[p].packet_id <= m.packet_id
          BY <4>2, <2>4
        <5> QED BY <5>1, <3>1, <3>2, <3>3, <2>7, <1>2
      <4> QED BY <4>1, <4>2
    <3> QED BY <3>1, <3>4, <2>4, <2>6, <1>1, <1>2 DEF RecNumbered
  <2>11. RecDistinct'
    <3> SUFFICES ASSUME NEW x \in Peers, NEW e \in rec_reliable'[x].array,
                        NEW f \in rec_reliable'[x].array, e.packet_id = f.packet_id
                 PROVE  e = f
      BY DEF RecDistinct
    <3>1. CASE x = q
      BY <3>1, <2>4, <1>0, <1>2 DEF RecDistinct
    <3>2. CASE x = p
      <4>1. CASE e \in rec_reliable[p].array /\ f \in rec_reliable[p].array
        BY <4>1, <1>0, <1>2 DEF RecDistinct
      <4>2. CASE ~ (e \in rec_reliable[p].array /\ f \in rec_reliable[p].array)
        BY <4>2, <3>2, <2>4, <2>7 DEF active_ids
      <4> QED BY <4>1, <4>2
    <3> QED BY <3>1, <3>2, <2>6
  <2>12. NetNumbered' /\ InOrder'
    BY <1>0, <1>1 DEF NetNumbered, InOrder
  <2>13. HandshakeComplete'
    BY <2>6, <1>0, <1>1, <1>2 DEF HandshakeComplete
  <2>14. \A x \in Peers : rec_reliable[x].array \subseteq rec_reliable'[x].array
    BY <2>4, <2>6, <2>8
  <2>15. HonestAcks'
    <3>1. ASSUME NEW x \in Peers, NEW i \in 1 .. Len(rec_ack'[x])
          PROVE  Received(x, rec_ack[x][i])'
      <4>1. CASE \E j \in 1 .. Len(rec_ack[x]) : rec_ack'[x][i] = rec_ack[x][j]
        <5>1. PICK j \in 1 .. Len(rec_ack[x]) : rec_ack'[x][i] = rec_ack[x][j]
          BY <4>1
        <5>2. Received(x, rec_ack[x][j])
          BY <1>0 DEF HonestAcks
        <5> QED BY <5>1, <5>2, <1>1, <2>14 DEF Received
      <4>2. CASE x = p /\ ~ \E j \in 1 .. Len(rec_ack[x]) : rec_ack'[x][i] = rec_ack[x][j]
        <5>1. /\ rec_ack'[p][i] = m.packet_id
              /\ \/ m.packet_id < rec_reliable[p].packet_id
                 \/ \E e \in rec_reliable'[p].array : e.packet_id = m.packet_id
          BY <4>2, <2>2 DEF Taken
        <5>2. rec_reliable[p].packet_id = Len(delivered[p])
          BY <1>0, <1>2 DEF RecNumbered
        <5> QED BY <4>2, <5>1, <5>2, <1>1 DEF Received
      <4>3. CASE x = q
        BY <4>1, <4>3, <2>4
      <4> QED BY <4>1, <4>2, <4>3, <2>6
    <3>2. ASSUME NEW n \in net', NEW pid \in n.acks
          PROVE  Received(Other(n.to), pid)'
      <4>1. Received(Other(n.to), pid) /\ Other(n.to) \in Peers
        BY <1>0, <1>1, OtherPeer DEF HonestAcks, Types, Packets
      <4> QED BY <4>1, <1>1, <2>14 DEF Received
    <3>3. (\A x \in Peers : \A i \in 1 .. Len(rec_ack[x]) : Received(x, rec_ack[x][i]))'
      BY <3>1
    <3>4. (\A n \in net : \A pid \in n.acks : Received(Other(n.to), pid))'
      BY <3>2
    <3> QED BY <3>3, <3>4 DEF HonestAcks
  <2>16. NothingForgotten'
    <3> SUFFICES ASSUME NEW x \in Peers, NEW k \in (Len(delivered[Other(x)]) + 1) .. written[x]
                 PROVE  \/ \E e \in send_reliable'[x].array : e.msg = k
                        \/ \E e \in rec_reliable'[Other(x)].array : e.msg = k
      BY <1>1 DEF NothingForgotten
    <3>1. CASE \E e \in rec_reliable[Other(x)].array : e.msg = k
      BY <3>1, <2>14, OtherPeer
    <3>2. CASE \E e \in send_reliable[x].array : e.msg = k
      <4>1. PICK f \in send_reliable[x].array : f.msg = k
        BY <3>2
      <4>2. CASE x = q
        BY <4>1, <4>2, <2>6
      <4>3. CASE x = p /\ f.packet_id \notin m.acks
        BY <4>1, <4>3, <2>3, <2>6
      <4>4. CASE x = p /\ f.packet_id \in m.acks
        <5>1. Received(q, f.packet_id)
          BY <4>4, <1>0 DEF HonestAcks
        <5>2. f.msg = f.packet_id + 1 /\ f.packet_id \in Nat /\ Len(delivered[q]) \in Nat
          <6>1. f \in send_reliable[p].array /\ send_reliable[p] \in reliables
            BY <4>1, <4>4, <1>0, <1>2 DEF Types
          <6>2. f.packet_id \in packet_id_type
            BY <6>1 DEF reliables, Entries
          <6>3. f.packet_id \in Nat
            BY <6>2, HalfFacts DEF packet_id_type
          <6>4. f.msg = f.packet_id + 1
            BY <6>1, <1>0, <1>2 DEF SendNumbered
          <6>5. Len(delivered[q]) \in Nat
            BY <1>0, <1>2 DEF Types
          <6> QED BY <6>3, <6>4, <6>5
        <5>3. ~ (f.packet_id < Len(delivered[q]))
          BY <4>1, <4>4, <5>2
        <5>4. PICK e \in rec_reliable[q].array : e.packet_id = f.packet_id
          BY <5>1, <5>3 DEF Received
        <5>5. e.msg = e.packet_id + 1
          BY <5>4, <1>0, <1>2 DEF RecNumbered
        <5>6. e.msg = k /\ q = Other(x)
          BY <4>1, <4>4, <5>2, <5>4, <5>5
        <5> QED BY <5>4, <5>6, <2>14, <1>2
      <4> QED BY <4>2, <4>3, <4>4, <2>6
    <3> QED BY <3>1, <3>2, <1>0 DEF NothingForgotten
  <2>17. Acquainted'
    <3>1. \A x \in Peers : (rec_reliable'[x].array # {} \/ Len(delivered[x]) > 0) => known'[x]
      BY <2>4, <2>6, <1>0, <1>2 DEF Acquainted
    <3>2. \A x \in Peers : written[x] > 0 =>
             known'[x] \/ (\E e \in send_reliable'[x].array : e.msg = 1)
      BY <2>6, <1>0, <1>2 DEF Acquainted
    <3> QED BY <3>1, <3>2, <1>0, <1>1 DEF Acquainted
  <2> QED BY <2>5, <2>9, <2>10, <2>11, <2>12, <2>13, <2>15, <2>16, <2>17 DEF IInv
<1> QED BY <1>3, <1>4

----------------------------------------------------------------------------
(* The windows.                                                            *)

SizesFixed ==
    \A p \in Peers : /\ send_reliable[p].size = TLS_RELIABLE_N_SEND_BUFFERS
                     /\ rec_reliable[p].size = TLS_RELIABLE_N_REC_BUFFERS

\* What waits for an acknowledgement is within the send window.
SendWindow ==
    \A p \in Peers : \A e \in send_reliable[p].array :
        written[p] - e.packet_id <= TLS_RELIABLE_N_SEND_BUFFERS

\* What waits for delivery is within the receive window.
RecWindow ==
    \A p \in Peers : \A e \in rec_reliable[p].array :
        e.packet_id < rec_reliable[p].packet_id + TLS_RELIABLE_N_REC_BUFFERS

Windows == SizesFixed /\ SendWindow /\ RecWindow

\* No operation changes the size of an array.
LEMMA SizeKept ==
  ASSUME NEW rel \in reliables
  PROVE  /\ \A e : reliable_send(rel, e).size = rel.size
         /\ reliable_schedule_now(rel).size = rel.size
         /\ \A acks : reliable_send_purge(rel, acks).size = rel.size
         /\ \A id, op, msg : reliable_mark_active_incoming(rel, id, op, msg).size = rel.size
         /\ \A op, msg : reliable_mark_active_outgoing(rel, op, msg).size = rel.size
         /\ \A e : reliable_mark_deleted(rel, e).size = rel.size
  BY DEF reliables, reliable_send, reliable_schedule_now, reliable_send_purge,
         reliable_mark_active_incoming, reliable_mark_active_outgoing, reliable_mark_deleted

\* Below half the id space the test of the receive window is the usual one.
LEMMA PidRange2 ==
  ASSUME NEW a \in 0 .. (Half - 1), NEW b \in 0 .. (Half - 1), NEW n \in 0 .. Half
  PROVE  reliable_pid_in_range2(a, b, n) <=> a < b + n
<1>1. b + n \in 0 .. (PID_MOD - 1) /\ b + n >= b
  BY HalfFacts
<1>2. U(b + n) = b + n
  BY <1>1, NoOverflow
<1> QED BY <1>1, <1>2 DEF reliable_pid_in_range2

\* Among packets there is one with the lowest id.
LEMMA LowestExists ==
  ASSUME NEW S, S # {}, \A e \in S : e.packet_id \in 0 .. (Half - 1)
  PROVE  \E e \in lowest(S) : \A f \in S : e.packet_id <= f.packet_id
<1> DEFINE ids == {e.packet_id : e \in S}
<1>1. ids \subseteq Nat /\ ids # {}
  BY HalfFacts
<1> DEFINE less == {ss \in Nat \X Nat : ss[1] < ss[2]}
<1>2. IsWellFoundedOn(less, Nat)
  BY NatLessThanWellFounded DEF OpToRel
<1>3. PICK x \in ids : \A y \in ids : x <= y
  <2> HIDE DEF less, ids
  <2>1. PICK x \in ids : \A y \in ids : ~ (<<y, x>> \in less)
    BY <1>1, <1>2, WFMin
  <2>2. \A y \in ids : x <= y
    <3> SUFFICES ASSUME NEW y \in ids, y < x PROVE FALSE
      BY <1>1
    <3>1. <<y, x>> \in Nat \X Nat /\ <<y, x>>[1] < <<y, x>>[2]
      BY <1>1
    <3>2. <<y, x>> \in less
      BY <3>1 DEF less
    <3> QED BY <2>1, <3>2
  <2> QED BY <2>2
<1>4. PICK e \in S : e.packet_id = x
  OBVIOUS
<1>5. \A f \in S : e.packet_id <= f.packet_id
  BY <1>3, <1>4
<1>6. \A f \in S : ~ reliable_pid_min(f.packet_id, e.packet_id)
  <2> SUFFICES ASSUME NEW f \in S PROVE ~ reliable_pid_min(f.packet_id, e.packet_id)
    OBVIOUS
  <2>1. reliable_pid_min(f.packet_id, e.packet_id) <=> f.packet_id < e.packet_id
    BY PidMin
  <2> QED BY <2>1, <1>5, HalfFacts
<1> QED BY <1>5, <1>6 DEF lowest

\* A step that only removes or reschedules packets of the send buffers.
LEMMA NarrowerSend ==
  ASSUME Windows, rec_reliable' = rec_reliable, written' = written,
         \A p \in Peers :
            /\ send_reliable'[p].size = send_reliable[p].size
            /\ \A e \in send_reliable'[p].array : \E f \in send_reliable[p].array :
                  e.packet_id = f.packet_id
  PROVE  Windows'
<1>1. SizesFixed' /\ RecWindow'
  BY DEF Windows, SizesFixed, RecWindow
<1>2. SendWindow'
  BY DEF Windows, SendWindow
<1> QED BY <1>1, <1>2 DEF Windows

LEMMA InitWindows ==
  ASSUME Init
  PROVE  Windows
<1>1. PICK first \in FirstPids, hold \in BOOLEAN :
        /\ send_reliable = [p \in Peers |->
              [reliable_init(TLS_RELIABLE_N_SEND_BUFFERS, hold /\ p = "server") EXCEPT !.packet_id = first]]
        /\ rec_reliable = [p \in Peers |->
              [reliable_init(TLS_RELIABLE_N_REC_BUFFERS, FALSE) EXCEPT !.packet_id = first]]
  BY DEF Init
<1> QED BY <1>1 DEF reliable_init, Windows, SizesFixed, SendWindow, RecWindow

\* A new packet is within the send window of the oldest one.
LEMMA WriteWindows ==
  ASSUME NoWrap, IInv, Windows, NEW p \in Peers, Write(p)
  PROVE  Windows'
<1> DEFINE rel == send_reliable[p]
           op == IF state[p] = "S_INITIAL" THEN "HARD_RESET" ELSE "P_CONTROL_V1"
           r == reliable_mark_active_outgoing(rel, op, written[p] + 1)
<1>0. Types /\ SendNumbered
  BY DEF IInv
<1>1. /\ written' = [written EXCEPT ![p] = written[p] + 1]
      /\ written[p] \in Nat /\ written[p] + 1 <= MaxMessages[p]
      /\ send_reliable' = [send_reliable EXCEPT ![p] = r]
      /\ reliable_get_buf_output_sequenced(rel)
      /\ rec_reliable' = rec_reliable
  BY <1>0 DEF Write, Types, NoWrap
<1>2. /\ rel \in reliables /\ rel.packet_id = written[p]
      /\ op \in opcodes
      /\ written[p] + 1 < PID_MOD /\ written[p] \in 0 .. (Half - 1)
  BY <1>0, <1>1, HalfFacts DEF Types, SendNumbered, NoWrap, opcodes
<1>3. /\ r.array = rel.array \cup {entry(written[p], op, written[p] + 1)}
      /\ r.size = rel.size
  BY <1>1, <1>2, OutgoingFields, SizeKept
<1>4. \A e \in rel.array : e.packet_id \in 0 .. (Half - 1) /\ e.packet_id <= written[p]
  <2> SUFFICES ASSUME NEW e \in rel.array
               PROVE  e.packet_id \in 0 .. (Half - 1) /\ e.packet_id <= written[p]
    OBVIOUS
  <2>1. e.packet_id \in Nat
    BY <1>2, HalfFacts DEF reliables, Entries, packet_id_type
  <2>2. e.packet_id + 1 <= written[p]
    BY <1>0 DEF SendNumbered
  <2> QED BY <2>1, <2>2, <1>2, HalfFacts
<1>5. rel.size = TLS_RELIABLE_N_SEND_BUFFERS /\ TLS_RELIABLE_N_SEND_BUFFERS \in Nat \ {0}
  BY BufferAssumption DEF Windows, SizesFixed
<1>6. \A e \in rel.array : written[p] - e.packet_id < TLS_RELIABLE_N_SEND_BUFFERS
  <2> SUFFICES ASSUME NEW e \in rel.array
               PROVE  written[p] - e.packet_id < TLS_RELIABLE_N_SEND_BUFFERS
    OBVIOUS
  <2>1. PICK l \in lowest(rel.array) : \A f \in rel.array : l.packet_id <= f.packet_id
    BY <1>4, LowestExists
  <2>2. l \in rel.array /\ l.packet_id <= e.packet_id
    BY <2>1 DEF lowest
  <2>3. reliable_pid_in_range1(written[p], l.packet_id, TLS_RELIABLE_N_SEND_BUFFERS)
    BY <2>1, <1>1, <1>2, <1>5 DEF reliable_get_buf_output_sequenced
  <2>4. written[p] - l.packet_id < TLS_RELIABLE_N_SEND_BUFFERS
    BY <2>2, <2>3, <1>4, <1>2, HalfFacts DEF reliable_pid_in_range1
  <2> QED BY <2>2, <2>4, <1>4, <1>1, <1>5, HalfFacts
<1> HIDE DEF r, op
<1>7. \A x \in Peers : /\ written'[x] = (IF x = p THEN written[p] + 1 ELSE written[x])
                       /\ send_reliable'[x] = (IF x = p THEN r ELSE send_reliable[x])
  BY <1>0, <1>1 DEF Types
<1>8. SizesFixed' /\ RecWindow'
  BY <1>1, <1>3, <1>7 DEF Windows, SizesFixed, RecWindow
<1>9. SendWindow'
  <2> SUFFICES ASSUME NEW x \in Peers, NEW e \in send_reliable'[x].array
               PROVE  written'[x] - e.packet_id <= TLS_RELIABLE_N_SEND_BUFFERS
    BY DEF SendWindow
  <2>1. CASE x # p
    BY <2>1, <1>7 DEF Windows, SendWindow
  <2>2. CASE x = p /\ e \in rel.array
    BY <2>2, <1>1, <1>4, <1>5, <1>6, <1>7, HalfFacts
  <2>3. CASE x = p /\ e = entry(written[p], op, written[p] + 1)
    <3>1. e.packet_id = written[p]
      BY <2>3 DEF entry
    <3> QED BY <3>1, <2>3, <1>1, <1>5, <1>7
  <2> QED BY <2>1, <2>2, <2>3, <1>3, <1>7
<1> QED BY <1>8, <1>9 DEF Windows

\* A delivery moves the receive window on.
LEMMA DeliverWindows ==
  ASSUME NoWrap, IInv, Windows, NEW p \in Peers, Deliver(p)
  PROVE  Windows'
<1>0. Types /\ SendNumbered /\ RecNumbered
  BY DEF IInv
<1>1. PICK e \in rec_reliable[p].array :
        /\ e.packet_id = rec_reliable[p].packet_id
        /\ rec_reliable' = [rec_reliable EXCEPT ![p] = reliable_mark_deleted(rec_reliable[p], e)]
        /\ UNCHANGED <<send_reliable, written>>
  BY <1>0 DEF Deliver, reliable_get_buf_sequenced, Types
<1>2. /\ rec_reliable[p] \in reliables
      /\ rec_reliable[p].packet_id \in Nat /\ rec_reliable[p].packet_id + 1 < PID_MOD
  <2>1. /\ Len(delivered[p]) \in Nat /\ Len(delivered[p]) <= written[Other(p)]
        /\ written[Other(p)] <= MaxMessages[Other(p)] /\ MaxMessages[Other(p)] < Half
        /\ MaxMessages[Other(p)] \in Nat /\ written[Other(p)] \in Nat
        /\ rec_reliable[p].packet_id = Len(delivered[p])
    BY <1>0, OtherPeer DEF RecNumbered, SendNumbered, NoWrap, Types
  <2> QED BY <1>0, <2>1, HalfFacts DEF Types
<1> DEFINE r == reliable_mark_deleted(rec_reliable[p], e)
<1>3. /\ r.array = rec_reliable[p].array \ {e} /\ r.size = rec_reliable[p].size
      /\ r.packet_id = rec_reliable[p].packet_id + 1
  BY <1>1, <1>2, DeletedFields, SizeKept
<1> HIDE DEF r
<1>4. \A x \in Peers : rec_reliable'[x] = IF x = p THEN r ELSE rec_reliable[x]
  BY <1>0, <1>1 DEF Types, r
<1>5. SizesFixed' /\ SendWindow'
  BY <1>1, <1>3, <1>4 DEF Windows, SizesFixed, SendWindow
<1>6. RecWindow'
  <2> SUFFICES ASSUME NEW x \in Peers, NEW f \in rec_reliable'[x].array
               PROVE  f.packet_id < rec_reliable'[x].packet_id + TLS_RELIABLE_N_REC_BUFFERS
    BY DEF RecWindow
  <2>1. CASE x # p
    BY <2>1, <1>4 DEF Windows, RecWindow
  <2>2. CASE x = p
    <3>1. f \in rec_reliable[p].array
      BY <2>2, <1>3, <1>4
    <3>2. f.packet_id \in Nat /\ f.packet_id < rec_reliable[p].packet_id + TLS_RELIABLE_N_REC_BUFFERS
      BY <3>1, <1>2, HalfFacts DEF Windows, RecWindow, reliables, Entries, packet_id_type
    <3> QED BY <3>2, <2>2, <1>2, <1>3, <1>4, BufferAssumption
  <2> QED BY <2>1, <2>2
<1> QED BY <1>5, <1>6 DEF Windows

\* A packet too far ahead is not stored.
LEMMA ReceiveWindows ==
  ASSUME NoWrap, IInv, Windows, NEW m \in net, Receive(m)
  PROVE  Windows'
<1> DEFINE p == m.to
           rel == rec_reliable[p]
           a == Acknowledged(p, m)
<1>0. Types /\ SendNumbered /\ RecNumbered /\ NetNumbered
  BY DEF IInv
<1>1. /\ m \in Packets /\ p \in Peers /\ Other(p) \in Peers
      /\ rel \in reliables /\ send_reliable[p] \in reliables
      /\ m.packet_id \in packet_id_type /\ m.msg \in Nat
  BY <1>0, OtherPeer DEF Types, Packets
<1>2. written' = written
  BY DEF Receive
<1>3. /\ a.size = send_reliable[p].size
      /\ \A e \in a.array : \E f \in send_reliable[p].array : e.packet_id = f.packet_id
  <2>1. \A e \in a.array : \E f \in send_reliable[p].array : e.packet_id = f.packet_id
    BY <1>0, AcknowledgedFields
  <2>2. reliable_schedule_now(send_reliable[p]) \in reliables
    BY <1>1, ScheduleFields
  <2>3. a.size = send_reliable[p].size
    BY <1>1, <2>2, SizeKept DEF Acknowledged
  <2> QED BY <2>1, <2>3
<1> HIDE DEF a
<1>4. \A x \in Peers :
         /\ send_reliable'[x].size = send_reliable[x].size
         /\ \A e \in send_reliable'[x].array : \E f \in send_reliable[x].array :
               e.packet_id = f.packet_id
  <2>1. send_reliable' = send_reliable \/ send_reliable' = [send_reliable EXCEPT ![p] = a]
    BY <1>0, <1>1 DEF Receive, a, Types
  <2>2. \A x \in Peers : send_reliable'[x] = send_reliable[x] \/ (x = p /\ send_reliable'[x] = a)
    BY <2>1, <1>0, <1>1 DEF Types
  <2> QED BY <2>2, <1>3
<1>5. CASE rec_reliable' = rec_reliable
  BY <1>2, <1>4, <1>5, NarrowerSend
<1>6. CASE m.op # "P_ACK_V1" /\ Accept(p, m)
  <2> DEFINE s == reliable_mark_active_incoming(rel, m.packet_id, m.op, m.msg)
  <2>1. \/ rec_reliable' = rec_reliable
        \/ /\ reliable_wont_break_sequentiality(rel, m.packet_id)
           /\ rec_reliable' = [rec_reliable EXCEPT ![p] = s]
    BY <1>0, <1>1, <1>6 DEF Accept, Types
  <2>2. CASE /\ reliable_wont_break_sequentiality(rel, m.packet_id)
             /\ rec_reliable' = [rec_reliable EXCEPT ![p] = s]
    <3>1. m.op \in opcodes
      BY <1>1, <1>6 DEF Packets
    <3>2. /\ s.array = rel.array \cup {entry(m.packet_id, m.op, m.msg)}
          /\ s.size = rel.size /\ s.packet_id = rel.packet_id
      BY <1>1, <3>1, IncomingFields, SizeKept
    <3> HIDE DEF s
    <3>3. \A x \in Peers : rec_reliable'[x] = IF x = p THEN s ELSE rec_reliable[x]
      BY <2>2, <1>0 DEF Types
    <3>4. m.packet_id \in 0 .. (Half - 1) /\ rel.packet_id \in 0 .. (Half - 1)
      <4>1. /\ m.msg = m.packet_id + 1 /\ m.msg <= written[Other(p)]
            /\ rel.packet_id = Len(delivered[p]) /\ Len(delivered[p]) <= written[Other(p)]
            /\ written[Other(p)] <= MaxMessages[Other(p)] /\ MaxMessages[Other(p)] < Half
            /\ MaxMessages[Other(p)] \in Nat /\ written[Other(p)] \in Nat
            /\ Len(delivered[p]) \in Nat
        BY <1>0, <1>1, <1>6 DEF NetNumbered, RecNumbered, SendNumbered, NoWrap, Types
      <4>2. m.packet_id \in Nat
        BY <1>1, HalfFacts DEF packet_id_type
      <4> QED BY <4>1, <4>2, HalfFacts
    <3>5. m.packet_id < rel.packet_id + TLS_RELIABLE_N_REC_BUFFERS
      <4>1. rel.size = TLS_RELIABLE_N_REC_BUFFERS
        BY <1>1 DEF Windows, SizesFixed
      <4>2. TLS_RELIABLE_N_REC_BUFFERS \in 0 .. Half
        BY BufferAssumption, WindowAssumption, HalfFacts
      <4>3. reliable_pid_in_range2(m.packet_id, rel.packet_id, TLS_RELIABLE_N_REC_BUFFERS)
        BY <2>2, <4>1 DEF reliable_wont_break_sequentiality
      <4> QED BY <3>4, <4>2, <4>3, PidRange2
    <3>6. RecWindow'
      <4> SUFFICES ASSUME NEW x \in Peers, NEW f \in rec_reliable'[x].array
                   PROVE  f.packet_id < rec_reliable'[x].packet_id + TLS_RELIABLE_N_REC_BUFFERS
        BY DEF RecWindow
      <4>1. CASE f \in rec_reliable[x].array
        <5>1. rec_reliable'[x].packet_id = rec_reliable[x].packet_id
          BY <3>2, <3>3
        <5> QED BY <4>1, <5>1 DEF Windows, RecWindow
      <4>2. CASE x = p /\ f = entry(m.packet_id, m.op, m.msg)
        <5>1. f.packet_id = m.packet_id
          BY <4>2 DEF entry
        <5> QED BY <4>2, <5>1, <3>2, <3>3, <3>5
      <4> QED BY <4>1, <4>2, <3>2, <3>3
    <3>7. SizesFixed' /\ SendWindow'
      <4>1. SizesFixed'
        BY <3>2, <3>3, <1>4 DEF Windows, SizesFixed
      <4>2. SendWindow'
        BY <1>2, <1>4 DEF Windows, SendWindow
      <4> QED BY <4>1, <4>2
    <3> QED BY <3>6, <3>7 DEF Windows
  <2> QED BY <2>1, <2>2, <1>5
<1> QED BY <1>5, <1>6 DEF Receive

\* Every step keeps the windows.
LEMMA StepWindows ==
  ASSUME NoWrap, IInv, Windows, [Next]_vars
  PROVE  Windows'
<1>0. Types
  BY DEF IInv
<1>1. CASE \E p \in Peers : Write(p)
  BY <1>1, WriteWindows
<1>2. CASE \E p \in Peers : Start(p) \/ GiveUp(p) \/ SendAck(p)
  <2>1. UNCHANGED <<send_reliable, rec_reliable, written>>
    BY <1>2 DEF Start, GiveUp, SendAck
  <2> QED BY <2>1, NarrowerSend
<1>3. CASE \E p \in Peers : Transmit(p)
  <2>0. PICK p \in Peers : Transmit(p)
    BY <1>3
  <2>1. PICK best \in lowest(due(send_reliable[p])) :
          /\ send_reliable' = [send_reliable EXCEPT ![p] = reliable_send(send_reliable[p], best)]
          /\ UNCHANGED <<rec_reliable, written>>
    BY <2>0, <1>0 DEF Transmit, Types
  <2>2. send_reliable[p] \in reliables /\ best \in send_reliable[p].array
    BY <1>0 DEF Types, lowest, due
  <2> DEFINE r == reliable_send(send_reliable[p], best)
  <2>3. /\ r.size = send_reliable[p].size
        /\ \A e \in r.array : \E f \in send_reliable[p].array : e.packet_id = f.packet_id
    BY <2>2, SendFields, SizeKept
  <2> HIDE DEF r
  <2>4. \A x \in Peers : send_reliable'[x] = IF x = p THEN r ELSE send_reliable[x]
    BY <2>1, <1>0 DEF Types, r
  <2> QED BY <2>1, <2>3, <2>4, NarrowerSend
<1>4. CASE \E p \in Peers : Expire(p)
  <2>1. PICK p \in Peers : Expire(p)
    BY <1>4
  <2>2. PICK e \in send_reliable[p].array :
          /\ send_reliable' = [send_reliable EXCEPT ![p] = [send_reliable[p] EXCEPT
                 !.array = (send_reliable[p].array \ {e}) \cup {[e EXCEPT !.due = TRUE]}]]
          /\ UNCHANGED <<rec_reliable, written>>
    BY <2>1, <1>0 DEF Expire, Types, reliables
  <2> DEFINE d == [e EXCEPT !.due = TRUE]
             r == [send_reliable[p] EXCEPT !.array = (send_reliable[p].array \ {e}) \cup {d}]
  <2>3. d.packet_id = e.packet_id
    BY <1>0 DEF Types, reliables, Entries
  <2>4. r.size = send_reliable[p].size /\ r.array = (send_reliable[p].array \ {e}) \cup {d}
    BY <1>0 DEF Types, reliables
  <2>5. \A x \in Peers : send_reliable'[x] = IF x = p THEN r ELSE send_reliable[x]
    BY <2>2, <1>0 DEF Types
  <2> HIDE DEF d, r
  <2>6. \A g \in r.array : \E f \in send_reliable[p].array : g.packet_id = f.packet_id
    BY <2>3, <2>4
  <2> QED BY <2>2, <2>4, <2>5, <2>6, NarrowerSend
<1>5. CASE \E p \in Peers : Deliver(p)
  BY <1>5, DeliverWindows
<1>6. CASE \E m \in net : Receive(m)
  BY <1>6, ReceiveWindows
<1>7. CASE Lose \/ UNCHANGED vars
  <2>1. UNCHANGED <<send_reliable, rec_reliable, written>>
    BY <1>7 DEF Lose, vars
  <2> QED BY <2>1, NarrowerSend
<1> QED BY <1>1, <1>2, <1>3, <1>4, <1>5, <1>6, <1>7 DEF Next

----------------------------------------------------------------------------
(* Types.  They hold across the wrap-around too.                           *)

LEMMA IdsWrap == \A n \in Int : U(n) \in packet_id_type
  BY PidModAssumption, SMT DEF U, packet_id_type

\* What the operations return, whatever the ids are.
LEMMA ReliableTypes ==
  ASSUME NEW rel \in reliables
  PROVE  /\ \A opcode \in opcodes, msg \in Nat :
               reliable_mark_active_outgoing(rel, opcode, msg) \in reliables
         /\ \A e \in rel.array : reliable_mark_deleted(rel, e) \in reliables
<1>1. rel.packet_id \in Int /\ rel.packet_id \in packet_id_type
  BY HalfFacts DEF reliables, packet_id_type
<1>2. ASSUME NEW opcode \in opcodes, NEW msg \in Nat
      PROVE  reliable_mark_active_outgoing(rel, opcode, msg) \in reliables
  <2>1. entry(rel.packet_id, opcode, msg) \in Entries
    BY <1>1 DEF entry, Entries
  <2>2. U(rel.packet_id + 1) \in packet_id_type
    BY <1>1, IdsWrap
  <2> QED BY <2>1, <2>2 DEF reliable_mark_active_outgoing, reliables
<1>3. ASSUME NEW e \in rel.array
      PROVE  reliable_mark_deleted(rel, e) \in reliables
  <2>1. e.packet_id \in Int
    BY HalfFacts DEF reliables, Entries, packet_id_type
  <2>2. U(e.packet_id + 1) \in packet_id_type
    BY <2>1, IdsWrap
  <2> QED BY <2>2 DEF reliable_mark_deleted, reliables
<1> QED BY <1>2, <1>3

\* The list of acknowledgements never outgrows its array.
LEMMA AckListBound ==
  ASSUME NEW ack \in Seq(packet_id_type), Len(ack) <= RELIABLE_ACK_SIZE
  PROVE  /\ \A max \in Nat : Len(ack_rest(ack, max)) <= RELIABLE_ACK_SIZE
         /\ \A pid \in packet_id_type :
               /\ reliable_ack_acknowledge_packet_id(ack, pid) \in Seq(packet_id_type)
               /\ Len(reliable_ack_acknowledge_packet_id(ack, pid)) <= RELIABLE_ACK_SIZE
<1>1. Len(ack) \in Nat /\ RELIABLE_ACK_SIZE \in Nat
  BY AckSizeAssumption
<1>2. ASSUME NEW max \in Nat PROVE Len(ack_rest(ack, max)) <= RELIABLE_ACK_SIZE
  <2> DEFINE c == ack_count(ack, max)
  <2>1. c \in 0 .. Len(ack)
    BY <1>1 DEF ack_count
  <2> HIDE DEF c
  <2>2. Len(SubSeq(ack, c + 1, Len(ack))) = Len(ack) - c
    BY <1>1, <2>1
  <2> QED BY <1>1, <2>1, <2>2 DEF ack_rest, c
<1>3. ASSUME NEW pid \in packet_id_type
      PROVE  /\ reliable_ack_acknowledge_packet_id(ack, pid) \in Seq(packet_id_type)
             /\ Len(reliable_ack_acknowledge_packet_id(ack, pid)) <= RELIABLE_ACK_SIZE
  <2>1. Append(ack, pid) \in Seq(packet_id_type) /\ Len(Append(ack, pid)) = Len(ack) + 1
    OBVIOUS
  <2> QED BY <1>1, <2>1 DEF reliable_ack_acknowledge_packet_id
<1> QED BY <1>2, <1>3

\* Every step keeps the types.
LEMMA StepTypes ==
  ASSUME TypeOK, [Next]_vars
  PROVE  TypeOK'
<1>1. Types
  BY DEF TypeOK, Types
<1>2. ASSUME NEW p \in Peers, Write(p) PROVE TypeOK'
  <2> DEFINE op == IF state[p] = "S_INITIAL" THEN "HARD_RESET" ELSE "P_CONTROL_V1"
             r == reliable_mark_active_outgoing(send_reliable[p], op, written[p] + 1)
  <2>1. /\ written' = [written EXCEPT ![p] = written[p] + 1]
        /\ send_reliable' = [send_reliable EXCEPT ![p] = r]
        /\ state' = [state EXCEPT ![p] = IF state[p] = "S_INITIAL" THEN "S_PRE_START" ELSE state[p]]
        /\ UNCHANGED <<rec_reliable, rec_ack, known, net, delivered>>
    BY <1>1, <1>2 DEF Write, Types
  <2>2. op \in opcodes
    BY DEF opcodes
  <2>3. send_reliable[p] \in reliables /\ written[p] + 1 \in Nat
    BY DEF TypeOK
  <2> HIDE DEF op
  <2>4. r \in reliables
    BY <2>2, <2>3, ReliableTypes
  <2> HIDE DEF r
  <2> QED BY <2>1, <2>4 DEF TypeOK
<1>3. ASSUME NEW p \in Peers, Start(p) \/ GiveUp(p) PROVE TypeOK'
  BY <1>3 DEF Start, GiveUp, TypeOK
<1>4. ASSUME NEW p \in Peers, Transmit(p) PROVE TypeOK'
  <2>1. PICK best \in lowest(due(send_reliable[p])) :
          /\ send_reliable' = [send_reliable EXCEPT ![p] = reliable_send(send_reliable[p], best)]
          /\ Send(control_v1(p, ack_record(rec_ack[p], CONTROL_SEND_ACK_MAX), best))
          /\ rec_ack' = [rec_ack EXCEPT ![p] = ack_rest(rec_ack[p], CONTROL_SEND_ACK_MAX)]
          /\ UNCHANGED <<rec_reliable, known, state, written, delivered>>
    BY <1>1, <1>4 DEF Transmit, Types
  <2>2. /\ best \in send_reliable[p].array /\ send_reliable[p] \in reliables /\ best \in Entries
        /\ rec_ack[p] \in Seq(packet_id_type) /\ Len(rec_ack[p]) <= RELIABLE_ACK_SIZE
        /\ CONTROL_SEND_ACK_MAX \in Nat
    BY BufferAssumption DEF TypeOK, reliables, lowest, due
  <2>3. reliable_send(send_reliable[p], best) \in reliables
    BY <2>2, SendFields
  <2> DEFINE a == ack_rest(rec_ack[p], CONTROL_SEND_ACK_MAX)
             c == ack_record(rec_ack[p], CONTROL_SEND_ACK_MAX)
  <2>4. a \in Seq(packet_id_type) /\ Len(a) <= RELIABLE_ACK_SIZE /\ c \in SUBSET packet_id_type
    BY <2>2, AckFields, AckListBound
  <2> HIDE DEF a, c
  <2>5. control_v1(p, c, best) \in Packets
    BY <2>2, <2>4, OtherPeer DEF control_v1, Packets, Entries
  <2>6. net' \in SUBSET Packets
    BY <2>1, <2>5, SendNet DEF TypeOK, c
  <2> QED BY <2>1, <2>3, <2>4, <2>6 DEF TypeOK, a
<1>5. ASSUME NEW p \in Peers, Expire(p) PROVE TypeOK'
  <2>1. PICK e \in send_reliable[p].array :
          /\ send_reliable' = [send_reliable EXCEPT ![p] = [send_reliable[p] EXCEPT
                 !.array = (send_reliable[p].array \ {e}) \cup {[e EXCEPT !.due = TRUE]}]]
          /\ UNCHANGED <<rec_reliable, rec_ack, known, state, net, written, delivered>>
    BY <1>1, <1>5 DEF Expire, Types, reliables
  <2> DEFINE d == [e EXCEPT !.due = TRUE]
             r == [send_reliable[p] EXCEPT !.array = (send_reliable[p].array \ {e}) \cup {d}]
  <2>2. send_reliable[p] \in reliables
    BY DEF TypeOK
  <2>3. e \in Entries
    BY <2>2 DEF reliables
  <2>4. d \in Entries
    BY <2>3 DEF Entries
  <2> HIDE DEF d
  <2>5. r \in reliables
    BY <2>2, <2>4 DEF reliables
  <2>6. send_reliable' = [send_reliable EXCEPT ![p] = r]
    BY <2>1 DEF d
  <2> HIDE DEF r
  <2>7. send_reliable' \in [Peers -> reliables]
    BY <2>5, <2>6 DEF TypeOK
  <2> QED BY <2>1, <2>7 DEF TypeOK
<1>6. ASSUME NEW p \in Peers, SendAck(p) PROVE TypeOK'
  <2> DEFINE a == ack_rest(rec_ack[p], RELIABLE_ACK_SIZE)
             c == ack_record(rec_ack[p], RELIABLE_ACK_SIZE)
  <2>1. /\ Send(ack_v1(p, c)) /\ rec_ack' = [rec_ack EXCEPT ![p] = a]
        /\ UNCHANGED <<send_reliable, rec_reliable, known, state, written, delivered>>
    BY <1>1, <1>6 DEF SendAck, Types
  <2>2. rec_ack[p] \in Seq(packet_id_type) /\ Len(rec_ack[p]) <= RELIABLE_ACK_SIZE
        /\ RELIABLE_ACK_SIZE \in Nat
    BY AckSizeAssumption DEF TypeOK
  <2>3. a \in Seq(packet_id_type) /\ Len(a) <= RELIABLE_ACK_SIZE /\ c \in SUBSET packet_id_type
    BY <2>2, AckFields, AckListBound
  <2> HIDE DEF a, c
  <2>4. ack_v1(p, c) \in Packets
    BY <2>3, OtherPeer, HalfFacts DEF ack_v1, Packets, packet_id_type
  <2>5. net' \in SUBSET Packets
    BY <2>1, <2>4, SendNet DEF TypeOK
  <2> QED BY <2>1, <2>3, <2>5 DEF TypeOK
<1>7. ASSUME NEW p \in Peers, Deliver(p) PROVE TypeOK'
  <2>1. PICK e \in rec_reliable[p].array :
          /\ rec_reliable' = [rec_reliable EXCEPT ![p] = reliable_mark_deleted(rec_reliable[p], e)]
          /\ delivered' = [delivered EXCEPT ![p] = Append(delivered[p], e.msg)]
          /\ UNCHANGED <<send_reliable, rec_ack, known, state, net, written>>
    BY <1>1, <1>7 DEF Deliver, reliable_get_buf_sequenced, Types
  <2> DEFINE r == reliable_mark_deleted(rec_reliable[p], e)
  <2>2. rec_reliable[p] \in reliables /\ delivered[p] \in Seq(Nat)
    BY DEF TypeOK
  <2>3. e \in Entries
    BY <2>2 DEF reliables
  <2>4. r \in reliables
    BY <2>2, ReliableTypes
  <2> HIDE DEF r
  <2>5. Append(delivered[p], e.msg) \in Seq(Nat)
    BY <2>2, <2>3 DEF Entries
  <2>6. rec_reliable' \in [Peers -> reliables]
    BY <2>1, <2>4 DEF TypeOK, r
  <2>7. delivered' \in [Peers -> Seq(Nat)]
    BY <2>1, <2>5 DEF TypeOK
  <2> QED BY <2>1, <2>6, <2>7 DEF TypeOK
<1>8. ASSUME NEW m \in net, Receive(m) PROVE TypeOK'
  <2> DEFINE p == m.to
             rel == rec_reliable[p]
             s == Acknowledged(p, m)
             r == reliable_mark_active_incoming(rel, m.packet_id, m.op, m.msg)
             a == reliable_ack_acknowledge_packet_id(rec_ack[p], m.packet_id)
  <2>1. /\ m \in Packets /\ p \in Peers /\ m.packet_id \in packet_id_type /\ m.msg \in Nat
        /\ rel \in reliables /\ rec_ack[p] \in Seq(packet_id_type)
        /\ Len(rec_ack[p]) <= RELIABLE_ACK_SIZE
    BY DEF TypeOK, Packets
  <2>2. s \in reliables /\ a \in Seq(packet_id_type) /\ Len(a) <= RELIABLE_ACK_SIZE
    BY <1>1, <2>1, AcknowledgedFields, AckListBound
  <2>3. m.op # "P_ACK_V1" => r \in reliables
    BY <2>1, IncomingFields DEF Packets
  <2>4. /\ net' \subseteq net
        /\ known' = known \/ known' = [known EXCEPT ![p] = TRUE]
        /\ send_reliable' = send_reliable \/ send_reliable' = [send_reliable EXCEPT ![p] = s]
        /\ UNCHANGED <<state, written, delivered>>
    BY <1>8 DEF Receive
  <2>5. /\ \/ rec_reliable' = rec_reliable
           \/ m.op # "P_ACK_V1" /\ rec_reliable' = [rec_reliable EXCEPT ![p] = r]
        /\ rec_ack' = rec_ack \/ rec_ack' = [rec_ack EXCEPT ![p] = a]
    BY <1>1, <1>8, <2>1 DEF Receive, Accept, Types
  <2> HIDE DEF s, r, a, p
  <2>6. send_reliable' \in [Peers -> reliables] /\ rec_reliable' \in [Peers -> reliables]
    <3>1. send_reliable \in [Peers -> reliables] /\ rec_reliable \in [Peers -> reliables]
      BY DEF TypeOK
    <3>2. send_reliable' \in [Peers -> reliables]
      BY <2>1, <2>2, <2>4, <3>1
    <3>3. CASE rec_reliable' = rec_reliable
      BY <3>1, <3>2, <3>3
    <3>4. CASE m.op # "P_ACK_V1" /\ rec_reliable' = [rec_reliable EXCEPT ![p] = r]
      <4>1. r \in reliables
        BY <2>3, <3>4
      <4> QED BY <2>1, <3>1, <3>2, <3>4, <4>1
    <3> QED BY <2>5, <3>3, <3>4
  <2>7. rec_ack' \in [Peers -> Seq(packet_id_type)] /\ \A x \in Peers : Len(rec_ack'[x]) <= RELIABLE_ACK_SIZE
    BY <2>2, <2>5 DEF TypeOK
  <2>8. known' \in [Peers -> BOOLEAN] /\ net' \in SUBSET Packets
    BY <2>4 DEF TypeOK
  <2> QED BY <2>4, <2>6, <2>7, <2>8 DEF TypeOK
<1>9. CASE Lose \/ UNCHANGED vars
  BY <1>9 DEF Lose, vars, TypeOK
<1> QED BY <1>2, <1>3, <1>4, <1>5, <1>6, <1>7, <1>8, <1>9 DEF Next

----------------------------------------------------------------------------
(* The theorems.                                                           *)

\* Every step keeps the invariant.
LEMMA StepIInv ==
  ASSUME NoWrap, IInv, [Next]_vars
  PROVE  IInv'
<1>1. CASE \E p \in Peers : Write(p)
  BY <1>1, WriteIInv
<1>2. CASE \E p \in Peers : Start(p) \/ GiveUp(p)
  BY <1>2, StartIInv, GiveUpIInv
<1>3. CASE \E p \in Peers : Transmit(p)
  BY <1>3, TransmitIInv
<1>4. CASE \E p \in Peers : Expire(p)
  BY <1>4, ExpireIInv
<1>5. CASE \E p \in Peers : SendAck(p)
  BY <1>5, SendAckIInv
<1>6. CASE \E p \in Peers : Deliver(p)
  BY <1>6, DeliverIInv
<1>7. CASE \E m \in net : Receive(m)
  BY <1>7, ReceiveIInv
<1>8. CASE Lose \/ UNCHANGED vars
  BY <1>8, LoseIInv
<1> QED BY <1>1, <1>2, <1>3, <1>4, <1>5, <1>6, <1>7, <1>8 DEF Next

\* While the next packet is missing the stored ones lie strictly inside the
\* window, so that one buffer is free.
LEMMA FreeBuffer ==
  ASSUME NoWrap, IInv, Windows, NEW p \in Peers,
         reliable_get_buf_sequenced(rec_reliable[p]) = {}
  PROVE  reliable_can_get(rec_reliable[p])
<1> DEFINE rel == rec_reliable[p]
           first == rel.packet_id
           n == TLS_RELIABLE_N_REC_BUFFERS
           T == (first + 1) .. (first + n - 1)
           id == [e \in rel.array |-> e.packet_id]
<1>0. Types /\ RecNumbered /\ RecDistinct
  BY DEF IInv
<1>1. rel \in reliables /\ first \in Nat /\ n \in Nat \ {0} /\ rel.size = n
  BY <1>0, BufferAssumption, HalfFacts DEF Types, reliables, packet_id_type, Windows, SizesFixed
<1>2. \A e \in rel.array : e.packet_id \in T
  <2> SUFFICES ASSUME NEW e \in rel.array PROVE e.packet_id \in T
    OBVIOUS
  <2>1. e.packet_id \in Nat
    BY <1>1, HalfFacts DEF reliables, Entries, packet_id_type
  <2>2. e.packet_id >= first
    <3>1. /\ first = Len(delivered[p]) /\ e.msg = e.packet_id + 1
          /\ Len(delivered[p]) < e.msg
      BY <1>0 DEF RecNumbered
    <3> QED BY <3>1, <2>1, <1>1
  <2>3. e.packet_id # first
    BY DEF reliable_get_buf_sequenced
  <2>4. e.packet_id < first + n
    BY DEF Windows, RecWindow
  <2> HIDE DEF first
  <2> QED BY <2>1, <2>2, <2>3, <2>4, <1>1
<1>3. id \in Injection(rel.array, T)
  <2>1. id \in [rel.array -> T]
    BY <1>2
  <2>2. \A e, f \in rel.array : id[e] = id[f] => e = f
    BY <1>0 DEF RecDistinct
  <2> HIDE DEF id, T
  <2> QED BY <2>1, <2>2 DEF Injection, IsInjective
<1>4. IsFiniteSet(T) /\ Cardinality(T) = n - 1
  <2>1. first + 1 \in Int /\ first + n - 1 \in Int
    BY <1>1
  <2> HIDE DEF first
  <2> QED BY <1>1, <2>1, FS_Interval
<1>5. IsFiniteSet(rel.array) /\ Cardinality(rel.array) <= n - 1
  <2> HIDE DEF id, T
  <2> QED BY <1>3, <1>4, FS_Injection
<1>6. Cardinality(rel.array) \in Nat
  BY <1>5, FS_CardinalityType
<1> QED BY <1>1, <1>5, <1>6 DEF reliable_can_get

\* No acknowledgement, lost, repeated or late, ever makes a sender forget a
\* message that its receiver does not have.
THEOREM NeverForgotten ==
  ASSUME NoWrap
  PROVE  Spec => []NothingForgotten
<1>1. Init => IInv
  BY InitIInv
<1>2. IInv /\ [Next]_vars => IInv'
  BY StepIInv
<1>3. IInv => NothingForgotten
  BY DEF IInv
<1> QED BY <1>1, <1>2, <1>3, PTL DEF Spec

\* A peer in S_START knows the other's session and is known to it.
THEOREM ThreeWayHandshake ==
  ASSUME NoWrap
  PROVE  Spec => []HandshakeComplete
<1>1. Init => IInv
  BY InitIInv
<1>2. IInv /\ [Next]_vars => IInv'
  BY StepIInv
<1>3. IInv => HandshakeComplete
  BY DEF IInv
<1> QED BY <1>1, <1>2, <1>3, PTL DEF Spec

\* The reliability layer implements the pair of first-in first-out channels.
THEOREM Refinement ==
  ASSUME NoWrap
  PROVE  Spec => ImplementsChannel
<1>1. Init => IInv
  BY InitIInv
<1>2. IInv /\ [Next]_vars => IInv'
  BY StepIInv
<1>3. Init => Channel!Init
  BY DEF Init, Channel!Init
<1>4. IInv /\ [Next]_vars => [Channel!Next]_(Channel!vars)
  <2> SUFFICES ASSUME IInv, [Next]_vars
               PROVE  [Channel!Next]_(Channel!vars)
    OBVIOUS
  <2>1. CASE \E p \in Peers : Write(p)
    <3>1. PICK p \in Peers : Write(p)
      BY <2>1
    <3>2. Channel!Write(p)
      BY <3>1 DEF Write, Channel!Write
    <3> QED BY <3>2 DEF Channel!Next
  <2>2. CASE \E p \in Peers : Deliver(p)
    <3>1. PICK p \in Peers : Deliver(p)
      BY <2>2
    <3>2. Channel!Deliver(p)
      BY <3>1, DeliverIInv DEF Channel!Deliver, IInv, Types
    <3> QED BY <3>2 DEF Channel!Next
  <2>3. CASE ~ (\E p \in Peers : Write(p) \/ Deliver(p))
    <3>1. UNCHANGED <<written, delivered>>
      BY <2>3 DEF Next, vars, Start, GiveUp, Transmit, Expire, SendAck, Receive, Lose
    <3> QED BY <3>1 DEF Channel!vars
  <2> QED BY <2>1, <2>2, <2>3
<1> QED BY <1>1, <1>2, <1>3, <1>4, PTL DEF Spec, ImplementsChannel, Channel!Spec

\* The receive buffer never fills up with packets that wait for a missing one:
\* reliable_can_get, reliable_wont_break_sequentiality and reliable_not_replay
\* let the next packet in sequence in whenever it is missing.
THEOREM NextIsWelcome ==
  ASSUME NoWrap
  PROVE  Spec => []RoomForNext
<1>1. Init => IInv /\ Windows
  BY InitIInv, InitWindows
<1>2. IInv /\ Windows /\ [Next]_vars => (IInv /\ Windows)'
  BY StepIInv, StepWindows
<1>3. IInv /\ Windows => RoomForNext
  <2> SUFFICES ASSUME IInv, Windows, NEW p \in Peers,
                      reliable_get_buf_sequenced(rec_reliable[p]) = {}
               PROVE  /\ reliable_can_get(rec_reliable[p])
                      /\ reliable_wont_break_sequentiality(rec_reliable[p], rec_reliable[p].packet_id)
                      /\ reliable_not_replay(rec_reliable[p], rec_reliable[p].packet_id)
    BY DEF RoomForNext
  <2> DEFINE first == rec_reliable[p].packet_id
  <2>1. first \in 0 .. (Half - 1)
    <3>1. /\ first = Len(delivered[p]) /\ Len(delivered[p]) \in Nat
          /\ Len(delivered[p]) <= written[Other(p)] /\ written[Other(p)] \in Nat
          /\ written[Other(p)] <= MaxMessages[Other(p)] /\ MaxMessages[Other(p)] \in Nat
          /\ MaxMessages[Other(p)] < Half
      BY OtherPeer DEF IInv, Types, RecNumbered, SendNumbered, NoWrap
    <3> QED BY <3>1, HalfFacts
  <2>2. reliable_can_get(rec_reliable[p])
    BY FreeBuffer
  <2>3. reliable_wont_break_sequentiality(rec_reliable[p], first)
    <3>1. /\ rec_reliable[p].size = TLS_RELIABLE_N_REC_BUFFERS
          /\ TLS_RELIABLE_N_REC_BUFFERS \in 0 .. Half /\ TLS_RELIABLE_N_REC_BUFFERS > 0
      BY BufferAssumption, WindowAssumption, HalfFacts DEF Windows, SizesFixed
    <3> HIDE DEF first
    <3>2. reliable_pid_in_range2(first, first, TLS_RELIABLE_N_REC_BUFFERS)
      BY <2>1, <3>1, PidRange2
    <3> QED BY <3>1, <3>2 DEF reliable_wont_break_sequentiality, first
  <2>4. reliable_not_replay(rec_reliable[p], first)
    <3>1. ~ reliable_pid_min(first, first)
      <4> HIDE DEF first
      <4> QED BY <2>1, PidMin, HalfFacts
    <3>2. first \notin active_ids(rec_reliable[p])
      BY DEF active_ids, reliable_get_buf_sequenced
    <3> QED BY <3>1, <3>2 DEF reliable_not_replay
  <2> QED BY <2>2, <2>3, <2>4
<1> QED BY <1>1, <1>2, <1>3, PTL DEF Spec

\* The send window: reliable_get_buf_output_sequenced keeps a sender from running
\* ahead of what the other peer still misses by as much as its send buffer holds.
THEOREM SendersKeepTheWindow ==
  ASSUME NoWrap
  PROVE  Spec => []WithinWindow
<1>1. Init => IInv /\ Windows
  BY InitIInv, InitWindows
<1>2. IInv /\ Windows /\ [Next]_vars => (IInv /\ Windows)'
  BY StepIInv, StepWindows
<1>3. IInv /\ Windows => WithinWindow
  <2> SUFFICES ASSUME IInv, Windows, NEW p \in Peers, NEW k \in Missing(p)
               PROVE  written[p] - k < TLS_RELIABLE_N_SEND_BUFFERS
    BY DEF WithinWindow
  <2>1. written[p] \in Nat /\ Len(delivered[Other(p)]) \in Nat
    BY OtherPeer DEF IInv, Types
  <2>2. k \in (Len(delivered[Other(p)]) + 1) .. written[p]
    BY DEF Missing
  <2>3. PICK e \in send_reliable[p].array : e.msg = k
    BY <2>2 DEF IInv, NothingForgotten, Missing
  <2>4. k = e.packet_id + 1 /\ e.packet_id \in Nat
    BY <2>3, HalfFacts DEF IInv, SendNumbered, Types, reliables, Entries, packet_id_type
  <2>5. written[p] - e.packet_id <= TLS_RELIABLE_N_SEND_BUFFERS
    BY DEF Windows, SendWindow
  <2> QED BY <2>1, <2>4, <2>5, BufferAssumption
<1> QED BY <1>1, <1>2, <1>3, PTL DEF Spec

\* Types: the list of acknowledgements stays within RELIABLE_ACK_SIZE, and ids
\* within their width, for every start and across the wrap-around.
THEOREM TypeCorrect == Spec => []TypeOK
<1>1. Init => TypeOK
  <2> SUFFICES ASSUME Init PROVE TypeOK
    OBVIOUS
  <2>1. PICK first \in FirstPids, hold \in BOOLEAN :
          /\ send_reliable = [p \in Peers |->
                [reliable_init(TLS_RELIABLE_N_SEND_BUFFERS, hold /\ p = "server") EXCEPT !.packet_id = first]]
          /\ rec_reliable = [p \in Peers |->
                [reliable_init(TLS_RELIABLE_N_REC_BUFFERS, FALSE) EXCEPT !.packet_id = first]]
          /\ known = [p \in Peers |-> ~ (first = 0)]
          /\ state = [p \in Peers |-> IF first = 0 THEN "S_INITIAL" ELSE "S_START"]
    BY DEF Init
  <2>2. /\ rec_ack = [p \in Peers |-> <<>>] /\ net = {}
        /\ written = [p \in Peers |-> 0] /\ delivered = [p \in Peers |-> <<>>]
    BY DEF Init
  <2>3. first \in packet_id_type
    BY BufferAssumption
  <2>4. \A p \in Peers :
          /\ [reliable_init(TLS_RELIABLE_N_SEND_BUFFERS, hold /\ p = "server") EXCEPT !.packet_id = first] \in reliables
          /\ [reliable_init(TLS_RELIABLE_N_REC_BUFFERS, FALSE) EXCEPT !.packet_id = first] \in reliables
    BY <2>3, BufferAssumption DEF reliable_init, reliables
  <2>5. send_reliable \in [Peers -> reliables] /\ rec_reliable \in [Peers -> reliables]
    BY <2>1, <2>4
  <2>6. <<>> \in Seq(packet_id_type) /\ <<>> \in Seq(Nat) /\ Len(<<>>) = 0
    OBVIOUS
  <2>7. rec_ack \in [Peers -> Seq(packet_id_type)] /\ \A p \in Peers : Len(rec_ack[p]) <= RELIABLE_ACK_SIZE
    BY <2>2, <2>6, AckSizeAssumption
  <2> QED BY <2>1, <2>2, <2>5, <2>6, <2>7 DEF TypeOK
<1>2. TypeOK /\ [Next]_vars => TypeOK'
  BY StepTypes
<1> QED BY <1>1, <1>2, PTL DEF Spec
=============================================================================
