-------------------------- MODULE MQTTSessionProofs ---------------------------
(***************************************************************************)
(* Proofs about MQTTSession, for every value of its constants: types, the  *)
(* session, the ping, and, last, the requests, their identifiers and their *)
(* answers.  Each part states its invariant in front of its lemmas.        *)
(***************************************************************************)
EXTENDS MQTTSession, TLAPS

\* Every packet Pkt builds from well-typed parts is a Packet.
LEMMA PktType ==
  ASSUME NEW STATE type, type \in ClientPackets \cup BrokerPackets, NEW STATE id, id \in Nat,
         NEW STATE call, call \in Nat, NEW STATE topic, topic \in Topic, NEW STATE val, val \in Nat,
         NEW STATE ok, ok \in BOOLEAN
  PROVE  Pkt(type, id, call, topic, val, ok) \in Packet
BY DEF Pkt, Packet

\* sendPacket keeps the stream to the broker well typed.
LEMMA SendType ==
  ASSUME NEW STATE p, p \in Packet, NEW rc, toBroker \in Seq(Packet), pingExpired \in BOOLEAN,
         sendPacket(p, rc)
  PROVE  toBroker' \in Seq(Packet) /\ pingExpired' \in BOOLEAN
<1>1. toBroker' \in Seq(Packet)
  BY SMT DEF sendPacket
<1>2. pingExpired' \in BOOLEAN
  BY Zenon DEF sendPacket
<1> QED BY <1>1, <1>2

LEMMA KeepaliveType ==
  ASSUME NEW STATE b, b \in BOOLEAN, NEW rc, toBroker \in Seq(Packet), pingExpired \in BOOLEAN,
         keepalive(b, rc)
  PROVE  toBroker' \in Seq(Packet) /\ pingExpired' \in BOOLEAN /\ ping_outstanding' \in BOOLEAN
<1>1. Pkt("PINGREQ", 0, 0, NoTopic, 0, TRUE) \in Packet
  BY PktType DEF ClientPackets, Topic
<1>2. CASE keepAliveInterval # 0 /\ pingExpired /\ ~b
  BY <1>1, <1>2, SendType DEF keepalive
<1>3. CASE ~(keepAliveInterval # 0 /\ pingExpired /\ ~b)
  BY <1>3 DEF keepalive
<1> QED BY <1>2, <1>3

\* The variables that what follows a cycle() or a send may change.
CallTypeOK ==
  /\ isconnected \in BOOLEAN
  /\ messageHandlers \in [Slots -> Topic]
  /\ cur \in Call
  /\ ret \in [op : Ops \cup {"idle"}, rc : Int]
  /\ completed \subseteq [op : Ops, call : Nat, id : Nat, ack : Nat, ackid : Nat]
  /\ unserved \subseteq Topic

LEMMA ReturnType ==
  ASSUME NEW STATE op, op \in Ops \cup {"idle"}, NEW STATE rc, rc \in Int, Return(op, rc)
  PROVE  cur' \in Call /\ ret' \in [op : Ops \cup {"idle"}, rc : Int]
BY DEF Return, Idle, Call, Topic

LEMMA LoopHeadType ==
  ASSUME CallTypeOK, NEW e \in BOOLEAN, LoopHead(e)
  PROVE  CallTypeOK'
<1>1. cur.op \in Ops \cup {"idle"}
  BY DEF CallTypeOK, Call
<1>2. CASE e
  BY <1>1, <1>2, ReturnType DEF LoopHead, CallTypeOK, SUCCESS, FAILURE
<1>3. CASE ~e
  BY <1>3 DEF LoopHead, CallTypeOK
<1> QED BY <1>2, <1>3

LEMMA CycleFailsType ==
  ASSUME CallTypeOK, NEW e \in BOOLEAN, CycleFails(e)
  PROVE  CallTypeOK'
<1>1. CASE cur.op = "YIELD"
  BY <1>1, ReturnType DEF CycleFails, CallTypeOK, FAILURE, Ops
<1>2. CASE cur.op # "YIELD"
  BY <1>2, LoopHeadType DEF CycleFails
<1> QED BY <1>1, <1>2

LEMMA RecordType ==
  ASSUME CallTypeOK, InCall, NEW STATE p, p \in Packet, Record(p)
  PROVE  completed' \subseteq [op : Ops, call : Nat, id : Nat, ack : Nat, ackid : Nat]
BY DEF CallTypeOK, Call, InCall, Record, Packet

LEMMA CycleReturnsType ==
  ASSUME CallTypeOK, InCall, NEW STATE p, p \in Packet, NEW e \in BOOLEAN, CycleReturns(p, e)
  PROVE  CallTypeOK'
<1> USE DEF SUCCESS, FAILURE
<1>p. p.ok \in BOOLEAN /\ p.val \in Nat
  BY DEF Packet
<1>o. cur.op \in Ops /\ cur.topic \in Topic
  BY DEF CallTypeOK, Call, InCall
<1>1. CASE p.type # Awaited(cur.op)
  BY <1>1, LoopHeadType DEF CycleReturns
<1>2. CASE p.type = Awaited(cur.op) /\ cur.op = "CONNECT"
  <2>1. ConnectCompletes(p)
    BY <1>2 DEF CycleReturns
  <2> QED BY <1>p, <2>1, ReturnType DEF ConnectCompletes, CallTypeOK, Ops
<1>3. CASE p.type = Awaited(cur.op) /\ cur.op = "SUBSCRIBE"
  <2>1. SubscribeCompletes(p)
    BY <1>3 DEF CycleReturns
  <2> DEFINE granted == IF p.ok THEN readChar(p.val) ELSE SUCCESS
  <2>2. granted \in Int
    BY <1>p DEF readChar
  <2> HIDE DEF granted
  <2>3. CASE granted = SubscribeRefused
    BY <2>1, <2>2, <2>3, ReturnType DEF SubscribeCompletes, CallTypeOK, Ops, granted
  <2>4. CASE granted # SubscribeRefused
    <3>1. /\ Return("SUBSCRIBE", IF FreeSlots = {} THEN granted ELSE 0)
          /\ messageHandlers' = InstallHandler(cur.topic)
          /\ Record(p)
          /\ unserved' \subseteq unserved
          /\ UNCHANGED isconnected
      BY <2>1, <2>4 DEF SubscribeCompletes, granted
    <3>2. InstallHandler(cur.topic) \in [Slots -> Topic]
      BY <1>o DEF InstallHandler, CallTypeOK
    <3>3. (IF FreeSlots = {} THEN granted ELSE 0) \in Int
      BY <2>2
    <3>4. cur' \in Call /\ ret' \in [op : Ops \cup {"idle"}, rc : Int]
      BY <3>1, <3>3, ReturnType DEF Ops
    <3>5. completed' \subseteq [op : Ops, call : Nat, id : Nat, ack : Nat, ackid : Nat]
      BY <3>1, RecordType
    <3> QED BY <3>1, <3>2, <3>4, <3>5 DEF CallTypeOK
  <2> QED BY <2>3, <2>4
<1>4. CASE p.type = Awaited(cur.op) /\ cur.op = "UNSUBSCRIBE"
  <2>1. UnsubscribeCompletes(p)
    BY <1>4 DEF CycleReturns
  <2> QED BY <2>1, ReturnType, RecordType DEF UnsubscribeCompletes, CallTypeOK, Ops
<1>5. CASE p.type = Awaited(cur.op) /\ cur.op \notin {"CONNECT", "SUBSCRIBE", "UNSUBSCRIBE"}
  <2>1. PublishCompletes(p)
    BY <1>5 DEF CycleReturns
  <2>2. completed' \subseteq [op : Ops, call : Nat, id : Nat, ack : Nat, ackid : Nat]
    BY <2>1, RecordType DEF PublishCompletes
  <2> QED BY <1>o, <2>1, <2>2, ReturnType DEF PublishCompletes, CallTypeOK
<1> QED BY <1>1, <1>2, <1>3, <1>4, <1>5

\* TypeOK in the parts the steps of the client deal with.
LEMMA TypeParts ==
  TypeOK <=> /\ CallTypeOK
             /\ toBroker \in Seq(Packet) /\ pingExpired \in BOOLEAN
             /\ toClient \in Seq(Packet) /\ link \in {"up", "closed"}
             /\ ping_outstanding \in BOOLEAN
             /\ next_packetid \in 0..UINT_MAX /\ keepAliveInterval \in KeepAliveIntervals
             /\ ncalls \in 0..MaxCalls /\ nconns \in 0..MaxConns
             /\ BrokerTypeOK
BY DEF TypeOK, ClientTypeOK, WireTypeOK, CallTypeOK

LEMMA ReadType ==
  ASSUME toClient \in Seq(Packet), readPacket
  PROVE  /\ Head(toClient) \in Packet
         /\ toClient' \in Seq(Packet)
         /\ InCall
BY DEF readPacket

\* One cycle() of a call keeps every variable's type.
LEMMA CycleType ==
  ASSUME TypeOK, NEW e \in BOOLEAN, NEW rc \in Results, cycle(e, rc), UNCHANGED brokerVars
  PROVE  TypeOK'
<1> DEFINE p == Head(toClient)
<1>t. /\ CallTypeOK
      /\ toBroker \in Seq(Packet) /\ pingExpired \in BOOLEAN
      /\ toClient \in Seq(Packet) /\ link \in {"up", "closed"}
      /\ ping_outstanding \in BOOLEAN
      /\ next_packetid \in 0..UINT_MAX /\ keepAliveInterval \in KeepAliveIntervals
      /\ ncalls \in 0..MaxCalls /\ nconns \in 0..MaxConns
      /\ BrokerTypeOK
  BY TypeParts
<1>b. BrokerTypeOK'
  BY <1>t DEF BrokerTypeOK, brokerVars
<1>q. SUFFICES
        ASSUME UNCHANGED entryVars
        PROVE  /\ CallTypeOK'
               /\ toBroker' \in Seq(Packet) /\ pingExpired' \in BOOLEAN
               /\ toClient' \in Seq(Packet)
               /\ ping_outstanding' \in BOOLEAN
  <2>1. UNCHANGED entryVars
    BY DEF cycle, CyclePlain, CyclePublish, CyclePubrec, CycleReadFails
  <2>2. /\ link' \in {"up", "closed"}
        /\ next_packetid' \in 0..UINT_MAX /\ keepAliveInterval' \in KeepAliveIntervals
        /\ ncalls' \in 0..MaxCalls /\ nconns' \in 0..MaxConns
    BY <2>1, <1>t DEF entryVars
  <2>3. ASSUME /\ CallTypeOK'
               /\ toBroker' \in Seq(Packet) /\ pingExpired' \in BOOLEAN
               /\ toClient' \in Seq(Packet)
               /\ ping_outstanding' \in BOOLEAN
        PROVE  TypeOK'
    BY <2>2, <2>3, <1>b DEF TypeOK, ClientTypeOK, WireTypeOK, CallTypeOK
  <2> QED BY <2>1, <2>3
<1>1. CASE CyclePlain(e, rc)
  <2>1. p \in Packet /\ toClient' \in Seq(Packet) /\ InCall
    BY <1>1, <1>t, ReadType DEF CyclePlain
  <2>2. CallTypeOK'
    BY <1>1, <1>t, <2>1, CycleReturnsType DEF CyclePlain
  <2>3. (ping_outstanding /\ p.type # "PINGRESP") \in BOOLEAN
    OBVIOUS
  <2>4. keepalive(ping_outstanding /\ p.type # "PINGRESP", rc)
    BY <1>1 DEF CyclePlain
  <2>5. toBroker' \in Seq(Packet) /\ pingExpired' \in BOOLEAN /\ ping_outstanding' \in BOOLEAN
    BY <1>t, <2>3, <2>4, KeepaliveType
  <2> QED BY <1>t, <2>1, <2>2, <2>4, <2>5
<1>2. CASE CyclePublish(e, rc)
  <2>1. p \in Packet /\ toClient' \in Seq(Packet) /\ InCall
    BY <1>2, <1>t, ReadType DEF CyclePublish
  <2>2. CallTypeOK'
    BY <1>2, <1>t, <2>1, CycleReturnsType, CycleFailsType DEF CyclePublish
  <2> DEFINE ack == Pkt(IF p.val = 1 THEN "PUBACK" ELSE "PUBREC", p.id, 0, NoTopic, 0, TRUE)
  <2>4. ack \in Packet
    BY <2>1, PktType DEF Packet, ClientPackets, Topic
  <2>5. CASE UNCHANGED <<toBroker, pingExpired, ping_outstanding>>
    BY <1>t, <2>1, <2>2, <2>5
  <2>6. CASE keepalive(ping_outstanding, rc)
    BY <1>t, <2>1, <2>2, <2>6, KeepaliveType
  <2>7. CASE sendPacket(ack, rc) /\ UNCHANGED ping_outstanding
    <3> HIDE DEF ack
    <3>1. toBroker' \in Seq(Packet) /\ pingExpired' \in BOOLEAN
      BY <1>t, <2>4, <2>7, SendType
    <3> QED BY <1>t, <2>1, <2>2, <2>7, <3>1
  <2> QED BY <1>2, <2>5, <2>6, <2>7 DEF CyclePublish
<1>3. CASE CyclePubrec(e, rc)
  <2>1. p \in Packet /\ toClient' \in Seq(Packet) /\ InCall
    BY <1>3, <1>t, ReadType DEF CyclePubrec
  <2>2. CallTypeOK'
    BY <1>3, <1>t, <2>1, CycleReturnsType, CycleFailsType DEF CyclePubrec
  <2>3. ping_outstanding' = ping_outstanding
    BY <1>3 DEF CyclePubrec
  <2> DEFINE rel == Pkt("PUBREL", p.id, p.call, NoTopic, 0, TRUE)
  <2>4. rel \in Packet
    BY <2>1, PktType DEF Packet, ClientPackets, Topic
  <2>5. sendPacket(rel, rc)
    BY <1>3 DEF CyclePubrec
  <2> HIDE DEF rel
  <2>6. toBroker' \in Seq(Packet) /\ pingExpired' \in BOOLEAN
    BY <1>t, <2>4, <2>5, SendType
  <2> QED BY <1>t, <2>1, <2>2, <2>3, <2>6
<1>4. CASE CycleReadFails(e, rc)
  <2>1. keepalive(ping_outstanding, rc) /\ LoopHead(e) /\ UNCHANGED toClient
    BY <1>4 DEF CycleReadFails
  <2> QED BY <1>t, <2>1, KeepaliveType, LoopHeadType
<1> QED BY <1>1, <1>2, <1>3, <1>4 DEF cycle

\* The identifiers of the packets are natural numbers, whatever next_packetid is.
LEMMA NextIdType ==
  ASSUME next_packetid \in 0..UINT_MAX
  PROVE  getNextPacketId \in 0..UINT_MAX /\ Short(getNextPacketId) \in Nat
<1>1. getNextPacketId \in 0..UINT_MAX
  BY ClientAssumption DEF getNextPacketId
<1>2. ASSUME NEW n \in Nat PROVE Short(n) \in Nat
  BY ClientAssumption DEF Short
<1> QED BY <1>1, <1>2, ClientAssumption

\* Entering a call, or failing at its start, keeps the types.
LEMMA BeginType ==
  ASSUME CallTypeOK, NEW STATE c, c \in Call, NEW rc, NEW e, Begin(c, rc, e)
  PROVE  cur' \in Call /\ ret' \in [op : Ops \cup {"idle"}, rc : Int]
<1>1. c.op \in Ops \cup {"idle"} /\ FAILURE \in Int
  BY DEF Call, FAILURE
<1> QED BY <1>1, ReturnType DEF Begin, CallTypeOK

\* The entry of every API call keeps every variable's type.
LEMMA RequestType ==
  ASSUME TypeOK, NEW op \in Ops, NEW type \in ClientPackets, NEW topic \in Topic,
         NEW qos \in Nat, NEW rc, NEW e, Request(op, type, topic, qos, rc, e),
         UNCHANGED brokerVars
  PROVE  TypeOK'
<1> DEFINE id == Short(getNextPacketId)
           pkt == Pkt(type, id, ncalls + 1, topic, qos, TRUE)
           call == [op |-> op, call |-> ncalls + 1, id |-> id, topic |-> topic]
<1>1. CallTypeOK /\ BrokerTypeOK /\ toBroker \in Seq(Packet) /\ pingExpired \in BOOLEAN
  BY TypeParts
<1>2. id \in Nat /\ getNextPacketId \in 0..UINT_MAX
  BY NextIdType DEF TypeOK, ClientTypeOK
<1>3. ncalls + 1 \in Nat /\ (ncalls < MaxCalls => ncalls + 1 \in 0..MaxCalls)
  BY ClientAssumption DEF TypeOK, ClientTypeOK
<1>4. pkt \in Packet /\ call \in Call
  <2> HIDE DEF id
  <2>1. pkt \in Packet
    BY <1>2, <1>3, PktType
  <2>2. call \in Call
    BY <1>2, <1>3 DEF Call
  <2> QED BY <2>1, <2>2
<1>5. /\ sendPacket(pkt, rc) /\ Begin(call, rc, e)
      /\ ncalls < MaxCalls /\ ncalls' = ncalls + 1 /\ next_packetid' = getNextPacketId
      /\ unserved' \in {unserved, unserved \cup {topic}}
      /\ UNCHANGED <<isconnected, keepAliveInterval, cycleVars>>
  BY DEF Request
<1> HIDE DEF id, pkt, call
<1>6. toBroker' \in Seq(Packet) /\ pingExpired' \in BOOLEAN
  BY <1>1, <1>4, <1>5, SendType
<1>7. cur' \in Call /\ ret' \in [op : Ops \cup {"idle"}, rc : Int]
  BY <1>1, <1>4, <1>5, BeginType
<1>8. BrokerTypeOK'
  BY <1>1 DEF BrokerTypeOK, brokerVars
<1> QED
  BY <1>2, <1>3, <1>5, <1>6, <1>7, <1>8
     DEF TypeOK, ClientTypeOK, WireTypeOK, cycleVars

LEMMA ClientType ==
  ASSUME TypeOK, ClientNext, UNCHANGED brokerVars
  PROVE  TypeOK'
<1> USE DEF SUCCESS, FAILURE
<1>t. CallTypeOK /\ BrokerTypeOK /\ toBroker \in Seq(Packet) /\ pingExpired \in BOOLEAN
  BY TypeParts
<1>b. BrokerTypeOK'
  BY <1>t DEF BrokerTypeOK, brokerVars
<1>n. ncalls + 1 \in Nat /\ (ncalls < MaxCalls => ncalls + 1 \in 0..MaxCalls)
  BY ClientAssumption DEF TypeOK, ClientTypeOK
<1>1. CASE MQTTYield
  <2>1. [Idle EXCEPT !.op = "YIELD"] \in Call
    BY DEF Idle, Call, Ops, Topic
  <2> QED BY <1>1, <1>b, <2>1
             DEF MQTTYield, TypeOK, ClientTypeOK, WireTypeOK, structVars, wireVars
<1>2. CASE PingTimerExpires
  BY <1>2, <1>b DEF PingTimerExpires, TypeOK, ClientTypeOK, WireTypeOK, cycleVars
<1>3. ASSUME NEW rc \in Results, MQTTDisconnect(rc) PROVE TypeOK'
  <2>1. Pkt("DISCONNECT", 0, ncalls + 1, NoTopic, 0, TRUE) \in Packet
    BY <1>n, PktType DEF ClientPackets, Topic
  <2>2. toBroker' \in Seq(Packet) /\ pingExpired' \in BOOLEAN
    BY <1>t, <1>3, <2>1, SendType DEF MQTTDisconnect
  <2>3. cur' \in Call /\ ret' \in [op : Ops \cup {"idle"}, rc : Int]
    BY <1>3, ReturnType DEF MQTTDisconnect, Results, Ops
  <2> QED BY <1>3, <1>n, <1>b, <2>2, <2>3
             DEF MQTTDisconnect, TypeOK, ClientTypeOK, WireTypeOK, cycleVars
<1>4. ASSUME NEW rc \in Results, NEW e \in BOOLEAN, NEW k \in KeepAliveIntervals,
             MQTTConnect(k, rc, e)
      PROVE  TypeOK'
  <2> DEFINE pkt == Pkt("CONNECT", 0, ncalls + 1, NoTopic, 0, TRUE)
             call == [op |-> "CONNECT", call |-> ncalls + 1, id |-> 0, topic |-> NoTopic]
  <2>1. pkt \in Packet /\ call \in Call
    BY <1>n, PktType DEF ClientPackets, Topic, Call, Ops
  <2>2. cur' \in Call /\ ret' \in [op : Ops \cup {"idle"}, rc : Int]
    <3>1. CASE Return("CONNECT", FAILURE)
      BY <3>1, ReturnType DEF Ops
    <3>2. CASE Begin(call, rc, e)
      <4> HIDE DEF call
      <4> QED BY <1>t, <2>1, <3>2, BeginType
    <3> QED BY <1>4, <3>1, <3>2 DEF MQTTConnect
  <2>3. toBroker' \in Seq(Packet) /\ pingExpired' \in BOOLEAN
        /\ keepAliveInterval' \in KeepAliveIntervals /\ ncalls' \in 0..MaxCalls
    <3> HIDE DEF pkt
    <3>1. toBroker' \in {toBroker, Append(toBroker, pkt)}
      BY <1>4 DEF MQTTConnect, pkt
    <3>2. toBroker' \in Seq(Packet)
      BY <1>t, <2>1, <3>1
    <3>3. pingExpired' \in BOOLEAN
      BY <1>4, <1>t DEF MQTTConnect
    <3>4. keepAliveInterval' \in KeepAliveIntervals /\ ncalls' \in 0..MaxCalls
      BY <1>4, <1>n DEF MQTTConnect, TypeOK, ClientTypeOK
    <3> QED BY <3>2, <3>3, <3>4
  <2> QED BY <1>4, <1>b, <2>2, <2>3
             DEF MQTTConnect, TypeOK, ClientTypeOK, WireTypeOK, cycleVars
<1>5. ASSUME NEW op \in Ops, NotConnected(op) PROVE TypeOK'
  BY <1>5, <1>b, ReturnType
     DEF NotConnected, TypeOK, ClientTypeOK, WireTypeOK, structVars, wireVars
<1>6. ASSUME NEW rc \in Results, NEW t \in Topics, PublishQoS0(t, rc) PROVE TypeOK'
  <2>1. Pkt("PUBLISH", 0, ncalls + 1, t, 0, TRUE) \in Packet
    BY <1>n, PktType DEF ClientPackets, Topic
  <2>2. toBroker' \in Seq(Packet) /\ pingExpired' \in BOOLEAN
    BY <1>t, <1>6, <2>1, SendType DEF PublishQoS0
  <2>3. cur' \in Call /\ ret' \in [op : Ops \cup {"idle"}, rc : Int]
    BY <1>6, ReturnType DEF PublishQoS0, Results, Ops
  <2> QED BY <1>6, <1>n, <1>b, <2>2, <2>3
             DEF PublishQoS0, TypeOK, ClientTypeOK, WireTypeOK, cycleVars
<1>7. ASSUME NEW rc \in Results, NEW e \in BOOLEAN, NEW f \in Filters,
             MQTTSubscribe(f, rc, e) \/ MQTTUnsubscribe(f, rc, e)
      PROVE  TypeOK'
  BY <1>5, <1>7, RequestType DEF MQTTSubscribe, MQTTUnsubscribe, Ops, ClientPackets, Topic
<1>8. ASSUME NEW rc \in Results, NEW e \in BOOLEAN, NEW t \in Topics, NEW q \in 0..2,
             MQTTPublish(t, q, rc, e)
      PROVE  TypeOK'
  <2>1. <<"PUBLISH0", "PUBLISH1", "PUBLISH2">>[q + 1] \in Ops
    BY q \in 0..2 DEF Ops
  <2>2. CASE NotConnected(<<"PUBLISH0", "PUBLISH1", "PUBLISH2">>[q + 1])
    BY <1>5, <2>1, <2>2
  <2>3. CASE PublishQoS0(t, rc)
    BY <1>6, <2>3
  <2>4. CASE Request("PUBLISH1", "PUBLISH", t, 1, rc, e)
    BY <2>4, RequestType DEF Ops, ClientPackets, Topic
  <2>5. CASE Request("PUBLISH2", "PUBLISH", t, 2, rc, e)
    BY <2>5, RequestType DEF Ops, ClientPackets, Topic
  <2> QED BY <1>8, <2>2, <2>3, <2>4, <2>5 DEF MQTTPublish
<1>9. ASSUME NEW rc \in Results, NEW e \in BOOLEAN, cycle(e, rc) PROVE TypeOK'
  BY <1>9, CycleType
<1> QED BY <1>1, <1>2, <1>3, <1>4, <1>7, <1>8, <1>9 DEF ClientNext

\* The broker's steps keep every variable's type.
LEMMA ReceiveType ==
  ASSUME toBroker \in Seq(Packet), NEW types, Receive(types)
  PROVE  /\ toBroker # <<>>
         /\ Head(toBroker) \in Packet /\ Tail(toBroker) \in Seq(Packet)
         /\ Head(toBroker).type \in types
BY DEF Receive

LEMMA BrokerType ==
  ASSUME TypeOK, BrokerNext \/ LinkCloses, UNCHANGED clientVars
  PROVE  TypeOK'
<1> USE DEF SUCCESS, FAILURE
<1> DEFINE p == Head(toBroker)
<1>t. toBroker \in Seq(Packet) /\ toClient \in Seq(Packet) /\ BrokerTypeOK /\ ClientTypeOK
      /\ link \in {"up", "closed"}
  BY DEF TypeOK, WireTypeOK
<1>c. ClientTypeOK'
  BY <1>t DEF ClientTypeOK, clientVars, structVars
<1>s. SUFFICES WireTypeOK' /\ BrokerTypeOK'
  BY <1>c DEF TypeOK
<1>i. \A ok \in Intact : ok \in BOOLEAN
  BY BrokerAssumption
<1>p. /\ \A v \in {SUCCESS, ConnectRefused, SubscribeRefused} : v \in Nat
      /\ NoTopic \in Topic /\ Topics \subseteq Topic
      /\ npubs + 1 \in Nat /\ (npubs < MaxPubs => npubs + 1 \in 0..MaxPubs)
  BY <1>t, BrokerAssumption DEF ConnectRefused, SubscribeRefused, Topic, BrokerTypeOK
<1>m. \A t \in Topics, q \in 0..2, ok \in BOOLEAN : Message(t, q, ok) \in Packet
  <2> TAKE t \in Topics, q \in 0..2, ok \in BOOLEAN
  <2>1. t \in Topic /\ q \in Nat /\ npubs + 1 \in Nat /\ 0 \in Nat
    BY <1>p
  <2>2. "PUBLISH" \in ClientPackets \cup BrokerPackets
    BY DEF BrokerPackets
  <2> QED BY <2>1, <2>2, PktType DEF Message
<1>f. p \in Packet => p.id \in Nat /\ p.call \in Nat /\ p.topic \in Topic
  BY DEF Packet
<1>x. CloseLink => link' \in {"up", "closed"} /\ toBroker' \in Seq(Packet)
  BY DEF CloseLink
<1>1. ASSUME NEW v \in {SUCCESS, ConnectRefused}, BrokerConnect(v)
      PROVE  WireTypeOK' /\ BrokerTypeOK'
  <2>1. p \in Packet /\ Tail(toBroker) \in Seq(Packet)
    BY <1>1, <1>t, ReceiveType DEF BrokerConnect
  <2> DEFINE connack == Pkt("CONNACK", 0, p.call, NoTopic, v, TRUE)
  <2>2. connack \in Packet
    <3>1. v \in Nat /\ p.call \in Nat /\ NoTopic \in Topic
      BY <1>1, <1>p, <1>f, <2>1
    <3> HIDE DEF p
    <3> QED BY <3>1, PktType DEF BrokerPackets
  <2>3. toClient' \in {toClient, Append(toClient, connack)}
    BY <1>1 DEF BrokerConnect
  <2> HIDE DEF connack
  <2>4. toClient' \in Seq(Packet)
    BY <1>t, <2>2, <2>3
  <2>5. link' \in {"up", "closed"} /\ toBroker' \in Seq(Packet)
    BY <1>1, <1>t, <1>x, <2>1 DEF BrokerConnect
  <2>6. BrokerTypeOK'
    BY <1>1, <1>t DEF BrokerConnect, BrokerTypeOK
  <2> QED BY <2>4, <2>5, <2>6 DEF WireTypeOK
<1>2. ASSUME NEW ok \in Intact, NEW v \in {0, SubscribeRefused}, NEW early \in BOOLEAN,
             BrokerSubscribe(v, early, ok)
      PROVE  WireTypeOK' /\ BrokerTypeOK'
  <2>1. p \in Packet /\ Tail(toBroker) \in Seq(Packet)
    BY <1>2, <1>t, ReceiveType DEF BrokerSubscribe
  <2> DEFINE suback == Pkt("SUBACK", p.id, p.call, NoTopic, v, ok)
  <2>2. suback \in Packet
    <3>1. v \in Nat /\ ok \in BOOLEAN /\ p.id \in Nat /\ p.call \in Nat /\ NoTopic \in Topic
      BY <1>2, <1>i, <1>p, <1>f, <2>1
    <3> HIDE DEF p
    <3> QED BY <3>1, PktType DEF BrokerPackets
  <2>3. \A t \in Topics : Message(t, 0, TRUE) \in Packet
    <3>1. 0 \in 0..2 /\ TRUE \in BOOLEAN
      OBVIOUS
    <3> QED BY <3>1, <1>m, Zenon
  <2>4. toClient' \in Seq(Packet) /\ toBroker' = Tail(toBroker)
    <3>1. CASE Reply(<<suback>>)
      <4> HIDE DEF suback
      <4> QED BY <1>t, <2>2, <3>1 DEF Reply
    <3>2. ASSUME NEW t \in Topics, Reply(<<Message(t, 0, TRUE), suback>>)
          PROVE  toClient' \in Seq(Packet) /\ toBroker' = Tail(toBroker)
      <4> DEFINE msg == Message(t, 0, TRUE)
      <4>1. msg \in Packet
        BY <2>3
      <4>2. toClient' = toClient \o <<msg, suback>> /\ toBroker' = Tail(toBroker)
        BY <3>2 DEF Reply
      <4> HIDE DEF msg, suback
      <4> QED BY <1>t, <2>2, <4>1, <4>2
    <3> QED BY <1>2, <3>1, <3>2 DEF BrokerSubscribe
  <2>5. subs' \subseteq Topic /\ done' \subseteq FinalAcks \X Nat
    <3>1. p.topic \in Topic /\ p.call \in Nat
      BY <2>1 DEF Packet
    <3> QED BY <1>2, <1>t, <3>1 DEF BrokerSubscribe, BrokerTypeOK, FinalAcks
  <2>6. npubs' \in 0..MaxPubs
    <3>1. npubs' = npubs \/ (npubs < MaxPubs /\ npubs' = npubs + 1)
      BY <1>2 DEF BrokerSubscribe
    <3> QED BY <1>t, <1>p, <3>1 DEF BrokerTypeOK
  <2>7. UNCHANGED <<link, accepted>>
    BY <1>2 DEF BrokerSubscribe
  <2> QED BY <1>t, <2>1, <2>4, <2>5, <2>6, <2>7 DEF WireTypeOK, BrokerTypeOK
<1>3. ASSUME BrokerAnswer
      PROVE  WireTypeOK' /\ BrokerTypeOK'
  <2>1. p \in Packet /\ Tail(toBroker) \in Seq(Packet)
    BY <1>3, <1>t, ReceiveType DEF BrokerAnswer
  <2> DEFINE answer == Pkt(AnswerType(p), p.id, p.call, NoTopic, 0, TRUE)
  <2>2. AnswerType(p) \in BrokerPackets \cup {"none"}
    BY DEF AnswerType, BrokerPackets
  <2>3. AnswerType(p) # "none" => answer \in Packet
    BY <2>1, <2>2, PktType, BrokerAssumption DEF Packet, Topic
  <2>4. toBroker' = Tail(toBroker)
        /\ toClient' = toClient \o (IF AnswerType(p) = "none" THEN <<>> ELSE <<answer>>)
    BY <1>3 DEF BrokerAnswer, Reply
  <2> HIDE DEF answer
  <2>5. toClient' \in Seq(Packet)
    BY <1>t, <2>3, <2>4
  <2>6. subs' \subseteq Topic /\ UNCHANGED <<link, accepted, npubs>>
    BY <1>3, <1>t DEF BrokerAnswer, BrokerTypeOK
  <2>7. done' \subseteq FinalAcks \X Nat
    <3>1. p.call \in Nat
      BY <2>1 DEF Packet
    <3> QED BY <1>3, <1>t, <3>1 DEF BrokerAnswer, BrokerTypeOK
  <2> QED BY <1>t, <2>1, <2>4, <2>5, <2>6, <2>7 DEF WireTypeOK, BrokerTypeOK
<1>4. ASSUME NEW ok \in Intact, NEW t \in Topics, NEW q \in 0..2, BrokerPublish(t, q, ok)
      PROVE  WireTypeOK' /\ BrokerTypeOK'
  <2> DEFINE msg == Message(t, q, ok)
  <2>1. msg \in Packet
    BY <1>4, <1>i, <1>m
  <2>2. /\ toClient' = Append(toClient, msg)
        /\ npubs < MaxPubs /\ npubs' = npubs + 1
        /\ UNCHANGED <<link, toBroker, accepted, subs, done>>
    BY <1>4 DEF BrokerPublish
  <2> HIDE DEF msg
  <2> QED BY <1>t, <2>1, <2>2, BrokerAssumption DEF WireTypeOK, BrokerTypeOK
<1>5. CASE BrokerDisconnect
  BY <1>5, <1>t, <1>x DEF BrokerDisconnect, brokerVars, WireTypeOK, BrokerTypeOK
<1>6. CASE LinkCloses
  BY <1>6, <1>t, <1>x DEF LinkCloses, brokerVars, WireTypeOK, BrokerTypeOK
<1> QED BY <1>1, <1>2, <1>3, <1>4, <1>5, <1>6 DEF BrokerNext

\* TypeOK is an invariant: no sequence of calls, answers, timeouts and connections
\* takes a field of struct Client, a packet or a table slot out of its type.
THEOREM TypeCorrect == Spec => []TypeOK
<1>1. Init => TypeOK
  <2> SUFFICES ASSUME Init PROVE TypeOK
    OBVIOUS
  <2>1. ClientTypeOK
    <3>1. Idle \in Call /\ [i \in Slots |-> NoTopic] \in [Slots -> Topic]
      BY DEF Idle, Call, Topic
    <3>2. next_packetid \in 0..UINT_MAX /\ 0 \in 0..MaxCalls /\ 0 \in 0..MaxConns
      BY ClientAssumption DEF Init, ClientInit
    <3>3. ret \in [op : Ops \cup {"idle"}, rc : Int]
      BY DEF Init, ClientInit, SUCCESS
    <3> QED BY <3>1, <3>2, <3>3 DEF Init, ClientInit, ClientTypeOK
  <2>2. WireTypeOK /\ BrokerTypeOK
    <3>1. <<>> \in Seq(Packet) /\ 0 \in 0..MaxPubs
      BY BrokerAssumption
    <3> QED BY <3>1 DEF Init, WireTypeOK, BrokerInit, BrokerTypeOK
  <2> QED BY <2>1, <2>2 DEF TypeOK
<1>2. TypeOK /\ [Next]_vars => TypeOK'
  <2> SUFFICES ASSUME TypeOK, [Next]_vars PROVE TypeOK'
    OBVIOUS
  <2>1. CASE NewConnection
    <3>1. nconns' \in 0..MaxConns
      BY <2>1, ClientAssumption DEF NewConnection, ConnectNetwork, TypeOK, ClientTypeOK
    <3>2. ClientTypeOK'
      BY <2>1, <3>1 DEF NewConnection, ConnectNetwork, TypeOK, ClientTypeOK, structVars
    <3>3. WireTypeOK' /\ BrokerTypeOK'
      <4>1. /\ link' = "up" /\ toBroker' = <<>> /\ toClient' = <<>> /\ accepted' = FALSE
            /\ subs' = subs /\ npubs' = npubs /\ done' = done
        BY <2>1 DEF NewConnection, ConnectNetwork
      <4>2. WireTypeOK'
        BY <4>1 DEF WireTypeOK
      <4>3. BrokerTypeOK'
        BY <4>1 DEF TypeOK, BrokerTypeOK
      <4> QED BY <4>2, <4>3
    <3> QED BY <3>2, <3>3 DEF TypeOK
  <2>2. CASE ClientNext /\ UNCHANGED brokerVars
    BY <2>2, ClientType
  <2>3. CASE (BrokerNext \/ LinkCloses) /\ UNCHANGED clientVars
    BY <2>3, BrokerType
  <2>4. CASE UNCHANGED vars
    BY <2>4 DEF vars, clientVars, structVars, wireVars, brokerVars,
                TypeOK, ClientTypeOK, WireTypeOK, BrokerTypeOK
  <2> QED BY <2>1, <2>2, <2>3, <2>4 DEF Next
<1> QED BY <1>1, <1>2, PTL DEF Spec

(***************************************************************************)
(* SessionIsReal.  The strengthening says what an unaccepted connection    *)
(* looks like from both ends: the client is not connected, it has sent no  *)
(* session packet, and nothing is on its way that would make it connected  *)
(* or make it send one.                                                    *)
(***************************************************************************)
NoSessionPacket(ch) == \A i \in DOMAIN ch : ch[i].type \notin SessionPackets

Harmless(p) ==
  /\ p.type \notin {"PUBLISH", "PUBREC"}
  /\ p.type = "CONNACK" => p.val # SUCCESS

Unaccepted ==
  /\ ~isconnected
  /\ NoSessionPacket(toBroker)
  /\ \A i \in DOMAIN toClient : Harmless(toClient[i])

SessionInv == accepted \/ Unaccepted

LEMMA AppendNoSession ==
  ASSUME NEW STATE ch, ch \in Seq(Packet), NEW STATE p, p \in Packet,
         NoSessionPacket(ch), p.type \notin SessionPackets
  PROVE  NoSessionPacket(Append(ch, p))
BY DEF NoSessionPacket

\* keepalive adds nothing but a PINGREQ to the stream.
LEMMA KeepaliveNoSession ==
  ASSUME toBroker \in Seq(Packet), NoSessionPacket(toBroker), NEW STATE b, NEW rc,
         keepalive(b, rc)
  PROVE  NoSessionPacket(toBroker')
<1> DEFINE ping == Pkt("PINGREQ", 0, 0, NoTopic, 0, TRUE)
<1>1. ping \in Packet
  BY PktType DEF ClientPackets, Topic
<1>2. ping.type \notin SessionPackets
  BY DEF Pkt, SessionPackets
<1>3. toBroker' \in {toBroker, Append(toBroker, ping)}
  BY DEF keepalive, sendPacket
<1> HIDE DEF ping
<1>4. NoSessionPacket(Append(toBroker, ping))
  BY <1>1, <1>2, AppendNoSession
<1> QED BY <1>3, <1>4

\* A step of the client on an unaccepted connection leaves it so.
LEMMA ClientUnaccepted ==
  ASSUME TypeOK, Unaccepted, ClientNext
  PROVE  Unaccepted'
<1> USE DEF SUCCESS, FAILURE
<1>t. toBroker \in Seq(Packet) /\ toClient \in Seq(Packet) /\ ncalls + 1 \in Nat
      /\ CallTypeOK
  BY TypeParts DEF TypeOK, WireTypeOK, ClientTypeOK
<1>u. ~isconnected /\ NoSessionPacket(toBroker)
      /\ \A i \in DOMAIN toClient : Harmless(toClient[i])
  BY DEF Unaccepted
<1>1. ASSUME NEW rc \in Results, NEW e \in BOOLEAN, cycle(e, rc) PROVE Unaccepted'
  <2>1. CASE CyclePlain(e, rc)
    <3> DEFINE p == Head(toClient)
    <3>1. p \in Packet /\ toClient # <<>> /\ toClient' = Tail(toClient)
      BY <2>1, <1>t, ReadType DEF CyclePlain, readPacket
    <3>2. Harmless(p) /\ \A i \in DOMAIN toClient' : Harmless(toClient'[i])
      BY <1>t, <1>u, <3>1
    <3>3. NoSessionPacket(toBroker')
      BY <1>t, <1>u, <2>1, KeepaliveNoSession DEF CyclePlain
    <3>4. ~isconnected'
      <4>1. CASE ConnectCompletes(p) /\ p.type = Awaited("CONNECT")
        BY <3>2, <4>1 DEF ConnectCompletes, Awaited, Harmless
      <4>2. CASE UNCHANGED isconnected
        BY <1>u, <4>2
      <4> QED BY <2>1, <4>1, <4>2
              DEF CyclePlain, CycleReturns, LoopHead, SubscribeCompletes,
                  UnsubscribeCompletes, PublishCompletes
    <3> QED BY <3>2, <3>3, <3>4 DEF Unaccepted
  <2>2. ~CyclePublish(e, rc) /\ ~CyclePubrec(e, rc)
    <3>1. readPacket => Harmless(Head(toClient))
      BY <1>t, <1>u DEF readPacket
    <3> QED BY <3>1 DEF CyclePublish, CyclePubrec, Harmless
  <2>3. CASE CycleReadFails(e, rc)
    <3>1. keepalive(ping_outstanding, rc) /\ UNCHANGED <<toClient, isconnected>>
      BY <2>3 DEF CycleReadFails, LoopHead
    <3>2. NoSessionPacket(toBroker')
      BY <1>t, <1>u, <3>1, KeepaliveNoSession
    <3> QED BY <1>u, <3>1, <3>2 DEF Unaccepted
  <2> QED BY <1>1, <2>1, <2>2, <2>3 DEF cycle
<1>2. ASSUME NEW rc \in Results, NEW e \in BOOLEAN, NEW k \in KeepAliveIntervals,
             MQTTConnect(k, rc, e)
      PROVE  Unaccepted'
  <2> DEFINE pkt == Pkt("CONNECT", 0, ncalls + 1, NoTopic, 0, TRUE)
  <2>1. pkt \in Packet
    BY <1>t, PktType DEF ClientPackets, Topic
  <2>2. pkt.type \notin SessionPackets
    BY DEF Pkt, SessionPackets
  <2>3. toBroker' \in {toBroker, Append(toBroker, pkt)} /\ UNCHANGED <<isconnected, toClient>>
    BY <1>2 DEF MQTTConnect, cycleVars
  <2> HIDE DEF pkt
  <2>4. NoSessionPacket(toBroker')
    BY <1>t, <1>u, <2>1, <2>2, <2>3, AppendNoSession
  <2> QED BY <1>u, <2>3, <2>4 DEF Unaccepted
<1>3. ASSUME NEW rc \in Results, MQTTDisconnect(rc) PROVE Unaccepted'
  <2> DEFINE pkt == Pkt("DISCONNECT", 0, ncalls + 1, NoTopic, 0, TRUE)
  <2>1. pkt \in Packet
    BY <1>t, PktType DEF ClientPackets, Topic
  <2>2. pkt.type \notin SessionPackets
    BY DEF Pkt, SessionPackets
  <2>3. /\ toBroker' \in {toBroker, Append(toBroker, pkt)}
        /\ ~isconnected' /\ UNCHANGED toClient
    BY <1>3 DEF MQTTDisconnect, sendPacket, cycleVars
  <2> HIDE DEF pkt
  <2>4. NoSessionPacket(toBroker')
    BY <1>t, <1>u, <2>1, <2>2, <2>3, AppendNoSession
  <2> QED BY <1>u, <2>3, <2>4 DEF Unaccepted
<1>4. ASSUME UNCHANGED <<isconnected, toBroker, toClient>> PROVE Unaccepted'
  BY <1>u, <1>4 DEF Unaccepted
<1>5. MQTTYield \/ PingTimerExpires => UNCHANGED <<isconnected, toBroker, toClient>>
  BY DEF MQTTYield, PingTimerExpires, structVars, wireVars, cycleVars
<1>6. \A op : NotConnected(op) => UNCHANGED <<isconnected, toBroker, toClient>>
  BY DEF NotConnected, structVars, wireVars
<1>7. ASSUME NEW rc \in Results, NEW e \in BOOLEAN, NEW f \in Filters,
             MQTTSubscribe(f, rc, e) \/ MQTTUnsubscribe(f, rc, e)
      PROVE  Unaccepted'
  BY <1>u, <1>4, <1>6, <1>7 DEF MQTTSubscribe, MQTTUnsubscribe, Request
<1>8. ASSUME NEW rc \in Results, NEW e \in BOOLEAN, NEW t \in Topics, NEW q \in 0..2,
             MQTTPublish(t, q, rc, e)
      PROVE  Unaccepted'
  BY <1>u, <1>4, <1>6, <1>8 DEF MQTTPublish, Request, PublishQoS0
<1> QED BY <1>1, <1>2, <1>3, <1>4, <1>5, <1>7, <1>8 DEF ClientNext

\* A step of the broker that leaves the connection unaccepted tells the client
\* nothing that could make it believe otherwise.
LEMMA BrokerUnaccepted ==
  ASSUME TypeOK, Unaccepted, ~accepted, BrokerNext \/ LinkCloses, UNCHANGED clientVars,
         ~accepted'
  PROVE  Unaccepted'
<1> USE DEF SUCCESS, FAILURE
<1>t. toBroker \in Seq(Packet) /\ toClient \in Seq(Packet)
  BY DEF TypeOK, WireTypeOK
<1>c. ~isconnected'
  BY DEF Unaccepted, clientVars, structVars
<1>x. CloseLink => NoSessionPacket(toBroker')
  BY DEF CloseLink, NoSessionPacket
<1>1. ASSUME NEW v \in {SUCCESS, ConnectRefused}, BrokerConnect(v)
      PROVE  Unaccepted'
  <2> DEFINE connack == Pkt("CONNACK", 0, Head(toBroker).call, NoTopic, v, TRUE)
  <2>1. v # SUCCESS /\ CloseLink /\ toClient' = Append(toClient, connack)
    BY <1>1 DEF BrokerConnect
  <2>2. Harmless(connack)
    BY <2>1 DEF Harmless, Pkt
  <2> HIDE DEF connack
  <2>3. \A i \in DOMAIN toClient' : Harmless(toClient'[i])
    BY <1>t, <2>1, <2>2 DEF Unaccepted
  <2> QED BY <1>c, <1>x, <2>1, <2>3 DEF Unaccepted
<1>2. CASE BrokerDisconnect \/ LinkCloses
  BY <1>2, <1>c, <1>x DEF BrokerDisconnect, LinkCloses, Unaccepted
<1>3. /\ \A ok, v, early : ~BrokerSubscribe(v, early, ok)
      /\ ~BrokerAnswer
      /\ \A t, q, ok : ~BrokerPublish(t, q, ok)
  BY DEF BrokerSubscribe, BrokerAnswer, BrokerPublish
<1> QED BY <1>1, <1>2, <1>3 DEF BrokerNext

\* SessionIsReal is an invariant: whatever CONNACKs come late, are refused or are
\* lost with their connection, isconnected implies that the broker accepted this
\* connection, and no request is sent on one it did not accept.
THEOREM SessionSafety == Spec => []SessionIsReal
<1>1. Init => SessionInv
  BY DEF Init, ClientInit, SessionInv, Unaccepted, NoSessionPacket
<1>2. TypeOK /\ SessionInv /\ [Next]_vars => SessionInv'
  <2> SUFFICES ASSUME TypeOK, SessionInv, [Next]_vars, ~accepted' PROVE Unaccepted'
    BY DEF SessionInv
  <2>1. CASE NewConnection
    BY <2>1 DEF NewConnection, ConnectNetwork, structVars, Unaccepted, NoSessionPacket
  <2>2. CASE ClientNext /\ UNCHANGED brokerVars
    BY <2>2, ClientUnaccepted DEF SessionInv, brokerVars
  <2>3. CASE (BrokerNext \/ LinkCloses) /\ UNCHANGED clientVars
    <3>1. ~accepted
      BY <2>3 DEF BrokerNext, BrokerConnect, BrokerSubscribe, BrokerAnswer, BrokerPublish,
                  BrokerDisconnect, LinkCloses, brokerVars
    <3> QED BY <2>3, <3>1, BrokerUnaccepted DEF SessionInv
  <2>4. CASE UNCHANGED vars
    BY <2>4 DEF vars, clientVars, structVars, wireVars, brokerVars, SessionInv, Unaccepted
  <2> QED BY <2>1, <2>2, <2>3, <2>4 DEF Next
<1>3. SessionInv => SessionIsReal
  BY DEF SessionInv, Unaccepted, NoSessionPacket, SessionIsReal
<1> QED BY <1>1, <1>2, <1>3, TypeCorrect, PTL DEF Spec

(***************************************************************************)
(* OnePingInFlight, from what one packet more or less in a channel does to *)
(* AtMostOnePing.                                                          *)
(***************************************************************************)
\* Any packet but a PINGREQ may be sent, any but a PINGRESP answered.
LEMMA PingSend ==
  ASSUME NEW STATE up, up \in Seq(Packet), NEW STATE down, down \in Seq(Packet),
         NEW STATE b, b \in BOOLEAN,
         NEW STATE p, p \in Packet, AtMostOnePing(up, down, b)
  PROVE  /\ p.type # "PINGREQ" => AtMostOnePing(Append(up, p), down, b)
         /\ p.type # "PINGRESP" => AtMostOnePing(up, Append(down, p), b)
         /\ p.type = "PINGREQ" /\ ~b => AtMostOnePing(Append(up, p), down, TRUE)
<1>1. ASSUME p.type # "PINGREQ" PROVE AtMostOnePing(Append(up, p), down, b)
  BY <1>1 DEF AtMostOnePing
<1>2. ASSUME p.type # "PINGRESP" PROVE AtMostOnePing(up, Append(down, p), b)
  BY <1>2 DEF AtMostOnePing
<1>3. ASSUME p.type = "PINGREQ", ~b PROVE AtMostOnePing(Append(up, p), down, TRUE)
  BY <1>3 DEF AtMostOnePing
<1> QED BY <1>1, <1>2, <1>3

\* Once the PINGRESP is read, no ping is left.
LEMMA PingRead ==
  ASSUME NEW STATE up, up \in Seq(Packet), NEW STATE down, down \in Seq(Packet),
         NEW STATE b, b \in BOOLEAN,
         AtMostOnePing(up, down, b), down # <<>>
  PROVE  AtMostOnePing(up, Tail(down), b /\ Head(down).type # "PINGRESP")
<1>1. /\ Head(down) = down[1] /\ 1 \in DOMAIN down
      /\ \A i \in DOMAIN Tail(down) : i + 1 \in DOMAIN down /\ Tail(down)[i] = down[i + 1]
                                     /\ i \in Nat /\ i + 1 # 1
  OBVIOUS
<1>2. CASE down[1].type = "PINGRESP"
  <2>1. \A i \in DOMAIN Tail(down) : Tail(down)[i].type # "PINGRESP"
    BY <1>1, <1>2 DEF AtMostOnePing
  <2>2. \A i \in DOMAIN up : up[i].type # "PINGREQ"
    BY <1>1, <1>2 DEF AtMostOnePing
  <2> QED BY <2>1, <2>2 DEF AtMostOnePing
<1>3. CASE down[1].type # "PINGRESP"
  <2>1. \A i, j \in DOMAIN Tail(down) :
          Tail(down)[i].type = "PINGRESP" /\ Tail(down)[j].type = "PINGRESP" => i = j
    BY <1>1 DEF AtMostOnePing
  <2>2. \A i \in DOMAIN up, j \in DOMAIN Tail(down) :
          ~(up[i].type = "PINGREQ" /\ Tail(down)[j].type = "PINGRESP")
    BY <1>1 DEF AtMostOnePing
  <2>3. \A i \in DOMAIN Tail(down) : Tail(down)[i].type = "PINGRESP" => b
    BY <1>1 DEF AtMostOnePing
  <2>4. AtMostOnePing(up, Tail(down), b)
    BY <2>1, <2>2, <2>3 DEF AtMostOnePing
  <2>5. (b /\ Head(down).type # "PINGRESP") = b
    BY <1>1, <1>3
  <2> QED BY <2>4, <2>5
<1> QED BY <1>2, <1>3

\* The broker takes a packet, and answers a PINGREQ with a PINGRESP.
LEMMA PingReceive ==
  ASSUME NEW STATE up, up \in Seq(Packet), NEW STATE down, down \in Seq(Packet),
         NEW STATE b, b \in BOOLEAN,
         AtMostOnePing(up, down, b), up # <<>>, NEW STATE p, p \in Packet
  PROVE  /\ AtMostOnePing(Tail(up), down, b)
         /\ Head(up).type = "PINGREQ" => AtMostOnePing(Tail(up), Append(down, p), b)
<1>1. /\ Head(up) = up[1] /\ 1 \in DOMAIN up
      /\ \A i \in DOMAIN Tail(up) : i + 1 \in DOMAIN up /\ Tail(up)[i] = up[i + 1]
                                   /\ i \in Nat /\ i + 1 # 1
  OBVIOUS
<1>2. AtMostOnePing(Tail(up), down, b)
  <2>1. \A i, j \in DOMAIN Tail(up) :
          Tail(up)[i].type = "PINGREQ" /\ Tail(up)[j].type = "PINGREQ" => i = j
    BY <1>1 DEF AtMostOnePing
  <2>2. \A i \in DOMAIN Tail(up), j \in DOMAIN down :
          ~(Tail(up)[i].type = "PINGREQ" /\ down[j].type = "PINGRESP")
    BY <1>1 DEF AtMostOnePing
  <2>3. \A i \in DOMAIN Tail(up) : Tail(up)[i].type = "PINGREQ" => b
    BY <1>1 DEF AtMostOnePing
  <2> QED BY <2>1, <2>2, <2>3 DEF AtMostOnePing
<1>3. ASSUME up[1].type = "PINGREQ" PROVE AtMostOnePing(Tail(up), Append(down, p), b)
  <2>1. \A i \in DOMAIN Tail(up) : Tail(up)[i].type # "PINGREQ"
    BY <1>1, <1>3 DEF AtMostOnePing
  <2>2. b /\ \A i \in DOMAIN down : down[i].type # "PINGRESP"
    BY <1>1, <1>3 DEF AtMostOnePing
  <2>3. \A i, j \in DOMAIN Append(down, p) :
          Append(down, p)[i].type = "PINGRESP" /\ Append(down, p)[j].type = "PINGRESP" => i = j
    BY <2>2
  <2> QED BY <2>1, <2>2, <2>3 DEF AtMostOnePing
<1> QED BY <1>1, <1>2, <1>3

LEMMA KeepalivePing ==
  ASSUME toBroker \in Seq(Packet), NEW STATE down, down \in Seq(Packet), NEW STATE b, b \in BOOLEAN,
         AtMostOnePing(toBroker, down, b), NEW rc \in Results, keepalive(b, rc)
  PROVE  AtMostOnePing(toBroker', down, ping_outstanding')
<1> DEFINE ping == Pkt("PINGREQ", 0, 0, NoTopic, 0, TRUE)
<1>1. ping \in Packet
  BY PktType DEF ClientPackets, Topic
<1>2. ping.type = "PINGREQ"
  BY DEF Pkt
<1>3. \/ toBroker' = toBroker /\ ping_outstanding' = b
      \/ ~b /\ toBroker' = toBroker /\ ping_outstanding' = TRUE
      \/ ~b /\ toBroker' = toBroker /\ ping_outstanding' = FALSE
      \/ ~b /\ toBroker' = Append(toBroker, ping) /\ ping_outstanding' = TRUE
  BY DEF keepalive, sendPacket, Results, SUCCESS, FAILURE
<1> HIDE DEF ping
<1>4. ~b => AtMostOnePing(Append(toBroker, ping), down, TRUE)
  BY <1>1, <1>2, PingSend
<1>5. ~b => AtMostOnePing(toBroker, down, TRUE) /\ AtMostOnePing(toBroker, down, FALSE)
  BY DEF AtMostOnePing
<1> QED BY <1>3, <1>4, <1>5

\* A client step that sends some other packet, or nothing, and reads nothing.
LEMMA OtherSendPing ==
  ASSUME toBroker \in Seq(Packet), NEW STATE down, down \in Seq(Packet),
         ping_outstanding \in BOOLEAN,
         AtMostOnePing(toBroker, down, ping_outstanding),
         NEW STATE p, p \in Packet, p.type # "PINGREQ",
         toBroker' \in {toBroker, Append(toBroker, p)}, UNCHANGED ping_outstanding
  PROVE  AtMostOnePing(toBroker', down, ping_outstanding')
BY PingSend

LEMMA ClientPing ==
  ASSUME TypeOK, OnePingInFlight, ClientNext
  PROVE  OnePingInFlight'
<1>t. /\ toBroker \in Seq(Packet) /\ toClient \in Seq(Packet) /\ ping_outstanding \in BOOLEAN
      /\ ncalls + 1 \in Nat
  BY DEF TypeOK, ClientTypeOK, WireTypeOK
<1>o. AtMostOnePing(toBroker, toClient, ping_outstanding)
  BY DEF OnePingInFlight
<1>1. ASSUME NEW rc \in Results, NEW e \in BOOLEAN, cycle(e, rc) PROVE OnePingInFlight'
  <2> DEFINE p == Head(toClient)
             rest == Tail(toClient)
  <2>r. readPacket => /\ p \in Packet /\ rest \in Seq(Packet) /\ toClient' = rest
                      /\ AtMostOnePing(toBroker, rest, ping_outstanding /\ p.type # "PINGRESP")
    BY <1>t, <1>o, PingRead DEF readPacket
  <2>s. p.type # "PINGRESP" => (ping_outstanding /\ p.type # "PINGRESP") = ping_outstanding
    BY <1>t
  <2>1. CASE CyclePlain(e, rc)
    <3>1. readPacket /\ keepalive(ping_outstanding /\ p.type # "PINGRESP", rc)
      BY <2>1 DEF CyclePlain
    <3>2. (ping_outstanding /\ p.type # "PINGRESP") \in BOOLEAN
      OBVIOUS
    <3>3. AtMostOnePing(toBroker', rest, ping_outstanding')
      <4> HIDE DEF p, rest
      <4> QED BY <1>t, <2>r, <3>1, <3>2, KeepalivePing
    <3> QED BY <2>r, <3>1, <3>3 DEF OnePingInFlight
  <2>2. CASE CyclePublish(e, rc)
    <3> DEFINE ack == Pkt(IF p.val = 1 THEN "PUBACK" ELSE "PUBREC", p.id, 0, NoTopic, 0, TRUE)
    <3>1. readPacket /\ p.type = "PUBLISH"
      BY <2>2 DEF CyclePublish
    <3>2. AtMostOnePing(toBroker, rest, ping_outstanding)
      BY <2>r, <2>s, <3>1
    <3>3. ack \in Packet
      BY <2>r, <3>1, PktType DEF Packet, ClientPackets, Topic
    <3>4. ack.type # "PINGREQ"
      BY DEF Pkt
    <3>5. \/ keepalive(ping_outstanding, rc)
          \/ toBroker' \in {toBroker, Append(toBroker, ack)} /\ UNCHANGED ping_outstanding
      BY <2>2 DEF CyclePublish, sendPacket
    <3>6. AtMostOnePing(toBroker', rest, ping_outstanding')
      <4> HIDE DEF ack, p, rest
      <4>1. CASE keepalive(ping_outstanding, rc)
        BY <1>t, <2>r, <3>1, <3>2, <4>1, KeepalivePing
      <4>2. CASE toBroker' \in {toBroker, Append(toBroker, ack)} /\ UNCHANGED ping_outstanding
        BY <1>t, <2>r, <3>1, <3>2, <3>3, <3>4, <4>2, OtherSendPing
      <4> QED BY <3>5, <4>1, <4>2
    <3> QED BY <2>r, <3>1, <3>6 DEF OnePingInFlight
  <2>3. CASE CyclePubrec(e, rc)
    <3> DEFINE rel == Pkt("PUBREL", p.id, p.call, NoTopic, 0, TRUE)
    <3>1. readPacket /\ p.type = "PUBREC"
      BY <2>3 DEF CyclePubrec
    <3>2. AtMostOnePing(toBroker, rest, ping_outstanding)
      BY <2>r, <2>s, <3>1
    <3>3. rel \in Packet
      BY <2>r, <3>1, PktType DEF Packet, ClientPackets, Topic
    <3>4. rel.type # "PINGREQ"
      BY DEF Pkt
    <3>5. toBroker' \in {toBroker, Append(toBroker, rel)} /\ UNCHANGED ping_outstanding
      BY <2>3 DEF CyclePubrec, sendPacket
    <3>6. AtMostOnePing(toBroker', rest, ping_outstanding')
      <4> HIDE DEF rel, p, rest
      <4> QED BY <1>t, <2>r, <3>1, <3>2, <3>3, <3>4, <3>5, OtherSendPing
    <3> QED BY <2>r, <3>1, <3>6 DEF OnePingInFlight
  <2>4. CASE CycleReadFails(e, rc)
    <3>1. keepalive(ping_outstanding, rc) /\ UNCHANGED toClient
      BY <2>4 DEF CycleReadFails
    <3> QED BY <1>t, <1>o, <3>1, KeepalivePing DEF OnePingInFlight
  <2> QED BY <1>1, <2>1, <2>2, <2>3, <2>4 DEF cycle
<1>2. ASSUME NEW STATE p, p \in Packet, p.type # "PINGREQ",
             toBroker' \in {toBroker, Append(toBroker, p)},
             UNCHANGED <<toClient, ping_outstanding>>
      PROVE  OnePingInFlight'
  BY <1>t, <1>o, <1>2, OtherSendPing DEF OnePingInFlight
<1>3. ASSUME UNCHANGED <<toBroker, toClient, ping_outstanding>> PROVE OnePingInFlight'
  BY <1>o, <1>3 DEF OnePingInFlight
<1>4. ASSUME NEW rc \in Results, NEW e \in BOOLEAN, NEW k \in KeepAliveIntervals,
             MQTTConnect(k, rc, e)
      PROVE  OnePingInFlight'
  <2> DEFINE pkt == Pkt("CONNECT", 0, ncalls + 1, NoTopic, 0, TRUE)
  <2>1. pkt \in Packet
    BY <1>t, PktType DEF ClientPackets, Topic
  <2>2. pkt.type # "PINGREQ"
    BY DEF Pkt
  <2>3. /\ toBroker' \in {toBroker, Append(toBroker, pkt)}
        /\ UNCHANGED <<toClient, ping_outstanding>>
    BY <1>4 DEF MQTTConnect, cycleVars
  <2> HIDE DEF pkt
  <2> QED BY <1>2, <2>1, <2>2, <2>3
<1>5. ASSUME NEW rc \in Results, MQTTDisconnect(rc) PROVE OnePingInFlight'
  <2> DEFINE pkt == Pkt("DISCONNECT", 0, ncalls + 1, NoTopic, 0, TRUE)
  <2>1. pkt \in Packet
    BY <1>t, PktType DEF ClientPackets, Topic
  <2>2. pkt.type # "PINGREQ"
    BY DEF Pkt
  <2>3. /\ toBroker' \in {toBroker, Append(toBroker, pkt)}
        /\ UNCHANGED <<toClient, ping_outstanding>>
    BY <1>5 DEF MQTTDisconnect, sendPacket, cycleVars
  <2> HIDE DEF pkt
  <2> QED BY <1>2, <2>1, <2>2, <2>3
<1>6. ASSUME NEW op, NEW type \in ClientPackets \ {"PINGREQ"}, NEW topic \in Topic,
             NEW qos \in Nat, NEW rc, NEW e, Request(op, type, topic, qos, rc, e)
      PROVE  OnePingInFlight'
  <2> DEFINE id == Short(getNextPacketId)
             pkt == Pkt(type, id, ncalls + 1, topic, qos, TRUE)
  <2>0. id \in Nat
    BY NextIdType DEF TypeOK, ClientTypeOK
  <2>1. pkt \in Packet
    <3> HIDE DEF id
    <3> QED BY <1>t, <2>0, PktType
  <2>2. pkt.type # "PINGREQ"
    BY DEF Pkt
  <2>3. /\ toBroker' \in {toBroker, Append(toBroker, pkt)}
        /\ UNCHANGED <<toClient, ping_outstanding>>
    BY <1>6 DEF Request, sendPacket, cycleVars
  <2> HIDE DEF pkt
  <2> QED BY <1>2, <2>1, <2>2, <2>3
<1>7. ASSUME NEW rc \in Results, NEW t \in Topics, PublishQoS0(t, rc) PROVE OnePingInFlight'
  <2> DEFINE pkt == Pkt("PUBLISH", 0, ncalls + 1, t, 0, TRUE)
  <2>1. pkt \in Packet
    BY <1>t, PktType DEF ClientPackets, Topic
  <2>2. pkt.type # "PINGREQ"
    BY DEF Pkt
  <2>3. /\ toBroker' \in {toBroker, Append(toBroker, pkt)}
        /\ UNCHANGED <<toClient, ping_outstanding>>
    BY <1>7 DEF PublishQoS0, sendPacket, cycleVars
  <2> HIDE DEF pkt
  <2> QED BY <1>2, <2>1, <2>2, <2>3
<1>8. \/ MQTTYield \/ PingTimerExpires
      \/ \E op : NotConnected(op)
      => UNCHANGED <<toBroker, toClient, ping_outstanding>>
  BY DEF MQTTYield, PingTimerExpires, NotConnected, structVars, wireVars, cycleVars
<1>9. ASSUME NEW rc \in Results, NEW e \in BOOLEAN, NEW f \in Filters,
             MQTTSubscribe(f, rc, e) \/ MQTTUnsubscribe(f, rc, e)
      PROVE  OnePingInFlight'
  BY <1>3, <1>6, <1>8, <1>9 DEF MQTTSubscribe, MQTTUnsubscribe, ClientPackets, Topic
<1>10. ASSUME NEW rc \in Results, NEW e \in BOOLEAN, NEW t \in Topics, NEW q \in 0..2,
              MQTTPublish(t, q, rc, e)
       PROVE  OnePingInFlight'
  <2>1. "PUBLISH" \in ClientPackets \ {"PINGREQ"} /\ t \in Topic /\ 1 \in Nat /\ 2 \in Nat
    BY DEF ClientPackets, Topic
  <2> QED BY <1>3, <1>6, <1>7, <1>8, <1>10, <2>1 DEF MQTTPublish
<1> QED BY <1>1, <1>3, <1>4, <1>5, <1>8, <1>9, <1>10 DEF ClientNext

LEMMA BrokerPing ==
  ASSUME TypeOK, TypeOK', OnePingInFlight, BrokerNext \/ LinkCloses, UNCHANGED clientVars
  PROVE  OnePingInFlight'
<1> DEFINE p == Head(toBroker)
           rest == Tail(toBroker)
<1>t. /\ toBroker \in Seq(Packet) /\ toClient \in Seq(Packet) /\ ping_outstanding \in BOOLEAN
      /\ toClient' \in Seq(Packet)
  BY DEF TypeOK, ClientTypeOK, WireTypeOK
<1>c. ping_outstanding' = ping_outstanding
  BY DEF clientVars, structVars
<1>o. AtMostOnePing(toBroker, toClient, ping_outstanding)
  BY DEF OnePingInFlight
<1>e. AtMostOnePing(<<>>, toClient, ping_outstanding)
  BY <1>o DEF AtMostOnePing
<1>r. ASSUME NEW types, Receive(types)
      PROVE  /\ toBroker # <<>> /\ p \in Packet /\ rest \in Seq(Packet)
             /\ AtMostOnePing(rest, toClient, ping_outstanding)
  <2>1. toBroker # <<>> /\ p \in Packet /\ rest \in Seq(Packet)
    BY <1>r, <1>t, ReceiveType
  <2> QED BY <1>t, <1>o, <2>1, PingReceive
\* A packet that is no PINGRESP after any stream that satisfies the invariant.
<1>a. ASSUME NEW STATE up, up \in Seq(Packet), AtMostOnePing(up, toClient, ping_outstanding),
             NEW STATE q, q.type # "PINGRESP", Append(toClient, q) \in Seq(Packet)
      PROVE  AtMostOnePing(up, Append(toClient, q), ping_outstanding)
  <2>1. q \in Packet
    BY <1>a, <1>t
  <2> QED BY <1>a, <1>t, <2>1, PingSend
<1>1. ASSUME NEW v \in {SUCCESS, ConnectRefused}, BrokerConnect(v)
      PROVE  OnePingInFlight'
  <2> DEFINE connack == Pkt("CONNACK", 0, p.call, NoTopic, v, TRUE)
  <2>1. rest \in Seq(Packet) /\ AtMostOnePing(rest, toClient, ping_outstanding)
    BY <1>1, <1>r DEF BrokerConnect
  <2>2. connack.type # "PINGRESP"
    BY DEF Pkt
  <2>3. toClient' \in {toClient, Append(toClient, connack)} /\ toBroker' \in {<<>>, rest}
    BY <1>1 DEF BrokerConnect, CloseLink
  <2> HIDE DEF connack, rest
  <2>4. <<>> \in Seq(Packet)
    OBVIOUS
  <2>5. toClient' = Append(toClient, connack) => connack \in Packet
    BY <1>t
  <2>6. ASSUME NEW STATE up, up \in Seq(Packet), AtMostOnePing(up, toClient, ping_outstanding)
        PROVE  AtMostOnePing(up, toClient', ping_outstanding)
    BY <1>t, <2>2, <2>3, <2>5, <2>6, PingSend
  <2>7. AtMostOnePing(<<>>, toClient', ping_outstanding)
    BY <1>e, <2>4, <2>6
  <2>8. AtMostOnePing(rest, toClient', ping_outstanding)
    BY <2>1, <2>6
  <2> QED BY <1>c, <2>3, <2>7, <2>8 DEF OnePingInFlight
<1>2. ASSUME NEW ok \in Intact, NEW v \in {0, SubscribeRefused}, NEW early \in BOOLEAN,
             BrokerSubscribe(v, early, ok)
      PROVE  OnePingInFlight'
  <2> DEFINE suback == Pkt("SUBACK", p.id, p.call, NoTopic, v, ok)
  <2>1. rest \in Seq(Packet) /\ AtMostOnePing(rest, toClient, ping_outstanding)
    BY <1>2, <1>r DEF BrokerSubscribe
  <2>2. suback.type # "PINGRESP" /\ \A t : Message(t, 0, TRUE).type # "PINGRESP"
    BY DEF Pkt, Message
  <2>3. /\ toBroker' = rest
        /\ \/ toClient' = toClient \o <<suback>>
           \/ \E t \in Topics : toClient' = toClient \o <<Message(t, 0, TRUE), suback>>
    BY <1>2 DEF BrokerSubscribe, Reply
  <2> HIDE DEF suback, rest
  <2>4. CASE toClient' = toClient \o <<suback>>
    <3>1. toClient' = Append(toClient, suback)
      BY <1>t, <2>4
    <3> QED BY <1>t, <1>c, <1>a, <2>1, <2>2, <2>3, <3>1 DEF OnePingInFlight
  <2>5. ASSUME NEW t \in Topics, toClient' = toClient \o <<Message(t, 0, TRUE), suback>>
        PROVE  OnePingInFlight'
    <3> DEFINE msg == Message(t, 0, TRUE)
    <3>0. msg.type # "PINGRESP"
      BY <2>2
    <3>x. toClient' = toClient \o <<msg, suback>>
      BY <2>5
    <3> HIDE DEF msg
    <3>1. /\ toClient' = Append(Append(toClient, msg), suback)
          /\ Len(toClient') = Len(toClient) + 2
          /\ toClient'[Len(toClient) + 1] = msg /\ toClient'[Len(toClient) + 2] = suback
      BY <1>t, <3>x
    <3>2. msg \in Packet /\ suback \in Packet
      BY <1>t, <3>1
    <3>3. AtMostOnePing(rest, Append(toClient, msg), ping_outstanding)
      BY <1>t, <2>1, <3>0, <3>2, PingSend
    <3>4. Append(toClient, msg) \in Seq(Packet)
      BY <1>t, <3>2
    <3>5. AtMostOnePing(rest, Append(Append(toClient, msg), suback), ping_outstanding)
      BY <1>t, <2>1, <2>2, <3>2, <3>3, <3>4, PingSend
    <3> QED BY <1>c, <2>3, <3>1, <3>5 DEF OnePingInFlight
  <2> QED BY <2>3, <2>4, <2>5
<1>3. ASSUME BrokerAnswer PROVE OnePingInFlight'
  <2> DEFINE answer == Pkt(AnswerType(p), p.id, p.call, NoTopic, 0, TRUE)
  <2>1. /\ toBroker # <<>> /\ rest \in Seq(Packet)
        /\ AtMostOnePing(rest, toClient, ping_outstanding)
    BY <1>3, <1>r DEF BrokerAnswer
  <2>2. answer.type = "PINGRESP" => p.type = "PINGREQ"
    BY DEF Pkt, AnswerType
  <2>3. toBroker' = rest /\ toClient' \in {toClient \o <<>>, toClient \o <<answer>>}
    BY <1>3 DEF BrokerAnswer, Reply
  <2> HIDE DEF answer
  <2>4. toClient' \in {toClient, Append(toClient, answer)}
    BY <1>t, <2>3
  <2>5. CASE toClient' = toClient
    BY <1>c, <2>1, <2>3, <2>5 DEF OnePingInFlight
  <2>6. CASE toClient' = Append(toClient, answer)
    <3>1. answer \in Packet
      BY <1>t, <2>6
    <3>2. AtMostOnePing(rest, Append(toClient, answer), ping_outstanding)
      <4>1. CASE p.type = "PINGREQ"
        BY <1>t, <1>o, <2>1, <3>1, <4>1, PingReceive
      <4>2. CASE p.type # "PINGREQ"
        <5> HIDE DEF rest
        <5> QED BY <1>t, <2>1, <2>2, <3>1, <4>2, PingSend
      <4> QED BY <4>1, <4>2
    <3> QED BY <1>c, <2>3, <2>6, <3>2 DEF OnePingInFlight
  <2> QED BY <2>4, <2>5, <2>6
<1>4. ASSUME NEW ok \in Intact, NEW t \in Topics, NEW q \in 0..2, BrokerPublish(t, q, ok)
      PROVE  OnePingInFlight'
  <2> DEFINE msg == Message(t, q, ok)
  <2>1. msg.type # "PINGRESP"
    BY DEF Message, Pkt
  <2>2. toClient' = Append(toClient, msg) /\ toBroker' = toBroker
    BY <1>4 DEF BrokerPublish
  <2> HIDE DEF msg
  <2> QED BY <1>t, <1>o, <1>c, <1>a, <2>1, <2>2 DEF OnePingInFlight
<1>5. CASE BrokerDisconnect \/ LinkCloses
  BY <1>5, <1>c, <1>e DEF BrokerDisconnect, LinkCloses, CloseLink, OnePingInFlight
<1> QED BY <1>1, <1>2, <1>3, <1>4, <1>5 DEF BrokerNext

\* OnePingInFlight is an invariant: keepalive, which runs after reads, failed reads
\* and acknowledgements alike, never has two pings under way.
THEOREM PingSafety == Spec => []OnePingInFlight
<1>1. Init => OnePingInFlight
  BY DEF Init, OnePingInFlight, AtMostOnePing
<1>2. TypeOK /\ TypeOK' /\ OnePingInFlight /\ [Next]_vars => OnePingInFlight'
  <2> SUFFICES ASSUME TypeOK, TypeOK', OnePingInFlight, [Next]_vars PROVE OnePingInFlight'
    OBVIOUS
  <2>1. CASE NewConnection
    BY <2>1 DEF NewConnection, ConnectNetwork, OnePingInFlight, AtMostOnePing
  <2>2. CASE ClientNext /\ UNCHANGED brokerVars
    BY <2>2, ClientPing
  <2>3. CASE (BrokerNext \/ LinkCloses) /\ UNCHANGED clientVars
    BY <2>3, BrokerPing
  <2>4. CASE UNCHANGED vars
    BY <2>4 DEF vars, clientVars, structVars, wireVars, OnePingInFlight
  <2> QED BY <2>1, <2>2, <2>3, <2>4 DEF Next
<1> QED BY <1>1, <1>2, TypeCorrect, PTL DEF Spec

(***************************************************************************)
(* CompletionsAreAnswered and SameIdSameRequest.  A request lives in one   *)
(* place at a time: in a packet that asks for it, in a packet that answers *)
(* it, or among the completed calls.  Its packets carry the call's number  *)
(* and identifier, and how far the identifier lies behind the client's     *)
(* bounds from below how many calls ago it was taken.                      *)
(***************************************************************************)
RequestOps == {"SUBSCRIBE", "UNSUBSCRIBE", "PUBLISH1", "PUBLISH2"}

\* The request that a packet on its way to the broker, or to the client, is part of.
Asks(p) ==
  CASE p.type = "SUBSCRIBE"             -> "SUBSCRIBE"
    [] p.type = "UNSUBSCRIBE"           -> "UNSUBSCRIBE"
    [] p.type = "PUBLISH" /\ p.val = 1  -> "PUBLISH1"
    [] p.type = "PUBLISH" /\ p.val = 2  -> "PUBLISH2"
    [] p.type = "PUBREL"                -> "PUBLISH2"
    [] OTHER                            -> "none"

Answers(p) ==
  CASE p.type = "SUBACK"    -> "SUBSCRIBE"
    [] p.type = "UNSUBACK"  -> "UNSUBSCRIBE"
    [] p.type = "PUBACK"    -> "PUBLISH1"
    [] p.type = "PUBREC"    -> "PUBLISH2"
    [] p.type = "PUBCOMP"   -> "PUBLISH2"
    [] OTHER                -> "none"

\* Request op of call k is in no packet and ended no call.
Free(op, k, up, down, ended) ==
  /\ \A i \in DOMAIN up : ~(Asks(up[i]) = op /\ up[i].call = k)
  /\ \A i \in DOMAIN down : ~(Answers(down[i]) = op /\ down[i].call = k)
  /\ \A c \in ended : ~(c.op = op /\ c.ack = k)

\* Each request is in one packet, or ended one call.
Single(up, down, ended) ==
  /\ \A i, j \in DOMAIN up :
       Asks(up[i]) # "none" /\ Asks(up[i]) = Asks(up[j]) /\ up[i].call = up[j].call => i = j
  /\ \A i, j \in DOMAIN down :
       /\ Answers(down[i]) # "none" /\ Answers(down[i]) = Answers(down[j])
       /\ down[i].call = down[j].call
       => i = j
  /\ \A i \in DOMAIN up, j \in DOMAIN down :
       ~(Asks(up[i]) # "none" /\ Asks(up[i]) = Answers(down[j]) /\ up[i].call = down[j].call)
  /\ \A i \in DOMAIN up, c \in ended : ~(Asks(up[i]) = c.op /\ up[i].call = c.ack)
  /\ \A i \in DOMAIN down, c \in ended : ~(Answers(down[i]) = c.op /\ down[i].call = c.ack)
  /\ \A c, d \in ended : c.op = d.op /\ c.ack = d.ack => c = d

Waiting == cur.op \in RequestOps

\* The identifier of call k, seen from the client's: as many calls at least lie
\* between as the identifiers are apart.
Behind(id, k, s, n) ==
  IF id <= s THEN s - id <= n - k ELSE s - id + MAX_PACKET_ID <= n - k

Recent(p, s, n, call) ==
  /\ p.id \in 0..MAX_PACKET_ID /\ p.call \in 1..n
  /\ Behind(p.id, p.call, s, n)
  /\ call.op \in RequestOps /\ p.id = call.id /\ p.call # call.call => n - p.call >= MAX_PACKET_ID

Acknowledged(p, acks) == p.type # "PUBREC" => <<p.type, p.call>> \in acks

\* The packets under way, when n calls have been made, the last identifier is s, call
\* is the one in progress, and the broker has sent acks.
Tracked(up, down, s, n, call, acks) ==
  /\ call.op \in RequestOps => call.call = n /\ call.id = s
  /\ \A i \in DOMAIN up : Asks(up[i]) # "none" => Recent(up[i], s, n, call)
  /\ \A i \in DOMAIN down :
       Answers(down[i]) # "none" => Recent(down[i], s, n, call) /\ Acknowledged(down[i], acks)

\* The completed calls.
Ended(ended, n, acks) ==
  \A c \in ended :
    /\ c.op \in RequestOps
    /\ <<FinalAck[c.op], c.ack>> \in acks
    /\ c.ack \in Nat /\ c.call \in Nat /\ c.ack <= c.call /\ c.call <= n
    /\ c.id = c.ackid /\ c.call - c.ack < MAX_PACKET_ID => c.ack = c.call

RequestInv ==
  /\ Tracked(toBroker, toClient, Short(next_packetid), ncalls, cur, done)
  /\ Ended(completed, ncalls, done)
  /\ Single(toBroker, toClient, completed)

----------------------------------------------------------------------------
\* One packet more or less, or one completed call more.
LEMMA SingleSend ==
  ASSUME NEW STATE up, up \in Seq(Packet), NEW STATE down, down \in Seq(Packet),
         NEW STATE ended, Single(up, down, ended), NEW STATE p, p \in Packet,
         Asks(p) # "none" => Free(Asks(p), p.call, up, down, ended),
         \A c \in ended : c.op # "none"
  PROVE  Single(Append(up, p), down, ended)
<1> DEFINE ap == Append(up, p)
<1>1. /\ DOMAIN ap = 1..Len(up) + 1 /\ DOMAIN up = 1..Len(up) /\ Len(up) \in Nat
      /\ ap[Len(up) + 1] = p /\ \A i \in DOMAIN up : ap[i] = up[i]
  OBVIOUS
<1> HIDE DEF ap
<1>2. \A i \in DOMAIN ap :
        \/ ap[i] = p /\ i = Len(up) + 1
        \/ i \in DOMAIN up /\ ap[i] = up[i]
  BY <1>1
<1>3. ASSUME NEW i \in DOMAIN ap, NEW j \in DOMAIN ap, Asks(ap[i]) # "none",
             Asks(ap[i]) = Asks(ap[j]), ap[i].call = ap[j].call
      PROVE  i = j
  BY <1>2, <1>3 DEF Single, Free
<1>4. \A i \in DOMAIN ap, j \in DOMAIN down :
        ~(Asks(ap[i]) # "none" /\ Asks(ap[i]) = Answers(down[j]) /\ ap[i].call = down[j].call)
  BY <1>2 DEF Single, Free
<1>5. \A i \in DOMAIN ap, c \in ended : ~(Asks(ap[i]) = c.op /\ ap[i].call = c.ack)
  BY <1>2 DEF Single, Free
<1> QED BY <1>3, <1>4, <1>5 DEF Single, ap

LEMMA SingleReply ==
  ASSUME NEW STATE up, up \in Seq(Packet), NEW STATE down, down \in Seq(Packet),
         NEW STATE ended, Single(up, down, ended), NEW STATE p, p \in Packet,
         Answers(p) # "none" => Free(Answers(p), p.call, up, down, ended),
         \A c \in ended : c.op # "none"
  PROVE  Single(up, Append(down, p), ended)
<1> DEFINE ap == Append(down, p)
<1>1. /\ DOMAIN ap = 1..Len(down) + 1 /\ DOMAIN down = 1..Len(down) /\ Len(down) \in Nat
      /\ ap[Len(down) + 1] = p /\ \A i \in DOMAIN down : ap[i] = down[i]
  OBVIOUS
<1> HIDE DEF ap
<1>2. \A i \in DOMAIN ap :
        \/ ap[i] = p /\ i = Len(down) + 1
        \/ i \in DOMAIN down /\ ap[i] = down[i]
  BY <1>1
<1>3. ASSUME NEW i \in DOMAIN ap, NEW j \in DOMAIN ap, Answers(ap[i]) # "none",
             Answers(ap[i]) = Answers(ap[j]), ap[i].call = ap[j].call
      PROVE  i = j
  BY <1>2, <1>3 DEF Single, Free
<1>4. \A i \in DOMAIN up, j \in DOMAIN ap :
        ~(Asks(up[i]) # "none" /\ Asks(up[i]) = Answers(ap[j]) /\ up[i].call = ap[j].call)
  BY <1>2 DEF Single, Free
<1>5. \A i \in DOMAIN ap, c \in ended : ~(Answers(ap[i]) = c.op /\ ap[i].call = c.ack)
  BY <1>2 DEF Single, Free
<1> QED BY <1>3, <1>4, <1>5 DEF Single, ap

LEMMA SingleReceive ==
  ASSUME NEW STATE up, up \in Seq(Packet), NEW STATE down,
         NEW STATE ended, Single(up, down, ended), up # <<>>
  PROVE  /\ Single(Tail(up), down, ended)
         /\ Asks(Head(up)) # "none" =>
              Free(Asks(Head(up)), Head(up).call, Tail(up), down, ended)
<1> DEFINE rest == Tail(up)
           p == Head(up)
<1>1. /\ p = up[1] /\ 1 \in DOMAIN up
      /\ \A i \in DOMAIN rest : i + 1 \in DOMAIN up /\ rest[i] = up[i + 1] /\ i + 1 # 1 /\ i \in Nat
  OBVIOUS
<1> HIDE DEF rest, p
<1>2. Single(rest, down, ended)
  <2>1. \A i, j \in DOMAIN rest :
          /\ Asks(rest[i]) # "none" /\ Asks(rest[i]) = Asks(rest[j])
          /\ rest[i].call = rest[j].call
          => i = j
    <3> SUFFICES ASSUME NEW i \in DOMAIN rest, NEW j \in DOMAIN rest,
                        Asks(rest[i]) # "none", Asks(rest[i]) = Asks(rest[j]),
                        rest[i].call = rest[j].call
                 PROVE  i = j
      OBVIOUS
    <3>1. i + 1 = j + 1
      BY <1>1 DEF Single
    <3> QED BY <1>1, <3>1
  <2> QED BY <1>1, <2>1 DEF Single
<1>3. Asks(p) # "none" => Free(Asks(p), p.call, rest, down, ended)
  BY <1>1 DEF Single, Free
<1> QED BY <1>2, <1>3 DEF rest, p

LEMMA SingleRead ==
  ASSUME NEW STATE up, NEW STATE down, down \in Seq(Packet),
         NEW STATE ended, Single(up, down, ended), down # <<>>
  PROVE  /\ Single(up, Tail(down), ended)
         /\ Answers(Head(down)) # "none" =>
              Free(Answers(Head(down)), Head(down).call, up, Tail(down), ended)
<1> DEFINE rest == Tail(down)
           p == Head(down)
<1>1. /\ p = down[1] /\ 1 \in DOMAIN down
      /\ \A i \in DOMAIN rest :
           i + 1 \in DOMAIN down /\ rest[i] = down[i + 1] /\ i + 1 # 1 /\ i \in Nat
  OBVIOUS
<1> HIDE DEF rest, p
<1>2. Single(up, rest, ended)
  <2>1. \A i, j \in DOMAIN rest :
          /\ Answers(rest[i]) # "none" /\ Answers(rest[i]) = Answers(rest[j])
          /\ rest[i].call = rest[j].call
          => i = j
    <3> SUFFICES ASSUME NEW i \in DOMAIN rest, NEW j \in DOMAIN rest,
                        Answers(rest[i]) # "none", Answers(rest[i]) = Answers(rest[j]),
                        rest[i].call = rest[j].call
                 PROVE  i = j
      OBVIOUS
    <3>1. i + 1 = j + 1
      BY <1>1 DEF Single
    <3> QED BY <1>1, <3>1
  <2> QED BY <1>1, <2>1 DEF Single
<1>3. Answers(p) # "none" => Free(Answers(p), p.call, up, rest, ended)
  BY <1>1 DEF Single, Free
<1> QED BY <1>2, <1>3 DEF rest, p

LEMMA SingleRecord ==
  ASSUME NEW STATE up, NEW STATE down, NEW STATE ended, Single(up, down, ended),
         NEW STATE c, Free(c.op, c.ack, up, down, ended)
  PROVE  Single(up, down, ended \cup {c})
BY DEF Single, Free

----------------------------------------------------------------------------
\* The remainder of the next number.
LEMMA NextRemainder ==
  ASSUME NEW a \in Nat, NEW b \in Nat, b > 0
  PROVE  /\ a % b < b - 1 => (a + 1) % b = (a % b) + 1
         /\ a % b = b - 1 => (a + 1) % b = 0
         /\ a % b \in 0..(b - 1)
<1> DEFINE q == a \div b
           r == a % b
           u == (a + 1) \div b
           v == (a + 1) % b
<1>1. /\ q \in Int /\ r \in 0..(b - 1) /\ a = b * q + r
      /\ u \in Int /\ v \in 0..(b - 1) /\ a + 1 = b * u + v
  OBVIOUS
<1> HIDE DEF q, r, u, v
<1>2. b * (u - q) = r + 1 - v
  BY <1>1
<1>3. ASSUME u - q >= 2 PROVE FALSE
  <2>1. b * (u - q) >= b * 2
    BY <1>1, <1>3
  <2> QED BY <1>1, <1>2, <2>1
<1>4. ASSUME u - q <= -1 PROVE FALSE
  <2>1. b * (u - q) <= b * (-1)
    BY <1>1, <1>4
  <2> QED BY <1>1, <1>2, <2>1
<1>5. u - q = 0 \/ u - q = 1
  BY <1>1, <1>3, <1>4
<1>6. CASE u - q = 0
  <2>1. v = r + 1
    BY <1>1, <1>2, <1>6
  <2> QED BY <1>1, <2>1 DEF r, v
<1>7. CASE u - q = 1
  <2>1. v = r + 1 - b
    BY <1>1, <1>2, <1>7
  <2> QED BY <1>1, <2>1 DEF r, v
<1> QED BY <1>5, <1>6, <1>7

\* getNextPacketId moves the identifier on by one, and from the last one to 1, or
\* to 0 where next_packetid began above MAX_PACKET_ID.
LEMMA ShortNext ==
  ASSUME next_packetid \in 0..UINT_MAX
  PROVE  LET s == Short(next_packetid)
             t == Short(getNextPacketId)
         IN /\ s \in 0..MAX_PACKET_ID /\ t \in 0..MAX_PACKET_ID
            /\ (s < MAX_PACKET_ID /\ t = s + 1) \/ (s = MAX_PACKET_ID /\ t \in {0, 1})
<1> DEFINE n == next_packetid
           M == MAX_PACKET_ID
<1>1. n \in Nat /\ M \in Nat /\ M > 0 /\ UINT_MAX \in Nat /\ M <= UINT_MAX /\ n <= UINT_MAX
      /\ M + 1 \in Nat /\ M + 1 > 0
  BY ClientAssumption
<1>2. CASE n <= M
  <2>1. Short(n) = n
    BY <1>2 DEF Short
  <2>2. getNextPacketId = IF n = M THEN 1 ELSE n + 1
    BY <1>1, <1>2 DEF getNextPacketId
  <2>3. Short(getNextPacketId) = getNextPacketId
    BY <1>1, <1>2, <2>2 DEF Short
  <2> QED BY <1>1, <1>2, <2>1, <2>2, <2>3
<1>3. CASE n > M
  <2>1. Short(n) = n % (M + 1)
    BY <1>1, <1>3 DEF Short
  <2>2. /\ n % (M + 1) < M => (n + 1) % (M + 1) = (n % (M + 1)) + 1
        /\ n % (M + 1) = M => (n + 1) % (M + 1) = 0
        /\ n % (M + 1) \in 0..M
    BY <1>1, NextRemainder
  <2>3. CASE n = UINT_MAX
    <3>1. (n + 1) % (M + 1) = 0
      BY <2>3, ClientAssumption
    <3>2. n % (M + 1) = M
      BY <1>1, <2>2, <3>1
    <3>3. getNextPacketId = 0
      BY <1>1, <1>3, <2>3 DEF getNextPacketId
    <3>4. Short(0) = 0
      BY <1>1 DEF Short
    <3> QED BY <1>1, <2>1, <3>2, <3>3, <3>4
  <2>4. CASE n # UINT_MAX
    <3>1. getNextPacketId = n + 1
      BY <1>1, <1>3, <2>4 DEF getNextPacketId
    <3>2. Short(n + 1) = (n + 1) % (M + 1)
      BY <1>1, <1>3 DEF Short
    <3> QED BY <1>1, <2>1, <2>2, <3>1, <3>2
  <2> QED BY <2>3, <2>4
<1> QED BY <1>1, <1>2, <1>3

\* A new call keeps every older one behind it, and one that takes an identifier finds
\* it used at most by calls that are MAX_PACKET_ID or more before it.
LEMMA BehindNext ==
  ASSUME next_packetid \in 0..UINT_MAX, NEW id \in 0..MAX_PACKET_ID, NEW n \in Nat,
         NEW k \in 1..n, Behind(id, k, Short(next_packetid), n)
  PROVE  /\ Behind(id, k, Short(next_packetid), n + 1)
         /\ Behind(id, k, Short(getNextPacketId), n + 1)
         /\ id = Short(getNextPacketId) => n + 1 - k >= MAX_PACKET_ID
<1> DEFINE s == Short(next_packetid)
           t == Short(getNextPacketId)
           M == MAX_PACKET_ID
<1>1. /\ s \in 0..M /\ t \in 0..M
      /\ (s < M /\ t = s + 1) \/ (s = M /\ t \in {0, 1})
  BY ShortNext
<1>2. M \in Nat /\ M > 0 /\ id \in Nat /\ id <= M
  BY ClientAssumption
<1>3. Behind(id, k, s, n)
  OBVIOUS
<1> HIDE DEF s, t, M
<1>4. Behind(id, k, s, n + 1) /\ Behind(id, k, t, n + 1) /\ (id = t => n + 1 - k >= M)
  <2>1. CASE s < M /\ t = s + 1
    BY <1>1, <1>2, <1>3, <2>1 DEF Behind, M
  <2>2. CASE s = M /\ t = 0
    BY <1>1, <1>2, <1>3, <2>2 DEF Behind, M
  <2>3. CASE s = M /\ t = 1
    BY <1>1, <1>2, <1>3, <2>3 DEF Behind, M
  <2> QED BY <1>1, <2>1, <2>2, <2>3
<1> QED BY <1>4 DEF s, t, M

----------------------------------------------------------------------------
\* What the steps do to requests.  A packet without an identifier is no part of one.
Labelled(p) == p.type \in {"SUBSCRIBE", "UNSUBSCRIBE"} \/ (p.type = "PUBLISH" /\ p.val # 0)

SendsPlain ==
  \/ toBroker' = toBroker
  \/ \E x \in Packet : Asks(x) = "none" /\ ~Labelled(x) /\ toBroker' = Append(toBroker, x)

TellsPlain ==
  \/ toClient' = toClient
  \/ \E x \in Packet : Answers(x) = "none" /\ toClient' = Append(toClient, x)

LEMMA KeepalivePlain ==
  ASSUME NEW STATE b, NEW rc, keepalive(b, rc)
  PROVE  SendsPlain
<1> DEFINE ping == Pkt("PINGREQ", 0, 0, NoTopic, 0, TRUE)
<1>1. ping \in Packet
  BY PktType DEF ClientPackets, Topic
<1>2. Asks(ping) = "none" /\ ~Labelled(ping)
  BY DEF Pkt, Asks, Labelled
<1>3. toBroker' \in {toBroker, Append(toBroker, ping)}
  BY DEF keepalive, sendPacket
<1> HIDE DEF ping
<1> QED BY <1>1, <1>2, <1>3 DEF SendsPlain

\* What waitfor does with a packet: nothing to requests, or one is completed.
LEMMA LoopRequests ==
  ASSUME NEW e \in BOOLEAN, LoopHead(e) \/ CycleFails(e)
  PROVE  completed' = completed /\ cur' \in {cur, Idle}
BY DEF LoopHead, CycleFails, Return

LEMMA ReturnRequests ==
  ASSUME CallTypeOK, InCall, NEW STATE p, p \in Packet, NEW e \in BOOLEAN, CycleReturns(p, e)
  PROVE  /\ cur' \in {cur, Idle}
         /\ \/ completed' = completed
            \/ /\ p.type = Awaited(cur.op) /\ cur.op \in RequestOps
               /\ cur' = Idle /\ Record(p)
<1>1. CASE p.type # Awaited(cur.op)
  BY <1>1, LoopRequests DEF CycleReturns
<1>2. CASE p.type = Awaited(cur.op) /\ cur.op = "CONNECT"
  BY <1>2 DEF CycleReturns, ConnectCompletes, Return
<1>3. CASE p.type = Awaited(cur.op) /\ cur.op = "SUBSCRIBE"
  <2>1. SubscribeCompletes(p)
    BY <1>3 DEF CycleReturns
  <2> QED BY <1>3, <2>1 DEF SubscribeCompletes, Return, RequestOps
<1>4. CASE p.type = Awaited(cur.op) /\ cur.op = "UNSUBSCRIBE"
  BY <1>4 DEF CycleReturns, UnsubscribeCompletes, Return, RequestOps
<1>5. CASE p.type = Awaited(cur.op) /\ cur.op \notin {"CONNECT", "SUBSCRIBE", "UNSUBSCRIBE"}
  <2>1. PublishCompletes(p)
    BY <1>5 DEF CycleReturns
  <2>2. p.type # "none"
    BY DEF Packet, ClientPackets, BrokerPackets
  <2>3. cur.op \in RequestOps
    BY <1>5, <2>2 DEF Awaited, RequestOps
  <2> QED BY <1>5, <2>1, <2>3 DEF PublishCompletes, Return
<1> QED BY <1>1, <1>2, <1>3, <1>4, <1>5

\* One cycle() of a call.
LEMMA CycleRequests ==
  ASSUME TypeOK, NEW e \in BOOLEAN, NEW rc \in Results, cycle(e, rc)
  PROVE  LET p == Head(toClient)
         IN /\ UNCHANGED <<next_packetid, ncalls>> /\ cur' \in {cur, Idle}
            /\ \/ /\ toClient' = toClient
                  /\ completed' = completed /\ SendsPlain
               \/ /\ toClient # <<>> /\ toClient' = Tail(toClient)
                  /\ SendsPlain
                  /\ \/ completed' = completed
                     \/ /\ p.type = Awaited(cur.op) /\ cur.op \in RequestOps
                        /\ cur' = Idle /\ Record(p)
               \/ /\ toClient # <<>> /\ toClient' = Tail(toClient)
                  /\ p.type = "PUBREC" /\ completed' = completed
                  /\ toBroker' \in {toBroker, Append(toBroker,
                                     Pkt("PUBREL", p.id, p.call, NoTopic, 0, TRUE))}
<1> DEFINE p == Head(toClient)
<1>t. CallTypeOK /\ toClient \in Seq(Packet)
  BY TypeParts
<1>a. \A op : Awaited(op) \notin {"PUBLISH", "PUBREC"}
  BY DEF Awaited
<1>1. CASE CyclePlain(e, rc)
  <2>1. p \in Packet /\ InCall /\ toClient # <<>> /\ toClient' = Tail(toClient)
    BY <1>1, <1>t, ReadType DEF CyclePlain, readPacket
  <2>2. CycleReturns(p, e) /\ SendsPlain /\ UNCHANGED <<next_packetid, ncalls>>
    BY <1>1, KeepalivePlain DEF CyclePlain, entryVars
  <2> HIDE DEF p
  <2>3. /\ cur' \in {cur, Idle}
        /\ \/ completed' = completed
           \/ /\ p.type = Awaited(cur.op) /\ cur.op \in RequestOps
              /\ cur' = Idle /\ Record(p)
    BY <1>t, <2>1, <2>2, ReturnRequests
  <2> QED BY <2>1, <2>2, <2>3 DEF p
<1>2. CASE CyclePublish(e, rc)
  <2>1. p \in Packet /\ InCall /\ toClient # <<>> /\ toClient' = Tail(toClient)
    BY <1>2, <1>t, ReadType DEF CyclePublish, readPacket
  <2> DEFINE ack == Pkt(IF p.val = 1 THEN "PUBACK" ELSE "PUBREC", p.id, 0, NoTopic, 0, TRUE)
  <2>2. ack \in Packet
    BY <2>1, PktType DEF Packet, ClientPackets, Topic
  <2>3. Asks(ack) = "none" /\ ~Labelled(ack)
    BY DEF Pkt, Asks, Labelled
  <2>4. /\ p.type = "PUBLISH" /\ UNCHANGED <<next_packetid, ncalls>>
        /\ CycleReturns(p, e) \/ CycleFails(e)
    BY <1>2 DEF CyclePublish, entryVars
  <2>5. keepalive(ping_outstanding, rc) \/ toBroker' \in {toBroker, Append(toBroker, ack)}
    BY <1>2 DEF CyclePublish, sendPacket
  <2> HIDE DEF ack
  <2>6. SendsPlain
    BY <2>2, <2>3, <2>5, KeepalivePlain DEF SendsPlain
  <2> HIDE DEF p
  <2>7. completed' = completed /\ cur' \in {cur, Idle}
    BY <1>t, <1>a, <2>1, <2>4, ReturnRequests, LoopRequests
  <2> QED BY <2>1, <2>4, <2>6, <2>7
<1>3. CASE CyclePubrec(e, rc)
  <2>1. p \in Packet /\ InCall /\ toClient # <<>> /\ toClient' = Tail(toClient)
    BY <1>3, <1>t, ReadType DEF CyclePubrec, readPacket
  <2>2. /\ p.type = "PUBREC" /\ UNCHANGED <<next_packetid, ncalls>>
        /\ CycleReturns(p, e) \/ CycleFails(e)
        /\ toBroker' \in {toBroker, Append(toBroker, Pkt("PUBREL", p.id, p.call, NoTopic, 0, TRUE))}
    BY <1>3 DEF CyclePubrec, entryVars, sendPacket
  <2> HIDE DEF p
  <2>3. completed' = completed /\ cur' \in {cur, Idle}
    BY <1>t, <1>a, <2>1, <2>2, ReturnRequests, LoopRequests
  <2> QED BY <2>1, <2>2, <2>3 DEF p
<1>4. CASE CycleReadFails(e, rc)
  <2>1. /\ keepalive(ping_outstanding, rc) /\ LoopHead(e)
        /\ UNCHANGED <<toClient, next_packetid, ncalls>>
    BY <1>4 DEF CycleReadFails, entryVars
  <2> QED BY <2>1, KeepalivePlain, LoopRequests
<1> QED BY <1>1, <1>2, <1>3, <1>4 DEF cycle

\* The entry of a call that takes an identifier.
TakesId(op, x) ==
  /\ Asks(x) = op /\ x.call = ncalls + 1 /\ x.id = Short(getNextPacketId)
  /\ next_packetid' = getNextPacketId /\ ncalls' = ncalls + 1
  /\ toBroker' \in {toBroker, Append(toBroker, x)}
  /\ \/ ~Waiting'
     \/ cur'.op = op /\ cur'.call = x.call /\ cur'.id = x.id

LEMMA RequestTakesId ==
  ASSUME TypeOK, NEW op \in RequestOps, NEW type \in ClientPackets, NEW topic \in Topic,
         NEW qos \in Nat, NEW rc, NEW e, Request(op, type, topic, qos, rc, e),
         \/ type = op /\ op \in {"SUBSCRIBE", "UNSUBSCRIBE"}
         \/ type = "PUBLISH" /\ qos = 1 /\ op = "PUBLISH1"
         \/ type = "PUBLISH" /\ qos = 2 /\ op = "PUBLISH2"
  PROVE  /\ toClient' = toClient /\ completed' = completed
         /\ \E x \in Packet : TakesId(op, x)
<1> DEFINE id == Short(getNextPacketId)
           x == Pkt(type, id, ncalls + 1, topic, qos, TRUE)
           call == [op |-> op, call |-> ncalls + 1, id |-> id, topic |-> topic]
<1>1. id \in Nat /\ ncalls + 1 \in Nat
  BY NextIdType DEF TypeOK, ClientTypeOK
<1>2. x \in Packet
  <2> HIDE DEF id
  <2> QED BY <1>1, PktType
<1>3. Asks(x) = op /\ x.call = ncalls + 1 /\ x.id = id
  <2>1. x.type = type /\ x.val = qos /\ x.call = ncalls + 1 /\ x.id = id
    BY DEF Pkt
  <2> HIDE DEF x, id
  <2> QED BY <2>1 DEF Asks
<1>4. /\ next_packetid' = getNextPacketId /\ ncalls' = ncalls + 1
      /\ toBroker' \in {toBroker, Append(toBroker, x)}
      /\ toClient' = toClient /\ completed' = completed
      /\ cur' = Idle \/ cur' = call
  BY DEF Request, sendPacket, Begin, Return, cycleVars
<1>5. \/ ~Waiting'
      \/ cur'.op = op /\ cur'.call = x.call /\ cur'.id = x.id
  <2>1. CASE cur' = Idle
    BY <2>1 DEF Idle, Waiting, RequestOps
  <2>2. CASE cur' = call
    <3>1. call.op = op /\ call.call = ncalls + 1 /\ call.id = id
      OBVIOUS
    <3> HIDE DEF call, x, id
    <3> QED BY <1>3, <2>2, <3>1
  <2> QED BY <1>4, <2>1, <2>2
<1> HIDE DEF x
<1>6. TakesId(op, x)
  BY <1>3, <1>4, <1>5 DEF TakesId
<1> QED BY <1>2, <1>4, <1>6

\* A call that takes none, or fails at once.
TakesNoId ==
  /\ next_packetid' = next_packetid /\ ncalls' \in {ncalls, ncalls + 1}
  /\ SendsPlain /\ ~Waiting'

LEMMA EntryRequests ==
  ASSUME TypeOK, ClientNext
  PROVE  \/ \E e \in BOOLEAN, rc \in Results : cycle(e, rc)
         \/ UNCHANGED <<toBroker, toClient, next_packetid, ncalls, cur, completed>>
         \/ /\ toClient' = toClient /\ completed' = completed
            /\ TakesNoId \/ \E op \in RequestOps, x \in Packet : TakesId(op, x)
<1> DEFINE Entered == /\ toClient' = toClient /\ completed' = completed
                      /\ TakesNoId \/ \E op \in RequestOps, x \in Packet : TakesId(op, x)
<1>t. ncalls + 1 \in Nat
  BY DEF TypeOK, ClientTypeOK
<1>i. \A op, rc : Return(op, rc) => ~Waiting'
  BY DEF Return, Idle, Waiting, RequestOps
<1>1. CASE MQTTYield
  <2>1. cur' = [Idle EXCEPT !.op = "YIELD"] /\ UNCHANGED <<structVars, wireVars, ncalls, completed>>
    BY <1>1 DEF MQTTYield
  <2>2. ~Waiting'
    BY <2>1 DEF Idle, Waiting, RequestOps
  <2> QED BY <2>1, <2>2 DEF structVars, wireVars, TakesNoId, SendsPlain
<1>2. CASE PingTimerExpires
  BY <1>2 DEF PingTimerExpires, cycleVars
<1>3. ASSUME NEW rc \in Results, MQTTDisconnect(rc) PROVE Entered
  <2> DEFINE x == Pkt("DISCONNECT", 0, ncalls + 1, NoTopic, 0, TRUE)
  <2>1. x \in Packet
    BY <1>t, PktType DEF ClientPackets, Topic
  <2>2. Asks(x) = "none" /\ ~Labelled(x)
    BY DEF Pkt, Asks, Labelled
  <2>3. /\ toBroker' \in {toBroker, Append(toBroker, x)} /\ next_packetid' = next_packetid
        /\ ncalls' = ncalls + 1 /\ ~Waiting' /\ toClient' = toClient /\ completed' = completed
    BY <1>3, <1>i DEF MQTTDisconnect, sendPacket, cycleVars
  <2> HIDE DEF x
  <2> QED BY <2>1, <2>2, <2>3 DEF TakesNoId, SendsPlain
<1>4. ASSUME NEW rc \in Results, NEW e \in BOOLEAN, NEW k \in KeepAliveIntervals,
             MQTTConnect(k, rc, e)
      PROVE  Entered
  <2> DEFINE x == Pkt("CONNECT", 0, ncalls + 1, NoTopic, 0, TRUE)
             call == [op |-> "CONNECT", call |-> ncalls + 1, id |-> 0, topic |-> NoTopic]
  <2>1. x \in Packet
    BY <1>t, PktType DEF ClientPackets, Topic
  <2>2. Asks(x) = "none" /\ ~Labelled(x)
    BY DEF Pkt, Asks, Labelled
  <2>3. cur' = call => ~Waiting'
    BY DEF Waiting, RequestOps
  <2>4. ~Waiting'
    BY <1>4, <1>i, <2>3 DEF MQTTConnect, Begin
  <2>5. /\ toBroker' \in {toBroker, Append(toBroker, x)} /\ next_packetid' = next_packetid
        /\ ncalls' \in {ncalls, ncalls + 1} /\ toClient' = toClient /\ completed' = completed
    BY <1>4 DEF MQTTConnect, cycleVars
  <2> HIDE DEF x
  <2> QED BY <2>1, <2>2, <2>4, <2>5 DEF TakesNoId, SendsPlain
<1>5. ASSUME NEW op, NotConnected(op) PROVE Entered
  <2>1. ~Waiting' /\ UNCHANGED <<structVars, wireVars, ncalls, completed>>
    BY <1>5, <1>i DEF NotConnected
  <2> QED BY <2>1 DEF structVars, wireVars, TakesNoId, SendsPlain
<1>6. ASSUME NEW rc \in Results, NEW t \in Topics, PublishQoS0(t, rc) PROVE Entered
  <2> DEFINE x == Pkt("PUBLISH", 0, ncalls + 1, t, 0, TRUE)
  <2>1. x \in Packet
    BY <1>t, PktType DEF ClientPackets, Topic
  <2>2. Asks(x) = "none" /\ ~Labelled(x)
    BY DEF Pkt, Asks, Labelled
  <2>3. /\ toBroker' \in {toBroker, Append(toBroker, x)} /\ next_packetid' = next_packetid
        /\ ncalls' = ncalls + 1 /\ ~Waiting' /\ toClient' = toClient /\ completed' = completed
    BY <1>6, <1>i DEF PublishQoS0, sendPacket, cycleVars
  <2> HIDE DEF x
  <2> QED BY <2>1, <2>2, <2>3 DEF TakesNoId, SendsPlain
<1>7. ASSUME NEW rc \in Results, NEW e \in BOOLEAN, NEW f \in Filters,
             MQTTSubscribe(f, rc, e) \/ MQTTUnsubscribe(f, rc, e)
      PROVE  Entered
  <2>1. /\ f \in Topic /\ 0 \in Nat
        /\ \A op \in {"SUBSCRIBE", "UNSUBSCRIBE"} : op \in RequestOps /\ op \in ClientPackets
    BY DEF Topic, RequestOps, ClientPackets
  <2>2. ASSUME NEW op \in {"SUBSCRIBE", "UNSUBSCRIBE"}, Request(op, op, f, 0, rc, e)
        PROVE  Entered
    <3>1. /\ toClient' = toClient /\ completed' = completed
          /\ \E x \in Packet : TakesId(op, x)
      BY <2>1, <2>2, RequestTakesId
    <3> QED BY <2>1, <3>1
  <2> QED BY <1>5, <1>7, <2>2 DEF MQTTSubscribe, MQTTUnsubscribe
<1>8. ASSUME NEW rc \in Results, NEW e \in BOOLEAN, NEW t \in Topics, NEW q \in 0..2,
             MQTTPublish(t, q, rc, e)
      PROVE  Entered
  <2>1. /\ t \in Topic /\ 1 \in Nat /\ 2 \in Nat /\ "PUBLISH" \in ClientPackets
        /\ "PUBLISH1" \in RequestOps /\ "PUBLISH2" \in RequestOps
    BY DEF Topic, RequestOps, ClientPackets
  <2>2. ASSUME Request("PUBLISH1", "PUBLISH", t, 1, rc, e) PROVE Entered
    <3>1. /\ toClient' = toClient /\ completed' = completed
          /\ \E x \in Packet : TakesId("PUBLISH1", x)
      BY <2>1, <2>2, RequestTakesId
    <3> QED BY <2>1, <3>1
  <2>3. ASSUME Request("PUBLISH2", "PUBLISH", t, 2, rc, e) PROVE Entered
    <3>1. /\ toClient' = toClient /\ completed' = completed
          /\ \E x \in Packet : TakesId("PUBLISH2", x)
      BY <2>1, <2>3, RequestTakesId
    <3> QED BY <2>1, <3>1
  <2> QED BY <1>5, <1>6, <1>8, <2>2, <2>3 DEF MQTTPublish
<1> QED BY <1>1, <1>2, <1>3, <1>4, <1>7, <1>8 DEF ClientNext

\* The broker answers a request, with a message before the answer or not; or it does
\* nothing to requests but lose them.
Finishes ==
  LET p == Head(toBroker)
  IN /\ toBroker # <<>> /\ toBroker' = Tail(toBroker)
     /\ Asks(p) # "none"
     /\ \E x, m \in Packet :
          /\ Answers(x) = Asks(p) /\ x.id = p.id /\ x.call = p.call
          /\ x.type # "PUBREC" => <<x.type, x.call>> \in done'
          /\ Answers(m) = "none"
          /\ toClient' \in {Append(toClient, x), Append(Append(toClient, m), x)}

LEMMA BrokerRequests ==
  ASSUME TypeOK, TypeOK', BrokerNext \/ LinkCloses
  PROVE  /\ done \subseteq done'
         /\ \/ Finishes
            \/ /\ \/ toBroker' = <<>> \/ toBroker' = toBroker
                  \/ toBroker # <<>> /\ toBroker' = Tail(toBroker)
               /\ TellsPlain
<1> DEFINE p == Head(toBroker)
           Plain == /\ \/ toBroker' = <<>> \/ toBroker' = toBroker
                       \/ toBroker # <<>> /\ toBroker' = Tail(toBroker)
                    /\ TellsPlain
<1>t. toBroker \in Seq(Packet) /\ toClient \in Seq(Packet) /\ toClient' \in Seq(Packet)
  BY DEF TypeOK, WireTypeOK
<1>1. ASSUME NEW v \in {SUCCESS, ConnectRefused}, BrokerConnect(v)
      PROVE  done \subseteq done' /\ Plain
  <2> DEFINE x == Pkt("CONNACK", 0, p.call, NoTopic, v, TRUE)
  <2>1. Answers(x) = "none"
    BY DEF Pkt, Answers
  <2>2. /\ toBroker # <<>> /\ toBroker' \in {<<>>, Tail(toBroker)}
        /\ toClient' \in {toClient, Append(toClient, x)}
        /\ done' = done
    BY <1>1 DEF BrokerConnect, Receive, CloseLink
  <2> HIDE DEF x
  <2>3. toClient' = Append(toClient, x) => x \in Packet
    BY <1>t
  <2> QED BY <2>1, <2>2, <2>3 DEF TellsPlain
<1>2. ASSUME NEW ok \in Intact, NEW v \in {0, SubscribeRefused}, NEW early \in BOOLEAN,
             BrokerSubscribe(v, early, ok)
      PROVE  done \subseteq done' /\ Finishes
  <2> DEFINE x == Pkt("SUBACK", p.id, p.call, NoTopic, v, ok)
  <2>1. /\ Answers(x) = "SUBSCRIBE" /\ x.id = p.id /\ x.call = p.call /\ x.type = "SUBACK"
        /\ \A t : Answers(Message(t, 0, TRUE)) = "none"
    BY DEF Pkt, Answers, Message
  <2>2. /\ toBroker # <<>> /\ toBroker' = Tail(toBroker) /\ p.type = "SUBSCRIBE"
        /\ done' = done \cup {<<"SUBACK", p.call>>}
        /\ \/ toClient' = toClient \o <<x>>
           \/ \E t \in Topics : toClient' = toClient \o <<Message(t, 0, TRUE), x>>
    BY <1>2 DEF BrokerSubscribe, Receive, Reply
  <2>3. Asks(p) = "SUBSCRIBE"
    BY <2>2 DEF Asks
  <2> HIDE DEF x
  <2>4. CASE toClient' = toClient \o <<x>>
    <3>1. toClient' = Append(toClient, x) /\ toClient'[Len(toClient) + 1] = x
      BY <1>t, <2>4
    <3>2. x \in Packet
      BY <1>t, <3>1
    <3>3. \E m \in Packet : Answers(m) = "none"
      <4> DEFINE m == Pkt("PINGRESP", 0, 0, NoTopic, 0, TRUE)
      <4>1. m \in Packet
        BY PktType DEF BrokerPackets, Topic
      <4>2. Answers(m) = "none"
        BY DEF Pkt, Answers
      <4> QED BY <4>1, <4>2
    <3> HIDE DEF p
    <3> QED BY <2>1, <2>2, <2>3, <3>1, <3>2, <3>3 DEF Finishes, p
  <2>5. ASSUME NEW t \in Topics, toClient' = toClient \o <<Message(t, 0, TRUE), x>>
        PROVE  done \subseteq done' /\ Finishes
    <3> DEFINE m == Message(t, 0, TRUE)
    <3>0. Answers(m) = "none"
      BY <2>1
    <3>x. toClient' = toClient \o <<m, x>>
      BY <2>5
    <3> HIDE DEF m
    <3>1. /\ toClient' = Append(Append(toClient, m), x)
          /\ Len(toClient') = Len(toClient) + 2
          /\ toClient'[Len(toClient) + 1] = m /\ toClient'[Len(toClient) + 2] = x
      BY <1>t, <3>x
    <3>2. m \in Packet /\ x \in Packet
      BY <1>t, <3>1
    <3> HIDE DEF p
    <3> QED BY <2>1, <2>2, <2>3, <3>0, <3>1, <3>2 DEF Finishes, p
  <2> QED BY <2>2, <2>4, <2>5
<1>3. ASSUME BrokerAnswer PROVE done \subseteq done' /\ (Finishes \/ Plain)
  <2> DEFINE type == AnswerType(p)
             x == Pkt(type, p.id, p.call, NoTopic, 0, TRUE)
  <2>1. x.id = p.id /\ x.call = p.call /\ x.type = type
    BY DEF Pkt
  <2>2. /\ toBroker # <<>> /\ toBroker' = Tail(toBroker)
        /\ toClient' = toClient \o (IF type = "none" THEN <<>> ELSE <<x>>)
        /\ done' = IF type \in FinalAcks THEN done \cup {<<type, p.call>>} ELSE done
        /\ p.type # "SUBSCRIBE"
    BY <1>3 DEF BrokerAnswer, Receive, Reply
  <2> HIDE DEF x
  <2>3. \/ /\ type # "none" /\ toClient' = Append(toClient, x)
           /\ toClient'[Len(toClient) + 1] = x
        \/ type = "none" /\ toClient' = toClient
    BY <1>t, <2>2
  <2>4. Asks(p) = "none" => type \in {"none", "PUBREL", "PINGRESP"}
    BY DEF Asks, AnswerType
  <2>5. Asks(p) # "none" => /\ Answers(x) = Asks(p) /\ type # "none"
                            /\ type # "PUBREC" => type \in FinalAcks
    <3>1. \/ /\ Asks(p) = "UNSUBSCRIBE" /\ type = "UNSUBACK"
          \/ /\ Asks(p) = "PUBLISH1" /\ type = "PUBACK"
          \/ /\ Asks(p) = "PUBLISH2" /\ type \in {"PUBREC", "PUBCOMP"}
          \/ Asks(p) = "none"
      <4> PICK t, v : t = p.type /\ v = p.val
        OBVIOUS
      <4>1. t # "SUBSCRIBE"
        BY <2>2
      <4> HIDE DEF p
      <4>2. CASE t = "UNSUBSCRIBE"
        BY <4>2 DEF Asks, AnswerType
      <4>3. CASE t = "PUBLISH" /\ v = 1
        BY <4>3 DEF Asks, AnswerType
      <4>4. CASE t = "PUBLISH" /\ v = 2
        BY <4>4 DEF Asks, AnswerType
      <4>5. CASE t = "PUBREL"
        BY <4>5 DEF Asks, AnswerType
      <4>6. CASE /\ t \notin {"UNSUBSCRIBE", "PUBREL"}
                 /\ ~(t = "PUBLISH" /\ v = 1) /\ ~(t = "PUBLISH" /\ v = 2)
        BY <4>1, <4>6 DEF Asks
      <4> QED BY <4>2, <4>3, <4>4, <4>5, <4>6
    <3> HIDE DEF type, p
    <3> QED BY <2>1, <3>1 DEF Answers, FinalAcks
  <2>6. type \in {"PUBREL", "PINGRESP"} => Answers(x) = "none"
    BY <2>1 DEF Answers
  <2>7. done \subseteq done'
    BY <2>2
  <2> HIDE DEF type, p
  <2>8. type # "none" => x \in Packet
    <3>1. Len(toClient) + 1 \in Nat \ {0}
      BY <1>t
    <3> QED BY <1>t, <2>3
  <2>9. CASE Asks(p) = "none"
    BY <2>2, <2>3, <2>4, <2>6, <2>7, <2>8, <2>9 DEF TellsPlain
  <2>10. CASE Asks(p) # "none"
    <3>1. <<x.type, x.call>> \in done' \/ x.type = "PUBREC"
      BY <2>1, <2>2, <2>5, <2>10
    <3>2. \E m \in Packet : Answers(m) = "none"
      <4> DEFINE m == Pkt("PINGRESP", 0, 0, NoTopic, 0, TRUE)
      <4>1. m \in Packet
        BY PktType DEF BrokerPackets, Topic
      <4>2. Answers(m) = "none"
        BY DEF Pkt, Answers
      <4> QED BY <4>1, <4>2
    <3> QED BY <2>1, <2>2, <2>3, <2>5, <2>7, <2>8, <2>10, <3>1, <3>2 DEF Finishes, p
  <2> QED BY <2>9, <2>10
<1>4. ASSUME NEW ok \in Intact, NEW t \in Topics, NEW q \in 0..2, BrokerPublish(t, q, ok)
      PROVE  done \subseteq done' /\ Plain
  <2> DEFINE x == Message(t, q, ok)
  <2>1. Answers(x) = "none"
    BY DEF Message, Pkt, Answers
  <2>2. toClient' = Append(toClient, x) /\ toBroker' = toBroker /\ done' = done
    BY <1>4 DEF BrokerPublish
  <2> HIDE DEF x
  <2>3. x \in Packet
    BY <1>t, <2>2
  <2> QED BY <2>1, <2>2, <2>3 DEF TellsPlain
<1>5. CASE BrokerDisconnect \/ LinkCloses
  BY <1>5 DEF BrokerDisconnect, LinkCloses, CloseLink, brokerVars, TellsPlain
<1> HIDE DEF Plain
<1>6. done \subseteq done' /\ (Finishes \/ Plain)
  BY <1>1, <1>2, <1>3, <1>4, <1>5 DEF BrokerNext, Plain
<1> QED BY <1>6 DEF Plain

----------------------------------------------------------------------------
\* The same for Tracked: packets come and go, ...
LEMMA TrackedSend ==
  ASSUME NEW up \in Seq(Packet), NEW down, NEW s, NEW n, NEW call, NEW acks,
         Tracked(up, down, s, n, call, acks), NEW p \in Packet,
         Asks(p) # "none" => Recent(p, s, n, call)
  PROVE  Tracked(Append(up, p), down, s, n, call, acks)
<1> DEFINE ap == Append(up, p)
<1>1. \A i \in DOMAIN ap : ap[i] = p \/ (i \in DOMAIN up /\ ap[i] = up[i])
  OBVIOUS
<1> HIDE DEF ap
<1> QED BY <1>1 DEF Tracked, ap

LEMMA TrackedReply ==
  ASSUME NEW up, NEW down \in Seq(Packet), NEW s, NEW n, NEW call, NEW acks,
         Tracked(up, down, s, n, call, acks), NEW p \in Packet,
         Answers(p) # "none" => Recent(p, s, n, call) /\ Acknowledged(p, acks)
  PROVE  Tracked(up, Append(down, p), s, n, call, acks)
<1> DEFINE ap == Append(down, p)
<1>1. \A i \in DOMAIN ap : ap[i] = p \/ (i \in DOMAIN down /\ ap[i] = down[i])
  OBVIOUS
<1> HIDE DEF ap
<1> QED BY <1>1 DEF Tracked, ap

LEMMA TrackedReceive ==
  ASSUME NEW up \in Seq(Packet), up # <<>>, NEW down, NEW s, NEW n, NEW call, NEW acks,
         Tracked(up, down, s, n, call, acks)
  PROVE  /\ Tracked(Tail(up), down, s, n, call, acks)
         /\ Asks(Head(up)) # "none" => Recent(Head(up), s, n, call)
<1> DEFINE rest == Tail(up)
           p == Head(up)
<1>1. /\ p = up[1] /\ 1 \in DOMAIN up
      /\ \A i \in DOMAIN rest : i + 1 \in DOMAIN up /\ rest[i] = up[i + 1]
  OBVIOUS
<1> HIDE DEF rest, p
<1>2. Tracked(rest, down, s, n, call, acks)
  BY <1>1 DEF Tracked
<1>3. Asks(p) # "none" => Recent(p, s, n, call)
  BY <1>1 DEF Tracked
<1> QED BY <1>2, <1>3 DEF rest, p

LEMMA TrackedRead ==
  ASSUME NEW up, NEW down \in Seq(Packet), down # <<>>, NEW s, NEW n, NEW call, NEW acks,
         Tracked(up, down, s, n, call, acks)
  PROVE  /\ Tracked(up, Tail(down), s, n, call, acks)
         /\ Answers(Head(down)) # "none" =>
              Recent(Head(down), s, n, call) /\ Acknowledged(Head(down), acks)
<1> DEFINE rest == Tail(down)
           p == Head(down)
<1>1. /\ p = down[1] /\ 1 \in DOMAIN down
      /\ \A i \in DOMAIN rest : i + 1 \in DOMAIN down /\ rest[i] = down[i + 1]
  OBVIOUS
<1> HIDE DEF rest, p
<1>2. Tracked(up, rest, s, n, call, acks)
  BY <1>1 DEF Tracked
<1>3. Answers(p) # "none" => Recent(p, s, n, call) /\ Acknowledged(p, acks)
  BY <1>1 DEF Tracked
<1> QED BY <1>2, <1>3 DEF rest, p

\* ... the connection, a call, or the request in progress ends, ...
LEMMA TrackedEnd ==
  ASSUME NEW up, NEW down, NEW s, NEW n, NEW call, NEW acks,
         Tracked(up, down, s, n, call, acks)
  PROVE  /\ Tracked(<<>>, down, s, n, call, acks)
         /\ Tracked(<<>>, <<>>, s, n, call, acks)
         /\ \A c : c.op \notin RequestOps => Tracked(up, down, s, n, c, acks)
         /\ \A a : acks \subseteq a => Tracked(up, down, s, n, call, a)
<1>1. DOMAIN <<>> = {}
  OBVIOUS
<1>2. Tracked(<<>>, down, s, n, call, acks) /\ Tracked(<<>>, <<>>, s, n, call, acks)
  BY <1>1 DEF Tracked
<1>3. \A c : c.op \notin RequestOps => Tracked(up, down, s, n, c, acks)
  BY DEF Tracked, Recent
<1>4. \A a : acks \subseteq a => Tracked(up, down, s, n, call, a)
  BY DEF Tracked, Acknowledged
<1> QED BY <1>2, <1>3, <1>4

\* ... and new calls are made.
LEMMA TrackedCall ==
  ASSUME next_packetid \in 0..UINT_MAX, NEW n \in Nat, NEW up, NEW down, NEW call, NEW acks,
         Tracked(up, down, Short(next_packetid), n, call, acks), NEW c,
         c.op \in RequestOps => c.call = n + 1 /\ c.id = Short(getNextPacketId)
  PROVE  /\ c.op \notin RequestOps =>
              Tracked(up, down, Short(next_packetid), n + 1, c, acks)
         /\ Tracked(up, down, Short(getNextPacketId), n + 1, c, acks)
<1> DEFINE s == Short(next_packetid)
           t == Short(getNextPacketId)
<1>1. ASSUME NEW p, Recent(p, s, n, call)
      PROVE  /\ c.op \notin RequestOps => Recent(p, s, n + 1, c)
             /\ Recent(p, t, n + 1, c)
  <2>1. p.id \in 0..MAX_PACKET_ID /\ p.call \in 1..n /\ Behind(p.id, p.call, s, n)
    BY <1>1 DEF Recent
  <2>2. /\ Behind(p.id, p.call, s, n + 1) /\ Behind(p.id, p.call, t, n + 1)
        /\ p.id = t => n + 1 - p.call >= MAX_PACKET_ID
    BY <2>1, BehindNext
  <2>3. p.call \in 1..(n + 1)
    BY <2>1
  <2> HIDE DEF s, t
  <2>4. c.op \in RequestOps => c.id = t
    BY DEF t
  <2> QED BY <2>1, <2>2, <2>3, <2>4 DEF Recent
<1>2. Tracked(up, down, s, n, call, acks)
  OBVIOUS
<1>3. c.op \in RequestOps => c.call = n + 1 /\ c.id = t
  OBVIOUS
<1> HIDE DEF s, t
<1>4. c.op \notin RequestOps => Tracked(up, down, s, n + 1, c, acks)
  BY <1>1, <1>2 DEF Tracked
<1>5. Tracked(up, down, t, n + 1, c, acks)
  BY <1>1, <1>2, <1>3 DEF Tracked
<1> QED BY <1>4, <1>5 DEF s, t

----------------------------------------------------------------------------
\* A packet that is no part of a request changes nothing.
LEMMA PlainKeeps ==
  ASSUME toBroker \in Seq(Packet), NEW down \in Seq(Packet), NEW s, NEW n, NEW call, NEW acks,
         NEW ended, \A c \in ended : c.op # "none", SendsPlain,
         Tracked(toBroker, down, s, n, call, acks), Single(toBroker, down, ended)
  PROVE  Tracked(toBroker', down, s, n, call, acks) /\ Single(toBroker', down, ended)
<1>1. CASE toBroker' = toBroker
  BY <1>1
<1>2. ASSUME NEW x \in Packet, Asks(x) = "none", toBroker' = Append(toBroker, x)
      PROVE  Tracked(toBroker', down, s, n, call, acks) /\ Single(toBroker', down, ended)
  <2>1. Tracked(Append(toBroker, x), down, s, n, call, acks)
    BY <1>2, TrackedSend
  <2>2. Single(Append(toBroker, x), down, ended)
    BY <1>2, SingleSend
  <2> QED BY <1>2, <2>1, <2>2
<1> QED BY <1>1, <1>2 DEF SendsPlain

LEMMA EndedOps ==
  ASSUME NEW ended, NEW n, NEW acks, Ended(ended, n, acks)
  PROVE  \A c \in ended : c.op # "none"
BY DEF Ended, RequestOps

\* cycle() completes requests as RequestInv says.
LEMMA CycleKeepsRequests ==
  ASSUME TypeOK, RequestInv, NEW e \in BOOLEAN, NEW rc \in Results, cycle(e, rc),
         UNCHANGED brokerVars
  PROVE  RequestInv'
<1> DEFINE p == Head(toClient)
           rest == Tail(toClient)
           s == Short(next_packetid)
<1>t. toBroker \in Seq(Packet) /\ toClient \in Seq(Packet) /\ ncalls \in Nat /\ CallTypeOK
  BY TypeParts, ClientAssumption DEF TypeOK, ClientTypeOK
<1>i. /\ Tracked(toBroker, toClient, s, ncalls, cur, done)
      /\ Ended(completed, ncalls, done)
      /\ Single(toBroker, toClient, completed)
  BY DEF RequestInv
<1>n. \A c \in completed : c.op # "none"
  BY <1>i, EndedOps
<1>u. /\ Short(next_packetid)' = s /\ ncalls' = ncalls /\ done' = done /\ cur' \in {cur, Idle}
  <2>1. UNCHANGED <<next_packetid, ncalls>> /\ cur' \in {cur, Idle}
    BY CycleRequests
  <2> QED BY <2>1 DEF brokerVars, Short
<1> HIDE DEF s
<1>c. ASSUME Tracked(toBroker', toClient', s, ncalls, cur, done)
      PROVE  Tracked(toBroker', toClient', s, ncalls, cur', done)
  <2>1. Idle.op \notin RequestOps
    BY DEF Idle, RequestOps
  <2>2. Tracked(toBroker', toClient', s, ncalls, Idle, done)
    BY <1>c, <2>1, TrackedEnd
  <2> QED BY <1>c, <1>u, <2>2
<1>q. ASSUME Tracked(toBroker', toClient', s, ncalls, cur, done),
             Ended(completed', ncalls, done), Single(toBroker', toClient', completed')
      PROVE  RequestInv'
  <2>1. Tracked(toBroker', toClient', s, ncalls, cur', done)
    BY <1>c, <1>q
  <2> QED BY <1>q, <1>u, <2>1 DEF RequestInv
<1>r. ASSUME toClient # <<>>
      PROVE  /\ p \in Packet /\ rest \in Seq(Packet)
             /\ Tracked(toBroker, rest, s, ncalls, cur, done)
             /\ Single(toBroker, rest, completed)
             /\ Answers(p) # "none" => /\ Recent(p, s, ncalls, cur) /\ Acknowledged(p, done)
                                       /\ Free(Answers(p), p.call, toBroker, rest, completed)
  <2>1. p \in Packet /\ rest \in Seq(Packet)
    BY <1>t, <1>r
  <2>2. /\ Tracked(toBroker, rest, s, ncalls, cur, done)
        /\ Answers(p) # "none" => Recent(p, s, ncalls, cur) /\ Acknowledged(p, done)
    BY <1>t, <1>i, <1>r, TrackedRead
  <2>3. /\ Single(toBroker, rest, completed)
        /\ Answers(p) # "none" => Free(Answers(p), p.call, toBroker, rest, completed)
    BY <1>t, <1>i, <1>r, SingleRead
  <2> QED BY <2>1, <2>2, <2>3
<1>1. ASSUME toClient' = toClient, completed' = completed, SendsPlain PROVE RequestInv'
  <2>1. Tracked(toBroker', toClient, s, ncalls, cur, done) /\ Single(toBroker', toClient, completed)
    BY <1>t, <1>i, <1>n, <1>1, PlainKeeps
  <2> QED BY <1>i, <1>q, <1>1, <2>1
<1>2. ASSUME toClient # <<>>, toClient' = rest, completed' = completed, SendsPlain
      PROVE  RequestInv'
  <2> HIDE DEF p, rest
  <2>1. Tracked(toBroker', rest, s, ncalls, cur, done) /\ Single(toBroker', rest, completed)
    BY <1>t, <1>n, <1>r, <1>2, PlainKeeps
  <2> QED BY <1>i, <1>q, <1>2, <2>1
<1>3. ASSUME toClient # <<>>, toClient' = rest, SendsPlain, p.type = Awaited(cur.op),
             cur.op \in RequestOps, Record(p)
      PROVE  RequestInv'
  <2> DEFINE c == [op |-> cur.op, call |-> cur.call, id |-> cur.id, ack |-> p.call, ackid |-> p.id]
  <2>1. completed' = completed \cup {c}
    BY <1>3 DEF Record
  <2>2. /\ c.op = cur.op /\ c.call = cur.call /\ c.id = cur.id
        /\ c.ack = p.call /\ c.ackid = p.id
    OBVIOUS
  <2>3. Answers(p) = cur.op /\ FinalAck[cur.op] = p.type /\ p.type # "PUBREC" /\ cur.op # "none"
    BY <1>3 DEF Awaited, Answers, RequestOps, FinalAck
  <2> HIDE DEF c, p, rest
  <2>4. Single(toBroker, rest, completed \cup {c})
    <3>1. Free(c.op, c.ack, toBroker, rest, completed)
      BY <1>r, <1>3, <2>2, <2>3
    <3> QED BY <1>r, <1>3, <3>1, SingleRecord
  <2>5. \A d \in completed \cup {c} : d.op # "none"
    BY <1>n, <2>2, <2>3
  <2>6. /\ Tracked(toBroker', rest, s, ncalls, cur, done)
        /\ Single(toBroker', rest, completed \cup {c})
    BY <1>t, <1>r, <1>3, <2>4, <2>5, PlainKeeps
  <2>7. /\ cur.call = ncalls /\ p.call \in 1..ncalls
        /\ p.id = cur.id /\ p.call # cur.call => ncalls - p.call >= MAX_PACKET_ID
    BY <1>i, <1>r, <1>3, <2>3 DEF Tracked, Recent
  <2>8. <<FinalAck[c.op], c.ack>> \in done
    BY <1>r, <1>3, <2>2, <2>3 DEF Acknowledged
  <2>9. /\ c.ack \in Nat /\ c.call \in Nat /\ c.ack <= c.call /\ c.call <= ncalls
        /\ c.id = c.ackid /\ c.call - c.ack < MAX_PACKET_ID => c.ack = c.call
    BY <1>t, <2>2, <2>7, ClientAssumption
  <2>10. Ended(completed \cup {c}, ncalls, done)
    BY <1>i, <1>3, <2>2, <2>8, <2>9 DEF Ended
  <2> QED BY <1>q, <1>3, <2>1, <2>6, <2>10
<1>4. ASSUME toClient # <<>>, toClient' = rest, p.type = "PUBREC", completed' = completed,
             toBroker' \in {toBroker, Append(toBroker,
                                             Pkt("PUBREL", p.id, p.call, NoTopic, 0, TRUE))}
      PROVE  RequestInv'
  <2> DEFINE rel == Pkt("PUBREL", p.id, p.call, NoTopic, 0, TRUE)
  <2>1. rel \in Packet
    BY <1>r, <1>4, PktType DEF Packet, ClientPackets, Topic
  <2>2. Asks(rel) = "PUBLISH2" /\ rel.id = p.id /\ rel.call = p.call
    BY DEF Pkt, Asks
  <2>3. Answers(p) = "PUBLISH2"
    BY <1>4 DEF Answers
  <2>4. toBroker' \in {toBroker, Append(toBroker, rel)}
    BY <1>4
  <2> HIDE DEF rel, p, rest
  <2>5. /\ Tracked(Append(toBroker, rel), rest, s, ncalls, cur, done)
        /\ Single(Append(toBroker, rel), rest, completed)
    <3>1. Recent(rel, s, ncalls, cur)
      BY <1>r, <1>4, <2>2, <2>3 DEF Recent
    <3>2. Tracked(Append(toBroker, rel), rest, s, ncalls, cur, done)
      BY <1>t, <1>r, <1>4, <2>1, <3>1, TrackedSend
    <3>3. Single(Append(toBroker, rel), rest, completed)
      BY <1>t, <1>n, <1>r, <1>4, <2>1, <2>2, <2>3, SingleSend
    <3> QED BY <3>2, <3>3
  <2> QED BY <1>i, <1>q, <1>r, <1>4, <2>4, <2>5
<1> QED BY <1>1, <1>2, <1>3, <1>4, CycleRequests

\* So does the entry of every call.
LEMMA EntryKeepsRequests ==
  ASSUME TypeOK, RequestInv, toClient' = toClient, completed' = completed, done' = done,
         TakesNoId \/ \E op \in RequestOps, x \in Packet : TakesId(op, x)
  PROVE  RequestInv'
<1> DEFINE s == Short(next_packetid)
           t == Short(getNextPacketId)
<1>t. toBroker \in Seq(Packet) /\ toClient \in Seq(Packet) /\ ncalls \in Nat
      /\ next_packetid \in 0..UINT_MAX
  BY ClientAssumption DEF TypeOK, ClientTypeOK, WireTypeOK
<1>i. /\ Tracked(toBroker, toClient, s, ncalls, cur, done)
      /\ Ended(completed, ncalls, done)
      /\ Single(toBroker, toClient, completed)
  BY DEF RequestInv
<1>n. \A c \in completed : c.op # "none"
  BY <1>i, EndedOps
<1>e. Ended(completed, ncalls + 1, done)
  BY <1>t, <1>i DEF Ended
<1>1. ASSUME TakesNoId PROVE RequestInv'
  <2>1. /\ Short(next_packetid)' = s /\ ncalls' \in {ncalls, ncalls + 1} /\ SendsPlain
        /\ cur'.op \notin RequestOps
    BY <1>1 DEF TakesNoId, Waiting, Short
  <2>2. PICK c : c = cur'
    OBVIOUS
  <2>3. c.op \notin RequestOps
    BY <2>1, <2>2
  <2>4. Tracked(toBroker, toClient, s, ncalls, c, done)
    BY <1>i, <2>3, TrackedEnd
  <2>5. Tracked(toBroker, toClient, s, ncalls + 1, c, done)
    BY <1>t, <1>i, <2>3, TrackedCall
  <2> HIDE DEF s, t
  <2>6. Tracked(toBroker, toClient, s, ncalls', c, done) /\ Ended(completed, ncalls', done)
    BY <1>i, <1>e, <2>1, <2>4, <2>5
  <2>7. /\ Tracked(toBroker', toClient, s, ncalls', c, done)
        /\ Single(toBroker', toClient, completed)
    BY <1>t, <1>i, <1>n, <2>1, <2>6, PlainKeeps
  <2> QED BY <2>1, <2>2, <2>6, <2>7 DEF RequestInv
<1>2. ASSUME NEW op \in RequestOps, NEW x \in Packet, TakesId(op, x) PROVE RequestInv'
  <2>1. /\ Asks(x) = op /\ x.call = ncalls + 1 /\ x.id = t
        /\ Short(next_packetid)' = t /\ ncalls' = ncalls + 1
        /\ toBroker' \in {toBroker, Append(toBroker, x)}
        /\ \/ cur'.op \notin RequestOps
           \/ cur'.op = op /\ cur'.call = x.call /\ cur'.id = x.id
    BY <1>2 DEF TakesId, Waiting, Short
  <2>2. PICK c : c = cur'
    OBVIOUS
  <2>3. c.op \in RequestOps => c.call = ncalls + 1 /\ c.id = t
    BY <2>1, <2>2
  <2>4. Tracked(toBroker, toClient, t, ncalls + 1, c, done)
    BY <1>t, <1>i, <2>3, TrackedCall
  <2>5. t \in 0..MAX_PACKET_ID
    BY <1>t, ShortNext
  <2> HIDE DEF s, t
  <2>6. Recent(x, t, ncalls + 1, c)
    <3>1. Behind(x.id, x.call, t, ncalls + 1)
      BY <1>t, <2>1, <2>5, ClientAssumption DEF Behind
    <3> QED BY <1>t, <2>1, <2>3, <2>5, <3>1 DEF Recent
  <2>7. Tracked(Append(toBroker, x), toClient, t, ncalls + 1, c, done)
    BY <1>t, <2>4, <2>6, TrackedSend
  <2>8. Free(op, x.call, toBroker, toClient, completed)
    <3>1. ~(ncalls + 1 <= ncalls) /\ op # "none"
      BY <1>t DEF RequestOps
    <3>2. \A i \in DOMAIN toBroker : ~(Asks(toBroker[i]) = op /\ toBroker[i].call = ncalls + 1)
      BY <1>t, <1>i, <3>1 DEF Tracked, Recent
    <3>3. \A i \in DOMAIN toClient : ~(Answers(toClient[i]) = op /\ toClient[i].call = ncalls + 1)
      BY <1>t, <1>i, <3>1 DEF Tracked, Recent
    <3>4. \A d \in completed : d.ack # ncalls + 1
      <4> SUFFICES ASSUME NEW d \in completed PROVE d.ack # ncalls + 1
        OBVIOUS
      <4>1. d.ack \in Nat /\ d.call \in Nat /\ d.ack <= d.call /\ d.call <= ncalls
        BY <1>i DEF Ended
      <4> QED BY <1>t, <4>1
    <3> QED BY <2>1, <3>2, <3>3, <3>4 DEF Free
  <2>9. Single(Append(toBroker, x), toClient, completed)
    BY <1>t, <1>i, <1>n, <2>1, <2>8, SingleSend
  <2>10. Tracked(toBroker', toClient, t, ncalls + 1, c, done) /\ Single(toBroker', toClient, completed)
    BY <1>i, <2>1, <2>4, <2>7, <2>9
  <2> QED BY <1>e, <2>1, <2>2, <2>10 DEF RequestInv
<1> QED BY <1>1, <1>2

\* So does the broker.
LEMMA BrokerKeepsRequests ==
  ASSUME TypeOK, TypeOK', RequestInv, BrokerNext \/ LinkCloses, UNCHANGED clientVars
  PROVE  RequestInv'
<1> DEFINE p == Head(toBroker)
           rest == Tail(toBroker)
           s == Short(next_packetid)
<1>t. toBroker \in Seq(Packet) /\ toClient \in Seq(Packet)
  BY DEF TypeOK, WireTypeOK
<1>d. done \subseteq done'
  BY BrokerRequests
<1>u. Short(next_packetid)' = s /\ ncalls' = ncalls /\ completed' = completed /\ cur' = cur
  BY DEF clientVars, structVars, Short
<1>2. PICK acks : acks = done'
  OBVIOUS
<1>i. /\ Tracked(toBroker, toClient, s, ncalls, cur, acks)
      /\ Ended(completed, ncalls, acks)
      /\ Single(toBroker, toClient, completed)
  <2>1. /\ Tracked(toBroker, toClient, s, ncalls, cur, done)
        /\ Ended(completed, ncalls, done)
        /\ Single(toBroker, toClient, completed)
    BY DEF RequestInv
  <2>2. done \subseteq acks
    BY <1>d, <1>2
  <2>3. Tracked(toBroker, toClient, s, ncalls, cur, acks)
    BY <2>1, <2>2, TrackedEnd
  <2>4. Ended(completed, ncalls, acks)
    BY <2>1, <2>2 DEF Ended
  <2> QED BY <2>1, <2>3, <2>4
<1>n. \A c \in completed : c.op # "none"
  BY <1>i, EndedOps
<1> HIDE DEF s
<1>q. ASSUME Tracked(toBroker', toClient', s, ncalls, cur, acks),
             Single(toBroker', toClient', completed)
      PROVE  RequestInv'
  BY <1>i, <1>q, <1>u, <1>2 DEF RequestInv
<1>r. ASSUME toBroker # <<>>
      PROVE  /\ p \in Packet /\ rest \in Seq(Packet)
             /\ Tracked(rest, toClient, s, ncalls, cur, acks)
             /\ Single(rest, toClient, completed)
             /\ Asks(p) # "none" => /\ Recent(p, s, ncalls, cur)
                                    /\ Free(Asks(p), p.call, rest, toClient, completed)
  <2>1. p \in Packet /\ rest \in Seq(Packet)
    BY <1>t, <1>r
  <2>2. /\ Tracked(rest, toClient, s, ncalls, cur, acks)
        /\ Asks(p) # "none" => Recent(p, s, ncalls, cur)
    BY <1>t, <1>i, <1>r, TrackedReceive
  <2>3. /\ Single(rest, toClient, completed)
        /\ Asks(p) # "none" => Free(Asks(p), p.call, rest, toClient, completed)
    BY <1>t, <1>i, <1>r, SingleReceive
  <2> QED BY <2>1, <2>2, <2>3
<1>s. Single(<<>>, toClient, completed) /\ Tracked(<<>>, toClient, s, ncalls, cur, acks)
  <2>1. DOMAIN <<>> = {}
    OBVIOUS
  <2>2. Single(<<>>, toClient, completed)
    BY <1>i, <2>1 DEF Single
  <2> QED BY <1>i, <2>2, TrackedEnd
<1>p. ASSUME NEW x \in Packet, Answers(x) = "none", NEW up \in Seq(Packet),
             Tracked(up, toClient, s, ncalls, cur, acks), Single(up, toClient, completed)
      PROVE  /\ Tracked(up, Append(toClient, x), s, ncalls, cur, acks)
             /\ Single(up, Append(toClient, x), completed)
  <2>1. Tracked(up, Append(toClient, x), s, ncalls, cur, acks)
    BY <1>p, <1>t, TrackedReply
  <2>2. Single(up, Append(toClient, x), completed)
    BY <1>p, <1>t, <1>n, SingleReply
  <2> QED BY <2>1, <2>2
<1>3. ASSUME \/ toBroker' = <<>> \/ toBroker' = toBroker
             \/ toBroker # <<>> /\ toBroker' = Tail(toBroker),
             TellsPlain
      PROVE  RequestInv'
  <2>1. /\ toBroker' \in Seq(Packet)
        /\ Tracked(toBroker', toClient, s, ncalls, cur, acks)
        /\ Single(toBroker', toClient, completed)
    <3>1. CASE toBroker' = <<>>
      <4>1. <<>> \in Seq(Packet)
        OBVIOUS
      <4> QED BY <1>s, <3>1, <4>1
    <3>2. CASE toBroker' = toBroker
      BY <1>t, <1>i, <3>2
    <3>3. CASE toBroker # <<>> /\ toBroker' = rest
      <4> HIDE DEF rest
      <4> QED BY <1>r, <3>3
    <3> QED BY <1>3, <3>1, <3>2, <3>3
  <2>2. PICK up \in Seq(Packet) : up = toBroker'
    BY <2>1
  <2>3. CASE toClient' = toClient
    BY <1>q, <2>1, <2>3
  <2>4. ASSUME NEW x \in Packet, Answers(x) = "none", toClient' = Append(toClient, x)
        PROVE  RequestInv'
    <3>1. /\ Tracked(up, Append(toClient, x), s, ncalls, cur, acks)
          /\ Single(up, Append(toClient, x), completed)
      BY <1>p, <2>1, <2>2, <2>4
    <3> QED BY <1>q, <2>2, <2>4, <3>1
  <2> QED BY <1>3, <2>3, <2>4 DEF TellsPlain
<1>4. ASSUME Finishes PROVE RequestInv'
  <2> HIDE DEF rest
  <2>1. toBroker # <<>> /\ toBroker' = rest /\ Asks(p) # "none"
    BY <1>4 DEF Finishes, rest
  <2>2. PICK x \in Packet, m \in Packet :
          /\ Answers(x) = Asks(p) /\ x.id = p.id /\ x.call = p.call
          /\ x.type # "PUBREC" => <<x.type, x.call>> \in acks
          /\ Answers(m) = "none"
          /\ toClient' \in {Append(toClient, x), Append(Append(toClient, m), x)}
    BY <1>4, <1>2 DEF Finishes
  <2> HIDE DEF p
  <2>3. Recent(x, s, ncalls, cur) /\ Acknowledged(x, acks)
    BY <1>r, <2>1, <2>2 DEF Recent, Acknowledged
  <2>4. ASSUME NEW down \in Seq(Packet), Tracked(rest, down, s, ncalls, cur, acks),
               Single(rest, down, completed), Free(Asks(p), p.call, rest, down, completed)
        PROVE  /\ Tracked(rest, Append(down, x), s, ncalls, cur, acks)
               /\ Single(rest, Append(down, x), completed)
    <3>1. Tracked(rest, Append(down, x), s, ncalls, cur, acks)
      BY <2>3, <2>4, TrackedReply
    <3>2. Single(rest, Append(down, x), completed)
      BY <1>n, <1>r, <2>1, <2>2, <2>4, SingleReply
    <3> QED BY <3>1, <3>2
  <2>5. /\ Tracked(rest, Append(toClient, x), s, ncalls, cur, acks)
        /\ Single(rest, Append(toClient, x), completed)
    BY <1>t, <1>r, <2>1, <2>4
  <2>6. /\ Append(toClient, m) \in Seq(Packet)
        /\ Tracked(rest, Append(toClient, m), s, ncalls, cur, acks)
        /\ Single(rest, Append(toClient, m), completed)
    BY <1>t, <1>p, <1>r, <2>1, <2>2
  <2>7. Free(Asks(p), p.call, rest, Append(toClient, m), completed)
    <3> DEFINE am == Append(toClient, m)
    <3>1. \A i \in DOMAIN am : am[i] = m \/ (i \in DOMAIN toClient /\ am[i] = toClient[i])
      BY <1>t
    <3> HIDE DEF am
    <3> QED BY <1>r, <2>1, <2>2, <3>1 DEF Free, am
  <2>8. /\ Tracked(rest, Append(Append(toClient, m), x), s, ncalls, cur, acks)
        /\ Single(rest, Append(Append(toClient, m), x), completed)
    BY <2>4, <2>6, <2>7
  <2> QED BY <1>q, <2>1, <2>2, <2>5, <2>8
<1> QED BY <1>3, <1>4, BrokerRequests

\* Every request, from the call that makes it to the call that its acknowledgement
\* ends, is where RequestInv says.
THEOREM RequestsTracked == Spec => []RequestInv
<1>1. Init => RequestInv
  <2> SUFFICES ASSUME Init PROVE RequestInv
    OBVIOUS
  <2>1. toBroker = <<>> /\ toClient = <<>> /\ completed = {} /\ cur = Idle
    BY DEF Init, ClientInit
  <2>2. DOMAIN <<>> = {} /\ Idle.op \notin RequestOps
    BY DEF Idle, RequestOps
  <2> QED BY <2>1, <2>2 DEF RequestInv, Tracked, Ended, Single
<1>2. TypeOK /\ TypeOK' /\ RequestInv /\ [Next]_vars => RequestInv'
  <2> SUFFICES ASSUME TypeOK, TypeOK', RequestInv, [Next]_vars PROVE RequestInv'
    OBVIOUS
  <2>1. CASE NewConnection
    <3>1. /\ toBroker' = <<>> /\ toClient' = <<>> /\ completed' = completed /\ cur' = cur
          /\ Short(next_packetid)' = Short(next_packetid) /\ ncalls' = ncalls /\ done' = done
      BY <2>1 DEF NewConnection, ConnectNetwork, structVars, Short
    <3>2. Tracked(<<>>, <<>>, Short(next_packetid), ncalls, cur, done)
      BY TrackedEnd DEF RequestInv
    <3>3. Single(<<>>, <<>>, completed)
      <4>1. DOMAIN <<>> = {}
        OBVIOUS
      <4> QED BY <4>1 DEF RequestInv, Single
    <3> QED BY <3>1, <3>2, <3>3 DEF RequestInv
  <2>2. CASE ClientNext /\ UNCHANGED brokerVars
    <3>1. ASSUME NEW e \in BOOLEAN, NEW rc \in Results, cycle(e, rc) PROVE RequestInv'
      BY <2>2, <3>1, CycleKeepsRequests
    <3>2. ASSUME UNCHANGED <<toBroker, toClient, next_packetid, ncalls, cur, completed>>
          PROVE  RequestInv'
      BY <2>2, <3>2 DEF brokerVars, RequestInv, Short
    <3>3. ASSUME toClient' = toClient, completed' = completed,
                 TakesNoId \/ \E op \in RequestOps, x \in Packet : TakesId(op, x)
          PROVE  RequestInv'
      BY <2>2, <3>3, EntryKeepsRequests DEF brokerVars
    <3> QED BY <2>2, <3>1, <3>2, <3>3, EntryRequests
  <2>3. CASE (BrokerNext \/ LinkCloses) /\ UNCHANGED clientVars
    BY <2>3, BrokerKeepsRequests
  <2>4. CASE UNCHANGED vars
    BY <2>4 DEF vars, clientVars, structVars, wireVars, brokerVars, RequestInv, Short
  <2> QED BY <2>1, <2>2, <2>3, <2>4 DEF Next
<1> QED BY <1>1, <1>2, TypeCorrect, PTL DEF Spec

\* CompletionsAreAnswered is an invariant: although waitfor compares packet types only,
\* and answers come late, or to calls that timed out, no call ends well without an
\* acknowledgement that the broker sent for it or an earlier call, and none ends two.
THEOREM CompletionsReal == Spec => []CompletionsAreAnswered
<1>1. RequestInv => CompletionsAreAnswered
  BY DEF RequestInv, Ended, Single, CompletionsAreAnswered
<1> QED BY <1>1, RequestsTracked, PTL

\* SameIdSameRequest is an invariant, for every number of identifiers and every value
\* next_packetid may start with: an acknowledgement with the identifier of the waiting
\* call answers it, unless MAX_PACKET_ID or more calls lie between.
THEOREM IdsTellRequests == Spec => []SameIdSameRequest
<1>1. RequestInv => SameIdSameRequest
  BY DEF RequestInv, Ended, SameIdSameRequest
<1> QED BY <1>1, RequestsTracked, PTL

(***************************************************************************)
(* NoSilentLoss.  The broker publishes for the filters it knows, and it    *)
(* knows those of the SUBSCRIBEs the client sent: each of them has a       *)
(* handler or is counted as unserved, wherever its SUBSCRIBE is.           *)
(***************************************************************************)
Covered(f) == f = NoTopic \/ f \in unserved \/ \E s \in Slots : messageHandlers[s] = f

ServedInv ==
  /\ \A i \in DOMAIN toBroker : toBroker[i].type = "SUBSCRIBE" => Covered(toBroker[i].topic)
  /\ \A f \in subs : Covered(f)
  /\ \A i \in DOMAIN toClient :
       toClient[i].type = "PUBLISH" =>
         \E f \in Filters : Covered(f) /\ <<f, toClient[i].topic>> \in Matches

\* Only the end of an MQTTSubscribe touches the handlers.
LEMMA ReturnServes ==
  ASSUME NEW STATE p, NEW e, CycleReturns(p, e) \/ CycleFails(e) \/ LoopHead(e)
  PROVE  UNCHANGED <<messageHandlers, unserved>> \/ SubscribeCompletes(p)
BY DEF CycleReturns, CycleFails, LoopHead, ConnectCompletes, UnsubscribeCompletes, PublishCompletes

\* A filter that has a handler keeps it, one that is counted as unserved stays so
\* until it has one.
LEMMA CoveredStays ==
  ASSUME TypeOK, NEW STATE p,
         \/ UNCHANGED <<messageHandlers, unserved>>
         \/ SubscribeCompletes(p)
         \/ messageHandlers' = messageHandlers /\ unserved \subseteq unserved'
  PROVE  \A f : Covered(f) => Covered(f)'
<1>1. CASE UNCHANGED <<messageHandlers, unserved>>
  BY <1>1 DEF Covered
<1>2. CASE messageHandlers' = messageHandlers /\ unserved \subseteq unserved'
  BY <1>2 DEF Covered
<1>3. CASE SubscribeCompletes(p) /\ ~UNCHANGED <<messageHandlers, unserved>>
  <2>1. /\ messageHandlers' = InstallHandler(cur.topic)
        /\ unserved' = IF \E i \in Slots : messageHandlers'[i] = cur.topic
                       THEN unserved \ {cur.topic} ELSE unserved
    BY <1>3 DEF SubscribeCompletes
  <2> SUFFICES ASSUME NEW f, Covered(f) PROVE Covered(f)'
    OBVIOUS
  <2>2. CASE f \in unserved
    BY <2>1, <2>2 DEF Covered
  <2>3. ASSUME NEW s \in Slots, messageHandlers[s] = f, f # NoTopic PROVE Covered(f)'
    <3>1. messageHandlers'[s] = f
      BY <2>1, <2>3 DEF InstallHandler, FreeSlots
    <3> QED BY <3>1 DEF Covered
  <2>4. CASE f = NoTopic
    BY <2>4 DEF Covered
  <2> QED BY <2>2, <2>3, <2>4 DEF Covered
<1> QED BY <1>1, <1>2, <1>3

\* What a step of the client may do to the handlers and to the two streams.
Serves ==
  /\ \A f : Covered(f) => Covered(f)'
  /\ toClient' = toClient \/ (toClient # <<>> /\ toClient' = Tail(toClient))
  /\ \/ toBroker' = toBroker
     \/ \E x \in Packet : /\ toBroker' = Append(toBroker, x)
                          /\ x.type = "SUBSCRIBE" => x.topic \in unserved'

LEMMA CycleServes ==
  ASSUME TypeOK, NEW e \in BOOLEAN, NEW rc \in Results, cycle(e, rc)
  PROVE  Serves
<1> DEFINE p == Head(toClient)
           rel == Pkt("PUBREL", p.id, p.call, NoTopic, 0, TRUE)
           Other(x) == x \in Packet /\ x.type # "SUBSCRIBE"
<1>1. CycleReturns(p, e) \/ CycleFails(e) \/ LoopHead(e)
  BY DEF cycle, CyclePlain, CyclePublish, CyclePubrec, CycleReadFails
<1>2. \A f : Covered(f) => Covered(f)'
  <2>1. UNCHANGED <<messageHandlers, unserved>> \/ SubscribeCompletes(p)
    BY <1>1, ReturnServes
  <2> HIDE DEF p
  <2> QED BY <2>1, CoveredStays
<1>3. toClient' = toClient \/ (toClient # <<>> /\ toClient' = Tail(toClient))
  BY DEF cycle, CyclePlain, CyclePublish, CyclePubrec, CycleReadFails, readPacket
<1>4. toBroker' = toBroker \/ \E x : Other(x) /\ toBroker' = Append(toBroker, x)
  <2>1. CASE SendsPlain
    <3>1. \A x : x \in Packet /\ ~Labelled(x) => Other(x)
      BY DEF Labelled
    <3> QED BY <2>1, <3>1 DEF SendsPlain
  <2>2. CASE toClient # <<>> /\ toBroker' \in {toBroker, Append(toBroker, rel)}
    <3>1. p \in Packet
      BY <2>2 DEF TypeOK, WireTypeOK
    <3>2. Other(rel)
      BY <3>1, PktType DEF Packet, ClientPackets, Topic, Pkt
    <3> QED BY <2>2, <3>2
  <2> QED BY <2>1, <2>2, CycleRequests
<1> QED BY <1>2, <1>3, <1>4 DEF Serves

LEMMA RequestServes ==
  ASSUME TypeOK, NEW op \in Ops, NEW type \in ClientPackets, NEW topic \in Topic,
         NEW qos \in Nat, NEW rc, NEW e, Request(op, type, topic, qos, rc, e),
         type = "SUBSCRIBE" => op = "SUBSCRIBE"
  PROVE  Serves
<1> DEFINE id == Short(getNextPacketId)
           x == Pkt(type, id, ncalls + 1, topic, qos, TRUE)
<1>1. id \in Nat /\ ncalls + 1 \in Nat
  BY NextIdType DEF TypeOK, ClientTypeOK
<1>2. x \in Packet
  <2> HIDE DEF id
  <2> QED BY <1>1, PktType
<1>3. x.type = type /\ x.topic = topic
  BY DEF Pkt
<1>4. toBroker' \in {toBroker, Append(toBroker, x)}
  BY DEF Request, sendPacket
<1>5. /\ messageHandlers' = messageHandlers /\ toClient' = toClient
      /\ unserved' = IF op = "SUBSCRIBE" THEN unserved \cup {topic} ELSE unserved
  BY DEF Request, cycleVars
<1> HIDE DEF x
<1>6. \A f : Covered(f) => Covered(f)'
  <2>1. unserved \subseteq unserved'
    BY <1>5
  <2> QED BY <1>5, <2>1, CoveredStays
<1> QED BY <1>2, <1>3, <1>4, <1>5, <1>6 DEF Serves

LEMMA ClientServes ==
  ASSUME TypeOK, ClientNext
  PROVE  Serves
<1>t. ncalls + 1 \in Nat
  BY DEF TypeOK, ClientTypeOK
<1>k. ASSUME UNCHANGED <<messageHandlers, unserved, toClient>>,
             \/ toBroker' = toBroker
             \/ \E x \in Packet : x.type # "SUBSCRIBE" /\ toBroker' = Append(toBroker, x)
      PROVE  Serves
  BY <1>k, CoveredStays DEF Serves
<1>1. CASE MQTTYield \/ PingTimerExpires
  BY <1>1, <1>k DEF MQTTYield, PingTimerExpires, structVars, wireVars, cycleVars
<1>2. ASSUME NEW rc \in Results, MQTTDisconnect(rc) PROVE Serves
  <2> DEFINE x == Pkt("DISCONNECT", 0, ncalls + 1, NoTopic, 0, TRUE)
  <2>1. x \in Packet /\ x.type # "SUBSCRIBE"
    BY <1>t, PktType DEF ClientPackets, Topic, Pkt
  <2>2. toBroker' \in {toBroker, Append(toBroker, x)}
        /\ UNCHANGED <<messageHandlers, unserved, toClient>>
    BY <1>2 DEF MQTTDisconnect, sendPacket, cycleVars
  <2> HIDE DEF x
  <2> QED BY <1>k, <2>1, <2>2
<1>3. ASSUME NEW rc \in Results, NEW e \in BOOLEAN, NEW k \in KeepAliveIntervals,
             MQTTConnect(k, rc, e)
      PROVE  Serves
  <2> DEFINE x == Pkt("CONNECT", 0, ncalls + 1, NoTopic, 0, TRUE)
  <2>1. x \in Packet /\ x.type # "SUBSCRIBE"
    BY <1>t, PktType DEF ClientPackets, Topic, Pkt
  <2>2. toBroker' \in {toBroker, Append(toBroker, x)}
        /\ UNCHANGED <<messageHandlers, unserved, toClient>>
    BY <1>3 DEF MQTTConnect, cycleVars
  <2> HIDE DEF x
  <2> QED BY <1>k, <2>1, <2>2
<1>4. ASSUME NEW op, NotConnected(op) PROVE Serves
  BY <1>4, <1>k DEF NotConnected, structVars, wireVars
<1>5. ASSUME NEW rc \in Results, NEW t \in Topics, PublishQoS0(t, rc) PROVE Serves
  <2> DEFINE x == Pkt("PUBLISH", 0, ncalls + 1, t, 0, TRUE)
  <2>1. x \in Packet /\ x.type # "SUBSCRIBE"
    BY <1>t, PktType DEF ClientPackets, Topic, Pkt
  <2>2. toBroker' \in {toBroker, Append(toBroker, x)}
        /\ UNCHANGED <<messageHandlers, unserved, toClient>>
    BY <1>5 DEF PublishQoS0, sendPacket, cycleVars
  <2> HIDE DEF x
  <2> QED BY <1>k, <2>1, <2>2
<1>6. ASSUME NEW rc \in Results, NEW e \in BOOLEAN, NEW f \in Filters,
             MQTTSubscribe(f, rc, e) \/ MQTTUnsubscribe(f, rc, e)
      PROVE  Serves
  <2>1. CASE Request("SUBSCRIBE", "SUBSCRIBE", f, 0, rc, e)
    BY <2>1, RequestServes DEF Ops, ClientPackets, Topic
  <2>2. CASE Request("UNSUBSCRIBE", "UNSUBSCRIBE", f, 0, rc, e)
    BY <2>2, RequestServes DEF Ops, ClientPackets, Topic
  <2> QED BY <1>4, <1>6, <2>1, <2>2 DEF MQTTSubscribe, MQTTUnsubscribe
<1>7. ASSUME NEW rc \in Results, NEW e \in BOOLEAN, NEW t \in Topics, NEW q \in 0..2,
             MQTTPublish(t, q, rc, e)
      PROVE  Serves
  <2>1. CASE Request("PUBLISH1", "PUBLISH", t, 1, rc, e)
    BY <2>1, RequestServes DEF Ops, ClientPackets, Topic
  <2>2. CASE Request("PUBLISH2", "PUBLISH", t, 2, rc, e)
    BY <2>2, RequestServes DEF Ops, ClientPackets, Topic
  <2> QED BY <1>4, <1>5, <1>7, <2>1, <2>2 DEF MQTTPublish
<1> QED BY <1>1, <1>2, <1>3, <1>6, <1>7, CycleServes DEF ClientNext

\* The broker learns a filter from a SUBSCRIBE only, and publishes for the filters it
\* knows only.
LEMMA BrokerServes ==
  ASSUME TypeOK, BrokerNext \/ LinkCloses
  PROVE  /\ \A i \in DOMAIN toBroker' : \E j \in DOMAIN toBroker : toBroker'[i] = toBroker[j]
         /\ \A f \in subs' : \/ f \in subs
                             \/ \E j \in DOMAIN toBroker : /\ toBroker[j].type = "SUBSCRIBE"
                                                           /\ toBroker[j].topic = f
         /\ \A i \in DOMAIN toClient' :
              \/ \E j \in DOMAIN toClient : toClient'[i] = toClient[j]
              \/ toClient'[i].type # "PUBLISH"
              \/ \E f \in subs' : <<f, toClient'[i].topic>> \in Matches
<1> DEFINE p == Head(toBroker)
           Kept == \A i \in DOMAIN toBroker' : \E j \in DOMAIN toBroker : toBroker'[i] = toBroker[j]
           Known == \A f \in subs' :
                      \/ f \in subs
                      \/ \E j \in DOMAIN toBroker : /\ toBroker[j].type = "SUBSCRIBE"
                                                    /\ toBroker[j].topic = f
           Fine(x) == x.type # "PUBLISH" \/ \E f \in subs' : <<f, x.topic>> \in Matches
           Sent == \A i \in DOMAIN toClient' :
                     (\E j \in DOMAIN toClient : toClient'[i] = toClient[j]) \/ Fine(toClient'[i])
<1>t. toBroker \in Seq(Packet) /\ toClient \in Seq(Packet)
  BY DEF TypeOK, WireTypeOK
<1>k. ASSUME toBroker' = toBroker \/ toBroker' = <<>>
             \/ (toBroker # <<>> /\ toBroker' = Tail(toBroker))
      PROVE  Kept
  BY <1>t, <1>k
<1>h. toBroker # <<>> => 1 \in DOMAIN toBroker /\ p = toBroker[1]
  BY <1>t
<1>e. toClient' = toClient => Sent
  OBVIOUS
<1>a. ASSUME NEW x, Fine(x), toClient' = Append(toClient, x) PROVE Sent
  <2> HIDE DEF Fine
  <2>1. \A i \in DOMAIN toClient' : (i \in DOMAIN toClient /\ toClient'[i] = toClient[i])
                                   \/ toClient'[i] = x
    BY <1>t, <1>a
  <2> QED BY <1>a, <2>1
<1>1. ASSUME NEW v \in {SUCCESS, ConnectRefused}, BrokerConnect(v) PROVE Kept /\ Known /\ Sent
  <2> DEFINE connack == Pkt("CONNACK", 0, p.call, NoTopic, v, TRUE)
  <2>1. Fine(connack)
    BY DEF Pkt
  <2>2. /\ toClient' = toClient \/ toClient' = Append(toClient, connack)
        /\ subs' \subseteq subs
        /\ toBroker' = <<>> \/ (toBroker # <<>> /\ toBroker' = Tail(toBroker))
    BY <1>1 DEF BrokerConnect, CloseLink, Receive
  <2> HIDE DEF connack, Fine
  <2> QED BY <1>a, <1>e, <1>k, <2>1, <2>2
<1>2. ASSUME NEW ok \in Intact, NEW v \in {0, SubscribeRefused}, NEW early \in BOOLEAN,
             BrokerSubscribe(v, early, ok)
      PROVE  Kept /\ Known /\ Sent
  <2> DEFINE suback == Pkt("SUBACK", p.id, p.call, NoTopic, v, ok)
  <2>1. Fine(suback)
    BY DEF Pkt
  <2>2. /\ toBroker # <<>> /\ toBroker' = Tail(toBroker) /\ p.type = "SUBSCRIBE"
        /\ subs' = IF v = SubscribeRefused THEN subs ELSE subs \cup {p.topic}
    BY <1>2 DEF BrokerSubscribe, Receive, Reply
  <2>3. CASE toClient' = toClient \o <<suback>>
    <3>1. toClient' = Append(toClient, suback)
      <4> HIDE DEF suback
      <4> QED BY <1>t, <2>3
    <3> HIDE DEF suback, Fine
    <3> QED BY <1>a, <1>h, <1>k, <2>1, <2>2, <3>1
  <2>4. ASSUME NEW t \in Topics, <<p.topic, t>> \in Matches, v # SubscribeRefused,
               toClient' = toClient \o <<Message(t, 0, TRUE), suback>>
        PROVE  Kept /\ Known /\ Sent
    <3> DEFINE m == Message(t, 0, TRUE)
    <3>1. Fine(m)
      BY <2>2, <2>4 DEF Message, Pkt
    <3>0. toClient' = toClient \o <<m, suback>>
      BY <2>4
    <3> HIDE DEF suback, m, Fine
    <3>2. \A i \in DOMAIN toClient' : \/ i \in DOMAIN toClient /\ toClient'[i] = toClient[i]
                                     \/ toClient'[i] = m \/ toClient'[i] = suback
      BY <1>t, <3>0
    <3>3. Sent
      BY <2>1, <3>1, <3>2
    <3> QED BY <1>h, <1>k, <2>2, <3>3
  <2> QED BY <1>2, <2>3, <2>4 DEF BrokerSubscribe, Reply
<1>3. ASSUME BrokerAnswer PROVE Kept /\ Known /\ Sent
  <2> DEFINE answer == Pkt(AnswerType(p), p.id, p.call, NoTopic, 0, TRUE)
  <2>1. Fine(answer)
    BY DEF AnswerType, Pkt
  <2>2. /\ toBroker # <<>> /\ toBroker' = Tail(toBroker) /\ subs' \subseteq subs
        /\ toClient' = toClient \o (IF AnswerType(p) = "none" THEN <<>> ELSE <<answer>>)
    BY <1>3 DEF BrokerAnswer, Receive, Reply
  <2> HIDE DEF answer, Fine
  <2>3. toClient' = toClient \/ toClient' = Append(toClient, answer)
    BY <1>t, <2>2
  <2> QED BY <1>a, <1>e, <1>k, <2>1, <2>2, <2>3
<1>4. ASSUME NEW ok \in Intact, NEW t \in Topics, NEW q \in 0..2, BrokerPublish(t, q, ok)
      PROVE  Kept /\ Known /\ Sent
  <2> DEFINE m == Message(t, q, ok)
  <2>1. Fine(m)
    BY <1>4 DEF BrokerPublish, Message, Pkt
  <2>2. toClient' = Append(toClient, m) /\ UNCHANGED <<toBroker, subs>>
    BY <1>4 DEF BrokerPublish
  <2> HIDE DEF m, Fine
  <2> QED BY <1>a, <1>k, <2>1, <2>2
<1>5. ASSUME BrokerDisconnect \/ LinkCloses PROVE Kept /\ Known /\ Sent
  <2>1. toBroker' = <<>> /\ UNCHANGED <<toClient, subs>>
    BY <1>5 DEF BrokerDisconnect, LinkCloses, CloseLink, brokerVars
  <2> HIDE DEF Fine
  <2> QED BY <1>e, <1>k, <2>1
<1>6. Kept /\ Known /\ Sent
  <2> HIDE DEF Kept, Known, Sent
  <2>1. CASE \E ok \in Intact :
               \/ \E v \in {0, SubscribeRefused}, early \in BOOLEAN : BrokerSubscribe(v, early, ok)
               \/ \E t \in Topics, q \in 0..2 : BrokerPublish(t, q, ok)
    BY <1>2, <1>4, <2>1
  <2>2. CASE \E v \in {SUCCESS, ConnectRefused} : BrokerConnect(v)
    BY <1>1, <2>2
  <2> QED BY <1>3, <1>5, <2>1, <2>2 DEF BrokerNext
<1> QED BY <1>6

\* NoSilentLoss is an invariant, for every table size and every number of filters: a
\* message on its way has a handler waiting for it, unless an MQTTSubscribe for it has
\* not installed one.
THEOREM LossesAreKnown == Spec => []NoSilentLoss
<1>1. Init => ServedInv
  BY DEF Init, BrokerInit, ServedInv
<1>2. TypeOK /\ ServedInv /\ [Next]_vars => ServedInv'
  <2> SUFFICES ASSUME TypeOK, ServedInv, [Next]_vars PROVE ServedInv'
    OBVIOUS
  <2>t. toBroker \in Seq(Packet) /\ toClient \in Seq(Packet)
    BY DEF TypeOK, WireTypeOK
  <2>1. CASE NewConnection
    <3>1. /\ toBroker' = <<>> /\ toClient' = <<>> /\ subs' = subs
          /\ UNCHANGED <<messageHandlers, unserved>>
      BY <2>1 DEF NewConnection, ConnectNetwork, structVars
    <3>2. \A f : Covered(f) => Covered(f)'
      BY <3>1, CoveredStays
    <3>3. DOMAIN toBroker' = {} /\ DOMAIN toClient' = {}
      BY <3>1
    <3> QED BY <3>1, <3>2, <3>3 DEF ServedInv
  <2>2. CASE ClientNext /\ UNCHANGED brokerVars
    <3>1. Serves /\ subs' = subs
      BY <2>2, ClientServes DEF brokerVars
    <3>2. \A f : Covered(f) => Covered(f)'
      BY <3>1 DEF Serves
    <3>3. \A f : f \in unserved' => Covered(f)'
      BY DEF Covered
    <3>4. \A i \in DOMAIN toClient' : \E j \in DOMAIN toClient : toClient'[i] = toClient[j]
      BY <2>t, <3>1 DEF Serves
    <3>5. \A i \in DOMAIN toBroker' :
            \/ \E j \in DOMAIN toBroker : toBroker'[i] = toBroker[j]
            \/ toBroker'[i].type = "SUBSCRIBE" => toBroker'[i].topic \in unserved'
      <4>1. ASSUME NEW x \in Packet, toBroker' = Append(toBroker, x),
                   x.type = "SUBSCRIBE" => x.topic \in unserved'
            PROVE  \A i \in DOMAIN toBroker' :
                     \/ \E j \in DOMAIN toBroker : toBroker'[i] = toBroker[j]
                     \/ toBroker'[i].type = "SUBSCRIBE" => toBroker'[i].topic \in unserved'
        <5>1. \A i \in DOMAIN toBroker' :
                toBroker'[i] = x \/ (i \in DOMAIN toBroker /\ toBroker'[i] = toBroker[i])
          BY <2>t, <4>1
        <5> QED BY <4>1, <5>1
      <4> QED BY <3>1, <4>1 DEF Serves
    <3>6. \A i \in DOMAIN toBroker' :
            (toBroker[i].type = "SUBSCRIBE" => Covered(toBroker[i].topic))'
      <4> SUFFICES ASSUME NEW i \in DOMAIN toBroker', (toBroker[i].type = "SUBSCRIBE")'
                   PROVE  Covered(toBroker[i].topic)'
        OBVIOUS
      <4>1. CASE toBroker'[i].topic \in unserved'
        BY <4>1 DEF Covered
      <4>2. ASSUME NEW j \in DOMAIN toBroker, toBroker'[i] = toBroker[j]
            PROVE  Covered(toBroker[i].topic)'
        <5>1. PICK f : f = toBroker[j].topic
          OBVIOUS
        <5>2. Covered(f)'
          BY <3>2, <4>2, <5>1 DEF ServedInv
        <5> QED BY <4>2, <5>1, <5>2 DEF Covered
      <4> QED BY <3>5, <4>1, <4>2
    <3>7. \A i \in DOMAIN toClient' :
            toClient'[i].type = "PUBLISH" =>
              \E f \in Filters : Covered(f)' /\ <<f, toClient'[i].topic>> \in Matches
      BY <3>2, <3>4 DEF ServedInv
    <3>8. \A f \in subs' : Covered(f)'
      BY <3>1, <3>2 DEF ServedInv
    <3> QED BY <3>6, <3>7, <3>8 DEF ServedInv
  <2>3. CASE (BrokerNext \/ LinkCloses) /\ UNCHANGED clientVars
    <3>1. \A f : Covered(f) => Covered(f)'
      BY <2>3 DEF clientVars, structVars, Covered
    <3>2. \A i \in DOMAIN toBroker' : \E j \in DOMAIN toBroker : toBroker'[i] = toBroker[j]
      BY <2>3, BrokerServes
    <3>3. \A f \in subs' : \/ f \in subs
                           \/ \E j \in DOMAIN toBroker : /\ toBroker[j].type = "SUBSCRIBE"
                                                         /\ toBroker[j].topic = f
      BY <2>3, BrokerServes
    <3>4. \A i \in DOMAIN toClient' :
            \/ \E j \in DOMAIN toClient : toClient'[i] = toClient[j]
            \/ toClient'[i].type # "PUBLISH"
            \/ \E f \in subs' : <<f, toClient'[i].topic>> \in Matches
      BY <2>3, BrokerServes
    <3>5. \A f \in subs' : Covered(f)'
      BY <3>1, <3>3 DEF ServedInv
    <3>6. \A i \in DOMAIN toBroker' :
            (toBroker[i].type = "SUBSCRIBE" => Covered(toBroker[i].topic))'
      <4> SUFFICES ASSUME NEW i \in DOMAIN toBroker', (toBroker[i].type = "SUBSCRIBE")'
                   PROVE  Covered(toBroker[i].topic)'
        OBVIOUS
      <4>1. PICK j \in DOMAIN toBroker : toBroker'[i] = toBroker[j]
        BY <3>2
      <4>2. PICK f : f = toBroker[j].topic
        OBVIOUS
      <4>3. Covered(f)'
        BY <3>1, <4>1, <4>2 DEF ServedInv
      <4> QED BY <4>1, <4>2, <4>3 DEF Covered
    <3>7. \A i \in DOMAIN toClient' :
            toClient'[i].type = "PUBLISH" =>
              \E f \in Filters : Covered(f)' /\ <<f, toClient'[i].topic>> \in Matches
      <4>1. \A f, t : <<f, t>> \in Matches => f \in Filters
        BY TopicAssumption
      <4> QED BY <3>1, <3>4, <3>5, <4>1 DEF ServedInv
    <3> QED BY <3>5, <3>6, <3>7 DEF ServedInv
  <2>4. CASE UNCHANGED vars
    BY <2>4 DEF vars, clientVars, structVars, wireVars, brokerVars, ServedInv, Covered
  <2> QED BY <2>1, <2>2, <2>3, <2>4 DEF Next
<1>3. ServedInv => NoSilentLoss
  <2> SUFFICES ASSUME ServedInv, NEW i \in DOMAIN toClient, toClient[i].type = "PUBLISH"
               PROVE  \/ deliverMessage(toClient[i].topic) # {}
                      \/ \E f \in unserved : <<f, toClient[i].topic>> \in Matches
    BY DEF NoSilentLoss
  <2>1. PICK f \in Filters : Covered(f) /\ <<f, toClient[i].topic>> \in Matches
    BY DEF ServedInv
  <2>2. f # NoTopic
    BY TopicAssumption
  <2> QED BY <2>1, <2>2 DEF Covered, deliverMessage
<1> QED BY <1>1, <1>2, <1>3, TypeCorrect, PTL DEF Spec
=============================================================================
