--------------------------- MODULE CppClientProofs ---------------------------
(***************************************************************************)
(* Proofs about CppClient for any number of messages, calls, connections   *)
(* and failures.                                                           *)
(*                                                                         *)
(* What the client publishes (PInv): between calls nothing of a QoS 1      *)
(* message is under way (Quiet); during a publish, and a republish in      *)
(* connect, one PUBLISH or one PUBACK of this very message is              *)
(* (Exchange).  So a PUBACK ends the call it belongs to, although waitfor  *)
(* compares types only.                                                    *)
(*                                                                         *)
(* What it receives (TInv): at most one packet under way carries a message *)
(* that the broker keeps on, and it fits what the broker knows of it       *)
(* (Tokens, Items).  A QoS 2 message that was delivered has its identifier *)
(* in the table until its PUBREL, hence is not delivered again             *)
(* (Remembered).  The reverse is true but for identifiers left from an     *)
(* earlier session: one in the table that is not stale belongs to a        *)
(* message that was delivered (DInv).                                      *)
(***************************************************************************)
EXTENDS CppClient, FiniteSetTheorems, SequenceTheorems, TLAPS

PacketTypes ==
  {"CONNECT", "CONNACK", "PUBLISH", "PUBACK", "PUBREC", "PUBREL", "PUBCOMP",
   "SUBSCRIBE", "SUBACK", "UNSUBSCRIBE", "UNSUBACK", "PINGREQ", "PINGRESP", "DISCONNECT"}

Ids == BrokerIds \cup 0 .. MAX_PACKET_ID

Packet ==
  {p \in [type : PacketTypes, id : Ids, val : Nat, msg : Nat] :
     p.type = "PUBLISH" => p.val \in 0 .. 2}

Message == [id : 0 .. MAX_PACKET_ID, qos : 0 .. 2, msg : 0 .. MaxCalls]

Ops == {"idle", "connect", "republish", "publish", "subscribe", "unsubscribe", "yield"}

Item == [id : BrokerIds, qos : 1 .. 2, msg : Nat, released : BOOLEAN]

\* How often packets of a set stand in a queue: not at all, or at most once.
None(q, S) == \A k \in 1 .. Len(q) : q[k] \notin S

Once(q, S) == \A j, k \in 1 .. Len(q) : q[j] \in S /\ q[k] \in S => j = k

Foreign == {p \in Packet : p.type = "PUBLISH" /\ p.id \notin BrokerIds}

\* The types of all variables; messages to the client carry the broker's
\* identifiers.
LinkTypes ==
  /\ link \in {"up", "closed", "reset"}
  /\ toBroker \in Seq(Packet) /\ toClient \in Seq(Packet)
  /\ None(toClient, Foreign)

BrokerTypes ==
  /\ accepted \in BOOLEAN /\ subscribed \in BOOLEAN
  /\ out \subseteq Item /\ IsFiniteSet(out) /\ temporary \in BOOLEAN
  /\ npubs \in Nat /\ received \subseteq Nat /\ taken \subseteq Nat

ClientTypes ==
  /\ isconnected \in BOOLEAN /\ cleansession \in BOOLEAN /\ ping_outstanding \in BOOLEAN
  /\ packetid \in 0 .. MAX_PACKET_ID
  /\ inflight \in Message
  /\ incomingQoS2messages \subseteq BrokerIds /\ IsFiniteSet(incomingQoS2messages)
  /\ Cardinality(incomingQoS2messages) <= MAX_INCOMING_QOS2_MESSAGES
  /\ handlers \in 0 .. MAX_MESSAGE_HANDLERS
  /\ call \in [op : Ops, m : Message]
  /\ ncalls \in 0 .. MaxCalls /\ nconns \in Nat
  /\ arrived \in Seq(Nat \X Nat) /\ stored \subseteq Message /\ completed \subseteq Message

Types == LinkTypes /\ BrokerTypes /\ ClientTypes

Connacks == {p \in Packet : p.type = "CONNACK"}
Refusals == {p \in Packet : p.type = "CONNACK" /\ p.val # 0}
Pubacks == {p \in Packet : p.type = "PUBACK"}
Publishes == {p \in Packet : p.type = "PUBLISH" /\ p.val = 1}

Got(m) == m \in received

\* On a connection that it has not accepted the broker sends nothing but one
\* refusal, and closes it.
Greeted ==
  /\ ~accepted => None(toClient, Packet \ Refusals)
  /\ ~accepted /\ link = "up" => None(toClient, Packet)
  /\ Once(toClient, Connacks)

\* A client that takes itself for connected has read the one CONNACK of the
\* connection, which the broker has accepted or is closing.
Connected ==
  /\ isconnected \/ call.op = "republish" =>
       None(toClient, Connacks) /\ (accepted \/ link # "up")
  /\ call.op \in {"publish", "subscribe", "unsubscribe"} => isconnected
  /\ call.op \in {"connect", "republish"} => ~isconnected

\* No QoS 1 message of the client and no acknowledgement is under way.
Quiet == None(toBroker, Publishes) /\ None(toClient, Pubacks)

\* Nothing of message m but its PUBLISH or its PUBACK is under way, and the
\* broker had the message before it sent the PUBACK.
Exchange(m) ==
  /\ m.id > 0 /\ m.qos = 1
  /\ Once(toBroker, Publishes) /\ Once(toClient, Pubacks)
  /\ None(toBroker, Publishes) \/ None(toClient, Pubacks)
  /\ None(toBroker, Publishes \ {Pkt("PUBLISH", m.id, 1, m.msg)})
  /\ None(toClient, {p \in Pubacks : p.id # m.id})
  /\ None(toClient, Pubacks) \/ Got(m.msg)

Exchanges ==
  /\ ~accepted => Quiet
  /\ ~None(toClient, Connacks) => Quiet
  /\ isconnected /\ call.op # "publish" => Quiet /\ (inflight.id = 0 \/ inflight.qos = 2)
  /\ call.op \in {"publish", "republish"} => Exchange(call.m)
  /\ call.op = "republish" => inflight = call.m
  /\ call.op = "publish" => inflight.id = 0 \/ inflight = call.m \/ inflight.qos = 2
  /\ inflight.id > 0 => inflight.qos \in {1, 2}
  /\ \A m \in stored : m.qos = 1 => (inflight.id > 0 /\ inflight = m) \/ Got(m.msg)
  /\ \A m \in completed : m.qos = 1 => Got(m.msg)

PInv == Types /\ Greeted /\ Connected /\ Exchanges

\* The packets that carry a message of the session on, by its identifier.
Down(id) ==
  {p \in Packet : p.id = id /\ (p.type = "PUBREL" \/ (p.type = "PUBLISH" /\ p.val > 0))}
Up(id) == {p \in Packet : p.id = id /\ p.type \in {"PUBACK", "PUBREC", "PUBCOMP"}}

Arrived(m) == \E k \in 1 .. Len(arrived) : arrived[k] = <<m, 2>>

DownOK(p, items) ==
  /\ p.type = "PUBLISH" /\ p.val > 0 =>
       \E o \in items : o.id = p.id /\ o.qos = p.val /\ o.msg = p.msg /\ ~o.released
  /\ p.type = "PUBREL" => \E o \in items : o.id = p.id /\ o.released

UpOK(p, items) ==
  /\ p.type = "PUBACK" => \E o \in items : o.id = p.id /\ o.qos = 1
  /\ p.type = "PUBREC" => \E o \in items : o.id = p.id /\ o.qos = 2 /\ ~o.released
  /\ p.type = "PUBCOMP" => \E o \in items : o.id = p.id /\ o.released

DownLost(items) == {p \in Packet : ~DownOK(p, items)}
UpLost(items) == {p \in Packet : ~UpOK(p, items)}

\* At most one packet under way carries the message with this identifier on.
Token(id) ==
  /\ Once(toClient, Down(id)) /\ Once(toBroker, Up(id))
  /\ None(toClient, Down(id)) \/ None(toBroker, Up(id))
  /\ ~accepted => None(toClient, Down(id)) /\ None(toBroker, Up(id))

Tokens ==
  /\ \A id \in BrokerIds : Token(id)
  /\ None(toClient, DownLost(out))
  /\ None(toBroker, UpLost(out))

\* Each unfinished message of the session has an identifier of its own.
Items ==
  /\ \A o, u \in out : o.id = u.id \/ o.msg = u.msg => o = u
  /\ \A o \in out : o.msg <= npubs /\ (o.released => o.qos = 2)

\* The identifier of a message that was delivered stays in the table as long as
\* the broker may send the message again.
Remembered ==
  /\ \A o \in out : o.qos = 2 /\ ~o.released /\ Arrived(o.msg) =>
                      o.id \in incomingQoS2messages
  /\ \A k \in 1 .. Len(arrived) : arrived[k][2] = 2 => arrived[k][1] <= npubs
  /\ \A j, k \in 1 .. Len(arrived) : arrived[j] = arrived[k] /\ arrived[j][2] = 2 => j = k

TInv == Types /\ Greeted /\ Tokens /\ Items /\ Remembered

\* The identifiers in the table that belong to the broker's present session.
Current == incomingQoS2messages \ stale

Heard(m) == Arrived(m) \/ m \in excused

\* The packets that would let the client lose a message: a PUBCOMP for an
\* identifier that is still in the table, and a PUBREC for a message that was
\* neither delivered nor dropped for a reason that excuses it.
Leftover == {p \in Packet : p.type = "PUBCOMP" /\ p.id \in Current}
Unheard == {p \in Packet : p.type = "PUBREC" /\ \E o \in out : o.id = p.id /\ ~Heard(o.msg)}

\* No identifier is left in the table, within a session, of a message that the
\* broker has finished.
Taken ==
  /\ stale \subseteq incomingQoS2messages
  /\ \A id \in Current : \E o \in out : o.id = id /\ o.qos = 2
  /\ None(toBroker, Leftover)
  /\ \A o \in out : o.qos = 2 /\ ~o.released /\ o.id \in Current => Arrived(o.msg)
  /\ None(toBroker, Unheard)
  /\ \A m \in taken : Heard(m)

DInv == TInv /\ Taken

----------------------------------------------------------------------------
(* Queues.                                                                 *)

LEMMA QueueJoin ==
  ASSUME NEW q \in Seq(Packet), NEW a \in Seq(Packet)
  PROVE  /\ q \o a \in Seq(Packet)
         /\ Len(q) \in Nat /\ Len(a) \in Nat /\ Len(q \o a) = Len(q) + Len(a)
         /\ \A k \in 1 .. Len(q) + Len(a) :
              \/ k \in 1 .. Len(q) /\ (q \o a)[k] = q[k]
              \/ k - Len(q) \in 1 .. Len(a) /\ (q \o a)[k] = a[k - Len(q)]
<1>1. /\ q \o a \in Seq(Packet) /\ Len(q \o a) = Len(q) + Len(a)
      /\ \A k \in 1 .. Len(q) + Len(a) :
           (q \o a)[k] = IF k <= Len(q) THEN q[k] ELSE a[k - Len(q)]
  BY ConcatProperties
<1>2. Len(q) \in Nat /\ Len(a) \in Nat
  OBVIOUS
<1>3. \A k \in 1 .. Len(q) + Len(a) :
        \/ k \in 1 .. Len(q) /\ k <= Len(q)
        \/ k - Len(q) \in 1 .. Len(a) /\ ~(k <= Len(q))
  BY <1>2
<1>. QED
  BY <1>1, <1>2, <1>3

LEMMA QueueTail ==
  ASSUME NEW q \in Seq(Packet), q # <<>>
  PROVE  /\ Tail(q) \in Seq(Packet) /\ Head(q) \in Packet
         /\ Len(q) \in Nat /\ 1 \in 1 .. Len(q) /\ Head(q) = q[1]
         /\ Len(Tail(q)) = Len(q) - 1
         /\ \A k \in 1 .. Len(q) - 1 : k + 1 \in 1 .. Len(q) /\ Tail(q)[k] = q[k + 1]
<1>1. /\ Tail(q) \in Seq(Packet) /\ Head(q) \in Packet /\ Len(q) \in Nat /\ Len(q) > 0
      /\ Len(Tail(q)) = Len(q) - 1
      /\ \A k \in 1 .. Len(Tail(q)) : Tail(q)[k] = q[k + 1]
  BY HeadTailProperties
<1>2. Head(q) = q[1]
  OBVIOUS
<1>. QED
  BY <1>1, <1>2

LEMMA JoinNone ==
  ASSUME NEW q \in Seq(Packet), NEW a \in Seq(Packet), NEW S, None(q, S), None(a, S)
  PROVE  None(q \o a, S)
<1>1. ASSUME NEW k \in 1 .. Len(q) + Len(a)
      PROVE  (q \o a)[k] \notin S
  BY QueueJoin DEF None
<1>2. Len(q \o a) = Len(q) + Len(a)
  BY QueueJoin
<1>. QED
  BY <1>1, <1>2 DEF None

LEMMA TailNone ==
  ASSUME NEW q \in Seq(Packet), q # <<>>, NEW S, None(q, S)
  PROVE  None(Tail(q), S)
BY QueueTail DEF None

LEMMA JoinOnce ==
  ASSUME NEW q \in Seq(Packet), NEW a \in Seq(Packet), NEW S,
         Once(q, S), Once(a, S), None(q, S) \/ None(a, S)
  PROVE  Once(q \o a, S)
<1>. SUFFICES ASSUME NEW j \in 1 .. Len(q) + Len(a), NEW k \in 1 .. Len(q) + Len(a),
                     (q \o a)[j] \in S, (q \o a)[k] \in S
              PROVE  j = k
  BY QueueJoin DEF Once
<1>1. /\ \/ j \in 1 .. Len(q) /\ q[j] \in S
         \/ j - Len(q) \in 1 .. Len(a) /\ a[j - Len(q)] \in S
      /\ \/ k \in 1 .. Len(q) /\ q[k] \in S
         \/ k - Len(q) \in 1 .. Len(a) /\ a[k - Len(q)] \in S
  BY QueueJoin
<1>2. \/ j \in 1 .. Len(q) /\ q[j] \in S /\ k \in 1 .. Len(q) /\ q[k] \in S
      \/ /\ j - Len(q) \in 1 .. Len(a) /\ a[j - Len(q)] \in S
         /\ k - Len(q) \in 1 .. Len(a) /\ a[k - Len(q)] \in S
  BY <1>1 DEF None
<1>3. j = k \/ j - Len(q) = k - Len(q)
  BY <1>2 DEF Once
<1>4. Len(q) \in Nat /\ Len(a) \in Nat
  OBVIOUS
<1>. QED
  BY <1>3, <1>4

LEMMA TailOnce ==
  ASSUME NEW q \in Seq(Packet), q # <<>>, NEW S, Once(q, S)
  PROVE  /\ Once(Tail(q), S)
         /\ Head(q) \in S => None(Tail(q), S)
<1>1. ASSUME NEW j \in 1 .. Len(q) - 1, NEW k \in 1 .. Len(q) - 1,
             Tail(q)[j] \in S, Tail(q)[k] \in S
      PROVE  j = k
  <2>1. /\ j + 1 \in 1 .. Len(q) /\ q[j + 1] \in S
        /\ k + 1 \in 1 .. Len(q) /\ q[k + 1] \in S
    BY <1>1, QueueTail
  <2>2. j + 1 = k + 1
    BY <2>1 DEF Once
  <2>. QED
    BY <2>2
<1>2. ASSUME Head(q) \in S, NEW k \in 1 .. Len(q) - 1, Tail(q)[k] \in S
      PROVE  FALSE
  <2>1. /\ k + 1 \in 1 .. Len(q) /\ q[k + 1] \in S
        /\ 1 \in 1 .. Len(q) /\ q[1] \in S
    BY <1>2, QueueTail
  <2>2. k + 1 = 1
    BY <2>1 DEF Once
  <2>. QED
    BY <2>2
<1>. QED
  BY <1>1, <1>2, QueueTail DEF Once, None

LEMMA OfNone ==
  ASSUME NEW q \in Seq(Packet), NEW S, None(q, S)
  PROVE  Once(q, S)
BY DEF None, Once

LEMMA HeadNone ==
  ASSUME NEW q \in Seq(Packet), q # <<>>, NEW S, None(q, S)
  PROVE  Head(q) \notin S
BY QueueTail DEF None

LEMMA EmptyQueue ==
  ASSUME NEW S
  PROVE  None(<<>>, S) /\ Once(<<>>, S) /\ <<>> \in Seq(Packet)
BY DEF None, Once

LEMMA Single ==
  ASSUME NEW p \in Packet, NEW S
  PROVE  /\ <<p>> \in Seq(Packet) /\ <<p>> # <<>>
         /\ Once(<<p>>, S) /\ (p \notin S => None(<<p>>, S))
<1>1. <<p>> \in Seq(Packet) /\ Len(<<p>>) = 1 /\ <<p>>[1] = p
  OBVIOUS
<1>2. 1 .. 1 = {1}
  OBVIOUS
<1>. QED
  BY <1>1, <1>2 DEF Once, None

LEMMA SubNone ==
  ASSUME NEW q \in Seq(Packet), NEW S, NEW T, None(q, S), T \subseteq S
  PROVE  None(q, T)
BY DEF None

----------------------------------------------------------------------------
(* Types.                                                                  *)

LEMMA Constants ==
  /\ MAX_PACKET_ID \in Nat /\ MAX_PACKET_ID > 0
  /\ MAX_MESSAGE_HANDLERS \in Nat /\ MAX_MESSAGE_HANDLERS > 0
  /\ MAX_INCOMING_QOS2_MESSAGES \in Nat /\ MAX_INCOMING_QOS2_MESSAGES > 0
  /\ MaxCalls \in Nat /\ MaxConnections \in Nat
  /\ PublishQoS \subseteq 0 .. 2 /\ InboundQoS \subseteq 0 .. 2
  /\ CleanSessions \subseteq BOOLEAN /\ PingDue \subseteq BOOLEAN
BY CppAssumption, BrokerAssumption

LEMMA PktType ==
  ASSUME NEW t \in PacketTypes, NEW id \in Ids, NEW v \in Nat, NEW m \in Nat,
         t = "PUBLISH" => v \in 0 .. 2
  PROVE  /\ Pkt(t, id, v, m) \in Packet
         /\ Pkt(t, id, v, m).type = t /\ Pkt(t, id, v, m).id = id
         /\ Pkt(t, id, v, m).val = v /\ Pkt(t, id, v, m).msg = m
BY DEF Pkt, Packet

LEMMA PacketFields ==
  ASSUME NEW p \in Packet
  PROVE  /\ p.type \in PacketTypes /\ p.id \in Ids /\ p.val \in Nat /\ p.msg \in Nat
         /\ p.type = "PUBLISH" => p.val \in 0 .. 2
BY DEF Packet

LEMMA MessageFields ==
  ASSUME NEW m \in Message
  PROVE  /\ m.id \in 0 .. MAX_PACKET_ID /\ m.qos \in 0 .. 2 /\ m.msg \in 0 .. MaxCalls
         /\ m.id \in Ids /\ m.id \in Nat /\ m.qos \in Nat /\ m.msg \in Nat
<1>1. m.id \in 0 .. MAX_PACKET_ID /\ m.qos \in 0 .. 2 /\ m.msg \in 0 .. MaxCalls
  BY DEF Message
<1>. QED
  BY <1>1, Constants DEF Ids

LEMMA PublishType ==
  ASSUME NEW m \in Message
  PROVE  LET p == Pkt("PUBLISH", m.id, m.qos, m.msg)
         IN /\ p \in Packet /\ p.type = "PUBLISH"
            /\ p.id = m.id /\ p.val = m.qos /\ p.msg = m.msg
<1>1. m.id \in Ids /\ m.qos \in Nat /\ m.msg \in Nat /\ m.qos \in 0 .. 2
  BY MessageFields
<1>2. "PUBLISH" \in PacketTypes
  BY DEF PacketTypes
<1>. QED
  BY <1>1, <1>2, PktType

LEMMA CallFields ==
  ASSUME Types
  PROVE  call.op \in Ops /\ call.m \in Message
BY DEF Types, ClientTypes

LEMMA NoMessageType == NoMessage \in Message /\ Idle \in [op : Ops, m : Message]
                       /\ NoMessage.id = 0 /\ NoMessage.msg = 0 /\ Idle.op = "idle"
<1>1. NoMessage \in Message /\ NoMessage.id = 0 /\ NoMessage.msg = 0
  BY Constants DEF NoMessage, Message
<1>. QED
  BY <1>1 DEF Idle, Ops

LEMMA ZeroId == 0 \in Ids
BY Constants DEF Ids

LEMMA SendType ==
  ASSUME toBroker \in Seq(Packet), NEW x \in Seq(Packet), sendPacket(x)
  PROVE  toBroker' \in Seq(Packet)
BY QueueJoin DEF sendPacket

LEMMA KeepaliveType ==
  ASSUME NEW due \in BOOLEAN, NEW o \in BOOLEAN
  PROVE  /\ keepalive(due, o) \in Seq(Packet)
         /\ None(keepalive(due, o), {p \in Packet : p.type # "PINGREQ"})
<1>1. /\ Pkt("PINGREQ", 0, 0, 0) \in Packet
      /\ Pkt("PINGREQ", 0, 0, 0) \notin {p \in Packet : p.type # "PINGREQ"}
  BY ZeroId, PktType DEF PacketTypes
<1>. QED
  BY <1>1, Single, EmptyQueue DEF keepalive

LEMMA ReplyType ==
  ASSUME NEW p \in Packet
  PROVE  /\ Replies(p) \in Seq(Packet)
         /\ \/ Replies(p) = <<>>
            \/ \E r \in Packet : /\ Replies(p) = <<r>> /\ r.id = p.id
                                 /\ \/ p.type = "PUBLISH" /\ p.val = 1 /\ r.type = "PUBACK"
                                    \/ p.type = "PUBLISH" /\ p.val = 2 /\ r.type = "PUBREC"
                                    \/ p.type = "PUBREC" /\ r.type = "PUBREL"
                                    \/ p.type = "PUBREL" /\ r.type = "PUBCOMP"
<1>1. p.id \in Ids
  BY PacketFields
<1>2. CASE p.type = "PUBLISH" /\ p.val = 1
  <2>1. Replies(p) = <<Pkt("PUBACK", p.id, 0, 0)>>
    BY <1>2 DEF Replies
  <2>2. /\ Pkt("PUBACK", p.id, 0, 0) \in Packet /\ Pkt("PUBACK", p.id, 0, 0).type = "PUBACK"
        /\ Pkt("PUBACK", p.id, 0, 0).id = p.id
    BY <1>1, PktType DEF PacketTypes
  <2>. QED
    BY <1>2, <2>1, <2>2, Single
<1>3. CASE p.type = "PUBLISH" /\ p.val = 2
  <2>1. Replies(p) = <<Pkt("PUBREC", p.id, 0, 0)>>
    BY <1>3 DEF Replies
  <2>2. /\ Pkt("PUBREC", p.id, 0, 0) \in Packet /\ Pkt("PUBREC", p.id, 0, 0).type = "PUBREC"
        /\ Pkt("PUBREC", p.id, 0, 0).id = p.id
    BY <1>1, PktType DEF PacketTypes
  <2>. QED
    BY <1>3, <2>1, <2>2, Single
<1>4. CASE p.type = "PUBREC"
  <2>1. Replies(p) = <<Pkt("PUBREL", p.id, 0, 0)>>
    BY <1>4 DEF Replies
  <2>2. /\ Pkt("PUBREL", p.id, 0, 0) \in Packet /\ Pkt("PUBREL", p.id, 0, 0).type = "PUBREL"
        /\ Pkt("PUBREL", p.id, 0, 0).id = p.id
    BY <1>1, PktType DEF PacketTypes
  <2>. QED
    BY <1>4, <2>1, <2>2, Single
<1>5. CASE p.type = "PUBREL"
  <2>1. Replies(p) = <<Pkt("PUBCOMP", p.id, 0, 0)>>
    BY <1>5 DEF Replies
  <2>2. /\ Pkt("PUBCOMP", p.id, 0, 0) \in Packet /\ Pkt("PUBCOMP", p.id, 0, 0).type = "PUBCOMP"
        /\ Pkt("PUBCOMP", p.id, 0, 0).id = p.id
    BY <1>1, PktType DEF PacketTypes
  <2>. QED
    BY <1>5, <2>1, <2>2, Single
<1>6. CASE ~(p.type = "PUBLISH" /\ p.val \in {1, 2}) /\ p.type \notin {"PUBREC", "PUBREL"}
  <2>1. Replies(p) = <<>>
    BY <1>6 DEF Replies
  <2>. QED
    BY <2>1, EmptyQueue
<1>. QED
  BY <1>2, <1>3, <1>4, <1>5, <1>6

\* What a request sends, and the call it leaves behind.
LEMMA RequestFacts ==
  ASSUME Types, NEW op \in Ops, NEW m \in Message, NEW before \in Seq(Packet),
         NEW packet \in Packet, NEW waits \in BOOLEAN,
         Request(op, m, before, packet, waits)
  PROVE  /\ toBroker' \in Seq(Packet)
         /\ call' \in [op : Ops, m : Message] /\ isconnected' \in BOOLEAN
         /\ completed' \subseteq Message
         /\ \E sent \in BOOLEAN :
              /\ IF link = "up" THEN toBroker' = toBroker \o (IF sent THEN before \o <<packet>>
                                                                    ELSE before)
                                ELSE toBroker' = toBroker
              /\ IF sent /\ waits
                 THEN call' = [op |-> op, m |-> m] /\ isconnected' = isconnected
                 ELSE call' = Idle /\ isconnected' = sent
              /\ \/ completed' = completed
                 \/ /\ completed' = completed \cup {m}
                    /\ op = "publish" /\ ~waits /\ m.qos > 0
<1>1. PICK sent \in BOOLEAN :
        /\ sendPacket(before \o (IF sent THEN <<packet>> ELSE <<>>))
        /\ IF sent /\ waits
           THEN call' = [op |-> op, m |-> m] /\ UNCHANGED isconnected
           ELSE Return(sent)
        /\ completed' = IF sent /\ ~waits /\ op = "publish" /\ m.qos > 0
                        THEN completed \cup {m} ELSE completed
  BY DEF Request
<1>3. /\ <<packet>> \in Seq(Packet) /\ <<>> \in Seq(Packet)
      /\ before \o <<packet>> \in Seq(Packet) /\ before \o <<>> = before
  BY Single, EmptyQueue, QueueJoin, ConcatEmptySeq
<1>4. toBroker \in Seq(Packet) /\ isconnected \in BOOLEAN /\ completed \subseteq Message
  BY DEF Types, LinkTypes, ClientTypes
<1>5. /\ toBroker' \in Seq(Packet)
      /\ IF link = "up" THEN toBroker' = toBroker \o (IF sent THEN before \o <<packet>>
                                                            ELSE before)
                        ELSE toBroker' = toBroker
  <2>1. CASE sent
    BY <2>1, <1>1, <1>3, <1>4, SendType DEF sendPacket
  <2>2. CASE ~sent
    BY <2>2, <1>1, <1>3, <1>4, SendType DEF sendPacket
  <2>. QED
    BY <2>1, <2>2
<1>6. /\ call' \in [op : Ops, m : Message] /\ isconnected' \in BOOLEAN
      /\ IF sent /\ waits
         THEN call' = [op |-> op, m |-> m] /\ isconnected' = isconnected
         ELSE call' = Idle /\ isconnected' = sent
  BY <1>1, <1>4, NoMessageType DEF Return
<1>7. /\ completed' \subseteq Message
      /\ \/ completed' = completed
         \/ completed' = completed \cup {m} /\ op = "publish" /\ ~waits /\ m.qos > 0
  BY <1>1, <1>4
<1>. QED
  BY <1>5, <1>6, <1>7

Control == {p \in Packet : p.type \notin {"PINGREQ", "PUBLISH"}}
NoPing == {p \in Packet : p.type # "PINGREQ"}

\* The part of it that needs no account of the call.
LEMMA RequestSends ==
  ASSUME Types, NEW op \in Ops, NEW m \in Message, NEW before \in Seq(Packet),
         NEW packet \in Packet, NEW waits \in BOOLEAN,
         Request(op, m, before, packet, waits)
  PROVE  /\ \E sent \in BOOLEAN :
              IF link = "up" THEN toBroker' = toBroker \o (IF sent THEN before \o <<packet>>
                                                                 ELSE before)
                             ELSE toBroker' = toBroker
         /\ call' \in [op : Ops, m : Message] /\ isconnected' \in BOOLEAN
         /\ completed' \subseteq Message
<1>1. /\ call' \in [op : Ops, m : Message] /\ isconnected' \in BOOLEAN
      /\ completed' \subseteq Message
  BY RequestFacts
<1>2. PICK sent \in BOOLEAN : sendPacket(before \o (IF sent THEN <<packet>> ELSE <<>>))
  BY DEF Request
<1>3. before \o <<>> = before
  BY ConcatEmptySeq
<1>4. IF link = "up" THEN toBroker' = toBroker \o (IF sent THEN before \o <<packet>> ELSE before)
                     ELSE toBroker' = toBroker
  <2>1. CASE sent
    BY <1>2, <2>1 DEF sendPacket
  <2>2. CASE ~sent
    BY <1>2, <1>3, <2>2 DEF sendPacket
  <2>. QED
    BY <2>1, <2>2
<1>. QED
  BY <1>1, <1>4

\* What one pass of cycle does when the awaited packet p has come.
LEMMA CompleteFacts ==
  ASSUME Types, NEW p \in Packet, NEW ping \in Seq(Packet), None(ping, NoPing),
         p.type = Awaited(call.op), Complete(p, ping)
  PROVE  /\ Replies(p) = <<>> /\ p.type # "PUBLISH" /\ p.type # "PUBREL"
         /\ \E b \in Seq(Packet) :
              /\ IF link = "up" THEN toBroker' = toBroker \o b ELSE toBroker' = toBroker
              /\ None(b, Control)
         /\ inflight' = Acked(p) /\ inflight' \in Message
         /\ handlers' \in 0 .. MAX_MESSAGE_HANDLERS
         /\ isconnected' \in BOOLEAN /\ completed' \subseteq Message
         /\ call' \in [op : Ops, m : Message]
<1>0. /\ call.op \in Ops /\ call.m \in Message /\ inflight \in Message
      /\ toBroker \in Seq(Packet) /\ handlers \in 0 .. MAX_MESSAGE_HANDLERS
      /\ isconnected \in BOOLEAN /\ completed \subseteq Message
  BY CallFields DEF Types, LinkTypes, ClientTypes
<1>1. p.type \in {"CONNACK", "PUBACK", "SUBACK", "UNSUBACK"}
  <2>1. p.type \in PacketTypes
    BY PacketFields
  <2>. QED
    BY <2>1, <1>0 DEF Awaited, Ops, PacketTypes
<1>2. Replies(p) = <<>>
  BY <1>1 DEF Replies
<1>3. inflight' = Acked(p) /\ inflight' \in Message
  BY <1>0, NoMessageType DEF Complete, Acked
<1>4. handlers' \in 0 .. MAX_MESSAGE_HANDLERS
  BY <1>0, Constants DEF Complete, Installs
<1>5. None(ping, Control)
  <2>1. Control \subseteq NoPing
    BY DEF Control, NoPing
  <2>. QED
    BY <2>1, SubNone
<1>6. CASE call.op = "connect" /\ inflight.id > 0
  <2>. DEFINE packet == Pkt("PUBLISH", inflight.id, inflight.qos, inflight.msg)
              waits == inflight.qos = 1
  <2>1. Request("republish", inflight, ping, packet, waits)
    BY <1>6 DEF Complete, Connacked
  <2>2. packet \in Packet /\ packet.type = "PUBLISH"
    BY <1>0, PublishType
  <2>3. waits \in BOOLEAN /\ "republish" \in Ops
    BY DEF Ops
  <2>. HIDE DEF packet, waits
  <2>9. /\ \E sent \in BOOLEAN :
             IF link = "up" THEN toBroker' = toBroker \o (IF sent THEN ping \o <<packet>> ELSE ping)
                            ELSE toBroker' = toBroker
        /\ call' \in [op : Ops, m : Message] /\ isconnected' \in BOOLEAN
        /\ completed' \subseteq Message
    BY <2>1, <2>2, <2>3, <1>0, RequestSends, Zenon
  <2>4. PICK sent \in BOOLEAN :
          /\ IF link = "up" THEN toBroker' = toBroker \o (IF sent THEN ping \o <<packet>> ELSE ping)
                            ELSE toBroker' = toBroker
          /\ call' \in [op : Ops, m : Message] /\ isconnected' \in BOOLEAN
          /\ completed' \subseteq Message
    BY <2>9, Zenon
  <2>5. packet \notin Control
    BY <2>2 DEF Control
  <2>6. None(ping \o <<packet>>, Control) /\ ping \o <<packet>> \in Seq(Packet)
    BY <2>2, <2>5, <1>5, Single, JoinNone, QueueJoin
  <2>. DEFINE b == IF sent THEN ping \o <<packet>> ELSE ping
  <2>7. b \in Seq(Packet) /\ None(b, Control)
    BY <2>6, <1>5
  <2>8. IF link = "up" THEN toBroker' = toBroker \o b ELSE toBroker' = toBroker
    BY <2>4
  <2>. HIDE DEF b
  <2>. QED
    BY <1>1, <1>2, <1>3, <1>4, <2>4, <2>7, <2>8
<1>7. CASE call.op = "connect" /\ ~(inflight.id > 0)
  <2>1. call' = Idle /\ isconnected' = (p.val = 0) /\ sendPacket(ping) /\ completed' = completed
    BY <1>7 DEF Complete, Connacked, Return
  <2>2. isconnected' \in BOOLEAN
    BY <2>1
  <2>. QED
    BY <1>0, <1>1, <1>2, <1>3, <1>4, <1>5, <2>1, <2>2, NoMessageType DEF sendPacket
<1>8. CASE call.op # "connect"
  <2>1. /\ call' = Idle
        /\ isconnected' = (call.op = "subscribe" => Installs(p) \/ p.val = 0)
        /\ sendPacket(ping)
        /\ completed' = IF call.op = "publish" THEN completed \cup {call.m} ELSE completed
    BY <1>8 DEF Complete, Return
  <2>2. isconnected' \in BOOLEAN
    BY <2>1
  <2>3. completed' \subseteq Message
    BY <2>1, <1>0
  <2>. QED
    BY <1>0, <1>1, <1>2, <1>3, <1>4, <1>5, <2>1, <2>2, <2>3, NoMessageType DEF sendPacket
<1>. QED
  BY <1>6, <1>7, <1>8

\* One pass of cycle: what it reads, what it sends, and what it leaves alone.
LEMMA CycleFacts ==
  ASSUME Types, Cycle
  PROVE  /\ toClient # <<>> /\ Head(toClient) \in Packet /\ call.op # "idle"
         /\ toClient' = Tail(toClient)
         /\ UNCHANGED <<link, brokerVars, cleansession, packetid, ncalls, nconns, stored>>
         /\ arrived' = IF Delivers(Head(toClient))
                       THEN Append(arrived, <<Head(toClient).msg, Head(toClient).val>>) ELSE arrived
         /\ excused' = IF Drops(Head(toClient)) THEN excused \cup {Head(toClient).msg} ELSE excused
         /\ stale' = stale \cap incomingQoS2messages'
         /\ ping_outstanding' \in BOOLEAN
         /\ \E sent \in BOOLEAN, b \in Seq(Packet) :
              /\ incomingQoS2messages' = QoS2Table(Head(toClient), sent)
              /\ \/ toBroker' = toBroker
                 \/ /\ toBroker' = toBroker \o (Replies(Head(toClient)) \o b)
                    /\ link = "up" /\ (sent \/ Replies(Head(toClient)) = <<>>)
              /\ None(b, Control)
         /\ \/ /\ Head(toClient).type = Awaited(call.op)
               /\ \E ping \in Seq(Packet) : None(ping, NoPing) /\ Complete(Head(toClient), ping)
            \/ /\ Head(toClient).type # Awaited(call.op)
               /\ call' = call \/ (call' = Idle /\ call.op = "yield")
               /\ \E ping \in Seq(Packet) :
                    /\ None(ping, NoPing)
                    /\ \/ toBroker' = toBroker
                       \/ toBroker' = toBroker \o (Replies(Head(toClient)) \o ping)
               /\ UNCHANGED <<inflight, handlers, completed, isconnected>>
<1>. DEFINE p == Head(toClient)
            outstanding == ping_outstanding /\ p.type # "PINGRESP"
<1>0. /\ toClient \in Seq(Packet) /\ toBroker \in Seq(Packet) /\ ping_outstanding \in BOOLEAN
  BY DEF Types, LinkTypes, ClientTypes
<1>1. /\ toClient # <<>> /\ call.op # "idle" /\ toClient' = Tail(toClient)
      /\ UNCHANGED <<link, brokerVars, cleansession, packetid, ncalls, nconns, stored>>
      /\ arrived' = IF Delivers(p) THEN Append(arrived, <<p.msg, p.val>>) ELSE arrived
      /\ excused' = IF Drops(p) THEN excused \cup {p.msg} ELSE excused
      /\ stale' = stale \cap incomingQoS2messages'
  BY DEF Cycle
<1>2. p \in Packet
  BY <1>0, <1>1, QueueTail
<1>3. PICK sent \in BOOLEAN, due \in PingDue :
        LET failed == Replies(p) # <<>> /\ ~sent
            ping == IF failed THEN <<>> ELSE keepalive(due, outstanding)
        IN /\ incomingQoS2messages' = QoS2Table(p, sent)
           /\ ping_outstanding' = (outstanding \/ ping # <<>>)
           /\ IF p.type = Awaited(call.op)
              THEN Complete(p, ping)
              ELSE /\ sendPacket(IF failed THEN <<>> ELSE Replies(p) \o ping)
                   /\ call' = IF failed /\ call.op = "yield" THEN Idle ELSE call
                   /\ UNCHANGED <<inflight, handlers, completed, isconnected>>
  BY DEF Cycle
<1>. DEFINE failed == Replies(p) # <<>> /\ ~sent
            ping == IF failed THEN <<>> ELSE keepalive(due, outstanding)
<1>4. due \in BOOLEAN /\ outstanding \in BOOLEAN
  BY <1>0, <1>3, Constants
<1>5. ping \in Seq(Packet) /\ None(ping, NoPing)
  <2>1. keepalive(due, outstanding) \in Seq(Packet) /\ None(keepalive(due, outstanding), NoPing)
    BY <1>4, KeepaliveType DEF NoPing
  <2>. QED
    BY <2>1, EmptyQueue
<1>6. ping_outstanding' \in BOOLEAN
  BY <1>3, <1>4
<1>. HIDE DEF ping, p
<1>7. None(ping, Control)
  <2>1. Control \subseteq NoPing
    BY DEF Control, NoPing
  <2>. QED
    BY <2>1, <1>5, SubNone
<1>8. CASE p.type = Awaited(call.op)
  <2>1. Complete(p, ping)
    BY <1>3, <1>8 DEF ping
  <2>2. /\ Replies(p) = <<>>
        /\ \E b \in Seq(Packet) :
             /\ IF link = "up" THEN toBroker' = toBroker \o b ELSE toBroker' = toBroker
             /\ None(b, Control)
    BY <2>1, <1>2, <1>5, <1>8, CompleteFacts
  <2>3. \A b \in Seq(Packet) : Replies(p) \o b = b
    BY <2>2, ConcatEmptySeq
  <2>4. incomingQoS2messages' = QoS2Table(p, sent)
    BY <1>3
  <2>. QED
    BY <1>1, <1>2, <1>4, <1>5, <1>6, <1>8, <2>1, <2>2, <2>3, <2>4 DEF p
<1>9. CASE p.type # Awaited(call.op)
  <2>1. /\ sendPacket(IF failed THEN <<>> ELSE Replies(p) \o ping)
        /\ call' = call \/ (call' = Idle /\ call.op = "yield")
        /\ UNCHANGED <<inflight, handlers, completed, isconnected>>
        /\ incomingQoS2messages' = QoS2Table(p, sent)
    BY <1>3, <1>9 DEF ping
  <2>2. \/ toBroker' = toBroker
        \/ /\ toBroker' = toBroker \o (Replies(p) \o ping)
           /\ link = "up" /\ (sent \/ Replies(p) = <<>>)
    BY <2>1, <1>0, ConcatEmptySeq DEF sendPacket
  <2>. QED
    BY <1>1, <1>2, <1>4, <1>5, <1>6, <1>7, <1>9, <2>1, <2>2 DEF p
<1>. QED
  BY <1>8, <1>9

\* The other calls of the client: what they send, and what they leave alone.
Calls ==
  \/ \E clean \in CleanSessions : connect(clean)
  \/ \E qos \in PublishQoS : publish(qos)
  \/ subscribe(2) \/ unsubscribe \/ yield \/ disconnect
  \/ GiveUp

Acknowledgements == {p \in Packet : p.type \in {"PUBACK", "PUBREC", "PUBREL", "PUBCOMP"}}

LEMMA getNextType ==
  ASSUME Types
  PROVE  getNext \in 1 .. MAX_PACKET_ID /\ getNext \in Ids /\ getNext \in 0 .. MAX_PACKET_ID
<1>1. packetid \in 0 .. MAX_PACKET_ID
  BY DEF Types, ClientTypes
<1>2. getNext \in 1 .. MAX_PACKET_ID /\ getNext \in 0 .. MAX_PACKET_ID
  BY <1>1, Constants DEF getNext
<1>. QED
  BY <1>2 DEF Ids

\* One packet is sent, or none.
Sends(b) ==
  /\ b \in Seq(Packet)
  /\ None(b, Acknowledgements)
  /\ toBroker' = toBroker \/ toBroker' = toBroker \o b

LEMMA OneSent ==
  ASSUME Types, NEW op \in Ops, NEW m \in Message, NEW packet \in Packet, NEW waits \in BOOLEAN,
         Request(op, m, <<>>, packet, waits), packet \notin Acknowledgements
  PROVE  Sends(<<packet>>)
<1>1. <<>> \in Seq(Packet) /\ <<packet>> \in Seq(Packet)
  BY EmptyQueue, Single
<1>2. PICK e \in Seq(Packet) : e = <<>>
  BY <1>1
<1>3. \/ toBroker' = toBroker \/ toBroker' = toBroker \o (e \o <<packet>>)
      \/ toBroker' = toBroker \o e
  <2>1. Request(op, m, e, packet, waits)
    BY <1>2
  <2>. QED
    BY <2>1, RequestFacts
<1>4. e \o <<packet>> = <<packet>> /\ toBroker \o e = toBroker
  BY <1>1, <1>2, ConcatEmptySeq DEF Types, LinkTypes
<1>5. None(<<packet>>, Acknowledgements)
  BY Single
<1>. QED
  BY <1>1, <1>3, <1>5, <1>4 DEF Sends

LEMMA connectFacts ==
  ASSUME Types, NEW clean \in CleanSessions, connect(clean)
  PROVE  LET packet == Pkt("CONNECT", 0, IF clean THEN 1 ELSE 0, 0)
         IN /\ packet \in Packet /\ packet.type = "CONNECT"
            /\ Request("connect", NoMessage, <<>>, packet, TRUE)
            /\ Sends(<<packet>>)
<1>. DEFINE packet == Pkt("CONNECT", 0, IF clean THEN 1 ELSE 0, 0)
            v == IF clean THEN 1 ELSE 0
<1>1. v \in Nat /\ clean \in BOOLEAN
  BY Constants
<1>2. packet \in Packet /\ packet.type = "CONNECT" /\ packet.val = v
  <2>. HIDE DEF v
  <2>. QED
    BY <1>1, ZeroId, PktType DEF PacketTypes, v
<1>3. Request("connect", NoMessage, <<>>, packet, TRUE)
  BY DEF connect
<1>. HIDE DEF packet
<1>4. packet \notin Acknowledgements
  BY <1>2 DEF Acknowledgements
<1>5. "connect" \in Ops
  BY DEF Ops
<1>6. Sends(<<packet>>)
  BY <1>2, <1>3, <1>4, <1>5, OneSent, NoMessageType
<1>. QED
  BY <1>2, <1>3, <1>6 DEF packet

LEMMA subscribeFacts ==
  ASSUME Types, subscribe(2)
  PROVE  LET packet == Pkt("SUBSCRIBE", getNext, 2, 0)
         IN /\ packet \in Packet /\ packet.type = "SUBSCRIBE"
            /\ Request("subscribe", NoMessage, <<>>, packet, TRUE)
            /\ Sends(<<packet>>)
<1>. DEFINE packet == Pkt("SUBSCRIBE", getNext, 2, 0)
<1>2. packet \in Packet /\ packet.type = "SUBSCRIBE"
  BY getNextType, PktType DEF PacketTypes
<1>3. Request("subscribe", NoMessage, <<>>, packet, TRUE)
  BY DEF subscribe
<1>. HIDE DEF packet
<1>4. packet \notin Acknowledgements
  BY <1>2 DEF Acknowledgements
<1>5. "subscribe" \in Ops
  BY DEF Ops
<1>6. Sends(<<packet>>)
  BY <1>2, <1>3, <1>4, <1>5, OneSent, NoMessageType
<1>. QED
  BY <1>2, <1>3, <1>6 DEF packet

LEMMA unsubscribeFacts ==
  ASSUME Types, unsubscribe
  PROVE  LET packet == Pkt("UNSUBSCRIBE", getNext, 0, 0)
         IN /\ packet \in Packet /\ packet.type = "UNSUBSCRIBE"
            /\ Request("unsubscribe", NoMessage, <<>>, packet, TRUE)
            /\ Sends(<<packet>>)
<1>. DEFINE packet == Pkt("UNSUBSCRIBE", getNext, 0, 0)
<1>2. packet \in Packet /\ packet.type = "UNSUBSCRIBE"
  BY getNextType, PktType DEF PacketTypes
<1>3. Request("unsubscribe", NoMessage, <<>>, packet, TRUE)
  BY DEF unsubscribe
<1>. HIDE DEF packet
<1>4. packet \notin Acknowledgements
  BY <1>2 DEF Acknowledgements
<1>5. "unsubscribe" \in Ops
  BY DEF Ops
<1>6. Sends(<<packet>>)
  BY <1>2, <1>3, <1>4, <1>5, OneSent, NoMessageType
<1>. QED
  BY <1>2, <1>3, <1>6 DEF packet

LEMMA publishFacts ==
  ASSUME Types, NEW qos \in PublishQoS, publish(qos)
  PROVE  \E m \in Message :
           LET packet == Pkt("PUBLISH", m.id, qos, m.msg)
           IN /\ packet \in Packet /\ packet.type = "PUBLISH"
              /\ packet.id = m.id /\ packet.val = qos /\ packet.msg = m.msg
              /\ Request("publish", m, <<>>, packet, qos = 1)
              /\ Sends(<<packet>>)
              /\ m.qos = qos /\ m.id = (IF qos > 0 THEN getNext ELSE 0)
              /\ inflight' = IF cleansession THEN inflight ELSE m
              /\ stored' = IF cleansession \/ qos = 0 THEN stored ELSE stored \cup {m}
<1>. DEFINE m == [id |-> IF qos > 0 THEN getNext ELSE 0, qos |-> qos, msg |-> ncalls + 1]
            packet == Pkt("PUBLISH", m.id, qos, m.msg)
<1>1. /\ ncalls' = ncalls + 1 /\ ncalls < MaxCalls /\ ncalls \in 0 .. MaxCalls
      /\ packetid' = IF qos > 0 THEN getNext ELSE packetid
  BY DEF publish, Begin, Types, ClientTypes
<1>2. m \in Message
  <2>1. ncalls + 1 \in 0 .. MaxCalls
    BY <1>1, Constants
  <2>2. (IF qos > 0 THEN getNext ELSE 0) \in 0 .. MAX_PACKET_ID
    BY getNextType, Constants
  <2>3. qos \in 0 .. 2
    BY Constants
  <2>. QED
    BY <2>1, <2>2, <2>3 DEF Message
<1>3. /\ inflight' = IF cleansession THEN inflight ELSE m
      /\ stored' = IF cleansession \/ qos = 0 THEN stored ELSE stored \cup {m}
      /\ Request("publish", m, <<>>, packet, qos = 1)
  <2>1. LET n == [id |-> IF qos > 0 THEN packetid' ELSE 0, qos |-> qos, msg |-> ncalls']
        IN /\ inflight' = IF cleansession THEN inflight ELSE n
           /\ stored' = IF cleansession \/ qos = 0 THEN stored ELSE stored \cup {n}
           /\ Request("publish", n, <<>>, Pkt("PUBLISH", n.id, qos, n.msg), qos = 1)
    BY DEF publish
  <2>2. [id |-> IF qos > 0 THEN packetid' ELSE 0, qos |-> qos, msg |-> ncalls'] = m
    BY <1>1
  <2>. QED
    BY <2>1, <2>2
<1>4. m.qos = qos /\ m.id = IF qos > 0 THEN getNext ELSE 0
  OBVIOUS
<1>. HIDE DEF m
<1>5. packet \in Packet /\ packet.type = "PUBLISH" /\ packet.id = m.id
      /\ packet.val = qos /\ packet.msg = m.msg
  BY <1>2, <1>4, PublishType
<1>. HIDE DEF packet
<1>6. packet \notin Acknowledgements
  BY <1>5 DEF Acknowledgements
<1>7. "publish" \in Ops /\ (qos = 1) \in BOOLEAN
  BY DEF Ops
<1>8. Sends(<<packet>>)
  BY <1>2, <1>3, <1>5, <1>6, <1>7, OneSent
<1>. QED
  BY <1>2, <1>3, <1>4, <1>5, <1>8 DEF packet

LEMMA GiveUpFacts ==
  ASSUME Types, GiveUp
  PROVE  /\ \E b \in Seq(Packet) : Sends(b) /\ None(b, NoPing)
         /\ ping_outstanding' \in BOOLEAN
<1>1. PICK due \in PingDue :
        LET ping == keepalive(due, ping_outstanding)
        IN /\ sendPacket(ping)
           /\ ping_outstanding' = (ping_outstanding \/ ping # <<>>)
  BY DEF GiveUp
<1>2. due \in BOOLEAN /\ ping_outstanding \in BOOLEAN
  BY Constants DEF Types, ClientTypes
<1>. DEFINE ping == keepalive(due, ping_outstanding)
<1>3. ping \in Seq(Packet) /\ None(ping, NoPing)
  BY <1>2, KeepaliveType DEF NoPing
<1>4. sendPacket(ping) /\ ping_outstanding' \in BOOLEAN
  BY <1>1, <1>2
<1>. HIDE DEF ping
<1>5. None(ping, Acknowledgements)
  <2>1. Acknowledgements \subseteq NoPing
    BY DEF Acknowledgements, NoPing
  <2>. QED
    BY <2>1, <1>3, SubNone
<1>6. Sends(ping)
  BY <1>3, <1>4, <1>5 DEF Sends, sendPacket
<1>. QED
  BY <1>3, <1>4, <1>6

LEMMA CallsSend ==
  ASSUME Types, Calls
  PROVE  /\ \E b \in Seq(Packet) : Sends(b)
         /\ UNCHANGED <<link, toClient, brokerVars, incomingQoS2messages, arrived, stale, excused>>
<1>0. <<>> \in Seq(Packet) /\ None(<<>>, Acknowledgements)
  BY EmptyQueue
<1>1. ASSUME NEW clean \in CleanSessions, connect(clean)
      PROVE  \E b \in Seq(Packet) : Sends(b)
  BY <1>1, connectFacts DEF Sends
<1>2. ASSUME NEW qos \in PublishQoS, publish(qos)
      PROVE  \E b \in Seq(Packet) : Sends(b)
  BY <1>2, publishFacts DEF Sends
<1>3. ASSUME subscribe(2)
      PROVE  \E b \in Seq(Packet) : Sends(b)
  BY <1>3, subscribeFacts DEF Sends
<1>4. ASSUME unsubscribe
      PROVE  \E b \in Seq(Packet) : Sends(b)
  BY <1>4, unsubscribeFacts DEF Sends
<1>5. ASSUME yield
      PROVE  \E b \in Seq(Packet) : Sends(b)
  BY <1>0, <1>5 DEF yield, Sends
<1>6. ASSUME disconnect
      PROVE  \E b \in Seq(Packet) : Sends(b)
  <2>. DEFINE packet == Pkt("DISCONNECT", 0, 0, 0)
  <2>1. packet \in Packet /\ packet.type = "DISCONNECT"
    BY ZeroId, PktType DEF PacketTypes
  <2>2. toBroker' = toBroker \/ toBroker' = toBroker \o <<packet>>
    BY <1>6, ConcatEmptySeq DEF disconnect, sendPacket, Types, LinkTypes
  <2>. HIDE DEF packet
  <2>3. packet \notin Acknowledgements
    BY <2>1 DEF Acknowledgements
  <2>4. Sends(<<packet>>)
    BY <2>1, <2>2, <2>3, Single DEF Sends
  <2>. QED
    BY <2>4 DEF Sends
<1>7. ASSUME GiveUp
      PROVE  \E b \in Seq(Packet) : Sends(b)
  BY <1>7, GiveUpFacts
<1>8. UNCHANGED <<link, toClient, brokerVars, incomingQoS2messages, arrived, stale, excused>>
  BY DEF Calls, connect, publish, subscribe, unsubscribe, yield, disconnect, GiveUp
<1>. QED
  BY <1>1, <1>2, <1>3, <1>4, <1>5, <1>6, <1>7, <1>8 DEF Calls

----------------------------------------------------------------------------
(* The steps of the broker.                                                *)

\* What a session that is taken up again begins with.
LEMMA AgainFacts ==
  ASSUME NEW kept, kept \subseteq Item, IsFiniteSet(kept), NEW order \in Orders(kept)
  PROVE  LET a == [i \in DOMAIN order |-> Again(order[i])]
         IN /\ a \in Seq(Packet)
            /\ \A k \in 1 .. Len(a) : /\ order[k] \in kept /\ a[k] = Again(order[k])
                                      /\ a[k].type \in {"PUBLISH", "PUBREL"}
                                      /\ a[k].id = order[k].id /\ a[k].id \in BrokerIds
                                      /\ a[k].type = "PUBREL" => order[k].released
                                      /\ a[k].type = "PUBLISH" => /\ ~order[k].released
                                                                  /\ a[k].val = order[k].qos
                                                                  /\ a[k].msg = order[k].msg
            /\ \A j, k \in 1 .. Len(a) : order[j] = order[k] => j = k
<1>. DEFINE n == Cardinality(kept)
            a == [i \in DOMAIN order |-> Again(order[i])]
<1>1. n \in Nat
  BY FS_CardinalityType
<1>. HIDE DEF n
<1>2. /\ order \in [1 .. n -> kept] /\ DOMAIN order = 1 .. n
      /\ \A i, j \in 1 .. n : i # j => order[i] # order[j]
  BY DEF Orders, n
<1>3. ASSUME NEW m \in Item
      PROVE  /\ Again(m) \in Packet /\ Again(m).id = m.id /\ m.id \in BrokerIds
             /\ Again(m).type \in {"PUBLISH", "PUBREL"}
             /\ Again(m).type = "PUBREL" => m.released
             /\ Again(m).type = "PUBLISH" => /\ ~m.released
                                             /\ Again(m).val = m.qos
                                             /\ Again(m).msg = m.msg
  <2>1. m.id \in BrokerIds /\ m.qos \in 1 .. 2 /\ m.msg \in Nat /\ m.released \in BOOLEAN
    BY DEF Item
  <2>2. /\ m.id \in Ids /\ m.qos \in Nat /\ m.qos \in 0 .. 2
        /\ "PUBLISH" \in PacketTypes /\ "PUBREL" \in PacketTypes
    BY <2>1 DEF Ids, PacketTypes
  <2>3. CASE m.released
    <3>1. Again(m) = Pkt("PUBREL", m.id, 0, m.msg)
      BY <2>3 DEF Again
    <3>2. /\ Pkt("PUBREL", m.id, 0, m.msg) \in Packet /\ Pkt("PUBREL", m.id, 0, m.msg).id = m.id
          /\ Pkt("PUBREL", m.id, 0, m.msg).type = "PUBREL"
      BY <2>1, <2>2, PktType
    <3>. QED
      BY <2>1, <2>3, <3>1, <3>2
  <2>4. CASE ~m.released
    <3>. DEFINE p == Pkt("PUBLISH", m.id, m.qos, m.msg)
    <3>1. Again(m) = p
      BY <2>4 DEF Again
    <3>2. p \in Packet /\ p.id = m.id /\ p.type = "PUBLISH" /\ p.val = m.qos /\ p.msg = m.msg
      BY <2>1, <2>2, PktType
    <3>. HIDE DEF p
    <3>. QED
      BY <2>1, <2>4, <3>1, <3>2
  <2>. QED
    BY <2>3, <2>4
<1>4. \A k \in 1 .. n : order[k] \in Item /\ order[k] \in kept
  BY <1>2
<1>5. a \in [1 .. n -> Packet] /\ \A k \in 1 .. n : a[k] = Again(order[k])
  BY <1>2, <1>3, <1>4
<1>. HIDE DEF a
<1>6. a \in Seq(Packet) /\ Len(a) = n
  BY <1>1, <1>5
<1>7. ASSUME NEW k \in 1 .. n
      PROVE  /\ order[k] \in kept /\ a[k] = Again(order[k])
             /\ a[k].type \in {"PUBLISH", "PUBREL"}
             /\ a[k].id = order[k].id /\ a[k].id \in BrokerIds
             /\ a[k].type = "PUBREL" => order[k].released
             /\ a[k].type = "PUBLISH" => /\ ~order[k].released
                                         /\ a[k].val = order[k].qos
                                         /\ a[k].msg = order[k].msg
  <2>1. a[k] = Again(order[k]) /\ order[k] \in Item /\ order[k] \in kept
    BY <1>4, <1>5
  <2>. QED
    BY <2>1, <1>3
<1>. QED
  BY <1>2, <1>6, <1>7 DEF a

Connack(v) == Pkt("CONNACK", 0, v, 0)

LEMMA ConnackType ==
  ASSUME NEW v \in Nat
  PROVE  /\ Connack(v) \in Packet /\ Connack(v).type = "CONNACK" /\ Connack(v).val = v
         /\ <<Connack(v)>> \in Seq(Packet)
<1>1. Connack(v) \in Packet /\ Connack(v).type = "CONNACK" /\ Connack(v).val = v
  BY ZeroId, PktType DEF Connack, PacketTypes
<1>. QED
  BY <1>1, Single

LEMMA ConnectAccepted ==
  ASSUME Types, toBroker # <<>>, BrokerConnect, accepted'
  PROVE  /\ Head(toBroker).type = "CONNECT" /\ ~accepted /\ accepted' = TRUE
         /\ toBroker' = Tail(toBroker) /\ link' = link
         /\ UNCHANGED <<npubs, received, taken>>
         /\ subscribed' \in BOOLEAN /\ temporary' \in BOOLEAN
         /\ out' = IF Head(toBroker).val = 1 \/ temporary THEN {} ELSE out
         /\ \E order \in Orders(out') :
              toClient' = toClient \o (<<Connack(0)>> \o [i \in DOMAIN order |-> Again(order[i])])
<1>. DEFINE p == Head(toBroker)
<1>1. accepted \in BOOLEAN /\ subscribed \in BOOLEAN
  BY DEF Types, BrokerTypes
<1>2. p.type = "CONNECT" /\ ~accepted /\ UNCHANGED <<npubs, received, taken>>
  BY DEF BrokerConnect
<1>3. /\ accepted' = TRUE
      /\ out' = (IF p.val = 1 \/ temporary THEN {} ELSE out)
      /\ temporary' = (p.val = 1)
      /\ subscribed' = (subscribed /\ ~(p.val = 1 \/ temporary))
      /\ \E order \in Orders(IF p.val = 1 \/ temporary THEN {} ELSE out) :
           Answer(<<Pkt("CONNACK", 0, 0, 0)>> \o [i \in DOMAIN order |-> Again(order[i])])
  BY <1>2 DEF BrokerConnect
<1>4. subscribed' \in BOOLEAN /\ temporary' \in BOOLEAN
  BY <1>1, <1>3
<1>. QED
  BY <1>2, <1>3, <1>4 DEF Answer, Connack

LEMMA ConnectRefused ==
  ASSUME Types, toBroker # <<>>, BrokerConnect, ~accepted'
  PROVE  /\ Head(toBroker).type = "CONNECT" /\ ~accepted
         /\ toClient' = toClient \o <<Connack(5)>> /\ link' = "closed" /\ toBroker' = <<>>
         /\ UNCHANGED <<accepted, temporary, subscribed, out, npubs, received, taken>>
<1>1. toClient \in Seq(Packet)
  BY DEF Types, LinkTypes
<1>2. /\ Head(toBroker).type = "CONNECT" /\ ~accepted
      /\ toClient' = Append(toClient, Connack(5)) /\ link' = "closed" /\ toBroker' = <<>>
      /\ UNCHANGED <<accepted, temporary, subscribed, out, npubs, received, taken>>
  BY DEF BrokerConnect, Connack
<1>3. Connack(5) \in Packet
  BY ConnackType
<1>4. Append(toClient, Connack(5)) = toClient \o <<Connack(5)>>
  BY <1>1, <1>3, AppendIsConcat
<1>. QED
  BY <1>2, <1>4

LEMMA PublishedFacts ==
  ASSUME Types, toBroker # <<>>, BrokerPublished
  PROVE  /\ Head(toBroker).type = "PUBLISH" /\ accepted
         /\ toBroker' = Tail(toBroker)
         /\ UNCHANGED <<link, accepted, temporary, subscribed, out, npubs, taken>>
         /\ received' = received \cup {Head(toBroker).msg}
         /\ \/ toClient' = toClient /\ Head(toBroker).val # 1
            \/ \E r \in Packet :
                 /\ toClient' = toClient \o <<r>> /\ r.id = Head(toBroker).id
                 /\ \/ Head(toBroker).val = 1 /\ r.type = "PUBACK"
                    \/ Head(toBroker).val = 2 /\ r.type = "PUBREC"
<1>. DEFINE p == Head(toBroker)
<1>1. /\ toBroker \in Seq(Packet) /\ toClient \in Seq(Packet)
  BY DEF Types, LinkTypes, BrokerTypes
<1>2. p \in Packet
  BY <1>1, QueueTail
<1>3. p.id \in Ids /\ p.val \in Nat
  BY <1>2, PacketFields
<1>4. /\ p.type = "PUBLISH" /\ accepted
      /\ UNCHANGED <<accepted, temporary, subscribed, out, npubs, taken>>
      /\ received' = received \cup {p.msg}
      /\ Answer(CASE p.val = 0 -> <<>>
                  [] p.val = 1 -> <<Pkt("PUBACK", p.id, 0, 0)>>
                  [] p.val = 2 -> <<Pkt("PUBREC", p.id, 0, 0)>>)
  BY DEF BrokerPublished
<1>. HIDE DEF p
<1>6. Answer(CASE p.val = 0 -> <<>>
                  [] p.val = 1 -> <<Pkt("PUBACK", p.id, 0, 0)>>
                  [] p.val = 2 -> <<Pkt("PUBREC", p.id, 0, 0)>>)
  BY <1>4
<1>7. p.val \in 0 .. 2
  BY <1>2, <1>4, PacketFields
<1>8. toBroker' = Tail(toBroker) /\ link' = link
  BY <1>6 DEF Answer
<1>9. \/ toClient' = toClient /\ p.val # 1
      \/ \E r \in Packet : /\ toClient' = toClient \o <<r>> /\ r.id = p.id
                           /\ \/ p.val = 1 /\ r.type = "PUBACK"
                              \/ p.val = 2 /\ r.type = "PUBREC"
  <2>1. CASE p.val = 0
    <3>1. toClient' = toClient \o <<>>
      BY <2>1, <1>6 DEF Answer
    <3>. QED
      BY <2>1, <3>1, <1>1, ConcatEmptySeq
  <2>2. CASE p.val = 1
    <3>. DEFINE r == Pkt("PUBACK", p.id, 0, 0)
    <3>1. toClient' = toClient \o <<r>>
      BY <2>2, <1>6 DEF Answer
    <3>2. r \in Packet /\ r.type = "PUBACK" /\ r.id = p.id
      BY <1>3, PktType DEF PacketTypes
    <3>. HIDE DEF r
    <3>. QED
      BY <2>2, <3>1, <3>2
  <2>3. CASE p.val = 2
    <3>. DEFINE r == Pkt("PUBREC", p.id, 0, 0)
    <3>1. toClient' = toClient \o <<r>>
      BY <2>3, <1>6 DEF Answer
    <3>2. r \in Packet /\ r.type = "PUBREC" /\ r.id = p.id
      BY <1>3, PktType DEF PacketTypes
    <3>. HIDE DEF r
    <3>. QED
      BY <2>3, <3>1, <3>2
  <2>4. p.val = 0 \/ p.val = 1 \/ p.val = 2
    BY <1>7
  <2>. QED
    BY <2>1, <2>2, <2>3, <2>4
<1>. QED
  BY <1>4, <1>8, <1>9 DEF p

LEMMA AcknowledgedFacts ==
  ASSUME Types, toBroker # <<>>, BrokerAcknowledged
  PROVE  LET p == Head(toBroker)
             of == {m \in out : m.id = p.id}
         IN /\ p.type \in {"PUBACK", "PUBREC", "PUBCOMP"} /\ accepted
            /\ toBroker' = Tail(toBroker)
            /\ UNCHANGED <<link, accepted, temporary, subscribed, npubs, received>>
            /\ p.type # "PUBREC" => /\ toClient' = toClient /\ out' = out \ of /\ taken' = taken
            /\ p.type = "PUBREC" =>
                 /\ out' = (out \ of) \cup {[m EXCEPT !.released = TRUE] : m \in of}
                 /\ taken' = taken \cup {m.msg : m \in of}
                 /\ \E r \in Packet : /\ toClient' = toClient \o <<r>>
                                      /\ r.id = p.id /\ r.type = "PUBREL"
<1>. DEFINE p == Head(toBroker)
            of == {m \in out : m.id = p.id}
<1>1. /\ toBroker \in Seq(Packet) /\ toClient \in Seq(Packet)
  BY DEF Types, LinkTypes, BrokerTypes
<1>2. p \in Packet
  BY <1>1, QueueTail
<1>3. p.id \in Ids
  BY <1>2, PacketFields
<1>4. /\ p.type \in {"PUBACK", "PUBREC", "PUBCOMP"} /\ accepted
      /\ out' = (out \ of) \cup
                (IF p.type = "PUBREC" THEN {[m EXCEPT !.released = TRUE] : m \in of} ELSE {})
      /\ taken' = IF p.type = "PUBREC" THEN taken \cup {m.msg : m \in of} ELSE taken
      /\ Answer(IF p.type = "PUBREC" THEN <<Pkt("PUBREL", p.id, 0, 0)>> ELSE <<>>)
      /\ UNCHANGED <<accepted, temporary, subscribed, npubs, received>>
  BY DEF BrokerAcknowledged
<1>. HIDE DEF p, of
<1>5. toBroker' = Tail(toBroker) /\ link' = link
  BY <1>4 DEF Answer
<1>6. CASE p.type # "PUBREC"
  <2>1. toClient' = toClient \o <<>> /\ out' = out \ of /\ taken' = taken
    BY <1>4, <1>6 DEF Answer
  <2>2. toClient' = toClient
    BY <2>1, <1>1, ConcatEmptySeq
  <2>. QED
    BY <1>4, <1>5, <1>6, <2>1, <2>2 DEF p, of
<1>7. CASE p.type = "PUBREC"
  <2>. DEFINE r == Pkt("PUBREL", p.id, 0, 0)
  <2>1. /\ toClient' = toClient \o <<r>>
        /\ out' = (out \ of) \cup {[m EXCEPT !.released = TRUE] : m \in of}
        /\ taken' = taken \cup {m.msg : m \in of}
    BY <1>4, <1>7 DEF Answer
  <2>2. r \in Packet /\ r.type = "PUBREL" /\ r.id = p.id
    BY <1>3, PktType DEF PacketTypes
  <2>. HIDE DEF r
  <2>. QED
    BY <1>4, <1>5, <1>7, <2>1, <2>2 DEF p, of
<1>. QED
  BY <1>6, <1>7

LEMMA BrokerRequestFacts ==
  ASSUME Types, toBroker # <<>>, BrokerRequest
  PROVE  /\ Head(toBroker).type \in {"PUBREL", "SUBSCRIBE", "UNSUBSCRIBE", "PINGREQ"} /\ accepted
         /\ toBroker' = Tail(toBroker)
         /\ UNCHANGED <<link, accepted, temporary, out, npubs, received, taken>>
         /\ subscribed' \in BOOLEAN
         /\ \E r \in Packet : /\ toClient' = toClient \o <<r>>
                              /\ r.type \in {"PUBCOMP", "SUBACK", "UNSUBACK", "PINGRESP"}
<1>. DEFINE p == Head(toBroker)
            reply == CASE p.type = "PUBREL"      -> "PUBCOMP"
                       [] p.type = "SUBSCRIBE"   -> "SUBACK"
                       [] p.type = "UNSUBSCRIBE" -> "UNSUBACK"
                       [] p.type = "PINGREQ"     -> "PINGRESP"
<1>1. /\ toBroker \in Seq(Packet) /\ toClient \in Seq(Packet)
      /\ subscribed \in BOOLEAN
  BY DEF Types, LinkTypes, BrokerTypes
<1>2. p \in Packet
  BY <1>1, QueueTail
<1>3. p.id \in Ids /\ p.val \in Nat
  BY <1>2, PacketFields
<1>4. /\ p.type \in {"PUBREL", "SUBSCRIBE", "UNSUBSCRIBE", "PINGREQ"} /\ accepted
      /\ UNCHANGED <<accepted, temporary, out, npubs, received, taken>>
  BY DEF BrokerRequest
<1>5. PICK granted \in (IF p.type = "SUBSCRIBE" THEN {0, p.val, 128} ELSE {0}) :
        /\ subscribed' = CASE p.type = "SUBSCRIBE"   -> subscribed \/ granted # 128
                           [] p.type = "UNSUBSCRIBE" -> FALSE
                           [] OTHER                  -> subscribed
        /\ Answer(<<Pkt(reply, p.id, granted, 0)>>)
  BY DEF BrokerRequest
<1>6. granted \in Nat
  BY <1>3, <1>5
<1>7. reply \in {"PUBCOMP", "SUBACK", "UNSUBACK", "PINGRESP"}
  BY <1>4
<1>8. subscribed' \in BOOLEAN
  <2>1. CASE p.type = "SUBSCRIBE"
    BY <2>1, <1>1, <1>5
  <2>2. CASE p.type = "UNSUBSCRIBE"
    BY <2>2, <1>5
  <2>3. CASE p.type \notin {"SUBSCRIBE", "UNSUBSCRIBE"}
    BY <2>3, <1>1, <1>5
  <2>. QED
    BY <2>1, <2>2, <2>3
<1>. HIDE DEF reply, p
<1>10. /\ Pkt(reply, p.id, granted, 0) \in Packet
       /\ Pkt(reply, p.id, granted, 0).type = reply
  <2>1. reply \in PacketTypes /\ reply # "PUBLISH"
    BY <1>7 DEF PacketTypes
  <2>. QED
    BY <2>1, <1>3, <1>6, PktType
<1>11. /\ toBroker' = Tail(toBroker) /\ link' = link
       /\ toClient' = toClient \o <<Pkt(reply, p.id, granted, 0)>>
  BY <1>5 DEF Answer
<1>. QED
  BY <1>4, <1>7, <1>8, <1>10, <1>11 DEF p

LEMMA BrokerPublishFacts ==
  ASSUME Types, BrokerPublish
  PROVE  /\ link = "up" /\ accepted /\ npubs' = npubs + 1
         /\ UNCHANGED <<link, toBroker, accepted, temporary, subscribed, received, taken>>
         /\ \E q \in 0 .. 2, id \in BrokerIds, r \in Packet :
              /\ \A m \in out : m.id # id
              /\ r.type = "PUBLISH" /\ r.id = id /\ r.val = q /\ r.msg = npubs + 1
              /\ toClient' = toClient \o <<r>>
              /\ out' = IF q = 0 THEN out
                        ELSE out \cup {[id |-> id, qos |-> q, msg |-> npubs + 1, released |-> FALSE]}
<1>1. toClient \in Seq(Packet) /\ npubs \in Nat
  BY DEF Types, LinkTypes, BrokerTypes
<1>2. /\ link = "up" /\ accepted /\ npubs' = npubs + 1
      /\ UNCHANGED <<link, toBroker, accepted, temporary, subscribed, received, taken>>
  BY DEF BrokerPublish
<1>3. PICK q \in InboundQoS, id \in BrokerIds \ {m.id : m \in out} :
        /\ toClient' = Append(toClient, Pkt("PUBLISH", id, q, npubs'))
        /\ out' = IF q = 0 THEN out
                  ELSE out \cup {[id |-> id, qos |-> q, msg |-> npubs', released |-> FALSE]}
  BY DEF BrokerPublish
<1>. DEFINE r == Pkt("PUBLISH", id, q, npubs + 1)
<1>4. q \in 0 .. 2 /\ q \in Nat /\ id \in Ids /\ id \in BrokerIds /\ npubs + 1 \in Nat
  BY <1>1, Constants DEF Ids
<1>5. r \in Packet /\ r.type = "PUBLISH" /\ r.id = id /\ r.val = q /\ r.msg = npubs + 1
  BY <1>4, PktType DEF PacketTypes
<1>6. \A m \in out : m.id # id
  OBVIOUS
<1>7. toClient' = Append(toClient, r)
  BY <1>2, <1>3
<1>. HIDE DEF r
<1>8. toClient' = toClient \o <<r>>
  BY <1>1, <1>5, <1>7, AppendIsConcat
<1>. QED
  BY <1>2, <1>3, <1>4, <1>5, <1>6, <1>8

----------------------------------------------------------------------------
(* Every step preserves the types.                                         *)

LEMMA TypesInit ==
  ASSUME Init
  PROVE  Types
<1>1. LinkTypes
  BY EmptyQueue DEF Init, BrokerInit, LinkTypes
<1>2. IsFiniteSet({}) /\ Cardinality({}) = 0
  BY FS_EmptySet
<1>3. <<>> \in Seq(Nat \X Nat) /\ 0 \in Nat
  OBVIOUS
<1>4. BrokerTypes
  <2>1. /\ accepted = FALSE /\ subscribed = FALSE /\ out = {} /\ temporary = FALSE
        /\ npubs = 0 /\ received = {} /\ taken = {}
    BY DEF Init, BrokerInit
  <2>2. npubs \in Nat
    BY <2>1, <1>3
  <2>3. IsFiniteSet(out)
    BY <2>1, <1>2
  <2>. QED
    BY <2>1, <2>2, <2>3 DEF BrokerTypes
<1>5. ClientTypes
  <2>1. /\ isconnected = FALSE /\ cleansession \in BOOLEAN /\ ping_outstanding = FALSE
        /\ packetid = 0 /\ inflight = NoMessage /\ incomingQoS2messages = {}
        /\ handlers = 0 /\ call = Idle /\ ncalls = 0 /\ nconns = 0
        /\ arrived = <<>> /\ stored = {} /\ completed = {}
    BY Constants DEF Init
  <2>2. arrived \in Seq(Nat \X Nat)
    BY <2>1, <1>3
  <2>3. /\ IsFiniteSet(incomingQoS2messages)
        /\ Cardinality(incomingQoS2messages) <= MAX_INCOMING_QOS2_MESSAGES
    BY <2>1, <1>2, Constants
  <2>4. /\ packetid \in 0 .. MAX_PACKET_ID /\ handlers \in 0 .. MAX_MESSAGE_HANDLERS
        /\ ncalls \in 0 .. MaxCalls /\ nconns \in Nat
    BY <2>1, Constants
  <2>. QED
    BY <2>1, <2>2, <2>3, <2>4, NoMessageType DEF ClientTypes
<1>. QED
  BY <1>1, <1>4, <1>5 DEF Types

\* A packet that is no PUBLISH, or has an identifier of the broker, joins the
\* packets to the client.
LEMMA LinkAnswer ==
  ASSUME LinkTypes, toBroker # <<>>, toBroker' = Tail(toBroker), link' = link,
         NEW r \in Packet, r \notin Foreign, toClient' = toClient \o <<r>>
  PROVE  LinkTypes'
<1>1. /\ toBroker \in Seq(Packet) /\ toClient \in Seq(Packet) /\ None(toClient, Foreign)
  BY DEF LinkTypes
<1>2. <<r>> \in Seq(Packet) /\ None(<<r>>, Foreign)
  BY Single
<1>3. toClient' \in Seq(Packet) /\ None(toClient', Foreign)
  BY <1>1, <1>2, QueueJoin, JoinNone
<1>4. toBroker' \in Seq(Packet)
  BY <1>1, QueueTail
<1>. QED
  BY <1>3, <1>4 DEF LinkTypes

LEMMA TypesConnect ==
  ASSUME Types, toBroker # <<>>, BrokerConnect
  PROVE  LinkTypes' /\ BrokerTypes'
<1>0. /\ toBroker \in Seq(Packet) /\ toClient \in Seq(Packet) /\ None(toClient, Foreign)
      /\ link \in {"up", "closed", "reset"}
      /\ out \subseteq Item /\ IsFiniteSet(out) /\ temporary \in BOOLEAN
      /\ npubs \in Nat /\ received \subseteq Nat /\ taken \subseteq Nat
      /\ subscribed \in BOOLEAN /\ accepted \in BOOLEAN
  BY DEF Types, LinkTypes, BrokerTypes
<1>1. CASE accepted'
  <2>1. /\ accepted' = TRUE /\ toBroker' = Tail(toBroker) /\ link' = link
        /\ UNCHANGED <<npubs, received, taken>>
        /\ subscribed' \in BOOLEAN /\ temporary' \in BOOLEAN
        /\ out' = IF Head(toBroker).val = 1 \/ temporary THEN {} ELSE out
    BY <1>1, ConnectAccepted
  <2>2. PICK order \in Orders(out') :
          toClient' = toClient \o (<<Connack(0)>> \o [i \in DOMAIN order |-> Again(order[i])])
    BY <1>1, ConnectAccepted
  <2>3. out' \subseteq Item /\ IsFiniteSet(out')
    BY <1>0, <2>1, FS_EmptySet
  <2>4. BrokerTypes'
    BY <1>0, <2>1, <2>3 DEF BrokerTypes
  <2>. DEFINE a == [i \in DOMAIN order |-> Again(order[i])]
  <2>5. PICK kept : kept = out'
    OBVIOUS
  <2>6. a \in Seq(Packet) /\ \A k \in 1 .. Len(a) : a[k].id \in BrokerIds
    <3>1. kept \subseteq Item /\ IsFiniteSet(kept) /\ order \in Orders(kept)
      BY <2>2, <2>3, <2>5
    <3>. QED
      BY <3>1, AgainFacts
  <2>. HIDE DEF a
  <2>7. None(a, Foreign)
    BY <2>6 DEF None, Foreign
  <2>8. <<Connack(0)>> \in Seq(Packet) /\ None(<<Connack(0)>>, Foreign)
    BY ConnackType, Single DEF Foreign
  <2>9. <<Connack(0)>> \o a \in Seq(Packet) /\ None(<<Connack(0)>> \o a, Foreign)
    BY <2>6, <2>7, <2>8, QueueJoin, JoinNone
  <2>10. toClient' \in Seq(Packet) /\ None(toClient', Foreign)
    BY <1>0, <2>2, <2>9, QueueJoin, JoinNone DEF a
  <2>11. toBroker' \in Seq(Packet)
    BY <1>0, <2>1, QueueTail
  <2>. QED
    BY <1>0, <2>1, <2>4, <2>10, <2>11 DEF LinkTypes
<1>2. CASE ~accepted'
  <2>1. /\ toClient' = toClient \o <<Connack(5)>> /\ link' = "closed" /\ toBroker' = <<>>
        /\ UNCHANGED <<accepted, temporary, subscribed, out, npubs, received, taken>>
    BY <1>2, ConnectRefused
  <2>2. <<Connack(5)>> \in Seq(Packet) /\ None(<<Connack(5)>>, Foreign)
    BY ConnackType, Single DEF Foreign
  <2>3. toClient' \in Seq(Packet) /\ None(toClient', Foreign)
    BY <1>0, <2>1, <2>2, QueueJoin, JoinNone
  <2>. QED
    BY <1>0, <2>1, <2>3, EmptyQueue DEF LinkTypes, BrokerTypes
<1>. QED
  BY <1>1, <1>2

LEMMA TypesPublished ==
  ASSUME Types, toBroker # <<>>, BrokerPublished
  PROVE  LinkTypes' /\ BrokerTypes'
<1>0. /\ toBroker \in Seq(Packet) /\ LinkTypes
      /\ received \subseteq Nat /\ BrokerTypes
  BY DEF Types, LinkTypes, BrokerTypes
<1>1. /\ toBroker' = Tail(toBroker)
      /\ UNCHANGED <<link, accepted, temporary, subscribed, out, npubs, taken>>
      /\ received' = received \cup {Head(toBroker).msg}
  BY PublishedFacts
<1>2. Head(toBroker).msg \in Nat /\ toBroker' \in Seq(Packet)
  BY <1>0, <1>1, QueueTail, PacketFields
<1>3. received' \subseteq Nat
  BY <1>0, <1>1, <1>2
<1>4. BrokerTypes'
  BY <1>0, <1>1, <1>3 DEF BrokerTypes
<1>5. \/ toClient' = toClient
      \/ \E r \in Packet : toClient' = toClient \o <<r>> /\ r.type \in {"PUBACK", "PUBREC"}
  BY PublishedFacts
<1>6. CASE toClient' = toClient
  BY <1>0, <1>1, <1>2, <1>4, <1>6 DEF LinkTypes
<1>7. ASSUME NEW r \in Packet, toClient' = toClient \o <<r>>, r.type \in {"PUBACK", "PUBREC"}
      PROVE  LinkTypes'
  <2>1. r \notin Foreign
    BY <1>7 DEF Foreign
  <2>. QED
    BY <1>0, <1>1, <1>7, <2>1, LinkAnswer
<1>. QED
  BY <1>4, <1>5, <1>6, <1>7

LEMMA TypesAcknowledged ==
  ASSUME Types, toBroker # <<>>, BrokerAcknowledged
  PROVE  LinkTypes' /\ BrokerTypes'
<1>. DEFINE p == Head(toBroker)
            of == {m \in out : m.id = p.id}
            new == {[m EXCEPT !.released = TRUE] : m \in of}
<1>0. /\ toBroker \in Seq(Packet) /\ LinkTypes /\ BrokerTypes
      /\ out \subseteq Item /\ IsFiniteSet(out) /\ taken \subseteq Nat
  BY DEF Types, LinkTypes, BrokerTypes
<1>1. /\ toBroker' = Tail(toBroker)
      /\ UNCHANGED <<link, accepted, temporary, subscribed, npubs, received>>
      /\ p.type # "PUBREC" => /\ toClient' = toClient /\ out' = out \ of /\ taken' = taken
      /\ p.type = "PUBREC" =>
           /\ out' = (out \ of) \cup new
           /\ taken' = taken \cup {m.msg : m \in of}
           /\ \E r \in Packet : toClient' = toClient \o <<r>> /\ r.type = "PUBREL"
  BY AcknowledgedFacts
<1>2. of \subseteq out /\ IsFiniteSet(of) /\ IsFiniteSet(out \ of)
  BY <1>0, FS_Subset
<1>3. new \subseteq Item /\ {m.msg : m \in of} \subseteq Nat
  BY <1>0, <1>2 DEF Item
<1>4. IsFiniteSet(new)
  <2>. DEFINE f == [m \in of |-> [m EXCEPT !.released = TRUE]]
  <2>1. f \in Surjection(of, new)
    BY DEF Surjection
  <2>. HIDE DEF f, of, new
  <2>. QED
    BY <1>2, <2>1, FS_Surjection
<1>. HIDE DEF new, of, p
<1>5. IsFiniteSet((out \ of) \cup new)
  BY <1>2, <1>4, FS_Union
<1>6. CASE p.type = "PUBREC"
  <2>1. BrokerTypes'
    BY <1>0, <1>1, <1>2, <1>3, <1>5, <1>6 DEF BrokerTypes
  <2>2. PICK r \in Packet : toClient' = toClient \o <<r>> /\ r.type = "PUBREL"
    BY <1>1, <1>6
  <2>3. r \notin Foreign
    BY <2>2 DEF Foreign
  <2>4. LinkTypes'
    BY <1>0, <1>1, <2>2, <2>3, LinkAnswer
  <2>. QED
    BY <2>1, <2>4
<1>7. CASE p.type # "PUBREC"
  <2>1. BrokerTypes'
    BY <1>0, <1>1, <1>2, <1>7 DEF BrokerTypes
  <2>2. toBroker' \in Seq(Packet)
    BY <1>0, <1>1, QueueTail
  <2>. QED
    BY <1>0, <1>1, <1>7, <2>1, <2>2 DEF LinkTypes
<1>. QED
  BY <1>6, <1>7

LEMMA TypesRequest ==
  ASSUME Types, toBroker # <<>>, BrokerRequest
  PROVE  LinkTypes' /\ BrokerTypes'
<1>0. LinkTypes /\ BrokerTypes
  BY DEF Types
<1>1. /\ toBroker' = Tail(toBroker)
      /\ UNCHANGED <<link, accepted, temporary, out, npubs, received, taken>>
      /\ subscribed' \in BOOLEAN
  BY BrokerRequestFacts
<1>2. PICK r \in Packet : /\ toClient' = toClient \o <<r>>
                          /\ r.type \in {"PUBCOMP", "SUBACK", "UNSUBACK", "PINGRESP"}
  BY BrokerRequestFacts
<1>3. r \notin Foreign
  BY <1>2 DEF Foreign
<1>4. LinkTypes'
  BY <1>0, <1>1, <1>2, <1>3, LinkAnswer
<1>. QED
  BY <1>0, <1>1, <1>4 DEF BrokerTypes

LEMMA TypesPublish ==
  ASSUME Types, BrokerPublish
  PROVE  LinkTypes' /\ BrokerTypes'
<1>0. /\ toBroker \in Seq(Packet) /\ toClient \in Seq(Packet) /\ LinkTypes /\ BrokerTypes
      /\ None(toClient, Foreign) /\ npubs \in Nat /\ out \subseteq Item /\ IsFiniteSet(out)
  BY DEF Types, LinkTypes, BrokerTypes
<1>1. /\ npubs' = npubs + 1
      /\ UNCHANGED <<link, toBroker, accepted, temporary, subscribed, received, taken>>
  BY BrokerPublishFacts
<1>2. PICK q \in 0 .. 2, id \in BrokerIds, r \in Packet :
        /\ r.type = "PUBLISH" /\ r.id = id
        /\ toClient' = toClient \o <<r>>
        /\ out' = IF q = 0 THEN out
                  ELSE out \cup {[id |-> id, qos |-> q, msg |-> npubs + 1, released |-> FALSE]}
  BY BrokerPublishFacts
<1>. DEFINE new == [id |-> id, qos |-> q, msg |-> npubs + 1, released |-> FALSE]
<1>3. q # 0 => new \in Item
  BY <1>0 DEF Item
<1>. HIDE DEF new
<1>4. IsFiniteSet(out \cup {new})
  BY <1>0, FS_AddElement
<1>5. out' \subseteq Item /\ IsFiniteSet(out')
  BY <1>0, <1>2, <1>3, <1>4 DEF new
<1>6. BrokerTypes'
  BY <1>0, <1>1, <1>5 DEF BrokerTypes
<1>7. <<r>> \in Seq(Packet) /\ None(<<r>>, Foreign)
  BY <1>2, Single DEF Foreign
<1>8. toClient' \in Seq(Packet) /\ None(toClient', Foreign)
  BY <1>0, <1>2, <1>7, QueueJoin, JoinNone
<1>. QED
  BY <1>0, <1>1, <1>6, <1>8 DEF LinkTypes

LEMMA TypesBroker ==
  ASSUME Types, BrokerNext, UNCHANGED clientVars
  PROVE  Types'
<1>1. ClientTypes'
  BY DEF Types, ClientTypes, clientVars
<1>2. ASSUME BrokerCloses
      PROVE  LinkTypes' /\ BrokerTypes'
  BY <1>2, EmptyQueue DEF Types, LinkTypes, BrokerTypes, BrokerCloses, Close
<1>3. ASSUME Reset
      PROVE  LinkTypes' /\ BrokerTypes'
  BY <1>3, EmptyQueue DEF Types, LinkTypes, BrokerTypes, Reset
<1>4. LinkTypes' /\ BrokerTypes'
  BY <1>2, <1>3, TypesConnect, TypesPublished, TypesAcknowledged, TypesRequest, TypesPublish
     DEF BrokerNext
<1>. QED
  BY <1>1, <1>4 DEF Types

LEMMA TypesRequested ==
  ASSUME Types, NEW op \in Ops, NEW m \in Message, NEW packet \in Packet, NEW waits \in BOOLEAN,
         Request(op, m, <<>>, packet, waits)
  PROVE  /\ call' \in [op : Ops, m : Message] /\ isconnected' \in BOOLEAN
         /\ completed' \subseteq Message
<1>1. PICK e \in Seq(Packet) : e = <<>>
  BY EmptyQueue
<1>2. Request(op, m, e, packet, waits)
  BY <1>1
<1>. QED
  BY <1>2, RequestFacts

LEMMA TypesCalls ==
  ASSUME Types, Calls
  PROVE  Types'
<1>0. /\ ClientTypes /\ LinkTypes /\ BrokerTypes /\ toBroker \in Seq(Packet)
      /\ stored \subseteq Message /\ inflight \in Message /\ call \in [op : Ops, m : Message]
      /\ isconnected \in BOOLEAN
  BY DEF Types, LinkTypes, ClientTypes
<1>1. PICK b \in Seq(Packet) : Sends(b)
  BY CallsSend
<1>2. LinkTypes' /\ BrokerTypes'
  <2>1. UNCHANGED <<link, toClient, brokerVars>>
    BY CallsSend
  <2>2. toBroker' \in Seq(Packet)
    BY <1>0, <1>1, QueueJoin DEF Sends
  <2>. QED
    BY <1>0, <2>1, <2>2 DEF LinkTypes, BrokerTypes, brokerVars
<1>3. Begin => ncalls' \in 0 .. MaxCalls
  BY Constants DEF Begin, Types, ClientTypes
<1>4. {"connect", "subscribe", "unsubscribe", "publish", "yield"} \subseteq Ops
  BY DEF Ops
<1>5. ASSUME NEW clean \in CleanSessions, connect(clean)
      PROVE  ClientTypes'
  <2>1. /\ call' \in [op : Ops, m : Message] /\ isconnected' \in BOOLEAN
        /\ completed' \subseteq Message
    BY <1>4, <1>5, connectFacts, TypesRequested, NoMessageType
  <2>2. cleansession' \in BOOLEAN
    BY <1>5, Constants DEF connect
  <2>. QED
    BY <1>0, <1>3, <1>5, <2>1, <2>2 DEF connect, ClientTypes
<1>6. ASSUME NEW qos \in PublishQoS, publish(qos)
      PROVE  ClientTypes'
  <2>1. PICK m \in Message :
          LET packet == Pkt("PUBLISH", m.id, qos, m.msg)
          IN /\ packet \in Packet
             /\ Request("publish", m, <<>>, packet, qos = 1)
             /\ inflight' = IF cleansession THEN inflight ELSE m
             /\ stored' = IF cleansession \/ qos = 0 THEN stored ELSE stored \cup {m}
    BY <1>6, publishFacts
  <2>2. inflight' \in Message /\ stored' \subseteq Message
    BY <1>0, <2>1
  <2>3. /\ call' \in [op : Ops, m : Message] /\ isconnected' \in BOOLEAN
        /\ completed' \subseteq Message
    <3>1. (qos = 1) \in BOOLEAN
      OBVIOUS
    <3>2. PICK packet \in Packet, waits \in BOOLEAN : Request("publish", m, <<>>, packet, waits)
      BY <2>1, <3>1
    <3>. QED
      BY <1>4, <3>2, TypesRequested
  <2>4. packetid' \in 0 .. MAX_PACKET_ID
    BY <1>0, <1>6, getNextType DEF publish, ClientTypes
  <2>. QED
    BY <1>0, <1>3, <1>6, <2>2, <2>3, <2>4 DEF publish, ClientTypes
<1>7. ASSUME subscribe(2)
      PROVE  ClientTypes'
  <2>1. /\ call' \in [op : Ops, m : Message] /\ isconnected' \in BOOLEAN
        /\ completed' \subseteq Message
    BY <1>4, <1>7, subscribeFacts, TypesRequested, NoMessageType
  <2>2. packetid' \in 0 .. MAX_PACKET_ID
    BY <1>7, getNextType DEF subscribe
  <2>. QED
    BY <1>0, <1>3, <1>7, <2>1, <2>2 DEF subscribe, ClientTypes
<1>8. ASSUME unsubscribe
      PROVE  ClientTypes'
  <2>1. /\ call' \in [op : Ops, m : Message] /\ isconnected' \in BOOLEAN
        /\ completed' \subseteq Message
    BY <1>4, <1>8, unsubscribeFacts, TypesRequested, NoMessageType
  <2>2. packetid' \in 0 .. MAX_PACKET_ID
    BY <1>8, getNextType DEF unsubscribe
  <2>. QED
    BY <1>0, <1>3, <1>8, <2>1, <2>2 DEF unsubscribe, ClientTypes
<1>9. ASSUME yield
      PROVE  ClientTypes'
  <2>1. call' \in [op : Ops, m : Message]
    BY <1>4, <1>9, NoMessageType DEF yield
  <2>. QED
    BY <1>0, <1>3, <1>9, <2>1 DEF yield, ClientTypes
<1>10. ASSUME disconnect
       PROVE  ClientTypes'
  <2>1. call' \in [op : Ops, m : Message] /\ isconnected' \in BOOLEAN
    BY <1>10, NoMessageType DEF disconnect, Return
  <2>. QED
    BY <1>0, <1>3, <1>10, <2>1 DEF disconnect, ClientTypes
<1>11. ASSUME GiveUp
       PROVE  ClientTypes'
  <2>1. call' \in [op : Ops, m : Message] /\ isconnected' \in BOOLEAN
    BY <1>0, <1>11, NoMessageType DEF GiveUp, Return
  <2>2. ping_outstanding' \in BOOLEAN
    BY <1>11, GiveUpFacts
  <2>. QED
    BY <1>0, <1>11, <2>1, <2>2 DEF GiveUp, ClientTypes
<1>. QED
  BY <1>2, <1>5, <1>6, <1>7, <1>8, <1>9, <1>10, <1>11 DEF Calls, Types

LEMMA TypesNetwork ==
  ASSUME Types, NetworkConnect
  PROVE  Types'
<1>1. LinkTypes'
  BY EmptyQueue DEF NetworkConnect, LinkTypes
<1>2. BrokerTypes'
  BY DEF NetworkConnect, Types, BrokerTypes
<1>3. ClientTypes'
  BY DEF NetworkConnect, Types, ClientTypes
<1>. QED
  BY <1>1, <1>2, <1>3 DEF Types

\* The table grows by one identifier, and only where there is room.
LEMMA TableType ==
  ASSUME Types, NEW p \in Packet, NEW sent \in BOOLEAN, p \notin Foreign
  PROVE  LET table == QoS2Table(p, sent)
         IN /\ table \subseteq BrokerIds /\ IsFiniteSet(table)
            /\ Cardinality(table) <= MAX_INCOMING_QOS2_MESSAGES
<1>. DEFINE table == QoS2Table(p, sent)
            old == incomingQoS2messages
<1>0. /\ old \subseteq BrokerIds /\ IsFiniteSet(old) /\ Cardinality(old) \in Nat
      /\ Cardinality(old) <= MAX_INCOMING_QOS2_MESSAGES
  BY FS_CardinalityType DEF Types, ClientTypes
<1>1. CASE Delivers(p) /\ p.val = 2
  <2>1. table = old \cup {p.id}
    <3>1. p.type = "PUBLISH"
      BY <1>1 DEF Delivers
    <3>. QED
      BY <1>1, <3>1 DEF QoS2Table
  <2>2. p.id \in BrokerIds
    BY <1>1 DEF Foreign, Delivers
  <2>3. Cardinality(old) < MAX_INCOMING_QOS2_MESSAGES
    BY <1>1 DEF Delivers, useQoS2msgid
  <2>4. PICK i : i = p.id
    OBVIOUS
  <2>. HIDE DEF table, old
  <2>5. /\ IsFiniteSet(old \cup {i})
        /\ \/ Cardinality(old \cup {i}) = Cardinality(old)
           \/ Cardinality(old \cup {i}) = Cardinality(old) + 1
    BY <1>0, FS_AddElement
  <2>6. Cardinality(old \cup {i}) <= MAX_INCOMING_QOS2_MESSAGES
    BY <1>0, <2>3, <2>5, Constants
  <2>. QED
    BY <1>0, <2>1, <2>2, <2>4, <2>5, <2>6 DEF table
<1>2. CASE ~(Delivers(p) /\ p.val = 2)
  <2>1. table \in SUBSET old
    BY <1>2 DEF QoS2Table
  <2>. HIDE DEF table, old
  <2>2. IsFiniteSet(table) /\ Cardinality(table) \in Nat /\ Cardinality(table) <= Cardinality(old)
    BY <1>0, <2>1, FS_Subset, FS_CardinalityType
  <2>. QED
    BY <1>0, <2>1, <2>2, Constants DEF table
<1>. QED
  BY <1>1, <1>2

LEMMA TypesCycle ==
  ASSUME Types, Cycle
  PROVE  Types'
<1>. DEFINE p == Head(toClient)
<1>0. /\ toClient \in Seq(Packet) /\ toBroker \in Seq(Packet) /\ None(toClient, Foreign)
      /\ ClientTypes /\ LinkTypes /\ BrokerTypes /\ arrived \in Seq(Nat \X Nat)
  BY DEF Types, LinkTypes, ClientTypes
<1>1. /\ toClient # <<>> /\ p \in Packet /\ toClient' = Tail(toClient)
      /\ UNCHANGED <<link, brokerVars, cleansession, packetid, ncalls, nconns, stored>>
      /\ arrived' = IF Delivers(p) THEN Append(arrived, <<p.msg, p.val>>) ELSE arrived
      /\ ping_outstanding' \in BOOLEAN
  BY CycleFacts
<1>2. PICK sent \in BOOLEAN, b \in Seq(Packet) :
        /\ incomingQoS2messages' = QoS2Table(p, sent)
        /\ toBroker' = toBroker \/ toBroker' = toBroker \o (Replies(p) \o b)
  BY CycleFacts
<1>3. p \notin Foreign /\ toClient' \in Seq(Packet) /\ None(toClient', Foreign)
  BY <1>0, <1>1, HeadNone, QueueTail, TailNone
<1>4. /\ incomingQoS2messages' \subseteq BrokerIds /\ IsFiniteSet(incomingQoS2messages')
      /\ Cardinality(incomingQoS2messages') <= MAX_INCOMING_QOS2_MESSAGES
  BY <1>1, <1>2, <1>3, TableType
<1>5. toBroker' \in Seq(Packet)
  <2>1. Replies(p) \in Seq(Packet)
    BY <1>1, ReplyType
  <2>2. Replies(p) \o b \in Seq(Packet)
    BY <2>1, QueueJoin
  <2>. QED
    BY <1>0, <1>2, <2>2, QueueJoin
<1>6. arrived' \in Seq(Nat \X Nat)
  <2>1. <<p.msg, p.val>> \in Nat \X Nat
    BY <1>1, PacketFields
  <2>2. PICK m \in Nat \X Nat : m = <<p.msg, p.val>>
    BY <2>1
  <2>3. Append(arrived, m) \in Seq(Nat \X Nat)
    BY <1>0
  <2>. QED
    BY <1>0, <1>1, <2>2, <2>3
<1>7. /\ inflight' \in Message /\ handlers' \in 0 .. MAX_MESSAGE_HANDLERS
      /\ isconnected' \in BOOLEAN /\ completed' \subseteq Message /\ call' \in [op : Ops, m : Message]
  <2>1. CASE p.type = Awaited(call.op)
    <3>1. PICK ping \in Seq(Packet) : None(ping, NoPing) /\ Complete(p, ping)
      BY <2>1, CycleFacts
    <3>. QED
      BY <1>1, <2>1, <3>1, CompleteFacts
  <2>2. CASE p.type # Awaited(call.op)
    <3>1. /\ call' = call \/ call' = Idle
          /\ UNCHANGED <<inflight, handlers, completed, isconnected>>
      BY <2>2, CycleFacts
    <3>. QED
      BY <1>0, <3>1, NoMessageType DEF ClientTypes
  <2>. QED
    BY <2>1, <2>2
<1>. HIDE DEF p
<1>8. LinkTypes' /\ BrokerTypes'
  BY <1>0, <1>1, <1>3, <1>5 DEF LinkTypes, BrokerTypes, brokerVars
<1>9. ClientTypes'
  BY <1>0, <1>1, <1>4, <1>6, <1>7 DEF ClientTypes
<1>. QED
  BY <1>8, <1>9 DEF Types

LEMMA TypesStutter ==
  ASSUME Types, UNCHANGED vars
  PROVE  Types'
<1>1. LinkTypes' /\ BrokerTypes'
  BY DEF Types, vars, LinkTypes, BrokerTypes, brokerVars
<1>2. ClientTypes'
  BY DEF Types, vars, ClientTypes, clientVars
<1>. QED
  BY <1>1, <1>2 DEF Types

LEMMA TypesStep ==
  ASSUME Types, [Next]_vars
  PROVE  Types'
BY TypesBroker, TypesCalls, TypesNetwork, TypesCycle, TypesStutter
   DEF Next, BrokerStep, Reconnect, Calls

\* The variables of the client keep their types, and neither of its tables ever
\* outgrows its array, for arrays of any size.
THEOREM TypeCorrect == Spec => []TypeOK
<1>1. Types => TypeOK
  BY DEF Types, ClientTypes, TypeOK, Message
<1>2. Init => Types
  BY TypesInit
<1>3. Types /\ [Next]_vars => Types'
  BY TypesStep
<1>. QED
  BY <1>1, <1>2, <1>3, PTL DEF Spec

----------------------------------------------------------------------------
(* The greeting of the broker.                                             *)

Session ==
  \/ /\ link = "up" /\ toBroker # <<>>
     /\ BrokerPublished \/ BrokerAcknowledged \/ BrokerRequest
  \/ BrokerPublish

LEMMA SessionFacts ==
  ASSUME Types, Session
  PROVE  /\ accepted /\ UNCHANGED <<link, accepted>>
         /\ \/ toClient' = toClient
            \/ \E r \in Packet : r.type # "CONNACK" /\ toClient' = toClient \o <<r>>
<1>1. CASE toBroker # <<>> /\ BrokerPublished
  BY <1>1, PublishedFacts
<1>2. CASE toBroker # <<>> /\ BrokerAcknowledged
  BY <1>2, AcknowledgedFacts
<1>3. CASE toBroker # <<>> /\ BrokerRequest
  BY <1>3, BrokerRequestFacts
<1>4. CASE BrokerPublish
  BY <1>4, BrokerPublishFacts
<1>. QED
  BY <1>1, <1>2, <1>3, <1>4 DEF Session

LEMMA GreetedInit ==
  ASSUME Init
  PROVE  Greeted
BY EmptyQueue DEF Init, BrokerInit, Greeted

LEMMA GreetedSession ==
  ASSUME Types, Greeted, Session
  PROVE  Greeted'
<1>1. toClient \in Seq(Packet) /\ Once(toClient, Connacks)
  BY DEF Types, LinkTypes, Greeted
<1>2. accepted' = accepted /\ accepted
  BY SessionFacts
<1>3. ASSUME NEW r \in Packet, r.type # "CONNACK", toClient' = toClient \o <<r>>
      PROVE  Once(toClient', Connacks)
  <2>1. <<r>> \in Seq(Packet) /\ None(<<r>>, Connacks)
    BY <1>3, Single DEF Connacks
  <2>. QED
    BY <1>1, <1>3, <2>1, OfNone, JoinOnce
<1>4. Once(toClient', Connacks)
  BY <1>1, <1>3, SessionFacts
<1>. QED
  BY <1>2, <1>4 DEF Greeted

\* A broker that accepts the connection has sent nothing on it before.
LEMMA AcceptedFacts ==
  ASSUME Types, Greeted, link = "up", toBroker # <<>>, BrokerConnect, accepted'
  PROVE  \E order \in Orders(out'), a \in Seq(Packet), b \in Seq(Packet) :
           /\ a = [i \in DOMAIN order |-> Again(order[i])]
           /\ b = <<Connack(0)>> \o a /\ toClient' = toClient \o b
           /\ \A S : (S \subseteq Packet => None(toClient, S))
           /\ \A S : (Connack(0) \notin S /\ None(a, S) => None(b, S))
           /\ \A S : (Connack(0) \notin S /\ Once(a, S) => Once(b, S))
           /\ \A k \in 1 .. Len(a) : a[k].type \in {"PUBLISH", "PUBREL"}
           /\ out' \subseteq Item /\ IsFiniteSet(out')
<1>0. toClient \in Seq(Packet) /\ out \subseteq Item /\ IsFiniteSet(out)
  BY DEF Types, LinkTypes, BrokerTypes
<1>1. /\ ~accepted
      /\ out' = IF Head(toBroker).val = 1 \/ temporary THEN {} ELSE out
      /\ \E order \in Orders(out') :
           toClient' = toClient \o (<<Connack(0)>> \o [i \in DOMAIN order |-> Again(order[i])])
  BY ConnectAccepted
<1>2. PICK order \in Orders(out') :
        toClient' = toClient \o (<<Connack(0)>> \o [i \in DOMAIN order |-> Again(order[i])])
  BY <1>1
<1>. DEFINE a == [i \in DOMAIN order |-> Again(order[i])]
            b == <<Connack(0)>> \o a
<1>3. out' \subseteq Item /\ IsFiniteSet(out')
  BY <1>0, <1>1, FS_EmptySet
<1>4. a \in Seq(Packet) /\ \A k \in 1 .. Len(a) : a[k].type \in {"PUBLISH", "PUBREL"}
  <2>1. PICK kept : kept = out'
    OBVIOUS
  <2>2. kept \subseteq Item /\ IsFiniteSet(kept) /\ order \in Orders(kept)
    BY <1>2, <1>3, <2>1
  <2>. QED
    BY <2>2, AgainFacts
<1>5. <<Connack(0)>> \in Seq(Packet) /\ Connack(0) \in Packet
  BY ConnackType
<1>6. ASSUME NEW S, S \subseteq Packet
      PROVE  None(toClient, S)
  <2>1. None(toClient, Packet)
    BY <1>1 DEF Greeted
  <2>. QED
    BY <1>0, <1>6, <2>1, SubNone
<1>. HIDE DEF a
<1>7. b \in Seq(Packet)
  BY <1>4, <1>5, QueueJoin
<1>8. ASSUME NEW S, Connack(0) \notin S, None(a, S)
      PROVE  None(b, S)
  BY <1>4, <1>5, <1>8, Single, JoinNone
<1>9. ASSUME NEW S, Connack(0) \notin S, Once(a, S)
      PROVE  Once(b, S)
  BY <1>4, <1>5, <1>9, Single, JoinOnce
<1>10. a = [i \in DOMAIN order |-> Again(order[i])] /\ b = <<Connack(0)>> \o a
       /\ toClient' = toClient \o b
  BY <1>2 DEF a
<1>. HIDE DEF b
<1>. QED
  BY <1>3, <1>4, <1>6, <1>7, <1>8, <1>9, <1>10

LEMMA GreetedConnect ==
  ASSUME Types, Greeted, link = "up", toBroker # <<>>, BrokerConnect
  PROVE  Greeted'
<1>0. toClient \in Seq(Packet)
  BY DEF Types, LinkTypes
<1>1. CASE accepted'
  <2>1. PICK order \in Orders(out'), a \in Seq(Packet), b \in Seq(Packet) :
           /\ b = <<Connack(0)>> \o a /\ toClient' = toClient \o b
           /\ \A S : (S \subseteq Packet => None(toClient, S))
           /\ \A k \in 1 .. Len(a) : a[k].type \in {"PUBLISH", "PUBREL"}
    BY <1>1, AcceptedFacts
  <2>2. None(toClient, Connacks)
    BY <2>1 DEF Connacks
  <2>3. None(a, Connacks)
    BY <2>1 DEF None, Connacks
  <2>4. <<Connack(0)>> \in Seq(Packet) /\ Once(<<Connack(0)>>, Connacks)
    BY ConnackType, Single
  <2>5. Once(b, Connacks)
    BY <2>1, <2>3, <2>4, OfNone, JoinOnce
  <2>6. Once(toClient', Connacks)
    BY <1>0, <2>1, <2>2, <2>5, OfNone, JoinOnce
  <2>. QED
    BY <1>1, <2>6 DEF Greeted
<1>2. CASE ~accepted'
  <2>1. /\ ~accepted /\ toClient' = toClient \o <<Connack(5)>> /\ link' = "closed"
    BY <1>2, ConnectRefused
  <2>2. None(toClient, Packet)
    BY <2>1 DEF Greeted
  <2>3. /\ None(toClient, Connacks) /\ None(toClient, Packet \ Refusals)
    BY <1>0, <2>2, SubNone DEF Connacks
  <2>4. Connack(5) \in Packet /\ Connack(5) \in Refusals
    BY ConnackType DEF Refusals
  <2>5. /\ <<Connack(5)>> \in Seq(Packet) /\ Once(<<Connack(5)>>, Connacks)
        /\ None(<<Connack(5)>>, Packet \ Refusals)
    BY <2>4, Single
  <2>6. Once(toClient', Connacks) /\ None(toClient', Packet \ Refusals)
    BY <1>0, <2>1, <2>3, <2>5, OfNone, JoinOnce, JoinNone
  <2>. QED
    BY <2>1, <2>6 DEF Greeted
<1>. QED
  BY <1>1, <1>2

LEMMA GreetedStep ==
  ASSUME Types, Greeted, [Next]_vars
  PROVE  Greeted'
<1>0. toClient \in Seq(Packet)
  BY DEF Types, LinkTypes
<1>1. ASSUME Session
      PROVE  Greeted'
  BY <1>1, GreetedSession
<1>2. ASSUME link = "up", toBroker # <<>>, BrokerConnect
      PROVE  Greeted'
  BY <1>2, GreetedConnect
<1>3. ASSUME BrokerCloses
      PROVE  Greeted'
  BY <1>3 DEF BrokerCloses, Close, Greeted
<1>4. ASSUME Reset
      PROVE  Greeted'
  BY <1>4, EmptyQueue DEF Reset, Greeted
<1>5. ASSUME NetworkConnect
      PROVE  Greeted'
  BY <1>5, EmptyQueue DEF NetworkConnect, Greeted
<1>6. ASSUME Calls
      PROVE  Greeted'
  BY <1>6, CallsSend DEF Greeted, brokerVars
<1>7. ASSUME Cycle
      PROVE  Greeted'
  <2>1. toClient # <<>> /\ toClient' = Tail(toClient) /\ UNCHANGED <<link, brokerVars>>
    BY <1>7, CycleFacts
  <2>2. UNCHANGED <<link, accepted>>
    BY <2>1 DEF brokerVars
  <2>. QED
    BY <1>0, <2>1, <2>2, TailNone, TailOnce DEF Greeted
<1>8. ASSUME UNCHANGED vars
      PROVE  Greeted'
  BY <1>8 DEF vars, brokerVars, Greeted
<1>. QED
  BY <1>1, <1>2, <1>3, <1>4, <1>5, <1>6, <1>7, <1>8
     DEF Next, BrokerStep, Reconnect, BrokerNext, Session, Calls

----------------------------------------------------------------------------
(* The messages of the session.                                            *)

Silent == {p \in Packet : p.type \notin {"PUBLISH", "PUBREL"}}

LEMMA Kinds ==
  ASSUME NEW items
  PROVE  /\ \A id : (Up(id) \subseteq Acknowledgements /\ Up(id) \subseteq Control)
         /\ UpLost(items) \subseteq Acknowledgements /\ UpLost(items) \subseteq Control
         /\ \A p \in Silent : p \notin DownLost(items) /\ \A id : p \notin Down(id)
<1>1. \A id : (Up(id) \subseteq Acknowledgements /\ Up(id) \subseteq Control)
  BY DEF Up, Acknowledgements, Control
<1>2. UpLost(items) \subseteq Acknowledgements /\ UpLost(items) \subseteq Control
  BY DEF UpLost, UpOK, Acknowledgements, Control
<1>3. \A p \in Silent : p \notin DownLost(items) /\ \A id : p \notin Down(id)
  BY DEF Silent, DownLost, DownOK, Down
<1>. QED
  BY <1>1, <1>2, <1>3

LEMMA TokensInit ==
  ASSUME Init
  PROVE  Tokens /\ Items /\ Remembered
<1>1. toClient = <<>> /\ toBroker = <<>> /\ out = {} /\ arrived = <<>>
  BY DEF Init, BrokerInit
<1>2. Tokens
  BY <1>1, EmptyQueue DEF Tokens, Token
<1>3. Items
  BY <1>1 DEF Items
<1>4. Remembered
  BY <1>1 DEF Remembered
<1>. QED
  BY <1>2, <1>3, <1>4

LEMMA TokensEmpty ==
  ASSUME toClient' = <<>>, toBroker' = <<>>
  PROVE  Tokens'
BY EmptyQueue DEF Tokens, Token

\* Nothing but packets that are no acknowledgements joins those to the broker.
LEMMA TokensSend ==
  ASSUME Types, Tokens, UNCHANGED <<toClient, accepted, out>>, NEW b \in Seq(Packet),
         None(b, Acknowledgements), toBroker' = toBroker \/ toBroker' = toBroker \o b
  PROVE  Tokens'
<1>0. toBroker \in Seq(Packet)
  BY DEF Types, LinkTypes
<1>1. \A id : None(b, Up(id))
  BY Kinds, SubNone
<1>2. None(b, UpLost(out))
  BY Kinds, SubNone
<1>3. ASSUME NEW id \in BrokerIds
      PROVE  Token(id)'
  <2>1. Token(id) /\ None(b, Up(id))
    BY <1>1 DEF Tokens
  <2>. DEFINE S == Up(id)
  <2>2. Once(toBroker, S) /\ None(b, S)
    BY <2>1 DEF Token
  <2>. HIDE DEF S
  <2>3. Once(toBroker', S) /\ (None(toBroker, S) => None(toBroker', S))
    BY <1>0, <2>2, JoinOnce, JoinNone, OfNone
  <2>. QED
    BY <2>1, <2>3 DEF Token, S
<1>4. None(toBroker', UpLost(out))
  <2>1. None(toBroker, UpLost(out))
    BY DEF Tokens
  <2>. QED
    BY <1>0, <1>2, <2>1, JoinNone
<1>. QED
  BY <1>3, <1>4 DEF Tokens

\* The broker reads a packet that acknowledges nothing, and answers it with
\* nothing or with a packet that carries no message on.
LEMMA TokensPass ==
  ASSUME Types, Tokens, UNCHANGED <<accepted, out>>, toBroker # <<>>, toBroker' = Tail(toBroker),
         \/ toClient' = toClient
         \/ \E r \in Silent : toClient' = toClient \o <<r>>
  PROVE  Tokens'
<1>0. toBroker \in Seq(Packet) /\ toClient \in Seq(Packet)
  BY DEF Types, LinkTypes
<1>1. ASSUME NEW S, \A r \in Silent : r \notin S
      PROVE  /\ None(toClient, S) => None(toClient', S)
             /\ Once(toClient, S) => Once(toClient', S)
  <2>1. CASE toClient' = toClient
    BY <2>1
  <2>2. ASSUME NEW r \in Silent, toClient' = toClient \o <<r>>
        PROVE  /\ None(toClient, S) => None(toClient', S)
               /\ Once(toClient, S) => Once(toClient', S)
    <3>1. r \in Packet
      BY DEF Silent
    <3>2. <<r>> \in Seq(Packet) /\ None(<<r>>, S) /\ Once(<<r>>, S)
      BY <1>1, <3>1, Single
    <3>. QED
      BY <1>0, <2>2, <3>2, JoinNone, JoinOnce
  <2>. QED
    BY <2>1, <2>2
<1>2. ASSUME NEW id \in BrokerIds
      PROVE  Token(id)'
  <2>1. Token(id) /\ \A r \in Silent : r \notin Down(id)
    BY Kinds DEF Tokens
  <2>2. /\ None(toClient, Down(id)) => None(toClient', Down(id))
        /\ Once(toClient', Down(id))
    <3>. DEFINE S == Down(id)
    <3>1. Once(toClient, S) /\ \A r \in Silent : r \notin S
      BY <2>1 DEF Token
    <3>. HIDE DEF S
    <3>2. (None(toClient, S) => None(toClient', S)) /\ Once(toClient', S)
      BY <1>1, <3>1
    <3>. QED
      BY <3>2 DEF S
  <2>3. /\ None(toBroker, Up(id)) => None(toBroker', Up(id))
        /\ Once(toBroker', Up(id))
    BY <1>0, <2>1, TailNone, TailOnce DEF Token
  <2>. QED
    BY <2>1, <2>2, <2>3 DEF Token
<1>3. None(toClient', DownLost(out))
  <2>. DEFINE S == DownLost(out)
  <2>1. None(toClient, S) /\ \A r \in Silent : r \notin S
    BY Kinds DEF Tokens
  <2>. HIDE DEF S
  <2>2. None(toClient', S)
    BY <1>1, <2>1
  <2>. QED
    BY <2>2 DEF S
<1>4. None(toBroker', UpLost(out))
  BY <1>0, TailNone DEF Tokens
<1>. QED
  BY <1>2, <1>3, <1>4 DEF Tokens

\* A packet that carries a message on has an unfinished message of the session.
LEMMA TokenHasItem ==
  ASSUME Types, Tokens, NEW id
  PROVE  /\ (\A o \in out : o.id # id) => None(toClient, Down(id)) /\ None(toBroker, Up(id))
         /\ id \notin BrokerIds => None(toClient, Down(id)) /\ None(toBroker, Up(id))
<1>1. out \subseteq Item
  BY DEF Types, BrokerTypes
<1>2. \A o \in out : o.id \in BrokerIds
  BY <1>1 DEF Item
<1>3. ASSUME NEW k \in 1 .. Len(toClient), toClient[k] \in Down(id)
      PROVE  \E o \in out : o.id = id
  <2>1. toClient[k] \in Packet /\ toClient[k] \notin DownLost(out)
    BY <1>3 DEF Down, Tokens, None
  <2>2. DownOK(toClient[k], out)
    BY <2>1 DEF DownLost
  <2>. QED
    BY <1>3, <2>2 DEF DownOK, Down
<1>4. ASSUME NEW k \in 1 .. Len(toBroker), toBroker[k] \in Up(id)
      PROVE  \E o \in out : o.id = id
  <2>1. toBroker[k] \in Packet /\ toBroker[k] \notin UpLost(out)
    BY <1>4 DEF Up, Tokens, None
  <2>2. UpOK(toBroker[k], out)
    BY <2>1 DEF UpLost
  <2>. QED
    BY <1>4, <2>2 DEF UpOK, Up
<1>. QED
  BY <1>2, <1>3, <1>4 DEF None

\* A session that is taken up again begins with one packet of each message.
LEMMA TokensConnect ==
  ASSUME Types, Greeted, Tokens, Items, link = "up", toBroker # <<>>, BrokerConnect
  PROVE  Tokens'
<1>0. toBroker \in Seq(Packet) /\ toClient \in Seq(Packet) /\ out \subseteq Item
  BY DEF Types, LinkTypes, BrokerTypes
<1>1. CASE accepted'
  <2>1. PICK order \in Orders(out'), a \in Seq(Packet), b \in Seq(Packet) :
           /\ a = [i \in DOMAIN order |-> Again(order[i])]
           /\ b = <<Connack(0)>> \o a /\ toClient' = toClient \o b
           /\ \A S : (S \subseteq Packet => None(toClient, S))
           /\ \A S : (Connack(0) \notin S /\ None(a, S) => None(b, S))
           /\ \A S : (Connack(0) \notin S /\ Once(a, S) => Once(b, S))
           /\ out' \subseteq Item /\ IsFiniteSet(out')
    BY <1>1, AcceptedFacts
  <2>2. /\ ~accepted /\ accepted' = TRUE /\ toBroker' = Tail(toBroker)
        /\ out' = IF Head(toBroker).val = 1 \/ temporary THEN {} ELSE out
    BY <1>1, ConnectAccepted
  <2>3. out' \subseteq out
    BY <2>2
  <2>4. PICK kept : kept = out'
    OBVIOUS
  <2>5. /\ \A k \in 1 .. Len(a) :
             /\ order[k] \in kept
             /\ a[k].id = order[k].id
             /\ a[k].type = "PUBREL" => order[k].released
             /\ a[k].type = "PUBLISH" => /\ ~order[k].released /\ a[k].val = order[k].qos
                                         /\ a[k].msg = order[k].msg
        /\ \A j, k \in 1 .. Len(a) : order[j] = order[k] => j = k
    <3>1. kept \subseteq Item /\ IsFiniteSet(kept) /\ order \in Orders(kept)
      BY <2>1, <2>4
    <3>2. a = [i \in DOMAIN order |-> Again(order[i])]
      BY <2>1
    <3>. QED
      BY <3>1, <3>2, AgainFacts, SMTT(60)
  <2>6. Connack(0) \in Silent
    BY ConnackType DEF Silent
  <2>7. ASSUME NEW id \in BrokerIds
        PROVE  Once(toClient', Down(id))
    <3>1. Once(a, Down(id))
      <4>1. ASSUME NEW j \in 1 .. Len(a), NEW k \in 1 .. Len(a),
                   a[j] \in Down(id), a[k] \in Down(id)
            PROVE  j = k
        <5>1. order[j] \in out /\ order[k] \in out /\ order[j].id = id /\ order[k].id = id
          BY <4>1, <2>3, <2>4, <2>5 DEF Down
        <5>2. order[j] = order[k]
          BY <5>1 DEF Items
        <5>. QED
          BY <5>2, <2>5
      <4>. QED
        BY <4>1 DEF Once
    <3>2. Connack(0) \notin Down(id) /\ Down(id) \subseteq Packet
      BY <2>6, Kinds DEF Down
    <3>3. Once(b, Down(id)) /\ None(toClient, Down(id))
      BY <2>1, <3>1, <3>2
    <3>. QED
      BY <1>0, <2>1, <3>3, OfNone, JoinOnce
  <2>8. None(toClient', DownLost(out'))
    <3>. DEFINE S == DownLost(kept)
    <3>1. None(a, S)
      <4>1. \A k \in 1 .. Len(a) : DownOK(a[k], kept)
        BY <2>5 DEF DownOK
      <4>. QED
        BY <4>1 DEF None, DownLost
    <3>2. Connack(0) \notin S /\ S \subseteq Packet
      BY <2>6, Kinds DEF DownLost
    <3>. HIDE DEF S
    <3>3. None(b, S) /\ None(toClient, S)
      BY <2>1, <3>1, <3>2
    <3>4. None(toClient', S)
      BY <1>0, <2>1, <3>3, JoinNone
    <3>. QED
      BY <2>4, <3>4 DEF S
  <2>9. \A id : None(toBroker, Up(id))
    <3>1. \A id \in BrokerIds : None(toBroker, Up(id))
      BY <2>2 DEF Tokens, Token
    <3>. QED
      BY <3>1, TokenHasItem
  <2>10. ASSUME NEW id \in BrokerIds
         PROVE  None(toBroker', Up(id))
    BY <1>0, <2>2, <2>9, TailNone
  <2>11. None(toBroker', UpLost(out'))
    <3>1. \A k \in 1 .. Len(toBroker) : toBroker[k].type \notin {"PUBACK", "PUBREC", "PUBCOMP"}
      <4>1. ASSUME NEW k \in 1 .. Len(toBroker),
                   toBroker[k].type \in {"PUBACK", "PUBREC", "PUBCOMP"}
            PROVE  FALSE
        <5>1. toBroker[k] \in Packet
          BY <1>0
        <5>2. toBroker[k] \in Up(toBroker[k].id)
          BY <4>1, <5>1 DEF Up
        <5>. QED
          BY <5>2, <2>9 DEF None
      <4>. QED
        BY <4>1
    <3>2. None(toBroker, UpLost(kept))
      BY <3>1 DEF None, UpLost, UpOK
    <3>. QED
      BY <1>0, <2>2, <2>4, <3>2, TailNone
  <2>12. ASSUME NEW id \in BrokerIds
         PROVE  Token(id)'
    <3>1. toBroker' \in Seq(Packet) /\ None(toBroker', Up(id))
      BY <1>0, <2>2, <2>10, QueueTail
    <3>2. Once(toBroker', Up(id))
      BY <3>1, OfNone
    <3>. QED
      BY <2>2, <2>7, <3>1, <3>2 DEF Token
  <2>. QED
    BY <2>8, <2>11, <2>12 DEF Tokens
<1>2. CASE ~accepted'
  <2>1. /\ ~accepted /\ toClient' = toClient \o <<Connack(5)>> /\ toBroker' = <<>>
        /\ UNCHANGED <<accepted, out>>
    BY <1>2, ConnectRefused
  <2>2. Connack(5) \in Packet /\ Connack(5) \in Silent
    BY ConnackType DEF Silent
  <2>3. <<Connack(5)>> \in Seq(Packet) /\ None(<<Connack(5)>>, DownLost(out))
    BY <2>2, Kinds, Single
  <2>4. None(toClient', DownLost(out))
    BY <1>0, <2>1, <2>3, JoinNone DEF Tokens
  <2>5. ASSUME NEW id \in BrokerIds
        PROVE  Token(id)'
    <3>1. None(toClient, Down(id)) /\ None(<<Connack(5)>>, Down(id))
      BY <2>1, <2>2, Kinds, Single DEF Tokens, Token
    <3>2. None(toClient', Down(id)) /\ toClient' \in Seq(Packet)
      BY <1>0, <2>1, <2>3, <3>1, JoinNone, QueueJoin
    <3>3. Once(toClient', Down(id))
      BY <3>2, OfNone
    <3>. QED
      BY <2>1, <3>2, <3>3, EmptyQueue DEF Token
  <2>. QED
    BY <2>1, <2>4, <2>5, EmptyQueue DEF Tokens
<1>. QED
  BY <1>1, <1>2

\* The broker sends a new message.
LEMMA TokensPublish ==
  ASSUME Types, Tokens, BrokerPublish
  PROVE  Tokens'
<1>0. toBroker \in Seq(Packet) /\ toClient \in Seq(Packet) /\ out \subseteq Item /\ npubs \in Nat
  BY DEF Types, LinkTypes, BrokerTypes
<1>1. accepted /\ UNCHANGED <<toBroker, accepted>>
  BY BrokerPublishFacts
<1>2. PICK q \in 0 .. 2, i \in BrokerIds, r \in Packet :
        /\ \A m \in out : m.id # i
        /\ r.type = "PUBLISH" /\ r.id = i /\ r.val = q /\ r.msg = npubs + 1
        /\ toClient' = toClient \o <<r>>
        /\ out' = IF q = 0 THEN out
                  ELSE out \cup {[id |-> i, qos |-> q, msg |-> npubs + 1, released |-> FALSE]}
  BY BrokerPublishFacts
<1>. DEFINE new == [id |-> i, qos |-> q, msg |-> npubs + 1, released |-> FALSE]
<1>3. new.id = i /\ new.qos = q /\ new.msg = npubs + 1 /\ ~new.released
  OBVIOUS
<1>4. out \subseteq out' /\ (q # 0 => new \in out')
  BY <1>2
<1>. HIDE DEF new
<1>5. DownOK(r, out')
  BY <1>2, <1>3, <1>4 DEF DownOK
<1>6. <<r>> \in Seq(Packet) /\ \A S : Once(<<r>>, S)
  BY Single
<1>7. None(toClient', DownLost(out'))
  <2>1. None(<<r>>, DownLost(out'))
    BY <1>5, Single DEF DownLost
  <2>2. DownLost(out') \subseteq DownLost(out)
    BY <1>4 DEF DownLost, DownOK
  <2>3. None(toClient, DownLost(out'))
    BY <1>0, <2>2, SubNone DEF Tokens
  <2>. QED
    BY <1>0, <1>2, <1>6, <2>1, <2>3, JoinNone
<1>8. None(toBroker', UpLost(out'))
  <2>1. UpLost(out') \subseteq UpLost(out)
    BY <1>4 DEF UpLost, UpOK
  <2>. QED
    BY <1>0, <1>1, <2>1, SubNone DEF Tokens
<1>9. ASSUME NEW id \in BrokerIds
      PROVE  Token(id)'
  <2>1. CASE id = i
    <3>1. None(toClient, Down(id)) /\ None(toBroker, Up(id))
      BY <1>2, <2>1, TokenHasItem
    <3>2. Once(toClient', Down(id))
      BY <1>0, <1>2, <1>6, <3>1, OfNone, JoinOnce
    <3>3. Once(toBroker, Up(id))
      BY <1>0, <3>1, OfNone
    <3>. QED
      BY <1>1, <3>1, <3>2, <3>3 DEF Token
  <2>2. CASE id # i
    <3>1. r \notin Down(id)
      BY <1>2, <2>2 DEF Down
    <3>2. None(<<r>>, Down(id)) /\ Token(id)
      BY <3>1, Single DEF Tokens
    <3>3. /\ Once(toClient', Down(id))
          /\ None(toClient, Down(id)) => None(toClient', Down(id))
      BY <1>0, <1>2, <1>6, <3>2, JoinOnce, JoinNone DEF Token
    <3>. QED
      BY <1>1, <3>2, <3>3 DEF Token
  <2>. QED
    BY <2>1, <2>2
<1>. QED
  BY <1>7, <1>8, <1>9 DEF Tokens

\* The packet at the head of the queue to the broker, when it acknowledges a
\* message, is the only one that carries its message on.
LEMMA AcknowledgedItem ==
  ASSUME Types, Tokens, Items, toBroker # <<>>, BrokerAcknowledged
  PROVE  LET p == Head(toBroker)
         IN /\ p \in Packet /\ p.id \in BrokerIds /\ UpOK(p, out)
            /\ None(toClient, Down(p.id)) /\ None(Tail(toBroker), Up(p.id))
            /\ \E o \in out : /\ o.id = p.id /\ {m \in out : m.id = p.id} = {o}
                              /\ p.type = "PUBREC" => o.qos = 2 /\ ~o.released
<1>. DEFINE p == Head(toBroker)
            of == {m \in out : m.id = p.id}
<1>0. toBroker \in Seq(Packet) /\ out \subseteq Item
  BY DEF Types, LinkTypes, BrokerTypes
<1>1. p \in Packet /\ p.type \in {"PUBACK", "PUBREC", "PUBCOMP"}
  BY <1>0, AcknowledgedFacts, QueueTail
<1>2. p \in Up(p.id)
  BY <1>1 DEF Up
<1>3. UpOK(p, out)
  <2>1. p \notin UpLost(out)
    BY <1>0, HeadNone DEF Tokens
  <2>. QED
    BY <1>1, <2>1 DEF UpLost
<1>4. PICK o \in out : o.id = p.id /\ (p.type = "PUBREC" => o.qos = 2 /\ ~o.released)
  BY <1>1, <1>3 DEF UpOK
<1>5. p.id \in BrokerIds
  BY <1>0, <1>4 DEF Item
<1>6. of = {o}
  BY <1>4 DEF Items
<1>7. ~None(toBroker, Up(p.id))
  BY <1>0, <1>2, HeadNone
<1>8. None(toClient, Down(p.id)) /\ Once(toBroker, Up(p.id))
  BY <1>5, <1>7 DEF Tokens, Token
<1>9. None(Tail(toBroker), Up(p.id))
  BY <1>0, <1>2, <1>8, TailOnce
<1>. QED
  BY <1>1, <1>3, <1>4, <1>5, <1>6, <1>8, <1>9

LEMMA TokensAcknowledged ==
  ASSUME Types, Tokens, Items, toBroker # <<>>, BrokerAcknowledged
  PROVE  Tokens'
<1>. DEFINE p == Head(toBroker)
            of == {m \in out : m.id = p.id}
            new == {[m EXCEPT !.released = TRUE] : m \in of}
<1>0. toBroker \in Seq(Packet) /\ toClient \in Seq(Packet) /\ out \subseteq Item
  BY DEF Types, LinkTypes, BrokerTypes
<1>1. /\ accepted /\ UNCHANGED accepted /\ toBroker' = Tail(toBroker)
      /\ p.type # "PUBREC" => toClient' = toClient /\ out' = out \ of
      /\ p.type = "PUBREC" =>
           /\ out' = (out \ of) \cup new
           /\ \E r \in Packet : toClient' = toClient \o <<r>> /\ r.id = p.id /\ r.type = "PUBREL"
  BY AcknowledgedFacts
<1>2. /\ p \in Packet /\ p.id \in BrokerIds
      /\ None(toClient, Down(p.id)) /\ None(Tail(toBroker), Up(p.id))
  BY AcknowledgedItem
<1>3. PICK o \in out : o.id = p.id
  BY AcknowledgedItem
<1>4. \A m \in out : m.id # p.id => m \in out'
  BY <1>1
<1>5. p.type = "PUBREC" => \E m \in out' : m.id = p.id /\ m.released
  <2>1. o \in of /\ o \in Item
    BY <1>0, <1>3
  <2>2. [o EXCEPT !.released = TRUE] \in new
    BY <2>1
  <2>3. [o EXCEPT !.released = TRUE].id = o.id /\ [o EXCEPT !.released = TRUE].released
    BY <2>1 DEF Item
  <2>. HIDE DEF of, new
  <2>. QED
    BY <1>1, <1>3, <2>2, <2>3
<1>. HIDE DEF of, new, p
<1>6. None(toClient, DownLost(out'))
  <2>1. ASSUME NEW k \in 1 .. Len(toClient)
        PROVE  DownOK(toClient[k], out')
    <3>1. toClient[k] \in Packet
      BY <1>0
    <3>2. PICK x \in Packet : x = toClient[k]
      BY <3>1
    <3>3. DownOK(x, out) /\ x \notin Down(p.id)
      BY <1>2, <3>2 DEF Tokens, None, DownLost
    <3>4. x.type = "PUBREL" \/ (x.type = "PUBLISH" /\ x.val > 0) => x.id # p.id
      BY <3>3 DEF Down
    <3>5. DownOK(x, out')
      BY <1>4, <3>3, <3>4 DEF DownOK
    <3>. QED
      BY <3>2, <3>5
  <2>. QED
    BY <2>1 DEF None, DownLost
<1>7. None(toBroker', UpLost(out'))
  <2>0. toBroker' \in Seq(Packet)
    BY <1>0, <1>1, QueueTail
  <2>1. ASSUME NEW k \in 1 .. Len(toBroker')
        PROVE  UpOK(toBroker'[k], out')
    <3>1. toBroker'[k] \in Packet
      BY <2>0
    <3>2. PICK x \in Packet : x = toBroker'[k]
      BY <3>1
    <3>6. None(toBroker', UpLost(out))
      BY <1>0, <1>1, TailNone DEF Tokens
    <3>3. UpOK(x, out) /\ x \notin Up(p.id)
      BY <1>1, <1>2, <3>2, <3>6 DEF None, UpLost
    <3>4. x.type \in {"PUBACK", "PUBREC", "PUBCOMP"} => x.id # p.id
      BY <3>3 DEF Up
    <3>5. UpOK(x, out')
      BY <1>4, <3>3, <3>4 DEF UpOK
    <3>. QED
      BY <3>2, <3>5
  <2>. QED
    BY <2>1 DEF None, UpLost
<1>8. ASSUME NEW id \in BrokerIds
      PROVE  /\ Token(id) /\ Once(toBroker', Up(id))
             /\ None(toBroker, Up(id)) => None(toBroker', Up(id))
             /\ id = p.id => None(toBroker', Up(id))
  BY <1>0, <1>1, <1>2, TailOnce, TailNone DEF Tokens, Token
<1>9. CASE p.type # "PUBREC"
  <2>1. toClient' = toClient
    BY <1>1, <1>9
  <2>2. ASSUME NEW id \in BrokerIds
        PROVE  Token(id)'
    BY <1>1, <1>8, <2>1 DEF Token
  <2>. QED
    BY <1>6, <1>7, <2>1, <2>2 DEF Tokens
<1>10. CASE p.type = "PUBREC"
  <2>1. PICK r \in Packet : toClient' = toClient \o <<r>> /\ r.id = p.id /\ r.type = "PUBREL"
    BY <1>1, <1>10
  <2>2. <<r>> \in Seq(Packet) /\ \A S : (Once(<<r>>, S) /\ (r \notin S => None(<<r>>, S)))
    BY Single
  <2>3. DownOK(r, out')
    BY <1>5, <1>10, <2>1 DEF DownOK
  <2>4. r \notin DownLost(out')
    BY <2>3 DEF DownLost
  <2>5. None(toClient', DownLost(out'))
    BY <1>0, <1>6, <2>1, <2>2, <2>4, JoinNone
  <2>6. ASSUME NEW id \in BrokerIds
        PROVE  Token(id)'
    <3>1. CASE id = p.id
      <4>1. Once(toClient', Down(id))
        BY <1>0, <1>2, <2>1, <2>2, <3>1, OfNone, JoinOnce
      <4>. QED
        BY <1>1, <1>8, <3>1, <4>1 DEF Token
    <3>2. CASE id # p.id
      <4>1. r \notin Down(id)
        BY <2>1, <3>2 DEF Down
      <4>2. /\ Once(toClient', Down(id))
            /\ None(toClient, Down(id)) => None(toClient', Down(id))
        BY <1>0, <1>8, <2>1, <2>2, <4>1, JoinOnce, JoinNone DEF Token
      <4>. QED
        BY <1>1, <1>8, <4>2 DEF Token
    <3>. QED
      BY <3>1, <3>2
  <2>. QED
    BY <1>7, <2>5, <2>6 DEF Tokens
<1>. QED
  BY <1>9, <1>10

\* The client answers the packet that carries a message on, and no other, with
\* an acknowledgement.
LEMMA ReplyUp ==
  ASSUME NEW p \in Packet, NEW items, DownOK(p, items)
  PROVE  /\ None(Replies(p), UpLost(items))
         /\ \A id : (p \notin Down(id) => None(Replies(p), Up(id)))
         /\ \A S : Once(Replies(p), S)
<1>1. CASE Replies(p) = <<>>
  BY <1>1, EmptyQueue
<1>2. ASSUME NEW r \in Packet, Replies(p) = <<r>>, r.id = p.id,
             \/ p.type = "PUBLISH" /\ p.val = 1 /\ r.type = "PUBACK"
             \/ p.type = "PUBLISH" /\ p.val = 2 /\ r.type = "PUBREC"
             \/ p.type = "PUBREC" /\ r.type = "PUBREL"
             \/ p.type = "PUBREL" /\ r.type = "PUBCOMP"
      PROVE  /\ None(Replies(p), UpLost(items))
             /\ \A id : (p \notin Down(id) => None(Replies(p), Up(id)))
             /\ \A S : Once(Replies(p), S)
  <2>1. \A S : (Once(<<r>>, S) /\ (r \notin S => None(<<r>>, S)))
    BY Single
  <2>2. UpOK(r, items)
    BY <1>2 DEF UpOK, DownOK
  <2>3. r \notin UpLost(items)
    BY <2>2 DEF UpLost
  <2>4. \A id : (p \notin Down(id) => r \notin Up(id))
    BY <1>2 DEF Down, Up
  <2>. QED
    BY <1>2, <2>1, <2>3, <2>4
<1>. QED
  BY <1>1, <1>2, ReplyType

LEMMA TokensCycle ==
  ASSUME Types, Tokens, Cycle
  PROVE  Tokens'
<1>. DEFINE p == Head(toClient)
<1>0. toBroker \in Seq(Packet) /\ toClient \in Seq(Packet)
  BY DEF Types, LinkTypes
<1>1. /\ toClient # <<>> /\ p \in Packet /\ toClient' = Tail(toClient)
      /\ UNCHANGED <<link, brokerVars>>
  BY CycleFacts
<1>2. UNCHANGED <<accepted, out>>
  BY <1>1 DEF brokerVars
<1>3. PICK b \in Seq(Packet) :
        /\ toBroker' = toBroker \/ toBroker' = toBroker \o (Replies(p) \o b)
        /\ None(b, Control)
  BY CycleFacts
<1>4. Replies(p) \in Seq(Packet)
  BY <1>1, ReplyType
<1>5. DownOK(p, out)
  <2>1. p \notin DownLost(out)
    BY <1>0, <1>1, HeadNone DEF Tokens
  <2>. QED
    BY <1>1, <2>1 DEF DownLost
<1>. HIDE DEF p
<1>6. /\ None(Replies(p), UpLost(out))
      /\ \A id : (p \notin Down(id) => None(Replies(p), Up(id)))
      /\ \A S : Once(Replies(p), S)
  BY <1>1, <1>5, ReplyUp
<1>7. ASSUME NEW S, S \subseteq Control, Once(toBroker, S)
      PROVE  /\ None(toBroker, S) => Once(toBroker', S)
             /\ None(Replies(p), S) => Once(toBroker', S)
             /\ None(Replies(p), S) /\ None(toBroker, S) => None(toBroker', S)
  <2>. DEFINE c == Replies(p) \o b
  <2>1. None(b, S)
    BY <1>3, <1>7, SubNone
  <2>2. c \in Seq(Packet) /\ Once(c, S) /\ (None(Replies(p), S) => None(c, S))
    BY <1>4, <1>6, <2>1, OfNone, JoinOnce, JoinNone, QueueJoin
  <2>3. toBroker' = toBroker \/ toBroker' = toBroker \o c
    BY <1>3
  <2>. HIDE DEF c
  <2>. QED
    BY <1>0, <1>7, <2>2, <2>3, JoinOnce, JoinNone
<1>8. None(toBroker', UpLost(out'))
  <2>1. UpLost(out) \subseteq Control /\ None(toBroker, UpLost(out))
    BY Kinds DEF Tokens
  <2>2. Once(toBroker, UpLost(out))
    BY <1>0, <2>1, OfNone
  <2>. QED
    BY <1>2, <1>6, <1>7, <2>1, <2>2
<1>9. None(toClient', DownLost(out'))
  BY <1>0, <1>1, <1>2, TailNone DEF Tokens
<1>10. ASSUME NEW id \in BrokerIds
       PROVE  Token(id)'
  <2>1. Token(id) /\ Up(id) \subseteq Control
    BY Kinds DEF Tokens
  <2>2. /\ Once(toClient', Down(id))
        /\ None(toClient, Down(id)) => None(toClient', Down(id))
        /\ p \in Down(id) => None(toClient', Down(id)) /\ ~None(toClient, Down(id))
    BY <1>0, <1>1, <2>1, TailOnce, TailNone, HeadNone DEF Token, p
  <2>3. CASE p \in Down(id)
    <3>1. None(toBroker, Up(id)) /\ accepted /\ Once(toBroker, Up(id))
      BY <2>1, <2>2, <2>3 DEF Token
    <3>2. Once(toBroker', Up(id))
      BY <1>7, <2>1, <3>1
    <3>. QED
      BY <1>2, <2>2, <2>3, <3>1, <3>2 DEF Token
  <2>4. CASE p \notin Down(id)
    <3>1. None(Replies(p), Up(id)) /\ Once(toBroker, Up(id))
      BY <1>6, <2>1, <2>4 DEF Token
    <3>2. Once(toBroker', Up(id)) /\ (None(toBroker, Up(id)) => None(toBroker', Up(id)))
      BY <1>7, <2>1, <3>1
    <3>. QED
      BY <1>2, <2>1, <2>2, <3>2 DEF Token
  <2>. QED
    BY <2>3, <2>4
<1>. QED
  BY <1>8, <1>9, <1>10 DEF Tokens

LEMMA TokensStep ==
  ASSUME Types, Greeted, Tokens, Items, [Next]_vars
  PROVE  Tokens'
<1>1. ASSUME link = "up", toBroker # <<>>, BrokerConnect
      PROVE  Tokens'
  BY <1>1, TokensConnect
<1>2. ASSUME toBroker # <<>>, BrokerPublished
      PROVE  Tokens'
  <2>1. /\ UNCHANGED <<accepted, out>> /\ toBroker' = Tail(toBroker)
        /\ \/ toClient' = toClient
           \/ \E r \in Packet : toClient' = toClient \o <<r>> /\ r.type \in {"PUBACK", "PUBREC"}
    BY <1>2, PublishedFacts
  <2>2. toClient' = toClient \/ \E r \in Silent : toClient' = toClient \o <<r>>
    BY <2>1 DEF Silent
  <2>. QED
    BY <1>2, <2>1, <2>2, TokensPass
<1>3. ASSUME toBroker # <<>>, BrokerAcknowledged
      PROVE  Tokens'
  BY <1>3, TokensAcknowledged
<1>4. ASSUME toBroker # <<>>, BrokerRequest
      PROVE  Tokens'
  <2>1. /\ UNCHANGED <<accepted, out>> /\ toBroker' = Tail(toBroker)
        /\ \E r \in Packet : /\ toClient' = toClient \o <<r>>
                             /\ r.type \in {"PUBCOMP", "SUBACK", "UNSUBACK", "PINGRESP"}
    BY <1>4, BrokerRequestFacts
  <2>2. \E r \in Silent : toClient' = toClient \o <<r>>
    BY <2>1 DEF Silent
  <2>. QED
    BY <1>4, <2>1, <2>2, TokensPass
<1>5. ASSUME BrokerCloses
      PROVE  Tokens'
  <2>1. toBroker' = <<>> /\ UNCHANGED <<toClient, accepted, out>>
    BY <1>5 DEF BrokerCloses, Close
  <2>. QED
    BY <2>1, EmptyQueue DEF Tokens, Token
<1>6. ASSUME BrokerPublish
      PROVE  Tokens'
  BY <1>6, TokensPublish
<1>7. ASSUME Reset
      PROVE  Tokens'
  BY <1>7, TokensEmpty DEF Reset
<1>8. ASSUME NetworkConnect
      PROVE  Tokens'
  BY <1>8, TokensEmpty DEF NetworkConnect
<1>9. ASSUME Calls
      PROVE  Tokens'
  <2>1. PICK b \in Seq(Packet) : Sends(b)
    BY <1>9, CallsSend
  <2>2. UNCHANGED <<toClient, accepted, out>>
    BY <1>9, CallsSend DEF brokerVars
  <2>. QED
    BY <2>1, <2>2, TokensSend DEF Sends
<1>10. ASSUME Cycle
       PROVE  Tokens'
  BY <1>10, TokensCycle
<1>11. ASSUME UNCHANGED vars
       PROVE  Tokens'
  BY <1>11 DEF vars, brokerVars, Tokens, Token
<1>. QED
  BY <1>1, <1>2, <1>3, <1>4, <1>5, <1>6, <1>7, <1>8, <1>9, <1>10, <1>11
     DEF Next, BrokerStep, Reconnect, BrokerNext, Calls

\* What a step does to the unfinished messages of the session.
LEMMA OutStep ==
  ASSUME Types, Greeted, Tokens, Items, [Next]_vars
  PROVE  \/ out' \subseteq out /\ npubs' = npubs /\ taken' = taken
         \/ /\ toBroker # <<>> /\ BrokerAcknowledged /\ npubs' = npubs
            /\ Head(toBroker).type = "PUBREC"
         \/ BrokerPublish /\ taken' = taken
<1>1. ASSUME link = "up", toBroker # <<>>, BrokerConnect
      PROVE  out' \subseteq out /\ npubs' = npubs /\ taken' = taken
  BY <1>1, ConnectAccepted, ConnectRefused
<1>2. ASSUME toBroker # <<>>, BrokerPublished
      PROVE  out' \subseteq out /\ npubs' = npubs /\ taken' = taken
  BY <1>2, PublishedFacts
<1>3. ASSUME toBroker # <<>>, BrokerAcknowledged, Head(toBroker).type # "PUBREC"
      PROVE  out' \subseteq out /\ npubs' = npubs /\ taken' = taken
  BY <1>3, AcknowledgedFacts
<1>4. ASSUME toBroker # <<>>, BrokerAcknowledged
      PROVE  npubs' = npubs
  BY <1>4, AcknowledgedFacts
<1>5. ASSUME toBroker # <<>>, BrokerRequest
      PROVE  out' \subseteq out /\ npubs' = npubs /\ taken' = taken
  BY <1>5, BrokerRequestFacts
<1>6. ASSUME BrokerPublish
      PROVE  taken' = taken
  BY <1>6, BrokerPublishFacts
<1>7. ASSUME BrokerCloses \/ Reset \/ NetworkConnect
      PROVE  out' \subseteq out /\ npubs' = npubs /\ taken' = taken
  BY <1>7 DEF BrokerCloses, Reset, NetworkConnect
<1>8. ASSUME Calls \/ Cycle \/ UNCHANGED vars
      PROVE  out' \subseteq out /\ npubs' = npubs /\ taken' = taken
  BY <1>8, CallsSend, CycleFacts DEF brokerVars, vars
<1>. QED
  BY <1>1, <1>2, <1>3, <1>4, <1>5, <1>6, <1>7, <1>8
     DEF Next, BrokerStep, Reconnect, BrokerNext, Calls

\* PUBREC releases the one message with its identifier.
LEMMA ReleasedFacts ==
  ASSUME Types, Tokens, Items, toBroker # <<>>, BrokerAcknowledged, Head(toBroker).type = "PUBREC"
  PROVE  \E o \in out, n \in Item :
           /\ o.id = Head(toBroker).id /\ o.qos = 2 /\ ~o.released
           /\ n.id = o.id /\ n.qos = 2 /\ n.msg = o.msg /\ n.released
           /\ out' = (out \ {o}) \cup {n}
           /\ taken' = taken \cup {o.msg}
<1>. DEFINE p == Head(toBroker)
            of == {m \in out : m.id = p.id}
<1>1. PICK o \in out : o.id = p.id /\ of = {o} /\ o.qos = 2 /\ ~o.released
  BY AcknowledgedItem
<1>2. /\ out' = (out \ of) \cup {[m EXCEPT !.released = TRUE] : m \in of}
      /\ taken' = taken \cup {m.msg : m \in of}
  BY AcknowledgedFacts
<1>3. o \in Item
  BY DEF Types, BrokerTypes
<1>. DEFINE n == [o EXCEPT !.released = TRUE]
<1>4. n \in Item /\ n.id = o.id /\ n.qos = o.qos /\ n.msg = o.msg /\ n.released
  BY <1>3 DEF Item
<1>. HIDE DEF of
<1>5. {[m EXCEPT !.released = TRUE] : m \in of} = {n} /\ {m.msg : m \in of} = {o.msg}
  BY <1>1
<1>. HIDE DEF n
<1>. QED
  BY <1>1, <1>2, <1>4, <1>5

LEMMA ItemsStep ==
  ASSUME Types, Greeted, Tokens, Items, [Next]_vars
  PROVE  Items'
<1>0. out \subseteq Item /\ npubs \in Nat
  BY DEF Types, BrokerTypes
<1>1. CASE out' \subseteq out /\ npubs' = npubs
  BY <1>1 DEF Items
<1>2. CASE /\ toBroker # <<>> /\ BrokerAcknowledged /\ npubs' = npubs
           /\ Head(toBroker).type = "PUBREC"
  <2>1. PICK o \in out, n \in Item :
           /\ n.id = o.id /\ n.qos = 2 /\ n.msg = o.msg
           /\ out' = (out \ {o}) \cup {n}
    BY <1>2, ReleasedFacts
  <2>2. ASSUME NEW x \in out', NEW y \in out', x.id = y.id \/ x.msg = y.msg
        PROVE  x = y
    <3>1. CASE x = n
      BY <2>1, <2>2, <3>1 DEF Items
    <3>2. CASE y = n
      BY <2>1, <2>2, <3>2 DEF Items
    <3>3. CASE x # n /\ y # n
      BY <2>1, <2>2, <3>3 DEF Items
    <3>. QED
      BY <3>1, <3>2, <3>3
  <2>3. \A x \in out' : x.msg <= npubs /\ (x.released => x.qos = 2)
    BY <2>1 DEF Items
  <2>. QED
    BY <1>2, <2>2, <2>3 DEF Items
<1>3. CASE BrokerPublish
  <2>0. npubs' = npubs + 1
    BY <1>3, BrokerPublishFacts
  <2>1. PICK q \in 0 .. 2, i \in BrokerIds :
          /\ \A m \in out : m.id # i
          /\ out' = IF q = 0 THEN out
                    ELSE out \cup {[id |-> i, qos |-> q, msg |-> npubs + 1, released |-> FALSE]}
    BY <1>3, BrokerPublishFacts
  <2>. DEFINE n == [id |-> i, qos |-> q, msg |-> npubs + 1, released |-> FALSE]
  <2>2. n.id = i /\ n.msg = npubs + 1 /\ ~n.released
    OBVIOUS
  <2>3. out' \subseteq out \cup {n}
    BY <2>1
  <2>. HIDE DEF n
  <2>4. \A m \in out : m.msg \in Nat /\ m.msg <= npubs
    BY <1>0 DEF Items, Item
  <2>5. \A m \in out : m.msg # npubs + 1 /\ m.msg <= npubs + 1
    BY <1>0, <2>4
  <2>6. \A x, y \in out' : x.id = y.id \/ x.msg = y.msg => x = y
    BY <2>1, <2>2, <2>3, <2>5 DEF Items
  <2>7. \A x \in out' : x.msg <= npubs + 1 /\ (x.released => x.qos = 2)
    <3>1. npubs + 1 <= npubs + 1
      BY <1>0
    <3>. QED
      BY <2>2, <2>3, <2>5, <3>1 DEF Items
  <2>. QED
    BY <2>0, <2>6, <2>7 DEF Items
<1>. QED
  BY <1>1, <1>2, <1>3, OutStep

LEMMA ClientRests ==
  ASSUME Types, [Next]_vars, ~Cycle
  PROVE  UNCHANGED <<arrived, incomingQoS2messages, excused>>
<1>1. CASE UNCHANGED clientVars
  BY <1>1 DEF clientVars
<1>2. CASE NetworkConnect
  BY <1>2 DEF NetworkConnect
<1>3. CASE Calls
  BY <1>3, CallsSend
<1>. QED
  BY <1>1, <1>2, <1>3 DEF Next, BrokerStep, Reconnect, vars, Calls

LEMMA RememberedRest ==
  ASSUME Types, Greeted, Tokens, Items, Remembered, [Next]_vars, ~Cycle
  PROVE  Remembered'
<1>0. out \subseteq Item /\ npubs \in Nat /\ arrived \in Seq(Nat \X Nat)
  BY DEF Types, BrokerTypes, ClientTypes
<1>1. arrived' = arrived /\ incomingQoS2messages' = incomingQoS2messages
  BY ClientRests
<1>2. \A m : Arrived(m)' = Arrived(m)
  BY <1>1 DEF Arrived
<1>3. ASSUME npubs' = npubs \/ npubs' = npubs + 1
      PROVE  \A k \in 1 .. Len(arrived) : arrived[k][2] = 2 => arrived[k][1] <= npubs'
  <2>1. ASSUME NEW k \in 1 .. Len(arrived), arrived[k][2] = 2
        PROVE  arrived[k][1] <= npubs'
    <3>1. arrived[k] \in Nat \X Nat
      BY <1>0
    <3>2. arrived[k][1] \in Nat /\ arrived[k][1] <= npubs
      BY <2>1, <3>1 DEF Remembered
    <3>. QED
      BY <1>0, <1>3, <3>2
  <2>. QED
    BY <2>1
<1>4. ASSUME NEW o \in out', o.qos = 2, ~o.released, Arrived(o.msg)
      PROVE  o.id \in incomingQoS2messages
  <2>1. CASE o \in out
    BY <1>4, <2>1 DEF Remembered
  <2>2. CASE o \notin out
    <3>1. ~(out' \subseteq out)
      BY <2>2
    <3>2. ASSUME toBroker # <<>>, BrokerAcknowledged, Head(toBroker).type = "PUBREC"
          PROVE  FALSE
      BY <1>4, <2>2, <3>2, ReleasedFacts
    <3>3. ASSUME BrokerPublish
          PROVE  FALSE
      <4>1. o.msg = npubs + 1
        <5>1. PICK q \in 0 .. 2, i \in BrokerIds :
                out' = IF q = 0 THEN out
                       ELSE out \cup {[id |-> i, qos |-> q, msg |-> npubs + 1, released |-> FALSE]}
          BY <3>3, BrokerPublishFacts
        <5>2. o = [id |-> i, qos |-> q, msg |-> npubs + 1, released |-> FALSE]
          BY <2>2, <5>1
        <5>. QED
          BY <5>2
      <4>2. PICK k \in 1 .. Len(arrived) : arrived[k] = <<npubs + 1, 2>>
        BY <1>4, <4>1 DEF Arrived
      <4>3. arrived[k][1] = npubs + 1 /\ arrived[k][2] = 2
        BY <4>2
      <4>4. npubs + 1 <= npubs
        BY <4>3 DEF Remembered
      <4>. QED
        BY <1>0, <4>4
    <3>. QED
      BY <3>1, <3>2, <3>3, OutStep
  <2>. QED
    BY <2>1, <2>2
<1>5. npubs' = npubs \/ npubs' = npubs + 1
  BY OutStep, BrokerPublishFacts
<1>. QED
  BY <1>1, <1>2, <1>3, <1>4, <1>5 DEF Remembered

\* What cycle delivers, and what it keeps in the table.
LEMMA DeliveryFacts ==
  ASSUME Types, Tokens, Items, Cycle
  PROVE  LET p == Head(toClient)
         IN /\ UNCHANGED <<out, npubs, taken>>
            /\ DownOK(p, out)
            /\ \/ /\ p.type = "PUBLISH" /\ p.val = 2 /\ p.id \notin incomingQoS2messages
                  /\ Delivers(p)
                  /\ arrived' = Append(arrived, <<p.msg, 2>>)
                  /\ incomingQoS2messages' = incomingQoS2messages \cup {p.id}
               \/ /\ ~(Delivers(p) /\ p.val = 2)
                  /\ \/ arrived' = arrived
                     \/ arrived' = Append(arrived, <<p.msg, p.val>>) /\ p.val \in 0 .. 1
                  /\ \/ incomingQoS2messages' = incomingQoS2messages
                     \/ /\ p.type = "PUBREL"
                        /\ incomingQoS2messages' = incomingQoS2messages \ {p.id}
                  /\ (p.type = "PUBREL" => \/ toBroker' = toBroker
                                           \/ incomingQoS2messages' = incomingQoS2messages \ {p.id})
<1>. DEFINE p == Head(toClient)
<1>0. toClient \in Seq(Packet)
  BY DEF Types, LinkTypes
<1>1. /\ toClient # <<>> /\ p \in Packet /\ UNCHANGED brokerVars
      /\ arrived' = IF Delivers(p) THEN Append(arrived, <<p.msg, p.val>>) ELSE arrived
  BY CycleFacts
<1>2. PICK sent \in BOOLEAN :
        /\ incomingQoS2messages' = QoS2Table(p, sent)
        /\ toBroker' = toBroker \/ sent \/ Replies(p) = <<>>
  BY CycleFacts
<1>3. DownOK(p, out)
  <2>1. p \notin DownLost(out)
    BY <1>0, <1>1, HeadNone DEF Tokens
  <2>. QED
    BY <1>1, <2>1 DEF DownLost
<1>4. UNCHANGED <<out, npubs, taken>>
  BY <1>1 DEF brokerVars
<1>5. p.type = "PUBLISH" => p.val \in 0 .. 2
  BY <1>1, PacketFields
<1>. HIDE DEF p
<1>6. CASE Delivers(p) /\ p.val = 2
  <2>1. p.type = "PUBLISH" /\ p.id \notin incomingQoS2messages
    BY <1>6 DEF Delivers, isQoS2msgidFree
  <2>2. incomingQoS2messages' = incomingQoS2messages \cup {p.id}
    BY <1>2, <1>6, <2>1 DEF QoS2Table
  <2>. QED
    BY <1>1, <1>3, <1>4, <1>6, <2>1, <2>2 DEF p
<1>7. CASE ~(Delivers(p) /\ p.val = 2)
  <2>1. /\ \/ incomingQoS2messages' = incomingQoS2messages
           \/ p.type = "PUBREL" /\ incomingQoS2messages' = incomingQoS2messages \ {p.id}
        /\ p.type = "PUBREL" =>
             toBroker' = toBroker \/ incomingQoS2messages' = incomingQoS2messages \ {p.id}
    <3>1. p.type = "PUBREL" => Replies(p) # <<>>
      BY DEF Replies
    <3>. QED
      BY <1>2, <1>7, <3>1 DEF QoS2Table
  <2>2. Delivers(p) => p.val \in 0 .. 1
    <3>1. Delivers(p) => p.type = "PUBLISH"
      BY DEF Delivers
    <3>. QED
      BY <1>5, <1>7, <3>1
  <2>3. \/ arrived' = arrived
        \/ arrived' = Append(arrived, <<p.msg, p.val>>) /\ p.val \in 0 .. 1
    BY <1>1, <2>2
  <2>. QED
    BY <1>3, <1>4, <1>7, <2>1, <2>3 DEF p
<1>. QED
  BY <1>6, <1>7

LEMMA ArrivedAppend ==
  ASSUME Types, NEW e \in Nat \X Nat, arrived' = Append(arrived, e)
  PROVE  /\ Len(arrived) \in Nat /\ Len(arrived') = Len(arrived) + 1
         /\ arrived'[Len(arrived) + 1] = e
         /\ \A k \in 1 .. Len(arrived) : arrived'[k] = arrived[k]
         /\ \A k \in 1 .. Len(arrived') : k \in 1 .. Len(arrived) \/ k = Len(arrived) + 1
<1>1. arrived \in Seq(Nat \X Nat) /\ Len(arrived) \in Nat
  BY DEF Types, ClientTypes
<1>2. Len(arrived') = Len(arrived) + 1 /\ arrived'[Len(arrived) + 1] = e
  BY <1>1
<1>3. \A k \in 1 .. Len(arrived) : arrived'[k] = arrived[k]
  BY <1>1
<1>4. \A k \in 1 .. Len(arrived) + 1 : k \in 1 .. Len(arrived) \/ k = Len(arrived) + 1
  BY <1>1
<1>. QED
  BY <1>1, <1>2, <1>3, <1>4

LEMMA RememberedCycle ==
  ASSUME Types, Tokens, Items, Remembered, Cycle
  PROVE  Remembered'
<1>. DEFINE p == Head(toClient)
            table == incomingQoS2messages
<1>0. /\ toClient \in Seq(Packet) /\ out \subseteq Item /\ npubs \in Nat
      /\ arrived \in Seq(Nat \X Nat)
  BY DEF Types, LinkTypes, BrokerTypes, ClientTypes
<1>1. p \in Packet /\ p.msg \in Nat /\ p.val \in Nat
  BY CycleFacts, PacketFields
<1>2. UNCHANGED <<out, npubs>> /\ DownOK(p, out)
  BY DeliveryFacts
<1>3. CASE /\ p.type = "PUBLISH" /\ p.val = 2 /\ p.id \notin table
           /\ arrived' = Append(arrived, <<p.msg, 2>>)
           /\ table' = table \cup {p.id}
  <2>. DEFINE e == <<p.msg, 2>>
              L == Len(arrived)
  <2>1. e \in Nat \X Nat /\ e[1] = p.msg /\ e[2] = 2
    BY <1>1
  <2>2. PICK u \in out : u.id = p.id /\ u.qos = 2 /\ u.msg = p.msg /\ ~u.released
    BY <1>2, <1>3 DEF DownOK
  <2>3. /\ L \in Nat /\ Len(arrived') = L + 1 /\ arrived'[L + 1] = e
        /\ \A k \in 1 .. L : arrived'[k] = arrived[k]
        /\ \A k \in 1 .. Len(arrived') : k \in 1 .. L \/ k = L + 1
    BY <1>3, <2>1, ArrivedAppend
  <2>4. ASSUME NEW k \in 1 .. L, arrived[k] = e
        PROVE  FALSE
    <3>1. Arrived(u.msg)
      BY <2>2, <2>4 DEF Arrived
    <3>2. u.id \in table
      BY <2>2, <3>1 DEF Remembered
    <3>. QED
      BY <1>3, <2>2, <3>2
  <2>5. ASSUME NEW o \in out, o.qos = 2, ~o.released, Arrived(o.msg)'
        PROVE  o.id \in table'
    <3>1. PICK k \in 1 .. Len(arrived') : arrived'[k] = <<o.msg, 2>>
      BY <1>2, <2>5 DEF Arrived
    <3>2. CASE k \in 1 .. L
      <4>1. Arrived(o.msg)
        BY <2>3, <3>1, <3>2 DEF Arrived
      <4>2. o.id \in table
        BY <2>5, <4>1 DEF Remembered
      <4>. QED
        BY <1>3, <4>2
    <3>3. CASE k = L + 1
      <4>1. <<o.msg, 2>> = <<p.msg, 2>>
        BY <2>3, <3>1, <3>3
      <4>2. o.msg = u.msg
        BY <2>2, <4>1
      <4>3. o = u
        BY <4>2 DEF Items
      <4>. QED
        BY <1>3, <2>2, <4>3
    <3>. QED
      BY <2>3, <3>2, <3>3
  <2>. HIDE DEF e, L, p, table
  <2>6. ASSUME NEW k \in 1 .. Len(arrived'), arrived'[k][2] = 2
        PROVE  arrived'[k][1] <= npubs
    <3>1. u.msg <= npubs
      BY DEF Items
    <3>2. CASE k \in 1 .. L
      BY <2>3, <2>6, <3>2 DEF Remembered, L
    <3>3. CASE k = L + 1
      BY <2>1, <2>2, <2>3, <3>1, <3>3
    <3>. QED
      BY <2>3, <3>2, <3>3
  <2>7. ASSUME NEW j \in 1 .. Len(arrived'), NEW k \in 1 .. Len(arrived'),
               arrived'[j] = arrived'[k], arrived'[j][2] = 2
        PROVE  j = k
    <3>1. CASE j \in 1 .. L /\ k \in 1 .. L
      BY <2>3, <2>7, <3>1 DEF Remembered, L
    <3>2. CASE j \in 1 .. L /\ k = L + 1
      BY <2>3, <2>4, <2>7, <3>2
    <3>3. CASE k \in 1 .. L /\ j = L + 1
      BY <2>3, <2>4, <2>7, <3>3
    <3>4. CASE j = L + 1 /\ k = L + 1
      BY <3>4
    <3>. QED
      BY <2>3, <3>1, <3>2, <3>3, <3>4
  <2>. QED
    BY <1>2, <2>5, <2>6, <2>7 DEF Remembered, table
<1>4. CASE /\ \/ arrived' = arrived
              \/ arrived' = Append(arrived, <<p.msg, p.val>>) /\ p.val \in 0 .. 1
           /\ \/ table' = table
              \/ p.type = "PUBREL" /\ table' = table \ {p.id}
  <2>. DEFINE L == Len(arrived)
  <2>1. /\ L \in Nat /\ Len(arrived') \in Nat
        /\ \A k \in 1 .. L : arrived'[k] = arrived[k]
        /\ \A k \in 1 .. Len(arrived') : arrived'[k][2] = 2 => k \in 1 .. L
    <3>1. CASE arrived' = arrived
      BY <1>0, <3>1
    <3>2. CASE arrived' = Append(arrived, <<p.msg, p.val>>) /\ p.val \in 0 .. 1
      <4>. DEFINE e == <<p.msg, p.val>>
      <4>1. e \in Nat \X Nat /\ e[2] # 2
        BY <1>1, <3>2
      <4>. HIDE DEF e
      <4>2. /\ L \in Nat /\ Len(arrived') = L + 1 /\ arrived'[L + 1] = e
            /\ \A k \in 1 .. L : arrived'[k] = arrived[k]
            /\ \A k \in 1 .. Len(arrived') : k \in 1 .. L \/ k = L + 1
        BY <3>2, <4>1, ArrivedAppend DEF e
      <4>. QED
        BY <4>1, <4>2
    <3>. QED
      BY <1>4, <3>1, <3>2
  <2>2. \A m : Arrived(m)' => Arrived(m)
    <3>1. ASSUME NEW m, NEW k \in 1 .. Len(arrived'), arrived'[k] = <<m, 2>>
          PROVE  Arrived(m)
      <4>1. arrived'[k][2] = 2
        BY <3>1
      <4>2. k \in 1 .. L /\ arrived[k] = <<m, 2>>
        BY <2>1, <3>1, <4>1
      <4>. QED
        BY <4>2 DEF Arrived
    <3>. QED
      BY <3>1 DEF Arrived
  <2>3. ASSUME NEW o \in out, o.qos = 2, ~o.released, Arrived(o.msg)'
        PROVE  o.id \in table'
    <3>1. Arrived(o.msg)
      BY <1>2, <2>2, <2>3
    <3>2. o.id \in table
      BY <2>3, <3>1 DEF Remembered
    <3>3. ASSUME p.type = "PUBREL"
          PROVE  o.id # p.id
      <4>1. PICK u \in out : u.id = p.id /\ u.released
        BY <1>2, <3>3 DEF DownOK
      <4>. QED
        BY <2>3, <4>1 DEF Items
    <3>. QED
      BY <1>4, <3>2, <3>3
  <2>. HIDE DEF L, p, table
  <2>4. \A k \in 1 .. Len(arrived') : arrived'[k][2] = 2 => arrived'[k][1] <= npubs
    BY <2>1 DEF Remembered, L
  <2>5. \A j, k \in 1 .. Len(arrived') :
          arrived'[j] = arrived'[k] /\ arrived'[j][2] = 2 => j = k
    BY <2>1 DEF Remembered, L
  <2>. QED
    BY <1>2, <2>3, <2>4, <2>5 DEF Remembered, table
<1>. QED
  BY <1>3, <1>4, DeliveryFacts

LEMMA TInvStep ==
  ASSUME TInv, [Next]_vars
  PROVE  TInv'
<1>1. Types' /\ Greeted'
  BY TypesStep, GreetedStep DEF TInv
<1>2. Tokens' /\ Items'
  BY TokensStep, ItemsStep DEF TInv
<1>3. Remembered'
  BY RememberedRest, RememberedCycle DEF TInv
<1>. QED
  BY <1>1, <1>2, <1>3 DEF TInv

LEMMA TInvInit ==
  ASSUME Init
  PROVE  TInv
BY TypesInit, GreetedInit, TokensInit DEF TInv

\* deliverMessage is called at most once for a QoS 2 message: whatever the size
\* of the table, the QoS of the messages, the window of the broker, and however
\* often the connection fails and sessions are cleaned.
THEOREM DeliveredOnce == Spec => []AtMostOnce
<1>1. TInv => AtMostOnce
  <2>. SUFFICES ASSUME TInv PROVE AtMostOnce
    OBVIOUS
  <2>1. arrived \in Seq(Nat \X Nat)
    BY DEF TInv, Types, ClientTypes
  <2>2. DOMAIN arrived = 1 .. Len(arrived)
    BY <2>1
  <2>. QED
    BY <2>2 DEF TInv, Remembered, AtMostOnce
<1>2. Init => TInv
  BY TInvInit
<1>3. TInv /\ [Next]_vars => TInv'
  BY TInvStep
<1>. QED
  BY <1>1, <1>2, <1>3, PTL DEF Spec

----------------------------------------------------------------------------
(* The messages that the client has taken.                                 *)

LEMMA NoneRest ==
  ASSUME Types, [Next]_vars, ~Cycle, NEW S, S \subseteq Acknowledgements, None(toBroker, S)
  PROVE  None(toBroker', S)
<1>0. toBroker \in Seq(Packet)
  BY DEF Types, LinkTypes
<1>1. CASE toBroker' = toBroker
  BY <1>1
<1>2. CASE toBroker' = <<>>
  BY <1>2, EmptyQueue
<1>3. CASE toBroker # <<>> /\ toBroker' = Tail(toBroker)
  BY <1>0, <1>3, TailNone
<1>4. CASE Calls
  <2>1. PICK b \in Seq(Packet) : Sends(b)
    BY <1>4, CallsSend
  <2>2. None(b, S)
    BY <2>1 DEF Sends, None
  <2>. QED
    BY <1>0, <2>1, <2>2, JoinNone DEF Sends
<1>5. ASSUME toBroker # <<>>, BrokerConnect
      PROVE  toBroker' = <<>> \/ toBroker' = Tail(toBroker)
  BY <1>5, ConnectAccepted, ConnectRefused
<1>6. ASSUME toBroker # <<>>, BrokerPublished \/ BrokerAcknowledged \/ BrokerRequest
      PROVE  toBroker' = Tail(toBroker)
  BY <1>6, PublishedFacts, AcknowledgedFacts, BrokerRequestFacts
<1>7. ASSUME BrokerPublish \/ UNCHANGED vars
      PROVE  toBroker' = toBroker
  BY <1>7, BrokerPublishFacts DEF vars
<1>8. ASSUME BrokerCloses \/ Reset \/ NetworkConnect
      PROVE  toBroker' = <<>>
  BY <1>8 DEF BrokerCloses, Close, Reset, NetworkConnect
<1>. QED
  BY <1>1, <1>2, <1>3, <1>4, <1>5, <1>6, <1>7, <1>8
     DEF Next, BrokerStep, Reconnect, BrokerNext, Calls

LEMMA NoneCycle ==
  ASSUME Types, Cycle, NEW S, S \subseteq Control, None(toBroker, S),
         toBroker' = toBroker \/ None(Replies(Head(toClient)), S)
  PROVE  None(toBroker', S)
<1>. DEFINE p == Head(toClient)
<1>0. toBroker \in Seq(Packet) /\ p \in Packet
  BY CycleFacts DEF Types, LinkTypes
<1>1. PICK b \in Seq(Packet) :
        /\ toBroker' = toBroker \/ toBroker' = toBroker \o (Replies(p) \o b)
        /\ None(b, Control)
  BY CycleFacts
<1>2. Replies(p) \in Seq(Packet)
  BY <1>0, ReplyType
<1>. HIDE DEF p
<1>3. None(b, S)
  BY <1>1, SubNone
<1>4. CASE toBroker' # toBroker
  <2>. DEFINE c == Replies(p) \o b
  <2>1. c \in Seq(Packet) /\ None(c, S)
    BY <1>2, <1>3, <1>4, QueueJoin, JoinNone DEF p
  <2>2. toBroker' = toBroker \o c
    BY <1>1, <1>4
  <2>. HIDE DEF c
  <2>. QED
    BY <1>0, <2>1, <2>2, JoinNone
<1>5. CASE toBroker' = toBroker
  BY <1>5
<1>. QED
  BY <1>4, <1>5

LEMMA TakenKinds ==
  /\ Leftover \subseteq Control /\ Unheard \subseteq Control
  /\ Leftover \subseteq Acknowledgements /\ Unheard \subseteq Acknowledgements
BY DEF Leftover, Unheard, Control, Acknowledgements

\* A new session leaves every identifier in the table behind.
LEMMA StaleStep ==
  ASSUME Types, [Next]_vars, ~Cycle
  PROVE  \/ stale' = incomingQoS2messages /\ out' = {} /\ taken' = taken
         \/ /\ stale' = stale
            /\ \/ out' = out
               \/ toBroker # <<>> /\ BrokerAcknowledged
               \/ BrokerPublish
<1>1. ASSUME BrokerStep, toBroker # <<>>, BrokerConnect, accepted'
      PROVE  \/ stale' = incomingQoS2messages /\ out' = {} /\ taken' = taken
             \/ stale' = stale /\ out' = out
  <2>1. /\ ~accepted /\ taken' = taken
        /\ out' = IF Head(toBroker).val = 1 \/ temporary THEN {} ELSE out
    BY <1>1, ConnectAccepted
  <2>. QED
    BY <1>1, <2>1 DEF BrokerStep, NewSession
<1>2. ASSUME BrokerStep, toBroker # <<>>, BrokerConnect, ~accepted'
      PROVE  stale' = stale /\ out' = out
  BY <1>2, ConnectRefused DEF BrokerStep, NewSession
<1>3. ASSUME BrokerStep, accepted' = accepted
      PROVE  stale' = stale
  BY <1>3 DEF BrokerStep, NewSession
<1>4. ASSUME toBroker # <<>>, BrokerPublished \/ BrokerRequest
      PROVE  out' = out /\ accepted' = accepted
  BY <1>4, PublishedFacts, BrokerRequestFacts
<1>5. ASSUME toBroker # <<>>, BrokerAcknowledged
      PROVE  accepted' = accepted
  BY <1>5, AcknowledgedFacts
<1>6. ASSUME BrokerPublish
      PROVE  accepted' = accepted
  BY <1>6, BrokerPublishFacts
<1>7. ASSUME BrokerCloses \/ Reset
      PROVE  out' = out /\ accepted' = accepted
  BY <1>7 DEF BrokerCloses, Close, Reset
<1>8. ASSUME NetworkConnect \/ UNCHANGED vars
      PROVE  out' = out /\ stale' = stale
  BY <1>8 DEF NetworkConnect, vars, brokerVars
<1>9. ASSUME Calls
      PROVE  out' = out /\ stale' = stale
  BY <1>9, CallsSend DEF brokerVars
<1>10. ASSUME BrokerStep
       PROVE  \/ stale' = incomingQoS2messages /\ out' = {} /\ taken' = taken
              \/ /\ stale' = stale
                 /\ \/ out' = out
                    \/ toBroker # <<>> /\ BrokerAcknowledged
                    \/ BrokerPublish
  <2>1. BrokerNext
    BY <1>10 DEF BrokerStep
  <2>. QED
    BY <2>1, <1>1, <1>2, <1>3, <1>4, <1>5, <1>6, <1>7, <1>10 DEF BrokerNext
<1>. QED
  BY <1>8, <1>9, <1>10 DEF Next, Reconnect, Calls

\* A step of the broker, or a call of the application.
LEMMA TakenRest ==
  ASSUME TInv, Taken, [Next]_vars, ~Cycle, stale' = stale,
         out' = out \/ (toBroker # <<>> /\ BrokerAcknowledged) \/ BrokerPublish
  PROVE  Taken'
<1>. DEFINE table == Current
<1>. USE DEF TInv
<1>0. toBroker \in Seq(Packet) /\ out \subseteq Item /\ npubs \in Nat
  BY DEF Types, LinkTypes, BrokerTypes
<1>1. /\ arrived' = arrived /\ excused' = excused
      /\ incomingQoS2messages' = incomingQoS2messages /\ table' = table
  BY ClientRests DEF Current
<1>2. /\ \A m : Arrived(m)' = Arrived(m)
      /\ \A m : Heard(m)' = Heard(m)
  BY <1>1 DEF Arrived, Heard
<1>3. stale' \subseteq incomingQoS2messages'
  BY <1>1 DEF Taken
<1>4. Leftover' = Leftover
  BY <1>1 DEF Leftover
<1>5. None(toBroker', Leftover)
  BY NoneRest, TakenKinds DEF Taken
<1>. HIDE DEF table
<1>6. CASE out' \subseteq out /\ taken' = taken
  <2>1. \A o \in out' : o.qos = 2 /\ ~o.released /\ o.id \in table => Arrived(o.msg)
    BY <1>6 DEF Taken, table
  <2>2. Unheard' \subseteq Unheard
    BY <1>2, <1>6 DEF Unheard
  <2>3. None(toBroker', Unheard)
    BY NoneRest, TakenKinds DEF Taken
  <2>4. None(toBroker', Unheard')
    BY <2>2, <2>3 DEF None
  <2>5. ASSUME NEW id \in table
        PROVE  \E o \in out' : o.id = id /\ o.qos = 2
    <3>1. PICK o \in out : o.id = id /\ o.qos = 2
      BY DEF Taken, table
    <3>2. o \in out'
      <4>2. ASSUME toBroker # <<>>, BrokerAcknowledged
            PROVE  o \in out'
        <5>. DEFINE p == Head(toBroker)
        <5>1. /\ p \in Packet /\ UpOK(p, out)
          BY <4>2, AcknowledgedItem
        <5>2. PICK u \in out : u.id = p.id /\ {m \in out : m.id = p.id} = {u}
          BY <4>2, AcknowledgedItem
        <5>3. p.type \in {"PUBACK", "PUBREC", "PUBCOMP"}
          BY <4>2, AcknowledgedFacts
        <5>4. p.type = "PUBACK" => o.id # p.id
          BY <3>1, <5>1, <5>2 DEF UpOK, Items
        <5>5. p.type = "PUBCOMP" => o.id # p.id
          <6>1. p \notin Leftover
            BY <1>0, <4>2, HeadNone DEF Taken
          <6>. QED
            BY <3>1, <5>1, <6>1 DEF Leftover, table
        <5>6. p.type # "PUBREC"
          <6>1. ASSUME p.type = "PUBREC"
                PROVE  FALSE
            <7>1. PICK v \in out, n \in Item :
                     /\ ~v.released /\ n.id = v.id /\ n.released
                     /\ out' = (out \ {v}) \cup {n}
              BY <4>2, <6>1, ReleasedFacts
            <7>2. n \in out /\ n # v
              BY <1>6, <7>1
            <7>. QED
              BY <7>1, <7>2 DEF Items
          <6>. QED
            BY <6>1
        <5>7. out' = out \ {m \in out : m.id = p.id}
          BY <4>2, <5>6, AcknowledgedFacts
        <5>. QED
          BY <5>3, <5>4, <5>5, <5>6, <5>7
      <4>4. ASSUME BrokerPublish
            PROVE  o \in out'
        BY <4>4, BrokerPublishFacts
      <4>. QED
        BY <4>2, <4>4
    <3>. QED
      BY <3>1, <3>2
  <2>6. \A m \in taken' : Heard(m)
    BY <1>6 DEF Taken
  <2>. HIDE DEF TInv
  <2>. QED
    BY <1>1, <1>2, <1>3, <1>4, <1>5, <2>1, <2>4, <2>5, <2>6 DEF Taken, table
<1>7. CASE toBroker # <<>> /\ BrokerAcknowledged /\ Head(toBroker).type = "PUBREC"
  <2>1. PICK o \in out, n \in Item :
           /\ o.id = Head(toBroker).id /\ o.qos = 2 /\ ~o.released
           /\ n.id = o.id /\ n.qos = 2 /\ n.msg = o.msg /\ n.released
           /\ out' = (out \ {o}) \cup {n}
           /\ taken' = taken \cup {o.msg}
    BY <1>7, ReleasedFacts
  <2>2. \A u \in out' : u.qos = 2 /\ ~u.released /\ u.id \in table => Arrived(u.msg)
    BY <2>1 DEF Taken, table
  <2>3. Unheard' \subseteq Unheard
    BY <1>2, <2>1 DEF Unheard
  <2>4. None(toBroker', Unheard)
    BY NoneRest, TakenKinds DEF Taken
  <2>5. None(toBroker', Unheard')
    BY <2>3, <2>4 DEF None
  <2>6. ASSUME NEW id \in table
        PROVE  \E u \in out' : u.id = id /\ u.qos = 2
    <3>1. PICK u \in out : u.id = id /\ u.qos = 2
      BY DEF Taken, table
    <3>. QED
      BY <2>1, <3>1
  <2>7. Heard(o.msg)
    <3>1. Head(toBroker) \in Packet /\ Head(toBroker) \notin Unheard
      BY <1>0, <1>7, QueueTail, HeadNone DEF Taken
    <3>. QED
      BY <1>7, <2>1, <3>1 DEF Unheard
  <2>8. \A m \in taken' : Heard(m)
    BY <2>1, <2>7 DEF Taken
  <2>. HIDE DEF TInv
  <2>. QED
    BY <1>1, <1>2, <1>3, <1>4, <1>5, <2>2, <2>5, <2>6, <2>8 DEF Taken, table
<1>8. CASE BrokerPublish
  <2>1. toBroker' = toBroker /\ taken' = taken
    BY <1>8, BrokerPublishFacts
  <2>2. PICK q \in 0 .. 2, i \in BrokerIds :
          /\ \A m \in out : m.id # i
          /\ out' = IF q = 0 THEN out
                    ELSE out \cup {[id |-> i, qos |-> q, msg |-> npubs + 1, released |-> FALSE]}
    BY <1>8, BrokerPublishFacts
  <2>. DEFINE n == [id |-> i, qos |-> q, msg |-> npubs + 1, released |-> FALSE]
  <2>3. n.id = i
    OBVIOUS
  <2>4. out \subseteq out' /\ out' \subseteq out \cup {n}
    BY <2>2
  <2>. HIDE DEF n
  <2>5. i \notin table
    BY <2>2 DEF Taken, table
  <2>6. \A u \in out' : u.qos = 2 /\ ~u.released /\ u.id \in table => Arrived(u.msg)
    BY <2>3, <2>4, <2>5 DEF Taken, table
  <2>7. \A id \in table : \E u \in out' : u.id = id /\ u.qos = 2
    BY <2>4 DEF Taken, table
  <2>8. None(toBroker, Unheard')
    <3>1. None(toBroker, Up(i))
      BY <2>2, TokenHasItem
    <3>2. Unheard' \subseteq Unheard \cup Up(i)
      BY <1>2, <2>3, <2>4 DEF Unheard, Up
    <3>. QED
      BY <3>1, <3>2 DEF None, Taken
  <2>. HIDE DEF TInv
  <2>. QED
    BY <1>1, <1>2, <1>3, <1>4, <1>5, <2>1, <2>6, <2>7, <2>8 DEF Taken, table
<1>. QED
  BY <1>6, <1>7, <1>8, OutStep

\* A new session has no messages yet.
LEMMA TakenNewSession ==
  ASSUME TInv, Taken, [Next]_vars, ~Cycle,
         stale' = incomingQoS2messages, out' = {}, taken' = taken
  PROVE  Taken'
<1>1. /\ arrived' = arrived /\ excused' = excused /\ incomingQoS2messages' = incomingQoS2messages
  BY ClientRests DEF TInv
<1>2. Current' = {}
  BY <1>1 DEF Current
<1>3. Leftover' = {} /\ Unheard' = {}
  BY <1>2 DEF Leftover, Unheard
<1>4. \A m \in taken' : Heard(m)'
  BY <1>1 DEF Taken, Heard, Arrived
<1>5. None(toBroker', Leftover') /\ None(toBroker', Unheard')
  BY <1>3 DEF None
<1>. QED
  BY <1>1, <1>2, <1>4, <1>5 DEF Taken

LEMMA TakenCycle ==
  ASSUME TInv, Taken, Cycle
  PROVE  Taken'
<1>. DEFINE p == Head(toClient)
            table == incomingQoS2messages
<1>. USE DEF TInv
<1>0. /\ toBroker \in Seq(Packet) /\ toClient \in Seq(Packet) /\ out \subseteq Item
      /\ arrived \in Seq(Nat \X Nat) /\ None(toClient, Foreign)
  BY DEF Types, LinkTypes, BrokerTypes, ClientTypes
<1>1. p \in Packet /\ p.msg \in Nat /\ p.val \in Nat /\ toClient # <<>>
  BY CycleFacts, PacketFields
<1>2. UNCHANGED <<out, taken>> /\ DownOK(p, out)
  BY DeliveryFacts
<1>3. p \notin Foreign
  BY <1>0, <1>1, HeadNone
<1>4. \A m : Arrived(m) => Arrived(m)'
  <2>1. CASE arrived' = arrived
    BY <2>1 DEF Arrived
  <2>2. ASSUME NEW e \in Nat \X Nat, arrived' = Append(arrived, e)
        PROVE  \A m : Arrived(m) => Arrived(m)'
    <3>1. /\ Len(arrived) \in Nat /\ Len(arrived') = Len(arrived) + 1
          /\ \A k \in 1 .. Len(arrived) : arrived'[k] = arrived[k]
      BY <2>2, ArrivedAppend
    <3>2. \A k \in 1 .. Len(arrived) : k \in 1 .. Len(arrived')
      BY <3>1
    <3>. QED
      BY <3>1, <3>2 DEF Arrived
  <2>3. <<p.msg, p.val>> \in Nat \X Nat
    BY <1>1
  <2>4. arrived' = arrived \/ arrived' = Append(arrived, <<p.msg, p.val>>)
    BY CycleFacts
  <2>. QED
    BY <2>1, <2>2, <2>3, <2>4
<1>5. /\ stale' = stale \cap table' /\ stale \subseteq table
      /\ excused' = IF Drops(p) THEN excused \cup {p.msg} ELSE excused
  BY CycleFacts DEF Taken
<1>6. \A m : Heard(m) => Heard(m)'
  BY <1>4, <1>5 DEF Heard
<1>7. /\ \A m \in taken' : Heard(m)'
      /\ Unheard' \subseteq Unheard
  BY <1>2, <1>6 DEF Taken, Unheard
\* It is delivered now, or was before, or is dropped for a reason.
<1>8. p.type = "PUBLISH" /\ p.val = 2 =>
        \E u \in out : u.id = p.id /\ Heard(u.msg)' /\ (Delivers(p) => Arrived(u.msg)')
  <2>. SUFFICES ASSUME p.type = "PUBLISH", p.val = 2
                PROVE  \E u \in out : /\ u.id = p.id /\ Heard(u.msg)'
                                      /\ Delivers(p) => Arrived(u.msg)'
    OBVIOUS
  <2>1. PICK u \in out : u.id = p.id /\ u.qos = 2 /\ u.msg = p.msg /\ ~u.released
    BY <1>2 DEF DownOK
  <2>2. CASE Delivers(p)
    <3>. DEFINE e == <<p.msg, 2>>
    <3>1. e \in Nat \X Nat /\ arrived' = Append(arrived, e)
      BY <1>1, <2>2, DeliveryFacts
    <3>. HIDE DEF e
    <3>2. Len(arrived) + 1 \in 1 .. Len(arrived') /\ arrived'[Len(arrived) + 1] = e
      BY <3>1, ArrivedAppend
    <3>3. Arrived(u.msg)'
      BY <1>2, <2>1, <3>2 DEF Arrived, e
    <3>. QED
      BY <2>1, <3>3 DEF Heard
  <2>3. CASE ~Delivers(p)
    <3>1. CASE p.id \in Current
      <4>1. Heard(u.msg)
        BY <2>1, <3>1 DEF Taken, Heard
      <4>. QED
        BY <1>6, <2>1, <2>3, <4>1
    <3>2. CASE p.id \notin Current
      <4>1. Drops(p)
        BY <2>3, <3>2 DEF Drops, Current, isQoS2msgidFree
      <4>. QED
        BY <1>5, <2>1, <2>3, <4>1 DEF Heard
    <3>. QED
      BY <3>1, <3>2
  <2>. QED
    BY <2>2, <2>3
<1>9. None(toBroker', Unheard')
  <2>1. None(Replies(p), Unheard')
    <3>1. CASE Replies(p) = <<>>
      BY <3>1, EmptyQueue
    <3>2. ASSUME NEW r \in Packet, Replies(p) = <<r>>, r.id = p.id,
                 r.type = "PUBREC" => p.type = "PUBLISH" /\ p.val = 2
          PROVE  None(Replies(p), Unheard')
      <4>1. r \notin Unheard'
        <5>1. ASSUME NEW o \in out, r.type = "PUBREC", o.id = r.id
              PROVE  Heard(o.msg)'
          <6>1. PICK u \in out : u.id = p.id /\ Heard(u.msg)'
            BY <1>8, <3>2, <5>1
          <6>2. o = u
            BY <3>2, <5>1, <6>1 DEF Items
          <6>. QED
            BY <6>1, <6>2
        <5>. QED
          BY <1>2, <5>1 DEF Unheard
      <4>. QED
        BY <3>2, <4>1, Single
    <3>. QED
      BY <1>1, <3>1, <3>2, ReplyType
  <2>2. None(toBroker, Unheard') /\ Unheard' \subseteq Control
    BY <1>7, TakenKinds DEF None, Taken
  <2>. QED
    BY <2>1, <2>2, NoneCycle
<1>10. None(Replies(p), Leftover') \/ (p.type = "PUBREL" /\ p.id \in Current')
  <2>1. CASE Replies(p) = <<>>
    BY <2>1, EmptyQueue
  <2>2. ASSUME NEW r \in Packet, Replies(p) = <<r>>, r.id = p.id,
               r.type = "PUBCOMP" => p.type = "PUBREL"
        PROVE  None(Replies(p), Leftover') \/ (p.type = "PUBREL" /\ p.id \in Current')
    <3>1. r \notin Leftover' \/ (p.type = "PUBREL" /\ p.id \in Current')
      BY <2>2 DEF Leftover
    <3>. QED
      BY <2>2, <3>1, Single
  <2>. QED
    BY <1>1, <2>1, <2>2, ReplyType
<1>11. Leftover' \subseteq Control
  BY DEF Leftover, Control
<1>12. CASE /\ p.type = "PUBLISH" /\ p.val = 2 /\ p.id \notin table
            /\ Delivers(p) /\ table' = table \cup {p.id}
  <2>0. Current' = Current \cup {p.id} /\ stale' \subseteq table'
    BY <1>5, <1>12 DEF Current
  <2>1. PICK u \in out : u.id = p.id /\ u.qos = 2
    BY <1>2, <1>12 DEF DownOK
  <2>2. \A id \in Current' : \E o \in out : o.id = id /\ o.qos = 2
    BY <2>0, <2>1 DEF Taken
  <2>3. ASSUME NEW o \in out, o.qos = 2, ~o.released, o.id \in Current'
        PROVE  Arrived(o.msg)'
    <3>1. CASE o.id \in Current
      BY <1>4, <2>3, <3>1 DEF Taken
    <3>2. CASE o.id = p.id
      <4>1. PICK v \in out : v.id = p.id /\ Arrived(v.msg)'
        BY <1>8, <1>12
      <4>2. o = v
        BY <3>2, <4>1 DEF Items
      <4>. QED
        BY <4>1, <4>2
    <3>. QED
      BY <2>0, <2>3, <3>1, <3>2
  <2>4. None(toBroker, Up(p.id))
    <3>1. p \in Down(p.id) /\ p.id \in BrokerIds
      BY <1>1, <1>3, <1>12 DEF Down, Foreign
    <3>2. ~None(toClient, Down(p.id))
      BY <1>0, <1>1, <3>1, HeadNone
    <3>. QED
      BY <3>1, <3>2 DEF Tokens, Token
  <2>5. None(toBroker, Leftover')
    <3>1. Leftover' \subseteq Leftover \cup Up(p.id)
      BY <2>0 DEF Leftover, Up
    <3>. QED
      BY <2>4, <3>1 DEF None, Taken
  <2>6. None(toBroker', Leftover')
    BY <1>10, <1>11, <1>12, <2>5, NoneCycle
  <2>. HIDE DEF TInv
  <2>. QED
    BY <1>2, <1>7, <1>9, <2>0, <2>2, <2>3, <2>6 DEF Taken
<1>13. CASE /\ \/ table' = table
               \/ p.type = "PUBREL" /\ table' = table \ {p.id}
            /\ p.type = "PUBREL" => toBroker' = toBroker \/ table' = table \ {p.id}
  <2>1. Current' \subseteq Current /\ Current' \subseteq table' /\ stale' \subseteq table'
    BY <1>5, <1>13 DEF Current
  <2>2. \A id \in Current' : \E o \in out : o.id = id /\ o.qos = 2
    BY <2>1 DEF Taken
  <2>3. \A o \in out : o.qos = 2 /\ ~o.released /\ o.id \in Current' => Arrived(o.msg)'
    BY <1>4, <2>1 DEF Taken
  <2>4. None(toBroker, Leftover')
    <3>1. Leftover' \subseteq Leftover
      BY <2>1 DEF Leftover
    <3>. QED
      BY <3>1 DEF None, Taken
  <2>5. toBroker' = toBroker \/ None(Replies(p), Leftover')
    BY <1>10, <1>13, <2>1
  <2>6. None(toBroker', Leftover')
    BY <1>11, <2>4, <2>5, NoneCycle
  <2>. HIDE DEF TInv
  <2>. QED
    BY <1>2, <1>7, <1>9, <2>1, <2>2, <2>3, <2>6 DEF Taken
<1>. QED
  BY <1>12, <1>13, DeliveryFacts

\* What the client has acknowledged with PUBREC was delivered, unless an identifier
\* left from an earlier session or a full table made the client drop it: for tables
\* and windows of any size, for clean sessions and kept ones, and however often
\* connections and answers fail.
THEOREM TakenWasDelivered == Spec => []TakenIsDelivered
<1>1. DInv => TakenIsDelivered
  <2>. SUFFICES ASSUME DInv PROVE TakenIsDelivered
    OBVIOUS
  <2>1. arrived \in Seq(Nat \X Nat)
    BY DEF DInv, TInv, Types, ClientTypes
  <2>2. DOMAIN arrived = 1 .. Len(arrived)
    BY <2>1
  <2>. QED
    BY <2>2 DEF DInv, Taken, Heard, Arrived, TakenIsDelivered
<1>2. Init => DInv
  <2>. SUFFICES ASSUME Init PROVE DInv
    OBVIOUS
  <2>1. /\ toBroker = <<>> /\ out = {} /\ taken = {}
        /\ incomingQoS2messages = {} /\ stale = {}
    BY DEF Init, BrokerInit
  <2>2. Taken
    BY <2>1, EmptyQueue DEF Taken, Current
  <2>. QED
    BY <2>2, TInvInit DEF DInv
<1>3. DInv /\ [Next]_vars => DInv'
  <2>. SUFFICES ASSUME DInv, [Next]_vars PROVE Taken'
    BY TInvStep DEF DInv
  <2>1. TInv /\ Taken /\ Types
    BY DEF DInv, TInv
  <2>2. CASE Cycle
    BY <2>1, <2>2, TakenCycle
  <2>3. CASE ~Cycle
    BY <2>1, <2>3, StaleStep, TakenRest, TakenNewSession
  <2>. QED
    BY <2>2, <2>3
<1>. QED
  BY <1>1, <1>2, <1>3, PTL DEF Spec

----------------------------------------------------------------------------
(* The messages of the client.                                             *)

\* A step that adds no CONNACK, no PUBACK and no QoS 1 message of the client.
Fewer ==
  /\ \A S : (S \subseteq Connacks \cup Pubacks =>
               /\ None(toClient, S) => None(toClient', S)
               /\ Once(toClient, S) => Once(toClient', S))
  /\ \A S : (S \subseteq Publishes =>
               /\ None(toBroker, S) => None(toBroker', S)
               /\ Once(toBroker, S) => Once(toBroker', S))

Rest == UNCHANGED <<isconnected, call, inflight, stored, completed>>

LEMMA ClientKinds ==
  /\ Connacks \subseteq Connacks \cup Pubacks /\ Pubacks \subseteq Connacks \cup Pubacks
  /\ \A m : ({p \in Pubacks : p.id # m.id} \subseteq Connacks \cup Pubacks)
  /\ \A x : (Publishes \ {x} \subseteq Publishes)
  /\ Publishes \subseteq Publishes
OBVIOUS

LEMMA QuietFewer ==
  ASSUME Quiet, Fewer
  PROVE  Quiet'
BY ClientKinds DEF Quiet, Fewer

LEMMA ExchangeFewer ==
  ASSUME NEW m, Exchange(m), Fewer, Got(m.msg) => Got(m.msg)'
  PROVE  Exchange(m)'
<1>1. /\ Once(toBroker', Publishes) /\ Once(toClient', Pubacks)
      /\ None(toBroker, Publishes) => None(toBroker', Publishes)
      /\ None(toClient, Pubacks) => None(toClient', Pubacks)
  BY ClientKinds DEF Exchange, Fewer
<1>2. None(toBroker', Publishes \ {Pkt("PUBLISH", m.id, 1, m.msg)})
  BY ClientKinds DEF Exchange, Fewer
<1>3. None(toClient', {p \in Pubacks : p.id # m.id})
  BY ClientKinds DEF Exchange, Fewer
<1>. QED
  BY <1>1, <1>2, <1>3 DEF Exchange

LEMMA ExchangesFewer ==
  ASSUME Connected, Exchanges, Fewer, Rest, accepted' = accepted, link' = "up" => link = "up",
         \A m : Got(m) => Got(m)'
  PROVE  Connected' /\ Exchanges'
<1>1. /\ isconnected' = isconnected /\ call' = call /\ inflight' = inflight
      /\ stored' = stored /\ completed' = completed
  BY DEF Rest
<1>2. None(toClient, Connacks) => None(toClient', Connacks)
  BY ClientKinds DEF Fewer
<1>3. Connected'
  BY <1>1, <1>2 DEF Connected
<1>4. Quiet => Quiet'
  BY QuietFewer
<1>5. call.op \in {"publish", "republish"} => Exchange(call.m)'
  BY ExchangeFewer, <1>1 DEF Exchanges
<1>6. Exchanges'
  BY <1>1, <1>2, <1>4, <1>5 DEF Exchanges
<1>. QED
  BY <1>3, <1>6

\* How Fewer comes about.
LEMMA FewerToClient ==
  ASSUME Types, \/ toClient' = toClient
                \/ toClient' = <<>>
                \/ toClient # <<>> /\ toClient' = Tail(toClient)
                \/ \E r \in Packet : r.type \notin {"CONNACK", "PUBACK"} /\ toClient' = toClient \o <<r>>
  PROVE  \A S : (S \subseteq Connacks \cup Pubacks =>
                   /\ None(toClient, S) => None(toClient', S)
                   /\ Once(toClient, S) => Once(toClient', S))
<1>0. toClient \in Seq(Packet)
  BY DEF Types, LinkTypes
<1>. SUFFICES ASSUME NEW S, S \subseteq Connacks \cup Pubacks
              PROVE  /\ None(toClient, S) => None(toClient', S)
                     /\ Once(toClient, S) => Once(toClient', S)
  OBVIOUS
<1>1. CASE toClient' = toClient
  BY <1>1
<1>2. CASE toClient' = <<>>
  BY <1>2, EmptyQueue
<1>3. CASE toClient # <<>> /\ toClient' = Tail(toClient)
  BY <1>0, <1>3, TailNone, TailOnce
<1>4. ASSUME NEW r \in Packet, r.type \notin {"CONNACK", "PUBACK"}, toClient' = toClient \o <<r>>
      PROVE  /\ None(toClient, S) => None(toClient', S)
             /\ Once(toClient, S) => Once(toClient', S)
  <2>1. r \notin S
    BY <1>4 DEF Connacks, Pubacks
  <2>2. <<r>> \in Seq(Packet) /\ None(<<r>>, S) /\ Once(<<r>>, S)
    BY <2>1, Single
  <2>. QED
    BY <1>0, <1>4, <2>2, JoinNone, JoinOnce
<1>. QED
  BY <1>1, <1>2, <1>3, <1>4

LEMMA FewerToBroker ==
  ASSUME Types, \/ toBroker' = toBroker
                \/ toBroker' = <<>>
                \/ toBroker # <<>> /\ toBroker' = Tail(toBroker)
                \/ \E b \in Seq(Packet) : None(b, Publishes) /\ toBroker' = toBroker \o b
  PROVE  \A S : (S \subseteq Publishes =>
                   /\ None(toBroker, S) => None(toBroker', S)
                   /\ Once(toBroker, S) => Once(toBroker', S))
<1>0. toBroker \in Seq(Packet)
  BY DEF Types, LinkTypes
<1>. SUFFICES ASSUME NEW S, S \subseteq Publishes
              PROVE  /\ None(toBroker, S) => None(toBroker', S)
                     /\ Once(toBroker, S) => Once(toBroker', S)
  OBVIOUS
<1>1. CASE toBroker' = toBroker
  BY <1>1
<1>2. CASE toBroker' = <<>>
  BY <1>2, EmptyQueue
<1>3. CASE toBroker # <<>> /\ toBroker' = Tail(toBroker)
  BY <1>0, <1>3, TailNone, TailOnce
<1>4. ASSUME NEW b \in Seq(Packet), None(b, Publishes), toBroker' = toBroker \o b
      PROVE  /\ None(toBroker, S) => None(toBroker', S)
             /\ Once(toBroker, S) => Once(toBroker', S)
  <2>1. None(b, S) /\ Once(b, S)
    BY <1>4, SubNone, OfNone
  <2>. QED
    BY <1>0, <1>4, <2>1, JoinNone, JoinOnce
<1>. QED
  BY <1>1, <1>2, <1>3, <1>4

LEMMA GotGrows ==
  ASSUME NEW m, Got(m), received \subseteq received'
  PROVE  Got(m)'
BY DEF Got

\* The broker takes a QoS 1 message and acknowledges it.
LEMMA ExchangesTaken ==
  ASSUME PInv, toBroker # <<>>, BrokerPublished, Head(toBroker).val = 1, UNCHANGED clientVars
  PROVE  Connected' /\ Exchanges'
<1>. DEFINE p == Head(toBroker)
<1>. USE DEF PInv
<1>0. toBroker \in Seq(Packet) /\ toClient \in Seq(Packet)
  BY DEF Types, LinkTypes
<1>1. /\ p.type = "PUBLISH" /\ accepted /\ toBroker' = Tail(toBroker)
      /\ UNCHANGED <<link, accepted>> /\ received' = received \cup {p.msg}
  BY PublishedFacts
<1>2. PICK r \in Packet : toClient' = toClient \o <<r>> /\ r.id = p.id /\ r.type = "PUBACK"
  <2>1. \/ toClient' = toClient /\ Head(toBroker).val # 1
        \/ \E r \in Packet : /\ toClient' = toClient \o <<r>> /\ r.id = Head(toBroker).id
                             /\ \/ Head(toBroker).val = 1 /\ r.type = "PUBACK"
                                \/ Head(toBroker).val = 2 /\ r.type = "PUBREC"
    BY PublishedFacts
  <2>. HIDE DEF PInv
  <2>2. PICK r \in Packet : /\ toClient' = toClient \o <<r>> /\ r.id = Head(toBroker).id
                            /\ \/ Head(toBroker).val = 1 /\ r.type = "PUBACK"
                               \/ Head(toBroker).val = 2 /\ r.type = "PUBREC"
    BY <2>1
  <2>3. r.type = "PUBACK"
    BY <2>2
  <2>. QED
    BY <2>2, <2>3
<1>3. p \in Packet /\ p.msg \in Nat /\ p \in Publishes
  BY <1>0, <1>1, QueueTail, PacketFields DEF Publishes
<1>4. ~None(toBroker, Publishes) /\ ~Quiet
  BY <1>0, <1>3, HeadNone DEF Quiet
<1>5. /\ isconnected' = isconnected /\ call' = call /\ inflight' = inflight
      /\ stored' = stored /\ completed' = completed
  BY DEF clientVars
<1>6. \A m : Got(m) => Got(m)'
  BY <1>1, GotGrows
<1>7. PICK x \in Nat : x = p.msg
  BY <1>3
<1>8. Got(x)'
  BY <1>1, <1>7 DEF Got
<1>9. <<r>> \in Seq(Packet) /\ \A S : (Once(<<r>>, S) /\ (r \notin S => None(<<r>>, S)))
  BY Single
<1>10. None(toClient, Connacks) => None(toClient', Connacks)
  <2>1. r \notin Connacks
    BY <1>2 DEF Connacks
  <2>. QED
    BY <1>0, <1>2, <1>9, <2>1, JoinNone
<1>11. Connected'
  BY <1>1, <1>5, <1>10 DEF Connected
<1>12. None(toClient, Connacks)
  BY <1>4 DEF Exchanges
<1>13. ASSUME NEW m, Exchange(m)
       PROVE  Exchange(m)'
  <2>1. p = Pkt("PUBLISH", m.id, 1, m.msg)
    <3>1. p \notin Publishes \ {Pkt("PUBLISH", m.id, 1, m.msg)}
      BY <1>0, <1>13, HeadNone DEF Exchange
    <3>. QED
      BY <1>3, <3>1
  <2>2. p.id = m.id /\ p.msg = m.msg
    BY <2>1 DEF Pkt
  <2>3. None(toBroker', Publishes) /\ Once(toBroker', Publishes)
        /\ None(toBroker', Publishes \ {Pkt("PUBLISH", m.id, 1, m.msg)})
    BY <1>0, <1>1, <1>3, <1>13, TailOnce, TailNone DEF Exchange
  <2>4. None(toClient, Pubacks)
    BY <1>4, <1>13 DEF Exchange
  <2>5. Once(toClient', Pubacks)
    BY <1>0, <1>2, <1>9, <2>4, OfNone, JoinOnce
  <2>6. None(toClient', {y \in Pubacks : y.id # m.id})
    <3>1. r \notin {y \in Pubacks : y.id # m.id}
      BY <1>2, <2>2
    <3>. QED
      BY <1>0, <1>2, <1>9, <1>13, <3>1, JoinNone DEF Exchange
  <2>7. Got(m.msg)'
    BY <1>8, <1>7, <2>2
  <2>. QED
    BY <1>13, <2>3, <2>5, <2>6, <2>7 DEF Exchange
<1>14. call.op \in {"publish", "republish"} => Exchange(call.m)'
  BY <1>5, <1>13 DEF Exchanges
<1>15. Exchanges'
  <2>1. None(toClient', Connacks)
    BY <1>10, <1>12
  <2>2. ~(isconnected /\ call.op # "publish")
    BY <1>4 DEF Exchanges
  <2>3. /\ \A m \in stored : m.qos = 1 => (inflight.id > 0 /\ inflight = m) \/ Got(m.msg)'
        /\ \A m \in completed : m.qos = 1 => Got(m.msg)'
    BY <1>6 DEF Exchanges
  <2>. HIDE DEF PInv
  <2>4. /\ call.op = "republish" => inflight = call.m
        /\ call.op = "publish" => inflight.id = 0 \/ inflight = call.m \/ inflight.qos = 2
        /\ inflight.id > 0 => inflight.qos \in {1, 2}
    BY DEF PInv, Exchanges
  <2>. QED
    BY <1>1, <1>5, <1>14, <2>1, <2>2, <2>3, <2>4 DEF Exchanges
<1>. QED
  BY <1>11, <1>15

LEMMA ExchangesConnect ==
  ASSUME PInv, link = "up", toBroker # <<>>, BrokerConnect, UNCHANGED clientVars
  PROVE  Connected' /\ Exchanges'
<1>. USE DEF PInv
<1>0. toBroker \in Seq(Packet) /\ toClient \in Seq(Packet)
  BY DEF Types, LinkTypes
<1>1. /\ isconnected' = isconnected /\ call' = call /\ inflight' = inflight
      /\ stored' = stored /\ completed' = completed
  BY DEF clientVars
<1>2. ~accepted /\ received' = received
  BY ConnectAccepted, ConnectRefused
<1>3. Quiet /\ ~isconnected /\ call.op \notin {"publish", "subscribe", "unsubscribe", "republish"}
  BY <1>2 DEF Connected, Exchanges
<1>4. \A m : Got(m)' = Got(m)
  BY <1>2 DEF Got
<1>5. Quiet'
  <2>1. toBroker' = Tail(toBroker) \/ toBroker' = <<>>
    BY ConnectAccepted, ConnectRefused
  <2>2. None(toBroker', Publishes)
    BY <1>0, <1>3, <2>1, TailNone, EmptyQueue DEF Quiet
  <2>3. CASE accepted'
    <3>1. PICK order \in Orders(out'), a \in Seq(Packet), b \in Seq(Packet) :
             /\ toClient' = toClient \o b
             /\ \A S : (Connack(0) \notin S /\ None(a, S) => None(b, S))
             /\ \A k \in 1 .. Len(a) : a[k].type \in {"PUBLISH", "PUBREL"}
      BY <2>3, AcceptedFacts
    <3>2. None(a, Pubacks) /\ Connack(0) \notin Pubacks
      BY <3>1, ConnackType DEF None, Pubacks
    <3>3. None(b, Pubacks)
      BY <3>1, <3>2
    <3>. QED
      BY <1>0, <1>3, <2>2, <3>1, <3>3, JoinNone DEF Quiet
  <2>4. CASE ~accepted'
    <3>1. toClient' = toClient \o <<Connack(5)>>
      BY <2>4, ConnectRefused
    <3>2. <<Connack(5)>> \in Seq(Packet) /\ None(<<Connack(5)>>, Pubacks)
      BY ConnackType, Single DEF Pubacks
    <3>. QED
      BY <1>0, <1>3, <2>2, <3>1, <3>2, JoinNone DEF Quiet
  <2>. QED
    BY <2>3, <2>4
<1>6. Connected'
  BY <1>1, <1>3 DEF Connected
<1>7. /\ \A m \in stored : m.qos = 1 => (inflight.id > 0 /\ inflight = m) \/ Got(m.msg)
      /\ \A m \in completed : m.qos = 1 => Got(m.msg)
      /\ inflight.id > 0 => inflight.qos \in {1, 2}
  BY DEF Exchanges
<1>. HIDE DEF PInv
<1>8. Exchanges'
  BY <1>1, <1>3, <1>4, <1>5, <1>7 DEF Exchanges
<1>. QED
  BY <1>6, <1>8

LEMMA ExchangesBroker ==
  ASSUME PInv, BrokerNext, UNCHANGED clientVars
  PROVE  Connected' /\ Exchanges'
<1>. USE DEF PInv
<1>0. Rest
  BY DEF Rest, clientVars
<1>2. ASSUME toBroker # <<>>, BrokerPublished, Head(toBroker).val # 1
      PROVE  Connected' /\ Exchanges'
  <2>1. /\ toBroker' = Tail(toBroker) /\ UNCHANGED <<link, accepted>>
        /\ received \subseteq received'
        /\ \/ toClient' = toClient
           \/ \E r \in Packet : toClient' = toClient \o <<r>> /\ r.type = "PUBREC"
    BY <1>2, PublishedFacts
  <2>2. Fewer
    BY <1>2, <2>1, FewerToClient, FewerToBroker DEF Fewer
  <2>4. \A m : Got(m) => Got(m)'
    BY <2>1, GotGrows
  <2>. QED
    BY <1>0, <2>1, <2>2, <2>4, ExchangesFewer
<1>3. ASSUME toBroker # <<>>, BrokerAcknowledged
      PROVE  Connected' /\ Exchanges'
  <2>1. /\ toBroker' = Tail(toBroker) /\ UNCHANGED <<link, accepted, received>>
        /\ \/ toClient' = toClient
           \/ \E r \in Packet : toClient' = toClient \o <<r>> /\ r.type = "PUBREL"
    BY <1>3, AcknowledgedFacts
  <2>2. Fewer
    BY <1>3, <2>1, FewerToClient, FewerToBroker DEF Fewer
  <2>. QED
    BY <1>0, <2>1, <2>2, GotGrows, ExchangesFewer
<1>4. ASSUME toBroker # <<>>, BrokerRequest
      PROVE  Connected' /\ Exchanges'
  <2>1. /\ toBroker' = Tail(toBroker) /\ UNCHANGED <<link, accepted, received>>
        /\ \E r \in Packet : /\ toClient' = toClient \o <<r>>
                             /\ r.type \in {"PUBCOMP", "SUBACK", "UNSUBACK", "PINGRESP"}
    BY <1>4, BrokerRequestFacts
  <2>2. Fewer
    BY <1>4, <2>1, FewerToClient, FewerToBroker DEF Fewer
  <2>. QED
    BY <1>0, <2>1, <2>2, GotGrows, ExchangesFewer
<1>5. ASSUME BrokerPublish
      PROVE  Connected' /\ Exchanges'
  <2>1. /\ toBroker' = toBroker /\ UNCHANGED <<link, accepted, received>>
        /\ \E r \in Packet : toClient' = toClient \o <<r>> /\ r.type = "PUBLISH"
    BY <1>5, BrokerPublishFacts
  <2>2. Fewer
    BY <2>1, FewerToClient, FewerToBroker DEF Fewer
  <2>. QED
    BY <1>0, <2>1, <2>2, GotGrows, ExchangesFewer
<1>6. ASSUME BrokerCloses \/ Reset
      PROVE  Connected' /\ Exchanges'
  <2>1. /\ toBroker' = <<>> /\ link' # "up" /\ UNCHANGED <<accepted, received>>
        /\ toClient' = toClient \/ toClient' = <<>>
    BY <1>6 DEF BrokerCloses, Close, Reset
  <2>2. Fewer
    BY <2>1, FewerToClient, FewerToBroker DEF Fewer
  <2>. QED
    BY <1>0, <2>1, <2>2, GotGrows, ExchangesFewer
<1>. QED
  BY <1>2, <1>3, <1>4, <1>5, <1>6, ExchangesTaken, ExchangesConnect DEF BrokerNext

LEMMA ExchangesNetwork ==
  ASSUME PInv, Reconnect
  PROVE  Connected' /\ Exchanges'
<1>1. /\ call.op = "idle" /\ ~isconnected /\ accepted' = FALSE
      /\ toBroker' = <<>> /\ toClient' = <<>> /\ received' = received
      /\ UNCHANGED <<isconnected, call, inflight, stored, completed>>
  BY NoMessageType DEF Reconnect, NetworkConnect
<1>2. Quiet' /\ None(toClient', Connacks)
  BY <1>1, EmptyQueue DEF Quiet
<1>3. \A m : Got(m)' = Got(m)
  BY <1>1 DEF Got
<1>4. Connected'
  BY <1>1 DEF Connected
<1>5. /\ \A m \in stored : m.qos = 1 => (inflight.id > 0 /\ inflight = m) \/ Got(m.msg)
      /\ \A m \in completed : m.qos = 1 => Got(m.msg)
      /\ inflight.id > 0 => inflight.qos \in {1, 2}
  BY DEF PInv, Exchanges
<1>6. Exchanges'
  BY <1>1, <1>2, <1>3, <1>5 DEF Exchanges
<1>. QED
  BY <1>4, <1>6

\* A call begins or ends, and no QoS 1 message of the client is concerned.
LEMMA ExchangesCall ==
  ASSUME Connected, Exchanges, Fewer, UNCHANGED <<link, accepted, received, inflight, stored, completed>>,
         isconnected' => isconnected /\ call.op # "publish",
         call'.op \in {"idle", "connect", "subscribe", "unsubscribe", "yield"},
         call'.op \in {"subscribe", "unsubscribe"} => isconnected',
         call'.op = "connect" => ~isconnected'
  PROVE  Connected' /\ Exchanges'
<1>1. None(toClient, Connacks) => None(toClient', Connacks)
  BY ClientKinds DEF Fewer
<1>2. Connected'
  BY <1>1 DEF Connected
<1>3. Quiet => Quiet'
  BY QuietFewer
<1>4. \A m : Got(m)' = Got(m)
  BY DEF Got
<1>5. Exchanges'
  BY <1>1, <1>3, <1>4 DEF Exchanges
<1>. QED
  BY <1>2, <1>5

\* A request without packets before it.
LEMMA RequestSent ==
  ASSUME Types, NEW op \in Ops, NEW m \in Message, NEW packet \in Packet, NEW waits \in BOOLEAN,
         Request(op, m, <<>>, packet, waits)
  PROVE  \E sent \in BOOLEAN :
           /\ IF link = "up" /\ sent THEN toBroker' = toBroker \o <<packet>>
                                     ELSE toBroker' = toBroker
           /\ IF sent /\ waits
              THEN call' = [op |-> op, m |-> m] /\ isconnected' = isconnected
              ELSE call' = Idle /\ isconnected' = sent
           /\ \/ completed' = completed
              \/ completed' = completed \cup {m} /\ op = "publish" /\ ~waits /\ m.qos > 0
<1>1. PICK e \in Seq(Packet) : e = <<>>
  BY EmptyQueue
<1>2. e \o <<packet>> = <<packet>> /\ toBroker \o e = toBroker
  BY <1>1, Single, ConcatEmptySeq DEF Types, LinkTypes
<1>3. Request(op, m, e, packet, waits)
  BY <1>1
<1>4. PICK sent \in BOOLEAN :
        /\ IF link = "up" THEN toBroker' = toBroker \o (IF sent THEN e \o <<packet>> ELSE e)
                          ELSE toBroker' = toBroker
        /\ IF sent /\ waits
           THEN call' = [op |-> op, m |-> m] /\ isconnected' = isconnected
           ELSE call' = Idle /\ isconnected' = sent
        /\ \/ completed' = completed
           \/ completed' = completed \cup {m} /\ op = "publish" /\ ~waits /\ m.qos > 0
  BY <1>3, RequestFacts, SMTT(60)
<1>5. IF link = "up" /\ sent THEN toBroker' = toBroker \o <<packet>> ELSE toBroker' = toBroker
  BY <1>2, <1>4
<1>. QED
  BY <1>4, <1>5

\* A call that sends a packet other than a QoS 1 message, and waits.
LEMMA ExchangesRequest ==
  ASSUME PInv, NEW op \in {"connect", "subscribe", "unsubscribe"}, NEW packet \in Packet,
         packet \notin Publishes, Request(op, NoMessage, <<>>, packet, TRUE), call.op = "idle",
         op = "connect" <=> ~isconnected,
         UNCHANGED <<link, toClient, accepted, received, inflight, stored>>
  PROVE  Connected' /\ Exchanges'
<1>. USE DEF PInv
<1>1. op \in Ops /\ NoMessage \in Message
  BY NoMessageType DEF Ops
<1>2. PICK sent \in BOOLEAN :
        /\ toBroker' = toBroker \o <<packet>> \/ toBroker' = toBroker
        /\ IF sent THEN call' = [op |-> op, m |-> NoMessage] /\ isconnected' = isconnected
                   ELSE call' = Idle /\ isconnected' = sent
        /\ completed' = completed
  <2>1. PICK waits \in BOOLEAN : waits = TRUE
    OBVIOUS
  <2>2. Request(op, NoMessage, <<>>, packet, waits)
    BY <2>1
  <2>3. op # "publish"
    OBVIOUS
  <2>. QED
    BY <1>1, <2>1, <2>2, <2>3, RequestSent
<1>3. <<packet>> \in Seq(Packet) /\ None(<<packet>>, Publishes)
  BY Single
<1>4. Fewer
  BY <1>2, <1>3, FewerToClient, FewerToBroker DEF Fewer
<1>5. CASE sent
  <2>1. call'.op = op /\ isconnected' = isconnected
    BY <1>2, <1>5
  <2>. QED
    BY <1>2, <1>4, <2>1, ExchangesCall
<1>6. CASE ~sent
  <2>1. call'.op = "idle" /\ ~isconnected'
    BY <1>2, <1>6, NoMessageType
  <2>. QED
    BY <1>2, <1>4, <2>1, ExchangesCall
<1>. QED
  BY <1>5, <1>6

LEMMA ExchangesPublish ==
  ASSUME PInv, NEW qos \in PublishQoS, publish(qos)
  PROVE  Connected' /\ Exchanges'
<1>. USE DEF PInv
<1>0. toBroker \in Seq(Packet) /\ toClient \in Seq(Packet)
  BY DEF Types, LinkTypes
<1>1. /\ call.op = "idle" /\ isconnected
      /\ UNCHANGED <<link, toClient, accepted, received>>
  BY NoMessageType DEF publish, Begin, brokerVars
<1>2. PICK m \in Message :
         LET packet == Pkt("PUBLISH", m.id, qos, m.msg)
         IN /\ packet \in Packet /\ packet.type = "PUBLISH" /\ packet.val = qos
            /\ Request("publish", m, <<>>, packet, qos = 1)
            /\ m.qos = qos /\ m.id = (IF qos > 0 THEN getNext ELSE 0)
            /\ inflight' = IF cleansession THEN inflight ELSE m
            /\ stored' = IF cleansession \/ qos = 0 THEN stored ELSE stored \cup {m}
  BY publishFacts
<1>. DEFINE packet == Pkt("PUBLISH", m.id, qos, m.msg)
<1>3. packet \in Packet /\ packet.type = "PUBLISH" /\ packet.val = qos
  BY <1>2
<1>4. qos \in 0 .. 2
  BY Constants
<1>5. /\ accepted \/ link # "up"
      /\ None(toClient, Connacks) /\ Quiet /\ (inflight.id = 0 \/ inflight.qos = 2)
      /\ \A x \in stored : x.qos = 1 => Got(x.msg)
      /\ \A x \in completed : x.qos = 1 => Got(x.msg)
  BY <1>1 DEF Connected, Exchanges
<1>6. \A x : Got(x)' = Got(x)
  BY <1>1 DEF Got
<1>7. PICK sent \in BOOLEAN :
        /\ IF link = "up" /\ sent THEN toBroker' = toBroker \o <<packet>>
                                  ELSE toBroker' = toBroker
        /\ IF sent /\ qos = 1
           THEN call' = [op |-> "publish", m |-> m] /\ isconnected' = isconnected
           ELSE call' = Idle /\ isconnected' = sent
        /\ \/ completed' = completed
           \/ completed' = completed \cup {m} /\ qos # 1 /\ m.qos > 0
  <2>1. "publish" \in Ops
    BY DEF Ops
  <2>2. PICK waits \in BOOLEAN : waits = (qos = 1)
    OBVIOUS
  <2>3. Request("publish", m, <<>>, packet, waits)
    BY <1>2, <2>2
  <2>. HIDE DEF packet, PInv
  <2>4. PICK sent \in BOOLEAN :
          /\ IF link = "up" /\ sent THEN toBroker' = toBroker \o <<packet>>
                                    ELSE toBroker' = toBroker
          /\ IF sent /\ waits
             THEN call' = [op |-> "publish", m |-> m] /\ isconnected' = isconnected
             ELSE call' = Idle /\ isconnected' = sent
          /\ \/ completed' = completed
             \/ completed' = completed \cup {m} /\ ~waits /\ m.qos > 0
    BY <1>3, <2>1, <2>3, RequestSent DEF PInv
  <2>5. IF sent /\ qos = 1
        THEN call' = [op |-> "publish", m |-> m] /\ isconnected' = isconnected
        ELSE call' = Idle /\ isconnected' = sent
    BY <2>2, <2>4
  <2>6. \/ completed' = completed
        \/ completed' = completed \cup {m} /\ qos # 1 /\ m.qos > 0
    BY <2>2, <2>4
  <2>. QED
    BY <2>4, <2>5, <2>6
<1>8. \A x \in completed' : x.qos = 1 => Got(x.msg)'
  BY <1>2, <1>5, <1>6, <1>7
<1>. HIDE DEF packet
<1>9. <<packet>> \in Seq(Packet) /\ \A S : (Once(<<packet>>, S) /\ (packet \notin S => None(<<packet>>, S)))
  BY <1>3, Single
<1>10. CASE qos # 1
  <2>1. m.id = 0 \/ m.qos = 2
    BY <1>2, <1>4, <1>10
  <2>2. /\ inflight'.id = 0 \/ inflight'.qos = 2
        /\ \A x \in stored' : x.qos = 1 => Got(x.msg)'
    BY <1>2, <1>5, <1>6, <1>10, <2>1
  <2>3. call'.op = "idle"
    BY <1>7, <1>10, NoMessageType
  <2>4. packet \notin Publishes
    BY <1>3, <1>10 DEF Publishes
  <2>5. Quiet'
    <3>1. None(toBroker', Publishes)
      BY <1>0, <1>5, <1>7, <1>9, <2>4, JoinNone DEF Quiet
    <3>. QED
      BY <1>1, <1>5, <3>1 DEF Quiet
  <2>6. Connected'
    BY <1>1, <1>5, <2>3 DEF Connected
  <2>. HIDE DEF PInv
  <2>7. Exchanges'
    BY <1>8, <2>2, <2>3, <2>5 DEF Exchanges
  <2>. QED
    BY <2>6, <2>7
<1>11. CASE qos = 1
  <2>1. m.id \in Nat /\ m.id > 0 /\ m.qos = 1
    BY <1>2, <1>11, getNextType, Constants
  <2>2. /\ inflight' = m \/ (inflight' = inflight /\ stored' = stored)
        /\ stored' \subseteq stored \cup {m}
    BY <1>2
  <2>3. /\ inflight'.id = 0 \/ inflight' = m \/ inflight'.qos = 2
        /\ inflight'.id > 0 => inflight'.qos \in {1, 2}
    BY <1>5, <2>1, <2>2
  <2>4. \A x \in stored' : x.qos = 1 => (inflight'.id > 0 /\ inflight' = x) \/ Got(x.msg)'
    BY <1>5, <1>6, <2>1, <2>2
  <2>5. CASE sent
    <3>1. call'.op = "publish" /\ call'.m = m /\ isconnected'
      BY <1>1, <1>7, <1>11, <2>5
    <3>2. Connected'
      BY <1>1, <1>5, <3>1 DEF Connected
    <3>3. Once(toBroker', Publishes)
      BY <1>0, <1>5, <1>7, <1>9, OfNone, JoinOnce, ZenonT(60) DEF Quiet
    <3>4. None(toBroker', Publishes \ {packet})
      <4>1. None(toBroker, Publishes \ {packet}) /\ packet \notin Publishes \ {packet}
        BY <1>0, <1>5, SubNone DEF Quiet
      <4>. QED
        BY <1>0, <1>7, <1>9, <4>1, JoinNone, ZenonT(60)
    <3>5. /\ None(toClient', Pubacks) /\ Once(toClient', Pubacks)
          /\ None(toClient', {p \in Pubacks : p.id # m.id})
      BY <1>0, <1>1, <1>5, OfNone, SubNone DEF Quiet
    <3>6. Exchange(m)'
      BY <1>11, <2>1, <3>3, <3>4, <3>5 DEF Exchange, packet
    <3>7. ~accepted => Quiet'
      BY <1>1, <1>5, <1>7 DEF Quiet
    <3>. HIDE DEF PInv
    <3>. QED
      BY <1>1, <1>5, <1>6, <1>8, <2>3, <2>4, <3>1, <3>2, <3>6, <3>7 DEF Exchanges
  <2>6. CASE ~sent
    <3>1. call'.op = "idle" /\ ~isconnected' /\ toBroker' = toBroker
      BY <1>7, <2>6, NoMessageType
    <3>2. Connected' /\ Quiet'
      BY <1>1, <1>5, <3>1 DEF Connected, Quiet
    <3>. HIDE DEF PInv
    <3>. QED
      BY <1>5, <1>6, <1>8, <2>3, <2>4, <3>1, <3>2 DEF Exchanges
  <2>. QED
    BY <2>5, <2>6
<1>. QED
  BY <1>10, <1>11

LEMMA ExchangesCalls ==
  ASSUME PInv, Calls
  PROVE  Connected' /\ Exchanges'
<1>. USE DEF PInv
<1>0. UNCHANGED <<link, toClient, accepted, received>>
  BY CallsSend DEF brokerVars
<1>1. ASSUME NEW clean \in CleanSessions, connect(clean)
      PROVE  Connected' /\ Exchanges'
  <2>1. call.op = "idle" /\ ~isconnected /\ UNCHANGED <<inflight, stored>>
    BY <1>1, NoMessageType DEF connect, Begin
  <2>2. PICK packet \in Packet : /\ packet.type = "CONNECT"
                                 /\ Request("connect", NoMessage, <<>>, packet, TRUE)
    BY <1>1, connectFacts
  <2>3. packet \notin Publishes
    BY <2>2 DEF Publishes
  <2>. QED
    BY <1>0, <2>1, <2>2, <2>3, ExchangesRequest
<1>2. ASSUME subscribe(2)
      PROVE  Connected' /\ Exchanges'
  <2>1. call.op = "idle" /\ isconnected /\ UNCHANGED <<inflight, stored>>
    BY <1>2, NoMessageType DEF subscribe, Begin
  <2>2. PICK packet \in Packet : /\ packet.type = "SUBSCRIBE"
                                 /\ Request("subscribe", NoMessage, <<>>, packet, TRUE)
    BY <1>2, subscribeFacts
  <2>3. packet \notin Publishes
    BY <2>2 DEF Publishes
  <2>. QED
    BY <1>0, <2>1, <2>2, <2>3, ExchangesRequest
<1>3. ASSUME unsubscribe
      PROVE  Connected' /\ Exchanges'
  <2>1. call.op = "idle" /\ isconnected /\ UNCHANGED <<inflight, stored>>
    BY <1>3, NoMessageType DEF unsubscribe, Begin
  <2>2. PICK packet \in Packet : /\ packet.type = "UNSUBSCRIBE"
                                 /\ Request("unsubscribe", NoMessage, <<>>, packet, TRUE)
    BY <1>3, unsubscribeFacts
  <2>3. packet \notin Publishes
    BY <2>2 DEF Publishes
  <2>. QED
    BY <1>0, <2>1, <2>2, <2>3, ExchangesRequest
<1>4. ASSUME yield
      PROVE  Connected' /\ Exchanges'
  <2>1. /\ call.op = "idle" /\ call'.op = "yield" /\ toBroker' = toBroker
        /\ UNCHANGED <<isconnected, inflight, stored, completed>>
    BY <1>4, NoMessageType DEF yield, Begin
  <2>2. Fewer
    BY <1>0, <2>1, FewerToClient, FewerToBroker DEF Fewer
  <2>. QED
    BY <1>0, <2>1, <2>2, ExchangesCall
<1>5. ASSUME disconnect
      PROVE  Connected' /\ Exchanges'
  <2>. DEFINE packet == Pkt("DISCONNECT", 0, 0, 0)
  <2>1. /\ call'.op = "idle" /\ ~isconnected'
        /\ UNCHANGED <<inflight, stored, completed>>
    BY <1>5, NoMessageType DEF disconnect, Return
  <2>4. toBroker' = toBroker \/ toBroker' = toBroker \o <<packet>>
    BY <1>5, ConcatEmptySeq DEF disconnect, sendPacket, Types, LinkTypes
  <2>2. packet \in Packet /\ packet.type = "DISCONNECT"
    BY ZeroId, PktType DEF PacketTypes
  <2>. HIDE DEF packet
  <2>3. <<packet>> \in Seq(Packet) /\ None(<<packet>>, Publishes)
    BY <2>2, Single DEF Publishes
  <2>5. Fewer
    BY <1>0, <2>3, <2>4, FewerToClient, FewerToBroker DEF Fewer
  <2>. QED
    BY <1>0, <2>1, <2>5, ExchangesCall
<1>6. ASSUME GiveUp
      PROVE  Connected' /\ Exchanges'
  <2>1. /\ call'.op = "idle" /\ isconnected' = (call.op = "yield" /\ isconnected)
        /\ UNCHANGED <<inflight, stored, completed>>
    BY <1>6, NoMessageType DEF GiveUp, Return
  <2>2. PICK b \in Seq(Packet) : Sends(b) /\ None(b, NoPing)
    BY <1>6, GiveUpFacts
  <2>3. None(b, Publishes)
    <3>1. Publishes \subseteq NoPing
      BY DEF Publishes, NoPing
    <3>. QED
      BY <2>2, <3>1, SubNone
  <2>4. Fewer
    BY <1>0, <2>2, <2>3, FewerToClient, FewerToBroker DEF Fewer, Sends
  <2>. QED
    BY <1>0, <2>1, <2>4, ExchangesCall
<1>. QED
  BY <1>1, <1>2, <1>3, <1>4, <1>5, <1>6, ExchangesPublish DEF Calls

LEMMA PingFacts ==
  ASSUME NEW ping \in Seq(Packet), None(ping, NoPing)
  PROVE  None(ping, Publishes) /\ \A x : None(ping, Publishes \ {x})
<1>1. Publishes \subseteq NoPing /\ \A x : (Publishes \ {x} \subseteq NoPing)
  BY DEF Publishes, NoPing
<1>. QED
  BY <1>1, SubNone

\* cycle reads a packet that the call does not wait for.
LEMMA ExchangesOther ==
  ASSUME PInv, Cycle, Head(toClient).type # Awaited(call.op)
  PROVE  Connected' /\ Exchanges'
<1>. DEFINE p == Head(toClient)
<1>. USE DEF PInv
<1>1. /\ toClient # <<>> /\ p \in Packet /\ toClient' = Tail(toClient)
      /\ UNCHANGED <<link, brokerVars, stored>>
      /\ UNCHANGED <<inflight, completed, isconnected>>
      /\ call' = call \/ (call' = Idle /\ call.op = "yield")
  BY CycleFacts
<1>2. PICK ping \in Seq(Packet) :
        /\ None(ping, NoPing)
        /\ toBroker' = toBroker \/ toBroker' = toBroker \o (Replies(p) \o ping)
  BY CycleFacts
<1>3. UNCHANGED <<accepted, received>>
  BY <1>1 DEF brokerVars
<1>4. Replies(p) \in Seq(Packet) /\ None(Replies(p), Publishes)
  <2>1. CASE Replies(p) = <<>>
    BY <2>1, EmptyQueue
  <2>2. ASSUME NEW r \in Packet, Replies(p) = <<r>>, r.type # "PUBLISH"
        PROVE  None(Replies(p), Publishes)
    BY <2>2, Single DEF Publishes
  <2>. QED
    BY <1>1, <2>1, <2>2, ReplyType
<1>. HIDE DEF p
<1>5. Replies(p) \o ping \in Seq(Packet) /\ None(Replies(p) \o ping, Publishes)
  BY <1>2, <1>4, PingFacts, QueueJoin, JoinNone
<1>6. Fewer
  <2>1. PICK b \in Seq(Packet) : b = Replies(p) \o ping
    BY <1>5
  <2>2. None(b, Publishes) /\ (toBroker' = toBroker \o b \/ toBroker' = toBroker)
    BY <1>2, <1>5, <2>1
  <2>. QED
    BY <1>1, <2>2, FewerToClient, FewerToBroker DEF Fewer
<1>7. CASE call' = call
  <2>1. Rest
    BY <1>1, <1>7 DEF Rest
  <2>2. \A m : Got(m) => Got(m)'
    BY <1>3 DEF Got
  <2>. QED
    BY <1>1, <1>3, <1>6, <2>1, <2>2, ExchangesFewer
<1>8. CASE call' = Idle /\ call.op = "yield"
  <2>1. call'.op = "idle"
    BY <1>8, NoMessageType
  <2>. QED
    BY <1>1, <1>3, <1>6, <1>8, <2>1, ExchangesCall
<1>. QED
  BY <1>1, <1>7, <1>8

\* The SUBACK or UNSUBACK that the call waits for has come.
LEMMA ExchangesGranted ==
  ASSUME PInv, Cycle, Head(toClient).type = Awaited(call.op),
         call.op \in {"subscribe", "unsubscribe"}
  PROVE  Connected' /\ Exchanges'
<1>. DEFINE p == Head(toClient)
<1>. USE DEF PInv
<1>1. /\ toClient # <<>> /\ p \in Packet /\ toClient' = Tail(toClient)
      /\ UNCHANGED <<link, brokerVars, stored>>
  BY CycleFacts
<1>2. PICK ping \in Seq(Packet) : None(ping, NoPing) /\ Complete(p, ping)
  BY CycleFacts
<1>3. p.type \in {"SUBACK", "UNSUBACK"}
  BY DEF Awaited
<1>. HIDE DEF p
<1>4. inflight' = inflight
  BY <1>2, <1>3 DEF Complete, Acked
<1>5. call' = Idle /\ sendPacket(ping) /\ completed' = completed
  BY <1>2 DEF Complete, Return
<1>6. UNCHANGED <<accepted, received>>
  BY <1>1 DEF brokerVars
<1>7. toBroker' = toBroker \o ping \/ toBroker' = toBroker
  BY <1>5 DEF sendPacket
<1>8. Fewer
  BY <1>1, <1>2, <1>7, PingFacts, FewerToClient, FewerToBroker DEF Fewer
<1>9. isconnected
  BY DEF Connected
<1>10. call'.op = "idle"
  BY <1>5, NoMessageType
<1>. QED
  BY <1>1, <1>4, <1>5, <1>6, <1>8, <1>9, <1>10, ExchangesCall

\* The PUBACK that publish or the republish of connect waits for has come.
LEMMA ExchangesAcked ==
  ASSUME PInv, Cycle, Head(toClient).type = Awaited(call.op),
         call.op \in {"publish", "republish"}
  PROVE  Connected' /\ Exchanges'
<1>. DEFINE p == Head(toClient)
<1>. USE DEF PInv
<1>0. /\ toBroker \in Seq(Packet) /\ toClient \in Seq(Packet)
      /\ inflight \in Message /\ call.m \in Message
  BY CallFields DEF Types, LinkTypes, ClientTypes
<1>1. /\ toClient # <<>> /\ p \in Packet /\ toClient' = Tail(toClient)
      /\ UNCHANGED <<link, brokerVars, stored>>
  BY CycleFacts
<1>2. PICK ping \in Seq(Packet) : None(ping, NoPing) /\ Complete(p, ping)
  BY CycleFacts
<1>3. p.type = "PUBACK" /\ p \in Pubacks
  BY <1>1 DEF Awaited, Pubacks
<1>4. UNCHANGED <<accepted, received>>
  BY <1>1 DEF brokerVars
<1>5. PICK m : m = call.m
  OBVIOUS
<1>6. Exchange(m)
  BY <1>5 DEF Exchanges
<1>7. ~None(toClient, Pubacks) /\ None(toBroker, Publishes) /\ Got(m.msg)
  BY <1>0, <1>1, <1>3, <1>6, HeadNone DEF Exchange
<1>8. p.id = m.id
  <2>1. p \notin {x \in Pubacks : x.id # m.id}
    BY <1>0, <1>1, <1>6, HeadNone DEF Exchange
  <2>. QED
    BY <1>3, <2>1
<1>9. accepted
  <2>1. p \notin Refusals
    BY <1>3 DEF Refusals
  <2>2. ~None(toClient, Packet \ Refusals)
    BY <1>0, <1>1, <2>1, HeadNone
  <2>. QED
    BY <2>2 DEF Greeted
<1>10. None(toClient', Connacks) /\ None(toClient', Pubacks)
  <2>1. None(toClient, Connacks)
    BY DEF Connected
  <2>. QED
    BY <1>0, <1>1, <1>3, <1>6, <2>1, TailNone, TailOnce DEF Exchange
<1>. HIDE DEF p
<1>11. /\ call' = Idle /\ isconnected' = TRUE /\ sendPacket(ping) /\ inflight' = Acked(p)
       /\ completed' = IF call.op = "publish" THEN completed \cup {call.m} ELSE completed
  BY <1>2 DEF Complete, Return
<1>12. call'.op = "idle"
  BY <1>11, NoMessageType
<1>13. inflight = m \/ inflight.id = 0 \/ inflight.qos = 2
  BY <1>5 DEF Exchanges
<1>14. inflight'.id = 0 \/ inflight'.qos = 2
  <2>1. CASE inflight = m
    BY <1>3, <1>8, <1>11, <2>1, NoMessageType DEF Acked
  <2>2. CASE inflight.id = 0 \/ inflight.qos = 2
    BY <1>11, <2>2, NoMessageType DEF Acked
  <2>. QED
    BY <1>13, <2>1, <2>2
<1>15. Quiet'
  <2>1. None(toBroker', Publishes)
    BY <1>0, <1>2, <1>7, <1>11, PingFacts, JoinNone DEF sendPacket
  <2>. QED
    BY <1>10, <2>1 DEF Quiet
<1>16. Connected'
  BY <1>4, <1>9, <1>10, <1>12 DEF Connected
<1>17. \A x : Got(x)' = Got(x)
  BY <1>4 DEF Got
<1>18. \A x \in stored : x.qos = 1 => Got(x.msg)
  <2>1. \A x : x.qos = 1 /\ inflight = x /\ inflight.id > 0 => x = m
    BY <1>13
  <2>. QED
    BY <1>7, <2>1 DEF Exchanges
<1>19. \A x \in completed' : x.qos = 1 => Got(x.msg)
  BY <1>5, <1>7, <1>11 DEF Exchanges
<1>. HIDE DEF PInv
<1>20. stored' = stored
  BY <1>1
<1>21. Exchanges'
  BY <1>12, <1>14, <1>15, <1>17, <1>18, <1>19, <1>20 DEF Exchanges
<1>. QED
  BY <1>16, <1>21

\* The CONNACK that connect waits for has come: it is the only one, and nothing
\* of an earlier publish is under way.
LEMMA ExchangesConnacked ==
  ASSUME PInv, Cycle, Head(toClient).type = Awaited(call.op), call.op = "connect"
  PROVE  Connected' /\ Exchanges'
<1>. DEFINE p == Head(toClient)
<1>. USE DEF PInv
<1>0. /\ toBroker \in Seq(Packet) /\ toClient \in Seq(Packet) /\ inflight \in Message
      /\ accepted \in BOOLEAN
  BY DEF Types, LinkTypes, BrokerTypes, ClientTypes
<1>1. /\ toClient # <<>> /\ p \in Packet /\ toClient' = Tail(toClient)
      /\ UNCHANGED <<link, brokerVars, stored>>
  BY CycleFacts
<1>2. PICK ping \in Seq(Packet) : None(ping, NoPing) /\ Complete(p, ping)
  BY CycleFacts
<1>3. p.type = "CONNACK" /\ p \in Connacks
  BY <1>1 DEF Awaited, Connacks
<1>4. UNCHANGED <<accepted, received, link>> /\ stored' = stored
  BY <1>1 DEF brokerVars
<1>5. ~None(toClient, Connacks) /\ None(toClient', Connacks)
  BY <1>0, <1>1, <1>3, HeadNone, TailOnce DEF Greeted
<1>6. Quiet /\ ~isconnected
  BY <1>5 DEF Exchanges, Connected
<1>7. /\ accepted \/ link # "up"
      /\ p.val = 0 => accepted
  <2>1. ~None(toClient, Packet)
    BY <1>0, <1>1, HeadNone
  <2>2. ASSUME p.val = 0, ~accepted
        PROVE  FALSE
    <3>1. p \notin Packet \ Refusals
      BY <1>0, <1>1, <2>2, HeadNone DEF Greeted
    <3>. QED
      BY <1>1, <2>2, <3>1 DEF Refusals
  <2>. QED
    BY <2>1, <2>2 DEF Greeted
<1>8. None(toClient', Pubacks) /\ Once(toClient', Pubacks)
  BY <1>0, <1>1, <1>6, TailNone, OfNone, QueueTail DEF Quiet
<1>9. \A x : Got(x)' = Got(x)
  BY <1>4 DEF Got
<1>10. /\ \A x \in stored : x.qos = 1 => (inflight.id > 0 /\ inflight = x) \/ Got(x.msg)
       /\ \A x \in completed : x.qos = 1 => Got(x.msg)
       /\ inflight.id > 0 => inflight.qos \in {1, 2}
  BY DEF Exchanges
<1>. HIDE DEF p
<1>11. inflight' = inflight /\ Connacked(p, ping)
  BY <1>2, <1>3 DEF Complete, Acked
<1>12. CASE ~(inflight.id > 0)
  <2>1. call' = Idle /\ isconnected' = (p.val = 0) /\ sendPacket(ping) /\ completed' = completed
    BY <1>11, <1>12 DEF Connacked, Return
  <2>2. call'.op = "idle"
    BY <2>1, NoMessageType
  <2>3. None(toBroker', Publishes)
    BY <1>0, <1>2, <1>6, <2>1, PingFacts, JoinNone DEF sendPacket, Quiet
  <2>4. Quiet'
    BY <1>8, <2>3 DEF Quiet
  <2>5. Connected'
    BY <1>4, <1>5, <1>7, <2>1, <2>2 DEF Connected
  <2>6. inflight.id = 0
    BY <1>0, <1>12, MessageFields
  <2>. HIDE DEF PInv
  <2>7. Exchanges'
    BY <1>4, <1>9, <1>10, <1>11, <2>1, <2>2, <2>4, <2>6 DEF Exchanges
  <2>. QED
    BY <2>5, <2>7
<1>13. CASE inflight.id > 0
  <2>1. PICK m \in Message : m = inflight
    BY <1>0
  <2>. DEFINE packet == Pkt("PUBLISH", m.id, m.qos, m.msg)
  <2>2. m.id > 0 /\ m.qos \in {1, 2}
    BY <1>10, <1>13, <2>1
  <2>3. packet \in Packet /\ packet.type = "PUBLISH" /\ packet.val = m.qos
    BY PublishType
  <2>4. PICK w \in BOOLEAN : w = (m.qos = 1)
    OBVIOUS
  <2>5. Request("republish", m, ping, packet, w)
    <3>1. Request("republish", inflight, ping,
                  Pkt("PUBLISH", inflight.id, inflight.qos, inflight.msg), inflight.qos = 1)
      BY <1>11, <1>13 DEF Connacked
    <3>. QED
      BY <2>1, <2>4, <3>1
  <2>. HIDE DEF packet
  <2>6. PICK sent \in BOOLEAN :
          /\ IF link = "up" THEN toBroker' = toBroker \o (IF sent THEN ping \o <<packet>> ELSE ping)
                            ELSE toBroker' = toBroker
          /\ IF sent /\ w
             THEN call' = [op |-> "republish", m |-> m] /\ isconnected' = isconnected
             ELSE call' = Idle /\ isconnected' = sent
          /\ completed' = completed
    <3>1. PICK op \in Ops : op = "republish"
      BY DEF Ops
    <3>2. Request(op, m, ping, packet, w)
      BY <2>5, <3>1
    <3>. HIDE DEF PInv
    <3>3. Types
      BY DEF PInv
    <3>4. PICK sent \in BOOLEAN :
            /\ IF link = "up" THEN toBroker' = toBroker \o (IF sent THEN ping \o <<packet>> ELSE ping)
                              ELSE toBroker' = toBroker
            /\ IF sent /\ w
               THEN call' = [op |-> op, m |-> m] /\ isconnected' = isconnected
               ELSE call' = Idle /\ isconnected' = sent
            /\ \/ completed' = completed
               \/ completed' = completed \cup {m} /\ op = "publish" /\ ~w /\ m.qos > 0
      BY <1>2, <2>3, <3>2, <3>3, RequestFacts
    <3>. QED
      BY <3>1, <3>4
  <2>7. completed' = completed
    BY <2>6
  <2>8. <<packet>> \in Seq(Packet) /\ \A S : (Once(<<packet>>, S) /\ (packet \notin S => None(<<packet>>, S)))
    BY <2>3, Single
  <2>9. ~accepted => Quiet'
    BY <1>6, <1>7, <1>8, <2>6 DEF Quiet
  <2>10. CASE sent /\ m.qos = 1
    <3>0. call' = [op |-> "republish", m |-> m] /\ isconnected' = isconnected
      <4>1. w
        BY <2>4, <2>10
      <4>. QED
        BY <2>6, <2>10, <4>1
    <3>1. call'.op = "republish" /\ call'.m = m /\ ~isconnected'
      BY <1>6, <3>0
    <3>2. Connected'
      BY <1>4, <1>5, <1>7, <3>1 DEF Connected
    <3>. DEFINE b == ping \o <<packet>>
    <3>3. b \in Seq(Packet)
      BY <2>8, QueueJoin
    <3>4. Once(b, Publishes)
      BY <1>2, <2>8, PingFacts, OfNone, JoinOnce
    <3>5. None(b, Publishes \ {packet})
      <4>1. None(<<packet>>, Publishes \ {packet})
        BY <2>8
      <4>. QED
        BY <1>2, <2>8, <4>1, PingFacts, JoinNone
    <3>6. toBroker' = toBroker \/ toBroker' = toBroker \o b
      BY <2>6, <2>10
    <3>. HIDE DEF b
    <3>7. None(toBroker, Publishes) /\ None(toBroker, Publishes \ {packet})
      BY <1>0, <1>6, SubNone DEF Quiet
    <3>8. Once(toBroker', Publishes) /\ None(toBroker', Publishes \ {packet})
      BY <1>0, <3>3, <3>4, <3>5, <3>6, <3>7, OfNone, JoinOnce, JoinNone, ZenonT(60)
    <3>9. None(toClient', {x \in Pubacks : x.id # m.id})
      BY <1>8 DEF None
    <3>10. Exchange(m)'
      BY <1>8, <2>2, <2>10, <3>8, <3>9 DEF Exchange, packet
    <3>. HIDE DEF PInv
    <3>11. Exchanges'
      BY <1>4, <1>5, <1>9, <1>10, <1>11, <2>1, <2>7, <2>9, <3>1, <3>10 DEF Exchanges
    <3>. QED
      BY <3>2, <3>11
  <2>11. CASE ~sent
    <3>1. call'.op = "idle" /\ ~isconnected'
      BY <2>6, <2>11, NoMessageType
    <3>2. Connected'
      BY <3>1 DEF Connected
    <3>. HIDE DEF PInv
    <3>3. Exchanges'
      BY <1>4, <1>5, <1>9, <1>10, <1>11, <2>7, <2>9, <3>1 DEF Exchanges
    <3>. QED
      BY <3>2, <3>3
  <2>12. CASE sent /\ m.qos = 2
    <3>0. call' = Idle
      <4>1. m.qos # 1
        BY <2>12
      <4>2. ~w
        BY <2>4, <4>1, Zenon
      <4>. QED
        BY <2>6, <4>2
    <3>1. call'.op = "idle"
      BY <3>0, NoMessageType
    <3>2. Connected'
      BY <1>4, <1>5, <1>7, <3>1 DEF Connected
    <3>3. packet \notin Publishes
      BY <2>3, <2>12 DEF Publishes
    <3>. DEFINE b == ping \o <<packet>>
    <3>4. b \in Seq(Packet) /\ None(b, Publishes)
      BY <1>2, <2>8, <3>3, PingFacts, QueueJoin, JoinNone
    <3>5. toBroker' = toBroker \/ toBroker' = toBroker \o b
      BY <2>6, <2>12
    <3>. HIDE DEF b
    <3>6. Quiet'
      <4>1. None(toBroker', Publishes)
        BY <1>0, <1>6, <3>4, <3>5, JoinNone DEF Quiet
      <4>. QED
        BY <1>8, <4>1 DEF Quiet
    <3>. HIDE DEF PInv
    <3>7. Exchanges'
      BY <1>4, <1>9, <1>10, <1>11, <2>1, <2>7, <2>12, <3>1, <3>6 DEF Exchanges
    <3>. QED
      BY <3>2, <3>7
  <2>. QED
    BY <2>2, <2>10, <2>11, <2>12
<1>. QED
  BY <1>12, <1>13

LEMMA ExchangesCycle ==
  ASSUME PInv, Cycle
  PROVE  Connected' /\ Exchanges'
<1>1. /\ call.op \in Ops /\ Head(toClient).type \in PacketTypes
  BY CallFields, CycleFacts, PacketFields DEF PInv
<1>2. CASE call.op \in {"subscribe", "unsubscribe"}
  BY <1>2, ExchangesGranted, ExchangesOther
<1>3. CASE call.op \in {"publish", "republish"}
  BY <1>3, ExchangesAcked, ExchangesOther
<1>4. CASE call.op = "connect"
  BY <1>4, ExchangesConnacked, ExchangesOther
<1>5. CASE call.op \in {"idle", "yield"}
  <2>1. Awaited(call.op) = "none"
    BY <1>5 DEF Awaited
  <2>2. Head(toClient).type # Awaited(call.op)
    BY <1>1, <2>1 DEF PacketTypes
  <2>. QED
    BY <2>2, ExchangesOther
<1>. QED
  BY <1>1, <1>2, <1>3, <1>4, <1>5 DEF Ops

LEMMA PInvInit ==
  ASSUME Init
  PROVE  PInv
<1>1. /\ toBroker = <<>> /\ toClient = <<>> /\ call.op = "idle" /\ ~isconnected
      /\ inflight.id = 0 /\ stored = {} /\ completed = {}
  BY NoMessageType DEF Init, BrokerInit
<1>2. Connected
  BY <1>1 DEF Connected
<1>3. Quiet /\ None(toClient, Connacks)
  BY <1>1, EmptyQueue DEF Quiet
<1>4. Exchanges
  BY <1>1, <1>3 DEF Exchanges
<1>. QED
  BY <1>2, <1>4, TypesInit, GreetedInit DEF PInv

LEMMA PInvStep ==
  ASSUME PInv, [Next]_vars
  PROVE  PInv'
<1>1. Types' /\ Greeted'
  BY TypesStep, GreetedStep DEF PInv
<1>2. ASSUME UNCHANGED vars
      PROVE  Connected' /\ Exchanges'
  <2>1. /\ toBroker' = toBroker /\ toClient' = toClient /\ Rest
        /\ UNCHANGED <<link, accepted, received>>
    BY <1>2 DEF vars, brokerVars, clientVars, Rest
  <2>2. Fewer
    BY <2>1 DEF Fewer
  <2>3. \A m : Got(m) => Got(m)'
    BY <2>1 DEF Got
  <2>. QED
    BY <2>1, <2>2, <2>3, ExchangesFewer DEF PInv
<1>3. Connected' /\ Exchanges'
  BY <1>2, ExchangesBroker, ExchangesNetwork, ExchangesCalls, ExchangesCycle DEF Next, BrokerStep, Calls
<1>. QED
  BY <1>1, <1>3 DEF PInv

LEMMA PInvAlways == Spec => []PInv
<1>1. Init => PInv
  BY PInvInit
<1>2. PInv /\ [Next]_vars => PInv'
  BY PInvStep
<1>. QED
  BY <1>1, <1>2, PTL DEF Spec

\* When publish has returned SUCCESS for a QoS 1 message the broker has it: the
\* PUBACK that ended the wait was this message's own.
THEOREM SuccessMeansReceived == Spec => []PublishCompletes
<1>1. PInv => PublishCompletes
  BY DEF PInv, Exchanges, Got, PublishCompletes
<1>. QED
  BY <1>1, PInvAlways, PTL

\* A QoS 1 message that publish has kept for a reconnect stays in pubbuf until
\* the broker has it.
THEOREM KeptUntilReceived == Spec => []UnackedIsKept
<1>1. PInv => UnackedIsKept
  BY DEF PInv, Exchanges, Got, UnackedIsKept
<1>. QED
  BY <1>1, PInvAlways, PTL

----------------------------------------------------------------------------
(* When the client begins to take itself for connected.                    *)

\* A packet other than a refusal comes from a broker that has accepted.
LEMMA NotRefused ==
  ASSUME PInv, toClient # <<>>, Head(toClient) \notin Refusals
  PROVE  accepted
<1>1. toClient \in Seq(Packet)
  BY DEF PInv, Types, LinkTypes
<1>2. Head(toClient) \in Packet \ Refusals
  BY <1>1
<1>3. ~None(toClient, Packet \ Refusals)
  BY <1>1, <1>2, HeadNone
<1>. QED
  BY <1>3 DEF PInv, Greeted

LEMMA ConnectedCycle ==
  ASSUME PInv, Cycle, ~isconnected, isconnected'
  PROVE  accepted \/ inflight.qos = 2
<1>. DEFINE p == Head(toClient)
<1>1. /\ toClient # <<>> /\ p \in Packet
      /\ p.type = Awaited(call.op)
  BY CycleFacts DEF PInv
<1>2. PICK ping \in Seq(Packet) : Complete(p, ping)
  BY <1>1, CycleFacts DEF PInv
<1>3. CASE p \notin Refusals
  BY <1>1, <1>3, NotRefused
<1>4. CASE p \in Refusals
  <2>1. p.type = "CONNACK" /\ p.val # 0
    BY <1>4 DEF Refusals
  <2>. HIDE DEF p
  <2>2. call.op = "connect"
    BY <1>1, <2>1 DEF Awaited
  <2>3. Connacked(p, ping)
    BY <1>2, <2>2 DEF Complete
  <2>4. inflight.id > 0
    BY <2>1, <2>3 DEF Connacked, Return
  <2>5. Request("republish", inflight, ping,
                Pkt("PUBLISH", inflight.id, inflight.qos, inflight.msg), inflight.qos = 1)
    BY <2>3, <2>4 DEF Connacked
  <2>6. inflight.qos # 1
    <3>1. PICK w \in BOOLEAN : w = (inflight.qos = 1)
      OBVIOUS
    <3>2. PICK packet : Request("republish", inflight, ping, packet, w)
      BY <2>5, <3>1
    <3>3. w => isconnected' = FALSE \/ isconnected' = isconnected
      BY <3>2 DEF Request, Return
    <3>. QED
      BY <3>1, <3>3
  <2>. QED
    BY <2>4, <2>6 DEF PInv, Exchanges
<1>. QED
  BY <1>3, <1>4

LEMMA ConnectedStep ==
  ASSUME PInv, [Next]_vars, ~isconnected, isconnected'
  PROVE  accepted \/ inflight.qos = 2
<1>1. /\ ~UNCHANGED vars /\ ~BrokerStep /\ ~Reconnect /\ ~unsubscribe /\ ~subscribe(2)
      /\ ~yield /\ ~disconnect /\ ~GiveUp /\ \A qos \in PublishQoS : ~publish(qos)
  BY DEF vars, clientVars, BrokerStep, Reconnect, NetworkConnect, unsubscribe, subscribe, yield,
         disconnect, GiveUp, publish, Return
<1>2. ASSUME NEW clean \in CleanSessions, connect(clean)
      PROVE  FALSE
  <2>1. PICK packet : Request("connect", NoMessage, <<>>, packet, TRUE)
    BY <1>2 DEF connect
  <2>. QED
    BY <2>1 DEF Request, Return
<1>. QED
  BY <1>1, <1>2, ConnectedCycle DEF Next

\* The client begins to take itself for connected only on a connection that the
\* broker has accepted, or when a QoS 2 message is in flight.
THEOREM ConnectedMeansAccepted == Spec => ConnectedIsReal
<1>1. PInv /\ [Next]_vars => [~isconnected /\ isconnected' => accepted \/ inflight.qos = 2]_vars
  BY ConnectedStep
<1>. QED
  BY <1>1, PInvAlways, PTL DEF Spec, ConnectedIsReal
=============================================================================
