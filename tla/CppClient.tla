------------------------------ MODULE CppClient ------------------------------
(***************************************************************************)
(* The C++ client (MQTTClient.h) built with MQTTCLIENT_QOS1 and            *)
(* MQTTCLIENT_QOS2, as hello.cpp builds it: a blocking client that keeps   *)
(* its last publish to send it again when it reconnects, and a table of    *)
(* the incoming QoS 2 messages that await their PUBREL.                    *)
(*                                                                         *)
(* A call that waits runs cycle() until the packet it awaits has come or   *)
(* its timer has expired, which may be at any time.  The broker's packets  *)
(* are well formed and fit readbuf, and a packet is read or written whole  *)
(* or not at all.  Messages reach the application: a handler of last       *)
(* resort is set with setDefaultMessageHandler.                            *)
(***************************************************************************)
EXTENDS SessionBroker

CONSTANTS MAX_PACKET_ID, MAX_MESSAGE_HANDLERS, MAX_INCOMING_QOS2_MESSAGES,
          CharIsSigned,   \* is plain char signed?
          PublishQoS,     \* QoS of the application's messages
          CleanSessions,  \* the options the application connects with
          PingDue,        \* {FALSE}: the keep-alive timers never expire
          MaxConnections, MaxCalls   \* bounds

ASSUME CppAssumption ==
  /\ {MAX_PACKET_ID, MAX_MESSAGE_HANDLERS, MAX_INCOMING_QOS2_MESSAGES} \subseteq Nat \ {0}
  /\ CharIsSigned \in BOOLEAN
  /\ PublishQoS \subseteq 0 .. 2 /\ CleanSessions \subseteq BOOLEAN /\ PingDue \subseteq BOOLEAN
  /\ MaxConnections \in Nat /\ MaxCalls \in Nat

VARIABLES
  isconnected, cleansession, ping_outstanding,
  packetid,              \* PacketId.next
  inflight,              \* pubbuf, inflightMsgid (0: none) and inflightQoS
  incomingQoS2messages,  \* the identifiers in the table
  handlers,              \* number of messageHandlers in use
  call,                  \* the call under way and the QoS and number of its message
  ncalls, nconns,
  arrived,               \* history: messages passed to deliverMessage, in order
  stored,                \* history: QoS 1 and 2 messages kept for a reconnect
  completed,             \* history: those whose publish returned SUCCESS
  stale,                 \* history: identifiers in the table from an earlier session
  excused                \* history: QoS 2 messages dropped for these or a full table

clientVars == <<isconnected, cleansession, ping_outstanding, packetid, inflight,
                incomingQoS2messages, handlers, call, ncalls, nconns, arrived, stored, completed,
                excused>>
vars == <<link, toBroker, toClient, brokerVars, clientVars, stale>>

NoMessage == [id |-> 0, qos |-> 0, msg |-> 0]
Idle == [op |-> "idle", m |-> NoMessage]

\* The packet that each blocking call waits for; yield waits for none.
Awaited(op) ==
  CASE op = "connect" -> "CONNACK"      [] op = "republish" -> "PUBACK"
    [] op = "subscribe" -> "SUBACK"     [] op = "unsubscribe" -> "UNSUBACK"
    [] op = "publish" -> "PUBACK"       [] OTHER -> "none"

getNext == IF packetid = MAX_PACKET_ID THEN 1 ELSE packetid + 1

----------------------------------------------------------------------------
\* sendPacket succeeded with these packets.  It fails, and nothing is written,
\* when the timer has expired or write() fails, whatever the state of the
\* connection; and a write to a connection that is gone may still succeed.
sendPacket(packets) ==
  toBroker' = IF link = "up" THEN toBroker \o packets ELSE toBroker

isQoS2msgidFree(id) == id \notin incomingQoS2messages
useQoS2msgid == Cardinality(incomingQoS2messages) < MAX_INCOMING_QOS2_MESSAGES

\* Does cycle pass p to deliverMessage?
Delivers(p) ==
  p.type = "PUBLISH" /\ (p.val = 2 => isQoS2msgidFree(p.id) /\ useQoS2msgid)

\* What cycle answers p with: nothing, or one packet.
Replies(p) ==
  CASE p.type = "PUBLISH" /\ p.val = 1 -> <<Pkt("PUBACK", p.id, 0, 0)>>
    [] p.type = "PUBLISH" /\ p.val = 2 -> <<Pkt("PUBREC", p.id, 0, 0)>>
    [] p.type = "PUBREC"               -> <<Pkt("PUBREL", p.id, 0, 0)>>
    [] p.type = "PUBREL"               -> <<Pkt("PUBCOMP", p.id, 0, 0)>>
    [] OTHER                           -> <<>>

NeverFrees(p, sent) ==
  incomingQoS2messages \cup (IF Delivers(p) /\ p.val = 2 THEN {p.id} ELSE {})

NeverRecords(p, sent) == incomingQoS2messages \ {p.id}

\* The table after p: a PUBREL frees its identifier once PUBCOMP is sent.
QoS2Table(p, sent) ==
  CASE Delivers(p) /\ p.val = 2 -> incomingQoS2messages \cup {p.id}
    [] p.type = "PUBREL" /\ sent -> incomingQoS2messages \ {p.id}
    [] OTHER                    -> incomingQoS2messages

\* A QoS 2 message that is not delivered although it is new to the client: its
\* identifier is left from an earlier session, or is free but the table is full.
Drops(p) ==
  /\ p.type = "PUBLISH" /\ p.val = 2 /\ ~Delivers(p)
  /\ p.id \in stale \/ isQoS2msgidFree(p.id)

\* keepalive sends a PINGREQ when none is outstanding and it is due (and can be
\* written).
keepalive(due, outstanding) == IF due /\ ~outstanding THEN <<Pkt("PINGREQ", 0, 0, 0)>> ELSE <<>>

----------------------------------------------------------------------------
\* How a call ends.
Return(connected) == call' = Idle /\ isconnected' = connected

FireAndForget(op, m, before, packet, waits) ==
  /\ sendPacket(before \o <<packet>>)
  /\ IF op = "publish" THEN Return(TRUE)
     ELSE call' = [op |-> op, m |-> m] /\ UNCHANGED isconnected
  /\ completed' = IF op = "publish" /\ m.qos > 0 THEN completed \cup {m} ELSE completed

\* The results of a request whose packet is sent after the packets `before':
\* the call waits for an answer, or is over.
Request(op, m, before, packet, waits) ==
  \E sent \in BOOLEAN :
    /\ sendPacket(before \o (IF sent THEN <<packet>> ELSE <<>>))
    /\ IF sent /\ waits
       THEN call' = [op |-> op, m |-> m] /\ UNCHANGED isconnected
       ELSE Return(sent)
    /\ completed' = IF sent /\ ~waits /\ op = "publish" /\ m.qos > 0
                    THEN completed \cup {m} ELSE completed

AlwaysConnected(p, before) ==
  IF inflight.id > 0
  THEN Request("republish", inflight, before,
               Pkt("PUBLISH", inflight.id, inflight.qos, inflight.msg), inflight.qos = 1)
  ELSE Return(TRUE) /\ sendPacket(before) /\ UNCHANGED completed

\* connect sends a publish that is in flight again, whatever the CONNACK said,
\* and lets the result of that replace the result of connecting.  (`pubrel' is
\* never set, so that it is always the PUBLISH that is sent.)
Connacked(p, before) ==
  IF inflight.id > 0
  THEN Request("republish", inflight, before,
               Pkt("PUBLISH", inflight.id, inflight.qos, inflight.msg), inflight.qos = 1)
  ELSE Return(p.val = 0) /\ sendPacket(before) /\ UNCHANGED completed

\* readChar returns plain char: where that is signed 0x80 becomes -128.
readChar(byte) == IF CharIsSigned /\ byte >= 128 THEN byte - 256 ELSE byte

InstallsAnyway(p) == call.op = "subscribe" /\ readChar(p.val) # 128

\* subscribe: the SUBACK is not a refusal (which it never is where char is signed)
\* and a handler slot is free.
Installs(p) ==
  call.op = "subscribe" /\ readChar(p.val) # 128 /\ handlers < MAX_MESSAGE_HANDLERS

ForgetsInflight(p) == NoMessage
Acked(p) == IF p.type = "PUBACK" /\ inflight.id = p.id THEN NoMessage ELSE inflight

\* The awaited packet p has come, and cycle has sent `before'.
Complete(p, before) ==
  /\ inflight' = Acked(p)
  /\ handlers' = IF Installs(p) THEN handlers + 1 ELSE handlers
  /\ IF call.op = "connect"
     THEN Connacked(p, before)
     ELSE /\ Return(call.op = "subscribe" => Installs(p) \/ p.val = 0)
          /\ sendPacket(before)
          /\ completed' = IF call.op = "publish" THEN completed \cup {call.m} ELSE completed

\* One pass of cycle while a call waits: a packet, its answer, perhaps a ping.  An
\* answer that cannot be sent ends a yield; the other calls wait on.
Cycle ==
  LET p == Head(toClient)
      outstanding == ping_outstanding /\ p.type # "PINGRESP"
  IN /\ call.op # "idle" /\ toClient # <<>>
     /\ toClient' = Tail(toClient)
     /\ arrived' = IF Delivers(p) THEN Append(arrived, <<p.msg, p.val>>) ELSE arrived
     /\ excused' = IF Drops(p) THEN excused \cup {p.msg} ELSE excused
     /\ \E sent \in BOOLEAN, due \in PingDue :
          LET failed == Replies(p) # <<>> /\ ~sent
              ping == IF failed THEN <<>> ELSE keepalive(due, outstanding)
          IN /\ incomingQoS2messages' = QoS2Table(p, sent)
             /\ stale' = stale \cap incomingQoS2messages'
             /\ ping_outstanding' = (outstanding \/ ping # <<>>)
             /\ IF p.type = Awaited(call.op)
                THEN Complete(p, ping)
                ELSE /\ sendPacket(IF failed THEN <<>> ELSE Replies(p) \o ping)
                     /\ call' = IF failed /\ call.op = "yield" THEN Idle ELSE call
                     /\ UNCHANGED <<inflight, handlers, completed, isconnected>>
     /\ UNCHANGED <<link, brokerVars, cleansession, packetid, ncalls, nconns, stored>>

\* The timer expires, or a read fails until it does: the call fails.  While
\* read() waits for more of a connection that the peer has closed it never
\* returns, timer or not.
GiveUp ==
  /\ call.op # "idle"
  /\ ~ (link = "closed" /\ toClient = <<>>)
  /\ \E due \in PingDue :
       LET ping == keepalive(due, ping_outstanding)
       IN /\ sendPacket(ping)
          /\ ping_outstanding' = (ping_outstanding \/ ping # <<>>)
  /\ Return(call.op = "yield" /\ isconnected)
  /\ UNCHANGED <<link, toClient, brokerVars, cleansession, packetid, inflight,
                 incomingQoS2messages, handlers, ncalls, nconns, arrived, stored, completed,
                 stale, excused>>

----------------------------------------------------------------------------
NetworkConnect ==
  /\ nconns < MaxConnections
  /\ nconns' = nconns + 1
  /\ link' = "up" /\ accepted' = FALSE
  /\ toBroker' = <<>> /\ toClient' = <<>>
  /\ UNCHANGED <<temporary, subscribed, out, npubs, received, taken, isconnected,
                 cleansession, ping_outstanding, packetid, inflight, incomingQoS2messages, handlers,
                 call, ncalls, arrived, stored, completed, stale, excused>>

\* The application makes the network connection that connect needs, between calls
\* and only while the client is not connected.  That is the application's
\* discipline; neither the network nor the client asks for it.
Reconnect == call = Idle /\ ~isconnected /\ NetworkConnect

Begin == call = Idle /\ ncalls < MaxCalls /\ ncalls' = ncalls + 1

connect(clean) ==
  /\ Begin /\ ~isconnected /\ nconns > 0
  /\ cleansession' = clean
  /\ Request("connect", NoMessage, <<>>, Pkt("CONNECT", 0, IF clean THEN 1 ELSE 0, 0), TRUE)
  /\ UNCHANGED <<link, toClient, brokerVars, ping_outstanding, packetid, inflight,
                 incomingQoS2messages, handlers, nconns, arrived, stored, stale, excused>>

subscribe(qos) ==
  /\ Begin /\ isconnected
  /\ packetid' = getNext
  /\ Request("subscribe", NoMessage, <<>>, Pkt("SUBSCRIBE", packetid', qos, 0), TRUE)
  /\ UNCHANGED <<link, toClient, brokerVars, cleansession, ping_outstanding, inflight,
                 incomingQoS2messages, handlers, nconns, arrived, stored, stale, excused>>

unsubscribe ==
  /\ Begin /\ isconnected
  /\ packetid' = getNext
  /\ Request("unsubscribe", NoMessage, <<>>, Pkt("UNSUBSCRIBE", packetid', 0, 0), TRUE)
  /\ UNCHANGED <<link, toClient, brokerVars, cleansession, ping_outstanding, inflight,
                 incomingQoS2messages, handlers, nconns, arrived, stored, stale, excused>>

\* The message is kept for a reconnect before it is sent.  Only QoS 1 waits:
\* with MQTTCLIENT_QOS1 defined the #elif leaves the wait for PUBCOMP out.
publish(qos) ==
  /\ Begin /\ isconnected
  /\ packetid' = IF qos > 0 THEN getNext ELSE packetid
  /\ LET m == [id |-> IF qos > 0 THEN packetid' ELSE 0, qos |-> qos, msg |-> ncalls']
     IN /\ inflight' = IF cleansession THEN inflight ELSE m
        /\ stored' = IF cleansession \/ qos = 0 THEN stored ELSE stored \cup {m}
        /\ Request("publish", m, <<>>, Pkt("PUBLISH", m.id, qos, m.msg), qos = 1)
  /\ UNCHANGED <<link, toClient, brokerVars, cleansession, ping_outstanding,
                 incomingQoS2messages, handlers, nconns, arrived, stale, excused>>

yield ==
  /\ Begin
  /\ nconns > 0
  /\ call' = [op |-> "yield", m |-> NoMessage]
  /\ UNCHANGED <<link, toBroker, toClient, brokerVars, isconnected, cleansession, ping_outstanding,
                 packetid, inflight, incomingQoS2messages, handlers, nconns, arrived, stored,
                 completed, stale, excused>>

disconnect ==
  /\ Begin /\ nconns > 0
  /\ \E sent \in BOOLEAN : sendPacket(IF sent THEN <<Pkt("DISCONNECT", 0, 0, 0)>> ELSE <<>>)
  /\ Return(FALSE)
  /\ UNCHANGED <<link, toClient, brokerVars, cleansession, ping_outstanding, packetid, inflight,
                 incomingQoS2messages, handlers, nconns, arrived, stored, completed,
                 stale, excused>>

----------------------------------------------------------------------------
Init ==
  /\ BrokerInit
  /\ isconnected = FALSE
  /\ cleansession \in CleanSessions      \* not initialized by the constructor
  /\ ping_outstanding = FALSE /\ packetid = 0
  /\ inflight = NoMessage /\ incomingQoS2messages = {}
  /\ handlers = 0 /\ call = Idle
  /\ ncalls = 0 /\ nconns = 0
  /\ arrived = <<>> /\ stored = {} /\ completed = {} /\ stale = {} /\ excused = {}

BrokerStep ==
  /\ BrokerNext
  /\ stale' = IF NewSession THEN incomingQoS2messages ELSE stale
  /\ UNCHANGED clientVars

Next ==
  \/ BrokerStep
  \/ Reconnect
  \/ \E clean \in CleanSessions : connect(clean)
  \/ \E qos \in PublishQoS : publish(qos)
  \/ subscribe(2) \/ unsubscribe \/ yield \/ disconnect
  \/ Cycle \/ GiveUp

Spec == Init /\ [][Next]_vars

----------------------------------------------------------------------------
\* The types of the client's variables; neither the table of identifiers nor
\* the table of handlers outgrows its array.
TypeOK ==
  /\ isconnected \in BOOLEAN /\ cleansession \in BOOLEAN /\ ping_outstanding \in BOOLEAN
  /\ packetid \in 0 .. MAX_PACKET_ID
  /\ inflight \in [id : 0 .. MAX_PACKET_ID, qos : 0 .. 2, msg : 0 .. MaxCalls]
  /\ incomingQoS2messages \subseteq BrokerIds
  /\ Cardinality(incomingQoS2messages) <= MAX_INCOMING_QOS2_MESSAGES
  /\ handlers \in 0 .. MAX_MESSAGE_HANDLERS

\* The client begins to take itself for connected only when the broker has
\* accepted a session on the latest network connection, although connect lets the
\* result of a republish replace the broker's answer.  The exception is a QoS 2
\* message in flight: its republish waits for no answer and succeeds even after a
\* CONNACK that refuses the connection.
ConnectedIsReal ==
  [][~isconnected /\ isconnected' => accepted \/ inflight.qos = 2]_vars

\* A QoS 1 message that publish took in a session that is not clean is in the
\* client's hands until the broker has it: no failure, timeout or reconnection
\* loses it, and no later publish takes its place in pubbuf.  (A QoS 2 message has
\* no such protection: publish does not wait for PUBCOMP, so the next publish may
\* take its place before the broker has it.)
UnackedIsKept == \A m \in stored : m.qos = 1 => inflight = m \/ m.msg \in received

\* publish waits until the acknowledgement of a QoS 1 message has come: when it
\* has returned SUCCESS the broker has the message.  (At QoS 2 it returns SUCCESS
\* as soon as the PUBLISH is written.)
PublishCompletes == \A m \in completed : m.qos = 1 => m.msg \in received

\* deliverMessage is called at most once for an incoming QoS 2 message, although
\* the broker sends it again after a failure.
AtMostOnce ==
  \A i, j \in DOMAIN arrived : arrived[i] = arrived[j] /\ arrived[i][2] = 2 => i = j

\* An incoming QoS 2 message that the client has acknowledged with PUBREC, and
\* that the broker will not send again, was delivered, or was dropped for one of
\* two reasons: its identifier was still in the table from an earlier session
\* (connect does not clear the table), or the table was full.  Within a session
\* the identifier of an earlier message never makes the client drop a new one.
TakenIsDelivered ==
  \A m \in taken : m \in excused \/ \E i \in DOMAIN arrived : arrived[i] = <<m, 2>>
=============================================================================
