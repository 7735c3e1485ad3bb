------------------------------ MODULE MQTTClient ------------------------------
(***************************************************************************)
(* The embedded C client (paho/src/MQTTClient-C/src/MQTTClient.c) on its   *)
(* Linux network layer (linux/MQTTLinux.c).                                *)
(*                                                                         *)
(* The client is single threaded: an application calls one API function    *)
(* at a time, and a call that waits runs cycle() over and over, each       *)
(* cycle() reading at most one packet, until the packet it waits for       *)
(* arrives or its timer has expired.  One step of this specification is    *)
(* the part of a call up to the next blocking read: the call's entry (with *)
(* its send), or one whole cycle() with everything cycle() does.           *)
(*                                                                         *)
(* Timers.  A call's own timer is looked at in two places only, sendPacket *)
(* and the head of the waiting loop, and the call is over as soon as the   *)
(* loop finds it expired; so it is not a variable but the parameter        *)
(* `expires' of a step: the timer is found expired at the loop head that   *)
(* ends the step.  The ping timer outlives the calls and is a variable.    *)
(*                                                                         *)
(* Parsing.  Only two kinds of packet can be rejected by their parser      *)
(* here: a PUBLISH of 128 bytes or more whose topic does not fit, and a    *)
(* SUBACK with more than two return codes.  The parsers of CONNACK and of  *)
(* the other acknowledgements return 1 for every packet readPacket hands   *)
(* them, so the failure branches behind them are dead.                     *)
(***************************************************************************)
EXTENDS MQTTWire

CONSTANTS
  MAX_PACKET_ID,          \* 65535 in the code
  UINT_MAX,               \* largest value of the unsigned int next_packetid
  MAX_MESSAGE_HANDLERS,   \* 5 in the code
  CharIsSigned,           \* is plain char signed?  (gcc: yes on MIPS and x86, no on ARM)
  InitialIds,             \* what next_packetid may hold: MQTTClient() does not set it, and
                          \* the programs declare their struct Client on the stack
  KeepAliveIntervals,     \* values of options->keepAliveInterval the application uses
  MaxCalls,               \* bound: calls that send a packet
  MaxConns                \* bound: TCP connections

ASSUME ClientAssumption ==
  /\ MAX_PACKET_ID \in Nat \ {0}
  /\ UINT_MAX \in Nat /\ MAX_PACKET_ID <= UINT_MAX
  /\ (UINT_MAX + 1) % (MAX_PACKET_ID + 1) = 0   \* 2^32 is a multiple of 2^16
  /\ CharIsSigned \in BOOLEAN
  /\ InitialIds \subseteq 0..UINT_MAX
  /\ MAX_MESSAGE_HANDLERS \in Nat
  /\ KeepAliveIntervals \subseteq Nat
  /\ MaxCalls \in Nat /\ MaxConns \in Nat

VARIABLES
  isconnected, next_packetid, keepAliveInterval, ping_outstanding,
  messageHandlers,   \* the fields of struct Client; slot -> filter or NoTopic
  pingExpired,       \* expired(&c->ping_timer)
  cur,               \* the API call in progress
  ret,               \* what the last API call returned
  ncalls, nconns,    \* calls that sent a packet, connections opened
  completed,         \* history: calls that ended well, with the acknowledgement that ended them
  unserved           \* history: filters asked for whose MQTTSubscribe has installed no handler

structVars == <<isconnected, next_packetid, keepAliveInterval, ping_outstanding,
                messageHandlers, pingExpired>>
clientVars == <<structVars, cur, ret, ncalls, nconns, completed, unserved>>

Slots == 1..MAX_MESSAGE_HANDLERS

\* cur.op is "idle" or the API function that is running; the publishes are told
\* apart by their QoS.
Ops == {"CONNECT", "SUBSCRIBE", "UNSUBSCRIBE", "PUBLISH0", "PUBLISH1", "PUBLISH2",
        "YIELD", "DISCONNECT"}
Call == [op : Ops \cup {"idle"}, call : Nat, id : Nat, topic : Topic]
Idle == [op |-> "idle", call |-> 0, id |-> 0, topic |-> NoTopic]
InCall == cur.op # "idle"

\* MQTTClient() on a struct Client that was not initialized otherwise.
ClientInit ==
  /\ isconnected = FALSE
  /\ next_packetid \in InitialIds
  /\ keepAliveInterval \in KeepAliveIntervals
  /\ ping_outstanding = FALSE
  /\ messageHandlers = [i \in Slots |-> NoTopic]
  /\ pingExpired = TRUE            \* InitTimer: end_time = 0
  /\ cur = Idle
  /\ ret = [op |-> "idle", rc |-> SUCCESS]
  /\ ncalls = 0 /\ nconns = 0
  /\ completed = {}
  /\ unserved = {}

ClientTypeOK ==
  /\ isconnected \in BOOLEAN
  /\ next_packetid \in 0..UINT_MAX
  /\ keepAliveInterval \in KeepAliveIntervals
  /\ ping_outstanding \in BOOLEAN
  /\ messageHandlers \in [Slots -> Topic]
  /\ pingExpired \in BOOLEAN
  /\ cur \in Call
  /\ ret \in [op : Ops \cup {"idle"}, rc : Int]
  /\ ncalls \in 0..MaxCalls /\ nconns \in 0..MaxConns
  /\ completed \subseteq [op : Ops, call : Nat, id : Nat, ack : Nat, ackid : Nat]
  /\ unserved \subseteq Topic

(***************************************************************************)
(* Helpers.                                                                *)
(***************************************************************************)
Return(op, rc) ==
  /\ cur' = Idle
  /\ ret' = [op |-> op, rc |-> rc]

\* Faulty variants of the operators below, named for the mistake, are what the
\* properties are tried against; the specification does not use them.
SaturatingPacketId == IF next_packetid = MAX_PACKET_ID THEN MAX_PACKET_ID ELSE next_packetid + 1

\* getNextPacketId: the next value of next_packetid, an unsigned int.
getNextPacketId ==
  IF next_packetid = MAX_PACKET_ID THEN 1
  ELSE IF next_packetid = UINT_MAX THEN 0
  ELSE next_packetid + 1

\* The serializers take the identifier as an unsigned short.
Short(n) == IF n <= MAX_PACKET_ID THEN n ELSE n % (MAX_PACKET_ID + 1)

\* readChar returns plain char, so that the int a SUBACK's return code is stored in
\* gets -128 for 0x80 where char is signed.
readChar(byte) == IF CharIsSigned /\ byte >= 128 THEN byte - 256 ELSE byte

\* sendPacket: on SUCCESS the packet is in the stream (and lost when the peer
\* has closed it) and the ping timer restarts; on FAILURE nothing was written.
sendPacket(p, rc) ==
  /\ toBroker' = IF rc = SUCCESS /\ link = "up" THEN Append(toBroker, p) ELSE toBroker
  /\ pingExpired' = IF rc = SUCCESS THEN FALSE ELSE pingExpired

KeepaliveUnguarded(outstanding, rc) ==
  IF keepAliveInterval # 0 /\ pingExpired
  THEN /\ sendPacket(Pkt("PINGREQ", 0, 0, NoTopic, 0, TRUE), rc)
       /\ ping_outstanding' = (rc = SUCCESS)
  ELSE UNCHANGED <<toBroker, pingExpired>> /\ ping_outstanding' = outstanding

\* keepalive, called with ping_outstanding = outstanding: a PINGREQ when the ping
\* timer has expired and no ping is unanswered; rc is the result of its sendPacket.
keepalive(outstanding, rc) ==
  IF keepAliveInterval # 0 /\ pingExpired /\ ~outstanding
  THEN /\ sendPacket(Pkt("PINGREQ", 0, 0, NoTopic, 0, TRUE), rc)
       /\ ping_outstanding' = (rc = SUCCESS)
  ELSE /\ UNCHANGED <<toBroker, pingExpired>>
       /\ ping_outstanding' = outstanding

\* deliverMessage: the slots whose handler is called (fp is never null, and
\* nothing in the C client sets defaultMessageHandler).
deliverMessage(topic) ==
  {i \in Slots : messageHandlers[i] # NoTopic /\ <<messageHandlers[i], topic>> \in Matches}

FreeSlots == {i \in Slots : messageHandlers[i] = NoTopic}

InstallPastTheEnd(filter) ==
  [i \in 1..MAX_MESSAGE_HANDLERS + 1 |->
     IF i \in FreeSlots \/ i \notin Slots THEN filter ELSE messageHandlers[i]]

\* The handler table once `filter' was granted: the first free slot takes it, if
\* there is one.
InstallHandler(filter) ==
  [i \in Slots |->
     IF i \in FreeSlots /\ \A j \in FreeSlots : i <= j THEN filter ELSE messageHandlers[i]]

(***************************************************************************)
(* What the caller of cycle() does with its result.                        *)
(***************************************************************************)
AwaitsPubrec(op) ==
  CASE op = "CONNECT"     -> "CONNACK"
    [] op = "SUBSCRIBE"   -> "SUBACK"
    [] op = "UNSUBSCRIBE" -> "UNSUBACK"
    [] op = "PUBLISH1"    -> "PUBACK"
    [] op = "PUBLISH2"    -> "PUBREC"
    [] OTHER              -> "none"

\* The packet type the waitfor() of a call waits for.
Awaited(op) ==
  CASE op = "CONNECT"     -> "CONNACK"
    [] op = "SUBSCRIBE"   -> "SUBACK"
    [] op = "UNSUBSCRIBE" -> "UNSUBACK"
    [] op = "PUBLISH1"    -> "PUBACK"
    [] op = "PUBLISH2"    -> "PUBCOMP"
    [] OTHER              -> "none"

\* The call ends well; it is recorded with the acknowledgement p that ended it.
Record(p) ==
  completed' = completed \cup
    {[op |-> cur.op, call |-> cur.call, id |-> cur.id, ack |-> p.call, ackid |-> p.id]}

ConnectIgnoresCode(p) ==
  /\ Return("CONNECT", SUCCESS)
  /\ isconnected' = TRUE
  /\ UNCHANGED <<messageHandlers, completed, unserved>>

\* MQTTConnect after waitfor: the CONNACK's return code is the result.
ConnectCompletes(p) ==
  /\ Return("CONNECT", p.val)
  /\ isconnected' = (p.val = SUCCESS)
  /\ UNCHANGED <<messageHandlers, completed, unserved>>

\* MQTTSubscribe after waitfor.  A SUBACK that cannot be parsed leaves rc as the
\* send left it, SUCCESS, so the handler is installed; with a full table the
\* granted QoS is returned and no handler is installed.  Where char is signed the
\* comparison with 0x80 never holds: a refused subscription gets its handler too.
SubscribeCompletes(p) ==
  LET granted == IF p.ok THEN readChar(p.val) ELSE SUCCESS
  IN IF granted = SubscribeRefused
     THEN /\ Return("SUBSCRIBE", granted)
          /\ UNCHANGED <<isconnected, messageHandlers, completed, unserved>>
     ELSE /\ Return("SUBSCRIBE", IF FreeSlots = {} THEN granted ELSE 0)
          /\ messageHandlers' = InstallHandler(cur.topic)
          /\ Record(p)
          /\ unserved' = IF \E i \in Slots : messageHandlers'[i] = cur.topic
                         THEN unserved \ {cur.topic} ELSE unserved
          /\ UNCHANGED isconnected

\* MQTTUnsubscribe after waitfor: the handler stays in its slot.
UnsubscribeCompletes(p) ==
  /\ Return("UNSUBSCRIBE", 0)
  /\ Record(p)
  /\ UNCHANGED <<isconnected, messageHandlers, unserved>>

\* MQTTPublish after waitfor: rc is still the SUCCESS of the send.
PublishCompletes(p) ==
  /\ Return(cur.op, SUCCESS)
  /\ Record(p)
  /\ UNCHANGED <<isconnected, messageHandlers, unserved>>

LoopWithoutTimer(expires) ==
  UNCHANGED <<cur, ret, isconnected, messageHandlers, completed, unserved>>

\* The loop goes on, or its timer has expired: waitfor then makes the call
\* fail, and MQTTYield ends with SUCCESS.
LoopHead(expires) ==
  /\ IF expires
     THEN Return(cur.op, IF cur.op = "YIELD" THEN SUCCESS ELSE FAILURE)
     ELSE UNCHANGED <<cur, ret>>
  /\ UNCHANGED <<isconnected, messageHandlers, completed, unserved>>

\* cycle() has returned the type of packet p: waitfor compares types only.
CycleReturns(p, expires) ==
  IF p.type # Awaited(cur.op) THEN LoopHead(expires)
  ELSE CASE cur.op = "CONNECT"     -> ConnectCompletes(p)
         [] cur.op = "SUBSCRIBE"   -> SubscribeCompletes(p)
         [] cur.op = "UNSUBSCRIBE" -> UnsubscribeCompletes(p)
         [] OTHER                  -> PublishCompletes(p)

\* cycle() has returned FAILURE: MQTTYield ends, waitfor tries again.
CycleFails(expires) ==
  IF cur.op = "YIELD"
  THEN /\ Return("YIELD", FAILURE)
       /\ UNCHANGED <<isconnected, messageHandlers, completed, unserved>>
  ELSE LoopHead(expires)

(***************************************************************************)
(* The steps inside a call: one cycle() each.  rc is the result of the     *)
(* step's sendPacket; no cycle() sends twice, for a successful send        *)
(* restarts the ping timer and a failed one skips keepalive.               *)
(***************************************************************************)
readPacket ==
  /\ InCall
  /\ toClient # <<>>
  /\ toClient' = Tail(toClient)

\* What a cycle() leaves alone.
entryVars == <<next_packetid, keepAliveInterval, link, ncalls, nconns>>

PingrespIgnored(expires, rc) ==
  LET p == Head(toClient)
  IN /\ readPacket
     /\ p.type \notin {"PUBLISH", "PUBREC"}
     /\ keepalive(ping_outstanding, rc)
     /\ CycleReturns(p, expires)
     /\ UNCHANGED entryVars

\* The packet types cycle() has no work for (UNSUBACK and PUBREL have no case at
\* all), and PINGRESP; keepalive runs after each of them.
CyclePlain(expires, rc) ==
  LET p == Head(toClient)
  IN /\ readPacket
     /\ p.type \notin {"PUBLISH", "PUBREC"}
     /\ keepalive(ping_outstanding /\ p.type # "PINGRESP", rc)
     /\ CycleReturns(p, expires)
     /\ UNCHANGED entryVars

\* case PUBLISH: the handlers of deliverMessage(p.topic) run, which change nothing
\* of the client (a message on a topic without one is lost), then the
\* acknowledgement the QoS asks for is sent.  A send that fails (for want of time,
\* while the link is up) skips keepalive, and so does a PUBLISH that cannot be parsed.
CyclePublish(expires, rc) ==
  LET p == Head(toClient)
      ack == Pkt(IF p.val = 1 THEN "PUBACK" ELSE "PUBREC", p.id, 0, NoTopic, 0, TRUE)
  IN /\ readPacket
     /\ p.type = "PUBLISH"
     /\ \/ /\ ~p.ok
           /\ UNCHANGED <<toBroker, pingExpired, ping_outstanding>>
           /\ CycleReturns(p, expires)
        \/ /\ p.ok /\ p.val = 0
           /\ keepalive(ping_outstanding, rc)
           /\ CycleReturns(p, expires)
        \/ /\ p.ok /\ p.val # 0
           /\ sendPacket(ack, rc)
           /\ UNCHANGED ping_outstanding
           /\ IF rc = SUCCESS
              THEN CycleReturns(p, expires)
              ELSE (expires \/ link = "closed") /\ CycleFails(expires)
     /\ UNCHANGED entryVars

\* case PUBREC: answered with a PUBREL for the same identifier.
CyclePubrec(expires, rc) ==
  LET p == Head(toClient)
  IN /\ readPacket
     /\ p.type = "PUBREC"
     /\ sendPacket(Pkt("PUBREL", p.id, p.call, NoTopic, 0, TRUE), rc)
     /\ IF rc = SUCCESS
        THEN CycleReturns(p, expires)
        ELSE (expires \/ link = "closed") /\ CycleFails(expires)
     /\ UNCHANGED <<entryVars, ping_outstanding>>

\* readPacket returns FAILURE because nothing arrived in time.  cycle() keeps the
\* result in an unsigned short, where -1 is 65535: no packet type and not FAILURE,
\* so keepalive runs and the loop goes on.  Once the peer has closed the
\* connection and everything it sent was read, recv() returns 0 (or fails with
\* ECONNRESET) for ever and linux_read never returns: no step is possible.
CycleReadFails(expires, rc) ==
  /\ InCall
  /\ ~(link = "closed" /\ toClient = <<>>)
  /\ keepalive(ping_outstanding, rc)
  /\ LoopHead(expires)
  /\ UNCHANGED <<entryVars, toClient>>

cycle(expires, rc) ==
  \/ CyclePlain(expires, rc)
  \/ CyclePublish(expires, rc)
  \/ CyclePubrec(expires, rc)
  \/ CycleReadFails(expires, rc)

(***************************************************************************)
(* The API calls.  rc is the result of the call's sendPacket; a packet too *)
(* long for the buffer ends the call as a failed send does.                *)
(***************************************************************************)
\* A call that needs a connection fails at once without one.
NotConnected(op) ==
  /\ ~InCall /\ nconns > 0
  /\ ~isconnected
  /\ Return(op, FAILURE)
  /\ UNCHANGED <<structVars, wireVars, ncalls, nconns, completed, unserved>>

\* After the send: fail, wait, or find the timer expired before the first read.
Begin(call, rc, expires) ==
  IF rc = FAILURE \/ expires THEN Return(call.op, FAILURE) ELSE cur' = call /\ UNCHANGED ret

\* What a call that sends a packet leaves alone.
cycleVars == <<ping_outstanding, messageHandlers, link, toClient, nconns, completed>>

MQTTConnect(interval, rc, expires) ==
  /\ ~InCall /\ nconns > 0
  /\ \/ /\ isconnected
        /\ Return("CONNECT", FAILURE)
        /\ UNCHANGED <<keepAliveInterval, pingExpired, toBroker, ncalls>>
     \/ /\ ~isconnected
        /\ ncalls < MaxCalls
        /\ ncalls' = ncalls + 1
        /\ keepAliveInterval' = interval
        /\ pingExpired' = FALSE
        /\ toBroker' = IF rc = SUCCESS /\ link = "up"
                       THEN Append(toBroker, Pkt("CONNECT", 0, ncalls + 1, NoTopic, 0, TRUE))
                       ELSE toBroker
        /\ Begin([op |-> "CONNECT", call |-> ncalls + 1, id |-> 0, topic |-> NoTopic],
                 rc, expires)
  /\ UNCHANGED <<isconnected, next_packetid, cycleVars, unserved>>

\* The requests that take a packet identifier and wait for an answer.
Request(op, type, topic, qos, rc, expires) ==
  LET id == Short(getNextPacketId)
  IN /\ ~InCall /\ isconnected
     /\ ncalls < MaxCalls
     /\ ncalls' = ncalls + 1
     /\ next_packetid' = getNextPacketId
     /\ sendPacket(Pkt(type, id, ncalls + 1, topic, qos, TRUE), rc)
     /\ Begin([op |-> op, call |-> ncalls + 1, id |-> id, topic |-> topic], rc, expires)
     /\ unserved' = IF op = "SUBSCRIBE" THEN unserved \cup {topic} ELSE unserved
     /\ UNCHANGED <<isconnected, keepAliveInterval, cycleVars>>

MQTTSubscribe(filter, rc, expires) ==
  \/ NotConnected("SUBSCRIBE")
  \/ Request("SUBSCRIBE", "SUBSCRIBE", filter, 0, rc, expires)

UnsubscribeFreesAtOnce(filter, rc, expires) ==
  /\ ~InCall /\ isconnected
  /\ messageHandlers' = [i \in Slots |-> IF messageHandlers[i] = filter THEN NoTopic
                                         ELSE messageHandlers[i]]
  /\ UNCHANGED <<isconnected, next_packetid, keepAliveInterval, ping_outstanding, pingExpired,
                 cur, ret, wireVars, ncalls, nconns, completed, unserved>>

MQTTUnsubscribe(filter, rc, expires) ==
  \/ NotConnected("UNSUBSCRIBE")
  \/ Request("UNSUBSCRIBE", "UNSUBSCRIBE", filter, 0, rc, expires)

\* A QoS 0 publish takes no identifier and does not wait.
PublishQoS0(topic, rc) ==
  /\ ~InCall /\ isconnected
  /\ ncalls < MaxCalls
  /\ ncalls' = ncalls + 1
  /\ sendPacket(Pkt("PUBLISH", 0, ncalls + 1, topic, 0, TRUE), rc)
  /\ Return("PUBLISH0", rc)
  /\ UNCHANGED <<isconnected, next_packetid, keepAliveInterval, cycleVars, unserved>>

MQTTPublish(topic, qos, rc, expires) ==
  \/ NotConnected(<<"PUBLISH0", "PUBLISH1", "PUBLISH2">>[qos + 1])
  \/ qos = 0 /\ PublishQoS0(topic, rc)
  \/ qos = 1 /\ Request("PUBLISH1", "PUBLISH", topic, 1, rc, expires)
  \/ qos = 2 /\ Request("PUBLISH2", "PUBLISH", topic, 2, rc, expires)

\* MQTTYield asks for no connection.
MQTTYield ==
  /\ ~InCall /\ nconns > 0
  /\ cur' = [Idle EXCEPT !.op = "YIELD"]
  /\ UNCHANGED <<structVars, wireVars, ret, ncalls, nconns, completed, unserved>>

MQTTDisconnect(rc) ==
  /\ ~InCall /\ nconns > 0
  /\ ncalls < MaxCalls
  /\ ncalls' = ncalls + 1
  /\ sendPacket(Pkt("DISCONNECT", 0, ncalls + 1, NoTopic, 0, TRUE), rc)
  /\ isconnected' = FALSE
  /\ Return("DISCONNECT", rc)
  /\ UNCHANGED <<next_packetid, keepAliveInterval, cycleVars, unserved>>

\* The application opens a (new) connection.
ConnectNetwork ==
  /\ ~InCall
  /\ nconns < MaxConns
  /\ nconns' = nconns + 1
  /\ link' = "up"
  /\ toBroker' = <<>> /\ toClient' = <<>>
  /\ UNCHANGED <<structVars, cur, ret, ncalls, completed, unserved>>

\* The ping timer runs out, whatever the client is doing.
PingTimerExpires ==
  /\ keepAliveInterval # 0 /\ ~pingExpired
  /\ pingExpired' = TRUE
  /\ UNCHANGED <<isconnected, next_packetid, keepAliveInterval, cur, ret, toBroker, ncalls,
                 cycleVars, unserved>>

Results == {SUCCESS, FAILURE}

\* Every step of the client but ConnectNetwork.
ClientNext ==
  \/ MQTTYield
  \/ PingTimerExpires
  \/ \E rc \in Results : MQTTDisconnect(rc)
  \/ \E rc \in Results, expires \in BOOLEAN :
       \/ cycle(expires, rc)
       \/ \E k \in KeepAliveIntervals : MQTTConnect(k, rc, expires)
       \/ \E f \in Filters : MQTTSubscribe(f, rc, expires) \/ MQTTUnsubscribe(f, rc, expires)
       \/ \E t \in Topics, q \in 0..2 : MQTTPublish(t, q, rc, expires)
=============================================================================
