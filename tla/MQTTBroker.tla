------------------------------ MODULE MQTTBroker ------------------------------
(***************************************************************************)
(* The broker and the connection: external to the repository, modelled as  *)
(* the client relies on them.  The broker takes packets in order and       *)
(* answers each, as late as it likes; on anything the protocol forbids it  *)
(* closes the connection.  The connection may also close by itself.        *)
(***************************************************************************)
EXTENDS MQTTWire

CONSTANTS
  Intact,         \* which values of the field ok its PUBLISH and SUBACK packets have
  LinkFailures,   \* may the connection close by itself?
  MaxPubs         \* bound: messages the broker publishes

ASSUME BrokerAssumption ==
  /\ Intact \subseteq BOOLEAN
  /\ LinkFailures \in BOOLEAN
  /\ MaxPubs \in Nat

VARIABLES
  accepted,   \* a CONNECT was accepted on this connection
  subs,       \* the session's subscriptions
  npubs,      \* messages published
  done        \* history: <<type, call>> of every final acknowledgement sent

brokerVars == <<accepted, subs, npubs, done>>

ConnectRefused == 5   \* a non-zero CONNACK return code
FinalAcks == {"SUBACK", "UNSUBACK", "PUBACK", "PUBCOMP"}

BrokerInit == accepted = FALSE /\ subs = {} /\ npubs = 0 /\ done = {}

BrokerTypeOK ==
  /\ accepted \in BOOLEAN
  /\ subs \subseteq Topic
  /\ npubs \in 0..MaxPubs
  /\ done \subseteq FinalAcks \X Nat

CloseLink == link' = "closed" /\ toBroker' = <<>>

Receive(types) ==
  /\ link = "up" /\ toBroker # <<>>
  /\ Head(toBroker).type \in types

Reply(packets) ==
  /\ toBroker' = Tail(toBroker)
  /\ toClient' = toClient \o packets

\* CONNECT: accepted, for a clean session, or refused; a refusal, or a second
\* CONNECT, ends the connection.
BrokerConnect(val) ==
  /\ Receive({"CONNECT"})
  /\ IF accepted
     THEN CloseLink /\ UNCHANGED <<toClient, accepted, subs>>
     ELSE /\ toClient' = Append(toClient,
                                Pkt("CONNACK", 0, Head(toBroker).call, NoTopic, val, TRUE))
          /\ IF val = SUCCESS
             THEN /\ toBroker' = Tail(toBroker)
                  /\ accepted' = TRUE
                  /\ subs' = {}
                  /\ UNCHANGED link
             ELSE CloseLink /\ UNCHANGED <<accepted, subs>>
  /\ UNCHANGED <<npubs, done>>

Message(topic, qos, ok) == Pkt("PUBLISH", npubs + 1, 0, topic, qos, ok)

\* SUBSCRIBE: refused, or granted; a matching message may precede the SUBACK.
BrokerSubscribe(val, early, ok) ==
  LET p == Head(toBroker)
      suback == Pkt("SUBACK", p.id, p.call, NoTopic, val, ok)
  IN /\ Receive({"SUBSCRIBE"}) /\ accepted
     /\ subs' = IF val = SubscribeRefused THEN subs ELSE subs \cup {p.topic}
     /\ done' = done \cup {<<"SUBACK", p.call>>}
     /\ \/ /\ ~early
           /\ Reply(<<suback>>)
           /\ UNCHANGED npubs
        \/ /\ early /\ val # SubscribeRefused /\ npubs < MaxPubs
           /\ \E t \in Topics : /\ <<p.topic, t>> \in Matches
                                /\ Reply(<<Message(t, 0, TRUE), suback>>)
           /\ npubs' = npubs + 1
     /\ UNCHANGED <<link, accepted>>

\* The type of the packet that answers p.
AnswerType(p) ==
  CASE p.type = "UNSUBSCRIBE"             -> "UNSUBACK"
    [] p.type = "PUBLISH" /\ p.val = 1    -> "PUBACK"
    [] p.type = "PUBLISH" /\ p.val = 2    -> "PUBREC"
    [] p.type = "PUBREL"                  -> "PUBCOMP"
    [] p.type = "PUBREC"                  -> "PUBREL"
    [] p.type = "PINGREQ"                 -> "PINGRESP"
    [] OTHER                              -> "none"

\* Every other packet of a session is answered with one packet or none.
BrokerAnswer ==
  LET p == Head(toBroker)
      type == AnswerType(p)
  IN /\ Receive({"UNSUBSCRIBE", "PUBLISH", "PUBREL", "PUBREC", "PUBACK", "PINGREQ"})
     /\ accepted
     /\ Reply(IF type = "none" THEN <<>> ELSE <<Pkt(type, p.id, p.call, NoTopic, 0, TRUE)>>)
     /\ subs' = IF p.type = "UNSUBSCRIBE" THEN subs \ {p.topic} ELSE subs
     /\ done' = IF type \in FinalAcks THEN done \cup {<<type, p.call>>} ELSE done
     /\ UNCHANGED <<link, accepted, npubs>>

\* DISCONNECT, or any packet on a connection that was not accepted.
BrokerDisconnect ==
  /\ Receive(IF accepted THEN {"DISCONNECT"} ELSE ClientPackets \ {"CONNECT"})
  /\ CloseLink
  /\ UNCHANGED <<toClient, brokerVars>>

\* A message on a topic the broker has a subscription for.
BrokerPublish(topic, qos, ok) ==
  /\ link = "up" /\ accepted
  /\ npubs < MaxPubs
  /\ \E f \in subs : <<f, topic>> \in Matches
  /\ npubs' = npubs + 1
  /\ toClient' = Append(toClient, Message(topic, qos, ok))
  /\ UNCHANGED <<link, toBroker, accepted, subs, done>>

\* The peer closes the connection, or the connection is reset.
LinkCloses ==
  /\ LinkFailures /\ link = "up"
  /\ CloseLink
  /\ UNCHANGED <<toClient, brokerVars>>

BrokerNext ==
  \/ \E v \in {SUCCESS, ConnectRefused} : BrokerConnect(v)
  \/ BrokerAnswer
  \/ \E ok \in Intact :
       \/ \E v \in {0, SubscribeRefused}, early \in BOOLEAN : BrokerSubscribe(v, early, ok)
       \/ \E t \in Topics, q \in 0..2 : BrokerPublish(t, q, ok)
  \/ BrokerDisconnect
=============================================================================
