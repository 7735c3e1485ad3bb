------------------------------- MODULE MQTTWire -------------------------------
(***************************************************************************)
(* The TCP connection between the C client and the broker: two FIFO        *)
(* channels of MQTT packets.  A packet is read whole or not at all (the    *)
(* few bytes of a packet arrive together).                                 *)
(*                                                                         *)
(* The field `call' of a packet is not on the wire: it numbers the API     *)
(* call a packet belongs to, so that properties can tell which request an  *)
(* acknowledgement really answers.                                         *)
(***************************************************************************)
EXTENDS Integers, Sequences

CONSTANTS
  Filters, Topics,   \* topic filters subscribed to, topic names published on
  Matches,           \* the pairs <<filter, topic>> that match
  NoTopic            \* the null filter pointer; also "no topic" in a packet

ASSUME TopicAssumption ==
  /\ Matches \subseteq Filters \X Topics
  /\ NoTopic \notin Filters

VARIABLES
  link,                \* "up", or "closed": the peer has closed the connection
  toBroker, toClient   \* the packets under way in each direction

wireVars == <<link, toBroker, toClient>>

SUCCESS == 0
FAILURE == -1
SubscribeRefused == 128   \* 0x80 in a SUBACK

ClientPackets == {"CONNECT", "SUBSCRIBE", "UNSUBSCRIBE", "PUBLISH", "PUBREL",
                  "PUBACK", "PUBREC", "PINGREQ", "DISCONNECT"}
BrokerPackets == {"CONNACK", "SUBACK", "UNSUBACK", "PUBACK", "PUBREC", "PUBCOMP",
                  "PUBREL", "PUBLISH", "PINGRESP"}
Topic == Filters \cup Topics \cup {NoTopic}

Packet == [type  : ClientPackets \cup BrokerPackets,
           id    : Nat,        \* the packet identifier
           call  : Nat,        \* the API call the packet belongs to (0: none)
           topic : Topic,
           val   : Nat,        \* QoS of a PUBLISH, return code of a CONNACK or SUBACK
           ok    : BOOLEAN]    \* does MQTTDeserialize_publish or _suback accept it?

Pkt(type, id, call, topic, val, ok) ==
  [type |-> type, id |-> id, call |-> call, topic |-> topic, val |-> val, ok |-> ok]

WireTypeOK ==
  /\ link \in {"up", "closed"}
  /\ toBroker \in Seq(Packet)
  /\ toClient \in Seq(Packet)
=============================================================================
