---------------------------- MODULE SessionBroker ----------------------------
(***************************************************************************)
(* The connection of the C++ client and a broker that keeps its session    *)
(* from one connection to the next and sends what is unacknowledged again. *)
(* Neither is part of the repository; both are modelled as the client uses *)
(* them.                                                                   *)
(***************************************************************************)
EXTENDS Integers, Sequences, FiniteSets

CONSTANTS BrokerIds,     \* identifiers the broker uses: its window
          InboundQoS,    \* QoS of the messages to the client
          MaxInbound,    \* bound: messages to the client
          LinkFailures   \* may the connection fail?

ASSUME BrokerAssumption == InboundQoS \subseteq 0 .. 2 /\ MaxInbound \in Nat

VARIABLES
  link,      \* "up"; "closed" by the broker; "reset": reads and writes fail
  toBroker, toClient,   \* the packets under way
  accepted,  \* CONNECT was accepted on this (the latest) connection
  subscribed,           \* the session has a subscription
  out,       \* the session's unfinished messages to the client
  temporary, \* the session was begun as a clean one: it ends with its connection
  npubs,     \* number of messages to the client so far
  received,  \* history: messages of the client that the broker has
  taken      \* history: messages to the client that it acknowledged with PUBREC

brokerVars == <<accepted, subscribed, out, temporary, npubs, received, taken>>

\* msg numbers the message that a PUBLISH carries; val is a QoS or a return code.
Pkt(type, id, val, msg) == [type |-> type, id |-> id, val |-> val, msg |-> msg]

BrokerInit ==
  /\ link = "reset" /\ toBroker = <<>> /\ toClient = <<>>
  /\ accepted = FALSE /\ subscribed = FALSE
  /\ out = {} /\ temporary = FALSE
  /\ npubs = 0 /\ received = {} /\ taken = {}

Answer(packets) ==
  /\ toBroker' = Tail(toBroker)
  /\ toClient' = toClient \o packets
  /\ UNCHANGED link

\* The broker closes the connection; what it sent before can still be read.
Close ==
  /\ link' = "closed"
  /\ toBroker' = <<>>
  /\ UNCHANGED <<toClient, accepted>>

\* What a session that is taken up again begins with.
Again(m) ==
  IF m.released THEN Pkt("PUBREL", m.id, 0, m.msg) ELSE Pkt("PUBLISH", m.id, m.qos, m.msg)

Orders(S) == {s \in [1 .. Cardinality(S) -> S] : \A i, j \in DOMAIN s : i # j => s[i] # s[j]}

\* A CONNECT that asks for a clean session, or follows one, finds no session.
BrokerConnect ==
  LET p == Head(toBroker)
      clean == p.val = 1
      fresh == clean \/ temporary
      kept == IF fresh THEN {} ELSE out
  IN /\ p.type = "CONNECT" /\ ~accepted
     /\ \/ /\ accepted' = TRUE
           /\ temporary' = clean
           /\ out' = kept
           /\ subscribed' = (subscribed /\ ~fresh)
           /\ \E order \in Orders(kept) :
                Answer(<<Pkt("CONNACK", 0, 0, 0)>> \o [i \in DOMAIN order |-> Again(order[i])])
        \/ /\ toClient' = Append(toClient, Pkt("CONNACK", 0, 5, 0))    \* refused
           /\ link' = "closed" /\ toBroker' = <<>>
           /\ UNCHANGED <<accepted, temporary, out, subscribed>>
     /\ UNCHANGED <<npubs, received, taken>>

BrokerPublished ==
  LET p == Head(toBroker)
  IN /\ p.type = "PUBLISH" /\ accepted
     /\ received' = received \cup {p.msg}
     /\ Answer(CASE p.val = 0 -> <<>>
                 [] p.val = 1 -> <<Pkt("PUBACK", p.id, 0, 0)>>
                 [] p.val = 2 -> <<Pkt("PUBREC", p.id, 0, 0)>>)
     /\ UNCHANGED <<accepted, temporary, subscribed, out, npubs, taken>>

BrokerAcknowledged ==
  LET p == Head(toBroker)
      of == {m \in out : m.id = p.id}
  IN /\ p.type \in {"PUBACK", "PUBREC", "PUBCOMP"} /\ accepted
     /\ out' = (out \ of) \cup
               (IF p.type = "PUBREC" THEN {[m EXCEPT !.released = TRUE] : m \in of} ELSE {})
     /\ taken' = IF p.type = "PUBREC" THEN taken \cup {m.msg : m \in of} ELSE taken
     /\ Answer(IF p.type = "PUBREC" THEN <<Pkt("PUBREL", p.id, 0, 0)>> ELSE <<>>)
     /\ UNCHANGED <<accepted, temporary, subscribed, npubs, received>>

BrokerRequest ==
  LET p == Head(toBroker)
  IN /\ p.type \in {"PUBREL", "SUBSCRIBE", "UNSUBSCRIBE", "PINGREQ"} /\ accepted
     /\ \E granted \in (IF p.type = "SUBSCRIBE" THEN {0, p.val, 128} ELSE {0}) :
          /\ subscribed' = CASE p.type = "SUBSCRIBE"   -> subscribed \/ granted # 128
                             [] p.type = "UNSUBSCRIBE" -> FALSE
                             [] OTHER                  -> subscribed
          /\ Answer(<<Pkt(CASE p.type = "PUBREL"      -> "PUBCOMP"
                            [] p.type = "SUBSCRIBE"   -> "SUBACK"
                            [] p.type = "UNSUBSCRIBE" -> "UNSUBACK"
                            [] p.type = "PINGREQ"     -> "PINGRESP", p.id, granted, 0)>>)
     /\ UNCHANGED <<accepted, temporary, out, npubs, received, taken>>

\* DISCONNECT, a second CONNECT, or anything else without an accepted session.
BrokerCloses ==
  /\ IF accepted THEN Head(toBroker).type \in {"DISCONNECT", "CONNECT"}
                 ELSE Head(toBroker).type # "CONNECT"
  /\ Close
  /\ UNCHANGED <<temporary, subscribed, out, npubs, received, taken>>

\* A message to the client, which may come before the SUBACK of its subscription.
BrokerPublish ==
  /\ link = "up" /\ accepted
  /\ subscribed \/ (toBroker # <<>> /\ Head(toBroker).type = "SUBSCRIBE")
  /\ npubs < MaxInbound
  /\ npubs' = npubs + 1
  /\ \E q \in InboundQoS, id \in BrokerIds \ {m.id : m \in out} :
       /\ toClient' = Append(toClient, Pkt("PUBLISH", id, q, npubs'))
       /\ out' = IF q = 0 THEN out
                 ELSE out \cup {[id |-> id, qos |-> q, msg |-> npubs', released |-> FALSE]}
  /\ UNCHANGED <<link, toBroker, accepted, temporary, subscribed, received, taken>>

\* The network fails: what is under way is lost.
Reset ==
  /\ LinkFailures /\ link # "reset"
  /\ link' = "reset"
  /\ toBroker' = <<>> /\ toClient' = <<>>
  /\ UNCHANGED <<accepted, temporary, subscribed, out, npubs, received, taken>>

\* The step begins a session, which knows nothing of the earlier ones.
NewSession == ~accepted /\ accepted' /\ (temporary \/ Head(toBroker).val = 1)

BrokerNext ==
  \/ /\ link = "up" /\ toBroker # <<>>
     /\ \/ BrokerConnect \/ BrokerPublished \/ BrokerAcknowledged
        \/ BrokerRequest \/ BrokerCloses
  \/ BrokerPublish
  \/ Reset
=============================================================================
