----------------------------- MODULE MQTTSession ------------------------------
(***************************************************************************)
(* The C client and a broker, composed over one connection at a time.      *)
(***************************************************************************)
EXTENDS MQTTClient, MQTTBroker

vars == <<clientVars, wireVars, brokerVars>>

\* Before the first ConnectNetwork there is no connection.
Init ==
  /\ ClientInit
  /\ BrokerInit
  /\ link = "closed" /\ toBroker = <<>> /\ toClient = <<>>

\* The application opens a connection, and the broker has accepted nothing on it
\* yet.  The programs do it before MQTTConnect only, while the client is not
\* connected; that is their discipline, the library does not ask for it.
NewConnection ==
  /\ ~isconnected
  /\ ConnectNetwork
  /\ accepted' = FALSE
  /\ UNCHANGED <<subs, npubs, done>>

Next ==
  \/ NewConnection
  \/ ClientNext /\ UNCHANGED brokerVars
  \/ (BrokerNext \/ LinkCloses) /\ UNCHANGED clientVars

Spec == Init /\ [][Next]_vars

(***************************************************************************)
(* Fairness.  A read that has timed out returns, and the timer of a call   *)
(* does expire: a call that is not stuck in linux_read takes steps that    *)
(* end at an expired loop head.  For the keep-alive property more is       *)
(* assumed: the broker answers, TCP delivers what was sent, not every send *)
(* times out, and the application keeps calling MQTTYield, as the loop of  *)
(* stdoutsub.c does.                                                       *)
(***************************************************************************)
Alone(clientStep) == clientStep /\ UNCHANGED brokerVars

TimedSpec == Spec /\ WF_vars(\E rc \in Results : Alone(cycle(TRUE, rc)))

LiveSpec ==
  /\ TimedSpec
  /\ SF_vars(Alone(\/ CyclePlain(TRUE, SUCCESS)
                   \/ CyclePublish(TRUE, SUCCESS)
                   \/ CyclePubrec(TRUE, SUCCESS)))
  /\ SF_vars(Alone(CycleReadFails(TRUE, SUCCESS)))
  /\ WF_vars(BrokerNext /\ UNCHANGED clientVars)
  /\ WF_vars(Alone(MQTTYield))

(***************************************************************************)
(* Properties.                                                             *)
(***************************************************************************)
\* Type invariant: the fields of struct Client, the call in progress, the two
\* directions of the connection, the broker and the history have their types.
TypeOK == ClientTypeOK /\ WireTypeOK /\ BrokerTypeOK

SessionPackets == {"SUBSCRIBE", "UNSUBSCRIBE", "PUBLISH", "PUBREL", "PUBACK", "PUBREC"}

\* The client believes in a session only when the broker accepted a CONNECT on the
\* very connection in use, and nothing but CONNECT, PINGREQ and DISCONNECT travels
\* on a connection before that: MQTTConnect sets isconnected from a CONNACK of this
\* connection only, a late CONNACK of an earlier MQTTConnect included, and the
\* isconnected guard of every request is enough to keep requests behind it.
SessionIsReal ==
  /\ isconnected => accepted
  /\ \A i \in DOMAIN toBroker : toBroker[i].type \in SessionPackets => accepted

\* At most one PINGREQ or PINGRESP in the two channels, and only if `outstanding'.
AtMostOnePing(up, down, outstanding) ==
  /\ \A i, j \in DOMAIN up : up[i].type = "PINGREQ" /\ up[j].type = "PINGREQ" => i = j
  /\ \A i, j \in DOMAIN down : down[i].type = "PINGRESP" /\ down[j].type = "PINGRESP" => i = j
  /\ \A i \in DOMAIN up, j \in DOMAIN down :
       ~(up[i].type = "PINGREQ" /\ down[j].type = "PINGRESP")
  /\ \A i \in DOMAIN up : up[i].type = "PINGREQ" => outstanding
  /\ \A i \in DOMAIN down : down[i].type = "PINGRESP" => outstanding

\* keepalive never has two pings under way on a connection, and a ping under way is
\* always known to the client: a PINGREQ or PINGRESP in the channels is the only one,
\* and ping_outstanding is set.
OnePingInFlight == AtMostOnePing(toBroker, toClient, ping_outstanding)

\* The packet that finishes a request.
FinalAck == [SUBSCRIBE |-> "SUBACK", UNSUBSCRIBE |-> "UNSUBACK",
             PUBLISH1 |-> "PUBACK", PUBLISH2 |-> "PUBCOMP"]

\* No call ends well without the broker having finished a request of its kind: the
\* acknowledgement that ended it was really sent, for this call or an earlier one,
\* and no acknowledgement ever ends two calls.  This is what waitfor's comparison of
\* packet types alone still guarantees.
CompletionsAreAnswered ==
  \A c \in completed :
    /\ <<FinalAck[c.op], c.ack>> \in done
    /\ c.ack <= c.call
    /\ \A d \in completed : c.op = d.op /\ c.ack = d.ack => c = d

\* The packet identifier identifies the request: an acknowledgement that carries the
\* identifier of the waiting call answers that call, unless MAX_PACKET_ID or more
\* calls lie between.  So getNextPacketId, its wrap to 1 included, is good enough for
\* the comparison that the code leaves out.
SameIdSameRequest ==
  \A c \in completed :
    c.id = c.ackid /\ c.call - c.ack < MAX_PACKET_ID => c.ack = c.call

\* No message is lost behind the application's back: for every PUBLISH on its way
\* deliverMessage will find a handler, unless an MQTTSubscribe for a matching filter
\* has installed none: it is still waiting for its SUBACK (the broker may publish
\* before it), it ended with an error, or it found the table full.  A handler that
\* was installed stays through unsubscriptions, reconnects and late SUBACKs.
NoSilentLoss ==
  \A i \in DOMAIN toClient :
    toClient[i].type = "PUBLISH" =>
      \/ deliverMessage(toClient[i].topic) # {}
      \/ \E f \in unserved : <<f, toClient[i].topic>> \in Matches

\* Every API call returns while the connection lasts: the timer of waitfor or
\* MQTTYield ends a call whose answer never comes.
CallsReturn == InCall ~> (~InCall \/ link = "closed")

\* "if (expired(timer)) break; // we timed out" (waitfor): a call that waits for its
\* answer in waitfor returns by its deadline whatever happens to the connection.
CallsAlwaysReturn == (InCall /\ cur.op # "YIELD") ~> ~InCall

\* An application that keeps calling MQTTYield keeps its session alive: when the
\* ping timer of a connected client has run out, something is sent to the broker
\* again (which restarts the timer), unless the session ends first.
KeepAliveHeld ==
  (isconnected /\ keepAliveInterval # 0 /\ pingExpired)
    ~> (~pingExpired \/ ~isconnected \/ link = "closed")
=============================================================================
