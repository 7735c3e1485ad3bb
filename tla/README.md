# Verification of openwrt-mqtt

The repository is an OpenWrt package feed around the Eclipse Paho *embedded* MQTT
clients: a router polls pH and ORP sensors on serial ports and publishes the
readings to an MQTT broker; an OpenVPN package, with its source, connects it to the
outside. This directory holds TLA+ models of that code, TLC configurations that
check them on small instances, and TLAPS proofs.

Run everything from this directory:

    tlc -config Client_session.cfg MCMQTTSession     (and the other .cfg files)
    tlapm MQTTSessionProofs.tla                      (and the other *Proofs.tla files)

`PROJECT.json` maps every definition to the lines it models and lists runs,
mutants, hazards, findings and theorems.

## Inventory

Paths are below `src/paho/src/` unless they start with another package's name.
OpenVPN's are below `openvpn/src/src/openvpn/`.

| Component | Source | State | Operations | Hard behaviour |
|---|---|---|---|---|
| C client | `MQTTClient-C/src/MQTTClient.c`, `.h` | `struct Client`: `isconnected`, `next_packetid`, `keepAliveInterval`, `ping_outstanding`, `ping_timer`, five handler slots | `MQTTConnect`, `MQTTSubscribe`, `MQTTUnsubscribe`, `MQTTPublish`, `MQTTYield`, `MQTTDisconnect`; inside a call `waitfor`, `cycle`, `keepalive`, `deliverMessage` | answers that come after the call that asked for them timed out; pings interleaved with requests; reconnects; packets in any order inside any call |
| Linux network layer | `MQTTClient-C/src/linux/MQTTLinux.c` | a socket, timers | `linux_read`, `linux_write`, `ConnectNetwork`, `expired`, `countdown` | timeouts, closed connections, partial writes |
| Connection and broker | external | packets under way, sessions, subscriptions | take a packet and answer, publish, close | delay, closing at any moment |
| Topic matching | `MQTTClient-C/src/MQTTClient.c` (`isTopicMatched`) | none | match a filter with a name | wildcards at the ends of a level |
| Packet codec | `MQTTPacket/src/*.c` | buffers; `MQTTTransport` for the non-blocking reader | serializers, deserializers, `MQTTPacket_read`, `MQTTPacket_readnb` | a packet that arrives in pieces, length fields at their limits, truncated bodies |
| C++ client | `MQTTClient/src/MQTTClient.h`, `linux/linux.cpp` | as the C client, plus the message in flight and the identifiers of incoming QoS 2 messages | `connect`, `publish`, `subscribe`, `unsubscribe`, `yield`, `disconnect`, `cycle` | republishing after a reconnect, exactly-once delivery over connections that fail |
| Sensor gateway | `MQTTClient-C/samples/linux/stdoutpub.c`, `uart.c`, `crc.c` | serial buffers, the last frame | poll, read, check, publish | answers that are late, cut up or corrupt |
| Service and LuCI page | `mqtt-luci/files/root/...` | running gateways | start, stop, render the page | `start` while an instance runs; a start without a terminal |
| OpenVPN reliability layer | `reliable.c`, `.h`, its callers in `ssl.c` | unacknowledged and undelivered packets, ids to acknowledge, state of the key exchange up to `S_START` | write, transmit, retransmit, acknowledge, take, deliver | loss, repetition and reordering; windows that fill up; ids that wrap around |
| OpenVPN packet ids | `packet_id.c`, `.h`, callers in `crypto.c`, `init.c` | the sender's id, the receiver's window, the saved position | number, test, add, reap, save, load | replays at the edge of the window, restart and crash, wrap-around |
| OpenVPN fragmentation | `fragment.c`, `.h`, callers in `forward.c` | the rest of one outgoing datagram, a window of reassembly buffers | cut, send on, join, give up | sequence ids that are used again, pings between fragments |
| OpenVPN TLS sessions | `ssl.c` | three sessions of two key states | key exchange, renegotiation, dispatch | partly modelled: the handshake up to `S_START` |
| Subscriber | `.../first_mqtt/stdoutsub.c` | the client | subscribe, then `MQTTYield` for ever | none of its own |
| Packet level samples | `MQTTPacket/samples/backup/*.c` | a socket | demonstrations of the codec | `EAGAIN` in the non-blocking transport |
| Rest of OpenVPN, `cJSON.c`, `helloworld`, `uart`, `test` | | | | see "Not modelled" |

`MQTTClient-C/samples/linux/MQTTClient.c` and `first_mqtt/MQTTClient.c` are copies of
`MQTTClient-C/src/MQTTClient.c`: the client model stands for all three.

How they interact: the gateway and the subscriber call the C client, which calls the
codec to build and parse packets and the network layer to move them; the LuCI page
starts and stops gateways. The C++ client is an alternative to the C client on the
same codec. Inside OpenVPN the TLS sessions use the reliability layer for the control
channel; data packets are cut by the fragmentation and numbered by the packet ids
before they are encrypted, and pass the same two in the opposite order on arrival.

What makes each component correct:

* C client: a session exists only where the broker agreed to one; no more than one
  ping is under way and a ping is sent when one is due; a call that succeeds was
  answered; identifiers tell requests apart; a message finds its handler; every call
  returns.
* Codec: a packet that arrives in pieces is read as if it had come at once, and nothing
  is stored past the buffer.
* Topic matching: agrees with the MQTT rules for every well-formed filter.
* C++ client: a message in flight is not lost before the broker has it; an incoming
  QoS 2 message is delivered once, and dropped for two known reasons only.
* Gateway: what is published was measured, in order; both sensors keep being polled.
* Reliability layer: exactly once, in order, and eventually.
* Packet ids: nothing is accepted twice in one life of the receiver, little again after a
  restart, and reordering within the window is tolerated.
* Fragmentation: only whole datagrams, and all of those whose fragments arrive.

## Modules

    MQTTWire        packets, the two channels of a connection, topics
      +-- MQTTBroker    the broker and the failures of the connection (external)
      +-- MQTTClient    the C client on its Linux network layer
            +-- MQTTSession   client + broker: Init, Next, fairness, properties
                  +-- MCMQTTSession          TLC instances
                  +-- MQTTSessionProofs      theorems

    TopicFilter     isTopicMatched
      +-- TopicMatching   MQTT's definition of a match, and the comparison --> MCTopicMatching
            +-- TopicMatchingProofs
    PacketReader    MQTTPacket_readnb        --> PacketReaderProofs
      +-- MCPacketReader

    SessionBroker   a broker that keeps sessions between connections (external)
      +-- CppClient       the C++ client     --> MCCppClient
            +-- CppClientProofs
    Gateway         poll loop and service    --> MCGateway
      +-- GatewayProofs

    Reliable        data structures of reliable.c
      +-- ReliableLink    two peers and a network   --> MCReliableLink
            |             implements ReliableChannel (abstract: a pair of FIFO channels)
            +-- ReliableLinkProofs
    PacketId        the functions of packet_id.c
      +-- ReplayWindow    sender, network, receiver --> MCReplayWindow
            +-- ReplayWindowProofs
    Fragment        the functions of fragment.c
      +-- FragmentTunnel  sender's event loop, network, receiver --> MCFragmentTunnel
            +-- FragmentTunnelProofs

Definitions whose names begin with `Buggy`, or name a mistake (`KeepsTime`,
`NeverFrees`, `OneRead`...), stand in front of the definition they vary: they are the
mutants `PROJECT.json` lists, and no specification uses them.

### MQTTClient

The client is single threaded: the application makes one API call at a time, and a
call that waits runs `cycle()` until the packet it waits for has come or its timer
has expired. A step of the model is what happens between two blocking reads: the
entry of a call with its send, or one whole `cycle()` (read, dispatch on the packet
type, deliver, acknowledge, `keepalive`, the comparison in `waitfor`, and, when the
call is over, all the caller does after `waitfor`).

| TLA+ | Code |
|---|---|
| `isconnected`, `next_packetid`, `keepAliveInterval`, `ping_outstanding`, `messageHandlers` | the fields of `struct Client` |
| `pingExpired` | `expired(&c->ping_timer)` |
| `cur` | the call in progress: operation, its number, its identifier, its filter |
| `ret` | what the last call returned |
| `ncalls`, `nconns`, `completed`, `unserved` | counters and history, for bounds and properties |
| `MQTTConnect`, `MQTTSubscribe`, `MQTTUnsubscribe`, `MQTTPublish`, `MQTTYield`, `MQTTDisconnect` | entry of the API functions up to the first read |
| `CyclePlain`, `CyclePublish`, `CyclePubrec` | `cycle()` by type of the packet read |
| `CycleReadFails` | `cycle()` when `linux_read` times out |
| `CycleReturns`, `CycleFails`, `LoopHead` | the loops of `waitfor` and `MQTTYield` |
| `ConnectCompletes`, `SubscribeCompletes`, `UnsubscribeCompletes`, `PublishCompletes` | the code of a call behind `waitfor` |
| `ConnectNetwork`, `PingTimerExpires` | `ConnectNetwork`, the passing of time |
| `readChar` | the return code of a SUBACK passes through a plain `char` |

Details kept because the properties depend on them: `cycle()` keeps the -1 of a
failed read in an `unsigned short`, so it never counts as a failure; a send restarts
the ping timer; a failed acknowledgement skips `keepalive`; `waitfor` compares packet
types and nothing else; `MQTTSubscribe` installs its handler after the SUBACK, also
when the SUBACK could not be parsed, and returns the granted QoS when the table is
full; `MQTTUnsubscribe` leaves the handler; nothing but `MQTTDisconnect` clears
`isconnected`; nothing but a PINGRESP clears `ping_outstanding`; `MQTTClient()` sets
neither `next_packetid` nor `keepAliveInterval`, and the programs keep the structure
on the stack, so both start with any value (`InitialIds`, `KeepAliveIntervals`); readChar
returns a plain `char`, so that where it is signed (`CharIsSigned`) a refusal, 0x80, becomes
-128 and the comparison with 0x80 never holds. The programs open a connection before
MQTTConnect and while the client is not connected; that is their discipline, stated in
`MQTTSession!NewConnection`, and no test of the library.

The timer of a call is the parameter `expires` of a step rather than a variable: it
is read only by `sendPacket` and at the head of the loop, where an expired timer ends
the call. `rc` is the result of the step's `sendPacket`. An acknowledgement sent inside
`cycle()` can fail only for want of time or because the peer is gone.

Which parsers can fail was read from the codec: MQTTDeserialize_publish (a topic that
does not fit) and MQTTDeserialize_suback (too many return codes) can return something
other than 1; for the other packets here the return value is the length of the length
field, 1, even for a body that is too short. The field `ok` of a packet says what the
parser answers.

### MQTTBroker and MQTTWire

External. The broker takes packets in order, answers as late as it likes, may put a
matching message before a SUBACK, refuses a CONNECT with a CONNACK and closes, closes
on a protocol error and on DISCONNECT; the connection may close at any time
(`LinkFailures`). TCP loses, duplicates and reorders nothing while the connection is
up; what was sent on a closed one is lost. A packet's field `call` is a history
variable: it is not on the wire, and only properties look at it.

### TopicFilter and TopicMatching

`isTopicMatched` step by step: an iteration of the outer loop (`StepOver`,
`StepOverHash`, `EnterPlus` ... `LeavePlus`), of the inner loop (`Skip`), and the return.
Pointers are positions in the two strings. `TopicMatching` cuts filter and name into
levels, at their separators in order (`Cuts`), and says what MQTT calls a match. The filters tried are all strings, since the
bounds must hold for malformed ones too; the comparison is for those the comment in
front of the function admits (`WellFormed`). deliverMessage also accepts a name equal
to the filter, which for a filter without wildcards is the same.

### PacketReader

`MQTTPacket_readnb` resumes at `trp->state` whenever it is called, so its steps are the
calls of `getfn`: `ReadHeader`, `LengthAgain`, `LengthDigit`, `LengthLastDigit` (which
writes the length back and compares it with the buffer), `LengthTooLong`, `ReadBody`. The
peer's bytes arrive one by one at any time, before or between the calls. A byte is a
number below 2 * Base; Base is 128 in the code and 2 in the runs, so that a length of
four bytes is that of an 8-byte body. `getfn` is `transport_getdatanb`, which never
returns -1. The header and the length written back take up to five bytes before
anything is compared with `buflen`, hence the assumption `buflen >= 5`. The peer sends
lengths of at most four digits (`LengthAssumption`), as MQTT has them.

### CppClient and SessionBroker

The template of `MQTTClient.h` as `hello.cpp` builds it, with `MQTTCLIENT_QOS1` and
`MQTTCLIENT_QOS2`. As in the C client a step is the entry of a call with its send, or
one pass of `cycle`.

| TLA+ | Code |
|---|---|
| `inflight` | `pubbuf`, `inflightMsgid`, `inflightQoS` |
| `incomingQoS2messages`, `isQoS2msgidFree`, `useQoS2msgid` | the table of identifiers and its functions |
| `connect`, `publish`, `subscribe`, `unsubscribe`, `yield`, `disconnect` | entry of the methods |
| `Cycle` with `Delivers`, `Replies`, `QoS2Table`, `keepalive` | one pass of `cycle()` |
| `Complete`, `Connacked`, `Installs`, `Acked` | the code of a method behind `waitfor` |
| `GiveUp` | the timer of a call expires |
| `NetworkConnect`, `Reconnect` | the network object is connected anew; the application does so between calls, while the client is not connected |
| `stored`, `completed`, `arrived`, `taken`, `received` | history: what was kept, what succeeded, what was delivered, what the client and the broker acknowledged |
| `stale`, `excused` | history: identifiers in the table from an earlier session, messages dropped for these or for a full table |

Kept, because properties turn on it: connect republishes whatever is in flight,
whatever the CONNACK said, and lets the result replace its own; the `#elif` after the
QoS 1 wait leaves the wait for PUBCOMP out of this build; the message in flight is set
before the send; a PUBREL frees an identifier only when the PUBCOMP was sent; nothing
clears the table; a send may fail on a connection that is up, for its timer has expired or
`write()` fails, and may succeed on one that is closed; a refused SUBACK passes through a
signed `char` as in the C client. The broker keeps the state of a session that is not clean
and sends unfinished messages again; a session that was begun clean ends with its
connection (`temporary`), and the step that begins a session without a past is `NewSession`.
A PUBLISH may come before the SUBACK of its subscription.

### Gateway

`Start` is one run of the init script's `start`, whether an instance runs or not; `Stop` is
`killall`. UART_Open wants a terminal as standard input: an instance without one, as one
started by the LuCI page, ends before it touches a line; the other alternative of `Start` is
`Begin`, from UART_Init (whose UART_Set flushes both lines) to the loop. An instance's `Command`, `Selected`, `TimedOut`, `Read`
and `Check` are the steps of its loop in `stdoutpub.c`: `UART_Send`, the two outcomes
of `select` in `UART_Recv`, its reads, and the CRC and range checks with the publish.
A byte is the pair of the poll it answers and its place in the answer. `disturbed`
remembers the sensors whose line lost a byte, or that a second instance used, or that
were restarted in the midst of an answer: of those nothing is claimed. A serial line that
fails, so that `select` and `read` return -1, is left out.

### Reliable, ReliableLink, ReliableChannel

`Reliable` has one operator per function of `reliable.c`, under its name; the array of a
`struct reliable` is the set of its active entries, and `next_try` is whether it has
passed. `ReliableLink` puts two peers on a network that loses, repeats and reorders.
The steps of a peer are the blocks of `tls_process` (`Write`, `Start`, `Transmit`,
`SendAck`, `Deliver`), the passing of time (`Expire`, which is the `now >= e->next_try` of
reliable_can_send, and `GiveUp`: `now >= must_negotiate` below S_ACTIVE ends the key state
in S_ERROR, ssl.c:2296-2305, which may happen at any time) and the end of
`tls_pre_decrypt` (`Receive`, with `Accept` for the packet id and the message). The
first message of a peer is its hard reset; a peer that does not know the other's
session takes nothing else. `ReliableChannel` is the abstract specification: messages
are delivered in the order they were written. `ReliableLink` instantiates it
(`INSTANCE ReliableChannel WITH written <- written, delivered <- delivered`): both
variables are history variables of the link, so the mapping is the identity. A link with `FirstPids` other than 0 is a key state that
has exchanged that many packets, all of them acknowledged.

### PacketId, ReplayWindow

`PacketId` has the functions of `packet_id.c`; the circular list is a sequence, the
latest id first, and an item is the time at which its id was seen, `SEQ_UNSEEN` or
`SEQ_EXPIRED`. `ReplayWindow` is one direction of a tunnel: `Send` (openvpn_encrypt),
`Receive` of any packet ever sent, any number of times (openvpn_decrypt), `Flush`,
`Restart` (do_close_packet_id, then packet_id_persist_load_obj) and `Crash`. Only the
order of the sender's time stamps matters. In the short form the ids must not wrap,
which the code asserts. Two assumptions on the sender: its clock has moved on when its ids
wrap, after 2^32 packets, and it is not itself restarted with the same key. The receiver's
file can be opened, locked and read. `accepted` is what this life of the receiver has
accepted, `earlier` what its earlier lives did, and `past` those of them up to the saved
position.

### Fragment, FragmentTunnel

`Fragment` has the functions of `fragment.c`; a byte is the pair of its datagram and
its place there, so that a mixed-up datagram is visible. `FragmentTunnel` runs the
sender's event loop (`check_tls`, `check_send_occ_msg`, which also stands for
check_ping_send, `check_fragment`, `process_outgoing_link`, `process_incoming_tun`), a
network, and the receiver (`process_incoming_link`, `fragment_ttl_reap`).
`optimal_fragment_size` is kept with its two roundings. `Reach` is an assumption on
the network, see the bounds.

### Abstractions

Payloads, client identifiers and credentials are left out. `Matches` stands for
`MQTTPacket_equals` or `isTopicMatched`. A handler does not call the API. In the two
client models a packet is read whole or not at all and written whole or not at all; a
`ConnectNetwork` that fails is no step. A process that dies of SIGPIPE takes no
further step. In the OpenVPN models encryption and HMACs are left out: the network
does not forge.

## Runs

| Run | Specification | Bounds | Checks |
|---|---|---|---|
| client_session | `TimedSpec` | 3 calls, 2 connections, 1 message, 1 handler slot, identifiers 1..2 from 1 and from 7 (above MAX_PACKET_ID), link failures, unparsable packets | `TypeOK`, `SessionIsReal`, `OnePingInFlight`, `CompletionsAreAnswered`, `SameIdSameRequest`, `NoSilentLoss`, `CallsReturn` |
| client_keepalive | `LiveSpec` | 3 calls, 1 connection, 1 message, keep-alive on and off | `KeepAliveHeld` |
| client_hang | `TimedSpec` | 1 call, link failures | `CallsAlwaysReturn`, violated |
| topic_matching | `Spec` | all filters of 1..5 characters of a / + #, all names of 1..4 characters of a b / | `InBounds`, `NoFalseMatch`, `NoMissedMatch` |
| packet_reader | `LiveSpec` | 2 packets, bodies of 0, 1, 8 and 9 bytes, a buffer for 13 | `BufferSafe`, `ReadsWhatWasSent`, `NoErrorWithoutCause`, `PacketsReturned` |
| cpp_session | `Spec` | 4 calls, 2 connections, identifiers 1..3, 1 handler slot, 2 incoming messages, 2 identifiers of the broker (symmetric), table of 1, QoS 0, 1 and 2 out, QoS 1 and 2 in, clean sessions and kept ones | `TypeOK`, `ConnectedIsReal`, `UnackedIsKept`, `PublishCompletes`, `AtMostOnce`, `TakenIsDelivered` |
| gateway | `Spec` (with fairness) | 2 instances, 2 sensors, answers of 2 bytes, 2 polls of each, 1 lost byte, 2 starts | `WholeAnswers`, `StalenessBounded`, `PublishedInOrder`, `KeepsPolling` |
| reliable_link | `Spec` | 8 packet ids, from 0 or from 7; buffers of 2, acknowledgement lists of 2, 1 riding on a packet; 3 + 1 messages, 2 packets in flight | `TypeOK`, `NothingForgotten`, `RoomForNext`, `WithinWindow`, `HandshakeComplete`, `ImplementsChannel` |
| reliable_delivery | `FairSpec` | as above from 0, 4 + 1 messages, 1 packet in flight | `DeliversAll` |
| replay_window | `Spec` | ids 1..4, three windows, UDP and TCP, long and short form, 6 packets, a clock from 2 to 4, 3 lives | `NoReplay`, `SentOnce`, `ReorderingTolerated`, `RestartRemembers` |
| replay_restart | `Spec` | as above | `NoReplayAfterRestart`, violated |
| fragment_tunnel | `Spec` | 2 reassembly buffers, 4 sequence ids, up to 3 fragments, lengths 3, 8, 9, 20 and a payload of 6, 5 datagrams, 2 fragments in flight, `Reach` 2 | `OnlyWholeDatagrams`, `ReorderedFragmentsJoin`, `NoRestOverwritten`, `SameNumberOfFragments` |

Why the bounds are enough:

* Clients: a confusion between two calls needs the call that times out and the one
  that takes its answer, behind a CONNECT, which makes three; a confusion between two
  connections needs two; one message exercises every branch of `cycle()` for PUBLISH;
  with identifiers 1 and 2 the wrap-around happens within the three requests after a
  CONNECT; one handler slot is full after one subscription. MQTTYield and the steps of
  `cycle()` are not bounded in the C client's model. UINT_MAX + 1 stays a multiple of
  MAX_PACKET_ID + 1, as 2^32 is of 2^16. In the C++ client a message that was published,
  not acknowledged and republished on a second connection takes three calls, the fourth
  follows it; two incoming messages with two identifiers let one identifier be used
  for both, and a repeated message overtake a new one, and fill a table of one.
* Topics: filters of five characters hold three levels with both wildcards.
* Reader: a body of 8 bytes has a length field of the full four bytes and just fits the
  buffer, one of 9 does not, a packet without a body is PINGRESP's case; a second packet shows whether the first was left at its end.
* Gateway: a late answer is read by the next poll, so two polls show it; the second
  instance is what a second `start` brings.
* Reliability layer: three messages are one more than a buffer holds; from 7 the ids
  wrap at the second packet; a network of two packets reorders.
* Replay window: six packets are more than the four ids, and more than any window;
  three lives hold a restart behind a crash and the reverse.
* Fragments: five datagrams use the four sequence ids up, and a length of 20 is too long
  for three fragments, 8 and 9 are cut evenly and unevenly, 3 goes whole. Sequence ids
  cannot tell apart datagrams that are more than N_SEQ_ID - N_FRAG_BUF apart (231 in
  the code); `Reach` says that the network does not bring such fragments together. The assumption is tight: with `Reach` 3 `OnlyWholeDatagrams` fails.

`MAX_PACKET_ID`, `UINT_MAX`, `MAX_MESSAGE_HANDLERS`, `PID_MOD`, `ID_MOD`, the buffer sizes
and the fragment constants are constants of the code made small; names that begin
with `Max`, and `NetCapacity`, are bounds of the models.

Deadlock is not checked: a client stuck in `linux_read` on a closed connection really
takes no further step, and neither does one whose calls are used up; isTopicMatched
returns; the reader and the gateway wait for bytes; a link whose messages are all
delivered and acknowledged is at rest.

### What the passing runs show

* `SessionIsReal`: although a CONNACK is recognized by its type alone, `isconnected`
  always means that the broker accepted the connection in use, and requests travel
  only behind an accepted CONNECT.
* `OnePingInFlight`: `keepalive` runs after reads, failed reads and acknowledgements
  alike, yet a PINGREQ or PINGRESP under way is the only one and `ping_outstanding`
  is set.
* `CompletionsAreAnswered`: no call succeeds without an answer of the right type that
  the broker really sent to this or an earlier call, and no answer ends two calls.
* `SameIdSameRequest`: the identifier would tell the answers apart: an answer with the
  identifier of the waiting call is its answer unless a whole cycle of identifiers
  lies between.
* `NoSilentLoss`: whatever the order of answers, unsubscriptions and reconnects, a
  message on its way has its handler, or its loss has a cause the application can know:
  a subscription that is not answered yet, has failed or found the table full.
* `CallsReturn`, `KeepAliveHeld`: see fairness.
* `NoFalseMatch`, `NoMissedMatch`: isTopicMatched matches nothing MQTT does not match,
  and misses only "a" for the filter "a/#" and wildcards that would have to stand for
  an empty level ("/a", "a//b", "a/").
* `ReadsWhatWasSent`, `NoErrorWithoutCause`, `PacketsReturned`: the non-blocking reader
  returns the packets sent, byte for byte, until its first error; that has one of two
  causes, a packet that does not fit, or calls that came too early while a length was
  read (four such calls make an error of a good packet); and it gets to the end of
  every packet that has a body and no packet without one in front of it. `BufferSafe` holds after errors too.
* `ConnectedIsReal`: the C++ client begins to take itself for connected only when the
  broker has accepted the connection, with one exception: the republish of a QoS 2 message
  hides a refusal.
* `UnackedIsKept`, `PublishCompletes`: at QoS 1 the C++ client keeps a
  message until the broker has it, over timeouts, failures and reconnects, and tells
  its caller the truth, whatever it publishes with other QoS in between; of QoS 2 messages
  neither is true. A later publish cannot take the place of one that is not
  acknowledged: a publish that fails ends the session, and connect republishes first.
* `AtMostOnce`, `TakenIsDelivered`: an incoming QoS 2 message is delivered at most once, and
  one that was acknowledged is delivered unless its identifier was in the table from an
  earlier session or the table was full. Within one session, with a table as large as the
  broker's window, that is exactly once.
* `WholeAnswers`, `StalenessBounded`, `PublishedInOrder`: late answers never break the
  framing of the serial protocol, but each poll that times out makes all later readings
  one poll older for good, since nothing is ever dropped from the line; readings keep
  their order. `KeepsPolling`: UART_Recv waits for ever only if a byte was lost or taken.
* `NothingForgotten`, `RoomForNext`, `WithinWindow`, `HandshakeComplete`,
  `ImplementsChannel`, `DeliversAll`: the reliability layer is a pair of FIFO channels, until
  a peer gives up. Its safety holds across the wrap-around of packet ids too.
* `NoReplay`, `SentOnce`, `ReorderingTolerated`, `RestartRemembers`: within one life of
  the receiver replay protection neither lets a packet pass twice nor drops what it promises
  to tolerate. After a restart it does let packets pass again, but only packets less than the
  window behind the latest, only in UDP mode, and only once it has accepted another one.
* `OnlyWholeDatagrams`, `ReorderedFragmentsJoin`, `NoRestOverwritten`,
  `SameNumberOfFragments`: reassembly is exact and complete within its window; the
  sender's checks keep a ping from overwriting the rest of a datagram, although
  fragment_outgoing itself only logs that case.

### What the violation runs show

Each is against a comment or doc of the repository quoted in `PROJECT.json`: a call that
waits in waitfor on a connection the peer has closed never returns (client_hang), and a
restarted receiver accepts packets that the prior session received, against openvpn.8
(replay_restart): only the latest time stamp and id are saved, and the list of seen ids
begins empty.

### Divergences not kept as runs

These follow from the models; a changed constant in a configuration shows most of them.

| What | How to see it |
|---|---|
| After a disconnect with a ping unanswered the C client's next session is never kept alive: only a PINGRESP clears `ping_outstanding` | `MaxConns = 2` in Client_keepalive.cfg: `KeepAliveHeld` fails |
| A packet without a body is never returned by the non-blocking reader, nor is what follows it | in the run; `PacketsReturned` speaks of packets with a body for this reason, and fails without that condition |
| At QoS 2 the C++ client's publish does not wait for the broker (the `#elif` at MQTTClient.h:817), against "wait for all acks to complete for all QoSs" (MQTTClient.h:130) | in the run; `PublishCompletes` fails without its `m.qos = 1` |
| With a QoS 2 message in flight a refused connect makes `isconnected` true | in the run; `ConnectedIsReal` fails without its exception |
| A later publish takes the place of a QoS 2 message in flight that the broker does not have yet | in the run; `UnackedIsKept` fails without its `m.qos = 1` |
| A reconnect with a clean session keeps old identifiers in `incomingQoS2messages`, and new messages are acknowledged and dropped for them; so are messages that find the table full | in the run, both; `TakenIsDelivered` fails without `excused` |
| Where `char` is signed a refused subscription counts as granted and gets a handler, in both clients (MQTTClient.c:394, MQTTClient.h:738, readChar in MQTTPacket.c:139) | in the runs (`CharIsSigned = TRUE`) |
| A message that comes before the SUBACK of its subscription is given to no handler by the C client, which has no default handler | in the run; `NoSilentLoss` fails without `unserved` |
| A retransmission from before the wrap-around is refused by reliable_pid_in_range2 and never acknowledged again, against the comment at ssl.c:3210 ("even if it's a replay"); it takes 2^32 control packets | `FirstPids = {7}` in Reliable_delivery.cfg: `DeliversAll` fails |
| A late UNSUBACK or SUBACK ends the wrong call: waitfor compares types only (MQTTClient.c:319) | in the model; `CompletionsAreAnswered` allows "this or an earlier call" for this reason |
| A refused MQTTConnect returns the positive CONNACK code, where MQTTClient.h:29 has negative failures | in the model (`ConnectCompletes`) |
| MQTTClient() does not set `next_packetid`; from a value above MAX_PACKET_ID identifiers run through all of `unsigned int`, and one whose low 16 bits are 0 is sent as 0, which MQTT forbids | in the run, from 7 on (`getNextPacketId`, `Short`) |

## Fairness

`MQTTSession!TimedSpec`: weak fairness of the steps of `cycle()` that end at an expired
loop head. Time passes, `linux_read` returns when its timeout has run out, and the loop
then finds its timer expired. A client stuck in `linux_read` on a closed connection has
no such step, so nothing is assumed of it.

`MQTTSession!LiveSpec`, for keep-alive only, adds: the broker goes on answering (weak),
packets under way are read and a read that finds nothing can send its ping (strong:
not every read times out and not every send fails), and the application calls
MQTTYield again and again (weak), as `stdoutsub.c` does. The gateway `stdoutpub.c`
never calls it; `KeepAliveHeld` says nothing of that program.

`PacketReader!LiveSpec`: bytes under way arrive, and the program goes on calling the
reader, as the loops of `pub0sub1_nb.c` do.

`Gateway!Spec`: weak fairness of a running instance's steps and of the arrival of bytes.
Nobody has to start or stop a gateway.

`ReliableLink!FairSpec`: weak fairness of each peer's steps, since the event loop calls
tls_process at least once a second and retransmission times pass; strong fairness of
the receipt of each message and of each acknowledgement: what is sent again and again
is not lost every time. Nothing makes a peer write, but for its hard reset. A peer may give
up at any time before it is active (`GiveUp`), which ends all its steps and the obligation;
fairness is of steps as long as they are enabled, and so says nothing of a peer that has given
up. `DeliversAll` says that a handshake does not hang: what was written is delivered, or
a peer ends in S_ERROR. When the network's delays outlast handshake_window it is the latter.

## Proofs

Each theorem holds for every value of the constants that satisfies the named
assumptions of the modules: for any number of calls, messages, connections, failures,
buffers, and any size of the tables. Thirty-five theorems state properties that the runs
check on small instances: every invariant and safety property of the runs has one. Most of the properties are not inductive; the invariant that
makes them so was found with TLC, and is defined in front of the lemmas.

`MQTTSessionProofs.tla` (`TopicAssumption`, `BrokerAssumption`, `ClientAssumption`):

* `TypeCorrect`: `Spec => []TypeOK`. One lemma per operator the steps are built from
  (`sendPacket`, `keepalive`, `Return`, `Record`, `CycleReturns`, `Begin`...), then
  one step per action.
* `SessionSafety`: `Spec => []SessionIsReal`. SessionIsReal is not inductive: a
  CONNACK with code 0 under way on a connection that was not accepted would make
  `isconnected` true. The inductive invariant `SessionInv` says that a connection is
  accepted, or else the client is not connected, no request is under way and no
  CONNACK with code 0 is under way.
* `PingSafety`: `Spec => []OnePingInFlight`. OnePingInFlight is inductive relative to
  TypeOK; lemmas say what appending to, and taking from, either channel does to it.
* `CompletionsReal`: `Spec => []CompletionsAreAnswered`, and `IdsTellRequests`:
  `Spec => []SameIdSameRequest`, both from `RequestsTracked`: `Spec => []RequestInv`. A
  request is in one packet that asks for it, or in one that answers it, or it has ended
  one call (`Single`); a second copy would end two calls. The identifier of a packet lies
  behind the client's by at most as much as calls were made since (`Behind`, in
  `Tracked`), so that an equal identifier on another call is a whole cycle old. Every
  answer under way was noted when the broker sent it (`Acknowledged`).
* `LossesAreKnown`: `Spec => []NoSilentLoss`. The property is about what is under way; the
  invariant `ServedInv` adds the broker's side: every filter the broker may publish for has a
  handler that matches or is in `unserved`.

`TopicMatchingProofs.tla` (`CharAssumption`), for all sets of filters and names, of any
length and over any characters:

* `PointersInBounds`: `Spec => []InBounds`. InBounds is inductive: that `curn` is in front of
  the end inside the inner loop, and at most at the end outside, is what the increments
  need.
* `MatchesAreReal`: `Spec => []NoFalseMatch`, and `NoMatchIsMissed`: `Spec => []NoMissedMatch`.
  Both speak of the end only; what holds on the way is `MatchInv`, proved invariant in
  `LevelByLevel`: isTopicMatched, which knows no levels, is always in the same level i of
  filter and name (`Reached`), all levels before i are covered, and of this one the
  characters passed are equal and no wildcards (`Alike`), or the filter's level is `+` and
  is being passed (`AtPlus`) or has been (`PastPlus`). Only `#` leaves this scheme: then
  both strings are at their ends and the match is complete. The lemmas in front of it are about `Cuts`:
  its values are all separators, each once and in order, the ends around them, and
  between two of them there is none. They follow from cardinalities: a member of a finite
  set has as many members up to itself as its place. For NoMissedMatch `StopsAtEnd` shows
  that a loop which stops before the ends has met a level that is not covered, an empty
  level of the name, or a `#` with nothing left to stand for.
* `LoopsEnd`: both loops end, for well-formed filters and others: with every step `StepsLeft`,
  a natural number, decreases. No run has this property; TLC agrees with it on the
  instance of topic_matching.

`PacketReaderProofs.tla` (`ReaderAssumption`, `LengthAssumption`), for every base, buffer and
set of packets:

* `BufferIsSafe`: `Spec => []BufferSafe`. BufferSafe is inductive because it ties `len` to
  the bytes written and bounds `len + rem_len`; nothing is assumed about the stream, so it
  holds also when the reader takes the middle of a packet for a header.
* `PacketsAsSent`: `Spec => []ReadsWhatWasSent`, and `ErrorsHaveCauses`:
  `Spec => NoErrorWithoutCause`. The invariant `FrameInv` names what no variable holds:
  all bytes sent so far, where each packet begins among them, and how many were read. The
  bytes that were not read are those in `stream` and `wire` (`Rest`); the reader is at a
  boundary, or has read some digits of a length, or a part of a body (`At`), and what it
  has is the packet up to there. After d digits `rem_len` is the length modulo Base^d
  (`InLength`), which `DigitStep` and `DigitAt` carry from digit to digit; the digit
  without the mark completes it, since a length has at most four digits. A fifth call of
  getfn with no call in vain would need a fifth digit.

`CppClientProofs.tla` (`CppAssumption`, `BrokerAssumption`):

* `TypeCorrect`: `Spec => []TypeOK`.
* `SuccessMeansReceived`: `Spec => []PublishCompletes`, and `KeptUntilReceived`:
  `Spec => []UnackedIsKept`, for an application that publishes with any QoS. The invariant
  `PInv`: a connection that was not accepted carries nothing but
  one refusal (`Greeted`); between calls no QoS 1 message and no PUBACK is under way
  (`Quiet`), and during a publish or republish nothing but this message's PUBLISH or its
  PUBACK (`Exchange`). Hence a PUBACK belongs to the call that waits, although waitfor does
  not compare identifiers; and what is in flight while the client is connected and idle is
  nothing or a QoS 2 message, so that a later publish takes the place of no other.
* `ConnectedMeansAccepted`: `Spec => ConnectedIsReal`, an action property, from `PInv`: the
  packet that ends connect or its republish is a refusal, which only a QoS 2 republish hides,
  or comes from a broker that has accepted.
* `DeliveredOnce`: `Spec => []AtMostOnce`, without hypotheses. The invariant `TInv`: at most
  one packet under way carries a message of the session on (`Token`), unfinished
  messages have identifiers of their own (`Items`), and the identifier of a message that was
  delivered is in the table until the message is released (`Remembered`).
* `TakenWasDelivered`: `Spec => []TakenIsDelivered`, for clean sessions and kept ones, any
  table and any number of identifiers of the broker. `DInv` adds to `TInv` that an identifier
  in the table that is not `stale` belongs to a message of the session which was delivered,
  and that a PUBREC under way is for a message that was delivered or is excused.

`GatewayProofs.tla` (`GatewayAssumption`), for every length of an answer, any number of
instances, polls, lost bytes and starts: `FramesAreAnswers`, `LateByTimeoutsOnly` and
`ReadingsInOrder` state `WholeAnswers`, `StalenessBounded` and `PublishedInOrder`. The
invariant `GInv` is about the whole stream of an undisturbed sensor, from the bytes in
`rcv_buf` over those in the driver to those the sensor has not sent: it is made of whole
answers in the order of their polls, none from a poll further back than the polls that
timed out account for, and all newer than what was published.

`ReliableLinkProofs.tla` (`PidModAssumption`, `AckSizeAssumption`, `BufferAssumption`,
`WindowAssumption`). `TypeCorrect`, `Spec => []TypeOK`, holds from every first packet id. The
other theorems are for every number of messages and buffers and any network, under the
hypothesis `NoWrap`: the link starts anew and each peer writes fewer than half of all
packet ids, 2^31, as any real control channel does:

* `NeverForgotten`: `Spec => []NothingForgotten`;
* `ThreeWayHandshake`: `Spec => []HandshakeComplete`;
* `Refinement`: `Spec => ImplementsChannel`;
* `NextIsWelcome`: `Spec => []RoomForNext`;
* `SendersKeepTheWindow`: `Spec => []WithinWindow`.

The first three rest on the invariant `IInv`. None of the properties is inductive: an
acknowledgement under way for a packet that was not received would empty the sender's
buffer (`HonestAcks`), a packet under way with the wrong message would be delivered
(`SendNumbered`, `NetNumbered`, `RecNumbered`: message k has packet id k - 1 wherever it
is), two stored packets with one id would leave one behind (`RecDistinct`), and a peer
could be in S_START without an acquaintance (`Acquainted`). Under NoWrap the
comparisons of `reliable.c` are those of natural numbers, which the first lemmas say. The
last two need `Windows` as well: the ids in the send buffer, and those stored by the
receiver, span less than the size of the buffers; a count of the stored ids then shows
that a buffer without the next packet has a free entry. `WindowAssumption` says that the
buffers are smaller than half of the packet ids (8 of 2^32).

`ReplayWindowProofs.tla` (`PacketIdAssumption`, `ReplayAssumption`), for every window, id
width and number of restarts:

* `ReplayProtection`: `Spec => []NoReplay`. The invariant `RInv` adds `Memory`: every id
  accepted in this life is at or behind the receiver's position, and if it is within
  the list its item is not SEQ_UNSEEN. One lemma per function of `packet_id.c` says how
  it changes that: the reset, the push, the mark, the reaping.
* `IdsUsedOnce`: `Spec => []SentOnce`. The invariant `SInv` says that all packets sent are
  at or behind the sender's position in the order of time stamp and id.
* `LatePacketsPass`: `Spec => []ReorderingTolerated`. The converse of Memory (`WInv`): the
  list is as long as the ids and the window allow, and an item of it that is not
  SEQ_UNSEEN belongs to an id that was accepted, or expired behind another.
* `RestartKeepsPosition`: `Spec => []RestartRemembers`. `PInv`: until the first packet is
  accepted the list is empty, and what was accepted up to the saved position is at
  or before the receiver's position; from then on the length of the list, at most the
  window, bounds how far behind a packet can be and pass.

`FragmentTunnelProofs.tla` (`FragmentAssumption`, `TunnelAssumption`), for every size of the
window, of the sequence ids, of the fragments and datagrams:

* `RestIsSafe`: `Spec => []NoRestOverwritten`; `NumberOfFragmentsKept`:
  `Spec => []SameNumberOfFragments`. `SInv`: what waits in the outgoing buffer is the end
  of the latest datagram from a multiple of its fragment size on, and every fragment
  under way is a piece of its datagram. The arithmetic of `optimal_fragment_size`, two
  divisions and two roundings, is a lemma of its own.
* `NeverMixed`: `Spec => []OnlyWholeDatagrams`; `CompleteIsDelivered`:
  `Spec => []ReorderedFragmentsJoin`. `RInv`: `list.seq_id` and `position` agree modulo
  N_SEQ_ID with the sender's count, each buffer of the window holds bytes only of the one
  datagram that belongs there, in their places, and has all fragments that were heard.
  They need that `Reach` is at most N_SEQ_ID - N_FRAG_BUF, in `TunnelAssumption`.

Only model-checked: the liveness properties (`CallsReturn`, `KeepAliveHeld`,
`PacketsReturned`, `KeepsPolling`, `DeliversAll`), which are out of the prover's reach; and
the safety of the reliability layer across the wrap-around, where the theorems assume
`NoWrap`.

## Not modelled

* The rest of OpenVPN, by far the largest part of the source: a vendored program whose
  option parser, interfaces, routes, sockets, management interface and plugins are
  mostly calls to an operating system or a library. Its key exchange and the choice
  between sessions depend on state of the TLS library and on keys that a model would
  have to invent. The multi-client server is not what the feed configures.
* The serializers and deserializers of the MQTT codec: straight-line code without state.
  The hazard listed for MQTTDeserialize_suback has no property for this reason.
* Partial reads and writes of the C client (`readPacket`, `sendPacket`): the model moves
  whole packets.
* The subscriber and the samples, which are straight lines of client calls; `helloworld`,
  `uart`, `test` and `cJSON.c`: demonstrations, a copy of the codec, third-party code
  used in commented-out programs.
* The LuCI form itself, which keeps no state but the configuration.

## Plan

Done: the C client with its broker, topic matching, the non-blocking reader, the C++
client, the gateway and its service, OpenVPN's reliability layer with its abstract
specification, packet ids, fragmentation. Next:

1. Proofs: the reliability layer from any first packet id, where ids are numbers modulo
   PID_MOD. The program starts every session at 0, so this matters after 2^31 packets only.
2. Partial reads and writes of the C client, which lose the packet boundaries.
3. The lengths of the codec: MQTTPacket_len against the bytes really written.
