------------------------------- MODULE Gateway -------------------------------
(***************************************************************************)
(* The sensor gateway (stdoutpub.c, uart.c) and the service that starts    *)
(* and stops it.  The gateway polls two sensors, one after the other, each *)
(* on its own serial line: it sends a command, reads an answer of fixed    *)
(* length, checks its CRC and its temperature, and publishes it at QoS 0.  *)
(*                                                                         *)
(* An answer has no more structure here than the poll it answers and the   *)
(* place of each byte in it.  The sensors and the lines are external: a    *)
(* sensor may leave a command unanswered, an answer may come at any time,  *)
(* and a byte may be lost.                                                 *)
(***************************************************************************)
EXTENDS Integers, Sequences, FiniteSets

CONSTANTS Instances,  \* gateway processes that may run
          MSG_LEN,    \* bytes of an answer: 9 (PH) and 17 (ORP)
          MaxPolls,   \* bound: commands to each sensor
          MaxLost,    \* bound: bytes that are lost
          MaxStarts   \* bound: starts of the service

ASSUME GatewayAssumption == MSG_LEN \in Nat \ {0} /\ MaxPolls \in Nat /\ MaxStarts \in Nat

Sensors == 1 .. 2      \* PH, then ORP

VARIABLES
  pc,         \* of each instance: "off", "send", "select", "read" or "check"
  sensor,     \* of each instance: the sensor it is dealing with
  rcv_buf,    \* of each instance: the bytes read so far
  tty,        \* of each sensor: the bytes that wait in the serial driver
  wire,       \* of each sensor: the bytes it is still going to send
  polls,      \* of each sensor: commands sent to it
  late,       \* history: polls of each sensor that nothing was read for in time
  disturbed,  \* history: sensors whose answers were broken into by a lost byte,
              \* a start in their midst, or a second instance
  published,  \* history: for each sensor, the polls whose answers were published
  lost, starts

vars == <<pc, sensor, rcv_buf, tty, wire, polls, late, disturbed, published, lost, starts>>

Running == {i \in Instances : pc[i] # "off"}

Init ==
  /\ pc = [i \in Instances |-> "off"]
  /\ sensor = [i \in Instances |-> 1]
  /\ rcv_buf = [i \in Instances |-> <<>>]
  /\ tty = [s \in Sensors |-> <<>>] /\ wire = [s \in Sensors |-> <<>>]
  /\ polls = [s \in Sensors |-> 0] /\ late = [s \in Sensors |-> 0]
  /\ disturbed = {}
  /\ published = [s \in Sensors |-> <<>>]
  /\ lost = 0 /\ starts = 0

----------------------------------------------------------------------------
(* The service.                                                            *)

FlushesNothing == UNCHANGED tty

\* UART_Set of both lines drops what waits in the driver.
UART_Init == tty' = [s \in Sensors |-> <<>>]

\* From UART_Init to the loop, with both lines open.
Begin(i) ==
  /\ UART_Init
  /\ disturbed' = IF Running # {} THEN Sensors
                  ELSE disturbed \cup {s \in Sensors : wire[s] # <<>>}
  /\ \/ pc' = [pc EXCEPT ![i] = "send"]
     \/ UNCHANGED pc             \* MQTTConnect failed: exit(-1)
  /\ sensor' = [sensor EXCEPT ![i] = 1]
  /\ rcv_buf' = [rcv_buf EXCEPT ![i] = <<>>]

\* `start' runs whether an instance runs or not, and whatever `enable' is:
\* `[ $enable ]' holds of 0 as well.  An instance whose standard input is no
\* terminal, as when the LuCI page runs `start', ends in UART_Open, before it
\* touches a line.
Start(i) ==
  /\ pc[i] = "off" /\ starts < MaxStarts
  /\ starts' = starts + 1
  /\ \/ Begin(i)
     \/ UNCHANGED <<pc, sensor, rcv_buf, tty, disturbed>>     \* exit(1)
  /\ UNCHANGED <<wire, polls, late, published, lost>>

\* `stop' is killall: every instance ends, wherever it is.
Stop ==
  /\ Running # {} /\ starts < MaxStarts
  /\ pc' = [i \in Instances |-> "off"]
  /\ UNCHANGED <<sensor, rcv_buf, tty, wire, polls, late, disturbed, published, lost, starts>>

----------------------------------------------------------------------------
(* The loop of main.                                                       *)

\* On to the ORP sensor, or after it to the next round.
Advance(i) ==
  /\ pc' = [pc EXCEPT ![i] = "send"]
  /\ sensor' = [sensor EXCEPT ![i] = IF @ = 1 THEN 2 ELSE 1]
  /\ rcv_buf' = [rcv_buf EXCEPT ![i] = <<>>]

\* `continue'.
NextRound(i) ==
  /\ pc' = [pc EXCEPT ![i] = "send"]
  /\ sensor' = [sensor EXCEPT ![i] = 1]
  /\ rcv_buf' = [rcv_buf EXCEPT ![i] = <<>>]

Answer(poll) == [k \in 1 .. MSG_LEN |-> [poll |-> poll, byte |-> k]]

SendsTwice(i) ==
  LET s == sensor[i]
  IN /\ pc[i] = "send" /\ polls[s] < MaxPolls
     /\ polls' = [polls EXCEPT ![s] = @ + 1]
     /\ wire' = [wire EXCEPT ![s] = @ \o Answer(polls'[s]) \o Answer(polls'[s])]
     /\ pc' = [pc EXCEPT ![i] = "select"]
     /\ UNCHANGED <<sensor, rcv_buf, tty, late, disturbed, published, lost, starts>>

\* UART_Send: its failure is reported and otherwise ignored; a sensor that gets
\* no command, or does not heed it, sends nothing.
Command(i) ==
  LET s == sensor[i]
  IN /\ pc[i] = "send" /\ polls[s] < MaxPolls
     /\ polls' = [polls EXCEPT ![s] = @ + 1]
     /\ \/ wire' = [wire EXCEPT ![s] = @ \o Answer(polls'[s])]
        \/ UNCHANGED wire
     /\ pc' = [pc EXCEPT ![i] = "select"]
     /\ UNCHANGED <<sensor, rcv_buf, tty, late, disturbed, published, lost, starts>>

SelectIgnored(i) ==
  /\ pc[i] = "select"
  /\ pc' = [pc EXCEPT ![i] = "read"]
  /\ UNCHANGED <<sensor, rcv_buf, tty, wire, polls, late, disturbed, published, lost, starts>>

\* UART_Recv: select finds something to read, ...  (A line that fails, where
\* select and read return -1, is left out.)
Selected(i) ==
  /\ pc[i] = "select" /\ tty[sensor[i]] # <<>>
  /\ pc' = [pc EXCEPT ![i] = "read"]
  /\ UNCHANGED <<sensor, rcv_buf, tty, wire, polls, late, disturbed, published, lost, starts>>

\* ... or nothing for ten seconds.
TimedOut(i) ==
  /\ pc[i] = "select" /\ tty[sensor[i]] = <<>>
  /\ late' = [late EXCEPT ![sensor[i]] = @ + 1]
  /\ Advance(i)
  /\ UNCHANGED <<tty, wire, polls, disturbed, published, lost, starts>>

OneRead(i) ==
  LET s == sensor[i]
  IN /\ pc[i] = "read"
     /\ \E n \in 1 .. MSG_LEN :
          /\ n <= Len(tty[s])
          /\ rcv_buf' = [rcv_buf EXCEPT ![i] = SubSeq(tty[s], 1, n)]
          /\ tty' = [tty EXCEPT ![s] = SubSeq(@, n + 1, Len(@))]
     /\ pc' = [pc EXCEPT ![i] = "check"]
     /\ UNCHANGED <<sensor, wire, polls, late, disturbed, published, lost, starts>>

\* It reads until it has the whole length, however long that takes.
Read(i) ==
  LET s == sensor[i]
      need == MSG_LEN - Len(rcv_buf[i])
  IN /\ pc[i] = "read"
     /\ \E n \in 1 .. need :
          /\ n <= Len(tty[s])
          /\ rcv_buf' = [rcv_buf EXCEPT ![i] = @ \o SubSeq(tty[s], 1, n)]
          /\ tty' = [tty EXCEPT ![s] = SubSeq(@, n + 1, Len(@))]
     /\ pc' = [pc EXCEPT ![i] = IF Len(rcv_buf'[i]) = MSG_LEN THEN "check" ELSE @]
     /\ UNCHANGED <<sensor, wire, polls, late, disturbed, published, lost, starts>>

Whole(frame) == frame = Answer(frame[1].poll)

\* CRC16 accepts a frame when either of the two check bytes agrees, so that
\* a broken frame may pass.
CRC16(frame) == IF Whole(frame) THEN {TRUE} ELSE BOOLEAN

\* A temperature out of range continues the loop at once, ORP or not.
Check(i) ==
  LET s == sensor[i]
      frame == rcv_buf[i]
  IN /\ pc[i] = "check"
     /\ \/ /\ FALSE \in CRC16(frame)
           /\ Advance(i)
           /\ UNCHANGED published
        \/ /\ TRUE \in CRC16(frame)
           /\ \/ NextRound(i) /\ UNCHANGED published
              \/ /\ published' = [published EXCEPT ![s] = Append(@, frame[1].poll)]
                 /\ Advance(i)
     /\ UNCHANGED <<tty, wire, polls, late, disturbed, lost, starts>>

----------------------------------------------------------------------------
(* The serial lines.                                                       *)

Arrive(s) ==
  /\ wire[s] # <<>>
  /\ wire' = [wire EXCEPT ![s] = Tail(@)]
  /\ tty' = [tty EXCEPT ![s] = Append(@, Head(wire[s]))]
  /\ UNCHANGED <<pc, sensor, rcv_buf, polls, late, disturbed, published, lost, starts>>

Lose(s) ==
  /\ wire[s] # <<>> /\ lost < MaxLost
  /\ lost' = lost + 1
  /\ wire' = [wire EXCEPT ![s] = Tail(@)]
  /\ disturbed' = disturbed \cup {s}
  /\ UNCHANGED <<pc, sensor, rcv_buf, tty, polls, late, published, starts>>

Next ==
  \/ \E i \in Instances :
       Start(i) \/ Command(i) \/ Selected(i) \/ TimedOut(i) \/ Read(i) \/ Check(i)
  \/ \E s \in Sensors : Arrive(s) \/ Lose(s)
  \/ Stop

\* An instance takes its steps and bytes arrive; nobody has to start or stop.
Fairness ==
  /\ \A i \in Instances : WF_vars(Command(i) \/ Selected(i) \/ TimedOut(i) \/ Read(i) \/ Check(i))
  /\ \A s \in Sensors : WF_vars(Arrive(s))

Spec == Init /\ [][Next]_vars /\ Fairness

----------------------------------------------------------------------------
\* Late answers do not break the framing: as long as no byte is lost and one
\* instance at a time talks to the sensor, every frame that is checked is one
\* answer, however the reads of UART_Recv cut it up, and however often
\* UART_Recv gave up before it came.
WholeAnswers ==
  \A i \in Instances :
    pc[i] = "check" /\ sensor[i] \notin disturbed => Whole(rcv_buf[i])

\* How stale a reading can be: nothing is ever dropped from the line, so each
\* poll that timed out delays all later readings by one, but nothing else does.
StalenessBounded ==
  \A i \in Instances :
    pc[i] = "check" /\ sensor[i] \notin disturbed =>
      rcv_buf[i][1].poll >= polls[sensor[i]] - late[sensor[i]]

\* Readings are published in the order they were taken, and none twice.
PublishedInOrder ==
  \A s \in Sensors \ disturbed :
    \A j, k \in DOMAIN published[s] : j < k => published[s][j] < published[s][k]

\* A gateway that is not stopped goes on polling: it is never stuck in UART_Recv
\* unless a byte was lost or another instance took it.
KeepsPolling ==
  \A i \in Instances :
    (pc[i] \in {"select", "read"}) ~>
      (pc[i] \notin {"select", "read"} \/ sensor[i] \in disturbed)
=============================================================================
