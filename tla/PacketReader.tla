---------------------------- MODULE PacketReader ------------------------------
(***************************************************************************)
(* The non-blocking packet reader MQTTPacket_readnb (MQTTPacket.c), called *)
(* over and over on a stream whose bytes arrive at any time.               *)
(*                                                                         *)
(* One step is one call of the transport's getfn with what follows it.  A  *)
(* call of MQTTPacket_readnb is a run of such steps: it ends with 0, call  *)
(* again, where getfn had nothing to give, and the next call resumes at    *)
(* trp->state; so the steps say all.  A call that finds nothing changes    *)
(* nothing, except in MQTTPacket_decodenb.                                 *)
(*                                                                         *)
(* A byte is a number below 2 * Base: Base is 128 in the code, the low     *)
(* part is a digit of a length and the high part its continuation bit.     *)
(***************************************************************************)
EXTENDS Integers, Sequences

CONSTANTS
  Base,         \* 128 in the code
  buflen,       \* size of the caller's buffer
  Types,        \* the header bytes the peer sends
  Bodies,       \* the packet bodies the peer sends
  MaxPackets    \* bound: packets the peer sends

MAX_NO_OF_REMAINING_LENGTH_BYTES == 4
Byte == 0 .. 2 * Base - 1

ASSUME ReaderAssumption ==
  /\ Base \in Nat \ {0, 1}
  /\ buflen \in Nat /\ buflen >= 5   \* a header is written back before anything is compared
  /\ Types \subseteq Byte
  /\ Bodies \subseteq Seq(Byte)
  /\ MaxPackets \in Nat

\* The remaining length of an MQTT packet has at most four digits.
ASSUME LengthAssumption == \A body \in Bodies : Len(body) < Base * Base * Base * Base

VARIABLES
  wire, stream,                      \* bytes under way, bytes getfn can give
  state, len, rem_len, multiplier,   \* the fields of MQTTTransport
  buf,                               \* what the reader has put into the buffer
  misses,                            \* history: getfn gave no byte of this packet's length
  failed,                            \* history: MQTTPacket_readnb has returned -1
  sent, received                     \* history: packets sent, packets returned

trpVars == <<state, len, rem_len, multiplier>>
peerVars == <<wire, sent>>
vars == <<peerVars, stream, trpVars, buf, misses, failed, received>>

Init ==
  /\ wire = <<>> /\ stream = <<>>
  /\ state = 0 /\ len = 0 /\ rem_len = 0 /\ multiplier = 1
  /\ buf = <<>>
  /\ misses = 0 /\ failed = FALSE
  /\ sent = <<>> /\ received = <<>>

(***************************************************************************)
(* The encoding of the remaining length.                                   *)
(***************************************************************************)
Power == <<1, Base, Base * Base, Base * Base * Base>>

Digits(n) ==
  IF n < Power[2] THEN 1 ELSE IF n < Power[3] THEN 2 ELSE IF n < Power[4] THEN 3 ELSE 4

\* MQTTPacket_encode: the digits of n, lowest first, all but the last marked.
MQTTPacket_encode(n) ==
  [i \in 1..Digits(n) |->
     ((n \div Power[i]) % Base) + (IF i < Digits(n) THEN Base ELSE 0)]

(***************************************************************************)
(* The peer and the network: external.                                     *)
(***************************************************************************)
PeerSends(type, body) ==
  LET packet == <<type>> \o MQTTPacket_encode(Len(body)) \o body
  IN /\ Len(sent) < MaxPackets
     /\ sent' = Append(sent, packet)
     /\ wire' = wire \o packet
     /\ UNCHANGED <<stream, trpVars, buf, misses, failed, received>>

ByteArrives ==
  /\ wire # <<>>
  /\ wire' = Tail(wire)
  /\ stream' = Append(stream, Head(wire))
  /\ UNCHANGED <<sent, trpVars, buf, misses, failed, received>>

(***************************************************************************)
(* The reader.                                                             *)
(***************************************************************************)
\* case 0: the header byte.
ReadHeader ==
  /\ state = 0 /\ stream # <<>>
  /\ buf' = <<Head(stream)>>
  /\ stream' = Tail(stream)
  /\ len' = 0 /\ state' = 1
  /\ misses' = 0
  /\ UNCHANGED <<peerVars, rem_len, multiplier, failed, received>>

\* exit: with an error.  What the packet has left in the stream stays there.
Fails == state' = 0 /\ failed' = TRUE

\* (Faulty variants of the operators below, named for the mistake, are what the
\* properties are tried against; the specification does not use them.)
OneByteLess == len + 1 < MAX_NO_OF_REMAINING_LENGTH_BYTES

\* MQTTPacket_decodenb counts its calls of getfn in len, the vain ones too.
MayAsk == len + 1 <= MAX_NO_OF_REMAINING_LENGTH_BYTES

\* rem_len and multiplier, which MQTTPacket_decodenb sets on its first call.
RemLen == IF len = 0 THEN 0 ELSE rem_len
Multiplier == IF len = 0 THEN 1 ELSE multiplier

\* A fifth call of getfn is an error; so the length field is too long, or it came late.
LengthTooLong ==
  /\ state = 1 /\ ~MayAsk
  /\ len' = len + 1
  /\ Fails
  /\ UNCHANGED <<peerVars, stream, rem_len, multiplier, buf, misses, received>>

\* getfn has nothing to give: call again, but the call counts.
LengthAgain ==
  /\ state = 1 /\ MayAsk
  /\ stream = <<>>
  /\ len' = len + 1
  /\ rem_len' = RemLen /\ multiplier' = Multiplier
  /\ misses' = misses + 1
  /\ UNCHANGED <<peerVars, stream, state, buf, failed, received>>

MultiplierStays ==
  /\ state = 1 /\ MayAsk
  /\ stream # <<>> /\ Head(stream) >= Base
  /\ stream' = Tail(stream)
  /\ len' = len + 1
  /\ rem_len' = RemLen + (Head(stream) % Base) * Multiplier
  /\ multiplier' = Multiplier
  /\ UNCHANGED <<peerVars, state, buf, misses, failed, received>>

\* A digit with the continuation bit.
LengthDigit ==
  /\ state = 1 /\ MayAsk
  /\ stream # <<>> /\ Head(stream) >= Base
  /\ stream' = Tail(stream)
  /\ len' = len + 1
  /\ rem_len' = RemLen + (Head(stream) % Base) * Multiplier
  /\ multiplier' = Multiplier * Base
  /\ UNCHANGED <<peerVars, state, buf, misses, failed, received>>

FitsWithoutHeader(n, header) == n <= buflen

\* Does a body of n bytes fit behind the header that is in the buffer?
Fits(n, header) == n + header <= buflen

\* The last digit: the length is written back into the buffer, and a packet that does
\* not fit is refused.
LengthLastDigit ==
  LET n == RemLen + Head(stream) * Multiplier
  IN /\ state = 1 /\ MayAsk
     /\ stream # <<>> /\ Head(stream) < Base
     /\ stream' = Tail(stream)
     /\ rem_len' = n
     /\ multiplier' = Multiplier * Base
     /\ buf' = <<buf[1]>> \o MQTTPacket_encode(n)
     /\ len' = 1 + Digits(n)
     /\ \/ Fits(n, len') /\ state' = 2 /\ UNCHANGED failed
        \/ ~Fits(n, len') /\ Fails
     /\ UNCHANGED <<peerVars, misses, received>>

\* case 2: getfn gives what there is of the body, but no byte when it is asked for none.
Available == IF rem_len <= Len(stream) THEN rem_len ELSE Len(stream)

BodyArrives(k) ==
  /\ state = 2 /\ k > 0
  /\ stream' = SubSeq(stream, k + 1, Len(stream))
  /\ buf' = buf \o SubSeq(stream, 1, k)
  /\ rem_len' = rem_len - k
  /\ len' = len + k
  /\ UNCHANGED <<peerVars, multiplier, misses, failed>>

ReadBodyWithoutReset ==
  /\ BodyArrives(Available)
  /\ received' = IF rem_len' = 0 THEN Append(received, buf') ELSE received
  /\ UNCHANGED state

ReadBody ==
  /\ BodyArrives(Available)
  /\ \/ rem_len' # 0 /\ UNCHANGED <<state, received>>
     \/ rem_len' = 0 /\ state' = 0 /\ received' = Append(received, buf')

ReaderNext ==
  \/ ReadHeader
  \/ LengthTooLong \/ LengthAgain \/ LengthDigit \/ LengthLastDigit
  \/ ReadBody

Next ==
  \/ \E type \in Types, body \in Bodies : PeerSends(type, body)
  \/ ByteArrives
  \/ ReaderNext

Spec == Init /\ [][Next]_vars

\* The network delivers, and the program calls MQTTPacket_readnb again and again.
LiveSpec == Spec /\ WF_vars(ByteArrives) /\ WF_vars(ReaderNext)

(***************************************************************************)
(* Properties.                                                             *)
(***************************************************************************)
\* The reader's type invariant, whose point is the buffer: nothing is written past its
\* end, and while a body is read, header, body read so far and body to come fit, and
\* len is where the next byte goes.  It holds on any stream, also when the reader has
\* lost the packet boundaries.
BufferSafe ==
  /\ state \in 0..2
  /\ len \in Nat /\ rem_len \in Nat /\ multiplier \in Nat
  /\ stream \in Seq(Byte) /\ wire \in Seq(Byte)
  /\ buf \in Seq(Byte) /\ Len(buf) <= buflen
  /\ state # 0 => buf # <<>>
  /\ state = 2 => len = Len(buf) /\ len + rem_len <= buflen

\* As long as MQTTPacket_readnb has not returned -1, it has returned exactly the
\* packets that were sent, in order and byte for byte, however they came in pieces.
ReadsWhatWasSent ==
  ~failed => /\ Len(received) <= Len(sent)
             /\ \A i \in DOMAIN received : received[i] = sent[i]

\* The first error of MQTTPacket_readnb has a cause: the packet does not fit, or
\* the reader was called too early while it read the length.
NoErrorWithoutCause ==
  [][~failed /\ failed' => misses > 0 \/ rem_len' + len' > buflen]_vars

\* "@return integer MQTT packet type, 0 for call again, or -1 on error": calling again
\* leads somewhere; a packet sent is returned, or an error is, as long as every packet
\* up to it has a body.  Of a packet without one, two bytes long, the comment is wrong:
\* getfn is asked for 0 bytes, gives 0, and MQTTPacket_readnb says `call again' for
\* ever, to that packet and to what follows it.
PacketsReturned ==
  \A n \in 1..MaxPackets :
    (Len(sent) >= n /\ \A i \in 1..n : Len(sent[i]) > 2) ~> (Len(received) >= n \/ failed)
=============================================================================
