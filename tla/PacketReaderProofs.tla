-------------------------- MODULE PacketReaderProofs --------------------------
(***************************************************************************)
(* MQTTPacket_readnb never writes past the caller's buffer (BufferIsSafe), *)
(* on any stream; and it returns the packets that were sent, byte for byte *)
(* (PacketsAsSent), until its first error, which has a cause               *)
(* (ErrorsHaveCauses).                                                     *)
(*                                                                         *)
(* BufferSafe is inductive.  The other two rest on FrameInv: the reader    *)
(* stands at a byte of a packet that was sent, and what it has collected   *)
(* of it, the length's digits or a part of the body, are the packet's      *)
(* bytes up to there.  The number that the digits read so far make up is   *)
(* the length modulo a power of Base, which DigitAt carries from digit to  *)
(* digit.                                                                  *)
(***************************************************************************)
EXTENDS PacketReader, TLAPS

LEMMA BaseFacts ==
  /\ Base \in Nat /\ Base > 1
  /\ \A i \in 1..4 : Power[i] \in Nat /\ Power[i] > 0
BY ReaderAssumption DEF Power

LEMMA DigitsType == ASSUME NEW STATE n PROVE Digits(n) \in 1..4
BY DEF Digits

\* MQTTPacket_encode gives bytes, as many as Digits says.
LEMMA EncodeType ==
  ASSUME NEW STATE n, n \in Nat
  PROVE  /\ MQTTPacket_encode(n) \in Seq(Byte)
         /\ Len(MQTTPacket_encode(n)) = Digits(n)
<1>1. Digits(n) \in 1..4
  BY DigitsType
<1>2. ASSUME NEW i \in 1..Digits(n)
      PROVE  ((n \div Power[i]) % Base) + (IF i < Digits(n) THEN Base ELSE 0) \in Byte
  <2>1. i \in 1..4 /\ Power[i] \in Nat /\ Power[i] > 0
    BY <1>1, BaseFacts
  <2>2. n \div Power[i] \in Int
    BY <2>1
  <2>3. (n \div Power[i]) % Base \in 0..Base - 1
    BY <2>2, BaseFacts
  <2> QED BY <2>3, BaseFacts DEF Byte
<1> QED BY <1>1, <1>2 DEF MQTTPacket_encode

LEMMA DigitAdded == \A a, b, c \in Nat : a + b * c \in Nat
OBVIOUS

LEMMA LengthSoFar ==
  ASSUME BufferSafe
  PROVE  RemLen \in Nat /\ Multiplier \in Nat /\ Multiplier * Base \in Nat
BY BaseFacts DEF BufferSafe, RemLen, Multiplier

\* BufferSafe is an invariant for every buffer size and every stream, well-formed or
\* not: MQTTPacket_readnb never stores a byte of a body behind the caller's buffer.
THEOREM BufferIsSafe == Spec => []BufferSafe
<1>1. Init => BufferSafe
  BY ReaderAssumption DEF Init, BufferSafe
<1>2. BufferSafe /\ [Next]_vars => BufferSafe'
  <2> SUFFICES ASSUME BufferSafe, [Next]_vars PROVE BufferSafe'
    OBVIOUS
  <2>1. ASSUME NEW type \in Types, NEW body \in Bodies, PeerSends(type, body)
        PROVE  BufferSafe'
    <3>1. <<type>> \in Seq(Byte) /\ body \in Seq(Byte) /\ Len(body) \in Nat
      BY ReaderAssumption
    <3>2. MQTTPacket_encode(Len(body)) \in Seq(Byte)
      BY <3>1, EncodeType
    <3>3. <<type>> \o MQTTPacket_encode(Len(body)) \o body \in Seq(Byte)
      BY <3>1, <3>2
    <3>4. wire' \in Seq(Byte)
      BY <2>1, <3>3 DEF PeerSends, BufferSafe
    <3> QED BY <2>1, <3>4 DEF PeerSends, trpVars, BufferSafe
  <2>2. CASE ByteArrives
    BY <2>2 DEF ByteArrives, trpVars, BufferSafe
  <2>3. CASE ReadHeader
    <3>1. Head(stream) \in Byte /\ stream' \in Seq(Byte)
      BY <2>3 DEF ReadHeader, BufferSafe
    <3>2. buf' \in Seq(Byte) /\ Len(buf') = 1 /\ 1 <= buflen
      BY <2>3, <3>1, ReaderAssumption DEF ReadHeader
    <3> QED BY <2>3, <3>1, <3>2 DEF ReadHeader, peerVars, BufferSafe
  <2>4. CASE LengthTooLong
    BY <2>4 DEF LengthTooLong, Fails, peerVars, BufferSafe
  <2>5. CASE LengthAgain
    BY <2>5, LengthSoFar DEF LengthAgain, peerVars, BufferSafe
  <2>6. CASE LengthDigit
    <3>1. Head(stream) % Base \in Nat /\ stream' \in Seq(Byte)
      <4>1. Head(stream) \in Byte /\ stream' \in Seq(Byte)
        BY <2>6 DEF LengthDigit, BufferSafe
      <4> QED BY <4>1, BaseFacts DEF Byte
    <3>2. rem_len' \in Nat /\ multiplier' \in Nat
      <4>1. rem_len' = RemLen + (Head(stream) % Base) * Multiplier
        BY <2>6 DEF LengthDigit
      <4> QED BY <2>6, <4>1, <3>1, DigitAdded, LengthSoFar DEF LengthDigit
    <3> QED BY <2>6, <3>1, <3>2 DEF LengthDigit, peerVars, BufferSafe
  <2>7. CASE LengthLastDigit
    <3> DEFINE n == RemLen + Head(stream) * Multiplier
    <3>1. Head(stream) \in Byte /\ stream' \in Seq(Byte)
      BY <2>7 DEF LengthLastDigit, BufferSafe
    <3>2. n \in Nat /\ multiplier' \in Nat
      <4>1. Head(stream) \in Nat
        BY <3>1, BaseFacts DEF Byte
      <4>2. n \in Nat
        BY <4>1, DigitAdded, LengthSoFar
      <4>3. multiplier' \in Nat
        BY <2>7, LengthSoFar DEF LengthLastDigit
      <4> QED BY <4>2, <4>3
    <3>3. MQTTPacket_encode(n) \in Seq(Byte) /\ Len(MQTTPacket_encode(n)) = Digits(n)
      BY <3>2, EncodeType
    <3>4. <<buf[1]>> \in Seq(Byte)
      BY <2>7 DEF LengthLastDigit, BufferSafe
    <3>5. /\ buf' \in Seq(Byte) /\ Len(buf') = 1 + Digits(n) /\ buf' # <<>>
          /\ Len(buf') <= buflen
      <4>1. buf' = <<buf[1]>> \o MQTTPacket_encode(n)
        BY <2>7 DEF LengthLastDigit
      <4> HIDE DEF n
      <4>2. Digits(n) \in 1..4
        BY DigitsType
      <4>3. buf' \in Seq(Byte) /\ Len(buf') = 1 + Digits(n)
        BY <4>1, <4>2, <3>3, <3>4
      <4>4. Len(buf') <= buflen
        BY <4>2, <4>3, ReaderAssumption
      <4> QED BY <4>2, <4>3, <4>4
    <3>6. len' = 1 + Digits(n) /\ len' \in Nat /\ rem_len' = n
      BY <2>7, DigitsType DEF LengthLastDigit
    <3>7. \/ n + len' <= buflen /\ state' = 2
          \/ state' = 0
      BY <2>7 DEF LengthLastDigit, Fits, Fails
    <3>8. wire' = wire
      BY <2>7 DEF LengthLastDigit, peerVars
    <3> HIDE DEF n
    <3> QED BY <3>1, <3>2, <3>5, <3>6, <3>7, <3>8 DEF BufferSafe
  <2>8. CASE ReadBody
    <3> DEFINE k == Available
    <3>1. k \in Nat /\ k > 0 /\ k <= rem_len /\ k <= Len(stream) /\ state = 2
      BY <2>8 DEF ReadBody, BodyArrives, Available, BufferSafe
    <3>2. SubSeq(stream, 1, k) \in Seq(Byte) /\ Len(SubSeq(stream, 1, k)) = k
      BY <3>1 DEF BufferSafe
    <3>3. stream' \in Seq(Byte)
      BY <2>8, <3>1 DEF ReadBody, BodyArrives, BufferSafe
    <3>4. buf' = buf \o SubSeq(stream, 1, k) /\ rem_len' = rem_len - k /\ len' = len + k
      BY <2>8 DEF ReadBody, BodyArrives
    <3> HIDE DEF k
    <3>5. buf' \in Seq(Byte) /\ Len(buf') = Len(buf) + k /\ buf' # <<>>
      BY <3>1, <3>2, <3>4 DEF BufferSafe
    <3>6. /\ state' \in {0, 2}
          /\ wire' = wire /\ multiplier' = multiplier
      BY <2>8, <3>1 DEF ReadBody, BodyArrives, peerVars
    <3>7. /\ len' \in Nat /\ rem_len' \in Nat
          /\ len' = Len(buf') /\ len' + rem_len' <= buflen /\ len' <= buflen
      <4>1. len \in Nat /\ rem_len \in Nat /\ len = Len(buf) /\ len + rem_len <= buflen
        BY <3>1 DEF BufferSafe
      <4>2. Len(buf') = Len(buf) + k
        BY <3>5
      <4> QED BY <4>1, <4>2, <3>1, <3>4, ReaderAssumption
    <3> QED BY <3>3, <3>5, <3>6, <3>7 DEF BufferSafe
  <2>9. CASE UNCHANGED vars
    BY <2>9 DEF vars, peerVars, trpVars, BufferSafe
  <2> QED BY <2>1, <2>2, <2>3, <2>4, <2>5, <2>6, <2>7, <2>8, <2>9 DEF Next, ReaderNext
<1> QED BY <1>1, <1>2, PTL DEF Spec

----------------------------------------------------------------------------
(* Arithmetic of the digits. *)

LEMMA Remainder ==
  ASSUME NEW m \in Nat, m > 0, NEW c \in Int, NEW t \in 0..(m - 1), NEW n \in Nat, n = m * c + t
  PROVE  n % m = t
<1> DEFINE u == n \div m
           v == n % m
<1>1. u \in Int /\ v \in 0..(m - 1) /\ n = m * u + v
  OBVIOUS
<1> HIDE DEF u, v
<1>2. m * (u - c) = t - v
  BY <1>1
<1>3. ASSUME u - c >= 1 PROVE FALSE
  <2>1. m * (u - c) >= m * 1
    BY <1>1, <1>3
  <2> QED BY <1>1, <1>2, <2>1
<1>4. ASSUME u - c <= -1 PROVE FALSE
  <2>1. m * (u - c) <= m * (-1)
    BY <1>1, <1>4
  <2> QED BY <1>1, <1>2, <2>1
<1>5. u - c = 0
  BY <1>1, <1>3, <1>4
<1>6. t = v
  BY <1>1, <1>2, <1>5
<1> QED BY <1>6 DEF v

\* One digit more of a length.
LEMMA DigitStep ==
  ASSUME NEW n \in Nat, NEW q \in Nat, q > 0, NEW b \in Nat, b > 0
  PROVE  /\ n % (q * b) = (n % q) + ((n \div q) % b) * q
         /\ (n \div q) % b \in 0..(b - 1)
<1> DEFINE a == n \div q
           r == n % q
           c == a \div b
           e == a % b
<1>1. a \in Int /\ r \in 0..(q - 1) /\ n = q * a + r
  OBVIOUS
<1>2. c \in Int /\ e \in 0..(b - 1) /\ a = b * c + e
  BY <1>1
<1> HIDE DEF a, r, c, e
<1> DEFINE m == q * b
           t == e * q + r
<1>3. m \in Nat /\ m > 0
  <2>1. q * b >= q * 1
    OBVIOUS
  <2>2. q * b \in Nat
    OBVIOUS
  <2> QED BY <2>1, <2>2
<1>4. t \in 0..(m - 1)
  <2>1. e * q <= (b - 1) * q /\ e * q \in Nat
    BY <1>2
  <2>2. (b - 1) * q = m - q /\ m \in Int
    BY <1>3
  <2> HIDE DEF m
  <2> QED BY <1>1, <2>1, <2>2
<1>5. n = m * c + t
  <2>1. q * a = q * (b * c) + q * e
    BY <1>1, <1>2
  <2>2. q * (b * c) = m * c /\ q * e = e * q
    BY <1>2
  <2>3. q * a \in Int /\ m * c \in Int /\ e * q \in Int /\ r \in Int
    BY <1>1, <1>2, <1>3
  <2> HIDE DEF m
  <2> QED BY <1>1, <2>1, <2>2, <2>3
<1> HIDE DEF m, t
<1>6. n % m = t
  BY <1>3, <1>4, <1>5, <1>2, Remainder
<1> QED BY <1>2, <1>6 DEF m, t, r, e, a

\* A number of at most four digits is less than the power after its last.
LEMMA DigitsBound ==
  ASSUME NEW n \in Nat, n < Base * Base * Base * Base
  PROVE  /\ Digits(n) \in 1..4
         /\ \A i \in 1..4 : i < Digits(n) => Power[i] * Base = Power[i + 1]
         /\ n % (Power[Digits(n)] * Base) = n
         /\ n % Power[1] = 0 /\ Power[1] = 1
<1>1. Base \in Nat /\ Base > 1
  BY BaseFacts
<1>2. /\ Power[1] = 1 /\ Power[2] = Base /\ Power[3] = Base * Base /\ Power[4] = Base * Base * Base
      /\ \A i \in 1..4 : Power[i] \in Nat /\ Power[i] > 0
  BY BaseFacts DEF Power
<1>3. Digits(n) \in 1..4
  BY DEF Digits
<1>4. \A i \in 1..4 : i < 4 => Power[i] * Base = Power[i + 1]
  <2>1. Power[1] * Base = Power[2] /\ Power[2] * Base = Power[3] /\ Power[3] * Base = Power[4]
    BY <1>1, <1>2
  <2> QED BY <2>1
<1>5. n < Power[Digits(n)] * Base
  <2>1. Power[4] * Base = Base * Base * Base * Base
    BY <1>1, <1>2
  <2>2. Power[1] * Base = Power[2] /\ Power[2] * Base = Power[3] /\ Power[3] * Base = Power[4]
    BY <1>1, <1>2
  <2> QED BY <2>1, <2>2 DEF Digits
<1>6. n % (Power[Digits(n)] * Base) = n
  <2>1. Power[Digits(n)] \in Nat /\ Power[Digits(n)] > 0
    BY <1>2, <1>3
  <2> DEFINE m == Power[Digits(n)] * Base
  <2>2. m \in Nat /\ m > 0 /\ n < m
    BY <1>1, <1>5, <2>1
  <2> HIDE DEF m
  <2>3. n = m * 0 + n /\ n \in 0..(m - 1) /\ 0 \in Int
    BY <2>2
  <2>4. n % m = n
    BY <2>2, <2>3, Remainder
  <2> QED BY <2>4 DEF m
<1>7. n % 1 = 0
  OBVIOUS
<1> QED BY <1>2, <1>3, <1>4, <1>6, <1>7

(***************************************************************************)
(* ReadsWhatWasSent.  Until its first error the reader keeps to the        *)
(* packet boundaries.  To say so the invariant names what the state does   *)
(* not hold: all bytes h sent so far, the offset start[j] of packet j in   *)
(* h, and the number pos of bytes that were read.                          *)
(***************************************************************************)
\* A packet with a body of n bytes.
Encoded(P, n) ==
  /\ n < Base * Base * Base * Base
  /\ Len(P) = 1 + Digits(n) + n
  /\ \A i \in 1..Digits(n) : P[1 + i] = MQTTPacket_encode(n)[i]

IsPacket(P) == P \in Seq(Byte) /\ \E n \in Nat : Encoded(P, n)

\* The packets ps stand in h one behind the other.
Framed(h, start, ps) ==
  /\ start \in [1..(Len(ps) + 1) -> Nat]
  /\ start[Len(ps) + 1] = Len(h)
  /\ \A j \in 1..Len(ps) :
       /\ IsPacket(ps[j])
       /\ start[j + 1] = start[j] + Len(ps[j]) /\ start[j + 1] <= Len(h)
       /\ \A x \in 1..Len(ps[j]) : h[start[j] + x] = ps[j][x]

\* What was not read yet.
Rest(h, pos, st, w) ==
  /\ pos + Len(st) + Len(w) = Len(h)
  /\ \A x \in 1..Len(st) : st[x] = h[pos + x]
  /\ \A x \in 1..Len(w) : w[x] = h[pos + Len(st) + x]

\* The reader has read the header and d digits of the length of packet P, ...
InLength(P, b, l, m, rem, mul, off) ==
  /\ b = <<P[1]>>
  /\ m \in Nat
  /\ \E n \in Nat, d \in 0..3 :
       /\ Encoded(P, n) /\ d < Digits(n)
       /\ l = d + m /\ off = 1 + d
       /\ rem = n % Power[d + 1] /\ mul = Power[d + 1]

\* ... or all of it and a part of the body.
InBody(P, b, rem, off) ==
  /\ Len(b) <= Len(P) /\ \A x \in 1..Len(b) : b[x] = P[x]
  /\ rem = Len(P) - Len(b) /\ off = Len(b)

At(start, pos) ==
  LET j == Len(received) + 1
  IN /\ state = 0 => pos = start[j]
     /\ state = 1 => /\ j <= Len(sent)
                     /\ InLength(sent[j], buf, len, misses, RemLen, Multiplier, pos - start[j])
     /\ state = 2 => j <= Len(sent) /\ InBody(sent[j], buf, rem_len, pos - start[j])

Prefix ==
  /\ sent \in Seq(Seq(Byte)) /\ received \in Seq(Seq(Byte))
  /\ Len(received) <= Len(sent)
  /\ \A i \in 1..Len(received) : received[i] = sent[i]

Frames(h, pos, start) ==
  /\ h \in Seq(Byte) /\ pos \in Nat
  /\ Framed(h, start, sent)
  /\ Rest(h, pos, stream, wire)
  /\ At(start, pos)

FrameInv == failed \/ (Prefix /\ \E h, pos, start : Frames(h, pos, start))

\* What the peer sends.
LEMMA PeerPacket ==
  ASSUME NEW type \in Types, NEW body \in Bodies
  PROVE  IsPacket(<<type>> \o MQTTPacket_encode(Len(body)) \o body)
<1> DEFINE n == Len(body)
           code == MQTTPacket_encode(n)
           P == <<type>> \o code \o body
<1>1. <<type>> \in Seq(Byte) /\ body \in Seq(Byte) /\ n \in Nat
  BY ReaderAssumption
<1>2. code \in Seq(Byte) /\ Len(code) = Digits(n) /\ Digits(n) \in Nat
  BY <1>1, EncodeType, DigitsType
<1> HIDE DEF code
<1>3. P \in Seq(Byte) /\ Len(P) = 1 + Digits(n) + n
  BY <1>1, <1>2
<1>4. \A i \in 1..Digits(n) : P[1 + i] = code[i]
  BY <1>1, <1>2
<1>5. Encoded(P, n)
  BY <1>3, <1>4, LengthAssumption DEF Encoded, code
<1> QED BY <1>1, <1>3, <1>5 DEF IsPacket, code

\* A packet that is sent goes behind the others.
LEMMA PeerFrames ==
  ASSUME NEW h \in Seq(Byte), NEW start, NEW ps \in Seq(Seq(Byte)), Framed(h, start, ps),
         NEW pos \in Nat, NEW st \in Seq(Byte), NEW w \in Seq(Byte), Rest(h, pos, st, w),
         NEW P, IsPacket(P)
  PROVE  \E start2 :
           /\ Framed(h \o P, start2, Append(ps, P))
           /\ \A j \in 1..(Len(ps) + 1) : start2[j] = start[j]
           /\ Rest(h \o P, pos, st, w \o P)
<1> DEFINE N == Len(ps)
           g == h \o P
           qs == Append(ps, P)
           v == w \o P
           start2 == [j \in 1..(N + 2) |-> IF j = N + 2 THEN Len(h) + Len(P) ELSE start[j]]
<1>1. P \in Seq(Byte) /\ Len(P) \in Nat /\ N \in Nat /\ Len(h) \in Nat
  BY DEF IsPacket
<1>2. /\ g \in Seq(Byte) /\ Len(g) = Len(h) + Len(P)
      /\ \A x \in 1..Len(h) : g[x] = h[x]
      /\ \A x \in 1..Len(P) : g[Len(h) + x] = P[x]
  BY <1>1
<1>3. /\ Len(qs) = N + 1 /\ qs[N + 1] = P
      /\ \A j \in 1..N : qs[j] = ps[j]
  BY <1>1
<1>4. /\ start \in [1..(N + 1) -> Nat] /\ start[N + 1] = Len(h)
      /\ \A j \in 1..N : /\ IsPacket(ps[j])
                         /\ start[j + 1] = start[j] + Len(ps[j]) /\ start[j + 1] <= Len(h)
                         /\ \A x \in 1..Len(ps[j]) : h[start[j] + x] = ps[j][x]
  BY DEF Framed
<1>5. /\ start2 \in [1..(N + 2) -> Nat] /\ start2[N + 2] = Len(h) + Len(P)
      /\ \A j \in 1..(N + 1) : start2[j] = start[j]
  BY <1>1, <1>4
<1>6. /\ Len(v) = Len(w) + Len(P)
      /\ \A x \in 1..Len(w) : v[x] = w[x]
      /\ \A x \in 1..Len(P) : v[Len(w) + x] = P[x]
  BY <1>1
<1>7. /\ pos + Len(st) + Len(w) = Len(h)
      /\ \A x \in 1..Len(st) : st[x] = h[pos + x]
      /\ \A x \in 1..Len(w) : w[x] = h[pos + Len(st) + x]
      /\ Len(st) \in Nat /\ Len(w) \in Nat
  BY DEF Rest
<1>8. \A j \in 1..N : Len(ps[j]) \in Nat
  BY <1>1
<1>9. Len(ps) = N
  OBVIOUS
<1> HIDE DEF g, qs, start2, N, v
<1>10. ASSUME NEW j \in 1..(N + 1)
       PROVE  /\ IsPacket(qs[j])
              /\ start2[j + 1] = start2[j] + Len(qs[j]) /\ start2[j + 1] <= Len(g)
              /\ \A x \in 1..Len(qs[j]) : g[start2[j] + x] = qs[j][x]
  <2>1. ASSUME j = N + 1
        PROVE  /\ IsPacket(qs[j])
               /\ start2[j + 1] = start2[j] + Len(qs[j]) /\ start2[j + 1] <= Len(g)
               /\ \A x \in 1..Len(qs[j]) : g[start2[j] + x] = qs[j][x]
    <3>1. qs[j] = P /\ start2[j] = Len(h) /\ start2[j + 1] = Len(h) + Len(P)
      BY <1>1, <1>3, <1>4, <1>5, <2>1
    <3>2. start2[j + 1] = start2[j] + Len(qs[j]) /\ start2[j + 1] <= Len(g)
      <4>1. Len(g) = Len(h) + Len(P)
        BY <1>2
      <4>2. Len(h) + Len(P) <= Len(h) + Len(P)
        BY <1>1
      <4> QED BY <3>1, <4>1, <4>2
    <3>3. \A x \in 1..Len(P) : g[Len(h) + x] = P[x]
      BY <1>2
    <3> QED BY <3>1, <3>2, <3>3
  <2>2. ASSUME j # N + 1
        PROVE  /\ IsPacket(qs[j])
               /\ start2[j + 1] = start2[j] + Len(qs[j]) /\ start2[j + 1] <= Len(g)
               /\ \A x \in 1..Len(qs[j]) : g[start2[j] + x] = qs[j][x]
    <3>1. j \in 1..N /\ j + 1 \in 1..(N + 1)
      BY <1>1, <2>2
    <3>2. qs[j] = ps[j] /\ start2[j] = start[j] /\ start2[j + 1] = start[j + 1] /\ start[j] \in Nat
      BY <1>1, <1>3, <1>4, <1>5, <3>1
    <3>3. start[j + 1] = start[j] + Len(ps[j]) /\ start[j + 1] <= Len(h) /\ Len(ps[j]) \in Nat
      BY <1>4, <1>8, <3>1
    <3>4. ASSUME NEW x \in 1..Len(ps[j]) PROVE g[start[j] + x] = ps[j][x]
      <4>1. start[j] + x \in 1..Len(h)
        <5> DEFINE a == start[j]
                   b == start[j + 1]
                   c == Len(ps[j])
                   e == Len(h)
        <5>1. a \in Nat /\ c \in Nat /\ e \in Nat /\ b = a + c /\ b <= e /\ x \in 1..c
          BY <3>2, <3>3, <1>1
        <5> HIDE DEF a, b, c, e
        <5>2. a + x \in 1..e
          BY <5>1
        <5> QED BY <5>2 DEF a, e
      <4> QED BY <4>1, <3>1, <1>2, <1>4
    <3> QED BY <1>1, <1>2, <1>4, <3>1, <3>2, <3>3, <3>4
  <2> QED BY <2>1, <2>2
<1>11. Framed(g, start2, qs)
  <2>1. Len(qs) + 1 = N + 2
    BY <1>1, <1>3
  <2> QED BY <2>1, <1>2, <1>3, <1>5, <1>10 DEF Framed
<1>12. Rest(g, pos, st, v)
  <2>1. /\ pos + Len(st) + Len(v) = Len(g)
        /\ Len(v) = Len(w) + Len(P) /\ pos + Len(st) + Len(w) = Len(h)
    <3>1. /\ Len(g) = Len(h) + Len(P) /\ Len(v) = Len(w) + Len(P)
          /\ pos + Len(st) + Len(w) = Len(h)
      BY <1>2, <1>6, <1>7
    <3>2. /\ Len(st) \in Nat /\ Len(w) \in Nat /\ Len(h) \in Nat /\ Len(P) \in Nat
          /\ Len(g) \in Nat /\ Len(v) \in Nat
      BY <1>1, <1>7, <3>1
    <3>3. pos + Len(st) + Len(v) = Len(g)
      <4> DEFINE a == Len(st)
                 b == Len(w)
                 c == Len(h)
                 p == Len(P)
      <4>1. /\ a \in Nat /\ b \in Nat /\ c \in Nat /\ p \in Nat /\ pos + a + b = c
            /\ Len(v) = b + p /\ Len(g) = c + p
        BY <3>1, <3>2
      <4> HIDE DEF a, b, c, p
      <4>2. pos + a + (b + p) = c + p
        BY <4>1
      <4>3. pos + a + Len(v) = Len(g)
        BY <4>1, <4>2, Zenon
      <4> QED BY <4>3 DEF a
    <3> QED BY <3>1, <3>3
  <2>2. ASSUME NEW x \in 1..Len(st) PROVE st[x] = g[pos + x]
    <3>1. pos + x \in 1..Len(h)
      BY <1>1, <1>7
    <3> QED BY <3>1, <1>2, <1>7
  <2>3. ASSUME NEW x \in 1..Len(v) PROVE v[x] = g[pos + Len(st) + x]
    <3>1. CASE x <= Len(w)
      <4>1. x \in 1..Len(w) /\ pos + Len(st) + x \in 1..Len(h)
        BY <1>1, <1>6, <1>7, <3>1
      <4> QED BY <4>1, <1>2, <1>6, <1>7
    <3>2. CASE x > Len(w)
      <4> DEFINE y == x - Len(w)
      <4>1. y \in 1..Len(P) /\ x = Len(w) + y /\ pos + Len(st) + x = Len(h) + y
        <5>1. /\ Len(st) \in Nat /\ Len(w) \in Nat /\ Len(h) \in Nat /\ Len(P) \in Nat
              /\ Len(v) \in Nat /\ x \in Nat /\ x <= Len(v)
          BY <1>1, <1>7, <2>1
        <5> DEFINE a == Len(st)
                   b == Len(w)
                   c == Len(h)
                   p == Len(P)
                   q == Len(v)
        <5>2. /\ a \in Nat /\ b \in Nat /\ c \in Nat /\ p \in Nat /\ q \in Nat /\ x \in Nat
              /\ x <= q /\ x > b /\ q = b + p /\ pos + a + b = c
          BY <5>1, <2>1, <3>2
        <5> HIDE DEF a, b, c, p, q
        <5>3. x - b \in 1..p /\ x = b + (x - b) /\ pos + a + x = c + (x - b)
          BY <5>2
        <5> QED BY <5>3 DEF a, b, c, p
      <4> HIDE DEF y
      <4>2. v[Len(w) + y] = P[y] /\ g[Len(h) + y] = P[y]
        BY <4>1, <1>2, <1>6
      <4> QED BY <4>1, <4>2
    <3> QED BY <3>1, <3>2, <1>1, <1>6, <1>7
  <2> QED BY <2>1, <2>2, <2>3 DEF Rest
<1> QED BY <1>5, <1>9, <1>11, <1>12 DEF g, qs, v

\* A byte arrives.
LEMMA RestArrives ==
  ASSUME NEW h \in Seq(Byte), NEW pos \in Nat, NEW st \in Seq(Byte), NEW w \in Seq(Byte),
         Rest(h, pos, st, w), w # <<>>
  PROVE  Rest(h, pos, Append(st, Head(w)), Tail(w))
<1> DEFINE s2 == Append(st, Head(w))
           w2 == Tail(w)
<1>1. /\ Len(st) \in Nat /\ Len(w) \in Nat /\ Len(w) > 0
      /\ Len(s2) = Len(st) + 1 /\ Len(w2) = Len(w) - 1
      /\ s2[Len(st) + 1] = w[1]
      /\ \A x \in 1..Len(st) : s2[x] = st[x]
      /\ \A x \in 1..(Len(w) - 1) : w2[x] = w[x + 1]
  OBVIOUS
<1>2. /\ pos + Len(st) + Len(w) = Len(h)
      /\ \A x \in 1..Len(st) : st[x] = h[pos + x]
      /\ \A x \in 1..Len(w) : w[x] = h[pos + Len(st) + x]
  BY DEF Rest
<1> HIDE DEF s2, w2
<1>3. pos + Len(s2) + Len(w2) = Len(h)
  <2>1. PICK a, b : a = Len(st) /\ b = Len(w)
    OBVIOUS
  <2>2. /\ a \in Nat /\ b \in Nat /\ Len(s2) = a + 1 /\ Len(w2) = b - 1
        /\ pos + a + b = Len(h)
    BY <2>1, <1>1, <1>2
  <2>3. pos + (a + 1) + (b - 1) = pos + a + b
    BY <2>2
  <2> QED BY <2>2, <2>3
<1>4. ASSUME NEW x \in 1..Len(s2) PROVE s2[x] = h[pos + x]
  <2>1. CASE x = Len(st) + 1
    <3>1. w[1] = h[pos + Len(st) + 1] /\ pos + Len(st) + 1 = pos + x
      BY <1>1, <1>2, <2>1
    <3> QED BY <3>1, <1>1, <2>1
  <2>2. CASE x # Len(st) + 1
    <3>1. x \in 1..Len(st)
      BY <1>1, <2>2
    <3> QED BY <3>1, <1>1, <1>2
  <2> QED BY <2>1, <2>2
<1>5. ASSUME NEW x \in 1..Len(w2) PROVE w2[x] = h[pos + Len(s2) + x]
  <2>1. x \in 1..(Len(w) - 1) /\ x + 1 \in 1..Len(w) /\ pos + Len(s2) + x = pos + Len(st) + (x + 1)
    BY <1>1
  <2>2. w2[x] = w[x + 1] /\ w[x + 1] = h[pos + Len(st) + (x + 1)]
    BY <2>1, <1>1, <1>2
  <2> QED BY <2>1, <2>2
<1>6. Rest(h, pos, s2, w2)
  BY <1>3, <1>4, <1>5 DEF Rest
<1> QED BY <1>6 DEF s2, w2

\* The reader takes k bytes.
LEMMA RestTaken ==
  ASSUME NEW h \in Seq(Byte), NEW pos \in Nat, NEW st \in Seq(Byte), NEW w \in Seq(Byte),
         Rest(h, pos, st, w), NEW k \in Nat, k <= Len(st)
  PROVE  /\ Rest(h, pos + k, SubSeq(st, k + 1, Len(st)), w)
         /\ pos + k <= Len(h)
         /\ \A x \in 1..k : st[x] = h[pos + x]
<1> DEFINE s2 == SubSeq(st, k + 1, Len(st))
<1>1. /\ Len(st) \in Nat /\ Len(w) \in Nat
      /\ Len(s2) = Len(st) - k
      /\ \A x \in 1..(Len(st) - k) : s2[x] = st[k + x]
  OBVIOUS
<1>2. /\ pos + Len(st) + Len(w) = Len(h)
      /\ \A x \in 1..Len(st) : st[x] = h[pos + x]
      /\ \A x \in 1..Len(w) : w[x] = h[pos + Len(st) + x]
  BY DEF Rest
<1> HIDE DEF s2
<1>3. /\ (pos + k) + Len(s2) + Len(w) = Len(h) /\ pos + k <= Len(h)
      /\ (pos + k) + Len(s2) = pos + Len(st)
  <2>1. /\ Len(st) \in Nat /\ Len(w) \in Nat /\ Len(s2) = Len(st) - k
        /\ pos + Len(st) + Len(w) = Len(h)
    BY <1>1, <1>2
  <2>2. PICK a, b : a = Len(st) /\ b = Len(w)
    OBVIOUS
  <2>3. a \in Nat /\ b \in Nat /\ Len(s2) = a - k /\ pos + a + b = Len(h) /\ k <= a
    BY <2>1, <2>2
  <2>4. /\ (pos + k) + (a - k) + b = pos + a + b /\ pos + k <= pos + a + b
        /\ (pos + k) + (a - k) = pos + a
    BY <2>3
  <2> QED BY <2>2, <2>3, <2>4
<1>4. ASSUME NEW x \in 1..Len(s2) PROVE s2[x] = h[(pos + k) + x]
  <2>1. x \in 1..(Len(st) - k) /\ k + x \in 1..Len(st) /\ (pos + k) + x = pos + (k + x)
    BY <1>1
  <2>2. s2[x] = st[k + x] /\ st[k + x] = h[pos + (k + x)]
    BY <2>1, <1>1, <1>2
  <2> QED BY <2>1, <2>2
<1>5. ASSUME NEW x \in 1..Len(w) PROVE w[x] = h[(pos + k) + Len(s2) + x]
  <2>1. (pos + k) + Len(s2) + x = pos + Len(st) + x
    BY <1>3, <1>1
  <2> QED BY <2>1, <1>2
<1>6. Rest(h, pos + k, s2, w)
  BY <1>3, <1>4, <1>5 DEF Rest
<1>7. \A x \in 1..k : st[x] = h[pos + x]
  BY <1>1, <1>2
<1> QED BY <1>3, <1>6, <1>7 DEF s2

LEMMA RestHead ==
  ASSUME NEW h \in Seq(Byte), NEW pos \in Nat, NEW st \in Seq(Byte), NEW w \in Seq(Byte),
         Rest(h, pos, st, w), st # <<>>
  PROVE  /\ Rest(h, pos + 1, Tail(st), w)
         /\ pos < Len(h) /\ Head(st) = h[pos + 1]
<1>1. 1 \in Nat /\ 1 <= Len(st) /\ Tail(st) = SubSeq(st, 1 + 1, Len(st)) /\ Head(st) = st[1]
  OBVIOUS
<1>2. /\ Rest(h, pos + 1, SubSeq(st, 1 + 1, Len(st)), w)
      /\ pos + 1 <= Len(h) /\ \A x \in 1..1 : st[x] = h[pos + x]
  BY <1>1, RestTaken
<1>3. Rest(h, pos + 1, Tail(st), w)
  BY <1>1, <1>2, Zenon
<1>4. pos < Len(h)
  <2> DEFINE e == Len(h)
  <2>1. e \in Nat /\ pos + 1 <= e
    BY <1>2
  <2> HIDE DEF e
  <2>2. pos < e
    BY <2>1
  <2> QED BY <2>2 DEF e
<1>5. Head(st) = h[pos + 1]
  BY <1>1, <1>2
<1> QED BY <1>3, <1>4, <1>5

\* The next digit of the length tells whether it is the last, and what the length is.
LEMMA DigitAt ==
  ASSUME NEW P, NEW n \in Nat, Encoded(P, n), NEW d \in 0..3, d < Digits(n)
  PROVE  /\ P[2 + d] >= Base =>
              /\ d + 1 < Digits(n) /\ d + 1 \in 0..3
              /\ Power[d + 1] * Base = Power[d + 2]
              /\ (n % Power[d + 1]) + (P[2 + d] % Base) * Power[d + 1] = n % Power[d + 2]
         /\ P[2 + d] < Base =>
              /\ d + 1 = Digits(n)
              /\ (n % Power[d + 1]) + P[2 + d] * Power[d + 1] = n
         /\ 2 + d <= Len(P)
<1> DEFINE D == Digits(n)
           m == Power[d + 1]
           e == (n \div m) % Base
           c == P[2 + d]
<1>1. n < Base * Base * Base * Base /\ Base \in Nat /\ Base > 1 /\ D \in 1..4
  BY BaseFacts, DigitsBound DEF Encoded
<1>2. d + 1 \in 1..4 /\ d + 1 \in 1..D /\ 2 + d = 1 + (d + 1) /\ (d + 1) + 1 = d + 2
  BY <1>1
<1>3. m \in Nat /\ m > 0
  BY <1>2, BaseFacts
<1>4. P[1 + (d + 1)] = MQTTPacket_encode(n)[d + 1]
  BY <1>2 DEF Encoded
<1>5. c = e + (IF d + 1 < D THEN Base ELSE 0)
  BY <1>2, <1>4 DEF MQTTPacket_encode
<1>6. n % (m * Base) = (n % m) + e * m /\ e \in 0..(Base - 1)
  <2> HIDE DEF m
  <2>1. n % (m * Base) = (n % m) + ((n \div m) % Base) * m /\ (n \div m) % Base \in 0..(Base - 1)
    BY <1>1, <1>3, DigitStep
  <2> QED BY <2>1
<1>7. /\ d + 1 < D => m * Base = Power[d + 2]
      /\ n % (Power[D] * Base) = n
  BY <1>1, <1>2, DigitsBound
<1>8. Len(P) = 1 + D + n
  BY DEF Encoded
<1>9. 2 + d <= Len(P)
  <2> HIDE DEF D
  <2>1. 2 + d <= 1 + D + n
    BY <1>1, <1>2
  <2> QED BY <1>8, <2>1
<1> HIDE DEF D, m, e, c
<1>10. ASSUME c >= Base
       PROVE  /\ d + 1 < D /\ d + 1 \in 0..3
              /\ m * Base = Power[d + 2]
              /\ (n % m) + (c % Base) * m = n % Power[d + 2]
  <2>1. d + 1 < D
    BY <1>10, <1>1, <1>5, <1>6
  <2>2. c = Base * 1 + e /\ c \in Nat /\ 1 \in Int
    BY <2>1, <1>1, <1>5, <1>6
  <2>3. c % Base = e
    BY <2>2, <1>1, <1>6, Remainder
  <2>4. d + 1 \in 0..3
    BY <2>1, <1>1, <1>2
  <2> QED BY <2>1, <2>3, <2>4, <1>6, <1>7
<1>11. ASSUME c < Base
       PROVE  d + 1 = D /\ (n % m) + c * m = n
  <2>1. d + 1 = D
    BY <1>11, <1>1, <1>2, <1>5, <1>6
  <2>2. c = e
    BY <2>1, <1>1, <1>5, <1>6
  <2>3. Power[D] = m
    BY <2>1 DEF m
  <2> QED BY <2>1, <2>2, <2>3, <1>6, <1>7
<1> QED BY <1>9, <1>10, <1>11 DEF D, m, c

----------------------------------------------------------------------------
(* The steps. *)

\* Where the reader stands in what was sent.
LEMMA NextByte ==
  ASSUME NEW h \in Seq(Byte), NEW start, NEW ps \in Seq(Seq(Byte)), Framed(h, start, ps),
         NEW j \in 1..Len(ps), NEW off \in Nat, NEW k \in Nat, off + k <= Len(ps[j])
  PROVE  /\ start[j] \in Nat /\ start[j + 1] = start[j] + Len(ps[j])
         /\ \A x \in 1..k : h[(start[j] + off) + x] = ps[j][off + x]
<1>1. /\ start \in [1..(Len(ps) + 1) -> Nat] /\ start[j + 1] = start[j] + Len(ps[j])
      /\ \A x \in 1..Len(ps[j]) : h[start[j] + x] = ps[j][x]
  BY DEF Framed
<1>2. start[j] \in Nat /\ Len(ps[j]) \in Nat
  <2>1. j \in 1..(Len(ps) + 1) /\ ps[j] \in Seq(Byte)
    OBVIOUS
  <2>2. start[j] \in Nat
    BY <1>1, <2>1
  <2>3. Len(ps[j]) \in Nat
    BY <2>1
  <2> QED BY <2>2, <2>3
<1>3. ASSUME NEW x \in 1..k PROVE h[(start[j] + off) + x] = ps[j][off + x]
  <2> DEFINE a == start[j]
             c == Len(ps[j])
  <2>1. a \in Nat /\ c \in Nat /\ off + k <= c
    BY <1>2
  <2> HIDE DEF a, c
  <2>2. off + x \in 1..c /\ (a + off) + x = a + (off + x)
    BY <2>1
  <2>3. h[a + (off + x)] = ps[j][off + x]
    BY <2>2, <1>1 DEF a, c
  <2> QED BY <2>2, <2>3 DEF a
<1> QED BY <1>1, <1>2, <1>3

LEMMA StepPeer ==
  ASSUME NEW h, NEW pos, NEW start, BufferSafe, Prefix, Frames(h, pos, start),
         NEW type \in Types, NEW body \in Bodies, PeerSends(type, body)
  PROVE  Prefix' /\ \E g, start2 : Frames(g, pos, start2)'
<1> DEFINE P == <<type>> \o MQTTPacket_encode(Len(body)) \o body
           g == h \o P
<1>1. IsPacket(P)
  BY PeerPacket
<1>2. P \in Seq(Byte)
  BY <1>1 DEF IsPacket
<1>3. /\ sent' = Append(sent, P) /\ wire' = wire \o P
      /\ UNCHANGED <<stream, received, buf, misses, state, len, rem_len, multiplier>>
  BY DEF PeerSends, trpVars
<1> HIDE DEF P
<1>4. /\ h \in Seq(Byte) /\ pos \in Nat /\ Framed(h, start, sent)
      /\ Rest(h, pos, stream, wire) /\ At(start, pos)
      /\ sent \in Seq(Seq(Byte)) /\ stream \in Seq(Byte) /\ wire \in Seq(Byte)
      /\ received \in Seq(Seq(Byte)) /\ Len(received) <= Len(sent)
  BY DEF Frames, Prefix, BufferSafe
<1>5. PICK start2 : /\ Framed(g, start2, Append(sent, P))
                    /\ \A j \in 1..(Len(sent) + 1) : start2[j] = start[j]
                    /\ Rest(g, pos, stream, wire \o P)
  BY <1>1, <1>4, PeerFrames
<1>6. /\ sent' \in Seq(Seq(Byte)) /\ Len(sent') = Len(sent) + 1
      /\ \A j \in 1..Len(sent) : sent'[j] = sent[j]
  BY <1>2, <1>3, <1>4
<1>7. Prefix'
  <2>1. \A i \in 1..Len(received) : received[i] = sent'[i]
    BY <1>4, <1>6 DEF Prefix
  <2>2. Len(received) <= Len(sent')
    BY <1>4, <1>6
  <2> QED BY <2>1, <2>2, <1>3, <1>4, <1>6 DEF Prefix
<1>8. At(start2, pos)'
  <2> DEFINE j == Len(received) + 1
  <2>1. j \in 1..(Len(sent) + 1) /\ start2[j] = start[j]
    BY <1>4, <1>5
  <2>2. j <= Len(sent) => j <= Len(sent') /\ sent'[j] = sent[j]
    BY <1>4, <1>6, <2>1
  <2>3. RemLen' = RemLen /\ Multiplier' = Multiplier
    BY <1>3 DEF RemLen, Multiplier
  <2>4. /\ state = 0 => pos = start[j]
        /\ state = 1 => /\ j <= Len(sent)
                        /\ InLength(sent[j], buf, len, misses, RemLen, Multiplier, pos - start[j])
        /\ state = 2 => j <= Len(sent) /\ InBody(sent[j], buf, rem_len, pos - start[j])
    BY <1>4 DEF At
  <2>5. Len(received') + 1 = j
    BY <1>3
  <2> HIDE DEF j
  <2>6. /\ state' = 0 => pos = start2[j]
        /\ state' = 1 => /\ j <= Len(sent')
                         /\ InLength(sent'[j], buf', len', misses', RemLen', Multiplier', pos - start2[j])
        /\ state' = 2 => j <= Len(sent') /\ InBody(sent'[j], buf', rem_len', pos - start2[j])
    BY <1>3, <2>1, <2>2, <2>3, <2>4
  <2> QED BY <2>5, <2>6 DEF At
<1>9. Frames(g, pos, start2)'
  <2>1. g \in Seq(Byte)
    BY <1>2, <1>4
  <2> QED BY <2>1, <1>3, <1>4, <1>5, <1>8 DEF Frames
<1> QED BY <1>7, <1>9

LEMMA FrameFacts ==
  ASSUME NEW h, NEW pos, NEW start, BufferSafe, Prefix, Frames(h, pos, start)
  PROVE  /\ h \in Seq(Byte) /\ pos \in Nat /\ Framed(h, start, sent)
         /\ Rest(h, pos, stream, wire) /\ At(start, pos)
         /\ sent \in Seq(Seq(Byte)) /\ stream \in Seq(Byte) /\ wire \in Seq(Byte)
         /\ Len(received) + 1 \in 1..(Len(sent) + 1)
         /\ Len(received) + 1 <= Len(sent) =>
              /\ Len(received) + 1 \in 1..Len(sent)
              /\ sent[Len(received) + 1] \in Seq(Byte) /\ start[Len(received) + 1] \in Nat
              /\ IsPacket(sent[Len(received) + 1])
<1>1. /\ h \in Seq(Byte) /\ pos \in Nat /\ Framed(h, start, sent)
      /\ Rest(h, pos, stream, wire) /\ At(start, pos)
      /\ sent \in Seq(Seq(Byte)) /\ stream \in Seq(Byte) /\ wire \in Seq(Byte)
      /\ received \in Seq(Seq(Byte)) /\ Len(received) <= Len(sent)
  BY DEF Frames, Prefix, BufferSafe
<1> DEFINE j == Len(received) + 1
<1>2. j \in 1..(Len(sent) + 1) /\ (j <= Len(sent) => j \in 1..Len(sent))
  BY <1>1
<1> HIDE DEF j
<1>3. ASSUME j <= Len(sent)
      PROVE  j \in 1..Len(sent) /\ sent[j] \in Seq(Byte) /\ start[j] \in Nat /\ IsPacket(sent[j])
  <2>1. j \in 1..Len(sent)
    BY <1>2, <1>3
  <2>2. sent[j] \in Seq(Byte)
    BY <1>1, <2>1
  <2>3. IsPacket(sent[j])
    BY <1>1, <2>1 DEF Framed
  <2>4. start \in [1..(Len(sent) + 1) -> Nat]
    BY <1>1 DEF Framed
  <2> QED BY <1>2, <2>1, <2>2, <2>3, <2>4
<1> QED BY <1>1, <1>2, <1>3 DEF j

\* Steps of the reader that return no packet.
LEMMA SamePrefix ==
  ASSUME Prefix, sent' = sent, received' = received
  PROVE  Prefix'
BY DEF Prefix

LEMMA StepArrives ==
  ASSUME NEW h, NEW pos, NEW start, BufferSafe, Prefix, Frames(h, pos, start), ByteArrives
  PROVE  Prefix' /\ Frames(h, pos, start)'
<1>1. /\ wire # <<>> /\ wire' = Tail(wire) /\ stream' = Append(stream, Head(wire))
      /\ UNCHANGED <<sent, received, buf, misses, state, len, rem_len, multiplier>>
  BY DEF ByteArrives, trpVars
<1>2. Rest(h, pos, Append(stream, Head(wire)), Tail(wire))
  BY <1>1, FrameFacts, RestArrives
<1>3. At(start, pos)'
  BY <1>1, FrameFacts DEF At, RemLen, Multiplier
<1>4. h \in Seq(Byte) /\ pos \in Nat /\ Framed(h, start, sent)
  BY FrameFacts
<1> QED BY <1>1, <1>2, <1>3, <1>4, SamePrefix DEF Frames

LEMMA StepHeader ==
  ASSUME NEW h, NEW pos, NEW start, BufferSafe, Prefix, Frames(h, pos, start), ReadHeader
  PROVE  Prefix' /\ Frames(h, pos + 1, start)'
<1> DEFINE j == Len(received) + 1
           P == sent[j]
<1>1. /\ state = 0 /\ stream # <<>> /\ buf' = <<Head(stream)>> /\ stream' = Tail(stream)
      /\ len' = 0 /\ state' = 1 /\ misses' = 0
      /\ wire' = wire /\ sent' = sent /\ received' = received
  BY DEF ReadHeader, peerVars
<1>2. /\ h \in Seq(Byte) /\ pos \in Nat /\ Framed(h, start, sent)
      /\ Rest(h, pos, stream, wire) /\ At(start, pos)
      /\ sent \in Seq(Seq(Byte)) /\ stream \in Seq(Byte) /\ wire \in Seq(Byte)
      /\ j \in 1..(Len(sent) + 1)
  BY FrameFacts
<1>3. pos = start[j]
  BY <1>1, <1>2 DEF At
<1>4. Rest(h, pos + 1, Tail(stream), wire) /\ pos < Len(h) /\ Head(stream) = h[pos + 1]
  BY <1>1, <1>2, RestHead
<1>5. j <= Len(sent)
  <2>1. start[Len(sent) + 1] = Len(h)
    BY <1>2 DEF Framed
  <2>2. Len(h) \in Nat /\ Len(sent) \in Nat
    BY <1>2
  <2>3. j # Len(sent) + 1
    BY <2>1, <2>2, <1>2, <1>3, <1>4
  <2> QED BY <2>2, <2>3, <1>2
<1>6. j \in 1..Len(sent) /\ P \in Seq(Byte) /\ IsPacket(P)
  BY <1>5, FrameFacts
<1>7. PICK n \in Nat : Encoded(P, n)
  BY <1>6 DEF IsPacket
<1> HIDE DEF j, P
<1>8. Digits(n) \in 1..4 /\ n % Power[1] = 0 /\ Power[1] = 1 /\ 0 + 1 <= Len(P)
  <2>1. Digits(n) \in 1..4 /\ n % Power[1] = 0 /\ Power[1] = 1
    BY <1>7, DigitsBound DEF Encoded
  <2>2. Len(P) = 1 + Digits(n) + n
    BY <1>7 DEF Encoded
  <2> QED BY <2>1, <2>2
<1>9. Head(stream) = P[1]
  <2>1. 1 \in 1..Len(sent[j])
    BY <1>6, <1>8 DEF P
  <2>2. h[start[j] + 1] = sent[j][1]
    BY <2>1, <1>2, <1>6 DEF Framed
  <2> QED BY <2>2, <1>3, <1>4 DEF P
<1>10. InLength(P, <<P[1]>>, 0, 0, 0, 1, 1)
  <2>1. 0 \in 0..3 /\ 0 < Digits(n) /\ 0 = 0 + 0 /\ 1 = 1 + 0 /\ 0 = n % Power[0 + 1] /\ 1 = Power[0 + 1]
    BY <1>8
  <2> QED BY <2>1, <1>7 DEF InLength
<1>11. RemLen' = 0 /\ Multiplier' = 1 /\ (pos + 1) - start[j] = 1
  BY <1>1, <1>2, <1>3 DEF RemLen, Multiplier
<1>12. At(start, pos + 1)'
  <2>1. buf' = <<P[1]>>
    BY <1>1, <1>9
  <2>2. InLength(P, buf', len', misses', RemLen', Multiplier', (pos + 1) - start[j])
    BY <1>1, <1>10, <1>11, <2>1
  <2>3. Len(received') + 1 = j /\ sent'[j] = P /\ j <= Len(sent')
    BY <1>1, <1>5 DEF j, P
  <2> QED BY <1>1, <2>2, <2>3 DEF At
<1>13. pos + 1 \in Nat
  BY <1>2
<1> QED BY <1>1, <1>2, <1>4, <1>12, <1>13, SamePrefix DEF Frames

LEMMA StepAgain ==
  ASSUME NEW h, NEW pos, NEW start, BufferSafe, Prefix, Frames(h, pos, start), LengthAgain
  PROVE  Prefix' /\ Frames(h, pos, start)'
<1> DEFINE j == Len(received) + 1
           P == sent[j]
<1>1. /\ state = 1 /\ state' = 1 /\ len' = len + 1 /\ misses' = misses + 1
      /\ rem_len' = RemLen /\ multiplier' = Multiplier
      /\ wire' = wire /\ stream' = stream /\ sent' = sent /\ received' = received /\ buf' = buf
  BY DEF LengthAgain, peerVars
<1>2. /\ h \in Seq(Byte) /\ pos \in Nat /\ Framed(h, start, sent)
      /\ Rest(h, pos, stream, wire) /\ At(start, pos)
  BY FrameFacts
<1>3. j <= Len(sent) /\ InLength(P, buf, len, misses, RemLen, Multiplier, pos - start[j])
  BY <1>1, <1>2 DEF At
<1>4. len' # 0
  BY <1>1 DEF BufferSafe
<1>5. RemLen' = RemLen /\ Multiplier' = Multiplier
  BY <1>1, <1>4 DEF RemLen, Multiplier
<1> HIDE DEF P
<1>6. InLength(P, buf, len + 1, misses + 1, RemLen, Multiplier, pos - start[j])
  <2>1. \A d \in 0..3, m \in Nat : m + 1 \in Nat /\ (len = d + m => len + 1 = d + (m + 1))
    OBVIOUS
  <2> QED BY <1>3, <2>1 DEF InLength
<1>7. At(start, pos)'
  <2>1. Len(received') + 1 = j /\ sent'[j] = P /\ j <= Len(sent')
    BY <1>1, <1>3 DEF P
  <2>2. InLength(P, buf', len', misses', RemLen', Multiplier', pos - start[j])
    BY <1>1, <1>5, <1>6
  <2> HIDE DEF j
  <2> QED BY <1>1, <2>1, <2>2 DEF At
<1> QED BY <1>1, <1>2, <1>7, SamePrefix DEF Frames

\* A reader in the length of packet P, and the byte it takes.
NextDigit(P, n, d, off) ==
  /\ Encoded(P, n) /\ d < Digits(n)
  /\ len = d + misses /\ off = 1 + d
  /\ RemLen = n % Power[d + 1] /\ Multiplier = Power[d + 1]
  /\ Head(stream) = P[2 + d]

LEMMA LengthByte ==
  ASSUME NEW h, NEW pos, NEW start, BufferSafe, Prefix, Frames(h, pos, start),
         state = 1, stream # <<>>,
         NEW j, j = Len(received) + 1
  PROVE  /\ j <= Len(sent) /\ start[j] \in Nat /\ buf = <<sent[j][1]>> /\ misses \in Nat
         /\ Rest(h, pos + 1, Tail(stream), wire)
         /\ \E n \in Nat, d \in 0..3 : NextDigit(sent[j], n, d, pos - start[j])
<1> DEFINE P == sent[j]
           off == pos - start[j]
<1>1. /\ h \in Seq(Byte) /\ pos \in Nat /\ Framed(h, start, sent)
      /\ Rest(h, pos, stream, wire) /\ At(start, pos)
      /\ sent \in Seq(Seq(Byte)) /\ stream \in Seq(Byte) /\ wire \in Seq(Byte)
  BY FrameFacts
<1>2. j <= Len(sent) /\ InLength(P, buf, len, misses, RemLen, Multiplier, off)
  BY <1>1 DEF At
<1>3. j \in 1..Len(sent) /\ P \in Seq(Byte) /\ start[j] \in Nat
  BY <1>2, FrameFacts
<1>4. Rest(h, pos + 1, Tail(stream), wire) /\ Head(stream) = h[pos + 1]
  BY <1>1, RestHead
<1> HIDE DEF P, off
<1>5. PICK n \in Nat, d \in 0..3 :
        /\ Encoded(P, n) /\ d < Digits(n)
        /\ len = d + misses /\ off = 1 + d
        /\ RemLen = n % Power[d + 1] /\ Multiplier = Power[d + 1]
  BY <1>2 DEF InLength
<1>6. buf = <<P[1]>> /\ misses \in Nat
  BY <1>2 DEF InLength
<1>7. 2 + d <= Len(P) /\ Len(P) \in Nat
  BY <1>3, <1>5, DigitAt
<1>8. Head(stream) = P[2 + d]
  <2>1. 2 + d \in 1..Len(sent[j])
    BY <1>7 DEF P
  <2>2. h[start[j] + (2 + d)] = sent[j][2 + d]
    BY <2>1, <1>1, <1>3 DEF Framed
  <2>3. pos + 1 = start[j] + (2 + d)
    <3>1. pos - start[j] = 1 + d
      BY <1>5 DEF off
    <3>2. PICK a : a = start[j]
      OBVIOUS
    <3>3. a \in Nat /\ pos \in Nat /\ pos - a = 1 + d
      BY <3>1, <3>2, <1>1, <1>3
    <3>4. pos + 1 = a + (2 + d)
      BY <3>3
    <3> QED BY <3>2, <3>4
  <2> QED BY <2>2, <2>3, <1>4 DEF P
<1>9. NextDigit(P, n, d, off)
  BY <1>5, <1>8 DEF NextDigit
<1> QED BY <1>2, <1>3, <1>4, <1>6, <1>9 DEF P, off

LEMMA StepDigit ==
  ASSUME NEW h, NEW pos, NEW start, BufferSafe, Prefix, Frames(h, pos, start), LengthDigit
  PROVE  Prefix' /\ Frames(h, pos + 1, start)'
<1>1. PICK j : j = Len(received) + 1
  OBVIOUS
<1>2. /\ state = 1 /\ state' = 1 /\ len' = len + 1 /\ misses' = misses
      /\ stream # <<>> /\ Head(stream) >= Base /\ stream' = Tail(stream)
      /\ rem_len' = RemLen + (Head(stream) % Base) * Multiplier
      /\ multiplier' = Multiplier * Base
      /\ wire' = wire /\ sent' = sent /\ received' = received /\ buf' = buf
  BY DEF LengthDigit, peerVars
<1>3. h \in Seq(Byte) /\ pos \in Nat /\ Framed(h, start, sent)
  BY FrameFacts
<1>4. /\ j <= Len(sent) /\ start[j] \in Nat /\ buf = <<sent[j][1]>> /\ misses \in Nat
      /\ Rest(h, pos + 1, Tail(stream), wire)
  BY <1>1, <1>2, LengthByte
<1>5. PICK n \in Nat, d \in 0..3 : NextDigit(sent[j], n, d, pos - start[j])
  BY <1>1, <1>2, LengthByte, Zenon
<1>6. PICK P : P = sent[j]
  OBVIOUS
<1>7. /\ Encoded(P, n) /\ d < Digits(n) /\ P[2 + d] >= Base
      /\ len = d + misses /\ pos - start[j] = 1 + d
      /\ RemLen = n % Power[d + 1] /\ Multiplier = Power[d + 1]
      /\ Head(stream) = P[2 + d]
  BY <1>2, <1>5, <1>6 DEF NextDigit
<1>8. /\ d + 1 < Digits(n) /\ d + 1 \in 0..3
      /\ Power[d + 1] * Base = Power[d + 2]
      /\ (n % Power[d + 1]) + (P[2 + d] % Base) * Power[d + 1] = n % Power[d + 2]
  BY <1>7, DigitAt, ZenonT(60)
<1>9. rem_len' = n % Power[d + 2] /\ multiplier' = Power[d + 2]
  BY <1>2, <1>7, <1>8, Zenon
<1>10. /\ len' = (d + 1) + misses /\ len' # 0 /\ (pos + 1) - start[j] = 1 + (d + 1)
       /\ pos + 1 \in Nat /\ (d + 1) + 1 = d + 2
  <2>1. len' = len + 1 /\ len = d + misses /\ pos - start[j] = 1 + d
    BY <1>2, <1>7
  <2> QED BY <2>1, <1>3, <1>4
<1>11. RemLen' = rem_len' /\ Multiplier' = multiplier'
  BY <1>10 DEF RemLen, Multiplier
<1>12. RemLen' = n % Power[(d + 1) + 1] /\ Multiplier' = Power[(d + 1) + 1]
  BY <1>9, <1>10, <1>11
<1>13. InLength(P, buf', len', misses', RemLen', Multiplier', (pos + 1) - start[j])
  <2>1. Encoded(P, n) /\ buf' = <<P[1]>> /\ misses' = misses
    BY <1>2, <1>4, <1>7, <1>6
  <2> QED BY <2>1, <1>4, <1>8, <1>10, <1>12 DEF InLength
<1>14. At(start, pos + 1)'
  <2>1. Len(received') + 1 = j /\ sent'[j] = P /\ j <= Len(sent')
    BY <1>1, <1>2, <1>4, <1>6
  <2> QED BY <1>2, <1>13, <2>1 DEF At
<1> QED BY <1>2, <1>3, <1>4, <1>10, <1>14, SamePrefix DEF Frames

LEMMA StepLastDigit ==
  ASSUME NEW h, NEW pos, NEW start, BufferSafe, Prefix, Frames(h, pos, start), LengthLastDigit,
         ~failed'
  PROVE  Prefix' /\ Frames(h, pos + 1, start)'
<1>1. PICK j : j = Len(received) + 1
  OBVIOUS
<1>2. PICK r : r = RemLen + Head(stream) * Multiplier
  OBVIOUS
<1>3. /\ state = 1 /\ state' = 2
      /\ stream # <<>> /\ Head(stream) < Base /\ stream' = Tail(stream)
      /\ rem_len' = r
      /\ buf' = <<buf[1]>> \o MQTTPacket_encode(r)
      /\ wire' = wire /\ sent' = sent /\ received' = received
  BY <1>2 DEF LengthLastDigit, Fails, peerVars
<1>4. h \in Seq(Byte) /\ pos \in Nat /\ Framed(h, start, sent)
  BY FrameFacts
<1>5. /\ j <= Len(sent) /\ start[j] \in Nat /\ buf = <<sent[j][1]>>
      /\ Rest(h, pos + 1, Tail(stream), wire)
  BY <1>1, <1>3, LengthByte
<1>6. PICK n \in Nat, d \in 0..3 : NextDigit(sent[j], n, d, pos - start[j])
  BY <1>1, <1>3, LengthByte, Zenon
<1>7. PICK P : P = sent[j]
  OBVIOUS
<1>8. /\ Encoded(P, n) /\ d < Digits(n) /\ P[2 + d] < Base
      /\ pos - start[j] = 1 + d
      /\ RemLen = n % Power[d + 1] /\ Multiplier = Power[d + 1]
      /\ Head(stream) = P[2 + d]
  BY <1>3, <1>6, <1>7 DEF NextDigit
<1>9. d + 1 = Digits(n) /\ (n % Power[d + 1]) + P[2 + d] * Power[d + 1] = n
  BY <1>8, DigitAt, ZenonT(60)
<1>10. r = n
  BY <1>2, <1>8, <1>9, Zenon
<1>11. PICK code : code = MQTTPacket_encode(n)
  OBVIOUS
<1>12. code \in Seq(Byte) /\ Len(code) = Digits(n) /\ Digits(n) \in 1..4
  BY <1>11, EncodeType, DigitsType
<1>13. /\ Len(P) = 1 + Digits(n) + n
       /\ \A i \in 1..Digits(n) : P[1 + i] = code[i]
  BY <1>8, <1>11 DEF Encoded
<1>14. PICK b : b = <<P[1]>> \o code
  OBVIOUS
<1>15. buf' = b /\ rem_len' = n
  BY <1>3, <1>5, <1>7, <1>10, <1>11, <1>14
<1>16. /\ Len(b) = 1 + Digits(n) /\ b[1] = P[1]
       /\ \A i \in 1..Digits(n) : b[1 + i] = code[i]
  <2>1. P[1] \in Byte
    <3>1. j \in 1..Len(sent) /\ sent[j] \in Seq(Byte)
      BY <1>1, <1>5, FrameFacts
    <3> QED BY <3>1, <1>7, <1>12, <1>13
  <2> QED BY <2>1, <1>12, <1>14
<1>17. InBody(P, b, n, (pos + 1) - start[j])
  <2>1. \A x \in 1..Len(b) : b[x] = P[x]
    <3>1. ASSUME NEW x \in 1..Len(b), x # 1 PROVE b[x] = P[x]
      <4>1. PICK i : i = x - 1
        OBVIOUS
      <4>2. i \in 1..Digits(n) /\ x = 1 + i
        BY <4>1, <3>1, <1>12, <1>16
      <4> QED BY <4>2, <1>13, <1>16
    <3> QED BY <3>1, <1>16
  <2>2. Len(b) <= Len(P) /\ n = Len(P) - Len(b)
    BY <1>12, <1>13, <1>16
  <2>3. (pos + 1) - start[j] = Len(b)
    <3>1. pos - start[j] = 1 + d /\ d + 1 = Digits(n) /\ Len(b) = 1 + Digits(n) /\ start[j] \in Nat
      BY <1>8, <1>5, <1>9, <1>16
    <3>2. (pos + 1) - start[j] = 1 + Digits(n)
      BY <3>1, <1>4
    <3> QED BY <3>1, <3>2
  <2> QED BY <2>1, <2>2, <2>3 DEF InBody
<1>18. At(start, pos + 1)'
  <2>1. Len(received') + 1 = j /\ sent'[j] = P /\ j <= Len(sent')
    BY <1>1, <1>3, <1>5, <1>7
  <2>2. InBody(P, buf', rem_len', (pos + 1) - start[j])
    BY <1>15, <1>17
  <2> QED BY <1>3, <2>1, <2>2 DEF At
<1>19. pos + 1 \in Nat
  BY <1>4
<1> QED BY <1>3, <1>4, <1>5, <1>18, <1>19, SamePrefix DEF Frames

LEMMA SameBytes ==
  ASSUME NEW a \in Seq(Byte), NEW b \in Seq(Byte), Len(a) = Len(b),
         \A x \in 1..Len(a) : a[x] = b[x]
  PROVE  a = b
OBVIOUS

\* k more bytes of the body of P are in the buffer.
LEMMA BodyBytes ==
  ASSUME NEW h, NEW pos, NEW start, BufferSafe, Prefix, Frames(h, pos, start),
         state = 2, NEW k \in Nat, k <= rem_len, k <= Len(stream),
         NEW j, j = Len(received) + 1, NEW b, b = buf \o SubSeq(stream, 1, k)
  PROVE  /\ j \in 1..Len(sent) /\ sent[j] \in Seq(Byte) /\ b \in Seq(Byte)
         /\ InBody(sent[j], b, rem_len - k, (pos + k) - start[j])
         /\ Rest(h, pos + k, SubSeq(stream, k + 1, Len(stream)), wire)
         /\ start[j + 1] = start[j] + Len(sent[j]) /\ start[j] \in Nat
<1>1. /\ h \in Seq(Byte) /\ pos \in Nat /\ Framed(h, start, sent)
      /\ Rest(h, pos, stream, wire) /\ At(start, pos)
      /\ sent \in Seq(Seq(Byte)) /\ stream \in Seq(Byte) /\ wire \in Seq(Byte)
  BY FrameFacts
<1>2. PICK P : P = sent[j]
  OBVIOUS
<1>3. PICK off : off = pos - start[j]
  OBVIOUS
<1>4. j <= Len(sent) /\ InBody(P, buf, rem_len, off)
  BY <1>1, <1>2, <1>3 DEF At
<1>5. j \in 1..Len(sent) /\ P \in Seq(Byte) /\ start[j] \in Nat
  BY <1>2, <1>4, FrameFacts
<1>6. PICK c : c = SubSeq(stream, 1, k)
  OBVIOUS
<1>7. c \in Seq(Byte) /\ Len(c) = k /\ \A x \in 1..k : c[x] = stream[x]
  BY <1>1, <1>6
<1>8. /\ buf \in Seq(Byte) /\ Len(buf) \in Nat /\ Len(P) \in Nat
      /\ Len(buf) <= Len(P) /\ rem_len = Len(P) - Len(buf) /\ off = Len(buf)
      /\ \A x \in 1..Len(buf) : buf[x] = P[x]
  BY <1>4, <1>5 DEF InBody, BufferSafe
<1>9. /\ b \in Seq(Byte) /\ Len(b) = off + k
      /\ \A x \in 1..off : b[x] = buf[x]
      /\ \A x \in 1..k : b[off + x] = c[x]
  BY <1>6, <1>7, <1>8
<1>10. /\ off \in Nat /\ off + k <= Len(P) /\ rem_len - k = Len(P) - (off + k)
       /\ pos = start[j] + off /\ (pos + k) - start[j] = off + k
  <2>1. PICK r, a, c2 : r = rem_len /\ a = start[j] /\ c2 = Len(P)
    OBVIOUS
  <2>2. /\ off \in Nat /\ c2 \in Nat /\ a \in Nat /\ pos \in Nat
        /\ off <= c2 /\ r = c2 - off /\ k <= r /\ off = pos - a
    BY <2>1, <1>1, <1>3, <1>5, <1>8
  <2>3. /\ off + k <= c2 /\ r - k = c2 - (off + k)
        /\ pos = a + off /\ (pos + k) - a = off + k
    BY <2>2
  <2> QED BY <2>1, <2>2, <2>3
<1>11. /\ Rest(h, pos + k, SubSeq(stream, k + 1, Len(stream)), wire)
       /\ \A x \in 1..k : stream[x] = h[pos + x]
  <2>1. PICK st, w : st = stream /\ w = wire
    OBVIOUS
  <2>2. st \in Seq(Byte) /\ w \in Seq(Byte) /\ Rest(h, pos, st, w) /\ k <= Len(st)
    BY <2>1, <1>1
  <2>3. /\ Rest(h, pos + k, SubSeq(st, k + 1, Len(st)), w)
        /\ \A x \in 1..k : st[x] = h[pos + x]
    BY <2>2, <1>1, RestTaken
  <2> QED BY <2>1, <2>3
<1>12. /\ start[j + 1] = start[j] + Len(P)
       /\ \A x \in 1..k : h[(start[j] + off) + x] = P[off + x]
  <2>1. off + k <= Len(sent[j])
    BY <1>2, <1>10
  <2>2. /\ start[j + 1] = start[j] + Len(sent[j])
        /\ \A x \in 1..k : h[(start[j] + off) + x] = sent[j][off + x]
    <3>1. PICK ps : ps = sent
      OBVIOUS
    <3>2. /\ ps \in Seq(Seq(Byte)) /\ Framed(h, start, ps) /\ h \in Seq(Byte)
          /\ j \in 1..Len(ps) /\ off \in Nat /\ off + k <= Len(ps[j])
      BY <3>1, <2>1, <1>1, <1>5, <1>10
    <3>3. /\ start[j + 1] = start[j] + Len(ps[j])
          /\ \A x \in 1..k : h[(start[j] + off) + x] = ps[j][off + x]
      BY <3>2, NextByte, SMTT(40)
    <3> QED BY <3>1, <3>3
  <2> QED BY <1>2, <2>2
<1>13. ASSUME NEW x \in 1..(off + k) PROVE b[x] = P[x]
  <2>1. CASE x <= off
    BY <2>1, <1>8, <1>9, <1>10
  <2>2. CASE x > off
    <3>1. PICK y : y = x - off
      OBVIOUS
    <3>2. y \in 1..k /\ x = off + y
      BY <3>1, <2>2, <1>10
    <3>3. b[off + y] = c[y] /\ c[y] = stream[y] /\ stream[y] = h[pos + y]
      BY <3>2, <1>7, <1>9, <1>11
    <3>4. h[pos + y] = P[off + y]
      BY <3>2, <1>10, <1>12
    <3> QED BY <3>2, <3>3, <3>4
  <2>3. x <= off \/ x > off
    BY <1>10
  <2> QED BY <2>1, <2>2, <2>3, Zenon
<1>14. InBody(P, b, rem_len - k, (pos + k) - start[j])
  BY <1>9, <1>10, <1>13 DEF InBody
<1> QED BY <1>2, <1>5, <1>9, <1>11, <1>12, <1>14

LEMMA StepBody ==
  ASSUME NEW h, NEW pos, NEW start, BufferSafe, Prefix, Frames(h, pos, start), ReadBody
  PROVE  Prefix' /\ \E k \in Nat : Frames(h, pos + k, start)'
<1>1. PICK j : j = Len(received) + 1
  OBVIOUS
<1>2. PICK k : k = Available
  OBVIOUS
<1>3. PICK b : b = buf \o SubSeq(stream, 1, k)
  OBVIOUS
<1>4. /\ state = 2 /\ k \in Nat /\ k <= rem_len /\ k <= Len(stream)
  BY <1>2 DEF ReadBody, BodyArrives, Available, BufferSafe
<1>5. /\ stream' = SubSeq(stream, k + 1, Len(stream))
      /\ buf' = b /\ rem_len' = rem_len - k
      /\ wire' = wire /\ sent' = sent
      /\ \/ rem_len' # 0 /\ state' = 2 /\ received' = received
         \/ rem_len' = 0 /\ state' = 0 /\ received' = Append(received, b)
  BY <1>2, <1>3, <1>4 DEF ReadBody, BodyArrives, peerVars
<1>6. /\ j \in 1..Len(sent) /\ sent[j] \in Seq(Byte) /\ b \in Seq(Byte)
      /\ InBody(sent[j], b, rem_len - k, (pos + k) - start[j])
      /\ Rest(h, pos + k, SubSeq(stream, k + 1, Len(stream)), wire)
      /\ start[j + 1] = start[j] + Len(sent[j]) /\ start[j] \in Nat
  BY <1>1, <1>3, <1>4, BodyBytes, ZenonT(60)
<1>7. /\ h \in Seq(Byte) /\ pos \in Nat /\ pos + k \in Nat /\ Framed(h, start, sent)
  <2>1. h \in Seq(Byte) /\ pos \in Nat /\ Framed(h, start, sent)
    BY FrameFacts
  <2> QED BY <2>1, <1>4
<1>8. ASSUME rem_len' # 0
      PROVE  Prefix' /\ At(start, pos + k)'
  <2>1. state' = 2 /\ received' = received
    BY <1>5, <1>8
  <2>2. Len(received') + 1 = j /\ sent'[j] = sent[j] /\ j <= Len(sent')
    BY <1>1, <1>5, <1>6, <2>1
  <2>3. InBody(sent'[j], buf', rem_len', (pos + k) - start[j])
    BY <1>5, <1>6, <2>2
  <2>4. At(start, pos + k)'
    BY <2>1, <2>2, <2>3 DEF At
  <2> QED BY <2>1, <2>4, <1>5, SamePrefix
<1>9. ASSUME rem_len' = 0
      PROVE  Prefix' /\ At(start, pos + k)'
  <2>1. state' = 0 /\ received' = Append(received, b)
    BY <1>5, <1>9
  <2>2. PICK P : P = sent[j]
    OBVIOUS
  <2>3. P \in Seq(Byte) /\ InBody(P, b, 0, (pos + k) - start[j])
    BY <2>2, <1>5, <1>6, <1>9
  <2>4. /\ Len(b) = Len(P) /\ (pos + k) - start[j] = Len(P)
        /\ \A x \in 1..Len(b) : b[x] = P[x]
    <3>1. Len(b) \in Nat /\ Len(P) \in Nat
      BY <2>3, <1>6
    <3>2. /\ 0 = Len(P) - Len(b) /\ (pos + k) - start[j] = Len(b)
          /\ \A x \in 1..Len(b) : b[x] = P[x]
      BY <2>3 DEF InBody
    <3>3. Len(b) = Len(P)
      BY <3>1, <3>2
    <3> QED BY <3>2, <3>3
  <2>5. b = sent[j]
    BY <2>2, <2>3, <2>4, <1>6, SameBytes
  <2>6. /\ received \in Seq(Seq(Byte)) /\ Len(received) \in Nat /\ Len(sent) \in Nat
        /\ sent \in Seq(Seq(Byte))
        /\ \A i \in 1..Len(received) : received[i] = sent[i]
    BY DEF Prefix
  <2>7. /\ received' \in Seq(Seq(Byte)) /\ Len(received') = j
        /\ \A i \in 1..j : received'[i] = sent[i]
    <3>1. /\ received' \in Seq(Seq(Byte)) /\ Len(received') = Len(received) + 1
          /\ \A i \in 1..Len(received) : received'[i] = received[i]
          /\ received'[Len(received) + 1] = b
      BY <2>1, <2>6, <1>6
    <3>2. received' \in Seq(Seq(Byte)) /\ Len(received') = j /\ received'[j] = b
      BY <3>1, <1>1
    <3>3. ASSUME NEW i \in 1..j, i # j PROVE received'[i] = sent[i]
      <4>1. i \in 1..Len(received)
        BY <3>3, <2>6, <1>1
      <4> QED BY <4>1, <3>1, <2>6
    <3> QED BY <3>2, <3>3, <2>5
  <2>8. Prefix'
    <3>1. j <= Len(sent) /\ sent' = sent
      BY <1>5, <1>6
    <3> QED BY <3>1, <2>6, <2>7 DEF Prefix
  <2>9. pos + k = start[j + 1]
    <3>1. (pos + k) - start[j] = Len(P) /\ start[j + 1] = start[j] + Len(P) /\ Len(P) \in Nat
      BY <2>2, <2>3, <2>4, <1>6
    <3> QED BY <3>1, <1>6, <1>7
  <2>10. At(start, pos + k)'
    BY <2>1, <2>7, <2>9 DEF At
  <2> QED BY <2>8, <2>10
<1>10. Prefix' /\ At(start, pos + k)'
  BY <1>8, <1>9
<1>11. Frames(h, pos + k, start)'
  BY <1>5, <1>6, <1>7, <1>10 DEF Frames
<1> QED BY <1>4, <1>10, <1>11

\* A length that is too long came late.
LEMMA TooLongWasLate ==
  ASSUME NEW h, NEW pos, NEW start, BufferSafe, Prefix, Frames(h, pos, start), LengthTooLong
  PROVE  misses > 0
<1>1. state = 1 /\ ~(len + 1 <= 4)
  BY DEF LengthTooLong, MayAsk, MAX_NO_OF_REMAINING_LENGTH_BYTES
<1>2. At(start, pos)
  BY FrameFacts
<1>3. \E P, off : InLength(P, buf, len, misses, RemLen, Multiplier, off)
  BY <1>1, <1>2 DEF At
<1>4. misses \in Nat /\ \E d \in 0..3 : len = d + misses
  BY <1>3 DEF InLength
<1> QED BY <1>1, <1>4

LEMMA FrameStep ==
  ASSUME BufferSafe, FrameInv, [Next]_vars
  PROVE  FrameInv'
<1>1. ASSUME failed PROVE failed'
  <2>1. ASSUME NEW type \in Types, NEW body \in Bodies, PeerSends(type, body)
        PROVE  failed'
    BY <1>1, <2>1 DEF PeerSends
  <2> QED
    BY <1>1, <2>1 DEF Next, ByteArrives, ReaderNext, ReadHeader, LengthTooLong, LengthAgain,
       LengthDigit, LengthLastDigit, ReadBody, BodyArrives, Fails, vars
<1>2. ASSUME ~failed, ~failed' PROVE FrameInv'
  <2>1. Prefix
    BY <1>2 DEF FrameInv
  <2>2. PICK h, pos, start : Frames(h, pos, start)
    BY <1>2 DEF FrameInv
  <2>3. ASSUME NEW type \in Types, NEW body \in Bodies, PeerSends(type, body)
        PROVE  FrameInv'
    BY <2>1, <2>2, <2>3, StepPeer, Zenon DEF FrameInv
  <2>4. CASE ByteArrives
    BY <2>1, <2>2, <2>4, StepArrives, Zenon DEF FrameInv
  <2>5. CASE ReadHeader
    BY <2>1, <2>2, <2>5, StepHeader, Zenon DEF FrameInv
  <2>6. CASE LengthTooLong
    BY <2>6, <1>2 DEF LengthTooLong, Fails
  <2>7. CASE LengthAgain
    BY <2>1, <2>2, <2>7, StepAgain, Zenon DEF FrameInv
  <2>8. CASE LengthDigit
    BY <2>1, <2>2, <2>8, StepDigit, Zenon DEF FrameInv
  <2>9. CASE LengthLastDigit
    BY <2>1, <2>2, <2>9, <1>2, StepLastDigit, Zenon DEF FrameInv
  <2>10. CASE ReadBody
    BY <2>1, <2>2, <2>10, StepBody, Zenon DEF FrameInv
  <2>11. CASE UNCHANGED vars
    <3>1. UNCHANGED <<wire, sent, stream, state, len, rem_len, multiplier, buf, misses, received>>
      BY <2>11 DEF vars, peerVars, trpVars
    <3>2. Prefix'
      BY <2>1, <3>1, SamePrefix
    <3>3. Frames(h, pos, start)'
      BY <2>2, <3>1 DEF Frames, At, RemLen, Multiplier
    <3> QED BY <3>2, <3>3 DEF FrameInv
  <2> QED BY <2>3, <2>4, <2>5, <2>6, <2>7, <2>8, <2>9, <2>10, <2>11 DEF Next, ReaderNext
<1>3. failed' => FrameInv'
  BY Zenon DEF FrameInv
<1>4. failed' \/ ~failed'
  OBVIOUS
<1> QED BY <1>1, <1>2, <1>3, <1>4

LEMMA FrameInit == Init => FrameInv
<1> SUFFICES ASSUME Init PROVE FrameInv
  OBVIOUS
<1>1. /\ wire = <<>> /\ stream = <<>> /\ state = 0 /\ sent = <<>> /\ received = <<>>
  BY DEF Init
<1>2. Prefix
  BY <1>1 DEF Prefix
<1>3. PICK start : start = [j \in 1..1 |-> 0]
  OBVIOUS
<1>4. Framed(<<>>, start, <<>>)
  BY <1>3 DEF Framed
<1>5. Rest(<<>>, 0, <<>>, <<>>)
  BY DEF Rest
<1>6. At(start, 0)
  BY <1>1, <1>3 DEF At
<1>7. <<>> \in Seq(Byte) /\ 0 \in Nat
  OBVIOUS
<1>8. Frames(<<>>, 0, start)
  BY <1>1, <1>4, <1>5, <1>6, <1>7 DEF Frames
<1> QED BY <1>2, <1>8 DEF FrameInv

\* For every Base, buffer size, set of packets and arrival of their bytes: as long as it
\* has not returned -1, MQTTPacket_readnb has returned the packets that were sent, in
\* order and byte for byte.
THEOREM PacketsAsSent == Spec => []ReadsWhatWasSent
<1>1. FrameInv => ReadsWhatWasSent
  <2>1. Prefix => /\ Len(received) <= Len(sent)
                  /\ \A i \in DOMAIN received : received[i] = sent[i]
    <3>1. received \in Seq(Seq(Byte)) => DOMAIN received = 1..Len(received)
      OBVIOUS
    <3> QED BY <3>1 DEF Prefix
  <2> QED BY <2>1, Zenon DEF FrameInv, ReadsWhatWasSent
<1>2. BufferSafe /\ FrameInv /\ [Next]_vars => FrameInv'
  BY FrameStep
<1> QED BY <1>1, <1>2, FrameInit, BufferIsSafe, PTL DEF Spec

\* For every Base, buffer size and set of packets: the first error of MQTTPacket_readnb
\* is a packet that does not fit, or a length whose bytes came too late.
THEOREM ErrorsHaveCauses == Spec => NoErrorWithoutCause
<1>1. ASSUME BufferSafe, BufferSafe', FrameInv, [Next]_vars
      PROVE  [~failed /\ failed' => misses > 0 \/ rem_len' + len' > buflen]_vars
  <2> SUFFICES ASSUME ~failed, failed' PROVE misses > 0 \/ rem_len' + len' > buflen
    OBVIOUS
  <2>1. LengthTooLong \/ LengthLastDigit
    <3>1. ASSUME NEW type \in Types, NEW body \in Bodies, PeerSends(type, body)
          PROVE  FALSE
      BY <3>1 DEF PeerSends
    <3> QED
      BY <1>1, <3>1 DEF Next, ByteArrives, ReaderNext, ReadHeader, LengthAgain, LengthDigit,
         ReadBody, BodyArrives, vars
  <2>2. CASE LengthTooLong
    <3>1. Prefix
      BY <1>1 DEF FrameInv
    <3>2. PICK h, pos, start : Frames(h, pos, start)
      BY <1>1 DEF FrameInv
    <3>3. misses > 0
      BY <1>1, <2>2, <3>1, <3>2, TooLongWasLate
    <3> QED BY <3>3
  <2>3. CASE LengthLastDigit
    <3>1. ~Fits(rem_len', len')
      BY <2>3 DEF LengthLastDigit
    <3>2. rem_len' \in Nat /\ len' \in Nat
      BY <1>1 DEF BufferSafe
    <3>3. PICK r, l : r = rem_len' /\ l = len'
      OBVIOUS
    <3>4. r \in Nat /\ l \in Nat /\ ~(r + l <= buflen) /\ buflen \in Nat
      BY <3>1, <3>2, <3>3, ReaderAssumption DEF Fits
    <3>5. r + l > buflen
      BY <3>4
    <3> QED BY <3>3, <3>5
  <2> QED BY <2>1, <2>2, <2>3
<1>2. BufferSafe /\ FrameInv /\ [Next]_vars => FrameInv'
  BY FrameStep
<1> QED BY <1>1, <1>2, FrameInit, BufferIsSafe, PTL DEF Spec, NoErrorWithoutCause
=============================================================================
