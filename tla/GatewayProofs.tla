---------------------------- MODULE GatewayProofs ----------------------------
(***************************************************************************)
(* Proofs about Gateway for every length of an answer, any number of       *)
(* instances, polls, lost bytes and starts.                                *)
(*                                                                         *)
(* A frame is whole because of what was read and sent before it, so the    *)
(* invariant is about the whole stream of a sensor: what the running       *)
(* instance holds of it, then what waits in the driver, then what the      *)
(* sensor has not sent yet.  Of a sensor that was not disturbed, every     *)
(* byte of the stream stands in a whole answer (Framed), the answers come  *)
(* in the order of their polls, none of them is older than the polls that  *)
(* timed out account for, and all are newer than what was published.       *)
(* Reading and arriving move the borders within the stream and leave it as *)
(* it is; a command adds an answer at its end; checking a frame takes the  *)
(* first one off.                                                          *)
(***************************************************************************)
EXTENDS Gateway, SequenceTheorems, TLAPS

Byte == [poll : Nat, byte : 1 .. MSG_LEN]

PCs == {"off", "send", "select", "read", "check"}

Types ==
  /\ pc \in [Instances -> PCs]
  /\ sensor \in [Instances -> Sensors]
  /\ rcv_buf \in [Instances -> Seq(Byte)]
  /\ tty \in [Sensors -> Seq(Byte)]
  /\ wire \in [Sensors -> Seq(Byte)]
  /\ polls \in [Sensors -> Nat]
  /\ late \in [Sensors -> Nat]
  /\ disturbed \subseteq Sensors
  /\ published \in [Sensors -> Seq(Nat)]

\* What an instance has read, by where it is in the loop.
Buffers ==
  \A i \in Instances :
    /\ pc[i] \in {"send", "select"} => rcv_buf[i] = <<>>
    /\ pc[i] = "check" => Len(rcv_buf[i]) = MSG_LEN

OneAtATime ==
  \A i, j \in Instances :
    pc[i] # "off" /\ pc[j] # "off" /\ i # j => disturbed = Sensors

\* Every byte of a stream stands in a whole answer, and of two bytes either the
\* later one answers a later poll or both stand in the same answer.
Framed(st) ==
  /\ \A k \in 1 .. Len(st) :
       /\ 0 <= k - st[k].byte
       /\ k - st[k].byte + MSG_LEN <= Len(st)
       /\ \A c \in 1 .. MSG_LEN :
            st[k - st[k].byte + c] = [poll |-> st[k].poll, byte |-> c]
  /\ \A j, k \in 1 .. Len(st) :
       j < k => \/ st[j].poll < st[k].poll
                \/ j - st[j].byte = k - st[k].byte

\* What an instance holds of the answers of a sensor, and the whole stream.
Held(i, s) == IF sensor[i] = s THEN rcv_buf[i] ELSE <<>>

Stream(i, s) == Held(i, s) \o (tty[s] \o wire[s])

\* The instance has sent its command and has not dealt with an answer yet.
Busy(i, s) == sensor[i] = s /\ pc[i] \in {"select", "read", "check"}

\* The polls of a stream are recent, and newer than all that was published.
Recent(st, low, high) == \A k \in 1 .. Len(st) : low <= st[k].poll /\ st[k].poll <= high

Fresh(st, done) == \A k \in 1 .. Len(st) : \A j \in 1 .. Len(done) : done[j] < st[k].poll

Oldest(i, s) == IF Busy(i, s) THEN polls[s] - late[s] ELSE polls[s] - late[s] + 1

InLine(i, s) ==
  /\ Framed(Stream(i, s))
  /\ Recent(Stream(i, s), Oldest(i, s), polls[s])
  /\ Fresh(Stream(i, s), published[s])

Lines ==
  \A i \in Instances, s \in Sensors : pc[i] # "off" /\ s \notin disturbed => InLine(i, s)

\* What was published of a sensor is in order, and of polls that were sent.
Ordered(done, high) ==
  /\ \A j \in 1 .. Len(done) : done[j] <= high
  /\ \A j, k \in 1 .. Len(done) : j < k => done[j] < done[k]

Publications == \A s \in Sensors : s \notin disturbed => Ordered(published[s], polls[s])

GInv == Types /\ Buffers /\ OneAtATime /\ Lines /\ Publications

----------------------------------------------------------------------------
(* Streams of answers.                                                     *)

LEMMA ByteFacts ==
  ASSUME NEW st \in Seq(Byte)
  PROVE  /\ Len(st) \in Nat /\ MSG_LEN \in Nat /\ MSG_LEN > 0
         /\ DOMAIN st = 1 .. Len(st)
         /\ \A k \in 1 .. Len(st) : /\ st[k] \in Byte
                                     /\ st[k].poll \in Nat
                                     /\ st[k].byte \in 1 .. MSG_LEN
<1>1. MSG_LEN \in Nat /\ MSG_LEN > 0
  BY GatewayAssumption
<1>2. Len(st) \in Nat /\ DOMAIN st = 1 .. Len(st)
  OBVIOUS
<1>3. \A k \in 1 .. Len(st) : st[k] \in Byte
  BY ElementOfSeq
<1>4. \A b \in Byte : b.poll \in Nat /\ b.byte \in 1 .. MSG_LEN
  BY DEF Byte
<1>. QED
  BY <1>1, <1>2, <1>3, <1>4

LEMMA JoinFacts ==
  ASSUME NEW a \in Seq(Byte), NEW b \in Seq(Byte)
  PROVE  /\ a \o b \in Seq(Byte)
         /\ Len(a \o b) = Len(a) + Len(b)
         /\ \A k \in 1 .. Len(a) : (a \o b)[k] = a[k]
         /\ \A k \in 1 .. Len(b) : (a \o b)[Len(a) + k] = b[k]
<1>1. /\ a \o b \in Seq(Byte) /\ Len(a \o b) = Len(a) + Len(b)
      /\ \A k \in 1 .. Len(a) + Len(b) :
           (a \o b)[k] = IF k <= Len(a) THEN a[k] ELSE b[k - Len(a)]
  BY ConcatProperties
<1>2. Len(a) \in Nat /\ Len(b) \in Nat
  OBVIOUS
<1>3. ASSUME NEW k \in 1 .. Len(b)
      PROVE  (a \o b)[Len(a) + k] = b[k]
  <2>1. /\ Len(a) + k \in 1 .. Len(a) + Len(b)
        /\ ~(Len(a) + k <= Len(a))
        /\ Len(a) + k - Len(a) = k
    BY <1>2
  <2>. QED
    BY <2>1, <1>1
<1>4. ASSUME NEW k \in 1 .. Len(a)
      PROVE  (a \o b)[k] = a[k]
  BY <1>1, <1>2
<1>. QED
  BY <1>1, <1>3, <1>4

LEMMA AnswerFacts ==
  ASSUME NEW p \in Nat
  PROVE  /\ Answer(p) \in Seq(Byte)
         /\ Len(Answer(p)) = MSG_LEN
         /\ \A c \in 1 .. MSG_LEN : /\ Answer(p)[c] = [poll |-> p, byte |-> c]
                                    /\ Answer(p)[c].poll = p
                                    /\ Answer(p)[c].byte = c
<1>1. \A c \in 1 .. MSG_LEN : [poll |-> p, byte |-> c] \in Byte
  BY DEF Byte
<1>2. Answer(p) \in [1 .. MSG_LEN -> Byte]
  BY <1>1 DEF Answer
<1>3. MSG_LEN \in Nat
  BY GatewayAssumption
<1>. QED
  BY <1>2, <1>3 DEF Answer

\* A command adds an answer to the end of the stream.
LEMMA FramedAppend ==
  ASSUME NEW st \in Seq(Byte), NEW p \in Nat, Framed(st),
         \A k \in 1 .. Len(st) : st[k].poll < p
  PROVE  /\ st \o Answer(p) \in Seq(Byte)
         /\ Len(st \o Answer(p)) = Len(st) + MSG_LEN
         /\ \A k \in 1 .. Len(st) : (st \o Answer(p))[k] = st[k]
         /\ \A k \in 1 .. Len(st) + MSG_LEN : k > Len(st) =>
              (st \o Answer(p))[k] = [poll |-> p, byte |-> k - Len(st)]
         /\ Framed(st \o Answer(p))
<1>. DEFINE n == Len(st)
            new == st \o Answer(p)
<1>1. /\ n \in Nat /\ MSG_LEN \in Nat /\ MSG_LEN > 0
      /\ \A k \in 1 .. n : st[k] \in Byte /\ st[k].poll \in Nat /\ st[k].byte \in 1 .. MSG_LEN
  BY ByteFacts
<1>2. /\ new \in Seq(Byte)
      /\ Len(new) = n + MSG_LEN
      /\ \A k \in 1 .. n : new[k] = st[k]
  BY AnswerFacts, JoinFacts
<1>3. ASSUME NEW k \in 1 .. n + MSG_LEN, k > n
      PROVE  new[k] = [poll |-> p, byte |-> k - n]
  <2>1. k - n \in 1 .. MSG_LEN
    BY <1>1, <1>3
  <2>2. new[n + (k - n)] = Answer(p)[k - n]
    BY <2>1, AnswerFacts, JoinFacts
  <2>3. n + (k - n) = k
    BY <1>1
  <2>. QED
    BY <2>1, <2>2, <2>3, AnswerFacts
<1>4. ASSUME NEW k \in 1 .. n + MSG_LEN, k > n
      PROVE  new[k].poll = p /\ new[k].byte = k - n
  <2>1. new[k] = [poll |-> p, byte |-> k - n]
    BY <1>3, <1>4
  <2>. HIDE DEF new
  <2>. QED
    BY <2>1
<1>. HIDE DEF new
<1>5. ASSUME NEW k \in 1 .. Len(new)
      PROVE  /\ 0 <= k - new[k].byte
             /\ k - new[k].byte + MSG_LEN <= Len(new)
             /\ \A c \in 1 .. MSG_LEN :
                  new[k - new[k].byte + c] = [poll |-> new[k].poll, byte |-> c]
  <2>1. CASE k <= n
    <3>1. k \in 1 .. n /\ new[k] = st[k]
      BY <2>1, <1>1, <1>2
    <3>2. /\ 0 <= k - st[k].byte
          /\ k - st[k].byte + MSG_LEN <= n
          /\ \A c \in 1 .. MSG_LEN :
               st[k - st[k].byte + c] = [poll |-> st[k].poll, byte |-> c]
      BY <3>1 DEF Framed
    <3>. DEFINE b == st[k].byte
    <3>3. b \in 1 .. MSG_LEN /\ 0 <= k - b /\ k - b + MSG_LEN <= n
      BY <3>1, <3>2, <1>1
    <3>4. /\ \A c \in 1 .. MSG_LEN : st[k - b + c] = [poll |-> st[k].poll, byte |-> c]
          /\ new[k].byte = b /\ new[k].poll = st[k].poll
      BY <3>1, <3>2
    <3>. HIDE DEF b, n
    <3>5. \A c \in 1 .. MSG_LEN : k - b + c \in 1 .. n
      BY <3>1, <3>3, <1>1
    <3>6. \A c \in 1 .. MSG_LEN : new[k - b + c] = st[k - b + c]
      BY <3>5, <1>2
    <3>7. 0 <= k - b /\ k - b + MSG_LEN <= n + MSG_LEN
      BY <3>1, <3>3, <1>1
    <3>. QED
      BY <3>4, <3>6, <3>7, <1>2
  <2>2. CASE k > n
    <3>1. new[k].poll = p /\ new[k].byte = k - n /\ k - new[k].byte = n
      BY <2>2, <1>1, <1>2, <1>4
    <3>2. ASSUME NEW c \in 1 .. MSG_LEN
          PROVE  new[n + c] = [poll |-> p, byte |-> c]
      <4>1. n + c \in 1 .. n + MSG_LEN /\ n + c > n /\ n + c - n = c
        BY <1>1
      <4>. QED
        BY <4>1, <1>3
    <3>. QED
      BY <3>1, <3>2, <1>1, <1>2
  <2>. QED
    BY <2>1, <2>2, <1>1, <1>2
<1>6. ASSUME NEW j \in 1 .. Len(new), NEW k \in 1 .. Len(new), j < k
      PROVE  new[j].poll < new[k].poll \/ j - new[j].byte = k - new[k].byte
  <2>1. CASE k <= n
    <3>1. j \in 1 .. n /\ k \in 1 .. n
      BY <2>1, <1>1, <1>2, <1>6
    <3>. QED
      BY <3>1, <1>2, <1>6 DEF Framed
  <2>2. CASE k > n /\ j <= n
    <3>1. j \in 1 .. n /\ new[k].poll = p
      BY <2>2, <1>1, <1>2, <1>4
    <3>. QED
      BY <3>1, <1>2
  <2>3. CASE k > n /\ j > n
    BY <2>3, <1>1, <1>2, <1>4
  <2>. QED
    BY <2>1, <2>2, <2>3, <1>1, <1>2
<1>7. Framed(new)
  BY <1>5, <1>6 DEF Framed
<1>. QED
  BY <1>2, <1>3, <1>7 DEF new

\* The first answer of a stream, and what follows it.
LEMMA FramedTail ==
  ASSUME NEW st \in Seq(Byte), NEW r \in Seq(Byte), NEW n \in Nat, Framed(st),
         n = Len(r), Len(st) = MSG_LEN + n,
         \A k \in 1 .. n : st[MSG_LEN + k] = r[k]
  PROVE  /\ \A c \in 1 .. MSG_LEN : st[c] = [poll |-> st[1].poll, byte |-> c]
         /\ Framed(r)
         /\ \A k \in 1 .. n : st[1].poll < r[k].poll
<1>1. /\ MSG_LEN \in Nat /\ MSG_LEN > 0
      /\ \A k \in 1 .. MSG_LEN + n : st[k].poll \in Nat /\ st[k].byte \in 1 .. MSG_LEN
  BY ByteFacts
<1>2. 1 \in 1 .. MSG_LEN + n /\ 1 \in 1 .. MSG_LEN
  BY <1>1
<1>3. /\ \A k \in 1 .. MSG_LEN + n :
           /\ 0 <= k - st[k].byte
           /\ k - st[k].byte + MSG_LEN <= MSG_LEN + n
           /\ \A c \in 1 .. MSG_LEN :
                st[k - st[k].byte + c] = [poll |-> st[k].poll, byte |-> c]
      /\ \A j, k \in 1 .. MSG_LEN + n :
           j < k => \/ st[j].poll < st[k].poll
                    \/ j - st[j].byte = k - st[k].byte
  BY DEF Framed
<1>4. st[1].byte = 1
  BY <1>1, <1>2, <1>3
<1>5. \A c \in 1 .. MSG_LEN : st[c] = [poll |-> st[1].poll, byte |-> c]
  <2>1. \A c \in 1 .. MSG_LEN : st[1 - st[1].byte + c] = [poll |-> st[1].poll, byte |-> c]
    BY <1>2, <1>3
  <2>2. \A c \in 1 .. MSG_LEN : 1 - st[1].byte + c = c
    BY <1>1, <1>4
  <2>. QED
    BY <2>1, <2>2
<1>6. ASSUME NEW k \in 1 .. n
      PROVE  \E m \in 1 .. MSG_LEN + n :
               /\ m = MSG_LEN + k
               /\ st[m] = r[k]
               /\ r[k].poll \in Nat /\ r[k].byte \in 1 .. MSG_LEN
  <2>1. MSG_LEN + k \in 1 .. MSG_LEN + n
    BY <1>1
  <2>. QED
    BY <2>1, <1>1
<1>7. ASSUME NEW k \in 1 .. n
      PROVE  /\ 0 <= k - r[k].byte
             /\ k - r[k].byte + MSG_LEN <= n
             /\ \A c \in 1 .. MSG_LEN :
                  r[k - r[k].byte + c] = [poll |-> r[k].poll, byte |-> c]
  <2>. DEFINE b == r[k].byte
  <2>0. PICK m \in 1 .. MSG_LEN + n : m = MSG_LEN + k /\ st[m] = r[k] /\ b \in 1 .. MSG_LEN
    BY <1>6
  <2>1. b \in 1 .. MSG_LEN
    BY <2>0
  <2>2. /\ 0 <= m - b
        /\ m - b + MSG_LEN <= MSG_LEN + n
        /\ \A c \in 1 .. MSG_LEN : st[m - b + c] = [poll |-> r[k].poll, byte |-> c]
    BY <2>0, <1>3
  <2>. HIDE DEF b
  <2>3. st[m - b + 1].byte = 1
    <3>1. st[m - b + 1] = [poll |-> r[k].poll, byte |-> 1]
      BY <2>2, <1>2
    <3>. QED
      BY <3>1
  <2>4. ~(k - b < 0)
    <3>1. SUFFICES ASSUME k - b < 0 PROVE FALSE
      OBVIOUS
    <3>2. m - b + 1 \in 1 .. MSG_LEN /\ m - b + 1 # 1
      BY <3>1, <2>0, <2>1, <1>1
    <3>3. st[m - b + 1] = [poll |-> st[1].poll, byte |-> m - b + 1]
      BY <3>2, <1>5
    <3>4. st[m - b + 1].byte = m - b + 1
      BY <3>3
    <3>. QED
      BY <3>2, <3>4, <2>3
  <2>5. ASSUME NEW c \in 1 .. MSG_LEN
        PROVE  r[k - b + c] = [poll |-> r[k].poll, byte |-> c]
    <3>1. k - b + c \in 1 .. n /\ MSG_LEN + (k - b + c) = m - b + c
      BY <2>0, <2>1, <2>2, <2>4, <1>1
    <3>2. r[k - b + c] = st[m - b + c]
      BY <3>1
    <3>. QED
      BY <3>2, <2>2
  <2>6. 0 <= k - b /\ k - b + MSG_LEN <= n
    BY <2>0, <2>1, <2>2, <2>4, <1>1
  <2>. QED
    BY <2>5, <2>6 DEF b
<1>8. ASSUME NEW j \in 1 .. n, NEW k \in 1 .. n, j < k
      PROVE  r[j].poll < r[k].poll \/ j - r[j].byte = k - r[k].byte
  <2>1. PICK m \in 1 .. MSG_LEN + n : /\ m = MSG_LEN + j /\ st[m] = r[j]
                                      /\ r[j].byte \in 1 .. MSG_LEN
    BY <1>6
  <2>2. PICK l \in 1 .. MSG_LEN + n : /\ l = MSG_LEN + k /\ st[l] = r[k]
                                      /\ r[k].byte \in 1 .. MSG_LEN
    BY <1>6
  <2>3. m < l
    BY <2>1, <2>2, <1>1, <1>8
  <2>4. r[j].poll < r[k].poll \/ m - r[j].byte = l - r[k].byte
    BY <2>1, <2>2, <2>3, <1>3
  <2>. DEFINE b == r[j].byte
              d == r[k].byte
  <2>5. b \in Int /\ d \in Int /\ MSG_LEN \in Int /\ m = MSG_LEN + j /\ l = MSG_LEN + k
    BY <2>1, <2>2, <1>1
  <2>6. m - b = l - d => j - b = k - d
    <3>. HIDE DEF b, d
    <3>. QED
      BY <2>5
  <2>. QED
    BY <2>4, <2>6
<1>9. Framed(r)
  BY <1>7, <1>8 DEF Framed
<1>10. ASSUME NEW k \in 1 .. n
       PROVE  st[1].poll < r[k].poll
  <2>1. PICK m \in 1 .. MSG_LEN + n : /\ m = MSG_LEN + k /\ st[m] = r[k]
                                      /\ r[k].byte \in 1 .. MSG_LEN
    BY <1>6
  <2>2. 1 < m
    BY <2>1, <1>1
  <2>3. st[1].poll < r[k].poll \/ 1 - 1 = m - r[k].byte
    BY <2>1, <2>2, <1>2, <1>3, <1>4
  <2>4. m - r[k].byte # 0
    BY <2>1, <1>1
  <2>. QED
    BY <2>3, <2>4
<1>. QED
  BY <1>5, <1>9, <1>10

\* Whoever has read the length of an answer from the head of a stream has read
\* an answer, and what is left of the stream is framed and answers later polls.
LEMMA FramedHead ==
  ASSUME NEW f \in Seq(Byte), NEW r \in Seq(Byte), Len(f) = MSG_LEN, Framed(f \o r)
  PROVE  /\ f = Answer(f[1].poll)
         /\ Framed(r)
         /\ \A k \in 1 .. Len(r) : f[1].poll < r[k].poll
         /\ f[1].poll \in Nat
<1>1. /\ f \o r \in Seq(Byte) /\ Len(f \o r) = MSG_LEN + Len(r)
      /\ \A k \in 1 .. MSG_LEN : (f \o r)[k] = f[k]
      /\ \A k \in 1 .. Len(r) : (f \o r)[MSG_LEN + k] = r[k]
  BY JoinFacts
<1>2. Len(r) \in Nat /\ 1 \in 1 .. MSG_LEN /\ (f \o r)[1] = f[1] /\ f[1].poll \in Nat
  BY <1>1, ByteFacts
<1>3. /\ \A c \in 1 .. MSG_LEN : (f \o r)[c] = [poll |-> (f \o r)[1].poll, byte |-> c]
      /\ Framed(r)
      /\ \A k \in 1 .. Len(r) : (f \o r)[1].poll < r[k].poll
  BY <1>1, <1>2, FramedTail
<1>4. \A c \in 1 .. MSG_LEN : f[c] = [poll |-> f[1].poll, byte |-> c]
  BY <1>1, <1>2, <1>3
<1>5. f \in [1 .. MSG_LEN -> Byte]
  BY ByteFacts
<1>6. f = Answer(f[1].poll)
  BY <1>4, <1>5 DEF Answer
<1>. QED
  BY <1>2, <1>3, <1>6

\* Concatenation under a name the provers do not rewrite.
Join(a, b) == a \o b

LEMMA Reassociate ==
  ASSUME NEW h \in Seq(Byte), NEW a \in Seq(Byte), NEW b \in Seq(Byte), NEW w \in Seq(Byte)
  PROVE  Join(Join(h, a), Join(b, w)) = Join(h, Join(Join(a, b), w))
<1>1. b \o w \in Seq(Byte)
  BY ConcatProperties
<1>2. (h \o a) \o (b \o w) = h \o (a \o (b \o w))
  BY <1>1, ConcatAssociative, SMTT(60)
<1>3. a \o (b \o w) = (a \o b) \o w
  BY ConcatAssociative
<1>. QED
  BY <1>2, <1>3 DEF Join

\* Reading moves bytes from the driver to what the instance holds, ...
LEMMA ReadMoves ==
  ASSUME NEW h \in Seq(Byte), NEW t \in Seq(Byte), NEW w \in Seq(Byte), NEW n \in 1 .. Len(t)
  PROVE  /\ h \o SubSeq(t, 1, n) \in Seq(Byte)
         /\ SubSeq(t, n + 1, Len(t)) \in Seq(Byte)
         /\ (h \o SubSeq(t, 1, n)) \o (SubSeq(t, n + 1, Len(t)) \o w) = h \o (t \o w)
<1>1. Len(t) \in Nat
  OBVIOUS
<1>2. PICK a \in Seq(Byte), b \in Seq(Byte) :
        a = SubSeq(t, 1, n) /\ b = SubSeq(t, n + 1, Len(t))
  <2>1. SubSeq(t, 1, n) \in Seq(Byte) /\ SubSeq(t, n + 1, Len(t)) \in Seq(Byte)
    OBVIOUS
  <2>. QED
    BY <2>1, Zenon
<1>3. a \o b = t
  <2>1. 1 \in 1 .. Len(t) + 1 /\ n \in (1 - 1) .. Len(t) /\ Len(t) \in n .. Len(t)
    BY <1>1
  <2>2. a \o b = SubSeq(t, 1, Len(t))
    BY <2>1, <1>2, ConcatAdjacentSubSeq
  <2>. QED
    BY <2>2, SubSeqFull
<1>4. h \o a \in Seq(Byte)
  BY ConcatProperties
<1>5. Join(Join(h, a), Join(b, w)) = Join(h, Join(Join(a, b), w))
  BY Reassociate
<1>. QED
  BY <1>2, <1>3, <1>4, <1>5 DEF Join

\* ... a byte that arrives moves from the sensor to the driver, ...
LEMMA ArriveMoves ==
  ASSUME NEW t \in Seq(Byte), NEW w \in Seq(Byte), w # <<>>
  PROVE  /\ Append(t, Head(w)) \in Seq(Byte)
         /\ Tail(w) \in Seq(Byte)
         /\ Append(t, Head(w)) \o Tail(w) = t \o w
<1>1. Head(w) \in Byte /\ Tail(w) \in Seq(Byte) /\ <<Head(w)>> \in Seq(Byte)
  BY HeadTailProperties
<1>2. Append(t, Head(w)) = t \o <<Head(w)>>
  BY <1>1, AppendIsConcat
<1>3. <<Head(w)>> \o Tail(w) = w
  <2>1. /\ Len(w) \in Nat /\ Len(w) > 0 /\ 1 \in 1 .. Len(w) /\ Len(w) \in 1 .. Len(w)
        /\ Head(w) = w[1] /\ Tail(w) = SubSeq(w, 2, Len(w))
    BY TailIsSubSeq
  <2>2. SubSeq(w, 1, Len(w)) = <<w[1]>> \o SubSeq(w, 1 + 1, Len(w))
    BY <2>1, SubSeqRecursiveFirst
  <2>3. 1 + 1 = 2
    OBVIOUS
  <2>. QED
    BY <2>1, <2>2, <2>3, SubSeqFull
<1>4. (t \o <<Head(w)>>) \o Tail(w) = t \o (<<Head(w)>> \o Tail(w))
  BY <1>1, ConcatAssociative
<1>5. Append(t, Head(w)) \in Seq(Byte)
  BY <1>1, AppendProperties
<1>. QED
  BY <1>1, <1>2, <1>3, <1>4, <1>5

\* ... and an answer is added at the end of the stream.
LEMMA AnswerAdds ==
  ASSUME NEW h \in Seq(Byte), NEW t \in Seq(Byte), NEW w \in Seq(Byte), NEW a \in Seq(Byte)
  PROVE  /\ w \o a \in Seq(Byte)
         /\ Join(h, Join(t, Join(w, a))) = Join(Join(h, Join(t, w)), a)
<1>1. w \o a \in Seq(Byte) /\ t \o w \in Seq(Byte)
  BY ConcatProperties
<1>2. t \o (w \o a) = (t \o w) \o a
  BY ConcatAssociative
<1>3. h \o ((t \o w) \o a) = (h \o (t \o w)) \o a
  BY <1>1, ConcatAssociative, SMTT(60)
<1>. QED
  BY <1>1, <1>2, <1>3 DEF Join

LEMMA StreamType ==
  ASSUME Types, NEW i \in Instances, NEW s \in Sensors
  PROVE  /\ tty[s] \in Seq(Byte) /\ wire[s] \in Seq(Byte) /\ rcv_buf[i] \in Seq(Byte)
         /\ Held(i, s) \in Seq(Byte)
         /\ tty[s] \o wire[s] \in Seq(Byte)
         /\ Stream(i, s) \in Seq(Byte)
         /\ polls[s] \in Nat /\ late[s] \in Nat /\ published[s] \in Seq(Nat)
         /\ sensor[i] \in Sensors
<1>1. /\ tty[s] \in Seq(Byte) /\ wire[s] \in Seq(Byte) /\ rcv_buf[i] \in Seq(Byte)
      /\ polls[s] \in Nat /\ late[s] \in Nat /\ published[s] \in Seq(Nat)
      /\ sensor[i] \in Sensors
  BY DEF Types
<1>2. Held(i, s) \in Seq(Byte)
  BY <1>1 DEF Held
<1>. QED
  BY <1>1, <1>2, ConcatProperties DEF Stream

LEMMA EmptyLine ==
  ASSUME NEW low, NEW high, NEW done
  PROVE  Framed(<<>>) /\ Recent(<<>>, low, high) /\ Fresh(<<>>, done)
BY DEF Framed, Recent, Fresh

----------------------------------------------------------------------------
(* The invariant is kept.                                                  *)

LEMMA GInit == Init => GInv
<1>. SUFFICES ASSUME Init PROVE GInv
  OBVIOUS
<1>1. Types
  BY DEF Init, Types, PCs, Sensors
<1>. QED
  BY <1>1 DEF Init, GInv, Buffers, OneAtATime, Lines, Publications, Ordered

LEMMA BeginKeeps ==
  ASSUME GInv, NEW i \in Instances, pc[i] = "off", Begin(i), UNCHANGED <<wire, polls, late, published>>
  PROVE  GInv'
<1>1. Types'
  <2>1. pc' \in [Instances -> PCs] /\ sensor' \in [Instances -> Sensors]
    BY DEF GInv, Types, Begin, PCs, Sensors
  <2>2. rcv_buf' \in [Instances -> Seq(Byte)] /\ tty' \in [Sensors -> Seq(Byte)]
    BY DEF GInv, Types, Begin, UART_Init
  <2>3. disturbed' \subseteq Sensors
    BY DEF GInv, Types, Begin
  <2>. QED
    BY <2>1, <2>2, <2>3 DEF GInv, Types, Begin
<1>2. Buffers'
  BY DEF GInv, Types, Buffers, Begin
<1>3. CASE Running # {}
  <2>1. disturbed' = Sensors
    BY <1>3 DEF Begin
  <2>. QED
    BY <1>1, <1>2, <2>1 DEF GInv, OneAtATime, Lines, Publications
<1>4. CASE Running = {}
  <2>1. \A j \in Instances : pc'[j] # "off" => j = i /\ pc'[i] = "send"
    BY <1>4 DEF Begin, Running, GInv, Types
  <2>2. OneAtATime'
    BY <2>1 DEF OneAtATime
  <2>3. Publications'
    BY <1>4 DEF GInv, Publications, Begin
  <2>4. ASSUME NEW s \in Sensors, s \notin disturbed'
        PROVE  InLine(i, s)'
    <3>1. wire'[s] = <<>> /\ tty'[s] = <<>> /\ rcv_buf'[i] = <<>>
      BY <1>4, <2>4 DEF Begin, UART_Init, GInv, Types
    <3>2. Stream(i, s)' = <<>>
      BY <3>1 DEF Stream, Held
    <3>. QED
      BY <3>2, EmptyLine DEF InLine
  <2>. QED
    BY <1>1, <1>2, <2>1, <2>2, <2>3, <2>4 DEF GInv, Lines
<1>. QED
  BY <1>3, <1>4

\* Of the instances that run, only one can be in line with an undisturbed sensor.
LEMMA TheOne ==
  ASSUME GInv, NEW i \in Instances, pc[i] # "off",
         NEW j \in Instances, pc[j] # "off", NEW s \in Sensors, s \notin disturbed
  PROVE  j = i
BY DEF GInv, OneAtATime

LEMMA CommandKeeps ==
  ASSUME GInv, NEW i \in Instances, Command(i)
  PROVE  GInv'
<1>. DEFINE z == sensor[i]
<1>0. /\ z \in Sensors /\ Types /\ pc[i] = "send" /\ polls[z] \in Nat /\ wire[z] \in Seq(Byte)
      /\ polls' = [polls EXCEPT ![z] = @ + 1]
      /\ pc' = [pc EXCEPT ![i] = "select"]
      /\ sensor' = sensor /\ rcv_buf' = rcv_buf /\ tty' = tty /\ late' = late
      /\ disturbed' = disturbed /\ published' = published
  BY DEF GInv, Types, Command
<1>1. polls'[z] = polls[z] + 1 /\ polls' \in [Sensors -> Nat]
  BY <1>0 DEF Types
<1>2. \/ wire' = wire
      \/ wire' = [wire EXCEPT ![z] = wire[z] \o Answer(polls[z] + 1)]
  BY <1>1 DEF Command
<1>3. Answer(polls[z] + 1) \in Seq(Byte)
  BY <1>0, AnswerFacts
<1>4. wire[z] \o Answer(polls[z] + 1) \in Seq(Byte)
  BY <1>0, <1>3, AnswerAdds
<1>5. Types'
  <2>1. pc' \in [Instances -> PCs]
    BY <1>0 DEF Types, PCs
  <2>2. wire' \in [Sensors -> Seq(Byte)]
    BY <1>0, <1>2, <1>4 DEF Types
  <2>. QED
    BY <1>0, <1>1, <2>1, <2>2 DEF Types
<1>6. Buffers'
  BY <1>0 DEF GInv, Types, Buffers
<1>7. OneAtATime'
  BY <1>0 DEF GInv, Types, OneAtATime
<1>8. Publications'
  <2>. SUFFICES ASSUME NEW s \in Sensors, s \notin disturbed
                PROVE  Ordered(published[s], polls'[s])
    BY <1>0 DEF Publications
  <2>1. Ordered(published[s], polls[s])
    BY DEF GInv, Publications
  <2>2. polls[s] \in Nat /\ polls'[s] \in Nat /\ polls[s] <= polls'[s]
    BY <1>0, <1>1 DEF Types
  <2>3. \A j \in 1 .. Len(published[s]) : published[s][j] \in Nat
    BY <1>0, ElementOfSeq DEF Types
  <2>. QED
    BY <2>1, <2>2, <2>3 DEF Ordered
<1>9. ASSUME NEW j \in Instances, NEW s \in Sensors, pc'[j] # "off", s \notin disturbed
      PROVE  InLine(j, s)'
  <2>1. j = i /\ pc[i] # "off"
    BY <1>0, <1>9, TheOne DEF Types
  <2>2. InLine(i, s) /\ ~Busy(i, s) /\ Oldest(i, s) = polls[s] - late[s] + 1
    BY <1>0, <1>9, <2>1 DEF GInv, Lines, Busy, Oldest
  <2>3. Held(i, s)' = Held(i, s)
    BY <1>0 DEF Held
  <2>4. /\ tty[s] \in Seq(Byte) /\ wire[s] \in Seq(Byte) /\ Held(i, s) \in Seq(Byte)
        /\ Stream(i, s) \in Seq(Byte)
        /\ polls[s] \in Nat /\ late[s] \in Nat /\ published[s] \in Seq(Nat)
    BY <1>0, StreamType
  <2>5. CASE wire'[s] = wire[s] /\ s # z
    <3>1. Stream(i, s)' = Stream(i, s) /\ polls'[s] = polls[s] /\ ~Busy(i, s)'
      BY <1>0, <2>3, <2>5 DEF Stream, Busy, Types
    <3>. QED
      BY <2>1, <2>2, <3>1, <1>0 DEF InLine, Oldest
  <2>6. CASE wire'[s] = wire[s] /\ s = z
    <3>1. Stream(i, s)' = Stream(i, s) /\ Busy(i, s)' /\ polls'[s] = polls[s] + 1
      BY <1>0, <1>1, <2>3, <2>6 DEF Stream, Busy, Types
    <3>2. Recent(Stream(i, s), (polls[s] + 1) - late[s], polls[s] + 1)
      <4>1. \A k \in 1 .. Len(Stream(i, s)) : Stream(i, s)[k].poll \in Nat
        BY <2>4, ByteFacts
      <4>. QED
        BY <2>2, <2>4, <4>1 DEF InLine, Recent
    <3>3. Oldest(i, s)' = (polls[s] + 1) - late[s]
      <4>1. Oldest(i, s)' = polls'[s] - late'[s]
        BY <3>1 DEF Oldest
      <4>2. polls'[s] = polls[s] + 1 /\ late'[s] = late[s]
        BY <3>1, <1>0
      <4>. QED
        BY <4>1, <4>2, <2>4
    <3>. QED
      BY <2>1, <2>2, <3>1, <3>2, <3>3, <1>0 DEF InLine
  <2>7. CASE s = z /\ wire'[s] = wire[s] \o Answer(polls[s] + 1)
    <3>. DEFINE st == Stream(i, s)
                p == polls[s] + 1
    <3>1. Stream(i, s)' = st \o Answer(p) /\ Busy(i, s)' /\ polls'[s] = p
      <4>1. Stream(i, s)' = Held(i, s) \o (tty[s] \o (wire[s] \o Answer(p)))
        BY <1>0, <2>3, <2>7 DEF Stream
      <4>2. Stream(i, s)' = st \o Answer(p)
        <5>1. Answer(p) \in Seq(Byte)
          BY <1>3, <2>7
        <5>2. Join(Held(i, s), Join(tty[s], Join(wire[s], Answer(p)))) =
                Join(Join(Held(i, s), Join(tty[s], wire[s])), Answer(p))
          BY <5>1, <2>4, AnswerAdds
        <5>. QED
          BY <4>1, <5>2 DEF Stream, Join
      <4>3. Busy(i, s)' /\ polls'[s] = p
        BY <1>0, <1>1, <2>7 DEF Busy, Types
      <4>. QED
        BY <4>2, <4>3
    <3>2. Oldest(i, s)' = p - late[s]
      BY <1>0, <3>1 DEF Oldest
    <3>3. /\ Len(st) \in Nat
          /\ \A k \in 1 .. Len(st) : /\ st[k].poll \in Nat
                                     /\ polls[s] - late[s] + 1 <= st[k].poll
                                     /\ st[k].poll <= polls[s]
      BY <2>2, <2>4, ByteFacts DEF InLine, Recent
    <3>4. p \in Nat /\ \A k \in 1 .. Len(st) : st[k].poll < p
      BY <2>4, <3>3
    <3>5. Framed(st) /\ Fresh(st, published[s]) /\ st \in Seq(Byte)
      BY <2>2, <2>4 DEF InLine
    <3>6. Ordered(published[s], polls[s])
      BY <1>9 DEF GInv, Publications
    <3>. HIDE DEF st
    <3>7. /\ Len(st \o Answer(p)) = Len(st) + MSG_LEN
          /\ \A k \in 1 .. Len(st) : (st \o Answer(p))[k] = st[k]
          /\ \A k \in 1 .. Len(st) + MSG_LEN : k > Len(st) =>
               (st \o Answer(p))[k] = [poll |-> p, byte |-> k - Len(st)]
          /\ Framed(st \o Answer(p))
      BY <3>4, <3>5, FramedAppend
    <3>. DEFINE new == st \o Answer(p)
    <3>8. ASSUME NEW k \in 1 .. Len(st) + MSG_LEN
          PROVE  \/ k \in 1 .. Len(st) /\ new[k] = st[k]
                 \/ new[k].poll = p
      <4>1. CASE k <= Len(st)
        BY <4>1, <3>3, <3>7
      <4>2. CASE k > Len(st)
        <5>1. new[k] = [poll |-> p, byte |-> k - Len(st)]
          BY <4>2, <3>7
        <5>. HIDE DEF new
        <5>. QED
          BY <5>1
      <4>3. k <= Len(st) \/ k > Len(st)
        BY <3>3, GatewayAssumption
      <4>. QED
        BY <4>1, <4>2, <4>3
    <3>9. Len(new) = Len(st) + MSG_LEN /\ Framed(new) /\ Stream(i, s)' = new
      BY <3>1, <3>7
    <3>. HIDE DEF new
    <3>10. Recent(new, p - late[s], p)
      <4>. SUFFICES ASSUME NEW k \in 1 .. Len(st) + MSG_LEN
                    PROVE  p - late[s] <= new[k].poll /\ new[k].poll <= p
        BY <3>9 DEF Recent
      <4>1. CASE new[k].poll = p
        BY <4>1, <2>4, <3>4
      <4>2. CASE k \in 1 .. Len(st) /\ new[k] = st[k]
        BY <4>2, <3>3, <2>4
      <4>. QED
        BY <4>1, <4>2, <3>8
    <3>11. Fresh(new, published[s])
      <4>. SUFFICES ASSUME NEW k \in 1 .. Len(st) + MSG_LEN, NEW l \in 1 .. Len(published[s])
                    PROVE  published[s][l] < new[k].poll
        BY <3>9 DEF Fresh
      <4>1. published[s][l] \in Nat /\ published[s][l] <= polls[s]
        BY <2>4, <3>6, ElementOfSeq DEF Ordered
      <4>2. CASE new[k].poll = p
        BY <4>1, <4>2, <2>4, SMTT(60)
      <4>3. CASE k \in 1 .. Len(st) /\ new[k] = st[k]
        BY <4>3, <3>5 DEF Fresh
      <4>. QED
        BY <4>2, <4>3, <3>8
    <3>. QED
      BY <2>1, <3>1, <3>2, <3>9, <3>10, <3>11, <1>0 DEF InLine
  <2>8. \/ wire'[s] = wire[s]
        \/ s = z /\ wire'[s] = wire[s] \o Answer(polls[s] + 1)
    BY <1>0, <1>2 DEF Types
  <2>. QED
    BY <2>5, <2>6, <2>7, <2>8
<1>10. Lines'
  BY <1>0, <1>9 DEF Lines
<1>. QED
  BY <1>5, <1>6, <1>7, <1>8, <1>10 DEF GInv

LEMMA SelectedKeeps ==
  ASSUME GInv, NEW i \in Instances, Selected(i)
  PROVE  GInv'
<1>0. /\ Types /\ pc[i] = "select" /\ pc' = [pc EXCEPT ![i] = "read"]
      /\ UNCHANGED <<sensor, rcv_buf, tty, wire, polls, late, disturbed, published>>
  BY DEF GInv, Selected
<1>1. Types'
  BY <1>0 DEF Types, PCs
<1>2. Buffers' /\ OneAtATime'
  BY <1>0 DEF GInv, Types, Buffers, OneAtATime
<1>3. Publications'
  BY <1>0 DEF GInv, Publications
<1>4. ASSUME NEW j \in Instances, NEW s \in Sensors, pc'[j] # "off", s \notin disturbed
      PROVE  InLine(j, s)'
  <2>1. pc[j] # "off" /\ (Busy(j, s)' <=> Busy(j, s))
    BY <1>0, <1>4 DEF Types, Busy
  <2>2. InLine(j, s) /\ Stream(j, s)' = Stream(j, s) /\ Oldest(j, s)' = Oldest(j, s)
    BY <2>1, <1>0, <1>4 DEF GInv, Lines, Stream, Held, Oldest
  <2>. QED
    BY <2>2, <1>0 DEF InLine
<1>5. Lines'
  BY <1>0, <1>4 DEF Lines
<1>. QED
  BY <1>1, <1>2, <1>3, <1>5 DEF GInv

LEMMA TimedOutKeeps ==
  ASSUME GInv, NEW i \in Instances, TimedOut(i)
  PROVE  GInv'
<1>. DEFINE z == sensor[i]
<1>0. /\ Types /\ pc[i] = "select" /\ pc' = [pc EXCEPT ![i] = "send"]
      /\ sensor' = [sensor EXCEPT ![i] = IF @ = 1 THEN 2 ELSE 1]
      /\ rcv_buf' = [rcv_buf EXCEPT ![i] = <<>>]
      /\ late' = [late EXCEPT ![z] = @ + 1]
      /\ UNCHANGED <<tty, wire, polls, disturbed, published>>
  BY DEF GInv, TimedOut, Advance
<1>1. Types'
  <2>1. pc' \in [Instances -> PCs] /\ sensor' \in [Instances -> Sensors]
    BY <1>0 DEF Types, PCs, Sensors
  <2>2. rcv_buf' \in [Instances -> Seq(Byte)]
    BY <1>0 DEF Types
  <2>3. late' \in [Sensors -> Nat]
    BY <1>0 DEF Types
  <2>. QED
    BY <1>0, <2>1, <2>2, <2>3 DEF Types
<1>2. Buffers' /\ OneAtATime'
  BY <1>0 DEF GInv, Types, Buffers, OneAtATime
<1>3. Publications'
  BY <1>0 DEF GInv, Publications
<1>4. ASSUME NEW j \in Instances, NEW s \in Sensors, pc'[j] # "off", s \notin disturbed
      PROVE  InLine(j, s)'
  <2>1. j = i /\ pc[i] # "off"
    BY <1>0, <1>4, TheOne DEF Types
  <2>2. InLine(i, s)
    BY <1>0, <1>4, <2>1 DEF GInv, Lines
  <2>3. Stream(i, s)' = Stream(i, s)
    <3>1. rcv_buf[i] = <<>> /\ rcv_buf'[i] = <<>>
      BY <1>0 DEF GInv, Types, Buffers
    <3>2. Held(i, s) = <<>> /\ Held(i, s)' = <<>>
      BY <3>1 DEF Held
    <3>. QED
      BY <3>2, <1>0 DEF Stream
  <2>4. /\ Stream(i, s) \in Seq(Byte) /\ polls[s] \in Nat /\ late[s] \in Nat
        /\ polls'[s] = polls[s]
    BY <1>0, StreamType
  <2>5. Oldest(i, s)' = polls[s] - late'[s] + 1
    BY <1>0 DEF Types, Busy, Oldest
  <2>6. polls[s] - late'[s] + 1 \in Int /\ Oldest(i, s) \in Int
        /\ polls[s] - late'[s] + 1 <= Oldest(i, s)
    <3>1. CASE s = z
      <4>1. Busy(i, s) /\ late'[s] = late[s] + 1
        BY <3>1, <1>0 DEF Types, Busy
      <4>2. Oldest(i, s) = polls[s] - late[s]
        BY <4>1 DEF Oldest
      <4>. QED
        BY <4>1, <4>2, <2>4
    <3>2. CASE s # z
      <4>1. ~Busy(i, s) /\ late'[s] = late[s]
        BY <3>2, <1>0 DEF Types, Busy
      <4>2. Oldest(i, s) = polls[s] - late[s] + 1
        BY <4>1 DEF Oldest
      <4>. QED
        BY <4>1, <4>2, <2>4
    <3>. QED
      BY <3>1, <3>2
  <2>7. Recent(Stream(i, s), Oldest(i, s)', polls[s])
    <3>1. \A k \in 1 .. Len(Stream(i, s)) : Stream(i, s)[k].poll \in Nat
      BY <2>4, ByteFacts
    <3>2. Recent(Stream(i, s), Oldest(i, s), polls[s])
      BY <2>2 DEF InLine
    <3>. QED
      BY <2>5, <2>6, <3>1, <3>2 DEF Recent
  <2>. QED
    BY <2>1, <2>2, <2>3, <2>4, <2>7, <1>0 DEF InLine
<1>5. Lines'
  BY <1>0, <1>4 DEF Lines
<1>. QED
  BY <1>1, <1>2, <1>3, <1>5 DEF GInv

LEMMA ReadKeeps ==
  ASSUME GInv, NEW i \in Instances, Read(i)
  PROVE  GInv'
<1>. DEFINE z == sensor[i]
<1>0. /\ Types /\ pc[i] = "read" /\ z \in Sensors
      /\ rcv_buf[i] \in Seq(Byte) /\ tty[z] \in Seq(Byte) /\ wire[z] \in Seq(Byte)
      /\ pc' = [pc EXCEPT ![i] = IF Len(rcv_buf'[i]) = MSG_LEN THEN "check" ELSE @]
      /\ UNCHANGED <<sensor, wire, polls, late, disturbed, published>>
  BY DEF GInv, Types, Read
<1>1. PICK n \in 1 .. MSG_LEN - Len(rcv_buf[i]) :
        /\ n <= Len(tty[z])
        /\ rcv_buf' = [rcv_buf EXCEPT ![i] = @ \o SubSeq(tty[z], 1, n)]
        /\ tty' = [tty EXCEPT ![z] = SubSeq(@, n + 1, Len(@))]
  BY DEF Read
<1>2. n \in 1 .. Len(tty[z])
  BY <1>0, <1>1, GatewayAssumption
<1>3. /\ rcv_buf[i] \o SubSeq(tty[z], 1, n) \in Seq(Byte)
      /\ SubSeq(tty[z], n + 1, Len(tty[z])) \in Seq(Byte)
      /\ (rcv_buf[i] \o SubSeq(tty[z], 1, n)) \o (SubSeq(tty[z], n + 1, Len(tty[z])) \o wire[z])
           = rcv_buf[i] \o (tty[z] \o wire[z])
  BY <1>0, <1>2, ReadMoves, ZenonT(60)
<1>4. Types'
  <2>1. pc' \in [Instances -> PCs]
    BY <1>0 DEF Types, PCs
  <2>2. rcv_buf' \in [Instances -> Seq(Byte)]
    BY <1>0, <1>1, <1>3 DEF Types
  <2>3. tty' \in [Sensors -> Seq(Byte)]
    BY <1>0, <1>1, <1>3 DEF Types
  <2>. QED
    BY <1>0, <2>1, <2>2, <2>3 DEF Types
<1>5. Buffers'
  <2>1. \A j \in Instances : j # i => rcv_buf'[j] = rcv_buf[j] /\ pc'[j] = pc[j]
    BY <1>0, <1>1 DEF Types
  <2>2. pc'[i] = "read" \/ (pc'[i] = "check" /\ Len(rcv_buf'[i]) = MSG_LEN)
    BY <1>0 DEF Types
  <2>. QED
    BY <2>1, <2>2 DEF GInv, Buffers
<1>6. OneAtATime'
  BY <1>0 DEF GInv, Types, OneAtATime
<1>7. Publications'
  BY <1>0 DEF GInv, Publications
<1>8. ASSUME NEW j \in Instances, NEW s \in Sensors, pc'[j] # "off", s \notin disturbed
      PROVE  InLine(j, s)'
  <2>1. j = i /\ pc[i] # "off"
    BY <1>0, <1>8, TheOne DEF Types
  <2>2. InLine(i, s)
    BY <1>0, <1>8, <2>1 DEF GInv, Lines
  <2>3. Oldest(i, s)' = Oldest(i, s)
    <3>1. Busy(i, s)' <=> Busy(i, s)
      BY <1>0 DEF Types, Busy
    <3>. QED
      BY <3>1, <1>0 DEF Oldest
  <2>4. Stream(i, s)' = Stream(i, s)
    <3>1. CASE s = z
      <4>1. /\ rcv_buf'[i] = rcv_buf[i] \o SubSeq(tty[z], 1, n)
            /\ tty'[s] = SubSeq(tty[z], n + 1, Len(tty[z]))
            /\ wire'[s] = wire[z] /\ sensor'[i] = s
        BY <3>1, <1>0, <1>1 DEF Types
      <4>2. Stream(i, s)' = rcv_buf'[i] \o (tty'[s] \o wire'[s])
        BY <4>1 DEF Stream, Held
      <4>3. Stream(i, s) = rcv_buf[i] \o (tty[z] \o wire[z])
        BY <3>1 DEF Stream, Held
      <4>. QED
        BY <4>1, <4>2, <4>3, <1>3
    <3>2. CASE s # z
      <4>1. tty'[s] = tty[s] /\ wire'[s] = wire[s] /\ sensor'[i] # s /\ sensor[i] # s
        BY <3>2, <1>0, <1>1 DEF Types
      <4>. QED
        BY <4>1 DEF Stream, Held
    <3>. QED
      BY <3>1, <3>2
  <2>. QED
    BY <2>1, <2>2, <2>3, <2>4, <1>0 DEF InLine
<1>9. Lines'
  BY <1>0, <1>8 DEF Lines
<1>. QED
  BY <1>4, <1>5, <1>6, <1>7, <1>9 DEF GInv

\* What an instance has read of an undisturbed sensor when it checks it: one
\* answer, of a recent poll, newer than what was published; what is left of the
\* stream is in line for the next poll.
LEMMA CheckedFrame ==
  ASSUME GInv, NEW i \in Instances, pc[i] = "check", sensor[i] \notin disturbed
  PROVE  LET s == sensor[i]
             p == rcv_buf[i][1].poll
             rest == tty[s] \o wire[s]
         IN /\ Whole(rcv_buf[i])
            /\ p \in Nat /\ polls[s] - late[s] <= p /\ p <= polls[s]
            /\ \A j \in 1 .. Len(published[s]) : published[s][j] < p
            /\ Framed(rest)
            /\ \A k \in 1 .. Len(rest) : p < rest[k].poll /\ rest[k].poll <= polls[s]
<1>. DEFINE s == sensor[i]
            p == rcv_buf[i][1].poll
            rest == tty[s] \o wire[s]
            f == rcv_buf[i]
            st == Stream(i, s)
<1>1. /\ s \in Sensors /\ f \in Seq(Byte) /\ rest \in Seq(Byte) /\ Len(f) = MSG_LEN
      /\ polls[s] \in Nat /\ late[s] \in Nat
  <2>1. s \in Sensors /\ Len(f) = MSG_LEN /\ Types
    BY DEF GInv, Types, Buffers
  <2>. QED
    BY <2>1, StreamType
<1>2. st = f \o rest
  BY DEF Stream, Held
<1>3. Framed(st) /\ Recent(st, polls[s] - late[s], polls[s]) /\ Fresh(st, published[s])
  <2>1. InLine(i, s) /\ Busy(i, s)
    BY <1>1 DEF GInv, Lines, Busy
  <2>. QED
    BY <2>1 DEF InLine, Oldest
<1>4. /\ f = Answer(p) /\ Framed(rest) /\ p \in Nat
      /\ \A k \in 1 .. Len(rest) : p < rest[k].poll
  <2>1. Framed(f \o rest)
    BY <1>2, <1>3
  <2>. QED
    BY <2>1, <1>1, FramedHead
<1>5. /\ Len(st) = MSG_LEN + Len(rest)
      /\ \A k \in 1 .. MSG_LEN : st[k] = f[k]
      /\ \A k \in 1 .. Len(rest) : st[MSG_LEN + k] = rest[k]
  <2>. HIDE DEF st, f, rest
  <2>. QED
    BY <1>1, <1>2, JoinFacts
<1>. HIDE DEF st, f, rest
<1>6. MSG_LEN \in Nat /\ MSG_LEN > 0 /\ Len(rest) \in Nat
  BY <1>1, ByteFacts
<1>7. 1 \in 1 .. Len(st) /\ st[1].poll = p
  <2>1. 1 \in 1 .. Len(st) /\ 1 \in 1 .. MSG_LEN
    BY <1>5, <1>6
  <2>. QED
    BY <2>1, <1>5 DEF f
<1>. HIDE DEF p
<1>8. /\ polls[s] - late[s] <= p /\ p <= polls[s]
      /\ \A j \in 1 .. Len(published[s]) : published[s][j] < p
  BY <1>3, <1>7 DEF Recent, Fresh
<1>9. ASSUME NEW k \in 1 .. Len(rest)
      PROVE  rest[k].poll <= polls[s]
  <2>. DEFINE m == MSG_LEN + k
  <2>1. m \in 1 .. Len(st) /\ st[m] = rest[k]
    BY <1>5, <1>6
  <2>. HIDE DEF m
  <2>. QED
    BY <2>1, <1>3 DEF Recent
<1>10. Whole(f)
  BY <1>4 DEF Whole, f, p
<1>. QED
  BY <1>4, <1>8, <1>9, <1>10 DEF f, p, rest

LEMMA CheckKeeps ==
  ASSUME GInv, NEW i \in Instances, Check(i)
  PROVE  GInv'
<1>. DEFINE z == sensor[i]
            p == rcv_buf[i][1].poll
            rest == tty[z] \o wire[z]
<1>0. /\ Types /\ pc[i] = "check" /\ z \in Sensors /\ pc' = [pc EXCEPT ![i] = "send"]
      /\ rcv_buf' = [rcv_buf EXCEPT ![i] = <<>>]
      /\ UNCHANGED <<tty, wire, polls, late, disturbed>>
      /\ rcv_buf[i] \in Seq(Byte) /\ Len(rcv_buf[i]) = MSG_LEN
  BY DEF GInv, Types, Buffers, Check, Advance, NextRound
<1>1. \E d \in Sensors : sensor' = [sensor EXCEPT ![i] = d]
  <2>1. \/ sensor' = [sensor EXCEPT ![i] = 1]
        \/ sensor' = [sensor EXCEPT ![i] = IF @ = 1 THEN 2 ELSE 1]
    BY DEF Check, Advance, NextRound
  <2>2. 1 \in Sensors /\ 2 \in Sensors
    BY DEF Sensors
  <2>. QED
    BY <2>1, <2>2
<1>2. p \in Nat
  <2>1. 1 \in 1 .. Len(rcv_buf[i])
    BY <1>0, GatewayAssumption
  <2>. QED
    BY <2>1, <1>0, ByteFacts
<1>3. \/ published' = published
      \/ published' = [published EXCEPT ![z] = Append(@, p)]
  BY DEF Check
<1>4. Types'
  <2>1. pc' \in [Instances -> PCs]
    BY <1>0 DEF Types, PCs
  <2>2. sensor' \in [Instances -> Sensors]
    BY <1>0, <1>1 DEF Types
  <2>3. rcv_buf' \in [Instances -> Seq(Byte)]
    BY <1>0 DEF Types
  <2>4. published' \in [Sensors -> Seq(Nat)]
    <3>1. published \in [Sensors -> Seq(Nat)]
      BY <1>0 DEF Types
    <3>2. Append(published[z], p) \in Seq(Nat)
      BY <1>0, <1>2, <3>1, AppendProperties
    <3>. QED
      BY <1>3, <3>1, <3>2
  <2>. QED
    BY <1>0, <2>1, <2>2, <2>3, <2>4 DEF Types
<1>5. Buffers' /\ OneAtATime'
  BY <1>0 DEF GInv, Types, Buffers, OneAtATime
<1>6. ASSUME z \notin disturbed
      PROVE  /\ p <= polls[z]
             /\ \A j \in 1 .. Len(published[z]) : published[z][j] < p
             /\ Framed(rest)
             /\ \A k \in 1 .. Len(rest) : p < rest[k].poll /\ rest[k].poll <= polls[z]
             /\ polls[z] - late[z] <= p
  BY <1>0, <1>6, CheckedFrame
<1>7. /\ published[z] \in Seq(Nat) /\ Len(published[z]) \in Nat
      /\ Len(Append(published[z], p)) = Len(published[z]) + 1
      /\ \A k \in 1 .. Len(published[z]) : Append(published[z], p)[k] = published[z][k]
      /\ Append(published[z], p)[Len(published[z]) + 1] = p
  BY <1>0, <1>2, AppendProperties DEF Types
<1>. DEFINE n == Len(published[z])
<1>8. \A s \in Sensors : \/ published'[s] = published[s]
                         \/ s = z /\ published'[s] = Append(published[z], p)
  BY <1>0, <1>3 DEF Types
<1>9. ASSUME NEW j \in 1 .. n + 1
      PROVE  \/ j \in 1 .. n /\ Append(published[z], p)[j] = published[z][j]
             \/ j = n + 1 /\ Append(published[z], p)[j] = p
  <2>1. j \in 1 .. n \/ j = n + 1
    BY <1>7
  <2>. QED
    BY <2>1, <1>7
<1>10. Publications'
  <2>. SUFFICES ASSUME NEW s \in Sensors, s \notin disturbed
                PROVE  Ordered(published'[s], polls[s])
    BY <1>0 DEF Publications
  <2>1. Ordered(published[s], polls[s])
    BY DEF GInv, Publications
  <2>2. CASE published'[s] = published[s]
    BY <2>1, <2>2
  <2>3. CASE s = z /\ published'[s] = Append(published[z], p)
    <3>. DEFINE new == Append(published[z], p)
                old == published[z]
    <3>1. /\ p <= polls[z]
          /\ \A j \in 1 .. n : old[j] < p
          /\ Ordered(old, polls[z])
      BY <2>1, <2>3, <1>6
    <3>2. Len(new) = n + 1 /\ n \in Nat /\ n = Len(old)
      BY <1>7
    <3>3. \A j \in 1 .. n + 1 : (j \in 1 .. n /\ new[j] = old[j]) \/ (j = n + 1 /\ new[j] = p)
      BY <1>9
    <3>. HIDE DEF new, old, n, p
    <3>4. ASSUME NEW j \in 1 .. n + 1
          PROVE  new[j] <= polls[z]
      BY <3>1, <3>2, <3>3 DEF Ordered
    <3>5. ASSUME NEW j \in 1 .. n + 1, NEW k \in 1 .. n + 1, j < k
          PROVE  new[j] < new[k]
      <4>1. j \in 1 .. n /\ new[j] = old[j]
        BY <3>2, <3>3, <3>5
      <4>. QED
        BY <4>1, <3>1, <3>2, <3>3, <3>5 DEF Ordered
    <3>6. Ordered(new, polls[z])
      BY <3>2, <3>4, <3>5 DEF Ordered
    <3>. QED
      BY <3>6, <2>3 DEF new
  <2>. QED
    BY <2>2, <2>3, <1>8
<1>11. ASSUME NEW j \in Instances, NEW s \in Sensors, pc'[j] # "off", s \notin disturbed
       PROVE  InLine(j, s)'
  <2>1. j = i /\ pc[i] # "off"
    BY <1>0, <1>11, TheOne DEF Types
  <2>2. InLine(i, s)
    BY <1>0, <1>11, <2>1 DEF GInv, Lines
  <2>3. Held(i, s)' = <<>> /\ ~Busy(i, s)'
    BY <1>0 DEF Types, Held, Busy
  <2>4. Oldest(i, s)' = polls[s] - late[s] + 1
    BY <2>3, <1>0 DEF Oldest
  <2>5. Stream(i, s)' = tty[s] \o wire[s]
    <3>1. tty[s] \o wire[s] \in Seq(Byte)
      BY <1>0, StreamType
    <3>2. Stream(i, s)' = <<>> \o (tty[s] \o wire[s])
      BY <2>3, <1>0 DEF Stream
    <3>. QED
      BY <3>1, <3>2, ConcatEmptySeq
  <2>6. CASE s # z
    <3>1. Held(i, s) = <<>> /\ ~Busy(i, s) /\ published'[s] = published[s]
      BY <2>6, <1>8 DEF Held, Busy
    <3>2. Oldest(i, s) = polls[s] - late[s] + 1
      BY <3>1 DEF Oldest
    <3>3. Stream(i, s) = tty[s] \o wire[s]
      <4>1. tty[s] \o wire[s] \in Seq(Byte)
        BY <1>0, StreamType
      <4>2. Stream(i, s) = <<>> \o (tty[s] \o wire[s])
        BY <3>1 DEF Stream
      <4>. QED
        BY <4>1, <4>2, ConcatEmptySeq
    <3>. QED
      BY <2>1, <2>2, <2>4, <2>5, <3>1, <3>2, <3>3, <1>0 DEF InLine
  <2>7. CASE s = z
    <3>1. /\ p <= polls[z]
          /\ \A l \in 1 .. n : published[z][l] < p
          /\ Framed(rest)
          /\ \A k \in 1 .. Len(rest) : p < rest[k].poll /\ rest[k].poll <= polls[z]
          /\ polls[z] - late[z] <= p
      BY <2>7, <1>6, <1>11
    <3>2. rest \in Seq(Byte) /\ polls[z] \in Nat /\ late[z] \in Nat
      BY <1>0, StreamType
    <3>3. \A k \in 1 .. Len(rest) : rest[k].poll \in Nat
      BY <3>2, ByteFacts
    <3>4. \A l \in 1 .. n : published[z][l] \in Nat
      BY <1>7, ElementOfSeq
    <3>. HIDE DEF rest
    <3>5. Recent(rest, polls[z] - late[z] + 1, polls[z])
      <4>. HIDE DEF p
      <4>. QED
        BY <3>1, <3>2, <3>3, <1>2 DEF Recent
    <3>6. Fresh(rest, published'[z])
      <4>. SUFFICES ASSUME NEW k \in 1 .. Len(rest), NEW l \in 1 .. Len(published'[z])
                    PROVE  published'[z][l] < rest[k].poll
        BY DEF Fresh
      <4>1. /\ \A m \in 1 .. n : published[z][m] < p /\ published[z][m] \in Nat
            /\ p < rest[k].poll /\ rest[k].poll \in Nat
        BY <3>1, <3>3, <3>4
      <4>2. \/ l \in 1 .. n /\ published'[z][l] = published[z][l]
            \/ published'[z][l] = p
        BY <1>0, <1>7, <1>8, <1>9
      <4>. HIDE DEF p, n
      <4>. QED
        BY <4>1, <4>2, <1>2
    <3>7. Stream(i, s)' = rest
      BY <2>5, <2>7 DEF rest
    <3>. QED
      BY <2>1, <2>4, <2>7, <3>1, <3>5, <3>6, <3>7, <1>0 DEF InLine
  <2>. QED
    BY <2>6, <2>7
<1>12. Lines'
  BY <1>0, <1>11 DEF Lines
<1>. QED
  BY <1>4, <1>5, <1>10, <1>12 DEF GInv

LEMMA ArriveKeeps ==
  ASSUME GInv, NEW z \in Sensors, Arrive(z)
  PROVE  GInv'
<1>0. /\ Types /\ wire[z] # <<>> /\ wire[z] \in Seq(Byte) /\ tty[z] \in Seq(Byte)
      /\ wire' = [wire EXCEPT ![z] = Tail(@)]
      /\ tty' = [tty EXCEPT ![z] = Append(@, Head(wire[z]))]
      /\ UNCHANGED <<pc, sensor, rcv_buf, polls, late, disturbed, published>>
  BY DEF GInv, Types, Arrive
<1>1. /\ Append(tty[z], Head(wire[z])) \in Seq(Byte) /\ Tail(wire[z]) \in Seq(Byte)
      /\ Append(tty[z], Head(wire[z])) \o Tail(wire[z]) = tty[z] \o wire[z]
  BY <1>0, ArriveMoves
<1>2. Types'
  <2>1. tty' \in [Sensors -> Seq(Byte)] /\ wire' \in [Sensors -> Seq(Byte)]
    BY <1>0, <1>1 DEF Types
  <2>. QED
    BY <1>0, <2>1 DEF Types
<1>3. Buffers' /\ OneAtATime' /\ Publications'
  BY <1>0 DEF GInv, Buffers, OneAtATime, Publications
<1>4. \A s \in Sensors : tty'[s] \o wire'[s] = tty[s] \o wire[s]
  BY <1>0, <1>1 DEF Types
<1>5. \A i \in Instances, s \in Sensors :
        Stream(i, s)' = Stream(i, s) /\ Oldest(i, s)' = Oldest(i, s)
  BY <1>0, <1>4 DEF Stream, Held, Oldest, Busy
<1>6. Lines'
  BY <1>0, <1>5 DEF GInv, Lines, InLine
<1>. QED
  BY <1>2, <1>3, <1>6 DEF GInv

LEMMA LoseKeeps ==
  ASSUME GInv, NEW z \in Sensors, Lose(z)
  PROVE  GInv'
<1>0. /\ Types /\ wire[z] # <<>> /\ wire[z] \in Seq(Byte)
      /\ wire' = [wire EXCEPT ![z] = Tail(@)]
      /\ disturbed' = disturbed \cup {z}
      /\ UNCHANGED <<pc, sensor, rcv_buf, tty, polls, late, published>>
  BY DEF GInv, Types, Lose
<1>1. Types'
  <2>1. Tail(wire[z]) \in Seq(Byte)
    BY <1>0, HeadTailProperties
  <2>2. wire' \in [Sensors -> Seq(Byte)]
    BY <1>0, <2>1 DEF Types
  <2>. QED
    BY <1>0, <2>2 DEF Types
<1>2. Buffers' /\ OneAtATime' /\ Publications'
  <2>1. disturbed = Sensors => disturbed' = Sensors
    BY <1>0 DEF Types
  <2>. QED
    BY <1>0, <2>1 DEF GInv, Buffers, OneAtATime, Publications
<1>3. \A s \in Sensors : s \notin disturbed' => s \notin disturbed /\ wire'[s] = wire[s]
  BY <1>0 DEF Types
<1>4. \A i \in Instances, s \in Sensors : s \notin disturbed' =>
        Stream(i, s)' = Stream(i, s) /\ Oldest(i, s)' = Oldest(i, s)
  BY <1>0, <1>3 DEF Stream, Held, Oldest, Busy
<1>5. Lines'
  BY <1>0, <1>3, <1>4 DEF GInv, Lines, InLine
<1>. QED
  BY <1>1, <1>2, <1>5 DEF GInv

LEMMA StopKeeps ==
  ASSUME GInv, Stop
  PROVE  GInv'
<1>1. Types'
  BY DEF GInv, Types, Stop, PCs
<1>. QED
  BY <1>1 DEF GInv, Buffers, OneAtATime, Lines, Publications, Stop

LEMMA StutterKeeps ==
  ASSUME GInv, UNCHANGED <<pc, sensor, rcv_buf, tty, wire, polls, late, disturbed, published>>
  PROVE  GInv'
<1>1. Types' /\ Buffers' /\ OneAtATime' /\ Publications'
  BY DEF GInv, Types, Buffers, OneAtATime, Publications
<1>2. Lines'
  BY DEF GInv, Lines, InLine, Stream, Held, Oldest, Busy
<1>. QED
  BY <1>1, <1>2 DEF GInv

LEMMA StartKeeps ==
  ASSUME GInv, NEW i \in Instances, Start(i)
  PROVE  GInv'
<1>1. UNCHANGED <<wire, polls, late, published>>
  BY DEF Start
<1>2. CASE Begin(i)
  BY <1>1, <1>2, BeginKeeps DEF Start
<1>3. CASE UNCHANGED <<pc, sensor, rcv_buf, tty, disturbed>>
  BY <1>1, <1>3, StutterKeeps
<1>. QED
  BY <1>2, <1>3 DEF Start

LEMMA GNext == GInv /\ [Next]_vars => GInv'
<1>. SUFFICES ASSUME GInv, [Next]_vars PROVE GInv'
  OBVIOUS
<1>1. ASSUME NEW i \in Instances, Start(i) PROVE GInv'
  BY <1>1, StartKeeps
<1>2. ASSUME NEW i \in Instances, Command(i) PROVE GInv'
  BY <1>2, CommandKeeps
<1>3. ASSUME NEW i \in Instances, Selected(i) PROVE GInv'
  BY <1>3, SelectedKeeps
<1>4. ASSUME NEW i \in Instances, TimedOut(i) PROVE GInv'
  BY <1>4, TimedOutKeeps
<1>5. ASSUME NEW i \in Instances, Read(i) PROVE GInv'
  BY <1>5, ReadKeeps
<1>6. ASSUME NEW i \in Instances, Check(i) PROVE GInv'
  BY <1>6, CheckKeeps
<1>7. ASSUME NEW s \in Sensors, Arrive(s) PROVE GInv'
  BY <1>7, ArriveKeeps
<1>8. ASSUME NEW s \in Sensors, Lose(s) PROVE GInv'
  BY <1>8, LoseKeeps
<1>9. CASE Stop
  BY <1>9, StopKeeps
<1>10. CASE UNCHANGED vars
  BY <1>10, StutterKeeps DEF vars
<1>. QED
  BY <1>1, <1>2, <1>3, <1>4, <1>5, <1>6, <1>7, <1>8, <1>9, <1>10 DEF Next

----------------------------------------------------------------------------
\* UART_Recv keeps to the frames however its reads cut the stream up and however
\* many polls it gave up on before: what main checks is one whole answer, as long
\* as no byte of that line was lost and no other instance read from it.
THEOREM FramesAreAnswers == Spec => []WholeAnswers
<1>1. GInv => WholeAnswers
  BY CheckedFrame DEF WholeAnswers
<1>. QED
  BY GInit, GNext, <1>1, PTL DEF Spec

\* A reading that main checks is at most as many polls old as polls of that
\* sensor timed out in UART_Recv, over any number of polls.
THEOREM LateByTimeoutsOnly == Spec => []StalenessBounded
<1>1. ASSUME GInv, NEW i \in Instances, pc[i] = "check", sensor[i] \notin disturbed
      PROVE  rcv_buf[i][1].poll >= polls[sensor[i]] - late[sensor[i]]
  <2>1. /\ rcv_buf[i][1].poll \in Nat
        /\ polls[sensor[i]] - late[sensor[i]] <= rcv_buf[i][1].poll
    BY <1>1, CheckedFrame
  <2>. QED
    BY <2>1
<1>2. GInv => StalenessBounded
  BY <1>1 DEF StalenessBounded
<1>. QED
  BY GInit, GNext, <1>2, PTL DEF Spec

\* The gateway publishes the readings of an undisturbed sensor in the order they
\* were taken and none twice, across timeouts, stops and restarts.
THEOREM ReadingsInOrder == Spec => []PublishedInOrder
<1>1. ASSUME GInv, NEW s \in Sensors \ disturbed
      PROVE  \A j, k \in DOMAIN published[s] : j < k => published[s][j] < published[s][k]
  <2>1. DOMAIN published[s] = 1 .. Len(published[s])
    BY <1>1 DEF GInv, Types
  <2>. QED
    BY <1>1, <2>1 DEF GInv, Publications, Ordered
<1>2. GInv => PublishedInOrder
  BY <1>1 DEF PublishedInOrder
<1>. QED
  BY GInit, GNext, <1>2, PTL DEF Spec
=============================================================================
