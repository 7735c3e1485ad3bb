------------------------ MODULE FragmentTunnelProofs ------------------------
(***************************************************************************)
(* The sender and the receiver of a tunnel with --fragment, for every size *)
(* of the window, of the sequence ids and of the datagrams.                *)
(*                                                                         *)
(* The sender (SInv): what is left of a datagram is its last bytes, cut at *)
(* a multiple of the fragment size, and every fragment under way is a      *)
(* piece of a datagram that was sent.                                      *)
(*                                                                         *)
(* The receiver (RInv) sees sequence ids modulo N_SEQ_ID; position is the  *)
(* number of the datagram that list.seq_id stands for.  Each buffer of the *)
(* window has one datagram that belongs there, and holds bytes of no       *)
(* other, since the network's Reach is too short for two datagrams with    *)
(* one id.                                                                 *)
(***************************************************************************)
EXTENDS FragmentTunnel, FiniteSetTheorems, TLAPS

----------------------------------------------------------------------------
(* Arithmetic.                                                             *)

\* A quotient is determined by its bounds.
LEMMA Quotient ==
  ASSUME NEW a \in Int, NEW b \in Nat, b > 0, NEW q \in Int, q * b <= a, a < (q + 1) * b
  PROVE  a \div b = q
<1> DEFINE d == a \div b
           r == a % b
<1>1. d \in Int /\ r \in 0 .. (b - 1) /\ a = b * d + r
  OBVIOUS
<1> HIDE DEF d, r
<1>2. ASSUME d > q PROVE FALSE
  <2>1. b * d >= b * (q + 1)
    BY <1>1, <1>2
  <2> QED BY <1>1, <2>1
<1>3. ASSUME d < q PROVE FALSE
  <2>1. b * (d + 1) <= b * q
    BY <1>1, <1>3
  <2> QED BY <1>1, <2>1
<1> QED BY <1>1, <1>2, <1>3 DEF d

LEMMA DivMod ==
  ASSUME NEW a \in Int, NEW b \in Nat, b > 0
  PROVE  /\ a \div b \in Int /\ a % b \in 0 .. (b - 1) /\ a = b * (a \div b) + (a % b)
         /\ a >= 0 => a \div b \in Nat
  OBVIOUS

\* aligned rounds down to a multiple of FRAG_SIZE_ROUND ...
LEMMA Aligned ==
  ASSUME NEW a \in Int
  PROVE  /\ aligned(a) \in Int /\ aligned(a) <= a /\ a < aligned(a) + FRAG_SIZE_ROUND
         /\ aligned(a) % FRAG_SIZE_ROUND = 0
<1> DEFINE R == FRAG_SIZE_ROUND
           d == a \div R
<1>1. R \in Nat /\ R > 0
  BY FragmentAssumption
<1>2. d \in Int /\ a % R \in 0 .. (R - 1) /\ a = R * d + (a % R)
  BY <1>1, DivMod
<1>3. aligned(a) = d * R
  BY <1>1, <1>2 DEF aligned
<1>4. aligned(a) \div R = d
  <2>1. d * R <= aligned(a) /\ aligned(a) < (d + 1) * R /\ aligned(a) \in Int
    BY <1>1, <1>2, <1>3
  <2> QED BY <1>1, <1>2, <2>1, Quotient
<1>5. aligned(a) % R = 0
  <2>1. aligned(a) \in Int
    BY <1>1, <1>2, <1>3
  <2>2. aligned(a) = R * (aligned(a) \div R) + (aligned(a) % R)
    BY <1>1, <2>1, DivMod
  <2>3. aligned(a) % R \in Int
    BY <1>1, <2>1
  <2> QED BY <1>1, <1>2, <1>3, <1>4, <2>2, <2>3
<1> QED BY <1>1, <1>2, <1>5 DEF aligned

\* ... so that a size that is large enough for one stays positive.
LEMMA PayloadFacts ==
  ASSUME NEW payload \in Payloads
  PROVE  payload \in Nat /\ aligned(payload) \in Nat \ {0} /\ aligned(payload) <= payload
<1>1. payload \in Nat /\ payload >= FRAG_SIZE_ROUND
  BY TunnelAssumption
<1>2. aligned(payload) \in Int /\ aligned(payload) <= payload /\ payload < aligned(payload) + FRAG_SIZE_ROUND
  BY <1>1, Aligned
<1> QED BY <1>1, <1>2, FragmentAssumption

\* optimal_fragment_size: the sizes are evened out within the number of
\* fragments that the largest size needs.
LEMMA OptimalSize ==
  ASSUME NEW payload \in Payloads, NEW len \in Nat, len > payload
  PROVE  LET size == optimal_fragment_size(len, payload)
         IN  /\ size \in Nat \ {0} /\ size <= payload /\ size % FRAG_SIZE_ROUND = 0
             /\ (len - 1) \div size = (len - 1) \div aligned(payload)
<1> DEFINE m == aligned(payload)
           div == len \div m
           mod == len % m
           part == (payload - mod) \div (div + 1)
           even == aligned(payload - part + FRAG_SIZE_ROUND - 1)
<1>1. /\ payload \in Nat /\ m \in Nat \ {0} /\ m <= payload /\ m % FRAG_SIZE_ROUND = 0
      /\ FRAG_SIZE_ROUND \in Nat \ {0}
  BY PayloadFacts, Aligned, FragmentAssumption
<1>2. CASE ~(div > 0 /\ mod > 0 /\ mod < (m * 3) \div 4 /\ even < m)
  <2>1. optimal_fragment_size(len, payload) = m
    BY <1>2 DEF optimal_fragment_size
  <2> QED BY <1>1, <2>1
<1>3. CASE div > 0 /\ mod > 0 /\ mod < (m * 3) \div 4 /\ even < m
  <2>1. optimal_fragment_size(len, payload) = even
    BY <1>3 DEF optimal_fragment_size
  <2> HIDE DEF m
  <2>2. div \in Nat /\ mod \in 0 .. (m - 1) /\ len = m * div + mod
    BY <1>1, DivMod
  <2> HIDE DEF div, mod
  <2>3. part \in Int /\ (payload - mod) = (div + 1) * part + ((payload - mod) % (div + 1))
        /\ (payload - mod) % (div + 1) \in 0 .. div
    <3>1. payload - mod \in Int /\ div + 1 \in Nat /\ div + 1 > 0
      BY <1>1, <2>2
    <3>2. (payload - mod) % (div + 1) \in 0 .. (div + 1 - 1) /\ div + 1 - 1 = div
      BY <2>2, <3>1, DivMod
    <3> QED BY <3>1, <3>2, DivMod
  <2> HIDE DEF part
  <2>4. even \in Int /\ even >= payload - part /\ even % FRAG_SIZE_ROUND = 0
    <3>1. payload - part + FRAG_SIZE_ROUND - 1 \in Int
      BY <1>1, <2>3
    <3>2. /\ even \in Int /\ even % FRAG_SIZE_ROUND = 0
          /\ payload - part + FRAG_SIZE_ROUND - 1 < even + FRAG_SIZE_ROUND
      BY <3>1, Aligned
    <3> HIDE DEF even
    <3> QED BY <1>1, <2>3, <3>2
  <2> HIDE DEF even
  <2>5. (div + 1) * part <= payload - mod
    <3>1. (payload - mod) % (div + 1) \in Nat
      BY <2>2, <2>3
    <3>2. (div + 1) * part \in Int /\ payload - mod \in Int
      BY <1>1, <2>2, <2>3
    <3> QED BY <2>3, <3>1, <3>2
  <2>6. (div + 1) * even >= len
    <3>1. (div + 1) * even >= (div + 1) * (payload - part)
      BY <1>1, <2>2, <2>3, <2>4
    <3>2. (div + 1) * (payload - part) = div * payload + payload - (div + 1) * part
      BY <1>1, <2>2, <2>3
    <3>3. div * payload >= m * div
      BY <1>1, <2>2
    <3>4. /\ (div + 1) * even \in Int /\ (div + 1) * part \in Int /\ div * payload \in Int
          /\ m * div \in Int /\ (div + 1) * (payload - part) \in Int
      BY <1>1, <2>2, <2>3, <2>4
    <3> QED BY <1>1, <2>2, <2>5, <3>1, <3>2, <3>3, <3>4
  <2>7. even > 0
    <3>1. ASSUME even <= 0 PROVE FALSE
      <4>1. (div + 1) * even <= 0
        BY <2>2, <2>4, <3>1
      <4>2. (div + 1) * even \in Int
        BY <2>2, <2>4
      <4> QED BY <1>1, <2>6, <4>1, <4>2
    <3> QED BY <2>4, <3>1
  <2>8. div * even <= len - 1 /\ div * m <= len - 1 /\ len - 1 < (div + 1) * m /\ len - 1 < (div + 1) * even
    <3>1. div * m = m * div /\ (div + 1) * m = m * div + m /\ m * div \in Int
      BY <1>1, <2>2
    <3>2. div * even <= div * m /\ div * even \in Int /\ (div + 1) * even \in Int
      BY <1>1, <1>3, <2>2, <2>4
    <3> QED BY <1>1, <1>3, <2>2, <2>6, <3>1, <3>2
  <2>9. (len - 1) \div even = div /\ (len - 1) \div m = div
    <3>1. len - 1 \in Int /\ even \in Nat /\ m \in Nat /\ m > 0 /\ div \in Int
      BY <1>1, <2>2, <2>4, <2>7
    <3> QED BY <2>7, <2>8, <3>1, Quotient
  <2> QED BY <1>1, <1>3, <2>1, <2>4, <2>7, <2>9 DEF m
<1> QED BY <1>2, <1>3

----------------------------------------------------------------------------
(* The sender.  The datagrams it has cut are numbered from 1 on; what is   *)
(* left of one is the rest of the latest, and every fragment on its way is *)
(* a piece of a datagram, at its place.                                    *)
Sent == Cardinality(Numbers)

SentRecords == [len : Nat, payload : Payloads, size : Nat \ {0}, taken : Nat]
OutRecords == [pkt : Nat, from : Nat, len : Nat, frag_id : Nat, frag_size : Nat]
FragRecords == [pkt : Nat, from : Nat, len : Nat, seq_id : 0 .. (N_SEQ_ID - 1),
                frag_id : Nat, last : BOOLEAN, size : Nat \ {0}]

\* A datagram as fragment_outgoing accepts it.
Accepted(s) ==
  /\ s.len \in Lengths /\ s.len > s.payload
  /\ s.size = optimal_fragment_size(s.len, s.payload)
  /\ s.len <= s.size * MAX_FRAGS

\* The rest of datagram s.
RestOf(o, s) ==
  /\ o.len > 0 /\ o.frag_size = s.size
  /\ o.from = o.frag_id * o.frag_size /\ o.from + o.len = s.len

\* A fragment of datagram s.
CutFrom(f, s) ==
  /\ f.size = s.size /\ f.from = f.frag_id * f.size /\ f.from < s.len
  /\ f.last <=> s.len - f.from <= f.size
  /\ f.len = IF f.last THEN s.len - f.from ELSE f.size

\* Sequence ids follow the numbers, modulo N_SEQ_ID.
Congruent(a, b) == \E z \in Int : a = b + z * N_SEQ_ID
Drift == outgoing_seq_id - Sent

Piece(f) ==
  /\ f \in FragRecords /\ f.pkt \in Numbers /\ CutFrom(f, sent[f.pkt])
  /\ Congruent(f.seq_id - f.pkt, Drift)

SentOK ==
  /\ Sent \in Nat /\ sent \in [1 .. Sent -> SentRecords]
  /\ \A n \in 1 .. Sent : Accepted(sent[n])
  /\ outgoing_seq_id \in 0 .. (N_SEQ_ID - 1)

OutOK ==
  /\ out \in OutRecords
  /\ out = NothingOutgoing \/ (Sent > 0 /\ out.pkt = Sent /\ RestOf(out, sent[Sent]))

SInv ==
  /\ SentOK /\ OutOK /\ NoRestOverwritten
  /\ \A f \in to_link : f = Other \/ Piece(f)
  /\ \A f \in net : Piece(f)

\* What a step of the sender keeps of the datagrams it has cut.
Grown ==
  /\ Numbers \subseteq Numbers'
  /\ \A n \in Numbers : sent'[n].len = sent[n].len /\ sent'[n].size = sent[n].size
  /\ Congruent(Drift, Drift')

LEMMA CongruentTransitive ==
  ASSUME NEW a \in Int, NEW b \in Int, NEW c \in Int, Congruent(a, b), Congruent(b, c)
  PROVE  Congruent(a, c)
<1>1. N_SEQ_ID \in Nat
  BY FragmentAssumption
<1>2. PICK y \in Int : a = b + y * N_SEQ_ID
  BY DEF Congruent
<1>3. PICK z \in Int : b = c + z * N_SEQ_ID
  BY DEF Congruent
<1>4. y + z \in Int /\ a = c + (y + z) * N_SEQ_ID
  BY <1>1, <1>2, <1>3
<1> QED BY <1>4 DEF Congruent

LEMMA CongruentSymmetric ==
  ASSUME NEW a \in Int, NEW b \in Int, Congruent(a, b)
  PROVE  Congruent(b, a)
<1>1. N_SEQ_ID \in Nat
  BY FragmentAssumption
<1>2. PICK z \in Int : a = b + z * N_SEQ_ID
  BY DEF Congruent
<1>3. -z \in Int /\ b = a + (-z) * N_SEQ_ID
  BY <1>1, <1>2
<1> QED BY <1>3 DEF Congruent

LEMMA CongruentReflexive == ASSUME NEW a \in Int PROVE Congruent(a, a)
<1>1. a = a + 0 * N_SEQ_ID
  BY FragmentAssumption
<1> QED BY <1>1 DEF Congruent

LEMMA PieceKept ==
  ASSUME Grown, SentOK, SentOK', NEW f, Piece(f)
  PROVE  Piece(f)'
<1>1. f.pkt \in Numbers' /\ f.pkt \in Numbers /\ f \in FragRecords
  BY DEF Grown, Piece
<1>2. sent'[f.pkt].len = sent[f.pkt].len /\ sent'[f.pkt].size = sent[f.pkt].size
  BY <1>1 DEF Grown
<1>3. CutFrom(f, sent'[f.pkt])
  BY <1>2 DEF Piece, CutFrom
<1>4. f.seq_id - f.pkt \in Int /\ Drift \in Int /\ Drift' \in Int
  BY <1>1, FragmentAssumption DEF FragRecords, Drift, SentOK
<1>5. Congruent(f.seq_id - f.pkt, Drift')
  BY <1>4, CongruentTransitive DEF Piece, Grown
<1> QED BY <1>1, <1>3, <1>5 DEF Piece

\* What next_fragment and rest make of the rest of a datagram.
LEMMA Cut ==
  ASSUME NEW o \in OutRecords, NEW s \in SentRecords, RestOf(o, s),
         NEW seq \in 0 .. (N_SEQ_ID - 1)
  PROVE  LET f == next_fragment(o, seq)
         IN  /\ f \in FragRecords /\ f.pkt = o.pkt /\ f.seq_id = seq /\ CutFrom(f, s)
             /\ rest(o) \in OutRecords /\ f.len + rest(o).len = o.len
             /\ rest(o) = NothingOutgoing \/ (rest(o).pkt = o.pkt /\ RestOf(rest(o), s))
<1>1. /\ o.len \in Nat /\ o.from \in Nat /\ o.frag_id \in Nat /\ o.frag_size \in Nat \ {0}
      /\ s.len \in Nat /\ s.size = o.frag_size /\ o.pkt \in Nat
      /\ o.from = o.frag_id * o.frag_size /\ o.from + o.len = s.len /\ o.len > 0
  BY DEF OutRecords, SentRecords, RestOf
<1> DEFINE f == next_fragment(o, seq)
           last == o.len <= o.frag_size
<1>2. /\ f.pkt = o.pkt /\ f.from = o.from /\ f.seq_id = seq /\ f.frag_id = o.frag_id
      /\ f.last = last /\ f.size = o.frag_size /\ f.len = IF last THEN o.len ELSE o.frag_size
      /\ f \in FragRecords
  BY <1>1 DEF next_fragment, FragRecords
<1> HIDE DEF f
<1>3. CutFrom(f, s)
  <2>1. s.len - f.from = o.len
    BY <1>1, <1>2
  <2>2. s.len - f.from <= f.size <=> last
    BY <1>2, <2>1
  <2>3. f.size = s.size /\ f.from = f.frag_id * f.size /\ f.from < s.len
    BY <1>1, <1>2
  <2>4. f.len = IF f.last THEN s.len - f.from ELSE f.size
    BY <1>2, <2>1
  <2> HIDE DEF last
  <2> QED BY <1>2, <2>2, <2>3, <2>4 DEF CutFrom
<1>4. CASE last
  <2>1. rest(o) = NothingOutgoing
    BY <1>4 DEF rest
  <2>2. NothingOutgoing \in OutRecords /\ NothingOutgoing.len = 0
    BY DEF NothingOutgoing, OutRecords
  <2> QED BY <1>1, <1>2, <1>3, <1>4, <2>1, <2>2 DEF f
<1>5. CASE ~last
  <2> DEFINE a == o.from + o.frag_size
             b == o.len - o.frag_size
             c == o.frag_id + 1
             r == [o EXCEPT !.from = a, !.len = b, !.frag_id = c]
  <2>1. rest(o) = r
    BY <1>5 DEF rest
  <2>2. b \in Nat /\ b > 0 /\ a \in Nat /\ c \in Nat
    <3>1. /\ o.len \in Nat /\ o.from \in Nat /\ o.frag_id \in Nat /\ o.frag_size \in Nat
          /\ o.len > o.frag_size
      BY <1>1, <1>5
    <3> QED BY <3>1
  <2> HIDE DEF a, b, c
  <2>3. /\ r \in OutRecords /\ r.pkt = o.pkt /\ r.from = a /\ r.len = b /\ r.frag_id = c
        /\ r.frag_size = o.frag_size
    BY <2>2 DEF OutRecords
  <2> HIDE DEF r
  <2> USE DEF a, b, c
  <2>4. (o.frag_id + 1) * o.frag_size = o.frag_id * o.frag_size + o.frag_size
    BY <1>1
  <2>5. RestOf(r, s)
    BY <1>1, <2>2, <2>3, <2>4 DEF RestOf
  <2>6. f.len + r.len = o.len
    BY <1>1, <1>2, <1>5, <2>3
  <2> QED BY <1>2, <1>3, <2>1, <2>3, <2>5, <2>6 DEF f
<1> QED BY <1>4, <1>5

LEMMA NextSeqId ==
  ASSUME NEW x \in 0 .. (N_SEQ_ID - 1)
  PROVE  /\ modulo_add(x, 1, N_SEQ_ID) \in 0 .. (N_SEQ_ID - 1)
         /\ \A n \in Int : Congruent(x - n, modulo_add(x, 1, N_SEQ_ID) - (n + 1))
<1> DEFINE y == modulo_add(x, 1, N_SEQ_ID)
<1>1. N_SEQ_ID \in Nat /\ N_SEQ_ID > 1
  BY FragmentAssumption
<1>2. y \in 0 .. (N_SEQ_ID - 1) /\ (y = x + 1 \/ y = x + 1 - N_SEQ_ID)
  BY <1>1 DEF modulo_add
<1> HIDE DEF y
<1>3. ASSUME NEW n \in Int PROVE Congruent(x - n, y - (n + 1))
  <2>1. x - n = y - (n + 1) + 0 * N_SEQ_ID \/ x - n = y - (n + 1) + 1 * N_SEQ_ID
    BY <1>1, <1>2
  <2> QED BY <2>1 DEF Congruent
<1> QED BY <1>2, <1>3 DEF y

LEMMA CardinalityUpTo == ASSUME NEW n \in Nat PROVE Cardinality(1 .. n) = n
  BY FS_Interval

\* The datagrams stay as they are.
LEMMA SameSent ==
  ASSUME SentOK, UNCHANGED <<sent, outgoing_seq_id>>
  PROVE  SentOK' /\ Grown /\ Sent' = Sent /\ Numbers' = Numbers
<1>1. Numbers' = Numbers /\ Sent' = Sent /\ Drift' = Drift
  BY DEF Numbers, Sent, Drift
<1>2. Drift \in Int
  BY FragmentAssumption DEF Drift, SentOK
<1>3. Congruent(Drift, Drift')
  BY <1>1, <1>2, CongruentReflexive
<1>4. SentOK'
  BY <1>1 DEF SentOK
<1> QED BY <1>1, <1>3, <1>4 DEF Grown

\* fragment_outgoing, which is called only when no rest is left.
LEMMA FragmentOutgoing ==
  ASSUME SInv, ~ TO_LINK_DEF, NEW len \in Lengths, NEW payload \in Payloads,
         fragment_outgoing(len, payload), net' = net
  PROVE  SInv' /\ Grown
<1> DEFINE size == optimal_fragment_size(len, payload)
           number == Sent + 1
           seq_id == modulo_add(outgoing_seq_id, 1, N_SEQ_ID)
           whole == outgoing(number, len, size)
           first == next_fragment(whole, seq_id)
           s == [len |-> len, payload |-> payload, size |-> size, taken |-> first.len]
<1>0. /\ Sent \in Nat /\ sent \in [1 .. Sent -> SentRecords] /\ Numbers = 1 .. Sent
      /\ outgoing_seq_id \in 0 .. (N_SEQ_ID - 1) /\ SentOK
  BY DEF SInv, SentOK, Numbers
<1>1. out = NothingOutgoing
  BY DEF SInv, OutOK, RestOf, TO_LINK_DEF, fragment_outgoing_defined
<1>2. \/ UNCHANGED <<out, outgoing_seq_id, sent>> /\ to_link' \in {{Other}, {}, to_link}
      \/ /\ len > payload /\ len <= size * MAX_FRAGS
         /\ outgoing_seq_id' = seq_id /\ to_link' \in {{first}, {}} /\ out' = rest(whole)
         /\ sent' = [n \in Numbers \cup {number} |-> IF n \in Numbers THEN sent[n] ELSE s]
  BY DEF fragment_outgoing, encrypt_sign, Sent
<1>3. CASE UNCHANGED <<out, outgoing_seq_id, sent>> /\ to_link' \in {{Other}, {}, to_link}
  <2>1. SentOK' /\ Grown /\ Sent' = Sent /\ Numbers' = Numbers
    BY <1>0, <1>3, SameSent
  <2>2. OutOK' /\ NoRestOverwritten'
    BY <1>3, <2>1 DEF SInv, OutOK, NoRestOverwritten
  <2>3. \A f \in net : Piece(f)'
    BY <1>0, <2>1, PieceKept DEF SInv
  <2>4. \A f \in to_link : f = Other \/ Piece(f)'
    BY <1>0, <2>1, PieceKept DEF SInv
  <2>5. \A f \in to_link' : f = Other \/ Piece(f)'
    BY <1>3, <2>4
  <2> QED BY <2>1, <2>2, <2>3, <2>5 DEF SInv
<1>4. CASE /\ len > payload /\ len <= size * MAX_FRAGS
           /\ outgoing_seq_id' = seq_id /\ to_link' \in {{first}, {}} /\ out' = rest(whole)
           /\ sent' = [n \in Numbers \cup {number} |-> IF n \in Numbers THEN sent[n] ELSE s]
  <2>1. len \in Nat /\ len > 0 /\ payload \in Nat
    BY TunnelAssumption, FragmentAssumption
  <2>2. size \in Nat \ {0}
    BY <1>4, <2>1, OptimalSize
  <2>3. seq_id \in 0 .. (N_SEQ_ID - 1) /\ Congruent(outgoing_seq_id - Sent, seq_id - (Sent + 1))
    BY <1>0, NextSeqId
  <2> DEFINE s0 == [len |-> len, payload |-> payload, size |-> size, taken |-> 0]
  <2>4. /\ whole \in OutRecords /\ RestOf(whole, s0) /\ s0 \in SentRecords
        /\ whole.pkt = number /\ whole.len = len
    <3> HIDE DEF size
    <3>1. 0 = 0 * size /\ 0 + len = len
      BY <2>1, <2>2
    <3> QED BY <1>0, <2>1, <2>2, <3>1 DEF outgoing, OutRecords, RestOf, SentRecords
  <2>5. /\ first \in FragRecords /\ first.pkt = number /\ first.seq_id = seq_id /\ CutFrom(first, s0)
        /\ rest(whole) \in OutRecords /\ first.len + rest(whole).len = len
        /\ rest(whole) = NothingOutgoing \/ (rest(whole).pkt = number /\ RestOf(rest(whole), s0))
    <3> HIDE DEF whole, s0, seq_id, number
    <3> QED BY <2>3, <2>4, Cut
  <2>6. s \in SentRecords /\ s.len = s0.len /\ s.size = s0.size /\ s.taken = first.len /\ s.len = len
    <3>1. first.len \in Nat
      BY <2>5 DEF FragRecords
    <3> HIDE DEF first, size
    <3> QED BY <2>1, <2>2, <3>1 DEF SentRecords
  <2>7. Accepted(s)
    <3> HIDE DEF first
    <3> QED BY <1>4 DEF Accepted
  <2>8. CutFrom(first, s) /\ (rest(whole) = NothingOutgoing \/ RestOf(rest(whole), s))
    BY <2>5, <2>6 DEF CutFrom, RestOf
  <2> HIDE DEF s, s0, whole, first, size, seq_id
  <2>9. /\ Numbers' = 1 .. number /\ number \in Nat /\ Sent' = number
        /\ \A n \in 1 .. Sent : sent'[n] = sent[n]
        /\ sent'[number] = s /\ sent' \in [1 .. number -> SentRecords]
    <3>1. number \in Nat /\ number \notin Numbers /\ Numbers \cup {number} = 1 .. number
      BY <1>0
    <3> HIDE DEF number
    <3>2. Numbers' = 1 .. number
      BY <1>4, <3>1 DEF Numbers
    <3>3. Sent' = number
      BY <3>1, <3>2, CardinalityUpTo DEF Sent
    <3>4. sent' = [n \in 1 .. number |-> IF n \in Numbers THEN sent[n] ELSE s]
      BY <1>4, <3>1
    <3>5. \A n \in 1 .. number : n # number => n \in Numbers
      BY <3>1
    <3>6. \A n \in Numbers : sent'[n] = sent[n] /\ n \in 1 .. number
      BY <3>1, <3>4
    <3>7. sent'[number] = s /\ number \in 1 .. number
      BY <1>0, <3>1, <3>4 DEF number
    <3>8. sent' \in [1 .. number -> SentRecords]
      BY <1>0, <2>6, <3>4
    <3> QED BY <1>0, <3>1, <3>2, <3>3, <3>6, <3>7, <3>8
  <2>10. SentOK'
    <3>1. \A n \in 1 .. number : n = number \/ n \in 1 .. Sent
      BY <1>0
    <3> HIDE DEF number
    <3>2. \A n \in 1 .. number : Accepted(sent'[n])
      BY <2>7, <2>9, <3>1 DEF SInv, SentOK
    <3> QED BY <1>4, <2>3, <2>9, <3>2 DEF SentOK
  <2>11. Grown
    <3>1. Drift = outgoing_seq_id - Sent /\ Drift' = seq_id - (Sent + 1)
      BY <1>4, <2>9 DEF Drift
    <3>2. Congruent(Drift, Drift')
      BY <2>3, <3>1
    <3>3. Numbers \subseteq Numbers'
      BY <1>0, <2>9
    <3> QED BY <1>0, <2>9, <3>2, <3>3 DEF Grown
  <2>12. \A f \in net' : Piece(f)'
    BY <1>0, <2>10, <2>11, PieceKept DEF SInv
  <2>13. \A f : f = first => Piece(f)'
    <3>1. number \in Numbers' /\ CutFrom(first, sent'[number])
      BY <1>0, <2>8, <2>9
    <3>2. first.seq_id - first.pkt = Drift'
      BY <1>4, <2>5, <2>9 DEF Drift
    <3>3. Drift' \in Int
      BY <2>10, FragmentAssumption DEF Drift, SentOK
    <3>4. Congruent(first.seq_id - first.pkt, Drift')
      BY <3>2, <3>3, CongruentReflexive
    <3> HIDE DEF number
    <3> QED BY <2>5, <3>1, <3>4 DEF Piece
  <2>14. \A f \in to_link' : f = Other \/ Piece(f)'
    <3>1. \A f \in to_link' : f = first
      BY <1>4
    <3> QED BY <2>13, <3>1
  <2>15. OutOK'
    <3>1. number > 0
      BY <1>0
    <3> HIDE DEF number
    <3> QED BY <1>4, <2>5, <2>8, <2>9, <3>1 DEF OutOK
  <2>16. NoRestOverwritten'
    <3>1. \A n \in 1 .. number : n = number \/ n \in 1 .. Sent
      BY <1>0
    <3>2. ASSUME NEW n \in 1 .. Sent
          PROVE  sent'[n].taken + (IF out'.pkt = n THEN out'.len ELSE 0) = sent'[n].len
      <4>1. out'.pkt # n
        <5>1. n # 0 /\ n # number
          BY <1>0
        <5> QED BY <1>4, <2>5, <5>1 DEF NothingOutgoing
      <4>2. out.pkt # n
        BY <1>0, <1>1 DEF NothingOutgoing
      <4>3. sent[n].taken + 0 = sent[n].len
        BY <1>0, <4>2 DEF SInv, NoRestOverwritten
      <4> QED BY <2>9, <4>1, <4>3
    <3>3. sent'[number].taken + (IF out'.pkt = number THEN out'.len ELSE 0) = sent'[number].len
      <4>1. first.len \in Nat /\ number # 0
        BY <1>0, <2>5 DEF FragRecords
      <4>2. CASE out' = NothingOutgoing
        <5>1. out'.pkt = 0 /\ out'.len = 0
          BY <4>2 DEF NothingOutgoing
        <5> QED BY <1>4, <2>5, <2>6, <2>9, <4>1, <5>1
      <4>3. CASE out'.pkt = number
        BY <1>4, <2>5, <2>6, <2>9, <4>3
      <4> QED BY <1>4, <2>5, <4>2, <4>3
    <3> HIDE DEF number
    <3> QED BY <2>9, <3>1, <3>2, <3>3 DEF NoRestOverwritten
  <2> QED BY <2>10, <2>11, <2>12, <2>14, <2>15, <2>16 DEF SInv
<1> QED BY <1>2, <1>3, <1>4

\* check_fragment takes the next fragment from the rest.
LEMMA CheckFragment ==
  ASSUME SInv, check_fragment
  PROVE  SInv' /\ Grown
<1>0. SentOK /\ net' = net /\ outgoing_seq_id' = outgoing_seq_id
  BY DEF SInv, check_fragment
<1>1. CASE UNCHANGED <<out, to_link, sent>>
  <2>1. SentOK' /\ Grown /\ Sent' = Sent /\ Numbers' = Numbers
    BY <1>0, <1>1, SameSent
  <2>2. OutOK' /\ NoRestOverwritten'
    BY <1>1, <2>1 DEF SInv, OutOK, NoRestOverwritten
  <2>3. \A f \in net' : Piece(f)'
    BY <1>0, <2>1, PieceKept DEF SInv
  <2>4. \A f \in to_link' : f = Other \/ Piece(f)'
    BY <1>0, <1>1, <2>1, PieceKept DEF SInv
  <2> QED BY <2>1, <2>2, <2>3, <2>4 DEF SInv
<1>2. CASE ~ UNCHANGED <<out, to_link, sent>>
  <2> DEFINE f == next_fragment(out, outgoing_seq_id)
             s == sent[Sent]
             t == [s EXCEPT !.taken = s.taken + f.len]
  <2>1. /\ out.len > 0 /\ to_link' \in {{f}, {}} /\ out' = rest(out)
        /\ sent' = [sent EXCEPT ![out.pkt].taken = @ + f.len]
    BY <1>2 DEF check_fragment, fragment_outgoing_defined, encrypt_sign
  <2>2. /\ out \in OutRecords /\ Sent > 0 /\ out.pkt = Sent /\ RestOf(out, s) /\ Sent \in Nat
        /\ sent \in [1 .. Sent -> SentRecords] /\ Numbers = 1 .. Sent /\ Sent \in 1 .. Sent
        /\ s \in SentRecords /\ outgoing_seq_id \in 0 .. (N_SEQ_ID - 1) /\ Accepted(s)
    BY <1>0, <2>1 DEF SInv, OutOK, SentOK, NothingOutgoing, Numbers
  <2>3. /\ f \in FragRecords /\ f.pkt = Sent /\ f.seq_id = outgoing_seq_id /\ CutFrom(f, s)
        /\ rest(out) \in OutRecords /\ f.len + rest(out).len = out.len
        /\ rest(out) = NothingOutgoing \/ (rest(out).pkt = Sent /\ RestOf(rest(out), s))
    <3> HIDE DEF s
    <3> QED BY <2>2, Cut
  <2> HIDE DEF f
  <2>4. f.len \in Nat
    BY <2>3 DEF FragRecords
  <2>5. /\ t \in SentRecords /\ t.len = s.len /\ t.size = s.size /\ t.payload = s.payload
        /\ t.taken = s.taken + f.len
    <3> DEFINE k == s.taken + f.len
    <3>1. k \in Nat
      BY <2>2, <2>4 DEF SentRecords
    <3> HIDE DEF k
    <3>2. [s EXCEPT !.taken = k] \in SentRecords /\ [s EXCEPT !.taken = k].taken = k
          /\ [s EXCEPT !.taken = k].len = s.len /\ [s EXCEPT !.taken = k].size = s.size
          /\ [s EXCEPT !.taken = k].payload = s.payload
      BY <2>2, <3>1 DEF SentRecords
    <3> QED BY <3>2 DEF k
  <2>6. sent' = [sent EXCEPT ![Sent] = t]
    BY <2>1, <2>2
  <2> HIDE DEF t, s
  <2>7. /\ sent' \in [1 .. Sent -> SentRecords] /\ sent'[Sent] = t
        /\ \A n \in 1 .. Sent : n # Sent => sent'[n] = sent[n]
    BY <2>2, <2>5, <2>6
  <2>8. Numbers' = Numbers /\ Sent' = Sent /\ Drift' = Drift
    <3>1. Numbers' = Numbers
      BY <2>2, <2>7 DEF Numbers
    <3> QED BY <1>0, <3>1 DEF Sent, Drift
  <2>9. SentOK'
    <3>1. Accepted(t)
      BY <2>2, <2>5 DEF Accepted
    <3>2. \A n \in 1 .. Sent : Accepted(sent'[n])
      BY <1>0, <2>7, <3>1 DEF SentOK
    <3> QED BY <1>0, <2>2, <2>7, <2>8, <3>2 DEF SentOK
  <2>10. Grown
    <3>1. Drift \in Int
      BY <2>2, FragmentAssumption DEF Drift
    <3>2. Congruent(Drift, Drift')
      BY <2>8, <3>1, CongruentReflexive
    <3>3. ASSUME NEW n \in 1 .. Sent
          PROVE  sent'[n].len = sent[n].len /\ sent'[n].size = sent[n].size
      BY <2>5, <2>7 DEF s
    <3> QED BY <2>2, <2>8, <3>2, <3>3 DEF Grown
  <2>11. \A g \in net' : Piece(g)'
    BY <1>0, <2>9, <2>10, PieceKept DEF SInv
  <2>12. \A g \in to_link' : g = Other \/ Piece(g)'
    <3> SUFFICES ASSUME NEW g \in to_link' PROVE Piece(g)'
      OBVIOUS
    <3>1. g = f
      BY <2>1
    <3>2. g.pkt = Sent /\ CutFrom(g, sent'[Sent])
      BY <2>3, <2>5, <2>7, <3>1 DEF CutFrom
    <3>3. Congruent(g.seq_id - g.pkt, Drift')
      <4>1. Drift \in Int /\ g.seq_id - g.pkt = Drift
        BY <2>2, <2>3, <3>1, FragmentAssumption DEF Drift
      <4> QED BY <2>8, <4>1, CongruentReflexive
    <3> QED BY <2>2, <2>3, <2>8, <3>1, <3>2, <3>3 DEF Piece
  <2>13. OutOK'
    <3>1. rest(out) = NothingOutgoing \/ (rest(out).pkt = Sent /\ RestOf(rest(out), t))
      BY <2>3, <2>5 DEF RestOf
    <3> QED BY <2>1, <2>2, <2>3, <2>7, <2>8, <3>1 DEF OutOK
  <2>14. NoRestOverwritten'
    <3>1. ASSUME NEW n \in 1 .. Sent, n # Sent
          PROVE  sent'[n].taken + (IF out'.pkt = n THEN out'.len ELSE 0) = sent'[n].len
      <4>1. out'.pkt # n /\ out.pkt # n
        BY <2>1, <2>2, <2>3, <3>1 DEF NothingOutgoing
      <4>2. sent[n].taken + (IF out.pkt = n THEN out.len ELSE 0) = sent[n].len
        BY <2>2 DEF SInv, NoRestOverwritten
      <4> QED BY <2>7, <3>1, <4>1, <4>2
    <3>2. t.taken + (IF out'.pkt = Sent THEN out'.len ELSE 0) = t.len
      <4>1. s.taken + out.len = s.len
        <5>1. sent[Sent].taken + (IF out.pkt = Sent THEN out.len ELSE 0) = sent[Sent].len
          BY <2>2 DEF SInv, NoRestOverwritten
        <5> QED BY <2>2, <5>1 DEF s
      <4>2. s.taken \in Nat /\ out.len \in Nat /\ rest(out).len \in Nat
        BY <2>2, <2>3 DEF SentRecords, OutRecords
      <4>3. CASE out' = NothingOutgoing
        <5>1. out'.pkt = 0 /\ out'.len = 0
          BY <4>3 DEF NothingOutgoing
        <5> QED BY <2>1, <2>2, <2>3, <2>4, <2>5, <4>1, <4>2, <5>1
      <4>4. CASE out'.pkt = Sent
        BY <2>1, <2>3, <2>4, <2>5, <4>1, <4>2, <4>4
      <4> QED BY <2>1, <2>3, <4>3, <4>4
    <3> QED BY <2>2, <2>7, <2>8, <3>1, <3>2 DEF NoRestOverwritten
  <2> QED BY <2>9, <2>10, <2>11, <2>12, <2>13, <2>14 DEF SInv
<1> QED BY <1>1, <1>2

\* Every step keeps the sender's invariant and the datagrams that were cut.
LEMMA SenderStep == SInv /\ [Next]_vars => SInv' /\ Grown
<1> SUFFICES ASSUME SInv, [Next]_vars PROVE SInv' /\ Grown
  OBVIOUS
<1>1. ASSUME UNCHANGED <<out, outgoing_seq_id, sent>>,
             to_link' \subseteq to_link \cup {Other},
             net' \subseteq net \cup (to_link \ {Other})
      PROVE  SInv' /\ Grown
  <2>1. SentOK' /\ Grown /\ Sent' = Sent /\ Numbers' = Numbers /\ SentOK
    BY <1>1, SameSent DEF SInv
  <2>2. OutOK' /\ NoRestOverwritten'
    BY <1>1, <2>1 DEF SInv, OutOK, NoRestOverwritten
  <2>3. \A f \in to_link : f = Other \/ Piece(f)'
    BY <2>1, PieceKept DEF SInv
  <2>4. \A f \in net : Piece(f)'
    BY <2>1, PieceKept DEF SInv
  <2>5. (\A f \in net' : Piece(f)') /\ \A f \in to_link' : f = Other \/ Piece(f)'
    BY <1>1, <2>3, <2>4
  <2> QED BY <2>1, <2>2, <2>5 DEF SInv
<1>2. CASE check_tls \/ process_outgoing_link \/ other_event \/ fragment_ttl_reap \/ UNCHANGED vars
  BY <1>1, <1>2 DEF check_tls, process_outgoing_link, other_event, fragment_ttl_reap, vars,
                    senderVars, receiverVars
<1>3. CASE check_fragment
  BY <1>3, CheckFragment
<1>4. ASSUME NEW len \in Lengths, NEW payload \in Payloads,
             check_send_occ_msg(len, payload) \/ process_incoming_tun(len, payload)
      PROVE  SInv' /\ Grown
  BY <1>4, FragmentOutgoing DEF check_send_occ_msg, process_incoming_tun
<1>5. ASSUME NEW f \in net, process_incoming_link(f) PROVE SInv' /\ Grown
  BY <1>1, <1>5 DEF process_incoming_link, senderVars
<1> QED BY <1>2, <1>3, <1>4, <1>5 DEF Next

LEMMA SenderInit == Init => SInv
<1> SUFFICES ASSUME Init PROVE SInv
  OBVIOUS
<1>1. Numbers = 1 .. 0 /\ sent \in [1 .. 0 -> SentRecords]
  BY DEF Init, Numbers
<1>2. Sent = 0
  BY <1>1, CardinalityUpTo DEF Sent
<1>3. SentOK
  BY <1>1, <1>2, TunnelAssumption DEF SentOK, Init
<1>4. OutOK
  BY DEF OutOK, Init, NothingOutgoing, OutRecords
<1>5. NoRestOverwritten
  BY <1>1 DEF NoRestOverwritten
<1> QED BY <1>3, <1>4, <1>5 DEF SInv, Init

\* No byte of a datagram that fragment_outgoing began to cut is ever
\* overwritten by another datagram, whatever wakes the sender's event loop up
\* and whichever packets have no key.
THEOREM RestIsSafe == Spec => []NoRestOverwritten
<1>1. SInv => NoRestOverwritten
  BY DEF SInv
<1> QED BY <1>1, SenderInit, SenderStep, PTL DEF Spec

\* optimal_fragment_size keeps its promise for every datagram and every path
\* MTU: it evens the sizes out without changing the number of fragments.
THEOREM NumberOfFragmentsKept == Spec => []SameNumberOfFragments
<1>1. SInv => SameNumberOfFragments
  <2> SUFFICES ASSUME SInv, NEW n \in Numbers
               PROVE (sent[n].len - 1) \div sent[n].size = (sent[n].len - 1) \div aligned(sent[n].payload)
    BY DEF SameNumberOfFragments
  <2>1. n \in 1 .. Sent /\ sent[n] \in SentRecords /\ Accepted(sent[n])
    BY DEF SInv, SentOK, Numbers
  <2>2. sent[n].payload \in Payloads /\ sent[n].len \in Nat /\ sent[n].len > sent[n].payload
        /\ sent[n].size = optimal_fragment_size(sent[n].len, sent[n].payload)
    BY <2>1 DEF SentRecords, Accepted
  <2> QED BY <2>2, OptimalSize
<1> QED BY <1>1, SenderInit, SenderStep, PTL DEF Spec

----------------------------------------------------------------------------
(* The receiver's window.  Datagram q, if it is in the window, has a slot  *)
(* of the list of its own.                                                 *)
In(q, pos) == pos - N_FRAG_BUF < q /\ q <= pos
SlotIn(l, pos, q) == modulo_add(l.index, q - pos, N_FRAG_BUF)

Bufs == UNION {[D -> Int \X Int] : D \in SUBSET Int}
Buffers == [defined : BOOLEAN, max_frag_size : Nat, map : SUBSET Int, buf : Bufs]
Lists == [seq_id : 0 .. (N_SEQ_ID - 1), index : 0 .. (N_FRAG_BUF - 1),
          fragments : [0 .. (N_FRAG_BUF - 1) -> Buffers]]

LEMMA ModuloAdd ==
  ASSUME NEW m \in Nat, NEW x \in 0 .. (m - 1), NEW y \in Int, -m < y, y < m
  PROVE  /\ modulo_add(x, y, m) \in 0 .. (m - 1)
         /\ \/ modulo_add(x, y, m) = x + y
            \/ modulo_add(x, y, m) = x + y - m
            \/ modulo_add(x, y, m) = x + y + m
  BY DEF modulo_add

\* Two places that are less than a full turn apart are different ...
LEMMA ModuloAddDistinct ==
  ASSUME NEW m \in Nat, NEW x \in 0 .. (m - 1), NEW y \in Int, NEW z \in Int,
         -m < y, y < m, -m < z, z < m, y < z, z - y < m
  PROVE  modulo_add(x, y, m) # modulo_add(x, z, m)
  BY DEF modulo_add

\* ... and to go d on and then y is to go d + y on.
LEMMA ModuloAddTwice ==
  ASSUME NEW m \in Nat, NEW x \in 0 .. (m - 1), NEW d \in Int, NEW y \in Int,
         -m < y, y < m, -m < d, d < m, -m < d + y, d + y < m
  PROVE  modulo_add(modulo_add(x, d, m), y, m) = modulo_add(x, d + y, m)
<1> DEFINE a == modulo_add(x, d, m)
           b == modulo_add(a, y, m)
           c == modulo_add(x, d + y, m)
<1>1. a \in 0 .. (m - 1) /\ (a = x + d \/ a = x + d - m \/ a = x + d + m)
  BY ModuloAdd
<1> HIDE DEF a
<1>2. b \in 0 .. (m - 1) /\ (b = a + y \/ b = a + y - m \/ b = a + y + m)
  BY <1>1, ModuloAdd
<1>3. d + y \in Int
  OBVIOUS
<1>4. c \in 0 .. (m - 1) /\ (c = x + d + y \/ c = x + d + y - m \/ c = x + d + y + m)
  <2>1. c \in 0 .. (m - 1) /\ (c = x + (d + y) \/ c = x + (d + y) - m \/ c = x + (d + y) + m)
    BY <1>3, ModuloAdd
  <2> HIDE DEF c
  <2> QED BY <2>1
<1> HIDE DEF b, c
<1>5. b = c
  BY <1>1, <1>2, <1>4
<1> QED BY <1>5 DEF a, b, c

\* modulo_subtract finds the distance of two datagrams from their sequence ids
\* if it is less than N_FRAG_BUF; and, within Reach, it never takes a larger
\* distance for one that is.
LEMMA Nearest ==
  ASSUME NEW x \in 0 .. (N_SEQ_ID - 1), NEW y \in 0 .. (N_SEQ_ID - 1), NEW d \in Int,
         Congruent(x - y, d), abs(d) <= Reach
  PROVE  LET ms == modulo_subtract(x, y, N_SEQ_ID)
         IN  /\ ms \in Int
             /\ abs(d) < N_FRAG_BUF => ms = d
             /\ abs(d) >= N_FRAG_BUF => abs(ms) >= N_FRAG_BUF
<1> DEFINE N == N_SEQ_ID
           B == N_FRAG_BUF
<1>1. /\ N \in Nat /\ B \in Nat /\ B > 0 /\ 2 * B <= N /\ Reach \in Nat /\ Reach <= N - B
  BY FragmentAssumption, TunnelAssumption
<1>2. PICK z \in Int : x - y = d + z * N
  BY DEF Congruent
<1>3. -(N - B) <= d /\ d <= N - B
  BY <1>1 DEF abs
<1>4. x - y = d \/ x - y = d + N \/ x - y = d - N
  <2>1. ASSUME z >= 2 PROVE FALSE
    <3>1. z * N >= 2 * N
      BY <1>1, <2>1
    <3>2. z * N \in Int
      BY <1>1
    <3> QED BY <1>1, <1>2, <1>3, <3>1, <3>2
  <2>2. ASSUME z <= -2 PROVE FALSE
    <3>1. z * N <= -(2 * N)
      BY <1>1, <2>2
    <3>2. z * N \in Int
      BY <1>1
    <3> QED BY <1>1, <1>2, <1>3, <3>1, <3>2
  <2>3. z = 0 \/ z = 1 \/ z = -1
    BY <2>1, <2>2
  <2>4. 0 * N = 0 /\ 1 * N = N /\ (-1) * N = -N
    BY <1>1
  <2> QED BY <1>1, <1>2, <2>3, <2>4
<1> QED BY <1>1, <1>3, <1>4 DEF modulo_subtract, abs

LEMMA EmptyBuffers ==
  /\ Undefined \in Buffers /\ ~ Undefined.defined
  /\ \A size \in Nat : /\ fragment(size) \in Buffers /\ fragment(size).defined
                       /\ fragment(size).max_frag_size = size /\ fragment(size).map = {}
                       /\ fragment(size).buf = Empty
  /\ list_init \in Lists
<1>1. Empty \in Bufs
  <2>1. {} \in SUBSET Int
    OBVIOUS
  <2>2. Empty \in [{} -> Int \X Int]
    BY DEF Empty
  <2> QED BY <2>1, <2>2 DEF Bufs
<1> HIDE DEF Empty
<1>2. Undefined \in Buffers /\ ~ Undefined.defined
  BY <1>1 DEF Undefined, Buffers
<1>3. ASSUME NEW size \in Nat
      PROVE  /\ fragment(size) \in Buffers /\ fragment(size).defined
             /\ fragment(size).max_frag_size = size /\ fragment(size).map = {}
             /\ fragment(size).buf = Empty
  BY <1>1 DEF fragment, Buffers
<1>4. list_init \in Lists
  <2>1. 0 \in 0 .. (N_SEQ_ID - 1) /\ 0 \in 0 .. (N_FRAG_BUF - 1)
    BY FragmentAssumption
  <2> QED BY <1>2, <2>1 DEF list_init, Lists
<1> QED BY <1>2, <1>3, <1>4

\* What fragment_list_get_buf makes of the window when a fragment of datagram
\* q arrives: q is in the window then, and the slot of a datagram is what it
\* was before, or is free.
LEMMA Slide ==
  ASSUME NEW l \in Lists, NEW pos \in Int, NEW q \in Int, NEW seq \in 0 .. (N_SEQ_ID - 1),
         Congruent(seq - l.seq_id, q - pos), abs(q - pos) <= Reach
  PROVE  LET k == slide(l, seq)
             new == IF q > pos \/ q <= pos - N_FRAG_BUF THEN q ELSE pos
         IN  /\ k \in Lists /\ In(q, new) /\ get_buf(k, seq) = SlotIn(k, new, q)
             /\ (new = q /\ k.seq_id = seq) \/ (new = pos /\ k.seq_id = l.seq_id)
             /\ \A p \in Int : In(p, new) =>
                  \/ k.fragments[SlotIn(k, new, p)] = Undefined
                     /\ ~(In(p, pos) /\ p > q - N_FRAG_BUF /\ q > pos - N_FRAG_BUF)
                  \/ In(p, pos) /\ k.fragments[SlotIn(k, new, p)] = l.fragments[SlotIn(l, pos, p)]
<1> DEFINE B == N_FRAG_BUF
           N == N_SEQ_ID
           d == q - pos
           diff == modulo_subtract(seq, l.seq_id, N)
           k == slide(l, seq)
           new == IF q > pos \/ q <= pos - B THEN q ELSE pos
           Kept(p) ==
             \/ k.fragments[SlotIn(k, new, p)] = Undefined
                /\ ~(In(p, pos) /\ p > q - B /\ q > pos - B)
             \/ In(p, pos) /\ k.fragments[SlotIn(k, new, p)] = l.fragments[SlotIn(l, pos, p)]
<1> SUFFICES /\ k \in Lists /\ In(q, new) /\ get_buf(k, seq) = SlotIn(k, new, q)
             /\ (new = q /\ k.seq_id = seq) \/ (new = pos /\ k.seq_id = l.seq_id)
             /\ \A p \in Int : In(p, new) => Kept(p)
  OBVIOUS
<1>1. /\ N \in Nat /\ B \in Nat /\ B > 0 /\ 2 * B <= N /\ l.seq_id \in 0 .. (N - 1)
      /\ l.index \in 0 .. (B - 1) /\ l.fragments \in [0 .. (B - 1) -> Buffers]
      /\ DOMAIN l.fragments = 0 .. (B - 1)
  BY FragmentAssumption DEF Lists
<1>2. d \in Int /\ diff \in Int /\ (abs(d) < B => diff = d) /\ (abs(d) >= B => abs(diff) >= B)
  <2>1. d \in Int
    OBVIOUS
  <2> HIDE DEF d
  <2> QED BY <1>1, <2>1, Nearest DEF d
<1>3. modulo_subtract(seq, seq, N) = 0
  BY <1>1 DEF modulo_subtract, abs
<1> HIDE DEF diff
<1>4. CASE abs(d) >= B
  <2>1. new = q /\ In(q, new)
    BY <1>1, <1>2, <1>4 DEF abs, In
  <2>2. k = [list_init EXCEPT !.seq_id = seq]
    BY <1>2, <1>4 DEF slide, diff
  <2>3. /\ k \in Lists /\ k.seq_id = seq /\ k.index = 0
        /\ \A i \in 0 .. (B - 1) : k.fragments[i] = Undefined
    <3>1. /\ list_init \in Lists /\ list_init.index = 0
          /\ \A i \in 0 .. (B - 1) : list_init.fragments[i] = Undefined
      BY EmptyBuffers DEF list_init
    <3> HIDE DEF k
    <3> QED BY <2>2, <3>1 DEF Lists
  <2> HIDE DEF k, new
  <2>4. get_buf(k, seq) = SlotIn(k, new, q)
    <3>1. q - new = 0
      BY <2>1
    <3> QED BY <1>3, <2>3, <3>1 DEF get_buf, SlotIn
  <2>5. ASSUME NEW p \in Int, In(p, new)
        PROVE  /\ k.fragments[SlotIn(k, new, p)] = Undefined
               /\ ~(In(p, pos) /\ p > q - B /\ q > pos - B)
    <3>1. SlotIn(k, new, p) \in 0 .. (B - 1)
      <4>1. k.index \in 0 .. (B - 1) /\ p - new \in Int /\ -B < p - new /\ p - new < B
        BY <1>1, <2>1, <2>3, <2>5, SMTT(60) DEF In
      <4> QED BY <1>1, <4>1, ModuloAdd DEF SlotIn
    <3>2. ~(In(p, pos) /\ p > q - B /\ q > pos - B)
      BY <1>1, <1>2, <1>4 DEF abs, In
    <3> QED BY <2>3, <3>1, <3>2
  <2> QED BY <2>1, <2>3, <2>4, <2>5
<1>5. CASE abs(d) < B /\ d > 0
  <2>0. diff = d /\ d < B /\ ~(abs(diff) >= B)
    BY <1>1, <1>2, <1>5 DEF abs
  <2>1. new = q /\ In(q, new)
    BY <1>1, <1>5 DEF In
  <2> DEFINE index == modulo_add(l.index, d, B)
             frags == [i \in 0 .. (B - 1) |->
                         IF \E j \in 1 .. d : i = modulo_add(l.index, j, B)
                         THEN Undefined ELSE l.fragments[i]]
  <2>2. k = [seq_id |-> seq, index |-> index, fragments |-> frags]
    BY <1>1, <1>5, <2>0 DEF slide, diff
  <2>3. index \in 0 .. (B - 1)
    <3>1. d \in Int /\ -B < d /\ d < B
      BY <1>1, <1>2, <1>5, <2>0
    <3> HIDE DEF B, d
    <3> QED BY <1>1, <3>1, ModuloAdd
  <2>4. frags \in [0 .. (B - 1) -> Buffers]
    BY <1>1, EmptyBuffers
  <2> HIDE DEF index, frags
  <2>5. k \in Lists /\ k.seq_id = seq /\ k.index = index /\ k.fragments = frags
    BY <2>2, <2>3, <2>4 DEF Lists
  <2> HIDE DEF k, new
  <2>6. get_buf(k, seq) = SlotIn(k, new, q)
    <3>1. q - new = 0
      BY <2>1
    <3> QED BY <1>3, <2>5, <3>1 DEF get_buf, SlotIn
  <2>7. ASSUME NEW p \in Int, In(p, new) PROVE Kept(p)
    <3> DEFINE e == p - pos
    <3>1. e \in Int /\ -B < e /\ e < B /\ e <= d /\ p - new = e - d /\ -B < e - d /\ e - d < B
      BY <1>1, <1>5, <2>0, <2>1, <2>7 DEF In
    <3> HIDE DEF d, e
    <3>2. SlotIn(k, new, p) = modulo_add(l.index, e, B)
      <4>1. modulo_add(modulo_add(l.index, d, B), e - d, B) = modulo_add(l.index, d + (e - d), B)
        <5> DEFINE y == e - d
        <5>1. /\ y \in Int /\ -B < y /\ y < B /\ d \in Int /\ -B < d /\ d < B
              /\ -B < d + y /\ d + y < B
          BY <1>1, <1>2, <1>5, <2>0, <3>1
        <5> HIDE DEF y
        <5>2. modulo_add(modulo_add(l.index, d, B), y, B) = modulo_add(l.index, d + y, B)
          BY <1>1, <5>1, ModuloAddTwice
        <5> QED BY <5>2 DEF y
      <4>2. d + (e - d) = e
        BY <1>2, <3>1
      <4> QED BY <2>5, <3>1, <4>1, <4>2 DEF SlotIn, index
    <3>3. modulo_add(l.index, e, B) \in 0 .. (B - 1)
      BY <1>1, <3>1, ModuloAdd
    <3>4. SlotIn(l, pos, p) = modulo_add(l.index, e, B)
      BY DEF SlotIn, e
    <3>5. CASE e > 0
      <4>1. e \in 1 .. d
        BY <1>2, <3>1, <3>5
      <4>2. frags[modulo_add(l.index, e, B)] = Undefined
        BY <3>3, <4>1 DEF frags
      <4>3. ~ In(p, pos)
        BY <3>5 DEF In, e
      <4> QED BY <2>5, <3>2, <4>2, <4>3
    <3>6. CASE ~(e > 0)
      <4>1. In(p, pos)
        BY <1>1, <3>1, <3>6 DEF In, e
      <4>2. ASSUME NEW j \in 1 .. d PROVE modulo_add(l.index, e, B) # modulo_add(l.index, j, B)
        <5>1. j \in Int /\ -B < j /\ j < B /\ e < j /\ j - e < B
          BY <1>1, <1>2, <2>0, <3>1, <3>6
        <5> QED BY <1>1, <3>1, <5>1, ModuloAddDistinct
      <4>3. frags[modulo_add(l.index, e, B)] = l.fragments[modulo_add(l.index, e, B)]
        BY <3>3, <4>2 DEF frags
      <4> QED BY <2>5, <3>2, <3>4, <4>1, <4>3
    <3> QED BY <3>5, <3>6
  <2> QED BY <2>1, <2>5, <2>6, <2>7
<1>6. CASE abs(d) < B /\ ~(d > 0)
  <2>1. diff = d /\ ~(abs(diff) >= B) /\ new = pos /\ In(q, new)
    BY <1>1, <1>2, <1>6 DEF abs, In
  <2>2. k = l
    BY <1>6, <2>1 DEF slide, diff
  <2> HIDE DEF k, new
  <2>3. get_buf(k, seq) = SlotIn(k, new, q)
    BY <2>1, <2>2 DEF get_buf, SlotIn, diff
  <2> QED BY <2>1, <2>2, <2>3
<1>7. abs(d) >= B \/ abs(d) < B
  BY <1>1, <1>2 DEF abs
<1> QED BY <1>4, <1>5, <1>6, <1>7

----------------------------------------------------------------------------
(* Reassembly.  A buffer holds the bytes of one datagram, each in its      *)
(* place, and exactly those that its map says it holds.                    *)
Covered(s, map) ==
  {i \in 0 .. (s.len - 1) : \E k \in map : k * s.size <= i /\ i < k * s.size + s.size}
AllFrags == 0 .. (MAX_FRAGS - 1)

Holds(b, q, s) ==
  b.defined =>
    /\ b.max_frag_size = s.size
    /\ b.map \subseteq AllFrags /\ b.map # AllFrags
    /\ \A k \in b.map, j \in AllFrags : s.len <= k * s.size + s.size /\ k <= j => j \in b.map
    /\ b.buf = [i \in Covered(s, b.map) |-> <<q, i>>]

\* What a piece of a datagram covers.
LEMMA PieceRange ==
  ASSUME NEW s \in SentRecords, Accepted(s), NEW f \in FragRecords, CutFrom(f, s)
  PROVE  /\ f.frag_id \in AllFrags /\ f.len > 0 /\ f.from + f.len <= s.len
         /\ frag_map(f) \subseteq AllFrags /\ f.frag_id \in frag_map(f)
         /\ \A i \in Int : i \in f.from .. (f.from + f.len - 1) <=>
                             i \in Covered(s, frag_map(f))
         /\ \A k \in frag_map(f), j \in AllFrags :
              s.len <= k * s.size + s.size /\ k <= j => j \in frag_map(f)
<1> DEFINE id == f.frag_id
           size == s.size
           len == s.len
           from == f.from
<1>1. /\ id \in Nat /\ size \in Nat /\ size > 0 /\ len \in Nat /\ from \in Nat /\ f.len \in Nat
      /\ f.last \in BOOLEAN /\ f.size = size /\ from = id * size /\ from < len
      /\ (f.last <=> len - from <= size) /\ f.len = (IF f.last THEN len - from ELSE size)
      /\ len <= size * MAX_FRAGS /\ MAX_FRAGS \in Nat
  BY FragmentAssumption DEF SentRecords, FragRecords, CutFrom, Accepted
<1> HIDE DEF id, size, len, from
<1>2. id < MAX_FRAGS
  <2>1. ASSUME id >= MAX_FRAGS PROVE FALSE
    <3>1. id * size >= MAX_FRAGS * size
      BY <1>1, <2>1
    <3>2. MAX_FRAGS * size = size * MAX_FRAGS
      BY <1>1
    <3>3. id * size < size * MAX_FRAGS
      <4>1. id * size \in Int /\ size * MAX_FRAGS \in Int
        BY <1>1
      <4> QED BY <1>1, <4>1
    <3>4. id * size \in Int /\ size * MAX_FRAGS \in Int
      BY <1>1
    <3> QED BY <3>1, <3>2, <3>3, <3>4
  <2> QED BY <1>1, <2>1
<1>3. id \in AllFrags
  BY <1>1, <1>2 DEF AllFrags
<1>4. f.len > 0 /\ from + f.len <= len
  BY <1>1
<1>5. frag_map(f) = IF f.last THEN id .. (MAX_FRAGS - 1) ELSE {id}
  BY DEF frag_map, id
<1>6. frag_map(f) \subseteq AllFrags /\ id \in frag_map(f)
  BY <1>1, <1>2, <1>5 DEF AllFrags
<1>7. ASSUME NEW k \in frag_map(f), k # id PROVE f.last /\ k \in Nat /\ k * size >= len
  <2>1. f.last /\ k \in Nat /\ k >= id + 1
    BY <1>1, <1>5, <1>7
  <2>2. k * size >= (id + 1) * size
    BY <1>1, <2>1
  <2>3. (id + 1) * size = from + size /\ k * size \in Int
    BY <1>1, <2>1
  <2> QED BY <1>1, <2>1, <2>2, <2>3
<1>8. ASSUME NEW i \in Int
      PROVE  i \in from .. (from + f.len - 1) <=> i \in Covered(s, frag_map(f))
  <2>1. i \in from .. (from + f.len - 1) <=> i \in 0 .. (len - 1) /\ from <= i /\ i < from + size
    BY <1>1
  <2>2. (\E k \in frag_map(f) : k * size <= i /\ i < k * size + size) /\ i \in 0 .. (len - 1)
          => from <= i /\ i < from + size
    <3> SUFFICES ASSUME i \in 0 .. (len - 1), NEW k \in frag_map(f), k * size <= i, i < k * size + size
                 PROVE  from <= i /\ i < from + size
      OBVIOUS
    <3>1. CASE k = id
      BY <1>1, <3>1
    <3>2. CASE k # id
      <4>1. k * size >= len /\ k * size \in Int
        BY <1>1, <1>7, <3>2
      <4> QED BY <1>1, <4>1
    <3> QED BY <3>1, <3>2
  <2>3. from <= i /\ i < from + size => \E k \in frag_map(f) : k * size <= i /\ i < k * size + size
    BY <1>1, <1>6
  <2>4. i \in Covered(s, frag_map(f)) <=>
          i \in 0 .. (len - 1) /\ \E k \in frag_map(f) : k * size <= i /\ i < k * size + size
    BY DEF Covered, len, size
  <2> QED BY <2>1, <2>2, <2>3, <2>4
<1>9. ASSUME NEW k \in frag_map(f), NEW j \in AllFrags, len <= k * size + size, k <= j
      PROVE  j \in frag_map(f)
  <2>1. f.last
    <3>1. CASE k = id
      BY <1>1, <1>9, <3>1
    <3>2. CASE k # id
      BY <1>7, <3>2
    <3> QED BY <3>1, <3>2
  <2>2. k \in id .. (MAX_FRAGS - 1)
    BY <1>5, <2>1
  <2>3. j \in id .. (MAX_FRAGS - 1)
    BY <1>1, <1>9, <2>2 DEF AllFrags
  <2> QED BY <1>5, <2>1, <2>3
<1> QED BY <1>3, <1>4, <1>6, <1>8, <1>9 DEF id, size, len, from

\* A full map covers the whole datagram.
LEMMA FullCover ==
  ASSUME NEW s \in SentRecords, Accepted(s)
  PROVE  Covered(s, AllFrags) = 0 .. (s.len - 1)
<1>1. s.len \in Nat /\ s.size \in Nat /\ s.size > 0 /\ s.len <= s.size * MAX_FRAGS /\ MAX_FRAGS \in Nat
  BY FragmentAssumption DEF SentRecords, Accepted
<1>2. ASSUME NEW i \in 0 .. (s.len - 1)
      PROVE  \E k \in AllFrags : k * s.size <= i /\ i < k * s.size + s.size
  <2> DEFINE k == i \div s.size
             size == s.size
  <2>1. i \in Int /\ i >= 0 /\ i < s.len
    BY <1>1
  <2>2. k \in Nat /\ i % size \in 0 .. (size - 1) /\ i = size * k + (i % size)
    BY <1>1, <2>1, DivMod
  <2> HIDE DEF k, size
  <2>3. k * size = size * k /\ size * k \in Int /\ size \in Nat
    BY <1>1, <2>2 DEF size
  <2>4. k * size <= i /\ i < k * size + size
    BY <2>1, <2>2, <2>3
  <2>5. k < MAX_FRAGS
    <3>1. ASSUME k >= MAX_FRAGS PROVE FALSE
      <4>1. size * k >= size * MAX_FRAGS
        BY <1>1, <2>2, <2>3, <3>1
      <4>2. size * MAX_FRAGS \in Int
        BY <1>1, <2>3
      <4>3. s.len <= size * MAX_FRAGS
        BY <1>1 DEF size
      <4> QED BY <1>1, <2>1, <2>3, <2>4, <4>1, <4>2, <4>3
    <3> QED BY <1>1, <2>2, <3>1
  <2>6. k \in AllFrags
    BY <1>1, <2>2, <2>5 DEF AllFrags
  <2> QED BY <2>4, <2>6 DEF size
<1> QED BY <1>2 DEF Covered

Filled(b, f) == [b EXCEPT !.buf = buf_copy_range(@, f.frag_id * f.size, f),
                         !.map = @ \cup frag_map(f)]

\* The bytes of a piece go to their places in a buffer of its datagram.
LEMMA Fill ==
  ASSUME NEW s \in SentRecords, Accepted(s), NEW f \in FragRecords, CutFrom(f, s),
         NEW b \in Buffers, b.defined, b.max_frag_size = s.size, b.map \subseteq AllFrags,
         \A k \in b.map, j \in AllFrags : s.len <= k * s.size + s.size /\ k <= j => j \in b.map,
         b.buf = [i \in Covered(s, b.map) |-> <<f.pkt, i>>]
  PROVE  LET new == Filled(b, f)
         IN  /\ new \in Buffers /\ new.defined /\ new.map = b.map \cup frag_map(f)
             /\ new.max_frag_size = s.size
             /\ f.frag_id \in new.map /\ new.map \subseteq AllFrags
             /\ new.buf = [i \in Covered(s, new.map) |-> <<f.pkt, i>>]
             /\ new.map # AllFrags => Holds(new, f.pkt, s)
<1> DEFINE m == b.map \cup frag_map(f)
           range == f.from .. (f.from + f.len - 1)
           C == Covered(s, m)
           w == [i \in C |-> <<f.pkt, i>>]
           x == buf_copy_range(b.buf, f.frag_id * f.size, f)
           new == [b EXCEPT !.buf = x, !.map = m]
<1>1. /\ frag_map(f) \subseteq AllFrags /\ f.frag_id \in frag_map(f)
      /\ \A i \in Int : i \in range <=> i \in Covered(s, frag_map(f))
      /\ \A k \in frag_map(f), j \in AllFrags :
           s.len <= k * s.size + s.size /\ k <= j => j \in frag_map(f)
  BY PieceRange
<1>2. f.from = f.frag_id * f.size /\ f.from \in Nat /\ f.len \in Nat /\ f.pkt \in Nat
  BY DEF CutFrom, FragRecords
<1>3. C = Covered(s, b.map) \cup range /\ C \subseteq Int
  <2>1. \A i : i \in C <=> i \in Covered(s, b.map) \/ i \in Covered(s, frag_map(f))
    BY DEF Covered
  <2>2. C \subseteq Int /\ range \subseteq Int /\ Covered(s, frag_map(f)) \subseteq Int
    BY <1>2 DEF Covered
  <2> HIDE DEF C, range
  <2> QED BY <1>1, <2>1, <2>2
<1>4. x = w
  <2>1. x = [i \in DOMAIN b.buf \cup range |->
               IF i \in range THEN <<f.pkt, f.from + i - f.from>> ELSE b.buf[i]]
    BY <1>2 DEF buf_copy_range
  <2>2. DOMAIN b.buf \cup range = C
    BY <1>3
  <2> HIDE DEF C
  <2>3. \A i \in C : (IF i \in range THEN <<f.pkt, f.from + i - f.from>> ELSE b.buf[i]) = <<f.pkt, i>>
    <3> SUFFICES ASSUME NEW i \in C
                 PROVE  (IF i \in range THEN <<f.pkt, f.from + i - f.from>> ELSE b.buf[i]) = <<f.pkt, i>>
      OBVIOUS
    <3>1. CASE i \in range
      <4>1. f.from + i - f.from = i
        BY <1>2, <3>1
      <4> QED BY <3>1, <4>1
    <3>2. CASE i \notin range
      <4>1. i \in Covered(s, b.map)
        BY <1>3, <3>2
      <4> QED BY <3>2, <4>1
    <3> QED BY <3>1, <3>2
  <2> HIDE DEF x, range
  <2> QED BY <2>1, <2>2, <2>3
<1>5. w \in Bufs
  <2>1. C \in SUBSET Int
    BY <1>3
  <2>2. w \in [C -> Int \X Int]
    <3> HIDE DEF C
    <3> QED BY <1>2, <2>1
  <2> QED BY <2>1, <2>2 DEF Bufs
<1>6. m \subseteq AllFrags /\ m \in SUBSET Int
  BY <1>1, FragmentAssumption DEF AllFrags
<1>7. \A k \in m, j \in AllFrags : s.len <= k * s.size + s.size /\ k <= j => j \in m
  BY <1>1
<1> HIDE DEF m, C, w, x, range
<1>8. /\ new \in Buffers /\ new.defined /\ new.map = m /\ new.buf = w
      /\ new.max_frag_size = s.size
  BY <1>4, <1>5, <1>6 DEF Buffers
<1> HIDE DEF new
<1>9. new.map # AllFrags => Holds(new, f.pkt, s)
  BY <1>6, <1>7, <1>8 DEF Holds, w, C
<1>10. f.frag_id \in new.map /\ new.buf = [i \in Covered(s, new.map) |-> <<f.pkt, i>>]
  BY <1>1, <1>8 DEF m, w, C
<1>11. Filled(b, f) = new
  BY DEF Filled, new, x, m
<1> QED BY <1>6, <1>8, <1>9, <1>10, <1>11 DEF m

\* What fragment_incoming returns once the window has moved: the datagram is
\* complete and its slot is free again, or the slot holds one piece more of it.
Joined(r, l, at, f, s) ==
  \E b \in Buffers :
    /\ r.list = [l EXCEPT !.fragments = [l.fragments EXCEPT ![at] = b]]
    /\ \/ b = Undefined /\ r.datagram = [i \in 0 .. (s.len - 1) |-> <<f.pkt, i>>]
       \/ /\ r.datagram = Empty /\ b.defined /\ Holds(b, f.pkt, s)
          /\ f.frag_id \in b.map
          /\ l.fragments[at].defined => l.fragments[at].map \subseteq b.map

LEMMA Join ==
  ASSUME NEW s \in SentRecords, Accepted(s), NEW f \in FragRecords, CutFrom(f, s),
         NEW l0, NEW l \in Lists, l = slide(l0, f.seq_id),
         NEW at \in 0 .. (N_FRAG_BUF - 1), at = get_buf(l, f.seq_id),
         Holds(l.fragments[at], f.pkt, s)
  PROVE  Joined(fragment_incoming(l0, f), l, at, f, s)
<1> DEFINE old == l.fragments[at]
           frag == IF ~ old.defined \/ old.max_frag_size # f.size THEN fragment(f.size) ELSE old
           filled == Filled(frag, f)
           full == filled.map = AllFrags
<1>1. old \in Buffers /\ f.size \in Nat /\ f.size = s.size /\ s.size \in Nat
  BY DEF Lists, FragRecords, CutFrom, SentRecords
<1>2. /\ frag \in Buffers /\ frag.defined /\ frag.max_frag_size = s.size /\ frag.map \subseteq AllFrags
      /\ \A k \in frag.map, j \in AllFrags : s.len <= k * s.size + s.size /\ k <= j => j \in frag.map
      /\ frag.buf = [i \in Covered(s, frag.map) |-> <<f.pkt, i>>]
      /\ old.defined => frag = old
  <2> HIDE DEF old
  <2>1. CASE old.defined
    <3>1. /\ old.max_frag_size = s.size /\ old.map \subseteq AllFrags
          /\ \A k \in old.map, j \in AllFrags : s.len <= k * s.size + s.size /\ k <= j => j \in old.map
          /\ old.buf = [i \in Covered(s, old.map) |-> <<f.pkt, i>>]
      BY <2>1 DEF Holds, old
    <3>2. frag = old
      BY <1>1, <2>1, <3>1
    <3> HIDE DEF frag
    <3> QED BY <1>1, <2>1, <3>1, <3>2
  <2>2. CASE ~ old.defined
    <3>1. frag = fragment(f.size)
      BY <2>2
    <3>2. frag \in Buffers /\ frag.defined /\ frag.max_frag_size = f.size /\ frag.map = {} /\ frag.buf = Empty
      BY <1>1, <3>1, EmptyBuffers
    <3>3. Covered(s, {}) = {}
      BY DEF Covered
    <3>4. [i \in Covered(s, {}) |-> <<f.pkt, i>>] = Empty
      BY <3>3 DEF Empty
    <3> HIDE DEF frag
    <3> QED BY <1>1, <2>2, <3>2, <3>4
  <2> QED BY <2>1, <2>2
<1>3. /\ filled \in Buffers /\ filled.defined /\ filled.map = frag.map \cup frag_map(f)
      /\ f.frag_id \in filled.map
      /\ filled.buf = [i \in Covered(s, filled.map) |-> <<f.pkt, i>>]
      /\ filled.map # AllFrags => Holds(filled, f.pkt, s)
  <2> HIDE DEF frag
  <2> QED BY <1>2, Fill
<1>4. f.size % FRAG_SIZE_ROUND = 0 /\ ~(f.frag_id * f.size + f.len > Capacity)
  <2>1. /\ s.payload \in Payloads /\ s.len \in Nat /\ s.len > s.payload /\ s.len \in Lengths
        /\ s.size = optimal_fragment_size(s.len, s.payload)
    BY DEF SentRecords, Accepted
  <2>2. s.size % FRAG_SIZE_ROUND = 0
    BY <2>1, OptimalSize
  <2>3. s.len <= Capacity /\ Capacity \in Nat
    BY <2>1, TunnelAssumption, FragmentAssumption
  <2>4. f.from + f.len <= s.len /\ f.from = f.frag_id * f.size /\ f.from \in Nat /\ f.len \in Nat
    BY PieceRange DEF CutFrom, FragRecords
  <2> QED BY <1>1, <2>1, <2>2, <2>3, <2>4
<1> DEFINE b == IF full THEN Undefined ELSE filled
<1>5. fragment_incoming(l0, f) =
        [list |-> [l EXCEPT !.fragments[at] = b], datagram |-> IF full THEN filled.buf ELSE Empty]
  <2> DEFINE short == [l EXCEPT !.fragments[at] = frag]
             done == [l EXCEPT !.fragments[at] = b]
             whole == IF full THEN filled.buf ELSE Empty
  <2>1. fragment_incoming(l0, f) =
          IF f.size % FRAG_SIZE_ROUND # 0
          THEN [list |-> l, datagram |-> Empty]
          ELSE IF f.frag_id * f.size + f.len > Capacity
          THEN [list |-> short, datagram |-> Empty]
          ELSE [list |-> done, datagram |-> whole]
    BY Zenon DEF fragment_incoming, AllFrags, Filled
  <2> HIDE DEF short, done, whole
  <2>2. fragment_incoming(l0, f) = [list |-> done, datagram |-> whole]
    BY <1>4, <2>1, Zenon
  <2> QED BY <2>2 DEF done, whole
<1> HIDE DEF filled, frag
<1>6. b \in Buffers
  BY <1>3, EmptyBuffers
<1>7. [l EXCEPT !.fragments[at] = b] = [l EXCEPT !.fragments = [l.fragments EXCEPT ![at] = b]]
  OBVIOUS
<1>8. CASE full
  <2>1. filled.buf = [i \in 0 .. (s.len - 1) |-> <<f.pkt, i>>]
    BY <1>3, <1>8, FullCover
  <2>2. b = Undefined
    BY <1>8
  <2> HIDE DEF b
  <2>3. /\ fragment_incoming(l0, f).list = [l EXCEPT !.fragments = [l.fragments EXCEPT ![at] = b]]
        /\ fragment_incoming(l0, f).datagram = [i \in 0 .. (s.len - 1) |-> <<f.pkt, i>>]
    BY <1>5, <1>7, <1>8, <2>1
  <2> QED BY <1>6, <2>2, <2>3 DEF Joined
<1>9. CASE ~full
  <2>1. b = filled
    BY <1>9
  <2>2. old.defined => old.map \subseteq b.map
    BY <1>2, <1>3, <2>1
  <2>3. b.defined /\ Holds(b, f.pkt, s) /\ f.frag_id \in b.map
    BY <1>3, <1>9, <2>1
  <2> HIDE DEF b
  <2>4. /\ fragment_incoming(l0, f).list = [l EXCEPT !.fragments = [l.fragments EXCEPT ![at] = b]]
        /\ fragment_incoming(l0, f).datagram = Empty
    BY <1>5, <1>7, <1>9
  <2> QED BY <1>6, <2>2, <2>3, <2>4 DEF Joined
<1> QED BY <1>8, <1>9

----------------------------------------------------------------------------
(* The receiver's invariant.  The slot of a datagram in the window holds   *)
(* pieces of that datagram only, and every piece that arrived since the    *)
(* datagram was last delivered or given up.                                *)
Slot(q) == list.fragments[SlotIn(list, position, q)]

SlotOK(q) == Slot(q).defined => q \in Numbers /\ Holds(Slot(q), q, sent[q])

HeardIn(h) ==
  /\ h[1] \in Numbers /\ In(h[1], position) /\ Slot(h[1]).defined
  /\ h[2] \in Slot(h[1]).map /\ h[2] \in Nat /\ h[2] * sent[h[1]].size < sent[h[1]].len

RInv ==
  /\ list \in Lists /\ position \in Int
  /\ Congruent(list.seq_id - position, Drift)
  /\ \A q \in Int : In(q, position) => SlotOK(q)
  /\ \A h \in heard : HeardIn(h)
  /\ OnlyWholeDatagrams

LEMMA SlotRange ==
  ASSUME NEW l \in Lists, NEW pos \in Int, NEW q \in Int, In(q, pos)
  PROVE  SlotIn(l, pos, q) \in 0 .. (N_FRAG_BUF - 1)
<1>1. /\ N_FRAG_BUF \in Nat /\ l.index \in 0 .. (N_FRAG_BUF - 1) /\ q - pos \in Int
      /\ -N_FRAG_BUF < q - pos /\ q - pos < N_FRAG_BUF
  BY FragmentAssumption DEF Lists, In
<1> QED BY <1>1, ModuloAdd DEF SlotIn

LEMMA SlotsDiffer ==
  ASSUME NEW l \in Lists, NEW pos \in Int, NEW p \in Int, NEW q \in Int,
         In(p, pos), In(q, pos), p # q
  PROVE  SlotIn(l, pos, p) # SlotIn(l, pos, q)
<1> DEFINE B == N_FRAG_BUF
           y == p - pos
           z == q - pos
<1>1. /\ B \in Nat /\ l.index \in 0 .. (B - 1) /\ y \in Int /\ z \in Int
      /\ -B < y /\ y < B /\ -B < z /\ z < B
      /\ (y < z /\ z - y < B) \/ (z < y /\ y - z < B)
  BY FragmentAssumption DEF Lists, In
<1> HIDE DEF y, z
<1>2. modulo_add(l.index, y, B) # modulo_add(l.index, z, B)
  BY <1>1, ModuloAddDistinct
<1> QED BY <1>2 DEF SlotIn, y, z

LEMMA NumbersAreInts ==
  ASSUME SentOK, NEW n \in Numbers
  PROVE  n \in Nat /\ n > 0 /\ sent[n] \in SentRecords /\ Accepted(sent[n])
  BY DEF SentOK, Numbers

\* The steps of the sender do not touch the receiver.
LEMMA SenderKeepsReceiver ==
  ASSUME SInv, SInv', Grown, RInv, UNCHANGED receiverVars
  PROVE  RInv'
<1>1. list' = list /\ position' = position /\ heard' = heard /\ delivered' = delivered
  BY DEF receiverVars
<1>2. Drift \in Int /\ Drift' \in Int /\ list.seq_id - position \in Int
  BY FragmentAssumption DEF SInv, SentOK, Drift, RInv, Lists
<1>3. Congruent(list'.seq_id - position', Drift')
  BY <1>1, <1>2, CongruentTransitive DEF Grown, RInv
<1>4. ASSUME NEW q, NEW b, q \in Numbers, Holds(b, q, sent[q]) PROVE Holds(b, q, sent'[q])
  <2>1. sent'[q].len = sent[q].len /\ sent'[q].size = sent[q].size
    BY <1>4 DEF Grown
  <2>2. \A map : Covered(sent'[q], map) = Covered(sent[q], map)
    BY <2>1 DEF Covered
  <2> QED BY <1>4, <2>1, <2>2 DEF Holds
<1>5. ASSUME NEW q \in Int, In(q, position) PROVE SlotOK(q)'
  <2>1. SlotOK(q) /\ Slot(q)' = Slot(q)
    BY <1>1, <1>5 DEF RInv, Slot
  <2> QED BY <1>4, <2>1 DEF SlotOK, Grown
<1>6. ASSUME NEW h \in heard PROVE HeardIn(h)'
  <2>1. HeardIn(h)
    BY DEF RInv
  <2>2. h[1] \in Numbers /\ h[1] \in Numbers'
        /\ sent'[h[1]].len = sent[h[1]].len /\ sent'[h[1]].size = sent[h[1]].size
    BY <2>1 DEF HeardIn, Grown
  <2>3. Slot(h[1])' = Slot(h[1])
    BY <1>1 DEF Slot
  <2> QED BY <1>1, <2>1, <2>2, <2>3 DEF HeardIn
<1>7. OnlyWholeDatagrams'
  <2>1. CASE delivered = Empty
    BY <1>1, <2>1 DEF OnlyWholeDatagrams
  <2>2. CASE delivered # Empty
    <3>1. PICK n \in Numbers : delivered = Whole(n)
      BY <2>2 DEF RInv, OnlyWholeDatagrams
    <3>2. n \in Numbers' /\ sent'[n].len = sent[n].len
      BY DEF Grown
    <3>3. delivered' = [i \in 0 .. (sent'[n].len - 1) |-> <<n, i>>]
      BY <1>1, <3>1, <3>2 DEF Whole
    <3> QED BY <3>2, <3>3 DEF OnlyWholeDatagrams, Whole
  <2> QED BY <2>1, <2>2
<1> QED BY <1>1, <1>3, <1>5, <1>6, <1>7 DEF RInv

\* fragment_ttl_reap frees slots; what is heard of their datagrams is given up.
LEMMA ReapReceiver ==
  ASSUME SInv, RInv, fragment_ttl_reap
  PROVE  RInv'
<1>1. PICK old \in SUBSET {i \in DOMAIN list.fragments : list.fragments[i].defined} :
        /\ list' = [list EXCEPT !.fragments =
                      [i \in DOMAIN list.fragments |-> IF i \in old THEN Undefined ELSE list.fragments[i]]]
        /\ heard' = {h \in heard : \A i \in old : \A b \in DOMAIN list.fragments[i].buf :
                                       list.fragments[i].buf[b][1] # h[1]}
        /\ UNCHANGED <<senderVars, net, position, delivered>>
  BY DEF fragment_ttl_reap, RInv, Lists
<1> DEFINE I == 0 .. (N_FRAG_BUF - 1)
           frags == [i \in I |-> IF i \in old THEN Undefined ELSE list.fragments[i]]
<1>2. list \in Lists /\ list.fragments \in [I -> Buffers] /\ DOMAIN list.fragments = I
  BY DEF RInv, Lists
<1>3. frags \in [I -> Buffers] /\ list' = [list EXCEPT !.fragments = frags]
  BY <1>1, <1>2, EmptyBuffers
<1>4. /\ list' \in Lists /\ list'.fragments = frags /\ list'.index = list.index
      /\ list'.seq_id = list.seq_id
  <2> HIDE DEF frags
  <2> QED BY <1>2, <1>3 DEF Lists
<1>5. sent' = sent /\ position' = position /\ delivered' = delivered /\ Numbers' = Numbers
      /\ Drift' = Drift
  BY <1>1 DEF senderVars, Numbers, Drift, Sent
<1>6. ASSUME NEW q \in Int, In(q, position)
      PROVE  /\ SlotIn(list, position, q) \in I /\ SlotIn(list', position', q) = SlotIn(list, position, q)
             /\ Slot(q)' = IF SlotIn(list, position, q) \in old THEN Undefined ELSE Slot(q)
  <2>1. SlotIn(list, position, q) \in I
    BY <1>2, <1>6, SlotRange DEF RInv
  <2>2. SlotIn(list', position', q) = SlotIn(list, position, q)
    BY <1>4, <1>5 DEF SlotIn
  <2> QED BY <1>4, <2>1, <2>2 DEF Slot
<1>7. ASSUME NEW q \in Int, In(q, position) PROVE SlotOK(q)'
  <2>1. SlotOK(q)
    BY <1>7 DEF RInv
  <2>2. Slot(q)' = Undefined \/ Slot(q)' = Slot(q)
    BY <1>6, <1>7
  <2> QED BY <1>5, <2>1, <2>2, EmptyBuffers DEF SlotOK
<1>8. ASSUME NEW h \in heard' PROVE HeardIn(h)'
  <2> DEFINE q == h[1]
             s == sent[q]
             at == SlotIn(list, position, q)
  <2>1. HeardIn(h)
    BY <1>1 DEF RInv
  <2>2. q \in Numbers /\ q \in Int /\ In(q, position) /\ s \in SentRecords
    BY <2>1, NumbersAreInts DEF HeardIn, SInv
  <2>3. at \notin old
    <3>1. ASSUME at \in old PROVE FALSE
      <4>1. Slot(q).buf = [i \in Covered(s, Slot(q).map) |-> <<q, i>>]
        BY <2>1, <2>2 DEF RInv, SlotOK, Holds, HeardIn
      <4> DEFINE i == h[2] * s.size
      <4>2. i \in 0 .. (s.len - 1) /\ i < i + s.size
        <5>1. h[2] \in Nat /\ s.size \in Nat /\ s.size > 0 /\ s.len \in Nat /\ i < s.len
          BY <2>1, <2>2 DEF HeardIn, SentRecords
        <5>2. i \in Nat
          BY <5>1
        <5> HIDE DEF i
        <5> QED BY <5>1, <5>2
      <4>3. i \in Covered(s, Slot(q).map)
        <5>1. h[2] \in Slot(q).map /\ h[2] * s.size <= i /\ i < h[2] * s.size + s.size
          BY <2>1, <4>2 DEF HeardIn
        <5> QED BY <4>2, <5>1 DEF Covered
      <4>4. i \in DOMAIN Slot(q).buf /\ Slot(q).buf[i][1] = q
        BY <4>1, <4>3
      <4> QED BY <1>1, <3>1, <4>4 DEF Slot
    <3> QED BY <3>1
  <2>4. Slot(q)' = Slot(q)
    BY <1>6, <2>2, <2>3
  <2> QED BY <1>5, <2>1, <2>4 DEF HeardIn
<1>9. OnlyWholeDatagrams'
  BY <1>5 DEF RInv, OnlyWholeDatagrams, Whole
<1> QED BY <1>4, <1>5, <1>7, <1>8, <1>9 DEF RInv

LEMMA CongruentDifference ==
  ASSUME NEW a \in Int, NEW b \in Int, NEW p \in Int, NEW q \in Int, NEW d \in Int,
         Congruent(a - q, d), Congruent(b - p, d)
  PROVE  Congruent(a - b, q - p)
<1>1. N_SEQ_ID \in Nat
  BY FragmentAssumption
<1>2. PICK y \in Int : a - q = d + y * N_SEQ_ID
  BY DEF Congruent
<1>3. PICK z \in Int : b - p = d + z * N_SEQ_ID
  BY DEF Congruent
<1>4. y - z \in Int /\ (y - z) * N_SEQ_ID = y * N_SEQ_ID - z * N_SEQ_ID
      /\ y * N_SEQ_ID \in Int /\ z * N_SEQ_ID \in Int
  BY <1>1
<1>5. a - b = q - p + (y - z) * N_SEQ_ID
  BY <1>2, <1>3, <1>4
<1> QED BY <1>4, <1>5 DEF Congruent

\* A fragment arrives.
LEMMA IncomingReceiver ==
  ASSUME SInv, RInv, NEW f \in net, process_incoming_link(f)
  PROVE  RInv'
<1> DEFINE q == f.pkt
           s == sent[q]
           B == N_FRAG_BUF
           I == 0 .. (B - 1)
           l == slide(list, f.seq_id)
           new == IF q > position \/ q <= position - B THEN q ELSE position
           at == SlotIn(l, new, q)
           r == fragment_incoming(list, f)
           arrived == (heard \ GivenUp(q)) \cup {<<q, f.frag_id>>}
<1>0. /\ list' = r.list /\ delivered' = r.datagram /\ position' = new /\ abs(q - position) <= Reach
      /\ heard' = (IF r.datagram = Empty THEN arrived ELSE {h \in arrived : h[1] # q})
      /\ sent' = sent /\ outgoing_seq_id' = outgoing_seq_id
  BY DEF process_incoming_link, senderVars
<1>1. /\ f \in FragRecords /\ q \in Numbers /\ CutFrom(f, s) /\ Congruent(f.seq_id - q, Drift)
      /\ SentOK
  BY DEF SInv, Piece
<1>2. q \in Nat /\ s \in SentRecords /\ Accepted(s) /\ f.seq_id \in 0 .. (N_SEQ_ID - 1)
      /\ f.frag_id \in Nat
  BY <1>1, NumbersAreInts DEF FragRecords
<1>3. /\ list \in Lists /\ position \in Int /\ Congruent(list.seq_id - position, Drift)
      /\ Drift \in Int /\ list.seq_id \in Int /\ f.seq_id \in Int /\ q \in Int /\ B \in Nat /\ B > 0
  BY <1>1, <1>2, FragmentAssumption DEF RInv, Lists, Drift, SentOK
<1>4. Congruent(f.seq_id - list.seq_id, q - position)
  <2> HIDE DEF q
  <2> QED BY <1>1, <1>3, CongruentDifference
<1>5. /\ l \in Lists /\ In(q, new) /\ get_buf(l, f.seq_id) = at
      /\ (new = q /\ l.seq_id = f.seq_id) \/ (new = position /\ l.seq_id = list.seq_id)
      /\ \A p \in Int : In(p, new) =>
           \/ l.fragments[SlotIn(l, new, p)] = Undefined
              /\ ~(In(p, position) /\ p > q - B /\ q > position - B)
           \/ In(p, position) /\ l.fragments[SlotIn(l, new, p)] = Slot(p)
  <2> HIDE DEF q
  <2> QED BY <1>0, <1>2, <1>3, <1>4, Slide DEF Slot
<1>6. new \in Int /\ at \in I
  <2>1. new \in Int
    BY <1>3
  <2> HIDE DEF l, new, q
  <2> QED BY <1>3, <1>5, <2>1, SlotRange
<1>7. Holds(l.fragments[at], q, s)
  <2>1. \/ l.fragments[at] = Undefined
        \/ In(q, position) /\ l.fragments[at] = Slot(q)
    BY <1>3, <1>5
  <2>2. CASE l.fragments[at] = Undefined
    BY <2>2, EmptyBuffers DEF Holds
  <2>3. CASE In(q, position) /\ l.fragments[at] = Slot(q)
    <3>1. SlotOK(q)
      BY <1>3, <2>3 DEF RInv
    <3> HIDE DEF l, new, at, q
    <3> QED BY <2>3, <3>1 DEF SlotOK, Holds
  <2> QED BY <2>1, <2>2, <2>3
<1>8. PICK b \in Buffers :
        /\ r.list = [l EXCEPT !.fragments = [l.fragments EXCEPT ![at] = b]]
        /\ \/ b = Undefined /\ r.datagram = [i \in 0 .. (s.len - 1) |-> <<q, i>>]
           \/ /\ r.datagram = Empty /\ b.defined /\ Holds(b, q, s) /\ f.frag_id \in b.map
              /\ l.fragments[at].defined => l.fragments[at].map \subseteq b.map
  <2>1. at = get_buf(l, f.seq_id) /\ l \in Lists /\ l = slide(list, f.seq_id)
    BY <1>5
  <2>2. /\ s \in SentRecords /\ Accepted(s) /\ f \in FragRecords /\ CutFrom(f, s)
        /\ at \in 0 .. (N_FRAG_BUF - 1) /\ Holds(l.fragments[at], f.pkt, s)
    BY <1>1, <1>2, <1>6, <1>7
  <2> HIDE DEF l, at, s
  <2>3. Joined(r, l, at, f, s)
    BY <2>1, <2>2, Join
  <2> HIDE DEF r
  <2> QED BY <2>3 DEF Joined
<1> HIDE DEF l, at, new, r, s
<1>9. /\ list' \in Lists /\ list'.index = l.index /\ list'.seq_id = l.seq_id
      /\ \A i \in I : list'.fragments[i] = IF i = at THEN b ELSE l.fragments[i]
  <2>1. l.fragments \in [I -> Buffers]
    BY <1>5 DEF Lists
  <2> DEFINE frags == [l.fragments EXCEPT ![at] = b]
  <2>2. frags \in [I -> Buffers] /\ \A i \in I : frags[i] = IF i = at THEN b ELSE l.fragments[i]
    BY <2>1
  <2> HIDE DEF frags
  <2>3. list' = [l EXCEPT !.fragments = frags]
    BY <1>0, <1>8 DEF frags
  <2>4. /\ [l EXCEPT !.fragments = frags] \in Lists /\ [l EXCEPT !.fragments = frags].fragments = frags
        /\ [l EXCEPT !.fragments = frags].index = l.index
        /\ [l EXCEPT !.fragments = frags].seq_id = l.seq_id
    BY <1>5, <2>2 DEF Lists
  <2> QED BY <2>2, <2>3, <2>4
<1>10. Numbers' = Numbers /\ Drift' = Drift /\ s = sent'[q]
  BY <1>0 DEF Numbers, Drift, Sent, s
<1>11. ASSUME NEW p \in Int, In(p, new)
       PROVE  Slot(p)' = IF p = q THEN b ELSE l.fragments[SlotIn(l, new, p)]
  <2>1. SlotIn(l, new, p) \in I
    BY <1>5, <1>6, <1>11, SlotRange
  <2>2. SlotIn(list', new, p) = SlotIn(l, new, p)
    BY <1>9 DEF SlotIn
  <2>3. SlotIn(l, new, p) = at <=> p = q
    <3> HIDE DEF q
    <3> QED BY <1>3, <1>5, <1>6, <1>11, SlotsDiffer DEF at
  <2> QED BY <1>0, <1>9, <2>1, <2>2, <2>3 DEF Slot
<1>12. Congruent(list'.seq_id - position', Drift')
  <2>1. (new = q /\ list'.seq_id = f.seq_id) \/ (new = position /\ list'.seq_id = list.seq_id)
    BY <1>5, <1>9
  <2> QED BY <1>0, <1>1, <1>3, <1>10, <2>1
<1>13. ASSUME NEW p \in Int, In(p, new) PROVE SlotOK(p)'
  <2>1. CASE p = q
    <3>1. Slot(p)' = b
      BY <1>11, <1>13, <2>1
    <3>2. b.defined => Holds(b, q, s)
      BY <1>8, EmptyBuffers
    <3> QED BY <1>1, <1>10, <2>1, <3>1, <3>2 DEF SlotOK
  <2>2. CASE p # q
    <3>1. Slot(p)' = Undefined \/ (In(p, position) /\ Slot(p)' = Slot(p))
      BY <1>5, <1>11, <1>13, <2>2
    <3>2. CASE Slot(p)' = Undefined
      BY <3>2, EmptyBuffers DEF SlotOK
    <3>3. CASE In(p, position) /\ Slot(p)' = Slot(p)
      <4>1. SlotOK(p)
        BY <3>3 DEF RInv
      <4> QED BY <1>0, <1>10, <3>3, <4>1 DEF SlotOK
    <3> QED BY <3>1, <3>2, <3>3
  <2> QED BY <2>1, <2>2
<1>14. r.datagram # Empty => b = Undefined /\ r.datagram = [i \in 0 .. (s.len - 1) |-> <<q, i>>]
  BY <1>8
<1>15. r.datagram = Empty =>
         /\ b.defined /\ f.frag_id \in b.map
         /\ l.fragments[at].defined => l.fragments[at].map \subseteq b.map
  <2>1. [i \in 0 .. (s.len - 1) |-> <<q, i>>] # Empty
    <3>1. s.len \in Nat /\ s.len > 0
      BY <1>2, TunnelAssumption DEF SentRecords, Accepted
    <3>2. 0 \in 0 .. (s.len - 1)
      BY <3>1
    <3>3. DOMAIN Empty = {}
      BY DEF Empty
    <3> DEFINE w == [i \in 0 .. (s.len - 1) |-> <<q, i>>]
    <3>4. 0 \in DOMAIN w
      BY <3>2
    <3> HIDE DEF w
    <3>5. w # Empty
      BY <3>3, <3>4
    <3> QED BY <3>5 DEF w
  <2> QED BY <1>8, <2>1
<1>16. ASSUME NEW h \in heard' PROVE HeardIn(h)'
  <2>1. CASE h = <<q, f.frag_id>>
    <3>1. h[1] = q /\ h[2] = f.frag_id
      BY <2>1
    <3>2. r.datagram = Empty
      BY <1>0, <3>1
    <3>3. Slot(q)' = b
      BY <1>3, <1>5, <1>11
    <3>4. f.frag_id * s.size < s.len
      BY <1>1, <1>2 DEF CutFrom, s
    <3> QED BY <1>0, <1>1, <1>2, <1>5, <1>10, <1>15, <3>1, <3>2, <3>3, <3>4 DEF HeardIn
  <2>2. CASE h # <<q, f.frag_id>>
    <3> DEFINE p == h[1]
    <3>1. h \in heard /\ h \notin GivenUp(q)
      BY <1>0, <2>2
    <3>2. HeardIn(h) /\ ~(q >= p + B) /\ ~(q <= position - B)
      BY <3>1 DEF RInv, GivenUp
    <3>3. p \in Numbers /\ p \in Int /\ In(p, position)
      BY <1>1, <3>2, NumbersAreInts DEF HeardIn
    <3>4. p > q - B /\ q > position - B
      BY <1>3, <3>2, <3>3
    <3>5. In(p, new)
      BY <1>3, <3>2, <3>3, <3>4 DEF In, new
    <3>6. l.fragments[SlotIn(l, new, p)] = Slot(p)
      BY <1>5, <3>3, <3>4, <3>5
    <3>7. Slot(p)'.defined /\ h[2] \in Slot(p)'.map
      <4>1. CASE p # q
        <5>1. Slot(p)' = Slot(p)
          BY <1>11, <3>3, <3>5, <3>6, <4>1
        <5> QED BY <3>2, <5>1 DEF HeardIn
      <4>2. CASE p = q
        <5>1. r.datagram = Empty
          BY <1>0, <4>2
        <5>2. Slot(p)' = b /\ l.fragments[at] = Slot(p)
          BY <1>11, <3>3, <3>5, <3>6, <4>2 DEF at
        <5> QED BY <1>15, <3>2, <5>1, <5>2 DEF HeardIn
      <4> QED BY <4>1, <4>2
    <3> QED BY <1>0, <1>10, <3>2, <3>5, <3>7 DEF HeardIn
  <2> QED BY <2>1, <2>2
<1>17. OnlyWholeDatagrams'
  <2>1. CASE r.datagram = Empty
    BY <1>0, <2>1 DEF OnlyWholeDatagrams
  <2>2. CASE r.datagram # Empty
    <3>1. delivered' = [i \in 0 .. (sent'[q].len - 1) |-> <<q, i>>] /\ q \in Numbers'
      BY <1>0, <1>1, <1>10, <1>14, <2>2
    <3> HIDE DEF q
    <3> QED BY <3>1 DEF OnlyWholeDatagrams, Whole
  <2> QED BY <2>1, <2>2
<1> QED BY <1>0, <1>6, <1>9, <1>12, <1>13, <1>16, <1>17 DEF RInv

LEMMA ReceiverStep == SInv /\ RInv /\ [Next]_vars => RInv'
<1> SUFFICES ASSUME SInv, RInv, [Next]_vars PROVE RInv'
  OBVIOUS
<1>1. SInv' /\ Grown
  BY SenderStep
<1>2. CASE UNCHANGED receiverVars
  BY <1>1, <1>2, SenderKeepsReceiver
<1>3. CASE fragment_ttl_reap
  BY <1>3, ReapReceiver
<1>4. ASSUME NEW f \in net, process_incoming_link(f) PROVE RInv'
  BY <1>4, IncomingReceiver
<1>5. check_tls \/ check_fragment \/ process_outgoing_link \/ other_event \/ UNCHANGED vars
        => UNCHANGED receiverVars
  BY DEF check_tls, check_fragment, process_outgoing_link, other_event, vars
<1>6. ASSUME NEW len \in Lengths, NEW payload \in Payloads,
             check_send_occ_msg(len, payload) \/ process_incoming_tun(len, payload)
      PROVE  UNCHANGED receiverVars
  BY <1>6 DEF check_send_occ_msg, process_incoming_tun
<1> QED BY <1>2, <1>3, <1>4, <1>5, <1>6 DEF Next

LEMMA ReceiverInit == Init => RInv
<1> SUFFICES ASSUME Init PROVE RInv
  OBVIOUS
<1>1. list = list_init /\ list \in Lists /\ heard = {} /\ delivered = Empty /\ list.seq_id = 0
  BY EmptyBuffers DEF Init, list_init
<1>2. position \in Int /\ (outgoing_seq_id + position) % N_SEQ_ID = 0
      /\ outgoing_seq_id \in Int /\ N_SEQ_ID \in Nat /\ N_SEQ_ID > 0
  BY TunnelAssumption, FragmentAssumption DEF Init
<1>3. Sent = 0
  <2>1. Numbers = 1 .. 0
    BY DEF Init, Numbers
  <2> QED BY <2>1, CardinalityUpTo DEF Sent
<1>4. Congruent(list.seq_id - position, Drift)
  <2> DEFINE a == outgoing_seq_id + position
             z == a \div N_SEQ_ID
  <2>1. a \in Int /\ a % N_SEQ_ID = 0
    BY <1>2
  <2>2. z \in Int /\ a = N_SEQ_ID * z + (a % N_SEQ_ID)
    BY <1>2, <2>1, DivMod
  <2> HIDE DEF z
  <2>3. -z \in Int /\ 0 - position = outgoing_seq_id - 0 + (-z) * N_SEQ_ID
    BY <1>2, <2>1, <2>2
  <2>4. list.seq_id - position = 0 - position /\ Drift = outgoing_seq_id - 0
    BY <1>1, <1>3 DEF Drift
  <2> QED BY <2>3, <2>4 DEF Congruent
<1>5. ASSUME NEW q \in Int, In(q, position) PROVE SlotOK(q)
  <2>1. SlotIn(list, position, q) \in 0 .. (N_FRAG_BUF - 1)
    BY <1>1, <1>2, <1>5, SlotRange
  <2>2. Slot(q) = Undefined
    BY <1>1, <2>1 DEF Slot, list_init
  <2> QED BY <2>2, EmptyBuffers DEF SlotOK
<1> QED BY <1>1, <1>2, <1>4, <1>5 DEF RInv, OnlyWholeDatagrams

\* What the receiver's tun device gets is always a datagram that was sent, whole
\* and with every byte in its place, whatever the network loses, repeats and
\* reorders within the reach of the sequence ids: no buffer ever holds bytes of
\* two datagrams, although fragment_list_get_buf uses ids and buffers again.
THEOREM NeverMixed == Spec => []OnlyWholeDatagrams
<1>1. Init => SInv /\ RInv
  BY SenderInit, ReceiverInit
<1>2. SInv /\ RInv /\ [Next]_vars => (SInv /\ RInv)'
  BY SenderStep, ReceiverStep
<1>3. RInv => OnlyWholeDatagrams
  BY DEF RInv
<1> QED BY <1>1, <1>2, <1>3, PTL DEF Spec

\* A map that has every fragment of a datagram is full, so that fragment_incoming
\* would have delivered the datagram.
LEMMA NeverAllHeard == SInv /\ RInv => ReorderedFragmentsJoin
<1> SUFFICES ASSUME SInv, RInv, NEW n \in Numbers, \A k \in Fragments(n) : <<n, k>> \in heard
             PROVE  FALSE
  BY DEF ReorderedFragmentsJoin
<1> DEFINE s == sent[n]
           L == (s.len - 1) \div s.size
           b == Slot(n)
<1>1. n \in Int /\ s \in SentRecords /\ Accepted(s)
  BY NumbersAreInts DEF SInv
<1>2. s.len \in Nat /\ s.len > 0 /\ s.size \in Nat /\ s.size > 0
      /\ MAX_FRAGS \in Nat
  BY <1>1, TunnelAssumption, FragmentAssumption DEF SentRecords, Accepted
<1>3. L \in Nat /\ s.len <= L * s.size + s.size
  <2> DEFINE a == s.len - 1
             size == s.size
  <2>1. a \in Nat /\ size \in Nat /\ size > 0
    BY <1>2
  <2> HIDE DEF a, size
  <2>2. a \div size \in Nat /\ a % size \in 0 .. (size - 1) /\ a = size * (a \div size) + (a % size)
    BY <2>1, DivMod
  <2> DEFINE d == a \div size
  <2>3. d * size = size * d /\ size * d \in Int
    BY <2>1, <2>2
  <2> HIDE DEF d
  <2>4. d \in Nat /\ a < d * size + size
    BY <2>1, <2>2, <2>3 DEF d
  <2>5. d * size \in Int
    BY <2>3
  <2> QED BY <1>2, <2>1, <2>4, <2>5 DEF a, size, d
<1>4. Fragments(n) = 0 .. L
  BY DEF Fragments
<1> HIDE DEF L
<1>5. ASSUME NEW k \in 0 .. L PROVE In(n, position) /\ b.defined /\ k \in b.map
  <2>1. HeardIn(<<n, k>>)
    BY <1>4 DEF RInv
  <2> QED BY <2>1 DEF HeardIn
<1>6. 0 \in 0 .. L /\ L \in 0 .. L
  BY <1>3
<1>7. Holds(b, n, s) /\ b.defined
  BY <1>1, <1>5, <1>6 DEF RInv, SlotOK
<1>8. /\ b.map \subseteq AllFrags /\ b.map # AllFrags
      /\ \A k \in b.map, j \in AllFrags : s.len <= k * s.size + s.size /\ k <= j => j \in b.map
  BY <1>7 DEF Holds
<1>9. ASSUME NEW j \in AllFrags PROVE j \in b.map
  <2>1. CASE j <= L
    <3>1. j \in 0 .. L
      BY <1>3, <2>1, FragmentAssumption DEF AllFrags
    <3> QED BY <1>5, <3>1
  <2>2. CASE ~(j <= L)
    <3>1. L <= j
      BY <1>2, <1>3, <2>2 DEF AllFrags
    <3>2. L \in b.map
      BY <1>5, <1>6
    <3> QED BY <1>3, <1>8, <3>1, <3>2
  <2> QED BY <2>1, <2>2
<1> QED BY <1>8, <1>9

\* The window does what it is for, whatever its size: no datagram whose
\* fragments all arrived, in any order and between those of others, waits in a
\* reassembly buffer.
THEOREM CompleteIsDelivered == Spec => []ReorderedFragmentsJoin
<1>1. Init => SInv /\ RInv
  BY SenderInit, ReceiverInit
<1>2. SInv /\ RInv /\ [Next]_vars => (SInv /\ RInv)'
  BY SenderStep, ReceiverStep
<1> QED BY <1>1, <1>2, NeverAllHeard, PTL DEF Spec
=============================================================================
