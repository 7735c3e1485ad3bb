------------------------- MODULE ReplayWindowProofs -------------------------
(***************************************************************************)
(* The receiver's window, for every width of the ids, every window and     *)
(* every run of the system.                                                *)
(*                                                                         *)
(* No packet id is accepted twice (ReplayProtection) or sent twice         *)
(* (IdsUsedOnce), what comes late within the window passes                 *)
(* (LatePacketsPass), and a restart begins at the saved position           *)
(* (RestartKeepsPosition).                                                 *)
(*                                                                         *)
(* NoReplay is not inductive: what makes it true is that the receiver's    *)
(* record remembers every packet id it has accepted (Remembers): each is   *)
(* at or before the record's position, and if it is still in the window    *)
(* its item of the list is not SEQ_UNSEEN.                                 *)
(***************************************************************************)
EXTENDS ReplayWindow, TLAPS

Remembers(p, S) ==
  \A q \in S :
    /\ q.id > 0 /\ q.time <= p.time
    /\ q.time = p.time =>
         /\ q.id <= p.id
         /\ p.id - q.id < Len(p.seq_list) => p.seq_list[p.id - q.id + 1] # SEQ_UNSEEN

\* In the mode with a window the list is empty only until a packet is accepted;
\* in the mode without one it is never used.
ListInUse(p, S) ==
  /\ p.seq_backtrack # 0 /\ p.seq_list = <<>> => S = {}
  /\ p.seq_backtrack = 0 => p.seq_list = <<>>

----------------------------------------------------------------------------
\* What the steps of packet_id_add return.
LEMMA PushedList ==
  ASSUME NEW list \in Seq(Nat), NEW n \in Nat, NEW cap \in Nat
  PROVE  /\ pushed(list, n, cap) \in Seq(Nat)
         /\ Len(pushed(list, n, cap)) = IF Len(list) + n <= cap THEN Len(list) + n ELSE cap
         /\ \A i \in 1 .. Len(pushed(list, n, cap)) :
              pushed(list, n, cap)[i] = IF i <= n THEN SEQ_UNSEEN ELSE list[i - n]
<1> DEFINE size == IF Len(list) + n <= cap THEN Len(list) + n ELSE cap
           f == [i \in 1 .. size |-> IF i <= n THEN SEQ_UNSEEN ELSE list[i - n]]
<1>1. size \in Nat /\ size <= Len(list) + n
  OBVIOUS
<1>2. \A i \in 1 .. size : (IF i <= n THEN SEQ_UNSEEN ELSE list[i - n]) \in Nat
  <2> SUFFICES ASSUME NEW i \in 1 .. size PROVE (IF i <= n THEN SEQ_UNSEEN ELSE list[i - n]) \in Nat
    OBVIOUS
  <2>1. CASE i <= n
    BY <2>1 DEF SEQ_UNSEEN
  <2>2. CASE ~(i <= n)
    <3>1. i - n \in 1 .. Len(list)
      BY <1>1, <2>2
    <3>2. list[i - n] \in Nat
      BY <3>1
    <3> QED BY <2>2, <3>2
  <2> QED BY <2>1, <2>2
<1>3. f \in Seq(Nat) /\ Len(f) = size
  <2> HIDE DEF size
  <2> QED BY <1>1, <1>2
<1>4. pushed(list, n, cap) = f
  BY DEF pushed
<1> QED BY <1>1, <1>3, <1>4

\* Reaping changes no item to SEQ_UNSEEN and keeps the position and the length.
LEMMA ReapKeeps ==
  ASSUME NEW p \in Records, NEW t \in Nat
  PROVE  LET r == packet_id_reap_test(p, t)
         IN  /\ r \in Records
             /\ r.time = p.time /\ r.id = p.id /\ r.seq_backtrack = p.seq_backtrack
             /\ Len(r.seq_list) = Len(p.seq_list)
             /\ \A i \in 1 .. Len(p.seq_list) :
                  p.seq_list[i] # SEQ_UNSEEN => r.seq_list[i] # SEQ_UNSEEN
<1> DEFINE g == [i \in DOMAIN p.seq_list |->
                   IF i \in reached(p) /\ (\E j \in too_old(p, t) : j <= i)
                   THEN SEQ_EXPIRED ELSE p.seq_list[i]]
           list == IF p.time_backtrack = 0 THEN p.seq_list ELSE g
<1>1. p.seq_list \in Seq(Nat)
  BY DEF Records
<1>2. g \in Seq(Nat) /\ Len(g) = Len(p.seq_list)
  <2>1. \A i \in 1 .. Len(p.seq_list) :
          (IF i \in reached(p) /\ (\E j \in too_old(p, t) : j <= i)
           THEN SEQ_EXPIRED ELSE p.seq_list[i]) \in Nat
    BY <1>1 DEF SEQ_EXPIRED
  <2>2. DOMAIN p.seq_list = 1 .. Len(p.seq_list) /\ Len(p.seq_list) \in Nat
    BY <1>1
  <2> QED BY <2>1, <2>2
<1>3. \A i \in 1 .. Len(p.seq_list) : p.seq_list[i] # SEQ_UNSEEN => g[i] # SEQ_UNSEEN
  BY <1>1 DEF SEQ_UNSEEN, SEQ_EXPIRED
<1>4. list \in Seq(Nat) /\ Len(list) = Len(p.seq_list)
  BY <1>1, <1>2
<1>5. \A i \in 1 .. Len(p.seq_list) : p.seq_list[i] # SEQ_UNSEEN => list[i] # SEQ_UNSEEN
  BY <1>3
<1>6. packet_id_reap(p, t) = [p EXCEPT !.last_reap = t, !.seq_list = list]
  BY DEF packet_id_reap
<1> HIDE DEF list, g
<1>7. CASE packet_id_reap_test(p, t) = p
  BY <1>7
<1>8. CASE packet_id_reap_test(p, t) = packet_id_reap(p, t)
  <2> DEFINE r == [p EXCEPT !.last_reap = t, !.seq_list = list]
  <2>1. r \in Records /\ r.time = p.time /\ r.id = p.id /\ r.seq_backtrack = p.seq_backtrack
        /\ r.seq_list = list
    BY <1>4 DEF Records
  <2> QED BY <2>1, <1>4, <1>5, <1>6, <1>8
<1> QED BY <1>7, <1>8 DEF packet_id_reap_test

LEMMA ReapRemembers ==
  ASSUME NEW p \in Records, NEW t \in Nat, NEW S \in SUBSET PacketIds,
         Remembers(p, S), ListInUse(p, S)
  PROVE  /\ Remembers(packet_id_reap_test(p, t), S)
         /\ ListInUse(packet_id_reap_test(p, t), S)
<1> DEFINE r == packet_id_reap_test(p, t)
<1>1. /\ r \in Records
      /\ r.time = p.time /\ r.id = p.id /\ r.seq_backtrack = p.seq_backtrack
      /\ Len(r.seq_list) = Len(p.seq_list)
      /\ \A i \in 1 .. Len(p.seq_list) : p.seq_list[i] # SEQ_UNSEEN => r.seq_list[i] # SEQ_UNSEEN
  BY ReapKeeps
<1> HIDE DEF r
<1>2. p.seq_list \in Seq(Nat) /\ r.seq_list \in Seq(Nat) /\ p.id \in Nat
  BY <1>1 DEF Records
<1>3. Remembers(r, S)
  <2> SUFFICES ASSUME NEW q \in S
               PROVE  /\ q.id > 0 /\ q.time <= r.time
                      /\ q.time = r.time =>
                           /\ q.id <= r.id
                           /\ r.id - q.id < Len(r.seq_list) => r.seq_list[r.id - q.id + 1] # SEQ_UNSEEN
    BY DEF Remembers
  <2>1. q.id \in Nat
    BY DEF PacketIds
  <2>2. /\ q.id > 0 /\ q.time <= p.time
        /\ q.time = p.time =>
             /\ q.id <= p.id
             /\ p.id - q.id < Len(p.seq_list) => p.seq_list[p.id - q.id + 1] # SEQ_UNSEEN
    BY DEF Remembers
  <2>3. ASSUME q.id <= p.id, p.id - q.id < Len(p.seq_list)
        PROVE  p.id - q.id + 1 \in 1 .. Len(p.seq_list)
    BY <2>1, <2>3, <1>2
  <2> QED BY <1>1, <2>1, <2>2, <2>3
<1>4. ListInUse(r, S)
  <2>1. r.seq_list = <<>> <=> p.seq_list = <<>>
    BY <1>1, <1>2
  <2> QED BY <1>1, <2>1 DEF ListInUse
<1> QED BY <1>3, <1>4 DEF r

\* A record refuses what it remembers.
LEMMA RefusesWhatItRemembers ==
  ASSUME NEW p \in Records, NEW S \in SUBSET PacketIds, Remembers(p, S), NEW pin \in S
  PROVE  ~ packet_id_test(p, pin)
<1>1. /\ pin.id \in Nat /\ pin.time \in Nat /\ p.id \in Nat /\ p.time \in Nat
      /\ p.id < ID_MOD /\ pin.id < ID_MOD /\ ID_MOD \in Nat /\ ID_MOD > 1
  BY PacketIdAssumption DEF Records, PacketIds
<1>2. /\ pin.id > 0 /\ pin.time <= p.time
      /\ pin.time = p.time =>
           /\ pin.id <= p.id
           /\ p.id - pin.id < Len(p.seq_list) => p.seq_list[p.id - pin.id + 1] # SEQ_UNSEEN
  BY DEF Remembers
<1>3. (p.id + 1) % ID_MOD = p.id + 1 \/ (p.id + 1) % ID_MOD = 0
  <2>1. CASE p.id + 1 < ID_MOD
    BY <1>1, <2>1
  <2>2. CASE p.id + 1 = ID_MOD
    BY <1>1, <2>2
  <2> QED BY <1>1, <2>1, <2>2
<1>4. ~(pin.time > p.time)
  BY <1>1, <1>2
<1>5. pin.time = p.time => p.id # 0 /\ pin.id # (p.id + 1) % ID_MOD /\ ~(pin.id > p.id)
  BY <1>1, <1>2, <1>3
<1> QED BY <1>1, <1>2, <1>4, <1>5 DEF packet_id_test

----------------------------------------------------------------------------
\* packet_id_add, in the mode with a window, when the list starts anew.
LEMMA AddAnew ==
  ASSUME NEW p \in Records, NEW pin \in PacketIds, NEW t \in Nat, t > SEQ_EXPIRED,
         p.seq_backtrack # 0, pin.id > 0, starts_anew(p, pin)
  PROVE  LET r == packet_id_add(p, pin, t)
         IN  /\ r \in Records /\ r.seq_backtrack = p.seq_backtrack
             /\ r.time = pin.time /\ r.id = pin.id
             /\ Len(r.seq_list) \in 1 .. p.seq_backtrack /\ r.seq_list[1] # SEQ_UNSEEN
             /\ Len(r.seq_list) = IF pin.id < p.seq_backtrack THEN pin.id ELSE p.seq_backtrack
             /\ \A i \in 2 .. Len(r.seq_list) : r.seq_list[i] = SEQ_UNSEEN
<1>1. /\ p.seq_backtrack \in Nat /\ p.seq_backtrack > 0 /\ pin.id \in Nat /\ pin.time \in Nat
      /\ pin.id \in 0 .. (ID_MOD - 1) /\ ID_MOD \in Nat
  BY PacketIdAssumption DEF Records, PacketIds
<1> DEFINE base == IF pin.id > p.seq_backtrack THEN pin.id - p.seq_backtrack ELSE 0
           a == [p EXCEPT !.time = pin.time, !.seq_list = <<>>, !.id = base]
           n == pin.id - base
           list == pushed(<<>>, n, p.seq_backtrack)
           b == [a EXCEPT !.id = pin.id, !.seq_list = list]
           r == [b EXCEPT !.seq_list[1] = t]
<1>2. base \in Nat /\ base < pin.id /\ n \in Nat /\ n > 0 /\ base \in 0 .. (ID_MOD - 1)
  BY <1>1
<1>3. reset(p, pin) = a
  BY DEF reset
<1>4. a \in Records /\ a.id = base /\ a.seq_list = <<>> /\ a.seq_backtrack = p.seq_backtrack
  <2> HIDE DEF base
  <2>1. <<>> \in Seq(Nat)
    OBVIOUS
  <2> QED BY <1>1, <1>2, <2>1 DEF Records
<1>5. advance(a, pin) = b
  BY <1>2, <1>4 DEF advance
<1>6. /\ list \in Seq(Nat) /\ Len(list) \in 1 .. p.seq_backtrack
      /\ Len(list) = n /\ \A i \in 1 .. Len(list) : list[i] = SEQ_UNSEEN
  <2>0. n <= p.seq_backtrack
    BY <1>1
  <2> HIDE DEF n
  <2>1. <<>> \in Seq(Nat) /\ Len(<<>>) = 0
    OBVIOUS
  <2>2. /\ list \in Seq(Nat)
        /\ Len(list) = IF 0 + n <= p.seq_backtrack THEN 0 + n ELSE p.seq_backtrack
        /\ \A i \in 1 .. Len(list) : list[i] = IF i <= n THEN SEQ_UNSEEN ELSE <<>>[i - n]
    <3>1. n \in Nat /\ p.seq_backtrack \in Nat
      BY <1>1, <1>2
    <3>2. /\ list \in Seq(Nat)
          /\ Len(list) = IF Len(<<>>) + n <= p.seq_backtrack THEN Len(<<>>) + n ELSE p.seq_backtrack
          /\ \A i \in 1 .. Len(list) : list[i] = IF i <= n THEN SEQ_UNSEEN ELSE <<>>[i - n]
      BY <2>1, <3>1, PushedList
    <3> QED BY <2>1, <3>2
  <2>3. Len(list) = n
    BY <1>1, <1>2, <2>0, <2>2
  <2>4. \A i \in 1 .. Len(list) : list[i] = SEQ_UNSEEN
    BY <1>2, <2>2, <2>3
  <2> HIDE DEF list
  <2> QED BY <1>1, <1>2, <2>0, <2>2, <2>3, <2>4
<1>7. b \in Records /\ b.id = pin.id /\ b.seq_list = list /\ b.time = pin.time
      /\ b.seq_backtrack = p.seq_backtrack
  <2> HIDE DEF base, n, list
  <2> QED BY <1>1, <1>4, <1>6 DEF Records
<1>8. mark(b, pin, t) = r
  <2> HIDE DEF b, list
  <2>1. b.id - pin.id = 0 /\ 0 < Len(b.seq_list)
    BY <1>1, <1>6, <1>7
  <2> QED BY <2>1 DEF mark
<1>9. packet_id_add(p, pin, t) = r
  BY <1>3, <1>5, <1>8 DEF packet_id_add
<1>10. /\ [list EXCEPT ![1] = t] \in Seq(Nat) /\ Len([list EXCEPT ![1] = t]) = Len(list)
       /\ [list EXCEPT ![1] = t][1] = t
       /\ \A i \in 2 .. Len(list) : [list EXCEPT ![1] = t][i] = SEQ_UNSEEN
  <2> HIDE DEF list
  <2> QED BY <1>6
<1>11. r = [b EXCEPT !.seq_list = [list EXCEPT ![1] = t]]
  BY <1>7
<1>12. n = IF pin.id < p.seq_backtrack THEN pin.id ELSE p.seq_backtrack
  BY <1>1
<1> HIDE DEF b, list, r, n
<1>13. /\ r \in Records /\ r.seq_backtrack = p.seq_backtrack /\ r.time = pin.time /\ r.id = pin.id
       /\ r.seq_list = [list EXCEPT ![1] = t]
  BY <1>7, <1>10, <1>11 DEF Records
<1>14. t # SEQ_UNSEEN
  BY DEF SEQ_UNSEEN, SEQ_EXPIRED
<1> QED BY <1>6, <1>9, <1>10, <1>13, <1>14, <1>12

\* packet_id_add, in the mode with a window, when it does not: an id ahead of
\* the position shifts the items, an id behind it marks one.
LEMMA AddAhead ==
  ASSUME NEW p \in Records, NEW pin \in PacketIds, NEW t \in Nat, t > SEQ_EXPIRED,
         p.seq_backtrack # 0, pin.time = p.time, ~ starts_anew(p, pin), pin.id > p.id
  PROVE  LET r == packet_id_add(p, pin, t)
             n == pin.id - p.id
         IN  /\ r \in Records /\ r.seq_backtrack = p.seq_backtrack
             /\ r.time = p.time /\ r.id = pin.id
             /\ Len(r.seq_list) > 0 /\ Len(r.seq_list) <= Len(p.seq_list) + n
             /\ Len(r.seq_list) = IF Len(p.seq_list) + n <= p.seq_backtrack
                                  THEN Len(p.seq_list) + n ELSE p.seq_backtrack
             /\ r.seq_list[1] # SEQ_UNSEEN
             /\ \A i \in 2 .. Len(r.seq_list) : i <= n => r.seq_list[i] = SEQ_UNSEEN
             /\ \A i \in 1 .. Len(r.seq_list) : i > n => r.seq_list[i] = p.seq_list[i - n]
<1>1. /\ p.seq_backtrack \in Nat /\ p.seq_backtrack > 0 /\ pin.id \in Nat /\ p.id \in Nat
      /\ pin.id \in 0 .. (ID_MOD - 1) /\ p.seq_list \in Seq(Nat) /\ ID_MOD \in Nat
  BY PacketIdAssumption DEF Records, PacketIds
<1> DEFINE n == pin.id - p.id
           list == pushed(p.seq_list, n, p.seq_backtrack)
           b == [p EXCEPT !.id = pin.id, !.seq_list = list]
           new == [list EXCEPT ![1] = t]
           r == [b EXCEPT !.seq_list = new]
<1>2. n \in Nat /\ n > 0
  BY <1>1
<1>3. reset(p, pin) = p /\ advance(p, pin) = b
  BY DEF reset, advance
<1>4. /\ list \in Seq(Nat)
      /\ Len(list) = IF Len(p.seq_list) + n <= p.seq_backtrack THEN Len(p.seq_list) + n ELSE p.seq_backtrack
      /\ \A i \in 1 .. Len(list) : list[i] = IF i <= n THEN SEQ_UNSEEN ELSE p.seq_list[i - n]
  <2> HIDE DEF n
  <2> QED BY <1>1, <1>2, PushedList
<1> HIDE DEF n, list
<1>5. b \in Records /\ b.id = pin.id /\ b.seq_list = list /\ b.time = p.time
      /\ b.seq_backtrack = p.seq_backtrack
  BY <1>1, <1>4 DEF Records
<1>6. Len(list) > 0 /\ Len(list) <= Len(p.seq_list) + n
  BY <1>1, <1>2, <1>4
<1>7. mark(b, pin, t) = r
  <2>1. b.id - pin.id = 0 /\ 0 < Len(b.seq_list)
    BY <1>1, <1>5, <1>6
  <2>2. mark(b, pin, t) = [b EXCEPT !.seq_list[1] = t]
    <3> HIDE DEF b
    <3> QED BY <2>1 DEF mark
  <2> QED BY <2>2, <1>5
<1>8. packet_id_add(p, pin, t) = r
  BY <1>3, <1>7 DEF packet_id_add
<1>9. /\ new \in Seq(Nat) /\ Len(new) = Len(list) /\ new[1] = t
      /\ \A i \in 1 .. Len(list) : i # 1 => new[i] = list[i]
  BY <1>4, <1>6
<1> HIDE DEF b, new
<1>10. /\ r \in Records /\ r.seq_backtrack = p.seq_backtrack /\ r.time = p.time /\ r.id = pin.id
       /\ r.seq_list = new
  BY <1>5, <1>9 DEF Records
<1> HIDE DEF r
<1>11. t # SEQ_UNSEEN
  BY DEF SEQ_UNSEEN, SEQ_EXPIRED
<1>12. \A i \in 1 .. Len(new) : i > n => new[i] = p.seq_list[i - n]
  <2> SUFFICES ASSUME NEW i \in 1 .. Len(new), i > n PROVE new[i] = p.seq_list[i - n]
    OBVIOUS
  <2>1. i # 1 /\ i \in 1 .. Len(list) /\ ~(i <= n)
    BY <1>2, <1>9
  <2>2. new[i] = list[i]
    BY <1>9, <2>1
  <2> QED BY <1>4, <2>1, <2>2
<1>13. \A i \in 2 .. Len(new) : i <= n => new[i] = SEQ_UNSEEN
  BY <1>2, <1>4, <1>9
<1>14. Len(new) = IF Len(p.seq_list) + n <= p.seq_backtrack THEN Len(p.seq_list) + n ELSE p.seq_backtrack
  BY <1>4, <1>9
<1> QED BY <1>6, <1>8, <1>9, <1>10, <1>11, <1>12, <1>13, <1>14 DEF n

LEMMA AddBehind ==
  ASSUME NEW p \in Records, NEW pin \in PacketIds, NEW t \in Nat, t > SEQ_EXPIRED,
         p.seq_backtrack # 0, pin.time = p.time, ~ starts_anew(p, pin), pin.id <= p.id,
         p.id - pin.id < Len(p.seq_list)
  PROVE  LET r == packet_id_add(p, pin, t)
         IN  /\ r \in Records /\ r.seq_backtrack = p.seq_backtrack
             /\ r.time = p.time /\ r.id = p.id
             /\ Len(r.seq_list) = Len(p.seq_list)
             /\ r.seq_list[p.id - pin.id + 1] # SEQ_UNSEEN
             /\ \A i \in 1 .. Len(p.seq_list) :
                  p.seq_list[i] # SEQ_UNSEEN => r.seq_list[i] # SEQ_UNSEEN
             /\ \A i \in 1 .. Len(p.seq_list) :
                  i # p.id - pin.id + 1 => r.seq_list[i] = p.seq_list[i]
<1>1. pin.id \in Nat /\ p.id \in Nat /\ p.seq_list \in Seq(Nat)
  BY DEF Records, PacketIds
<1> DEFINE k == p.id - pin.id + 1
           new == [p.seq_list EXCEPT ![k] = t]
           r == [p EXCEPT !.seq_list = new]
<1>2. k \in 1 .. Len(p.seq_list)
  BY <1>1
<1>3. reset(p, pin) = p /\ advance(p, pin) = p
  BY <1>1 DEF reset, advance
<1>4. mark(p, pin, t) = r
  BY <1>1 DEF mark
<1>5. packet_id_add(p, pin, t) = r
  BY <1>3, <1>4 DEF packet_id_add
<1> HIDE DEF k
<1>6. t # SEQ_UNSEEN
  BY DEF SEQ_UNSEEN, SEQ_EXPIRED
<1>7. /\ new \in Seq(Nat) /\ Len(new) = Len(p.seq_list) /\ new[k] = t
      /\ \A i \in 1 .. Len(p.seq_list) : p.seq_list[i] # SEQ_UNSEEN => new[i] # SEQ_UNSEEN
      /\ \A i \in 1 .. Len(p.seq_list) : i # k => new[i] = p.seq_list[i]
  BY <1>1, <1>2, <1>6
<1> HIDE DEF new
<1>8. r \in Records /\ r.seq_backtrack = p.seq_backtrack /\ r.time = p.time /\ r.id = p.id
      /\ r.seq_list = new
  BY <1>7 DEF Records
<1> QED BY <1>5, <1>6, <1>7, <1>8 DEF k

\* packet_id_add in the mode without a window.
LEMMA AddInSequence ==
  ASSUME NEW p \in Records, NEW pin \in PacketIds, NEW t \in Nat, NEW S \in SUBSET PacketIds,
         p.seq_backtrack = 0, packet_id_test(p, pin), Remembers(p, S), ListInUse(p, S)
  PROVE  LET r == packet_id_add(p, pin, t)
         IN  r \in Records /\ Remembers(r, S \cup {pin}) /\ ListInUse(r, S \cup {pin})
<1>1. /\ pin.id \in Nat /\ pin.time \in Nat /\ p.id \in Nat /\ p.time \in Nat
      /\ p.id < ID_MOD /\ ID_MOD \in Nat /\ ID_MOD > 1 /\ pin.id \in 0 .. (ID_MOD - 1)
  BY PacketIdAssumption DEF Records, PacketIds
<1> DEFINE r == [p EXCEPT !.time = pin.time, !.id = pin.id]
<1>2. packet_id_add(p, pin, t) = r
  BY DEF packet_id_add
<1>3. /\ r \in Records /\ r.time = pin.time /\ r.id = pin.id
      /\ r.seq_backtrack = 0 /\ r.seq_list = <<>>
  BY <1>1 DEF Records, ListInUse
<1> HIDE DEF r
<1>4. (p.id + 1) % ID_MOD = p.id + 1 \/ (p.id + 1) % ID_MOD = 0
  <2>1. CASE p.id + 1 < ID_MOD
    BY <1>1, <2>1
  <2>2. CASE p.id + 1 = ID_MOD
    BY <1>1, <2>2
  <2> QED BY <1>1, <2>1, <2>2
<1>5. pin.id > 0 /\ (pin.time > p.time \/ (pin.time = p.time /\ (p.id = 0 \/ pin.id = p.id + 1)))
  BY <1>1, <1>4 DEF packet_id_test
<1>6. ASSUME NEW q \in S \cup {pin}
      PROVE  /\ q.id > 0 /\ q.time <= r.time
             /\ q.time = r.time =>
                  /\ q.id <= r.id
                  /\ r.id - q.id < Len(r.seq_list) => r.seq_list[r.id - q.id + 1] # SEQ_UNSEEN
  <2>1. q.id \in Nat /\ q.time \in Nat /\ Len(r.seq_list) = 0
    BY <1>3 DEF PacketIds
  <2>2. CASE q = pin
    BY <1>1, <1>3, <1>5, <2>1, <2>2
  <2>3. CASE q \in S
    <3>1. q.id > 0 /\ q.time <= p.time /\ (q.time = p.time => q.id <= p.id)
      BY <2>3 DEF Remembers
    <3> QED BY <1>1, <1>3, <1>5, <2>1, <3>1
  <2> QED BY <2>2, <2>3
<1> QED BY <1>2, <1>3, <1>6 DEF Remembers, ListInUse

\* packet_id_add remembers the id it adds and forgets none.
LEMMA AddRemembers ==
  ASSUME NEW p \in Records, NEW pin \in PacketIds, NEW t \in Nat, t > SEQ_EXPIRED,
         NEW S \in SUBSET PacketIds,
         packet_id_test(p, pin), Remembers(p, S), ListInUse(p, S)
  PROVE  LET r == packet_id_add(p, pin, t)
         IN  r \in Records /\ Remembers(r, S \cup {pin}) /\ ListInUse(r, S \cup {pin})
<1> DEFINE r == packet_id_add(p, pin, t)
           Known(q) == /\ q.id > 0 /\ q.time <= r.time
                       /\ q.time = r.time =>
                            /\ q.id <= r.id
                            /\ r.id - q.id < Len(r.seq_list) =>
                                 r.seq_list[r.id - q.id + 1] # SEQ_UNSEEN
<1>1. /\ pin.id \in Nat /\ pin.time \in Nat /\ p.id \in Nat /\ p.time \in Nat
      /\ p.seq_list \in Seq(Nat) /\ p.seq_backtrack \in Nat
  BY DEF Records, PacketIds
<1>2. \A q \in S \cup {pin} : q.id \in Nat /\ q.time \in Nat
  BY DEF PacketIds
<1>3. \A q \in S :
        /\ q.id > 0 /\ q.time <= p.time
        /\ q.time = p.time =>
             /\ q.id <= p.id
             /\ p.id - q.id < Len(p.seq_list) => p.seq_list[p.id - q.id + 1] # SEQ_UNSEEN
  BY DEF Remembers
<1>4. CASE p.seq_backtrack = 0
  BY <1>4, AddInSequence
<1>5. CASE p.seq_backtrack # 0
  <2>1. /\ pin.id > 0
        /\ \/ pin.time > p.time
           \/ /\ pin.time = p.time
              /\ pin.id > p.id \/ (pin.id <= p.id /\ p.id - pin.id < Len(p.seq_list))
    BY <1>1, <1>5 DEF packet_id_test
  <2>2. CASE starts_anew(p, pin)
    <3>1. /\ r \in Records /\ r.seq_backtrack = p.seq_backtrack
          /\ r.time = pin.time /\ r.id = pin.id
          /\ Len(r.seq_list) \in 1 .. p.seq_backtrack /\ r.seq_list[1] # SEQ_UNSEEN
      BY <1>5, <2>1, <2>2, AddAnew
    <3> HIDE DEF r
    <3>2. Known(pin)
      BY <1>1, <2>1, <3>1
    <3>3. ASSUME NEW q \in S PROVE Known(q)
      <4>1. p.seq_list # <<>>
        BY <1>5 DEF ListInUse
      <4>2. pin.time > p.time \/ (pin.id >= p.seq_backtrack /\ pin.id - p.seq_backtrack > p.id)
        BY <2>2, <4>1 DEF starts_anew
      <4>3. Len(r.seq_list) \in Nat /\ Len(r.seq_list) <= p.seq_backtrack
        BY <1>1, <3>1
      <4>4. q.time = pin.time => q.id <= pin.id /\ pin.id - q.id > p.seq_backtrack
        BY <1>1, <1>2, <1>3, <2>1, <4>2
      <4> QED BY <1>1, <1>2, <1>3, <2>1, <3>1, <4>3, <4>4
    <3>4. r.seq_list # <<>>
      BY <3>1, <1>1
    <3> HIDE DEF Known
    <3>5. \A q \in S \cup {pin} : Known(q)
      BY <3>2, <3>3
    <3> QED BY <1>5, <3>1, <3>4, <3>5 DEF Remembers, ListInUse, Known, r
  <2>3. CASE ~ starts_anew(p, pin) /\ pin.id > p.id
    <3> DEFINE n == pin.id - p.id
    <3>0. pin.time = p.time
      BY <2>1, <2>3 DEF starts_anew
    <3>1. /\ r \in Records /\ r.seq_backtrack = p.seq_backtrack
          /\ r.time = p.time /\ r.id = pin.id
          /\ Len(r.seq_list) > 0 /\ Len(r.seq_list) <= Len(p.seq_list) + n
          /\ r.seq_list[1] # SEQ_UNSEEN
          /\ \A i \in 1 .. Len(r.seq_list) : i > n => r.seq_list[i] = p.seq_list[i - n]
      BY <1>5, <2>3, <3>0, AddAhead
    <3> HIDE DEF r
    <3>2. Known(pin)
      BY <1>1, <2>1, <3>0, <3>1
    <3>3. ASSUME NEW q \in S PROVE Known(q)
      <4>1. r.seq_list \in Seq(Nat) /\ Len(r.seq_list) \in Nat /\ Len(p.seq_list) \in Nat
        <5>1. r \in Records
          BY <3>1
        <5>2. r.seq_list \in Seq(Nat)
          BY <5>1 DEF Records
        <5> QED BY <1>1, <5>2
      <4>2. ASSUME q.time = r.time, r.id - q.id < Len(r.seq_list)
            PROVE  r.seq_list[r.id - q.id + 1] # SEQ_UNSEEN
        <5>1. q.id <= p.id /\ q.id \in Nat
          BY <1>2, <1>3, <3>1, <4>2
        <5> DEFINE k == r.id - q.id + 1
        <5>0. r.id = pin.id /\ Len(r.seq_list) <= Len(p.seq_list) + n
          BY <3>1
        <5>2. n \in Nat /\ k = p.id - q.id + 1 + n
          <6>1. pin.id \in Nat /\ p.id \in Nat /\ pin.id > p.id
            BY <1>1, <2>3
          <6>2. n \in Nat
            BY <6>1
          <6>3. k = pin.id - q.id + 1
            BY <5>0
          <6>4. pin.id - q.id + 1 = p.id - q.id + 1 + (pin.id - p.id)
            BY <5>1, <6>1
          <6> QED BY <6>2, <6>3, <6>4
        <5>3. k \in Nat /\ k <= Len(r.seq_list)
          <6>1. k <= Len(r.seq_list)
            BY <1>1, <4>1, <4>2, <5>0, <5>1
          <6> HIDE DEF n, k
          <6> QED BY <1>1, <5>1, <5>2, <6>1
        <5> HIDE DEF n, k
        <5>4. k \in 1 .. Len(r.seq_list) /\ k > n /\ k - n = p.id - q.id + 1
          <6>1. p.id \in Nat /\ q.id \in Nat /\ q.id <= p.id
            BY <1>1, <5>1
          <6>2. k > n /\ k - n = p.id - q.id + 1
            BY <5>2, <6>1
          <6> QED BY <4>1, <5>2, <5>3, <6>2
        <5>5. p.id - q.id < Len(p.seq_list)
          <6>1. p.id - q.id + 1 + n <= Len(p.seq_list) + n
            BY <4>1, <5>0, <5>2, <5>3
          <6>2. p.id \in Nat /\ q.id \in Nat /\ n \in Nat /\ Len(p.seq_list) \in Nat
            BY <1>1, <4>1, <5>1, <5>2
          <6> QED BY <6>1, <6>2
        <5>6. p.seq_list[p.id - q.id + 1] # SEQ_UNSEEN
          BY <1>3, <3>1, <4>2, <5>5
        <5>7. r.seq_list[k] # SEQ_UNSEEN
          BY <3>1, <5>4, <5>6
        <5> QED BY <5>7 DEF k
      <4>3. q.id > 0 /\ q.time <= r.time /\ (q.time = r.time => q.id <= r.id)
        BY <1>1, <1>2, <1>3, <2>3, <3>1
      <4> QED BY <4>2, <4>3
    <3>4. r.seq_list # <<>>
      BY <3>1
    <3> HIDE DEF Known
    <3>5. \A q \in S \cup {pin} : Known(q)
      BY <3>2, <3>3
    <3> QED BY <1>5, <3>1, <3>4, <3>5 DEF Remembers, ListInUse, Known, r
  <2>4. CASE ~ starts_anew(p, pin) /\ ~(pin.id > p.id)
    <3>0. pin.time = p.time /\ pin.id <= p.id /\ p.id - pin.id < Len(p.seq_list)
      BY <1>1, <2>1, <2>4 DEF starts_anew
    <3>1. /\ r \in Records /\ r.seq_backtrack = p.seq_backtrack
          /\ r.time = p.time /\ r.id = p.id
          /\ Len(r.seq_list) = Len(p.seq_list)
          /\ r.seq_list[p.id - pin.id + 1] # SEQ_UNSEEN
          /\ \A i \in 1 .. Len(p.seq_list) :
               p.seq_list[i] # SEQ_UNSEEN => r.seq_list[i] # SEQ_UNSEEN
      BY <1>5, <2>4, <3>0, AddBehind
    <3> HIDE DEF r
    <3>2. Known(pin)
      <4>1. r.seq_list[r.id - pin.id + 1] # SEQ_UNSEEN
        BY <3>1
      <4> QED BY <1>1, <2>1, <3>0, <3>1, <4>1
    <3>3. ASSUME NEW q \in S PROVE Known(q)
      <4>1. ASSUME q.time = r.time, r.id - q.id < Len(r.seq_list)
            PROVE  r.seq_list[r.id - q.id + 1] # SEQ_UNSEEN
        <5>0. q.time = p.time /\ p.id - q.id < Len(p.seq_list)
          BY <3>1, <4>1
        <5>1. q.id <= p.id /\ q.id \in Nat /\ p.seq_list[p.id - q.id + 1] # SEQ_UNSEEN
          BY <1>2, <1>3, <5>0
        <5>2. p.id - q.id + 1 \in 1 .. Len(p.seq_list)
          <6>1. p.id \in Nat /\ q.id \in Nat /\ Len(p.seq_list) \in Nat
            BY <1>1, <5>1
          <6> QED BY <5>0, <5>1, <6>1
        <5> QED BY <3>1, <5>1, <5>2
      <4>2. q.id > 0 /\ q.time <= r.time /\ (q.time = r.time => q.id <= r.id)
        BY <1>3, <3>1
      <4> QED BY <4>1, <4>2
    <3>4. r.seq_list # <<>>
      <4>1. Len(p.seq_list) > 0
        BY <1>1, <3>0
      <4> QED BY <3>1, <4>1
    <3> HIDE DEF Known
    <3>5. \A q \in S \cup {pin} : Known(q)
      BY <3>2, <3>3
    <3> QED BY <1>5, <3>1, <3>4, <3>5 DEF Remembers, ListInUse, Known, r
  <2> QED BY <2>2, <2>3, <2>4
<1> QED BY <1>4, <1>5

----------------------------------------------------------------------------
(* The receiver's side of the inductive invariant. *)
Shapes ==
  /\ window \in ReplayWindows /\ tcp_mode \in BOOLEAN
  /\ send \in PacketIds /\ net \subseteq PacketIds
  /\ now \in Nat /\ now > SEQ_EXPIRED
  /\ rec \in Records /\ persist \in PacketIds /\ file \in PacketIds

Memory == accepted \subseteq PacketIds /\ Remembers(rec, accepted) /\ ListInUse(rec, accepted)

RInv == Shapes /\ Memory /\ NoReplay

\* The sender's side: every packet sent is at or before the sender's position.
Behind(q) ==
  IF long_form
  THEN q.time < send.time \/ (q.time = send.time /\ q.id <= send.id)
  ELSE q.id <= send.id

SInv == send \in PacketIds /\ net \subseteq PacketIds /\ (\A q \in net : Behind(q)) /\ SentOnce

LEMMA NowhereIsPacketId == Nowhere \in PacketIds
BY PacketIdAssumption DEF Nowhere, Pin, PacketIds

LEMMA AllocOutgoing ==
  ASSUME NEW s \in PacketIds, NEW t \in Nat
  PROVE  LET r == packet_id_alloc_outgoing(s, t)
         IN  /\ r \in PacketIds /\ r.id > 0
             /\ \/ r.id = s.id + 1 /\ r.time = IF s.time = 0 THEN t ELSE s.time
                \/ s.id + 1 = ID_MOD /\ r.time = t
<1>1. s.id \in 0 .. (ID_MOD - 1) /\ s.time \in Nat /\ ID_MOD \in Nat /\ ID_MOD > 1
  BY PacketIdAssumption DEF PacketIds
<1>2. CASE s.id + 1 < ID_MOD
  <2>1. (s.id + 1) % ID_MOD = s.id + 1 /\ s.id + 1 # 0 /\ s.id + 1 \in 0 .. (ID_MOD - 1)
    BY <1>1, <1>2
  <2>2. packet_id_alloc_outgoing(s, t) =
          [id |-> s.id + 1, time |-> IF s.time = 0 THEN t ELSE s.time]
    BY <2>1 DEF packet_id_alloc_outgoing
  <2> QED BY <1>1, <2>1, <2>2 DEF PacketIds
<1>3. CASE s.id + 1 = ID_MOD
  <2>1. (s.id + 1) % ID_MOD = 0
    BY <1>1, <1>3
  <2>2. packet_id_alloc_outgoing(s, t) = [id |-> 1, time |-> t]
    BY <2>1 DEF packet_id_alloc_outgoing
  <2> QED BY <1>1, <1>3, <2>2 DEF PacketIds
<1> QED BY <1>1, <1>2, <1>3

\* The packet that Send puts on the network.
LEMMA SentPacket ==
  ASSUME send \in PacketIds, Send
  PROVE  /\ send' \in PacketIds /\ send'.id > 0
         /\ \/ send'.id = send.id + 1 /\ send'.time = IF send.time = 0 THEN send.time + 1 ELSE send.time
            \/ long_form /\ send'.time = send.time + 1
         /\ Pin(send'.id, IF long_form THEN send'.time ELSE 0) \in PacketIds
         /\ net' = net \cup {Pin(send'.id, IF long_form THEN send'.time ELSE 0)}
<1>1. send.id \in Nat /\ send.time \in Nat /\ send.time + 1 \in Nat
  BY DEF PacketIds
<1> DEFINE next == packet_id_alloc_outgoing(send, send.time + 1)
<1>2. /\ next \in PacketIds /\ next.id > 0
      /\ \/ next.id = send.id + 1 /\ next.time = IF send.time = 0 THEN send.time + 1 ELSE send.time
         \/ send.id + 1 = ID_MOD /\ next.time = send.time + 1
  BY <1>1, AllocOutgoing
<1>3. /\ send' = next
      /\ net' = net \cup {Pin(next.id, IF long_form THEN next.time ELSE 0)}
      /\ ~long_form => send.id + 1 < ID_MOD
  BY DEF Send
<1> HIDE DEF next
<1>4. Pin(next.id, IF long_form THEN next.time ELSE 0) \in PacketIds
  BY <1>2 DEF Pin, PacketIds
<1>5. ~(send.id + 1 = ID_MOD /\ ~long_form)
  BY <1>1, <1>3, PacketIdAssumption
<1> QED BY <1>2, <1>3, <1>4, <1>5

\* A record as packet_id_init and packet_id_persist_load_obj leave it remembers nothing.
LEMMA LoadedRecord ==
  ASSUME NEW image \in PacketIds, window \in ReplayWindows, tcp_mode \in BOOLEAN
  PROVE  Loaded(image) \in Records /\ Remembers(Loaded(image), {}) /\ ListInUse(Loaded(image), {})
<1> DEFINE p == packet_id_init(tcp_mode, window[1], window[2])
           q == [p EXCEPT !.time = image.time, !.id = image.id]
<1>1. window[1] \in Nat /\ window[2] \in Nat
  BY ReplayAssumption
<1>2. image.time \in Nat /\ image.id \in 0 .. (ID_MOD - 1) /\ 0 \in 0 .. (ID_MOD - 1)
  BY PacketIdAssumption DEF PacketIds
<1>3. p \in Records /\ p.seq_list = <<>>
  BY <1>1, <1>2 DEF packet_id_init, Records
<1> HIDE DEF p
<1>4. q \in Records /\ q.seq_list = <<>>
  BY <1>2, <1>3 DEF Records
<1>5. Loaded(image) = p \/ Loaded(image) = q
  BY DEF Loaded, p
<1> QED BY <1>3, <1>4, <1>5 DEF Remembers, ListInUse

----------------------------------------------------------------------------
LEMMA ReceiverInit == Init => RInv
<1> SUFFICES ASSUME Init PROVE RInv
  OBVIOUS
<1>1. window \in ReplayWindows /\ tcp_mode \in BOOLEAN /\ Nowhere \in PacketIds
  BY NowhereIsPacketId DEF Init
<1>2. rec = Loaded(Nowhere)
  BY DEF Init, Loaded, Nowhere, Pin
<1>3. Memory /\ rec \in Records
  BY <1>1, <1>2, LoadedRecord DEF Memory, Init
<1>4. Shapes
  BY <1>1, <1>3 DEF Shapes, Init, SEQ_EXPIRED
<1> QED BY <1>3, <1>4 DEF RInv, NoReplay, Init

LEMMA ReceiverStep == RInv /\ [Next]_vars => RInv'
<1> SUFFICES ASSUME RInv, [Next]_vars PROVE RInv'
  OBVIOUS
<1> USE DEF RInv
<1>1. CASE UNCHANGED vars
  BY <1>1 DEF vars, Shapes, Memory, NoReplay
<1>2. CASE Tick
  <2>1. Memory' /\ NoReplay'
    BY <1>2 DEF Tick, Memory, NoReplay
  <2>2. Shapes'
    BY <1>2 DEF Tick, Shapes, options, SEQ_EXPIRED
  <2> QED BY <2>1, <2>2
<1>3. CASE Send
  <2>1. Memory' /\ NoReplay'
    BY <1>3 DEF Send, Memory, NoReplay
  <2>2. send' \in PacketIds /\ net' \subseteq PacketIds
    BY <1>3, SentPacket DEF Shapes
  <2>3. Shapes'
    BY <1>3, <2>2 DEF Send, Shapes, options
  <2> QED BY <2>1, <2>3
<1>4. ASSUME NEW pin \in net, Receive(pin) PROVE RInv'
  <2> DEFINE p == packet_id_reap_test(rec, now)
  <2>1. p \in Records /\ Remembers(p, accepted) /\ ListInUse(p, accepted)
    BY ReapKeeps, ReapRemembers DEF Shapes, Memory
  <2>2. pin \in PacketIds /\ accepted \in SUBSET PacketIds
    BY DEF Shapes, Memory
  <2>3. CASE packet_id_test(p, pin)
    <3>1. /\ rec' = packet_id_add(p, pin, now) /\ persist' = Persisted(rec')
          /\ accepted' = accepted \cup {pin}
          /\ repeated' = IF pin \in accepted THEN repeated \cup {pin} ELSE repeated
      BY <1>4, <2>3 DEF Receive
    <3> HIDE DEF p
    <3>2. pin \notin accepted
      BY <2>1, <2>2, <2>3, RefusesWhatItRemembers
    <3>3. NoReplay'
      BY <3>1, <3>2 DEF NoReplay
    <3>4. rec' \in Records /\ Remembers(rec', accepted') /\ ListInUse(rec', accepted')
      BY <2>1, <2>2, <2>3, <3>1, AddRemembers DEF Shapes
    <3>5. Memory'
      BY <2>2, <3>1, <3>4 DEF Memory
    <3>6. persist' \in PacketIds
      BY <3>1, <3>4 DEF Persisted, Pin, PacketIds, Records, Shapes
    <3>7. Shapes'
      BY <1>4, <3>4, <3>6 DEF Receive, Shapes, options
    <3> QED BY <3>3, <3>5, <3>7
  <2>4. CASE ~ packet_id_test(p, pin)
    <3>1. rec' = p /\ UNCHANGED <<persist, accepted, repeated>>
      BY <1>4, <2>4 DEF Receive
    <3> HIDE DEF p
    <3>2. Memory' /\ NoReplay'
      BY <2>1, <3>1 DEF Memory, NoReplay
    <3>3. Shapes'
      BY <1>4, <2>1, <3>1 DEF Receive, Shapes, options
    <3> QED BY <3>2, <3>3
  <2> QED BY <2>3, <2>4
<1>5. SavedImage \in PacketIds
  BY DEF SavedImage, Shapes
<1>6. CASE Flush
  <2>1. Memory' /\ NoReplay'
    BY <1>6 DEF Flush, Memory, NoReplay
  <2>2. Shapes'
    BY <1>5, <1>6 DEF Flush, Shapes, options
  <2> QED BY <2>1, <2>2
<1>7. ASSUME NEW image \in PacketIds, rec' = Loaded(image), accepted' = {}
      PROVE  Memory' /\ rec' \in Records
  BY <1>7, LoadedRecord DEF Memory, Shapes
<1>8. CASE Restart
  <2>1. Memory' /\ rec' \in Records
    BY <1>5, <1>7, <1>8 DEF Restart
  <2>2. Shapes'
    BY <1>5, <1>8, <2>1 DEF Restart, Shapes, options
  <2> QED BY <1>8, <2>1, <2>2 DEF Restart, NoReplay
<1>9. CASE Crash
  <2>1. Memory' /\ rec' \in Records
    BY <1>7, <1>9 DEF Crash, Shapes
  <2>2. Shapes'
    BY <1>9, <2>1 DEF Crash, Shapes, options
  <2> QED BY <1>9, <2>1, <2>2 DEF Crash, NoReplay
<1> QED BY <1>1, <1>2, <1>3, <1>4, <1>6, <1>8, <1>9 DEF Next

\* openvpn_decrypt passes no packet id twice while the receiver runs, whatever
\* the network does with the packets and however large the ids and the window
\* are: packet_id_test refuses every id that packet_id_add has recorded,
\* whether the list was shifted, started anew or reaped since.
THEOREM ReplayProtection == Spec => []NoReplay
<1>1. Init => RInv
  BY ReceiverInit
<1>2. RInv /\ [Next]_vars => RInv'
  BY ReceiverStep
<1>3. RInv => NoReplay
  BY DEF RInv
<1> QED BY <1>1, <1>2, <1>3, PTL DEF Spec

----------------------------------------------------------------------------
LEMMA SenderStep == SInv /\ [Next]_vars => SInv'
<1> SUFFICES ASSUME SInv, [Next]_vars PROVE SInv'
  OBVIOUS
<1>1. CASE UNCHANGED <<options, send, net, reissued>>
  BY <1>1 DEF SInv, Behind, SentOnce, options
<1>2. CASE Send
  <2> DEFINE pin == Pin(send'.id, IF long_form THEN send'.time ELSE 0)
  <2>1. /\ send \in PacketIds /\ net \subseteq PacketIds /\ reissued = {}
        /\ \A q \in net : Behind(q)
    BY DEF SInv, SentOnce
  <2>2. /\ send' \in PacketIds /\ send'.id > 0
        /\ \/ send'.id = send.id + 1 /\ send'.time = IF send.time = 0 THEN send.time + 1 ELSE send.time
           \/ long_form /\ send'.time = send.time + 1
        /\ pin \in PacketIds /\ net' = net \cup {pin}
    BY <1>2, <2>1, SentPacket
  <2>3. /\ send.id \in Nat /\ send.time \in Nat /\ send'.id \in Nat /\ send'.time \in Nat
        /\ long_form' = long_form
    BY <1>2, <2>1, <2>2 DEF PacketIds, Send, options
  <2>4. pin.id = send'.id /\ pin.time = IF long_form THEN send'.time ELSE 0
    BY DEF Pin
  <2> HIDE DEF pin
  <2>5. ASSUME NEW q \in net PROVE Behind(q)' /\ q # pin
    <3>1. q.id \in Nat /\ q.time \in Nat /\ Behind(q)
      BY <2>1 DEF PacketIds
    <3>2. CASE long_form
      <4>1. q.time < send.time \/ (q.time = send.time /\ q.id <= send.id)
        BY <3>1, <3>2 DEF Behind
      <4>2. pin.id = send'.id /\ pin.time = send'.time
        BY <2>4, <3>2
      <4>3. /\ q.time < send'.time \/ (q.time = send'.time /\ q.id <= send'.id)
            /\ ~(q.id = pin.id /\ q.time = pin.time)
        BY <2>2, <2>3, <3>1, <4>1, <4>2
      <4> QED BY <2>3, <3>2, <4>3 DEF Behind
    <3>3. CASE ~long_form
      <4>1. q.id <= send.id /\ send'.id = send.id + 1
        BY <2>2, <3>1, <3>3 DEF Behind
      <4>2. q.id <= send'.id /\ q.id # pin.id
        BY <2>3, <2>4, <3>1, <4>1
      <4> QED BY <2>3, <3>3, <4>2 DEF Behind
    <3> QED BY <3>2, <3>3
  <2>6. IF long_form'
        THEN pin.time < send'.time \/ (pin.time = send'.time /\ pin.id <= send'.id)
        ELSE pin.id <= send'.id
    BY <2>3, <2>4
  <2>7. reissued' = {}
    <3>1. pin \notin net
      BY <2>5
    <3>2. reissued' = IF pin \in net THEN reissued \cup {pin} ELSE reissued
      BY <1>2 DEF Send, pin
    <3> QED BY <2>1, <3>1, <3>2
  <2>8. \A q \in net' : IF long_form'
                        THEN q.time < send'.time \/ (q.time = send'.time /\ q.id <= send'.id)
                        ELSE q.id <= send'.id
    BY <2>2, <2>5, <2>6 DEF Behind
  <2> QED BY <2>1, <2>2, <2>7, <2>8 DEF SInv, SentOnce, Behind
<1>3. ASSUME NEW pin \in net, Receive(pin) PROVE UNCHANGED <<options, send, net, reissued>>
  BY <1>3 DEF Receive
<1>4. Tick \/ Flush \/ Restart \/ Crash => UNCHANGED <<options, send, net, reissued>>
  BY DEF Tick, Flush, Restart, Crash
<1>5. UNCHANGED vars => UNCHANGED <<options, send, net, reissued>>
  BY DEF vars, options
<1> QED BY <1>1, <1>2, <1>3, <1>4, <1>5 DEF Next

\* openvpn_encrypt never puts the same packet id on two packets: when the ids
\* wrap, packet_id_alloc_outgoing takes a new time stamp, and in the short form
\* it does not let them wrap.
THEOREM IdsUsedOnce == Spec => []SentOnce
<1>1. Init => SInv
  BY NowhereIsPacketId DEF Init, SInv, SentOnce
<1>2. SInv /\ [Next]_vars => SInv'
  BY SenderStep
<1>3. SInv => SentOnce
  BY DEF SInv
<1> QED BY <1>1, <1>2, <1>3, PTL DEF Spec

----------------------------------------------------------------------------
(* The window does not forget more than it must.  The list is as long as   *)
(* the ids and the window allow, and an item of it that is not SEQ_UNSEEN  *)
(* belongs to a packet that was accepted, unless it expired after a later  *)
(* one.                                                                    *)
Accounted(p, S, i) ==
  \/ p.seq_list[i] = SEQ_UNSEEN
  \/ Pin(p.id - i + 1, p.time) \in S
  \/ i > 1 /\ p.seq_list[i] = SEQ_EXPIRED /\ p.seq_list[i - 1] = SEQ_EXPIRED

FullLength(p) ==
  p.seq_list # <<>> => Len(p.seq_list) = IF p.id < p.seq_backtrack THEN p.id ELSE p.seq_backtrack

Keeps(p, S) == FullLength(p) /\ \A i \in 1 .. Len(p.seq_list) : Accounted(p, S, i)

\* The items that packet_id_reap lets expire are exactly these.
LEMMA ReapedItems ==
  ASSUME NEW p \in Records, NEW t \in Nat
  PROVE  LET r == packet_id_reap_test(p, t)
         IN  \A i \in 1 .. Len(p.seq_list) :
               \/ r.seq_list[i] = p.seq_list[i]
               \/ r.seq_list[i] = SEQ_EXPIRED /\ i \in reached(p) /\ \E j \in too_old(p, t) : j <= i
<1> DEFINE g == [i \in DOMAIN p.seq_list |->
                   IF i \in reached(p) /\ (\E j \in too_old(p, t) : j <= i)
                   THEN SEQ_EXPIRED ELSE p.seq_list[i]]
           list == IF p.time_backtrack = 0 THEN p.seq_list ELSE g
<1>1. p.seq_list \in Seq(Nat) /\ DOMAIN p.seq_list = 1 .. Len(p.seq_list)
  BY DEF Records
<1>2. \A i \in 1 .. Len(p.seq_list) :
        \/ list[i] = p.seq_list[i]
        \/ list[i] = SEQ_EXPIRED /\ i \in reached(p) /\ \E j \in too_old(p, t) : j <= i
  BY <1>1
<1>3. packet_id_reap(p, t) = [p EXCEPT !.last_reap = t, !.seq_list = list]
  BY DEF packet_id_reap
<1> HIDE DEF list, g
<1>4. packet_id_reap(p, t).seq_list = list
  BY <1>3 DEF Records
<1> QED BY <1>2, <1>4 DEF packet_id_reap_test

\* Reaping keeps the accounts: the first item that expires had been seen, and
\* the items after it expire with it.
LEMMA ReapKeepsWindow ==
  ASSUME NEW p \in Records, NEW t \in Nat, NEW S, Keeps(p, S)
  PROVE  Keeps(packet_id_reap_test(p, t), S)
<1> DEFINE r == packet_id_reap_test(p, t)
<1>1. /\ r \in Records /\ r.time = p.time /\ r.id = p.id /\ r.seq_backtrack = p.seq_backtrack
      /\ Len(r.seq_list) = Len(p.seq_list)
  BY ReapKeeps
<1>2. \A i \in 1 .. Len(p.seq_list) :
        \/ r.seq_list[i] = p.seq_list[i]
        \/ r.seq_list[i] = SEQ_EXPIRED /\ i \in reached(p) /\ \E j \in too_old(p, t) : j <= i
  BY ReapedItems
<1>3. ASSUME NEW i \in reached(p), \E j \in too_old(p, t) : j <= i
      PROVE  r.seq_list[i] = SEQ_EXPIRED \/ r = p \/ r.seq_list = p.seq_list
  <2>1. i \in DOMAIN p.seq_list
    BY DEF reached
  <2> DEFINE g == [x \in DOMAIN p.seq_list |->
                     IF x \in reached(p) /\ (\E j \in too_old(p, t) : j <= x)
                     THEN SEQ_EXPIRED ELSE p.seq_list[x]]
             list == IF p.time_backtrack = 0 THEN p.seq_list ELSE g
  <2>2. list[i] = SEQ_EXPIRED \/ list = p.seq_list
    BY <1>3, <2>1
  <2>3. packet_id_reap(p, t) = [p EXCEPT !.last_reap = t, !.seq_list = list]
    BY DEF packet_id_reap
  <2> HIDE DEF list, g
  <2>4. packet_id_reap(p, t).seq_list = list
    BY <2>3 DEF Records
  <2> QED BY <2>2, <2>4 DEF packet_id_reap_test
<1> HIDE DEF r
<1>4. p.seq_list \in Seq(Nat) /\ r.seq_list \in Seq(Nat) /\ Len(p.seq_list) \in Nat
  BY <1>1 DEF Records
<1>5. FullLength(r)
  <2>1. r.seq_list = <<>> <=> p.seq_list = <<>>
    BY <1>1, <1>4
  <2> QED BY <1>1, <2>1 DEF Keeps, FullLength
<1>6. ASSUME NEW i \in 1 .. Len(p.seq_list) PROVE Accounted(r, S, i)
  <2>0. i \in Nat /\ Accounted(p, S, i)
    BY <1>4 DEF Keeps
  <2>1. CASE r.seq_list = p.seq_list
    BY <1>1, <2>0, <2>1 DEF Accounted
  <2>2. CASE r.seq_list # p.seq_list /\ r.seq_list[i] = p.seq_list[i]
    <3>1. CASE i > 1 /\ p.seq_list[i] = SEQ_EXPIRED /\ p.seq_list[i - 1] = SEQ_EXPIRED
      <4>1. i - 1 \in 1 .. Len(p.seq_list)
        BY <1>4, <2>0, <3>1
      <4>2. r.seq_list[i - 1] = SEQ_EXPIRED
        BY <1>2, <3>1, <4>1
      <4> QED BY <2>2, <3>1, <4>2 DEF Accounted
    <3> QED BY <1>1, <2>0, <2>2, <3>1 DEF Accounted
  <2>3. CASE r.seq_list # p.seq_list /\ r.seq_list[i] # p.seq_list[i]
    <3>1. PICK j \in too_old(p, t) : j <= i /\ i \in reached(p) /\ r.seq_list[i] = SEQ_EXPIRED
      BY <1>2, <2>3
    <3>2. /\ j \in 1 .. Len(p.seq_list) /\ j \in Nat /\ p.seq_list[j] # SEQ_UNSEEN
          /\ \A k \in 1 .. i : p.seq_list[k] # SEQ_EXPIRED
      BY <1>4, <3>1 DEF too_old, reached
    <3>3. CASE j = i
      BY <1>1, <2>0, <3>2, <3>3 DEF Accounted
    <3>4. CASE j # i
      <4>1. i > 1 /\ i - 1 \in 1 .. Len(p.seq_list) /\ j <= i - 1
        BY <1>4, <2>0, <3>1, <3>2, <3>4
      <4>2. i - 1 \in reached(p)
        <5>1. \A k \in 1 .. (i - 1) : p.seq_list[k] # SEQ_EXPIRED
          BY <2>0, <3>2
        <5> QED BY <1>4, <4>1, <5>1 DEF reached
      <4>3. r.seq_list[i - 1] = SEQ_EXPIRED
        BY <1>3, <2>3, <3>1, <4>1, <4>2
      <4> QED BY <3>1, <4>1, <4>3 DEF Accounted
    <3> QED BY <3>3, <3>4
  <2> QED BY <2>1, <2>2, <2>3
<1> QED BY <1>1, <1>5, <1>6 DEF Keeps, r
\* packet_id_add accounts for the packet it records and loses no item that
\* still fits the window.
LEMMA AddKeepsWindow ==
  ASSUME NEW p \in Records, NEW pin \in PacketIds, NEW t \in Nat, t > SEQ_EXPIRED,
         NEW S, p.seq_backtrack # 0, packet_id_test(p, pin), Keeps(p, S)
  PROVE  Keeps(packet_id_add(p, pin, t), S \cup {pin})
<1> DEFINE r == packet_id_add(p, pin, t)
           S2 == S \cup {pin}
<1>1. /\ pin.id \in Nat /\ pin.time \in Nat /\ p.id \in Nat /\ p.time \in Nat
      /\ p.seq_backtrack \in Nat /\ p.seq_list \in Seq(Nat) /\ Len(p.seq_list) \in Nat
      /\ pin = Pin(pin.id, pin.time)
  BY PacketIdAssumption DEF Records, PacketIds, Pin
<1>2. /\ pin.id > 0
      /\ \/ pin.time > p.time
         \/ pin.time = p.time /\ pin.id > p.id
         \/ /\ pin.time = p.time /\ pin.id <= p.id /\ p.id - pin.id < Len(p.seq_list)
            /\ p.seq_list[p.id - pin.id + 1] = SEQ_UNSEEN
  BY <1>1 DEF packet_id_test
<1>3. ASSUME r.id = pin.id, r.time = pin.time PROVE Pin(r.id - 1 + 1, r.time) \in S2
  <2>1. pin.id - 1 + 1 = pin.id
    BY <1>1
  <2> QED BY <1>1, <1>3, <2>1
<1>4. CASE starts_anew(p, pin)
  <2>1. /\ r \in Records /\ r.seq_backtrack = p.seq_backtrack /\ r.time = pin.time /\ r.id = pin.id
        /\ Len(r.seq_list) = IF pin.id < p.seq_backtrack THEN pin.id ELSE p.seq_backtrack
        /\ \A i \in 2 .. Len(r.seq_list) : r.seq_list[i] = SEQ_UNSEEN
    BY <1>1, <1>2, <1>4, AddAnew, SMTT(60)
  <2> HIDE DEF r, S2
  <2>2. FullLength(r)
    BY <2>1 DEF FullLength
  <2>3. ASSUME NEW i \in 1 .. Len(r.seq_list) PROVE Accounted(r, S2, i)
    <3>1. i = 1 \/ i \in 2 .. Len(r.seq_list)
      BY <1>1, <2>1
    <3> QED BY <1>3, <2>1, <3>1 DEF Accounted
  <2> QED BY <2>2, <2>3 DEF Keeps, r, S2
<1>5. CASE ~ starts_anew(p, pin) /\ pin.id > p.id
  <2> DEFINE n == pin.id - p.id
  <2>0. pin.time = p.time /\ p.seq_list # <<>>
    BY <1>1, <1>2, <1>5 DEF starts_anew
  <2>1. /\ r \in Records /\ r.seq_backtrack = p.seq_backtrack /\ r.time = p.time /\ r.id = pin.id
        /\ Len(r.seq_list) <= Len(p.seq_list) + n
        /\ Len(r.seq_list) = IF Len(p.seq_list) + n <= p.seq_backtrack
                             THEN Len(p.seq_list) + n ELSE p.seq_backtrack
        /\ \A i \in 2 .. Len(r.seq_list) : i <= n => r.seq_list[i] = SEQ_UNSEEN
        /\ \A i \in 1 .. Len(r.seq_list) : i > n => r.seq_list[i] = p.seq_list[i - n]
    BY <1>1, <1>2, <1>5, <2>0, AddAhead, SMTT(60)
  <2>2. n \in Nat /\ n > 0 /\ pin.id = p.id + n /\ Len(r.seq_list) \in Nat
    BY <1>1, <1>5, <2>1
  <2> HIDE DEF r, S2, n
  <2>3. FullLength(r)
    <3>1. Len(p.seq_list) = IF p.id < p.seq_backtrack THEN p.id ELSE p.seq_backtrack
      BY <2>0 DEF Keeps, FullLength
    <3>2. Len(r.seq_list) = IF pin.id < p.seq_backtrack THEN pin.id ELSE p.seq_backtrack
      BY <1>1, <2>1, <2>2, <3>1
    <3> QED BY <2>1, <3>2 DEF FullLength
  <2>4. ASSUME NEW i \in 1 .. Len(r.seq_list) PROVE Accounted(r, S2, i)
    <3>0. i \in Nat /\ i >= 1 /\ i <= Len(r.seq_list)
      BY <2>2
    <3>1. CASE i = 1
      BY <1>3, <2>0, <2>1, <3>1 DEF Accounted
    <3>2. CASE i # 1 /\ i <= n
      <4>1. i \in 2 .. Len(r.seq_list)
        BY <2>2, <3>0, <3>2
      <4> QED BY <2>1, <3>2, <4>1 DEF Accounted
    <3>3. CASE i > n
      <4> DEFINE k == i - n
      <4>1. k \in 1 .. Len(p.seq_list) /\ r.seq_list[i] = p.seq_list[k]
        BY <1>1, <2>1, <2>2, <3>0, <3>3, SMTT(60)
      <4>2. p.id - k + 1 = pin.id - i + 1 /\ k \in Nat
        BY <1>1, <2>2, <3>0, <3>3
      <4> HIDE DEF k
      <4>3. Accounted(p, S, k)
        BY <4>1 DEF Keeps
      <4>4. CASE p.seq_list[k] = SEQ_UNSEEN
        BY <4>1, <4>4 DEF Accounted
      <4>5. CASE Pin(p.id - k + 1, p.time) \in S
        BY <2>1, <4>2, <4>5 DEF Accounted, S2
      <4>6. CASE k > 1 /\ p.seq_list[k] = SEQ_EXPIRED /\ p.seq_list[k - 1] = SEQ_EXPIRED
        <5>1. i - 1 \in 1 .. Len(r.seq_list) /\ i - 1 > n /\ i - 1 - n = k - 1 /\ i > 1
          BY <2>2, <3>0, <3>3, <4>6 DEF k
        <5>2. r.seq_list[i - 1] = SEQ_EXPIRED
          BY <2>1, <4>6, <5>1
        <5> QED BY <4>1, <4>6, <5>1, <5>2 DEF Accounted
      <4> QED BY <4>3, <4>4, <4>5, <4>6 DEF Accounted
    <3> QED BY <2>2, <3>0, <3>1, <3>2, <3>3
  <2> QED BY <2>3, <2>4 DEF Keeps, r, S2
<1>6. CASE ~ starts_anew(p, pin) /\ ~(pin.id > p.id)
  <2> DEFINE k == p.id - pin.id + 1
  <2>0. /\ pin.time = p.time /\ pin.id <= p.id /\ p.id - pin.id < Len(p.seq_list)
        /\ p.seq_list[k] = SEQ_UNSEEN /\ p.seq_list # <<>>
    BY <1>1, <1>2, <1>6 DEF starts_anew
  <2>1. /\ r \in Records /\ r.seq_backtrack = p.seq_backtrack /\ r.time = p.time /\ r.id = p.id
        /\ Len(r.seq_list) = Len(p.seq_list)
        /\ \A i \in 1 .. Len(p.seq_list) : i # k => r.seq_list[i] = p.seq_list[i]
    BY <1>6, <2>0, AddBehind
  <2>2. k \in Nat /\ p.id - k + 1 = pin.id
    BY <1>1, <2>0, SMTT(60)
  <2> HIDE DEF r, S2, k
  <2>3. FullLength(r)
    BY <2>0, <2>1 DEF Keeps, FullLength
  <2>4. ASSUME NEW i \in 1 .. Len(r.seq_list) PROVE Accounted(r, S2, i)
    <3>0. i \in Nat /\ i >= 1 /\ i \in 1 .. Len(p.seq_list) /\ i <= Len(p.seq_list)
      BY <1>1, <2>1
    <3>1. CASE i = k
      <4>1. Pin(r.id - i + 1, r.time) = pin
        BY <1>1, <2>0, <2>1, <2>2, <3>1
      <4> QED BY <4>1 DEF Accounted, S2
    <3>2. CASE i # k
      <4>1. r.seq_list[i] = p.seq_list[i] /\ Accounted(p, S, i)
        BY <2>1, <3>0, <3>2 DEF Keeps
      <4>2. CASE i > 1 /\ p.seq_list[i] = SEQ_EXPIRED /\ p.seq_list[i - 1] = SEQ_EXPIRED
        <5>1. i - 1 # k /\ i - 1 \in 1 .. Len(p.seq_list)
          BY <1>1, <2>0, <3>0, <4>2, SMTT(60) DEF SEQ_UNSEEN, SEQ_EXPIRED
        <5>2. r.seq_list[i - 1] = SEQ_EXPIRED
          BY <2>1, <4>2, <5>1
        <5> QED BY <4>1, <4>2, <5>2 DEF Accounted
      <4> QED BY <2>1, <4>1, <4>2 DEF Accounted, S2
    <3> QED BY <3>1, <3>2
  <2> QED BY <2>3, <2>4 DEF Keeps, r, S2
<1> QED BY <1>4, <1>5, <1>6

\* The options a record carries never change.
LEMMA BacktrackKept ==
  ASSUME NEW p \in Records, NEW pin \in PacketIds, NEW t \in Nat, t > SEQ_EXPIRED,
         packet_id_test(p, pin)
  PROVE  packet_id_add(p, pin, t).seq_backtrack = p.seq_backtrack
<1>1. /\ pin.id \in Nat /\ pin.time \in Nat /\ p.id \in Nat /\ p.time \in Nat
      /\ p.seq_list \in Seq(Nat)
  BY DEF Records, PacketIds
<1>2. CASE p.seq_backtrack = 0
  BY <1>2 DEF packet_id_add, Records
<1>3. CASE p.seq_backtrack # 0
  <2>1. /\ pin.id > 0
        /\ \/ pin.time > p.time
           \/ pin.time = p.time /\ pin.id > p.id
           \/ pin.time = p.time /\ pin.id <= p.id /\ p.id - pin.id < Len(p.seq_list)
    BY <1>1, <1>3 DEF packet_id_test
  <2>2. CASE starts_anew(p, pin)
    BY <1>3, <2>1, <2>2, AddAnew
  <2>3. CASE ~ starts_anew(p, pin) /\ pin.id > p.id
    <3>1. pin.time = p.time
      BY <1>1, <2>1, <2>3 DEF starts_anew
    <3> QED BY <1>3, <2>3, <3>1, AddAhead
  <2>4. CASE ~ starts_anew(p, pin) /\ ~(pin.id > p.id)
    <3>1. pin.time = p.time /\ pin.id <= p.id /\ p.id - pin.id < Len(p.seq_list)
      BY <1>1, <2>1, <2>4 DEF starts_anew
    <3> QED BY <1>3, <2>4, <3>1, AddBehind
  <2> QED BY <2>2, <2>3, <2>4
<1> QED BY <1>2, <1>3

WInv ==
  /\ \A q \in net : q.id > 0
  /\ rec.seq_backtrack = IF tcp_mode THEN 0 ELSE window[1]
  /\ Keeps(rec, accepted)

LEMMA LoadedKeeps ==
  ASSUME NEW image \in PacketIds, window \in ReplayWindows, tcp_mode \in BOOLEAN
  PROVE  /\ Loaded(image).seq_backtrack = IF tcp_mode THEN 0 ELSE window[1]
         /\ Loaded(image).seq_list = <<>>
         /\ \A S : Keeps(Loaded(image), S)
<1> DEFINE p == packet_id_init(tcp_mode, window[1], window[2])
           q == [p EXCEPT !.time = image.time, !.id = image.id]
<1>1. p.seq_list = <<>> /\ p.seq_backtrack = IF tcp_mode THEN 0 ELSE window[1]
  BY DEF packet_id_init
<1>2. q.seq_list = <<>> /\ q.seq_backtrack = p.seq_backtrack
  BY <1>1 DEF packet_id_init
<1>3. Loaded(image) = p \/ Loaded(image) = q
  BY DEF Loaded
<1> HIDE DEF p, q
<1> QED BY <1>1, <1>2, <1>3 DEF Keeps, FullLength

LEMMA WindowInit == Init => WInv
<1> SUFFICES ASSUME Init PROVE WInv
  OBVIOUS
<1>1. rec = Loaded(Nowhere) /\ window \in ReplayWindows /\ tcp_mode \in BOOLEAN /\ net = {}
  BY DEF Init, Loaded, Nowhere, Pin
<1> QED BY <1>1, LoadedKeeps, NowhereIsPacketId DEF WInv

LEMMA WindowStep == RInv /\ WInv /\ [Next]_vars => WInv'
<1> SUFFICES ASSUME RInv, WInv, [Next]_vars PROVE WInv'
  OBVIOUS
<1>0. Shapes
  BY DEF RInv
<1>1. CASE UNCHANGED <<options, rec, net, accepted>>
  BY <1>1 DEF WInv, options
<1>2. CASE Send
  <2>1. send'.id > 0 /\ net' = net \cup {Pin(send'.id, IF long_form THEN send'.time ELSE 0)}
    BY <1>0, <1>2, SentPacket DEF Shapes
  <2>2. \A q \in net' : q.id > 0
    BY <2>1 DEF WInv, Pin
  <2>3. UNCHANGED <<options, rec, accepted>>
    BY <1>2 DEF Send
  <2> QED BY <2>2, <2>3 DEF WInv, options
<1>3. ASSUME NEW pin \in net, Receive(pin) PROVE WInv'
  <2> DEFINE p == packet_id_reap_test(rec, now)
  <2>1. p \in Records /\ p.seq_backtrack = rec.seq_backtrack /\ Keeps(p, accepted)
    BY <1>0, ReapKeeps, ReapKeepsWindow DEF Shapes, WInv
  <2>2. pin \in PacketIds /\ now \in Nat /\ now > SEQ_EXPIRED /\ UNCHANGED <<options, net>>
    BY <1>0, <1>3 DEF Shapes, Receive
  <2>3. CASE packet_id_test(p, pin)
    <3>1. rec' = packet_id_add(p, pin, now) /\ accepted' = accepted \cup {pin}
      BY <1>3, <2>3 DEF Receive
    <3> HIDE DEF p
    <3>2. rec'.seq_backtrack = rec.seq_backtrack
      BY <2>1, <2>2, <2>3, <3>1, BacktrackKept
    <3>3. CASE p.seq_backtrack # 0
      <4>1. Keeps(rec', accepted')
        BY <2>1, <2>2, <2>3, <3>1, <3>3, AddKeepsWindow
      <4> QED BY <2>2, <3>2, <4>1 DEF WInv, options
    <3>4. CASE p.seq_backtrack = 0
      <4>1. p.seq_list = <<>>
        BY <1>0, <2>1, <3>4, ReapRemembers DEF RInv, Memory, ListInUse, Shapes, p
      <4>2. rec'.seq_list = <<>>
        BY <2>1, <3>1, <3>4, <4>1 DEF packet_id_add, Records
      <4>3. Keeps(rec', accepted')
        BY <4>2 DEF Keeps, FullLength
      <4> QED BY <2>2, <3>2, <4>3 DEF WInv, options
    <3> QED BY <3>3, <3>4
  <2>4. CASE ~ packet_id_test(p, pin)
    <3>1. rec' = p /\ accepted' = accepted
      BY <1>3, <2>4 DEF Receive
    <3> QED BY <2>1, <2>2, <3>1 DEF WInv, options
  <2> QED BY <2>3, <2>4
<1>4. SavedImage \in PacketIds /\ file \in PacketIds
  BY <1>0 DEF SavedImage, Shapes
<1>5. ASSUME NEW image \in PacketIds, rec' = Loaded(image), UNCHANGED <<options, net>> PROVE WInv'
  <2>1. /\ rec'.seq_backtrack = IF tcp_mode THEN 0 ELSE window[1]
        /\ Keeps(rec', accepted')
    BY <1>0, <1>5, LoadedKeeps DEF Shapes
  <2> QED BY <1>5, <2>1 DEF WInv, options
<1>6. Restart \/ Crash => WInv'
  BY <1>4, <1>5 DEF Restart, Crash
<1>7. Tick \/ Flush \/ UNCHANGED vars => UNCHANGED <<options, rec, net, accepted>>
  BY DEF Tick, Flush, vars, options
<1> QED BY <1>1, <1>2, <1>3, <1>6, <1>7 DEF Next

\* What the invariant says of a packet that was not accepted yet.
LEMMA WindowTolerates == RInv /\ WInv => ReorderingTolerated
<1> SUFFICES ASSUME RInv, WInv, NEW pin \in net, pin \notin accepted,
                    ~tcp_mode, window[1] > 0, rec.seq_list # <<>>,
                    pin.time = rec.time, rec.id - pin.id < window[1], Recent(pin)
             PROVE  packet_id_test(packet_id_reap_test(rec, now), pin)
  BY DEF ReorderingTolerated
<1> DEFINE p == packet_id_reap_test(rec, now)
           k == rec.id - pin.id + 1
<1>1. /\ rec \in Records /\ now \in Nat /\ pin \in PacketIds /\ pin.id \in Nat /\ pin.id > 0
      /\ rec.id \in Nat /\ rec.seq_list \in Seq(Nat) /\ Len(rec.seq_list) \in Nat
      /\ window[1] \in Nat /\ rec.seq_backtrack = window[1]
    BY ReplayAssumption, SMTT(60) DEF RInv, Shapes, WInv, Records, PacketIds
<1>2. /\ p \in Records /\ p.time = rec.time /\ p.id = rec.id /\ p.seq_backtrack = rec.seq_backtrack
      /\ Len(p.seq_list) = Len(rec.seq_list)
  BY <1>1, ReapKeeps
<1>3. \A i \in 1 .. Len(rec.seq_list) :
        \/ p.seq_list[i] = rec.seq_list[i]
        \/ p.seq_list[i] = SEQ_EXPIRED /\ i \in reached(rec) /\ \E j \in too_old(rec, now) : j <= i
  BY <1>1, ReapedItems
<1> HIDE DEF p
<1>4. CASE pin.id > rec.id
  BY <1>1, <1>2, <1>4 DEF packet_id_test, p
<1>5. CASE pin.id <= rec.id
  <2>1. /\ Len(rec.seq_list) = IF rec.id < window[1] THEN rec.id ELSE window[1]
        /\ k \in 1 .. Len(rec.seq_list) /\ k \in Nat
    <3>1. Len(rec.seq_list) = IF rec.id < window[1] THEN rec.id ELSE window[1]
      BY <1>1 DEF WInv, Keeps, FullLength
    <3> QED BY <1>1, <1>5, <3>1
  <2>2. rec.id - k + 1 = pin.id /\ rec.id - pin.id = k - 1
    BY <1>1
  <2> HIDE DEF k
  <2>3. \A i \in 1 .. (k - 1) :
          /\ rec.seq_list[i] # SEQ_EXPIRED
          /\ rec.seq_list[i] # SEQ_UNSEEN => now <= rec.seq_list[i] + rec.time_backtrack
    <3>1. \A i \in 1 .. (k - 1) : i \in DOMAIN rec.seq_list
      BY <1>1, <2>1
    <3> QED BY <2>2, <3>1 DEF Recent
  <2>4. rec.seq_list[k] = SEQ_UNSEEN
    <3>1. Accounted(rec, accepted, k)
      BY <2>1 DEF WInv, Keeps
    <3>2. Pin(rec.id - k + 1, rec.time) = pin
      BY <1>1, <2>2 DEF Pin, PacketIds
    <3>3. ~(k > 1 /\ rec.seq_list[k - 1] = SEQ_EXPIRED)
      BY <2>1, <2>3
    <3> QED BY <3>1, <3>2, <3>3 DEF Accounted
  <2>5. ASSUME NEW j \in too_old(rec, now), j <= k PROVE FALSE
    <3>1. /\ j \in 1 .. Len(rec.seq_list) /\ rec.seq_list[j] # SEQ_UNSEEN
          /\ rec.seq_list[j] + rec.time_backtrack < now
      BY <1>1 DEF too_old, reached
    <3>2. j \in 1 .. (k - 1)
      BY <1>1, <2>1, <2>4, <2>5, <3>1
    <3>3. now <= rec.seq_list[j] + rec.time_backtrack
      BY <2>3, <3>1, <3>2
    <3>4. rec.seq_list[j] \in Nat /\ rec.time_backtrack \in Nat
      BY <1>1, <3>1, SMTT(60) DEF Records
    <3> QED BY <1>1, <3>1, <3>3, <3>4, SMTT(60)
  <2>6. p.seq_list[k] = SEQ_UNSEEN
    BY <1>3, <2>1, <2>4, <2>5
  <2>7. p.id - pin.id < Len(p.seq_list) /\ p.id - pin.id + 1 = k
    BY <1>1, <1>2, <2>1, <2>2
  <2> QED BY <1>1, <1>2, <1>5, <2>6, <2>7 DEF packet_id_test, p
<1> QED BY <1>1, <1>4, <1>5

\* The window tolerates reordering as far as it promises to: whatever came
\* before, and however large the ids, the window and the time limit, a packet
\* that is late but within the window passes openvpn_decrypt.
THEOREM LatePacketsPass == Spec => []ReorderingTolerated
<1>1. Init => RInv /\ WInv
  BY ReceiverInit, WindowInit
<1>2. RInv /\ WInv /\ [Next]_vars => (RInv /\ WInv)'
  BY ReceiverStep, WindowStep
<1> QED BY <1>1, <1>2, WindowTolerates, PTL DEF Spec

----------------------------------------------------------------------------
(* A restart.  Whatever was accepted up to the saved position is at or     *)
(* before the position the receiver took up, which never moves back; until *)
(* the receiver has accepted a packet its list is empty, and from then on  *)
(* the latest id in it has been seen.                                      *)
AtOrBefore(q, p) == q.id = 0 \/ q.time < p.time \/ (q.time = p.time /\ q.id <= p.id)

HeadSeen(p) == p.seq_list # <<>> => p.seq_list[1] # SEQ_UNSEEN

PInv ==
  /\ earlier \subseteq PacketIds /\ past \subseteq PacketIds
  /\ persist.time = 0 => persist.id = 0
  /\ file.time = 0 => file.id = 0
  /\ accepted = {} => rec.seq_list = <<>>
  /\ HeadSeen(rec)
  /\ \A q \in past : AtOrBefore(q, rec)

LEMMA FreshRefuses ==
  ASSUME NEW p \in Records, p.seq_list = <<>>, NEW q \in PacketIds, AtOrBefore(q, p)
  PROVE  ~ packet_id_test(p, q)
<1>1. /\ q.id \in Nat /\ q.time \in Nat /\ p.id \in Nat /\ p.time \in Nat
      /\ p.id < ID_MOD /\ q.id < ID_MOD /\ ID_MOD \in Nat /\ ID_MOD > 1 /\ Len(p.seq_list) = 0
  BY PacketIdAssumption DEF Records, PacketIds
<1>2. (p.id + 1) % ID_MOD = p.id + 1 \/ (p.id + 1) % ID_MOD = 0
  <2>1. CASE p.id + 1 < ID_MOD
    BY <1>1, <2>1
  <2>2. CASE p.id + 1 = ID_MOD
    BY <1>1, <2>2
  <2> QED BY <1>1, <2>1, <2>2
<1> QED BY <1>1, <1>2 DEF packet_id_test, AtOrBefore

\* A packet that passes the test never moves the position back, and the latest
\* id of the list stays one that was seen.
LEMMA AddMovesOn ==
  ASSUME NEW p \in Records, NEW pin \in PacketIds, NEW t \in Nat, t > SEQ_EXPIRED,
         packet_id_test(p, pin), HeadSeen(p)
  PROVE  LET r == packet_id_add(p, pin, t)
         IN  HeadSeen(r) /\ (r.time > p.time \/ (r.time = p.time /\ r.id >= p.id))
<1> DEFINE r == packet_id_add(p, pin, t)
<1> SUFFICES HeadSeen(r) /\ (r.time > p.time \/ (r.time = p.time /\ r.id >= p.id))
  OBVIOUS
<1>0. p.id \in Nat /\ p.id < ID_MOD /\ ID_MOD \in Nat /\ ID_MOD > 1
  BY PacketIdAssumption DEF Records
<1>1. /\ pin.id \in Nat /\ pin.time \in Nat /\ p.id \in Nat /\ p.time \in Nat
      /\ p.seq_backtrack \in Nat /\ p.seq_list \in Seq(Nat) /\ pin.id > 0
  BY PacketIdAssumption DEF Records, PacketIds, packet_id_test
<1>2. CASE p.seq_backtrack = 0
  <2>1. r.time = pin.time /\ r.id = pin.id /\ HeadSeen(r)
    BY <1>2 DEF packet_id_add, Records, HeadSeen
  <2>2. (p.id + 1) % ID_MOD = p.id + 1 \/ (p.id + 1) % ID_MOD = 0
    <3>1. CASE p.id + 1 < ID_MOD
      BY <1>0, <3>1
    <3>2. CASE p.id + 1 = ID_MOD
      BY <1>0, <3>2
    <3> QED BY <1>0, <3>1, <3>2
  <2>3. pin.time > p.time \/ (pin.time = p.time /\ (p.id = 0 \/ pin.id = (p.id + 1) % ID_MOD))
    BY <1>2 DEF packet_id_test
  <2> HIDE DEF r
  <2> QED BY <1>1, <2>1, <2>2, <2>3
<1>3. CASE p.seq_backtrack # 0 /\ starts_anew(p, pin)
  <2>1. r.time = pin.time /\ r.id = pin.id /\ HeadSeen(r)
    BY <1>1, <1>3, AddAnew DEF HeadSeen
  <2>2. p.seq_list = <<>> => Len(p.seq_list) = 0
    OBVIOUS
  <2>3. pin.time > p.time \/ (pin.time = p.time /\ pin.id > p.id)
    BY <1>1, <1>3, <2>2 DEF packet_id_test, starts_anew
  <2> HIDE DEF r
  <2> QED BY <1>1, <2>1, <2>3
<1>4. CASE p.seq_backtrack # 0 /\ ~ starts_anew(p, pin)
  <2>1. pin.time = p.time /\ (pin.id > p.id \/ (pin.id <= p.id /\ p.id - pin.id < Len(p.seq_list)))
    BY <1>1, <1>4 DEF packet_id_test, starts_anew
  <2>2. CASE pin.id > p.id
    <3>1. r.time = p.time /\ r.id = pin.id /\ HeadSeen(r)
      BY <1>4, <2>1, <2>2, AddAhead DEF HeadSeen
    <3> HIDE DEF r
    <3> QED BY <1>1, <2>2, <3>1
  <2>3. CASE pin.id <= p.id /\ p.id - pin.id < Len(p.seq_list)
    <3>1. /\ r.time = p.time /\ r.id = p.id /\ Len(r.seq_list) = Len(p.seq_list)
          /\ \A i \in 1 .. Len(p.seq_list) : p.seq_list[i] # SEQ_UNSEEN => r.seq_list[i] # SEQ_UNSEEN
      BY <1>4, <2>1, <2>3, AddBehind
    <3> HIDE DEF r
    <3>2. 1 \in 1 .. Len(p.seq_list) /\ p.seq_list # <<>>
      BY <1>1, <2>3
    <3> QED BY <1>1, <3>1, <3>2 DEF HeadSeen
  <2> QED BY <2>1, <2>2, <2>3
<1> QED BY <1>2, <1>3, <1>4

LEMMA RestartStep == RInv /\ PInv /\ [Next]_vars => PInv'
<1> SUFFICES ASSUME RInv, PInv, [Next]_vars PROVE PInv'
  OBVIOUS
<1>0. Shapes /\ accepted \subseteq PacketIds /\ net \subseteq PacketIds
  BY DEF RInv, Memory, Shapes
<1>1. CASE UNCHANGED <<rec, persist, file, accepted, earlier, past>>
  BY <1>1 DEF PInv
<1>2. ASSUME NEW pin \in net, Receive(pin) PROVE PInv'
  <2> DEFINE p == packet_id_reap_test(rec, now)
  <2>1. /\ p \in Records /\ p.time = rec.time /\ p.id = rec.id /\ Len(p.seq_list) = Len(rec.seq_list)
        /\ HeadSeen(p)
    <3>1. /\ p \in Records /\ p.time = rec.time /\ p.id = rec.id /\ Len(p.seq_list) = Len(rec.seq_list)
          /\ \A i \in 1 .. Len(rec.seq_list) : rec.seq_list[i] # SEQ_UNSEEN => p.seq_list[i] # SEQ_UNSEEN
      BY <1>0, ReapKeeps DEF Shapes
    <3>2. rec.seq_list \in Seq(Nat)
      BY <1>0 DEF Shapes, Records
    <3> HIDE DEF p
    <3>3. p.seq_list # <<>> => rec.seq_list # <<>> /\ 1 \in 1 .. Len(rec.seq_list)
      BY <3>1, <3>2 DEF Records
    <3> QED BY <3>1, <3>3 DEF PInv, HeadSeen
  <2>2. UNCHANGED <<file, earlier, past>>
    BY <1>2 DEF Receive
  <2>3. CASE packet_id_test(p, pin)
    <3>1. accepted' # {} /\ persist' = Persisted(rec') /\ rec' = packet_id_add(p, pin, now)
      BY <1>2, <2>3 DEF Receive
    <3>2. persist'.time = 0 => persist'.id = 0
      BY <3>1 DEF Persisted, Pin, PInv
    <3>3. HeadSeen(rec') /\ (rec'.time > p.time \/ (rec'.time = p.time /\ rec'.id >= p.id))
      BY <1>0, <2>1, <2>3, <3>1, AddMovesOn DEF Shapes
    <3>4. \A q \in past : AtOrBefore(q, rec')
      <4> TAKE q \in past
      <4>1. AtOrBefore(q, p) /\ q \in PacketIds
        BY <2>1 DEF PInv, AtOrBefore
      <4>2. rec' \in Records
        BY ReceiverStep DEF RInv, Shapes
      <4> HIDE DEF p
      <4>3. /\ q.id \in Nat /\ q.time \in Nat /\ p.id \in Nat /\ p.time \in Nat
            /\ rec'.id \in Nat /\ rec'.time \in Nat
        BY <2>1, <4>1, <4>2 DEF Records, PacketIds
      <4> QED BY <3>3, <4>1, <4>3 DEF AtOrBefore
    <3> QED BY <2>2, <3>1, <3>2, <3>3, <3>4 DEF PInv
  <2>4. CASE ~ packet_id_test(p, pin)
    <3>1. rec' = p /\ UNCHANGED <<persist, accepted>>
      BY <1>2, <2>4 DEF Receive
    <3> HIDE DEF p
    <3>2. rec.seq_list = <<>> => p.seq_list = <<>>
      BY <2>1 DEF Records
    <3> QED BY <2>1, <2>2, <3>1, <3>2 DEF PInv, AtOrBefore
  <2> QED BY <2>3, <2>4
<1>3. /\ SavedImage \in PacketIds /\ file \in PacketIds
      /\ SavedImage.time = 0 => SavedImage.id = 0
      /\ file.time = 0 => file.id = 0
  BY <1>0 DEF SavedImage, Shapes, PInv
<1>4. ASSUME NEW image \in PacketIds, image.time = 0 => image.id = 0,
             rec' = Loaded(image), persist' = image, file' = image, past' = UpTo(image),
             earlier' = earlier \cup accepted
      PROVE  PInv'
  <2>1. earlier' \subseteq PacketIds /\ past' \subseteq PacketIds
    BY <1>0, <1>4 DEF UpTo, PInv
  <2>2. rec'.seq_list = <<>>
    BY <1>0, <1>4, LoadedKeeps DEF Shapes
  <2>3. rec'.time = image.time /\ rec'.id = image.id
    BY <1>4 DEF Loaded, packet_id_init
  <2>4. \A q \in past' : AtOrBefore(q, rec')
    BY <1>4, <2>3 DEF UpTo, AtOrBefore
  <2> QED BY <1>4, <2>1, <2>2, <2>4 DEF PInv, HeadSeen
<1>5. CASE Flush
  BY <1>3, <1>5 DEF Flush, PInv
<1>6. CASE Restart
  BY <1>3, <1>4, <1>6 DEF Restart
<1>7. CASE Crash
  BY <1>3, <1>4, <1>7 DEF Crash
<1>8. Tick \/ Send \/ UNCHANGED vars => UNCHANGED <<rec, persist, file, accepted, earlier, past>>
  BY DEF Tick, Send, vars
<1> QED BY <1>1, <1>2, <1>5, <1>6, <1>7, <1>8 DEF Next

\* What the invariants say of a packet accepted in an earlier life.
LEMMA RestartExposes == RInv /\ WInv /\ PInv => RestartRemembers
<1> SUFFICES ASSUME RInv, WInv, PInv, NEW q \in past,
                    packet_id_test(packet_id_reap_test(rec, now), q)
             PROVE  /\ accepted # {} /\ ~tcp_mode
                    /\ q.time = rec.time /\ rec.id - q.id \in 1 .. (window[1] - 1)
  BY DEF RestartRemembers
<1> DEFINE p == packet_id_reap_test(rec, now)
<1>1. /\ rec \in Records /\ now \in Nat /\ q \in PacketIds /\ window[1] \in Nat /\ tcp_mode \in BOOLEAN
      /\ rec.seq_backtrack = IF tcp_mode THEN 0 ELSE window[1]
  BY ReplayAssumption DEF RInv, Shapes, PInv, WInv
<1>2. /\ p \in Records /\ p.time = rec.time /\ p.id = rec.id /\ p.seq_backtrack = rec.seq_backtrack
      /\ Len(p.seq_list) = Len(rec.seq_list)
  BY <1>1, ReapKeeps
<1>3. AtOrBefore(q, p)
  BY <1>2 DEF PInv, AtOrBefore
<1>4. packet_id_test(p, q)
  OBVIOUS
<1> HIDE DEF p
<1>5. p.seq_list # <<>> /\ rec.seq_list # <<>>
  <2>1. p.seq_list # <<>>
    BY <1>1, <1>2, <1>3, <1>4, FreshRefuses
  <2> QED BY <1>1, <1>2, <2>1 DEF Records
<1>6. accepted # {}
  BY <1>5 DEF PInv
<1>7. rec.seq_backtrack # 0
  BY <1>5 DEF RInv, Memory, ListInUse
<1>8. ~tcp_mode /\ rec.seq_backtrack = window[1]
  BY <1>1, <1>7
<1>9. /\ rec.id \in Nat /\ rec.time \in Nat /\ q.id \in Nat /\ q.time \in Nat
      /\ Len(rec.seq_list) \in Nat /\ q.id # 0
  BY <1>1, <1>4 DEF Records, PacketIds, packet_id_test
<1>10. Len(rec.seq_list) <= window[1]
  BY <1>1, <1>5, <1>8, <1>9 DEF WInv, Keeps, FullLength
<1>11. q.time < p.time \/ (q.time = p.time /\ q.id <= p.id)
  BY <1>3, <1>9 DEF AtOrBefore
<1>12. q.time = rec.time /\ q.id <= rec.id /\ rec.id - q.id < Len(rec.seq_list)
       /\ p.seq_list[rec.id - q.id + 1] = SEQ_UNSEEN
  BY <1>2, <1>4, <1>7, <1>9, <1>11 DEF packet_id_test
<1>13. rec.id # q.id
  <2> SUFFICES ASSUME rec.id = q.id PROVE FALSE
    OBVIOUS
  <2>1. p.seq_list[1] = SEQ_UNSEEN
    BY <1>9, <1>12
  <2>2. 1 \in 1 .. Len(rec.seq_list)
    BY <1>1, <1>5 DEF Records
  <2>3. p.seq_list[1] # SEQ_UNSEEN
    BY <1>1, <1>5, <2>2, ReapKeeps DEF PInv, HeadSeen, p
  <2> QED BY <2>1, <2>3
<1> QED BY <1>1, <1>6, <1>8, <1>9, <1>10, <1>12, <1>13

\* However often the receiver is closed or killed, and whatever the window, a
\* restart exposes no more than a window of old packets: packet_id_persist_load_obj
\* takes up the saved position, and only the list of packets seen is lost.
THEOREM RestartKeepsPosition == Spec => []RestartRemembers
<1>1. Init => RInv /\ WInv /\ PInv
  <2> SUFFICES ASSUME Init PROVE WInv /\ PInv
    BY ReceiverInit
  <2> QED BY WindowInit DEF Init, PInv, HeadSeen, Nowhere, Pin, packet_id_init
<1>2. RInv /\ WInv /\ PInv /\ [Next]_vars => (RInv /\ WInv /\ PInv)'
  BY ReceiverStep, WindowStep, RestartStep
<1> QED BY <1>1, <1>2, RestartExposes, PTL DEF Spec
=============================================================================
