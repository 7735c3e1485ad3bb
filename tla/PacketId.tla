------------------------------ MODULE PacketId ------------------------------
(***************************************************************************)
(* OpenVPN's packet ids (packet_id.c): how a sender numbers its packets    *)
(* and how a receiver tells a packet it has not seen from one it has.      *)
(*                                                                         *)
(* A packet id is a sequence number of fixed width (ID_MOD is 2^32) and,   *)
(* in the long form, a time stamp.  seq_list, the receiver's memory, is    *)
(* the sequence of the circular list's items, the latest id first: for     *)
(* each id the time at which it was seen, or SEQ_UNSEEN or SEQ_EXPIRED.    *)
(***************************************************************************)
EXTENDS Integers, Sequences

CONSTANTS ID_MOD, SEQ_REAP_INTERVAL

ASSUME PacketIdAssumption == ID_MOD \in Nat \ {0, 1} /\ SEQ_REAP_INTERVAL \in Nat

SEQ_UNSEEN == 0
SEQ_EXPIRED == 1

\* With TCP there is no window: seq_backtrack is 0 and seq_list stays empty.
packet_id_init(tcp_mode, seq_backtrack, time_backtrack) ==
  [time |-> 0, id |-> 0, last_reap |-> 0, seq_list |-> <<>>,
   seq_backtrack  |-> IF tcp_mode THEN 0 ELSE seq_backtrack,
   time_backtrack |-> IF tcp_mode THEN 0 ELSE time_backtrack]

\* CIRC_LIST_PUSH of n unseen items onto a list of capacity cap.
pushed(list, n, cap) ==
  LET size == IF Len(list) + n <= cap THEN Len(list) + n ELSE cap
  IN [i \in 1 .. size |-> IF i <= n THEN SEQ_UNSEEN ELSE list[i - n]]

\* A time stamp that increases, or an id beyond the window, starts the list anew.
starts_anew(p, pin) ==
  \/ p.seq_list = <<>>
  \/ pin.time > p.time
  \/ pin.id >= p.seq_backtrack /\ pin.id - p.seq_backtrack > p.id

ResetTooFar(p, pin) ==
  IF starts_anew(p, pin)
  THEN [p EXCEPT !.time = pin.time, !.seq_list = <<>>,
                 !.id = IF pin.id > 0 THEN pin.id - 1 ELSE 0]
  ELSE p

reset(p, pin) ==
  IF starts_anew(p, pin)
  THEN [p EXCEPT !.time = pin.time, !.seq_list = <<>>,
                 !.id = IF pin.id > p.seq_backtrack THEN pin.id - p.seq_backtrack ELSE 0]
  ELSE p

advance(p, pin) ==
  IF p.id < pin.id
  THEN [p EXCEPT !.id = pin.id, !.seq_list = pushed(p.seq_list, pin.id - p.id, p.seq_backtrack)]
  ELSE p

MarksLatestOnly(p, pin, now) ==
  IF p.id = pin.id THEN [p EXCEPT !.seq_list[1] = now] ELSE p

mark(p, pin, now) ==
  LET diff == p.id - pin.id
  IN IF diff < Len(p.seq_list) /\ now > SEQ_EXPIRED
     THEN [p EXCEPT !.seq_list[diff + 1] = now] ELSE p

packet_id_add(p, pin, now) ==
  IF p.seq_backtrack # 0
  THEN mark(advance(reset(p, pin), pin), pin, now)
  ELSE [p EXCEPT !.time = pin.time, !.id = pin.id]

\* Items of the list that packet_id_reap looks at: those before the first that
\* has expired already; and of these the ones that expire: from the first that
\* was seen too long ago.
reached(p) == {i \in DOMAIN p.seq_list : \A j \in 1 .. i : p.seq_list[j] # SEQ_EXPIRED}
too_old(p, now) ==
  {i \in reached(p) : p.seq_list[i] # SEQ_UNSEEN /\ p.seq_list[i] + p.time_backtrack < now}

packet_id_reap(p, now) ==
  [p EXCEPT !.last_reap = now,
            !.seq_list = IF p.time_backtrack = 0 THEN @ ELSE
               [i \in DOMAIN @ |->
                  IF i \in reached(p) /\ (\E j \in too_old(p, now) : j <= i)
                  THEN SEQ_EXPIRED ELSE @[i]]]

packet_id_reap_test(p, now) ==
  IF p.last_reap + SEQ_REAP_INTERVAL <= now THEN packet_id_reap(p, now) ELSE p

\* TRUE if the packet id is ok, FALSE if it is a replay.
packet_id_test(p, pin) ==
  /\ pin.id # 0
  /\ IF p.seq_backtrack # 0
     THEN \/ pin.time > p.time
          \/ /\ pin.time = p.time
             /\ \/ pin.id > p.id
                \/ /\ pin.id <= p.id /\ p.id - pin.id < Len(p.seq_list)
                   /\ p.seq_list[p.id - pin.id + 1] = SEQ_UNSEEN
     ELSE \/ pin.time = p.time /\ (p.id = 0 \/ pin.id = (p.id + 1) % ID_MOD)
          \/ pin.time > p.time /\ pin.id = 1

KeepsTime(s, now) ==
  LET id == (s.id + 1) % ID_MOD
  IN [id |-> IF id = 0 THEN 1 ELSE id, time |-> IF s.time = 0 THEN now ELSE s.time]

\* The sender: ids run from 1 to ID_MOD - 1; when they wrap the time is taken anew.
packet_id_alloc_outgoing(s, now) ==
  LET id == (s.id + 1) % ID_MOD
  IN [id |-> IF id = 0 THEN 1 ELSE id, time |-> IF s.time = 0 \/ id = 0 THEN now ELSE s.time]
=============================================================================
