------------------------------ MODULE Fragment ------------------------------
(***************************************************************************)
(* OpenVPN's --fragment (fragment.c): a datagram that is too long for the  *)
(* link is cut into fragments, and the receiver puts them together in a    *)
(* sliding window of reassembly buffers, one per sequence id.              *)
(*                                                                         *)
(* A byte of a datagram is the pair of the datagram's number and its place *)
(* in it; a buffer is a function from indices to bytes.                    *)
(***************************************************************************)
EXTENDS Integers, FiniteSets

CONSTANTS N_FRAG_BUF,            \* 25 in the code
          N_SEQ_ID,              \* 256
          MAX_FRAGS,             \* 32
          FRAG_SIZE_ROUND,       \* 1 << FRAG_SIZE_ROUND_SHIFT, 4
          Capacity               \* size of a reassembly buffer

ASSUME FragmentAssumption ==
  /\ N_FRAG_BUF \in Nat \ {0} /\ N_SEQ_ID \in Nat \ {0} /\ 2 * N_FRAG_BUF <= N_SEQ_ID
  /\ MAX_FRAGS \in Nat \ {0} /\ FRAG_SIZE_ROUND \in Nat \ {0} /\ Capacity \in Nat

abs(x) == IF x < 0 THEN -x ELSE x

\* The shorter way from y to x on a circle.
modulo_subtract(x, y, mod) ==
  LET d1 == x - y
      d2 == (IF x > y THEN -mod ELSE mod) + d1
  IN IF abs(d1) > abs(d2) THEN d2 ELSE d1

modulo_add(x, y, mod) ==
  IF x + y >= mod THEN x + y - mod ELSE IF x + y < 0 THEN x + y + mod ELSE x + y

----------------------------------------------------------------------------
(* The receiver.                                                           *)
Empty == [i \in {} |-> <<0, 0>>]
fragment(size) == [defined |-> TRUE, max_frag_size |-> size, map |-> {}, buf |-> Empty]
Undefined == [defined |-> FALSE, max_frag_size |-> 0, map |-> {}, buf |-> Empty]

list_init == [seq_id |-> 0, index |-> 0, fragments |-> [i \in 0 .. (N_FRAG_BUF - 1) |-> Undefined]]

KeepsSkipped(list, seq_id) ==
  LET diff == modulo_subtract(seq_id, list.seq_id, N_SEQ_ID)
  IN IF abs(diff) >= N_FRAG_BUF
     THEN [list_init EXCEPT !.seq_id = seq_id]
     ELSE IF diff > 0
     THEN [list EXCEPT !.seq_id = seq_id, !.index = modulo_add(@, diff, N_FRAG_BUF)]
     ELSE list

\* fragment_list_get_buf, as far as the list goes: it moves on to a later
\* sequence id, and what falls out of the window is given up; an id outside of
\* the window, earlier or later, starts the window anew.
slide(list, seq_id) ==
  LET diff == modulo_subtract(seq_id, list.seq_id, N_SEQ_ID)
  IN IF abs(diff) >= N_FRAG_BUF
     THEN [list_init EXCEPT !.seq_id = seq_id]
     ELSE IF diff > 0
     THEN [seq_id |-> seq_id,
           index |-> modulo_add(list.index, diff, N_FRAG_BUF),
           fragments |-> [i \in DOMAIN list.fragments |->
              IF \E k \in 1 .. diff : i = modulo_add(list.index, k, N_FRAG_BUF)
              THEN Undefined ELSE list.fragments[i]]]
     ELSE list

\* ... and the index of the buffer it returns, in the list that has moved on.
get_buf(list, seq_id) ==
  modulo_add(list.index, modulo_subtract(seq_id, list.seq_id, N_SEQ_ID), N_FRAG_BUF)

\* buf_copy_range: the bytes of fragment f at dest_index.
buf_copy_range(buf, dest_index, f) ==
  LET new == dest_index .. (dest_index + f.len - 1)
  IN [i \in DOMAIN buf \cup new |->
        IF i \in new THEN <<f.pkt, f.from + i - dest_index>> ELSE buf[i]]

MapsOnlyLast(f) == {f.frag_id}

\* The last fragment stands for all the ids from its own on.
frag_map(f) == IF f.last THEN f.frag_id .. (MAX_FRAGS - 1) ELSE {f.frag_id}

\* fragment_incoming: the list afterwards and the datagram, if it is complete.
fragment_incoming(list, f) ==
  LET l == slide(list, f.seq_id)
      at == get_buf(l, f.seq_id)
      old == l.fragments[at]
      frag == IF ~ old.defined \/ old.max_frag_size # f.size THEN fragment(f.size) ELSE old
      filled == [frag EXCEPT !.buf = buf_copy_range(@, f.frag_id * f.size, f),
                             !.map = @ \cup frag_map(f)]
      full == filled.map = 0 .. (MAX_FRAGS - 1)
  IN IF f.size % FRAG_SIZE_ROUND # 0
     THEN [list |-> l, datagram |-> Empty]
     ELSE IF f.frag_id * f.size + f.len > Capacity
     THEN [list |-> [l EXCEPT !.fragments[at] = frag], datagram |-> Empty]
     ELSE [list |-> [l EXCEPT !.fragments[at] = IF full THEN Undefined ELSE filled],
           datagram |-> IF full THEN filled.buf ELSE Empty]

----------------------------------------------------------------------------
(* The sender.                                                             *)
aligned(size) == size - (size % FRAG_SIZE_ROUND)

RoundsDown(len, max_frag_size) ==
  LET mfs_aligned == aligned(max_frag_size)
      div == len \div mfs_aligned
      mod == len % mfs_aligned
  IN IF div > 0 /\ mod > 0 /\ mod < (mfs_aligned * 3) \div 4
     THEN aligned(max_frag_size - (max_frag_size - mod) \div (div + 1))
     ELSE mfs_aligned

optimal_fragment_size(len, max_frag_size) ==
  LET mfs_aligned == aligned(max_frag_size)
      div == len \div mfs_aligned
      mod == len % mfs_aligned
      even == aligned(max_frag_size - (max_frag_size - mod) \div (div + 1) + FRAG_SIZE_ROUND - 1)
  IN IF div > 0 /\ mod > 0 /\ mod < (mfs_aligned * 3) \div 4 /\ even < mfs_aligned
     THEN even ELSE mfs_aligned

\* struct fragment_master: the rest of a datagram that is being sent.
NothingOutgoing == [pkt |-> 0, from |-> 0, len |-> 0, frag_id |-> 0, frag_size |-> 0]
outgoing(pkt, len, size) == [pkt |-> pkt, from |-> 0, len |-> len, frag_id |-> 0, frag_size |-> size]

\* The fragment that fragment_ready_to_send takes from the outgoing datagram,
\* and what is left of it.
next_fragment(out, seq_id) ==
  LET last == out.len <= out.frag_size
  IN [pkt |-> out.pkt, from |-> out.from, len |-> IF last THEN out.len ELSE out.frag_size,
      seq_id |-> seq_id, frag_id |-> out.frag_id, last |-> last, size |-> out.frag_size]

rest(out) ==
  IF out.len <= out.frag_size THEN NothingOutgoing
  ELSE [out EXCEPT !.from = @ + out.frag_size, !.len = @ - out.frag_size, !.frag_id = @ + 1]
=============================================================================
