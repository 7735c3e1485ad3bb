---------------------------- MODULE ReplayWindow ----------------------------
(***************************************************************************)
(* One direction of an OpenVPN tunnel, as far as packet ids go: the sender *)
(* numbers its packets (openvpn_encrypt), the network loses, repeats and   *)
(* reorders them, and the receiver lets a packet pass or drops it          *)
(* (openvpn_decrypt).  The receiver writes its position to a file now and  *)
(* then (--replay-persist), and takes it up again when it is restarted.    *)
(***************************************************************************)
EXTENDS PacketId

CONSTANTS ReplayWindows,  \* the pairs <<replay_window, replay_time>> to choose from
          LongForms,      \* long form: static key mode; short form: TLS mode
          MaxSent,        \* bound: packets
          MaxTime,        \* bound: the receiver's clock
          MaxLives        \* bound: restarts of the receiver

ASSUME ReplayAssumption ==
  /\ ReplayWindows \subseteq Nat \X Nat
  /\ LongForms \subseteq BOOLEAN

VARIABLES
  long_form, tcp_mode, window,   \* the options, which never change
  sent,      \* number of packets sent
  send,      \* struct packet_id_send
  net,       \* the packets sent so far: any of them may arrive, at any time, again
  now,       \* the receiver's clock
  rec,       \* struct packet_id_rec
  persist,   \* struct packet_id_persist: its time and id
  file,      \* the persisted image
  lives,
  accepted,  \* history: packet ids accepted since the receiver started
  repeated,  \* history: those of them accepted more than once
  reissued,  \* history: packet ids the sender used more than once
  earlier,   \* history: packet ids accepted in earlier lives
  past       \* history: those of them up to the position that was saved

vars == <<long_form, tcp_mode, window, sent, send, net, now, rec, persist, file, lives,
          accepted, repeated, reissued, earlier, past>>
options == <<long_form, tcp_mode, window>>

Pin(id, time) == [id |-> id, time |-> time]
Nowhere == Pin(0, 0)

Init ==
  /\ long_form \in LongForms /\ tcp_mode \in BOOLEAN /\ window \in ReplayWindows
  /\ sent = 0 /\ send = Nowhere
  /\ net = {}
  /\ now = SEQ_EXPIRED + 1
  /\ rec = packet_id_init(tcp_mode, window[1], window[2])
  /\ persist = Nowhere /\ file = Nowhere
  /\ lives = 1
  /\ accepted = {} /\ repeated = {} /\ reissued = {} /\ earlier = {} /\ past = {}

Tick ==
  /\ now < MaxTime
  /\ now' = now + 1
  /\ UNCHANGED <<options, sent, send, net, rec, persist, file, lives, accepted, repeated, reissued,
                 earlier, past>>

\* openvpn_encrypt.  Only the order of the sender's time stamps matters.  Two
\* assumptions: the clock has moved on when the ids wrap, which takes 2^32
\* packets, and the sender itself is not restarted.
\* In the short form the ids must not wrap: ASSERT (long_form).
Send ==
  LET next == packet_id_alloc_outgoing(send, send.time + 1)
      pin == Pin(next.id, IF long_form THEN next.time ELSE 0)
  IN /\ sent < MaxSent
     /\ ~long_form => send.id + 1 < ID_MOD
     /\ sent' = sent + 1
     /\ send' = next
     /\ net' = net \cup {pin}
     /\ reissued' = IF pin \in net THEN reissued \cup {pin} ELSE reissued
     /\ UNCHANGED <<options, now, rec, persist, file, lives, accepted, repeated, earlier, past>>

Persisted(p) == IF long_form /\ p.time # 0 THEN Pin(p.id, p.time) ELSE persist

\* openvpn_decrypt.
Receive(pin) ==
  LET p == packet_id_reap_test(rec, now)
  IN /\ pin \in net
     /\ IF packet_id_test(p, pin)
        THEN /\ rec' = packet_id_add(p, pin, now)
             /\ persist' = Persisted(rec')
             /\ accepted' = accepted \cup {pin}
             /\ repeated' = IF pin \in accepted THEN repeated \cup {pin} ELSE repeated
        ELSE rec' = p /\ UNCHANGED <<persist, accepted, repeated>>
     /\ UNCHANGED <<options, sent, send, net, now, file, lives, reissued, earlier, past>>

\* check_packet_id_persist_flush, once a minute.
SavedImage == IF persist.time # 0 THEN persist ELSE file
Flush ==
  /\ file' = SavedImage
  /\ UNCHANGED <<options, sent, send, net, now, rec, persist, lives, accepted, repeated, reissued,
                 earlier, past>>

\* packet_id_init and packet_id_persist_load_obj.
LoadIgnored(image) == packet_id_init(tcp_mode, window[1], window[2])
Loaded(image) ==
  LET p == packet_id_init(tcp_mode, window[1], window[2])
  IN IF image.time # 0 THEN [p EXCEPT !.time = image.time, !.id = image.id] ELSE p

UpTo(image) ==
  {pin \in accepted \cup earlier :
     pin.time < image.time \/ (pin.time = image.time /\ pin.id <= image.id)}

\* do_close_packet_id saves the position and a new life begins with it.
Restart ==
  /\ lives < MaxLives
  /\ lives' = lives + 1
  /\ file' = SavedImage
  /\ rec' = Loaded(file')
  /\ persist' = file'
  /\ accepted' = {}
  /\ earlier' = earlier \cup accepted
  /\ past' = UpTo(file')
  /\ UNCHANGED <<options, sent, send, net, now, repeated, reissued>>

\* The receiver is killed, and its next life finds what the last flush left.
\* The file can be opened, locked and read (packet_id_persist_load).
Crash ==
  /\ lives < MaxLives
  /\ lives' = lives + 1
  /\ rec' = Loaded(file)
  /\ persist' = file
  /\ accepted' = {}
  /\ earlier' = earlier \cup accepted
  /\ past' = UpTo(file)
  /\ UNCHANGED <<options, sent, send, net, now, file, repeated, reissued>>

Next == Tick \/ Send \/ (\E pin \in net : Receive(pin)) \/ Flush \/ Restart \/ Crash

Spec == Init /\ [][Next]_vars

----------------------------------------------------------------------------
PacketIds == [id : 0 .. (ID_MOD - 1), time : Nat]
Records == [time : Nat, id : 0 .. (ID_MOD - 1), last_reap : Nat, seq_list : Seq(Nat),
            seq_backtrack : Nat, time_backtrack : Nat]

\* No packet id is accepted more than once while the receiver runs, however
\* the packets are repeated and reordered, whenever the list is reaped, and
\* across jumps of the ids and of the time stamp.
NoReplay == repeated = {}

\* The sender never uses a packet id twice.
SentOnce == reissued = {}

\* Reordering is tolerated: a packet that was not accepted yet, in this life of
\* the receiver or in an earlier one, and is less than the window behind the
\* latest one, is accepted, unless a packet with a later id was accepted more
\* than replay_time ago.
Recent(pin) ==
  \A i \in 1 .. (rec.id - pin.id) :
    i \in DOMAIN rec.seq_list =>
      rec.seq_list[i] # SEQ_EXPIRED /\ (rec.seq_list[i] # SEQ_UNSEEN => now <= rec.seq_list[i] + rec.time_backtrack)

ReorderingTolerated ==
  \A pin \in net \ (accepted \cup earlier) :
    /\ ~tcp_mode /\ window[1] > 0 /\ rec.seq_list # <<>>
    /\ pin.time = rec.time /\ rec.id - pin.id < window[1]
    /\ Recent(pin)
    => packet_id_test(packet_id_reap_test(rec, now), pin)

\* What a restart can let pass again.  Of the packets accepted up to the saved
\* position, a restarted receiver accepts one again only once it has accepted
\* another packet (packet_id_add then fills the new list with unseen items),
\* only with a window, and only if it is less than the window behind the latest.
RestartRemembers ==
  \A pin \in past :
    packet_id_test(packet_id_reap_test(rec, now), pin) =>
      /\ accepted # {} /\ ~tcp_mode
      /\ pin.time = rec.time /\ rec.id - pin.id \in 1 .. (window[1] - 1)

\* What openvpn.8 says of --replay-persist: "if an OpenVPN session is stopped and
\* restarted, it will reject any replays of packets which were already received
\* by the prior session".
NoReplayAfterRestart == past \cap accepted = {}
=============================================================================
