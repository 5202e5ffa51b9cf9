------------------------------- MODULE AtcpInput -------------------------------
(***************************************************************************)
(* Input of the Linux 2.2 TCP for the states of a connection               *)
(* (atcp_input.c): what a segment does to a socket that is not a listener. *)
(*                                                                         *)
(* An operator named for a function that can ask for a reset gives         *)
(* [sk, reset]; the others give the socket.                                *)
(***************************************************************************)
EXTENDS AtcpOutput, AtcpSack

SegEnd(g)  == g.seq + Flag(g.syn) + Flag(g.fin) + Len(g.data)
HasData(g) == g.data # <<>>

(* The socket holds the buffer of the segment while it handles it. *)
skb_set_owner_r(s, g) == [s EXCEPT !.in_hand = Overhead + Len(g.data)]
kfree_skb(s)          == [s EXCEPT !.in_hand = 0]
Discard(s) == [sk |-> kfree_skb(s), reset |-> FALSE]
Refuse(s)  == [sk |-> kfree_skb(s), reset |-> TRUE]

(***************************************************************************)
(* Acknowledgement policy.                                                 *)
(***************************************************************************)
(* The first segment turns quick acknowledgement on, the next turn it off. *)
atcp_delack_estimator(s) ==
  [s EXCEPT !.ato_set = TRUE, !.quick = ~s.ato_set /\ ~s.quick]

atcp_remember_ack(s) == [s EXCEPT !.delayed_acks = @ + 1]

MaxDelayAck == 2

(* rcv_mss, the peer's segment size as seen, is taken to be Mss. *)
AckNow(s) ==
  \/ s.rcv_nxt - s.rcv_wup >= Mss * MaxDelayAck
  \/ atcp_raise_window(s)
  \/ s.quick
  \/ s.ofo # <<>>

AckSndCheck(s) == IF AckNow(s) THEN atcp_send_ack(s)
                  ELSE atcp_send_delayed_ack(Predict(s))

atcp_ack_snd_check(s) == IF s.delayed_acks = 0 THEN s ELSE AckSndCheck(s)

atcp_data_snd_check(s) ==
  IF s.send_head = Null THEN s
  ELSE IF /\ s.wq[s.send_head].end <= s.snd_una + s.snd_wnd
          /\ ~CwndFull(s)
       THEN atcp_write_xmit(s)
       ELSE IF s.packets_out = 0 /\ s.pending = "none"
            THEN atcp_reset_xmit_timer(s, "PROBE0")
            ELSE s

(* What there is to send goes out, then what there is to acknowledge. *)
SndChecks(s) == atcp_ack_snd_check(atcp_data_snd_check(s))

(***************************************************************************)
(* Acceptance.                                                             *)
(***************************************************************************)
atcp_sequence(s, seq, end) ==
  IF seq = s.rcv_nxt THEN s.rcv_wnd # 0 \/ end = seq
  ELSE LET right == s.rcv_wup + s.rcv_wnd
       IN \/ s.rcv_wnd # 0 /\ end > s.rcv_nxt /\ seq < right
          \/ seq = right /\ seq = end

atcp_reset(s) ==
  [atcp_set_state([s EXCEPT !.zapped = TRUE, !.err = TRUE], "CLOSE")
     EXCEPT !.shutdown = {"RCV", "SEND"}]

(***************************************************************************)
(* Acknowledgements.                                                       *)
(***************************************************************************)
Sent(s) == IF s.send_head = Null THEN Len(s.wq) ELSE s.send_head - 1

(* A count of buffers, less those that went; never below zero. *)
Less(count, n) == Larger(0, count - n)

(* Tag what a block covers whole. *)
SackTag(s, b) ==
  LET Below(i) == i <= Sent(s) /\ s.wq[i].seq <= b.end
      tagged == {i \in DOMAIN s.wq : /\ Below(i) /\ b.start <= s.wq[i].seq
                                     /\ s.wq[i].end <= b.end}
      again == Cardinality({i \in tagged : s.wq[i].retrans})
      foremost == Max({0} \cup tagged)
  IN [s EXCEPT !.wq = [i \in 1..Sent(s) |->
                         [s.wq[i] EXCEPT !.sacked = @ \/ i \in tagged]]
                      \o SubSeq(@, Sent(s) + 1, Len(@)),
               !.retrans_out = Less(@, again),
               !.fackets_out = Larger(@, foremost)]

atcp_sacktag_write_queue(s, blocks) == ForEach(s, blocks, SackTag)

atcp_fast_parse_options(s, g) ==
  IF SackOk /\ g.sacks # <<>> THEN atcp_sacktag_write_queue(s, g.sacks) ELSE s

(* The window update of RFC 793, taken only if the window grew or the      *)
(* acknowledgement is new.                                                 *)
WindowUpdate(s, g) ==
  /\ s.snd_wl1 < g.seq \/ (s.snd_wl1 = g.seq /\ s.snd_wl2 <= g.ack_seq)
  /\ s.snd_wl2 # g.ack_seq \/ g.window > s.snd_wnd

TakeWindow(s, g) ==
  IF ~WindowUpdate(s, g) THEN s
  ELSE [s EXCEPT !.snd_wnd = g.window, !.snd_wl1 = g.seq,
                 !.snd_wl2 = g.ack_seq, !.max_window = Larger(@, g.window)]

atcp_ack_probe(s, ack) ==
  LET t == [s EXCEPT !.probes_out = 0]
  IN IF s.send_head # Null /\ s.wq[s.send_head].end <= ack + s.snd_wnd
     THEN atcp_clear_xmit_timer([t EXCEPT !.pending = "none"], "PROBE0")
     ELSE atcp_reset_xmit_timer(t, "PROBE0")

(* The buffers that are acknowledged whole leave the queue. *)
Acked(s, ack) ==
  LET Kept(i) == i > Sent(s) \/ s.wq[i].end > ack
      k == SelectInSeq([i \in DOMAIN s.wq |-> i], Kept)
  IN IF k = 0 THEN s.wq ELSE SubSeq(s.wq, 1, k - 1)

AckedData(s, ack)    == \E i \in DOMAIN Acked(s, ack) : ~s.wq[i].syn
AckedRetrans(s, ack) ==
  \E i \in DOMAIN Acked(s, ack) : ~s.wq[i].syn /\ s.wq[i].retrans

(* Retransmission does not go on from a buffer that went. *)
KeptRetransHead(s, ack) ==
  IF \/ s.retrans_head > 0 /\ s.wq[s.retrans_head].end <= ack
     \/ \E i \in DOMAIN Acked(s, ack) : s.wq[i].syn
  THEN Null ELSE s.retrans_head

atcp_clean_rtx_queue(s, ack) ==
  LET gone  == Acked(s, ack)
      n     == Len(gone)
      again == Cardinality({i \in 1..n : gone[i].retrans})
      data  == Cardinality({i \in 1..n : ~gone[i].syn})
      Shift(p) == IF p > n THEN p - n ELSE IF p > 0 THEN Dangling ELSE p
  IN [s EXCEPT !.wq = SubSeq(@, n + 1, Len(@)),
               !.packets_out = @ - n,
               !.retrans_out = Less(@, again), !.fackets_out = Less(@, data),
               !.send_head = Shift(@),
               !.retrans_head = Shift(KeptRetransHead(s, ack))]

(* New data acknowledged opens the congestion window, except that a fast   *)
(* retransmission without SACK does that itself.                           *)
should_advance_cwnd(s, data_acked, retrans_acked) ==
  /\ data_acked
  /\ retrans_acked => s.fackets_out # 0 \/ s.retransmits # 0

atcp_cong_avoid(s) ==
  IF s.snd_cwnd <= s.snd_ssthresh THEN [s EXCEPT !.snd_cwnd = @ + 1]
  ELSE IF s.snd_cwnd_cnt >= s.snd_cwnd
       THEN [s EXCEPT !.snd_cwnd = @ + 1, !.snd_cwnd_cnt = 0]
       ELSE [s EXCEPT !.snd_cwnd_cnt = @ + 1]

(* All retransmitted data is acknowledged: the backoff phase is over.  In  *)
(* SYN_SENT the options, a timestamp among them, are parsed only later.    *)
NeverEnds(s, data_acked) == s      \* mutant
EndRetransmits(s, data_acked) ==
  IF /\ s.retransmits # 0 /\ s.packets_out = 0
     /\ SackOk /\ s.state # "SYN_SENT" => data_acked
  THEN [s EXCEPT !.retransmits = 0, !.fackets_out = 0, !.retrans_out = 0]
  ELSE s

atcp_ack_packets_out(s) ==
  StartRetrans(IF s.retransmits # 0 THEN atcp_xmit_retransmit_queue(s) ELSE s)

(***************************************************************************)
(* Fast retransmission; not_dup says that the segment has data or updates  *)
(* the window.                                                             *)
(***************************************************************************)
clear_fast_retransmit(s) ==
  [s EXCEPT !.snd_cwnd = IF s.dup_acks > 3 THEN s.snd_ssthresh ELSE @,
            !.dup_acks = 0]

FastRetransmit(s) ==
  LET t == [s EXCEPT !.snd_ssthresh = atcp_recalc_ssthresh(s),
                     !.snd_cwnd = atcp_recalc_ssthresh(s) + 3,
                     !.high_seq = s.snd_nxt]
  IN StartRetrans(IF s.fackets_out = 0 THEN atcp_retransmit_skb(t, 1)
                  ELSE atcp_fack_retransmit(t))

Duplicate(s) ==
  LET t == [s EXCEPT !.dup_acks = @ + 1]
  IN IF s.high_seq = 0 \/ s.snd_una > s.high_seq
     THEN IF t.fackets_out > 3 \/ t.dup_acks = 3 THEN FastRetransmit(t) ELSE t
     ELSE IF t.dup_acks <= 3 THEN t
          ELSE IF t.fackets_out = 0 THEN [t EXCEPT !.snd_cwnd = @ + 1]
          ELSE atcp_fack_retransmit(t)

atcp_fast_retrans(s, ack, data, winupd) ==
  IF ack = s.snd_una /\ s.packets_out # 0 /\ ~data /\ ~winupd THEN Duplicate(s)
  ELSE IF s.high_seq = 0 THEN s
  ELSE IF ack >= s.high_seq \/ data
       THEN LET t == clear_fast_retransmit(s)
            IN IF ack >= s.high_seq
               THEN [t EXCEPT !.high_seq = 0, !.fackets_out = 0] ELSE t
  ELSE IF s.dup_acks < 3 THEN s
  ELSE IF s.fackets_out # 0 THEN atcp_fack_retransmit(s)
  ELSE IF ack # s.snd_una THEN StartRetrans(atcp_retransmit_skb(s, 1))
  ELSE s

(***************************************************************************)
(* An acknowledgement; acceptable says whether it was looked at.           *)
(***************************************************************************)
Acceptable(s, g) ==
  s.zapped \/ (s.snd_una <= g.ack_seq /\ g.ack_seq <= s.snd_nxt)

AckProbe(s, ack) == IF s.pending = "PROBE0" THEN atcp_ack_probe(s, ack) ELSE s

OpenWindow(s, data_acked, retrans_acked) ==
  IF should_advance_cwnd(s, data_acked, retrans_acked) THEN atcp_cong_avoid(s) ELSE s

AckTimer(s, data_acked) ==
  IF s.packets_out = 0 THEN atcp_clear_xmit_timer(s, "RETRANS")
  ELSE IF data_acked THEN atcp_ack_packets_out(s) ELSE s

AckQueue(s, ack) ==
  LET data == AckedData(s, ack)
  IN AckTimer(EndRetransmits(OpenWindow(atcp_clean_rtx_queue(s, ack),
                                        data, AckedRetrans(s, ack)), data), data)

AckDuplicate(s, ack, data, winupd) ==
  IF (ack = s.snd_una /\ s.packets_out # 0 /\ ~data /\ ~winupd) \/ s.high_seq # 0
  THEN atcp_fast_retrans(s, ack, data, winupd)
  ELSE [s EXCEPT !.dup_acks = 0]

atcp_ack(s, g) ==
  LET k == IF s.pending = "KEEPOPEN" THEN [s EXCEPT !.probes_out = 0] ELSE s
      d == IF HasData(g) THEN atcp_delack_estimator(k) ELSE k
  IN IF s.zapped THEN s
     ELSE IF ~Acceptable(s, g) THEN k
     ELSE [AckDuplicate(AckQueue(AckProbe(TakeWindow(d, g), g.ack_seq), g.ack_seq),
                        g.ack_seq, HasData(g), WindowUpdate(d, g))
             EXCEPT !.snd_una = g.ack_seq]

(***************************************************************************)
(* Data.                                                                   *)
(***************************************************************************)
(* A bucket takes over in TIME-WAIT and the socket is closed. *)
atcp_time_wait(s) ==
  [net_reset_timer([s EXCEPT !.state = "CLOSE"], "DONE")
     EXCEPT !.shutdown = {"RCV", "SEND"},
            !.tw = <<[rcv_nxt |-> s.rcv_nxt, snd_nxt |-> s.snd_nxt]>>]

FinState(s) ==
  CASE s.state \in {"SYN_RECV", "ESTABLISHED"} -> atcp_set_state(s, "CLOSE_WAIT")
    [] s.state = "FIN_WAIT1" -> atcp_set_state(s, "CLOSING")
    [] s.state = "FIN_WAIT2" -> atcp_time_wait(s)
    [] OTHER -> s
atcp_fin(s, skb) == FinState(atcp_send_ack([s EXCEPT !.fin_seq = skb.end]))

(* The buffer moves to the receive queue. *)
Receive(s, skb) ==
  LET q == [s EXCEPT !.rq = Append(@, skb), !.rcv_nxt = skb.end]
  IN IF skb.fin THEN atcp_fin(q, skb) ELSE q

SackRemove(s, skb) ==
  IF SackOk THEN [s EXCEPT !.sacks = atcp_sack_remove_skb(@, skb)] ELSE s

(* What has become in order leaves the out-of-order queue. *)
atcp_ofo_queue(s) ==
  LET Turn(t) ==
        IF t.ofo = <<>> \/ Head(t.ofo).seq > t.rcv_nxt THEN t
        ELSE LET u == [t EXCEPT !.ofo = Tail(@)]
             IN IF Head(t.ofo).end <= t.rcv_nxt THEN u
                ELSE Receive(SackRemove(u, Head(t.ofo)), Head(t.ofo))
  IN Repeat(s, Len(s.ofo), Turn)

RememberData(s, skb) == IF skb.fin THEN s ELSE atcp_remember_ack(s)
FastPathOn(s) ==
  IF s.ofo = <<>> THEN [s EXCEPT !.pred_flags = PredictedWindow(s.snd_wnd)] ELSE s
QueueAndOut(s, skb) ==
  FastPathOn(atcp_ofo_queue(SackRemove(
    RememberData(Receive(kfree_skb(s), skb), skb), skb)))

(* Into the out-of-order queue: after the last buffer that starts earlier; *)
(* of two that start together the longer stays.                            *)
OutOfOrder(s, skb) ==
  LET t == atcp_enter_quickack_mode(
             [kfree_skb(s) EXCEPT !.delayed_acks = @ + 1, !.pred_flags = Null])
      NotAfter(b) == b.seq <= skb.seq
      k == SelectLastInSeq(s.ofo, NotAfter)
      same == k # 0 /\ s.ofo[k].seq = skb.seq
      Inserted == InsertAt(t.ofo, k + 1, skb)
  IN IF s.ofo = <<>> THEN [t EXCEPT !.ofo = <<skb>>,
                                    !.sacks = IF SackOk THEN <<Block(skb)>> ELSE @]
     ELSE IF ~same
          THEN [t EXCEPT !.ofo = Inserted,
                         !.sacks = IF SackOk THEN atcp_sack_new_ofo_skb(@, skb) ELSE @]
     ELSE IF Len(skb.data) >= Len(s.ofo[k].data)
          THEN [t EXCEPT !.ofo[k] = skb,
                         !.sacks = IF SackOk THEN atcp_sack_extend(@, s.ofo[k], skb)
                                   ELSE @]
     ELSE t

atcp_data_queue(s, skb) ==
  IF skb.end <= s.rcv_nxt /\ skb.seq # s.rcv_nxt
  THEN kfree_skb(atcp_enter_quickack_mode(s))
  ELSE IF skb.seq <= s.rcv_nxt THEN QueueAndOut(s, skb)
  ELSE OutOfOrder(s, skb)

(* Short of memory: give up what is out of order; say whether that is      *)
(* enough.                                                                 *)
prune_queue(s) ==
  LET t == [s EXCEPT !.ofo = <<>>, !.sacks = IF s.ofo = <<>> THEN @ ELSE <<>>]
  IN [sk |-> t, room |-> rmem_alloc(t) < 2 * RcvBuf]

Received(g) == [seq |-> g.seq, data |-> g.data, syn |-> g.syn, fin |-> g.fin,
                end |-> SegEnd(g)]

atcp_data(s, g) ==
  IF ~HasData(g) /\ ~g.fin THEN s
  ELSE IF rmem_alloc(s) <= RcvBuf THEN atcp_data_queue(s, Received(g))
  ELSE IF prune_queue(s).room THEN atcp_data_queue(prune_queue(s).sk, Received(g))
  ELSE prune_queue(s).sk
(***************************************************************************)
(* A segment for an established connection.                                *)
(***************************************************************************)
Predicted(s, g) ==
  /\ g.ack /\ ~g.syn /\ ~g.fin /\ ~g.rst /\ g.sacks = <<>>
  /\ s.pred_flags = PredictedWindow(g.window)
  /\ g.seq = s.rcv_nxt

ChecksUnlessClosed(s) == IF s.state = "CLOSE" THEN s ELSE SndChecks(s)

SlowPath(s, g) ==
  IF ~atcp_sequence(s, g.seq, SegEnd(g))
  THEN Discard(IF g.rst THEN s ELSE atcp_send_ack(s))
  ELSE IF g.syn /\ g.seq # s.syn_seq THEN Refuse(atcp_reset(s))
  ELSE IF g.rst THEN Discard(atcp_reset(s))
  ELSE Discard(ChecksUnlessClosed(
                 atcp_data(IF g.ack THEN atcp_ack(s, g) ELSE s, g)))

FastOrSlow(s, g) ==
  LET q == atcp_remember_ack(atcp_delack_estimator(
             [kfree_skb(s) EXCEPT !.rq = Append(@, Received(g)),
                                  !.rcv_nxt = SegEnd(g)]))
  IN IF Predicted(s, g) /\ ~HasData(g)
     THEN Discard(atcp_data_snd_check(kfree_skb(atcp_ack(s, g))))
     ELSE IF /\ Predicted(s, g) /\ g.ack_seq = s.snd_una
             /\ rmem_alloc(s) <= RcvBuf
     THEN Discard(AckSndCheck(q))
     ELSE SlowPath(s, g)

atcp_rcv_established(s, g) == FastOrSlow(atcp_fast_parse_options(s, g), g)

(***************************************************************************)
(* A segment in the other states.                                          *)
(***************************************************************************)
(* The peer's SYN and its window. *)
TakeSyn(s, g) ==
  [s EXCEPT !.rcv_nxt = g.seq + 1, !.rcv_wup = g.seq + 1,
            !.snd_wnd = g.window, !.snd_wl1 = g.seq]

NothingCopied(s) == [s EXCEPT !.copied_seq = s.rcv_nxt]
Established(s, g) ==
  LET t == [TakeSyn(atcp_ack([s EXCEPT !.snd_wl1 = g.seq], g), g)
              EXCEPT !.snd_wl2 = g.ack_seq, !.fin_seq = g.seq]
  IN NothingCopied(atcp_send_ack(atcp_set_state(t, "ESTABLISHED")))

(* Before the peer's SYN no other segment can be in sequence. *)
SynSent(s, g) ==
  IF g.ack
  THEN IF s.zapped \/ g.ack_seq # s.snd_nxt THEN Refuse(s)
       ELSE IF g.rst THEN Discard(atcp_reset(s))
       ELSE IF ~g.syn THEN Discard(s)
       ELSE Discard(SndChecks(atcp_data(Established(s, g), g)))
  ELSE IF g.syn /\ ~g.rst
       THEN Discard(atcp_send_synack(TakeSyn(atcp_set_state(s, "SYN_RECV"), g)))
       ELSE Discard(IF g.rst THEN s ELSE atcp_send_ack(s))

(* What an acknowledgement does to the state of the connection; done says  *)
(* that the segment needs no more, bad that it gets a reset.               *)
AckState(s, g, acceptable) ==
  LET All == s.snd_una = s.write_seq
      Go(t) == [sk |-> t, done |-> FALSE, bad |-> FALSE]
      Done(t) == [sk |-> t, done |-> TRUE, bad |-> FALSE]
  IN CASE s.state = "SYN_RECV" ->
            IF ~acceptable THEN [sk |-> s, done |-> TRUE, bad |-> TRUE]
            ELSE Go([atcp_set_state(s, "ESTABLISHED")
                       EXCEPT !.copied_seq = s.rcv_nxt, !.snd_una = g.ack_seq,
                              !.snd_wnd = g.window, !.snd_wl1 = g.seq,
                              !.snd_wl2 = g.ack_seq])
       [] s.state = "FIN_WAIT1" /\ All ->
            LET t == [s EXCEPT !.state = "FIN_WAIT2", !.shutdown = @ \union {"SEND"}]
            IN Go(IF s.dead THEN net_reset_timer(t, "CLOSE") ELSE t)
       [] s.state = "CLOSING" /\ All -> Done(atcp_time_wait(s))
       [] s.state = "LAST_ACK" /\ All ->
            Done([atcp_set_state(s, "CLOSE") EXCEPT !.shutdown = {"RCV", "SEND"}])
       [] OTHER -> Go(s)

(* Step 7: the data, where the state still takes some.  A socket nobody    *)
(* can read from any more answers new data with a reset.                   *)
Step7(s, g) ==
  LET past == s.state \in {"CLOSE_WAIT", "CLOSING"} /\ g.seq >= s.fin_seq
      half == s.state \in {"CLOSE_WAIT", "CLOSING", "FIN_WAIT1", "FIN_WAIT2"}
      unwanted == /\ half /\ "RCV" \in s.shutdown /\ s.dead
                  /\ SegEnd(g) - Flag(g.fin) > s.rcv_nxt
  IN IF past \/ ~(half \/ s.state = "ESTABLISHED") THEN Discard(SndChecks(s))
     ELSE IF unwanted THEN Refuse(atcp_reset(s))
     ELSE Discard(SndChecks(atcp_data(s, g)))

AfterAck(a, g) ==
  IF a.bad THEN Refuse(a.sk) ELSE IF a.done THEN Discard(a.sk) ELSE Step7(a.sk, g)

Synchronized(s, g) ==
  LET fits == atcp_sequence(s, g.seq, SegEnd(g))
                \/ (g.fin /\ SegEnd(g) = s.rcv_nxt)
  IN IF ~fits THEN Discard(IF g.rst THEN s ELSE atcp_send_ack(s))
     ELSE IF g.rst THEN Discard(atcp_reset(s))
     ELSE IF g.syn /\ g.seq # s.syn_seq THEN Refuse(atcp_reset(s))
     ELSE IF ~g.ack THEN Discard(s)
     ELSE AfterAck(AckState(atcp_ack(s, g), g, Acceptable(s, g)), g)

atcp_rcv_state_process(s, g) ==
  IF s.state = "CLOSE" THEN Refuse(s)
  ELSE IF s.state = "SYN_SENT" THEN SynSent(s, g)
  ELSE Synchronized(atcp_fast_parse_options(s, g), g)

(* A segment for a socket that is not a listener. *)
atcp_v4_do_rcv(s, g) ==
  IF s.state = "ESTABLISHED" THEN atcp_rcv_established(skb_set_owner_r(s, g), g)
  ELSE atcp_rcv_state_process(skb_set_owner_r(s, g), g)

(***************************************************************************)
(* Segments for no socket: the reset, and the TIME-WAIT bucket.            *)
(***************************************************************************)
Bare(seq, ack, rst, ack_seq) ==
  [seq |-> seq, data |-> <<>>, syn |-> FALSE, fin |-> FALSE, rst |-> rst,
   ack |-> ack, ack_seq |-> ack_seq, window |-> 0, sacks |-> <<>>]

atcp_v4_send_reset(g) ==
  IF g.rst THEN <<>>
  ELSE IF g.ack THEN <<Bare(g.ack_seq, FALSE, TRUE, 0)>>
  ELSE <<Bare(0, TRUE, TRUE, g.seq + Flag(g.syn))>>

atcp_v4_send_ack(seq, ack) == <<Bare(seq, TRUE, FALSE, ack)>>

(* What the bucket answers, and whether a RST or SYN ended its wait; a SYN *)
(* beyond its receive sequence would reopen the connection, which the      *)
(* sequence numbers of one connection never do.                            *)
atcp_timewait_state_process(tw, g) ==
  [killed |-> g.rst \/ g.syn,
   answer |-> IF g.rst THEN <<>>
              ELSE IF g.syn THEN atcp_v4_send_reset(g)
              ELSE IF SegEnd(g) <= tw.rcv_nxt
                   THEN atcp_v4_send_ack(tw.snd_nxt, tw.rcv_nxt)
              ELSE <<>>]
==============================================================================
