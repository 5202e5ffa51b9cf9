------------------------------ MODULE AtcpOutput ------------------------------
(***************************************************************************)
(* Output of the Linux 2.2 TCP: atcp_output.c and the parts of atcp.h that *)
(* send.  Every operator takes a socket and gives the socket after the     *)
(* call; segments sent are appended to its field out.                      *)
(*                                                                         *)
(* Allocation of a buffer never fails here, no route is lost and a buffer  *)
(* that is sent again is no longer held by a device.                       *)
(***************************************************************************)
EXTENDS AtcpSock

(* Any segment sent acknowledges: delayed ones are forgotten. *)
clear_delayed_acks(s) ==
  atcp_clear_xmit_timer(
    atcp_exit_quickack_mode([s EXCEPT !.delayed_acks = 0]), "DACK")

(* Mutant: the acknowledgement is of the highest byte that has come. *)
AcksHighest(s, seq, data, flags) ==
  [seq |-> seq, data |-> data,
   syn |-> "SYN" \in flags, fin |-> "FIN" \in flags,
   rst |-> "RST" \in flags, ack |-> "ACK" \in flags,
   ack_seq |-> FoldLeft(LAMBDA n, skb : Larger(n, skb.end), s.rcv_nxt, s.ofo),
   window |-> IF "SYN" \in flags THEN s.rcv_wnd ELSE OfferedWindow(s),
   sacks |-> IF SackOk /\ "SYN" \notin flags THEN s.sacks ELSE <<>>]
Segment(s, seq, data, flags) ==
  [seq |-> seq, data |-> data,
   syn |-> "SYN" \in flags, fin |-> "FIN" \in flags,
   rst |-> "RST" \in flags, ack |-> "ACK" \in flags,
   ack_seq |-> s.rcv_nxt,
   window |-> IF "SYN" \in flags THEN s.rcv_wnd ELSE OfferedWindow(s),
   sacks |-> IF SackOk /\ "SYN" \notin flags THEN s.sacks ELSE <<>>]

(* Build the header from the socket's state now, and send. *)
atcp_transmit(s, seq, data, flags) ==
  LET w == IF "SYN" \in flags THEN s ELSE atcp_select_window(s)
  IN clear_delayed_acks(
       [w EXCEPT !.out = Append(@, Segment(s, seq, data, flags))])

atcp_transmit_skb(s, skb) ==
  atcp_transmit(s, skb.seq, skb.data,
                (IF skb.syn THEN {"SYN"} ELSE {})
                  \union (IF skb.fin THEN {"FIN"} ELSE {})
                  \union (IF skb.ack THEN {"ACK"} ELSE {}))

StartRetrans(s)  == atcp_reset_xmit_timer(s, "RETRANS")
EnsureRetrans(s) == IF "RETRANS" \in s.timers THEN s ELSE StartRetrans(s)

(***************************************************************************)
(* First transmission.                                                     *)
(***************************************************************************)
update_send_head(s) ==
  [s EXCEPT !.send_head = IF @ = Len(s.wq) THEN Null ELSE @ + 1]

(* The buffer at the send head goes out. *)
SendHead(s) ==
  LET skb == s.wq[s.send_head]
  IN atcp_transmit_skb([update_send_head(s) EXCEPT !.snd_nxt = skb.end,
                                                   !.packets_out = @ + 1],
                       skb)

(* Arming the timer of a closed window. *)
ArmProbe(s) ==
  IF s.packets_out = 0 /\ s.pending = "none"
  THEN atcp_reset_xmit_timer([s EXCEPT !.pending = "PROBE0"], "PROBE0")
  ELSE s

atcp_send_skb(s, skb, force_queue) ==
  LET q == [s EXCEPT !.write_seq = @ + (skb.end - skb.seq),
                     !.wq = Append(@, skb)]
      h == [q EXCEPT !.send_head = Len(q.wq)]
  IN IF ~force_queue /\ s.send_head = Null /\ atcp_snd_test(q, skb)
     THEN EnsureRetrans(SendHead(h))
     ELSE LET k == IF s.send_head = Null THEN h ELSE q
          IN IF force_queue THEN k ELSE ArmProbe(k)

(* Split the buffer at position i after len bytes: the FIN goes with the   *)
(* second part, which was never sent again.                                *)
atcp_fragment(s, i, len) ==
  LET skb  == s.wq[i]
      head == [skb EXCEPT !.data = SubSeq(@, 1, len), !.end = skb.seq + len,
                          !.fin = FALSE]
      tail == [skb EXCEPT !.data = SubSeq(@, len + 1, Len(@)),
                          !.seq = @ + len, !.cap = Len(skb.data) - len,
                          !.retrans = FALSE, !.sacked = FALSE]
      Shift(p) == IF p > i THEN p + 1 ELSE p
  IN [s EXCEPT !.wq = SubSeq(@, 1, i - 1) \o <<head, tail>>
                        \o SubSeq(@, i + 1, Len(@)),
               !.send_head = Shift(@), !.retrans_head = Shift(@)]

(* Send what the windows and Nagle's rule let out. *)
SentSince(t, s) == IF t.out # s.out THEN EnsureRetrans(t) ELSE t
atcp_write_xmit(s) ==
  LET mss == atcp_current_mss(s)
      Fit(t) == IF Len(t.wq[t.send_head].data) > mss
                THEN atcp_fragment(t, t.send_head, mss) ELSE t
      Turn(t) ==
        IF t.send_head = Null \/ ~atcp_snd_test(t, t.wq[t.send_head]) THEN t
        ELSE SendHead(Fit(t))
  IN IF s.zapped THEN s
     ELSE SentSince(Repeat(s, s.write_seq - s.snd_nxt, Turn), s)

atcp_push_pending_frames(s) ==
  IF s.send_head = Null THEN s
  ELSE IF atcp_snd_test(s, s.wq[s.send_head]) THEN atcp_write_xmit(s)
       ELSE ArmProbe(s)

(***************************************************************************)
(* Retransmission.                                                         *)
(***************************************************************************)
(* Mutant: the buffer that is freed is still counted. *)
CollapseUncounted(s, i, mss) ==
  LET skb  == s.wq[i]
      next == s.wq[i + 1]
      both == [skb EXCEPT !.data = @ \o next.data, !.end = next.end,
                          !.fin = @ \/ next.fin]
      Shift(p) == IF p > i + 1 THEN p - 1 ELSE IF p = i + 1 THEN Dangling ELSE p
  IN IF next.sacked \/ Len(both.data) > Smaller(mss, skb.cap) THEN s
     ELSE [s EXCEPT !.wq = [RemoveAt(@, i + 1) EXCEPT ![i] = both],
                    !.send_head = Shift(@), !.retrans_head = Shift(@)]
(* Join the buffer at position i with the next one, which is freed.        *)
atcp_retrans_try_collapse(s, i, mss) ==
  LET skb  == s.wq[i]
      next == s.wq[i + 1]
      both == [skb EXCEPT !.data = @ \o next.data, !.end = next.end,
                          !.fin = @ \/ next.fin]
      Shift(p) == IF p > i + 1 THEN p - 1 ELSE IF p = i + 1 THEN Dangling ELSE p
  IN IF next.sacked \/ Len(both.data) > Smaller(mss, skb.cap) THEN s
     ELSE [s EXCEPT !.wq = [RemoveAt(@, i + 1) EXCEPT ![i] = both],
                    !.packets_out = @ - 1,
                    !.send_head = Shift(@), !.retrans_head = Shift(@)]

(* The bytes were acknowledged and the FIN was not: send the FIN alone. *)
StripForFin(s, i) ==
  LET skb == s.wq[i]
  IN IF skb.data # <<>> /\ skb.fin /\ s.snd_una = skb.end - 1
     THEN [s EXCEPT !.wq[i].seq = skb.end - 1, !.wq[i].data = <<>>]
     ELSE s

SplitToFit(s, i, mss) ==
  IF Len(s.wq[i].data) > mss
  THEN [atcp_fragment(s, i, mss) EXCEPT !.packets_out = @ + 1] ELSE s

JoinIfSmall(s, i, mss) ==
  IF /\ ~s.wq[i].syn /\ Len(s.wq[i].data) < mss \div 2
     /\ i + 1 # s.send_head /\ i + 1 <= Len(s.wq)
  THEN atcp_retrans_try_collapse(s, i, mss) ELSE s

Resend(s, i) ==
  atcp_transmit_skb([s EXCEPT !.wq[i].retrans = TRUE, !.retrans_out = @ + 1],
                    s.wq[i])

atcp_retransmit_skb(s, i) ==
  LET mss == atcp_current_mss(s)
  IN Resend(StripForFin(JoinIfSmall(SplitToFit(s, i, mss), i, mss), i), i)

update_retrans_head(s) ==
  LET next == s.retrans_head + 1
  IN IF next = s.send_head \/ next > Len(s.wq)
     THEN [s EXCEPT !.retrans_head = Null, !.rexmt_done = TRUE]
     ELSE [s EXCEPT !.retrans_head = next]

(* Go on resending after a timeout, up to the congestion window. *)
UntilFull(s) == [s |-> s, full |-> s.retrans_out >= s.snd_cwnd]
atcp_xmit_retransmit_queue(s) ==
  LET start == IF s.retrans_head = Null /\ ~s.rexmt_done /\ s.wq # <<>>
               THEN 1 ELSE s.retrans_head
      t == [s EXCEPT !.retrans_head = IF start = s.send_head THEN Null ELSE start]
      Turn(x) ==
        IF x.full \/ x.s.retrans_head <= 0 THEN x
        ELSE IF x.s.wq[x.s.retrans_head].sacked
             THEN [x EXCEPT !.s = update_retrans_head(x.s)]
             ELSE UntilFull(update_retrans_head(
                              atcp_retransmit_skb(x.s, x.s.retrans_head)))
  IN Repeat([s |-> t, full |-> FALSE], s.snd_nxt - s.snd_una + 1, Turn).s

(* Fill the holes below the foremost buffer a SACK block covers. *)
FackNext(s, i, resent) ==
  LET last == i >= s.fackets_out \/ i + 1 > Len(s.wq) \/ i + 1 = s.send_head
  IN [s |-> s, i |-> IF (resent /\ CwndFull(s)) \/ last THEN Null ELSE i + 1]
atcp_fack_retransmit(s) ==
  LET Turn(x) ==
        IF x.i = Null THEN x
        ELSE IF x.s.wq[x.i].sacked \/ x.s.wq[x.i].retrans
             THEN FackNext(x.s, x.i, FALSE)
             ELSE FackNext(atcp_retransmit_skb(x.s, x.i), x.i, TRUE)
      first == IF s.wq = <<>> \/ s.send_head = 1 THEN Null ELSE 1
  IN Repeat([s |-> s, i |-> first], Larger(s.fackets_out, 1), Turn).s

(***************************************************************************)
(* FIN, ACK, RST, probes, the first SYN.                                   *)
(***************************************************************************)
(* The FIN rides on the last unsent buffer, if that has room. *)
atcp_send_fin(s) ==
  LET n == Len(s.wq)
      t == [s EXCEPT !.wq[n].fin = TRUE, !.wq[n].end = @ + 1,
                     !.write_seq = @ + 1]
  IN IF s.send_head # Null /\ Len(s.wq[n].data) < atcp_current_mss(s)
     THEN IF /\ s.send_head = n /\ s.nonagle = 0
             /\ Len(s.wq[n].data) < Mss \div 2 /\ s.packets_out # 0
          THEN EnsureRetrans(SendHead(t))
          ELSE t
     ELSE atcp_send_skb(s, Skb(s.write_seq, <<>>, 0, {"ACK", "FIN"}), FALSE)

atcp_send_active_reset(s) == atcp_transmit(s, s.write_seq, <<>>, {"RST", "ACK"})

atcp_send_ack(s) ==
  IF s.zapped THEN s ELSE atcp_transmit(s, s.snd_nxt, <<>>, {"ACK"})

(* The answer to a SYN that crossed ours: it follows our SYN in the queue. *)
atcp_send_synack(s) ==
  LET skb == Skb(s.snd_una, <<>>, 0, {"SYN", "ACK"})
  IN atcp_transmit_skb([s EXCEPT !.wq = Append(@, skb),
                                 !.packets_out = @ + 1], skb)

atcp_send_delayed_ack(s) == atcp_reset_xmit_timer(s, "DACK")

(* A probe: the next bytes if the window has any room, else an ACK with a  *)
(* stale sequence number.                                                  *)
atcp_write_wakeup(s) ==
  LET room == s.snd_wnd - (s.snd_nxt - s.snd_una)
      skb  == s.wq[s.send_head]
      t    == IF room < skb.end - skb.seq
              THEN atcp_fragment(s, s.send_head, room) ELSE s
  IN IF \/ s.zapped
        \/ s.state \notin {"ESTABLISHED", "CLOSE_WAIT", "FIN_WAIT1",
                           "LAST_ACK", "CLOSING"}
     THEN s
     ELSE IF room > 0 /\ s.send_head # Null
          THEN EnsureRetrans(SendHead(t))
          ELSE atcp_transmit(s, s.snd_nxt - 1, <<>>, {"ACK"})

atcp_send_probe0(s) ==
  atcp_reset_xmit_timer(
    [atcp_write_wakeup(s) EXCEPT !.pending = "PROBE0", !.probes_out = @ + 1],
    "PROBE0")

atcp_connect(s) ==
  LET t == [s EXCEPT !.snd_wnd = 0, !.snd_wl1 = 0, !.snd_wl2 = s.write_seq,
                     !.snd_una = s.write_seq, !.rcv_nxt = 0, !.err = FALSE,
                     !.write_seq = @ + 1, !.snd_nxt = s.write_seq + 1,
                     !.rcv_wnd = atcp_select_initial_window,
                     !.state = "SYN_SENT", !.retransmits = 0,
                     !.fackets_out = 0, !.retrans_out = 0,
                     !.wq = Append(@, Skb(s.write_seq, <<>>, 0, {"SYN"})),
                     !.packets_out = @ + 1]
  IN StartRetrans(atcp_transmit_skb(t, t.wq[Len(t.wq)]))
==============================================================================
