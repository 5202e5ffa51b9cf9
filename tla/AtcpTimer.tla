------------------------------- MODULE AtcpTimer -------------------------------
(***************************************************************************)
(* The timers of a socket of the Linux 2.2 TCP (atcp_timer.c): what each   *)
(* does when it expires.  locked says that a user's call holds the socket; *)
(* a timer that finds it so tries again later.  An expired timer is off    *)
(* until its handler arms it.                                              *)
(***************************************************************************)
EXTENDS AtcpInput

Expire(s, what) == [s EXCEPT !.timers = @ \ {what}]

atcp_write_err(s, force) ==
  LET t == [atcp_clear_xmit_timers(s) EXCEPT !.err = TRUE]
  IN IF ~force /\ s.state \in {"FIN_WAIT1", "FIN_WAIT2", "CLOSING"}
     THEN atcp_time_wait(t) ELSE atcp_set_state(t, "CLOSE")

atcp_write_timeout(s) ==
  IF s.retransmits > SynRetries /\ s.state = "SYN_SENT" THEN atcp_write_err(s, TRUE)
  ELSE IF s.retransmits > Retries2 THEN atcp_write_err(s, FALSE)
  ELSE s

(* A timeout forgets what SACK blocks said, starts over from the first     *)
(* buffer, and the first of a series closes the congestion window.         *)
ForgetSacks(s) ==
  IF ~SackOk THEN s
  ELSE [s EXCEPT !.wq = [i \in 1..Sent(s) |->
                           [s.wq[i] EXCEPT !.sacked = FALSE, !.retrans = FALSE]]
                        \o SubSeq(@, Sent(s) + 1, Len(@))]

CloseWindow(s) ==
  IF s.retransmits # 0 THEN s
  ELSE [s EXCEPT !.snd_ssthresh = atcp_recalc_ssthresh(s),
                 !.snd_cwnd_cnt = 0, !.snd_cwnd = 1]

atcp_retransmit_timer(s0, locked) ==
  LET s == Expire(s0, "RETRANS")
      f == [ForgetSacks(atcp_clear_xmit_timer(s, "DACK"))
              EXCEPT !.retrans_head = Null, !.rexmt_done = FALSE,
                     !.fackets_out = 0, !.retrans_out = 0]
      r == [CloseWindow(f) EXCEPT !.retransmits = @ + 1, !.dup_acks = 0,
                                  !.high_seq = s.snd_nxt]
  IN IF s.zapped THEN s
     ELSE IF locked THEN StartRetrans(s)
     ELSE atcp_write_timeout(StartRetrans(atcp_retransmit_skb(r, 1)))

atcp_delack_timer(s0, locked) ==
  LET s == Expire(s0, "DACK")
  IN IF s.zapped \/ s.delayed_acks = 0 \/ s.state = "CLOSE" THEN s
     ELSE IF locked THEN atcp_send_delayed_ack(s)
     ELSE atcp_send_ack(s)

atcp_probe_timer(s0, locked) ==
  LET s == Expire(s0, "PROBE0")
      e == [s EXCEPT !.err = TRUE]
  IN IF s.zapped THEN s
     ELSE IF locked THEN atcp_reset_xmit_timer(s, "PROBE0")
     ELSE IF s.probes_out <= Retries2 THEN atcp_send_probe0(s)
     ELSE IF s.state \in {"FIN_WAIT1", "FIN_WAIT2", "CLOSING"}
          THEN atcp_time_wait(e)
          ELSE atcp_set_state(e, "CLOSE")

(* A connection on which nothing has come for long: probe the peer, and    *)
(* give up when too many probes went unanswered.                           *)
atcp_keepopen_proc(s, keepalive_probes) ==
  IF s.state \notin {"ESTABLISHED", "CLOSE_WAIT", "FIN_WAIT2"} THEN s
  ELSE IF s.probes_out > keepalive_probes
       THEN [atcp_set_state([s EXCEPT !.err = TRUE], "CLOSE")
               EXCEPT !.shutdown = {"RCV", "SEND"}]
       ELSE atcp_write_wakeup([s EXCEPT !.probes_out = @ + 1,
                                        !.pending = "KEEPOPEN"])

(* destroy_sock, once nobody has the socket and it is closed. *)
atcp_v4_destroy_sock(s) ==
  [atcp_clear_xmit_timers(s) EXCEPT !.state = "GONE", !.msl = "none",
     !.wq = <<>>, !.send_head = Null, !.retrans_head = Null, !.rq = <<>>,
     !.ofo = <<>>]

(* The timer of the socket layer: TIME_CLOSE ends FIN_WAIT2, TIME_DONE     *)
(* frees a closed socket when its user has let go of it.                   *)
net_timer(s, locked) ==
  LET a == IF s.delayed_acks # 0 /\ ~s.zapped /\ s.state # "CLOSE"
           THEN atcp_send_ack(s) ELSE s
  IN IF locked THEN s
     ELSE IF s.msl = "CLOSE"
     THEN [atcp_set_state(a, "CLOSE") EXCEPT !.shutdown = {"RCV", "SEND"}]
     ELSE IF s.dead /\ s.state = "CLOSE" THEN atcp_v4_destroy_sock(a)
     ELSE IF s.dead THEN [a EXCEPT !.msl = "none"]
     ELSE a
==============================================================================
