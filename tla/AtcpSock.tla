------------------------------- MODULE AtcpSock -------------------------------
(***************************************************************************)
(* The socket of the Linux 2.2 TCP (src/linuxtcp/control): its record, the *)
(* tests and helpers of atcp.h, and its timers as flags.                   *)
(*                                                                         *)
(* Sequence numbers count from the sender's initial one: its SYN is 0, its *)
(* first byte 1.  A buffer (sk_buff) carries its bytes, so that what       *)
(* splitting and joining buffers does to the stream can be seen.  Pointers *)
(* into the write queue are positions in it, 0 is NULL.  The lengths of    *)
(* timers, timestamps, window scaling and urgent data are left out.        *)
(***************************************************************************)
EXTENDS Integers, FiniteSets, SequencesExt

CONSTANTS
  Mss,        \* mss_cache: the largest payload, without SACK options
  SackRoom,   \* what a SACK block takes from a segment's payload
  RcvBuf,     \* sk->rcvbuf
  Overhead,   \* truesize of a buffer beyond its bytes
  SackOk,     \* both ends permit SACK
  Retries2,   \* sysctl_tcp_retries2
  SynRetries  \* sysctl_tcp_syn_retries

ASSUME AtcpConstants ==
  /\ Mss \in Nat /\ Mss >= 2 /\ SackRoom \in Nat
  /\ RcvBuf \in Nat /\ Overhead \in Nat
  /\ SackOk \in BOOLEAN /\ Retries2 \in Nat /\ SynRetries \in Nat

Null     == 0
Dangling == -1        \* a pointer to a buffer that was freed
Infinite == 1000      \* the initial slow start threshold
Smaller(a, b) == IF a < b THEN a ELSE b
Larger(a, b)  == IF a > b THEN a ELSE b

(* Apply a step at most n times. *)
Repeat(s, n, Step(_)) ==
  LET after[i \in 0..n] == IF i = 0 THEN s ELSE Step(after[i - 1]) IN after[n]

(* Apply a step for each element of a sequence. *)
ForEach(s, q, Step(_, _)) ==
  LET after[i \in 0..Len(q)] == IF i = 0 THEN s ELSE Step(after[i - 1], q[i])
  IN after[Len(q)]

States == {"CLOSE", "LISTEN", "SYN_SENT", "SYN_RECV", "ESTABLISHED",
           "FIN_WAIT1", "FIN_WAIT2", "CLOSE_WAIT", "CLOSING", "LAST_ACK",
           "TIME_WAIT", "GONE"}

Flag(b) == IF b THEN 1 ELSE 0

(* A buffer of the write queue, which has room for cap bytes. *)
Skb(seq, data, cap, flags) ==
  [seq |-> seq, data |-> data, cap |-> cap, syn |-> "SYN" \in flags, fin |-> "FIN" \in flags,
   ack |-> "ACK" \in flags,
   end |-> seq + Len(data) + Cardinality(flags \ {"ACK"}),
   retrans |-> FALSE, sacked |-> FALSE]

(* A socket as atcp_v4_init_sock leaves it. *)
NewSock ==
  [state |-> "CLOSE", zapped |-> FALSE, dead |-> FALSE, shutdown |-> {},
   err |-> FALSE,
   \* sender
   snd_una |-> 0, snd_nxt |-> 0, snd_wnd |-> 0, snd_wl1 |-> 0, snd_wl2 |-> 0,
   max_window |-> 0, write_seq |-> 0, wq |-> <<>>,
   send_head |-> Null, retrans_head |-> Null, rexmt_done |-> FALSE,
   packets_out |-> 0, retrans_out |-> 0, fackets_out |-> 0,
   retransmits |-> 0, high_seq |-> 0, dup_acks |-> 0,
   snd_cwnd |-> 2, snd_cwnd_cnt |-> 0, snd_ssthresh |-> Infinite,
   pending |-> "none", probes_out |-> 0, nonagle |-> 0,
   \* receiver
   rcv_nxt |-> 0, rcv_wup |-> 0, rcv_wnd |-> 0, copied_seq |-> 0,
   fin_seq |-> 0, syn_seq |-> -1, delayed_acks |-> 0, quick |-> FALSE,
   ato_set |-> FALSE, pred_flags |-> Null, rq |-> <<>>, ofo |-> <<>>,
   sacks |-> <<>>, in_hand |-> 0,
   \* timers
   timers |-> {}, msl |-> "none",
   tw |-> <<>>,      \* the TIME-WAIT bucket that took the socket's place
   \* segments this step has sent
   out |-> <<>>]

(***************************************************************************)
(* Timers: armed or not.  net_reset_timer keeps one timer for both of its  *)
(* uses, and the last call decides which.                                  *)
(***************************************************************************)
XmitTimers == {"RETRANS", "DACK", "PROBE0"}

(* Mutant: the probe timer stops the retransmission timer, too. *)
ExclusiveTimers(s, what) ==
  [s EXCEPT !.timers = (IF what = "DACK" THEN @ ELSE @ \ {"PROBE0", "RETRANS"})
                         \union {what}]
atcp_reset_xmit_timer(s, what) ==
  [s EXCEPT !.timers = (IF what = "RETRANS" THEN @ \ {"PROBE0"} ELSE @)
                         \union {what}]
atcp_clear_xmit_timer(s, what) == [s EXCEPT !.timers = @ \ {what}]
atcp_clear_xmit_timers(s)      == [s EXCEPT !.timers = {}]
atcp_timer_is_set(s, what)     == what \in s.timers
net_reset_timer(s, what)       == [s EXCEPT !.msl = what]

(* Closing arms the timer that lets the socket go; the transmit timers run *)
(* on.                                                                     *)
CloseUnscheduled(s, state) == [s EXCEPT !.state = state]    \* mutant
atcp_set_state(s, state) ==
  LET t == [s EXCEPT !.state = state]
  IN IF state = "CLOSE" THEN net_reset_timer(t, "DONE") ELSE t

(***************************************************************************)
(* The receive window.                                                     *)
(***************************************************************************)
Truesize(skb) == Overhead + Len(skb.data)

(* What the receive queues hold, and the buffer that is being processed.   *)
rmem_alloc(s) ==
  LET Add(n, skb) == n + Truesize(skb)
  IN ForEach(s.in_hand, s.rq \o s.ofo, Add)

FreeSpace(s) == (RcvBuf - rmem_alloc(s)) \div 2

atcp_receive_window(s) == Larger(0, s.rcv_wup + s.rcv_wnd - s.rcv_nxt)

TooLittle(free) == free < RcvBuf \div 4 /\ free < Mss \div 2
NoRoom(s)       == TooLittle(FreeSpace(s))

(* The raw choice: a multiple of the segment size, unless the window that  *)
(* is offered already is near enough.                                      *)
WindowFor(s, free) ==
  IF TooLittle(free) THEN 0
  ELSE IF s.rcv_wnd <= free - Mss \/ s.rcv_wnd > free
       THEN (free \div Mss) * Mss
       ELSE s.rcv_wnd
RawWindow(s) == WindowFor(s, FreeSpace(s))

(* A window that closes also stops header prediction. *)
Predict(s) == IF NoRoom(s) THEN [s EXCEPT !.pred_flags = Null] ELSE s

(* The window to put in a segment; it never shrinks. *)
OfferedWindow(s) == Larger(RawWindow(s), atcp_receive_window(s))

(* Mutant: the window may shrink. *)
ShrinkingWindow(s) ==
  [Predict(s) EXCEPT !.rcv_wnd = RawWindow(s), !.rcv_wup = s.rcv_nxt]
atcp_select_window(s) ==
  IF RawWindow(s) < atcp_receive_window(s) THEN Predict(s)
  ELSE [Predict(s) EXCEPT !.rcv_wnd = RawWindow(s), !.rcv_wup = s.rcv_nxt]

atcp_raise_window(s) ==
  RawWindow(s) # 0 /\ RawWindow(s) > 2 * atcp_receive_window(s)

atcp_select_initial_window ==
  IF RcvBuf \div 2 > Mss THEN ((RcvBuf \div 2) \div Mss) * Mss ELSE RcvBuf \div 2

(***************************************************************************)
(* What may be sent.                                                       *)
(***************************************************************************)
atcp_current_mss(s) ==
  IF SackOk THEN Larger(1, Mss - SackRoom * Len(s.sacks)) ELSE Mss

atcp_recalc_ssthresh(s) ==
  Larger(2, Smaller(s.snd_wnd \div Mss, s.snd_cwnd) \div 2)

atcp_packets_in_flight(s) == s.packets_out - s.fackets_out + s.retrans_out

(* The comparison is of unsigned numbers: a negative count is a large one. *)
CwndFull(s) == atcp_packets_in_flight(s) \notin 0..(s.snd_cwnd - 1)

(* Nagle's rule, the congestion window (the last FIN is exempt from both), *)
(* the peer's window, and nothing new while retransmitting.                *)
Nagled(s, skb) ==
  \/ s.nonagle = 2 /\ Len(skb.data) < Mss
  \/ /\ s.nonagle = 0 /\ Len(skb.data) < Mss \div 2
     /\ s.packets_out # 0 /\ ~skb.fin

atcp_snd_test(s, skb) ==
  /\ ~Nagled(s, skb)
  /\ ~CwndFull(s) \/ skb.fin
  /\ skb.end <= s.snd_una + s.snd_wnd
  /\ s.retransmits = 0

(***************************************************************************)
(* Quick acknowledgement mode is one bit of ato; ato_set says that the     *)
(* rest of ato is not 0.                                                   *)
(***************************************************************************)
atcp_enter_quickack_mode(s) == [s EXCEPT !.quick = TRUE]
atcp_exit_quickack_mode(s)  == [s EXCEPT !.quick = FALSE]

(***************************************************************************)
(* Header prediction: the flags a predicted segment has are those of an    *)
(* ACK with the window the peer offered when they were computed.           *)
(***************************************************************************)
PredictedWindow(w) == w + 1
==============================================================================
