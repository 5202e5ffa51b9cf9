--------------------------------- MODULE Tcb ---------------------------------
(***************************************************************************)
(* The transmission control block of the Prolac TCP in oldtcp/linuxtcp and *)
(* the hooks that change it.  The source builds the TCB by successive      *)
(* inheritance (Base.TCB, Window-M, Timeout-M, RTT-M, Retransmit-M,        *)
(* Delay-Ack, Quick-Ack, Slow-Start, Fast-Retransmit, Output-M); here the  *)
(* record has the fields of the whole chain, and each operator is a rule   *)
(* after dynamic dispatch: the definitions of every link, in call order.   *)
(*                                                                         *)
(* Sequence numbers are offsets from the initial sequence number of the    *)
(* end that sends them (its SYN is number 0, its first byte number 1).     *)
(* The send window is a C "uint": it wraps modulo WinMod.  The retransmit  *)
(* and 2MSL timers are Booleans (armed or not); their lengths in ticks are *)
(* left to the timer modules.                                              *)
(***************************************************************************)
EXTENDS Integers, Sequences

CONSTANTS
  MSS,          \* mss: data bytes of a full segment
  SegRoom,      \* external: data bytes a freshly built buffer has room for
  RcvBuf,       \* socket->max-receive-buffer-length
  MaxWindow,    \* TCP.max-window-size, the largest value of the window field
  InitCwnd,     \* snd_cwnd of a new TCB
  WinMod,       \* 2^32: the modulus of a uint
  MaxShift,     \* Retransmit-M.max-shift
  DupAckRexmit  \* Fast-Retransmit.dup-ack-rexmit-count

ASSUME TcbConstants ==
  /\ {MSS, SegRoom, RcvBuf, MaxWindow, InitCwnd} \subseteq Nat \ {0}
  /\ {MaxShift, DupAckRexmit} \subseteq Nat \ {0}
  /\ WinMod \in Nat /\ WinMod > 2 * MaxWindow
  /\ RcvBuf =< MaxWindow

States == {"closed", "listen", "syn-sent", "syn-received", "established",
           "close-wait", "fin-wait-1", "closing", "last-ack", "fin-wait-2",
           "time-wait"}

Flags == {"pending-ack", "pending-output", "need-window-update", "delay-ack",
          "quick-ack", "have-fin-seqno", "have-sent-fin"}

Least(a, b)    == IF a =< b THEN a ELSE b
Greatest(a, b) == IF a >= b THEN a ELSE b

(***************************************************************************)
(* Segments.  len is the length the TCP header arithmetic sees (_tail      *)
(* minus the text pointer), dlen the bytes between _data and _tail; a      *)
(* segment off the wire has len = dlen.  off is the number of stream bytes *)
(* before the segment's first byte, so a byte keeps its identity whatever  *)
(* sequence number it travels under.  freed marks a buffer that has been   *)
(* given back but is still linked.                                         *)
(***************************************************************************)
SynFin(s) == (IF s.syn THEN 1 ELSE 0) + (IF s.fin THEN 1 ELSE 0)
SeqLen(s) == s.len + SynFin(s)
Right(s)  == s.seq + SeqLen(s)

TrimSyn(s)      == [s EXCEPT !.seq = @ + 1, !.syn = FALSE]
TrimFront(s, a) == [s EXCEPT !.seq = @ + a, !.off = @ + a, !.dlen = @ - a]
TrimBack(s, a)  == [s EXCEPT !.len = @ - a, !.dlen = @ - a,
                             !.psh = FALSE, !.fin = FALSE]

(***************************************************************************)
(* Flags and states.                                                       *)
(***************************************************************************)
Set(t, f)   == [t EXCEPT !.flags = @ \cup {f}]
Has(t, f)   == f \in t.flags
Enter(t, v) == [t EXCEPT !.state = v]

EstablishedOrAfter(t) ==
  t.state \notin {"closed", "listen", "syn-sent", "syn-received"}
HaveReceivedSyn(t) == t.state \notin {"closed", "listen", "syn-sent"}
AlmostDead(t)      == EstablishedOrAfter(t) /\ t.state # "established"
ClosingOrAfter(t)  == t.state \in {"closing", "last-ack", "fin-wait-2", "time-wait"}

AckPending(t)    == Has(t, "pending-ack")
OutputPending(t) == Has(t, "pending-ack") \/ Has(t, "pending-output")

(***************************************************************************)
(* Sequence numbers, acknowledgements and the send buffer.                 *)
(***************************************************************************)
SendIdle(t)       == t.snd_una = t.snd_max
Retransmitting(t) == t.snd_next < t.snd_max
AllButOneAcked(t) == t.snd_max =< t.snd_una + 1              \* seeded fault
TotallyAcked(t)   == t.snd_max =< t.snd_una
RecentlyAcked(t)  == t.snd_next = t.snd_una
ValidAck(t, a)    == t.snd_una =< a /\ a =< t.snd_max
UnseenAck(t, a)   == t.snd_una < a /\ a =< t.snd_max
OldAck(t, a)      == a =< t.snd_una /\ a =< t.snd_max

OffsetFromMax(t)  == t.snd_max - t.snd_una                   \* seeded fault
UnsentOffset(t)   == t.snd_next - t.snd_una
SendableLength(t) == Greatest(t.snd_len - UnsentOffset(t), 0)
WillSendSyn(t)    == t.snd_next = 0

(***************************************************************************)
(* Windows.                                                                *)
(***************************************************************************)
AsInt(x) == IF x >= WinMod \div 2 THEN x - WinMod ELSE x   \* (int) of a uint

OnlyCwnd(t)        == t.cwnd                                 \* seeded fault
SendWindow(t)      == Least(t.snd_wnd, t.cwnd)
SendWindowAvail(t) ==
  AsInt((SendWindow(t) - (t.snd_next - t.snd_una)) % WinMod)

WholeBuffer(t)      == RcvBuf                               \* seeded fault
ReceivableLength(t) == (RcvBuf - t.rcv_len) % WinMod
WindowRight(t)      == t.rcv_next + t.rcv_wnd

Shrinking(t, wnd)      == wnd                               \* seeded fault
AvoidShrinking(t, wnd) ==
  IF t.rcv_next + wnd < t.rcv_adv THEN t.rcv_adv - t.rcv_next ELSE wnd

SetReceiveWindow(t) ==                    \* set-receive-window.conservatively
  LET room    == ReceivableLength(t)
      nosilly == IF room < RcvBuf \div 4 /\ room < MSS THEN 0 ELSE room
      wnd     == AvoidShrinking(t, Least(nosilly, MaxWindow))
      growth  == wnd - (t.rcv_adv - t.rcv_next)
  IN  [t EXCEPT !.rcv_wnd = wnd,
                !.flags = IF growth >= 2 * MSS \/ 2 * growth >= RcvBuf
                            THEN @ \cup {"need-window-update"} ELSE @]

SetSendWindow(t, s) ==
  [t EXCEPT !.snd_wnd = s.wnd, !.wnd_seqno = s.seq, !.wnd_ackno = s.ackno,
            !.max_offered = Greatest(@, s.wnd)]

ForcesNewSendWindow(t, s) ==
  \/ t.wnd_seqno < s.seq
  \/ t.wnd_seqno = s.seq /\ t.wnd_ackno < s.ackno
  \/ t.wnd_ackno = s.ackno /\ t.snd_wnd < s.wnd

(***************************************************************************)
(* Congestion window.                                                      *)
(***************************************************************************)
BelowThreshold(t) == t.cwnd =< t.ssthresh
IncreaseCwnd(t) ==
  [t EXCEPT !.cwnd = Least(MaxWindow, IF BelowThreshold(t) THEN @ + MSS
                                      ELSE @ + (MSS * MSS) \div @)]
ResetSsthresh(t) ==
  [t EXCEPT !.cwnd = MSS,
            !.ssthresh = MSS * Greatest(SendWindow(t) \div (2 * MSS), 2)]
DecreaseCwndAfterFastRetransmit(t) ==
  IF t.dupacks >= DupAckRexmit /\ ~BelowThreshold(t)
    THEN [t EXCEPT !.cwnd = t.ssthresh] ELSE t

(***************************************************************************)
(* The hooks.                                                              *)
(***************************************************************************)
ReceiveSynHook(t, seqno) ==
  [t EXCEPT !.rcv_next = seqno + 1, !.rcv_adv = seqno + 1]

RemoveOneMore(t, amt) ==                                     \* seeded fault
  [t EXCEPT !.removed = @ + Least(amt + 1, t.snd_len),
            !.snd_len = @ - Least(amt + 1, t.snd_len)]
RemoveOldData(t, amt) ==
  [t EXCEPT !.removed = @ + Least(amt, t.snd_len),
            !.snd_len = @ - Least(amt, t.snd_len)]

ForgetNext(t, a) == [t EXCEPT !.snd_una = a]                 \* seeded fault
AckUpTo(t, a)    == [t EXCEPT !.snd_una = a, !.snd_next = Greatest(@, a)]

NewAckHook(t, a) ==
  LET timed == t.timing /\ a > t.timing_seqno
      t1 == [t EXCEPT !.timing = @ /\ ~timed, !.shift = IF timed THEN 0 ELSE @,
                      !.snd_wnd = (@ - (a - t.snd_una)) % WinMod]
      t2 == AckUpTo(RemoveOldData(t1, a - Greatest(1, t.snd_una)), a)
      t3 == [t2 EXCEPT !.rexmt = @ /\ ~TotallyAcked(t2)]
  IN  IF Retransmitting(t3) THEN t3 ELSE IncreaseCwnd(t3)

ClearedButUpdate ==                                          \* seeded fault
  {"pending-ack", "pending-output", "delay-ack", "quick-ack"}
ClearedBySending ==
  {"pending-ack", "pending-output", "need-window-update", "delay-ack", "quick-ack"}

SendHook(t, n) ==
  LET next  == t.snd_next + n
      max   == Greatest(t.snd_max, next)
      time  == n > 0 /\ ~(next < max) /\ ~t.timing
  IN  [t EXCEPT
         !.flags = @ \ ClearedBySending,
         !.snd_next = next, !.snd_max = max,
         !.snd_wnd = (@ - n) % WinMod,
         !.timing = @ \/ time,
         !.timing_seqno = IF time THEN t.snd_next ELSE @,
         !.rexmt = @ \/ next # t.snd_una]

OnlyCancelTimer(t)     == [t EXCEPT !.rexmt = FALSE]         \* seeded fault
StartRetransmission(t) == [t EXCEPT !.snd_next = t.snd_una, !.rexmt = FALSE]

CloseConnection(t) ==
  [t EXCEPT !.reg = FALSE, !.flags = {}, !.state = "closed",
            !.rexmt = FALSE, !.twomsl = FALSE]

ForgetTwoMsl(t) == [t EXCEPT !.state = "time-wait", !.rexmt = FALSE]  \* seeded fault
EnterTimeWait(t) ==
  [t EXCEPT !.state = "time-wait", !.rexmt = FALSE, !.twomsl = TRUE]

(***************************************************************************)
(* Creation.  kmalloc leaves rcv_next, rcv_adv and the send window fields  *)
(* with arbitrary contents until a SYN has been received; junk gives them. *)
(***************************************************************************)
NewTcb(junk) ==
  [state |-> "closed", reg |-> TRUE, has_fd |-> TRUE, flags |-> {},
   snd_una |-> 0, snd_next |-> 0, snd_max |-> 0, fin_seqno |-> 0,
   snd_len |-> 0, removed |-> 0,
   snd_wnd |-> junk.snd_wnd, wnd_seqno |-> junk.wnd_seqno,
   wnd_ackno |-> junk.wnd_ackno, max_offered |-> 0,
   rcv_next |-> 0, rcv_adv |-> junk.rcv_adv, rcv_wnd |-> RcvBuf,
   rcv_len |-> 0, stream |-> <<>>, taken |-> 0, queue |-> <<>>,
   rexmt |-> FALSE, twomsl |-> FALSE, shift |-> 0,
   timing |-> FALSE, timing_seqno |-> 0,
   cwnd |-> InitCwnd, ssthresh |-> MaxWindow, dupacks |-> 0]
==============================================================================
