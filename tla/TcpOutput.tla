------------------------------ MODULE TcpOutput ------------------------------
(***************************************************************************)
(* Output processing (output.pc): Output(tcb).do initializes the send      *)
(* window and then sends one segment per turn of real-send-loop until      *)
(* should-send is false.  A call in progress is a record o: the Output     *)
(* object's fields plus snd-wnd-avail, and for the call made by            *)
(* Fast-Retransmit.Ack.retransmit what that rule does when it returns.     *)
(***************************************************************************)
EXTENDS Tcb

Idle == [on |-> FALSE, every |-> FALSE, left |-> 0, avail |-> 0,
         fast |-> FALSE, old_next |-> 0]

(***************************************************************************)
(* initialize.  A negative window restarts transmission from snd_una,      *)
(* cancels the retransmit timer and leaves nothing to send with.           *)
(***************************************************************************)
AfterWindowInit(t) ==
  IF SendWindowAvail(t) < 0 THEN StartRetransmission(t) ELSE t

Initialize(t, fast, old) ==
  LET t1    == AfterWindowInit(t)
      avail == Greatest(SendWindowAvail(t), 0)
      left  == SendableLength(t1)
  IN  [tcb |-> SetReceiveWindow(t1),
       out |-> [on |-> TRUE, left |-> left, avail |-> avail,
                every |-> \/ Retransmitting(t1)
                          \/ avail >= left /\ left > 0 /\ SendIdle(t1),
                fast |-> fast, old_next |-> old]]

(***************************************************************************)
(* should-send and the segment that send builds.                           *)
(***************************************************************************)
UintLeast(u, i) == IF i < 0 THEN u ELSE Least(u, i)   \* i is converted to uint
UintLess(u, i)  == i < 0 \/ u < i

WillSendFin(t, n) == Has(t, "have-fin-seqno") /\ t.snd_next + n = t.fin_seqno
ShouldSendFinNow(t) == ~Has(t, "have-sent-fin") \/ Retransmitting(t)

ShouldSend(t, o) ==
  LET n == UintLeast(o.left, o.avail) IN
  \/ n > 0 /\ (o.every \/ n >= MSS \/ n >= t.max_offered \div 2)
  \/ Has(t, "need-window-update")
  \/ AckPending(t)
  \/ WillSendSyn(t)
  \/ WillSendFin(t, n) /\ ShouldSendFinNow(t)

FillSegment(t, o) == SegRoom                                  \* seeded fault
DataLength(t, o) ==
  Least(UintLeast(o.left, IF WillSendSyn(t) THEN o.avail - 1 ELSE o.avail),
        SegRoom)

SetFinAnyTime(t, n, avail) ==                                \* seeded fault
  Has(t, "have-fin-seqno") /\ UintLess(n, avail)
MaybeSetFin(t, n, avail) == WillSendFin(t, n) /\ UintLess(n, avail)

BuildSegment(t, o) ==
  LET n   == DataLength(t, o)
      syn == WillSendSyn(t)
      pre == n + (IF syn THEN 1 ELSE 0)
  IN  [seq |-> t.snd_next, len |-> n, dlen |-> n,
       off |-> t.removed + UnsentOffset(t),
       syn |-> syn,
       fin |-> MaybeSetFin(t, pre, o.avail),
       psh |-> n > 0 /\ SendableLength(t) =< n,
       rst |-> FALSE,
       ack |-> HaveReceivedSyn(t), ackno |-> t.rcv_next,
       wnd |-> t.rcv_wnd % (MaxWindow + 1),
       freed |-> FALSE]

SendSegment(t, s) ==
  LET t1 == IF s.fin THEN Set(t, "have-sent-fin") ELSE t
  IN  SendHook([t1 EXCEPT !.rcv_adv = Greatest(@, WindowRight(t1))], SeqLen(s))

(***************************************************************************)
(* send-reset and send-ack-reset: no hook runs for a RST.                  *)
(***************************************************************************)
Rst(seqno, ack, ackno) ==
  [seq |-> seqno, len |-> 0, dlen |-> 0, off |-> 0, syn |-> FALSE,
   fin |-> FALSE, psh |-> FALSE, rst |-> TRUE, ack |-> ack, ackno |-> ackno,
   wnd |-> 0, freed |-> FALSE]

(***************************************************************************)
(* One turn of real-send-loop, and what the caller does after the last.    *)
(* Each result is [tcb, out, segs]; segs go to the wire in order.          *)
(***************************************************************************)
AfterFastRetransmit(t, old) ==
  [t EXCEPT !.snd_next = Greatest(old, @),
            !.cwnd = t.ssthresh + DupAckRexmit * MSS]

Return(t, o, segs) ==
  [tcb  |-> IF o.fast THEN AfterFastRetransmit(t, o.old_next) ELSE t,
   out  |-> Idle, segs |-> segs]

Continue(t, o, segs) ==
  IF ShouldSend(t, o) THEN [tcb |-> t, out |-> o, segs |-> segs]
  ELSE Return(t, o, IF t.state = "closed"                     \* do-not-send
                      THEN Append(segs, Rst(t.snd_next, TRUE, t.rcv_next))
                      ELSE segs)

Start(init) == Continue(init.tcb, init.out, <<>>)
StartOutput(t)     == Start(Initialize(t, FALSE, 0))
FastRetransmit(t)  == Start(Initialize([t EXCEPT !.snd_next = t.snd_una],
                                       TRUE, t.snd_next))

SendTurn(t, o) ==
  LET s == BuildSegment(t, o) IN
  Continue(SendSegment(t, s),
           [o EXCEPT !.avail = @ - SeqLen(s), !.left = @ - s.len], <<s>>)

(* Segment.new finds no memory: the exception error leaves the loop.       *)
AbandonOutput(t, o) == Return(t, o, <<>>)
==============================================================================
