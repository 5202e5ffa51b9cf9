---------------------------- MODULE TcpInterface ----------------------------
(***************************************************************************)
(* What is done to a TCB from outside: a segment that is delivered, the    *)
(* calls of intrface.pc (with sock.pc behind them) and the timers.  Every  *)
(* operator runs its rule up to the point where Output(tcb).do has decided *)
(* whether to send its first segment, and gives [tcb, out, segs].          *)
(***************************************************************************)
EXTENDS TcpInput, TcpOutput

NoOutput(t, segs) == [tcb |-> t, out |-> Idle, segs |-> segs]

(***************************************************************************)
(* Input.run.  send-reset answers a segment that deserves a RST.           *)
(***************************************************************************)
ResetFor(s) ==
  IF s.rst THEN <<>>
  ELSE IF s.ack THEN <<Rst(s.ackno, FALSE, 0)>>
  ELSE <<Rst(0, TRUE, s.seq + s.len)>>

Finish(r) ==
  CASE r.act = "output"  -> StartOutput(r.t)
    [] r.act = "fastret" -> FastRetransmit(r.t)
    [] r.act = "reset"   -> NoOutput(r.t, ResetFor(r.s))
    [] OTHER             -> NoOutput(r.t, <<>>)

Deliver(t, s)       == Finish(SegmentArrives(t, s))
DeliverSyn(junk, s) == Finish(AcceptSyn(junk, s))

(***************************************************************************)
(* The calls.  A socket is used between connect-poll or accept succeeding  *)
(* and close; both succeed once the SYN of this end has been acknowledged. *)
(***************************************************************************)
InUse(t) == t.has_fd /\ t.snd_una > 0

Connect(t) == StartOutput(Enter(t, "syn-sent"))

UserWrite(t, n) == StartOutput([t EXCEPT !.snd_len = @ + n])

(* user-read hands over what the linked buffers hold, which is not always  *)
(* what rcv-len says, and read does nothing when rcv-len is 0.             *)
BytesRead(t, want) == Least(want, Len(t.stream) - t.taken)
UserRead(t, want) ==
  StartOutput([t EXCEPT !.taken = @ + BytesRead(t, want),
                        !.rcv_len = @ - BytesRead(t, want)])

MarkCloseAfter(t) ==
  LET t1 == CASE t.state = "close-wait" -> Enter(t, "last-ack")
              [] t.state \in {"established", "syn-received"} -> Enter(t, "fin-wait-1")
              [] OTHER -> t                          \* assert(0), compiled out
  IN  IF Has(t, "have-fin-seqno") THEN t1
      ELSE [Set(t1, "have-fin-seqno") EXCEPT
              !.fin_seqno = t.snd_next + SendableLength(t)]
UserClose(t) == StartOutput([MarkCloseAfter(t) EXCEPT !.has_fd = FALSE])

(***************************************************************************)
(* The timers.  start-retransmit-timer in ok is undone at once by the      *)
(* cancel-retransmit of start-retransmission; the backoff beyond MaxShift  *)
(* is an assert(0) that is compiled out, so nothing is sent any more.      *)
(***************************************************************************)
RetransmitAlarm(t) ==
  LET t1 == [ResetSsthresh(t) EXCEPT !.rexmt = FALSE, !.dupacks = 0, !.timing = FALSE]
  IN  IF t.shift >= MaxShift THEN NoOutput(t1, <<>>)
      ELSE StartOutput(StartRetransmission([t1 EXCEPT !.shift = @ + 1]))

TwoMslAlarm(t) == NoOutput(CloseConnection(t), <<>>)

DelayAckTimeout(t) == StartOutput(Set(t, "pending-ack"))       \* fast or quick
==============================================================================
