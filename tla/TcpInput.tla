------------------------------ MODULE TcpInput ------------------------------
(***************************************************************************)
(* Input processing (input.pc with predict.pc and fastret.pc): what a TCB  *)
(* does with one segment.  The source is a chain of rules that ends early  *)
(* with an exception; here a rule gives a result [t, s, act], where s is   *)
(* the segment as trimmed so far and act says how far processing has come: *)
(*   "go"       the next rule runs                                         *)
(*   "stop"     drop, or the end of processing without output              *)
(*   "output"   Output(tcb).do, then the end                               *)
(*   "fastret"  Output(tcb).do on behalf of Fast-Retransmit.Ack.retransmit *)
(*   "reset"    reset-drop: send-reset, then the end                       *)
(***************************************************************************)
EXTENDS TcpReassembly

Result(t, s, act) == [t |-> t, s |-> s, act |-> act]
AckDrop(t, s)     == Result(Set(t, "pending-ack"), s, "output")

(* Runs rule F on the result r of the rules before it unless they ended.   *)
Then(r, F(_, _)) == IF r.act = "go" THEN F(r.t, r.s) ELSE r

(***************************************************************************)
(* Trim-To-Window.  A segment that lies wholly outside the window is ack-  *)
(* dropped; zero window probes are no exception (early-packet).            *)
(***************************************************************************)
TrimOldData(t, s) ==
  LET s1 == IF s.syn THEN TrimSyn(s) ELSE s IN
  IF s.seq >= t.rcv_next THEN Result(t, s, "go")
  ELSE IF Right(s1) =< t.rcv_next THEN AckDrop(t, [s1 EXCEPT !.fin = FALSE])
  ELSE Result(t, TrimFront(s1, t.rcv_next - s1.seq), "go")

TrimEarlyData(t, s) ==
  IF Right(s) =< WindowRight(t) THEN Result(t, s, "go")
  ELSE IF s.seq >= WindowRight(t) THEN AckDrop(t, s)
  ELSE Result(t, TrimBack(s, Right(s) - WindowRight(t)), "go")

TrimToWindow(t, s) == Then(TrimOldData(t, s), TrimEarlyData)

(***************************************************************************)
(* Ack.                                                                    *)
(***************************************************************************)
EmptyDuplicate(t, s) ==                               \* ends in a drop, if any
  LET t1 == [t EXCEPT !.dupacks = @ + 1] IN
  IF ~t.rexmt \/ t.snd_una # s.ackno THEN Result(t, s, "go")
  ELSE IF t1.dupacks = DupAckRexmit
    THEN Result([ResetSsthresh(t1) EXCEPT !.rexmt = FALSE, !.timing = FALSE],
                s, "fastret")
  ELSE IF t1.dupacks > DupAckRexmit
    THEN Result([t1 EXCEPT !.cwnd = @ + MSS], s, "output")
  ELSE Result(t1, s, "stop")

DuplicateAck(t, s) ==
  IF s.len = 0 /\ s.wnd = SendWindow(t) THEN EmptyDuplicate(t, s)
  ELSE Result([t EXCEPT !.dupacks = 0], s, "go")

NormalAck(t, s) ==
  LET t1 == NewAckHook(DecreaseCwndAfterFastRetransmit(t), s.ackno)
  IN  IF TotallyAcked(t1) THEN Set(t1, "pending-output") ELSE t1

(* do-special.  Only fin-wait-1 asks whether the FIN has been sent.        *)
AfterNormalAck(t, s) ==
  LET all == TotallyAcked(t) IN
  CASE t.state = "fin-wait-1" /\ all /\ Has(t, "have-sent-fin") ->
         Result(Enter(t, "fin-wait-2"), s, "go")
    [] t.state = "closing" /\ all  -> Result(EnterTimeWait(t), s, "go")
    [] t.state = "last-ack" /\ all -> Result(CloseConnection(t), s, "stop")
    [] t.state = "time-wait"       -> Result(EnterTimeWait(t), s, "stop")
    [] OTHER                       -> Result(t, s, "go")

DoAck(t, s) ==
  IF t.state = "syn-received" /\ ~UnseenAck(t, s.ackno) THEN Result(t, s, "reset")
  ELSE LET t1 == IF t.state = "syn-received"
                   THEN SetSendWindow(Enter(t, "established"), s) ELSE t
       IN  IF ~EstablishedOrAfter(t1) THEN Result(t1, s, "go")
           ELSE IF OldAck(t1, s.ackno) THEN DuplicateAck(t1, s)
           ELSE IF UnseenAck(t1, s.ackno) THEN AfterNormalAck(NormalAck(t1, s), s)
           ELSE AckDrop(t1, s)

UpdateSendWindow(t, s) ==
  IF ForcesNewSendWindow(t, s)
    THEN Set(SetSendWindow(t, s), "pending-output") ELSE t

ProcessAck(t, s) ==
  LET Update(t1, s1) == Result(UpdateSendWindow(t1, s1), s1, "go")
  IN  Then(DoAck(t, s), Update)

(***************************************************************************)
(* Fin, and the end of processing: process-data.                           *)
(***************************************************************************)
DoFin(t) ==
  LET hook == t.state \in {"established", "fin-wait-1", "fin-wait-2"}
      t1   == Set([t EXCEPT !.rcv_next = IF hook THEN @ + 1 ELSE @], "pending-ack")
  IN  CASE t.state \in {"syn-received", "established"} -> Enter(t1, "close-wait")
        [] t.state = "fin-wait-1" -> IF TotallyAcked(t1) THEN EnterTimeWait(t1)
                                     ELSE Enter(t1, "closing")
        [] t.state = "fin-wait-2" -> EnterTimeWait(t1)
        [] t.state = "time-wait"  -> [t1 EXCEPT !.twomsl = TRUE]
        [] OTHER                  -> t1

MaybeFin(t, fin)   == IF fin THEN DoFin(t) ELSE t
EndProcessing(t, s) == Result(t, s, IF OutputPending(t) THEN "output" ELSE "stop")
Reassembled(r, s)   == EndProcessing(MaybeFin(r.t, r.fin), s)
ProcessData(t, s)   == Reassembled(Reassemble(t, s), s)

(***************************************************************************)
(* Reset.  A reset TCB that was closing is closed but processing goes on;  *)
(* one in syn-received goes to listen: passive-open is an assert(0) that   *)
(* is compiled out and counts as true.                                     *)
(***************************************************************************)
ResetConnection(t, s) ==
  CASE ~s.rst                 -> Result(t, s, "go")
    [] s.rst /\ t.state = "syn-received" -> Result(Enter(t, "listen"), s, "go")
    [] s.rst /\ t.state \in {"closing", "last-ack", "time-wait"} ->
         Result(CloseConnection(t), s, "go")
    [] OTHER                  -> Result(CloseConnection(t), s, "stop")

(***************************************************************************)
(* The states, and header prediction in front of them.                     *)
(***************************************************************************)
OtherStates(t, s) ==
  LET Refuse(t1, s1) ==
        IF ~t1.has_fd /\ s1.len # 0 /\ ClosingOrAfter(t1)
          THEN Result(t1, s1, "reset") ELSE Result(t1, s1, "go")
      NeedAck(t1, s1) == Result(t1, s1, IF s1.syn THEN "reset"
                                        ELSE IF ~s1.ack THEN "stop" ELSE "go")
  IN  Then(Then(Then(Then(Then(TrimToWindow(t, s), Refuse), ResetConnection),
                     NeedAck), ProcessAck), ProcessData)

ContinueProcessing(t, s) ==
  LET Open(t1, s1) == ProcessData(Set(SetSendWindow(t1, s1), "pending-output"), s1)
  IN  Then(TrimToWindow(t, TrimSyn(s)), Open)

SynSent(t, s) ==
  LET t1 == Set([ReceiveSynHook(t, s.seq) EXCEPT !.rexmt = FALSE], "pending-ack")
      t2 == IF s.ack THEN Enter(NewAckHook(t1, s.ackno), "established")
            ELSE Enter(t1, "syn-received")
  IN  IF s.ack /\ ~UnseenAck(t, s.ackno) THEN Result(t, s, "reset")
      ELSE IF s.rst \/ ~s.syn THEN Result(t, s, "stop")
      ELSE ContinueProcessing(t2, s)

(* A SYN for a listener makes a TCB of its own: see AcceptSyn.             *)
Listening(t, s) == Result(t, s, IF ~s.rst /\ s.ack THEN "reset" ELSE "stop")

AcceptSyn(junk, s) ==
  ContinueProcessing(Set(Enter(ReceiveSynHook(NewTcb(junk), s.seq), "syn-received"),
                         "pending-output"), s)

Predicted(t, s) ==
  /\ t.state = "established" /\ t.queue = <<>>
  /\ s.ack /\ ~s.syn /\ ~s.fin /\ ~s.rst          \* expected-packet-flags
  /\ s.seq = t.rcv_next
  /\ ValidAck(t, s.ackno) /\ ~Retransmitting(t)

FastPath(t, s) ==
  LET t1 == IF UnseenAck(t, s.ackno) THEN NewAckHook(t, s.ackno) ELSE t
      t2 == IF ForcesNewSendWindow(t1, s) THEN SetSendWindow(t1, s) ELSE t1
      t3 == IF s.len > 0 THEN EasyReassemble(t2, s).t ELSE t2
  IN  Result(t3, s, IF SendableLength(t3) > 0 \/ AckPending(t3)
                      THEN "output" ELSE "stop")

SegmentArrives(t, s) ==
  IF Predicted(t, s) THEN FastPath(t, s)
  ELSE CASE t.state = "closed"   -> Result(t, s, "reset")
         [] t.state = "listen"   -> Listening(t, s)
         [] t.state = "syn-sent" -> SynSent(t, s)
         [] OTHER                -> OtherStates(t, s)
==============================================================================
