-------------------------- MODULE TcpEndpointProofs --------------------------
(***************************************************************************)
(* Proofs about one TCB among arbitrary segments (TcpEndpoint).            *)
(*                                                                         *)
(* The inductive invariant IInv is the order of snd_una, snd_next and      *)
(* snd_max together with what keeps it: the types of the fields that       *)
(* decide how much Output sends (send buffer, send window, congestion      *)
(* window, what is left to a call in progress), because snd_next grows by  *)
(* exactly that; where the end of the send buffer is while the socket is   *)
(* open and after it was closed (FinOK), because the FIN is numbered by    *)
(* it; and that a call of Output in progress has never more left than the  *)
(* send buffer holds.  One lemma per operator says that it preserves       *)
(* TcbOK; the receive side and the reassembly queue do not touch these     *)
(* fields, so nothing is needed about them.                                *)
(***************************************************************************)
EXTENDS TcpEndpoint, TLAPS

(***************************************************************************)
(* The inductive invariant.                                                *)
(***************************************************************************)
Fields == {"snd_una", "snd_next", "snd_max", "snd_len", "snd_wnd", "cwnd",
           "ssthresh", "state", "twomsl", "flags", "has_fd", "fin_seqno"}

(***************************************************************************)
(* Where the FIN lies.  Until this end's SYN has been acknowledged nothing *)
(* but the SYN has been sent; while the socket is open nothing has been    *)
(* sent that is not in the send buffer; and once close has given the FIN   *)
(* its number, the send buffer ends right before it.                       *)
(***************************************************************************)
FinOK(t) ==
  /\ t.snd_una >= 0 /\ t.snd_len >= 0
  /\ t.snd_una = 0 => t.has_fd /\ t.snd_len = 0 /\ t.snd_max =< 1
  /\ t.has_fd /\ t.snd_una > 0 => t.snd_max =< t.snd_una + t.snd_len
  /\ Has(t, "have-fin-seqno") =>
       /\ ~t.has_fd /\ t.snd_una > 0
       /\ t.fin_seqno \in Int /\ t.snd_max =< t.fin_seqno + 1
       /\ t.snd_una =< t.fin_seqno => t.snd_una + t.snd_len = t.fin_seqno
       /\ t.snd_una > t.fin_seqno => t.snd_len = 0

TcbOK(t) ==
  /\ Fields \subseteq DOMAIN t
  /\ t.snd_una \in Int /\ t.snd_next \in Int /\ t.snd_max \in Int
  /\ t.snd_len \in Int /\ t.snd_wnd \in 0..(WinMod - 1)
  /\ t.cwnd \in Nat \ {0} /\ t.ssthresh \in Nat \ {0}
  /\ t.snd_una =< t.snd_next /\ t.snd_next =< t.snd_max
  /\ t.state \in States /\ t.flags \in SUBSET Flags
  /\ t.state = "time-wait" => t.twomsl
  /\ FinOK(t)

OutOK(t, o) ==
  /\ {"on", "every", "left", "avail", "fast", "old_next"} \subseteq DOMAIN o
  /\ o.left \in Nat /\ o.avail \in Int /\ o.old_next \in Int
  /\ o.left =< SendableLength(t)
  /\ o.fast => t.snd_una =< o.old_next /\ o.old_next =< t.snd_max

SegOK(s)    == {"ackno", "wnd"} \subseteq DOMAIN s /\ s.ackno \in Int /\ s.wnd \in 0..MaxWindow
EffectOK(r) == TcbOK(r.tcb) /\ OutOK(r.tcb, r.out)
ResultOK(r) == TcbOK(r.t) /\ SegOK(r.s)

IInv == TcbOK(tcb) /\ OutOK(tcb, out)

-----------------------------------------------------------------------------
(***************************************************************************)
(* Arithmetic that the congestion window needs.                            *)
(***************************************************************************)
(* Quotients and products of sizes. *)
LEMMA DivNat == ASSUME NEW a \in Nat, NEW b \in Nat \ {0} PROVE a \div b \in Nat
  BY SMT

(* A product of positive sizes is positive. *)
LEMMA MulPos == ASSUME NEW a \in Nat \ {0}, NEW b \in Nat \ {0}
                PROVE  a * b \in Nat \ {0}
  BY SMT

(***************************************************************************)
(* Flags, states and windows.                                              *)
(***************************************************************************)
(* The literals the actions write are states and flags. *)
LEMMA Names ==
  /\ "pending-ack" \in Flags /\ "pending-output" \in Flags /\ "delay-ack" \in Flags
  /\ "quick-ack" \in Flags /\ "need-window-update" \in Flags
  /\ "have-fin-seqno" \in Flags /\ "have-sent-fin" \in Flags
  /\ "closed" \in States /\ "listen" \in States /\ "syn-sent" \in States
  /\ "syn-received" \in States /\ "established" \in States /\ "close-wait" \in States
  /\ "fin-wait-1" \in States /\ "closing" \in States /\ "last-ack" \in States
  /\ "fin-wait-2" \in States /\ "time-wait" \in States
  BY DEF Flags, States

(* A flag is raised; have-fin-seqno needs its number, too. *)
LEMMA SetOK == ASSUME NEW t, NEW f \in Flags, TcbOK(t), f # "have-fin-seqno"
              PROVE  TcbOK(Set(t, f))
  BY DEF TcbOK, FinOK, Has, Fields, Set

(* A change of state, time-wait aside, where the timer must run. *)
LEMMA EnterOK == ASSUME NEW t, NEW v \in States, TcbOK(t), v # "time-wait"
                 PROVE  TcbOK(Enter(t, v))
  BY DEF TcbOK, FinOK, Has, Fields, Enter

(* The windows are numbers whatever was subtracted from them. *)
LEMMA AvailInt == ASSUME NEW t, TcbOK(t)
                  PROVE  SendWindow(t) \in Int /\ SendWindowAvail(t) \in Int
<1>1. SendWindow(t) \in Int
  BY DEF TcbOK, SendWindow, Least
<1>2. WinMod \in Nat \ {0}
  BY TcbConstants
<1>3. (SendWindow(t) - (t.snd_next - t.snd_una)) % WinMod \in Int
  BY <1>1, <1>2 DEF TcbOK
<1> QED BY <1>1, <1>2, <1>3 DEF SendWindowAvail, AsInt

(* What is promised to the peer is no part of the send side. *)
LEMMA SetReceiveWindowOK == ASSUME NEW t, TcbOK(t) PROVE TcbOK(SetReceiveWindow(t))
  BY Names DEF TcbOK, FinOK, Has, Fields, SetReceiveWindow

(* The peer offers a window. *)
LEMMA SetSendWindowOK == ASSUME NEW t, NEW s, TcbOK(t), SegOK(s)
                         PROVE  TcbOK(SetSendWindow(t, s))
  BY TcbConstants DEF TcbOK, FinOK, Has, Fields, SegOK, SetSendWindow
(***************************************************************************)
(* Congestion window.                                                      *)
(***************************************************************************)
(* The congestion window stays positive when it grows. *)
LEMMA IncreaseCwndOK == ASSUME NEW t, TcbOK(t) PROVE TcbOK(IncreaseCwnd(t))
<1>1. /\ MSS \in Nat \ {0} /\ MaxWindow \in Nat \ {0}
      /\ MSS * MSS \in Nat \ {0}
  BY TcbConstants, MulPos
<1>2. (MSS * MSS) \div t.cwnd \in Nat
  BY <1>1, DivNat DEF TcbOK
<1> DEFINE w == IF BelowThreshold(t) THEN t.cwnd + MSS
                ELSE t.cwnd + (MSS * MSS) \div t.cwnd
<1>3. Least(MaxWindow, w) \in Nat \ {0}
  <2>1. w \in Nat \ {0}
    BY <1>1, <1>2 DEF TcbOK
  <2> QED BY <1>1, <2>1 DEF Least
<1>4. IncreaseCwnd(t) = [t EXCEPT !.cwnd = Least(MaxWindow, w)]
  BY DEF IncreaseCwnd
<1> HIDE DEF w
<1> QED BY <1>3, <1>4 DEF TcbOK, FinOK, Has, Fields

(* Half of the window, in segments, is at least two segments. *)
LEMMA ThresholdPos == ASSUME NEW t, TcbOK(t)
                      PROVE  MSS * Greatest(SendWindow(t) \div (2 * MSS), 2) \in Nat \ {0}
<1>1. MSS \in Nat \ {0} /\ 2 * MSS \in Nat \ {0}
  BY TcbConstants
<1>2. SendWindow(t) \div (2 * MSS) \in Int
  BY <1>1, AvailInt
<1>3. Greatest(SendWindow(t) \div (2 * MSS), 2) \in Nat \ {0}
  BY <1>2 DEF Greatest
<1> QED BY <1>1, <1>3, MulPos

(* A loss resets the congestion window to one segment. *)
LEMMA ResetSsthreshOK == ASSUME NEW t, TcbOK(t) PROVE TcbOK(ResetSsthresh(t))
<1> DEFINE w == MSS * Greatest(SendWindow(t) \div (2 * MSS), 2)
<1>1. w \in Nat \ {0} /\ MSS \in Nat \ {0}
  BY ThresholdPos, TcbConstants
<1>2. ResetSsthresh(t) = [t EXCEPT !.cwnd = MSS, !.ssthresh = w]
  BY DEF ResetSsthresh
<1> HIDE DEF w
<1> QED BY <1>1, <1>2 DEF TcbOK, FinOK, Has, Fields

(* The end of fast recovery. *)
LEMMA DecreaseCwndOK == ASSUME NEW t, TcbOK(t)
                        PROVE  TcbOK(DecreaseCwndAfterFastRetransmit(t))
  BY DEF TcbOK, FinOK, Has, Fields, DecreaseCwndAfterFastRetransmit

(***************************************************************************)
(* The hooks.  An acknowledgement the guard of its caller lets through is  *)
(* new and not beyond snd_max; a segment sent has seqlen n >= 0.           *)
(***************************************************************************)
LEMMA TakenOffOK ==
  ASSUME NEW t, NEW a \in Int, TcbOK(t), UnseenAck(t, a)
  PROVE  TcbOK(AckUpTo(RemoveOldData(t, a - Greatest(1, t.snd_una)), a))
<1> DEFINE amt == a - Greatest(1, t.snd_una)
           u == RemoveOldData(t, amt)
<1>1. amt \in Nat /\ (t.snd_una > 0 => amt = a - t.snd_una)
      /\ (t.snd_una = 0 => amt = 0 /\ a = 1)
  BY DEF TcbOK, FinOK, UnseenAck, Greatest
<1>2. u = [t EXCEPT !.removed = @ + Least(amt, t.snd_len),
                    !.snd_len = @ - Least(amt, t.snd_len)]
  BY DEF RemoveOldData
<1>3. AckUpTo(u, a) = [u EXCEPT !.snd_una = a, !.snd_next = Greatest(@, a)]
  BY DEF AckUpTo
<1> HIDE DEF amt, u
<1>4. /\ Fields \subseteq DOMAIN u
      /\ u.snd_len = t.snd_len - Least(amt, t.snd_len)
      /\ \A f \in Fields \ {"snd_len"} : u[f] = t[f]
  BY <1>2 DEF TcbOK, Fields
<1> DEFINE v == [u EXCEPT !.snd_una = a, !.snd_next = Greatest(@, a)]
<1>5. /\ Fields \subseteq DOMAIN v
      /\ v.snd_una = a /\ v.snd_next = Greatest(t.snd_next, a)
      /\ v.snd_len = t.snd_len - Least(amt, t.snd_len)
      /\ \A f \in Fields \ {"snd_len", "snd_una", "snd_next"} : v[f] = t[f]
  BY <1>4 DEF Fields
<1> HIDE DEF v
<1>6. FinOK(v)
  BY <1>1, <1>5 DEF TcbOK, FinOK, Has, Fields, UnseenAck, Least
<1>7. TcbOK(v)
  BY <1>1, <1>5, <1>6 DEF TcbOK, Fields, UnseenAck, Least, Greatest
<1> QED BY <1>3, <1>7 DEF v, u, amt

(* new-ack-hook, with what every extension adds to it. *)
LEMMA NewAckHookOK == ASSUME NEW t, NEW a \in Int, TcbOK(t), UnseenAck(t, a)
                      PROVE  TcbOK(NewAckHook(t, a))
<1> DEFINE timed == t.timing /\ a > t.timing_seqno
           t1 == [t EXCEPT !.timing = @ /\ ~timed, !.shift = IF timed THEN 0 ELSE @,
                           !.snd_wnd = (@ - (a - t.snd_una)) % WinMod]
           t2 == AckUpTo(RemoveOldData(t1, a - Greatest(1, t.snd_una)), a)
           t3 == [t2 EXCEPT !.rexmt = @ /\ ~TotallyAcked(t2)]
<1>1. TcbOK(t1) /\ t1.snd_una = t.snd_una /\ t1.snd_max = t.snd_max
  <2>1. WinMod \in Nat \ {0}
    BY TcbConstants
  <2>2. (t.snd_wnd - (a - t.snd_una)) % WinMod \in 0..(WinMod - 1)
    BY <2>1 DEF TcbOK
  <2> HIDE DEF timed
  <2> QED BY <2>2 DEF TcbOK, FinOK, Has, Fields
<1> HIDE DEF t1
<1>2. UnseenAck(t1, a) /\ a - Greatest(1, t.snd_una) = a - Greatest(1, t1.snd_una)
  BY <1>1 DEF UnseenAck
<1>3. TcbOK(t2)
  BY <1>1, <1>2, TakenOffOK
<1> HIDE DEF t2
<1>4. TcbOK(t3)
  BY <1>3 DEF TcbOK, FinOK, Has, Fields
<1>5. NewAckHook(t, a) = IF Retransmitting(t3) THEN t3 ELSE IncreaseCwnd(t3)
  BY DEF NewAckHook, t1, t2
<1> HIDE DEF t3
<1> QED BY <1>4, <1>5, IncreaseCwndOK

(* How far a segment may reach: the SYN first, then not beyond the send    *)
(* buffer, then not beyond the FIN.                                        *)
MayReach(t, next) ==
  /\ t.snd_una = 0 => next =< 1
  /\ t.has_fd /\ t.snd_una > 0 => next =< Greatest(t.snd_max, t.snd_una + t.snd_len)
  /\ Has(t, "have-fin-seqno") => next =< t.fin_seqno + 1

(* send-hook: snd_next moves by what was sent, and snd_max with it. *)
LEMMA SendHookOK ==
  ASSUME NEW t, NEW n \in Nat, TcbOK(t), MayReach(t, t.snd_next + n)
  PROVE  /\ TcbOK(SendHook(t, n))
         /\ SendHook(t, n).snd_una = t.snd_una
         /\ SendHook(t, n).snd_len = t.snd_len
         /\ SendHook(t, n).snd_next = t.snd_next + n
         /\ SendHook(t, n).snd_max \in Int /\ SendHook(t, n).snd_max >= t.snd_max
<1>1. WinMod \in Nat \ {0}
  BY TcbConstants
<1>2. (t.snd_wnd - n) % WinMod \in 0..(WinMod - 1)
  BY <1>1 DEF TcbOK
<1> DEFINE u == SendHook(t, n)
<1>3. /\ Fields \subseteq DOMAIN u
      /\ u.snd_next = t.snd_next + n /\ u.snd_max = Greatest(t.snd_max, t.snd_next + n)
      /\ u.snd_wnd = (t.snd_wnd - n) % WinMod
      /\ u.flags = t.flags \ ClearedBySending
      /\ \A f \in Fields \ {"snd_next", "snd_max", "snd_wnd", "flags"} : u[f] = t[f]
  BY DEF TcbOK, Fields, SendHook
<1> HIDE DEF u
<1>4. u.snd_max \in Int /\ u.snd_max >= t.snd_max
  BY <1>3 DEF TcbOK, Greatest
<1>5. FinOK(u)
  BY <1>3 DEF TcbOK, FinOK, Has, Fields, MayReach, Greatest
<1>6. TcbOK(u)
  BY <1>2, <1>3, <1>4, <1>5 DEF TcbOK, Fields, Greatest
<1>7. u.snd_una = t.snd_una /\ u.snd_len = t.snd_len /\ u.snd_next = t.snd_next + n
  BY <1>3 DEF Fields
<1> QED BY <1>4, <1>6, <1>7 DEF u

(* snd_next goes back to snd_una. *)
LEMMA StartRetransmissionOK == ASSUME NEW t, TcbOK(t)
                               PROVE  TcbOK(StartRetransmission(t))
  BY DEF TcbOK, FinOK, Has, Fields, StartRetransmission

(* The connection is closed. *)
LEMMA CloseConnectionOK == ASSUME NEW t, TcbOK(t) PROVE TcbOK(CloseConnection(t))
  BY Names DEF TcbOK, FinOK, Has, Fields, CloseConnection

(* Every path into time-wait takes this one, which sets the timer. *)
LEMMA EnterTimeWaitOK == ASSUME NEW t, TcbOK(t) PROVE TcbOK(EnterTimeWait(t))
  BY Names DEF TcbOK, FinOK, Has, Fields, EnterTimeWait

-----------------------------------------------------------------------------
(***************************************************************************)
(* Output.                                                                 *)
(***************************************************************************)
(* When output is idle its budget is in order. *)
LEMMA IdleOK == ASSUME NEW t, TcbOK(t) PROVE OutOK(t, Idle)
  BY DEF TcbOK, OutOK, Idle, SendableLength, UnsentOffset, Greatest

(* A step that does not call Output. *)
LEMMA NoOutputOK == ASSUME NEW t, NEW segs, TcbOK(t) PROVE EffectOK(NoOutput(t, segs))
  BY IdleOK DEF EffectOK, NoOutput

(* Output returns, and a fast retransmission puts snd_next back. *)
LEMMA ReturnOK == ASSUME NEW t, NEW o, NEW segs, TcbOK(t), OutOK(t, o)
                  PROVE  EffectOK(Return(t, o, segs))
<1>1. t.ssthresh + DupAckRexmit * MSS \in Nat \ {0}
  BY TcbConstants, MulPos DEF TcbOK
<1>2. ASSUME o.fast
      PROVE  TcbOK(AfterFastRetransmit(t, o.old_next))
  BY <1>1, <1>2 DEF TcbOK, FinOK, Has, Fields, OutOK, AfterFastRetransmit, Greatest
<1> QED BY <1>2, IdleOK DEF EffectOK, Return

(* The loop goes on or returns. *)
LEMMA ContinueOK == ASSUME NEW t, NEW o, NEW segs, TcbOK(t), OutOK(t, o)
                    PROVE  EffectOK(Continue(t, o, segs))
<1>1. CASE ShouldSend(t, o)
  BY <1>1 DEF Continue, EffectOK
<1>2. CASE ~ShouldSend(t, o)
  BY <1>2, ReturnOK DEF Continue
<1> QED BY <1>1, <1>2

(* A call starts with a send order that allows for the snd_next it keeps.  *)
LEMMA InitializeOK ==
  ASSUME NEW t, NEW fast \in BOOLEAN, NEW old \in Int, TcbOK(t),
         fast => t.snd_una =< old /\ old =< t.snd_max
  PROVE  EffectOK(Initialize(t, fast, old))
<1> DEFINE t1 == AfterWindowInit(t)
           avail == Greatest(SendWindowAvail(t), 0)
           left == SendableLength(t1)
           every == \/ Retransmitting(t1)
                    \/ avail >= left /\ left > 0 /\ SendIdle(t1)
           o == [on |-> TRUE, left |-> left, avail |-> avail, every |-> every,
                 fast |-> fast, old_next |-> old]
<1>1. TcbOK(t1) /\ t1.snd_una = t.snd_una /\ t1.snd_max = t.snd_max
  BY DEF AfterWindowInit, StartRetransmission, TcbOK, FinOK, Has, Fields
<1>2. avail \in Int /\ left \in Nat
  BY <1>1, AvailInt DEF TcbOK, Greatest, SendableLength, UnsentOffset
<1>3. Initialize(t, fast, old) = [tcb |-> SetReceiveWindow(t1), out |-> o]
  BY DEF Initialize
<1>4. /\ SetReceiveWindow(t1).snd_una = t.snd_una
      /\ SetReceiveWindow(t1).snd_max = t.snd_max
      /\ SendableLength(SetReceiveWindow(t1)) = left
  <2> HIDE DEF t1
  <2> QED BY <1>1 DEF SetReceiveWindow, TcbOK, Fields, SendableLength, UnsentOffset
<1> HIDE DEF t1, avail, left, every
<1>5. OutOK(SetReceiveWindow(t1), o)
  BY <1>2, <1>4 DEF OutOK
<1> QED BY <1>1, <1>3, <1>5, SetReceiveWindowOK DEF EffectOK

(* Output starts with the budget it computed. *)
LEMMA StartOK == ASSUME NEW init, EffectOK(init) PROVE EffectOK(Start(init))
  BY ContinueOK DEF Start, EffectOK

(* Output is called in the ordinary way. *)
LEMMA StartOutputOK == ASSUME NEW t, TcbOK(t) PROVE EffectOK(StartOutput(t))
<1>1. \A f \in BOOLEAN : f = FALSE => EffectOK(Initialize(t, f, 0))
  BY InitializeOK
<1>2. EffectOK(Initialize(t, FALSE, 0))
  BY <1>1
<1> QED BY <1>2, StartOK DEF StartOutput

(* Output is called by a fast retransmission. *)
LEMMA FastRetransmitOK == ASSUME NEW t, TcbOK(t) PROVE EffectOK(FastRetransmit(t))
<1> DEFINE t1 == [t EXCEPT !.snd_next = t.snd_una]
<1>1. TcbOK(t1) /\ t.snd_next \in Int /\ t1.snd_una =< t.snd_next /\ t.snd_next =< t1.snd_max
  BY DEF TcbOK, FinOK, Has, Fields
<1> HIDE DEF t1
<1>2. EffectOK(Initialize(t1, TRUE, t.snd_next))
  BY <1>1, InitializeOK
<1> QED BY <1>2, StartOK DEF FastRetransmit, t1

(* What a segment takes from what is left is never more than is left.      *)
LEMMA DataLengthOK == ASSUME NEW t, NEW o, OutOK(t, o)
                      PROVE  DataLength(t, o) \in 0..o.left
  BY TcbConstants DEF OutOK, DataLength, UintLeast, Least

(* One turn of real-send-loop. *)
LEMMA SendTurnOK == ASSUME NEW t, NEW o, TcbOK(t), OutOK(t, o)
                    PROVE  EffectOK(SendTurn(t, o))
<1> DEFINE s  == BuildSegment(t, o)
           t1 == IF s.fin THEN Set(t, "have-sent-fin") ELSE t
           t2 == [t1 EXCEPT !.rcv_adv = Greatest(@, WindowRight(t1))]
           u  == SendHook(t2, SeqLen(s))
           o1 == [o EXCEPT !.avail = @ - SeqLen(s), !.left = @ - s.len]
           pre == DataLength(t, o) + (IF WillSendSyn(t) THEN 1 ELSE 0)
<1>0. /\ s.len = DataLength(t, o) /\ s.syn = WillSendSyn(t)
      /\ s.fin = MaybeSetFin(t, pre, o.avail)
  BY DEF BuildSegment
<1>1. /\ s.len = DataLength(t, o) /\ (s.syn <=> t.snd_next = 0)
      /\ s.fin => /\ Has(t, "have-fin-seqno")
                  /\ t.snd_next + (s.len + (IF s.syn THEN 1 ELSE 0)) = t.fin_seqno
  <2> HIDE DEF s
  <2> QED BY <1>0 DEF WillSendSyn, MaybeSetFin, WillSendFin
<1>2. s.len \in 0..o.left /\ SeqLen(s) \in Nat
  BY <1>1, DataLengthOK DEF SeqLen, SynFin, OutOK
<1> DEFINE sends == {"snd_una", "snd_next", "snd_max", "snd_len", "has_fd", "fin_seqno"}
<1> HIDE DEF s
<1>3. /\ TcbOK(t1) /\ \A f \in sends : t1[f] = t[f]
      /\ Has(t1, "have-fin-seqno") = Has(t, "have-fin-seqno")
  BY Names, SetOK DEF TcbOK, Fields, Set, Has
<1> HIDE DEF t1
<1>4. /\ TcbOK(t2) /\ \A f \in sends : t2[f] = t[f]
      /\ Has(t2, "have-fin-seqno") = Has(t, "have-fin-seqno")
  BY <1>3 DEF TcbOK, FinOK, Has, Fields
<1> HIDE DEF t2
<1>5. MayReach(t, t.snd_next + SeqLen(s)) /\ s.len =< SendableLength(t)
  <2>1. s.len =< SendableLength(t) /\ (s.syn => s.len = 0 /\ ~s.fin /\ t.snd_una = 0)
    BY <1>1, <1>2 DEF TcbOK, FinOK, OutOK, SendableLength, UnsentOffset, Greatest
  <2>2. s.len = 0 \/ t.snd_next + s.len =< t.snd_una + t.snd_len
    BY <1>2, <2>1 DEF TcbOK, OutOK, SendableLength, UnsentOffset, Greatest
  <2> QED BY <1>1, <1>2, <2>1, <2>2
          DEF TcbOK, FinOK, OutOK, MayReach, SeqLen, SynFin, Greatest
<1>6. MayReach(t2, t2.snd_next + SeqLen(s))
  BY <1>4, <1>5 DEF MayReach
<1>7. /\ TcbOK(u) /\ u.snd_una = t.snd_una /\ u.snd_len = t.snd_len
      /\ u.snd_next = t.snd_next + SeqLen(s)
      /\ u.snd_max \in Int /\ u.snd_max >= t.snd_max
  BY <1>2, <1>4, <1>6, SendHookOK
<1>8. OutOK(u, o1)
  <2> HIDE DEF u
  <2>1. o.left - s.len =< SendableLength(u)
    <3>1. o.left =< SendableLength(t) /\ (s.syn => t.snd_len = 0) /\ (s.fin => SendableLength(t) = s.len)
      BY <1>1, <1>2, <1>5 DEF TcbOK, FinOK, OutOK, SendableLength, UnsentOffset, Greatest
    <3> QED BY <1>1, <1>2, <1>7, <3>1
            DEF TcbOK, FinOK, OutOK, SendableLength, UnsentOffset, Greatest, SeqLen, SynFin
  <2> QED BY <1>2, <1>7, <2>1 DEF OutOK, TcbOK
<1>9. SendTurn(t, o) = Continue(u, o1, <<s>>)
  BY DEF SendTurn, SendSegment, u, t2, t1, s, o1
<1> HIDE DEF u, o1
<1> QED BY <1>7, <1>8, <1>9, ContinueOK

-----------------------------------------------------------------------------
(***************************************************************************)
(* Reassembly changes nothing that TcbOK speaks of.                        *)
(***************************************************************************)
(* Reassembly touches the receive side only. *)
LEMMA SegmentToUserOK == ASSUME NEW t, NEW s, TcbOK(t) PROVE TcbOK(SegmentToUser(t, s))
  BY DEF TcbOK, FinOK, Has, Fields, SegmentToUser

(* What became contiguous goes to the user. *)
LEMMA DeliverQueueOK == ASSUME NEW t, TcbOK(t) PROVE TcbOK(DeliverQueue(t).t)
  BY DEF TcbOK, FinOK, Has, Fields, DeliverQueue, Delivery

(* The segment is the next one. *)
LEMMA EasyReassembleOK == ASSUME NEW t, NEW s, TcbOK(t) PROVE TcbOK(EasyReassemble(t, s).t)
  BY Names, SetOK, SegmentToUserOK DEF EasyReassemble

(* The segment is queued. *)
LEMMA DifficultReassembleOK == ASSUME NEW t, NEW s, TcbOK(t)
                               PROVE  TcbOK(DifficultReassemble(t, s).t)
<1> DEFINE t0 == Set(t, "pending-ack")
           t1 == [t0 EXCEPT !.queue = IF @ = <<>> THEN <<s>> ELSE Insert(@, s)]
<1>1. TcbOK(t0)
  BY Names, SetOK
<1> HIDE DEF t0
<1>2. TcbOK(t1)
  BY <1>1 DEF TcbOK, FinOK, Has, Fields
<1>3. DifficultReassemble(t, s).t \in {t1, DeliverQueue(t1).t}
  BY DEF DifficultReassemble, Linked, t0
<1> HIDE DEF t1
<1> QED BY <1>2, <1>3, DeliverQueueOK

(* Either way of reassembly. *)
LEMMA ReassembleOK == ASSUME NEW t, NEW s, TcbOK(t) PROVE TcbOK(Reassemble(t, s).t)
  BY EasyReassembleOK, DifficultReassembleOK DEF Reassemble

-----------------------------------------------------------------------------
(***************************************************************************)
(* Input, rule by rule.                                                    *)
(***************************************************************************)
(* The segment is dropped and acknowledged. *)
LEMMA AckDropOK == ASSUME NEW t, NEW s, TcbOK(t), SegOK(s) PROVE ResultOK(AckDrop(t, s))
  BY Names, SetOK DEF ResultOK, AckDrop, Result

(* A SYN is trimmed. *)
LEMMA TrimSynOK == ASSUME NEW s, SegOK(s) PROVE SegOK(TrimSyn(s))
  BY DEF SegOK, TrimSyn

(* Old data and data beyond the window are trimmed. *)
LEMMA TrimToWindowOK == ASSUME NEW t, NEW s, TcbOK(t), SegOK(s)
                        PROVE  ResultOK(TrimToWindow(t, s))
<1>1. ASSUME NEW u, SegOK(u), NEW a
      PROVE  SegOK(TrimFront(u, a)) /\ SegOK(TrimBack(u, a)) /\ SegOK([u EXCEPT !.fin = FALSE])
  BY <1>1 DEF SegOK, TrimFront, TrimBack
<1>2. ResultOK(TrimOldData(t, s))
  BY <1>1, TrimSynOK, AckDropOK DEF TrimOldData, ResultOK, Result
<1>3. ASSUME NEW t1, NEW s1, TcbOK(t1), SegOK(s1) PROVE ResultOK(TrimEarlyData(t1, s1))
  BY <1>1, <1>3, AckDropOK DEF TrimEarlyData, ResultOK, Result
<1> QED BY <1>2, <1>3 DEF TrimToWindow, Then, ResultOK

(* A duplicate acknowledgement: the third asks for a fast retransmission. *)
LEMMA EmptyDuplicateOK == ASSUME NEW t, NEW s, TcbOK(t), SegOK(s)
                          PROVE  ResultOK(EmptyDuplicate(t, s))
<1> DEFINE t1 == [t EXCEPT !.dupacks = @ + 1]
<1>1. TcbOK(t1)
  BY DEF TcbOK, FinOK, Has, Fields
<1>2. /\ TcbOK([ResetSsthresh(t1) EXCEPT !.rexmt = FALSE, !.timing = FALSE])
      /\ TcbOK([t1 EXCEPT !.cwnd = @ + MSS])
  <2>1. TcbOK(ResetSsthresh(t1))
    BY <1>1, ResetSsthreshOK
  <2> HIDE DEF t1
  <2> QED BY <1>1, <2>1, TcbConstants DEF TcbOK, FinOK, Has, Fields
<1> HIDE DEF t1
<1>3. EmptyDuplicate(t, s).s = s
  BY DEF EmptyDuplicate, Result
<1>4. EmptyDuplicate(t, s).t \in
        {t, t1, [ResetSsthresh(t1) EXCEPT !.rexmt = FALSE, !.timing = FALSE],
         [t1 EXCEPT !.cwnd = @ + MSS]}
  BY DEF EmptyDuplicate, Result, t1
<1> QED BY <1>1, <1>2, <1>3, <1>4 DEF ResultOK

(* An acknowledgement that is not new. *)
LEMMA DuplicateAckOK == ASSUME NEW t, NEW s, TcbOK(t), SegOK(s)
                        PROVE  ResultOK(DuplicateAck(t, s))
<1>1. TcbOK([t EXCEPT !.dupacks = 0])
  BY DEF TcbOK, FinOK, Has, Fields
<1> QED BY <1>1, EmptyDuplicateOK DEF DuplicateAck, ResultOK, Result

(* An acknowledgement that is new. *)
LEMMA NormalAckOK == ASSUME NEW t, NEW s, TcbOK(t), SegOK(s), UnseenAck(t, s.ackno)
                     PROVE  TcbOK(NormalAck(t, s))
<1> DEFINE t0 == DecreaseCwndAfterFastRetransmit(t)
<1>1. TcbOK(t0) /\ UnseenAck(t0, s.ackno)
  BY DecreaseCwndOK DEF UnseenAck, DecreaseCwndAfterFastRetransmit, TcbOK, Fields
<1> HIDE DEF t0
<1>2. TcbOK(NewAckHook(t0, s.ackno))
  BY <1>1, NewAckHookOK DEF SegOK
<1> QED BY Names, <1>2, SetOK DEF NormalAck, t0

(* The states that wait for their FIN to be acknowledged. *)
LEMMA AfterNormalAckOK == ASSUME NEW t, NEW s, TcbOK(t), SegOK(s)
                          PROVE  ResultOK(AfterNormalAck(t, s))
<1>1. TcbOK(Enter(t, "fin-wait-2"))
  BY Names, EnterOK
<1>2. AfterNormalAck(t, s).t \in {t, Enter(t, "fin-wait-2"), EnterTimeWait(t),
                                  CloseConnection(t)}
  BY DEF AfterNormalAck, Result
<1>3. AfterNormalAck(t, s).s = s
  BY DEF AfterNormalAck, Result
<1> QED BY <1>1, <1>2, <1>3, EnterTimeWaitOK, CloseConnectionOK DEF ResultOK

(* Any acknowledgement; the one of our SYN establishes the connection. *)
LEMMA DoAckOK == ASSUME NEW t, NEW s, TcbOK(t), SegOK(s) PROVE ResultOK(DoAck(t, s))
<1> DEFINE t1 == IF t.state = "syn-received"
                   THEN SetSendWindow(Enter(t, "established"), s) ELSE t
<1>1. TcbOK(t1)
  <2>1. TcbOK(Enter(t, "established"))
    BY Names, EnterOK
  <2> QED BY <2>1, SetSendWindowOK
<1>2. CASE t.state = "syn-received" /\ ~UnseenAck(t, s.ackno)
  BY <1>2 DEF DoAck, ResultOK, Result
<1>3. CASE ~(t.state = "syn-received" /\ ~UnseenAck(t, s.ackno))
  <2>1. DoAck(t, s) =
          IF ~EstablishedOrAfter(t1) THEN Result(t1, s, "go")
          ELSE IF OldAck(t1, s.ackno) THEN DuplicateAck(t1, s)
          ELSE IF UnseenAck(t1, s.ackno) THEN AfterNormalAck(NormalAck(t1, s), s)
          ELSE AckDrop(t1, s)
    BY <1>3 DEF DoAck
  <2> HIDE DEF t1
  <2>2. CASE ~EstablishedOrAfter(t1)
    BY <1>1, <2>1, <2>2 DEF ResultOK, Result
  <2>3. CASE EstablishedOrAfter(t1) /\ OldAck(t1, s.ackno)
    BY <1>1, <2>1, <2>3, DuplicateAckOK
  <2>4. CASE EstablishedOrAfter(t1) /\ ~OldAck(t1, s.ackno) /\ UnseenAck(t1, s.ackno)
    BY <1>1, <2>1, <2>4, NormalAckOK, AfterNormalAckOK
  <2>5. CASE EstablishedOrAfter(t1) /\ ~OldAck(t1, s.ackno) /\ ~UnseenAck(t1, s.ackno)
    BY <1>1, <2>1, <2>5, AckDropOK
  <2> QED BY <2>2, <2>3, <2>4, <2>5
<1> QED BY <1>2, <1>3

(* do-ack and the window update after it. *)
LEMMA ProcessAckOK == ASSUME NEW t, NEW s, TcbOK(t), SegOK(s) PROVE ResultOK(ProcessAck(t, s))
<1>1. ASSUME NEW t1, NEW s1, TcbOK(t1), SegOK(s1)
      PROVE  TcbOK(UpdateSendWindow(t1, s1))
  BY Names, <1>1, SetSendWindowOK, SetOK DEF UpdateSendWindow
<1> QED BY <1>1, DoAckOK DEF ProcessAck, Then, ResultOK, Result

(* The peer's FIN. *)
LEMMA DoFinOK == ASSUME NEW t, TcbOK(t) PROVE TcbOK(DoFin(t))
<1> DEFINE hook == t.state \in {"established", "fin-wait-1", "fin-wait-2"}
           t0 == [t EXCEPT !.rcv_next = IF hook THEN @ + 1 ELSE @]
           t1 == Set(t0, "pending-ack")
<1>1. TcbOK(t0)
  <2> HIDE DEF hook
  <2> QED BY DEF TcbOK, FinOK, Has, Fields
<1> HIDE DEF t0
<1>2. TcbOK(t1)
  BY Names, <1>1, SetOK
<1>3. DoFin(t) \in {Enter(t1, "close-wait"), EnterTimeWait(t1), Enter(t1, "closing"),
                    [t1 EXCEPT !.twomsl = TRUE], t1}
  BY DEF DoFin, t0
<1> HIDE DEF t1
<1>4. TcbOK([t1 EXCEPT !.twomsl = TRUE])
  BY <1>2 DEF TcbOK, FinOK, Has, Fields
<1>5. TcbOK(Enter(t1, "close-wait")) /\ TcbOK(Enter(t1, "closing"))
  BY Names, <1>2, EnterOK
<1> QED BY <1>2, <1>3, <1>4, <1>5, EnterTimeWaitOK

(* Reassembly, and the FIN when its turn has come. *)
LEMMA ProcessDataOK == ASSUME NEW t, NEW s, TcbOK(t), SegOK(s)
                       PROVE  ResultOK(ProcessData(t, s))
  BY ReassembleOK, DoFinOK
  DEF ProcessData, Reassembled, MaybeFin, EndProcessing, ResultOK, Result

(* A RST. *)
LEMMA ResetConnectionOK == ASSUME NEW t, NEW s, TcbOK(t), SegOK(s)
                           PROVE  ResultOK(ResetConnection(t, s))
<1>1. TcbOK(Enter(t, "listen"))
  BY Names, EnterOK
<1> QED BY <1>1, CloseConnectionOK DEF ResetConnection, ResultOK, Result

(* A segment in the states after syn-sent. *)
LEMMA OtherStatesOK == ASSUME NEW t, NEW s, TcbOK(t), SegOK(s)
                       PROVE  ResultOK(OtherStates(t, s))
<1> DEFINE Refuse(t1, s1) ==
             IF ~t1.has_fd /\ s1.len # 0 /\ ClosingOrAfter(t1)
               THEN Result(t1, s1, "reset") ELSE Result(t1, s1, "go")
           NeedAck(t1, s1) == Result(t1, s1, IF s1.syn THEN "reset"
                                             ELSE IF ~s1.ack THEN "stop" ELSE "go")
           r1 == TrimToWindow(t, s)
           r2 == Then(r1, Refuse)
           r3 == Then(r2, ResetConnection)
           r4 == Then(r3, NeedAck)
           r5 == Then(r4, ProcessAck)
<1>1. ResultOK(r1)
  BY TrimToWindowOK
<1> HIDE DEF r1
<1>2. ResultOK(r2)
  BY <1>1 DEF Then, ResultOK, Result
<1> HIDE DEF r2
<1>3. ResultOK(r3)
  BY <1>2, ResetConnectionOK DEF Then, ResultOK
<1> HIDE DEF r3
<1>4. ResultOK(r4)
  BY <1>3 DEF Then, ResultOK, Result
<1> HIDE DEF r4
<1>5. ResultOK(r5)
  BY <1>4, ProcessAckOK DEF Then, ResultOK
<1>6. OtherStates(t, s) = Then(r5, ProcessData)
  BY DEF OtherStates, r1, r2, r3, r4, Then
<1> HIDE DEF r5
<1> QED BY <1>5, <1>6, ProcessDataOK DEF Then, ResultOK

(* A SYN's segment after the SYN. *)
LEMMA ContinueProcessingOK == ASSUME NEW t, NEW s, TcbOK(t), SegOK(s)
                              PROVE  ResultOK(ContinueProcessing(t, s))
<1> DEFINE r == TrimToWindow(t, TrimSyn(s))
<1>1. ResultOK(r)
  BY TrimSynOK, TrimToWindowOK
<1>2. ASSUME NEW t1, NEW s1, TcbOK(t1), SegOK(s1)
      PROVE  ResultOK(ProcessData(Set(SetSendWindow(t1, s1), "pending-output"), s1))
  BY Names, <1>2, SetSendWindowOK, SetOK, ProcessDataOK
<1>3. ContinueProcessing(t, s) =
        IF r.act = "go" THEN ProcessData(Set(SetSendWindow(r.t, r.s), "pending-output"), r.s)
        ELSE r
  BY DEF ContinueProcessing, Then
<1> HIDE DEF r
<1> QED BY <1>1, <1>2, <1>3 DEF ResultOK

(* A SYN's number, where the receive side starts. *)
LEMMA ReceiveSynHookOK ==
  ASSUME NEW t, NEW n, TcbOK(t)
  PROVE  /\ TcbOK(ReceiveSynHook(t, n))
         /\ ReceiveSynHook(t, n).snd_una = t.snd_una
         /\ ReceiveSynHook(t, n).snd_max = t.snd_max
  BY DEF TcbOK, FinOK, Has, Fields, ReceiveSynHook

(* A segment in syn-sent. *)
LEMMA SynSentOK == ASSUME NEW t, NEW s, TcbOK(t), SegOK(s) PROVE ResultOK(SynSent(t, s))
<1> DEFINE t0 == ReceiveSynHook(t, s.seq)
           t1 == Set([t0 EXCEPT !.rexmt = FALSE], "pending-ack")
           t2 == IF s.ack THEN Enter(NewAckHook(t1, s.ackno), "established")
                 ELSE Enter(t1, "syn-received")
<1>1. TcbOK(t0) /\ t0.snd_una = t.snd_una /\ t0.snd_max = t.snd_max
  BY ReceiveSynHookOK
<1>2. TcbOK(t1) /\ t1.snd_una = t.snd_una /\ t1.snd_max = t.snd_max
  <2> HIDE DEF t0
  <2> QED BY Names, <1>1 DEF TcbOK, FinOK, Has, Fields, Set
<1>3. SynSent(t, s) = IF s.ack /\ ~UnseenAck(t, s.ackno) THEN Result(t, s, "reset")
                      ELSE IF s.rst \/ ~s.syn THEN Result(t, s, "stop")
                      ELSE ContinueProcessing(t2, s)
  BY DEF SynSent
<1> HIDE DEF t1
<1>4. ASSUME ~(s.ack /\ ~UnseenAck(t, s.ackno))
      PROVE  TcbOK(t2)
  <2>1. CASE s.ack
    <3>1. UnseenAck(t1, s.ackno)
      BY <1>2, <1>4, <2>1 DEF UnseenAck
    <3>2. TcbOK(NewAckHook(t1, s.ackno))
      BY <1>2, <3>1, NewAckHookOK DEF SegOK
    <3> QED BY Names, <2>1, <3>2, EnterOK
  <2>2. CASE ~s.ack
    BY Names, <1>2, <2>2, EnterOK
  <2> QED BY <2>1, <2>2
<1> HIDE DEF t2
<1> QED BY <1>3, <1>4, ContinueProcessingOK DEF ResultOK, Result

(* A TCB is born, with junk in the fields its constructor leaves alone. *)
LEMMA NewTcbOK == ASSUME NEW j \in Junk PROVE TcbOK(NewTcb(j))
  BY Names, TcbConstants, EndpointConstants DEF TcbOK, FinOK, Has, Fields, NewTcb

(* A SYN finds a listener. *)
LEMMA AcceptSynOK == ASSUME NEW j \in Junk, NEW s, SegOK(s)
                     PROVE  ResultOK(AcceptSyn(j, s))
<1>1. TcbOK(ReceiveSynHook(NewTcb(j), s.seq))
  BY NewTcbOK, ReceiveSynHookOK
<1>2. TcbOK(Set(Enter(ReceiveSynHook(NewTcb(j), s.seq), "syn-received"), "pending-output"))
  BY Names, <1>1, EnterOK, SetOK
<1> QED BY <1>2, ContinueProcessingOK DEF AcceptSyn

(* Header prediction. *)
LEMMA FastPathOK == ASSUME NEW t, NEW s, TcbOK(t), SegOK(s) PROVE ResultOK(FastPath(t, s))
<1> DEFINE t1 == IF UnseenAck(t, s.ackno) THEN NewAckHook(t, s.ackno) ELSE t
           t2 == IF ForcesNewSendWindow(t1, s) THEN SetSendWindow(t1, s) ELSE t1
           t3 == IF s.len > 0 THEN EasyReassemble(t2, s).t ELSE t2
<1>1. TcbOK(t1)
  BY NewAckHookOK DEF SegOK
<1> HIDE DEF t1
<1>2. TcbOK(t2)
  BY <1>1, SetSendWindowOK
<1> HIDE DEF t2
<1>3. TcbOK(t3)
  BY <1>2, EasyReassembleOK
<1>4. FastPath(t, s).t = t3 /\ FastPath(t, s).s = s
  BY DEF FastPath, Result, t1, t2
<1> HIDE DEF t3
<1> QED BY <1>3, <1>4 DEF ResultOK

(* Whatever state a segment meets. *)
LEMMA SegmentArrivesOK == ASSUME NEW t, NEW s, TcbOK(t), SegOK(s)
                          PROVE  ResultOK(SegmentArrives(t, s))
<1>1. \A a : ResultOK(Result(t, s, a))
  BY DEF ResultOK, Result
<1>2. ResultOK(Listening(t, s))
  BY <1>1 DEF Listening
<1> QED BY <1>1, <1>2, FastPathOK, SynSentOK, OtherStatesOK DEF SegmentArrives

-----------------------------------------------------------------------------
(***************************************************************************)
(* What happens to the TCB from outside.                                   *)
(***************************************************************************)
(* What input asks for: output, fast retransmission, nothing. *)
LEMMA FinishOK == ASSUME NEW r, ResultOK(r) PROVE EffectOK(Finish(r))
  BY StartOutputOK, FastRetransmitOK, NoOutputOK DEF Finish, ResultOK

(* close gives the FIN the number after the last byte written.             *)
LEMMA UserCloseOK ==
  ASSUME NEW t, TcbOK(t), InUse(t)
  PROVE  TcbOK([MarkCloseAfter(t) EXCEPT !.has_fd = FALSE])
<1> DEFINE t1 == CASE t.state = "close-wait" -> Enter(t, "last-ack")
                   [] t.state \in {"established", "syn-received"} -> Enter(t, "fin-wait-1")
                   [] OTHER -> t
           fin == t.snd_next + SendableLength(t)
           t2 == [Set(t1, "have-fin-seqno") EXCEPT !.fin_seqno = fin]
           t3 == [t2 EXCEPT !.has_fd = FALSE]
<1>1. TcbOK(t1) /\ \A f \in Fields \ {"state"} : t1[f] = t[f]
  BY Names, EnterOK DEF TcbOK, Fields, Enter
<1>2. ~Has(t, "have-fin-seqno") /\ fin = t.snd_una + t.snd_len /\ fin \in Int
  BY DEF TcbOK, FinOK, InUse, SendableLength, UnsentOffset, Greatest
<1>3. MarkCloseAfter(t) = t2
  BY <1>2 DEF MarkCloseAfter
<1> HIDE DEF t1, fin
<1>4. /\ Fields \subseteq DOMAIN t3
      /\ t3.has_fd = FALSE /\ t3.fin_seqno = fin
      /\ t3.flags = t.flags \cup {"have-fin-seqno"} /\ t3.state = t1.state
      /\ \A f \in Fields \ {"has_fd", "fin_seqno", "flags", "state"} : t3[f] = t[f]
  BY <1>1 DEF TcbOK, Fields, Set
<1> HIDE DEF t2, t3
<1>5. FinOK(t3)
  BY <1>2, <1>4 DEF TcbOK, FinOK, Fields, InUse
<1>6. TcbOK(t3)
  BY Names, <1>1, <1>4, <1>5 DEF TcbOK, Fields
<1> QED BY <1>3, <1>6 DEF t3, t2

(* The retransmission timer expires. *)
LEMMA RetransmitAlarmOK == ASSUME NEW t, TcbOK(t) PROVE EffectOK(RetransmitAlarm(t))
<1> DEFINE t0 == ResetSsthresh(t)
           t1 == [t0 EXCEPT !.rexmt = FALSE, !.dupacks = 0, !.timing = FALSE]
           t2 == [t1 EXCEPT !.shift = @ + 1]
<1>1. TcbOK(t0)
  BY ResetSsthreshOK
<1> HIDE DEF t0
<1>2. TcbOK(t1)
  BY <1>1 DEF TcbOK, FinOK, Has, Fields
<1>3. RetransmitAlarm(t) = IF t.shift >= MaxShift THEN NoOutput(t1, <<>>)
                           ELSE StartOutput(StartRetransmission(t2))
  BY DEF RetransmitAlarm, t0
<1> HIDE DEF t1
<1>4. TcbOK(t2)
  BY <1>2 DEF TcbOK, FinOK, Has, Fields
<1> HIDE DEF t2
<1> QED BY <1>2, <1>3, <1>4, NoOutputOK, StartRetransmissionOK, StartOutputOK

-----------------------------------------------------------------------------
(***************************************************************************)
(* The invariant holds at first and every action preserves it.             *)
(***************************************************************************)
(* The peer's segments have their types. *)
LEMMA SegmentsOK == ASSUME NEW s \in Segments PROVE SegOK(s)
  BY EndpointConstants DEF SegOK

(* The invariant holds at the start. *)
LEMMA InitOK == Init => IInv
  BY NewTcbOK, IdleOK DEF Init, IInv

(* Every step of the endpoint preserves the invariant. *)
LEMMA NextOK == IInv /\ [Next]_vars => IInv'
<1> SUFFICES ASSUME IInv, [Next]_vars PROVE IInv'
  OBVIOUS
<1> USE DEF IInv
<1>0. ASSUME NEW r, EffectOK(r), Effect(r) PROVE IInv'
  BY <1>0 DEF EffectOK, Effect
<1>1. CASE Turn
  <2>1. EffectOK(SendTurn(tcb, out))
    BY SendTurnOK
  <2> QED BY <1>0, <1>1, <2>1 DEF Turn
<1>2. CASE NoMemory
  <2>1. EffectOK(AbandonOutput(tcb, out))
    BY ReturnOK DEF AbandonOutput
  <2> QED BY <1>0, <1>2, <2>1 DEF NoMemory
<1>3. CASE Open
  <2>1. EffectOK(Connect(tcb))
    BY Names, EnterOK, StartOutputOK DEF Connect
  <2> QED BY <1>0, <1>3, <2>1 DEF Open
<1>4. CASE Accept
  <2>1. PICK s \in Segments, j \in Junk : Effect(DeliverSyn(j, s))
    BY <1>4 DEF Accept
  <2>2. EffectOK(DeliverSyn(j, s))
    BY SegmentsOK, AcceptSynOK, FinishOK DEF DeliverSyn
  <2> QED BY <1>0, <2>1, <2>2
<1>5. CASE Arrive
  <2>1. PICK s \in Segments : Effect(Deliver(tcb, s))
    BY <1>5 DEF Arrive
  <2>2. EffectOK(Deliver(tcb, s))
    BY SegmentsOK, SegmentArrivesOK, FinishOK DEF Deliver
  <2> QED BY <1>0, <2>1, <2>2
<1>6. CASE Write
  <2>1. PICK n \in WriteSizes : Effect(UserWrite(tcb, n))
    BY <1>6 DEF Write
  <2>2. TcbOK([tcb EXCEPT !.snd_len = @ + n])
    BY <1>6, EndpointConstants DEF Write, InUse, TcbOK, FinOK, Has, Fields
  <2>3. EffectOK(UserWrite(tcb, n))
    BY <2>2, StartOutputOK DEF UserWrite
  <2> QED BY <1>0, <2>1, <2>3
<1>7. CASE Read
  <2>1. PICK n \in ReadSizes : Effect(UserRead(tcb, n))
    BY <1>7 DEF Read
  <2>2. TcbOK([tcb EXCEPT !.taken = @ + BytesRead(tcb, n),
                          !.rcv_len = @ - BytesRead(tcb, n)])
    BY DEF TcbOK, FinOK, Has, Fields
  <2>3. EffectOK(UserRead(tcb, n))
    BY <2>2, StartOutputOK DEF UserRead
  <2> QED BY <1>0, <2>1, <2>3
<1>8. CASE Close
  <2>1. TcbOK([MarkCloseAfter(tcb) EXCEPT !.has_fd = FALSE])
    BY <1>8, UserCloseOK DEF Close
  <2>2. EffectOK(UserClose(tcb))
    BY <2>1, StartOutputOK DEF UserClose
  <2> QED BY <1>0, <1>8, <2>2 DEF Close
<1>9. CASE Alarm
  <2>1. EffectOK(RetransmitAlarm(tcb))
    BY RetransmitAlarmOK
  <2> QED BY <1>0, <1>9, <2>1 DEF Alarm
<1>10. CASE TwoMsl
  <2>1. EffectOK(TwoMslAlarm(tcb))
    BY CloseConnectionOK, NoOutputOK DEF TwoMslAlarm
  <2> QED BY <1>0, <1>10, <2>1 DEF TwoMsl
<1>11. CASE FastTimeout \/ QuickTimeout
  <2>1. EffectOK(DelayAckTimeout(tcb))
    BY Names, SetOK, StartOutputOK DEF DelayAckTimeout
  <2> QED BY <1>0, <1>11, <2>1 DEF FastTimeout, QuickTimeout
<1>12. CASE UNCHANGED vars
  BY <1>12 DEF vars
<1> QED BY <1>1, <1>2, <1>3, <1>4, <1>5, <1>6, <1>7, <1>8, <1>9, <1>10, <1>11, <1>12
        DEF Next

(* The invariant holds in every state. *)
LEMMA Invariance == Spec => []IInv
  BY InitOK, NextOK, PTL DEF Spec

(***************************************************************************)
(* The state and the send side keep their types, whatever the peer sends;  *)
(* in particular a call of Output never has a negative amount left.        *)
(***************************************************************************)
THEOREM TypeCorrect == Spec => []TypeOK
<1>1. IInv => TypeOK
  BY DEF IInv, TcbOK, OutOK, TypeOK
<1> QED BY <1>1, Invariance, PTL

(***************************************************************************)
(* snd_una =< snd_next =< snd_max at all times, whatever the peer sends.   *)
(***************************************************************************)
THEOREM SendOrderHolds == Spec => []SendOrder
<1>1. IInv => SendOrder
  BY DEF IInv, TcbOK, OutOK, SendOrder
<1> QED BY <1>1, Invariance, PTL

(***************************************************************************)
(* A TCB in time-wait has its 2MSL timer running, whatever the peer sends. *)
(***************************************************************************)
THEOREM TimeWaitEndsHolds == Spec => []TimeWaitEnds
<1>1. IInv => TimeWaitEnds
  BY DEF IInv, TcbOK, TimeWaitEnds
<1> QED BY <1>1, Invariance, PTL

(***************************************************************************)
(* Once close has given the FIN its number nothing is ever sent after it,  *)
(* however often the peer makes this end go back and send again.           *)
(***************************************************************************)
THEOREM FinIsLastHolds == Spec => []FinIsLast
<1>1. IInv => FinIsLast
  BY DEF IInv, TcbOK, FinOK, FinIsLast
<1> QED BY <1>1, Invariance, PTL

-----------------------------------------------------------------------------
(***************************************************************************)
(* Turns of the loop.  A call of Output is in progress only because        *)
(* should-send was true when the loop tested it; nothing else happens to   *)
(* the TCB until the next turn.                                            *)
(***************************************************************************)
LoopOK(t, o) == o.on => ShouldSend(t, o)

(* The loop goes on only when should-send is true.                         *)
LEMMA ContinueLoops ==
  ASSUME NEW t, NEW o, NEW segs
  PROVE  LoopOK(Continue(t, o, segs).tcb, Continue(t, o, segs).out)
  BY DEF LoopOK, Continue, Return, Idle

(* A call starts with the same test.                                       *)
LEMMA StartLoops ==
  ASSUME NEW t
  PROVE  /\ LoopOK(StartOutput(t).tcb, StartOutput(t).out)
         /\ LoopOK(FastRetransmit(t).tcb, FastRetransmit(t).out)
  BY ContinueLoops DEF StartOutput, FastRetransmit, Start

(* A step that does not call Output leaves none in progress.               *)
LEMMA NoOutputLoops ==
  ASSUME NEW t, NEW segs
  PROVE  LoopOK(NoOutput(t, segs).tcb, NoOutput(t, segs).out)
  BY DEF LoopOK, NoOutput, Idle

(* What input asks for.                                                    *)
LEMMA FinishLoops ==
  ASSUME NEW r
  PROVE  LoopOK(Finish(r).tcb, Finish(r).out)
  BY StartLoops, NoOutputLoops DEF Finish

(* Every step leaves the loop where should-send is true.                   *)
LEMMA NextLoops == LoopOK(tcb, out) /\ [Next]_vars => LoopOK(tcb, out)'
<1> SUFFICES ASSUME LoopOK(tcb, out), [Next]_vars PROVE LoopOK(tcb', out')
  OBVIOUS
<1>1. ASSUME NEW r, LoopOK(r.tcb, r.out), Effect(r) PROVE LoopOK(tcb', out')
  BY <1>1 DEF Effect
<1>2. CASE Turn
  <2>1. LoopOK(SendTurn(tcb, out).tcb, SendTurn(tcb, out).out)
    BY ContinueLoops DEF SendTurn
  <2> QED BY <1>1, <1>2, <2>1 DEF Turn
<1>3. CASE NoMemory
  <2>1. LoopOK(AbandonOutput(tcb, out).tcb, AbandonOutput(tcb, out).out)
    BY DEF LoopOK, AbandonOutput, Return, Idle
  <2> QED BY <1>1, <1>3, <2>1 DEF NoMemory
<1>4. CASE Open
  <2>1. LoopOK(Connect(tcb).tcb, Connect(tcb).out)
    BY StartLoops DEF Connect
  <2> QED BY <1>1, <1>4, <2>1 DEF Open
<1>5. CASE Accept
  <2>1. PICK s \in Segments, j \in Junk : Effect(DeliverSyn(j, s))
    BY <1>5 DEF Accept
  <2> QED BY <1>1, <2>1, FinishLoops DEF DeliverSyn
<1>6. CASE Arrive
  <2>1. PICK s \in Segments : Effect(Deliver(tcb, s))
    BY <1>6 DEF Arrive
  <2> QED BY <1>1, <2>1, FinishLoops DEF Deliver
<1>7. CASE Write
  <2>1. PICK n \in WriteSizes : Effect(UserWrite(tcb, n))
    BY <1>7 DEF Write
  <2> QED BY <1>1, <2>1, StartLoops DEF UserWrite
<1>8. CASE Read
  <2>1. PICK n \in ReadSizes : Effect(UserRead(tcb, n))
    BY <1>8 DEF Read
  <2> QED BY <1>1, <2>1, StartLoops DEF UserRead
<1>9. CASE Close
  <2>1. LoopOK(UserClose(tcb).tcb, UserClose(tcb).out)
    BY StartLoops DEF UserClose
  <2> QED BY <1>1, <1>9, <2>1 DEF Close
<1>10. CASE Alarm
  <2>1. LoopOK(RetransmitAlarm(tcb).tcb, RetransmitAlarm(tcb).out)
    BY StartLoops, NoOutputLoops DEF RetransmitAlarm
  <2> QED BY <1>1, <1>10, <2>1 DEF Alarm
<1>11. CASE TwoMsl
  <2>1. LoopOK(TwoMslAlarm(tcb).tcb, TwoMslAlarm(tcb).out)
    BY NoOutputLoops DEF TwoMslAlarm
  <2> QED BY <1>1, <1>11, <2>1 DEF TwoMsl
<1>12. CASE FastTimeout \/ QuickTimeout
  <2>1. LoopOK(DelayAckTimeout(tcb).tcb, DelayAckTimeout(tcb).out)
    BY StartLoops DEF DelayAckTimeout
  <2> QED BY <1>1, <1>12, <2>1 DEF FastTimeout, QuickTimeout
<1>13. CASE UNCHANGED vars
  BY <1>13 DEF vars
<1> QED BY <1>2, <1>3, <1>4, <1>5, <1>6, <1>7, <1>8, <1>9, <1>10, <1>11, <1>12, <1>13
        DEF Next

(* What a turn does to the numbers and to the requests.                    *)
LEMMA TurnSends ==
  ASSUME NEW t, NEW o, TcbOK(t), OutOK(t, o)
  PROVE  LET s == BuildSegment(t, o)
             u == SendTurn(t, o).tcb
         IN  /\ SeqLen(s) \in Nat
             /\ u.snd_next \in Int /\ u.snd_next >= t.snd_next + SeqLen(s)
             /\ u.flags \cap Requests = {}
<1> DEFINE s  == BuildSegment(t, o)
           t1 == SendSegment(t, s)
           o1 == [o EXCEPT !.avail = @ - SeqLen(s), !.left = @ - s.len]
           u  == SendTurn(t, o).tcb
<1>1. SeqLen(s) \in Nat
  <2>1. s.len \in 0..o.left
    BY DataLengthOK DEF BuildSegment
  <2> QED BY <2>1 DEF SeqLen, SynFin, OutOK
<1>2. /\ {"snd_next", "flags"} \subseteq DOMAIN t1
      /\ t1.snd_next = t.snd_next + SeqLen(s)
      /\ t1.flags \cap Requests = {}
  <2> HIDE DEF s
  <2> QED BY DEF SendSegment, SendHook, Set, TcbOK, Fields, ClearedBySending, Requests
<1>3. u = t1 \/ (o1.fast /\ u = AfterFastRetransmit(t1, o1.old_next))
  BY DEF SendTurn, Continue, Return
<1>4. o1.old_next = o.old_next /\ o.old_next \in Int
  BY DEF OutOK
<1> HIDE DEF s, t1, o1, u
<1>5. u.snd_next \in Int /\ u.snd_next >= t.snd_next + SeqLen(s) /\ u.flags \cap Requests = {}
  <2>1. CASE u = t1
    BY <1>1, <1>2, <2>1 DEF TcbOK
  <2>2. CASE u = AfterFastRetransmit(t1, o1.old_next)
    BY <1>1, <1>2, <1>4, <2>2 DEF TcbOK, AfterFastRetransmit, Greatest
  <2> QED BY <1>3, <2>1, <2>2
<1> QED BY <1>1, <1>5 DEF s, u

(***************************************************************************)
(* Each turn of Output's loop sends a new sequence number or settles the   *)
(* request it was made for, for every window, send buffer and peer, unless *)
(* the FIN is held back by a window that is exactly full.                  *)
(***************************************************************************)
THEOREM EveryTurnCountsHolds == Spec => []EveryTurnCounts
<1>1. Init => LoopOK(tcb, out)
  BY DEF Init, LoopOK, Idle
<1>2. IInv /\ LoopOK(tcb, out) => EveryTurnCounts
  <2> SUFFICES ASSUME TcbOK(tcb), OutOK(tcb, out), ShouldSend(tcb, out)
               PROVE  LET next == SendTurn(tcb, out).tcb IN
                        \/ next.snd_next > tcb.snd_next
                        \/ tcb.flags \cap Requests # {} /\ next.flags \cap Requests = {}
                        \/ FinHeldBack
    BY DEF IInv, LoopOK, EveryTurnCounts
  <2> DEFINE s    == BuildSegment(tcb, out)
             next == SendTurn(tcb, out).tcb
             n    == UintLeast(out.left, out.avail)
  <2>1. /\ SeqLen(s) \in Nat
        /\ next.snd_next \in Int /\ next.snd_next >= tcb.snd_next + SeqLen(s)
        /\ next.flags \cap Requests = {}
    BY TurnSends
  <2>2. SeqLen(s) > 0 => next.snd_next > tcb.snd_next
    <3> HIDE DEF next, s
    <3> QED BY <2>1 DEF TcbOK
  <2>3. CASE WillSendSyn(tcb)
    <3>1. SeqLen(s) > 0
      <4>1. s.len \in Nat /\ s.syn = TRUE
        BY <2>3, DataLengthOK DEF BuildSegment, OutOK
      <4> QED BY <4>1 DEF SeqLen, SynFin
    <3> QED BY <2>2, <3>1
  <2>4. CASE ~WillSendSyn(tcb) /\ n > 0
    <3>1. s.len > 0 /\ s.len \in Nat
      BY <2>4, TcbConstants DEF BuildSegment, DataLength, UintLeast, Least, OutOK
    <3>2. SeqLen(s) > 0
      BY <3>1 DEF SeqLen, SynFin
    <3> QED BY <2>2, <3>2
  <2>5. CASE Has(tcb, "need-window-update") \/ AckPending(tcb)
    BY <2>1, <2>5 DEF Has, AckPending, Requests
  <2>6. CASE /\ ~WillSendSyn(tcb) /\ ~(n > 0)
             /\ WillSendFin(tcb, n) /\ ShouldSendFinNow(tcb)
    <3>1. n = 0
      BY <2>6 DEF UintLeast, Least, OutOK
    <3>2. CASE out.avail = 0
      BY <2>6, <3>1, <3>2 DEF FinHeldBack
    <3>3. CASE out.avail # 0
      <4>1. DataLength(tcb, out) = 0
        BY <2>6, <3>1, TcbConstants DEF DataLength, UintLeast, Least, OutOK
      <4>2. UintLess(0, out.avail)
        BY <3>3 DEF UintLess, OutOK
      <4>3. s.len = 0 /\ s.syn = FALSE /\ s.fin = TRUE
        <5>1. MaybeSetFin(tcb, 0, out.avail)
          BY <2>6, <3>1, <4>2 DEF MaybeSetFin
        <5>2. DataLength(tcb, out) + (IF WillSendSyn(tcb) THEN 1 ELSE 0) = 0
          BY <2>6, <4>1
        <5> QED BY <2>6, <4>1, <5>1, <5>2 DEF BuildSegment
      <4>4. SeqLen(s) > 0
        BY <4>3 DEF SeqLen, SynFin
      <4> QED BY <2>2, <4>4
    <3> QED BY <3>2, <3>3
  <2> QED BY <2>3, <2>4, <2>5, <2>6 DEF ShouldSend
<1>3. Spec => []LoopOK(tcb, out)
  BY <1>1, NextLoops, PTL DEF Spec
<1> QED BY <1>2, <1>3, Invariance, PTL
==============================================================================
