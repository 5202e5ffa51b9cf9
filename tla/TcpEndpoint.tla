----------------------------- MODULE TcpEndpoint -----------------------------
(***************************************************************************)
(* One TCB and everything that may happen to it.  Nothing is assumed of    *)
(* the other host: a peer that is old, restarted or wrong may send any of  *)
(* Segments at any time, so whatever holds here does not rest on the other *)
(* end running the same code.  TcpConnection has two of these ends and the *)
(* network between them.                                                   *)
(***************************************************************************)
EXTENDS TcpInterface

CONSTANTS
  Segments,     \* what may arrive
  Junk,         \* contents kmalloc may leave in a new TCB
  WriteSizes,   \* sizes of a write
  ReadSizes,    \* sizes of a read
  MaxWrite,     \* bound: bytes the user writes in all
  MaxDupAcks,   \* bound: duplicate acknowledgements that are counted
  MaxQueue      \* bound: segments waiting for reassembly

ASSUME EndpointConstants ==
  /\ \A s \in Segments : /\ DOMAIN s = {"seq", "len", "dlen", "off", "syn", "fin",
                                        "psh", "rst", "ack", "ackno", "wnd", "freed"}
                         /\ s.ackno \in Int /\ s.wnd \in 0..MaxWindow
  /\ \A j \in Junk : j.snd_wnd \in 0..(WinMod - 1)
  /\ WriteSizes \subseteq Nat

VARIABLES tcb, out
vars == <<tcb, out>>

Init ==
  /\ \E j \in Junk : tcb = NewTcb(j)
  /\ out = Idle

Effect(r) == tcb' = r.tcb /\ out' = r.out

(* A TCB that has been made and neither opened nor closed yet.             *)
Fresh == tcb.state = "closed" /\ tcb.reg

Turn     == out.on /\ Effect(SendTurn(tcb, out))
NoMemory == out.on /\ Effect(AbandonOutput(tcb, out))

Open   == ~out.on /\ Fresh /\ Effect(Connect(tcb))
Accept == /\ ~out.on /\ Fresh
          /\ \E s \in Segments, j \in Junk :
               s.syn /\ ~s.rst /\ ~s.ack /\ Effect(DeliverSyn(j, s))

Arrive ==
  /\ ~out.on /\ ~Fresh /\ tcb.reg
  /\ tcb.dupacks =< MaxDupAcks /\ Len(tcb.queue) =< MaxQueue
  /\ \E s \in Segments : Effect(Deliver(tcb, s))

Write ==
  /\ ~out.on /\ InUse(tcb)
  /\ \E n \in WriteSizes : /\ tcb.removed + tcb.snd_len + n =< MaxWrite
                           /\ Effect(UserWrite(tcb, n))
Read ==
  /\ ~out.on /\ InUse(tcb) /\ tcb.rcv_len > 0
  /\ \E n \in ReadSizes : Effect(UserRead(tcb, n))
Close == ~out.on /\ InUse(tcb) /\ Effect(UserClose(tcb))

Alarm        == ~out.on /\ tcb.rexmt  /\ Effect(RetransmitAlarm(tcb))
TwoMsl       == ~out.on /\ tcb.twomsl /\ Effect(TwoMslAlarm(tcb))
FastTimeout  == ~out.on /\ Has(tcb, "delay-ack") /\ Effect(DelayAckTimeout(tcb))
QuickTimeout == ~out.on /\ Has(tcb, "quick-ack") /\ Effect(DelayAckTimeout(tcb))

Next ==
  \/ Turn \/ NoMemory \/ Open \/ Accept \/ Arrive \/ Write \/ Read \/ Close
  \/ Alarm \/ TwoMsl \/ FastTimeout \/ QuickTimeout

Spec == Init /\ [][Next]_vars

(***************************************************************************)
(* Types of the state and of what decides how much Output sends.           *)
(***************************************************************************)
TypeOK ==
  /\ tcb.state \in States /\ tcb.flags \subseteq Flags
  /\ {tcb.snd_una, tcb.snd_next, tcb.snd_max, tcb.snd_len} \subseteq Int
  /\ tcb.snd_wnd \in 0..(WinMod - 1)
  /\ tcb.cwnd \in Nat \ {0} /\ tcb.ssthresh \in Nat \ {0}
  /\ out.left \in Nat /\ out.avail \in Int

(***************************************************************************)
(* snd_una, snd_next and snd_max stay in order whatever the peer           *)
(* acknowledges, and so will the snd_next that a fast retransmission puts  *)
(* back when its Output returns.                                           *)
(***************************************************************************)
SendOrder ==
  /\ tcb.snd_una =< tcb.snd_next /\ tcb.snd_next =< tcb.snd_max
  /\ out.fast => tcb.snd_una =< out.old_next /\ out.old_next =< tcb.snd_max

(***************************************************************************)
(* A TCB in time-wait goes away by itself: its 2MSL timer is running.      *)
(***************************************************************************)
TimeWaitEnds == tcb.state = "time-wait" => tcb.twomsl

(***************************************************************************)
(* Nothing is sent after the FIN.                                          *)
(***************************************************************************)
FinIsLast == Has(tcb, "have-fin-seqno") => tcb.snd_max =< tcb.fin_seqno + 1

(***************************************************************************)
(* Output does not turn in place: each turn of real-send-loop sends a new  *)
(* sequence number or settles the request that made should-send true, so   *)
(* the loop ends with the send buffer.  The one exception is FinHeldBack,  *)
(* a FIN that should-send wants sent (output.pc:80) and maybe-set-fin      *)
(* keeps back (output.pc:280) because the window is exactly full.          *)
(***************************************************************************)
Requests == {"need-window-update", "pending-ack"}

FinHeldBack ==
  out.avail = 0 /\ WillSendFin(tcb, 0) /\ ShouldSendFinNow(tcb)

EveryTurnCounts ==
  out.on => LET next == SendTurn(tcb, out).tcb IN
              \/ next.snd_next > tcb.snd_next
              \/ tcb.flags \cap Requests # {} /\ next.flags \cap Requests = {}
              \/ FinHeldBack
==============================================================================
