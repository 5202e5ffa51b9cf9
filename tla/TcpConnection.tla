---------------------------- MODULE TcpConnection ----------------------------
(***************************************************************************)
(* One connection between two hosts that both run this TCP: an active end  *)
(* that connects and a passive end that listens, their users, their timers *)
(* and the network between them.                                           *)
(*                                                                         *)
(* A step is a call, a timer, the delivery of a segment or one turn of an  *)
(* output loop.  While an end is in its output loop nothing else happens:  *)
(* the other end's steps commute with its turns, which only append to the  *)
(* network.  net[e] holds the segments on their way to end e.              *)
(*                                                                         *)
(* The listener is a TCB of its own in the source; here tcb["passive"] is  *)
(* the listener until a SYN arrives and the connection's TCB from then on. *)
(***************************************************************************)
EXTENDS TcpInterface, FiniteSets

CONSTANTS
  Patient,      \* the retransmit timeout is longer than all other delays
  Eager,        \* ends whose user may close before the peer's FIN has come
  Junk,         \* contents kmalloc may leave in a new TCB
  WriteSizes,   \* sizes of a write, for each end
  ReadSizes,    \* sizes of a read
  MaxWrite,     \* bound: bytes an end writes in all, for each end
  NetCap,       \* bound: segments in flight to one end
  MaxLoss,      \* bound: segments the network loses
  MaxDup,       \* bound: segments the network duplicates
  MaxReorder,   \* bound: times a segment overtakes another
  MaxAlarms,    \* bound: retransmit alarms, for each end
  MaxNoMemory   \* bound: allocations of a segment that fail

VARIABLES tcb, out, net, faults
vars == <<tcb, out, net, faults>>

Ends    == {"active", "passive"}
Peer(e) == IF e = "active" THEN "passive" ELSE "active"

NoFaults == [loss |-> 0, dup |-> 0, reorder |-> 0, memory |-> 0,
             active |-> 0, passive |-> 0]

Init ==
  /\ \E a, p \in Junk :
       tcb = [active |-> NewTcb(a), passive |-> Enter(NewTcb(p), "listen")]
  /\ out = [e \in Ends |-> Idle]
  /\ net = [e \in Ends |-> <<>>]
  /\ faults = NoFaults

(***************************************************************************)
(* The effect r = [tcb, out, segs] of a step of end e; n is what is left   *)
(* of the network once the step has taken its segment.  A network that is  *)
(* full drops what is sent.                                                *)
(***************************************************************************)
Quiet == \A e \in Ends : ~out[e].on

Send(q, segs) == SubSeq(q \o segs, 1, Least(NetCap, Len(q) + Len(segs)))

Effect(e, r, n) ==
  /\ tcb' = [tcb EXCEPT ![e] = r.tcb]
  /\ out' = [out EXCEPT ![e] = r.out]
  /\ net' = [n EXCEPT ![Peer(e)] = Send(@, r.segs)]

Count(k, max) == faults[k] < max /\ faults' = [faults EXCEPT ![k] = @ + 1]

Turn(e) ==
  /\ out[e].on
  /\ Effect(e, SendTurn(tcb[e], out[e]), net)
  /\ UNCHANGED faults

NoMemory(e) ==
  /\ out[e].on
  /\ Count("memory", MaxNoMemory)
  /\ Effect(e, AbandonOutput(tcb[e], out[e]), net)

(***************************************************************************)
(* Users.                                                                  *)
(***************************************************************************)
Open ==
  /\ Quiet
  /\ tcb["active"].state = "closed" /\ tcb["active"].snd_max = 0
  /\ Effect("active", Connect(tcb["active"]), net)
  /\ UNCHANGED faults

Write(e) ==
  /\ Quiet /\ InUse(tcb[e])
  /\ \E n \in WriteSizes[e] :
       /\ tcb[e].removed + tcb[e].snd_len + n =< MaxWrite[e]
       /\ Effect(e, UserWrite(tcb[e], n), net)
  /\ UNCHANGED faults

Read(e) ==
  /\ Quiet /\ InUse(tcb[e])
  /\ tcb[e].rcv_len > 0
  /\ \E n \in ReadSizes : Effect(e, UserRead(tcb[e], n), net)
  /\ UNCHANGED faults

Close(e) ==
  /\ Quiet /\ InUse(tcb[e])
  /\ e \in Eager \/ AlmostDead(tcb[e])
  /\ Effect(e, UserClose(tcb[e]), net)
  /\ UNCHANGED faults

(***************************************************************************)
(* The network delivers.  tcb_demultiplex finds a registered TCB.  A       *)
(* segment for an active end that is not registered is refused silently;   *)
(* one for the passive end then reaches the listener (left out: a second   *)
(* SYN making a second connection).                                        *)
(***************************************************************************)
Listener(t) == t.state = "listen" /\ t.snd_max = 0

Receive(e) ==
  /\ Quiet /\ net[e] # <<>>
  /\ LET t == tcb[e]
         s == Head(net[e])
         n == [net EXCEPT ![e] = Tail(@)]
     IN  IF e = "passive" /\ t.reg /\ Listener(t) /\ s.syn /\ ~s.rst /\ ~s.ack
           THEN \E j \in Junk : Effect(e, DeliverSyn(j, s), n)
         ELSE IF t.reg THEN Effect(e, Deliver(t, s), n)
         ELSE Effect(e, NoOutput(t, IF e = "passive" /\ s.ack THEN ResetFor(s)
                                    ELSE <<>>), n)
  /\ UNCHANGED faults

(***************************************************************************)
(* The network misbehaves.                                                 *)
(***************************************************************************)
Lose(e) ==
  /\ Quiet /\ net[e] # <<>>
  /\ Count("loss", MaxLoss)
  /\ net' = [net EXCEPT ![e] = Tail(@)]
  /\ UNCHANGED <<tcb, out>>

Duplicated(e) ==
  /\ Quiet /\ net[e] # <<>> /\ Len(net[e]) < NetCap
  /\ Count("dup", MaxDup)
  /\ net' = [net EXCEPT ![e] = Append(@, Head(@))]
  /\ UNCHANGED <<tcb, out>>

Overtake(e) ==
  /\ Quiet /\ Len(net[e]) > 1
  /\ Count("reorder", MaxReorder)
  /\ net' = [net EXCEPT ![e] = Tail(@) \o <<Head(@)>>]
  /\ UNCHANGED <<tcb, out>>

(***************************************************************************)
(* Timers.                                                                 *)
(***************************************************************************)
DelaysAck(t) == Has(t, "delay-ack") \/ Has(t, "quick-ack")

AlarmDue(e) ==
  /\ Quiet /\ tcb[e].rexmt
  /\ Patient => \A d \in Ends : net[d] = <<>> /\ ~DelaysAck(tcb[d])

Alarm(e) ==
  /\ AlarmDue(e)
  /\ Count(e, MaxAlarms)
  /\ Effect(e, RetransmitAlarm(tcb[e]), net)

TwoMsl(e) ==
  /\ Quiet /\ tcb[e].twomsl
  /\ Effect(e, TwoMslAlarm(tcb[e]), net)
  /\ UNCHANGED faults

FastTimeout(e) ==
  /\ Quiet /\ Has(tcb[e], "delay-ack")
  /\ Effect(e, DelayAckTimeout(tcb[e]), net)
  /\ UNCHANGED faults

QuickTimeout(e) ==
  /\ Quiet /\ Has(tcb[e], "quick-ack")
  /\ Effect(e, DelayAckTimeout(tcb[e]), net)
  /\ UNCHANGED faults

Next ==
  \/ Open
  \/ \E e \in Ends :
       \/ Turn(e) \/ NoMemory(e) \/ Write(e) \/ Read(e) \/ Close(e)
       \/ Receive(e) \/ Lose(e) \/ Duplicated(e) \/ Overtake(e)
       \/ Alarm(e) \/ TwoMsl(e) \/ FastTimeout(e) \/ QuickTimeout(e)

Spec == Init /\ [][Next]_vars

(***************************************************************************)
(* Fairness.  Segments in flight arrive, output loops go on, timers fire   *)
(* and users read; nobody has to open, write or close.  FairSpec states    *)
(* weak fairness of Progress with ENABLED <<Progress>>_vars written out as *)
(* the state predicate CanProgress.                                        *)
(***************************************************************************)
Progress ==
  \E e \in Ends : \/ Turn(e) \/ Receive(e) \/ Read(e) \/ Alarm(e) \/ TwoMsl(e)
                  \/ FastTimeout(e) \/ QuickTimeout(e)

CanTurn(e) ==
  /\ out[e].on
  /\ LET r == SendTurn(tcb[e], out[e])
     IN  r.tcb # tcb[e] \/ r.out # out[e] \/ Len(net[Peer(e)]) < NetCap

CanProgress ==
  \E e \in Ends :
    \/ CanTurn(e)
    \/ Quiet /\ \/ net[e] # <<>>
                \/ InUse(tcb[e]) /\ tcb[e].rcv_len > 0
                \/ AlarmDue(e) /\ faults[e] < MaxAlarms
                \/ tcb[e].twomsl
                \/ DelaysAck(tcb[e])

FairSpec == Spec /\ ([]<>~CanProgress \/ []<><<Progress>>_vars)

(***************************************************************************)
(* What the properties speak of.                                           *)
(***************************************************************************)
Written(e)  == tcb[e].removed + tcb[e].snd_len
Received(e) == Len(tcb[e].stream)
Synced(e)   == HaveReceivedSyn(tcb[e])

(* The FIN of the other end has been taken in order by this one.           *)
FinReceived(e) == tcb[e].state \in {"close-wait", "closing", "last-ack", "time-wait"}

(* The other end has acknowledged the FIN of this one.                     *)
FinAcked(e) == tcb[e].state \in {"fin-wait-2", "time-wait"}

(***************************************************************************)
(* What the user of an end has been given is a prefix of what the user of  *)
(* the other end wrote: no byte lost, doubled, reordered or made up.       *)
(***************************************************************************)
StreamIntegrity ==
  \A e \in Ends :
    /\ Received(e) =< Written(Peer(e))
    /\ \A i \in 1..Received(e) : tcb[e].stream[i] = i

(***************************************************************************)
(* rcv_next counts the SYN, the bytes handed over and the FIN, nothing     *)
(* else: every sequence number acknowledged has been consumed.             *)
(***************************************************************************)
SequenceConsumed ==
  \A e \in Ends : Synced(e) =>
    tcb[e].rcv_next = 1 + Received(e) + IF FinReceived(e) THEN 1 ELSE 0

(***************************************************************************)
(* A byte leaves the send buffer only when the other end has it for good.  *)
(***************************************************************************)
AckedIsReceived == \A e \in Ends : tcb[e].removed =< Received(Peer(e))

(***************************************************************************)
(* The window that has been advertised is room the socket really has.      *)
(***************************************************************************)
PromisedRoom ==
  \A e \in Ends : Synced(e) =>
    tcb[e].rcv_adv - tcb[e].rcv_next =< RcvBuf - tcb[e].rcv_len

(***************************************************************************)
(* Nothing is ever sent to the right of the window the receiver offered.   *)
(***************************************************************************)
SendWithinWindow ==
  \A e \in Ends : Synced(e) /\ Synced(Peer(e)) =>
     tcb[e].snd_max =< Greatest(tcb[Peer(e)].rcv_adv, tcb[Peer(e)].rcv_next)

(***************************************************************************)
(* The FIN comes after all the data: an end that has taken it has every    *)
(* byte, and the user of the other end has closed.                         *)
(***************************************************************************)
FinAfterData ==
  \A e \in Ends : FinReceived(e) =>
     Received(e) = Written(Peer(e)) /\ ~tcb[Peer(e)].has_fd

(***************************************************************************)
(* An end that takes its FIN for acknowledged is right: the other end has  *)
(* taken it (and may have closed altogether since).                        *)
(***************************************************************************)
FinAckedIsReceived ==
  \A e \in Ends : FinAcked(e) =>
    FinReceived(Peer(e)) \/ tcb[Peer(e)].state = "closed"

(***************************************************************************)
(* What is in flight is timed: unless an output loop is running, sequence  *)
(* numbers sent and not acknowledged keep the retransmit timer armed.      *)
(* Those rewound for retransmission (at and after snd_next) are not in     *)
(* flight: Output sends them again at its next call.                       *)
(***************************************************************************)
InFlightIsTimed ==
  \A e \in Ends :
    Quiet /\ tcb[e].snd_una < tcb[e].snd_next /\ tcb[e].state # "closed" => tcb[e].rexmt

(***************************************************************************)
(* The receive window is never taken back: what has been advertised is     *)
(* still inside the window that incoming segments are trimmed to.          *)
(***************************************************************************)
PromiseKept ==
  \A e \in Ends : Synced(e) => tcb[e].rcv_adv =< WindowRight(tcb[e])

(***************************************************************************)
(* Liveness.  What is written reaches the user of the other end unless     *)
(* that has closed; two users that close get closed.                       *)
(***************************************************************************)
Delivered ==
  \A e \in Ends : \A n \in 1..MaxWrite[e] :
    (Written(e) >= n) ~> (Received(Peer(e)) >= n \/ ~tcb[Peer(e)].has_fd)

BothCloseEnds ==
  (\A e \in Ends : ~tcb[e].has_fd) ~> (\A e \in Ends : tcb[e].state = "closed")
==============================================================================
