---------------------------- MODULE AtcpConnection ----------------------------
(***************************************************************************)
(* A connection of the Linux 2.2 TCP: two sockets, their users, their      *)
(* timers and the network between them.                                    *)
(*                                                                         *)
(* A user's call locks the socket (lock_sock); segments that arrive then   *)
(* wait in its backlog until the call releases it.  Bottom halves and      *)
(* timers run one at a time.  The passive end starts as a listener that    *)
(* accepts its connection at once and then closes.                         *)
(***************************************************************************)
EXTENDS AtcpBase

CONSTANTS
  Total,        \* bytes each end's user writes in all
  WriteSizes,   \* sizes of the user's writes
  ReadSizes,    \* sizes of the user's reads
  Readers,      \* ends whose user reads
  Hasty,        \* ends whose user may set TCP_NODELAY
  Corkers,      \* ends whose user may set, and then clears, TCP_CORK
  Closers,      \* ends whose user closes
  Shutters,     \* ends whose user shuts down the sending side
  Keepers,      \* ends whose user has set SO_KEEPALIVE
  Patient,      \* a user reads the end of the stream before it closes
  Retries1,     \* sysctl_tcp_retries1
  NetCap,       \* users and timers wait while so many segments are under way
  MaxLoss, MaxDup, MaxReorder,  \* what the network may do
  MaxEarly,     \* timers that expire while segments are under way
  MaxKeep       \* keepalive probes

Active  == "active"
Passive == "passive"
Ends    == {Active, Passive}
Peer(e) == IF e = Active THEN Passive ELSE Active

ASSUME ConnectionConstants ==
  /\ Total \in [Ends -> Nat] /\ WriteSizes \subseteq Nat \ {0}
  /\ ReadSizes \subseteq Nat \ {0}
  /\ \A who \in {Readers, Hasty, Corkers, Closers, Shutters, Keepers} : who \subseteq Ends
  /\ Patient \in BOOLEAN /\ Retries1 \in Nat
  /\ {NetCap, MaxLoss, MaxDup, MaxReorder, MaxEarly, MaxKeep} \subseteq Nat

VARIABLES
  sk,       \* the sockets
  req,      \* the listener's open request: how often its SYN-ACK was resent, or none
  net,      \* the segments under way to each end
  call,     \* the call of each user that holds the socket, or "none"
  backlog,  \* the segments that wait for the call to end
  written,  \* the bytes each user has written
  got,      \* the bytes each user has read
  spent     \* what the network and the clocks have done
vars == <<sk, req, net, call, backlog, written, got, spent>>

None == -1    \* no open request

Init ==
  /\ sk = [e \in Ends |-> IF e = Active THEN NewSock
                          ELSE [NewSock EXCEPT !.state = "LISTEN"]]
  /\ req = None
  /\ net = [e \in Ends |-> <<>>]
  /\ call = [e \in Ends |-> "none"]
  /\ backlog = [e \in Ends |-> <<>>]
  /\ written = [e \in Ends |-> 0]
  /\ got = [e \in Ends |-> <<>>]
  /\ spent = [loss |-> 0, dup |-> 0, reorder |-> 0, early |-> 0, keep |-> 0]

(* The socket after a step; what it sent goes to the network. *)
Became(e, s, queue) ==
  /\ sk' = [sk EXCEPT ![e] = [s EXCEPT !.out = <<>>]]
  /\ net' = [queue EXCEPT ![Peer(e)] = @ \o s.out]

Sends(e, segments, queue) ==
  /\ net' = [queue EXCEPT ![Peer(e)] = @ \o segments]
  /\ UNCHANGED sk

Locked(e)    == call[e] # "none"
Roomy        == \A e \in Ends : Len(net[e]) <= NetCap
Hashed(s)    == s.state \notin {"CLOSE", "GONE"}

(* The socket after a segment, with the reset it asked for. *)
Answered(r, g) ==
  IF r.reset THEN [r.sk EXCEPT !.out = @ \o atcp_v4_send_reset(g)] ELSE r.sk

(***************************************************************************)
(* The listener.                                                           *)
(***************************************************************************)
SynAck == [seq |-> 0, data |-> <<>>, syn |-> TRUE, fin |-> FALSE, rst |-> FALSE,
           ack |-> TRUE, ack_seq |-> 1, window |-> atcp_select_initial_window,
           sacks |-> <<>>]

(* The socket for an open request whose SYN-ACK was acknowledged by g. *)
atcp_create_openreq_child(g) ==
  [NewSock EXCEPT !.state = "SYN_RECV", !.rcv_nxt = 1, !.rcv_wup = 1,
     !.copied_seq = 1, !.snd_nxt = 1, !.snd_una = 1, !.write_seq = 1,
     !.snd_wnd = g.window, !.max_window = g.window, !.syn_seq = 0,
     !.rcv_wnd = atcp_select_initial_window]

atcp_conn_request(queue) == req' = 0 /\ Sends(Passive, <<SynAck>>, queue)

(* A segment for the open request: a SYN again, or the acknowledgement     *)
(* that makes it a connection.                                             *)
atcp_check_req(g, queue) ==
  IF g.syn /\ ~g.ack /\ ~g.fin
  THEN Sends(Passive, <<SynAck>>, queue) /\ UNCHANGED req
  ELSE IF g.ack_seq \notin 0..1 \/ g.seq > 1 + atcp_select_initial_window
  THEN Sends(Passive, atcp_v4_send_reset(g), queue) /\ UNCHANGED req
  ELSE LET child == skb_set_owner_r(atcp_create_openreq_child(g), g)
       IN req' = None
            /\ Became(Passive, Answered(atcp_rcv_state_process(child, g), g), queue)

atcp_v4_hnd_req(g, queue) ==
  IF g.rst
  THEN /\ req' = IF g.seq \in 0..1 THEN None ELSE req
       /\ Sends(Passive, <<>>, queue)
  ELSE IF (g.syn \/ g.ack) /\ req # None THEN atcp_check_req(g, queue)
  ELSE IF g.ack THEN Sends(Passive, atcp_v4_send_reset(g), queue) /\ UNCHANGED req
  ELSE IF g.syn THEN atcp_conn_request(queue)
  ELSE Sends(Passive, <<>>, queue) /\ UNCHANGED req

(***************************************************************************)
(* Arrival of a segment.                                                   *)
(***************************************************************************)
DoRcv(s, g) == Answered(atcp_v4_do_rcv(s, g), g)

TimeWaitRcv(e, g, queue) ==
  LET r == atcp_timewait_state_process(sk[e].tw[1], g)
  IN Became(e, [sk[e] EXCEPT !.out = r.answer,
                             !.tw = IF r.killed THEN <<>> ELSE @], queue)

atcp_v4_rcv(e, g, queue) ==
  LET s == sk[e]
  IN IF s.tw # <<>>
     THEN TimeWaitRcv(e, g, queue) /\ UNCHANGED <<req, backlog>>
     ELSE IF ~Hashed(s)
     THEN Sends(e, atcp_v4_send_reset(g), queue) /\ UNCHANGED <<req, backlog>>
     ELSE IF Locked(e)
     THEN /\ backlog' = [backlog EXCEPT ![e] = Append(@, g)]
          /\ Sends(e, <<>>, queue) /\ UNCHANGED req
     ELSE IF s.state = "LISTEN"
     THEN atcp_v4_hnd_req(g, queue) /\ UNCHANGED backlog
     ELSE Became(e, DoRcv(s, g), queue) /\ UNCHANGED <<req, backlog>>

Spend(what, bound) == spent[what] < bound /\ spent' = [spent EXCEPT ![what] = @ + 1]

Deliver(e) ==
  /\ net[e] # <<>>
  /\ atcp_v4_rcv(e, Head(net[e]), [net EXCEPT ![e] = Tail(@)])
  /\ UNCHANGED <<call, written, got, spent>>

Overtake(e) ==
  /\ Spend("reorder", MaxReorder)
  /\ \E i \in 2..Len(net[e]) :
       atcp_v4_rcv(e, net[e][i], [net EXCEPT ![e] = RemoveAt(@, i)])
  /\ UNCHANGED <<call, written, got>>

Lose(e) ==
  /\ Spend("loss", MaxLoss)
  /\ net[e] # <<>>
  /\ net' = [net EXCEPT ![e] = Tail(@)]
  /\ UNCHANGED <<sk, req, call, backlog, written, got>>

Duplicated(e) ==
  /\ Spend("dup", MaxDup)
  /\ net[e] # <<>>
  /\ net' = [net EXCEPT ![e] = Append(@, Head(@))]
  /\ UNCHANGED <<sk, req, call, backlog, written, got>>

(***************************************************************************)
(* The users.  A call takes effect when it locks the socket; release_sock  *)
(* then handles the backlog.                                               *)
(***************************************************************************)
MayCall(e) == ~Locked(e) /\ Roomy
Calls(e, what, s) ==
  /\ MayCall(e)
  /\ call' = [call EXCEPT ![e] = what]
  /\ Became(e, s, net)
  /\ UNCHANGED <<req, backlog, spent>>

Connect ==
  /\ sk[Active].state = "CLOSE" /\ sk[Active].write_seq = 0 /\ ~sk[Active].dead
  /\ Calls(Active, "connect", atcp_connect(sk[Active]))
  /\ UNCHANGED <<written, got>>

CanWrite(e) == MayCall(e) /\ MayWrite(sk[e]) /\ written[e] < Total[e]
Write(e) ==
  /\ CanWrite(e)
  /\ \E n \in WriteSizes :
       /\ written[e] + n <= Total[e]
       /\ written' = [written EXCEPT ![e] = @ + n]
       /\ Calls(e, "sendmsg", atcp_do_sendmsg(sk[e], n))
  /\ UNCHANGED got

(* There is something to read, or the end of the stream.  After an error   *)
(* the first recvmsg only returns it and clears it (atcp_base.c:1171),     *)
(* without a lock and without data.  That call is left out: err says that  *)
(* an error was set, and what is read then is read by a later call.        *)
CanRead(e) == MayCall(e) /\ e \in Readers /\ Readable(sk[e]) # 0 /\ ~sk[e].dead
Read(e) ==
  /\ CanRead(e)
  /\ \E n \in ReadSizes :
       LET r == atcp_recvmsg(sk[e], n)
       IN /\ got' = [got EXCEPT ![e] = @ \o r.got]
          /\ Calls(e, "recvmsg", r.sk)
  /\ UNCHANGED written

(* Setting an option takes no lock; clearing TCP_CORK sends, and does. *)
Sets(e, s) == sk' = [sk EXCEPT ![e] = s]
                /\ UNCHANGED <<req, net, call, backlog, written, got, spent>>

SetNoDelay(e) ==
  /\ e \in Hasty /\ MayWrite(sk[e]) /\ sk[e].nonagle = 0 /\ written[e] = 0
  /\ Sets(e, NoDelay(sk[e]))

SetCork(e) ==
  /\ e \in Corkers /\ MayWrite(sk[e]) /\ sk[e].nonagle = 0 /\ written[e] = 0
  /\ Sets(e, Cork(sk[e]))

CanUncork(e) == MayCall(e) /\ sk[e].nonagle = 2 /\ Hashed(sk[e]) /\ ~sk[e].dead
ClearCork(e) ==
  /\ CanUncork(e)
  /\ Calls(e, "setsockopt", Uncork(sk[e]))
  /\ UNCHANGED <<written, got>>

WroteAll(e) == written[e] = Total[e] \/ ~MayWrite(sk[e])

CanShutdown(e) ==
  /\ MayCall(e) /\ e \in Shutters /\ Hashed(sk[e]) /\ sk[e].state # "LISTEN"
  /\ "SEND" \notin sk[e].shutdown /\ WroteAll(e)
Shutdown(e) ==
  /\ CanShutdown(e)
  /\ Calls(e, "shutdown", atcp_shutdown(sk[e]))
  /\ UNCHANGED <<written, got>>

Finished(e) == Readable(sk[e]) = 0 /\ ("RCV" \in sk[e].shutdown \/ sk[e].err)

CanClose(e) ==
  /\ MayCall(e) /\ e \in Closers /\ ~sk[e].dead
  /\ sk[e].state # "LISTEN" /\ sk[e].write_seq > 0
  /\ WroteAll(e) /\ (Patient => Finished(e))
Close(e) ==
  /\ CanClose(e)
  /\ Calls(e, "close", atcp_close(sk[e]))
  /\ UNCHANGED <<written, got>>

(* The call lets go of the socket; a close marks it dead only then. *)
release_sock(e) ==
  LET s == ForEach(sk[e], backlog[e], DoRcv)
  IN /\ Locked(e)
     /\ Became(e, [s EXCEPT !.dead = @ \/ call[e] = "close"], net)
     /\ call' = [call EXCEPT ![e] = "none"]
     /\ backlog' = [backlog EXCEPT ![e] = <<>>]
     /\ UNCHANGED <<req, written, got, spent>>

(***************************************************************************)
(* The timers.  They are longer than a segment's way and than the time the *)
(* other end delays its acknowledgement, except for MaxEarly of them.      *)
(***************************************************************************)
Quiet == \A e \in Ends : net[e] = <<>> /\ ~Locked(e)
Delaying == \E e \in Ends : "DACK" \in sk[e].timers

Expires(e, patient) ==
  IF patient THEN UNCHANGED spent ELSE Roomy /\ Spend("early", MaxEarly)

Fires(e, s, patient) ==
  /\ Expires(e, patient)
  /\ Became(e, s, net)
  /\ UNCHANGED <<req, call, backlog, written, got>>

DelackTimer(e) ==
  /\ "DACK" \in sk[e].timers
  /\ Fires(e, atcp_delack_timer(sk[e], Locked(e)), Quiet)

RetransmitTimer(e) ==
  /\ "RETRANS" \in sk[e].timers
  /\ Fires(e, atcp_retransmit_timer(sk[e], Locked(e)), Quiet /\ ~Delaying)

ProbeTimer(e) ==
  /\ "PROBE0" \in sk[e].timers
  /\ Fires(e, atcp_probe_timer(sk[e], Locked(e)), Quiet /\ ~Delaying)

(* The listener's slow timer resends a SYN-ACK, or drops the request. *)
SynAckTimer ==
  /\ req # None /\ ~Locked(Passive)
  /\ Expires(Passive, Quiet)
  /\ IF req >= Retries1
     THEN req' = None /\ Sends(Passive, <<>>, net)
     ELSE req' = req + 1 /\ Sends(Passive, <<SynAck>>, net)
  /\ UNCHANGED <<call, backlog, written, got>>

(* The connection has been idle for sysctl_tcp_keepalive_time. *)
KeepaliveTimer(e) ==
  /\ Spend("keep", MaxKeep) /\ Quiet /\ e \in Keepers /\ Hashed(sk[e])
  /\ Became(e, atcp_keepopen_proc(sk[e], Retries1), net)
  /\ UNCHANGED <<req, call, backlog, written, got>>

(* TIME_CLOSE and TIME_DONE, and the end of TIME-WAIT, minutes later. *)
NetTimer(e) ==
  /\ sk[e].msl # "none" /\ Quiet
  /\ Fires(e, net_timer(sk[e], FALSE), TRUE)

TimeWaitOver(e) ==
  /\ sk[e].tw # <<>> /\ Quiet
  /\ Fires(e, [sk[e] EXCEPT !.tw = <<>>], TRUE)

Next ==
  \/ Connect \/ SynAckTimer
  \/ \E e \in Ends :
       \/ Deliver(e) \/ Overtake(e) \/ Lose(e) \/ Duplicated(e)
       \/ Write(e) \/ Read(e) \/ SetNoDelay(e) \/ SetCork(e) \/ ClearCork(e)
       \/ Shutdown(e) \/ Close(e) \/ release_sock(e)
       \/ DelackTimer(e) \/ RetransmitTimer(e) \/ ProbeTimer(e)
       \/ KeepaliveTimer(e) \/ NetTimer(e) \/ TimeWaitOver(e)

Spec == Init /\ [][Next]_vars

(* Bottom halves and timers run; users who write, read, clear TCP_CORK,    *)
(* shut down or close do so in time.  This is weak fairness of each        *)
(* action; its condition is written out where TLC is slow to find whether  *)
(* the action is enabled.                                                  *)
MayFire(e, what) == /\ what \in sk[e].timers
                    /\ (Quiet /\ (what = "DACK" \/ ~Delaying))
                         \/ (Roomy /\ spent.early < MaxEarly)

FairSpec ==
  /\ Spec /\ WF_vars(Connect) /\ WF_vars(SynAckTimer)
  /\ \A e \in Ends :
       /\ []<>~(net[e] # <<>>) \/ []<><<Deliver(e)>>_vars
       /\ []<>~(Locked(e)) \/ []<><<release_sock(e)>>_vars
       /\ []<>~(CanWrite(e)) \/ []<><<Write(e)>>_vars
       /\ []<>~(CanRead(e)) \/ []<><<Read(e)>>_vars
       /\ []<>~(CanUncork(e)) \/ []<><<ClearCork(e)>>_vars
       /\ []<>~(CanShutdown(e)) \/ []<><<Shutdown(e)>>_vars
       /\ []<>~(CanClose(e)) \/ []<><<Close(e)>>_vars
       /\ []<>~(MayFire(e, "DACK")) \/ []<><<DelackTimer(e)>>_vars
       /\ []<>~(MayFire(e, "RETRANS")) \/ []<><<RetransmitTimer(e)>>_vars
       /\ []<>~(MayFire(e, "PROBE0")) \/ []<><<ProbeTimer(e)>>_vars
       /\ WF_vars(NetTimer(e)) /\ WF_vars(TimeWaitOver(e))

(***************************************************************************)
(* Properties.                                                             *)
(***************************************************************************)
Live(e) == Hashed(sk[e]) /\ sk[e].state # "LISTEN"

(* A socket is well formed.  None of the unsigned counters the sender      *)
(* keeps goes below zero, and the two pointers into the write queue never  *)
(* point to a buffer that was freed.                                       *)
SocketOK(s) ==
  /\ s.state \in States /\ s.timers \subseteq XmitTimers
  /\ s.msl \in {"none", "CLOSE", "DONE"}
  /\ s.pending \in {"none", "PROBE0", "KEEPOPEN"}
  /\ {s.snd_una, s.snd_nxt, s.snd_wnd, s.write_seq, s.rcv_nxt, s.rcv_wup,
      s.rcv_wnd, s.copied_seq, s.packets_out, s.retrans_out, s.fackets_out,
      s.retransmits, s.snd_cwnd, s.dup_acks} \subseteq Nat
  /\ s.send_head \in 0..Len(s.wq) /\ s.retrans_head \in 0..Len(s.wq)
  /\ s.out = <<>> /\ s.in_hand = 0

(* What a user reads is what the other one wrote, from the first byte on,  *)
(* whatever is split, joined, resent, trimmed or taken out of order.       *)
StreamIntegrity ==
  \A e \in Ends : /\ got[e] = Bytes(1, Len(got[e]))
                  /\ Len(got[e]) <= written[Peer(e)]

(* An end takes as acknowledged only what the other has received in order. *)
AckedIsReceived ==
  \A e \in Ends : Live(Active) /\ Live(Passive) => sk[e].snd_una <= sk[Peer(e)].rcv_nxt

(* The write queue is the stream from the acknowledged byte to the last    *)
(* one written, in order, without a hole and without an overlap, and the   *)
(* send head is where sending goes on.  Buffers that are acknowledged left *)
(* the queue, except for what a smaller segment size splits off the first  *)
(* buffer when that is sent again after a part of it was acknowledged; and *)
(* a buffer stripped for its FIN leaves a gap of acknowledged bytes.       *)
Follows(b, c, una) == b.end = c.seq \/ (b.end < c.seq /\ c.seq <= una)
QueueWhole(s) ==
  /\ \A i \in 1..(Len(s.wq) - 1) : Follows(s.wq[i], s.wq[i + 1], s.snd_una)
  /\ s.wq # <<>> =>
       /\ Head(s.wq).seq <= s.snd_una /\ s.snd_una < s.write_seq
       /\ s.snd_una < Head(s.wq).end \/ Head(s.wq).retrans
       /\ s.wq[Len(s.wq)].end = s.write_seq
  /\ s.send_head # Null => s.wq[s.send_head].seq = s.snd_nxt
  /\ s.send_head = Null => s.snd_nxt = s.write_seq
WriteQueueWhole == \A e \in Ends : Live(e) => QueueWhole(sk[e])

(* packets_out, by which acknowledgements and timers are judged, is the    *)
(* number of buffers before the send head, also after buffers were split,  *)
(* joined, trimmed or acknowledged in part; and the other counts and the   *)
(* pointers into the queue stay what they should be.                       *)
PacketsCounted == \A e \in Ends : Live(e) => sk[e].packets_out = Sent(sk[e])
CountsRight == PacketsCounted /\ \A e \in Ends : SocketOK(sk[e])

(* While packets_out counts a buffer that is not acknowledged, the         *)
(* retransmission timer is set, whatever other timers come and go; and     *)
(* while it is set it has a buffer to resend, since atcp_retransmit_timer  *)
(* takes the head of the write queue without a look.                       *)
InFlightTimed ==
  \A e \in Ends :
    /\ Live(e) /\ sk[e].packets_out > 0 => "RETRANS" \in sk[e].timers
    /\ "RETRANS" \in sk[e].timers /\ ~sk[e].zapped => sk[e].wq # <<>>

(* A buffer tagged as covered by a SACK block is received: it came in      *)
(* order, or a buffer out of order reaches as far.                         *)
SackedIsHeld ==
  Live(Active) /\ Live(Passive) =>
   \A e \in Ends : \A i \in DOMAIN sk[e].wq :
     sk[e].wq[i].sacked => \/ sk[e].wq[i].end <= sk[Peer(e)].rcv_nxt
                          \/ \E b \in Range(sk[Peer(e)].ofo) : b.end >= sk[e].wq[i].end

(* A receiver never takes back a window it offered (atcp_select_window).   *)
NoShrink ==
  [][\A e \in Ends : Live(e) /\ sk'[e].state \notin {"CLOSE", "GONE"} =>
       sk'[e].rcv_wup + sk'[e].rcv_wnd >= sk[e].rcv_wup + sk[e].rcv_wnd]_vars

(* What is written is read in the end, unless the connection breaks. *)
Delivered ==
  \A e \in Ends : \A n \in 1..Total[e] :
    written[e] >= n ~> \/ Len(got[Peer(e)]) >= n
                      \/ \E f \in Ends : sk[f].err

(* A socket whose user has closed it is freed in the end, and so is its    *)
(* TIME-WAIT bucket.                                                       *)
ClosedIsGone ==
  \A e \in Ends : sk[e].dead ~> sk[e].state = "GONE" /\ sk[e].tw = <<>>
==============================================================================
