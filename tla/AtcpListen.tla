------------------------------ MODULE AtcpListen ------------------------------
(***************************************************************************)
(* The server's side of the Linux 2.2 TCP before and after a connection:   *)
(* the listener with its queue of open requests, the TIME-WAIT buckets on  *)
(* their death row, the slow timer both run on, and the tables that find   *)
(* the socket of a segment.                                                *)
(*                                                                         *)
(* Time passes in ticks.  A step handles one segment, one open request or  *)
(* one slot of the death row; while a bottom half still has some of them   *)
(* to handle nothing else happens.  An open connection is only a state     *)
(* here: AtcpConnection has the rest.                                      *)
(***************************************************************************)
EXTENDS Integers, FiniteSets, SequencesExt

CONSTANTS
  Peers,         \* the other ends: one address and port each
  SynMax,        \* sysctl_max_syn_backlog
  AcceptMax,     \* the listener's max_ack_backlog
  Retries1,      \* sysctl_tcp_retries1
  SynTimeout,    \* TCP_TIMEOUT_INIT
  SynTimeoutMax, \* the longest wait for the answer to a SYN-ACK
  Slots,         \* TCP_TWKILL_SLOTS
  SynackPeriod, TwkillPeriod,
  MaxSyns,       \* segments of each peer that ask for a connection
  MaxFaults,     \* RSTs and ICMP errors for open requests
  MaxListens,    \* how often the user listens
  MaxUnder,      \* requests that leave the count too often
  MaxBacklog     \* segments that wait for the listener

Off   == -1
NoOne == "no one"

ASSUME ListenConstants ==
  /\ {SynMax, AcceptMax, Retries1, SynTimeout, SynTimeoutMax, MaxSyns,
      MaxFaults, MaxListens, MaxUnder, MaxBacklog} \subseteq Nat
  /\ {SynackPeriod, TwkillPeriod} \subseteq Nat \ {0}
  /\ Slots \in Nat \ {0}       \* a power of two in the source
  /\ NoOne \notin Peers

VARIABLES
  h,       \* the host
  spent    \* what the peers, the network and the user have done
vars == <<h, spent>>

Timers == {"SYNACK", "TWKILL"}
Smaller(a, b) == IF a < b THEN a ELSE b

Init ==
  /\ h = [state |-> "CLOSE", holder |-> "none", back_log |-> <<>>,
          synq |-> <<>>, syn_backlog |-> 0, ack_backlog |-> 0,
          conn |-> [p \in Peers |-> "none"],       \* connections in no queue
          rhash |-> NoOne,                         \* the register cache
          row |-> [i \in 0..(Slots - 1) |-> {}], slot |-> 0,
          age |-> [p \in Peers |-> Off],           \* of the TIME-WAIT buckets
          count |-> [t \in Timers |-> 0], last |-> [t \in Timers |-> 0],
          timer |-> Off, run |-> "none",           \* its handler has come to
          under |-> 0]   \* how often the slow timer's count fell without cause
  /\ spent = [syn |-> [p \in Peers |-> 0], fault |-> 0, listen |-> 0]

(***************************************************************************)
(* The slow timer.  count is the number of events of each kind, last the   *)
(* ticks since they were looked at, timer the ticks until the next look.   *)
(***************************************************************************)
Period(t) == IF t = "SYNACK" THEN SynackPeriod ELSE TwkillPeriod

(* Mutant: every event starts its period anew. *)
StartOver(s, t) ==
  [s EXCEPT !.last[t] = 0, !.timer = Period(t), !.count[t] = @ + 1]
atcp_inc_slow_timer(s, t) ==
  LET soon == IF s.timer = Off \/ s.timer >= Period(t) THEN Period(t) ELSE s.timer
      first == IF s.count[t] = 0 THEN [s EXCEPT !.last[t] = 0, !.timer = soon] ELSE s
  IN [first EXCEPT !.count[t] = @ + 1]

atcp_dec_slow_timer(s, t) == [s EXCEPT !.count[t] = @ - 1]

(***************************************************************************)
(* TIME-WAIT.                                                              *)
(***************************************************************************)
InTimeWait(s, p) == s.age[p] # Off
ThisSlot(s)  == s.slot       \* mutant
DeathSlot(s) == (s.slot + Slots - 1) % Slots

OffRow(s, p) == [s EXCEPT !.row = [i \in DOMAIN s.row |-> s.row[i] \ {p}]]
OnRow(s, p)  == [s EXCEPT !.row[DeathSlot(s)] = @ \cup {p}, !.age[p] = 0]

atcp_tw_schedule(s, p)   == atcp_inc_slow_timer(OnRow(s, p), "TWKILL")
atcp_tw_reschedule(s, p) == OnRow(OffRow(s, p), p)
atcp_tw_deschedule(s, p) == atcp_dec_slow_timer(OffRow(s, p), "TWKILL")
atcp_timewait_kill(s, p) == [s EXCEPT !.age[p] = Off]

atcp_twkill(s) ==
  LET doomed == s.row[s.slot]
  IN [s EXCEPT !.age = [p \in Peers |-> IF p \in doomed THEN Off ELSE s.age[p]],
               !.row[s.slot] = {}, !.count["TWKILL"] = @ - Cardinality(doomed),
               !.slot = (@ + 1) % Slots]

(***************************************************************************)
(* The tables.  A peer has at most one socket there; the register holds    *)
(* the established one that was looked up last.                            *)
(***************************************************************************)
RequestOf(s, p) == SelectInSeq(s.synq, LAMBDA r : r.peer = p)

ChildHashed(s, p) == \E i \in DOMAIN s.synq : s.synq[i].peer = p /\ s.synq[i].child = "ESTABLISHED"
Hashed(s, p) == s.conn[p] = "ESTABLISHED" \/ ChildHashed(s, p)

StillCached(s, p)  == s        \* mutant
atcp_reg_zap(s, p) == [s EXCEPT !.rhash = IF @ = p THEN NoOne ELSE @]

(* Where a segment from p belongs, and the register after the search. *)
Found(s, p) ==
  IF s.rhash = p \/ Hashed(s, p) THEN "connection"
  ELSE IF InTimeWait(s, p) THEN "bucket"
  ELSE IF s.state = "LISTEN" THEN "listener" ELSE "nothing"
Cached(s, p) == IF Hashed(s, p) THEN [s EXCEPT !.rhash = p] ELSE s

(* The connection's socket is unhashed; one the user has not accepted yet  *)
(* stays in the queue.                                                     *)
atcp_v4_unhash(s, p) ==
  LET z == atcp_reg_zap(s, p)
  IN [z EXCEPT !.conn[p] = "none",
            !.synq = [i \in DOMAIN z.synq |->
                        IF s.synq[i].peer = p /\ s.synq[i].child = "ESTABLISHED"
                        THEN [s.synq[i] EXCEPT !.child = "CLOSE"] ELSE s.synq[i]]]

atcp_time_wait(s, p) == atcp_tw_schedule(atcp_v4_unhash(s, p), p)

(***************************************************************************)
(* Open requests.                                                          *)
(***************************************************************************)
Embryos(q)   == {i \in DOMAIN q : q[i].child = "none"}
Embryonic(s) == Cardinality(Embryos(s.synq))
WithChild(s) == Len(s.synq) - Embryonic(s)

atcp_v4_conn_request(s, p) ==
  IF s.syn_backlog > SynMax THEN s
  ELSE LET req == [peer |-> p, child |-> "none", retrans |-> 0,
                   timeo |-> SynTimeout, left |-> SynTimeout]
           t == atcp_inc_slow_timer(s, "SYNACK")
       IN [t EXCEPT !.synq = Append(@, req), !.syn_backlog = @ + 1]

(* The acknowledgement that makes request i a connection, unless too many  *)
(* wait to be accepted: then the request stays, and is counted no more.    *)
MayQueue(s) == s.ack_backlog <= AcceptMax
atcp_check_req(s, i) ==
  IF s.synq[i].child # "none" THEN s
  ELSE LET t == atcp_dec_slow_timer(s, "SYNACK")
       IN IF ~MayQueue(s) THEN [t EXCEPT !.under = @ + 1]
          ELSE [t EXCEPT !.synq[i].child = "ESTABLISHED", !.syn_backlog = @ - 1,
                         !.ack_backlog = @ + 1]

(* A RST takes the request off the queue, and leaves it counted; a socket  *)
(* made for it meanwhile stays in the tables, out of every queue.          *)
OffSynBacklog(s, i) == [s EXCEPT !.syn_backlog = @ - 1]       \* mutant
CountedOff(s, i) ==
  IF s.synq[i].child = "none" THEN [s EXCEPT !.syn_backlog = @ - 1]
  ELSE [s EXCEPT !.ack_backlog = @ - 1]
StillHashed(s, r) == IF r.child = "ESTABLISHED" THEN [s EXCEPT !.conn[r.peer] = r.child] ELSE s
atcp_v4_rst_req(s, i) ==
  LET t == CountedOff(StillHashed(s, s.synq[i]), i) IN [t EXCEPT !.synq = RemoveAt(@, i)]

(* A segment for the listener, or for what was one. *)
atcp_v4_do_rcv(s, g) ==
  LET i == RequestOf(s, g.peer)
  IN IF s.state # "LISTEN" THEN s
     ELSE CASE g.kind = "RST"    -> IF i = 0 THEN s ELSE atcp_v4_rst_req(s, i)
            [] g.kind = "SYN"    -> atcp_v4_conn_request(s, g.peer)
            [] g.kind = "OLDSYN" -> IF i = 0 THEN atcp_v4_conn_request(s, g.peer) ELSE s
            [] g.kind = "ACK"    -> IF i = 0 THEN s ELSE atcp_check_req(s, i)

(* A SYN beyond the bucket's sequence numbers reopens the connection, if   *)
(* the listener is free; another one, or a RST, ends the wait, too.        *)
atcp_timewait_state_process(s, g) ==
  LET killed == atcp_timewait_kill(atcp_tw_deschedule(s, g.peer), g.peer)
  IN CASE g.kind = "SYN" -> IF s.state = "LISTEN" /\ s.holder = "none"
                            THEN atcp_v4_conn_request(killed, g.peer) ELSE killed
       [] g.kind \in {"OLDSYN", "RST"} -> killed
       [] g.kind = "ACK" -> atcp_tw_reschedule(s, g.peer)

atcp_v4_rcv(s, g) ==
  LET where == Found(s, g.peer)
      c     == Cached(s, g.peer)
  IN CASE where = "connection" -> IF g.kind = "RST" THEN atcp_v4_unhash(c, g.peer) ELSE c
       [] where = "bucket"     -> atcp_timewait_state_process(s, g)
       [] where = "listener"   -> IF s.holder # "none" THEN [s EXCEPT !.back_log = Append(@, g)]
                                  ELSE atcp_v4_do_rcv(s, g)
       [] where = "nothing"    -> s

(***************************************************************************)
(* The timer of open requests skips a listener somebody holds.  A request  *)
(* that waited too long is dropped, or its SYN-ACK is sent again and it    *)
(* goes to the end of the queue.                                           *)
(***************************************************************************)
Expired(r)  == r.child = "none" /\ r.left < 0
TooOften(r) == r.retrans >= Retries1
Again(r) ==
  [r EXCEPT !.retrans = @ + 1, !.timeo = 2 * @,        \* TCP_TIMEOUT_INIT << retrans
            !.left = Smaller(2 * r.timeo, SynTimeoutMax)]

ExpiredOf(s) == SelectInSeq(s.synq, Expired)
Expiring(s)  == s.holder = "none" /\ s.state = "LISTEN" /\ ExpiredOf(s) # 0

(* Mutant: a request that is tried again is not counted any more. *)
SynRecvUncounts(s, i) ==
  LET r   == s.synq[i]
      off == atcp_dec_slow_timer([s EXCEPT !.synq = RemoveAt(@, i)], "SYNACK")
  IN IF TooOften(r) THEN [off EXCEPT !.syn_backlog = @ - 1]
     ELSE [off EXCEPT !.synq = Append(@, Again(r))]
atcp_syn_recv_timer(s, i) ==
  LET r   == s.synq[i]
      off == [s EXCEPT !.synq = RemoveAt(@, i)]
  IN IF TooOften(r)
     THEN [atcp_dec_slow_timer(off, "SYNACK") EXCEPT !.syn_backlog = @ - 1]
     ELSE [off EXCEPT !.synq = Append(@, Again(r))]

(* Only those kinds of which events remain are looked at again. *)
Due(s, t) == s.count[t] # 0 /\ s.last[t] >= Period(t)
NextLook(s) ==
  LET waits == {Period(t) - s.last[t] : t \in {u \in Timers : s.count[u] # 0}}
  IN IF waits = {} THEN Off ELSE Min(waits)

(***************************************************************************)
(* The user.  A call holds the listener; when it lets go of it, what       *)
(* waited is handled first.                                                *)
(***************************************************************************)
atcp_accept(s) ==
  LET i == SelectInSeq(s.synq, LAMBDA r : r.child # "none")
  IN IF i = 0 THEN s
     ELSE [s EXCEPT !.synq = RemoveAt(@, i), !.ack_backlog = @ - 1,
                    !.conn[s.synq[i].peer] =
                       IF s.synq[i].child = "ESTABLISHED" THEN "ESTABLISHED" ELSE @]

(* Every request is taken off the count of the slow timer and off the      *)
(* accept backlog, whatever it was counted in; connections are closed, and *)
(* go on without a user until they end.                                    *)
atcp_close_pending(s) ==
  [s EXCEPT !.conn = [p \in Peers |-> IF ChildHashed(s, p) THEN "ESTABLISHED" ELSE s.conn[p]],
            !.count["SYNACK"] = @ - Len(s.synq), !.ack_backlog = @ - Len(s.synq),
            !.synq = <<>>, !.under = @ + WithChild(s)]

Draining == h.holder = "none" /\ h.back_log # <<>>
Busy     == Draining \/ h.run # "none"

(***************************************************************************)
(* Actions.                                                                *)
(***************************************************************************)
(* A peer asks for a connection only when it has none; to the host it may  *)
(* still have one, or wait for the last of it.                             *)
AskFor(p) ==
  /\ spent.syn[p] < MaxSyns
  /\ \E kind \in {"SYN", "OLDSYN"} : h' = atcp_v4_rcv(h, [peer |-> p, kind |-> kind])
  /\ spent' = [spent EXCEPT !.syn[p] = @ + 1]

Acknowledge(p) ==
  /\ RequestOf(h, p) # 0 \/ InTimeWait(h, p) \/ Hashed(h, p)
  /\ h.under < MaxUnder /\ Len(h.back_log) < MaxBacklog
  /\ h' = atcp_v4_rcv(h, [peer |-> p, kind |-> "ACK"])
  /\ UNCHANGED spent

Refuse(p) ==
  /\ spent.fault < MaxFaults
  /\ h' = atcp_v4_rcv(h, [peer |-> p, kind |-> "RST"])
  /\ spent' = [spent EXCEPT !.fault = @ + 1]

(* An ICMP error takes an embryonic request off, if nobody holds the       *)
(* listener.                                                               *)
Unreachable(p) ==
  /\ spent.fault < MaxFaults
  /\ LET i == RequestOf(h, p)
     IN /\ Found(h, p) = "listener" /\ h.holder = "none"
        /\ i # 0 /\ h.synq[i].child = "none"
        /\ h' = [h EXCEPT !.synq = RemoveAt(@, i), !.syn_backlog = @ - 1]
  /\ spent' = [spent EXCEPT !.fault = @ + 1]

(* The connection ends, this end having closed first. *)
EndConnection(p) ==
  /\ Hashed(h, p) /\ ~InTimeWait(h, p)
  /\ h' = atcp_time_wait(h, p)
  /\ UNCHANGED spent

Listen ==
  /\ h.state = "CLOSE" /\ h.holder = "none" /\ spent.listen < MaxListens
  /\ h' = [h EXCEPT !.state = "LISTEN", !.synq = <<>>, !.syn_backlog = 0,
                    !.ack_backlog = 0]
  /\ spent' = [spent EXCEPT !.listen = @ + 1]

Accept ==
  /\ h.state = "LISTEN" /\ h.holder = "none"
  /\ h' = [atcp_accept(h) EXCEPT !.holder = "accept"]
  /\ UNCHANGED spent

Close ==
  /\ h.state = "LISTEN" /\ h.holder = "none"
  /\ h' = [atcp_close_pending([h EXCEPT !.state = "CLOSE"]) EXCEPT !.holder = "close"]
  /\ UNCHANGED spent

Release ==
  /\ h.holder # "none"
  /\ h' = [h EXCEPT !.holder = "none"]
  /\ UNCHANGED spent

Drain ==
  /\ Draining
  /\ h' = atcp_v4_do_rcv([h EXCEPT !.back_log = Tail(@)], Head(h.back_log))
  /\ UNCHANGED spent

(* A tick: everything that waits is a tick older; the slow timer may run,  *)
(* first for the open requests and then for the death row.                 *)
Aged(s) ==
  [s EXCEPT !.timer = @ - 1,
            !.last = [t \in Timers |-> Smaller(s.last[t] + 1, Period(t))],
            !.age = [p \in Peers |-> IF InTimeWait(s, p) THEN s.age[p] + 1 ELSE Off],
            !.synq = [i \in DOMAIN s.synq |->
                        LET r == s.synq[i] IN [r EXCEPT !.left = IF @ < 0 THEN @ ELSE @ - 1]]]
Tick ==
  /\ h.timer # Off
  /\ h' = LET s == Aged(h)
          IN [s EXCEPT !.run = IF s.timer # 0 THEN "none"
                               ELSE IF Due(s, "SYNACK") THEN "SYNACK" ELSE "TWKILL"]
  /\ UNCHANGED spent

LookAtRequests ==
  /\ h.run = "SYNACK"
  /\ h' = IF Expiring(h) THEN atcp_syn_recv_timer(h, ExpiredOf(h))
          ELSE [h EXCEPT !.last["SYNACK"] = 0, !.run = "TWKILL"]
  /\ UNCHANGED spent

LookAtDeathRow ==
  /\ h.run = "TWKILL"
  /\ h' = LET s == IF Due(h, "TWKILL") THEN [atcp_twkill(h) EXCEPT !.last["TWKILL"] = 0]
                   ELSE h
          IN [s EXCEPT !.timer = NextLook(s), !.run = "none"]
  /\ UNCHANGED spent

Next ==
  \/ Drain \/ LookAtRequests \/ LookAtDeathRow
  \/ /\ ~Busy
     /\ \/ \E p \in Peers : \/ AskFor(p) \/ Acknowledge(p) \/ Refuse(p)
                            \/ Unreachable(p) \/ EndConnection(p)
        \/ Listen \/ Accept \/ Close \/ Release \/ Tick

Spec == Init /\ [][Next]_vars

(***************************************************************************)
(* Properties.                                                             *)
(***************************************************************************)
(* The two backlogs count the open requests without and with a socket, as  *)
(* the limits on both need, whoever takes a request off the queue.         *)
BacklogsCounted ==
  h.state = "LISTEN" => /\ h.syn_backlog = Embryonic(h)
                        /\ h.ack_backlog = WithChild(h)

(* Every open request is looked at within a period, whatever stops, starts *)
(* or shortens the timer the requests share with TIME-WAIT.  What takes    *)
(* one off the count without cause, an acknowledgement that finds the      *)
(* accept queue full (atcp_ipv4.c:1310) or a close with connections nobody *)
(* accepted, costs at most one request its timer.                          *)
RequestTimed ==
  Embryonic(h) > h.under =>
    /\ h.count["SYNACK"] > 0 /\ h.timer # Off
    /\ h.run = "none" => h.timer + h.last["SYNACK"] <= SynackPeriod

(* TIME-WAIT that time ends has lasted all of its slots but at most one,   *)
(* since the last acknowledgement; other segments may end it sooner.       *)
TimeWaitLasts ==
  [][\A p \in Peers :
       InTimeWait(h, p) /\ h'.age[p] = Off /\ UNCHANGED spent
         => h.age[p] > (Slots - 1) * TwkillPeriod]_vars

(* And it ends after all of its slots, whatever open requests do to the    *)
(* timer both share.                                                       *)
TimeWaitEnds == \A p \in Peers : h.age[p] <= Slots * TwkillPeriod

(* The register holds only a socket that the tables hold. *)
RegisterIsHashed == h.rhash # NoOne => Hashed(h, h.rhash)
==============================================================================
