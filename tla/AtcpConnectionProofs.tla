------------------------ MODULE AtcpConnectionProofs ------------------------
(***************************************************************************)
(* Proofs about a connection of the Linux 2.2 TCP (AtcpConnection):        *)
(* StreamIntegrity, AckedIsReceived, WriteQueueWhole, PacketsCounted,      *)
(* InFlightTimed and NoShrink, for all sizes, users, faults and timers.    *)
(*                                                                         *)
(* The inductive invariant ConnectionOK has two parts.                     *)
(*                                                                         *)
(*  - Sockets: each end is a new socket, a listener, gone, or in use       *)
(*    (Used). A socket in use either was reset (Shut), or its write queue, *)
(*    its counts and its timers are in order (Runs), and its receive       *)
(*    queues hold pieces of the other end's stream (Come). What its user   *)
(*    has read is that stream from the first byte on, up to where reading  *)
(*    goes on (HasRead), and what was received and not read continues it   *)
(*    (InLine).                                                            *)
(*  - QueuesOK: a segment under way, or in a back log, carries what the    *)
(*    end that sent it wrote, where it belongs in the stream, and          *)
(*    acknowledges no more than that end has received (Arrives). None with *)
(*    a SYN alone goes to the end that connects (Reply), which would       *)
(*    forget its own sequence numbers by it.                               *)
(*                                                                         *)
(* So each end depends on the other, by its view of it (ViewFrom): how far *)
(* the other has written, and received. A step of one end widens both      *)
(* views (Wider), and whatever was in order in the narrower view is in the *)
(* wider one. The lemmas of the modules before this one are therefore      *)
(* about one socket and any view; here there is one lemma for each action. *)
(* That the window's edge stays (Holds) is a property of steps, proved     *)
(* with the invariant.                                                     *)
(***************************************************************************)
EXTENDS AtcpInputProofs, AtcpConnection

(***************************************************************************)
(* A view that grows: more is written, sent, received.                     *)
(***************************************************************************)
Wider(y, z) ==
  /\ ViewOK(y) /\ ViewOK(z)
  /\ (y.calls => z.calls) /\ (y.up => z.up)
  /\ y.last <= z.last /\ (y.fin => z.fin /\ z.last = y.last)
  /\ y.seen <= z.seen
  /\ y.theirs <= z.theirs /\ (y.ended => z.ended /\ z.theirs = y.theirs)

(* A segment is still in its place. *)
LEMMA WiderSegment ==
  ASSUME NEW g, NEW y, NEW z, Wider(y, z), SegmentOK(g, y)
  PROVE  SegmentOK(g, z)
<1>1. Len(g.data) \in Nat /\ g.seq \in Int
  BY SeqFacts DEF SegmentOK, SegmentTypes
<1>2. /\ y.last \in Int /\ z.last \in Int /\ y.seen \in Int /\ z.seen \in Int
      /\ y.last <= z.last /\ y.seen <= z.seen /\ (y.fin => z.fin /\ z.last = y.last)
      /\ (y.calls => z.calls) /\ (y.up => z.up)
  BY DEF Wider, ViewOK
<1> DEFINE n == Len(g.data)
           k == g.seq
           a == y.last
           b == z.last
           c == y.seen
           d == z.seen
<1>3. Carries(g, y)
  BY DEF SegmentOK
<1>4. g.data # <<>> => 1 <= k /\ k + n <= a
  BY <1>3 DEF Carries
<1>5. g.fin => y.fin /\ 1 <= k /\ (k + n = a \/ (k + n < a /\ a <= c))
  BY <1>3 DEF Carries
<1>6. /\ g.syn => y.calls /\ g.seq = 0 /\ g.data = <<>> /\ ~g.fin
      /\ g.syn \/ g.ack \/ g.rst
      /\ g.ack => y.up \/ g.rst
      /\ InOrder(g.data, g.seq)
  BY <1>3 DEF Carries
<1>7. n \in Int /\ k \in Int /\ a \in Int /\ b \in Int /\ c \in Int /\ d \in Int /\ a <= b /\ c <= d
  BY <1>1, <1>2
<1>8. y.fin => z.fin /\ a = b
  BY <1>2
<1> HIDE DEF n, k, a, b, c, d
<1>9. k + n <= a => k + n <= b
  BY <1>7
<1>10. a = b => ((k + n = a \/ (k + n < a /\ a <= c)) => (k + n = b \/ (k + n < b /\ b <= d)))
  BY <1>7
<1>11. (g.data # <<>> => 1 <= k /\ k + n <= b)
       /\ (g.fin => z.fin /\ 1 <= k /\ (k + n = b \/ (k + n < b /\ b <= d)))
  BY <1>4, <1>5, <1>8, <1>9, <1>10
<1> QED BY <1>2, <1>6, <1>11 DEF SegmentOK, Carries, n, k, b, d

(* So are all that were sent. *)
LEMMA WiderSegments ==
  ASSUME NEW q, NEW y, NEW z, Wider(y, z), SegmentsOK(q, y)
  PROVE  SegmentsOK(q, z)
BY WiderSegment DEF SegmentsOK

(* A buffer that was received is. *)
LEMMA WiderPieces ==
  ASSUME NEW q, NEW y, NEW z, Wider(y, z), BuffersOK(q), Pieces(q, y)
  PROVE  Pieces(q, z)
<1>1. ASSUME NEW i \in 1..Len(q) PROVE Piece(q[i], z)
  <2> DEFINE b == q[i]
             e == b.seq + Len(b.data)
  <2>1. Piece(b, y) /\ Len(b.data) \in Nat
    BY SeqFacts DEF Pieces, BuffersOK, BufferOK
  <2> HIDE DEF b
  <2>2. e \in Int /\ y.theirs \in Int /\ z.theirs \in Int /\ y.theirs <= z.theirs /\ e <= y.theirs
    BY <2>1 DEF Piece, Wider, ViewOK
  <2> HIDE DEF e
  <2>3. e <= z.theirs
    BY <2>2
  <2>4. b.fin => z.ended /\ b.end = z.theirs + 1
    BY <2>1 DEF Piece, Wider
  <2> QED BY <2>1, <2>3, <2>4 DEF Piece, e, b
<1> QED BY <1>1 DEF Pieces

(* And one of the write queue. *)
LEMMA WiderChain ==
  ASSUME NEW q, NEW u, NEW y, NEW z, Wider(y, z), ChainOK(q, u, y)
  PROVE  ChainOK(q, u, z)
<1>1. ASSUME NEW i \in 1..Len(q) PROVE SkbOK(q[i], u, z)
  <2> DEFINE b == q[i]
             e == b.seq + Len(b.data)
  <2>1. SkbTypes(b) /\ InStream(b, u, y)
    BY DEF ChainOK, SkbOK
  <2> HIDE DEF b
  <2>2. Len(b.data) \in Nat /\ b.seq \in Int
    BY <2>1, SeqFacts DEF SkbTypes
  <2>7. y.last \in Int /\ z.last \in Nat /\ y.last <= z.last
    BY DEF Wider, ViewOK
  <2>8. e \in Int
    BY <2>2
  <2>9. e <= y.last
    BY <2>1 DEF InStream
  <2>3. e \in Int /\ y.last \in Int /\ z.last \in Nat /\ y.last <= z.last /\ e <= y.last
    BY <2>7, <2>8, <2>9
  <2> HIDE DEF e
  <2>4. e <= z.last
    BY <2>3
  <2>5. b.fin => /\ z.fin /\ b.end = z.last + 1
                 /\ e = z.last \/ z.last <= u
    BY <2>1 DEF InStream, Wider, e
  <2>6. /\ b.seq >= 0
        /\ b.syn => z.calls /\ b.seq = 0 /\ b.end = 1 /\ b.data = <<>> /\ ~b.fin
        /\ ~b.syn => b.seq >= 1 /\ b.ack
        /\ b.ack => z.up
        /\ ~b.syn /\ ~b.fin => b.end = b.seq + Len(b.data)
        /\ InOrder(b.data, b.seq)
    BY <2>1 DEF InStream, Wider
  <2> QED BY <2>1, <2>3, <2>4, <2>5, <2>6 DEF SkbOK, InStream, e, b
<1> QED BY <1>1 DEF ChainOK

(* The receiving half. *)
LEMMA WiderOpen ==
  ASSUME NEW s, NEW y, NEW z, Wider(y, z), Open(s, y)
  PROVE  Open(s, z)
<1>1. SegmentsOK(s.out, z) /\ Pieces(s.rq, z) /\ Pieces(s.ofo, z)
  BY WiderSegments, WiderPieces DEF Open, Come, ReceiverOK
<1>2. s.rcv_nxt <= z.theirs + Flag(z.ended)
  <2>1. /\ s.rcv_nxt \in Int /\ y.theirs \in Int /\ z.theirs \in Int /\ y.theirs <= z.theirs
        /\ s.rcv_nxt <= y.theirs + Flag(y.ended)
    BY DEF Open, Come, ReceiverOK, Wider, ViewOK
  <2>2. CASE y.ended
    BY <2>1, <2>2 DEF Wider
  <2>3. CASE ~y.ended
    BY <2>1, <2>3 DEF Flag
  <2> QED BY <2>2, <2>3
<1>3. ViewOK(z) /\ (y.up => z.up)
  BY DEF Wider
<1> QED BY <1>1, <1>2, <1>3 DEF Open, Come

(* The whole socket. *)
LEMMA WiderGood ==
  ASSUME NEW s, NEW y, NEW z, Wider(y, z), Good(s, y)
  PROVE  Good(s, z)
<1>1. Open(s, z)
  BY WiderOpen DEF Good, GoodAt
<1>2. ChainOK(s.wq, s.snd_una, z) /\ s.snd_una <= z.seen
  <2>1. y.seen <= z.seen /\ y.seen \in Nat /\ z.seen \in Nat
    BY DEF Wider, ViewOK
  <2>3. s.snd_una <= y.seen /\ s.snd_una \in Nat
    BY DEF Good, GoodAt, QueueOK, QueueTypes
  <2>2. s.snd_una <= z.seen
    BY <2>1, <2>3
  <2> QED BY <2>2, WiderChain DEF Good, GoodAt, QueueOK, QueueTypes
<1> QED BY <1>1, <1>2 DEF Good, GoodAt, QueueOK, QueueTypes

(***************************************************************************)
(* The view of an end: it is past SYN_SENT if its socket is.               *)
(***************************************************************************)
With(y, up) ==
  [calls |-> y.calls, up |-> up, last |-> y.last, fin |-> y.fin, seen |-> y.seen,
   theirs |-> y.theirs, ended |-> y.ended]
ViewAt(s, y) == With(y, s.state # "SYN_SENT")
Up(y) == With(y, TRUE)

(* What it keeps of the other. *)
LEMMA WithFacts ==
  ASSUME NEW y, NEW up
  PROVE  LET z == With(y, up)
         IN /\ z.calls = y.calls /\ z.up = up /\ z.last = y.last /\ z.fin = y.fin
            /\ z.seen = y.seen /\ z.theirs = y.theirs /\ z.ended = y.ended
            /\ (ViewOK(z) <=> ViewOK(y))
BY DEF With, ViewOK

(* A socket is good in the view of one that is past SYN_SENT. *)
LEMMA UpGood ==
  ASSUME NEW s, NEW y, Good(s, ViewAt(s, y))
  PROVE  Good(s, Up(y)) /\ Up(y).up
<1> DEFINE a == ViewAt(s, y)
           b == Up(y)
<1>1. ViewOK(a)
  BY DEF Good, GoodAt, Open, Come
<1>5. /\ a.calls = y.calls /\ a.last = y.last /\ a.fin = y.fin
      /\ a.seen = y.seen /\ a.theirs = y.theirs /\ a.ended = y.ended
      /\ (ViewOK(a) <=> ViewOK(y))
  BY WithFacts DEF ViewAt
<1>6. /\ b.calls = y.calls /\ b.last = y.last /\ b.fin = y.fin /\ b.up = TRUE
      /\ b.seen = y.seen /\ b.theirs = y.theirs /\ b.ended = y.ended
      /\ (ViewOK(b) <=> ViewOK(y))
  BY Zenon DEF Up, With, ViewOK
<1>2. /\ a.calls = y.calls /\ a.last = y.last /\ a.fin = y.fin
      /\ a.seen = y.seen /\ a.theirs = y.theirs /\ a.ended = y.ended
      /\ b.calls = y.calls /\ b.last = y.last /\ b.fin = y.fin /\ b.up
      /\ b.seen = y.seen /\ b.theirs = y.theirs /\ b.ended = y.ended
      /\ (ViewOK(a) <=> ViewOK(y)) /\ (ViewOK(b) <=> ViewOK(y))
  BY <1>5, <1>6
<1> HIDE DEF a, b
<1>3. Wider(a, b)
  <2>1. a.last \in Int /\ a.seen \in Int /\ a.theirs \in Int
    BY <1>1 DEF ViewOK
  <2> QED BY <1>1, <1>2, <2>1 DEF Wider
<1>4. Good(s, b)
  BY <1>3, WiderGood DEF a
<1> QED BY <1>2, <1>4 DEF b

(* Past it the two are one. *)
LEMMA UpView ==
  ASSUME NEW s, NEW y, s.state # "SYN_SENT"
  PROVE  ViewAt(s, y) = Up(y)
BY DEF ViewAt, Up

(***************************************************************************)
(* The timers.                                                             *)
(***************************************************************************)
(* What closes the socket and leaves its queues alone. *)
Closes(s, t) ==
  /\ Record(t) /\ SameQueue(s, t) /\ SameOffer(s, t) /\ SameQueues(s, t)
  /\ t.out = s.out /\ t.zapped = s.zapped /\ t.dead = s.dead /\ t.state = "CLOSE"

(* Such a step goes on from a socket in order to one that is closed. *)
LEMMA ClosesHandled ==
  ASSUME NEW s, NEW t, NEW y, Good(s, y), y.up, Closes(s, t),
         "RETRANS" \in t.timers => "RETRANS" \in s.timers
  PROVE  Handled(s, t, y)
<1>1. /\ QueueOK(t, s.snd_una, y) /\ t.packets_out = s.packets_out
      /\ t.write_seq = s.write_seq /\ HeadOK(t, s.snd_una)
  BY SameQueueOK DEF Good, GoodAt, Closes
<1>2. Timed(t)
  BY <1>1 DEF Timed, Good, GoodAt, Closes
<1>3. ReceiverOK(t) /\ Come(t, y)
  <2>1. ReceiverOK(s) /\ Come(s, y)
    BY DEF Good, GoodAt, Open
  <2>2. t.tw = s.tw \/ (BucketOK(t.tw) /\ BucketAcks(t.tw, t.rcv_nxt))
    BY DEF Closes, SameOffer
  <2>3. /\ t.rcv_wup = s.rcv_wup /\ t.rcv_wnd = s.rcv_wnd /\ t.rcv_nxt = s.rcv_nxt
        /\ t.rq = s.rq /\ t.ofo = s.ofo /\ t.sacks = s.sacks /\ t.in_hand = s.in_hand
        /\ t.out = s.out /\ t.state = "CLOSE"
    BY DEF Closes, SameOffer, SameQueues
  <2>4. ReceiverOK(t)
    BY <2>1, <2>2, <2>3 DEF ReceiverOK
  <2>5. BucketAcks(t.tw, t.rcv_nxt)
    BY <2>1, <2>2, <2>3 DEF Come
  <2>6. Come(t, y)
    BY <2>1, <2>3, <2>5 DEF Come
  <2> QED BY <2>4, <2>6
<1>4. Open(t, y)
  BY <1>3 DEF Good, GoodAt, Open, Closes
<1>5. Edge(s, t)
  BY DEF Good, GoodAt, Open, ReceiverOK, Edge, Closes, SameOffer
<1>6. t.snd_una = s.snd_una
  BY DEF SameQueue, Closes
<1>7. Line(s, t) /\ t.rcv_nxt = s.rcv_nxt /\ s.rcv_nxt \in Int
  BY SameLine DEF Closes, SameQueues, Good, GoodAt, Open, ReceiverOK
<1>8. t.rcv_nxt >= s.rcv_nxt
  BY <1>7
<1> QED BY <1>1, <1>2, <1>4, <1>5, <1>6, <1>7, <1>8
        DEF Handled, Stepped, Good, GoodAt, StateStep, Writing, Closes

(* What a socket of any kind does before it closes. *)
LEMMA ClosingFacts ==
  ASSUME NEW r, Record(r), r.rcv_nxt \in Int, r.snd_nxt \in Int,
         NEW s, Record(s), SameQueue(r, s), SameOffer(r, s), SameQueues(r, s),
         s.out = r.out, s.zapped = r.zapped, s.dead = r.dead
  PROVE  /\ 1 <= r.rcv_nxt => /\ Closes(r, atcp_time_wait(s))
                              /\ atcp_time_wait(s).timers = s.timers
         /\ Closes(r, atcp_set_state(s, "CLOSE")) /\ atcp_set_state(s, "CLOSE").timers = s.timers
<1> DEFINE w == atcp_time_wait(s)
           c == atcp_set_state(s, "CLOSE")
<1>1. s.rcv_nxt \in Int /\ s.snd_nxt \in Int
  BY DEF SameQueue, SameQueues
<1>2. ASSUME 1 <= r.rcv_nxt
      PROVE  /\ Record(w) /\ SameQueue(s, w) /\ SameOffer(s, w) /\ SameQueues(s, w)
             /\ w.out = s.out /\ w.zapped = s.zapped /\ w.dead = s.dead /\ w.state = "CLOSE"
             /\ w.timers = s.timers
  <2>1. 1 <= s.rcv_nxt
    BY <1>2 DEF SameQueues
  <2> QED BY <1>1, <2>1, TimeWaitFacts
<1> HIDE DEF w
<1>3. /\ Record(c) /\ SameQueue(s, c) /\ SameOffer(s, c) /\ SameQueues(s, c)
      /\ c.out = s.out /\ c.zapped = s.zapped /\ c.dead = s.dead /\ c.state = "CLOSE"
      /\ c.timers = s.timers
  BY ZenonT(60) DEF atcp_set_state, net_reset_timer, Record, Fields, SameQueue, SameOffer, SameQueues
<1> HIDE DEF c
<1>4. ASSUME 1 <= r.rcv_nxt
      PROVE  Closes(r, w)
  <2>0. /\ Record(w) /\ SameQueue(s, w) /\ SameOffer(s, w) /\ SameQueues(s, w)
        /\ w.out = s.out /\ w.zapped = s.zapped /\ w.dead = s.dead /\ w.state = "CLOSE"
    BY <1>2, <1>4
  <2>1. SameQueue(r, w) /\ SameQueues(r, w)
    BY <2>0 DEF SameQueue, SameQueues
  <2>2. SameOffer(r, w)
    BY <2>0 DEF SameOffer, SameQueues
  <2> QED BY <2>0, <2>1, <2>2 DEF Closes
<1>5. Closes(r, c)
  <2>1. SameQueue(r, c) /\ SameQueues(r, c)
    BY <1>3 DEF SameQueue, SameQueues
  <2>2. SameOffer(r, c)
    BY <1>3 DEF SameOffer, SameQueues
  <2> QED BY <1>3, <2>1, <2>2 DEF Closes
<1> QED BY <1>2, <1>3, <1>4, <1>5 DEF w, c

(* atcp_write_err gives the connection up. *)
LEMMA WriteErrHandled ==
  ASSUME NEW s, NEW y, Good(s, y), y.up, NEW force
  PROVE  /\ Handled(s, atcp_write_err(s, force), y)
         /\ atcp_write_err(s, force).state = "CLOSE"
<1> DEFINE e == [atcp_clear_xmit_timers(s) EXCEPT !.err = TRUE]
           w == atcp_time_wait(e)
           c == atcp_set_state(e, "CLOSE")
<1>1. \/ s.state \in {"FIN_WAIT1", "FIN_WAIT2", "CLOSING"} /\ atcp_write_err(s, force) = w
      \/ atcp_write_err(s, force) = c
  BY Zenon DEF atcp_write_err
<1>2. Record(s) /\ s.rcv_nxt \in Int /\ s.snd_nxt \in Int
  BY DEF Good, GoodAt, Open, ReceiverOK, QueueOK, QueueTypes
<1>3. /\ Record(e) /\ SameQueue(s, e) /\ SameOffer(s, e) /\ SameQueues(s, e)
      /\ e.out = s.out /\ e.zapped = s.zapped /\ e.dead = s.dead /\ e.timers = {}
  BY <1>2 DEF atcp_clear_xmit_timers, Record, Fields, SameQueue, SameOffer, SameQueues
<1> HIDE DEF e
<1>4. /\ 1 <= s.rcv_nxt => Closes(s, w) /\ w.timers = {}
      /\ Closes(s, c) /\ c.timers = {}
  BY <1>2, <1>3, ClosingFacts
<1>7. s.state \in {"FIN_WAIT1", "FIN_WAIT2", "CLOSING"} => 1 <= s.rcv_nxt
  BY <1>2 DEF Good, GoodAt, Open, Come
<1> HIDE DEF w, c
<1>5. 1 <= s.rcv_nxt => Handled(s, w, y)
  <2> HAVE 1 <= s.rcv_nxt
  <2>1. "RETRANS" \notin w.timers
    BY <1>4
  <2> QED BY <1>4, <2>1, ClosesHandled
<1>6. Handled(s, c, y)
  <2>1. "RETRANS" \notin c.timers
    BY <1>4
  <2> QED BY <1>4, <2>1, ClosesHandled
<1> QED BY <1>1, <1>4, <1>5, <1>6, <1>7 DEF Closes

(* atcp_write_timeout, which may. *)
LEMMA WriteTimeoutHandled ==
  ASSUME NEW s, NEW y, Good(s, ViewAt(s, y))
  PROVE  LET t == atcp_write_timeout(s)
         IN t = s \/ (Handled(s, t, Up(y)) /\ t.state = "CLOSE")
<1>1. Good(s, Up(y)) /\ Up(y).up
  BY UpGood
<1> QED BY <1>1, WriteErrHandled DEF atcp_write_timeout

(* Forgetting the SACK tags keeps the queue. *)
LEMMA ForgetFacts ==
  ASSUME NEW s, NEW u, NEW y, Open(s, y), QueueOK(s, u, y)
  PROVE  LET t == ForgetSacks(s)
         IN /\ QueueOK(t, u, y) /\ Outputs(s, t, y) /\ Sent(t) = Sent(s)
            /\ t.write_seq = s.write_seq /\ t.snd_nxt = s.snd_nxt
            /\ t.packets_out = s.packets_out
<1> DEFINE g == [i \in 1..Sent(s) |-> [s.wq[i] EXCEPT !.sacked = FALSE, !.retrans = FALSE]]
           t == ForgetSacks(s)
<1>1. Len(s.wq) \in Nat /\ Sent(s) \in 0..Len(s.wq)
  BY SentFacts DEF QueueOK
<1>2. CASE ~SackOk
  <2>1. t = s
    BY <1>2 DEF ForgetSacks
  <2> QED BY <2>1, OutputsRefl
<1>3. CASE SackOk
  <2>1. RetagMoves(s, t, g) /\ t.fackets_out = s.fackets_out
    BY ZenonT(60), <1>3 DEF ForgetSacks, RetagMoves, RetagQueue, Open, Record, Fields, SameLife,
       SameQueues, SameWindow
  <2> HIDE DEF t
  <2>2. t.fackets_out \in Nat
    BY <2>1 DEF QueueOK, QueueTypes
  <2>3. IsSeq(g) /\ Len(g) = Sent(s)
    <3>1. DOMAIN g = 1..Sent(s) /\ g = [i \in DOMAIN g |-> g[i]] /\ Sent(s) \in Nat
      BY <1>1
    <3> HIDE DEF g
    <3> QED BY <3>1, FunctionIsSeq
  <2>4. ASSUME NEW i \in 1..Sent(s)
        PROVE  /\ SkbOK(g[i], u, y) /\ g[i].seq = s.wq[i].seq /\ g[i].end = s.wq[i].end
               /\ g[i].data = s.wq[i].data
    <3> DEFINE c == s.wq[i]
               d == [c EXCEPT !.sacked = FALSE, !.retrans = FALSE]
    <3>1. g[i] = d
      OBVIOUS
    <3>2. SkbTypes(c) /\ InStream(c, u, y)
      <4>1. i \in 1..Len(s.wq)
        BY <1>1
      <4> QED BY <4>1, ChainFacts DEF QueueOK, QueueTypes, SkbOK
    <3> HIDE DEF c
    <3>3. /\ SkbFields \subseteq DOMAIN d /\ d.seq = c.seq /\ d.end = c.end /\ d.data = c.data
          /\ d.cap = c.cap /\ d.syn = c.syn /\ d.fin = c.fin /\ d.ack = c.ack
      BY <3>2 DEF SkbTypes, SkbFields
    <3> HIDE DEF d
    <3>4. SkbOK(d, u, y)
      BY <3>2, <3>3 DEF SkbOK, SkbTypes, InStream
    <3> QED BY <3>1, <3>3, <3>4 DEF c
  <2> HIDE DEF g
  <2>5. Retagged(s, g, u, y)
    BY <2>3, <2>4 DEF Retagged
  <2>6. QueueOK(t, u, y) /\ Outputs(s, t, y) /\ Sent(t) = Sent(s)
    BY <2>1, <2>2, <2>5, RetagKeeps
  <2> QED BY <2>1, <2>6 DEF RetagMoves, t
<1> QED BY <1>2, <1>3

(* atcp_retransmit_timer resends the first buffer, which exists since the  *)
(* timer runs.                                                             *)
LEMMA RetransmitTimerHandled ==
  ASSUME NEW s0, NEW v, Good(s0, ViewAt(s0, v)), "RETRANS" \in s0.timers, NEW locked
  PROVE  LET t == atcp_retransmit_timer(s0, locked)
         IN \/ s0.zapped
            \/ Handled(s0, t, ViewAt(s0, v)) /\ t.state = s0.state
            \/ Handled(s0, t, Up(v)) /\ t.state = "CLOSE"
<1> DEFINE y == ViewAt(s0, v)
           u == s0.snd_una
           s == Expire(s0, "RETRANS")
           c == atcp_clear_xmit_timer(s, "DACK")
           h == ForgetSacks(c)
           f == [h EXCEPT !.retrans_head = Null, !.rexmt_done = FALSE,
                          !.fackets_out = 0, !.retrans_out = 0]
           r == [CloseWindow(f) EXCEPT !.retransmits = @ + 1, !.dup_acks = 0,
                                       !.high_seq = s.snd_nxt]
           m == atcp_retransmit_skb(r, 1)
           z == StartRetrans(m)
           w == atcp_write_timeout(z)
           l == StartRetrans(s)
<1>1. \/ s.zapped
      \/ atcp_retransmit_timer(s0, locked) = l
      \/ atcp_retransmit_timer(s0, locked) = w
  BY Zenon DEF atcp_retransmit_timer
<1>2. /\ Open(s0, y) /\ QueueOK(s0, u, y) /\ HeadOK(s0, u) /\ Timed(s0)
      /\ s0.packets_out > 0 /\ Good(s0, y)
  BY DEF Good, GoodAt, Timed
<1> HIDE DEF y
<1>3. Handled(s0, l, y) /\ l.state = s0.state
  <2>1. StartFields(s0, l) /\ "RETRANS" \in l.timers
    BY <1>2 DEF Expire, StartRetrans, atcp_reset_xmit_timer, Open, StartFields, Record, Fields,
       SameLife, SameQueue, SameQueues, SameWindow
  <2> HIDE DEF l
  <2>2. "RETRANS" \in l.timers <=> "RETRANS" \in s0.timers
    BY <2>1
  <2>3. Keeps(s0, l, u, y)
    BY <1>2, <2>1, <2>2, FrameKeeps
  <2> QED BY <1>2, <2>3, KeepsHandled
<1>4. /\ QueueOK(c, u, y) /\ Outputs(s0, c, y) /\ c.write_seq = s0.write_seq
      /\ c.packets_out = s0.packets_out /\ c.snd_nxt = s.snd_nxt
  <2>1. StartFields(s0, c) /\ c.snd_nxt = s.snd_nxt
    BY <1>2 DEF Expire, atcp_clear_xmit_timer, Open, StartFields, Record, Fields,
       SameLife, SameQueue, SameQueues, SameWindow
  <2> HIDE DEF c, s
  <2>2. Outputs(s0, c, y)
    BY <1>2, <2>1, OutputsQuiet DEF StartFields
  <2>3. QueueOK(c, u, y)
    BY <1>2, <2>1, SameQueueOK DEF StartFields
  <2> QED BY <2>1, <2>2, <2>3 DEF StartFields, SameQueue
<1>21. s.zapped = s0.zapped
  BY <1>2 DEF Expire, Open, Record, Fields
<1> HIDE DEF c, s, l
<1>5. Open(c, y)
  BY <1>4 DEF Outputs
<1>6. /\ QueueOK(h, u, y) /\ Outputs(c, h, y) /\ Sent(h) = Sent(c)
      /\ h.write_seq = c.write_seq /\ h.snd_nxt = c.snd_nxt
      /\ h.packets_out = c.packets_out
  BY <1>4, <1>5, ForgetFacts
<1> HIDE DEF h
<1>7. Open(h, y) /\ Record(h)
  BY <1>6 DEF Outputs, Open
<1>8. Keeps(h, r, u, y)
  <2>1. /\ CountsMove(h, r) /\ r.retrans_head = 0 /\ r.fackets_out = 0
        /\ r.high_seq = s.snd_nxt /\ r.timers = h.timers /\ r.snd_wnd = h.snd_wnd
        /\ r.max_window = h.max_window
    <3> DEFINE k == CloseWindow(f)
    <3>1. /\ CountsMove(h, f) /\ f.retrans_head = 0 /\ f.fackets_out = 0
          /\ f.timers = h.timers /\ f.snd_wnd = h.snd_wnd /\ f.max_window = h.max_window
      BY <1>7 DEF CountsMove, Record, Fields, SameLife, SameQueues, SameWindow, Null
    <3> HIDE DEF f
    <3>2. /\ CountsMove(f, k) /\ k.retrans_head = f.retrans_head
          /\ k.fackets_out = f.fackets_out /\ k.timers = f.timers /\ k.snd_wnd = f.snd_wnd
          /\ k.max_window = f.max_window
      <4>1. Record(f)
        BY <3>1 DEF CountsMove
      <4>2. CASE f.retransmits # 0
        BY <4>1, <4>2 DEF CloseWindow, CountsMove, SameLife, SameQueues, SameWindow
      <4>3. CASE ~(f.retransmits # 0)
        BY <4>1, <4>3 DEF CloseWindow, CountsMove, Record, Fields, SameLife, SameQueues,
           SameWindow
      <4> QED BY <4>2, <4>3
    <3> HIDE DEF k
    <3>3. /\ CountsMove(k, r) /\ r.retrans_head = k.retrans_head
          /\ r.fackets_out = k.fackets_out /\ r.timers = k.timers /\ r.snd_wnd = k.snd_wnd
          /\ r.max_window = k.max_window /\ r.high_seq = s.snd_nxt
      BY <3>2 DEF k, CountsMove, Record, Fields, SameLife, SameQueues, SameWindow
    <3>4. CountsMove(h, k)
      BY <3>1, <3>2 DEF CountsMove, SameLife, SameQueues, SameWindow
    <3>5. CountsMove(h, r)
      BY <3>3, <3>4 DEF CountsMove, SameLife, SameQueues, SameWindow
    <3> QED BY <3>1, <3>2, <3>3, <3>5
  <2> HIDE DEF r
  <2>2. Sent(h) \in Nat
    BY <1>6, SentFacts DEF QueueOK
  <2>3. /\ r.retrans_head \in (-1)..Sent(h) /\ r.snd_wnd \in Int /\ r.max_window \in Nat
        /\ r.fackets_out \in Nat /\ r.high_seq \in Int /\ r.high_seq <= r.snd_nxt
    BY <1>4, <1>6, <2>1, <2>2 DEF CountsMove, QueueOK, QueueTypes
  <2> QED BY <1>6, <1>7, <2>1, <2>3, CountsMoveKeeps
<1> HIDE DEF r
<1>9. Open(r, y) /\ QueueOK(r, u, y) /\ r.packets_out > 0
  BY <1>2, <1>4, <1>6, <1>8 DEF Keeps, Grows, Outputs
<1>10. Resent(r, m, 1, u, y)
  <2>1. 1 \in 1..Sent(r)
    BY <1>9, SentFacts DEF QueueOK
  <2> QED BY <1>9, <2>1, RetransmitKeeps
<1> HIDE DEF m
<1>11. Keeps(r, m, u, y) /\ m.packets_out > 0 /\ HeadOK(m, u)
  BY <1>10 DEF Resent
<1>12. Open(m, y) /\ QueueOK(m, u, y) /\ Record(m)
  BY <1>11 DEF Keeps, Grows, Outputs, Open
<1>13. StartFields(m, z) /\ "RETRANS" \in z.timers
  BY <1>12, StartFacts
<1> HIDE DEF z
<1>14. Outputs(m, z, y)
  BY <1>12, <1>13, OutputsQuiet DEF StartFields
<1>15. /\ QueueOK(z, u, y) /\ z.packets_out = m.packets_out /\ z.write_seq = m.write_seq
       /\ HeadOK(z, u)
  BY <1>11, <1>12, <1>13, SameQueueOK DEF StartFields, SameQueue
<1>16. Timed(z)
  BY <1>11, <1>13, <1>15 DEF Timed
<1>17. Outputs(s0, z, y)
  <2>1. Outputs(s0, h, y)
    BY <1>2, <1>4, <1>6, OutputsTrans
  <2>2. Outputs(s0, r, y)
    BY <1>2, <1>8, <2>1, OutputsTrans DEF Keeps, Grows
  <2>3. Outputs(s0, m, y)
    BY <1>2, <1>11, <2>2, OutputsTrans DEF Keeps, Grows
  <2> QED BY <1>2, <1>14, <2>3, OutputsTrans
<1>18. z.write_seq = s0.write_seq
  BY <1>4, <1>6, <1>8, <1>11, <1>15 DEF Keeps
<1>19. Handled(s0, z, y) /\ z.state = s0.state
  <2>1. SameLife(s0, z) /\ Edge(s0, z) /\ Open(z, y) /\ SameQueues(s0, z)
    BY <1>17 DEF Outputs
  <2>2. Good(z, y)
    BY <2>1, <1>15, <1>16 DEF Good, GoodAt, SameLife
  <2>3. Line(s0, z) /\ z.rcv_nxt = s0.rcv_nxt /\ s0.rcv_nxt \in Int
    BY <1>2, <2>1, SameLine DEF SameQueues, Open, ReceiverOK
  <2>4. z.rcv_nxt >= s0.rcv_nxt
    BY <2>3
  <2> QED BY <1>18, <2>1, <2>2, <2>3, <2>4 DEF Handled, Stepped, SameLife, StateStep
<1>20. w = z \/ (Handled(s0, w, Up(v)) /\ w.state = "CLOSE")
  <2>1. Good(z, y) /\ y = ViewAt(z, v)
    BY <1>19 DEF Handled, Stepped, y, ViewAt
  <2>2. w = z \/ (Handled(z, w, Up(v)) /\ w.state = "CLOSE")
    BY <2>1, WriteTimeoutHandled
  <2>3. Good(z, Up(v)) /\ Good(s0, Up(v))
    BY <1>2, <2>1, UpGood DEF y
  <2> HIDE DEF w
  <2>4. Handled(s0, z, Up(v))
    BY <1>19, <2>3 DEF Handled, Stepped
  <2> QED BY <2>2, <2>3, <2>4, HandledTrans
<1> HIDE DEF w
<1> QED BY <1>1, <1>3, <1>19, <1>20, <1>21 DEF l, y

(***************************************************************************)
(* A socket in use: it was reset, or it runs.  A socket that is gone.      *)
(***************************************************************************)
Running ==
  {"CLOSE", "SYN_SENT", "SYN_RECV", "ESTABLISHED", "FIN_WAIT1", "FIN_WAIT2",
   "CLOSE_WAIT", "CLOSING", "LAST_ACK"}

(* write_seq is behind the last byte, or the FIN. *)
Counted(s, y) == s.write_seq = y.last + Flag(y.fin) /\ (s.state \in Writing => ~y.fin)

Shut(s, y) == Open(s, ViewAt(s, y)) /\ s.zapped /\ s.state = "CLOSE" /\ Counted(s, y)
Runs(s, y) ==
  /\ Good(s, ViewAt(s, y)) /\ ~s.zapped /\ s.state \in Running /\ Counted(s, y)
  /\ s.state = "SYN_SENT" => y.calls
Used(s, y) == Shut(s, y) \/ Runs(s, y)
Gone(s, y) ==
  /\ Open(s, ViewAt(s, y)) /\ s.state = "GONE" /\ s.dead /\ s.timers = {} /\ s.msl = "none"
  /\ Counted(s, y)

(* What every step does while the socket is in use, and what all do but    *)
(* those that take from the receive queue.                                 *)
Step(s, t, y) ==
  /\ Used(t, y) /\ (t.state # "CLOSE" => s.state # "CLOSE" /\ Edge(s, t))
  /\ t.rcv_nxt >= s.rcv_nxt /\ t.dead = s.dead
  /\ t.state = "SYN_SENT" => s.state = "SYN_SENT"
Steady(s, t, y) == Step(s, t, y) /\ Line(s, t)

(* The types of a socket in use. *)
LEMMA UsedTypes ==
  ASSUME NEW s, NEW y, Used(s, y)
  PROVE  /\ Open(s, ViewAt(s, y)) /\ Record(s) /\ ReceiverOK(s) /\ ViewOK(y)
         /\ s.rcv_nxt \in Int /\ s.rcv_wup \in Int /\ s.rcv_wnd \in Nat
         /\ s.write_seq \in Nat /\ s.write_seq > 0 /\ s.state \in Running
<1>1. Open(s, ViewAt(s, y)) /\ s.state \in Running /\ Counted(s, y)
  BY DEF Used, Shut, Runs, Good, GoodAt, Running
<1>2. /\ Record(s) /\ ReceiverOK(s) /\ ViewOK(ViewAt(s, y))
      /\ s.rcv_nxt \in Int /\ s.rcv_wup \in Int /\ s.rcv_wnd \in Nat
  BY <1>1 DEF Open, ReceiverOK, Come
<1>3. ViewOK(y)
  BY <1>2, WithFacts DEF ViewAt
<1>4. y.last \in Nat \ {0} /\ s.write_seq = y.last + Flag(y.fin)
  BY <1>1, <1>3 DEF ViewOK, Counted
<1>5. s.write_seq \in Nat /\ s.write_seq > 0
  BY <1>4 DEF Flag
<1> QED BY <1>1, <1>2, <1>3, <1>5

(* Two steps are one. *)
LEMMA StepTrans ==
  ASSUME NEW r, NEW s, NEW t, NEW y, Used(r, y), Step(r, s, y), Step(s, t, y)
  PROVE  Step(r, t, y)
<1>1. /\ r.rcv_wup \in Int /\ r.rcv_wnd \in Int /\ s.rcv_wup \in Int /\ s.rcv_wnd \in Int
      /\ t.rcv_wup \in Int /\ t.rcv_wnd \in Int
      /\ r.rcv_nxt \in Int /\ s.rcv_nxt \in Int /\ t.rcv_nxt \in Int
  BY UsedTypes DEF Step
<1>2. Edge(r, s) /\ Edge(s, t) => Edge(r, t)
  BY <1>1 DEF Edge
<1>3. t.rcv_nxt >= r.rcv_nxt
  <2>1. s.rcv_nxt >= r.rcv_nxt /\ t.rcv_nxt >= s.rcv_nxt
    BY DEF Step
  <2> QED BY <1>1, <2>1
<1> QED BY <1>2, <1>3 DEF Step

(* Also if what has not been read stays in line. *)
LEMMA SteadyTrans ==
  ASSUME NEW r, NEW s, NEW t, NEW y, Used(r, y), Steady(r, s, y), Steady(s, t, y)
  PROVE  Steady(r, t, y)
<1>1. Step(r, t, y)
  BY StepTrans DEF Steady
<1>2. Line(r, t)
  BY DEF Steady, Step, Line
<1> QED BY <1>1, <1>2 DEF Steady

(* Doing nothing is one. *)
LEMMA SteadyRefl ==
  ASSUME NEW s, NEW y, Used(s, y)
  PROVE  Steady(s, s, y)
<1>1. Edge(s, s) /\ s.rcv_nxt >= s.rcv_nxt
  BY UsedTypes DEF Edge
<1> QED BY <1>1 DEF Steady, Step, Line

(* What a socket that runs offers to the lemmas about it. *)
LEMMA RunsFacts ==
  ASSUME NEW s, NEW y, Runs(s, y)
  PROVE  /\ Good(s, ViewAt(s, y)) /\ Open(s, ViewAt(s, y)) /\ QueueOK(s, s.snd_una, ViewAt(s, y))
         /\ HeadOK(s, s.snd_una) /\ Timed(s)
         /\ Good(s, Up(y)) /\ Up(y).up /\ Record(s) /\ Used(s, y)
         /\ s.rcv_nxt \in Int /\ s.snd_nxt \in Int
         /\ s.state # "SYN_SENT" => ViewAt(s, y) = Up(y)
<1>1. Good(s, ViewAt(s, y))
  BY DEF Runs
<1>2. Good(s, Up(y)) /\ Up(y).up
  BY <1>1, UpGood
<1>3. s.state # "SYN_SENT" => ViewAt(s, y) = Up(y)
  BY UpView
<1>4. Used(s, y)
  BY DEF Used
<1>5. s.rcv_nxt \in Int /\ s.snd_nxt \in Int
  BY <1>1 DEF Good, GoodAt, Open, ReceiverOK, QueueOK, QueueTypes
<1> QED BY <1>1, <1>2, <1>3, <1>4, <1>5 DEF Good, GoodAt, Open

(* Handling a segment is one. *)
LEMMA HandledStep ==
  ASSUME NEW s, NEW t, NEW y, Runs(s, y), Handled(s, t, ViewAt(t, y))
  PROVE  Steady(s, t, y) /\ Runs(t, y)
<1>1. Counted(t, y)
  BY DEF Runs, Handled, Stepped, StateStep, Counted
<1>2. /\ t.state \in Running /\ (t.state = "SYN_SENT" => s.state = "SYN_SENT" /\ y.calls)
      /\ (t.state # "CLOSE" => s.state # "CLOSE")
  BY DEF Runs, Handled, Stepped, StateStep, Later, Running
<1>3. Runs(t, y)
  BY <1>1, <1>2 DEF Runs, Handled, Stepped
<1> QED BY <1>2, <1>3 DEF Steady, Step, Used, Handled, Stepped

(* Output is one. *)
LEMMA KeepsStep ==
  ASSUME NEW s, NEW t, NEW y, Runs(s, y), Keeps(s, t, s.snd_una, ViewAt(s, y))
  PROVE  Steady(s, t, y) /\ Runs(t, y) /\ t.state = s.state
<1>1. Handled(s, t, ViewAt(s, y)) /\ t.state = s.state
  BY KeepsHandled DEF Runs
<1>2. ViewAt(s, y) = ViewAt(t, y)
  BY <1>1 DEF ViewAt
<1> QED BY <1>1, <1>2, HandledStep

(* So is a step out of SYN_SENT. *)
LEMMA UpStep ==
  ASSUME NEW s, NEW t, NEW y, Runs(s, y), Handled(s, t, Up(y)), t.state # "SYN_SENT"
  PROVE  Steady(s, t, y) /\ Runs(t, y)
<1>1. Up(y) = ViewAt(t, y)
  BY UpView
<1> QED BY <1>1, HandledStep

(* And one that closes the socket. *)
LEMMA ClosesStep ==
  ASSUME NEW s, NEW t, NEW y, Runs(s, y), Closes(s, t),
         "RETRANS" \in t.timers => "RETRANS" \in s.timers
  PROVE  Steady(s, t, y) /\ Runs(t, y)
<1>1. Good(s, Up(y)) /\ Up(y).up
  BY RunsFacts
<1>2. Handled(s, t, Up(y)) /\ t.state # "SYN_SENT"
  BY <1>1, ClosesHandled DEF Closes
<1> QED BY <1>2, UpStep

(* A segment that may end the connection is one. *)
LEMMA AfterStep ==
  ASSUME NEW s, NEW t, NEW y, Runs(s, y), After(s, t, ViewAt(t, y))
  PROVE  Steady(s, t, y)
<1>1. CASE Ended(s, t, ViewAt(t, y))
  <2>1. Counted(t, y)
    BY <1>1 DEF Runs, Counted, Ended, Writing
  <2> QED BY <1>1, <2>1 DEF Steady, Step, Used, Shut, Ended
<1> QED BY <1>1, HandledStep DEF After

(* A socket that was reset stays so. *)
LEMMA ShutStep ==
  ASSUME NEW s, NEW t, NEW y, Shut(s, y), Record(t), t.zapped = s.zapped, t.dead = s.dead,
         t.state = "CLOSE", t.write_seq = s.write_seq, t.rcv_nxt = s.rcv_nxt, t.rcv_wup \in Int,
         t.rcv_wnd \in Nat, HoldsOK(t.rq, Up(y)), HoldsOK(t.ofo, Up(y)), IsSeq(t.sacks),
         t.in_hand \in Int, SegmentsOK(t.out, Up(y)), AllAck(t.out, t.rcv_nxt), BucketOK(t.tw),
         BucketAcks(t.tw, t.rcv_nxt)
  PROVE  Step(s, t, y) /\ Shut(t, y)
<1>1. /\ Open(s, Up(y)) /\ ViewAt(s, y) = Up(y) /\ ViewAt(t, y) = Up(y) /\ Counted(t, y)
      /\ s.state = "CLOSE"
  BY UpView DEF Shut, Counted, Writing
<1>2. Open(t, Up(y)) /\ t.rcv_nxt \in Int
  BY <1>1 DEF Open, ReceiverOK, Come, HoldsOK
<1>3. Shut(t, y)
  BY <1>1, <1>2 DEF Shut
<1>4. t.rcv_nxt >= s.rcv_nxt
  BY <1>2
<1> QED BY <1>3, <1>4 DEF Step, Used

(* The same if nothing happens to that. *)
LEMMA ShutSame ==
  ASSUME NEW s, NEW t, NEW y, Shut(s, y), Record(t), t.zapped = s.zapped, t.dead = s.dead,
         t.state = "CLOSE", t.write_seq = s.write_seq, SameQueues(s, t), SameOffer(s, t),
         t.out = s.out
  PROVE  Steady(s, t, y) /\ Shut(t, y)
<1>1. Open(s, Up(y))
  BY UpView DEF Shut
<1>2. /\ t.rcv_nxt = s.rcv_nxt /\ t.rcv_wup \in Int /\ t.rcv_wnd \in Nat
      /\ HoldsOK(t.rq, Up(y)) /\ HoldsOK(t.ofo, Up(y)) /\ IsSeq(t.sacks)
      /\ t.in_hand \in Int /\ SegmentsOK(t.out, Up(y)) /\ AllAck(t.out, t.rcv_nxt)
  BY <1>1 DEF Open, ReceiverOK, Come, HoldsOK, SameQueues, SameOffer
<1>3. BucketOK(t.tw) /\ BucketAcks(t.tw, t.rcv_nxt)
  BY <1>1 DEF Open, ReceiverOK, Come, SameQueues, SameOffer
<1>4. Step(s, t, y) /\ Shut(t, y)
  BY <1>2, <1>3, ShutStep
<1>5. Line(s, t)
  BY SameLine
<1> QED BY <1>4, <1>5 DEF Steady

(***************************************************************************)
(* The timers of a socket in use.                                          *)
(***************************************************************************)
(* The retransmission timer. *)
LEMMA RetransmitTimerStep ==
  ASSUME NEW s, NEW y, Used(s, y), "RETRANS" \in s.timers, NEW locked
  PROVE  Steady(s, atcp_retransmit_timer(s, locked), y)
<1> DEFINE e == Expire(s, "RETRANS")
           t == atcp_retransmit_timer(s, locked)
<1>1. CASE Shut(s, y)
  <2>1. /\ Record(e) /\ e.zapped = s.zapped /\ e.dead = s.dead /\ e.state = "CLOSE"
        /\ e.write_seq = s.write_seq /\ SameQueues(s, e) /\ SameOffer(s, e) /\ e.out = s.out
    BY ZenonT(60), <1>1 DEF Expire, Shut, Open, Record, Fields, SameQueues, SameOffer
  <2>2. t = e
    <3>1. e.zapped
      BY <1>1, <2>1 DEF Shut
    <3> QED BY <3>1 DEF atcp_retransmit_timer
  <2> HIDE DEF e, t
  <2>3. Steady(s, t, y)
    BY <1>1, <2>1, <2>2, ShutSame
  <2> QED BY <2>3 DEF t
<1>2. CASE Runs(s, y)
  <2>1. \/ Handled(s, t, ViewAt(s, y)) /\ t.state = s.state
        \/ Handled(s, t, Up(y)) /\ t.state = "CLOSE"
    BY <1>2, RetransmitTimerHandled DEF Runs
  <2> HIDE DEF t
  <2>2. t.state = s.state => ViewAt(s, y) = ViewAt(t, y)
    BY DEF ViewAt
  <2>3. Steady(s, t, y)
    BY <1>2, <2>1, <2>2, HandledStep, UpStep
  <2> QED BY <2>3 DEF t
<1> QED BY <1>1, <1>2 DEF Used

(* The delayed-acknowledgement timer. *)
LEMMA DelackTimerStep ==
  ASSUME NEW s, NEW y, Used(s, y), NEW locked
  PROVE  Steady(s, atcp_delack_timer(s, locked), y)
<1> DEFINE e == Expire(s, "DACK")
           d == atcp_send_delayed_ack(e)
           a == atcp_send_ack(e)
           u == s.snd_una
           v == ViewAt(s, y)
<1>1. Record(s) /\ Open(s, v)
  BY UsedTypes
<1>2. /\ StartFields(s, e) /\ ("RETRANS" \in e.timers <=> "RETRANS" \in s.timers)
      /\ e.delayed_acks = s.delayed_acks
  BY <1>1 DEF Expire, StartFields, Record, Fields, SameLife, SameQueue, SameQueues, SameWindow
<1>3. \/ atcp_delack_timer(s, locked) = e
      \/ ~e.zapped /\ e.delayed_acks # 0
           /\ (atcp_delack_timer(s, locked) = d \/ atcp_delack_timer(s, locked) = a)
  BY Zenon DEF atcp_delack_timer
<1> HIDE DEF e
<1>4. CASE Shut(s, y)
  <2>1. atcp_delack_timer(s, locked) = e
    BY <1>2, <1>3, <1>4 DEF StartFields, SameLife, Shut
  <2>2. SameOffer(s, e)
    BY <1>2 DEF StartFields, SameWindow, SameOffer
  <2> QED BY <1>2, <1>4, <2>1, <2>2, ShutSame DEF StartFields, SameLife, SameQueue, Shut
<1>5. CASE Runs(s, y)
  <2>1. QueueOK(s, u, v)
    BY <1>5, RunsFacts
  <2>0. v.up = (s.state # "SYN_SENT")
    BY WithFacts DEF ViewAt
  <2>00. s.state = "SYN_SENT" => s.delayed_acks = 0
    BY <1>1 DEF Open, Come
  <2> HIDE DEF v
  <2>2. Keeps(s, e, u, v)
    BY <1>1, <1>2, <2>1, FrameKeeps
  <2>3. Open(e, v) /\ QueueOK(e, u, v)
    BY <2>2 DEF Keeps, Grows, Outputs
  <2>4. e.delayed_acks # 0 => Keeps(e, d, u, v) /\ Keeps(e, a, u, v)
    BY <1>2, <2>0, <2>00, <2>3, DelayedAckKeeps, SendAckKeeps
  <2>5. e.delayed_acks # 0 => Keeps(s, d, u, v) /\ Keeps(s, a, u, v)
    BY <1>1, <2>1, <2>2, <2>4, KeepsTrans
  <2> QED BY <1>3, <1>5, <2>2, <2>5, KeepsStep DEF v
<1> QED BY <1>4, <1>5 DEF Used

(* The probe timer. *)
LEMMA ProbeTimerStep ==
  ASSUME NEW s, NEW y, Used(s, y), NEW locked
  PROVE  Steady(s, atcp_probe_timer(s, locked), y)
<1> DEFINE e == Expire(s, "PROBE0")
           z == [e EXCEPT !.err = TRUE]
           l == atcp_reset_xmit_timer(e, "PROBE0")
           p == atcp_send_probe0(e)
           w == atcp_time_wait(z)
           c == atcp_set_state(z, "CLOSE")
           u == s.snd_una
           v == ViewAt(s, y)
           t == atcp_probe_timer(s, locked)
<1>1. Record(s) /\ Open(s, v)
  BY UsedTypes
<1>2. /\ StartFields(s, e) /\ ("RETRANS" \in e.timers <=> "RETRANS" \in s.timers)
  BY <1>1 DEF Expire, StartFields, Record, Fields, SameLife, SameQueue, SameQueues, SameWindow
<1>3. \/ t = e
      \/ /\ ~e.zapped
         /\ \/ t = l \/ t = p \/ t = c
            \/ e.state \in {"FIN_WAIT1", "FIN_WAIT2", "CLOSING"} /\ t = w
  BY Zenon DEF atcp_probe_timer
<1> HIDE DEF e, t
<1>6. SameOffer(s, e)
  BY <1>2 DEF StartFields, SameWindow, SameOffer
<1>4. CASE Shut(s, y)
  <2>1. t = e
    BY <1>2, <1>3, <1>4 DEF StartFields, SameLife, Shut
  <2> QED BY <1>2, <1>4, <1>6, <2>1, ShutSame DEF StartFields, SameLife, SameQueue, Shut, t
<1>5. CASE Runs(s, y)
  <2>1. QueueOK(s, u, v)
    BY <1>5, RunsFacts
  <2> HIDE DEF v
  <2>2. Keeps(s, e, u, v)
    BY <1>1, <1>2, <2>1, FrameKeeps
  <2>3. Open(e, v) /\ QueueOK(e, u, v) /\ Record(e)
    BY <2>2 DEF Keeps, Grows, Outputs, Open
  <2>4. Keeps(e, p, u, v)
    BY <2>3, ProbeKeeps
  <2>5. Keeps(e, l, u, v)
    <3>1. StartFields(e, l) /\ ("RETRANS" \in l.timers <=> "RETRANS" \in e.timers)
      BY <2>3 DEF atcp_reset_xmit_timer, StartFields, Record, Fields, SameLife, SameQueue,
         SameQueues, SameWindow
    <3> QED BY <2>3, <3>1, FrameKeeps
  <2>6. Keeps(s, p, u, v) /\ Keeps(s, l, u, v)
    BY <1>1, <2>1, <2>2, <2>4, <2>5, KeepsTrans
  <2>7. Steady(s, e, y) /\ Steady(s, p, y) /\ Steady(s, l, y)
    BY <1>5, <2>2, <2>6, KeepsStep DEF v
  <2>8. /\ Record(z) /\ SameQueue(s, z) /\ SameOffer(s, z) /\ SameQueues(s, z)
        /\ z.out = s.out /\ z.zapped = s.zapped /\ z.dead = s.dead /\ z.timers = e.timers
    <3>1. /\ Record(z) /\ SameQueue(e, z) /\ SameOffer(e, z) /\ SameQueues(e, z)
          /\ z.out = e.out /\ z.zapped = e.zapped /\ z.dead = e.dead /\ z.timers = e.timers
      BY <2>3 DEF Record, Fields, SameQueue, SameOffer, SameQueues
    <3> HIDE DEF z
    <3>2. /\ SameQueue(s, e) /\ SameQueues(s, e)
          /\ e.out = s.out /\ e.zapped = s.zapped /\ e.dead = s.dead
      BY <1>2 DEF StartFields, SameLife
    <3>3. SameQueue(s, z) /\ SameQueues(s, z)
      BY <3>1, <3>2 DEF SameQueue, SameQueues
    <3>4. SameOffer(s, z)
      BY <1>6, <3>1, <3>2 DEF SameOffer, SameQueues
    <3> QED BY <3>1, <3>2, <3>3, <3>4
  <2> HIDE DEF z
  <2>9. /\ 1 <= s.rcv_nxt => Closes(s, w) /\ w.timers = z.timers
        /\ Closes(s, c) /\ c.timers = z.timers
    <3>1. s.rcv_nxt \in Int /\ s.snd_nxt \in Int /\ Record(s)
      BY <1>5, RunsFacts
    <3> QED BY <2>8, <3>1, ClosingFacts
  <2> HIDE DEF w, c
  <2>10. /\ 1 <= s.rcv_nxt => ("RETRANS" \in w.timers => "RETRANS" \in s.timers)
         /\ "RETRANS" \in c.timers => "RETRANS" \in s.timers
    BY <1>2, <2>8, <2>9
  <2>11. (1 <= s.rcv_nxt => Steady(s, w, y)) /\ Steady(s, c, y)
    BY <1>5, <2>9, <2>10, ClosesStep
  <2>12. e.state \in {"FIN_WAIT1", "FIN_WAIT2", "CLOSING"} => 1 <= s.rcv_nxt
    <3>1. e.state = s.state /\ s.rcv_nxt \in Int
      BY <1>1, <1>2 DEF StartFields, SameLife, Open, ReceiverOK
    <3> QED BY <1>1, <3>1 DEF Open, Come
  <2> QED BY <1>3, <2>7, <2>11, <2>12 DEF t
<1> QED BY <1>4, <1>5 DEF Used

(***************************************************************************)
(* The keepalive timer and the timer of the socket layer.                  *)
(***************************************************************************)
(* atcp_keepopen_proc. *)
LEMMA KeepopenStep ==
  ASSUME NEW s, NEW y, Used(s, y), NEW n
  PROVE  Steady(s, atcp_keepopen_proc(s, n), y)
<1> DEFINE g == [atcp_set_state([s EXCEPT !.err = TRUE], "CLOSE")
                   EXCEPT !.shutdown = {"RCV", "SEND"}]
           k == [s EXCEPT !.probes_out = @ + 1, !.pending = "KEEPOPEN"]
           w == atcp_write_wakeup(k)
           u == s.snd_una
           v == ViewAt(s, y)
           t == atcp_keepopen_proc(s, n)
<1>1. t = s \/ (s.state # "CLOSE" /\ (t = g \/ t = w))
  BY DEF atcp_keepopen_proc
<1>2. Record(s) /\ Open(s, v) /\ Steady(s, s, y)
  BY UsedTypes, SteadyRefl
<1> HIDE DEF t
<1>3. ASSUME s.state # "CLOSE"
      PROVE  Steady(s, g, y) /\ Steady(s, w, y)
  <2>1. Runs(s, y)
    BY <1>3 DEF Used, Shut
  <2>2. QueueOK(s, u, v)
    BY <2>1, RunsFacts
  <2>3. Closes(s, g) /\ g.timers = s.timers
    BY <1>2 DEF atcp_set_state, net_reset_timer, Record, Fields, SameQueue, SameOffer,
       SameQueues, Closes
  <2>4. StartFields(s, k) /\ k.timers = s.timers
    BY <1>2 DEF StartFields, Record, Fields, SameLife, SameQueue, SameQueues, SameWindow
  <2> HIDE DEF g, k, v
  <2>5. Steady(s, g, y)
    BY <2>1, <2>3, ClosesStep
  <2>6. Keeps(s, k, u, v)
    BY <1>2, <2>2, <2>4, FrameKeeps
  <2>7. Open(k, v) /\ QueueOK(k, u, v)
    BY <2>6 DEF Keeps, Grows, Outputs
  <2>8. Keeps(k, w, u, v)
    BY <2>7, WakeupKeeps
  <2>9. Keeps(s, w, u, v)
    BY <1>2, <2>2, <2>6, <2>8, KeepsTrans
  <2> QED BY <2>1, <2>5, <2>9, KeepsStep DEF v
<1> QED BY <1>1, <1>2, <1>3 DEF t

(* net_timer, which may destroy the socket. *)
LEMMA NetTimerStep ==
  ASSUME NEW s, NEW y, Used(s, y)
  PROVE  LET t == net_timer(s, FALSE)
         IN \/ Steady(s, t, y)
            \/ Gone(t, y) /\ t.rcv_nxt = s.rcv_nxt /\ s.dead
<1> DEFINE a == IF s.delayed_acks # 0 /\ ~s.zapped /\ s.state # "CLOSE"
                THEN atcp_send_ack(s) ELSE s
           c == [atcp_set_state(a, "CLOSE") EXCEPT !.shutdown = {"RCV", "SEND"}]
           d == atcp_v4_destroy_sock(a)
           n == [a EXCEPT !.msl = "none"]
           t == net_timer(s, FALSE)
<1>1. t = c \/ (s.dead /\ s.state = "CLOSE" /\ t = d) \/ t = n \/ t = a
  BY DEF net_timer
<1>2. /\ Steady(s, a, y) /\ a.dead = s.dead /\ a.rcv_nxt = s.rcv_nxt /\ (Shut(s, y) => Shut(a, y))
      /\ (Runs(s, y) => Runs(a, y)) /\ a.state = s.state
  <2>1. CASE s.delayed_acks # 0 /\ ~s.zapped /\ s.state # "CLOSE"
    <3>1. Runs(s, y) /\ ~Shut(s, y)
      BY <2>1 DEF Used, Shut
    <3> DEFINE v == ViewAt(s, y)
    <3>2. Open(s, v) /\ QueueOK(s, s.snd_una, v)
      BY <3>1, RunsFacts
    <3>3. v.up
      <4>1. s.state # "SYN_SENT"
        BY <2>1, <3>2 DEF Open, Come
      <4> QED BY <3>2, <4>1 DEF Open, Come
    <3> HIDE DEF v
    <3>4. Keeps(s, atcp_send_ack(s), s.snd_una, v)
      BY <3>2, <3>3, SendAckKeeps
    <3>5. /\ Steady(s, atcp_send_ack(s), y) /\ Runs(atcp_send_ack(s), y)
          /\ atcp_send_ack(s).state = s.state
      BY <3>1, <3>4, KeepsStep DEF v
    <3>6. atcp_send_ack(s).dead = s.dead /\ atcp_send_ack(s).rcv_nxt = s.rcv_nxt
      BY <3>4 DEF Keeps, Grows, Outputs, SameLife, SameQueues
    <3> QED BY <2>1, <3>1, <3>5, <3>6
  <2>2. CASE ~(s.delayed_acks # 0 /\ ~s.zapped /\ s.state # "CLOSE")
    BY <2>2, SteadyRefl
  <2> QED BY <2>1, <2>2
<1> HIDE DEF a, t
<1>3. /\ Used(a, y) /\ Record(a) /\ Open(a, ViewAt(a, y)) /\ Counted(a, y)
  BY <1>2, UsedTypes DEF Steady, Step, Used, Shut, Runs
<1>4. s.dead /\ s.state = "CLOSE" => Gone(d, y) /\ d.rcv_nxt = s.rcv_nxt
  <2> HAVE s.dead /\ s.state = "CLOSE"
  <2>1. /\ Record(d) /\ d.state = "GONE" /\ d.dead = a.dead /\ d.timers = {} /\ d.msl = "none"
        /\ d.rq = <<>> /\ d.ofo = <<>> /\ d.sacks = a.sacks /\ d.in_hand = a.in_hand
        /\ d.out = a.out /\ d.rcv_nxt = a.rcv_nxt /\ SameOffer(a, d) /\ d.write_seq = a.write_seq
    BY <1>3 DEF atcp_v4_destroy_sock, atcp_clear_xmit_timers, Record, Fields, SameOffer
  <2> HIDE DEF d
  <2>2. Open(a, Up(y)) /\ ViewAt(d, y) = Up(y)
    <3>1. a.state = "CLOSE"
      BY <1>2
    <3> QED BY <1>3, <2>1, <3>1, UpView
  <2>3. HoldsOK(d.rq, Up(y)) /\ HoldsOK(d.ofo, Up(y))
    BY <2>1, BuffersEmpty
  <2>5. ReceiverOK(d) /\ BucketAcks(d.tw, d.rcv_nxt)
    BY <2>1, <2>2, <2>3 DEF Open, ReceiverOK, Come, HoldsOK, SameOffer
  <2>6. Open(d, Up(y))
    <3>1. a.state # "SYN_SENT"
      BY <1>2
    <3> QED BY <2>1, <2>2, <2>3, <2>5, <3>1 DEF Open, Come, HoldsOK
  <2>7. Counted(d, y)
    BY <1>3, <2>1 DEF Counted, Writing
  <2> QED BY <1>2, <2>1, <2>2, <2>6, <2>7 DEF Gone
<1> HIDE DEF d
<1>5. Steady(a, c, y)
  <2>1. Closes(a, c) /\ c.timers = a.timers
    BY <1>3 DEF atcp_set_state, net_reset_timer, Record, Fields, SameQueue, SameOffer,
       SameQueues, Closes
  <2> HIDE DEF c
  <2>2. CASE Shut(a, y)
    BY <2>1, <2>2, ShutSame DEF SameQueue, Closes
  <2>3. CASE Runs(a, y)
    BY <2>1, <2>3, ClosesStep
  <2> QED BY <1>3, <2>2, <2>3 DEF Used
<1>6. Steady(a, n, y)
  <2>1. StartFields(a, n) /\ n.timers = a.timers
    BY <1>3 DEF StartFields, Record, Fields, SameLife, SameQueue, SameQueues, SameWindow
  <2> HIDE DEF n
  <2>2. CASE Shut(a, y)
    <3>1. SameOffer(a, n)
      BY <2>1 DEF StartFields, SameWindow, SameOffer
    <3> QED BY <2>1, <2>2, <3>1, ShutSame DEF StartFields, SameLife, SameQueue, Shut
  <2>3. CASE Runs(a, y)
    <3>1. QueueOK(a, a.snd_una, ViewAt(a, y))
      BY <2>3, RunsFacts
    <3>2. Keeps(a, n, a.snd_una, ViewAt(a, y))
      BY <1>3, <2>1, <3>1, FrameKeeps
    <3> QED BY <2>3, <3>2, KeepsStep
  <2> QED BY <1>3, <2>2, <2>3 DEF Used
<1> HIDE DEF c, n
<1>7. Steady(s, c, y) /\ Steady(s, n, y)
  BY <1>2, <1>5, <1>6, SteadyTrans
<1> QED BY <1>1, <1>2, <1>4, <1>7 DEF t

(***************************************************************************)
(* sendmsg                                                                 *)
(***************************************************************************)
(* The bytes a user writes, or reads. *)
LEMMA BytesFacts ==
  ASSUME NEW from \in Int, NEW n \in Nat
  PROVE  /\ IsSeq(Bytes(from, n)) /\ Len(Bytes(from, n)) = n
         /\ InOrder(Bytes(from, n), from)
<1> DEFINE d == Bytes(from, n)
<1>1. DOMAIN d = 1..n /\ d = [i \in DOMAIN d |-> d[i]] /\ \A i \in 1..n : d[i] = from + i - 1
  BY DEF Bytes
<1> HIDE DEF d
<1>2. IsSeq(d) /\ Len(d) = n
  BY <1>1, FunctionIsSeq
<1> QED BY <1>1, <1>2 DEF d, InOrder

(* Two pieces in order, the second behind the first, are one. *)
LEMMA InOrderConcat ==
  ASSUME NEW a, IsSeq(a), NEW b, IsSeq(b), NEW n \in Int, InOrder(a, n), InOrder(b, n + Len(a))
  PROVE  InOrder(a \o b, n)
<1> DEFINE d == a \o b
<1>1. /\ Len(d) = Len(a) + Len(b) /\ Len(a) \in Nat /\ Len(b) \in Nat
      /\ \A i \in 1..Len(a) : d[i] = a[i]
      /\ \A i \in (Len(a) + 1)..(Len(a) + Len(b)) : d[i] = b[i - Len(a)]
  BY ConcatFacts, SeqFacts
<1> HIDE DEF d
<1>2. ASSUME NEW j \in 1..Len(d) PROVE d[j] = n + j - 1
  <2>1. CASE j \in 1..Len(a)
    BY <2>1, <1>1 DEF InOrder
  <2>2. CASE j \notin 1..Len(a)
    <3>1. j \in (Len(a) + 1)..(Len(a) + Len(b)) /\ j - Len(a) \in 1..Len(b)
      BY <2>2, <1>1
    <3>2. d[j] = b[j - Len(a)]
      BY <3>1, <1>1
    <3>3. b[j - Len(a)] = (n + Len(a)) + (j - Len(a)) - 1
      BY <3>1 DEF InOrder
    <3> DEFINE m == Len(a)
    <3>4. d[j] = (n + m) + (j - m) - 1 /\ m \in Int
      BY <3>2, <3>3, <1>1
    <3> HIDE DEF m
    <3> QED BY <3>4
  <2> QED BY <2>1, <2>2
<1> QED BY <1>2 DEF InOrder, d

(* Bytes tacked on to the last buffer, which was not sent, keep the queue  *)
(* whole.                                                                  *)
LEMMA TackOnGrows ==
  ASSUME NEW s, NEW u, NEW y, Open(s, y), QueueOK(s, u, y), s.send_head # Null,
         ~y.fin, NEW m \in Nat, s.write_seq + m <= y.last
  PROVE  Grows(s, TackOn(s, m), u, y) /\ TackOn(s, m).write_seq = s.write_seq + m
<1> DEFINE n == Len(s.wq)
           c == s.wq[n]
           more == Bytes(s.write_seq, m)
           b == [c EXCEPT !.data = @ \o more, !.end = @ + m]
           t == TackOn(s, m)
<1>1. n \in Nat /\ n \in 1..n /\ s.wq # <<>> /\ n \in DOMAIN s.wq
      /\ s.send_head \in 1..n
  <2>1. s.send_head \in 1..Len(s.wq) /\ Len(s.wq) \in Nat /\ (s.wq = <<>> <=> Len(s.wq) = 0)
    BY SentFacts DEF QueueOK
  <2>2. DOMAIN s.wq = 1..Len(s.wq)
    BY ChainFacts DEF QueueOK, QueueTypes
  <2> QED BY <2>1, <2>2
<1>2. SkbOK(c, u, y) /\ c.seq \in Int /\ c.end \in Int /\ c.seq < c.end /\ Len(c.data) \in Nat
      /\ c.seq + Len(c.data) <= c.end
  BY <1>1, ChainFacts DEF QueueOK, QueueTypes
<1>3. c.end = s.write_seq /\ s.write_seq \in Int /\ y.last \in Int /\ s.write_seq \in Nat
  BY <1>1 DEF QueueOK, QueueTypes, Whole, Open, Come, ViewOK
<1>14. ~c.syn /\ ~c.fin /\ c.ack /\ c.seq >= 1 /\ y.up
  <2>1. ~c.fin
    BY <1>2 DEF SkbOK, InStream
  <2>2. CASE s.send_head = n
    <3>1. c.seq = s.snd_nxt /\ s.snd_nxt >= 1 /\ s.snd_nxt \in Nat
      BY <1>1, <2>2 DEF QueueOK, QueueTypes, Whole
    <3> QED BY <2>1, <3>1, <1>2 DEF SkbOK, InStream
  <2>3. CASE s.send_head # n
    <3>1. n > 1
      BY <1>1, <2>3
    <3>2. ChainOK(s.wq, u, y) /\ n \in 1..Len(s.wq)
      BY <1>1 DEF QueueOK, QueueTypes
    <3>3. ~c.syn
      BY <3>1, <3>2, ChainEnds
    <3> QED BY <2>1, <3>3, <1>2 DEF SkbOK, InStream
  <2> QED BY <2>2, <2>3
<1>15. c.end = c.seq + Len(c.data) /\ InOrder(c.data, c.seq) /\ IsSeq(c.data)
  BY <1>2, <1>14 DEF SkbOK, SkbTypes, InStream
<1>4. t.wq = [s.wq EXCEPT ![n] = b]
  BY <1>1 DEF TackOn, Open, Record, Fields
<1>5. /\ Record(t) /\ SameLife(s, t) /\ SameQueues(s, t) /\ SameWindow(s, t) /\ t.out = s.out
      /\ t.timers = s.timers /\ t.retrans_head = s.retrans_head /\ t.snd_una = s.snd_una
      /\ t.snd_nxt = s.snd_nxt /\ t.snd_wnd = s.snd_wnd /\ t.max_window = s.max_window
      /\ t.write_seq = s.write_seq + m /\ t.fackets_out = s.fackets_out
      /\ t.high_seq = s.high_seq /\ t.packets_out = s.packets_out /\ t.send_head = s.send_head
  BY DEF TackOn, Open, Record, Fields, SameLife, SameQueues, SameWindow
<1>6. IsSeq(more) /\ Len(more) = m /\ InOrder(more, s.write_seq)
  BY <1>3, BytesFacts
<1> HIDE DEF t, c, more
<1>7. /\ SkbFields \subseteq DOMAIN b /\ b.seq = c.seq /\ b.end = c.end + m
      /\ b.data = c.data \o more /\ b.ack = c.ack /\ b.fin = c.fin
      /\ b.cap = c.cap /\ b.syn = c.syn /\ b.retrans = c.retrans
  BY <1>2 DEF SkbOK, SkbTypes, SkbFields
<1>8. IsSeq(b.data) /\ Len(b.data) = Len(c.data) + m /\ InOrder(b.data, b.seq)
  <2> DEFINE d == b.data
             cd == c.data
  <2>2. d = cd \o more /\ IsSeq(cd) /\ InOrder(cd, c.seq)
    BY <1>7, <1>15
  <2>4. InOrder(more, c.seq + Len(cd)) /\ c.seq \in Int
    BY <1>3, <1>6, <1>15, <1>2
  <2> HIDE DEF d, b, cd
  <2>3. IsSeq(d) /\ Len(d) = Len(cd) + Len(more) /\ InOrder(d, c.seq)
    BY <1>6, <2>2, <2>4, ConcatFacts, InOrderConcat
  <2> QED BY <1>6, <1>7, <2>3 DEF d, cd
<1> HIDE DEF b
<1>9. SkbOK(b, u, y)
  <2>1. b.seq < b.end /\ b.seq + Len(b.data) <= b.end /\ b.end \in Int
        /\ b.end = b.seq + Len(b.data) /\ b.seq + Len(b.data) <= y.last
    BY SMTT(30), <1>2, <1>3, <1>7, <1>8, <1>15
  <2>2. y.last \in Nat
    BY DEF Open, Come, ViewOK
  <2>3. SkbTypes(b)
    BY <2>1, <1>2, <1>7, <1>8 DEF SkbOK, SkbTypes
  <2>4. b.seq >= 0
    BY <1>2, <1>7, <1>14
  <2>5. InStream(b, u, y)
    BY <2>1, <2>2, <2>4, <1>7, <1>8, <1>14 DEF InStream
  <2> QED BY <2>3, <2>5 DEF SkbOK
<1>10. b.seq = s.wq[Len(s.wq)].seq /\ b.end >= s.write_seq /\ t.write_seq = b.end
       /\ b.retrans = s.wq[Len(s.wq)].retrans
  BY <1>2, <1>3, <1>5, <1>7 DEF c
<1>16. s.wq[Len(s.wq)].data # <<>>
  <2>1. Len(c.data) # 0
    BY <1>2, <1>15
  <2> QED BY <2>1, <1>15, SeqFacts DEF c
<1>11. /\ QueueOK(t, u, y) /\ Outputs(s, t, y)
       /\ HeadOK(s, u) => HeadOK(t, u)
  BY <1>4, <1>5, <1>9, <1>10, <1>16, GrowFacts
<1>12. Grows(s, t, u, y)
  BY <1>5, <1>11 DEF Grows, Timed, SameLife
<1> QED BY <1>5, <1>12 DEF t

(* A new buffer of bytes keeps it. *)
LEMMA NewBufferGrows ==
  ASSUME NEW s, NEW u, NEW y, Open(s, y), QueueOK(s, u, y), y.up, s.write_seq >= 1,
         NEW n \in Nat, n >= 1, s.write_seq + n <= y.last
  PROVE  Grows(s, NewBuffer(s, n), u, y) /\ NewBuffer(s, n).write_seq = s.write_seq + n
<1> DEFINE mss == atcp_current_mss(s)
           queue_it == n < Smaller(mss, s.max_window \div 2)
           cap == IF queue_it THEN Smaller(mss, s.max_window) ELSE n
           data == Bytes(s.write_seq, n)
           flags == {"ACK"}
           b == Skb(s.write_seq, data, cap, flags)
<1>1. NewBuffer(s, n) = atcp_send_skb(s, b, queue_it)
  BY DEF NewBuffer
<1>2. mss \in Nat /\ s.max_window \in Nat /\ s.write_seq \in Nat
  BY MssFacts DEF QueueOK, QueueTypes
<1> HIDE DEF mss, queue_it
<1>3. cap \in Int
  BY <1>2 DEF Smaller
<1>4. IsSeq(data) /\ Len(data) = n /\ InOrder(data, s.write_seq)
  <2>1. s.write_seq \in Int
    BY <1>2
  <2> QED BY <2>1, BytesFacts
<1>6. data # <<>>
  <2> HIDE DEF data
  <2> QED BY <1>4, SeqFacts
<1>8. ViewOK(y)
  BY DEF Open, Come
<1> HIDE DEF cap, data
<1> DEFINE w == s.write_seq
<1>5. /\ flags = {"ACK"} /\ data # <<>> /\ y.up /\ w >= 1
      /\ InOrder(data, w) /\ w + Len(data) <= y.last
  BY <1>4, <1>6
<1> HIDE DEF flags
<1>12. w \in Nat /\ b = Skb(w, data, cap, flags) /\ IsSeq(data)
  BY <1>2, <1>4
<1>14. "SYN" \notin flags
  BY DEF flags
<1> HIDE DEF w, b
<1>15. \/ /\ flags = {"ACK"} /\ data # <<>> /\ y.up /\ w >= 1
          /\ InOrder(data, w) /\ w + Len(data) <= y.last
       \/ flags = {"SYN"} /\ data = <<>> /\ y.calls /\ w = 0
       \/ flags = {"ACK", "FIN"} /\ data = <<>> /\ y.up /\ y.fin /\ w = y.last
  BY <1>5
<1>16. LET k == Skb(w, data, cap, flags)
       IN /\ SkbOK(k, u, y) /\ k.seq = w /\ (k.syn => "SYN" \in flags)
          /\ k.end = IF flags = {"ACK"} THEN w + Len(data) ELSE w + 1
  <2>1. w \in Nat /\ IsSeq(data) /\ cap \in Int
    BY <1>3, <1>12
  <2> QED BY ONLY <1>8, <1>15, <2>1, SkbFacts
<1>13. LET k == Skb(w, data, cap, flags)
       IN SkbOK(k, u, y) /\ k.seq = w /\ (k.syn => "SYN" \in flags) /\ k.end = w + Len(data)
  BY <1>5, <1>16
<1>7. SkbOK(b, u, y) /\ b.seq = s.write_seq /\ ~b.syn /\ b.end = s.write_seq + n
  BY <1>12, <1>13, <1>14, <1>4 DEF w
<1> HIDE DEF b
<1> QED BY <1>1, <1>7, SendSkbKeeps

SendTurn(q, i, x) ==
  LET tack == Smaller(TackRoom(x.s), x.left)
      copy == CopySize(x.s, x.left)
  IN IF x.left = 0 THEN x
     ELSE IF tack > 0 THEN [s |-> TackOn(x.s, tack), left |-> x.left - tack]
     ELSE [s |-> NewBuffer(x.s, copy), left |-> x.left - copy]
SendRel(p, i, x) ==
  x.left \in Nat /\ Grows(p.s, x.s, p.u, p.y) /\ x.s.write_seq + x.left = p.y.last
    /\ x.s.write_seq >= 1 /\ (x.left = 0 \/ x.left + i <= p.len)
Sending == INSTANCE Iteration WITH Step <- SendTurn, Rel <- SendRel

(* One turn of the loop of atcp_do_sendmsg keeps it. *)
LEMMA SendTurnFacts ==
  ASSUME NEW p, Open(p.s, p.y), QueueOK(p.s, p.u, p.y), p.y.up, ~p.y.fin, p.len \in Nat,
         NEW q, NEW j \in Nat, NEW x, SendRel(p, j - 1, x)
  PROVE  SendRel(p, j, SendTurn(q, j, x))
<1> DEFINE s == x.s
           left == x.left
           last == p.y.last
           tack == Smaller(TackRoom(s), left)
           copy == CopySize(s, left)
<1>1. \/ left = 0
      \/ left # 0 /\ tack > 0 /\ SendTurn(q, j, x) = [s |-> TackOn(s, tack), left |-> left - tack]
      \/ left # 0 /\ SendTurn(q, j, x) = [s |-> NewBuffer(s, copy), left |-> left - copy]
  BY DEF SendTurn
<1>2. /\ left \in Nat /\ Grows(p.s, s, p.u, p.y) /\ Open(s, p.y) /\ QueueOK(s, p.u, p.y)
      /\ s.write_seq + left = last /\ s.write_seq >= 1 /\ s.write_seq \in Nat
  BY DEF SendRel, Grows, Outputs, QueueOK, QueueTypes
<1>5. last \in Int
  BY <1>2 DEF Open, Come, ViewOK
<1>6. left = 0 \/ left + (j - 1) <= p.len
  BY DEF SendRel
<1> HIDE DEF s, left
<1>3. CASE left # 0 /\ tack > 0
           /\ SendTurn(q, j, x) = [s |-> TackOn(s, tack), left |-> left - tack]
  <2> DEFINE skb == s.wq[Len(s.wq)]
             room == Smaller(atcp_current_mss(s), skb.cap) - Len(skb.data)
  <2>1. TackRoom(s) = 0 \/ (s.send_head # Null /\ TackRoom(s) = Larger(0, room))
    BY DEF TackRoom
  <2> HIDE DEF room
  <2>2. TackRoom(s) # 0
    BY <1>2, <1>3 DEF Smaller
  <2>3. s.send_head # Null
    BY <2>1, <2>2
  <2>4. TackRoom(s) \in Nat
    <3>1. s.send_head \in 1..Len(s.wq) /\ Len(s.wq) \in 1..Len(s.wq)
      BY <1>2, <2>3, SentFacts DEF QueueOK
    <3>2. SkbOK(skb, p.u, p.y) /\ Len(skb.data) \in Nat
      BY <1>2, <3>1, ChainFacts DEF QueueOK, QueueTypes
    <3>3. atcp_current_mss(s) \in Nat /\ skb.cap \in Int
      BY <1>2, <3>2, MssFacts DEF SkbOK, SkbTypes
    <3>5. Smaller(atcp_current_mss(s), skb.cap) \in Int
      BY <3>3 DEF Smaller
    <3>4. room \in Int
      BY SMTT(30), <3>2, <3>5 DEF room
    <3> QED BY <2>1, <3>4 DEF Larger
  <2>5. tack \in Nat /\ left - tack \in Nat
    BY <1>2, <2>4 DEF Smaller
  <2>10. (left - tack) + j <= p.len
    <3> HIDE DEF tack
    <3> QED BY <1>2, <1>3, <1>6, <2>5
  <2> HIDE DEF tack, last
  <2>8. s.write_seq + tack <= last
    BY <1>2, <1>5, <2>5
  <2>6. Grows(s, TackOn(s, tack), p.u, p.y) /\ TackOn(s, tack).write_seq = s.write_seq + tack
    BY <1>2, <2>3, <2>5, <2>8, TackOnGrows DEF last
  <2>7. Grows(p.s, TackOn(s, tack), p.u, p.y)
    BY <1>2, <2>6, GrowsTrans
  <2>9. (s.write_seq + tack) + (left - tack) = last /\ s.write_seq + tack >= 1
    BY <1>2, <1>5, <2>5
  <2> QED BY <1>3, <2>5, <2>6, <2>7, <2>9, <2>10 DEF SendRel, last
<1>4. CASE left # 0 /\ SendTurn(q, j, x) = [s |-> NewBuffer(s, copy), left |-> left - copy]
  <2> DEFINE mss == atcp_current_mss(s)
             room == s.snd_wnd - (s.snd_nxt - s.snd_una)
             most == IF room >= 0 /\ room > s.max_window \div 2 THEN Smaller(room, mss) ELSE mss
  <2>1. copy = Smaller(most, left)
    BY DEF CopySize
  <2>7. mss \in Nat /\ mss >= 1
    BY <1>2, MssFacts
  <2>8. s.snd_wnd \in Int /\ s.snd_nxt \in Nat /\ s.snd_una \in Nat /\ s.max_window \in Nat
    BY <1>2 DEF QueueOK, QueueTypes
  <2>9. room \in Int /\ s.max_window \div 2 \in Nat
    BY <2>8
  <2>2. mss \in Nat /\ mss >= 1 /\ room \in Int /\ s.max_window \div 2 \in Nat
    BY <2>7, <2>9
  <2> HIDE DEF mss, room, copy, last
  <2>3. most \in Nat /\ most >= 1
    BY <2>2 DEF Smaller
  <2> HIDE DEF most
  <2>4. copy \in Nat /\ copy >= 1 /\ left - copy \in Nat
    BY <1>2, <1>4, <2>1, <2>3 DEF Smaller
  <2>10. s.write_seq + copy <= last
    BY <1>2, <1>5, <2>4
  <2>5. Grows(s, NewBuffer(s, copy), p.u, p.y) /\ NewBuffer(s, copy).write_seq = s.write_seq + copy
    BY <1>2, <2>4, <2>10, NewBufferGrows DEF last
  <2>6. Grows(p.s, NewBuffer(s, copy), p.u, p.y)
    BY <1>2, <2>5, GrowsTrans
  <2>11. (s.write_seq + copy) + (left - copy) = last /\ s.write_seq + copy >= 1
    BY <1>2, <1>5, <2>4
  <2>12. (left - copy) + j <= p.len
    BY <1>2, <1>4, <1>6, <2>4
  <2> QED BY <1>4, <2>4, <2>5, <2>6, <2>11, <2>12 DEF SendRel, last
<1>7. CASE left = 0
  <2>1. SendTurn(q, j, x) = x
    BY <1>7 DEF SendTurn, left
  <2> QED BY <2>1, <1>7 DEF SendRel, left
<1> QED BY <1>1, <1>3, <1>4, <1>7

(* atcp_do_sendmsg puts all the bytes into the queue. *)
LEMMA SendMsgGrows ==
  ASSUME NEW s, NEW u, NEW y, Open(s, y), QueueOK(s, u, y), y.up, ~y.fin, NEW len \in Nat,
         s.write_seq + len = y.last, s.write_seq >= 1
  PROVE  Grows(s, atcp_do_sendmsg(s, len), u, y) /\ atcp_do_sendmsg(s, len).write_seq = y.last
<1> DEFINE q == 0
           x == [s |-> s, left |-> len]
           r == Sending!Result(q, x, len)
           z == r.s
           p == [s |-> s, u |-> u, y |-> y, len |-> len]
<1>1. p.s = s /\ p.u = u /\ p.y = y /\ x.s = s /\ x.left = len /\ p.len = len
  OBVIOUS
<1>2. atcp_do_sendmsg(s, len) = atcp_push_pending_frames(r.s)
  BY DEF atcp_do_sendmsg, Repeat, Sending!Result, SendTurn
<1> HIDE DEF p, q, x
<1>3. SendRel(p, 0, x)
  BY <1>1, KeepsRefl DEF SendRel, Keeps
<1>4. \A i \in 1..len : \A w : SendRel(p, i - 1, w) => SendRel(p, i, SendTurn(q, i, w))
  BY <1>1, SendTurnFacts
<1>5. SendRel(p, len, r)
  BY <1>3, <1>4, Sending!AfterTurns
<1> HIDE DEF r
<1>6. /\ Grows(s, z, u, y) /\ r.left \in Nat /\ z.write_seq + r.left = y.last
      /\ r.left = 0 \/ r.left + len <= len
  BY <1>1, <1>5 DEF SendRel
<1>7. Open(z, y) /\ QueueOK(z, u, y) /\ z.write_seq \in Nat
  BY <1>6 DEF Grows, Outputs, QueueOK, QueueTypes
<1>8. r.left = 0 /\ z.write_seq = y.last
  BY <1>6, <1>7
<1> HIDE DEF z
<1>9. Keeps(z, atcp_push_pending_frames(z), u, y)
  BY <1>7, PushKeeps
<1>10. Grows(s, atcp_push_pending_frames(z), u, y)
  BY <1>6, <1>9, GrowsTrans DEF Keeps
<1> QED BY <1>2, <1>8, <1>9, <1>10 DEF z, Keeps

(***************************************************************************)
(* The views a step is seen in.                                            *)
(***************************************************************************)
(* A view that grows does for a socket, too. *)
LEMMA WiderAt ==
  ASSUME NEW y, NEW z, Wider(y, z), NEW up
  PROVE  Wider(With(y, up), With(z, up))
<1> DEFINE a == With(y, up)
           b == With(z, up)
<1>1. /\ a.calls = y.calls /\ a.up = up /\ a.last = y.last /\ a.fin = y.fin
      /\ a.seen = y.seen /\ a.theirs = y.theirs /\ a.ended = y.ended
      /\ (ViewOK(a) <=> ViewOK(y))
  BY Zenon DEF With, ViewOK
<1>2. /\ b.calls = z.calls /\ b.up = up /\ b.last = z.last /\ b.fin = z.fin
      /\ b.seen = z.seen /\ b.theirs = z.theirs /\ b.ended = z.ended
      /\ (ViewOK(b) <=> ViewOK(z))
  BY Zenon DEF With, ViewOK
<1> HIDE DEF a, b
<1>3. Wider(a, b)
  BY <1>1, <1>2 DEF Wider
<1> QED BY <1>3 DEF a, b

(* More was written, and the socket sent it. *)
LEMMA GrowsStep ==
  ASSUME NEW s, NEW t, NEW z, Good(s, ViewAt(s, z)), ~s.zapped, s.state \in Running,
         s.state = "SYN_SENT" => z.calls, Grows(s, t, s.snd_una, ViewAt(s, z)), Counted(t, z)
  PROVE  Steady(s, t, z) /\ Runs(t, z) /\ t.state = s.state
<1>1. /\ QueueOK(t, s.snd_una, ViewAt(s, z)) /\ Outputs(s, t, ViewAt(s, z)) /\ Timed(t)
      /\ HeadOK(t, s.snd_una)
  BY DEF Grows, Good, GoodAt
<1>2. SameLife(s, t) /\ Edge(s, t) /\ Open(t, ViewAt(s, z)) /\ SameQueues(s, t)
  BY <1>1 DEF Outputs
<1>3. ViewAt(t, z) = ViewAt(s, z)
  BY <1>2 DEF SameLife, ViewAt
<1>4. Good(t, ViewAt(t, z))
  BY <1>1, <1>2, <1>3 DEF Good, GoodAt, SameLife
<1>5. Runs(t, z)
  BY <1>2, <1>4 DEF Runs, SameLife
<1>6. Line(s, t) /\ t.rcv_nxt = s.rcv_nxt /\ s.rcv_nxt \in Int
  BY <1>2, SameLine DEF SameQueues, Good, GoodAt, Open, ReceiverOK
<1>7. t.rcv_nxt >= s.rcv_nxt
  BY <1>6
<1> QED BY <1>2, <1>5, <1>6, <1>7 DEF Steady, Step, Used, SameLife

(* atcp_do_sendmsg: in the view of the time after it, n bytes more are     *)
(* written.                                                                *)
LEMMA SendMsgStep ==
  ASSUME NEW s, NEW y, NEW z, Runs(s, y), s.state \in {"ESTABLISHED", "CLOSE_WAIT"}, Wider(y, z),
         NEW n \in Nat, z.last = y.last + n, ~z.fin
  PROVE  Steady(s, atcp_do_sendmsg(s, n), z) /\ Runs(atcp_do_sendmsg(s, n), z)
<1> DEFINE t == atcp_do_sendmsg(s, n)
           u == s.snd_una
           v == ViewAt(s, z)
<1>1. Good(s, ViewAt(s, y)) /\ ~s.zapped /\ s.state \in Running /\ Counted(s, y)
  BY DEF Runs
<1>2. Wider(ViewAt(s, y), v)
  BY WiderAt DEF ViewAt
<1>3. Good(s, v) /\ v = Up(z)
  BY <1>1, <1>2, WiderGood, UpView
<1> HIDE DEF v
<1>4. v.up /\ v.last = z.last /\ v.fin = z.fin
  <2>1. v = [calls |-> z.calls, up |-> TRUE, last |-> z.last, fin |-> z.fin, seen |-> z.seen,
             theirs |-> z.theirs, ended |-> z.ended]
    BY <1>3 DEF Up, With
  <2> QED BY <2>1
<1>5. s.write_seq = y.last /\ y.last \in Nat \ {0}
  BY <1>1 DEF Counted, Writing, Flag, Wider, ViewOK
<1>6. s.write_seq + n = v.last /\ s.write_seq >= 1
  BY <1>4, <1>5
<1>7. Open(s, v) /\ QueueOK(s, u, v)
  BY <1>3 DEF Good, GoodAt
<1>8. Grows(s, t, u, v) /\ t.write_seq = v.last
  BY <1>4, <1>6, <1>7, SendMsgGrows
<1> HIDE DEF t
<1>9. z.last \in Int
  BY DEF Wider, ViewOK
<1>10. Counted(t, z)
  BY <1>4, <1>8, <1>9 DEF Counted, Flag
<1>11. Steady(s, t, z) /\ Runs(t, z)
  <2>1. Good(s, ViewAt(s, z)) /\ Grows(s, t, s.snd_una, ViewAt(s, z))
    BY <1>3, <1>8 DEF v
  <2>2. s.state # "SYN_SENT"
    OBVIOUS
  <2> QED BY <1>1, <1>10, <2>1, <2>2, GrowsStep
<1> QED BY <1>11 DEF t

(***************************************************************************)
(* recvmsg                                                                 *)
(***************************************************************************)
(* How many bytes have been read: those before copied_seq, without the     *)
(* numbers of the SYN and of the FIN.                                      *)
Place(s, y) == Larger(0, Smaller(s.copied_seq, y.theirs) - 1)

Gives(s, b) == Offset(s, b) < Len(b.data) \/ b.fin

(* The buffer to be read is the first that gives something. *)
LEMMA ReadableFacts ==
  ASSUME NEW s, IsSeq(s.rq), Readable(s) # 0
  PROVE  /\ Readable(s) \in 1..Len(s.rq) /\ Gives(s, s.rq[Readable(s)])
         /\ \A j \in 1..(Readable(s) - 1) : ~Gives(s, s.rq[j])
<1> DEFINE I == {i \in 1..Len(s.rq) : Offset(s, s.rq[i]) < Len(s.rq[i].data) \/ s.rq[i].fin}
           k == Readable(s)
<1>1. k = IF I # {} THEN Min(I) ELSE 0
  BY DEF Readable, SelectInSeq
<1>2. Len(s.rq) \in Nat
  BY SeqFacts
<1>3. /\ I \subseteq Nat /\ I \subseteq 1..Len(s.rq)
      /\ \A i \in I : Offset(s, s.rq[i]) < Len(s.rq[i].data) \/ s.rq[i].fin
      /\ \A i \in 1..Len(s.rq) : i \notin I => ~(Offset(s, s.rq[i]) < Len(s.rq[i].data) \/ s.rq[i].fin)
  BY <1>2
<1> HIDE DEF I
<1>4. I # {} => Min(I) \in I /\ \A j \in I : Min(I) <= j
  BY <1>3, MinInSet
<1>5. k \in I /\ \A j \in I : k <= j
  BY <1>1, <1>4
<1> HIDE DEF k
<1>6. ASSUME NEW j \in 1..(k - 1) PROVE ~Gives(s, s.rq[j])
  <2>1. j \notin I /\ j \in 1..Len(s.rq)
    BY <1>2, <1>3, <1>5
  <2> QED BY <2>1, <1>3 DEF Gives
<1>7. k \in 1..Len(s.rq) /\ Gives(s, s.rq[k])
  BY <1>3, <1>5 DEF Gives
<1> QED BY <1>6, <1>7 DEF k

(* Where that is, if what has not been read is in line. *)
LEMMA NextToRead ==
  ASSUME NEW s, NEW y, HoldsOK(s.rq, y), s.rcv_nxt \in Int, y.theirs \in Nat, InLine(s),
         Readable(s) # 0
  PROVE  LET k == Readable(s)
             b == s.rq[k]
             d == Len(b.data)
         IN /\ k \in 1..Len(s.rq) /\ b.seq \in Int /\ d \in Nat /\ s.copied_seq \in Int
            /\ Offset(s, b) = s.copied_seq - b.seq
            /\ 1 <= b.seq /\ b.seq <= s.copied_seq
            /\ b.seq + d <= y.theirs /\ InOrder(b.data, b.seq) /\ IsSeq(b.data)
            /\ b.end = b.seq + d + Flag(b.fin)
            /\ k < Len(s.rq) => /\ ~b.fin /\ b.end < s.rcv_nxt /\ s.rq[k + 1].seq <= b.end
            /\ k = Len(s.rq) => b.end = s.rcv_nxt
            /\ s.copied_seq < s.rcv_nxt
            /\ s.copied_seq >= b.seq + d =>
                 /\ b.fin /\ k = Len(s.rq) /\ s.copied_seq = y.theirs /\ s.rcv_nxt = y.theirs + 1
<1> DEFINE k == Readable(s)
           n == Len(s.rq)
           c == s.copied_seq
           b == s.rq[k]
           d == Len(b.data)
           x == s.rcv_nxt
<1>1. IsSeq(s.rq) /\ n \in Nat
  BY SeqFacts DEF HoldsOK, BuffersOK
<1>2. k \in 1..n /\ Gives(s, b) /\ \A j \in 1..(k - 1) : ~Gives(s, s.rq[j])
  BY <1>1, ReadableFacts
<1> HIDE DEF k
<1>3. ASSUME NEW j \in 1..n
      PROVE  LET a == s.rq[j]
             IN /\ Piece(a, y) /\ IsSeq(a.data) /\ Len(a.data) \in Nat /\ a.seq \in Int
                /\ Offset(s, a) = c - a.seq
  <2> DEFINE a == s.rq[j]
  <2>1. BufferOK(a) /\ Piece(a, y)
    BY DEF HoldsOK, BuffersOK, Pieces
  <2> HIDE DEF a
  <2>2. IsSeq(a.data) /\ Len(a.data) \in Nat /\ a.seq \in Int /\ ~a.syn
    BY <2>1, SeqFacts DEF BufferOK, Piece
  <2>4. c \in Int
    BY DEF InLine
  <2>3. Offset(s, a) = c - a.seq
    BY <2>2, <2>4 DEF Offset, Flag
  <2> QED BY <2>1, <2>2, <2>3 DEF a
<1>4. /\ Piece(b, y) /\ IsSeq(b.data) /\ d \in Nat /\ b.seq \in Int /\ Offset(s, b) = c - b.seq
  BY <1>2, <1>3
<1>5. c \in Int /\ s.rq # <<>> /\ x \in Int
  BY <1>1, <1>2, SeqFacts DEF InLine
<1>6. s.rq[1].seq <= c /\ c < x /\ s.rq[n].end = x
  BY <1>5 DEF InLine
<1>7. \A i \in 1..n : i + 1 <= n => /\ s.rq[i + 1].seq <= s.rq[i].end /\ s.rq[i].end < x
                                    /\ ~s.rq[i].fin
  BY DEF InLine
<1>8. b.seq <= c
  <2>1. CASE k = 1
    BY <2>1, <1>6
  <2>2. CASE k # 1
    <3> DEFINE j == k - 1
               a == s.rq[j]
               e == Len(a.data)
    <3>1. j \in 1..n /\ j + 1 <= n /\ j \in 1..(k - 1) /\ j + 1 = k
      BY <2>2, <1>1, <1>2
    <3>2. b.seq <= a.end /\ ~Gives(s, a)
      BY <3>1, <1>2, <1>7
    <3>3. Piece(a, y) /\ Offset(s, a) = c - a.seq /\ e \in Nat /\ a.seq \in Int
      BY <3>1, <1>3
    <3> HIDE DEF a
    <3>4. ~a.fin /\ ~(c - a.seq < e)
      BY <3>2, <3>3 DEF Gives
    <3>5. a.end = a.seq + e
      BY <3>3, <3>4 DEF Piece, Flag
    <3> HIDE DEF e
    <3> QED BY <3>2, <3>3, <3>4, <3>5, <1>4, <1>5
  <2> QED BY <2>1, <2>2
<1>9. /\ 1 <= b.seq /\ b.seq + d <= y.theirs /\ InOrder(b.data, b.seq)
      /\ b.end = b.seq + d + Flag(b.fin) /\ (b.fin => b.end = y.theirs + 1)
  BY <1>4 DEF Piece
<1>10. k < n => /\ ~b.fin /\ b.end < x /\ s.rq[k + 1].seq <= b.end
  <2>1. k < n => k \in 1..n /\ k + 1 <= n
    BY <1>1, <1>2
  <2> QED BY <2>1, <1>7
<1>11. k = n => b.end = x
  BY <1>6
<1>12. c >= b.seq + d => b.fin /\ k = n /\ c = y.theirs /\ x = y.theirs + 1
  <2> HAVE c >= b.seq + d
  <2> DEFINE th == y.theirs
             en == b.end
             sq == b.seq
             off == Offset(s, b)
  <2>0. off = c - sq
    BY <1>4
  <2> HIDE DEF b, off
  <2>5. ~(off < d)
    <3> HIDE DEF c, sq, d
    <3>1. c \in Int /\ sq \in Int /\ d \in Int /\ c >= sq + d
      BY <1>4, <1>5 DEF c, sq, d
    <3> QED BY <3>1, <2>0
  <2>1. b.fin
    BY <2>5, <1>2 DEF Gives, off, d
  <2>2. k = n
    BY <2>1, <1>1, <1>2, <1>10
  <2>3. en = x /\ en = th + 1 /\ en = sq + d + 1 /\ c < x
    BY <2>1, <2>2, <1>6, <1>9, <1>11 DEF Flag
  <2>4. th \in Int /\ sq \in Int /\ d \in Int /\ c \in Int /\ x \in Int /\ c >= sq + d
    BY <1>4, <1>5
  <2> HIDE DEF en, th, sq, d, c, x
  <2>6. c = th /\ x = th + 1
    BY <2>3, <2>4
  <2> QED BY <2>1, <2>2, <2>6 DEF c, x, th
<1> QED BY <1>2, <1>4, <1>5, <1>6, <1>8, <1>9, <1>10, <1>11, <1>12 DEF k

(* What is left of the queue is in line. *)
LEMMA RestInLine ==
  ASSUME NEW s, InLine(s), IsSeq(s.rq), NEW m \in 1..(Len(s.rq) + 1), NEW t, t.rcv_nxt = s.rcv_nxt,
         t.rq = SubSeq(s.rq, m, Len(s.rq)), t.copied_seq \in Int,
         m <= Len(s.rq) => s.rq[m].seq <= t.copied_seq /\ t.copied_seq < s.rcv_nxt,
         m = Len(s.rq) + 1 => t.copied_seq = s.rcv_nxt
  PROVE  InLine(t)
<1> DEFINE q == s.rq
           n == Len(q)
           r == t.rq
<1>1. n \in Nat /\ m \in Nat /\ m >= 1 /\ m <= n + 1
  BY SeqFacts
<1>2. /\ IsSeq(r) /\ Len(r) = n - m + 1 /\ \A i \in 1..(n - m + 1) : r[i] = q[m + i - 1]
  <2>1. /\ IsSeq(r) /\ Len(r) = IF m <= n THEN n - m + 1 ELSE 0
        /\ \A i \in 1..(n - m + 1) : r[i] = q[m + i - 1]
    <3>1. r = SubSeq(q, m, n) /\ m \in Int /\ n \in Int
      BY <1>1
    <3> HIDE DEF r, n
    <3> QED BY <3>1, SubSeqFacts
  <2>2. Len(r) = n - m + 1
    <3> HIDE DEF r, n
    <3> QED BY <2>1, <1>1
  <2> QED BY <2>1, <2>2
<1>3. \A i \in 1..n : i + 1 <= n => /\ q[i + 1].seq <= q[i].end /\ q[i].end < s.rcv_nxt
                                    /\ ~q[i].fin
  BY DEF InLine
<1>4. q # <<>> => q[n].end = s.rcv_nxt
  BY DEF InLine
<1>5. q = <<>> <=> n = 0
  BY SeqFacts
<1>6. r = <<>> <=> Len(r) = 0
  BY <1>2, SeqFacts
<1> HIDE DEF r, n, q
<1>7. r = <<>> => t.copied_seq = t.rcv_nxt
  <2> HAVE r = <<>>
  <2>1. m = n + 1
    BY <1>1, <1>2, <1>6
  <2> QED BY <2>1 DEF n, q
<1>8. r # <<>> => r[1].seq <= t.copied_seq /\ t.copied_seq < t.rcv_nxt /\ r[Len(r)].end = t.rcv_nxt
  <2> HAVE r # <<>>
  <2>1. m <= n /\ 1 \in 1..(n - m + 1) /\ n - m + 1 \in 1..(n - m + 1) /\ n # 0
    BY <1>1, <1>2, <1>6
  <2>2. r[1] = q[m] /\ r[Len(r)] = q[n]
    <3>1. m + 1 - 1 = m /\ m + (n - m + 1) - 1 = n
      BY <1>1
    <3>2. r[1] = q[m + 1 - 1] /\ r[n - m + 1] = q[m + (n - m + 1) - 1]
      BY <2>1, <1>2
    <3> QED BY <3>1, <3>2, <1>2
  <2>3. q # <<>>
    BY <2>1, <1>5
  <2> QED BY <2>1, <2>2, <2>3, <1>4 DEF n, q
<1>9. ASSUME NEW i \in 1..Len(r), i + 1 <= Len(r)
      PROVE  /\ r[i + 1].seq <= r[i].end /\ r[i].end < t.rcv_nxt /\ ~r[i].fin
  <2> DEFINE j == m + i - 1
  <2>0. i \in Nat /\ 1 <= i /\ i + 1 <= n - m + 1
    BY <1>1, <1>2, <1>9
  <2>1. j \in 1..n /\ j + 1 <= n /\ j + 1 = m + (i + 1) - 1
        /\ i \in 1..(n - m + 1) /\ i + 1 \in 1..(n - m + 1)
    BY <1>1, <2>0
  <2>2. r[i] = q[j] /\ r[i + 1] = q[m + (i + 1) - 1]
    BY <2>1, <1>2
  <2>3. r[i + 1] = q[j + 1]
    BY <2>1, <2>2
  <2> HIDE DEF j
  <2> QED BY <2>1, <2>2, <2>3, <1>3
<1> QED BY <1>7, <1>8, <1>9 DEF InLine, r

(***************************************************************************)
(* The loop of atcp_recvmsg.                                               *)
(***************************************************************************)
(* What reading leaves alone. *)
Reads(s, t) ==
  /\ Record(t) /\ SameQueue(s, t) /\ SameOffer(s, t) /\ t.out = s.out
  /\ t.state = s.state /\ t.zapped = s.zapped /\ t.dead = s.dead
  /\ t.timers = s.timers /\ t.rcv_nxt = s.rcv_nxt /\ t.ofo = s.ofo
  /\ t.sacks = s.sacks /\ t.in_hand = s.in_hand /\ t.delayed_acks = s.delayed_acks

(* Two turns are one. *)
LEMMA ReadsTrans ==
  ASSUME NEW r, NEW s, NEW t, Reads(r, s), Reads(s, t)
  PROVE  Reads(r, t)
BY DEF Reads, SameQueue, SameOffer

(* No turn. *)
LEMMA ReadsRefl ==
  ASSUME NEW s, Record(s)
  PROVE  Reads(s, s)
BY DEF Reads, SameQueue, SameOffer

(* A turn leaves a part of the queue, and takes so many numbers. *)
Takes(x, t, rest, c, given) ==
  /\ {"s", "got", "left"} \subseteq DOMAIN t /\ Reads(x.s, t.s)
  /\ t.s.rq = rest /\ t.s.copied_seq = c /\ t.got = given

(* What one turn takes. *)
LEMMA CopyTurnCases ==
  ASSUME NEW x, {"s", "got", "left"} \subseteq DOMAIN x, Record(x.s)
  PROVE  LET s == x.s
             k == Readable(s)
             b == s.rq[k]
             d == Len(b.data)
             c == s.copied_seq
             off == Offset(s, b)
             n == Smaller(x.left, d - off)
             here == SubSeq(s.rq, k, Len(s.rq))
             next == SubSeq(s.rq, k + 1, Len(s.rq))
             taken == x.got \o SubSeq(b.data, off + 1, off + n)
             t == CopyTurn(x)
         IN \/ Takes(x, t, s.rq, c, x.got) /\ t.left = 0
            \/ k # 0 /\ off >= d /\ Takes(x, t, next, c + 1, x.got) /\ t.left = 0
            \/ k # 0 /\ ~(off >= d) /\ off + n < d /\ Takes(x, t, here, c + n, taken) /\ t.left = 0
            \/ k # 0 /\ ~(off >= d) /\ ~(off + n < d) /\ b.fin /\ t.left = 0
                 /\ Takes(x, t, next, c + n + 1, taken)
            \/ k # 0 /\ ~(off >= d) /\ ~(off + n < d) /\ ~b.fin /\ t.left = x.left - n
                 /\ Takes(x, t, next, c + n, taken)
<1> DEFINE s == x.s
           k == Readable(s)
           b == s.rq[k]
           d == Len(b.data)
           off == Offset(s, b)
           n == Smaller(x.left, d - off)
           c == [s EXCEPT !.copied_seq = @ + n]
           f == FoundFin(s, k)
           g == FoundFin(c, k)
           h == [c EXCEPT !.rq = SubSeq(@, k, Len(@))]
           e == [c EXCEPT !.rq = SubSeq(@, k + 1, Len(@))]
           t == CopyTurn(x)
           here == SubSeq(s.rq, k, Len(s.rq))
           next == SubSeq(s.rq, k + 1, Len(s.rq))
           taken == x.got \o SubSeq(b.data, off + 1, off + n)
<1>1. \/ t = [x EXCEPT !.left = 0]
      \/ k # 0 /\ off >= d /\ t = [x EXCEPT !.s = f, !.left = 0]
      \/ k # 0 /\ ~(off >= d) /\ off + n < d /\ t = [s |-> h, got |-> taken, left |-> 0]
      \/ k # 0 /\ ~(off >= d) /\ ~(off + n < d) /\ b.fin /\ t = [s |-> g, got |-> taken, left |-> 0]
      \/ k # 0 /\ ~(off >= d) /\ ~(off + n < d) /\ ~b.fin
           /\ t = [s |-> e, got |-> taken, left |-> x.left - n]
  BY Zenon DEF CopyTurn
<1>2. Reads(s, f) /\ f.rq = next /\ f.copied_seq = s.copied_seq + 1
  BY ZenonT(60) DEF FoundFin, Reads, Record, Fields, SameQueue, SameOffer
<1>3. Record(c) /\ Reads(s, c) /\ c.rq = s.rq /\ c.copied_seq = s.copied_seq + n
  <2> HIDE DEF n, k
  <2> QED BY DEF Reads, Record, Fields, SameQueue, SameOffer
<1> HIDE DEF f, c, off, d, n
<1>4. Reads(c, g) /\ g.rq = next /\ g.copied_seq = c.copied_seq + 1
  BY ZenonT(60), <1>3 DEF FoundFin, Reads, Record, Fields, SameQueue, SameOffer
<1>5. Reads(c, h) /\ h.rq = here /\ h.copied_seq = c.copied_seq
  BY ZenonT(60), <1>3 DEF Reads, Record, Fields, SameQueue, SameOffer
<1>6. Reads(c, e) /\ e.rq = next /\ e.copied_seq = c.copied_seq
  BY ZenonT(60), <1>3 DEF Reads, Record, Fields, SameQueue, SameOffer
<1> HIDE DEF e, g, h, here, next, taken, t, b, k
<1>7. Reads(s, g) /\ Reads(s, h) /\ Reads(s, e) /\ Reads(s, s)
  BY <1>3, <1>4, <1>5, <1>6, ReadsTrans, ReadsRefl
<1>8. \/ Takes(x, t, s.rq, s.copied_seq, x.got) /\ t.left = 0
      \/ k # 0 /\ off >= d /\ Takes(x, t, next, s.copied_seq + 1, x.got) /\ t.left = 0
      \/ k # 0 /\ ~(off >= d) /\ off + n < d /\ Takes(x, t, here, s.copied_seq + n, taken) /\ t.left = 0
      \/ k # 0 /\ ~(off >= d) /\ ~(off + n < d) /\ b.fin /\ t.left = 0
           /\ Takes(x, t, next, s.copied_seq + n + 1, taken)
      \/ k # 0 /\ ~(off >= d) /\ ~(off + n < d) /\ ~b.fin /\ t.left = x.left - n
           /\ Takes(x, t, next, s.copied_seq + n, taken)
  <2>1. CASE t = [x EXCEPT !.left = 0]
    <3>1. Takes(x, t, s.rq, s.copied_seq, x.got) /\ t.left = 0
      BY <2>1, <1>7 DEF Takes
    <3> QED BY <3>1
  <2>2. CASE k # 0 /\ off >= d /\ t = [x EXCEPT !.s = f, !.left = 0]
    <3>1. Takes(x, t, next, s.copied_seq + 1, x.got) /\ t.left = 0
      BY <2>2, <1>2 DEF Takes
    <3> QED BY <2>2, <3>1
  <2>3. CASE k # 0 /\ ~(off >= d) /\ off + n < d /\ t = [s |-> h, got |-> taken, left |-> 0]
    <3>1. Takes(x, t, here, s.copied_seq + n, taken) /\ t.left = 0
      BY <2>3, <1>3, <1>5, <1>7 DEF Takes
    <3> QED BY <2>3, <3>1
  <2>4. CASE k # 0 /\ ~(off >= d) /\ ~(off + n < d) /\ b.fin
              /\ t = [s |-> g, got |-> taken, left |-> 0]
    <3>1. Takes(x, t, next, s.copied_seq + n + 1, taken) /\ t.left = 0
      BY <2>4, <1>3, <1>4, <1>7 DEF Takes
    <3> QED BY <2>4, <3>1
  <2>5. CASE k # 0 /\ ~(off >= d) /\ ~(off + n < d) /\ ~b.fin
              /\ t = [s |-> e, got |-> taken, left |-> x.left - n]
    <3>1. Takes(x, t, next, s.copied_seq + n, taken) /\ t.left = x.left - n
      BY <2>5, <1>3, <1>6, <1>7 DEF Takes
    <3> QED BY <2>5, <3>1
  <2> QED BY <1>1, <2>1, <2>2, <2>3, <2>4, <2>5
<1> QED BY <1>8 DEF t, k, b, off, d, n, here, next, taken

(* A part of a buffer's bytes. *)
LEMMA PartInOrder ==
  ASSUME NEW data, IsSeq(data), NEW seq \in Int, InOrder(data, seq), NEW off \in Nat, NEW n \in Nat,
         off + n <= Len(data)
  PROVE  LET r == SubSeq(data, off + 1, off + n)
         IN IsSeq(r) /\ Len(r) = n /\ InOrder(r, seq + off)
<1> DEFINE r == SubSeq(data, off + 1, off + n)
<1>1. /\ IsSeq(r) /\ Len(r) = (IF off + 1 <= off + n THEN off + n - (off + 1) + 1 ELSE 0)
      /\ \A i \in 1..(off + n - (off + 1) + 1) : r[i] = data[off + 1 + i - 1]
  <2>1. off + 1 \in Int /\ off + n \in Int
    OBVIOUS
  <2> QED BY <2>1, SubSeqFacts
<1>2. Len(data) \in Nat
  BY SeqFacts
<1> HIDE DEF r
<1>3. Len(r) = n
  BY <1>1
<1>4. ASSUME NEW i \in 1..Len(r) PROVE r[i] = (seq + off) + i - 1
  <2>1. i \in 1..n /\ off + 1 + i - 1 = off + i /\ off + i \in 1..Len(data)
        /\ i \in 1..(off + n - (off + 1) + 1)
    BY <1>2, <1>3
  <2>2. r[i] = data[off + i]
    BY <1>1, <2>1
  <2>3. data[off + i] = seq + (off + i) - 1
    BY <2>1 DEF InOrder
  <2>4. seq + (off + i) - 1 = (seq + off) + i - 1
    BY <2>1
  <2> QED BY <2>2, <2>3, <2>4
<1> QED BY <1>1, <1>3, <1>4 DEF InOrder, r

CopyStep(q, i, x) == CopyTurn(x)
CopyRel(p, i, x) ==
  /\ {"s", "got", "left"} \subseteq DOMAIN x /\ Reads(p.s, x.s) /\ HoldsOK(x.s.rq, p.y)
  /\ p.s.rq = <<>> => x.s.rq = <<>> /\ x.got = <<>>
  /\ InLine(p.s) => /\ InLine(x.s) /\ x.left \in Nat /\ IsSeq(x.got)
                    /\ InOrder(x.got, Place(p.s, p.y) + 1)
                    /\ Place(x.s, p.y) = Place(p.s, p.y) + Len(x.got)
Copying == INSTANCE Iteration WITH Step <- CopyStep, Rel <- CopyRel

(* One turn takes the bytes at copied_seq, and moves it behind them. *)
LEMMA TurnInLine ==
  ASSUME NEW s, NEW y, NEW x, x.s = s, HoldsOK(s.rq, y), s.rcv_nxt \in Int,
         y.theirs \in Nat \ {0}, InLine(s), Record(s), {"s", "got", "left"} \subseteq DOMAIN x,
         x.left \in Nat, IsSeq(x.got), NEW w \in Int, InOrder(x.got, w + 1),
         Place(s, y) = w + Len(x.got)
  PROVE  LET t == CopyTurn(x)
         IN /\ InLine(t.s) /\ t.left \in Nat /\ IsSeq(t.got) /\ InOrder(t.got, w + 1)
            /\ Place(t.s, y) = w + Len(t.got)
<1> DEFINE k == Readable(s)
           b == s.rq[k]
           d == Len(b.data)
           c == s.copied_seq
           off == Offset(s, b)
           n == Smaller(x.left, d - off)
           m == Len(s.rq)
           here == SubSeq(s.rq, k, m)
           next == SubSeq(s.rq, k + 1, m)
           part == SubSeq(b.data, off + 1, off + n)
           taken == x.got \o part
           t == CopyTurn(x)
           z == t.s
           th == y.theirs
           l == Len(x.got)
           sq == b.seq
           nx == s.rcv_nxt
<1>1. \/ Takes(x, t, s.rq, c, x.got) /\ t.left = 0
      \/ k # 0 /\ off >= d /\ Takes(x, t, next, c + 1, x.got) /\ t.left = 0
      \/ k # 0 /\ ~(off >= d) /\ off + n < d /\ Takes(x, t, here, c + n, taken) /\ t.left = 0
      \/ k # 0 /\ ~(off >= d) /\ ~(off + n < d) /\ b.fin /\ t.left = 0
           /\ Takes(x, t, next, c + n + 1, taken)
      \/ k # 0 /\ ~(off >= d) /\ ~(off + n < d) /\ ~b.fin /\ t.left = x.left - n
           /\ Takes(x, t, next, c + n, taken)
  BY CopyTurnCases
<1>2. l \in Nat /\ th \in Nat \ {0} /\ c \in Int /\ IsSeq(s.rq) /\ m \in Nat /\ nx \in Int
  BY SeqFacts DEF InLine, HoldsOK, BuffersOK
<1>3. k # 0 => /\ k \in 1..m /\ sq \in Int /\ d \in Nat /\ off = c - sq
               /\ 1 <= sq /\ sq <= c /\ sq + d <= th /\ InOrder(b.data, sq) /\ IsSeq(b.data)
               /\ b.end = sq + d + Flag(b.fin)
               /\ k < m => ~b.fin /\ b.end < nx /\ s.rq[k + 1].seq <= b.end
               /\ k = m => b.end = nx
               /\ c < nx /\ (c >= sq + d => b.fin /\ k = m /\ c = th /\ nx = th + 1)
  BY NextToRead
<1>4. Larger(0, Smaller(c, th) - 1) = w + l
  BY DEF Place
<1> HIDE DEF t, k, off, n, taken
<1>5. CASE Takes(x, t, s.rq, c, x.got) /\ t.left = 0
  <2>1. Place(z, y) = w + Len(t.got) /\ InLine(z)
    <3>1. z.rq = s.rq /\ z.copied_seq = c /\ z.rcv_nxt = nx /\ t.got = x.got
      BY <1>5 DEF Takes, Reads
    <3> HIDE DEF z
    <3> QED BY <3>1 DEF InLine, Place
  <2> QED BY <1>5, <2>1 DEF Takes, t
<1>6. CASE k # 0 /\ off >= d /\ Takes(x, t, next, c + 1, x.got) /\ t.left = 0
  <2>1. z.rq = next /\ z.copied_seq = c + 1 /\ z.rcv_nxt = nx /\ t.got = x.got
    BY <1>6 DEF Takes, Reads
  <2>2. k = m /\ c = th /\ nx = th + 1
    <3>1. c >= sq + d
      <4> HIDE DEF c, sq, d
      <4>1. c \in Int /\ sq \in Int /\ d \in Int /\ c - sq >= d
        BY <1>2, <1>3, <1>6 DEF c, sq, d
      <4> QED BY <4>1
    <3> QED BY <1>3, <1>6, <3>1
  <2> HIDE DEF z, next, c, l, th, sq, nx
  <2>3. InLine(z)
    <3>1. m + 1 \in 1..(m + 1) /\ z.rq = SubSeq(s.rq, m + 1, m) /\ z.copied_seq = nx
      BY <1>2, <2>1, <2>2 DEF next
    <3>2. z.copied_seq \in Int /\ (m + 1 <= m => FALSE)
      BY <1>2, <3>1
    <3> QED BY <1>2, <2>1, <3>1, <3>2, RestInLine DEF nx
  <2>4. Place(z, y) = w + l
    <3>1. Place(z, y) = Larger(0, Smaller(c + 1, th) - 1)
      BY <2>1 DEF Place, th
    <3>2. Smaller(c + 1, th) = th /\ Smaller(c, th) = th
      BY <2>2, <1>2 DEF Smaller
    <3> QED BY <3>1, <3>2, <1>4
  <2> QED BY <1>6, <2>1, <2>3, <2>4 DEF t, z, l
<1>7. ASSUME k # 0, ~(off >= d)
      PROVE  /\ n \in Nat /\ n <= x.left /\ off + n <= d /\ w + l + 1 = c /\ off \in Nat
             /\ c + n <= sq + d /\ c + n <= th /\ c + n >= 1
             /\ (off + n < d <=> c + n < sq + d)
             /\ IsSeq(taken) /\ InOrder(taken, w + 1) /\ Len(taken) = l + n
             /\ Larger(0, Smaller(c + n, th) - 1) = w + (l + n)
             /\ Larger(0, Smaller(c + n + 1, th) - 1) = (IF c + n + 1 <= th THEN w + (l + n) + 1 ELSE w + (l + n))
  <2>1. /\ k # 0 /\ sq \in Int /\ d \in Nat /\ off = c - sq /\ 1 <= sq /\ sq <= c /\ sq + d <= th
        /\ c \in Int /\ th \in Int /\ l \in Nat /\ w \in Int /\ x.left \in Nat
    BY <1>2, <1>3, <1>7
  <2> HIDE DEF c, sq, d, th, l
  <2>2. off \in Nat /\ off < d /\ d - off \in Nat
    BY <2>1, <1>7
  <2>3. n \in Nat /\ n <= x.left /\ off + n <= d
    BY <2>1, <2>2 DEF n, Smaller
  <2>4. c + n <= sq + d /\ c + n <= th /\ c + n >= 1 /\ (off + n < d <=> c + n < sq + d) /\ c <= th /\ c >= 1
    BY <2>1, <2>2, <2>3
  <2>5. w + l + 1 = c
    BY <2>1, <2>4, <1>4 DEF Smaller, Larger
  <2>6. IsSeq(part) /\ Len(part) = n /\ InOrder(part, sq + off)
    <3> DEFINE da == b.data
    <3>1. IsSeq(da) /\ InOrder(da, sq) /\ off + n <= Len(da)
      BY <1>3, <1>7, <2>3 DEF d
    <3>2. part = SubSeq(da, off + 1, off + n)
      OBVIOUS
    <3> HIDE DEF b, da, part
    <3>3. sq \in Int /\ off \in Nat /\ n \in Nat
      BY <2>1, <2>2, <2>3
    <3>4. /\ IsSeq(SubSeq(da, off + 1, off + n)) /\ Len(SubSeq(da, off + 1, off + n)) = n
          /\ InOrder(SubSeq(da, off + 1, off + n), sq + off)
      BY ONLY <3>1, <3>3, PartInOrder
    <3> QED BY <3>2, <3>4
  <2> HIDE DEF part
  <2>7. sq + off = (w + 1) + Len(x.got) /\ w + 1 \in Int
    BY <2>1, <2>5 DEF l
  <2>8. IsSeq(taken) /\ InOrder(taken, w + 1) /\ Len(taken) = l + n
    <3>1. InOrder(part, (w + 1) + Len(x.got))
      BY <2>6, <2>7
    <3>2. IsSeq(taken) /\ Len(taken) = Len(x.got) + Len(part)
      BY <2>6, ConcatFacts DEF taken
    <3>3. InOrder(taken, w + 1)
      BY <2>6, <2>7, <3>1, InOrderConcat DEF taken
    <3> QED BY <2>6, <3>2, <3>3 DEF l
  <2>9. Larger(0, Smaller(c + n, th) - 1) = w + (l + n)
    BY <2>1, <2>3, <2>4, <2>5 DEF Smaller, Larger
  <2>10. Larger(0, Smaller(c + n + 1, th) - 1) = (IF c + n + 1 <= th THEN w + (l + n) + 1 ELSE w + (l + n))
    BY <2>1, <2>3, <2>4, <2>5 DEF Smaller, Larger
  <2> QED BY <2>2, <2>3, <2>4, <2>5, <2>8, <2>9, <2>10
<1>8. CASE k # 0 /\ ~(off >= d) /\ off + n < d /\ Takes(x, t, here, c + n, taken) /\ t.left = 0
  <2>1. z.rq = here /\ z.copied_seq = c + n /\ z.rcv_nxt = nx /\ t.got = taken
    BY <1>8 DEF Takes, Reads
  <2>2. /\ n \in Nat /\ c + n < sq + d /\ k \in 1..m /\ sq \in Int /\ d \in Nat /\ sq <= c
        /\ IsSeq(taken) /\ InOrder(taken, w + 1) /\ Len(taken) = l + n
        /\ Larger(0, Smaller(c + n, th) - 1) = w + (l + n)
        /\ b.end = sq + d + Flag(b.fin)
        /\ k < m => ~b.fin /\ b.end < nx
        /\ k = m => b.end = nx
        /\ c < nx
    BY <1>3, <1>7, <1>8
  <2>7. sq + d + Flag(b.fin) <= nx
    <3>1. k < m => b.end < nx
      BY <2>2
    <3>2. k = m => b.end = nx
      BY <2>2
    <3>3. k < m \/ k = m
      BY <1>2, <2>2
    <3>4. b.end = sq + d + Flag(b.fin) /\ Flag(b.fin) \in 0..1 /\ sq \in Int /\ d \in Nat /\ nx \in Int
      BY <1>2, <2>2 DEF Flag
    <3> HIDE DEF sq, d, nx, b
    <3> QED BY <3>1, <3>2, <3>3, <3>4
  <2>8. /\ Flag(b.fin) \in 0..1 /\ c + n < sq + d /\ n \in Nat /\ c \in Int /\ sq \in Int
        /\ d \in Nat /\ nx \in Int /\ k \in Int /\ m \in Nat /\ k \in 1..m /\ sq <= c
    BY <1>2, <2>2 DEF Flag
  <2>9. s.rq[k].seq = sq
    OBVIOUS
  <2> HIDE DEF z, here, c, l, th, sq, nx, d, b, m
  <2>3. c + n < nx /\ sq <= c + n /\ k # m + 1
    BY SMTT(30), <2>7, <2>8
  <2>4. InLine(z)
    <3>1. k \in 1..(m + 1) /\ z.rq = SubSeq(s.rq, k, m) /\ z.copied_seq \in Int
      BY <2>1, <2>8 DEF here
    <3>2. s.rq[k].seq <= z.copied_seq
      BY <2>1, <2>3, <2>9
    <3>3. k # m + 1 /\ z.copied_seq < nx
      BY <2>1, <2>3
    <3> QED BY <1>2, <2>1, <3>1, <3>2, <3>3, RestInLine DEF nx, m
  <2>5. Place(z, y) = w + Len(t.got)
    BY <2>1, <2>2 DEF Place, th
  <2>6. t.left \in Nat /\ IsSeq(t.got) /\ InOrder(t.got, w + 1)
    BY <1>8, <2>1, <2>2
  <2> QED BY <2>4, <2>5, <2>6 DEF t, z
<1>9. CASE k # 0 /\ ~(off >= d) /\ ~(off + n < d) /\ b.fin /\ t.left = 0
             /\ Takes(x, t, next, c + n + 1, taken)
  <2>1. z.rq = next /\ z.copied_seq = c + n + 1 /\ z.rcv_nxt = nx /\ t.got = taken
    BY <1>9 DEF Takes, Reads
  <2>2. /\ n \in Nat /\ c + n <= sq + d /\ ~(c + n < sq + d) /\ k \in 1..m /\ sq \in Int
        /\ d \in Nat /\ sq + d <= th /\ c + n <= th
        /\ IsSeq(taken) /\ InOrder(taken, w + 1) /\ Len(taken) = l + n
        /\ Larger(0, Smaller(c + n + 1, th) - 1)
             = (IF c + n + 1 <= th THEN w + (l + n) + 1 ELSE w + (l + n))
        /\ b.end = sq + d + 1 /\ ~(k < m) /\ (k = m => b.end = nx)
    BY <1>3, <1>7, <1>9 DEF Flag
  <2>3. b.end = th + 1
    <3>1. Piece(b, y)
      BY <2>2 DEF HoldsOK, Pieces
    <3> QED BY <3>1, <1>9 DEF Piece
  <2>4. k = m /\ b.end = nx
    BY <1>2, <2>2
  <2> HIDE DEF z, next, c, l, th, sq, nx, d, b
  <2>5. c + n + 1 = nx /\ c + n = th
    BY <1>2, <2>2, <2>3, <2>4
  <2>6. InLine(z)
    <3>1. m + 1 \in 1..(m + 1) /\ z.rq = SubSeq(s.rq, m + 1, m) /\ z.copied_seq = nx
      BY <1>2, <2>1, <2>4, <2>5 DEF next
    <3>2. z.copied_seq \in Int /\ (m + 1 <= m => FALSE)
      BY <1>2, <3>1
    <3> QED BY <1>2, <2>1, <3>1, <3>2, RestInLine DEF nx
  <2>7. Place(z, y) = w + Len(t.got)
    <3>1. Place(z, y) = Larger(0, Smaller(c + n + 1, th) - 1)
      BY <2>1 DEF Place, th
    <3>2. ~(c + n + 1 <= th)
      BY <1>2, <2>2, <2>5
    <3> QED BY <2>1, <2>2, <3>1, <3>2
  <2> QED BY <1>9, <2>1, <2>2, <2>6, <2>7 DEF t, z
<1>10. CASE k # 0 /\ ~(off >= d) /\ ~(off + n < d) /\ ~b.fin /\ t.left = x.left - n
             /\ Takes(x, t, next, c + n, taken)
  <2>1. z.rq = next /\ z.copied_seq = c + n /\ z.rcv_nxt = nx /\ t.got = taken
    BY <1>10 DEF Takes, Reads
  <2>2. /\ n \in Nat /\ n <= x.left /\ c + n <= sq + d /\ ~(c + n < sq + d) /\ k \in 1..m
        /\ sq \in Int /\ d \in Nat
        /\ IsSeq(taken) /\ InOrder(taken, w + 1) /\ Len(taken) = l + n
        /\ Larger(0, Smaller(c + n, th) - 1) = w + (l + n)
        /\ b.end = sq + d + 0
        /\ k < m => b.end < nx /\ s.rq[k + 1].seq <= b.end
        /\ k = m => b.end = nx
    BY <1>3, <1>7, <1>10 DEF Flag
  <2>8. /\ c + n <= sq + d /\ ~(c + n < sq + d) /\ b.end = sq + d + 0 /\ n \in Nat /\ c \in Int
        /\ sq \in Int /\ d \in Nat /\ nx \in Int /\ k \in Int /\ m \in Nat /\ k \in 1..m
    BY <1>2, <2>2
  <2>9. x.left \in Nat /\ n <= x.left /\ t.left = x.left - n
    BY <1>7, <1>10
  <2> HIDE DEF z, next, c, l, th, sq, nx, d, b, m
  <2>3. c + n = b.end /\ k + 1 \in 1..(m + 1)
    BY <2>8
  <2>4. InLine(z)
    <3>1. k + 1 \in 1..(m + 1) /\ z.rq = SubSeq(s.rq, k + 1, m) /\ z.copied_seq \in Int
      BY <2>1, <2>3, <2>8 DEF next
    <3>2. k + 1 <= m => s.rq[k + 1].seq <= z.copied_seq /\ z.copied_seq < nx
      <4>1. k + 1 <= m => k < m
        BY <2>8
      <4> QED BY <2>1, <2>2, <2>3, <4>1
    <3>3. k + 1 = m + 1 => z.copied_seq = nx
      <4>1. k + 1 = m + 1 => k = m
        BY <2>8
      <4> QED BY <2>1, <2>2, <2>3, <4>1
    <3> QED BY <1>2, <2>1, <3>1, <3>2, <3>3, RestInLine DEF nx, m
  <2>5. Place(z, y) = w + Len(t.got)
    BY <2>1, <2>2 DEF Place, th
  <2>6. t.left \in Nat
    BY <2>8, <2>9
  <2> QED BY <2>1, <2>2, <2>4, <2>5, <2>6 DEF t, z
<1> QED BY <1>1, <1>5, <1>6, <1>8, <1>9, <1>10

(* One turn of the loop of atcp_recvmsg. *)
LEMMA CopyTurnFacts ==
  ASSUME NEW p, p.s.rcv_nxt \in Int, p.y.theirs \in Nat \ {0}, NEW q, NEW i, NEW j, NEW x,
         CopyRel(p, i, x)
  PROVE  CopyRel(p, j, CopyStep(q, j, x))
<1> DEFINE s == x.s
           y == p.y
           t == CopyTurn(x)
           k == Readable(s)
           here == SubSeq(s.rq, k, Len(s.rq))
           next == SubSeq(s.rq, k + 1, Len(s.rq))
<1>1. /\ {"s", "got", "left"} \subseteq DOMAIN x /\ Reads(p.s, s) /\ HoldsOK(s.rq, y)
      /\ p.s.rq = <<>> => s.rq = <<>> /\ x.got = <<>>
      /\ InLine(p.s) => /\ InLine(s) /\ x.left \in Nat /\ IsSeq(x.got)
                        /\ InOrder(x.got, Place(p.s, y) + 1)
                        /\ Place(s, y) = Place(p.s, y) + Len(x.got)
  BY DEF CopyRel
<1>2. Record(s) /\ IsSeq(s.rq) /\ s.rcv_nxt \in Int
  BY <1>1 DEF Reads, HoldsOK, BuffersOK
<1>3. /\ {"s", "got", "left"} \subseteq DOMAIN t /\ Reads(s, t.s)
      /\ \/ t.s.rq = s.rq /\ t.got = x.got
         \/ k # 0 /\ t.s.rq \in {here, next}
  <2>1. \/ Takes(x, t, s.rq, s.copied_seq, x.got)
        \/ k # 0 /\ \E c, given : Takes(x, t, next, c, given) \/ Takes(x, t, here, c, given)
    <3> HIDE DEF t, k, s, here, next
    <3>1. x.s = s
      BY DEF s
    <3> QED BY <1>1, <1>2, <3>1, CopyTurnCases DEF t, k, here, next
  <2> HIDE DEF t, k, here, next
  <2> QED BY <2>1 DEF Takes
<1>4. k # 0 => HoldsOK(here, y) /\ HoldsOK(next, y) /\ s.rq # <<>>
  <2> HAVE k # 0
  <2>1. k \in 1..Len(s.rq) /\ Len(s.rq) \in Nat
    BY <1>2, ReadableFacts, SeqFacts
  <2>2. s.rq # <<>>
    BY <2>1, EmptyFacts
  <2> HIDE DEF k
  <2>3. k \in Nat /\ k >= 1 /\ k + 1 \in Nat /\ k + 1 >= 1
    BY <2>1
  <2>4. HoldsOK(here, y)
    BY <2>3, <1>1, BuffersDrop
  <2>5. HoldsOK(next, y)
    BY <2>3, <1>1, BuffersDrop
  <2> QED BY <2>2, <2>4, <2>5
<1>5. InLine(p.s) => /\ InLine(t.s) /\ t.left \in Nat /\ IsSeq(t.got)
                     /\ InOrder(t.got, Place(p.s, y) + 1)
                     /\ Place(t.s, y) = Place(p.s, y) + Len(t.got)
  <2> HAVE InLine(p.s)
  <2> DEFINE w == Place(p.s, y)
  <2>1. w \in Int
    BY DEF Place, InLine, Smaller, Larger
  <2> HIDE DEF w, t, k, here, next, s, y
  <2>2. /\ InLine(s) /\ x.left \in Nat /\ IsSeq(x.got) /\ InOrder(x.got, w + 1)
        /\ Place(s, y) = w + Len(x.got)
    BY <1>1 DEF w
  <2>3. x.s = s /\ y.theirs \in Nat \ {0}
    BY DEF s, y
  <2>4. /\ InLine(t.s) /\ t.left \in Nat /\ IsSeq(t.got) /\ InOrder(t.got, w + 1)
        /\ Place(t.s, y) = w + Len(t.got)
    BY <1>1, <1>2, <2>1, <2>2, <2>3, TurnInLine DEF t
  <2> QED BY <2>4 DEF w
<1> HIDE DEF t, k, here, next, s, y
<1>6. Reads(p.s, t.s)
  BY <1>1, <1>3, ReadsTrans
<1>7. HoldsOK(t.s.rq, y) /\ (p.s.rq = <<>> => t.s.rq = <<>> /\ t.got = <<>>)
  BY <1>1, <1>3, <1>4
<1>8. CopyRel(p, j, t)
  BY <1>3, <1>5, <1>6, <1>7 DEF CopyRel, y
<1> QED BY <1>8 DEF CopyStep, t

(* What the loop of atcp_recvmsg takes from the queue. *)
LEMMA ReadFacts ==
  ASSUME NEW s, NEW y, Used(s, y), NEW len \in Nat
  PROVE  LET r == Repeat([s |-> s, got |-> <<>>, left |-> len], Len(s.rq) + 1, CopyTurn)
         IN /\ Reads(s, r.s) /\ HoldsOK(r.s.rq, Up(y)) /\ (s.rq = <<>> => r.s.rq = <<>> /\ r.got = <<>>)
            /\ InLine(s) => /\ InLine(r.s) /\ IsSeq(r.got) /\ InOrder(r.got, Place(s, y) + 1)
                            /\ Place(r.s, y) = Place(s, y) + Len(r.got)
<1> DEFINE q == 0
           none == <<>>
           x == [s |-> s, got |-> none, left |-> len]
           n == Len(s.rq) + 1
           z == Up(y)
           p == [s |-> s, y |-> z]
           r == Copying!Result(q, x, n)
<1>1. r = Repeat([s |-> s, got |-> <<>>, left |-> len], Len(s.rq) + 1, CopyTurn)
  BY DEF Repeat, Copying!Result, CopyStep
<1>2. /\ Open(s, ViewAt(s, y)) /\ Record(s) /\ s.rcv_nxt \in Int /\ ViewOK(y)
  BY UsedTypes
<1>3. HoldsOK(s.rq, z) /\ z.theirs = y.theirs /\ z.theirs \in Nat \ {0}
  <2>1. HoldsOK(s.rq, ViewAt(s, y))
    BY <1>2 DEF Open, ReceiverOK, Come, HoldsOK
  <2>2. /\ ViewAt(s, y).theirs = y.theirs /\ ViewAt(s, y).ended = y.ended
        /\ z.theirs = y.theirs /\ z.ended = y.ended
    BY WithFacts DEF ViewAt, Up
  <2> HIDE DEF z
  <2> QED BY <2>1, <2>2, <1>2 DEF HoldsOK, Pieces, Piece, ViewOK
<1>4. \A u : Place(u, z) = Place(u, y)
  BY <1>3 DEF Place
<1>5. x.s = s /\ x.got = <<>> /\ x.left = len /\ {"s", "got", "left"} \subseteq DOMAIN x
      /\ p.s = s /\ p.y = z
  OBVIOUS
<1>6. n \in Nat
  BY <1>3, SeqFacts DEF HoldsOK, BuffersOK
<1> HIDE DEF q, x, n, p, z
<1>7. CopyRel(p, 0, x)
  <2>1. Reads(s, s)
    BY <1>2, ReadsRefl
  <2>2. InLine(s) => Place(s, z) \in Int
    BY <1>3 DEF Place, InLine, Smaller, Larger
  <2>3. InLine(s) => InOrder(x.got, Place(s, z) + 1) /\ IsSeq(x.got) /\ Place(s, z) = Place(s, z) + Len(x.got)
    BY <2>2, <1>5, EmptyFacts DEF InOrder
  <2> QED BY <1>3, <1>5, <2>1, <2>3 DEF CopyRel
<1>8. \A i \in 1..n : \A w : CopyRel(p, i - 1, w) => CopyRel(p, i, CopyStep(q, i, w))
  BY <1>2, <1>3, <1>5, CopyTurnFacts
<1>9. CopyRel(p, n, r)
  BY <1>6, <1>7, <1>8, Copying!AfterTurns
<1> HIDE DEF r
<1>10. /\ Reads(s, r.s) /\ HoldsOK(r.s.rq, z) /\ (s.rq = <<>> => r.s.rq = <<>> /\ r.got = <<>>)
       /\ InLine(s) => /\ InLine(r.s) /\ IsSeq(r.got) /\ InOrder(r.got, Place(s, y) + 1)
                       /\ Place(r.s, y) = Place(s, y) + Len(r.got)
  BY <1>4, <1>5, <1>9 DEF CopyRel
<1> QED BY <1>1, <1>10 DEF z

(* Taking from the receive queue is a step, though what is left of it is   *)
(* not in line if it is thrown away.                                       *)
LEMMA ReadsStep ==
  ASSUME NEW s, NEW y, Used(s, y), NEW z, Reads(s, z), HoldsOK(z.rq, Up(y)),
         s.rq = <<>> => z.rq = <<>>
  PROVE  Step(s, z, y) /\ (Shut(s, y) => Shut(z, y)) /\ (Runs(s, y) => Runs(z, y))
<1> DEFINE v == ViewAt(s, y)
<1>1. Reads(s, z) /\ HoldsOK(z.rq, Up(y)) /\ (s.rq = <<>> => z.rq = <<>>)
  OBVIOUS
<1>3. /\ Open(s, v) /\ Record(s) /\ ReceiverOK(s) /\ ViewOK(y) /\ s.rcv_nxt \in Int
  BY UsedTypes
<1>5. /\ Record(z) /\ z.zapped = s.zapped /\ z.dead = s.dead /\ z.state = s.state
      /\ z.write_seq = s.write_seq /\ z.rcv_nxt = s.rcv_nxt /\ z.rcv_wup \in Int /\ z.rcv_wnd \in Nat
      /\ z.ofo = s.ofo /\ IsSeq(z.sacks) /\ z.in_hand \in Int /\ z.out = s.out
      /\ BucketOK(z.tw) /\ BucketAcks(z.tw, z.rcv_nxt) /\ z.delayed_acks = s.delayed_acks
  BY <1>1, <1>3 DEF Reads, SameOffer, SameQueue, Open, ReceiverOK, Come
<1>6. CASE Shut(s, y)
  <2>1. Open(s, Up(y)) /\ s.state = "CLOSE" /\ s.zapped
    BY <1>6, UpView DEF Shut
  <2>2. /\ HoldsOK(z.ofo, Up(y)) /\ SegmentsOK(z.out, Up(y)) /\ AllAck(z.out, z.rcv_nxt)
    BY <1>5, <2>1 DEF Open, ReceiverOK, Come, HoldsOK
  <2>3. Step(s, z, y) /\ Shut(z, y)
    BY <1>1, <1>5, <1>6, <2>1, <2>2, ShutStep
  <2> QED BY <2>1, <2>3 DEF Runs
<1>7. CASE Runs(s, y)
  <2>1. Good(s, v) /\ s.state \in Running /\ ~s.zapped
    BY <1>7 DEF Runs
  <2>2. /\ v.theirs = y.theirs /\ v.ended = y.ended /\ (s.state # "SYN_SENT" => v.up)
        /\ Up(y).theirs = y.theirs /\ Up(y).ended = y.ended
    <3>1. v.theirs = y.theirs /\ v.ended = y.ended /\ Up(y).theirs = y.theirs /\ Up(y).ended = y.ended
      BY WithFacts DEF ViewAt, Up
    <3>2. s.state # "SYN_SENT" => v = Up(y) /\ Up(y).up
      BY <1>7, RunsFacts
    <3> QED BY <3>1, <3>2
  <2>3. HoldsOK(z.rq, v)
    BY <1>1, <2>2 DEF HoldsOK, Pieces, Piece
  <2>4. HoldsOK(z.ofo, v) /\ s.rcv_nxt <= v.theirs + Flag(v.ended) /\ z.rcv_nxt >= s.rcv_nxt
    <3>1. HoldsOK(z.ofo, v) /\ s.rcv_nxt <= v.theirs + Flag(v.ended)
      BY <1>3, <1>5 DEF Open, ReceiverOK, Come, HoldsOK
    <3>2. z.rcv_nxt >= s.rcv_nxt
      BY <1>3, <1>5
    <3> QED BY <3>1, <3>2
  <2>5. Reaches(s, z, v)
    BY <1>3, <1>5, <2>3, <2>4 DEF Reaches
  <2>6. Moves(s, z) /\ StateStep(s, z)
    BY <1>1 DEF Moves, StateStep, Reads
  <2>7. /\ z.state = "SYN_SENT" => /\ s.state = "SYN_SENT" /\ z.rcv_nxt = s.rcv_nxt
                                   /\ z.delayed_acks = s.delayed_acks
        /\ s.state = "SYN_SENT" => z.state \in {"SYN_SENT", "CLOSE"}
        /\ z.state \in {"SYN_SENT", "SYN_RECV"} => z.rq = <<>> /\ z.ofo = <<>>
        /\ z.state # "SYN_SENT" => v.up
    BY <1>1, <1>3, <1>5, <2>2 DEF Open, Come
  <2>8. Stepped(s, z, v)
    BY <2>1, <2>5, <2>6, <2>7, MovesStepped
  <2>9. ViewAt(z, y) = v
    BY <1>5 DEF ViewAt
  <2>10. Runs(z, y)
    BY <1>5, <1>7, <2>8, <2>9 DEF Runs, Stepped, Counted
  <2>11. Step(s, z, y)
    BY <1>5, <2>8, <2>10 DEF Step, Used, Stepped
  <2> QED BY <2>1, <2>10, <2>11 DEF Shut
<1> QED BY <1>6, <1>7 DEF Used

(* atcp_recvmsg, with the acknowledgement that tells of the room it made:  *)
(* it gives the bytes at copied_seq.                                       *)
LEMMA RecvMsgStep ==
  ASSUME NEW s, NEW y, Used(s, y), NEW len \in Nat
  PROVE  LET r == atcp_recvmsg(s, len)
         IN /\ Step(s, r.sk, y)
            /\ InLine(s) => /\ InLine(r.sk) /\ IsSeq(r.got) /\ InOrder(r.got, Place(s, y) + 1)
                            /\ Place(r.sk, y) = Place(s, y) + Len(r.got)
<1> DEFINE r == Repeat([s |-> s, got |-> <<>>, left |-> len], Len(s.rq) + 1, CopyTurn)
           z == r.s
           a == atcp_send_ack(z)
           d == Predict(z)
           v == ViewAt(s, y)
           t == atcp_recvmsg(s, len).sk
           g == atcp_recvmsg(s, len).got
<1>1. t = cleanup_rbuf(z, Len(g)) /\ g = r.got
  BY DEF atcp_recvmsg
<1>2. /\ Reads(s, z) /\ HoldsOK(z.rq, Up(y)) /\ (s.rq = <<>> => z.rq = <<>> /\ g = <<>>)
      /\ InLine(s) => /\ InLine(z) /\ IsSeq(g) /\ InOrder(g, Place(s, y) + 1)
                      /\ Place(z, y) = Place(s, y) + Len(g)
  <2> HIDE DEF r
  <2> QED BY <1>1, ReadFacts DEF r
<1>3. /\ Open(s, v) /\ Record(s) /\ ReceiverOK(s) /\ ViewOK(y) /\ s.rcv_nxt \in Int
  BY UsedTypes
<1>4. t = z \/ (g # <<>> /\ (t = d \/ (t = a /\ z.state # "CLOSE")))
  BY <1>1, EmptyFacts DEF cleanup_rbuf
<1> HIDE DEF r, z, t, g
<1>5. /\ Record(z) /\ z.zapped = s.zapped /\ z.dead = s.dead /\ z.state = s.state
      /\ z.write_seq = s.write_seq /\ z.rcv_nxt = s.rcv_nxt /\ z.rcv_wup \in Int /\ z.rcv_wnd \in Nat
      /\ z.ofo = s.ofo /\ IsSeq(z.sacks) /\ z.in_hand \in Int /\ z.out = s.out
      /\ BucketOK(z.tw) /\ BucketAcks(z.tw, z.rcv_nxt) /\ z.delayed_acks = s.delayed_acks
  BY <1>2, <1>3 DEF Reads, SameOffer, SameQueue, Open, ReceiverOK, Come
<1>6. Step(s, z, y) /\ (Shut(s, y) => Shut(z, y)) /\ (Runs(s, y) => Runs(z, y))
  BY <1>2, ReadsStep
<1>7. ASSUME t # z
      PROVE  Steady(z, t, y) /\ t.copied_seq = z.copied_seq
  <2>1. CASE Shut(s, y)
    <3>1. Shut(z, y) /\ z.state = "CLOSE"
      BY <1>6, <2>1 DEF Shut
    <3>2. StartFields(z, d)
      BY <1>5 DEF Predict, StartFields, Record, Fields, SameLife, SameQueue, SameQueues, SameWindow
    <3> HIDE DEF d
    <3>3. t = d
      BY <1>4, <1>7, <3>1
    <3>4. SameOffer(z, d)
      BY <3>2 DEF StartFields, SameWindow, SameOffer
    <3>5. Steady(z, d, y)
      BY <3>1, <3>2, <3>4, ShutSame DEF StartFields, SameLife, SameQueue
    <3> QED BY <3>2, <3>3, <3>5 DEF StartFields, SameQueues
  <2>2. CASE Runs(s, y)
    <3>1. Runs(z, y) /\ s.rq # <<>>
      BY <1>2, <1>4, <1>6, <1>7, <2>2
    <3>2. s.state # "SYN_SENT"
      BY <1>3, <3>1 DEF Open, Come
    <3>3. Good(z, Up(y)) /\ Up(y).up /\ ViewAt(z, y) = Up(y) /\ Open(z, Up(y)) /\ QueueOK(z, z.snd_una, Up(y))
      BY <1>5, <3>1, <3>2, RunsFacts
    <3>4. Keeps(z, d, z.snd_una, Up(y)) /\ Keeps(z, a, z.snd_una, Up(y))
      BY <3>3, DelayedAckKeeps, SendAckKeeps
    <3> HIDE DEF a, d
    <3>5. Keeps(z, t, z.snd_una, Up(y))
      BY <1>4, <1>7, <3>4
    <3>6. Steady(z, t, y)
      BY <3>1, <3>3, <3>5, KeepsStep
    <3>7. SameQueues(z, t)
      BY <3>3, <3>5, KeepsHandled
    <3> QED BY <3>6, <3>7 DEF SameQueues
  <2> QED BY <2>1, <2>2 DEF Used
<1>8. /\ Step(s, t, y)
      /\ InLine(s) => /\ InLine(t) /\ IsSeq(g) /\ InOrder(g, Place(s, y) + 1)
                      /\ Place(t, y) = Place(s, y) + Len(g)
  <2>1. CASE t = z
    BY <2>1, <1>2, <1>6
  <2>2. CASE t # z
    <3>1. Steady(z, t, y) /\ t.copied_seq = z.copied_seq
      BY <1>7, <2>2
    <3>2. Step(s, t, y)
      BY <1>6, <3>1, StepTrans DEF Steady
    <3>3. InLine(z) => InLine(t)
      BY <3>1 DEF Steady, Line
    <3>4. Place(t, y) = Place(z, y)
      BY <3>1 DEF Place
    <3> QED BY <1>2, <3>2, <3>3, <3>4
  <2> QED BY <2>1, <2>2
<1> QED BY <1>8 DEF t, g

(* What has been read does not depend on what is written later. *)
LEMMA PlaceWider ==
  ASSUME NEW s, NEW y, NEW z, Wider(y, z), s.copied_seq \in Int,
         s.copied_seq <= y.theirs + Flag(y.ended)
  PROVE  Place(s, z) = Place(s, y)
<1>1. /\ y.theirs \in Nat \ {0} /\ z.theirs \in Nat \ {0} /\ y.theirs <= z.theirs
      /\ y.ended => z.theirs = y.theirs
  BY DEF Wider, ViewOK
<1>2. CASE z.theirs = y.theirs
  BY <1>2 DEF Place
<1>3. CASE z.theirs # y.theirs
  <2>1. s.copied_seq <= y.theirs
    BY <1>1, <1>3 DEF Flag
  <2>2. Smaller(s.copied_seq, y.theirs) = s.copied_seq /\ Smaller(s.copied_seq, z.theirs) = s.copied_seq
    BY <1>1, <2>1 DEF Smaller
  <2> QED BY <2>2 DEF Place
<1> QED BY <1>2, <1>3

(* A step in one view, and then one in a wider view, are one in that. *)
LEMMA StepAcross ==
  ASSUME NEW r, NEW s, NEW t, NEW y, NEW z, Used(r, y), Step(r, s, y), Step(s, t, z)
  PROVE  Step(r, t, z)
<1>1. /\ r.rcv_wup \in Int /\ r.rcv_wnd \in Int /\ s.rcv_wup \in Int /\ s.rcv_wnd \in Int
      /\ t.rcv_wup \in Int /\ t.rcv_wnd \in Int
      /\ r.rcv_nxt \in Int /\ s.rcv_nxt \in Int /\ t.rcv_nxt \in Int
  BY UsedTypes DEF Step
<1>2. Edge(r, s) /\ Edge(s, t) => Edge(r, t)
  BY <1>1 DEF Edge
<1>3. t.rcv_nxt >= r.rcv_nxt
  <2>1. s.rcv_nxt >= r.rcv_nxt /\ t.rcv_nxt >= s.rcv_nxt
    BY DEF Step
  <2> QED BY <1>1, <2>1
<1> QED BY <1>2, <1>3 DEF Step

(* Also if what has not been read stays in line. *)
LEMMA SteadyAcross ==
  ASSUME NEW r, NEW s, NEW t, NEW y, NEW z, Used(r, y), Steady(r, s, y), Steady(s, t, z)
  PROVE  Steady(r, t, z)
<1>1. Step(r, t, z)
  BY StepAcross DEF Steady
<1>2. Line(r, t)
  BY DEF Steady, Step, Line
<1> QED BY <1>1, <1>2 DEF Steady

(* A socket in use stays so while the other end writes, sends a FIN and    *)
(* receives.                                                               *)
LEMMA UsedWider ==
  ASSUME NEW s, NEW y, NEW z, Wider(y, z), z.last = y.last, z.fin <=> y.fin
  PROVE  /\ (Shut(s, y) => Shut(s, z)) /\ (Runs(s, y) => Runs(s, z))
         /\ (Used(s, y) => Used(s, z)) /\ (Gone(s, y) => Gone(s, z))
<1>1. Wider(ViewAt(s, y), ViewAt(s, z))
  BY WiderAt DEF ViewAt
<1>2. Counted(s, y) => Counted(s, z)
  BY DEF Counted, Flag
<1>3. Shut(s, y) => Shut(s, z)
  BY <1>1, <1>2, WiderOpen DEF Shut
<1>4. Gone(s, y) => Gone(s, z)
  BY <1>1, <1>2, WiderOpen DEF Gone
<1>5. Runs(s, y) => Runs(s, z)
  BY <1>1, <1>2, WiderGood DEF Runs, Wider
<1> QED BY <1>3, <1>4, <1>5 DEF Used

(***************************************************************************)
(* The options.                                                            *)
(***************************************************************************)
(* TCP_NODELAY and TCP_CORK. *)
LEMMA OptionsStep ==
  ASSUME NEW s, NEW y, Used(s, y), s.state # "CLOSE"
  PROVE  Steady(s, NoDelay(s), y) /\ Steady(s, Cork(s), y) /\ Steady(s, Uncork(s), y)
<1> DEFINE n == NoDelay(s)
           c == Cork(s)
           z == [s EXCEPT !.nonagle = 0]
           p == atcp_push_pending_frames(z)
           v == ViewAt(s, y)
<1>1. Runs(s, y) /\ Record(s)
  BY UsedTypes DEF Used, Shut
<1>2. Open(s, v) /\ QueueOK(s, s.snd_una, v)
  BY <1>1, RunsFacts
<1>3. /\ StartFields(s, n) /\ n.timers = s.timers /\ StartFields(s, c) /\ c.timers = s.timers
      /\ StartFields(s, z) /\ z.timers = s.timers
  BY <1>1 DEF NoDelay, Cork, StartFields, Record, Fields, SameLife, SameQueue, SameQueues,
     SameWindow
<1>4. Uncork(s) = p
  BY DEF Uncork
<1> HIDE DEF n, c, z, v
<1>5. Keeps(s, n, s.snd_una, v) /\ Keeps(s, c, s.snd_una, v) /\ Keeps(s, z, s.snd_una, v)
  <2>1. /\ ("RETRANS" \in n.timers <=> "RETRANS" \in s.timers)
        /\ ("RETRANS" \in c.timers <=> "RETRANS" \in s.timers)
        /\ ("RETRANS" \in z.timers <=> "RETRANS" \in s.timers)
    BY <1>3
  <2> QED BY <1>2, <1>3, <2>1, FrameKeeps
<1>6. Open(z, v) /\ QueueOK(z, s.snd_una, v)
  BY <1>5 DEF Keeps, Grows, Outputs
<1>7. Keeps(z, p, s.snd_una, v)
  BY <1>6, PushKeeps
<1> HIDE DEF p
<1>8. Keeps(s, p, s.snd_una, v)
  BY <1>2, <1>5, <1>7, KeepsTrans
<1>9. Steady(s, n, y) /\ Steady(s, c, y) /\ Steady(s, p, y)
  BY <1>1, <1>5, <1>8, KeepsStep DEF v
<1> QED BY <1>4, <1>9 DEF n, c

(***************************************************************************)
(* shutdown and close                                                      *)
(***************************************************************************)
(* The states close leads to. *)
LEMMA NewStateFacts ==
  ASSUME NEW s, s.state \in Running
  PROVE  /\ new_state[s.state] \in Later \union {"CLOSE"}
         /\ s.state = "CLOSE" => new_state[s.state] = "CLOSE"
         /\ s.state = "SYN_SENT" => new_state[s.state] = "CLOSE"
         /\ new_state[s.state] \notin Writing
  BY DEF new_state, Running, Later, Writing

(* atcp_close_state. *)
LEMMA CloseStateHandled ==
  ASSUME NEW s, NEW y, Runs(s, y), NEW dead
  PROVE  LET t == atcp_close_state(s, dead)
         IN /\ Handled(s, t, Up(y)) /\ t.state \notin Writing /\ t.write_seq = s.write_seq
            /\ t.snd_una = s.snd_una
<1> DEFINE n == new_state[s.state]
           t == atcp_set_state(s, n)
           f == net_reset_timer(t, "CLOSE")
           Turned(x) == Moves(s, x) /\ SameQueues(s, x) /\ x.state = n
<1>1. /\ n \in Later \union {"CLOSE"} /\ (s.state = "CLOSE" => n = "CLOSE")
      /\ (s.state = "SYN_SENT" => n = "CLOSE") /\ n \notin Writing
  BY NewStateFacts DEF Runs
<1>2. atcp_close_state(s, dead) = t \/ atcp_close_state(s, dead) = f
  BY DEF atcp_close_state, atcp_check_fin_timer
<1>3. Record(s) /\ Good(s, Up(y)) /\ Up(y).up /\ s.state \in Running
  BY RunsFacts DEF Runs
<1>4. Turned(t) /\ Record(t)
  BY <1>3 DEF atcp_set_state, net_reset_timer, Record, Fields, Moves, SameQueue, SameOffer,
     SameQueues
<1> HIDE DEF t, n
<1>5. Turned(f)
  BY <1>4 DEF net_reset_timer, Record, Fields, Moves, SameQueue, SameOffer, SameQueues
<1> HIDE DEF f
<1>6. ASSUME NEW x, Turned(x)
      PROVE  /\ Handled(s, x, Up(y)) /\ x.state \notin Writing /\ x.write_seq = s.write_seq
             /\ x.snd_una = s.snd_una
  <2>1. Reaches(s, x, Up(y)) /\ Line(s, x)
    BY <1>3, <1>6, ReachesSame
  <2>2. x.state \notin {"SYN_SENT", "SYN_RECV"} /\ x.state \notin Writing
    BY <1>1, <1>6 DEF Later
  <2>3. StateStep(s, x)
    BY <1>1, <1>3, <1>6 DEF StateStep, Running
  <2>4. Moves(s, x)
    BY <1>6
  <2>5. s.state = "SYN_SENT" => x.state \in {"SYN_SENT", "CLOSE"}
    BY <1>1, <1>6
  <2>6. Stepped(s, x, Up(y))
    BY <1>3, <2>1, <2>2, <2>3, <2>4, <2>5, MovesStepped
  <2> QED BY <2>1, <2>2, <2>4, <2>6 DEF Handled, Moves, SameQueue
<1> QED BY <1>2, <1>4, <1>5, <1>6

(* The FIN, if the state asks for one: it has the number after the last    *)
(* byte written.                                                           *)
LEMMA FinIfNeededStep ==
  ASSUME NEW s, NEW y, Runs(s, y), NEW z, Wider(y, z), z.last = y.last,
         z.fin <=> y.fin \/ s.state \in SendsFin, NEW dead
  PROVE  Steady(s, FinIfNeeded(s, dead), z)
<1> DEFINE t == atcp_close_state(s, dead)
           f == atcp_send_fin(t)
           v == Up(z)
<1>1. FinIfNeeded(s, dead) = IF s.state \in SendsFin THEN f ELSE t
  BY DEF FinIfNeeded
<1>2. /\ Handled(s, t, Up(y)) /\ t.state \notin Writing /\ t.write_seq = s.write_seq
      /\ t.snd_una = s.snd_una
  BY CloseStateHandled
<1> HIDE DEF t
<1>3. t.state # "SYN_SENT"
  BY <1>2 DEF Writing
<1>4. Steady(s, t, y) /\ Runs(t, y)
  BY <1>2, <1>3, UpStep
<1>5. CASE s.state \notin SendsFin
  <2>1. z.fin <=> y.fin
    BY <1>5
  <2>2. Used(t, z) /\ Runs(s, z)
    BY <1>4, <2>1, UsedWider DEF Steady, Step
  <2>3. Steady(s, t, z)
    BY <1>4, <2>2 DEF Steady, Step
  <2> QED BY <1>1, <1>5, <2>3
<1>6. CASE s.state \in SendsFin
  <2>1. s.state \in Writing
    BY <1>6 DEF SendsFin, Writing
  <2>2. s.write_seq = y.last /\ z.fin
    BY <2>1, <1>6 DEF Runs, Counted, Flag, Wider, ViewOK
  <2>3. Good(t, v) /\ ViewAt(t, z) = v /\ v.up /\ v.fin /\ v.last = z.last
    <3>1. Good(t, Up(y)) /\ ViewAt(t, z) = v
      BY <1>3, <1>4, RunsFacts, UpView
    <3>2. Wider(Up(y), v)
      BY WiderAt DEF Up
    <3>3. v.up /\ v.fin = z.fin /\ v.last = z.last
      <4>1. v = [calls |-> z.calls, up |-> TRUE, last |-> z.last, fin |-> z.fin, seen |-> z.seen,
                 theirs |-> z.theirs, ended |-> z.ended]
        BY DEF Up, With
      <4> QED BY <4>1
    <3> QED BY <2>2, <3>1, <3>2, <3>3, WiderGood
  <2> HIDE DEF v
  <2>4. Open(t, v) /\ QueueOK(t, t.snd_una, v)
    BY <2>3, GoodFacts
  <2>5. Grows(t, f, t.snd_una, v) /\ f.write_seq = v.last + 1
    BY <1>2, <2>2, <2>3, <2>4, SendFinKeeps
  <2> HIDE DEF f
  <2>6. Counted(f, z)
    <3>1. f.state = t.state
      BY <2>5 DEF Grows, Outputs, SameLife
    <3> QED BY <1>2, <2>2, <2>3, <2>5, <3>1 DEF Counted, Flag
  <2>7. Steady(t, f, z)
    <3>1. Good(t, ViewAt(t, z)) /\ Grows(t, f, t.snd_una, ViewAt(t, z))
      BY <2>3, <2>5
    <3>2. ~t.zapped /\ t.state \in Running
      BY <1>4 DEF Runs
    <3> QED BY <1>3, <2>6, <3>1, <3>2, GrowsStep
  <2>8. Used(s, y)
    BY DEF Used
  <2>9. Steady(s, f, z)
    BY <1>4, <2>7, <2>8, SteadyAcross
  <2> QED BY <1>1, <1>6, <2>9
<1> QED BY <1>5, <1>6

(* atcp_shutdown. *)
LEMMA ShutdownStep ==
  ASSUME NEW s, NEW y, Used(s, y), s.state # "CLOSE", NEW z, Wider(y, z), z.last = y.last,
         z.fin <=> y.fin \/ s.state \in SendsFin
  PROVE  Steady(s, atcp_shutdown(s), z)
<1> DEFINE t == [s EXCEPT !.shutdown = @ \union {"SEND"}]
           f == FinIfNeeded(t, FALSE)
<1>1. \/ atcp_shutdown(s) = t /\ s.state \notin SendsFin
      \/ atcp_shutdown(s) = f
  BY DEF atcp_shutdown, SendsFin
<1>2. Runs(s, y) /\ Record(s)
  BY UsedTypes DEF Used, Shut
<1>3. StartFields(s, t) /\ t.timers = s.timers
  BY <1>2 DEF StartFields, Record, Fields, SameLife, SameQueue, SameQueues, SameWindow
<1> HIDE DEF t
<1>4. Keeps(s, t, s.snd_una, ViewAt(s, y))
  <2>1. "RETRANS" \in t.timers <=> "RETRANS" \in s.timers
    BY <1>3
  <2> QED BY <1>2, <1>3, <2>1, FrameKeeps, RunsFacts
<1>5. Steady(s, t, y) /\ Runs(t, y) /\ t.state = s.state
  BY <1>2, <1>4, KeepsStep
<1>6. Steady(t, f, z)
  BY <1>5, FinIfNeededStep
<1> HIDE DEF f
<1>7. Steady(s, f, z)
  BY <1>5, <1>6, SteadyAcross
<1>8. s.state \notin SendsFin => Steady(s, t, z)
  <2> HAVE s.state \notin SendsFin
  <2>1. Used(t, z)
    BY <1>5, UsedWider DEF Steady, Step
  <2> QED BY <1>5, <2>1 DEF Steady, Step
<1> QED BY <1>1, <1>7, <1>8

(* The timer that ends FIN_WAIT2 does not matter here. *)
LEMMA CheckFinTimerStep ==
  ASSUME NEW s, NEW y, Used(s, y)
  PROVE  Steady(s, atcp_check_fin_timer(s), y)
<1> DEFINE n == net_reset_timer(s, "CLOSE")
<1>1. \/ atcp_check_fin_timer(s) = s
      \/ s.state = "FIN_WAIT2" /\ atcp_check_fin_timer(s) = n
  BY DEF atcp_check_fin_timer
<1>2. Steady(s, s, y) /\ Record(s)
  BY SteadyRefl, UsedTypes
<1>3. StartFields(s, n) /\ n.timers = s.timers
  BY <1>2 DEF net_reset_timer, StartFields, Record, Fields, SameLife, SameQueue, SameQueues,
     SameWindow
<1> HIDE DEF n
<1>4. s.state = "FIN_WAIT2" => Steady(s, n, y)
  <2> HAVE s.state = "FIN_WAIT2"
  <2>1. Runs(s, y)
    BY DEF Used, Shut
  <2>2. "RETRANS" \in n.timers <=> "RETRANS" \in s.timers
    BY <1>3
  <2>3. Keeps(s, n, s.snd_una, ViewAt(s, y))
    BY <1>3, <2>1, <2>2, FrameKeeps, RunsFacts
  <2> QED BY <2>1, <2>3, KeepsStep
<1> QED BY <1>1, <1>2, <1>4

(* A reset changes the receiving half's window at most, and what was sent. *)
LEMMA ActiveResetStep ==
  ASSUME NEW s, NEW y, Used(s, y), s.state = "CLOSE"
  PROVE  Steady(s, atcp_send_active_reset(s), y)
<1> DEFINE none == <<>>
           flags == {"RST", "ACK"}
           q == s.write_seq
           h == Header(q, none, flags)
           t == atcp_transmit(s, q, none, flags)
           v == Up(y)
<1>1. atcp_send_active_reset(s) = t
  BY DEF atcp_send_active_reset
<1>2. Open(s, v) /\ q \in Int /\ IsSeq(none) /\ Record(s) /\ ViewAt(s, y) = v
  BY UsedTypes, EmptyFacts, UpView
<1>3. Carries(h, v)
  <2>1. h.data = <<>> /\ ~h.syn /\ ~h.fin /\ h.ack /\ h.rst
    BY Zenon DEF Header
  <2>2. InOrder(<<>>, h.seq)
    BY EmptyFacts DEF InOrder
  <2> HIDE DEF h
  <2> QED BY Zenon, <2>1, <2>2 DEF Carries
<1>4. flags = {"RST", "ACK"}
  OBVIOUS
<1> HIDE DEF none, flags, q, v
<1>5. Outputs(s, t, v) /\ SameQueue(s, t) /\ t.timers = s.timers \ {"DACK"}
  BY <1>2, <1>3, TransmitFacts
<1> HIDE DEF t
<1>6. t.state = "CLOSE" /\ Open(t, v) /\ SameQueues(s, t) /\ Edge(s, t) /\ t.zapped = s.zapped
      /\ t.dead = s.dead /\ t.write_seq = s.write_seq
  BY <1>5 DEF Outputs, SameLife, SameQueue
<1>7. CASE Shut(s, y)
  <2>1. ViewAt(t, y) = v
    BY <1>6, UpView DEF v
  <2>2. Shut(t, y)
    BY <1>6, <1>7, <2>1 DEF Shut, Counted, Writing
  <2>3. t.rcv_nxt >= s.rcv_nxt
    <3>1. t.rcv_nxt = s.rcv_nxt /\ s.rcv_nxt \in Int
      BY <1>2, <1>6 DEF Open, ReceiverOK, SameQueues
    <3> QED BY <3>1
  <2>4. Line(s, t)
    BY <1>6, SameLine
  <2>5. Steady(s, t, y)
    BY <1>6, <2>2, <2>3, <2>4 DEF Steady, Step, Used
  <2> QED BY <1>1, <2>5
<1>8. CASE Runs(s, y)
  <2>1. Open(s, v) /\ QueueOK(s, s.snd_una, v)
    BY <1>2, <1>8, RunsFacts
  <2>2. Keeps(s, t, s.snd_una, v)
    BY <1>2, <1>4, <2>1, TransmitKeeps DEF t, none
  <2>3. Steady(s, t, y)
    BY <1>2, <1>8, <2>2, KeepsStep
  <2> QED BY <1>1, <2>3
<1> QED BY <1>7, <1>8 DEF Used

(* What close finds that nobody has read. *)
Unread(s) == \E i \in DOMAIN s.rq : s.rq[i].end - s.rq[i].seq > Flag(s.rq[i].fin)

(* Closing the socket at once. *)
LEMMA AbortStep ==
  ASSUME NEW s, NEW y, Used(s, y)
  PROVE  Steady(s, atcp_set_state(s, "CLOSE"), y)
<1> DEFINE c == atcp_set_state(s, "CLOSE")
<1>1. Record(s) /\ s.rcv_nxt \in Int
  BY UsedTypes
<1>2. s.snd_nxt \in Int /\ Runs(s, y) => Closes(s, c) /\ c.timers = s.timers
  <2>1. SameQueue(s, s) /\ SameOffer(s, s) /\ SameQueues(s, s)
    BY DEF SameQueue, SameOffer, SameQueues
  <2> QED BY <1>1, <2>1, ClosingFacts
<1>3. /\ Record(c) /\ SameQueue(s, c) /\ SameOffer(s, c) /\ SameQueues(s, c)
      /\ c.out = s.out /\ c.zapped = s.zapped /\ c.dead = s.dead /\ c.state = "CLOSE"
  BY ZenonT(60), <1>1 DEF atcp_set_state, net_reset_timer, Record, Fields, SameQueue, SameOffer,
     SameQueues
<1> HIDE DEF c
<1>4. CASE Shut(s, y)
  <2>1. c.write_seq = s.write_seq
    BY <1>3 DEF SameQueue
  <2>2. Steady(s, c, y)
    BY <1>3, <1>4, <2>1, ShutSame
  <2> QED BY <2>2 DEF c
<1>5. CASE Runs(s, y)
  <2>1. s.snd_nxt \in Int
    BY <1>5, RunsFacts
  <2>2. "RETRANS" \in c.timers => "RETRANS" \in s.timers
    BY <1>2, <1>5, <2>1
  <2>3. Steady(s, c, y)
    BY <1>2, <1>5, <2>1, <2>2, ClosesStep
  <2> QED BY <2>3 DEF c
<1> QED BY <1>4, <1>5 DEF Used

(* atcp_close: with unread data a reset, otherwise a FIN. *)
LEMMA CloseStep ==
  ASSUME NEW s, NEW y, Used(s, y), NEW z, Wider(y, z), z.last = y.last,
         z.fin <=> y.fin \/ (s.state \in SendsFin /\ ~Unread(s))
  PROVE  Step(s, atcp_close(s), z)
<1> DEFINE none == <<>>
           t == [s EXCEPT !.shutdown = {"RCV", "SEND"}, !.rq = none]
           c == atcp_set_state(t, "CLOSE")
           a == atcp_send_active_reset(c)
           f == FinIfNeeded(t, TRUE)
<1>1. atcp_close(s) = IF Unread(s) THEN atcp_check_fin_timer(a) ELSE atcp_check_fin_timer(f)
  BY DEF atcp_close, Unread
<1>2. Record(s) /\ s.state \in Running
  BY UsedTypes
<1>3. Reads(s, t) /\ t.rq = none
  BY <1>2 DEF Reads, Record, Fields, SameQueue, SameOffer
<1>4. HoldsOK(none, Up(y)) /\ none = <<>>
  BY BuffersEmpty
<1> HIDE DEF t, none
<1>5. /\ Step(s, t, y) /\ (Shut(s, y) => Shut(t, y)) /\ (Runs(s, y) => Runs(t, y))
      /\ t.state = s.state
  <2>1. HoldsOK(t.rq, Up(y)) /\ (s.rq = <<>> => t.rq = <<>>)
    BY <1>3, <1>4
  <2> QED BY <1>3, <2>1, ReadsStep DEF Reads
<1>6. Used(t, y)
  BY <1>5 DEF Step
<1>7. Unread(s) => Step(s, a, z)
  <2> HAVE Unread(s)
  <2>1. z.fin <=> y.fin
    OBVIOUS
  <2>2. Used(t, z)
    BY <1>6, <2>1, UsedWider
  <2>3. Steady(t, c, z)
    BY <2>2, AbortStep
  <2>4. Used(c, z) /\ c.state = "CLOSE"
    <3>1. Record(t)
      BY <1>3 DEF Reads
    <3> QED BY <2>3, <3>1 DEF Steady, Step, atcp_set_state, net_reset_timer, Record, Fields
  <2> HIDE DEF c
  <2>5. Steady(c, a, z)
    BY <2>4, ActiveResetStep
  <2> HIDE DEF a
  <2>6. Step(t, a, z)
    BY <2>2, <2>3, <2>5, StepTrans DEF Steady
  <2> QED BY <1>5, <2>6, StepAcross
<1>8. ~Unread(s) => Step(s, f, z)
  <2> HAVE ~Unread(s)
  <2>1. z.fin <=> y.fin \/ t.state \in SendsFin
    BY <1>5
  <2>2. CASE Runs(t, y)
    <3>1. Steady(t, f, z)
      BY <2>1, <2>2, FinIfNeededStep
    <3> HIDE DEF f
    <3> QED BY <1>5, <3>1, StepAcross DEF Steady
  <2>3. CASE Shut(t, y)
    <3>1. t.state = "CLOSE"
      BY <2>3 DEF Shut
    <3>2. new_state[t.state] = "CLOSE" /\ t.state \notin SendsFin
      BY <3>1 DEF new_state, SendsFin
    <3>3. f = IF TRUE THEN atcp_check_fin_timer(c) ELSE c
      BY <3>2 DEF FinIfNeeded, atcp_close_state
    <3>4. c.state = "CLOSE"
      <4>1. Record(t)
        BY <1>3 DEF Reads
      <4> QED BY <4>1 DEF atcp_set_state, net_reset_timer, Record, Fields
    <3>5. f = c
      BY <3>3, <3>4 DEF atcp_check_fin_timer
    <3>6. Used(t, z)
      BY <1>6, <2>1, <3>2, UsedWider
    <3>7. Steady(t, c, z)
      BY <3>6, AbortStep
    <3> HIDE DEF c, f
    <3> QED BY <1>5, <3>5, <3>7, StepAcross DEF Steady
  <2> QED BY <1>6, <2>2, <2>3 DEF Used
<1> HIDE DEF a, f
<1>9. ASSUME NEW x, Step(s, x, z)
      PROVE  Step(s, atcp_check_fin_timer(x), z)
  <2>1. Used(x, z)
    BY <1>9 DEF Step
  <2>2. Step(x, atcp_check_fin_timer(x), z)
    BY <2>1, CheckFinTimerStep DEF Steady
  <2>3. s.rcv_nxt \in Int /\ x.rcv_nxt \in Int /\ s.rcv_wup \in Int /\ s.rcv_wnd \in Int
        /\ x.rcv_wup \in Int /\ x.rcv_wnd \in Int
    BY <2>1, UsedTypes
  <2> DEFINE w == atcp_check_fin_timer(x)
  <2>4. Used(w, z)
    BY <2>2 DEF Step
  <2> HIDE DEF w
  <2>5. w.rcv_nxt \in Int /\ w.rcv_wup \in Int /\ w.rcv_wnd \in Int
    BY <2>4, UsedTypes
  <2>6. Edge(s, x) /\ Edge(x, w) => Edge(s, w)
    BY <2>3, <2>5 DEF Edge
  <2>7. w.rcv_nxt >= s.rcv_nxt
    <3>1. x.rcv_nxt >= s.rcv_nxt /\ w.rcv_nxt >= x.rcv_nxt
      BY <1>9, <2>2 DEF Step, w
    <3> QED BY <2>3, <2>5, <3>1
  <2>8. Step(s, w, z)
    BY <1>9, <2>2, <2>6, <2>7 DEF Step, w
  <2> QED BY <2>8 DEF w
<1> QED BY <1>1, <1>7, <1>8, <1>9

(***************************************************************************)
(* A new socket.                                                           *)
(***************************************************************************)
(* A new socket. *)
LEMMA NewSockFacts ==
  /\ Record(NewSock) /\ NewSock.state = "CLOSE" /\ NewSock.zapped = FALSE
  /\ NewSock.snd_una = 0 /\ NewSock.snd_nxt = 0 /\ NewSock.write_seq = 0
  /\ NewSock.snd_wnd = 0 /\ NewSock.max_window = 0 /\ NewSock.wq = <<>>
  /\ NewSock.send_head = 0 /\ NewSock.retrans_head = 0 /\ NewSock.packets_out = 0
  /\ NewSock.fackets_out = 0 /\ NewSock.high_seq = 0 /\ NewSock.rcv_nxt = 0
  /\ NewSock.rcv_wup = 0 /\ NewSock.rcv_wnd = 0 /\ NewSock.in_hand = 0
  /\ NewSock.rq = <<>> /\ NewSock.ofo = <<>> /\ NewSock.sacks = <<>>
  /\ NewSock.timers = {} /\ NewSock.out = <<>> /\ NewSock.dead = FALSE
  /\ NewSock.msl = "none" /\ NewSock.tw = <<>> /\ NewSock.delayed_acks = 0
  /\ NewSock.copied_seq = 0
BY DEF NewSock, Record, Fields, Null

(* The SYN is a well-formed buffer of the end that connects. *)
LEMMA SynFacts ==
  ASSUME NEW y, ViewOK(y), y.calls, NEW u
  PROVE  LET b == Skb(0, <<>>, 0, {"SYN"})
         IN SkbOK(b, u, y) /\ b.seq = 0 /\ b.end = 1
<1> DEFINE flags == {"SYN"}
           none == <<>>
           zero == 0
           cap == 0
<1>1. IsSeq(none) /\ none = <<>>
  BY EmptyFacts
<1>2. zero \in Nat /\ zero = 0 /\ cap \in Int
  OBVIOUS
<1>3. flags # {"ACK"} /\ flags = {"SYN"}
  OBVIOUS
<1> HIDE DEF flags, none, zero, cap
<1>4. \/ /\ flags = {"ACK"} /\ none # <<>> /\ y.up /\ zero >= 1
         /\ InOrder(none, zero) /\ zero + Len(none) <= y.last
      \/ flags = {"SYN"} /\ none = <<>> /\ y.calls /\ zero = 0
      \/ flags = {"ACK", "FIN"} /\ none = <<>> /\ y.up /\ y.fin /\ zero = y.last
  BY <1>1, <1>2, <1>3
<1>7. ViewOK(y) /\ IsSeq(none) /\ zero \in Nat /\ cap \in Int
  BY <1>1, <1>2
<1>5. /\ SkbOK(Skb(zero, none, cap, flags), u, y) /\ Skb(zero, none, cap, flags).seq = zero
      /\ Skb(zero, none, cap, flags).end = IF flags = {"ACK"} THEN zero + Len(none) ELSE zero + 1
  BY ONLY <1>4, <1>7, SkbFacts
<1>6. Skb(zero, none, cap, flags).end = 1
  BY <1>2, <1>3, <1>5
<1> QED BY <1>2, <1>5, <1>6 DEF flags, none, zero, cap

(* atcp_connect puts the SYN into the queue, sends it and sets its timer. *)
LEMMA ConnectRuns ==
  ASSUME NEW s, s = NewSock, NEW y, ViewOK(y), y.calls, y.last = 1, ~y.fin
  PROVE  LET t == atcp_connect(s)
         IN Runs(t, y) /\ InLine(t) /\ t.copied_seq = 0 /\ t.dead = s.dead /\ t.rcv_nxt = 0
            /\ t.state = "SYN_SENT"
<1> DEFINE v == With(y, FALSE)
           b == Skb(0, <<>>, 0, {"SYN"})
           q == Append(s.wq, b)
           t == [s EXCEPT !.snd_wnd = 0, !.snd_wl1 = 0, !.snd_wl2 = s.write_seq,
                     !.snd_una = s.write_seq, !.rcv_nxt = 0, !.err = FALSE,
                     !.write_seq = @ + 1, !.snd_nxt = s.write_seq + 1,
                     !.rcv_wnd = atcp_select_initial_window,
                     !.state = "SYN_SENT", !.retransmits = 0,
                     !.fackets_out = 0, !.retrans_out = 0,
                     !.wq = Append(@, Skb(s.write_seq, <<>>, 0, {"SYN"})),
                     !.packets_out = @ + 1]
           c == t.wq[Len(t.wq)]
           m == atcp_transmit_skb(t, c)
           z == StartRetrans(m)
<1>1. atcp_connect(s) = z
  BY DEF atcp_connect
<1>2. /\ Record(s) /\ s.zapped = FALSE /\ s.write_seq = 0 /\ s.wq = <<>>
      /\ s.max_window = 0 /\ s.send_head = 0 /\ s.retrans_head = 0 /\ s.packets_out = 0
      /\ s.high_seq = 0 /\ s.rcv_wup = 0 /\ s.in_hand = 0 /\ s.rq = <<>> /\ s.ofo = <<>>
      /\ s.sacks = <<>> /\ s.out = <<>> /\ s.tw = <<>> /\ s.delayed_acks = 0 /\ s.copied_seq = 0
  BY NewSockFacts
<1>0. ViewOK(v) /\ v.calls /\ v.last = 1
  <2>1. v = [calls |-> y.calls, up |-> FALSE, last |-> y.last, fin |-> y.fin, seen |-> y.seen,
             theirs |-> y.theirs, ended |-> y.ended]
    BY DEF With
  <2> HIDE DEF v
  <2>2. ViewOK(v)
    BY <2>1 DEF ViewOK
  <2> QED BY <2>1, <2>2
<1> HIDE DEF v
<1>3. SkbOK(b, 0, v) /\ b.seq = 0 /\ b.end = 1
  BY <1>0, SynFacts
<1>4. t.wq = q
  BY <1>2 DEF Record, Fields
<1>5. /\ Record(t) /\ t.state = "SYN_SENT" /\ t.zapped = FALSE /\ t.snd_una = 0
      /\ t.snd_nxt = 1 /\ t.write_seq = 1 /\ t.snd_wnd = 0 /\ t.max_window = 0
      /\ t.send_head = 0 /\ t.retrans_head = 0 /\ t.packets_out = 1 /\ t.fackets_out = 0
      /\ t.high_seq = 0 /\ t.rcv_nxt = 0 /\ t.rcv_wup = 0
      /\ t.rcv_wnd = atcp_select_initial_window /\ t.in_hand = 0 /\ t.rq = <<>>
      /\ t.ofo = <<>> /\ t.sacks = <<>> /\ t.out = <<>> /\ t.tw = <<>> /\ t.delayed_acks = 0
      /\ t.copied_seq = 0 /\ t.dead = s.dead
  <2> DEFINE syn == Skb(s.write_seq, <<>>, 0, {"SYN"})
             win == atcp_select_initial_window
             one == s.write_seq
             next == s.write_seq + 1
             count == s.packets_out + 1
             w == Append(s.wq, syn)
             a == [s EXCEPT !.snd_wnd = 0, !.snd_wl1 = 0, !.snd_wl2 = one,
                     !.snd_una = one, !.rcv_nxt = 0, !.err = FALSE,
                     !.write_seq = next, !.snd_nxt = next,
                     !.rcv_wnd = win,
                     !.state = "SYN_SENT", !.retransmits = 0,
                     !.fackets_out = 0, !.retrans_out = 0,
                     !.wq = w,
                     !.packets_out = count]
  <2>1. t = a
    OBVIOUS
  <2> HIDE DEF syn, t, win, one, next, count, w
  <2>4. s.write_seq \in Int /\ s.packets_out \in Int
    BY <1>2
  <2>5. Record(s)
    BY <1>2
  <2>2. /\ Record(a) /\ a.state = "SYN_SENT" /\ a.zapped = s.zapped /\ a.snd_una = one
        /\ a.snd_nxt = next /\ a.write_seq = next /\ a.snd_wnd = 0
        /\ a.max_window = s.max_window /\ a.send_head = s.send_head
        /\ a.retrans_head = s.retrans_head /\ a.packets_out = count
        /\ a.fackets_out = 0 /\ a.high_seq = s.high_seq /\ a.rcv_nxt = 0
        /\ a.rcv_wup = s.rcv_wup /\ a.rcv_wnd = win
        /\ a.in_hand = s.in_hand /\ a.rq = s.rq /\ a.ofo = s.ofo /\ a.sacks = s.sacks
        /\ a.out = s.out
    BY ZenonT(60), <2>5 DEF Record, Fields
  <2>6. a.tw = s.tw /\ a.delayed_acks = s.delayed_acks /\ a.copied_seq = s.copied_seq /\ a.dead = s.dead
    BY <2>5 DEF Record, Fields
  <2> HIDE DEF a
  <2>3. s.write_seq + 1 = 1 /\ s.packets_out + 1 = 1
    BY <1>2
  <2> QED BY <1>2, <2>1, <2>2, <2>3, <2>6 DEF win, one, next, count
<1> HIDE DEF t, b
<1>6. IsSeq(q) /\ Len(q) = 1 /\ q[1] = b /\ q # <<>>
  <2> DEFINE e == s.wq
  <2>1. IsSeq(e) /\ Len(e) = 0
    BY <1>2, EmptyFacts
  <2> HIDE DEF e
  <2>4. IsSeq(e)
    BY <2>1
  <2>2. /\ IsSeq(Append(e, b)) /\ Len(Append(e, b)) = Len(e) + 1
        /\ Append(e, b)[Len(e) + 1] = b /\ Append(e, b) # <<>>
    BY <2>4, AppendFacts
  <2>3. q = Append(e, b)
    BY DEF e
  <2> HIDE DEF q
  <2> QED BY <2>1, <2>2, <2>3
<1> HIDE DEF q
<1>7. Open(t, v)
  <2>0. t.rq = <<>> /\ t.ofo = <<>> /\ t.sacks = <<>>
    BY <1>5
  <2>1. BuffersOK(t.rq) /\ BuffersOK(t.ofo) /\ IsSeq(t.sacks)
    BY <2>0, BuffersEmpty, EmptyFacts DEF HoldsOK
  <2>2. SegmentsOK(t.out, v) /\ AllAck(t.out, t.rcv_nxt)
    BY <1>5, EmptyFacts DEF SegmentsOK, AllAck
  <2>3. Pieces(t.rq, v) /\ Pieces(t.ofo, v)
    BY <1>5, EmptyFacts DEF Pieces
  <2>4. t.rcv_nxt <= v.theirs + Flag(v.ended)
    BY <1>0, <1>5 DEF ViewOK, Flag
  <2>5. Come(t, v)
    BY <1>0, <1>5, <2>2, <2>3, <2>4 DEF Come, BucketAcks
  <2> QED BY <1>5, <2>1, <2>2, <2>5, InitialWindowType DEF Open, ReceiverOK, BucketOK
<1>8. QueueOK(t, 0, v) /\ HeadOK(t, 0)
  <2>1. ChainOK(t.wq, 0, v)
    BY <1>3, <1>4, <1>6 DEF ChainOK
  <2>2. Sent(t) = 1
    BY <1>4, <1>5, <1>6 DEF Sent, Null
  <2>3. t.send_head \in 0..Len(t.wq)
    BY <1>4, <1>5, <1>6
  <2>4. QueueTypes(t, 0, v)
    BY <1>0, <1>5, <2>1, <2>2, <2>3 DEF QueueTypes, ViewOK
  <2>5. Whole(t, 0)
    BY <1>3, <1>4, <1>5, <1>6 DEF Whole, Null
  <2> QED BY <1>3, <1>4, <1>6, <2>4, <2>5 DEF QueueOK, HeadOK
<1>9. SkbOK(c, 0, v)
  BY <1>3, <1>4, <1>6
<1> HIDE DEF c
<1>10. Outputs(t, m, v) /\ SameQueue(t, m)
  <2>1. 0 <= v.seen
    BY <1>0 DEF ViewOK
  <2> QED BY <1>7, <1>9, <2>1, TransmitSkbFacts
<1> HIDE DEF m
<1>11. Record(m) /\ Open(m, v)
  BY <1>10 DEF Outputs, Open
<1>12. StartFields(m, z) /\ "RETRANS" \in z.timers
  BY <1>11, StartFacts
<1> HIDE DEF z
<1>13. Open(z, v)
  <2>1. Outputs(m, z, v)
    BY <1>11, <1>12, OutputsQuiet DEF StartFields
  <2> QED BY <2>1 DEF Outputs
<1>14. SameQueue(t, z) /\ z.state = "SYN_SENT" /\ z.zapped = FALSE /\ SameQueues(t, z)
       /\ z.dead = s.dead
  BY <1>5, <1>10, <1>12 DEF StartFields, SameLife, SameQueue, SameQueues, Outputs
<1>15. QueueOK(z, 0, v) /\ HeadOK(z, 0) /\ z.packets_out = 1 /\ z.snd_una = 0 /\ z.write_seq = 1
  BY <1>5, <1>8, <1>14, SameQueueOK DEF SameQueue
<1>16. Timed(z)
  BY <1>12, <1>15 DEF Timed
<1>17. Good(z, v)
  BY <1>13, <1>15, <1>16 DEF Good, GoodAt
<1>18. ViewAt(z, y) = v
  BY <1>14 DEF ViewAt, v
<1>19. z.state \in Running /\ ~z.zapped
  BY <1>14 DEF Running
<1>20. Counted(z, y)
  BY <1>15 DEF Counted, Flag
<1>21. Runs(z, y)
  BY <1>17, <1>18, <1>19, <1>20 DEF Runs
<1>22. InLine(z) /\ z.copied_seq = 0 /\ z.rcv_nxt = 0
  <2>1. z.rq = <<>> /\ z.copied_seq = 0 /\ z.rcv_nxt = 0
    BY <1>5, <1>14 DEF SameQueues
  <2> QED BY <2>1, EmptyFacts DEF InLine
<1> QED BY <1>1, <1>14, <1>21, <1>22

(* The socket an open request becomes. *)
LEMMA ChildGood ==
  ASSUME NEW g, SegmentTypes(g), NEW y, ViewOK(y), y.last = 1, ~y.fin, 1 <= y.seen
  PROVE  LET c == skb_set_owner_r(atcp_create_openreq_child(g), g)
         IN Runs(c, y) /\ c.state = "SYN_RECV" /\ c.rcv_nxt = 1 /\ InLine(c) /\ c.copied_seq = 1
            /\ c.dead = FALSE
<1> DEFINE v == Up(y)
           s == NewSock
           a == [s EXCEPT !.state = "SYN_RECV", !.rcv_nxt = 1, !.rcv_wup = 1,
                    !.copied_seq = 1, !.snd_nxt = 1, !.snd_una = 1, !.write_seq = 1,
                    !.snd_wnd = g.window, !.max_window = g.window, !.syn_seq = 0,
                    !.rcv_wnd = atcp_select_initial_window]
           t == skb_set_owner_r(a, g)
<1>0. v.up /\ v.last = 1 /\ v.seen = y.seen /\ v.theirs = y.theirs /\ ViewOK(v)
  <2>1. v = [calls |-> y.calls, up |-> TRUE, last |-> y.last, fin |-> y.fin, seen |-> y.seen,
             theirs |-> y.theirs, ended |-> y.ended]
    BY DEF Up, With
  <2> HIDE DEF v
  <2>2. ViewOK(v)
    BY <2>1 DEF ViewOK
  <2> QED BY <2>1, <2>2
<1> HIDE DEF v
<1>1. atcp_create_openreq_child(g) = a
  BY DEF atcp_create_openreq_child
<1>2. /\ Record(s) /\ s.zapped = FALSE /\ s.wq = <<>> /\ s.timers = {} /\ s.fackets_out = 0
      /\ s.send_head = 0 /\ s.retrans_head = 0 /\ s.packets_out = 0
      /\ s.high_seq = 0 /\ s.in_hand = 0 /\ s.rq = <<>> /\ s.ofo = <<>>
      /\ s.sacks = <<>> /\ s.out = <<>> /\ s.tw = <<>> /\ s.delayed_acks = 0 /\ s.dead = FALSE
  BY NewSockFacts
<1> HIDE DEF s
<1>3. /\ Record(a) /\ a.state = "SYN_RECV" /\ a.zapped = FALSE /\ a.snd_una = 1
      /\ a.snd_nxt = 1 /\ a.write_seq = 1 /\ a.snd_wnd = g.window /\ a.max_window = g.window
      /\ a.send_head = 0 /\ a.retrans_head = 0 /\ a.packets_out = 0 /\ a.fackets_out = 0
      /\ a.high_seq = 0 /\ a.rcv_nxt = 1 /\ a.rcv_wup = 1 /\ a.wq = <<>> /\ a.timers = {}
      /\ a.rcv_wnd = atcp_select_initial_window /\ a.in_hand = 0 /\ a.rq = <<>>
      /\ a.ofo = <<>> /\ a.sacks = <<>> /\ a.out = <<>> /\ a.tw = <<>> /\ a.copied_seq = 1
      /\ a.dead = FALSE
  BY ZenonT(60), <1>2 DEF Record, Fields
<1> HIDE DEF a
<1>4. Open(a, v)
  <2>0. a.rq = <<>> /\ a.ofo = <<>> /\ a.sacks = <<>> /\ a.out = <<>>
    BY <1>3
  <2>1. BuffersOK(a.rq) /\ BuffersOK(a.ofo) /\ IsSeq(a.sacks)
    BY <2>0, BuffersEmpty, EmptyFacts DEF HoldsOK
  <2>2. SegmentsOK(a.out, v) /\ AllAck(a.out, a.rcv_nxt) /\ Pieces(a.rq, v) /\ Pieces(a.ofo, v)
    BY <2>0, EmptyFacts DEF SegmentsOK, AllAck, Pieces
  <2>3. a.rcv_nxt <= v.theirs + Flag(v.ended)
    BY <1>0, <1>3 DEF ViewOK, Flag
  <2>4. Come(a, v)
    BY <1>0, <1>3, <2>2, <2>3 DEF Come, BucketAcks
  <2> QED BY <1>3, <2>1, <2>2, <2>4, InitialWindowType DEF Open, ReceiverOK, BucketOK
<1>5. QueueOK(a, 1, v) /\ HeadOK(a, 1)
  <2>1. ChainOK(a.wq, 1, v) /\ Len(a.wq) = 0
    BY <1>3, EmptyFacts DEF ChainOK
  <2>2. Sent(a) = 0
    BY <1>3, <2>1 DEF Sent, Null
  <2>3. a.send_head \in 0..Len(a.wq)
    BY <1>3, <2>1
  <2>4. g.window \in Nat
    BY DEF SegmentTypes
  <2>5. QueueTypes(a, 1, v)
    BY <1>0, <1>3, <2>1, <2>2, <2>3, <2>4 DEF QueueTypes
  <2>6. Whole(a, 1)
    BY <1>3 DEF Whole, Null
  <2> QED BY <1>3, <2>5, <2>6 DEF QueueOK, HeadOK
<1>6. Good(a, v)
  BY <1>3, <1>4, <1>5 DEF Good, GoodAt, Timed
<1>7. Runs(a, y)
  <2>1. ViewAt(a, y) = v
    BY <1>3, UpView DEF v
  <2>2. Counted(a, y)
    BY <1>3 DEF Counted, Flag
  <2> QED BY <1>3, <1>6, <2>1, <2>2 DEF Runs, Running
<1>8. Handled(a, t, v)
  BY <1>6, DropHandled
<1>9. t.state = a.state /\ t.rcv_nxt = a.rcv_nxt /\ t.rq = a.rq /\ t.copied_seq = a.copied_seq
      /\ t.dead = a.dead
  BY <1>3 DEF skb_set_owner_r, Record, Fields
<1>10. t = skb_set_owner_r(atcp_create_openreq_child(g), g)
  BY <1>1
<1> HIDE DEF t
<1>11. Runs(t, y)
  <2>1. ViewAt(t, y) = v
    BY <1>3, <1>9, UpView DEF v
  <2> QED BY <1>7, <1>8, <2>1, HandledStep
<1>12. InLine(t)
  <2>1. t.rq = <<>> /\ t.copied_seq = 1 /\ t.rcv_nxt = 1
    BY <1>3, <1>9
  <2> QED BY <2>1, EmptyFacts DEF InLine
<1> QED BY <1>3, <1>9, <1>10, <1>11, <1>12

(***************************************************************************)
(* Steps that touch nothing of what is said of a socket.                   *)
(***************************************************************************)
(* A step that changes neither queues nor timers is one. *)
LEMMA OutsideStep ==
  ASSUME NEW s, NEW t, NEW y, Used(s, y), Record(t), SameQueue(s, t), SameQueues(s, t),
         SameOffer(s, t), t.state = s.state, t.zapped = s.zapped, t.timers = s.timers,
         t.delayed_acks = s.delayed_acks, SegmentsOK(t.out, ViewAt(s, y)), AllAck(t.out, t.rcv_nxt)
  PROVE  /\ Open(t, ViewAt(t, y)) /\ Edge(s, t) /\ Line(s, t) /\ t.rcv_nxt >= s.rcv_nxt
         /\ (Shut(s, y) => Shut(t, y)) /\ (Runs(s, y) => Runs(t, y)) /\ Used(t, y)
         /\ t.dead = s.dead => Steady(s, t, y)
<1> DEFINE v == ViewAt(s, y)
<1>1. Open(s, v) /\ s.rcv_nxt \in Int
  BY UsedTypes
<1>2. ViewAt(t, y) = v
  BY DEF ViewAt
<1> HIDE DEF v
<1>3. /\ t.rcv_wup = s.rcv_wup /\ t.rcv_wnd = s.rcv_wnd /\ t.rcv_nxt = s.rcv_nxt
      /\ t.rq = s.rq /\ t.ofo = s.ofo /\ t.sacks = s.sacks /\ t.in_hand = s.in_hand
      /\ t.tw = s.tw \/ (BucketOK(t.tw) /\ BucketAcks(t.tw, t.rcv_nxt))
      /\ t.write_seq = s.write_seq /\ t.snd_una = s.snd_una
  BY DEF SameOffer, SameQueues, SameQueue
<1>4. ReceiverOK(t)
  BY <1>1, <1>3 DEF Open, ReceiverOK
<1>5. BucketAcks(t.tw, t.rcv_nxt)
  BY <1>1, <1>3 DEF Open, Come
<1>6. Open(t, v)
  <2>1. SegmentsOK(t.out, v)
    BY DEF v
  <2>2. Come(s, v)
    BY <1>1 DEF Open
  <2>3. Come(t, v)
    BY <1>3, <1>5, <2>2 DEF Come
  <2> QED BY <1>4, <2>1, <2>3 DEF Open
<1>7. Edge(s, t)
  BY <1>1, <1>3 DEF Open, ReceiverOK, Edge
<1>8. Line(s, t)
  BY SameLine DEF SameQueues
<1>9. Counted(t, y) <=> Counted(s, y)
  BY <1>3 DEF Counted
<1>10. Shut(s, y) => Shut(t, y)
  BY <1>2, <1>6, <1>9 DEF Shut
<1>11. Runs(s, y) => Runs(t, y)
  <2> HAVE Runs(s, y)
  <2>1. QueueOK(s, s.snd_una, v) /\ HeadOK(s, s.snd_una) /\ Timed(s)
    BY RunsFacts DEF v
  <2>2. QueueOK(t, s.snd_una, v) /\ t.packets_out = s.packets_out /\ HeadOK(t, s.snd_una)
    BY <2>1, SameQueueOK
  <2>3. Timed(t)
    BY <2>1, <2>2 DEF Timed
  <2>4. Good(t, v)
    BY <1>3, <1>6, <2>2, <2>3 DEF Good, GoodAt
  <2> QED BY <1>2, <1>9, <2>4 DEF Runs
<1>12. t.rcv_nxt >= s.rcv_nxt
  BY <1>1, <1>3
<1>13. Used(t, y)
  BY <1>10, <1>11 DEF Used
<1>14. t.dead = s.dead => Steady(s, t, y)
  BY <1>7, <1>8, <1>12, <1>13 DEF Steady, Step
<1> QED BY <1>2, <1>6, <1>7, <1>8, <1>10, <1>11, <1>12, <1>13, <1>14

(* The segments a step sent leave the socket. *)
LEMMA SentStep ==
  ASSUME NEW s, NEW y, Used(s, y)
  PROVE  LET t == [s EXCEPT !.out = <<>>] IN Steady(s, t, y) /\ t.out = <<>> /\ t.tw = s.tw
<1> DEFINE none == <<>>
           t == [s EXCEPT !.out = none]
<1>1. Record(s)
  BY UsedTypes
<1>2. SegmentsOK(none, ViewAt(s, y)) /\ AllAck(none, s.rcv_nxt)
  BY EmptyFacts DEF SegmentsOK, AllAck
<1>3. /\ Record(t) /\ SameQueue(s, t) /\ SameQueues(s, t) /\ SameOffer(s, t)
      /\ t.state = s.state /\ t.zapped = s.zapped /\ t.timers = s.timers /\ t.out = none
      /\ t.delayed_acks = s.delayed_acks /\ t.dead = s.dead /\ t.tw = s.tw
  BY <1>1 DEF Record, Fields, SameQueue, SameQueues, SameOffer
<1>4. none = <<>>
  OBVIOUS
<1> HIDE DEF none, t
<1>5. SegmentsOK(t.out, ViewAt(s, y)) /\ AllAck(t.out, t.rcv_nxt)
  BY <1>2, <1>3 DEF SameQueues
<1>6. Steady(s, t, y)
  BY <1>3, <1>5, OutsideStep
<1> QED BY <1>3, <1>4, <1>6 DEF t, none

(* The socket is marked dead. *)
LEMMA DeadStep ==
  ASSUME NEW s, NEW y, Used(s, y), NEW d
  PROVE  LET t == [s EXCEPT !.dead = d]
         IN /\ Used(t, y) /\ Edge(s, t) /\ Line(s, t) /\ t.rcv_nxt = s.rcv_nxt
            /\ t.state = s.state /\ t.dead = d /\ t.write_seq = s.write_seq
            /\ t.copied_seq = s.copied_seq
<1> DEFINE t == [s EXCEPT !.dead = d]
<1>1. Record(s) /\ SegmentsOK(s.out, ViewAt(s, y)) /\ AllAck(s.out, s.rcv_nxt)
  BY UsedTypes DEF Open, Come
<1>2. /\ Record(t) /\ SameQueue(s, t) /\ SameQueues(s, t) /\ SameOffer(s, t)
      /\ t.state = s.state /\ t.zapped = s.zapped /\ t.timers = s.timers /\ t.out = s.out
      /\ t.delayed_acks = s.delayed_acks /\ t.dead = d
  BY <1>1 DEF Record, Fields, SameQueue, SameQueues, SameOffer
<1> HIDE DEF t
<1>3. AllAck(t.out, t.rcv_nxt)
  BY <1>1, <1>2 DEF SameQueues
<1>4. Used(t, y) /\ Edge(s, t) /\ Line(s, t)
  BY <1>1, <1>2, <1>3, OutsideStep
<1> QED BY <1>2, <1>4 DEF t, SameQueues, SameQueue

(***************************************************************************)
(* Segments for no socket.                                                 *)
(***************************************************************************)
(* A segment without data is well formed. *)
LEMMA BareFacts ==
  ASSUME NEW seq \in Int, NEW ack, NEW rst, NEW ack_seq \in Int, NEW y, rst \/ (ack /\ y.up),
         NEW n, ack /\ ~rst => ack_seq <= n
  PROVE  LET q == <<Bare(seq, ack, rst, ack_seq)>> IN SegmentsOK(q, y) /\ AllAck(q, n)
<1> DEFINE b == Bare(seq, ack, rst, ack_seq)
<1>1. /\ b.seq = seq /\ b.data = <<>> /\ b.ack_seq = ack_seq /\ b.window = 0
      /\ b.sacks = <<>> /\ b.syn = FALSE /\ b.fin = FALSE /\ b.ack = ack /\ b.rst = rst
  BY DEF Bare
<1> HIDE DEF b
<1>2. SegmentTypes(b)
  BY <1>1, EmptyFacts DEF SegmentTypes
<1>3. InOrder(b.data, b.seq)
  BY <1>1, EmptyFacts DEF InOrder
<1>4. Carries(b, y)
  BY Zenon, <1>1, <1>3 DEF Carries
<1>5. Acks(b, n)
  BY <1>1 DEF Acks
<1>6. IsSeq(<<b>>) /\ Len(<<b>>) = 1 /\ <<b>>[1] = b
  BY SingleFacts
<1>7. SegmentsOK(<<b>>, y) /\ AllAck(<<b>>, n)
  BY <1>2, <1>4, <1>5, <1>6 DEF SegmentsOK, SegmentOK, AllAck
<1> QED BY <1>7 DEF b

(* No segment is. *)
LEMMA NoSegments ==
  ASSUME NEW y, NEW n
  PROVE  SegmentsOK(<<>>, y) /\ AllAck(<<>>, n)
BY EmptyFacts DEF SegmentsOK, AllAck

(* A reset is. *)
LEMMA SendResetFacts ==
  ASSUME NEW g, SegmentTypes(g), NEW y, NEW n
  PROVE  SegmentsOK(atcp_v4_send_reset(g), y) /\ AllAck(atcp_v4_send_reset(g), n)
<1> DEFINE zero == 0
           after == g.seq + Flag(g.syn)
           no == FALSE
           yes == TRUE
           ack == g.ack_seq
           one == <<Bare(ack, no, yes, zero)>>
           two == <<Bare(zero, yes, yes, after)>>
<1>1. \/ atcp_v4_send_reset(g) = <<>>
      \/ atcp_v4_send_reset(g) = one
      \/ atcp_v4_send_reset(g) = two
  BY DEF atcp_v4_send_reset
<1>2. zero \in Int /\ after \in Int /\ ack \in Int
  BY DEF SegmentTypes, Flag
<1>3. yes /\ ~no
  OBVIOUS
<1> HIDE DEF zero, after, no, yes, ack
<1>4. SegmentsOK(one, y) /\ AllAck(one, n)
  BY <1>2, <1>3, BareFacts
<1>5. SegmentsOK(two, y) /\ AllAck(two, n)
  BY <1>2, <1>3, BareFacts
<1> QED BY <1>1, <1>4, <1>5, NoSegments

(* What holds of two sequences' elements holds of those of both. *)
LEMMA ConcatEvery ==
  ASSUME NEW a, NEW b, IsSeq(a), IsSeq(b), NEW i \in 1..Len(a \o b)
  PROVE  (\E j \in 1..Len(a) : (a \o b)[i] = a[j]) \/ (\E j \in 1..Len(b) : (a \o b)[i] = b[j])
<1>1. Len(a) \in Nat /\ Len(b) \in Nat
  BY SeqFacts
<1>2. /\ Len(a \o b) = Len(a) + Len(b)
      /\ \A k \in 1..Len(a) : (a \o b)[k] = a[k]
      /\ \A k \in (Len(a) + 1)..(Len(a) + Len(b)) : (a \o b)[k] = b[k - Len(a)]
  BY ConcatFacts
<1>3. CASE i \in 1..Len(a)
  BY <1>2, <1>3
<1>4. CASE i \notin 1..Len(a)
  <2>1. i \in (Len(a) + 1)..(Len(a) + Len(b)) /\ i - Len(a) \in 1..Len(b)
    BY <1>1, <1>2, <1>4
  <2> QED BY <1>2, <2>1
<1> QED BY <1>3, <1>4

(* Segments behind segments are. *)
LEMMA SegmentsConcat ==
  ASSUME NEW a, NEW b, NEW y, SegmentsOK(a, y), SegmentsOK(b, y), NEW n, AllAck(a, n), AllAck(b, n)
  PROVE  SegmentsOK(a \o b, y) /\ AllAck(a \o b, n)
<1>1. IsSeq(a) /\ IsSeq(b)
  BY DEF SegmentsOK
<1>2. IsSeq(a \o b)
  BY <1>1, ConcatFacts
<1>3. ASSUME NEW i \in 1..Len(a \o b)
      PROVE  SegmentOK((a \o b)[i], y) /\ Acks((a \o b)[i], n)
  BY <1>1, ConcatEvery DEF SegmentsOK, AllAck
<1> QED BY <1>2, <1>3 DEF SegmentsOK, AllAck

(***************************************************************************)
(* A segment for a socket in use.                                          *)
(***************************************************************************)
(* The reset a segment asked for. *)
LEMMA AnsweredStep ==
  ASSUME NEW r, NEW y, Used(r.sk, y), NEW g, SegmentTypes(g)
  PROVE  Steady(r.sk, Answered(r, g), y) /\ Answered(r, g).state = r.sk.state
<1> DEFINE s == r.sk
           o == s.out \o atcp_v4_send_reset(g)
           t == [s EXCEPT !.out = o]
<1>1. Answered(r, g) = t \/ Answered(r, g) = s
  BY DEF Answered
<1>2. Record(s) /\ SegmentsOK(s.out, ViewAt(s, y)) /\ AllAck(s.out, s.rcv_nxt)
  BY UsedTypes DEF Open, Come
<1>3. SegmentsOK(o, ViewAt(s, y)) /\ AllAck(o, s.rcv_nxt)
  BY <1>2, SendResetFacts, SegmentsConcat
<1> HIDE DEF o
<1>4. /\ Record(t) /\ SameQueue(s, t) /\ SameQueues(s, t) /\ SameOffer(s, t)
      /\ t.state = s.state /\ t.zapped = s.zapped /\ t.timers = s.timers /\ t.out = o
      /\ t.delayed_acks = s.delayed_acks /\ t.dead = s.dead
  BY <1>2 DEF Record, Fields, SameQueue, SameQueues, SameOffer
<1> HIDE DEF t
<1>5. SegmentsOK(t.out, ViewAt(s, y)) /\ AllAck(t.out, t.rcv_nxt)
  BY <1>3, <1>4 DEF SameQueues
<1>6. Steady(s, t, y)
  BY <1>4, <1>5, OutsideStep
<1>7. Steady(s, s, y)
  BY SteadyRefl
<1> QED BY <1>1, <1>4, <1>6, <1>7

(* A segment that arrives at a socket in use. *)
LEMMA DoRcvStep ==
  ASSUME NEW s, NEW y, Used(s, y), NEW g, Comes(g, s.rcv_nxt, y),
         s.state = "SYN_SENT" => Reply(g)
  PROVE  Steady(s, DoRcv(s, g), y)
<1> DEFINE r == atcp_v4_do_rcv(s, g)
           t == r.sk
<1>0. SegmentTypes(g)
  BY DEF Comes
<1>1. Steady(s, t, y)
  <2>1. CASE Shut(s, y)
    <3> DEFINE h == skb_set_owner_r(s, g)
               k == kfree_skb(h)
    <3>1. Record(s) /\ s.state = "CLOSE" /\ Open(s, ViewAt(s, y))
      BY <2>1, UsedTypes DEF Shut
    <3>2. /\ Record(h) /\ h.state = "CLOSE"
      BY <3>1 DEF skb_set_owner_r, Record, Fields
    <3>3. /\ Record(k) /\ k.state = "CLOSE" /\ k.zapped = s.zapped
          /\ k.write_seq = s.write_seq /\ k.rcv_nxt = s.rcv_nxt /\ k.rcv_wup = s.rcv_wup
          /\ k.rcv_wnd = s.rcv_wnd /\ k.rq = s.rq /\ k.ofo = s.ofo /\ k.sacks = s.sacks
          /\ k.in_hand = 0 /\ k.out = s.out /\ k.tw = s.tw /\ k.dead = s.dead
          /\ k.copied_seq = s.copied_seq
      BY <3>1 DEF skb_set_owner_r, kfree_skb, Record, Fields
    <3> HIDE DEF h
    <3>4. r = Refuse(h)
      BY <3>1, <3>2 DEF atcp_v4_do_rcv, atcp_rcv_state_process, h
    <3>5. t = k
      BY <3>4 DEF Refuse
    <3> HIDE DEF k, r
    <3>6. /\ k.rcv_wup \in Int /\ k.rcv_wnd \in Nat /\ IsSeq(k.sacks) /\ k.in_hand \in Int
          /\ BucketOK(k.tw) /\ SegmentsOK(k.out, ViewAt(s, y)) /\ AllAck(k.out, k.rcv_nxt)
          /\ BucketAcks(k.tw, k.rcv_nxt)
          /\ HoldsOK(k.rq, ViewAt(s, y)) /\ HoldsOK(k.ofo, ViewAt(s, y))
      BY <3>1, <3>3 DEF Open, ReceiverOK, Come, HoldsOK
    <3>7. ViewAt(s, y) = Up(y)
      BY <3>1, UpView
    <3>8. Step(s, k, y)
      BY <2>1, <3>3, <3>6, <3>7, ShutStep
    <3>9. Line(s, k)
      BY <3>3 DEF Line, InLine
    <3> QED BY <3>5, <3>8, <3>9 DEF Steady
  <2>2. CASE Runs(s, y)
    <3> DEFINE up == s.state # "SYN_SENT" \/ Answers(s, g)
               v == With(y, up)
    <3>1. v.up <=> up
      <4>1. v.up = up
        BY WithFacts
      <4> HIDE DEF v, up
      <4> QED BY <4>1
    <3>2. Good(s, v)
      <4>1. CASE s.state # "SYN_SENT"
        <5>1. v = ViewAt(s, y)
          BY <4>1 DEF ViewAt
        <5> QED BY <2>2, <5>1, RunsFacts
      <4>2. CASE s.state = "SYN_SENT" /\ Answers(s, g)
        <5>1. v = Up(y)
          BY <4>2 DEF Up
        <5> QED BY <2>2, <5>1, RunsFacts
      <4>3. CASE s.state = "SYN_SENT" /\ ~Answers(s, g)
        <5>1. v = ViewAt(s, y)
          BY <4>3 DEF ViewAt
        <5> QED BY <2>2, <5>1, RunsFacts
      <4> QED BY <4>1, <4>2, <4>3
    <3>3. Comes(g, s.rcv_nxt, v)
      <4>1. v.seen = y.seen /\ v.theirs = y.theirs /\ v.ended = y.ended
        BY WithFacts
      <4> HIDE DEF v
      <4> QED BY <4>1 DEF Comes
    <3>4. s.state = "SYN_SENT" /\ Answers(s, g) => v.up
      BY <3>1
    <3> HIDE DEF v
    <3>5. After(s, t, v) /\ (s.state # "SYN_SENT" \/ Answers(s, g) => t.state # "SYN_SENT")
      BY <2>2, <3>2, <3>3, <3>4, DoRcvAfter DEF Runs
    <3>6. t.state # "SYN_SENT" => v.up
      BY <3>5 DEF After, Handled, Stepped, Good, GoodAt, Ended, Open, Come
    <3>7. up <=> t.state # "SYN_SENT"
      BY <3>1, <3>5, <3>6
    <3>8. v = ViewAt(t, y)
      BY <3>7 DEF v, ViewAt
    <3> QED BY <2>2, <3>5, <3>8, AfterStep
  <2> QED BY <2>1, <2>2 DEF Used
<1> HIDE DEF r
<1>2. Used(t, y)
  BY <1>1 DEF Steady, Step
<1>3. Steady(t, Answered(r, g), y)
  BY <1>0, <1>2, AnsweredStep
<1>4. Steady(s, Answered(r, g), y)
  BY <1>1, <1>3, SteadyTrans
<1> QED BY <1>4 DEF DoRcv, r

(* The connection of an open request. *)
LEMMA ChildStep ==
  ASSUME NEW g, NEW y, ViewOK(y), y.last = 1, ~y.fin, 1 <= y.seen, Comes(g, 1, y)
  PROVE  LET c == skb_set_owner_r(atcp_create_openreq_child(g), g)
             t == Answered(atcp_rcv_state_process(c, g), g)
         IN /\ Used(t, y) /\ InLine(t) /\ t.copied_seq = 1 /\ t.dead = FALSE
            /\ t.rcv_nxt >= 1 /\ t.state # "SYN_SENT"
<1> DEFINE c == skb_set_owner_r(atcp_create_openreq_child(g), g)
           r == atcp_rcv_state_process(c, g)
           t == r.sk
           a == Answered(r, g)
<1>0. SegmentTypes(g)
  BY DEF Comes
<1>1. /\ Runs(c, y) /\ c.state = "SYN_RECV" /\ c.rcv_nxt = 1 /\ InLine(c) /\ c.copied_seq = 1
      /\ c.dead = FALSE
  BY <1>0, ChildGood
<1> HIDE DEF c
<1>2. Good(c, Up(y)) /\ Used(c, y)
  BY <1>1, RunsFacts
<1>3. Comes(g, c.rcv_nxt, Up(y))
  <2> DEFINE v == Up(y)
  <2>1. v.seen = y.seen /\ v.theirs = y.theirs /\ v.ended = y.ended
    BY WithFacts DEF Up
  <2> HIDE DEF v
  <2>2. Comes(g, c.rcv_nxt, v)
    BY <1>1, <2>1 DEF Comes
  <2> QED BY <2>2 DEF v
<1>4. After(c, t, Up(y)) /\ t.state # "SYN_SENT"
  <2>1. ~c.zapped
    BY <1>1 DEF Runs
  <2> QED BY <1>1, <1>2, <1>3, <2>1, ProcessAfter
<1> HIDE DEF r
<1>5. Steady(c, t, y)
  <2>1. Up(y) = ViewAt(t, y)
    BY <1>4, UpView
  <2> QED BY <1>1, <1>4, <2>1, AfterStep
<1>6. Used(t, y)
  BY <1>5 DEF Steady, Step
<1>7. Steady(t, a, y) /\ a.state = t.state
  BY <1>0, <1>6, AnsweredStep
<1> HIDE DEF a
<1>8. Steady(c, a, y)
  BY <1>2, <1>5, <1>7, SteadyTrans
<1>9. /\ Used(a, y) /\ InLine(a) /\ a.copied_seq = 1 /\ a.dead = FALSE /\ a.rcv_nxt >= 1
      /\ a.state # "SYN_SENT"
  BY <1>1, <1>4, <1>7, <1>8 DEF Steady, Step, Line
<1> QED BY <1>9 DEF a, r, c

(***************************************************************************)
(* The invariant of the connection.                                        *)
(***************************************************************************)
(* The view of the end e, whose user has written w bytes, with a FIN after *)
(* them or not; r is the other end's socket, v what its user has written.  *)
ViewOf(e, w, fin, r, v) ==
  [calls |-> e = Active, up |-> TRUE, last |-> 1 + w, fin |-> fin,
   seen |-> Larger(1, r.rcv_nxt), theirs |-> 1 + v, ended |-> r.write_seq = 2 + v]
ViewFrom(e, S, W) ==
  ViewOf(e, W[e], S[e].write_seq = 2 + W[e], S[Peer(e)], W[Peer(e)])

(* The listener, before it has a connection. *)
Listens(s) ==
  /\ Record(s) /\ s.state = "LISTEN" /\ s.rq = <<>> /\ s.tw = <<>> /\ s.timers = {}
  /\ s.msl = "none" /\ s.nonagle = 0 /\ s.write_seq = 0 /\ s.rcv_nxt = 0

(* The socket s of the end e, and the call c that holds it. *)
Occupied(s, e, c, y) ==
  \/ Listens(s) /\ e = Passive /\ c = "none"
  \/ Used(s, y)
  \/ Gone(s, y) /\ c = "none"
  \/ s = NewSock /\ e = Active /\ c = "none"

(* What its user has read, x, is the stream from the first byte on, up to  *)
(* where reading goes on until the socket is closed.                       *)
Reading(s, c) == ~s.dead /\ c # "close" /\ s.write_seq > 0
HasRead(s, c, x, y) ==
  /\ IsSeq(x) /\ InOrder(x, 1) /\ Len(x) < y.theirs
  /\ Reading(s, c) => InLine(s) /\ Len(x) = Place(s, y)

EndOK(e, s, c, w, x, y) ==
  /\ w \in Nat /\ Occupied(s, e, c, y) /\ HasRead(s, c, x, y)
  /\ s.write_seq = 0 => w = 0 /\ x = <<>>

(* A segment for the socket s, from the socket r: only one that has its    *)
(* SYN acknowledged sends the listener an acknowledgement.                 *)
Past(r) == r.write_seq > 0 /\ r.state # "SYN_SENT"
Arrives(g, s, y, r) ==
  /\ Comes(g, Larger(1, s.rcv_nxt), y)
  /\ y.calls => Reply(g)
  /\ ~y.calls /\ g.ack /\ ~g.rst => Past(r)
QueueFor(q, s, y, r) == IsSeq(q) /\ \A i \in 1..Len(q) : Arrives(q[i], s, y, r)
QueuesOK(N, S, W) ==
  DOMAIN N = Ends /\ \A e \in Ends : QueueFor(N[e], S[e], ViewFrom(e, S, W), S[Peer(e)])

Sockets(S, C, W, X) ==
  /\ DOMAIN S = Ends /\ DOMAIN C = Ends /\ DOMAIN W = Ends /\ DOMAIN X = Ends
  /\ \A e \in Ends : EndOK(e, S[e], C[e], W[e], X[e], ViewFrom(e, S, W)) /\ S[e].out = <<>>
  /\ S[Passive].write_seq > 0 => Past(S[Active])
ConnectionOK ==
  /\ Sockets(sk, call, written, got)
  /\ QueuesOK(net, sk, written) /\ QueuesOK(backlog, sk, written)

(* The right edge of the window, while the socket lives. *)
Holds(s, t) ==
  s.state \notin {"CLOSE", "GONE", "LISTEN"} /\ t.state \notin {"CLOSE", "GONE"} => Edge(s, t)
AllHold == \A e \in Ends : Holds(sk[e], sk'[e])

(* The two ends. *)
LEMMA EndsFacts ==
  /\ Active \in Ends /\ Passive \in Ends /\ Active # Passive
  /\ \A e \in Ends : Peer(e) \in Ends /\ Peer(e) # e /\ (e = Active \/ e = Passive)
                     /\ Peer(Peer(e)) = e
  /\ \A e \in Ends : \A f \in Ends : f # e => f = Peer(e)
  /\ Peer(Passive) = Active /\ Peer(Active) = Passive
BY DEF Ends, Active, Passive, Peer

(* What a view says. *)
Says(y, e, w, fin, r, v) ==
  /\ ViewOK(y) /\ y.calls = (e = Active) /\ y.up = TRUE /\ y.last = 1 + w /\ y.fin = fin
  /\ y.seen = Larger(1, r.rcv_nxt) /\ y.theirs = 1 + v
  /\ y.ended = (r.write_seq = 2 + v)
  /\ 1 <= y.seen /\ r.rcv_nxt <= y.seen

(* It says what it is made of. *)
LEMMA ViewFacts ==
  ASSUME NEW e, NEW w \in Nat, NEW fin, NEW r, r.rcv_nxt \in Int, NEW v \in Nat
  PROVE  Says(ViewOf(e, w, fin, r, v), e, w, fin, r, v)
<1> DEFINE y == ViewOf(e, w, fin, r, v)
           seen == Larger(1, r.rcv_nxt)
           one == 1 + w
           two == 1 + v
           ended == r.write_seq = 2 + v
           calls == e = Active
<1>1. y = [calls |-> calls, up |-> TRUE, last |-> one, fin |-> fin, seen |-> seen, theirs |-> two,
           ended |-> ended]
  BY DEF ViewOf
<1>2. one \in Nat \ {0} /\ two \in Nat \ {0} /\ seen \in Nat /\ 1 <= seen /\ r.rcv_nxt <= seen
  BY DEF Larger
<1> HIDE DEF y, one, two, seen, ended, calls
<1>3. y.calls = calls /\ y.up = TRUE /\ y.last = one /\ y.fin = fin /\ y.seen = seen
      /\ y.theirs = two /\ y.ended = ended
  BY <1>1
<1>4. ViewOK(y)
  BY <1>2, <1>3 DEF ViewOK
<1> QED BY <1>2, <1>3, <1>4 DEF y, one, two, seen, ended, calls, Says

(* A socket of any kind. *)
LEMMA EndTypes ==
  ASSUME NEW e, NEW s, NEW c, NEW w, NEW x, NEW y, EndOK(e, s, c, w, x, y)
  PROVE  /\ Record(s) /\ s.rcv_nxt \in Int /\ s.write_seq \in Nat /\ w \in Nat
         /\ Used(s, y) \/ Gone(s, y) <=> s.write_seq > 0
         /\ s.write_seq = 0 => Listens(s) \/ s = NewSock
<1>1. CASE Used(s, y)
  BY <1>1, UsedTypes DEF EndOK
<1>2. CASE Gone(s, y)
  <2>1. Record(s) /\ s.rcv_nxt \in Int /\ ViewOK(ViewAt(s, y)) /\ Counted(s, y)
    BY <1>2 DEF Gone, Open, ReceiverOK, Come
  <2>2. ViewOK(y)
    BY <2>1, WithFacts DEF ViewAt
  <2>3. s.write_seq \in Nat /\ s.write_seq > 0
    BY <2>1, <2>2 DEF ViewOK, Counted, Flag
  <2> QED BY <1>2, <2>1, <2>3 DEF EndOK
<1>3. CASE ~Used(s, y) /\ ~Gone(s, y)
  <2>1. Listens(s) \/ s = NewSock
    BY <1>3 DEF EndOK, Occupied
  <2>2. s.rcv_nxt = 0 /\ s.write_seq = 0 /\ Record(s)
    BY <2>1, NewSockFacts DEF Listens
  <2> QED BY <1>3, <2>1, <2>2 DEF EndOK
<1> QED BY <1>1, <1>2, <1>3

(***************************************************************************)
(* What one end does changes what the other may get.                       *)
(***************************************************************************)
(* What an end does to the number of bytes written, to its FIN and to what *)
(* it received: from s to t, with w and then n bytes written.              *)
Onward(s, t, w, n) ==
  /\ t.rcv_nxt >= s.rcv_nxt /\ w <= n /\ (Past(s) => Past(t))
  /\ s.write_seq = 2 + w => t.write_seq = 2 + n /\ n = w

(* A view grows with what it is made of. *)
LEMMA ViewGrows ==
  ASSUME NEW e, NEW w \in Nat, NEW n \in Nat, w <= n, NEW f, NEW g, f => g /\ n = w,
         NEW r, NEW q, r.rcv_nxt \in Int, q.rcv_nxt \in Int, r.rcv_nxt <= q.rcv_nxt,
         NEW v \in Nat, NEW u \in Nat, v <= u, r.write_seq = 2 + v => q.write_seq = 2 + u /\ u = v
  PROVE  LET y == ViewOf(e, w, f, r, v)
             z == ViewOf(e, n, g, q, u)
         IN Wider(y, z) /\ z.calls = y.calls /\ (n = w => z.last = y.last) /\ z.fin = g /\ y.fin = f
<1> DEFINE y == ViewOf(e, w, f, r, v)
           z == ViewOf(e, n, g, q, u)
<1>1. Says(y, e, w, f, r, v) /\ Says(z, e, n, g, q, u)
  BY ViewFacts
<1>3. Larger(1, r.rcv_nxt) <= Larger(1, q.rcv_nxt) /\ 1 + w <= 1 + n /\ 1 + v <= 1 + u
      /\ (n = w => 1 + n = 1 + w) /\ (u = v => 1 + u = 1 + v)
  BY DEF Larger
<1> HIDE DEF y, z
<1>4. /\ y.calls = z.calls /\ ViewOK(y) /\ ViewOK(z) /\ y.up = TRUE /\ z.up = TRUE
      /\ y.last <= z.last /\ (n = w => z.last = y.last) /\ y.fin = f /\ z.fin = g
      /\ y.seen <= z.seen /\ y.theirs <= z.theirs /\ (u = v => z.theirs = y.theirs)
  BY <1>1, <1>3 DEF Says
<1>5. y.ended => z.ended /\ z.theirs = y.theirs
  BY <1>1, <1>4 DEF Says
<1>6. y.fin => z.fin /\ z.last = y.last
  BY <1>4
<1>7. Wider(y, z)
  BY <1>4, <1>5, <1>6 DEF Wider
<1> QED BY <1>4, <1>7 DEF y, z

(* A view in which only the other end's part is wider. *)
Grown(y, z) == Wider(y, z) /\ z.calls = y.calls
Widened(y, z) == Grown(y, z) /\ z.last = y.last /\ z.fin = y.fin
(* A step of one end widens the views of both, that of the other without   *)
(* what the other does itself.                                             *)
LEMMA ViewsWider ==
  ASSUME NEW s, NEW t, s.rcv_nxt \in Int, t.rcv_nxt \in Int, NEW w \in Nat, NEW n \in Nat,
         Onward(s, t, w, n), NEW e, NEW p, NEW fin, NEW r, r.rcv_nxt \in Int, NEW v \in Nat
  PROVE  /\ Grown(ViewOf(e, w, s.write_seq = 2 + w, r, v), ViewOf(e, n, t.write_seq = 2 + n, r, v))
         /\ Widened(ViewOf(p, v, fin, s, w), ViewOf(p, v, fin, t, n))
<1> DEFINE one == s.write_seq = 2 + w
           two == t.write_seq = 2 + n
<1>1. (one => two /\ n = w) /\ w <= n /\ s.rcv_nxt <= t.rcv_nxt /\ v <= v
      /\ r.rcv_nxt <= r.rcv_nxt
  BY DEF Onward
<1>2. s.write_seq = 2 + w => t.write_seq = 2 + n /\ n = w
  BY <1>1
<1> HIDE DEF one, two
<1>3. LET y == ViewOf(e, w, one, r, v)
          z == ViewOf(e, n, two, r, v)
      IN Wider(y, z) /\ z.calls = y.calls /\ (n = w => z.last = y.last) /\ z.fin = two /\ y.fin = one
  BY ONLY <1>1, w \in Nat, n \in Nat, v \in Nat, r.rcv_nxt \in Int, ViewGrows
<1>4. LET y == ViewOf(p, v, fin, s, w)
          z == ViewOf(p, v, fin, t, n)
      IN Wider(y, z) /\ z.calls = y.calls /\ (v = v => z.last = y.last) /\ z.fin = fin /\ y.fin = fin
  BY ONLY <1>1, <1>2, w \in Nat, n \in Nat, v \in Nat, s.rcv_nxt \in Int, t.rcv_nxt \in Int,
          ViewGrows
<1> QED BY <1>3, <1>4 DEF one, two, Grown, Widened

(* A segment still comes when the view grew. *)
LEMMA ComesWider ==
  ASSUME NEW g, NEW y, NEW z, Wider(y, z), NEW m \in Int, NEW n \in Int, m <= n, Comes(g, m, y)
  PROVE  Comes(g, n, z)
<1> DEFINE d == Len(g.data)
           e == g.seq + d
<1>1. /\ y.theirs \in Nat /\ z.theirs \in Nat /\ y.seen \in Nat /\ z.seen \in Nat
      /\ y.seen <= z.seen /\ y.theirs <= z.theirs /\ (y.ended => z.ended /\ z.theirs = y.theirs)
  BY DEF Wider, ViewOK
<1>2. d \in Nat /\ g.seq \in Int /\ g.ack_seq \in Int /\ e \in Int
  BY SeqFacts DEF Comes, SegmentTypes
<1>3. g.ack /\ ~g.rst => g.ack_seq <= z.seen
  <2>1. g.ack /\ ~g.rst => g.ack_seq <= y.seen
    BY DEF Comes
  <2> QED BY <2>1, <1>1, <1>2
<1>4. g.data # <<>> => 1 <= g.seq /\ e <= z.theirs
  <2>1. g.data # <<>> => 1 <= g.seq /\ e <= y.theirs
    BY DEF Comes
  <2> HIDE DEF e
  <2> QED BY <2>1, <1>1, <1>2
<1>5. g.fin => z.ended /\ 1 <= g.seq /\ (e = z.theirs \/ (e < z.theirs /\ z.theirs <= n))
  <2>1. g.fin => y.ended /\ 1 <= g.seq /\ (e = y.theirs \/ (e < y.theirs /\ y.theirs <= m))
    BY DEF Comes
  <2> HIDE DEF e
  <2>2. y.theirs <= m => y.theirs <= n
    BY <1>1
  <2> QED BY <2>1, <2>2, <1>1
<1> QED BY <1>3, <1>4, <1>5 DEF Comes

(* So it may still be got. *)
LEMMA ArrivesWider ==
  ASSUME NEW g, NEW s, NEW t, NEW y, NEW z, NEW r, NEW q, Arrives(g, s, y, r), Wider(y, z),
         z.calls <=> y.calls, s.rcv_nxt \in Int, t.rcv_nxt \in Int, s.rcv_nxt <= t.rcv_nxt,
         Past(r) => Past(q)
  PROVE  Arrives(g, t, z, q)
<1> DEFINE m == Larger(1, s.rcv_nxt)
           n == Larger(1, t.rcv_nxt)
<1>1. m \in Int /\ n \in Int /\ m <= n
  BY DEF Larger
<1>2. Comes(g, m, y)
  BY DEF Arrives
<1> HIDE DEF m, n
<1>3. Comes(g, n, z)
  BY <1>1, <1>2, ComesWider
<1> QED BY <1>3 DEF Arrives, n

(* An end that does nothing stays as it is while its view grows. *)
LEMMA EndWider ==
  ASSUME NEW e, NEW s, NEW c, NEW w, NEW x, NEW y, NEW z, EndOK(e, s, c, w, x, y), Wider(y, z),
         z.last = y.last, z.fin <=> y.fin
  PROVE  EndOK(e, s, c, w, x, z)
<1>1. Occupied(s, e, c, z)
  BY UsedWider DEF EndOK, Occupied
<1>2. IsSeq(x) /\ InOrder(x, 1) /\ Len(x) < z.theirs
  <2>1. Len(x) \in Nat /\ Len(x) < y.theirs /\ y.theirs <= z.theirs /\ y.theirs \in Nat
        /\ z.theirs \in Nat
    BY SeqFacts DEF EndOK, HasRead, Wider, ViewOK
  <2> QED BY <2>1 DEF EndOK, HasRead
<1>3. ASSUME Reading(s, c)
      PROVE  InLine(s) /\ Len(x) = Place(s, z)
  <2>1. InLine(s) /\ Len(x) = Place(s, y) /\ s.write_seq > 0
    BY <1>3 DEF EndOK, HasRead, Reading
  <2>2. Open(s, ViewAt(s, y))
    BY <2>1, EndTypes, UsedTypes DEF Gone
  <2>3. s.rcv_nxt \in Int /\ s.rcv_nxt <= y.theirs + Flag(y.ended)
    BY <2>2, WithFacts DEF Open, Come, ReceiverOK, ViewAt
  <2>4. s.copied_seq \in Int /\ (s.copied_seq = s.rcv_nxt \/ s.copied_seq < s.rcv_nxt)
    BY <2>1 DEF InLine
  <2>5. y.theirs + Flag(y.ended) \in Int
    BY DEF Wider, ViewOK, Flag
  <2>6. s.copied_seq <= y.theirs + Flag(y.ended)
    <3> DEFINE k == y.theirs + Flag(y.ended)
               c1 == s.copied_seq
               n == s.rcv_nxt
    <3>1. k \in Int /\ n \in Int /\ n <= k /\ c1 \in Int /\ (c1 = n \/ c1 < n)
      BY <2>3, <2>4, <2>5
    <3> HIDE DEF k, c1, n
    <3>2. c1 <= k
      BY <3>1
    <3> QED BY <3>2 DEF k, c1
  <2> QED BY <2>1, <2>4, <2>6, PlaceWider
<1> QED BY <1>1, <1>2, <1>3 DEF EndOK, HasRead

(***************************************************************************)
(* Queues.                                                                 *)
(***************************************************************************)
(* The first segment of a queue arrives. *)
LEMMA QueueTail ==
  ASSUME NEW s, NEW y, NEW r, NEW q, QueueFor(q, s, y, r), q # <<>>
  PROVE  QueueFor(Tail(q), s, y, r) /\ Arrives(Head(q), s, y, r)
<1>1. IsSeq(q)
  BY DEF QueueFor
<1>2. /\ IsSeq(Tail(q)) /\ Len(Tail(q)) = Len(q) - 1 /\ Len(q) \in Nat /\ Len(q) >= 1
      /\ \A i \in 1..Len(Tail(q)) : Tail(q)[i] = q[i + 1]
      /\ Head(q) = q[1]
  BY <1>1, TailFacts, SeqFacts
<1>3. ASSUME NEW i \in 1..Len(Tail(q)) PROVE Arrives(Tail(q)[i], s, y, r)
  <2>1. i + 1 \in 1..Len(q)
    BY <1>2
  <2> QED BY <1>2, <2>1 DEF QueueFor
<1>4. Arrives(Head(q), s, y, r)
  <2>1. 1 \in 1..Len(q)
    BY <1>2
  <2> QED BY <1>2, <2>1 DEF QueueFor
<1> QED BY <1>2, <1>3, <1>4 DEF QueueFor

(* A segment that overtakes arrives. *)
LEMMA QueueRemove ==
  ASSUME NEW s, NEW y, NEW r, NEW q, QueueFor(q, s, y, r), NEW i \in 1..Len(q)
  PROVE  QueueFor(RemoveAt(q, i), s, y, r) /\ Arrives(q[i], s, y, r)
<1>1. IsSeq(q)
  BY DEF QueueFor
<1>2. Len(q) \in Nat
  BY <1>1, SeqFacts
<1>3. /\ IsSeq(RemoveAt(q, i)) /\ Len(RemoveAt(q, i)) = Len(q) - 1
      /\ \A j \in 1..(Len(q) - 1) : RemoveAt(q, i)[j] = IF j < i THEN q[j] ELSE q[j + 1]
  BY <1>1, RemoveAtFacts
<1>4. ASSUME NEW j \in 1..Len(RemoveAt(q, i)) PROVE Arrives(RemoveAt(q, i)[j], s, y, r)
  <2>1. j \in 1..(Len(q) - 1) /\ j \in 1..Len(q) /\ j + 1 \in 1..Len(q)
    BY <1>2, <1>3
  <2> QED BY <1>3, <2>1 DEF QueueFor
<1> QED BY <1>3, <1>4 DEF QueueFor

(* Segments behind segments. *)
LEMMA QueueConcat ==
  ASSUME NEW s, NEW y, NEW r, NEW a, NEW b, QueueFor(a, s, y, r), QueueFor(b, s, y, r)
  PROVE  QueueFor(a \o b, s, y, r)
<1>1. IsSeq(a) /\ IsSeq(b)
  BY DEF QueueFor
<1>2. IsSeq(a \o b)
  BY <1>1, ConcatFacts
<1>3. ASSUME NEW i \in 1..Len(a \o b)
      PROVE  Arrives((a \o b)[i], s, y, r)
  BY <1>1, ConcatEvery DEF QueueFor
<1> QED BY <1>2, <1>3 DEF QueueFor

(* One segment, and none. *)
LEMMA QueueOfOne ==
  ASSUME NEW s, NEW y, NEW r
  PROVE  /\ QueueFor(<<>>, s, y, r)
         /\ \A g : Arrives(g, s, y, r) => QueueFor(<<g>>, s, y, r)
<1>1. QueueFor(<<>>, s, y, r)
  BY EmptyFacts DEF QueueFor
<1>2. ASSUME NEW g, Arrives(g, s, y, r)
      PROVE  QueueFor(<<g>>, s, y, r)
  <2>1. IsSeq(<<g>>) /\ Len(<<g>>) = 1 /\ <<g>>[1] = g
    BY SingleFacts
  <2> QED BY <1>2, <2>1 DEF QueueFor
<1> QED BY <1>1, <1>2

(* A segment more in a queue. *)
LEMMA QueueAppend ==
  ASSUME NEW s, NEW y, NEW r, NEW q, QueueFor(q, s, y, r), NEW g, Arrives(g, s, y, r)
  PROVE  QueueFor(Append(q, g), s, y, r)
<1>1. IsSeq(q)
  BY DEF QueueFor
<1>2. /\ IsSeq(Append(q, g)) /\ Len(Append(q, g)) = Len(q) + 1
      /\ \A i \in 1..Len(q) : Append(q, g)[i] = q[i]
      /\ Append(q, g)[Len(q) + 1] = g /\ Len(q) \in Nat
  BY <1>1, AppendFacts, SeqFacts
<1>3. ASSUME NEW i \in 1..Len(Append(q, g)) PROVE Arrives(Append(q, g)[i], s, y, r)
  <2>1. i \in 1..Len(q) \/ i = Len(q) + 1
    BY <1>2
  <2> QED BY <1>2, <2>1 DEF QueueFor
<1> QED BY <1>2, <1>3 DEF QueueFor

(* One queue changes. *)
LEMMA QueuesExcept ==
  ASSUME NEW S, NEW W, NEW N, QueuesOK(N, S, W), NEW e \in Ends, NEW q,
         QueueFor(q, S[e], ViewFrom(e, S, W), S[Peer(e)])
  PROVE  QueuesOK([N EXCEPT ![e] = q], S, W)
BY DEF QueuesOK

(* What a socket in use or gone sends, the other end may get: t is the     *)
(* socket, z its view, r the other one.                                    *)
LEMMA SentArrives ==
  ASSUME NEW e \in Ends, NEW t, NEW n \in Nat, NEW r, r.rcv_nxt \in Int, NEW v \in Nat,
         NEW fin, fin = (r.write_seq = 2 + v), t.rcv_nxt \in Int, t.write_seq > 0,
         LET z == ViewOf(e, n, t.write_seq = 2 + n, r, v)
         IN SegmentsOK(t.out, ViewAt(t, z)) /\ AllAck(t.out, t.rcv_nxt)
  PROVE  QueueFor(t.out, r, ViewOf(Peer(e), v, fin, t, n), t)
<1> DEFINE z0 == ViewOf(e, n, t.write_seq = 2 + n, r, v)
           z == ViewAt(t, z0)
           y == ViewOf(Peer(e), v, fin, t, n)
           o == t.out
<1>1. Says(z0, e, n, t.write_seq = 2 + n, r, v) /\ Says(y, Peer(e), v, fin, t, n)
  BY ViewFacts
<1>2. SegmentsOK(o, z) /\ AllAck(o, t.rcv_nxt)
  OBVIOUS
<1> HIDE DEF z0, y
<1>3. /\ z.calls = (e = Active) /\ z.up = (t.state # "SYN_SENT") /\ z.last = 1 + n
      /\ z.fin = (t.write_seq = 2 + n) /\ z.seen = Larger(1, r.rcv_nxt)
  BY <1>1, WithFacts DEF ViewAt, Says
<1>4. /\ y.calls = (Peer(e) = Active) /\ y.theirs = 1 + n /\ y.ended = (t.write_seq = 2 + n)
      /\ 1 <= y.seen /\ t.rcv_nxt <= y.seen /\ y.seen \in Int
  BY <1>1 DEF Says, ViewOK
<1> HIDE DEF z
<1>5. ASSUME NEW i \in 1..Len(o)
      PROVE  Arrives(o[i], r, y, t)
  <2> DEFINE g == o[i]
             m == Larger(1, r.rcv_nxt)
             d == Len(g.data)
             l == 1 + n
  <2>1. SegmentTypes(g) /\ Carries(g, z) /\ Acks(g, t.rcv_nxt)
    BY <1>2 DEF SegmentsOK, SegmentOK, AllAck
  <2> HIDE DEF g
  <2>2. /\ g.syn => z.calls /\ g.seq = 0 /\ g.data = <<>> /\ ~g.fin
        /\ g.syn \/ g.ack \/ g.rst
        /\ g.ack => z.up \/ g.rst
        /\ InOrder(g.data, g.seq) /\ (g.data # <<>> => 1 <= g.seq /\ g.seq + d <= z.last)
        /\ g.fin => z.fin /\ 1 <= g.seq /\ (g.seq + d = z.last \/ (g.seq + d < z.last /\ z.last <= z.seen))
    BY <2>1 DEF Carries
  <2>3. g.ack /\ ~g.rst => g.ack_seq <= y.seen
    <3>1. g.ack /\ ~g.rst => g.ack_seq <= 1 \/ g.ack_seq <= t.rcv_nxt
      BY <2>1 DEF Acks
    <3>2. g.ack_seq \in Int
      BY <2>1 DEF SegmentTypes
    <3>3. ASSUME g.ack_seq <= 1 \/ g.ack_seq <= t.rcv_nxt PROVE g.ack_seq <= y.seen
      <4> DEFINE a == g.ack_seq
                 b == t.rcv_nxt
                 c == y.seen
      <4>1. a \in Int /\ b \in Int /\ c \in Int /\ 1 <= c /\ b <= c /\ (a <= 1 \/ a <= b)
        BY <1>4, <3>2, <3>3
      <4> HIDE DEF a, b, c
      <4>2. a <= c
        BY <4>1
      <4> QED BY <4>2 DEF a, c
    <3> QED BY <3>1, <3>3
  <2> HIDE DEF m, d, l
  <2>4. z.last = l /\ y.theirs = l /\ z.seen = m /\ (z.fin <=> y.ended)
    BY <1>3, <1>4 DEF m, l
  <2>5. Comes(g, m, y)
    BY <2>1, <2>2, <2>3, <2>4 DEF Comes, d
  <2>6. y.calls => Reply(g)
    BY <1>3, <1>4, <2>2, EndsFacts DEF Reply
  <2>7. ~y.calls /\ g.ack /\ ~g.rst => Past(t)
    BY <1>3, <2>2 DEF Past
  <2> QED BY <2>5, <2>6, <2>7 DEF Arrives, m, g
<1> QED BY <1>2, <1>5 DEF QueueFor, SegmentsOK, y

(***************************************************************************)
(* What a step of one end does to the invariant.                           *)
(***************************************************************************)
(* The sockets, calls, bytes written and bytes read change for one end at  *)
(* most.                                                                   *)
OnlyFor(e, f, g) == DOMAIN g = Ends /\ \A p \in Ends : p # e => g[p] = f[p]

(* An end changes, and the invariant of the sockets holds, and that of the *)
(* queues for the segments that are under way.                             *)
LEMMA EndChanges ==
  ASSUME NEW S, NEW C, NEW W, NEW X, Sockets(S, C, W, X), NEW T, NEW D, NEW V, NEW Y,
         NEW e \in Ends, OnlyFor(e, S, T), OnlyFor(e, C, D), OnlyFor(e, W, V), OnlyFor(e, X, Y),
         EndOK(e, T[e], D[e], V[e], Y[e],
               ViewOf(e, V[e], T[e].write_seq = 2 + V[e], S[Peer(e)], W[Peer(e)])),
         T[e].out = <<>>, Onward(S[e], T[e], W[e], V[e]),
         e = Passive /\ T[e].write_seq > 0 => Past(S[Active])
  PROVE  Sockets(T, D, V, Y) /\ \A N : QueuesOK(N, S, W) => QueuesOK(N, T, V)
<1> DEFINE p == Peer(e)
           s == S[e]
           t == T[e]
           r == S[p]
           w == W[e]
           n == V[e]
           v == W[p]
           fin == r.write_seq = 2 + v
           a == ViewOf(e, w, s.write_seq = 2 + w, r, v)
           b == ViewOf(e, n, t.write_seq = 2 + n, r, v)
           y == ViewOf(p, v, fin, s, w)
           z == ViewOf(p, v, fin, t, n)
<1>1. p \in Ends /\ p # e /\ Peer(p) = e /\ \A f \in Ends : f = e \/ f = p
  BY EndsFacts
<1>2. T[p] = r /\ D[p] = C[p] /\ V[p] = v /\ Y[p] = X[p]
  BY <1>1 DEF OnlyFor
<1>3. /\ ViewFrom(e, S, W) = a /\ ViewFrom(e, T, V) = b
      /\ ViewFrom(p, S, W) = y /\ ViewFrom(p, T, V) = z
  BY <1>1, <1>2 DEF ViewFrom
<1>4. /\ EndOK(e, s, C[e], w, X[e], a) /\ EndOK(p, r, C[p], v, X[p], y)
      /\ EndOK(e, t, D[e], n, Y[e], b)
  BY <1>1, <1>3 DEF Sockets
<1>5. /\ s.rcv_nxt \in Int /\ t.rcv_nxt \in Int /\ r.rcv_nxt \in Int
      /\ w \in Nat /\ n \in Nat /\ v \in Nat
  BY <1>4, EndTypes
<1>6. Onward(s, t, w, n)
  OBVIOUS
<1> HIDE DEF p, s, t, r, w, n, v
<1>7. Grown(a, b) /\ Widened(y, z)
  <2> HIDE DEF fin
  <2> QED BY <1>5, <1>6, ViewsWider
<1> HIDE DEF a, b, y, z, fin
<1>8. /\ Wider(a, b) /\ b.calls = a.calls
      /\ Wider(y, z) /\ z.calls = y.calls /\ z.last = y.last /\ z.fin = y.fin
  BY <1>7 DEF Grown, Widened
<1>9. EndOK(p, T[p], D[p], V[p], Y[p], z)
  <2>1. EndOK(p, r, C[p], v, X[p], z)
    BY <1>4, <1>8, EndWider
  <2> QED BY <2>1, <1>2
<1>10. \A f \in Ends : EndOK(f, T[f], D[f], V[f], Y[f], ViewFrom(f, T, V)) /\ T[f].out = <<>>
  <2>1. S[p].out = <<>>
    BY <1>1 DEF Sockets
  <2>2. EndOK(e, T[e], D[e], V[e], Y[e], b)
    BY <1>4 DEF t, n
  <2>3. ASSUME NEW f \in Ends
        PROVE  EndOK(f, T[f], D[f], V[f], Y[f], ViewFrom(f, T, V)) /\ T[f].out = <<>>
    <3>1. CASE f = e
      BY <2>2, <1>3, <3>1
    <3>2. CASE f = p
      BY <1>9, <1>2, <1>3, <2>1, <3>2 DEF r
    <3> QED BY <3>1, <3>2, <1>1
  <2> QED BY <2>3
<1>11. T[Passive].write_seq > 0 => Past(T[Active])
  <2>1. CASE e = Passive
    BY <2>1, EndsFacts DEF OnlyFor
  <2>2. CASE e = Active
    <3>1. T[Passive] = S[Passive]
      BY <2>2, EndsFacts DEF OnlyFor
    <3>2. Past(S[Active]) => Past(T[Active])
      BY <1>6, <2>2 DEF Onward, s, t
    <3> QED BY <3>1, <3>2 DEF Sockets
  <2> QED BY <2>1, <2>2, EndsFacts
<1>12. Sockets(T, D, V, Y)
  BY <1>10, <1>11 DEF Sockets, OnlyFor
<1>13. ASSUME NEW N, QueuesOK(N, S, W)
       PROVE  QueuesOK(N, T, V)
  <2>1. QueueFor(N[e], s, a, r) /\ QueueFor(N[p], r, y, s)
    BY <1>1, <1>3, <1>13 DEF QueuesOK, s, r, p
  <2>2. QueueFor(N[e], t, b, r)
    <3>1. s.rcv_nxt <= t.rcv_nxt /\ (b.calls <=> a.calls) /\ (Past(r) => Past(r))
      BY <1>5, <1>6, <1>8 DEF Onward
    <3>2. ASSUME NEW g, Arrives(g, s, a, r) PROVE Arrives(g, t, b, r)
      BY <3>1, <3>2, <1>5, <1>8, ArrivesWider
    <3> QED BY <2>1, <3>2 DEF QueueFor
  <2>3. QueueFor(N[p], r, z, t)
    <3>1. r.rcv_nxt <= r.rcv_nxt /\ (z.calls <=> y.calls) /\ (Past(s) => Past(t))
      BY <1>5, <1>6, <1>8 DEF Onward
    <3>2. ASSUME NEW g, Arrives(g, r, y, s) PROVE Arrives(g, r, z, t)
      BY <3>1, <3>2, <1>5, <1>8, ArrivesWider
    <3> QED BY <2>1, <3>2 DEF QueueFor
  <2>4. ASSUME NEW f \in Ends PROVE QueueFor(N[f], T[f], ViewFrom(f, T, V), T[Peer(f)])
    <3>1. CASE f = e
      BY <2>2, <1>2, <1>3, <3>1 DEF t, p
    <3>2. CASE f = p
      BY <2>3, <1>1, <1>2, <1>3, <3>2 DEF t
    <3> QED BY <3>1, <3>2, <1>1
  <2> QED BY <2>4, <1>13 DEF QueuesOK
<1> QED BY <1>12, <1>13

(* The segments leave a socket that is not a new one. *)
LEMMA OutsSent ==
  ASSUME NEW e, NEW s, NEW c, NEW w, NEW x, NEW y, EndOK(e, s, c, w, x, y),
         s.write_seq > 0 \/ Listens(s)
  PROVE  LET t == [s EXCEPT !.out = <<>>]
         IN /\ EndOK(e, t, c, w, x, y) /\ t.out = <<>> /\ t.rcv_wup = s.rcv_wup
            /\ t.rcv_wnd = s.rcv_wnd /\ t.state = s.state /\ t.rcv_nxt = s.rcv_nxt
            /\ t.write_seq = s.write_seq
<1> DEFINE none == <<>>
           t == [s EXCEPT !.out = none]
<1>1. Record(s)
  BY EndTypes
<1>2. /\ Record(t) /\ SameQueues(s, t) /\ SameWindow(s, t) /\ SameOffer(s, t) /\ t.state = s.state
      /\ t.timers = s.timers /\ t.dead = s.dead /\ t.msl = s.msl /\ t.nonagle = s.nonagle
      /\ t.tw = s.tw /\ t.out = none /\ t.rcv_wup = s.rcv_wup /\ t.rcv_wnd = s.rcv_wnd
      /\ t.rq = s.rq /\ t.rcv_nxt = s.rcv_nxt /\ t.write_seq = s.write_seq
      /\ t.copied_seq = s.copied_seq /\ t.delayed_acks = s.delayed_acks
  BY <1>1 DEF Record, Fields, SameQueues, SameWindow, SameOffer
<1>3. SegmentsOK(none, ViewAt(s, y)) /\ AllAck(none, s.rcv_nxt)
  BY NoSegments
<1>4. Used(s, y) => Used(t, y)
  BY SentStep DEF Steady, Step
<1> HIDE DEF t, none
<1>5. Listens(s) => Listens(t)
  BY <1>2 DEF Listens
<1>6. Gone(s, y) => Gone(t, y)
  <2>1. ViewAt(t, y) = ViewAt(s, y)
    BY <1>2 DEF ViewAt
  <2>2. ASSUME Open(s, ViewAt(s, y)) PROVE Open(t, ViewAt(s, y))
    <3> DEFINE v == ViewAt(s, y)
    <3> HIDE DEF v
    <3>1. Open(s, v)
      BY <2>2 DEF v
    <3>2. ReceiverOK(t)
      BY <1>2, <3>1 DEF Open, ReceiverOK, SameQueues, SameWindow
    <3>3. Come(t, v)
      BY <1>2, <1>3, <3>1 DEF Open, Come, SameQueues
    <3>4. SegmentsOK(t.out, v)
      BY <1>2, <1>3 DEF v
    <3> QED BY <1>2, <3>2, <3>3, <3>4 DEF Open, v
  <2> QED BY <1>2, <2>1, <2>2 DEF Gone, Counted
<1>7. Occupied(t, e, c, y)
  <2>1. s # NewSock
    <3>1. NewSock.write_seq = 0 /\ NewSock.state = "CLOSE"
      BY NewSockFacts
    <3> QED BY <3>1 DEF Listens
  <2> QED BY <1>4, <1>5, <1>6, <2>1 DEF EndOK, Occupied
<1>8. HasRead(t, c, x, y)
  <2>1. InLine(s) => InLine(t)
    BY <1>2 DEF InLine
  <2>2. Place(t, y) = Place(s, y)
    BY <1>2 DEF Place
  <2> QED BY <1>2, <2>1, <2>2 DEF EndOK, HasRead, Reading
<1>9. EndOK(e, t, c, w, x, y)
  BY <1>2, <1>7, <1>8 DEF EndOK
<1> QED BY <1>2, <1>9 DEF t, none

(* A socket that does not change keeps the edge. *)
LEMMA HoldsSame ==
  ASSUME NEW e, NEW s, NEW c, NEW w, NEW x, NEW y, EndOK(e, s, c, w, x, y)
  PROVE  Holds(s, s)
<1>1. CASE Used(s, y)
  <2>1. s.rcv_wup \in Int /\ s.rcv_wnd \in Nat
    BY <1>1, UsedTypes
  <2>2. s.rcv_wup + s.rcv_wnd \in Int
    BY <2>1
  <2> QED BY <2>2 DEF Holds, Edge
<1>2. CASE ~Used(s, y)
  BY <1>2, NewSockFacts DEF EndOK, Occupied, Listens, Gone, Holds
<1> QED BY <1>1, <1>2

(* The invariant of an end, its view and the other end's. *)
LEMMA EndAt ==
  ASSUME ConnectionOK, NEW e \in Ends, NEW y, y = ViewFrom(e, sk, written)
  PROVE  /\ y = ViewOf(e, written[e], sk[e].write_seq = 2 + written[e], sk[Peer(e)],
                       written[Peer(e)])
         /\ Says(y, e, written[e], sk[e].write_seq = 2 + written[e], sk[Peer(e)],
                 written[Peer(e)])
         /\ EndOK(e, sk[e], call[e], written[e], got[e], y)
         /\ sk[e].out = <<>> /\ Record(sk[e])
         /\ sk[e].rcv_nxt \in Int /\ sk[e].write_seq \in Nat /\ written[e] \in Nat
         /\ sk[Peer(e)].rcv_nxt \in Int /\ written[Peer(e)] \in Nat
         /\ DOMAIN sk = Ends /\ DOMAIN call = Ends /\ DOMAIN written = Ends /\ DOMAIN got = Ends
         /\ QueuesOK(net, sk, written) /\ QueuesOK(backlog, sk, written)
         /\ QueueFor(net[e], sk[e], y, sk[Peer(e)])
         /\ QueueFor(backlog[e], sk[e], y, sk[Peer(e)])
         /\ Peer(e) \in Ends
<1> DEFINE z == ViewFrom(Peer(e), sk, written)
<1>1. Peer(e) \in Ends
  BY EndsFacts
<1>2. /\ EndOK(e, sk[e], call[e], written[e], got[e], y)
      /\ EndOK(Peer(e), sk[Peer(e)], call[Peer(e)], written[Peer(e)], got[Peer(e)], z)
  BY <1>1 DEF ConnectionOK, Sockets
<1>3. y = ViewOf(e, written[e], sk[e].write_seq = 2 + written[e], sk[Peer(e)], written[Peer(e)])
  BY DEF ViewFrom
<1> HIDE DEF z
<1>4. /\ sk[e].rcv_nxt \in Int /\ sk[e].write_seq \in Nat /\ written[e] \in Nat
      /\ sk[Peer(e)].rcv_nxt \in Int /\ written[Peer(e)] \in Nat /\ Record(sk[e])
  BY <1>2, EndTypes
<1>5. Says(y, e, written[e], sk[e].write_seq = 2 + written[e], sk[Peer(e)], written[Peer(e)])
  BY <1>3, <1>4, ViewFacts
<1> QED BY <1>1, <1>2, <1>3, <1>4, <1>5 DEF ConnectionOK, Sockets, QueuesOK

(* A socket becomes t, and its segments go to the other end. *)
LEMMA BecameOK ==
  ASSUME ConnectionOK, NEW e \in Ends, NEW t, NEW q, Became(e, t, q), QueuesOK(q, sk, written),
         QueuesOK(backlog', sk, written),
         OnlyFor(e, call, call'), OnlyFor(e, written, written'), OnlyFor(e, got, got'),
         NEW n, n = written'[e],
         EndOK(e, t, call'[e], n, got'[e],
               ViewOf(e, n, t.write_seq = 2 + n, sk[Peer(e)], written[Peer(e)])),
         Onward(sk[e], t, written[e], n), Holds(sk[e], t),
         t.write_seq > 0 \/ (Listens(t) /\ t.out = <<>>),
         e = Passive /\ t.write_seq > 0 => Past(sk[Active])
  PROVE  ConnectionOK' /\ AllHold
<1> DEFINE u == [t EXCEPT !.out = <<>>]
           p == Peer(e)
           r == sk[p]
           v == written[p]
           z == ViewOf(e, n, t.write_seq = 2 + n, r, v)
           c == call'[e]
           x == got'[e]
           o == t.out
<1>1. /\ DOMAIN sk = Ends /\ r.rcv_nxt \in Int /\ v \in Nat /\ p \in Ends /\ p # e
      /\ written[e] \in Nat /\ sk[e].rcv_nxt \in Int
  <2> DEFINE y == ViewFrom(e, sk, written)
  <2> HIDE DEF y
  <2>1. y = ViewFrom(e, sk, written)
    BY DEF y
  <2> QED BY <2>1, EndAt, EndsFacts
<1>2. sk' = [sk EXCEPT ![e] = u] /\ net' = [q EXCEPT ![p] = @ \o o]
  BY DEF Became
<1> HIDE DEF z, c, x
<1>3. EndOK(e, t, c, n, x, z)
  BY DEF c, x, z
<1>4. /\ EndOK(e, u, c, n, x, z) /\ u.out = <<>> /\ u.rcv_wup = t.rcv_wup /\ u.rcv_wnd = t.rcv_wnd
      /\ u.state = t.state /\ u.rcv_nxt = t.rcv_nxt /\ u.write_seq = t.write_seq
  BY <1>3, OutsSent
<1> HIDE DEF u, p, r, v
<1>5. /\ OnlyFor(e, sk, sk') /\ sk'[e] = u
  BY <1>1, <1>2 DEF OnlyFor
<1>6. n \in Nat /\ t.rcv_nxt \in Int
  BY <1>3, EndTypes
<1>7. /\ Sockets(sk', call', written', got')
      /\ \A N : QueuesOK(N, sk, written) => QueuesOK(N, sk', written')
  <2>1. Sockets(sk, call, written, got)
    BY DEF ConnectionOK
  <2>2. EndOK(e, sk'[e], call'[e], written'[e], got'[e],
              ViewOf(e, written'[e], sk'[e].write_seq = 2 + written'[e], sk[Peer(e)],
                     written[Peer(e)]))
    BY <1>4, <1>5 DEF c, x, z, p, r, v
  <2>3. sk'[e].out = <<>>
    BY <1>4, <1>5
  <2>4. Onward(sk[e], sk'[e], written[e], written'[e])
    BY <1>4, <1>5 DEF Onward, Past
  <2>5. e = Passive /\ sk'[e].write_seq > 0 => Past(sk[Active])
    BY <1>4, <1>5
  <2> QED BY <1>5, <2>1, <2>2, <2>3, <2>4, <2>5, EndChanges
<1>8. QueuesOK(q, sk', written') /\ QueuesOK(backlog', sk', written')
  BY <1>7
<1>9. QueueFor(o, sk'[p], ViewFrom(p, sk', written'), sk'[Peer(p)])
  <2>1. Peer(p) = e /\ p = Peer(e)
    BY EndsFacts DEF p
  <2>2. sk'[p] = r /\ written'[p] = v
    BY <1>1, <1>5 DEF OnlyFor, r, v
  <2> DEFINE fin == r.write_seq = 2 + v
  <2>3. ViewFrom(p, sk', written') = ViewOf(p, v, fin, u, n)
    BY <1>5, <2>1, <2>2 DEF ViewFrom
  <2> HIDE DEF fin
  <2>4. CASE t.write_seq > 0
    <3>1. Open(t, ViewAt(t, z))
      <4>1. Used(t, z) \/ Gone(t, z)
        BY <1>3, <2>4, EndTypes
      <4> QED BY <4>1, UsedTypes DEF Gone
    <3>2. SegmentsOK(o, ViewAt(t, z)) /\ AllAck(o, t.rcv_nxt)
      BY <3>1, WithFacts DEF Open, Come, ViewAt
    <3>3. QueueFor(o, r, ViewOf(p, v, fin, t, n), t)
      <4>1. fin = (r.write_seq = 2 + v)
        BY DEF fin
      <4>2. LET a == ViewOf(e, n, t.write_seq = 2 + n, r, v)
            IN SegmentsOK(t.out, ViewAt(t, a)) /\ AllAck(t.out, t.rcv_nxt)
        BY <3>2 DEF z
      <4> QED BY <1>1, <1>6, <2>1, <2>4, <4>1, <4>2, SentArrives
    <3>4. ViewOf(p, v, fin, t, n) = ViewOf(p, v, fin, u, n)
      BY <1>4 DEF ViewOf
    <3>5. \A g : Arrives(g, r, ViewOf(p, v, fin, t, n), t) => Arrives(g, r, ViewOf(p, v, fin, u, n), u)
      BY <1>4, <3>4 DEF Arrives, Past
    <3>6. QueueFor(o, r, ViewOf(p, v, fin, u, n), u)
      BY <3>3, <3>5 DEF QueueFor
    <3> QED BY <3>6, <1>5, <2>1, <2>2, <2>3
  <2>5. CASE t.out = <<>>
    BY <2>5, QueueOfOne
  <2> QED BY <2>4, <2>5
<1>10. QueuesOK(net', sk', written')
  <2> DEFINE b == q[p] \o o
  <2>1. QueueFor(q[p], sk'[p], ViewFrom(p, sk', written'), sk'[Peer(p)])
    BY <1>1, <1>8 DEF QueuesOK
  <2> HIDE DEF o
  <2>2. QueueFor(b, sk'[p], ViewFrom(p, sk', written'), sk'[Peer(p)])
    BY <1>9, <2>1, QueueConcat
  <2>3. net' = [q EXCEPT ![p] = b]
    BY <1>2
  <2> HIDE DEF b
  <2>4. QueuesOK([q EXCEPT ![p] = b], sk', written')
    BY <1>1, <1>8, <2>2, QueuesExcept
  <2> QED BY <2>3, <2>4
<1>11. AllHold
  <2>1. Holds(sk[e], sk'[e])
    BY <1>4, <1>5 DEF Holds, Edge
  <2>2. ASSUME NEW f \in Ends, f # e PROVE Holds(sk[f], sk'[f])
    <3>1. sk'[f] = sk[f]
      BY <2>2, <1>5 DEF OnlyFor
    <3>2. Holds(sk[f], sk[f])
      BY <2>2, HoldsSame DEF ConnectionOK, Sockets
    <3> QED BY <3>1, <3>2
  <2> QED BY <2>1, <2>2 DEF AllHold
<1> QED BY <1>7, <1>8, <1>10, <1>11 DEF ConnectionOK

(* Segments go out and no socket changes. *)
LEMMA SendsOK ==
  ASSUME ConnectionOK, NEW e \in Ends, NEW o, NEW q, Sends(e, o, q), QueuesOK(q, sk, written),
         QueueFor(o, sk[Peer(e)], ViewFrom(Peer(e), sk, written), sk[e]),
         UNCHANGED <<call, written, got>>, QueuesOK(backlog', sk, written)
  PROVE  ConnectionOK' /\ AllHold
<1>1. sk' = sk /\ call' = call /\ written' = written /\ got' = got
  BY DEF Sends
<1>2. QueuesOK(net', sk, written)
  <2> DEFINE p == Peer(e)
             r == q[p] \o o
  <2>1. p \in Ends /\ Peer(p) = e
    BY EndsFacts
  <2>2. QueueFor(q[p], sk[p], ViewFrom(p, sk, written), sk[e])
    BY <2>1 DEF QueuesOK
  <2>3. net' = [q EXCEPT ![p] = r]
    BY DEF Sends
  <2>4. QueueFor(o, sk[p], ViewFrom(p, sk, written), sk[e])
    OBVIOUS
  <2> HIDE DEF p
  <2>5. QueueFor(r, sk[p], ViewFrom(p, sk, written), sk[Peer(p)])
    BY <2>1, <2>2, <2>4, QueueConcat
  <2> HIDE DEF r
  <2>6. QueuesOK([q EXCEPT ![p] = r], sk, written)
    BY <2>1, <2>5, QueuesExcept
  <2> QED BY <2>3, <2>6
<1>3. \A f \in Ends : Holds(sk[f], sk'[f])
  BY <1>1, HoldsSame DEF ConnectionOK, Sockets
<1> QED BY <1>1, <1>2, <1>3 DEF ConnectionOK, AllHold

(***************************************************************************)
(* Steps of a socket in use.                                               *)
(***************************************************************************)
(* What was read stays so when a step leaves the receive queue in line.    *)
LEMMA SteadyRead ==
  ASSUME NEW s, NEW t, NEW c, NEW d, NEW x, NEW y, NEW z, Used(s, y), HasRead(s, c, x, y),
         Line(s, t), z.theirs = y.theirs, Reading(t, d) => Reading(s, c)
  PROVE  HasRead(t, d, x, z)
<1>1. IsSeq(x) /\ InOrder(x, 1) /\ Len(x) < z.theirs
  BY DEF HasRead
<1>2. ASSUME Reading(t, d)
      PROVE  InLine(t) /\ Len(x) = Place(t, z)
  <2>1. InLine(s) /\ Len(x) = Place(s, y)
    BY <1>2 DEF HasRead
  <2>2. InLine(t) /\ (t.copied_seq = s.copied_seq \/ (s.state = "SYN_SENT" /\ t.copied_seq = 1))
    BY <2>1 DEF Line
  <2>3. CASE t.copied_seq = s.copied_seq
    BY <2>1, <2>2, <2>3 DEF Place
  <2>4. CASE s.state = "SYN_SENT" /\ t.copied_seq = 1
    <3>1. Open(s, ViewAt(s, y)) /\ ViewOK(y)
      BY UsedTypes
    <3>2. s.rcv_nxt = 0 /\ s.rq = <<>>
      BY <2>4, <3>1 DEF Open, ReceiverOK, Come
    <3>3. s.copied_seq = 0
      BY <2>1, <3>2 DEF InLine
    <3>4. y.theirs \in Nat \ {0}
      BY <3>1 DEF ViewOK
    <3>5. Place(s, y) = 0
      BY <3>3, <3>4 DEF Place, Larger, Smaller
    <3>6. Place(t, z) = 0
      BY <2>4, <3>4 DEF Place, Larger, Smaller
    <3> QED BY <2>1, <2>2, <3>5, <3>6
  <2> QED BY <2>2, <2>3, <2>4
<1> QED BY <1>1, <1>2 DEF HasRead

(* Whether a FIN was sent is seen from write_seq.                          *)
LEMMA CountedFin ==
  ASSUME NEW t, NEW e, NEW n \in Nat, NEW b \in BOOLEAN, NEW r, r.rcv_nxt \in Int, NEW v \in Nat,
         NEW z, z = ViewOf(e, n, b, r, v), Counted(t, z)
  PROVE  /\ t.write_seq \in Nat /\ t.write_seq > 0 /\ (t.write_seq = 2 + n) = b
         /\ z = ViewOf(e, n, t.write_seq = 2 + n, r, v)
<1> DEFINE fin == t.write_seq = 2 + n
<1>1. Says(z, e, n, b, r, v)
  BY ViewFacts
<1>2. t.write_seq = 1 + n + Flag(b)
  BY <1>1 DEF Counted, Says
<1>3. b => t.write_seq = 2 + n
  BY <1>2 DEF Flag
<1>4. ~b => t.write_seq = 1 + n
  BY <1>2 DEF Flag
<1>5. fin = b /\ t.write_seq \in Nat /\ t.write_seq > 0
  BY <1>3, <1>4
<1> HIDE DEF fin
<1>6. z = ViewOf(e, n, fin, r, v)
  BY <1>5
<1> QED BY <1>5, <1>6 DEF fin

(* A socket in use takes a step: in the end n bytes are written, and b     *)
(* says whether a FIN follows them.                                        *)
Moved(s, t, y) ==
  /\ Used(t, y) /\ (t.state # "CLOSE" => s.state # "CLOSE" /\ Edge(s, t))
  /\ t.rcv_nxt >= s.rcv_nxt /\ (t.state = "SYN_SENT" => s.state = "SYN_SENT")

(* Then the end is as it should be. *)
LEMMA StepFacts ==
  ASSUME ConnectionOK, NEW e \in Ends, NEW t, NEW c, NEW x,
         NEW y, y = ViewFrom(e, sk, written), Used(sk[e], y),
         NEW n \in Nat, written[e] <= n, NEW b \in BOOLEAN, y.fin => b /\ n = written[e],
         NEW z, z = ViewOf(e, n, b, sk[Peer(e)], written[Peer(e)]),
         Moved(sk[e], t, z), HasRead(t, c, x, z)
  PROVE  /\ EndOK(e, t, c, n, x, ViewOf(e, n, t.write_seq = 2 + n, sk[Peer(e)], written[Peer(e)]))
         /\ Onward(sk[e], t, written[e], n) /\ Holds(sk[e], t) /\ t.write_seq > 0
         /\ e = Passive /\ t.write_seq > 0 => Past(sk[Active])
<1> DEFINE s == sk[e]
           r == sk[Peer(e)]
           w == written[e]
           v == written[Peer(e)]
           fin == t.write_seq = 2 + n
<1>1. /\ y = ViewOf(e, w, s.write_seq = 2 + w, r, v) /\ Says(y, e, w, s.write_seq = 2 + w, r, v)
      /\ EndOK(e, s, call[e], w, got[e], y)
      /\ s.rcv_nxt \in Int /\ s.write_seq \in Nat /\ w \in Nat /\ r.rcv_nxt \in Int /\ v \in Nat
  BY EndAt
<1>3. Used(t, z) /\ t.rcv_nxt >= s.rcv_nxt
      /\ (t.state = "SYN_SENT" => s.state = "SYN_SENT")
      /\ (t.state # "CLOSE" => s.state # "CLOSE" /\ Edge(s, t))
  BY DEF Moved
<1>4. Counted(t, z) /\ t.write_seq \in Nat /\ t.write_seq > 0
  BY <1>3, UsedTypes DEF Used, Shut, Runs
<1>5. fin = b /\ z = ViewOf(e, n, t.write_seq = 2 + n, sk[Peer(e)], written[Peer(e)])
  BY <1>1, <1>4, CountedFin
<1>6. y.fin = (s.write_seq = 2 + w)
  BY <1>1 DEF Says
<1>7. s.write_seq > 0
  BY UsedTypes
<1>8. Onward(s, t, w, n)
  <2>1. Past(s) => Past(t)
    BY <1>3, <1>4 DEF Past
  <2>2. s.write_seq = 2 + w => t.write_seq = 2 + n /\ n = w
    BY <1>5, <1>6
  <2> QED BY <1>3, <2>1, <2>2 DEF Onward
<1>9. EndOK(e, t, c, n, x, z)
  BY <1>3, <1>4 DEF EndOK, Occupied
<1>10. Holds(s, t)
  BY <1>3 DEF Holds
<1>11. e = Passive /\ t.write_seq > 0 => Past(sk[Active])
  BY <1>7 DEF ConnectionOK, Sockets
<1>13. EndOK(e, t, c, n, x,
             ViewOf(e, n, t.write_seq = 2 + n, sk[Peer(e)], written[Peer(e)]))
  BY <1>5, <1>9
<1> HIDE DEF fin
<1> QED BY <1>4, <1>8, <1>10, <1>11, <1>13

(* So the invariant holds after it.                                        *)
LEMMA MovedOK ==
  ASSUME ConnectionOK, NEW e \in Ends, NEW t, NEW q, Became(e, t, q), QueuesOK(q, sk, written),
         QueuesOK(backlog', sk, written),
         OnlyFor(e, call, call'), OnlyFor(e, written, written'), OnlyFor(e, got, got'),
         NEW y, y = ViewFrom(e, sk, written), Used(sk[e], y),
         NEW n \in Nat, n = written'[e], written[e] <= n, NEW b \in BOOLEAN, y.fin => b /\ n = written[e],
         NEW z, z = ViewOf(e, n, b, sk[Peer(e)], written[Peer(e)]),
         Moved(sk[e], t, z), HasRead(t, call'[e], got'[e], z)
  PROVE  ConnectionOK' /\ AllHold
<1> DEFINE c == call'[e]
           x == got'[e]
<1>1. HasRead(t, c, x, z)
  OBVIOUS
<1> HIDE DEF c, x
<1>2. /\ EndOK(e, t, c, n, x, ViewOf(e, n, t.write_seq = 2 + n, sk[Peer(e)], written[Peer(e)]))
      /\ Onward(sk[e], t, written[e], n) /\ Holds(sk[e], t) /\ t.write_seq > 0
      /\ e = Passive /\ t.write_seq > 0 => Past(sk[Active])
  BY <1>1, StepFacts
<1> QED BY <1>2, BecameOK DEF c, x

(* A step in the sense above is such a one.                                *)
LEMMA StepOK ==
  ASSUME ConnectionOK, NEW e \in Ends, NEW t, NEW q, Became(e, t, q), QueuesOK(q, sk, written),
         QueuesOK(backlog', sk, written),
         OnlyFor(e, call, call'), OnlyFor(e, written, written'), OnlyFor(e, got, got'),
         NEW y, y = ViewFrom(e, sk, written), Used(sk[e], y),
         NEW n \in Nat, n = written'[e], written[e] <= n, NEW b \in BOOLEAN, y.fin => b /\ n = written[e],
         NEW z, z = ViewOf(e, n, b, sk[Peer(e)], written[Peer(e)]),
         Step(sk[e], t, z), HasRead(t, call'[e], got'[e], z)
  PROVE  ConnectionOK' /\ AllHold
<1>1. Moved(sk[e], t, z)
  BY DEF Step, Moved
<1> QED BY <1>1, MovedOK

(* A step that sends nothing, with no lock.                                *)
LEMMA SetsOK ==
  ASSUME ConnectionOK, NEW e \in Ends, NEW t, Sets(e, t), t.out = <<>>,
         NEW y, y = ViewFrom(e, sk, written), Used(sk[e], y), Steady(sk[e], t, y)
  PROVE  ConnectionOK' /\ AllHold
<1> DEFINE w == written[e]
           b == sk[e].write_seq = 2 + w
           c == call[e]
           x == got[e]
<1>1. /\ y = ViewOf(e, w, b, sk[Peer(e)], written[Peer(e)])
      /\ Says(y, e, w, b, sk[Peer(e)], written[Peer(e)])
      /\ EndOK(e, sk[e], c, w, x, y) /\ w \in Nat
      /\ DOMAIN sk = Ends /\ DOMAIN written = Ends /\ DOMAIN got = Ends /\ DOMAIN call = Ends
      /\ QueuesOK(net, sk, written) /\ QueuesOK(backlog, sk, written)
  BY EndAt
<1>2. /\ sk' = [sk EXCEPT ![e] = t] /\ net' = net /\ call' = call /\ backlog' = backlog
      /\ written' = written /\ got' = got
  BY DEF Sets
<1>3. b \in BOOLEAN /\ y.fin = b /\ w <= w /\ Moved(sk[e], t, y)
  BY <1>1 DEF Says, Steady, Step, Moved
<1>4. HasRead(t, c, x, y)
  <2>1. HasRead(sk[e], c, x, y) /\ Line(sk[e], t)
    BY <1>1 DEF EndOK, Steady
  <2>2. Reading(t, c) => Reading(sk[e], c)
    BY UsedTypes DEF Reading, Steady, Step
  <2> QED BY <2>1, <2>2, SteadyRead
<1>5. /\ OnlyFor(e, sk, sk') /\ OnlyFor(e, call, call') /\ OnlyFor(e, written, written')
      /\ OnlyFor(e, got, got') /\ sk'[e] = t
  BY <1>1, <1>2 DEF OnlyFor
<1> HIDE DEF b, c, x, w
<1>6. y.fin => b /\ w = written[e]
  BY <1>3 DEF w
<1>7. /\ EndOK(e, t, c, w, x, ViewOf(e, w, t.write_seq = 2 + w, sk[Peer(e)], written[Peer(e)]))
      /\ Onward(sk[e], t, written[e], w) /\ Holds(sk[e], t)
      /\ e = Passive /\ t.write_seq > 0 => Past(sk[Active])
  <2>1. written[e] <= w
    BY <1>3 DEF w
  <2> QED BY <2>1, <1>1, <1>3, <1>4, <1>6, StepFacts
<1>8. /\ Sockets(sk', call', written', got')
      /\ \A N : QueuesOK(N, sk, written) => QueuesOK(N, sk', written')
  <2>1. Sockets(sk, call, written, got)
    BY DEF ConnectionOK
  <2>2. EndOK(e, sk'[e], call'[e], written'[e], got'[e],
              ViewOf(e, written'[e], sk'[e].write_seq = 2 + written'[e], sk[Peer(e)],
                     written[Peer(e)]))
    BY <1>2, <1>5, <1>7 DEF c, x, w
  <2>3. Onward(sk[e], sk'[e], written[e], written'[e])
    BY <1>2, <1>5, <1>7 DEF w
  <2>4. sk'[e].out = <<>> /\ (e = Passive /\ sk'[e].write_seq > 0 => Past(sk[Active]))
    BY <1>5, <1>7
  <2> QED BY <1>5, <2>1, <2>2, <2>3, <2>4, EndChanges
<1>9. AllHold
  <2>1. ASSUME NEW f \in Ends, f # e PROVE Holds(sk[f], sk'[f])
    <3>1. sk'[f] = sk[f]
      BY <2>1, <1>5 DEF OnlyFor
    <3>2. Holds(sk[f], sk[f])
      BY <2>1, HoldsSame DEF ConnectionOK, Sockets
    <3> QED BY <3>1, <3>2
  <2> QED BY <2>1, <1>5, <1>7 DEF AllHold
<1> QED BY <1>1, <1>2, <1>8, <1>9 DEF ConnectionOK

(* It takes one that changes nothing else.                                 *)
LEMMA SteadyOK ==
  ASSUME ConnectionOK, NEW e \in Ends, NEW t, NEW q, Became(e, t, q), QueuesOK(q, sk, written),
         QueuesOK(backlog', sk, written),
         OnlyFor(e, call, call'), written' = written, got' = got,
         NEW y, y = ViewFrom(e, sk, written), Used(sk[e], y), Steady(sk[e], t, y),
         Reading(t, call'[e]) => Reading(sk[e], call[e])
  PROVE  ConnectionOK' /\ AllHold
<1> DEFINE w == written[e]
           b == sk[e].write_seq = 2 + w
<1>1. /\ y = ViewOf(e, w, b, sk[Peer(e)], written[Peer(e)])
      /\ Says(y, e, w, b, sk[Peer(e)], written[Peer(e)])
      /\ EndOK(e, sk[e], call[e], w, got[e], y) /\ w \in Nat
      /\ DOMAIN written = Ends /\ DOMAIN got = Ends
  BY EndAt
<1>2. b \in BOOLEAN /\ y.fin = b /\ w <= w
  BY <1>1 DEF Says
<1>3. OnlyFor(e, written, written') /\ OnlyFor(e, got, got') /\ w = written'[e]
  BY <1>1 DEF OnlyFor
<1>4. Step(sk[e], t, y)
  BY DEF Steady
<1>5. HasRead(t, call'[e], got'[e], y)
  <2>1. HasRead(sk[e], call[e], got[e], y) /\ Line(sk[e], t)
    BY <1>1 DEF EndOK, Steady
  <2> QED BY <2>1, SteadyRead
<1> HIDE DEF b, w
<1>6. y.fin => b /\ w = written[e]
  BY <1>2 DEF w
<1>7. written[e] <= w
  BY <1>2 DEF w
<1> QED BY <1>1, <1>2, <1>3, <1>4, <1>5, <1>6, <1>7, StepOK

(***************************************************************************)
(* The users.                                                              *)
(***************************************************************************)
(* A FIN more, or n bytes more, in the view.                               *)
LEMMA ViewMore ==
  ASSUME NEW e, NEW w \in Nat, NEW f, NEW r, r.rcv_nxt \in Int, NEW v \in Nat, NEW n \in Nat,
         w <= n, NEW b, f => b /\ n = w,
         NEW y, y = ViewOf(e, w, f, r, v), NEW z, z = ViewOf(e, n, b, r, v)
  PROVE  /\ Wider(y, z) /\ z.last = 1 + n /\ y.last = 1 + w /\ z.fin = b /\ y.fin = f
         /\ z.theirs = y.theirs
<1>1. v <= v /\ r.rcv_nxt <= r.rcv_nxt /\ (r.write_seq = 2 + v => r.write_seq = 2 + v /\ v = v)
  OBVIOUS
<1>2. Says(y, e, w, f, r, v) /\ Says(z, e, n, b, r, v)
  BY ViewFacts
<1>3. y.last = 1 + w /\ z.last = 1 + n /\ y.fin = f /\ z.fin = b /\ z.theirs = y.theirs
      /\ ViewOK(y) /\ ViewOK(z) /\ y.calls = z.calls /\ y.up = TRUE /\ z.up = TRUE
      /\ y.seen = z.seen /\ y.ended = z.ended
  BY <1>2 DEF Says
<1>4. y.seen \in Nat /\ y.theirs \in Nat
  BY <1>3 DEF ViewOK
<1>5. y.last <= z.last /\ (y.fin => z.fin /\ z.last = y.last)
  BY <1>3
<1>6. y.seen <= z.seen /\ y.theirs <= z.theirs
  BY <1>3, <1>4
<1> QED BY <1>3, <1>5, <1>6 DEF Wider

(* What a call leaves alone. *)
LEMMA CallsFacts ==
  ASSUME ConnectionOK, NEW e \in Ends, NEW t, NEW what, Calls(e, what, t)
  PROVE  /\ Became(e, t, net) /\ call[e] = "none" /\ call'[e] = what /\ OnlyFor(e, call, call')
         /\ QueuesOK(net, sk, written) /\ QueuesOK(backlog', sk, written)
<1>1. DOMAIN call = Ends /\ QueuesOK(net, sk, written) /\ QueuesOK(backlog, sk, written)
  BY EndAt
<1>2. call' = [call EXCEPT ![e] = what] /\ Became(e, t, net) /\ backlog' = backlog /\ ~Locked(e)
  BY DEF Calls, MayCall
<1> QED BY <1>1, <1>2 DEF OnlyFor, Locked

(* A call on a socket in use, with nothing written or read. *)
LEMMA CallsOK ==
  ASSUME ConnectionOK, NEW e \in Ends, NEW t, NEW what, Calls(e, what, t), written' = written,
         got' = got, NEW y, y = ViewFrom(e, sk, written), Used(sk[e], y), Steady(sk[e], t, y)
  PROVE  ConnectionOK' /\ AllHold
<1>1. /\ Became(e, t, net) /\ call[e] = "none" /\ OnlyFor(e, call, call')
      /\ QueuesOK(net, sk, written) /\ QueuesOK(backlog', sk, written)
  BY CallsFacts
<1>2. Reading(t, call'[e]) => Reading(sk[e], call[e])
  BY <1>1, UsedTypes DEF Reading, Steady, Step
<1> QED BY <1>1, <1>2, SteadyOK

(* Which sockets are in use. *)
LEMMA InUse ==
  ASSUME ConnectionOK, NEW e \in Ends, NEW y, y = ViewFrom(e, sk, written)
  PROVE  /\ MayWrite(sk[e]) => Used(sk[e], y) /\ sk[e].state # "CLOSE"
         /\ Readable(sk[e]) # 0 => Used(sk[e], y) \/ Gone(sk[e], y)
         /\ Hashed(sk[e]) => sk[e].state # "CLOSE" /\ (Used(sk[e], y) \/ Listens(sk[e]))
         /\ sk[e].timers # {} => Used(sk[e], y)
         /\ sk[e].msl # "none" => Used(sk[e], y)
         /\ sk[e].tw # <<>> => Used(sk[e], y) \/ Gone(sk[e], y)
         /\ Locked(e) => Used(sk[e], y)
         /\ sk[e].write_seq > 0 => Used(sk[e], y) \/ Gone(sk[e], y)
         /\ sk[e].nonagle # 0 => Used(sk[e], y) \/ Gone(sk[e], y)
         /\ sk[e].write_seq = 0 => Listens(sk[e]) \/ sk[e] = NewSock
<1>1. EndOK(e, sk[e], call[e], written[e], got[e], y)
  BY EndAt
<1>2. ASSUME sk[e].rq = <<>> PROVE Readable(sk[e]) = 0
  <2> DEFINE s == sk[e]
             I == {i \in 1..Len(s.rq) : Offset(s, s.rq[i]) < Len(s.rq[i].data) \/ s.rq[i].fin}
  <2>1. Readable(s) = IF I # {} THEN Min(I) ELSE 0
    BY DEF Readable, SelectInSeq
  <2>2. Len(s.rq) = 0
    BY <1>2, EmptyFacts
  <2>3. I = {}
    BY <2>2
  <2> HIDE DEF I
  <2> QED BY <2>1, <2>3
<1>3. NewSock.nonagle = 0
  BY DEF NewSock
<1>4. Occupied(sk[e], e, call[e], y)
  BY <1>1 DEF EndOK
<1>5. CASE Used(sk[e], y)
  <2>1. sk[e].write_seq > 0
    BY <1>5, UsedTypes
  <2> QED BY <1>5, <2>1 DEF Hashed, MayWrite
<1>6. CASE Gone(sk[e], y)
  <2>1. sk[e].write_seq > 0
    BY <1>1, <1>6, EndTypes
  <2> QED BY <1>4, <1>6, <2>1, UsedTypes DEF Gone, Hashed, MayWrite, Locked, Occupied, Listens, Running
<1>7. CASE ~Used(sk[e], y) /\ ~Gone(sk[e], y)
  BY <1>2, <1>3, <1>4, <1>7, NewSockFacts DEF Occupied, Listens, Hashed, MayWrite, Locked
<1> QED BY <1>5, <1>6, <1>7

(* The user writes. *)
LEMMA WriteOK ==
  ASSUME ConnectionOK, NEW e \in Ends, Write(e)
  PROVE  ConnectionOK' /\ AllHold
<1> DEFINE s == sk[e]
           w == written[e]
           v == written[Peer(e)]
           r == sk[Peer(e)]
           f == s.write_seq = 2 + w
           y == ViewFrom(e, sk, written)
<1>1. /\ y = ViewOf(e, w, f, r, v) /\ w \in Nat /\ v \in Nat /\ r.rcv_nxt \in Int
      /\ EndOK(e, s, call[e], w, got[e], y) /\ DOMAIN written = Ends /\ DOMAIN got = Ends
  BY EndAt
<1>2. MayWrite(s) /\ got' = got
  BY DEF Write, CanWrite
<1>3. PICK n \in WriteSizes : /\ Calls(e, "sendmsg", atcp_do_sendmsg(s, n))
                              /\ written' = [written EXCEPT ![e] = @ + n]
  BY DEF Write
<1> DEFINE t == atcp_do_sendmsg(s, n)
           m == w + n
           z == ViewOf(e, m, FALSE, r, v)
<1>4. n \in Nat /\ m \in Nat /\ w <= m
  BY <1>1, ConnectionConstants
<1>5. Runs(s, y) /\ s.state \in {"ESTABLISHED", "CLOSE_WAIT"}
  BY <1>2, InUse DEF Used, Shut, MayWrite
<1>6. ~y.fin
  BY <1>5 DEF Runs, Counted, Writing
<1>7. /\ Became(e, t, net) /\ call[e] = "none" /\ call'[e] = "sendmsg" /\ OnlyFor(e, call, call')
      /\ QueuesOK(net, sk, written) /\ QueuesOK(backlog', sk, written)
  BY <1>3, CallsFacts
<1>8. OnlyFor(e, written, written') /\ m = written'[e] /\ OnlyFor(e, got, got')
  BY <1>1, <1>2, <1>3 DEF OnlyFor
<1>9. y.fin = f
  <2>1. Says(y, e, w, f, r, v)
    BY EndAt
  <2> QED BY <2>1 DEF Says
<1> DEFINE b == FALSE
<1>10. z = ViewOf(e, m, b, r, v) /\ b \in BOOLEAN /\ ~b
  OBVIOUS
<1> HIDE DEF f, s, w, v, r, y, z, m, t, b
<1>11. f => b /\ m = w
  BY <1>6, <1>9
<1>12. /\ Wider(y, z) /\ z.last = 1 + m /\ y.last = 1 + w /\ z.fin = b /\ y.fin = f
       /\ z.theirs = y.theirs
  BY <1>1, <1>4, <1>10, <1>11, ViewMore
<1>13. z.last = y.last + n
  BY <1>1, <1>4, <1>12 DEF m
<1>14. Steady(s, t, z)
  BY <1>4, <1>5, <1>10, <1>12, <1>13, SendMsgStep DEF t
<1>15. Used(s, y)
  BY <1>5 DEF Used
<1>16. HasRead(t, call'[e], got'[e], z)
  <2>1. HasRead(s, call[e], got[e], y) /\ Line(s, t)
    BY <1>1, <1>14 DEF EndOK, Steady
  <2>2. Reading(t, call'[e]) => Reading(s, call[e])
    BY <1>7, <1>14, <1>15, UsedTypes DEF Reading, Steady, Step
  <2> QED BY <1>2, <1>12, <1>15, <2>1, <2>2, SteadyRead
<1>17. Step(s, t, z)
  BY <1>14 DEF Steady
<1>18. y.fin => b /\ m = written[e]
  BY <1>6
<1>19. /\ y = ViewFrom(e, sk, written) /\ Used(sk[e], y) /\ written[e] <= m
       /\ z = ViewOf(e, m, b, sk[Peer(e)], written[Peer(e)]) /\ Step(sk[e], t, z)
  BY <1>4, <1>10, <1>15, <1>17 DEF y, s, r, v, w
<1> QED BY <1>4, <1>7, <1>8, <1>10, <1>16, <1>18, <1>19, StepOK

(* The user reads. *)
LEMMA ReadOK ==
  ASSUME ConnectionOK, NEW e \in Ends, Read(e)
  PROVE  ConnectionOK' /\ AllHold
<1> DEFINE s == sk[e]
           w == written[e]
           b == s.write_seq = 2 + w
           y == ViewFrom(e, sk, written)
           x == got[e]
<1>1. /\ y = ViewOf(e, w, b, sk[Peer(e)], written[Peer(e)])
      /\ Says(y, e, w, b, sk[Peer(e)], written[Peer(e)])
      /\ EndOK(e, s, call[e], w, x, y) /\ w \in Nat /\ DOMAIN written = Ends /\ DOMAIN got = Ends
  BY EndAt
<1>2. Readable(s) # 0 /\ ~s.dead /\ written' = written
  BY DEF Read, CanRead
<1>3. PICK n \in ReadSizes : /\ Calls(e, "recvmsg", atcp_recvmsg(s, n).sk)
                             /\ got' = [got EXCEPT ![e] = @ \o atcp_recvmsg(s, n).got]
  BY DEF Read
<1> DEFINE t == atcp_recvmsg(s, n).sk
           g == atcp_recvmsg(s, n).got
           xg == x \o g
<1>4. Used(s, y)
  BY <1>2, InUse DEF Gone
<1>5. n \in Nat
  BY ConnectionConstants
<1>6. /\ Became(e, t, net) /\ call[e] = "none" /\ call'[e] = "recvmsg" /\ OnlyFor(e, call, call')
      /\ QueuesOK(net, sk, written) /\ QueuesOK(backlog', sk, written)
  BY <1>3, CallsFacts
<1>7. OnlyFor(e, written, written') /\ w = written'[e] /\ OnlyFor(e, got, got') /\ got'[e] = xg
  BY <1>1, <1>2, <1>3 DEF OnlyFor
<1>8. Reading(s, call[e])
  BY <1>2, <1>4, <1>6, UsedTypes DEF Reading
<1>9. InLine(s) /\ Len(x) = Place(s, y) /\ IsSeq(x) /\ InOrder(x, 1)
  BY <1>1, <1>8 DEF EndOK, HasRead
<1>10. /\ Step(s, t, y)
       /\ InLine(s) => /\ InLine(t) /\ IsSeq(g) /\ InOrder(g, Place(s, y) + 1)
                       /\ Place(t, y) = Place(s, y) + Len(g)
  <2> HIDE DEF s, y
  <2> QED BY <1>4, <1>5, RecvMsgStep
<1>11. b \in BOOLEAN /\ y.fin = b /\ y.theirs \in Nat \ {0} /\ t.copied_seq \in Int
  BY <1>1, <1>9, <1>10 DEF Says, ViewOK, InLine
<1> HIDE DEF s, w, b, y, x, t, g
<1>12. IsSeq(xg) /\ InOrder(xg, 1) /\ Len(xg) = Place(t, y)
  <2>1. Len(x) \in Nat /\ Len(g) \in Nat
    BY <1>9, <1>10, SeqFacts
  <2>2. IsSeq(xg) /\ Len(xg) = Len(x) + Len(g)
    BY <1>9, <1>10, ConcatFacts
  <2>3. InOrder(g, 1 + Len(x))
    <3>1. Place(s, y) + 1 = 1 + Len(x)
      BY <1>9, <2>1
    <3> QED BY <3>1, <1>9, <1>10
  <2>4. InOrder(xg, 1)
    <3> DEFINE one == 1
    <3>1. one \in Int /\ InOrder(x, one) /\ InOrder(g, one + Len(x))
      BY <1>9, <2>3
    <3> HIDE DEF one
    <3>2. InOrder(xg, one)
      BY <3>1, <1>9, <1>10, InOrderConcat
    <3> QED BY <3>2 DEF one
  <2> QED BY <2>2, <2>4, <1>9, <1>10
<1>13. Place(t, y) < y.theirs
  BY <1>11 DEF Place, Larger, Smaller
<1>14. HasRead(t, call'[e], got'[e], y)
  BY <1>7, <1>9, <1>10, <1>12, <1>13 DEF HasRead
<1>15. w <= w /\ (y.fin => b /\ w = written[e])
  BY <1>1, <1>11 DEF w
<1>16. /\ y = ViewFrom(e, sk, written) /\ Used(sk[e], y) /\ written[e] <= w /\ Step(sk[e], t, y)
  BY <1>4, <1>10, <1>15 DEF y, s, w
<1> QED BY <1>1, <1>6, <1>7, <1>11, <1>14, <1>15, <1>16, StepOK

(* The user sets TCP_NODELAY or TCP_CORK. *)
LEMMA OptionsOK ==
  ASSUME ConnectionOK, NEW e \in Ends, SetNoDelay(e) \/ SetCork(e)
  PROVE  ConnectionOK' /\ AllHold
<1> DEFINE s == sk[e]
           y == ViewFrom(e, sk, written)
<1>1. MayWrite(s)
  BY DEF SetNoDelay, SetCork
<1>2. PICK t \in {NoDelay(s), Cork(s)} : Sets(e, t)
  BY DEF SetNoDelay, SetCork
<1>3. Used(s, y) /\ s.state # "CLOSE"
  BY <1>1, InUse
<1>4. s.out = <<>> /\ Record(s)
  BY EndAt
<1> HIDE DEF y
<1>5. Steady(s, t, y)
  BY <1>3, OptionsStep
<1>6. t.out = <<>>
  BY <1>4 DEF NoDelay, Cork, Record, Fields
<1> QED BY <1>2, <1>3, <1>5, <1>6, SetsOK DEF y

(* The user clears TCP_CORK. *)
LEMMA UncorkOK ==
  ASSUME ConnectionOK, NEW e \in Ends, ClearCork(e)
  PROVE  ConnectionOK' /\ AllHold
<1> DEFINE y == ViewFrom(e, sk, written)
<1>1. Calls(e, "setsockopt", Uncork(sk[e])) /\ Hashed(sk[e]) /\ sk[e].nonagle = 2
      /\ written' = written /\ got' = got
  BY DEF ClearCork, CanUncork
<1>2. Used(sk[e], y) /\ sk[e].state # "CLOSE"
  BY <1>1, InUse DEF Listens
<1> HIDE DEF y
<1>3. Steady(sk[e], Uncork(sk[e]), y)
  BY <1>2, OptionsStep
<1> QED BY <1>1, <1>2, <1>3, CallsOK DEF y

(* The view with the FIN of a call. *)
LEMMA FinView ==
  ASSUME ConnectionOK, NEW e \in Ends, NEW y, y = ViewFrom(e, sk, written), NEW b \in BOOLEAN,
         y.fin => b, NEW z, z = ViewOf(e, written[e], b, sk[Peer(e)], written[Peer(e)])
  PROVE  Wider(y, z) /\ z.last = y.last /\ z.fin = b /\ z.theirs = y.theirs
<1> DEFINE w == written[e]
           f == sk[e].write_seq = 2 + w
           r == sk[Peer(e)]
           v == written[Peer(e)]
<1>1. /\ y = ViewOf(e, w, f, r, v) /\ Says(y, e, w, f, r, v)
      /\ w \in Nat /\ v \in Nat /\ r.rcv_nxt \in Int
  BY EndAt
<1>2. y.fin = f
  BY <1>1 DEF Says
<1> HIDE DEF f
<1>3. w <= w /\ (f => b /\ w = w)
  BY <1>1, <1>2
<1> HIDE DEF w, r, v
<1>4. z = ViewOf(e, w, b, r, v)
  BY DEF w, r, v
<1>5. /\ Wider(y, z) /\ z.last = 1 + w /\ y.last = 1 + w /\ z.fin = b /\ y.fin = f
      /\ z.theirs = y.theirs
  BY <1>1, <1>3, <1>4, ViewMore
<1> QED BY <1>5

(* A call that sends a FIN, or has it sent later. *)
LEMMA FinOK ==
  ASSUME ConnectionOK, NEW e \in Ends, NEW t, NEW what, Calls(e, what, t), written' = written,
         got' = got, NEW y, y = ViewFrom(e, sk, written), Used(sk[e], y),
         NEW b \in BOOLEAN, y.fin => b,
         NEW z, z = ViewOf(e, written[e], b, sk[Peer(e)], written[Peer(e)]),
         Step(sk[e], t, z), what = "close" \/ Line(sk[e], t)
  PROVE  ConnectionOK' /\ AllHold
<1> DEFINE w == written[e]
<1>1. /\ EndOK(e, sk[e], call[e], w, got[e], y) /\ w \in Nat
      /\ DOMAIN written = Ends /\ DOMAIN got = Ends
  BY EndAt
<1>2. /\ Became(e, t, net) /\ call[e] = "none" /\ call'[e] = what /\ OnlyFor(e, call, call')
      /\ QueuesOK(net, sk, written) /\ QueuesOK(backlog', sk, written)
  BY CallsFacts
<1>3. OnlyFor(e, written, written') /\ w = written'[e] /\ OnlyFor(e, got, got') /\ got'[e] = got[e]
      /\ written[e] <= w /\ (y.fin => b /\ w = written[e])
  BY <1>1 DEF OnlyFor
<1>4. z.theirs = y.theirs
  BY FinView
<1>5. HasRead(sk[e], call[e], got[e], y)
  BY <1>1 DEF EndOK
<1>6. HasRead(t, call'[e], got'[e], z)
  <2>1. CASE what = "close"
    BY <1>2, <1>3, <1>4, <1>5, <2>1 DEF HasRead, Reading
  <2>2. CASE Line(sk[e], t)
    <3>1. Reading(t, what) => Reading(sk[e], call[e])
      BY <1>2, UsedTypes DEF Reading, Step
    <3>2. HasRead(t, what, got[e], z)
      BY <1>4, <1>5, <2>2, <3>1, SteadyRead
    <3> QED BY <3>2, <1>2, <1>3
  <2> QED BY <2>1, <2>2
<1> HIDE DEF w
<1>7. z = ViewOf(e, w, b, sk[Peer(e)], written[Peer(e)])
  BY DEF w
<1> QED BY <1>1, <1>2, <1>3, <1>6, <1>7, StepOK

(* The user shuts the sending side down. *)
LEMMA ShutdownOK ==
  ASSUME ConnectionOK, NEW e \in Ends, Shutdown(e)
  PROVE  ConnectionOK' /\ AllHold
<1> DEFINE s == sk[e]
           y == ViewFrom(e, sk, written)
           b == y.fin \/ s.state \in SendsFin
           z == ViewOf(e, written[e], b, sk[Peer(e)], written[Peer(e)])
<1>1. /\ Calls(e, "shutdown", atcp_shutdown(s)) /\ Hashed(s) /\ s.state # "LISTEN"
      /\ written' = written /\ got' = got
  BY DEF Shutdown, CanShutdown
<1>2. Used(s, y) /\ s.state # "CLOSE"
  BY <1>1, InUse DEF Listens
<1>3. b \in BOOLEAN /\ (y.fin => b) /\ (b <=> y.fin \/ s.state \in SendsFin)
  OBVIOUS
<1> HIDE DEF b, y
<1>4. Wider(y, z) /\ z.last = y.last /\ z.fin = b
  BY <1>3, FinView DEF y
<1> HIDE DEF z
<1>5. Steady(s, atcp_shutdown(s), z)
  <2>1. z.fin <=> y.fin \/ s.state \in SendsFin
    BY <1>3, <1>4
  <2> HIDE DEF s
  <2> QED BY <1>2, <1>4, <2>1, ShutdownStep
<1>6. Step(s, atcp_shutdown(s), z) /\ Line(s, atcp_shutdown(s))
  BY <1>5 DEF Steady
<1>7. y = ViewFrom(e, sk, written) /\ z = ViewOf(e, written[e], b, sk[Peer(e)], written[Peer(e)])
  BY DEF y, z
<1> QED BY <1>1, <1>2, <1>3, <1>6, <1>7, FinOK

(* The user closes. *)
LEMMA CloseOK ==
  ASSUME ConnectionOK, NEW e \in Ends, Close(e)
  PROVE  ConnectionOK' /\ AllHold
<1> DEFINE s == sk[e]
           y == ViewFrom(e, sk, written)
           b == y.fin \/ (s.state \in SendsFin /\ ~Unread(s))
           z == ViewOf(e, written[e], b, sk[Peer(e)], written[Peer(e)])
<1>1. /\ Calls(e, "close", atcp_close(s)) /\ ~s.dead /\ s.write_seq > 0
      /\ written' = written /\ got' = got
  BY DEF Close, CanClose
<1>2. Used(s, y)
  BY <1>1, InUse DEF Gone
<1>3. b \in BOOLEAN /\ (y.fin => b) /\ (b <=> y.fin \/ (s.state \in SendsFin /\ ~Unread(s)))
  OBVIOUS
<1> HIDE DEF b, y
<1>4. Wider(y, z) /\ z.last = y.last /\ z.fin = b
  BY <1>3, FinView DEF y
<1> HIDE DEF z
<1>5. Step(s, atcp_close(s), z)
  <2>1. z.fin <=> y.fin \/ (s.state \in SendsFin /\ ~Unread(s))
    BY <1>3, <1>4
  <2> HIDE DEF s
  <2> QED BY <1>2, <1>4, <2>1, CloseStep
<1>6. y = ViewFrom(e, sk, written) /\ z = ViewOf(e, written[e], b, sk[Peer(e)], written[Peer(e)])
  BY DEF y, z
<1> QED BY <1>1, <1>2, <1>3, <1>5, <1>6, FinOK

(***************************************************************************)
(* The first step of a socket, its last, and the backlog.                  *)
(***************************************************************************)
(* A socket comes into use.                                                *)
LEMMA FirstOK ==
  ASSUME ConnectionOK, NEW e \in Ends, NEW t, NEW q, Became(e, t, q), QueuesOK(q, sk, written),
         QueuesOK(backlog', sk, written), OnlyFor(e, call, call'), written' = written, got' = got,
         NEW y, y = ViewFrom(e, sk, written), sk[e].write_seq = 0,
         Used(t, y), InLine(t), t.copied_seq \in {0, 1}, t.rcv_nxt >= 0,
         e = Passive => Past(sk[Active])
  PROVE  ConnectionOK' /\ AllHold
<1> DEFINE w == written[e]
           b == sk[e].write_seq = 2 + w
           x == got[e]
           r == sk[Peer(e)]
           v == written[Peer(e)]
<1>1. /\ y = ViewOf(e, w, b, r, v) /\ Says(y, e, w, b, r, v)
      /\ EndOK(e, sk[e], call[e], w, x, y) /\ w \in Nat /\ v \in Nat /\ r.rcv_nxt \in Int
      /\ DOMAIN written = Ends /\ DOMAIN got = Ends
  BY EndAt
<1>2. w = 0 /\ x = <<>> /\ ~b /\ sk[e].rcv_nxt = 0 /\ sk[e].state \in {"CLOSE", "LISTEN"}
  <2>1. w = 0 /\ x = <<>>
    BY <1>1 DEF EndOK
  <2>2. Listens(sk[e]) \/ sk[e] = NewSock
    BY <1>1, EndTypes
  <2> QED BY <2>1, <2>2, NewSockFacts DEF Listens
<1>3. OnlyFor(e, written, written') /\ w = written'[e] /\ OnlyFor(e, got, got') /\ got'[e] = x
  BY <1>1 DEF OnlyFor
<1>4. t.write_seq > 0 /\ Counted(t, y)
  BY UsedTypes DEF Used, Shut, Runs
<1>5. b \in BOOLEAN
  OBVIOUS
<1> HIDE DEF b, r, v
<1>6. (t.write_seq = 2 + w) = b /\ y = ViewOf(e, w, t.write_seq = 2 + w, r, v)
  BY <1>1, <1>4, <1>5, CountedFin
<1>7. HasRead(t, call'[e], x, y)
  <2>1. Len(x) = 0 /\ IsSeq(x) /\ InOrder(x, 1)
    BY <1>2, EmptyFacts DEF InOrder
  <2>2. y.theirs \in Nat \ {0}
    BY <1>1 DEF Says, ViewOK
  <2>3. Place(t, y) = 0
    BY <2>2 DEF Place, Larger, Smaller
  <2> QED BY <2>1, <2>2, <2>3 DEF HasRead
<1>8. EndOK(e, t, call'[e], w, got'[e], y)
  BY <1>1, <1>3, <1>4, <1>7 DEF EndOK, Occupied
<1>9. Onward(sk[e], t, written[e], w)
  <2>1. ~Past(sk[e])
    BY DEF Past
  <2> QED BY <1>2, <2>1 DEF Onward, b
<1>10. Holds(sk[e], t)
  BY <1>2 DEF Holds
<1>11. EndOK(e, t, call'[e], w, got'[e],
             ViewOf(e, w, t.write_seq = 2 + w, sk[Peer(e)], written[Peer(e)]))
  BY <1>6, <1>8 DEF r, v
<1> HIDE DEF w
<1> QED BY <1>3, <1>4, <1>9, <1>10, <1>11, BecameOK

(* The user connects. *)
LEMMA ConnectOK ==
  ASSUME ConnectionOK, Connect
  PROVE  ConnectionOK' /\ AllHold
<1> DEFINE e == Active
           t == atcp_connect(sk[e])
           y == ViewFrom(e, sk, written)
           w == written[e]
           b == sk[e].write_seq = 2 + w
           r == sk[Peer(e)]
           v == written[Peer(e)]
<1>1. e \in Ends /\ e # Passive
  BY EndsFacts
<1>2. /\ sk[e].state = "CLOSE" /\ sk[e].write_seq = 0 /\ Calls(e, "connect", t)
      /\ written' = written /\ got' = got
  BY DEF Connect
<1>3. /\ Became(e, t, net) /\ OnlyFor(e, call, call')
      /\ QueuesOK(net, sk, written) /\ QueuesOK(backlog', sk, written)
  BY <1>1, <1>2, CallsFacts
<1>4. sk[e] = NewSock
  <2>1. Listens(sk[e]) \/ sk[e] = NewSock
    BY <1>1, <1>2, InUse
  <2> QED BY <2>1, <1>2 DEF Listens
<1>5. Says(y, e, w, b, r, v) /\ EndOK(e, sk[e], call[e], w, got[e], y)
  BY <1>1, EndAt
<1>6. w = 0 /\ ~b
  BY <1>2, <1>5 DEF EndOK
<1> HIDE DEF y, b, w, r, v
<1>7. ViewOK(y) /\ y.calls /\ y.last = 1 /\ ~y.fin
  <2>1. ViewOK(y) /\ y.calls = (e = Active) /\ y.last = 1 + w /\ y.fin = b
    BY <1>5 DEF Says
  <2>2. y.calls
    BY <2>1, Zenon
  <2>3. y.last = 1
    BY <1>6, <2>1
  <2>4. ~y.fin
    BY <1>6, <2>1, Zenon
  <2> QED BY <2>1, <2>2, <2>3, <2>4
<1>8. Runs(t, y) /\ InLine(t) /\ t.copied_seq = 0 /\ t.rcv_nxt = 0
  BY <1>4, <1>7, ConnectRuns
<1> HIDE DEF t, e
<1>9. Used(t, y) /\ t.copied_seq \in {0, 1} /\ t.rcv_nxt >= 0 /\ (e = Passive => Past(sk[Active]))
  BY <1>1, <1>8 DEF Used
<1> QED BY <1>1, <1>2, <1>3, <1>8, <1>9, FirstOK DEF y

(* A socket is gone, or stays so.                                          *)
LEMMA GoneOK ==
  ASSUME ConnectionOK, NEW e \in Ends, NEW t, NEW q, Became(e, t, q), QueuesOK(q, sk, written),
         call' = call, backlog' = backlog, written' = written, got' = got, call[e] = "none",
         NEW y, y = ViewFrom(e, sk, written), sk[e].write_seq > 0, Gone(t, y),
         t.rcv_nxt = sk[e].rcv_nxt
  PROVE  ConnectionOK' /\ AllHold
<1> DEFINE w == written[e]
           b == sk[e].write_seq = 2 + w
           x == got[e]
           r == sk[Peer(e)]
           v == written[Peer(e)]
<1>1. /\ y = ViewOf(e, w, b, r, v) /\ Says(y, e, w, b, r, v)
      /\ EndOK(e, sk[e], call[e], w, x, y) /\ w \in Nat /\ v \in Nat /\ r.rcv_nxt \in Int
      /\ DOMAIN written = Ends /\ DOMAIN got = Ends /\ DOMAIN call = Ends
      /\ QueuesOK(backlog, sk, written) /\ sk[e].rcv_nxt \in Int
  BY EndAt
<1>2. /\ OnlyFor(e, written, written') /\ w = written'[e] /\ OnlyFor(e, got, got') /\ got'[e] = x
      /\ OnlyFor(e, call, call')
  BY <1>1 DEF OnlyFor
<1>3. b \in BOOLEAN
  OBVIOUS
<1>4. Counted(t, y) /\ t.dead /\ t.state = "GONE"
  BY DEF Gone
<1> HIDE DEF b, r, v
<1>5. (t.write_seq = 2 + w) = b /\ y = ViewOf(e, w, t.write_seq = 2 + w, r, v)
      /\ t.write_seq > 0 /\ t.write_seq \in Nat
  BY <1>1, <1>3, <1>4, CountedFin
<1>6. HasRead(t, call'[e], x, y)
  BY <1>1, <1>4 DEF EndOK, HasRead, Reading
<1>7. EndOK(e, t, call'[e], w, got'[e], y)
  BY <1>1, <1>2, <1>5, <1>6 DEF EndOK, Occupied
<1>8. Onward(sk[e], t, written[e], w)
  <2>1. Past(t)
    BY <1>4, <1>5 DEF Past
  <2>2. t.rcv_nxt >= sk[e].rcv_nxt /\ w <= w
    BY <1>1
  <2> QED BY <1>5, <2>1, <2>2 DEF Onward, b
<1>9. Holds(sk[e], t)
  BY <1>4 DEF Holds
<1>10. EndOK(e, t, call'[e], w, got'[e],
             ViewOf(e, w, t.write_seq = 2 + w, sk[Peer(e)], written[Peer(e)]))
  BY <1>5, <1>7 DEF r, v
<1>11. e = Passive /\ t.write_seq > 0 => Past(sk[Active])
  BY DEF ConnectionOK, Sockets
<1> HIDE DEF w
<1> QED BY <1>1, <1>2, <1>5, <1>8, <1>9, <1>10, <1>11, BecameOK

(* A FIN that does not come in order is no earlier than the first byte, so *)
(* a segment comes to a socket that has received nothing, too.             *)
LEMMA ComesLess ==
  ASSUME NEW g, NEW m \in Int, NEW y, ViewOK(y), Comes(g, Larger(1, m), y)
  PROVE  Comes(g, m, y)
<1> DEFINE d == Len(g.data)
           q == g.seq
           h == y.theirs
<1>1. h \in Nat \ {0} /\ d \in Nat /\ q \in Int
  BY SeqFacts DEF Comes, SegmentTypes, ViewOK
<1>2. g.fin => y.ended /\ 1 <= q /\ (q + d = h \/ (q + d < h /\ h <= Larger(1, m)))
  BY DEF Comes
<1> HIDE DEF d, q, h
<1>3. 1 <= q /\ q + d < h /\ h <= Larger(1, m) => h <= m
  BY <1>1 DEF Larger
<1>4. g.fin => y.ended /\ 1 <= q /\ (q + d = h \/ (q + d < h /\ h <= m))
  BY <1>2, <1>3
<1> QED BY <1>4 DEF Comes, d, q, h

(* A segment in a queue of the end comes to its socket. *)
LEMMA ArrivesComes ==
  ASSUME NEW g, NEW s, NEW y, NEW r, Arrives(g, s, y, r), ViewOK(y), s.rcv_nxt \in Int,
         NEW n \in Int, s.rcv_nxt <= n
  PROVE  Comes(g, n, y)
<1>1. Comes(g, s.rcv_nxt, y)
  BY ComesLess DEF Arrives
<1> QED BY <1>1, ComesMore

(***************************************************************************)
(* release_sock: the backlog is a loop of segments.                        *)
(***************************************************************************)
RcvTurn(q, i, x) == DoRcv(x, q[i])
RcvRel(p, i, x) == Steady(p.s, x, p.y)
Backlog == INSTANCE Iteration WITH Step <- RcvTurn, Rel <- RcvRel

(* The segments of the back log, one after the other, are a step: by       *)
(* induction over the loop.                                                *)
LEMMA BacklogStep ==
  ASSUME NEW s, NEW y, Used(s, y), NEW q, NEW r, QueueFor(q, s, y, r)
  PROVE  Steady(s, ForEach(s, q, DoRcv), y)
<1> DEFINE n == Len(q)
           res == Backlog!Result(q, s, n)
           p == [s |-> s, y |-> y]
<1>1. ForEach(s, q, DoRcv) = res
  BY DEF ForEach, Backlog!Result, RcvTurn
<1>2. p.s = s /\ p.y = y /\ n \in Nat
  BY SeqFacts DEF QueueFor
<1> HIDE DEF p, n
<1>3. RcvRel(p, 0, s)
  BY <1>2, SteadyRefl DEF RcvRel
<1>4. ASSUME NEW i \in 1..n, NEW w, RcvRel(p, i - 1, w)
      PROVE  RcvRel(p, i, RcvTurn(q, i, w))
  <2> DEFINE g == q[i]
  <2>1. Steady(s, w, y) /\ Used(w, y) /\ w.rcv_nxt >= s.rcv_nxt
    BY <1>2, <1>4 DEF RcvRel, Steady, Step
  <2>2. s.rcv_nxt \in Int /\ w.rcv_nxt \in Int /\ ViewOK(y)
    BY <2>1, UsedTypes
  <2>3. Arrives(g, s, y, r)
    BY DEF QueueFor, n
  <2> HIDE DEF g
  <2>4. Comes(g, w.rcv_nxt, y)
    <3>1. s.rcv_nxt <= w.rcv_nxt
      BY <2>1, <2>2
    <3> QED BY <2>2, <2>3, <3>1, ArrivesComes
  <2>5. w.state = "SYN_SENT" => Reply(g)
    BY <2>1, <2>3 DEF Used, Shut, Runs, Arrives
  <2>6. Steady(w, DoRcv(w, g), y)
    BY <2>1, <2>4, <2>5, DoRcvStep
  <2>7. Steady(s, DoRcv(w, g), y)
    BY <2>1, <2>6, SteadyTrans
  <2> QED BY <1>2, <2>7 DEF RcvRel, RcvTurn, g
<1>5. RcvRel(p, n, res)
  BY <1>2, <1>3, <1>4, Backlog!AfterTurns
<1> QED BY <1>1, <1>2, <1>5 DEF RcvRel

(* release_sock. *)
LEMMA ReleaseOK ==
  ASSUME ConnectionOK, NEW e \in Ends, release_sock(e)
  PROVE  ConnectionOK' /\ AllHold
<1> DEFINE s == sk[e]
           q == backlog[e]
           u == ForEach(s, q, DoRcv)
           d == u.dead \/ call[e] = "close"
           t == [u EXCEPT !.dead = d]
           none == <<>>
           w == written[e]
           b == s.write_seq = 2 + w
           y == ViewFrom(e, sk, written)
           r == sk[Peer(e)]
           v == written[Peer(e)]
           x == got[e]
<1>1. /\ Locked(e) /\ Became(e, t, net) /\ call' = [call EXCEPT ![e] = "none"]
      /\ backlog' = [backlog EXCEPT ![e] = none] /\ written' = written /\ got' = got
  BY DEF release_sock
<1>2. /\ y = ViewOf(e, w, b, r, v) /\ Says(y, e, w, b, r, v)
      /\ EndOK(e, s, call[e], w, x, y) /\ w \in Nat /\ QueueFor(q, s, y, r)
      /\ DOMAIN written = Ends /\ DOMAIN got = Ends /\ DOMAIN call = Ends
      /\ QueuesOK(net, sk, written) /\ QueuesOK(backlog, sk, written)
  BY EndAt
<1>3. Used(s, y)
  BY <1>1, InUse
<1> HIDE DEF q, y, b, r, v, s
<1>4. Steady(s, u, y) /\ Used(u, y)
  BY <1>2, <1>3, BacklogStep DEF Steady, Step
<1> HIDE DEF u, d
<1>5. /\ Used(t, y) /\ Edge(u, t) /\ Line(u, t) /\ t.rcv_nxt = u.rcv_nxt
      /\ t.state = u.state /\ t.dead = d /\ t.copied_seq = u.copied_seq
  BY <1>4, DeadStep
<1> HIDE DEF t
<1>6. Moved(s, t, y)
  <2>1. /\ (u.state # "CLOSE" => s.state # "CLOSE" /\ Edge(s, u)) /\ u.rcv_nxt >= s.rcv_nxt
        /\ (u.state = "SYN_SENT" => s.state = "SYN_SENT")
    BY <1>4 DEF Steady, Step
  <2>2. /\ s.rcv_wup \in Int /\ s.rcv_wnd \in Int /\ u.rcv_wup \in Int /\ u.rcv_wnd \in Int
        /\ t.rcv_wup \in Int /\ t.rcv_wnd \in Int
    BY <1>3, <1>4, <1>5, UsedTypes
  <2>3. Edge(s, u) => Edge(s, t)
    BY <1>5, <2>2 DEF Edge
  <2> QED BY <1>5, <2>1, <2>3 DEF Moved
<1>7. Line(s, t)
  BY <1>4, <1>5 DEF Steady, Line
<1>8. HasRead(t, "none", x, y)
  <2>1. HasRead(s, call[e], x, y)
    BY <1>2 DEF EndOK
  <2>2. Reading(t, "none") => Reading(s, call[e])
    <3>1. u.dead = s.dead /\ s.write_seq > 0
      BY <1>3, <1>4, UsedTypes DEF Steady, Step
    <3> QED BY <1>5, <3>1 DEF Reading, d
  <2> QED BY <1>3, <1>7, <2>1, <2>2, SteadyRead
<1>9. QueuesOK(backlog', sk, written)
  <2>1. QueueFor(none, sk[e], ViewFrom(e, sk, written), sk[Peer(e)])
    BY QueueOfOne
  <2> HIDE DEF none
  <2> QED BY <1>1, <1>2, <2>1, QueuesExcept
<1>10. /\ OnlyFor(e, call, call') /\ call'[e] = "none" /\ OnlyFor(e, written, written')
       /\ OnlyFor(e, got, got') /\ w = written'[e] /\ got'[e] = x
  BY <1>1, <1>2 DEF OnlyFor
<1>11. b \in BOOLEAN /\ written[e] <= w /\ (y.fin => b /\ w = written[e])
  <2>1. b \in BOOLEAN
    BY DEF b
  <2>2. y.fin = b
    BY <1>2 DEF Says
  <2>3. w <= w
    BY <1>2
  <2> QED BY <2>1, <2>2, <2>3
<1>12. HasRead(t, call'[e], got'[e], y)
  BY <1>8, <1>10
<1> HIDE DEF w, x, none
<1> QED BY <1>1, <1>2, <1>3, <1>6, <1>9, <1>10, <1>11, <1>12, MovedOK DEF s, y, r, v

(***************************************************************************)
(* The arrival of a segment.                                               *)
(***************************************************************************)
(* What a TIME-WAIT bucket answers acknowledges what was received. *)
LEMMA TimeWaitAnswer ==
  ASSUME NEW w, w.rcv_nxt \in Int, w.snd_nxt \in Int, NEW g, SegmentTypes(g), NEW y, y.up,
         NEW n, w.rcv_nxt <= n
  PROVE  LET a == atcp_timewait_state_process(w, g).answer IN SegmentsOK(a, y) /\ AllAck(a, n)
<1> DEFINE a == atcp_timewait_state_process(w, g).answer
           one == w.snd_nxt
           two == w.rcv_nxt
           yes == TRUE
           no == FALSE
           b == <<Bare(one, yes, no, two)>>
<1>1. a = <<>> \/ a = atcp_v4_send_reset(g) \/ a = b
  BY DEF atcp_timewait_state_process, atcp_v4_send_ack
<1>2. one \in Int /\ two \in Int /\ two <= n /\ yes
  OBVIOUS
<1> HIDE DEF a, one, two, yes, no
<1>3. SegmentsOK(b, y) /\ AllAck(b, n)
  BY <1>2, BareFacts
<1>4. SegmentsOK(a, y) /\ AllAck(a, n)
  BY <1>1, <1>3, SendResetFacts, NoSegments
<1> QED BY <1>4 DEF a

(* A socket with a TIME-WAIT bucket sends, and changes no more than that.  *)
LEMMA BucketChanges ==
  ASSUME ConnectionOK, NEW e \in Ends, NEW t, NEW q, Became(e, t, q), QueuesOK(q, sk, written),
         call' = call, backlog' = backlog, written' = written, got' = got,
         NEW y, y = ViewFrom(e, sk, written), sk[e].tw # <<>>,
         Record(t), SameQueue(sk[e], t), SameQueues(sk[e], t), SameOffer(sk[e], t),
         t.state = sk[e].state, t.zapped = sk[e].zapped, t.timers = sk[e].timers,
         t.dead = sk[e].dead, t.msl = sk[e].msl, t.delayed_acks = sk[e].delayed_acks,
         SegmentsOK(t.out, ViewAt(sk[e], y)), AllAck(t.out, t.rcv_nxt)
  PROVE  ConnectionOK' /\ AllHold
<1> DEFINE s == sk[e]
           v == ViewAt(s, y)
<1>1. /\ EndOK(e, s, call[e], written[e], got[e], y) /\ DOMAIN call = Ends
      /\ QueuesOK(backlog, sk, written)
  BY EndAt
<1>2. /\ SameQueue(s, t) /\ SameQueues(s, t) /\ SameOffer(s, t) /\ Record(t)
      /\ t.state = s.state /\ t.zapped = s.zapped /\ t.timers = s.timers
      /\ t.dead = s.dead /\ t.msl = s.msl /\ t.delayed_acks = s.delayed_acks
      /\ SegmentsOK(t.out, v) /\ AllAck(t.out, t.rcv_nxt)
  OBVIOUS
<1>3. Used(s, y) \/ (Gone(s, y) /\ call[e] = "none")
  BY <1>1, NewSockFacts DEF EndOK, Occupied, Listens
<1>4. OnlyFor(e, call, call') /\ QueuesOK(backlog', sk, written)
  BY <1>1 DEF OnlyFor
<1>5. CASE Used(s, y)
  <2> HIDE DEF s, v
  <2>1. Steady(s, t, y)
    BY <1>2, <1>5, OutsideStep DEF v
  <2>2. Reading(t, call'[e]) => Reading(s, call[e])
    BY <1>2 DEF Reading, SameQueue
  <2> QED BY <1>4, <1>5, <2>1, <2>2, SteadyOK DEF s
<1>6. CASE Gone(s, y) /\ call[e] = "none"
  <2>1. Open(s, v) /\ Record(s) /\ ReceiverOK(s) /\ Come(s, v)
    BY <1>6 DEF Gone, Open
  <2>2. ViewAt(t, y) = v
    BY <1>2 DEF ViewAt
  <2> HIDE DEF v
  <2>3. /\ t.rcv_wup = s.rcv_wup /\ t.rcv_wnd = s.rcv_wnd /\ t.rcv_nxt = s.rcv_nxt
        /\ t.rq = s.rq /\ t.ofo = s.ofo /\ t.sacks = s.sacks /\ t.in_hand = s.in_hand
        /\ t.tw = s.tw \/ (BucketOK(t.tw) /\ BucketAcks(t.tw, t.rcv_nxt))
        /\ t.write_seq = s.write_seq /\ t.state = s.state /\ t.delayed_acks = s.delayed_acks
    BY <1>2 DEF SameOffer, SameQueues, SameQueue
  <2>4. ReceiverOK(t)
    BY <2>1, <2>3 DEF ReceiverOK
  <2>5. BucketAcks(t.tw, t.rcv_nxt)
    BY <2>1, <2>3 DEF Come
  <2>6. Come(t, v)
    BY <1>2, <2>1, <2>3, <2>5 DEF Come
  <2>7. Open(t, v)
    BY <1>2, <2>4, <2>6 DEF Open
  <2>8. Gone(t, y)
    BY <1>2, <1>6, <2>2, <2>3, <2>7 DEF Gone, Counted, Writing
  <2>9. s.write_seq > 0
    BY <1>1, <1>6, EndTypes
  <2>10. t.rcv_nxt = sk[e].rcv_nxt /\ sk[e].write_seq > 0 /\ call[e] = "none"
    BY <1>6, <2>3, <2>9
  <2> HIDE DEF s
  <2> QED BY <2>8, <2>10, GoneOK
<1> QED BY <1>3, <1>5, <1>6

(* A socket with a bucket is past SYN_SENT, and has received as much as    *)
(* the bucket acknowledges.                                                *)
LEMMA BucketFacts ==
  ASSUME ConnectionOK, NEW e \in Ends, NEW y, y = ViewFrom(e, sk, written), sk[e].tw # <<>>
  PROVE  /\ Record(sk[e]) /\ BucketOK(sk[e].tw) /\ ViewAt(sk[e], y).up
         /\ sk[e].tw[1].rcv_nxt \in Int /\ sk[e].tw[1].snd_nxt \in Int
         /\ sk[e].tw[1].rcv_nxt <= sk[e].rcv_nxt
         /\ sk[e].out = <<>>
<1> DEFINE s == sk[e]
           v == ViewAt(s, y)
<1>1. EndOK(e, s, call[e], written[e], got[e], y) /\ s.out = <<>>
  BY EndAt
<1>2. Used(s, y) \/ Gone(s, y)
  BY <1>1, NewSockFacts DEF EndOK, Occupied, Listens
<1>3. Open(s, v)
  BY <1>2, UsedTypes DEF Gone
<1>4. v.up = (s.state # "SYN_SENT")
  BY WithFacts DEF ViewAt
<1> HIDE DEF v
<1>5. /\ Record(s) /\ BucketOK(s.tw) /\ BucketAcks(s.tw, s.rcv_nxt)
      /\ s.state = "SYN_SENT" => s.rcv_nxt = 0
  BY <1>3 DEF Open, ReceiverOK, Come
<1>6. s.state # "SYN_SENT"
  BY <1>5 DEF BucketAcks
<1> QED BY <1>1, <1>4, <1>5, <1>6 DEF BucketOK, BucketAcks, v

(* A segment for a TIME-WAIT bucket. *)
LEMMA TimeWaitRcvOK ==
  ASSUME ConnectionOK, NEW e \in Ends, NEW g, SegmentTypes(g), NEW q, QueuesOK(q, sk, written),
         sk[e].tw # <<>>, TimeWaitRcv(e, g, q), call' = call, backlog' = backlog,
         written' = written, got' = got
  PROVE  ConnectionOK' /\ AllHold
<1> DEFINE s == sk[e]
           y == ViewFrom(e, sk, written)
           v == ViewAt(s, y)
           a == atcp_timewait_state_process(s.tw[1], g).answer
           k == atcp_timewait_state_process(s.tw[1], g).killed
           tw == IF k THEN <<>> ELSE s.tw
           t == [s EXCEPT !.out = a, !.tw = tw]
<1>1. Became(e, t, q)
  BY DEF TimeWaitRcv
<1>2. /\ Record(s) /\ BucketOK(s.tw) /\ v.up
      /\ s.tw[1].rcv_nxt \in Int /\ s.tw[1].snd_nxt \in Int
      /\ s.tw[1].rcv_nxt <= s.rcv_nxt
  BY BucketFacts
<1>3. tw = s.tw \/ (BucketOK(tw) /\ BucketAcks(tw, s.rcv_nxt))
  BY DEF BucketOK, BucketAcks
<1> HIDE DEF v, y
<1>4. SegmentsOK(a, v) /\ AllAck(a, s.rcv_nxt)
  <2> DEFINE w == s.tw[1]
             n == s.rcv_nxt
  <2>1. w.rcv_nxt \in Int /\ w.snd_nxt \in Int /\ w.rcv_nxt <= n
    BY <1>2
  <2> HIDE DEF w, n
  <2>2. LET b == atcp_timewait_state_process(w, g).answer IN SegmentsOK(b, v) /\ AllAck(b, n)
    BY <1>2, <2>1, TimeWaitAnswer
  <2> QED BY <2>2 DEF w, n
<1> HIDE DEF a, tw, s
<1>5. /\ Record(t) /\ SameQueue(s, t) /\ SameQueues(s, t)
      /\ t.state = s.state /\ t.zapped = s.zapped /\ t.timers = s.timers /\ t.out = a
      /\ t.dead = s.dead /\ t.msl = s.msl /\ t.tw = tw /\ t.delayed_acks = s.delayed_acks
      /\ t.rcv_wup = s.rcv_wup /\ t.rcv_wnd = s.rcv_wnd /\ t.rcv_nxt = s.rcv_nxt
  BY <1>2, ZenonT(60) DEF Record, Fields, SameQueue, SameQueues
<1> HIDE DEF t
<1>6. SameOffer(s, t) /\ SegmentsOK(t.out, v) /\ AllAck(t.out, t.rcv_nxt)
  BY <1>3, <1>4, <1>5 DEF SameOffer
<1>7. Became(e, t, q) /\ sk[e].tw # <<>>
  BY <1>1 DEF t, s
<1> QED BY <1>5, <1>6, <1>7, BucketChanges DEF s, y, v

(* A reset is one any socket may get: it says nothing of either stream.    *)
LEMMA BareArrives ==
  ASSUME NEW seq \in Int, NEW ack, NEW ack_seq \in Int, NEW s, NEW y, NEW r
  PROVE  Arrives(Bare(seq, ack, TRUE, ack_seq), s, y, r)
<1> DEFINE b == Bare(seq, ack, TRUE, ack_seq)
<1>1. /\ b.seq = seq /\ b.data = <<>> /\ b.ack_seq = ack_seq /\ b.window = 0
      /\ b.sacks = <<>> /\ b.syn = FALSE /\ b.fin = FALSE /\ b.ack = ack /\ b.rst = TRUE
  BY DEF Bare
<1> HIDE DEF b
<1>2. SegmentTypes(b)
  BY <1>1, EmptyFacts DEF SegmentTypes
<1>3. InOrder(b.data, b.seq)
  BY <1>1, EmptyFacts DEF InOrder
<1>4. \A n : Comes(b, n, y)
  BY Zenon, <1>1, <1>2, <1>3 DEF Comes
<1>5. Arrives(b, s, y, r)
  BY Zenon, <1>1, <1>4 DEF Arrives, Reply
<1> QED BY <1>5 DEF b

(* So is what atcp_v4_send_reset sends. *)
LEMMA ResetArrives ==
  ASSUME NEW g, SegmentTypes(g), NEW s, NEW y, NEW r
  PROVE  QueueFor(atcp_v4_send_reset(g), s, y, r)
<1> DEFINE zero == 0
           after == g.seq + Flag(g.syn)
           no == FALSE
           yes == TRUE
           ack == g.ack_seq
           one == Bare(ack, no, TRUE, zero)
           two == Bare(zero, yes, TRUE, after)
<1>1. \/ atcp_v4_send_reset(g) = <<>>
      \/ atcp_v4_send_reset(g) = <<one>>
      \/ atcp_v4_send_reset(g) = <<two>>
  BY DEF atcp_v4_send_reset
<1>2. zero \in Int /\ after \in Int /\ ack \in Int
  BY DEF SegmentTypes, Flag
<1> HIDE DEF zero, after, no, yes, ack
<1>3. Arrives(one, s, y, r) /\ Arrives(two, s, y, r)
  BY <1>2, BareArrives
<1> HIDE DEF one, two
<1> QED BY <1>1, <1>3, QueueOfOne

(* A segment that is answered with a reset. *)
LEMMA RefusedOK ==
  ASSUME ConnectionOK, NEW e \in Ends, NEW g, SegmentTypes(g), NEW q, QueuesOK(q, sk, written),
         Sends(e, atcp_v4_send_reset(g), q), UNCHANGED <<call, written, got>>,
         QueuesOK(backlog', sk, written)
  PROVE  ConnectionOK' /\ AllHold
<1> DEFINE o == atcp_v4_send_reset(g)
<1>1. QueueFor(o, sk[Peer(e)], ViewFrom(Peer(e), sk, written), sk[e])
  BY ResetArrives
<1>2. Sends(e, o, q)
  OBVIOUS
<1> HIDE DEF o
<1> QED BY <1>1, <1>2, SendsOK

(* A segment that is dropped or kept for later. *)
LEMMA NothingSentOK ==
  ASSUME ConnectionOK, NEW e \in Ends, NEW q, QueuesOK(q, sk, written),
         Sends(e, <<>>, q), UNCHANGED <<call, written, got>>, QueuesOK(backlog', sk, written)
  PROVE  ConnectionOK' /\ AllHold
<1> DEFINE o == <<>>
<1>1. QueueFor(o, sk[Peer(e)], ViewFrom(Peer(e), sk, written), sk[e]) /\ Sends(e, o, q)
  BY QueueOfOne
<1> HIDE DEF o
<1> QED BY <1>1, SendsOK

(* A SYN-ACK is sent: the end that connects may get it. *)
LEMMA SynAckOK ==
  ASSUME ConnectionOK, NEW q, QueuesOK(q, sk, written), Sends(Passive, <<SynAck>>, q),
         UNCHANGED <<call, written, got>>, QueuesOK(backlog', sk, written)
  PROVE  ConnectionOK' /\ AllHold
<1> DEFINE b == SynAck
           o == <<b>>
           e == Passive
           p == Peer(e)
           y == ViewFrom(p, sk, written)
<1>1. e \in Ends /\ p \in Ends /\ p = Active
  BY EndsFacts
<1>2. Says(y, p, written[p], sk[p].write_seq = 2 + written[p], sk[Peer(p)], written[Peer(p)])
  BY <1>1, EndAt
<1>3. y.calls /\ 1 <= y.seen
  <2> HIDE DEF y
  <2>1. y.calls = (p = Active)
    BY <1>2 DEF Says
  <2> QED BY <1>1, <1>2, <2>1 DEF Says
<1>4. /\ b.seq = 0 /\ b.data = <<>> /\ b.ack_seq = 1 /\ b.window = atcp_select_initial_window
      /\ b.sacks = <<>> /\ b.syn = TRUE /\ b.ack = TRUE /\ b.fin = FALSE /\ b.rst = FALSE
  BY DEF SynAck
<1> HIDE DEF b, y
<1>5. SegmentTypes(b)
  BY <1>4, EmptyFacts, InitialWindowType DEF SegmentTypes
<1>6. InOrder(b.data, b.seq)
  BY <1>4, EmptyFacts DEF InOrder
<1>7. \A n : Comes(b, n, y)
  BY <1>3, <1>4, <1>5, <1>6 DEF Comes
<1>8. Arrives(b, sk[p], y, sk[e])
  BY <1>3, <1>4, <1>7 DEF Arrives, Reply
<1>9. QueueFor(o, sk[p], y, sk[e])
  BY <1>8, QueueOfOne
<1>10. Sends(e, o, q)
  BY DEF b
<1> HIDE DEF o, e
<1> QED BY <1>1, <1>9, <1>10, SendsOK DEF y

(* A segment for the listener.  One that makes a connection acknowledges   *)
(* the SYN-ACK, so the end that connects has had that.                     *)
LEMMA HndReqOK ==
  ASSUME ConnectionOK, sk[Passive].state = "LISTEN",
         NEW y, y = ViewFrom(Passive, sk, written), NEW g, Arrives(g, sk[Passive], y, sk[Active]),
         NEW q, QueuesOK(q, sk, written), atcp_v4_hnd_req(g, q),
         call' = call, backlog' = backlog, written' = written, got' = got
  PROVE  ConnectionOK' /\ AllHold
<1> DEFINE e == Passive
           r == sk[Active]
           c == skb_set_owner_r(atcp_create_openreq_child(g), g)
           t == Answered(atcp_rcv_state_process(c, g), g)
<1>0. SegmentTypes(g) /\ (g.syn => ~g.fin)
  BY DEF Arrives, Comes
<1>1. \/ Sends(e, <<>>, q)
      \/ Sends(e, atcp_v4_send_reset(g), q)
      \/ Sends(e, <<SynAck>>, q)
      \/ Became(e, t, q) /\ g.ack /\ ~g.rst
  BY <1>0, Zenon DEF atcp_v4_hnd_req, atcp_check_req, atcp_conn_request
<1>2. e \in Ends /\ Peer(e) = Active /\ e # Active
  BY EndsFacts
<1>3. /\ Says(y, e, written[e], sk[e].write_seq = 2 + written[e], r, written[Peer(e)])
      /\ EndOK(e, sk[e], call[e], written[e], got[e], y)
      /\ QueuesOK(backlog, sk, written) /\ DOMAIN call = Ends
  BY <1>2, EndAt
<1>4. OnlyFor(e, call, call') /\ QueuesOK(backlog', sk, written)
  BY <1>3 DEF OnlyFor
<1>5. CASE Became(e, t, q) /\ g.ack /\ ~g.rst
  <2>1. Listens(sk[e])
    BY <1>2, <1>3, UsedTypes, NewSockFacts DEF EndOK, Occupied, Gone, Running
  <2>2. sk[e].write_seq = 0 /\ sk[e].rcv_nxt = 0 /\ written[e] = 0
    BY <1>3, <2>1 DEF Listens, EndOK
  <2>3. ~y.calls /\ ViewOK(y) /\ y.last = 1 /\ ~y.fin /\ 1 <= y.seen
    <3>1. y.calls = (e = Active) /\ y.fin = (sk[e].write_seq = 2 + written[e])
      BY <1>3 DEF Says
    <3>2. ~(0 = 2 + 0) /\ 1 + 0 = 1
      OBVIOUS
    <3> QED BY <1>2, <1>3, <2>2, <3>1, <3>2 DEF Says
  <2>4. Past(r)
    BY <1>5, <2>3 DEF Arrives
  <2>5. Comes(g, 1, y)
    <3> DEFINE one == 1
    <3>1. one \in Int /\ sk[e].rcv_nxt \in Int /\ sk[e].rcv_nxt <= one
      BY <2>2
    <3> HIDE DEF one
    <3>2. Comes(g, one, y)
      BY <2>3, <3>1, ArrivesComes
    <3> QED BY <3>2 DEF one
  <2>6. Used(t, y) /\ InLine(t) /\ t.copied_seq = 1 /\ t.rcv_nxt >= 1
    BY <1>0, <2>3, <2>5, ChildStep
  <2> HIDE DEF t, e
  <2>7. t.rcv_nxt >= 0 /\ t.copied_seq \in {0, 1}
    <3>1. t.rcv_nxt \in Int
      BY <2>6, UsedTypes
    <3> QED BY <2>6, <3>1
  <2>8. Became(e, t, q) /\ y = ViewFrom(e, sk, written)
    BY <1>5 DEF e
  <2> QED BY <1>2, <1>4, <2>2, <2>4, <2>6, <2>7, <2>8, FirstOK
<1> HIDE DEF t
<1>6. UNCHANGED <<call, written, got>>
  OBVIOUS
<1> QED BY <1>0, <1>1, <1>2, <1>4, <1>5, <1>6, RefusedOK, NothingSentOK, SynAckOK

(* A segment for a socket in use that no call holds. *)
LEMMA DoRcvOK ==
  ASSUME ConnectionOK, NEW e \in Ends, NEW y, y = ViewFrom(e, sk, written), Used(sk[e], y),
         NEW g, Arrives(g, sk[e], y, sk[Peer(e)]), NEW q, QueuesOK(q, sk, written),
         Became(e, DoRcv(sk[e], g), q),
         call' = call, backlog' = backlog, written' = written, got' = got
  PROVE  ConnectionOK' /\ AllHold
<1> DEFINE s == sk[e]
           t == DoRcv(s, g)
           n == s.rcv_nxt
<1>1. /\ QueuesOK(backlog, sk, written) /\ DOMAIN call = Ends
  BY EndAt
<1>2. ViewOK(y) /\ n \in Int /\ n <= n
  BY UsedTypes
<1>3. Comes(g, n, y)
  <2> HIDE DEF n
  <2>1. s.rcv_nxt \in Int /\ s.rcv_nxt <= n
    BY <1>2 DEF n
  <2> QED BY <1>2, <2>1, ArrivesComes
<1>4. s.state = "SYN_SENT" => Reply(g)
  BY DEF Arrives, Used, Shut, Runs
<1>5. Steady(s, t, y)
  BY <1>3, <1>4, DoRcvStep
<1>6. t.dead = s.dead /\ s.write_seq > 0 /\ Became(e, t, q)
  BY <1>5, UsedTypes DEF Steady, Step
<1> HIDE DEF t
<1>7. Reading(t, call'[e]) => Reading(sk[e], call[e])
  BY <1>6 DEF Reading
<1>8. OnlyFor(e, call, call') /\ QueuesOK(backlog', sk, written)
  BY <1>1 DEF OnlyFor
<1> QED BY <1>5, <1>6, <1>7, <1>8, SteadyOK

(* atcp_v4_rcv, whatever the socket's state, and whether a call holds it. *)
LEMMA RcvOK ==
  ASSUME ConnectionOK, NEW e \in Ends, NEW y, y = ViewFrom(e, sk, written),
         NEW g, Arrives(g, sk[e], y, sk[Peer(e)]), NEW q, QueuesOK(q, sk, written),
         atcp_v4_rcv(e, g, q), call' = call, written' = written, got' = got
  PROVE  ConnectionOK' /\ AllHold
<1> DEFINE s == sk[e]
<1>1. \/ s.tw # <<>> /\ TimeWaitRcv(e, g, q) /\ backlog' = backlog
      \/ Sends(e, atcp_v4_send_reset(g), q) /\ backlog' = backlog
      \/ backlog' = [backlog EXCEPT ![e] = Append(@, g)] /\ Sends(e, <<>>, q)
      \/ s.state = "LISTEN" /\ atcp_v4_hnd_req(g, q) /\ backlog' = backlog
      \/ Hashed(s) /\ s.state # "LISTEN" /\ Became(e, DoRcv(s, g), q) /\ backlog' = backlog
  BY Zenon DEF atcp_v4_rcv
<1>2. /\ EndOK(e, s, call[e], written[e], got[e], y)
      /\ QueuesOK(backlog, sk, written) /\ QueueFor(backlog[e], s, y, sk[Peer(e)])
  BY EndAt
<1>3. SegmentTypes(g)
  BY DEF Arrives, Comes
<1>4. CASE s.tw # <<>> /\ TimeWaitRcv(e, g, q) /\ backlog' = backlog
  BY <1>3, <1>4, TimeWaitRcvOK
<1>5. CASE Sends(e, atcp_v4_send_reset(g), q) /\ backlog' = backlog
  BY <1>2, <1>3, <1>5, RefusedOK
<1>6. CASE backlog' = [backlog EXCEPT ![e] = Append(@, g)] /\ Sends(e, <<>>, q)
  <2> DEFINE b == Append(backlog[e], g)
  <2>1. QueueFor(b, sk[e], ViewFrom(e, sk, written), sk[Peer(e)])
    BY <1>2, QueueAppend
  <2>2. backlog' = [backlog EXCEPT ![e] = b]
    BY <1>6
  <2> HIDE DEF b
  <2>3. QueuesOK(backlog', sk, written)
    BY <1>2, <2>1, <2>2, QueuesExcept
  <2> QED BY <1>6, <2>3, NothingSentOK
<1>7. CASE s.state = "LISTEN" /\ atcp_v4_hnd_req(g, q) /\ backlog' = backlog
  <2>1. e = Passive
    BY <1>2, <1>7, UsedTypes, NewSockFacts DEF EndOK, Occupied, Gone, Running
  <2>2. Peer(e) = Active
    BY <2>1, EndsFacts
  <2> QED BY <1>7, <2>1, <2>2, HndReqOK
<1>8. CASE Hashed(s) /\ s.state # "LISTEN" /\ Became(e, DoRcv(s, g), q) /\ backlog' = backlog
  <2>1. Used(s, y)
    BY <1>2, <1>8, NewSockFacts DEF EndOK, Occupied, Gone, Listens, Hashed
  <2> QED BY <1>8, <2>1, DoRcvOK
<1> QED BY <1>1, <1>4, <1>5, <1>6, <1>7, <1>8

(***************************************************************************)
(* The network.                                                            *)
(***************************************************************************)
(* The network delivers, reorders, loses or duplicates a segment. *)
LEMMA NetworkOK ==
  ASSUME ConnectionOK, NEW e \in Ends,
         Deliver(e) \/ Overtake(e) \/ Lose(e) \/ Duplicated(e)
  PROVE  ConnectionOK' /\ AllHold
<1> DEFINE q == net[e]
           s == sk[e]
           y == ViewFrom(e, sk, written)
           r == sk[Peer(e)]
<1>1. QueuesOK(net, sk, written) /\ QueueFor(q, s, y, r)
  BY EndAt
<1>0. ASSUME NEW x, QueueFor(x, s, y, r)
      PROVE  QueuesOK([net EXCEPT ![e] = x], sk, written)
  BY <1>0, <1>1, QueuesExcept
<1> HIDE DEF q, y, r, s
<1>2. CASE Deliver(e)
  <2> DEFINE n == [net EXCEPT ![e] = Tail(q)]
             g == Head(q)
  <2>1. q # <<>> /\ atcp_v4_rcv(e, g, n) /\ call' = call /\ written' = written /\ got' = got
    BY <1>2 DEF Deliver, q
  <2>2. QueueFor(Tail(q), s, y, r) /\ Arrives(g, s, y, r)
    BY <1>1, <2>1, QueueTail
  <2>3. QueuesOK(n, sk, written)
    BY <1>0, <2>2
  <2> HIDE DEF n, g
  <2> QED BY <2>1, <2>2, <2>3, RcvOK DEF s, y, r
<1>3. CASE Overtake(e)
  <2>1. PICK i \in 2..Len(q) : atcp_v4_rcv(e, q[i], [net EXCEPT ![e] = RemoveAt(q, i)])
    BY <1>3 DEF Overtake, q
  <2> DEFINE x == RemoveAt(q, i)
             n == [net EXCEPT ![e] = x]
             g == q[i]
  <2>2. i \in 1..Len(q)
    <3>1. Len(q) \in Nat
      BY <1>1, SeqFacts DEF QueueFor
    <3> QED BY <3>1
  <2>3. QueueFor(x, s, y, r) /\ Arrives(g, s, y, r)
    BY <1>1, <2>2, QueueRemove
  <2>4. atcp_v4_rcv(e, g, n) /\ call' = call /\ written' = written /\ got' = got
    BY <1>3, <2>1 DEF Overtake
  <2> HIDE DEF x, g
  <2>5. QueuesOK(n, sk, written)
    BY <1>0, <2>3
  <2> HIDE DEF n
  <2> QED BY <2>3, <2>4, <2>5, RcvOK DEF s, y, r
<1>4. ASSUME NEW x, QueueFor(x, s, y, r), net' = [net EXCEPT ![e] = x],
             UNCHANGED <<sk, call, backlog, written, got>>
      PROVE  ConnectionOK' /\ AllHold
  <2>1. QueuesOK(net', sk, written)
    BY <1>0, <1>4
  <2>2. sk' = sk /\ call' = call /\ backlog' = backlog /\ written' = written /\ got' = got
    BY <1>4
  <2>3. \A f \in Ends : Holds(sk[f], sk'[f])
    BY <2>2, HoldsSame DEF ConnectionOK, Sockets
  <2> QED BY <2>1, <2>2, <2>3 DEF ConnectionOK, AllHold
<1>5. CASE Lose(e)
  <2>1. /\ q # <<>> /\ net' = [net EXCEPT ![e] = Tail(q)]
        /\ UNCHANGED <<sk, call, backlog, written, got>>
    BY <1>5 DEF Lose, q
  <2>2. QueueFor(Tail(q), s, y, r)
    BY <1>1, <2>1, QueueTail
  <2> QED BY <1>4, <2>1, <2>2
<1>6. CASE Duplicated(e)
  <2> DEFINE x == Append(q, Head(q))
  <2>1. /\ q # <<>> /\ net' = [net EXCEPT ![e] = x]
        /\ UNCHANGED <<sk, call, backlog, written, got>>
    BY <1>6 DEF Duplicated, q
  <2>2. Arrives(Head(q), s, y, r)
    BY <1>1, <2>1, QueueTail
  <2>3. QueueFor(x, s, y, r)
    BY <1>1, <2>2, QueueAppend
  <2> HIDE DEF x
  <2> QED BY <1>4, <2>1, <2>3
<1> QED BY <1>2, <1>3, <1>5, <1>6

(***************************************************************************)
(* The timers.                                                             *)
(***************************************************************************)
(* What a timer that expires leaves alone. *)
LEMMA FiresFacts ==
  ASSUME ConnectionOK, NEW e \in Ends, NEW t, NEW patient, Fires(e, t, patient)
  PROVE  /\ Became(e, t, net) /\ call' = call /\ backlog' = backlog
         /\ written' = written /\ got' = got
BY DEF Fires

(* A step of a socket in use that no call makes. *)
LEMMA QuietOK ==
  ASSUME ConnectionOK, NEW e \in Ends, NEW t, Became(e, t, net),
         call' = call, backlog' = backlog, written' = written, got' = got,
         NEW y, y = ViewFrom(e, sk, written), Used(sk[e], y), Steady(sk[e], t, y)
  PROVE  ConnectionOK' /\ AllHold
<1>1. /\ QueuesOK(net, sk, written) /\ QueuesOK(backlog', sk, written)
      /\ OnlyFor(e, call, call')
  BY EndAt DEF OnlyFor
<1>2. t.dead = sk[e].dead /\ sk[e].write_seq > 0
  BY UsedTypes DEF Steady, Step
<1>3. Reading(t, call'[e]) => Reading(sk[e], call[e])
  BY <1>2 DEF Reading
<1> QED BY <1>1, <1>3, SteadyOK

(* The three timers of the protocol. *)
LEMMA TimersOK ==
  ASSUME ConnectionOK, NEW e \in Ends, DelackTimer(e) \/ RetransmitTimer(e) \/ ProbeTimer(e)
  PROVE  ConnectionOK' /\ AllHold
<1> DEFINE s == sk[e]
           l == Locked(e)
           y == ViewFrom(e, sk, written)
           a == atcp_delack_timer(s, l)
           b == atcp_retransmit_timer(s, l)
           c == atcp_probe_timer(s, l)
<1>1. s.timers # {}
  BY DEF DelackTimer, RetransmitTimer, ProbeTimer
<1>2. \/ Became(e, a, net)
      \/ "RETRANS" \in s.timers /\ Became(e, b, net)
      \/ Became(e, c, net)
  BY Zenon DEF DelackTimer, RetransmitTimer, ProbeTimer, Fires
<1>3. call' = call /\ backlog' = backlog /\ written' = written /\ got' = got
  BY DEF DelackTimer, RetransmitTimer, ProbeTimer, Fires
<1>4. Used(s, y)
  BY <1>1, InUse
<1> HIDE DEF y
<1>6. Steady(s, a, y) /\ Steady(s, c, y) /\ ("RETRANS" \in s.timers => Steady(s, b, y))
  BY <1>4, DelackTimerStep, RetransmitTimerStep, ProbeTimerStep
<1> HIDE DEF a, b, c, l
<1> QED BY <1>2, <1>3, <1>4, <1>6, QuietOK DEF y

(* The listener resends its SYN-ACK, or drops the request. *)
LEMMA SynAckTimerOK ==
  ASSUME ConnectionOK, SynAckTimer
  PROVE  ConnectionOK' /\ AllHold
<1>1. Sends(Passive, <<>>, net) \/ Sends(Passive, <<SynAck>>, net)
  BY DEF SynAckTimer
<1>2. /\ UNCHANGED <<call, written, got>> /\ backlog' = backlog /\ Passive \in Ends
  BY EndsFacts DEF SynAckTimer
<1>3. QueuesOK(net, sk, written) /\ QueuesOK(backlog', sk, written)
  BY <1>2 DEF ConnectionOK
<1> QED BY <1>1, <1>2, <1>3, NothingSentOK, SynAckOK

(* The keepalive timer, of a listener as well. *)
LEMMA KeepaliveTimerOK ==
  ASSUME ConnectionOK, NEW e \in Ends, KeepaliveTimer(e)
  PROVE  ConnectionOK' /\ AllHold
<1> DEFINE s == sk[e]
           t == atcp_keepopen_proc(s, Retries1)
           y == ViewFrom(e, sk, written)
           w == written[e]
           r == sk[Peer(e)]
           v == written[Peer(e)]
<1>1. /\ Hashed(s) /\ Became(e, t, net) /\ call' = call /\ backlog' = backlog
      /\ written' = written /\ got' = got
  BY DEF KeepaliveTimer
<1>2. Used(s, y) \/ Listens(s)
  BY <1>1, InUse
<1>3. CASE Used(s, y)
  <2>1. Steady(s, t, y)
    BY <1>3, KeepopenStep
  <2> HIDE DEF t
  <2> QED BY <1>1, <1>3, <2>1, QuietOK
<1>4. CASE Listens(s)
  <2>1. t = s
    BY <1>4 DEF atcp_keepopen_proc, Listens
  <2>2. /\ y = ViewOf(e, w, s.write_seq = 2 + w, r, v)
        /\ EndOK(e, s, call[e], w, got[e], y) /\ s.out = <<>> /\ s.rcv_nxt \in Int
        /\ w \in Nat /\ QueuesOK(net, sk, written) /\ QueuesOK(backlog, sk, written)
        /\ DOMAIN call = Ends /\ DOMAIN written = Ends /\ DOMAIN got = Ends
    BY EndAt
  <2>3. Holds(s, s)
    BY <2>2, HoldsSame
  <2>4. Onward(s, s, w, w)
    <3>1. s.rcv_nxt >= s.rcv_nxt /\ w <= w
      BY <2>2
    <3> QED BY <3>1 DEF Onward
  <2>5. /\ OnlyFor(e, call, call') /\ OnlyFor(e, written, written') /\ OnlyFor(e, got, got')
        /\ w = written'[e] /\ QueuesOK(backlog', sk, written)
    BY <1>1, <2>2 DEF OnlyFor
  <2>6. EndOK(e, s, call'[e], w, got'[e], ViewOf(e, w, s.write_seq = 2 + w, r, v))
    BY <1>1, <2>2
  <2>7. s.write_seq > 0 \/ (Listens(s) /\ s.out = <<>>)
    BY <1>4, <2>2
  <2>8. e = Passive /\ s.write_seq > 0 => Past(sk[Active])
    BY <1>4 DEF Listens
  <2>9. Became(e, s, net)
    BY <1>1, <2>1
  <2> HIDE DEF w, t, y
  <2> QED BY <2>2, <2>3, <2>4, <2>5, <2>6, <2>7, <2>8, <2>9, BecameOK DEF w
<1> QED BY <1>2, <1>3, <1>4

(* The end of a closed socket. *)
LEMMA NetTimerOK ==
  ASSUME ConnectionOK, NEW e \in Ends, NetTimer(e)
  PROVE  ConnectionOK' /\ AllHold
<1> DEFINE s == sk[e]
           t == net_timer(s, FALSE)
           y == ViewFrom(e, sk, written)
<1>1. /\ s.msl # "none" /\ call[e] = "none" /\ Became(e, t, net) /\ call' = call
      /\ backlog' = backlog /\ written' = written /\ got' = got
  BY DEF NetTimer, Fires, Quiet, Locked
<1>2. Used(s, y)
  BY <1>1, InUse
<1>3. s.write_seq > 0
  BY <1>2, UsedTypes
<1> HIDE DEF y
<1>4. Steady(s, t, y) \/ (Gone(t, y) /\ t.rcv_nxt = s.rcv_nxt)
  BY <1>2, NetTimerStep
<1> HIDE DEF t
<1>5. QueuesOK(net, sk, written)
  BY DEF ConnectionOK
<1>6. CASE Steady(s, t, y)
  BY <1>1, <1>2, <1>6, QuietOK DEF y
<1>7. CASE Gone(t, y) /\ t.rcv_nxt = s.rcv_nxt
  BY <1>1, <1>3, <1>5, <1>7, GoneOK DEF y
<1> QED BY <1>4, <1>6, <1>7

(* The end of TIME-WAIT. *)
LEMMA TimeWaitOverOK ==
  ASSUME ConnectionOK, NEW e \in Ends, TimeWaitOver(e)
  PROVE  ConnectionOK' /\ AllHold
<1> DEFINE s == sk[e]
           tw == <<>>
           t == [s EXCEPT !.tw = tw]
           y == ViewFrom(e, sk, written)
           v == ViewAt(s, y)
<1>1. /\ s.tw # <<>> /\ Became(e, t, net) /\ call' = call /\ backlog' = backlog
      /\ written' = written /\ got' = got
  BY DEF TimeWaitOver, Fires
<1>2. Record(s) /\ s.out = <<>>
  BY <1>1, BucketFacts
<1>3. BucketOK(tw) /\ \A n : BucketAcks(tw, n)
  BY DEF BucketOK, BucketAcks
<1> HIDE DEF tw, v, y, s
<1>4. /\ Record(t) /\ SameQueue(s, t) /\ SameQueues(s, t)
      /\ t.state = s.state /\ t.zapped = s.zapped /\ t.timers = s.timers /\ t.out = s.out
      /\ t.dead = s.dead /\ t.msl = s.msl /\ t.tw = tw /\ t.delayed_acks = s.delayed_acks
      /\ t.rcv_wup = s.rcv_wup /\ t.rcv_wnd = s.rcv_wnd /\ t.rcv_nxt = s.rcv_nxt
  BY <1>2, ZenonT(60) DEF Record, Fields, SameQueue, SameQueues
<1> HIDE DEF t
<1>5. SameOffer(s, t) /\ SegmentsOK(t.out, v) /\ AllAck(t.out, t.rcv_nxt)
  BY <1>2, <1>3, <1>4, NoSegments DEF SameOffer
<1>6. QueuesOK(net, sk, written)
  BY DEF ConnectionOK
<1> QED BY <1>1, <1>4, <1>5, <1>6, BucketChanges DEF s, y, v

(***************************************************************************)
(* The specification.                                                      *)
(***************************************************************************)
(* The first state. *)
LEMMA InitOK ==
  ASSUME Init
  PROVE  ConnectionOK
<1> DEFINE none == <<>>
           l == [NewSock EXCEPT !.state = "LISTEN"]
<1>1. /\ sk = [e \in Ends |-> IF e = Active THEN NewSock ELSE l]
      /\ net = [e \in Ends |-> none] /\ backlog = [e \in Ends |-> none]
      /\ call = [e \in Ends |-> "none"]
      /\ written = [e \in Ends |-> 0] /\ got = [e \in Ends |-> none]
  BY DEF Init
<1>2. \A s, y, r : QueueFor(none, s, y, r)
  BY QueueOfOne
<1>3. IsSeq(none) /\ Len(none) = 0 /\ InOrder(none, 1)
  BY EmptyFacts DEF InOrder
<1>4. Listens(l) /\ l.out = none /\ l.dead = FALSE
  BY NewSockFacts DEF Listens, Record, Fields, NewSock
<1>5. NewSock.out = none /\ NewSock.write_seq = 0 /\ NewSock.rcv_nxt = 0
  BY NewSockFacts
<1> HIDE DEF none, l
<1>6. QueuesOK(net, sk, written) /\ QueuesOK(backlog, sk, written)
  BY <1>1, <1>2 DEF QueuesOK
<1>7. \A e \in Ends : /\ sk[e].rcv_nxt = 0 /\ sk[e].write_seq = 0 /\ written[e] = 0
                      /\ got[e] = none /\ sk[e].out = none
                      /\ call[e] = "none"
                      /\ (Listens(sk[e]) /\ e = Passive) \/ (sk[e] = NewSock /\ e = Active)
  BY <1>1, <1>4, <1>5, EndsFacts DEF Listens
<1>8. ASSUME NEW e \in Ends
      PROVE  EndOK(e, sk[e], call[e], written[e], got[e], ViewFrom(e, sk, written))
  <2> DEFINE y == ViewFrom(e, sk, written)
             n == 0
             r == sk[Peer(e)]
             b == sk[e].write_seq = 2 + n
  <2>1. Peer(e) \in Ends
    BY EndsFacts
  <2>2. r.rcv_nxt \in Int /\ n \in Nat /\ y = ViewOf(e, n, b, r, n)
    BY <1>7, <2>1 DEF ViewFrom
  <2> HIDE DEF y, n, b, r
  <2>3. Says(y, e, n, b, r, n)
    BY <2>2, ViewFacts
  <2>4. Len(none) < y.theirs
    BY <1>3, <2>3 DEF Says, n
  <2>5. HasRead(sk[e], call[e], none, y)
    BY <1>3, <1>7, <2>4 DEF HasRead, Reading
  <2>6. Occupied(sk[e], e, call[e], y)
    BY <1>7 DEF Occupied
  <2> QED BY <1>7, <2>5, <2>6 DEF EndOK, y, none
<1>9. Sockets(sk, call, written, got)
  <2>1. DOMAIN sk = Ends /\ DOMAIN call = Ends /\ DOMAIN written = Ends /\ DOMAIN got = Ends
    BY <1>1
  <2>2. sk[Passive].write_seq = 0 /\ ~(0 > 0)
    BY <1>7, EndsFacts
  <2> QED BY <1>7, <1>8, <2>1, <2>2 DEF Sockets, none
<1> QED BY <1>6, <1>9 DEF ConnectionOK

(* Every step keeps the invariant, and the edge of every window. *)
LEMMA NextOK ==
  ASSUME ConnectionOK, [Next]_vars
  PROVE  ConnectionOK' /\ AllHold
<1>1. CASE Connect
  BY <1>1, ConnectOK
<1>2. CASE SynAckTimer
  BY <1>2, SynAckTimerOK
<1>3. ASSUME NEW e \in Ends,
             \/ Deliver(e) \/ Overtake(e) \/ Lose(e) \/ Duplicated(e)
             \/ Write(e) \/ Read(e) \/ SetNoDelay(e) \/ SetCork(e) \/ ClearCork(e)
             \/ Shutdown(e) \/ Close(e) \/ release_sock(e)
             \/ DelackTimer(e) \/ RetransmitTimer(e) \/ ProbeTimer(e)
             \/ KeepaliveTimer(e) \/ NetTimer(e) \/ TimeWaitOver(e)
      PROVE  ConnectionOK' /\ AllHold
  BY <1>3, NetworkOK, WriteOK, ReadOK, OptionsOK, UncorkOK, ShutdownOK, CloseOK, ReleaseOK,
     TimersOK, KeepaliveTimerOK, NetTimerOK, TimeWaitOverOK
<1>4. CASE UNCHANGED vars
  <2>1. /\ sk' = sk /\ net' = net /\ call' = call /\ backlog' = backlog
        /\ written' = written /\ got' = got
    BY <1>4 DEF vars
  <2>2. \A e \in Ends : Holds(sk[e], sk'[e])
    BY <2>1, HoldsSame DEF ConnectionOK, Sockets
  <2> QED BY <2>1, <2>2 DEF ConnectionOK, AllHold
<1> QED BY <1>1, <1>2, <1>3, <1>4 DEF Next

(* ConnectionOK is an inductive invariant of the connection. *)
THEOREM ConnectionInductive == Spec => []ConnectionOK
<1>1. Init => ConnectionOK
  BY InitOK
<1>2. ConnectionOK /\ [Next]_vars => ConnectionOK'
  BY NextOK
<1> QED BY <1>1, <1>2, PTL DEF Spec

(* A receiver never takes back a window it offered, for all buffer sizes,  *)
(* losses, duplicates, reorderings and timers: the right edge that         *)
(* atcp_select_window computes never moves back while the socket lives.    *)
THEOREM NoShrinkHolds == Spec => NoShrink
<1> DEFINE Keeping == \A e \in Ends : Live(e) /\ sk'[e].state \notin {"CLOSE", "GONE"} =>
                        sk'[e].rcv_wup + sk'[e].rcv_wnd >= sk[e].rcv_wup + sk[e].rcv_wnd
<1>1. ConnectionOK /\ [Next]_vars => [Keeping]_vars
  BY NextOK DEF AllHold, Holds, Edge, Live, Hashed
<1>2. NoShrink <=> [][Keeping]_vars
  BY DEF NoShrink
<1> HIDE DEF Keeping
<1> QED BY <1>1, <1>2, ConnectionInductive, PTL DEF Spec

(* A live socket has been opened and was not reset. *)
LEMMA LiveRuns ==
  ASSUME ConnectionOK, NEW e \in Ends, Live(e)
  PROVE  Runs(sk[e], ViewFrom(e, sk, written))
<1> DEFINE y == ViewFrom(e, sk, written)
<1>1. Used(sk[e], y)
  BY InUse DEF Live, Listens
<1> HIDE DEF y
<1>2. Runs(sk[e], y)
  BY <1>1 DEF Used, Shut, Live, Hashed
<1> QED BY <1>2 DEF y

(* Its write queue is whole. *)
LEMMA RunsWhole ==
  ASSUME NEW s, NEW y, Runs(s, y)
  PROVE  QueueWhole(s)
<1> DEFINE q == s.wq
           u == s.snd_una
           v == ViewAt(s, y)
<1>1. QueueTypes(s, u, v) /\ Whole(s, u) /\ HeadOK(s, u) /\ ChainOK(q, u, v)
  BY DEF Runs, Good, GoodAt, QueueOK, QueueTypes
<1>2. q # <<>> => Head(q) = q[1]
  BY <1>1, TailFacts DEF ChainOK
<1>3. \A i \in 1..(Len(q) - 1) : Follows(q[i], q[i + 1], u)
  BY <1>1 DEF ChainOK, Link, Follows
<1>4. q # <<>> => /\ q[1].seq <= u /\ u < s.write_seq /\ (u < q[1].end \/ q[1].retrans)
                  /\ q[Len(q)].end = s.write_seq
  BY <1>1 DEF Whole, HeadOK
<1>5. /\ s.send_head # Null => q[s.send_head].seq = s.snd_nxt
      /\ s.send_head = Null => s.snd_nxt = s.write_seq
  BY <1>1 DEF Whole
<1> QED BY <1>2, <1>3, <1>4, <1>5 DEF QueueWhole

(* The write queue of a live socket is the stream from the acknowledged    *)
(* byte to the last one written, and the send head is where sending goes   *)
(* on, whatever is split, collapsed, stripped, acknowledged or             *)
(* retransmitted.                                                          *)
THEOREM WriteQueueWholeHolds == Spec => []WriteQueueWhole
<1>1. ConnectionOK => WriteQueueWhole
  BY LiveRuns, RunsWhole DEF WriteQueueWhole
<1> QED BY <1>1, ConnectionInductive, PTL

(* packets_out of a live socket is the number of buffers before the send   *)
(* head, whatever is split, joined, trimmed or acknowledged in part: the   *)
(* first half of CountsRight.                                              *)
THEOREM PacketsCountedHolds == Spec => []PacketsCounted
<1>1. ASSUME ConnectionOK, NEW e \in Ends, Live(e)
      PROVE  sk[e].packets_out = Sent(sk[e])
  BY <1>1, LiveRuns DEF Runs, Good, GoodAt, QueueOK, QueueTypes
<1>2. ConnectionOK => PacketsCounted
  BY <1>1 DEF PacketsCounted
<1> QED BY <1>2, ConnectionInductive, PTL

(* While something sent is not acknowledged, the retransmission timer      *)
(* runs; and while that runs there is a buffer to resend, which            *)
(* atcp_retransmit_timer takes without a look.                             *)
THEOREM InFlightTimedHolds == Spec => []InFlightTimed
<1>1. ASSUME ConnectionOK, NEW e \in Ends, Live(e), sk[e].packets_out > 0
      PROVE  "RETRANS" \in sk[e].timers
  <2>1. Runs(sk[e], ViewFrom(e, sk, written))
    BY <1>1, LiveRuns
  <2> QED BY <1>1, <2>1 DEF Runs, Good, GoodAt, Timed, Live, Hashed
<1>2. ASSUME ConnectionOK, NEW e \in Ends, "RETRANS" \in sk[e].timers, ~sk[e].zapped
      PROVE  sk[e].wq # <<>>
  <2> DEFINE s == sk[e]
             u == s.snd_una
             y == ViewFrom(e, sk, written)
             v == ViewAt(s, y)
  <2>1. Runs(s, y)
    BY <1>2, InUse DEF Used, Shut
  <2>2. QueueTypes(s, u, v) /\ s.packets_out > 0
    BY <1>2, <2>1 DEF Runs, Good, GoodAt, QueueOK, Timed
  <2> QED BY <2>2, SentFacts
<1>3. ConnectionOK => InFlightTimed
  BY <1>1, <1>2 DEF InFlightTimed
<1> QED BY <1>3, ConnectionInductive, PTL

(* What a user has read is what the other one wrote, from the first byte   *)
(* on, for all sizes of writes, reads and buffers, and whatever the        *)
(* network loses, duplicates and reorders, and whatever the timers, the    *)
(* ends' options and their closing do.                                     *)
THEOREM StreamIntegrityHolds == Spec => []StreamIntegrity
<1>1. ASSUME ConnectionOK, NEW e \in Ends
      PROVE  got[e] = Bytes(1, Len(got[e])) /\ Len(got[e]) <= written[Peer(e)]
  <2> DEFINE x == got[e]
             y == ViewFrom(e, sk, written)
             v == written[Peer(e)]
  <2>1. EndOK(e, sk[e], call[e], written[e], x, y) /\ y.theirs = 1 + v /\ v \in Nat
    BY <1>1, EndAt DEF Says
  <2> HIDE DEF y, v, x
  <2>2. IsSeq(x) /\ InOrder(x, 1) /\ Len(x) < y.theirs
    BY <2>1 DEF EndOK, HasRead
  <2>3. x = [i \in 1..Len(x) |-> x[i]] /\ Len(x) \in Nat
    BY <2>2, SeqIsFunction, SeqFacts
  <2>4. x = Bytes(1, Len(x))
    BY <2>2, <2>3 DEF InOrder, Bytes
  <2>5. Len(x) <= v
    BY <2>1, <2>2, <2>3
  <2> QED BY <2>4, <2>5 DEF x, v
<1>2. ConnectionOK => StreamIntegrity
  BY <1>1 DEF StreamIntegrity
<1> QED BY <1>2, ConnectionInductive, PTL

(* Two sockets that are connected have both had the other's SYN. *)
LEMMA BothPast ==
  ASSUME ConnectionOK, Live(Active), Live(Passive), NEW e \in Ends
  PROVE  sk[e].rcv_nxt \in Int /\ sk[e].rcv_nxt >= 1
<1> DEFINE s == sk[e]
           y == ViewFrom(e, sk, written)
<1>1. Live(e) /\ (e = Active \/ e = Passive) /\ Active \in Ends /\ Passive \in Ends
      /\ Passive # Active
  BY EndsFacts
<1>2. Runs(s, y) /\ Open(s, ViewAt(s, y)) /\ s.rcv_nxt \in Int
  BY <1>1, LiveRuns, RunsFacts
<1>3. y.calls = (e = Active)
  BY EndAt DEF Says
<1>4. sk[Passive].write_seq > 0
  BY <1>1, LiveRuns, RunsFacts, UsedTypes
<1>5. Past(sk[Active])
  BY <1>4 DEF ConnectionOK, Sockets
<1> HIDE DEF y
<1>6. s.state # "SYN_SENT"
  BY <1>1, <1>2, <1>3, <1>5 DEF Runs, Past
<1> QED BY <1>1, <1>2, <1>6 DEF Open, Come, Live, Hashed

(* Nothing is taken as acknowledged that the other end has not received in *)
(* order, however stale, duplicated or out of order the acknowledgements   *)
(* come.                                                                   *)
THEOREM AckedIsReceivedHolds == Spec => []AckedIsReceived
<1>1. ASSUME ConnectionOK, Live(Active), Live(Passive), NEW e \in Ends
      PROVE  sk[e].snd_una <= sk[Peer(e)].rcv_nxt
  <2> DEFINE s == sk[e]
             u == s.snd_una
             y == ViewFrom(e, sk, written)
             v == ViewAt(s, y)
             n == sk[Peer(e)].rcv_nxt
  <2>1. Peer(e) \in Ends /\ Live(e)
    BY <1>1, EndsFacts
  <2>2. n \in Int /\ n >= 1
    BY <1>1, <2>1, BothPast
  <2>3. y.seen = Larger(1, n)
    BY <1>1, EndAt DEF Says
  <2>4. Runs(s, y)
    BY <1>1, <2>1, LiveRuns
  <2>5. v.seen = y.seen
    BY WithFacts DEF ViewAt
  <2> HIDE DEF y, n, v
  <2>6. QueueTypes(s, u, v)
    BY <2>4, RunsFacts DEF QueueOK, v
  <2>7. u \in Int /\ u <= v.seen
    BY <2>6 DEF QueueTypes
  <2>8. u <= n
    BY <2>2, <2>3, <2>5, <2>7 DEF Larger
  <2> QED BY <2>8 DEF n
<1>2. ConnectionOK => AckedIsReceived
  BY <1>1 DEF AckedIsReceived
<1> QED BY <1>2, ConnectionInductive, PTL
=============================================================================
