-------------------------- MODULE AtcpOutputProofs --------------------------
(***************************************************************************)
(* Lemmas about the output of the Linux 2.2 TCP (AtcpOutput, and the       *)
(* checks of AtcpInput after a segment that send).                         *)
(*                                                                         *)
(* Keeps is what every operation of output keeps: the write queue is the   *)
(* stream from the acknowledged byte to the last one written, counts and   *)
(* pointers agree with it (QueueOK), the retransmission timer runs while   *)
(* something is in flight (Timed), the first buffer is not all             *)
(* acknowledged unless it was sent again (HeadOK), and the right edge of   *)
(* the window does not move back (Outputs). There is a lemma for each      *)
(* operation, from atcp_transmit_skb up.                                   *)
(***************************************************************************)
EXTENDS AtcpSockProofs, AtcpInput

(***************************************************************************)
(* Sending a segment.                                                      *)
(***************************************************************************)
(* What the caller decides of the header. *)
Header(seq, data, flags) ==
  [seq |-> seq, data |-> data, syn |-> "SYN" \in flags, fin |-> "FIN" \in flags,
   rst |-> "RST" \in flags, ack |-> "ACK" \in flags]

(* atcp_transmit_skb sends one segment, and leaves the write queue and the *)
(* sequence numbers alone.                                                 *)
LEMMA TransmitFacts ==
  ASSUME NEW s, NEW y, Open(s, y), NEW seq \in Int, NEW data, IsSeq(data), NEW flags,
         Carries(Header(seq, data, flags), y)
  PROVE  LET t == atcp_transmit(s, seq, data, flags)
         IN /\ Outputs(s, t, y) /\ SameQueue(s, t) /\ t.timers = s.timers \ {"DACK"}
            /\ Len(t.out) = Len(s.out) + 1
<1> DEFINE w == IF "SYN" \in flags THEN s ELSE atcp_select_window(s)
           g == Segment(s, seq, data, flags)
           t == atcp_transmit(s, seq, data, flags)
<1>1. /\ Record(w) /\ SameLife(s, w) /\ SameQueue(s, w) /\ SameQueues(s, w)
      /\ w.out = s.out /\ w.timers = s.timers /\ ReceiverOK(w) /\ Edge(s, w)
      /\ w.tw = s.tw /\ w.delayed_acks = s.delayed_acks
      /\ OfferedWindow(s) \in Nat
  <2>1. Record(s) /\ ReceiverOK(s)
    BY DEF Open
  <2>2. Edge(s, s) /\ SameLife(s, s) /\ SameQueue(s, s) /\ SameQueues(s, s)
    BY <2>1 DEF Edge, ReceiverOK, SameLife, SameQueue, SameQueues
  <2> QED BY <2>1, <2>2, WindowMonotone
<1>2. SegmentOK(g, y) /\ g.ack_seq = s.rcv_nxt
  <2>1. SegmentTypes(g) /\ g.ack_seq = s.rcv_nxt
    BY <1>1, EmptyFacts DEF SegmentTypes, Segment, Open, ReceiverOK
  <2>2. Carries(g, y)
    BY Zenon DEF Carries, Segment, Header
  <2> QED BY <2>1, <2>2 DEF SegmentOK
<1>3. t = clear_delayed_acks([w EXCEPT !.out = Append(@, g)])
  BY DEF atcp_transmit
<1> HIDE DEF w, g
<1>4. /\ Record(t) /\ SameLife(w, t) /\ SameQueue(w, t) /\ SameQueues(w, t) /\ SameWindow(w, t)
      /\ t.out = Append(w.out, g) /\ t.timers = w.timers \ {"DACK"}
  BY <1>1, <1>3 DEF clear_delayed_acks, atcp_clear_xmit_timer, atcp_exit_quickack_mode,
     Record, Fields, SameLife, SameQueue, SameQueues, SameWindow
<1> HIDE DEF t
<1>5. SegmentsOK(s.out, y) /\ IsSeq(s.out)
  BY DEF Open, SegmentsOK
<1>6. SegmentsOK(t.out, y) /\ Len(t.out) = Len(s.out) + 1
  BY <1>1, <1>2, <1>4, <1>5, SegmentsAppend, AppendFacts
<1>12. AllAck(t.out, t.rcv_nxt)
  <2>1. Acks(g, s.rcv_nxt) /\ AllAck(s.out, s.rcv_nxt)
    BY <1>2 DEF Acks, Open, Come, ReceiverOK
  <2>2. t.out = Append(s.out, g) /\ t.rcv_nxt = s.rcv_nxt
    BY <1>1, <1>4 DEF SameQueues
  <2> QED BY <1>5, <2>1, <2>2, AllAckAppend
<1>7. Open(w, y)
  <2>1. Come(w, y)
    BY <1>1 DEF Open, Come, SameLife, SameQueues
  <2> QED BY <2>1, <1>1, <1>5 DEF Open
<1>8. Outputs(w, t, y)
  BY <1>4, <1>6, <1>7, <1>12, OutputsSame
<1>9. Outputs(s, w, y)
  BY <1>1, <1>7 DEF Outputs
<1>10. Outputs(s, t, y)
  BY <1>8, <1>9, OutputsTrans
<1>11. SameQueue(s, t) /\ t.timers = s.timers \ {"DACK"}
  BY <1>1, <1>4 DEF SameQueue
<1> QED BY <1>6, <1>10, <1>11 DEF t

(***************************************************************************)
(* The sending half.  u is what has been acknowledged: snd_una, and while  *)
(* an acknowledgement is processed the number it carries.                  *)
(***************************************************************************)
QueueTypes(s, u, y) ==
  /\ ChainOK(s.wq, u, y) /\ u <= y.seen /\ s.send_head \in 0..Len(s.wq)
  /\ (s.wq # <<>> => s.snd_nxt >= 1)
  /\ s.snd_una \in Nat /\ s.snd_nxt \in Nat /\ s.write_seq \in Nat
  /\ s.snd_wnd \in Int /\ s.max_window \in Nat
  /\ s.packets_out = Sent(s) /\ s.retrans_head \in (-1)..Sent(s)
  /\ s.fackets_out \in Nat
  /\ s.high_seq = 0 \/ (s.high_seq \in Int /\ s.high_seq <= s.snd_nxt)

Whole(s, u) ==
  /\ u \in Nat /\ s.snd_una <= u /\ u <= s.snd_nxt
  /\ s.wq # <<>> => /\ s.wq[1].seq <= u /\ u < s.write_seq
                    /\ s.wq[Len(s.wq)].end = s.write_seq
  /\ s.wq = <<>> => u = s.write_seq
  /\ s.send_head # Null => s.wq[s.send_head].seq = s.snd_nxt
  /\ s.send_head = Null => s.snd_nxt = s.write_seq

QueueOK(s, u, y) == QueueTypes(s, u, y) /\ Whole(s, u)

(* The first buffer is not all acknowledged, or it was sent again. *)
HeadOK(s, u) == s.wq # <<>> => u < s.wq[1].end \/ s.wq[1].retrans

(* The retransmission timer runs while something that was sent is not      *)
(* acknowledged, and then only.                                            *)
Timed(s) ==
  /\ "RETRANS" \in s.timers => s.packets_out > 0
  /\ s.state \notin {"CLOSE", "GONE"} /\ s.packets_out > 0 => "RETRANS" \in s.timers

(* What the counts and the send head say of each other. *)
LEMMA SentFacts ==
  ASSUME NEW s, NEW u, NEW y, QueueTypes(s, u, y)
  PROVE  /\ Len(s.wq) \in Nat /\ Sent(s) \in 0..Len(s.wq) /\ s.packets_out = Sent(s)
         /\ s.packets_out \in Nat
         /\ s.send_head # Null => s.send_head \in 1..Len(s.wq) /\ Sent(s) = s.send_head - 1
         /\ s.send_head = Null => Sent(s) = Len(s.wq)
         /\ (s.wq = <<>> <=> Len(s.wq) = 0)
<1>1. Len(s.wq) \in Nat /\ (s.wq = <<>> <=> Len(s.wq) = 0)
  BY ChainFacts DEF QueueTypes
<1> QED BY <1>1 DEF QueueTypes, Sent, Null

(* A step that leaves the sending half alone keeps all that is said about  *)
(* it.                                                                     *)
LEMMA SameQueueOK ==
  ASSUME NEW s, NEW t, NEW u, NEW y, QueueOK(s, u, y), SameQueue(s, t)
  PROVE  /\ QueueOK(t, u, y) /\ t.packets_out = s.packets_out /\ t.write_seq = s.write_seq
         /\ HeadOK(s, u) => HeadOK(t, u)
<1>1. Sent(t) = Sent(s)
  BY DEF Sent, SameQueue
<1> QED BY <1>1 DEF QueueOK, QueueTypes, Whole, SameQueue, HeadOK

(* Where the queue ends, nothing is left to send. *)
LEMMA NextBelowEnd ==
  ASSUME NEW s, NEW u, NEW y, QueueOK(s, u, y)
  PROVE  /\ s.snd_nxt <= s.write_seq
         /\ \A i \in 1..Len(s.wq) : s.wq[i].end <= s.write_seq
<1>1. ASSUME NEW i \in 1..Len(s.wq) PROVE s.wq[i].end <= s.write_seq
  <2>1. Len(s.wq) \in 1..Len(s.wq) /\ Len(s.wq) \in Nat /\ s.wq # <<>>
    BY SentFacts DEF QueueOK
  <2>2. s.wq[Len(s.wq)].end = s.write_seq
    BY <2>1 DEF QueueOK, Whole
  <2>3. CASE i = Len(s.wq)
    BY <2>2, <2>3 DEF QueueOK, QueueTypes
  <2>4. CASE i # Len(s.wq)
    <3>1. s.wq[i].end <= s.wq[Len(s.wq)].seq
      BY SMTT(30), <2>1, <2>4, ChainOrder DEF QueueOK, QueueTypes
    <3>2. /\ s.wq[i].end \in Int /\ s.wq[Len(s.wq)].seq \in Int
          /\ s.wq[Len(s.wq)].seq < s.wq[Len(s.wq)].end
      BY <2>1, ChainFacts DEF QueueOK, QueueTypes
    <3> QED BY SMTT(30), <3>1, <3>2, <2>2 DEF QueueOK, QueueTypes
  <2> QED BY <2>3, <2>4
<1>2. CASE s.send_head = Null
  <2>1. s.snd_nxt <= s.write_seq
    BY <1>2 DEF QueueOK, QueueTypes, Whole
  <2> QED BY <2>1, <1>1
<1>3. CASE s.send_head # Null
  <2>1. s.send_head \in 1..Len(s.wq)
    BY <1>3, SentFacts DEF QueueOK
  <2>2. /\ s.wq[s.send_head].seq < s.wq[s.send_head].end /\ s.wq[s.send_head].seq \in Int
        /\ s.wq[s.send_head].end \in Int
    BY <2>1, ChainFacts DEF QueueOK, QueueTypes
  <2> QED BY SMTT(30), <2>1, <2>2, <1>1, <1>3 DEF QueueOK, QueueTypes, Whole
<1> QED BY <1>1, <1>2, <1>3

(* What was acknowledged is less than what was sent only if something was  *)
(* sent.                                                                   *)
LEMMA InFlight ==
  ASSUME NEW s, NEW u, NEW y, QueueOK(s, u, y), u < s.snd_nxt
  PROVE  Sent(s) >= 1
<1>1. CASE s.send_head = Null
  <2>1. s.wq # <<>>
    BY <1>1 DEF QueueOK, QueueTypes, Whole
  <2> QED BY <1>1, <2>1, SentFacts DEF QueueOK
<1>2. CASE s.send_head # Null
  <2>1. s.send_head \in 1..Len(s.wq) /\ Sent(s) = s.send_head - 1 /\ s.wq # <<>>
    BY <1>2, SentFacts DEF QueueOK
  <2>2. s.send_head # 1
    BY <1>2, <2>1 DEF QueueOK, QueueTypes, Whole
  <2> QED BY <2>1, <2>2
<1> QED BY <1>1, <1>2

(***************************************************************************)
(* First transmission.                                                     *)
(***************************************************************************)
(* Sending a buffer of the queue changes neither the queue nor the         *)
(* window's edge.                                                          *)
LEMMA TransmitSkbFacts ==
  ASSUME NEW s, NEW y, Open(s, y), NEW b, NEW u \in Int, u <= y.seen, SkbOK(b, u, y)
  PROVE  LET t == atcp_transmit_skb(s, b)
         IN /\ Outputs(s, t, y) /\ SameQueue(s, t) /\ t.timers = s.timers \ {"DACK"}
            /\ Len(t.out) = Len(s.out) + 1
<1> DEFINE flags == (IF b.syn THEN {"SYN"} ELSE {}) \union (IF b.fin THEN {"FIN"} ELSE {})
                      \union (IF b.ack THEN {"ACK"} ELSE {})
           h == Header(b.seq, b.data, flags)
<1>1. Carries(h, y)
  <2>1. /\ h.seq = b.seq /\ h.data = b.data /\ ~h.rst
        /\ h.syn <=> b.syn
        /\ h.fin <=> b.fin
        /\ h.ack <=> b.ack
    BY Zenon DEF Header
  <2> HIDE DEF h, flags
  <2>2. /\ h.syn => y.calls /\ h.seq = 0 /\ h.data = <<>> /\ ~h.fin
        /\ h.syn \/ h.ack
        /\ h.ack => y.up
        /\ InOrder(h.data, h.seq)
    BY Zenon, <2>1 DEF SkbOK, InStream
  <2>3. b.seq \in Int /\ Len(b.data) \in Nat /\ y.last \in Nat /\ y.seen \in Nat
    BY SeqFacts DEF SkbOK, SkbTypes, Open, Come, ViewOK
  <2>4. b.seq + Len(b.data) <= y.last
    BY DEF SkbOK, InStream
  <2>5. ASSUME b.fin
        PROVE  /\ y.fin /\ 1 <= b.seq
               /\ \/ b.seq + Len(b.data) = y.last
                  \/ b.seq + Len(b.data) < y.last /\ y.last <= y.seen
    <3>1. y.fin /\ b.seq >= 1 /\ (b.seq + Len(b.data) = y.last \/ y.last <= u)
      BY <2>5, Zenon DEF SkbOK, InStream
    <3>2. b.seq + Len(b.data) = y.last \/ (b.seq + Len(b.data) < y.last /\ y.last <= y.seen)
      BY <3>1, <2>3, <2>4
    <3> QED BY <3>1, <3>2, <2>3
  <2>6. h.fin => /\ y.fin /\ 1 <= h.seq
                 /\ \/ h.seq + Len(h.data) = y.last
                    \/ h.seq + Len(h.data) < y.last /\ y.last <= y.seen
    BY Zenon, <2>1, <2>5
  <2>7. h.data # <<>> => 1 <= h.seq /\ h.seq + Len(h.data) <= y.last
    <3>1. ~b.syn => 1 <= b.seq
      BY <2>3 DEF SkbOK, InStream
    <3>2. b.data # <<>> => ~b.syn
      BY Zenon DEF SkbOK, InStream
    <3> QED BY Zenon, <2>1, <2>4, <3>1, <3>2
  <2> QED BY Zenon, <2>1, <2>2, <2>6, <2>7 DEF Carries
<1>2. b.seq \in Int /\ IsSeq(b.data)
  BY DEF SkbOK, SkbTypes
<1>3. atcp_transmit_skb(s, b) = atcp_transmit(s, b.seq, b.data, flags)
  BY DEF atcp_transmit_skb
<1> HIDE DEF flags
<1> QED BY <1>1, <1>2, <1>3, TransmitFacts DEF h

StartFields(s, t) ==
  /\ Record(t) /\ SameLife(s, t) /\ SameQueue(s, t) /\ SameQueues(s, t)
  /\ SameWindow(s, t) /\ t.out = s.out

(* Starting the retransmission timer changes nothing but the timers. *)
LEMMA StartFacts ==
  ASSUME NEW s, Record(s)
  PROVE  StartFields(s, StartRetrans(s)) /\ "RETRANS" \in StartRetrans(s).timers
  BY DEF StartRetrans, atcp_reset_xmit_timer, StartFields, Record, Fields, SameLife,
     SameQueue, SameQueues, SameWindow

(* Sending the buffer at the send head moves the head and snd_nxt to the   *)
(* next buffer.                                                            *)
LEMMA SendHeadFacts ==
  ASSUME NEW s, NEW u, NEW y, Open(s, y), QueueOK(s, u, y), s.send_head # Null
  PROVE  LET t == SendHead(s)
         IN /\ QueueOK(t, u, y) /\ Outputs(s, t, y) /\ t.packets_out > 0
            /\ t.timers = s.timers \ {"DACK"} /\ Len(t.out) = Len(s.out) + 1
            /\ t.write_seq = s.write_seq /\ t.wq = s.wq
<1> DEFINE n == s.send_head
           b == s.wq[n]
           m == [update_send_head(s) EXCEPT !.snd_nxt = b.end, !.packets_out = @ + 1]
           t == SendHead(s)
<1>1. /\ n \in 1..Len(s.wq) /\ Sent(s) = n - 1 /\ Len(s.wq) \in Nat /\ s.wq # <<>>
      /\ s.packets_out = n - 1
  BY SentFacts DEF QueueOK
<1>2. /\ SkbOK(b, u, y) /\ b.seq \in Int /\ b.end \in Int /\ b.seq < b.end
      /\ n + 1 <= Len(s.wq) => Link(b, s.wq[n + 1], u)
  BY <1>1, ChainFacts DEF QueueOK, QueueTypes
<1>3. /\ Record(m) /\ SameLife(s, m) /\ SameQueues(s, m) /\ SameWindow(s, m)
      /\ m.out = s.out /\ m.timers = s.timers
      /\ m.wq = s.wq /\ m.retrans_head = s.retrans_head /\ m.snd_una = s.snd_una
      /\ m.snd_wnd = s.snd_wnd /\ m.max_window = s.max_window /\ m.write_seq = s.write_seq
      /\ m.fackets_out = s.fackets_out /\ m.high_seq = s.high_seq
      /\ m.snd_nxt = b.end /\ m.packets_out = s.packets_out + 1
      /\ m.send_head = IF n = Len(s.wq) THEN Null ELSE n + 1
  BY DEF update_send_head, Record, Fields, SameLife, SameQueues, SameWindow, Open
<1>4. t = atcp_transmit_skb(m, b)
  BY DEF SendHead
<1> HIDE DEF m, t
<1>5. m.send_head \in 0..Len(m.wq) /\ Sent(m) = n
  BY <1>1, <1>3 DEF Sent, Null
<1>6. /\ s.snd_nxt = b.seq /\ s.snd_nxt \in Nat /\ u \in Nat /\ s.snd_una <= u /\ u <= s.snd_nxt
      /\ s.high_seq = 0 \/ (s.high_seq \in Int /\ s.high_seq <= s.snd_nxt)
      /\ s.retrans_head \in (-1)..(n - 1)
  BY <1>1 DEF QueueOK, Whole, QueueTypes
<1> HIDE DEF b
<1>7. QueueTypes(m, u, y)
  <2>1. m.snd_nxt \in Nat /\ m.snd_nxt >= 1 /\ (m.high_seq = 0 \/ (m.high_seq \in Int /\ m.high_seq <= m.snd_nxt))
    BY <1>2, <1>3, <1>6
  <2>2. m.packets_out = Sent(m) /\ m.retrans_head \in (-1)..Sent(m)
    BY <1>1, <1>3, <1>5, <1>6
  <2> QED BY <2>1, <2>2, <1>3, <1>5 DEF QueueOK, QueueTypes
<1>8. Whole(m, u)
  <2>1. u \in Nat /\ m.snd_una <= u /\ u <= m.snd_nxt
    BY <1>2, <1>3, <1>6
  <2>2. ASSUME m.send_head # Null PROVE m.wq[m.send_head].seq = m.snd_nxt
    <3>1. n # Len(s.wq) /\ m.send_head = n + 1
      BY <2>2, <1>3
    <3>2. n + 1 <= Len(s.wq) /\ n + 1 \in 1..Len(s.wq)
      BY <3>1, <1>1
    <3>3. Link(b, s.wq[n + 1], u) /\ s.wq[n + 1].seq \in Int
      BY <3>2, <1>2, ChainFacts DEF QueueOK, QueueTypes
    <3>4. b.end = s.wq[n + 1].seq
      BY <3>3, <1>2, <1>6 DEF Link
    <3> QED BY <3>1, <3>4, <1>3
  <2>3. m.send_head = Null => m.snd_nxt = m.write_seq
    BY <1>1, <1>2, <1>3 DEF Null, QueueOK, Whole, b
  <2> QED BY <2>1, <2>2, <2>3, <1>1, <1>3 DEF QueueOK, Whole
<1>9. Outputs(s, m, y) /\ Open(m, y)
  BY <1>3, OutputsQuiet DEF Outputs, Open
<1>10. /\ Outputs(m, t, y) /\ SameQueue(m, t) /\ t.timers = m.timers \ {"DACK"}
       /\ Len(t.out) = Len(m.out) + 1
  <2>1. u \in Int /\ u <= y.seen
    BY <1>6 DEF QueueOK, QueueTypes
  <2> QED BY <2>1, <1>2, <1>4, <1>9, TransmitSkbFacts
<1>11. Outputs(s, t, y)
  BY <1>9, <1>10, OutputsTrans
<1>12. QueueOK(t, u, y)
  BY <1>7, <1>8, <1>10, SameQueueOK DEF QueueOK
<1>13. t.packets_out > 0 /\ t.write_seq = s.write_seq /\ t.wq = s.wq
  BY <1>1, <1>3, <1>10 DEF SameQueue
<1> QED BY <1>3, <1>10, <1>11, <1>12, <1>13 DEF t

(***************************************************************************)
(* Splitting a buffer.                                                     *)
(***************************************************************************)
(* The two parts a buffer's data is split into. *)
LEMMA SubDataFacts ==
  ASSUME NEW d, IsSeq(d), NEW n \in Nat
  PROVE  /\ IsSeq(SubSeq(d, 1, n)) /\ Len(SubSeq(d, 1, n)) = n
         /\ IsSeq(SubSeq(d, n + 1, Len(d)))
         /\ Len(SubSeq(d, n + 1, Len(d))) = IF n < Len(d) THEN Len(d) - n ELSE 0
<1>1. Len(d) \in Nat
  BY SeqFacts
<1>2. /\ IsSeq(SubSeq(d, 1, n)) /\ Len(SubSeq(d, 1, n)) = IF 1 <= n THEN n - 1 + 1 ELSE 0
  BY SubSeqFacts
<1>3. /\ IsSeq(SubSeq(d, n + 1, Len(d)))
      /\ Len(SubSeq(d, n + 1, Len(d))) = IF n + 1 <= Len(d) THEN Len(d) - (n + 1) + 1 ELSE 0
  BY <1>1, SubSeqFacts
<1> QED BY <1>1, <1>2, <1>3

SameButQueue(s, t) ==
  /\ Record(t) /\ SameLife(s, t) /\ SameQueues(s, t) /\ SameWindow(s, t) /\ t.out = s.out
  /\ t.timers = s.timers
  /\ t.snd_una = s.snd_una /\ t.snd_nxt = s.snd_nxt /\ t.snd_wnd = s.snd_wnd
  /\ t.max_window = s.max_window /\ t.write_seq = s.write_seq
  /\ t.fackets_out = s.fackets_out /\ t.high_seq = s.high_seq

(* The queue after buffer i was split. *)
SplitQueue(s, t, i, u, y) ==
  /\ ChainOK(t.wq, u, y) /\ Len(t.wq) = Len(s.wq) + 1 /\ t.send_head \in 0..Len(t.wq)
  /\ Sent(t) = (IF i <= Sent(s) THEN Sent(s) + 1 ELSE Sent(s))
  /\ t.send_head = (IF s.send_head > i THEN s.send_head + 1 ELSE s.send_head)
  /\ t.retrans_head \in (-1)..Sent(t) /\ Whole(t, u)
  /\ i > 1 => t.wq[1] = s.wq[1]
  /\ i = 1 => t.wq[1].end > s.wq[1].seq

(* atcp_fragment splits a buffer and keeps the queue whole, the counts and *)
(* both pointers.                                                          *)
LEMMA FragmentFacts ==
  ASSUME NEW s, NEW u, NEW y, Record(s), QueueOK(s, u, y), NEW i \in 1..Len(s.wq),
         NEW len \in Int, 1 <= len, len < s.wq[i].end - s.wq[i].seq, len <= Len(s.wq[i].data)
  PROVE  LET t == atcp_fragment(s, i, len)
         IN SameButQueue(s, t) /\ t.packets_out = s.packets_out /\ SplitQueue(s, t, i, u, y)
<1> DEFINE b == s.wq[i]
           head == [b EXCEPT !.data = SubSeq(@, 1, len), !.end = b.seq + len, !.fin = FALSE]
           tail == [b EXCEPT !.data = SubSeq(@, len + 1, Len(@)), !.seq = @ + len,
                             !.cap = Len(b.data) - len, !.retrans = FALSE, !.sacked = FALSE]
           Shift(p) == IF p > i THEN p + 1 ELSE p
           t == atcp_fragment(s, i, len)
           q == Split(s.wq, i, head, tail)
<1>1. /\ Len(s.wq) \in Nat /\ Sent(s) \in 0..Len(s.wq) /\ i \in Nat /\ s.wq # <<>>
      /\ s.send_head # Null => s.send_head \in 1..Len(s.wq) /\ Sent(s) = s.send_head - 1
      /\ s.send_head = Null => Sent(s) = Len(s.wq)
  BY SentFacts DEF QueueOK
<1>2. /\ SkbOK(b, u, y) /\ b.seq \in Int /\ b.end \in Int /\ b.seq < b.end
      /\ Len(b.data) \in Nat /\ b.seq + Len(b.data) <= b.end
  BY ChainFacts DEF QueueOK, QueueTypes
<1>3. /\ IsSeq(SubSeq(b.data, 1, len)) /\ Len(SubSeq(b.data, 1, len)) = len
      /\ IsSeq(SubSeq(b.data, len + 1, Len(b.data)))
      /\ Len(SubSeq(b.data, len + 1, Len(b.data)))
           = IF len < Len(b.data) THEN Len(b.data) - len ELSE 0
  <2>1. IsSeq(b.data) /\ len \in Nat
    BY <1>2 DEF SkbOK, SkbTypes
  <2> HIDE DEF b
  <2> QED BY <2>1, SubDataFacts
<1>4. /\ SkbFields \subseteq DOMAIN head /\ head.seq = b.seq /\ head.end = b.seq + len
      /\ head.data = SubSeq(b.data, 1, len) /\ head.cap = b.cap /\ head.syn = b.syn
      /\ head.ack = b.ack /\ ~head.fin
  BY <1>2 DEF SkbOK, SkbTypes, SkbFields
<1>5. /\ SkbFields \subseteq DOMAIN tail /\ tail.seq = b.seq + len /\ tail.end = b.end
      /\ tail.data = SubSeq(b.data, len + 1, Len(b.data)) /\ tail.cap = Len(b.data) - len
      /\ tail.syn = b.syn /\ tail.ack = b.ack /\ tail.fin = b.fin
  BY <1>2 DEF SkbOK, SkbTypes, SkbFields
<1>6. /\ t = [s EXCEPT !.wq = q, !.send_head = Shift(@), !.retrans_head = Shift(@)]
  BY DEF atcp_fragment, Split
<1>16. /\ \A j \in 1..len : SubSeq(b.data, 1, len)[j] = b.data[j]
       /\ \A j \in 1..(Len(b.data) - len) : SubSeq(b.data, len + 1, Len(b.data))[j] = b.data[len + j]
  <2> HIDE DEF b
  <2> DEFINE d == b.data
  <2>1. Len(d) \in Nat /\ 1 \in Int /\ len + 1 \in Int
    BY <1>2
  <2> HIDE DEF d
  <2>2. /\ \A j \in 1..(len - 1 + 1) : SubSeq(d, 1, len)[j] = d[1 + j - 1]
        /\ \A j \in 1..(Len(d) - (len + 1) + 1) : SubSeq(d, len + 1, Len(d))[j] = d[(len + 1) + j - 1]
    BY <2>1, SubSeqFacts
  <2>3. ASSUME NEW j \in 1..len PROVE SubSeq(d, 1, len)[j] = d[j]
    <3>1. j \in 1..(len - 1 + 1) /\ 1 + j - 1 = j
      OBVIOUS
    <3> QED BY <3>1, <2>2
  <2>4. ASSUME NEW j \in 1..(Len(d) - len) PROVE SubSeq(d, len + 1, Len(d))[j] = d[len + j]
    <3>1. j \in 1..(Len(d) - (len + 1) + 1) /\ (len + 1) + j - 1 = len + j
      BY <2>1
    <3> QED BY <3>1, <2>2
  <2> QED BY <2>3, <2>4 DEF d
<1>17. 1 <= len /\ len < b.end - b.seq /\ len <= Len(b.data)
  OBVIOUS
<1> HIDE DEF b, head, tail, q, t
<1>7. SkbOK(head, u, y) /\ SkbOK(tail, u, y)
  <2>1. len < b.end - b.seq
    BY DEF b
  <2>2. head.seq < head.end /\ head.seq + Len(head.data) <= head.end /\ head.end \in Int
    BY SMTT(30), <1>2, <1>3, <1>4
  <2>13. Len(tail.data) = Len(b.data) - len
    BY <1>2, <1>3, <1>5, <1>17
  <2>3. tail.seq < tail.end /\ tail.seq + Len(tail.data) <= tail.end /\ tail.seq \in Int
    <3> DEFINE p1 == b.seq
               p2 == b.end
               m1 == Len(b.data)
    <3>1. p1 \in Int /\ p2 \in Int /\ m1 \in Int /\ p1 + m1 <= p2 /\ len < p2 - p1
      BY <1>2, <2>1
    <3>2. tail.seq = p1 + len /\ tail.end = p2 /\ Len(tail.data) = m1 - len
      BY <1>5, <2>13
    <3> HIDE DEF p1, p2, m1
    <3> QED BY <3>1, <3>2
  <2>4. tail.cap \in Int
    BY <1>2, <1>5
  <2>5. SkbTypes(head) /\ SkbTypes(tail)
    BY <1>2, <1>3, <1>4, <1>5, <2>2, <2>3, <2>4 DEF SkbOK, SkbTypes
  <2> DEFINE d == b.data
             m == Len(d)
             hd == head.data
             tl == tail.data
  <2>6. /\ InOrder(d, b.seq) /\ b.seq + m <= y.last /\ y.last \in Nat /\ b.seq >= 0 /\ m \in Nat
        /\ Len(hd) = len /\ Len(tl) = m - len /\ b.seq \in Int /\ 1 <= len /\ len <= m
        /\ (\A j \in 1..len : hd[j] = d[j]) /\ \A j \in 1..(m - len) : tl[j] = d[len + j]
    <3>1. Len(tl) = m - len
      BY <2>13
    <3> QED BY <3>1, <1>2, <1>3, <1>4, <1>5, <1>16, <1>17 DEF SkbOK, InStream
  <2>7. ~b.syn /\ b.seq >= 1 /\ b.ack /\ y.up
    <3>1. ~b.syn
      <4>1. b.syn => b.seq = 0 /\ b.end = 1
        BY <1>2 DEF SkbOK, InStream
      <4> QED BY <4>1, <1>17
    <3> QED BY <3>1, <1>2 DEF SkbOK, InStream
  <2>8. b.fin => y.fin /\ b.end = y.last + 1 /\ (b.seq + m = y.last \/ y.last <= u)
    BY <1>2 DEF SkbOK, InStream
  <2>9. ~b.fin => b.end = b.seq + m
    BY <2>7, <1>2 DEF SkbOK, InStream
  <2> HIDE DEF d, m, hd, tl
  <2>10. InOrder(hd, b.seq) /\ InOrder(tl, b.seq + len)
    <3>1. ASSUME NEW j \in 1..len PROVE hd[j] = b.seq + j - 1
      <4>1. j \in 1..m
        BY <2>6
      <4> QED BY <4>1, <2>6 DEF InOrder, m
    <3>2. ASSUME NEW j \in 1..(m - len) PROVE tl[j] = (b.seq + len) + j - 1
      <4>1. len + j \in 1..m
        BY <2>6
      <4>2. d[len + j] = b.seq + (len + j) - 1 /\ tl[j] = d[len + j]
        BY <4>1, <2>6 DEF InOrder, m
      <4> DEFINE k == b.seq
      <4>3. tl[j] = k + (len + j) - 1 /\ k \in Int /\ m \in Nat
        BY <4>2, <2>6
      <4> HIDE DEF k, m
      <4>4. tl[j] = (k + len) + j - 1
        BY <4>3
      <4> QED BY <4>4 DEF k
    <3> QED BY <3>1, <3>2, <2>6 DEF InOrder
  <2>11. InStream(head, u, y)
    <3>1. head.seq >= 1 /\ head.seq + Len(head.data) <= y.last /\ head.end = head.seq + Len(head.data)
      BY <1>4, <2>6, <2>7 DEF hd
    <3>2. ~head.syn /\ head.ack /\ ~head.fin
      BY <1>4, <2>7
    <3>3. InOrder(head.data, head.seq)
      BY <1>4, <2>10 DEF hd
    <3> QED BY <3>1, <3>2, <3>3, <1>4, <2>6, <2>7 DEF InStream
  <2>12. InStream(tail, u, y)
    <3>1. /\ tail.seq >= 1 /\ tail.seq + Len(tail.data) <= y.last
          /\ tail.seq + Len(tail.data) = b.seq + m
      <4> DEFINE k == b.seq
                 g == Len(tail.data)
      <4>1. k \in Int /\ m \in Nat /\ k >= 1 /\ g = m - len /\ k + m <= y.last /\ y.last \in Nat
            /\ 1 <= len /\ len <= m
        BY <2>6, <2>7 DEF tl
      <4>2. tail.seq = k + len
        BY <1>5
      <4> HIDE DEF k, g
      <4>3. tail.seq >= 1 /\ tail.seq + g <= y.last /\ tail.seq + g = k + m
        BY <4>1, <4>2
      <4> QED BY <4>3 DEF k, g
    <3>2. ~tail.syn /\ tail.ack
      BY <1>5, <2>7
    <3>3. ~tail.fin => tail.end = tail.seq + Len(tail.data)
      BY <1>5, <2>9, <3>1
    <3>4. tail.fin => /\ y.fin /\ tail.end = y.last + 1
                      /\ tail.seq + Len(tail.data) = y.last \/ y.last <= u
      BY <1>5, <2>8, <3>1
    <3>5. InOrder(tail.data, tail.seq)
      BY <1>5, <2>10 DEF tl
    <3> QED BY <3>1, <3>2, <3>3, <3>4, <3>5, <1>5, <2>6, <2>7 DEF InStream
  <2> QED BY <2>5, <2>11, <2>12 DEF SkbOK
<1>8. /\ ChainOK(s.wq, u, y) /\ head.seq = s.wq[i].seq /\ head.end = tail.seq
      /\ tail.end = s.wq[i].end /\ s.wq[i].data # <<>>
  <2>1. b.data # <<>>
    BY <1>17, <1>2, EmptyFacts
  <2> QED BY <2>1, <1>4, <1>5 DEF QueueOK, QueueTypes, b
<1>9. ChainOK(q, u, y)
  BY <1>7, <1>8, ChainSplit DEF q
<1>10. /\ Len(q) = Len(s.wq) + 1
       /\ \A j \in 1..(Len(s.wq) + 1) :
            q[j] = IF j < i THEN s.wq[j] ELSE IF j = i THEN head
                   ELSE IF j = i + 1 THEN tail ELSE s.wq[j - 1]
  <2>1. IsSeq(s.wq)
    BY <1>8, ChainFacts
  <2> QED BY <2>1, SplitFacts DEF q
<1>11. /\ SameButQueue(s, t) /\ t.packets_out = s.packets_out
       /\ t.wq = q /\ t.send_head = Shift(s.send_head) /\ t.retrans_head = Shift(s.retrans_head)
  BY <1>6 DEF SameButQueue, Record, Fields, SameLife, SameQueues, SameWindow
<1>12. s.send_head \in Int /\ s.retrans_head \in (-1)..Sent(s)
  BY <1>1 DEF QueueOK, QueueTypes
<1>13. /\ t.send_head \in 0..Len(q)
       /\ Sent(t) = IF i <= Sent(s) THEN Sent(s) + 1 ELSE Sent(s)
       /\ t.retrans_head \in (-1)..Sent(t)
  <2>1. Len(q) = Len(s.wq) + 1 /\ t.wq = q /\ t.send_head = Shift(s.send_head)
        /\ t.retrans_head = Shift(s.retrans_head)
    BY <1>10, <1>11
  <2>2. /\ t.send_head \in 0..Len(q)
        /\ Sent(t) = IF i <= Sent(s) THEN Sent(s) + 1 ELSE Sent(s)
    <3>1. CASE s.send_head = Null
      BY <3>1, <2>1, <1>1, <1>12 DEF Sent, Null
    <3>2. CASE s.send_head # Null
      BY SMTT(30), <3>2, <2>1, <1>1, <1>12 DEF Sent, Null
    <3> QED BY <3>1, <3>2
  <2>3. t.retrans_head \in (-1)..Sent(t)
    BY SMTT(30), <2>1, <2>2, <1>1, <1>12
  <2> QED BY <2>2, <2>3
<1>14. /\ q[1].seq = s.wq[1].seq /\ q[Len(q)].end = s.write_seq
       /\ (i > 1 => q[1] = s.wq[1])
       /\ (i = 1 => q[1].end > s.wq[1].seq)
  <2>1. /\ 1 \in 1..(Len(s.wq) + 1) /\ Len(q) \in 1..(Len(s.wq) + 1)
        /\ s.wq[Len(s.wq)].end = s.write_seq
    BY <1>1, <1>10 DEF QueueOK, Whole
  <2>4. q[Len(q)].end = s.write_seq
    <3>1. CASE Len(s.wq) = i
      <4>1. q[Len(q)] = tail
        BY <3>1, <2>1, <1>1, <1>10
      <4> QED BY <3>1, <4>1, <2>1, <1>5 DEF b
    <3>2. CASE Len(s.wq) # i
      <4>1. q[Len(q)] = s.wq[Len(s.wq)]
        <5>1. ~ (Len(q) < i) /\ Len(q) # i /\ Len(q) # i + 1 /\ Len(q) - 1 = Len(s.wq)
          BY <3>2, <1>1, <1>10
        <5> QED BY <5>1, <2>1, <1>10
      <4> QED BY <4>1, <2>1
    <3> QED BY <3>1, <3>2
  <2>2. CASE i = 1
    <3>1. q[1] = head
      BY <2>1, <2>2, <1>10
    <3>2. head.seq = s.wq[1].seq /\ head.end > s.wq[1].seq
      BY <2>2, <1>2, <1>4 DEF b
    <3> QED BY <2>2, <2>4, <3>1, <3>2
  <2>3. CASE i # 1
    <3>1. q[1] = s.wq[1]
      BY <2>1, <2>3, <1>1, <1>10
    <3> QED BY <2>3, <2>4, <3>1
  <2> QED BY <2>2, <2>3
<1>15. Whole(t, u)
  <2>1. t.wq # <<>>
    BY <1>1, <1>9, <1>10, <1>11, ChainFacts
  <2>2. t.send_head # Null => t.wq[t.send_head].seq = t.snd_nxt
    <3>1. SUFFICES ASSUME s.send_head # Null
                   PROVE  q[Shift(s.send_head)].seq = s.snd_nxt
      BY <1>1, <1>11 DEF SameButQueue, Null
    <3>2. s.send_head \in 1..Len(s.wq) /\ s.wq[s.send_head].seq = s.snd_nxt
      BY <3>1, <1>1 DEF QueueOK, Whole
    <3>3. CASE s.send_head > i
      <4>1. Shift(s.send_head) = s.send_head + 1 /\ s.send_head + 1 \in 1..(Len(s.wq) + 1)
        BY <3>2, <3>3, <1>1
      <4>2. CASE s.send_head + 1 = i + 1
        BY <3>3, <4>2, <3>2, <1>1
      <4>3. CASE s.send_head + 1 # i + 1
        <5>1. q[s.send_head + 1] = s.wq[(s.send_head + 1) - 1] /\ (s.send_head + 1) - 1 = s.send_head
          BY SMTT(30), <4>1, <4>3, <3>2, <3>3, <1>1, <1>10
        <5> QED BY <4>1, <5>1, <3>2
      <4> QED BY <4>2, <4>3
    <3>4. CASE s.send_head = i
      <4>1. Shift(s.send_head) = i /\ q[i] = head
        BY <3>2, <3>4, <1>1, <1>10
      <4> QED BY <4>1, <3>2, <3>4, <1>4 DEF b
    <3>5. CASE s.send_head < i
      <4>1. Shift(s.send_head) = s.send_head /\ s.send_head \in 1..(Len(s.wq) + 1)
        BY <3>2, <3>5, <1>1
      <4>2. q[s.send_head] = s.wq[s.send_head]
        BY <4>1, <3>5, <1>10
      <4> QED BY <4>1, <4>2, <3>2
    <3> QED BY <3>2, <3>3, <3>4, <3>5, <1>1
  <2>3. t.send_head = Null => t.snd_nxt = t.write_seq
    BY <1>1, <1>11, <1>12 DEF SameButQueue, Null, QueueOK, Whole
  <2>4. /\ t.snd_una = s.snd_una /\ t.snd_nxt = s.snd_nxt /\ t.write_seq = s.write_seq /\ t.wq = q
    BY <1>11 DEF SameButQueue
  <2> QED BY <2>1, <2>2, <2>3, <2>4, <1>1, <1>14 DEF QueueOK, Whole
<1> QED BY <1>9, <1>10, <1>11, <1>13, <1>14, <1>15 DEF SplitQueue, t

(* The buffer at the send head. *)
LEMMA FragmentHead ==
  ASSUME NEW s, NEW u, NEW y, Open(s, y), QueueOK(s, u, y), s.send_head # Null,
         NEW len \in Int, 1 <= len, len < s.wq[s.send_head].end - s.wq[s.send_head].seq
  PROVE  LET t == atcp_fragment(s, s.send_head, len)
         IN /\ QueueOK(t, u, y) /\ Outputs(s, t, y) /\ SameButQueue(s, t)
            /\ t.send_head = s.send_head /\ t.packets_out = s.packets_out
            /\ HeadOK(s, u) => HeadOK(t, u)
<1> DEFINE t == atcp_fragment(s, s.send_head, len)
<1>1. s.send_head \in 1..Len(s.wq) /\ Sent(s) = s.send_head - 1 /\ s.packets_out = Sent(s)
      /\ Record(s) /\ s.wq # <<>> /\ Len(s.wq) \in Nat
  BY SentFacts DEF QueueOK, Open
<1>7. len <= Len(s.wq[s.send_head].data)
  <2> DEFINE b == s.wq[s.send_head]
             n == Len(b.data)
  <2>1. SkbOK(b, u, y) /\ b.seq \in Int /\ b.end \in Int /\ n \in Nat
    BY <1>1, ChainFacts DEF QueueOK, QueueTypes
  <2>2. b.seq = s.snd_nxt /\ u \in Nat /\ u <= s.snd_nxt /\ s.snd_nxt \in Nat
        /\ len < b.end - b.seq
    BY DEF QueueOK, QueueTypes, Whole
  <2> HIDE DEF b, n
  <2>3. /\ y.last \in Nat
        /\ b.syn => b.seq = 0 /\ b.end = 1
        /\ ~b.syn /\ ~b.fin => b.end = b.seq + n
        /\ b.fin => b.end = y.last + 1 /\ (b.seq + n = y.last \/ y.last <= u)
    BY <2>1 DEF SkbOK, InStream, n
  <2>7. len <= n
    <3>1. CASE b.syn
      BY <3>1, <2>1, <2>2, <2>3
    <3>2. CASE b.fin
      BY <3>2, <2>1, <2>2, <2>3
    <3>3. CASE ~b.syn /\ ~b.fin
      BY <3>3, <2>1, <2>2, <2>3
    <3> QED BY <3>1, <3>2, <3>3
  <2> QED BY <2>7 DEF b, n
<1>2. SameButQueue(s, t) /\ t.packets_out = s.packets_out /\ SplitQueue(s, t, s.send_head, u, y)
  BY <1>1, <1>7, FragmentFacts
<1> HIDE DEF t
<1>3. Sent(t) = Sent(s) /\ t.send_head = s.send_head
  BY <1>1, <1>2 DEF SplitQueue
<1>4. QueueOK(t, u, y)
  BY <1>1, <1>2, <1>3 DEF SplitQueue, SameButQueue, QueueOK, QueueTypes
<1>5. HeadOK(s, u) => HeadOK(t, u)
  <2>1. CASE s.send_head = 1
    <3>1. s.wq[1].seq = s.snd_nxt /\ u <= s.snd_nxt /\ u \in Nat /\ s.snd_nxt \in Nat
      BY <2>1, <1>1 DEF QueueOK, QueueTypes, Whole
    <3>2. t.wq[1].end > s.wq[1].seq /\ 1 \in 1..Len(t.wq) /\ t.wq[1].end \in Int
      BY <2>1, <1>1, <1>2, ChainFacts DEF SplitQueue
    <3> QED BY <3>1, <3>2 DEF HeadOK
  <2>2. CASE s.send_head # 1
    <3>1. t.wq[1] = s.wq[1]
      BY <2>2, <1>1, <1>2 DEF SplitQueue
    <3> QED BY <3>1, <1>1 DEF HeadOK
  <2> QED BY <2>1, <2>2
<1>6. Outputs(s, t, y)
  BY <1>2, OutputsQuiet DEF SameButQueue, Open
<1> QED BY <1>2, <1>3, <1>4, <1>5, <1>6 DEF t

(***************************************************************************)
(* What the operations of output, and most of input, keep.                 *)
(***************************************************************************)
Grows(s, t, u, y) ==
  /\ QueueOK(t, u, y) /\ Outputs(s, t, y)
  /\ Timed(s) => Timed(t)
  /\ HeadOK(s, u) => HeadOK(t, u)
  /\ s.packets_out > 0 => t.packets_out > 0
Keeps(s, t, u, y) == Grows(s, t, u, y) /\ t.write_seq = s.write_seq

(* Doing nothing keeps everything. *)
LEMMA KeepsRefl ==
  ASSUME NEW s, NEW u, NEW y, Open(s, y), QueueOK(s, u, y)
  PROVE  Keeps(s, s, u, y)
  BY OutputsRefl DEF Keeps, Grows

(* Two steps that keep it are one. *)
LEMMA GrowsTrans ==
  ASSUME NEW r, NEW s, NEW t, NEW u, NEW y, Open(r, y), Grows(r, s, u, y), Grows(s, t, u, y)
  PROVE  Grows(r, t, u, y)
<1>1. Outputs(r, t, y)
  BY OutputsTrans DEF Grows
<1> QED BY <1>1 DEF Grows

(* Also if they leave the last number written alone. *)
LEMMA KeepsTrans ==
  ASSUME NEW r, NEW s, NEW t, NEW u, NEW y, Open(r, y), Keeps(r, s, u, y), Keeps(s, t, u, y)
  PROVE  Keeps(r, t, u, y)
  BY GrowsTrans DEF Keeps

(* A step that touches none of this. *)
LEMMA FrameKeeps ==
  ASSUME NEW s, NEW t, NEW u, NEW y, Open(s, y), QueueOK(s, u, y), StartFields(s, t),
         "RETRANS" \in t.timers <=> "RETRANS" \in s.timers
  PROVE  Keeps(s, t, u, y)
<1>1. Outputs(s, t, y)
  BY OutputsQuiet DEF StartFields, Open
<1>2. /\ QueueOK(t, u, y) /\ t.packets_out = s.packets_out /\ t.write_seq = s.write_seq
      /\ HeadOK(s, u) => HeadOK(t, u)
  BY SameQueueOK DEF StartFields
<1>3. Timed(s) => Timed(t)
  BY <1>2 DEF Timed, StartFields, SameLife
<1> QED BY <1>1, <1>2, <1>3 DEF Keeps, Grows

(* Something was sent, and the timer is started for it. *)
Ready(s, t, u, y) ==
  /\ QueueOK(t, u, y) /\ Outputs(s, t, y)
  /\ HeadOK(s, u) => HeadOK(t, u)
  /\ t.packets_out > 0

(* Sending and then starting the retransmission timer keeps it. *)
LEMMA StartKeeps ==
  ASSUME NEW s, NEW t, NEW u, NEW y, Open(s, y), Ready(s, t, u, y)
  PROVE  Grows(s, StartRetrans(t), u, y) /\ StartRetrans(t).write_seq = t.write_seq
<1> DEFINE z == StartRetrans(t)
<1>1. Open(t, y) /\ Record(t) /\ SegmentsOK(t.out, y)
  BY DEF Ready, Outputs, Open
<1>2. StartFields(t, z) /\ "RETRANS" \in z.timers
  BY <1>1, StartFacts
<1> HIDE DEF z
<1>3. Outputs(t, z, y)
  BY <1>1, <1>2, OutputsQuiet DEF StartFields
<1>4. /\ QueueOK(z, u, y) /\ z.packets_out = t.packets_out
      /\ HeadOK(t, u) => HeadOK(z, u)
  BY <1>2, SameQueueOK DEF StartFields, Ready
<1>5. z.write_seq = t.write_seq
  BY <1>2 DEF StartFields, SameQueue
<1>6. Timed(z)
  BY <1>2, <1>4 DEF Timed, Ready
<1>7. Outputs(s, z, y)
  BY <1>3, OutputsTrans DEF Ready
<1> QED BY <1>4, <1>5, <1>6, <1>7 DEF Keeps, Grows, Ready, z

(* Starting it only where it is off does as well. *)
LEMMA EnsureKeeps ==
  ASSUME NEW s, NEW t, NEW u, NEW y, Open(s, y), Ready(s, t, u, y)
  PROVE  Grows(s, EnsureRetrans(t), u, y) /\ EnsureRetrans(t).write_seq = t.write_seq
<1>1. CASE "RETRANS" \in t.timers
  <2>1. Grows(s, t, u, y)
    BY <1>1 DEF Grows, Ready, Timed
  <2> QED BY <1>1, <2>1 DEF EnsureRetrans
<1>2. CASE "RETRANS" \notin t.timers
  BY <1>2, StartKeeps DEF EnsureRetrans
<1> QED BY <1>1, <1>2

(* The head of the queue goes out. *)
LEMMA SendHeadReady ==
  ASSUME NEW r, NEW s, NEW u, NEW y, Open(r, y), QueueOK(s, u, y), Outputs(r, s, y),
         HeadOK(r, u) => HeadOK(s, u), s.send_head # Null
  PROVE  /\ Ready(r, SendHead(s), u, y) /\ Len(SendHead(s).out) = Len(s.out) + 1
         /\ SendHead(s).write_seq = s.write_seq
<1> DEFINE t == SendHead(s)
<1>1. Open(s, y)
  BY DEF Outputs
<1>2. /\ QueueOK(t, u, y) /\ Outputs(s, t, y) /\ t.packets_out > 0
      /\ Len(t.out) = Len(s.out) + 1 /\ t.write_seq = s.write_seq /\ t.wq = s.wq
  BY <1>1, SendHeadFacts
<1> HIDE DEF t
<1>3. Outputs(r, t, y)
  BY <1>2, OutputsTrans
<1> QED BY <1>2, <1>3 DEF Ready, HeadOK, t

(***************************************************************************)
(* Sending.                                                                *)
(***************************************************************************)
(* Setting the probe timer keeps it. *)
LEMMA ArmProbeKeeps ==
  ASSUME NEW s, NEW u, NEW y, Open(s, y), QueueOK(s, u, y)
  PROVE  Keeps(s, ArmProbe(s), u, y)
<1>1. StartFields(s, ArmProbe(s))
  BY DEF Open, ArmProbe, atcp_reset_xmit_timer, StartFields, Record, Fields, SameLife,
     SameQueue, SameQueues, SameWindow
<1>2. "RETRANS" \in ArmProbe(s).timers <=> "RETRANS" \in s.timers
  BY DEF Open, ArmProbe, atcp_reset_xmit_timer, Record, Fields
<1> QED BY <1>1, <1>2, FrameKeeps

(* The segment size is a number, and at least 1. *)
LEMMA MssFacts ==
  ASSUME NEW s, NEW y, Open(s, y)
  PROVE  atcp_current_mss(s) \in Nat /\ atcp_current_mss(s) >= 1
<1>1. Len(s.sacks) \in Nat
  BY SeqFacts DEF Open, ReceiverOK
<1>2. \A j \in Nat : SackRoom * j \in Nat
  BY AtcpConstants
<1>3. SackRoom * Len(s.sacks) \in Nat
  BY <1>1, <1>2
<1> DEFINE r == SackRoom * Len(s.sacks)
<1>4. atcp_current_mss(s) = IF SackOk THEN Larger(1, Mss - r) ELSE Mss
  BY DEF atcp_current_mss
<1>5. r \in Nat /\ Mss \in Nat /\ Mss >= 2
  BY <1>3, AtcpConstants
<1> HIDE DEF r
<1> QED BY <1>4, <1>5 DEF Larger

XmitTurn(mss, i, x) ==
  IF x.send_head = Null \/ ~atcp_snd_test(x, x.wq[x.send_head]) THEN x
  ELSE SendHead(IF Len(x.wq[x.send_head].data) > mss
                THEN atcp_fragment(x, x.send_head, mss) ELSE x)
XmitRel(p, i, x) ==
  x = p.s \/ /\ Ready(p.s, x, p.u, p.y) /\ Len(x.out) > Len(p.s.out)
              /\ x.write_seq = p.s.write_seq
Xmit == INSTANCE Iteration WITH Step <- XmitTurn, Rel <- XmitRel

(* One turn of the loop of atcp_write_xmit: nothing, or one buffer, split  *)
(* to fit, is sent.                                                        *)
LEMMA XmitTurnFacts ==
  ASSUME NEW p, Open(p.s, p.y), QueueOK(p.s, p.u, p.y), NEW mss \in Nat, mss >= 1,
         NEW i, NEW j, NEW x, XmitRel(p, i, x)
  PROVE  XmitRel(p, j, XmitTurn(mss, j, x))
<1>1. /\ Open(x, p.y) /\ QueueOK(x, p.u, p.y) /\ Outputs(p.s, x, p.y)
      /\ x.write_seq = p.s.write_seq /\ (HeadOK(p.s, p.u) => HeadOK(x, p.u))
      /\ Len(x.out) >= Len(p.s.out) /\ Len(x.out) \in Nat /\ Len(p.s.out) \in Nat
  <2>1. Len(p.s.out) \in Nat
    BY SeqFacts DEF Open, SegmentsOK
  <2>2. CASE x = p.s
    BY <2>1, <2>2, OutputsRefl DEF QueueOK, QueueTypes
  <2>3. CASE x # p.s
    <3>1. Ready(p.s, x, p.u, p.y) /\ Len(x.out) > Len(p.s.out) /\ x.write_seq = p.s.write_seq
      BY <2>3 DEF XmitRel
    <3>2. Open(x, p.y)
      BY <3>1 DEF Ready, Outputs
    <3>3. Len(x.out) \in Nat
      BY <3>2, SeqFacts DEF Open, SegmentsOK
    <3>4. Len(x.out) >= Len(p.s.out)
      BY <3>1, <3>3, <2>1
    <3> QED BY <3>1, <3>2, <3>3, <3>4, <2>1 DEF Ready
  <2> QED BY <2>2, <2>3
<1>2. CASE x.send_head = Null \/ ~atcp_snd_test(x, x.wq[x.send_head])
  BY <1>2 DEF XmitTurn, XmitRel
<1>3. CASE ~(x.send_head = Null \/ ~atcp_snd_test(x, x.wq[x.send_head]))
  <2> DEFINE b == x.wq[x.send_head]
             f == IF Len(b.data) > mss THEN atcp_fragment(x, x.send_head, mss) ELSE x
  <2>1. XmitTurn(mss, j, x) = SendHead(f) /\ x.send_head # Null
    BY <1>3 DEF XmitTurn
  <2>2. /\ QueueOK(f, p.u, p.y) /\ Outputs(x, f, p.y) /\ f.write_seq = x.write_seq
        /\ f.send_head # Null /\ (HeadOK(x, p.u) => HeadOK(f, p.u)) /\ f.out = x.out
    <3>1. CASE Len(b.data) > mss
      <4>1. x.send_head \in 1..Len(x.wq)
        BY <2>1, <1>1, SentFacts DEF QueueOK
      <4>2. /\ b.seq \in Int /\ b.end \in Int /\ Len(b.data) \in Nat
            /\ b.seq + Len(b.data) <= b.end
        BY <4>1, <1>1, ChainFacts DEF QueueOK, QueueTypes
      <4> HIDE DEF b
      <4>3. mss < b.end - b.seq /\ 1 <= mss /\ mss \in Int
        BY <4>2, <3>1
      <4>4. f = atcp_fragment(x, x.send_head, mss)
        BY <3>1
      <4> HIDE DEF f
      <4> USE DEF b
      <4>5. /\ QueueOK(f, p.u, p.y) /\ Outputs(x, f, p.y) /\ SameButQueue(x, f)
            /\ f.send_head = x.send_head /\ (HeadOK(x, p.u) => HeadOK(f, p.u))
        BY <4>3, <4>4, <2>1, <1>1, FragmentHead
      <4> QED BY <4>5, <2>1 DEF SameButQueue
    <3>2. CASE ~(Len(b.data) > mss)
      <4>1. f = x
        BY <3>2
      <4> HIDE DEF f
      <4>2. Outputs(x, x, p.y)
        BY <1>1, OutputsRefl
      <4> QED BY <4>1, <4>2, <2>1, <1>1
    <3> QED BY <3>1, <3>2
  <2> HIDE DEF f, b
  <2>3. Outputs(p.s, f, p.y) /\ Open(f, p.y)
    BY <2>2, <1>1, OutputsTrans DEF Outputs
  <2>4. /\ Ready(p.s, SendHead(f), p.u, p.y) /\ Len(SendHead(f).out) = Len(f.out) + 1
        /\ SendHead(f).write_seq = p.s.write_seq
    BY <2>2, <2>3, <1>1, SendHeadReady
  <2>5. Len(SendHead(f).out) > Len(p.s.out)
    BY <2>2, <2>4, <1>1
  <2> QED BY <2>1, <2>4, <2>5 DEF XmitRel
<1> QED BY <1>2, <1>3

(* atcp_write_xmit keeps it, and starts the retransmission timer if it     *)
(* sent anything.                                                          *)
LEMMA WriteXmitKeeps ==
  ASSUME NEW s, NEW u, NEW y, Open(s, y), QueueOK(s, u, y)
  PROVE  Keeps(s, atcp_write_xmit(s), u, y)
<1> DEFINE p == [s |-> s, u |-> u, y |-> y]
           mss == atcp_current_mss(s)
           n == s.write_seq - s.snd_nxt
           r == Xmit!Result(mss, s, n)
<1>1. p.s = s /\ p.u = u /\ p.y = y
  OBVIOUS
<1>2. mss \in Nat /\ mss >= 1
  BY MssFacts
<1>3. n \in Nat
  <2>1. s.write_seq \in Nat /\ s.snd_nxt \in Nat
    BY DEF QueueOK, QueueTypes
  <2>2. s.snd_nxt <= s.write_seq
    BY NextBelowEnd
  <2> QED BY <2>1, <2>2
<1>4. atcp_write_xmit(s) = IF s.zapped THEN s ELSE SentSince(r, s)
  BY DEF atcp_write_xmit, Repeat, Xmit!Result, XmitTurn
<1> HIDE DEF p, mss, n
<1>5. XmitRel(p, 0, s)
  BY <1>1 DEF XmitRel
<1>6. \A i \in 1..n : \A x : XmitRel(p, i - 1, x) => XmitRel(p, i, XmitTurn(mss, i, x))
  BY <1>1, <1>2, XmitTurnFacts
<1>7. XmitRel(p, n, r)
  BY <1>3, <1>5, <1>6, Xmit!AfterTurns
<1> HIDE DEF r
<1>8. Keeps(s, s, u, y)
  BY KeepsRefl
<1>9. r = s \/ (Ready(s, r, u, y) /\ r.out # s.out /\ r.write_seq = s.write_seq)
  <2>1. r = s \/ (Ready(s, r, u, y) /\ Len(r.out) > Len(s.out) /\ r.write_seq = s.write_seq)
    BY <1>1, <1>7 DEF XmitRel
  <2>2. Len(s.out) \in Nat
    BY SeqFacts DEF Open, SegmentsOK
  <2> QED BY <2>1, <2>2
<1>10. CASE r = s
  BY <1>4, <1>8, <1>10 DEF SentSince
<1>11. CASE r # s
  <2>1. Keeps(s, EnsureRetrans(r), u, y)
    BY <1>9, <1>11, EnsureKeeps DEF Keeps
  <2> QED BY <1>4, <1>8, <1>9, <1>11, <2>1 DEF SentSince
<1> QED BY <1>10, <1>11

(* atcp_push_pending_frames keeps it. *)
LEMMA PushKeeps ==
  ASSUME NEW s, NEW u, NEW y, Open(s, y), QueueOK(s, u, y)
  PROVE  Keeps(s, atcp_push_pending_frames(s), u, y)
  BY KeepsRefl, WriteXmitKeeps, ArmProbeKeeps DEF atcp_push_pending_frames

(* atcp_data_snd_check keeps it. *)
LEMMA DataSndCheckKeeps ==
  ASSUME NEW s, NEW u, NEW y, Open(s, y), QueueOK(s, u, y)
  PROVE  Keeps(s, atcp_data_snd_check(s), u, y)
<1>1. Keeps(s, atcp_reset_xmit_timer(s, "PROBE0"), u, y)
  <2>1. StartFields(s, atcp_reset_xmit_timer(s, "PROBE0"))
    BY DEF Open, atcp_reset_xmit_timer, StartFields, Record, Fields, SameLife,
       SameQueue, SameQueues, SameWindow
  <2>2. "RETRANS" \in atcp_reset_xmit_timer(s, "PROBE0").timers <=> "RETRANS" \in s.timers
    BY DEF Open, atcp_reset_xmit_timer, Record, Fields
  <2> QED BY <2>1, <2>2, FrameKeeps
<1> QED BY <1>1, KeepsRefl, WriteXmitKeeps DEF atcp_data_snd_check

(* A segment that is not from the queue. *)
LEMMA TransmitKeeps ==
  ASSUME NEW s, NEW u, NEW y, Open(s, y), QueueOK(s, u, y), NEW seq \in Int, NEW flags,
         (flags = {"ACK"} /\ y.up) \/ flags = {"RST", "ACK"}
  PROVE  Keeps(s, atcp_transmit(s, seq, <<>>, flags), u, y)
<1> DEFINE t == atcp_transmit(s, seq, <<>>, flags)
           h == Header(seq, <<>>, flags)
<1>4. Carries(h, y)
  <2>1. h.data = <<>> /\ ~h.syn /\ ~h.fin /\ h.ack /\ (y.up \/ h.rst)
    BY Zenon DEF Header
  <2>2. InOrder(<<>>, h.seq)
    BY EmptyFacts DEF InOrder
  <2> HIDE DEF h
  <2> QED BY Zenon, <2>1, <2>2 DEF Carries
<1>1. Outputs(s, t, y) /\ SameQueue(s, t) /\ t.timers = s.timers \ {"DACK"}
  BY <1>4, TransmitFacts, EmptyFacts
<1> HIDE DEF t
<1>2. /\ QueueOK(t, u, y) /\ t.packets_out = s.packets_out /\ t.write_seq = s.write_seq
      /\ HeadOK(s, u) => HeadOK(t, u)
  BY <1>1, SameQueueOK
<1>3. Timed(s) => Timed(t)
  BY <1>1, <1>2 DEF Timed, Outputs, SameLife
<1> QED BY <1>1, <1>2, <1>3 DEF Keeps, Grows, t

(* atcp_send_ack keeps it. *)
LEMMA SendAckKeeps ==
  ASSUME NEW s, NEW u, NEW y, Open(s, y), QueueOK(s, u, y), y.up
  PROVE  Keeps(s, atcp_send_ack(s), u, y)
<1>1. s.snd_nxt \in Int
  BY DEF QueueOK, QueueTypes
<1> QED BY <1>1, KeepsRefl, TransmitKeeps DEF atcp_send_ack

(***************************************************************************)
(* New buffers.                                                            *)
(***************************************************************************)
(* A buffer is not empty: it has bytes, or a SYN or FIN. *)
LEMMA SkbFacts ==
  ASSUME NEW seq \in Nat, NEW data, IsSeq(data), NEW cap \in Int, NEW flags, NEW y, ViewOK(y),
         \/ /\ flags = {"ACK"} /\ data # <<>> /\ y.up /\ seq >= 1
            /\ InOrder(data, seq) /\ seq + Len(data) <= y.last
         \/ flags = {"SYN"} /\ data = <<>> /\ y.calls /\ seq = 0
         \/ flags = {"ACK", "FIN"} /\ data = <<>> /\ y.up /\ y.fin /\ seq = y.last,
         NEW u
  PROVE  LET b == Skb(seq, data, cap, flags)
         IN /\ SkbOK(b, u, y) /\ b.seq = seq /\ (b.syn => "SYN" \in flags)
            /\ b.end = IF flags = {"ACK"} THEN seq + Len(data) ELSE seq + 1
<1> DEFINE rest == flags \ {"ACK"}
           n == Cardinality(rest)
           b == Skb(seq, data, cap, flags)
<1>1. n \in Nat /\ (flags # {"ACK"} => n = 1) /\ (flags = {"ACK"} => n = 0)
  <2> HIDE DEF rest
  <2>1. CASE flags = {"ACK"}
    <3>1. rest = {}
      BY <2>1 DEF rest
    <3> QED BY <2>1, <3>1, FS_EmptySet
  <2>2. CASE flags = {"SYN"}
    <3>1. rest = {"SYN"} /\ flags # {"ACK"}
      BY <2>2 DEF rest
    <3>2. Cardinality({"SYN"}) = 1
      BY FS_Singleton
    <3> QED BY <3>1, <3>2
  <2>3. CASE flags = {"ACK", "FIN"}
    <3>1. rest = {"FIN"} /\ flags # {"ACK"}
      BY <2>3 DEF rest
    <3>2. Cardinality({"FIN"}) = 1
      BY FS_Singleton
    <3> QED BY <3>1, <3>2
  <2> QED BY <2>1, <2>2, <2>3
<1>2. Len(data) \in Nat /\ (data = <<>> <=> Len(data) = 0)
  BY SeqFacts
<1>3. /\ SkbFields \subseteq DOMAIN b /\ b.seq = seq /\ b.data = data /\ b.cap = cap
      /\ b.end = seq + Len(data) + n
      /\ b.syn <=> "SYN" \in flags
      /\ b.fin <=> "FIN" \in flags
      /\ b.ack <=> "ACK" \in flags
  BY DEF Skb, SkbFields
<1> HIDE DEF n, b
<1>8. y.last \in Nat /\ y.last >= 1 /\ Len(<<>>) = 0
  BY EmptyFacts DEF ViewOK
<1>9. InOrder(<<>>, seq)
  BY EmptyFacts DEF InOrder
<1>4. CASE /\ flags = {"ACK"} /\ data # <<>> /\ y.up /\ seq >= 1
           /\ InOrder(data, seq) /\ seq + Len(data) <= y.last
  <2>1. ~b.syn /\ ~b.fin /\ b.ack
    BY <1>3, <1>4, Zenon
  <2>2. b.end = seq + Len(data)
    BY <1>1, <1>2, <1>3, <1>4
  <2>3. SkbTypes(b)
    BY <1>2, <1>3, <1>4, <2>2 DEF SkbTypes
  <2>4. InStream(b, u, y)
    BY <1>3, <1>4, <1>8, <2>1, <2>2 DEF InStream
  <2> QED BY <1>3, <1>4, <2>1, <2>2, <2>3, <2>4 DEF SkbOK, b
<1>5. CASE flags = {"SYN"} /\ data = <<>> /\ y.calls /\ seq = 0
  <2>1. b.syn /\ ~b.fin /\ ~b.ack /\ flags # {"ACK"} /\ "SYN" \in flags
    BY <1>3, <1>5, Zenon
  <2>2. b.end = seq + 1
    BY <1>1, <1>2, <1>3, <1>5, <2>1
  <2>3. SkbTypes(b)
    BY <1>2, <1>3, <1>5, <1>8, <2>2 DEF SkbTypes
  <2>4. InStream(b, u, y)
    BY <1>3, <1>5, <1>8, <1>9, <2>1, <2>2 DEF InStream
  <2> QED BY <1>3, <1>5, <2>1, <2>2, <2>3, <2>4 DEF SkbOK, b
<1>6. CASE flags = {"ACK", "FIN"} /\ data = <<>> /\ y.up /\ y.fin /\ seq = y.last
  <2>1. ~b.syn /\ b.fin /\ b.ack /\ flags # {"ACK"}
    BY <1>3, <1>6, Zenon
  <2>2. b.end = seq + 1
    BY <1>1, <1>2, <1>3, <1>6, <2>1
  <2>3. SkbTypes(b)
    BY <1>2, <1>3, <1>6, <1>8, <2>2 DEF SkbTypes
  <2>4. InStream(b, u, y)
    BY <1>3, <1>6, <1>8, <1>9, <2>1, <2>2 DEF InStream
  <2> QED BY <1>3, <1>6, <2>1, <2>2, <2>3, <2>4 DEF SkbOK, b
<1> QED BY <1>4, <1>5, <1>6

(* A buffer more in the queue, at the send head if nothing was there. *)
Queued(s, b) ==
  [s EXCEPT !.write_seq = @ + (b.end - b.seq), !.wq = Append(@, b),
            !.send_head = IF s.send_head = Null THEN Len(s.wq) + 1 ELSE s.send_head]

(* A buffer at the end of the write queue, with write_seq behind it, keeps *)
(* the queue whole.                                                        *)
LEMMA QueuedFacts ==
  ASSUME NEW s, NEW u, NEW y, Open(s, y), QueueOK(s, u, y), NEW b, SkbOK(b, u, y),
         b.seq = s.write_seq, ~b.syn
  PROVE  LET t == Queued(s, b)
         IN /\ QueueOK(t, u, y) /\ Outputs(s, t, y) /\ t.write_seq = b.end
            /\ (HeadOK(s, u) => HeadOK(t, u)) /\ t.packets_out = s.packets_out
            /\ t.timers = s.timers /\ t.send_head # Null
<1> DEFINE n == Len(s.wq)
           t == Queued(s, b)
<1>1. /\ n \in Nat /\ Sent(s) \in 0..n /\ (s.wq = <<>> <=> n = 0)
      /\ s.send_head # Null => s.send_head \in 1..n /\ Sent(s) = s.send_head - 1
      /\ s.send_head = Null => Sent(s) = n
  BY SentFacts DEF QueueOK
<1>2. /\ Record(t) /\ SameLife(s, t) /\ SameQueues(s, t) /\ SameWindow(s, t)
      /\ t.out = s.out /\ t.timers = s.timers
      /\ t.wq = Append(s.wq, b) /\ t.retrans_head = s.retrans_head /\ t.snd_una = s.snd_una
      /\ t.snd_nxt = s.snd_nxt
      /\ t.snd_wnd = s.snd_wnd /\ t.max_window = s.max_window
      /\ t.write_seq = s.write_seq + (b.end - b.seq)
      /\ t.fackets_out = s.fackets_out /\ t.high_seq = s.high_seq
      /\ t.packets_out = s.packets_out
      /\ t.send_head = IF s.send_head = Null THEN n + 1 ELSE s.send_head
  BY DEF Queued, Record, Fields, SameLife, SameQueues, SameWindow, Open
<1>3. IsSeq(s.wq) /\ ChainOK(s.wq, u, y)
  BY ChainFacts DEF QueueOK, QueueTypes
<1>4. /\ Len(t.wq) = n + 1 /\ t.wq[n + 1] = b
      /\ \A i \in 1..n : t.wq[i] = s.wq[i]
  BY <1>2, <1>3, AppendFacts
<1> HIDE DEF t, n
<1>5. s.wq # <<>> => s.wq[Len(s.wq)].end = b.seq
  BY DEF QueueOK, Whole
<1>6. ChainOK(t.wq, u, y)
  BY <1>2, <1>3, <1>5, ChainAppend
<1>7. b.seq \in Nat /\ b.end \in Nat /\ b.seq < b.end /\ t.write_seq = b.end
  BY SMTT(30), <1>2 DEF SkbOK, SkbTypes, QueueOK, QueueTypes
<1>8. t.send_head \in 0..(n + 1) /\ t.send_head # Null /\ Sent(t) = Sent(s)
  BY <1>1, <1>2, <1>4 DEF Sent, Null
<1>9. QueueTypes(t, u, y)
  <2>1. t.packets_out = Sent(t) /\ t.retrans_head \in (-1)..Sent(t)
    BY <1>2, <1>8 DEF QueueOK, QueueTypes
  <2>2. s.snd_nxt >= 1
    <3>1. b.seq >= 1 /\ s.snd_nxt \in Nat /\ u \in Nat /\ u <= s.snd_nxt
      BY DEF SkbOK, InStream, QueueOK, QueueTypes, Whole
    <3>2. s.wq = <<>> => u = b.seq
      BY DEF QueueOK, Whole
    <3>3. s.wq # <<>> => s.snd_nxt >= 1
      BY DEF QueueOK, QueueTypes
    <3> QED BY <3>1, <3>2, <3>3, <1>7
  <2> QED BY <2>1, <2>2, <1>2, <1>4, <1>6, <1>7, <1>8 DEF QueueOK, QueueTypes
<1>10. /\ u \in Nat /\ u <= b.seq /\ u < b.end
       /\ s.wq = <<>> => u = b.seq
  <2>1. u \in Nat /\ s.snd_nxt \in Nat /\ u <= s.snd_nxt /\ (s.wq = <<>> => u = s.write_seq)
    BY DEF QueueOK, QueueTypes, Whole
  <2>2. s.snd_nxt <= s.write_seq
    BY NextBelowEnd
  <2> QED BY <2>1, <2>2, <1>7
<1>11. Whole(t, u)
  <2>1. t.wq # <<>> /\ t.wq[Len(t.wq)].end = t.write_seq /\ u < t.write_seq
    BY <1>1, <1>4, <1>6, <1>7, <1>10, ChainFacts
  <2>2. t.wq[1].seq <= u
    <3>1. CASE n = 0
      BY <3>1, <1>1, <1>4, <1>7, <1>10
    <3>2. CASE n # 0
      <4>1. t.wq[1] = s.wq[1] /\ s.wq # <<>>
        BY <3>2, <1>1, <1>4
      <4> QED BY <4>1 DEF QueueOK, Whole
    <3> QED BY <3>1, <3>2
  <2>3. t.wq[t.send_head].seq = t.snd_nxt
    <3>1. CASE s.send_head = Null
      BY <3>1, <1>2, <1>4 DEF QueueOK, Whole
    <3>2. CASE s.send_head # Null
      BY <3>2, <1>1, <1>2, <1>4 DEF QueueOK, Whole, n
    <3> QED BY <3>1, <3>2
  <2>4. t.snd_una = s.snd_una /\ t.snd_nxt = s.snd_nxt
    BY <1>2
  <2> QED BY <2>1, <2>2, <2>3, <2>4, <1>8 DEF QueueOK, Whole
<1>12. HeadOK(s, u) => HeadOK(t, u)
  <2>1. CASE n = 0
    BY <2>1, <1>4, <1>10 DEF HeadOK
  <2>2. CASE n # 0
    <3>1. t.wq[1] = s.wq[1] /\ s.wq # <<>>
      BY <2>2, <1>1, <1>4
    <3> QED BY <3>1 DEF HeadOK
  <2> QED BY <2>1, <2>2
<1>13. Outputs(s, t, y)
  BY <1>2, OutputsQuiet DEF Open
<1>14. t.write_seq = b.end
  BY <1>7
<1> QED BY <1>2, <1>8, <1>9, <1>11, <1>12, <1>13, <1>14 DEF QueueOK, t

(* atcp_send_skb keeps it, whether it sends the buffer or leaves it at the *)
(* send head.                                                              *)
LEMMA SendSkbKeeps ==
  ASSUME NEW s, NEW u, NEW y, Open(s, y), QueueOK(s, u, y), NEW b, SkbOK(b, u, y),
         b.seq = s.write_seq, ~b.syn, NEW force
  PROVE  /\ Grows(s, atcp_send_skb(s, b, force), u, y)
         /\ atcp_send_skb(s, b, force).write_seq = b.end
<1> DEFINE k == Queued(s, b)
           q == [s EXCEPT !.write_seq = @ + (b.end - b.seq), !.wq = Append(@, b)]
           h == [q EXCEPT !.send_head = Len(q.wq)]
<1>1. /\ QueueOK(k, u, y) /\ Outputs(s, k, y) /\ k.write_seq = b.end
      /\ (HeadOK(s, u) => HeadOK(k, u)) /\ k.packets_out = s.packets_out
      /\ k.timers = s.timers /\ k.send_head # Null
  BY QueuedFacts
<1>2. Record(s) /\ Len(Append(s.wq, b)) = Len(s.wq) + 1
  BY AppendFacts, ChainFacts DEF Open, QueueOK, QueueTypes
<1>3. /\ s.send_head = Null => k = h
      /\ s.send_head # Null => k = q
  BY <1>2 DEF Queued, Record, Fields
<1>4. atcp_send_skb(s, b, force)
        \in {EnsureRetrans(SendHead(h)), IF s.send_head = Null THEN h ELSE q,
             ArmProbe(IF s.send_head = Null THEN h ELSE q)}
      /\ \/ atcp_send_skb(s, b, force) = EnsureRetrans(SendHead(h)) /\ s.send_head = Null
         \/ atcp_send_skb(s, b, force) \in
              {IF s.send_head = Null THEN h ELSE q, ArmProbe(IF s.send_head = Null THEN h ELSE q)}
  BY DEF atcp_send_skb
<1>5. atcp_send_skb(s, b, force) \in {EnsureRetrans(SendHead(k)), k, ArmProbe(k)}
  BY <1>3, <1>4
<1> HIDE DEF k, q, h
<1>6. Open(k, y)
  BY <1>1 DEF Outputs
<1>7. Grows(s, k, u, y)
  BY <1>1 DEF Grows, Timed, Outputs, SameLife
<1>8. Grows(s, ArmProbe(k), u, y) /\ ArmProbe(k).write_seq = b.end
  BY <1>1, <1>6, <1>7, ArmProbeKeeps, GrowsTrans DEF Keeps
<1>9. /\ Grows(s, EnsureRetrans(SendHead(k)), u, y)
      /\ EnsureRetrans(SendHead(k)).write_seq = b.end
  <2>1. Ready(s, SendHead(k), u, y) /\ SendHead(k).write_seq = b.end
    BY <1>1, SendHeadReady
  <2> QED BY <2>1, EnsureKeeps
<1> QED BY <1>1, <1>5, <1>7, <1>8, <1>9

(***************************************************************************)
(* The FIN.                                                                *)
(***************************************************************************)
(* The last buffer, which is not sent yet, grows at its end. *)
LEMMA GrowFacts ==
  ASSUME NEW s, NEW u, NEW y, Open(s, y), QueueOK(s, u, y), s.send_head # Null,
         NEW b, SkbOK(b, u, y), b.seq = s.wq[Len(s.wq)].seq, b.end >= s.write_seq,
         s.wq[Len(s.wq)].data = <<>> => b.data = <<>> \/ Len(s.wq) = 1,
         b.retrans = s.wq[Len(s.wq)].retrans,
         NEW t, Record(t), SameLife(s, t), SameQueues(s, t), SameWindow(s, t), t.out = s.out,
         t.timers = s.timers, t.wq = [s.wq EXCEPT ![Len(s.wq)] = b],
         t.retrans_head = s.retrans_head, t.snd_una = s.snd_una, t.snd_nxt = s.snd_nxt,
         t.snd_wnd = s.snd_wnd, t.max_window = s.max_window, t.write_seq = b.end,
         t.fackets_out = s.fackets_out, t.high_seq = s.high_seq,
         t.packets_out = s.packets_out, t.send_head = s.send_head
  PROVE  /\ QueueOK(t, u, y) /\ Outputs(s, t, y)
         /\ HeadOK(s, u) => HeadOK(t, u)
<1> DEFINE n == Len(s.wq)
<1>1. /\ n \in Nat /\ n \in 1..n /\ s.wq # <<>> /\ s.send_head \in 1..n
      /\ Sent(s) = s.send_head - 1
  BY SentFacts DEF QueueOK
<1>2. ChainOK(s.wq, u, y) /\ s.wq[n].end = s.write_seq
  BY <1>1 DEF QueueOK, QueueTypes, Whole
<1>3. n > 1 => Link(s.wq[n - 1], b, u)
  <2>1. SUFFICES ASSUME n > 1 PROVE Link(s.wq[n - 1], b, u)
    OBVIOUS
  <2>2. n - 1 \in 1..n /\ (n - 1) + 1 = n
    BY <2>1, <1>1
  <2>3. \A i \in 1..n : i + 1 <= n => Link(s.wq[i], s.wq[i + 1], u)
    BY <1>2, ChainFacts
  <2> HIDE DEF n
  <2>4. Link(s.wq[n - 1], s.wq[(n - 1) + 1], u)
    BY <2>2, <2>3, <1>1
  <2>5. Link(s.wq[n - 1], s.wq[n], u)
    BY <2>2, <2>4
  <2>6. s.wq[n].data = <<>> => b.data = <<>>
    BY <2>1, <1>1 DEF n
  <2> USE DEF n
  <2> QED BY <2>5, <2>6 DEF Link
<1>4. /\ ChainOK(t.wq, u, y) /\ Len(t.wq) = n
      /\ \A j \in 1..n : t.wq[j] = IF j = n THEN b ELSE s.wq[j]
  BY <1>1, <1>2, <1>3, ChainReplace
<1>5. Sent(t) = Sent(s)
  BY <1>4 DEF Sent
<1>6. b.end \in Nat /\ s.write_seq \in Nat
  BY DEF SkbOK, SkbTypes, QueueOK, QueueTypes
<1>7. QueueTypes(t, u, y)
  BY <1>4, <1>5, <1>6 DEF QueueOK, QueueTypes
<1>8. t.wq # <<>> /\ t.wq[Len(t.wq)].end = t.write_seq /\ t.wq[1].seq = s.wq[1].seq
      /\ t.wq[t.send_head].seq = s.wq[s.send_head].seq
  <2>1. t.wq # <<>>
    BY <1>1, <1>4, ChainFacts
  <2>2. 1 \in 1..n
    BY <1>1
  <2> QED BY <2>1, <2>2, <1>1, <1>4
<1>9. Whole(t, u)
  <2>1. u \in Nat /\ u < s.write_seq /\ s.wq[1].seq <= u
    BY <1>1 DEF QueueOK, Whole
  <2>2. u < t.write_seq
    BY <2>1, <1>6
  <2> QED BY <2>1, <2>2, <1>8 DEF QueueOK, Whole
<1>10. HeadOK(s, u) => HeadOK(t, u)
  <2>1. CASE n = 1
    <3>1. t.wq[1] = b /\ b.end >= s.wq[1].end /\ b.retrans = s.wq[1].retrans
      BY <2>1, <1>1, <1>2, <1>4
    <3>2. s.wq[1].end \in Int /\ u \in Nat
      BY <2>1, <1>1, <1>2, ChainFacts DEF QueueOK, Whole
    <3> QED BY <3>1, <3>2, <1>1, <1>6 DEF HeadOK
  <2>2. CASE n # 1
    <3>1. t.wq[1] = s.wq[1]
      BY <2>2, <1>1, <1>4
    <3> QED BY <3>1, <1>1 DEF HeadOK
  <2> QED BY <2>1, <2>2
<1>11. Outputs(s, t, y)
  BY OutputsQuiet DEF Open
<1> QED BY <1>6, <1>7, <1>9, <1>10, <1>11 DEF QueueOK

(* atcp_send_fin keeps it, whether the FIN goes with the last buffer or in *)
(* one of its own.                                                         *)
LEMMA SendFinKeeps ==
  ASSUME NEW s, NEW u, NEW y, Open(s, y), QueueOK(s, u, y), y.up, y.fin, s.write_seq = y.last
  PROVE  Grows(s, atcp_send_fin(s), u, y) /\ atcp_send_fin(s).write_seq = y.last + 1
<1> DEFINE n == Len(s.wq)
           t == [s EXCEPT !.wq[n].fin = TRUE, !.wq[n].end = @ + 1, !.write_seq = @ + 1]
<1>0. ViewOK(y)
  BY DEF Open, Come
<1>1. LET r == atcp_send_skb(s, Skb(s.write_seq, <<>>, 0, {"ACK", "FIN"}), FALSE)
      IN Grows(s, r, u, y) /\ r.write_seq = y.last + 1
  <2>1. s.write_seq \in Nat
    BY DEF QueueOK, QueueTypes
  <2> DEFINE flags == {"ACK", "FIN"}
             none == <<>>
             cap == 0
             b == Skb(s.write_seq, none, cap, flags)
  <2>2. /\ flags = {"ACK", "FIN"} /\ none = <<>> /\ y.up /\ y.fin /\ s.write_seq = y.last
        /\ flags # {"ACK"} /\ "SYN" \notin flags /\ cap \in Int /\ IsSeq(none)
    BY EmptyFacts
  <2> HIDE DEF flags, none, cap
  <2>3. SkbOK(b, u, y) /\ b.seq = s.write_seq /\ ~b.syn /\ b.end = y.last + 1
    <3> DEFINE seq == s.write_seq
    <3>1. seq \in Nat /\ seq = y.last
      BY <2>1, <2>2
    <3>2. b = Skb(seq, none, cap, flags)
      OBVIOUS
    <3> HIDE DEF seq, b
    <3>3. /\ SkbOK(b, u, y) /\ b.seq = seq /\ (b.syn => "SYN" \in flags)
          /\ b.end = IF flags = {"ACK"} THEN seq + Len(none) ELSE seq + 1
      <4>1. /\ flags = {"ACK", "FIN"} /\ none = <<>> /\ seq = y.last
            /\ y.up /\ y.fin /\ seq >= 1
        BY <1>0, <2>2, <3>1 DEF ViewOK
      <4>2. \/ /\ flags = {"ACK"} /\ none # <<>> /\ y.up /\ seq >= 1
               /\ InOrder(none, seq) /\ seq + Len(none) <= y.last
            \/ flags = {"SYN"} /\ none = <<>> /\ y.calls /\ seq = 0
            \/ flags = {"ACK", "FIN"} /\ none = <<>> /\ y.up /\ y.fin /\ seq = y.last
        BY <4>1
      <4>3. seq \in Nat /\ IsSeq(none) /\ cap \in Int
        BY <2>2, <3>1
      <4> QED BY ONLY <1>0, <3>2, <4>2, <4>3, SkbFacts
    <3> QED BY <3>1, <3>3, <2>2 DEF seq
  <2> HIDE DEF b
  <2>4. /\ Grows(s, atcp_send_skb(s, b, FALSE), u, y)
        /\ atcp_send_skb(s, b, FALSE).write_seq = y.last + 1
    BY <2>3, SendSkbKeeps
  <2> QED BY <2>4 DEF b, flags, none, cap
<1>2. ASSUME s.send_head # Null
      PROVE  /\ Grows(s, t, u, y) /\ t.write_seq = y.last + 1
             /\ Grows(s, EnsureRetrans(SendHead(t)), u, y)
             /\ EnsureRetrans(SendHead(t)).write_seq = y.last + 1
  <2> DEFINE c == s.wq[n]
             b == [c EXCEPT !.fin = TRUE, !.end = @ + 1]
  <2>1. n \in Nat /\ n \in 1..n /\ s.wq # <<>> /\ n \in DOMAIN s.wq
    <3>1. s.send_head \in 1..Len(s.wq) /\ Len(s.wq) \in Nat /\ (s.wq = <<>> <=> Len(s.wq) = 0)
      BY <1>2, SentFacts DEF QueueOK
    <3>2. DOMAIN s.wq = 1..Len(s.wq)
      BY ChainFacts DEF QueueOK, QueueTypes
    <3> QED BY <3>1, <3>2
  <2>2. SkbOK(c, u, y) /\ c.seq \in Int /\ c.end \in Int /\ c.seq < c.end /\ Len(c.data) \in Nat
        /\ c.seq + Len(c.data) <= c.end
    BY <2>1, ChainFacts DEF QueueOK, QueueTypes
  <2>3. c.end = s.write_seq
    BY <2>1 DEF QueueOK, Whole
  <2>4. /\ SkbFields \subseteq DOMAIN b /\ b.seq = c.seq /\ b.end = c.end + 1 /\ b.data = c.data
        /\ b.cap = c.cap /\ b.syn = c.syn /\ b.retrans = c.retrans /\ b.ack = c.ack /\ b.fin = TRUE
    BY <2>2 DEF SkbOK, SkbTypes, SkbFields
  <2>5. t.wq = [s.wq EXCEPT ![n] = b]
    BY <2>1 DEF Open, Record, Fields
  <2>6. /\ Record(t) /\ SameLife(s, t) /\ SameQueues(s, t) /\ SameWindow(s, t) /\ t.out = s.out
        /\ t.timers = s.timers /\ t.retrans_head = s.retrans_head /\ t.snd_una = s.snd_una
        /\ t.snd_nxt = s.snd_nxt /\ t.snd_wnd = s.snd_wnd /\ t.max_window = s.max_window
        /\ t.write_seq = s.write_seq + 1 /\ t.fackets_out = s.fackets_out
        /\ t.high_seq = s.high_seq /\ t.packets_out = s.packets_out /\ t.send_head = s.send_head
    BY DEF Open, Record, Fields, SameLife, SameQueues, SameWindow
  <2> HIDE DEF t, b, c
  <2>12. ~c.syn /\ ~c.fin
    <3>1. c.fin => c.end = y.last + 1
      BY <2>2, Zenon DEF SkbOK, InStream
    <3>2. ~c.fin
      BY <3>1, <2>2, <2>3, <1>0 DEF ViewOK
    <3>3. ASSUME c.syn PROVE FALSE
      <4>1. ~(n > 1) /\ c.seq = 0
        <5>1. ~(n > 1)
          BY <3>3, <2>1, ChainEnds DEF c, QueueOK, QueueTypes
        <5> QED BY <5>1, <3>3, <2>2, Zenon DEF SkbOK, InStream
      <4>2. s.send_head \in 1..n /\ s.snd_nxt >= 1 /\ s.wq[s.send_head].seq = s.snd_nxt
        BY <1>2, <2>1, SentFacts DEF QueueOK, QueueTypes, Whole
      <4>3. s.send_head = n
        BY <4>1, <4>2, <2>1
      <4> QED BY <4>1, <4>2, <4>3 DEF c
    <3> QED BY <3>2, <3>3
  <2>13. c.end = c.seq + Len(c.data)
    BY <2>2, <2>12 DEF SkbOK, InStream
  <2>7. SkbOK(b, u, y)
    <3>1. b.seq < b.end /\ b.seq + Len(b.data) <= b.end /\ b.end \in Int
      BY <2>2, <2>4
    <3>2. SkbTypes(b)
      BY <3>1, <2>2, <2>4 DEF SkbOK, SkbTypes
    <3>3. /\ y.last \in Nat /\ c.seq >= 1 /\ c.ack /\ y.up /\ InOrder(c.data, c.seq)
          /\ c.seq + Len(c.data) = y.last
      BY <2>2, <2>3, <2>12, <2>13, <1>0 DEF SkbOK, InStream, ViewOK
    <3>4. /\ b.seq >= 1 /\ b.seq + Len(b.data) = y.last /\ b.end = y.last + 1
      BY <3>3, <2>3, <2>4
    <3>5. ~b.syn /\ b.fin /\ b.ack /\ InOrder(b.data, b.seq)
      BY Zenon, <3>3, <2>4, <2>12
    <3>6. b.seq >= 0 /\ b.seq + Len(b.data) <= y.last
      BY <3>3, <3>4, <2>2, <2>4
    <3>7. InStream(b, u, y)
      BY Zenon, <3>3, <3>4, <3>5, <3>6 DEF InStream
    <3> QED BY <3>2, <3>7 DEF SkbOK
  <2>8. b.seq = s.wq[Len(s.wq)].seq /\ b.end >= s.write_seq /\ t.write_seq = b.end
        /\ b.retrans = s.wq[Len(s.wq)].retrans /\ t.write_seq = y.last + 1
        /\ b.data = s.wq[Len(s.wq)].data
    BY <2>2, <2>3, <2>4, <2>6 DEF c
  <2>9. /\ QueueOK(t, u, y) /\ Outputs(s, t, y)
        /\ HeadOK(s, u) => HeadOK(t, u)
    BY <1>2, <2>5, <2>6, <2>7, <2>8, GrowFacts
  <2>10. Grows(s, t, u, y)
    BY <2>6, <2>9 DEF Grows, Timed, SameLife
  <2>11. Ready(s, SendHead(t), u, y) /\ SendHead(t).write_seq = t.write_seq
    BY <1>2, <2>6, <2>9, SendHeadReady
  <2> QED BY <2>8, <2>10, <2>11, EnsureKeeps
<1>3. \/ atcp_send_fin(s) \in {t, EnsureRetrans(SendHead(t))} /\ s.send_head # Null
      \/ atcp_send_fin(s) = atcp_send_skb(s, Skb(s.write_seq, <<>>, 0, {"ACK", "FIN"}), FALSE)
  BY DEF atcp_send_fin
<1> HIDE DEF t
<1> QED BY <1>1, <1>2, <1>3

(***************************************************************************)
(* Retransmission of the buffer at position i.                             *)
(***************************************************************************)
(* The steps that prepare it. *)
Prepares(s, t, i, u, y) ==
  /\ QueueOK(t, u, y) /\ Outputs(s, t, y) /\ t.write_seq = s.write_seq
  /\ t.timers = s.timers /\ i \in 1..Sent(t)
  /\ (i > 1 => t.wq[1] = s.wq[1])

(* Doing nothing prepares. *)
LEMMA PreparesRefl ==
  ASSUME NEW s, NEW u, NEW y, Open(s, y), QueueOK(s, u, y), NEW i \in 1..Sent(s)
  PROVE  Prepares(s, s, i, u, y)
  BY OutputsRefl DEF Prepares

(* Two preparations are one. *)
LEMMA PreparesTrans ==
  ASSUME NEW r, NEW s, NEW t, NEW i, NEW u, NEW y, Open(r, y), Prepares(r, s, i, u, y),
         Prepares(s, t, i, u, y)
  PROVE  Prepares(r, t, i, u, y)
<1>1. Outputs(r, t, y)
  BY OutputsTrans DEF Prepares
<1> QED BY <1>1 DEF Prepares

(* Splitting the buffer to the segment size prepares it. *)
LEMMA SplitToFitPrepares ==
  ASSUME NEW s, NEW u, NEW y, Open(s, y), QueueOK(s, u, y), NEW i \in 1..Sent(s),
         NEW mss \in Nat, mss >= 1
  PROVE  Prepares(s, SplitToFit(s, i, mss), i, u, y)
<1> DEFINE f == atcp_fragment(s, i, mss)
           t == [f EXCEPT !.packets_out = @ + 1]
<1>1. CASE Len(s.wq[i].data) > mss
  <2>1. i \in 1..Len(s.wq) /\ Sent(s) \in Nat /\ s.packets_out = Sent(s) /\ i \in Nat
    BY SentFacts DEF QueueOK
  <2>2. /\ s.wq[i].seq \in Int /\ s.wq[i].end \in Int /\ Len(s.wq[i].data) \in Nat
        /\ s.wq[i].seq + Len(s.wq[i].data) <= s.wq[i].end
    BY <2>1, ChainFacts DEF QueueOK, QueueTypes
  <2>3. mss < s.wq[i].end - s.wq[i].seq /\ mss \in Int /\ mss <= Len(s.wq[i].data)
    <3> DEFINE n == Len(s.wq[i].data)
               seq == s.wq[i].seq
               end == s.wq[i].end
    <3>1. n > mss /\ n \in Nat /\ seq \in Int /\ end \in Int /\ seq + n <= end
      BY <1>1, <2>2
    <3> HIDE DEF n, seq, end
    <3>2. mss < end - seq /\ mss \in Int /\ mss <= n
      BY <3>1
    <3> QED BY <3>2 DEF n, seq, end
  <2>4. SameButQueue(s, f) /\ f.packets_out = s.packets_out /\ SplitQueue(s, f, i, u, y)
    <3>1. Record(s)
      BY DEF Open
    <3> QED BY <2>1, <2>3, <3>1, FragmentFacts
  <2> HIDE DEF f
  <2>5. /\ SameButQueue(s, t) /\ t.packets_out = f.packets_out + 1
        /\ t.wq = f.wq /\ t.send_head = f.send_head /\ t.retrans_head = f.retrans_head
    BY <2>4 DEF SameButQueue, Record, Fields, SameLife, SameQueues, SameWindow
  <2> HIDE DEF t
  <2>6. Sent(t) = Sent(s) + 1 /\ t.packets_out = Sent(t) /\ Sent(t) = Sent(f)
    <3>1. Sent(t) = Sent(f)
      BY <2>5 DEF Sent
    <3>2. Sent(f) = Sent(s) + 1
      BY <2>1, <2>4 DEF SplitQueue
    <3> QED BY <3>1, <3>2, <2>1, <2>4, <2>5
  <2>13. s.wq # <<>>
    BY <2>1, SentFacts DEF QueueOK
  <2>7. QueueTypes(t, u, y)
    BY <2>4, <2>5, <2>6, <2>13 DEF SplitQueue, SameButQueue, QueueOK, QueueTypes
  <2>8. Whole(t, u)
    BY <2>4, <2>5 DEF SplitQueue, SameButQueue, Whole
  <2>9. Outputs(s, t, y)
    BY <2>5, OutputsQuiet DEF SameButQueue, Open
  <2>10. i \in 1..Sent(t)
    BY <2>1, <2>6
  <2>11. i > 1 => t.wq[1] = s.wq[1]
    BY <2>4, <2>5 DEF SplitQueue
  <2>12. Prepares(s, t, i, u, y)
    BY <2>5, <2>7, <2>8, <2>9, <2>10, <2>11 DEF Prepares, QueueOK, SameButQueue
  <2> QED BY <2>12, <1>1 DEF SplitToFit, t, f
<1>2. CASE ~(Len(s.wq[i].data) > mss)
  BY <1>2, PreparesRefl DEF SplitToFit
<1> QED BY <1>1, <1>2

(* Two buffers become one. *)
LEMMA CollapsePrepares ==
  ASSUME NEW s, NEW u, NEW y, Open(s, y), QueueOK(s, u, y), NEW i \in 1..Sent(s),
         i + 1 <= Sent(s), ~s.wq[i].syn, NEW mss
  PROVE  Prepares(s, atcp_retrans_try_collapse(s, i, mss), i, u, y)
<1> DEFINE b == s.wq[i]
           c == s.wq[i + 1]
           both == [b EXCEPT !.data = @ \o c.data, !.end = c.end, !.fin = @ \/ c.fin]
           Shift(p) == IF p > i + 1 THEN p - 1 ELSE IF p = i + 1 THEN Dangling ELSE p
           q == Join(s.wq, i, both)
           n == Len(s.wq)
           t == [s EXCEPT !.wq = q, !.packets_out = @ - 1,
                          !.send_head = Shift(@), !.retrans_head = Shift(@)]
<1>1. atcp_retrans_try_collapse(s, i, mss) \in {s, t}
  BY DEF atcp_retrans_try_collapse, Join
<1>2. /\ n \in Nat /\ Sent(s) \in 0..n /\ i \in 1..n /\ i + 1 \in 1..n /\ i \in Nat
      /\ s.packets_out = Sent(s) /\ s.wq # <<>>
      /\ s.send_head # Null => s.send_head \in 1..n /\ Sent(s) = s.send_head - 1
      /\ s.send_head = Null => Sent(s) = n
  BY SentFacts DEF QueueOK
<1>3. /\ ChainOK(s.wq, u, y) /\ IsSeq(s.wq)
      /\ SkbOK(b, u, y) /\ b.seq \in Int /\ b.end \in Int /\ b.seq < b.end
      /\ Len(b.data) \in Nat /\ b.seq + Len(b.data) <= b.end
  BY <1>2, ChainFacts DEF QueueOK, QueueTypes
<1>4. /\ SkbOK(c, u, y) /\ c.seq \in Int /\ c.end \in Int /\ c.seq < c.end
      /\ Len(c.data) \in Nat /\ c.seq + Len(c.data) <= c.end /\ Link(b, c, u)
  BY SMTT(30), <1>2, <1>3, ChainFacts
<1>5. b.end <= c.seq
  BY <1>3, <1>4 DEF Link
<1> HIDE DEF b, c
<1>6. IsSeq(b.data \o c.data) /\ Len(b.data \o c.data) = Len(b.data) + Len(c.data)
  <2>1. IsSeq(b.data) /\ IsSeq(c.data)
    BY <1>3, <1>4 DEF SkbOK, SkbTypes
  <2> QED BY <2>1, ConcatFacts
<1>20. /\ ~b.fin /\ ~c.syn /\ (c.data = <<>> => c.fin)
  <2>1. /\ i + 1 <= Len(s.wq) => ~s.wq[i].fin
        /\ i + 1 > 1 => ~s.wq[i + 1].syn
        /\ i + 1 > 1 /\ s.wq[i + 1].data = <<>> => s.wq[i + 1].fin
    BY <1>2, <1>3, ChainEnds
  <2>2. i + 1 <= Len(s.wq) /\ i + 1 > 1
    BY <1>2
  <2> QED BY <2>1, <2>2 DEF b, c
<1>21. ~b.syn
  BY DEF b
<1>7. /\ SkbFields \subseteq DOMAIN both /\ both.seq = b.seq /\ both.end = c.end
      /\ both.data = b.data \o c.data /\ both.cap = b.cap /\ both.syn = b.syn
      /\ both.ack = b.ack /\ both.fin = (b.fin \/ c.fin)
  BY <1>3 DEF SkbOK, SkbTypes, SkbFields
<1> HIDE DEF both
<1>8. SkbOK(both, u, y)
  <2>1. both.seq < both.end /\ both.seq + Len(both.data) <= both.end
    <3>1. /\ Len(both.data) = Len(b.data) + Len(c.data) /\ both.seq = b.seq /\ both.end = c.end
      BY <1>6, <1>7
    <3>2. /\ b.seq + Len(b.data) <= b.end /\ b.end <= c.seq /\ c.seq + Len(c.data) <= c.end
          /\ b.seq < b.end /\ c.seq < c.end
          /\ b.seq \in Int /\ b.end \in Int /\ c.seq \in Int /\ c.end \in Int
          /\ Len(b.data) \in Nat /\ Len(c.data) \in Nat
      BY <1>3, <1>4, <1>5
    <3>3. b.seq < c.end /\ b.seq + Len(b.data) <= c.seq
      BY <3>2
    <3> DEFINE p1 == b.seq
               p2 == c.seq
               p3 == c.end
               m1 == Len(b.data)
               m2 == Len(c.data)
    <3>4. p1 \in Int /\ p2 \in Int /\ p3 \in Int /\ m1 \in Int /\ m2 \in Int
          /\ p1 + m1 <= p2 /\ p2 + m2 <= p3
      BY <3>2, <3>3
    <3>5. Len(both.data) = m1 + m2 /\ both.seq = p1 /\ both.end = p3
      BY <3>1
    <3> HIDE DEF p1, p2, p3, m1, m2
    <3>6. p1 + (m1 + m2) <= p3
      BY <3>4
    <3>7. both.seq + Len(both.data) <= both.end
      BY <3>5, <3>6
    <3> QED BY <3>1, <3>3, <3>7
  <2>2. SkbTypes(both)
    BY <2>1, <1>3, <1>4, <1>6, <1>7 DEF SkbOK, SkbTypes
  <2> DEFINE db == b.data
             dc == c.data
             d == both.data
  <2>3. /\ InOrder(db, b.seq) /\ InOrder(dc, c.seq) /\ y.last \in Nat /\ b.seq >= 1 /\ b.ack /\ y.up
        /\ b.end = b.seq + Len(db) /\ c.seq + Len(dc) <= y.last
        /\ ~c.fin => c.end = c.seq + Len(dc)
        /\ c.fin => y.fin /\ c.end = y.last + 1 /\ (c.seq + Len(dc) = y.last \/ y.last <= u)
        /\ b.end = c.seq \/ (b.end < c.seq /\ c.seq <= u /\ dc = <<>> /\ c.fin)
    BY <1>3, <1>4, <1>20, <1>21 DEF SkbOK, InStream, Link
  <2>4. /\ d = db \o dc /\ Len(d) = Len(db) + Len(dc) /\ Len(db) \in Nat /\ Len(dc) \in Nat
        /\ b.seq \in Int /\ c.seq \in Int /\ b.end \in Int /\ c.end \in Int /\ IsSeq(db) /\ IsSeq(dc)
        /\ u \in Nat
    BY <1>3, <1>4, <1>6, <1>7 DEF SkbOK, SkbTypes, QueueOK, Whole
  <2> HIDE DEF db, dc, d
  <2>5. InOrder(d, b.seq)
    <3>1. ASSUME NEW j \in 1..Len(d) PROVE d[j] = b.seq + j - 1
      <4>1. CASE j \in 1..Len(db)
        BY <4>1, <2>3, <2>4, ConcatFacts DEF InOrder
      <4>2. CASE j \notin 1..Len(db)
        <5>1. j \in (Len(db) + 1)..(Len(db) + Len(dc)) /\ j - Len(db) \in 1..Len(dc)
          BY <4>2, <2>4
        <5>2. d[j] = dc[j - Len(db)]
          BY <5>1, <2>4, ConcatFacts
        <5>3. dc[j - Len(db)] = c.seq + (j - Len(db)) - 1
          BY <5>1, <2>3 DEF InOrder
        <5>4. b.end = c.seq
          BY <5>1, <2>3, <2>4, EmptyFacts
        <5> DEFINE k == b.seq
                   m == Len(db)
        <5>5. d[j] = (k + m) + (j - m) - 1 /\ k \in Int /\ m \in Int
          BY <5>2, <5>3, <5>4, <2>3, <2>4
        <5> HIDE DEF k, m
        <5>6. d[j] = k + j - 1
          BY <5>5, <2>4
        <5> QED BY <5>6 DEF k
      <4> QED BY <4>1, <4>2
    <3> QED BY <3>1 DEF InOrder
  <2> DEFINE k == b.seq
             v == c.seq
             w == c.end
             m1 == Len(db)
             m2 == Len(dc)
             m == Len(d)
  <2>11. /\ k \in Int /\ v \in Int /\ w \in Int /\ m1 \in Nat /\ m2 \in Nat /\ m = m1 + m2
         /\ y.last \in Nat /\ v + m2 <= y.last
         /\ ~c.fin => w = v + m2
         /\ c.fin => y.fin /\ w = y.last + 1 /\ (v + m2 = y.last \/ y.last <= u)
         /\ k + m1 = v \/ (k + m1 < v /\ v <= u /\ m2 = 0 /\ c.fin)
    BY <2>3, <2>4, EmptyFacts
  <2> HIDE DEF k, v, w, m1, m2, m
  <2>12. /\ k + m <= y.last
         /\ ~c.fin => w = k + m
    BY <2>11
  <2>13. ASSUME c.fin PROVE k + m = y.last \/ y.last <= u
    <3>1. CASE k + m1 = v
      BY <3>1, <2>11, <2>13
    <3>2. CASE k + m1 # v
      BY <3>2, <2>4, <2>11, <2>13
    <3> QED BY <3>1, <3>2
  <2>6. b.seq + Len(d) <= y.last
    BY <2>12 DEF k, m
  <2>7. ~c.fin => c.end = b.seq + Len(d)
    BY <2>12 DEF k, w, m
  <2>8. c.fin => y.fin /\ c.end = y.last + 1 /\ (b.seq + Len(d) = y.last \/ y.last <= u)
    BY <2>11, <2>13 DEF k, w, m
  <2>9. both.fin <=> c.fin
    BY <1>7, <1>20
  <2>10. InStream(both, u, y)
    <3>1. ~both.syn /\ both.ack
      BY <1>7, <1>21, <2>3
    <3>2. both.seq = b.seq /\ both.end = c.end /\ both.data = d /\ b.seq >= 0
      BY <1>7, <2>3, <2>4 DEF d
    <3>3. InOrder(both.data, both.seq) /\ both.seq + Len(both.data) <= y.last
      BY <3>2, <2>5, <2>6
    <3>4. /\ ~both.fin => both.end = both.seq + Len(both.data)
          /\ both.fin => /\ y.fin /\ both.end = y.last + 1
                         /\ both.seq + Len(both.data) = y.last \/ y.last <= u
      BY Zenon, <3>2, <2>7, <2>8, <2>9
    <3>5. both.seq >= 1 /\ both.seq >= 0 /\ y.last \in Nat /\ y.up
      BY <3>2, <2>3
    <3> QED BY Zenon, <3>1, <3>3, <3>4, <3>5 DEF InStream
  <2> QED BY <2>2, <2>10 DEF SkbOK
<1>9. /\ ChainOK(q, u, y) /\ Len(q) = n - 1
      /\ \A j \in 1..(n - 1) : q[j] = IF j < i THEN s.wq[j] ELSE IF j = i THEN both ELSE s.wq[j + 1]
  <2>1. i \in 1..Len(s.wq) /\ i + 1 <= Len(s.wq) /\ both.seq = s.wq[i].seq
        /\ both.end = s.wq[i + 1].end
    BY <1>2, <1>7 DEF b, c
  <2>2. q = Join(s.wq, i, both) /\ n = Len(s.wq)
    OBVIOUS
  <2> HIDE DEF q, n, Shift, t
  <2>3. ChainOK(Join(s.wq, i, both), u, y)
    BY <2>1, <1>3, <1>8, ChainJoin
  <2> DEFINE old == s.wq
  <2>6. i \in 1..Len(old) /\ i + 1 <= Len(old) /\ both.seq = old[i].seq
        /\ both.end = old[i + 1].end /\ ChainOK(old, u, y)
    BY <2>1, <1>3
  <2> HIDE DEF old
  <2>4. Len(Join(old, i, both)) = Len(old) - 1
    BY <2>6, <1>8, ChainJoin
  <2>5. \A j \in 1..(Len(old) - 1) :
          Join(old, i, both)[j]
            = IF j < i THEN old[j] ELSE IF j = i THEN both ELSE old[j + 1]
    BY <2>6, <1>8, ChainJoin
  <2> USE DEF old
  <2> QED BY <2>2, <2>3, <2>4, <2>5
<1> HIDE DEF q
<1>10. /\ SameButQueue(s, t) /\ t.wq = q /\ t.packets_out = s.packets_out - 1
       /\ t.send_head = Shift(s.send_head) /\ t.retrans_head = Shift(s.retrans_head)
  BY DEF Open, SameButQueue, Record, Fields, SameLife, SameQueues, SameWindow
<1> HIDE DEF t, n
<1>11. s.retrans_head \in (-1)..Sent(s) /\ s.send_head \in Int
  BY <1>2 DEF QueueOK, QueueTypes
<1>12. /\ t.send_head \in 0..(n - 1) /\ Sent(t) = Sent(s) - 1
       /\ s.send_head # Null => t.send_head = s.send_head - 1 /\ t.send_head >= i + 1
       /\ (s.send_head = Null <=> t.send_head = Null)
  <2>1. CASE s.send_head = Null
    <3>1. t.send_head = Null
      BY <2>1, <1>2, <1>10 DEF Null
    <3> QED BY <3>1, <2>1, <1>2, <1>9, <1>10 DEF Sent, Null
  <2>2. CASE s.send_head # Null
    <3>1. s.send_head > i + 1
      BY <2>2, <1>2
    <3>2. t.send_head = s.send_head - 1
      BY <3>1, <1>10
    <3>3. t.send_head # Null
      BY <3>1, <3>2, <1>2, <1>11 DEF Null
    <3> QED BY <2>2, <3>1, <3>2, <3>3, <1>2, <1>11 DEF Sent
  <2> QED BY <2>1, <2>2
<1>13. t.packets_out = Sent(t) /\ t.retrans_head \in (-1)..Sent(t) /\ i \in 1..Sent(t)
  BY SMTT(30), <1>2, <1>10, <1>11, <1>12 DEF Dangling
<1>14. QueueTypes(t, u, y)
  BY <1>2, <1>9, <1>10, <1>12, <1>13 DEF SameButQueue, QueueOK, QueueTypes
<1>15. q # <<>> /\ q[1].seq = s.wq[1].seq /\ q[n - 1].end = s.wq[n].end
       /\ (i > 1 => q[1] = s.wq[1])
  <2>1. n - 1 \in 1..(n - 1) /\ 1 \in 1..(n - 1)
    BY <1>2
  <2>2. q # <<>>
    BY <2>1, <1>9, ChainFacts
  <2>3. q[1].seq = s.wq[1].seq /\ (i > 1 => q[1] = s.wq[1])
    <3>1. CASE i = 1
      BY <3>1, <2>1, <1>7, <1>9 DEF b
    <3>2. CASE i # 1
      <4>1. 1 < i
        BY <3>2, <1>2
      <4> QED BY <4>1, <2>1, <1>9
    <3> QED BY <3>1, <3>2
  <2>4. q[n - 1].end = s.wq[n].end
    <3>1. CASE i = n - 1
      <4>1. q[n - 1] = both /\ i + 1 = n
        BY <3>1, <2>1, <1>2, <1>9
      <4> QED BY <4>1, <1>7 DEF c
    <3>2. CASE i # n - 1
      <4>1. ~(n - 1 < i) /\ (n - 1) + 1 = n
        BY <3>2, <1>2
      <4>2. q[n - 1] = s.wq[(n - 1) + 1]
        BY <4>1, <3>2, <2>1, <1>9
      <4> QED BY <4>1, <4>2
    <3> QED BY <3>1, <3>2
  <2> QED BY <2>2, <2>3, <2>4
<1>16. Whole(t, u)
  <2>1. s.wq[n].end = s.write_seq /\ s.wq[1].seq <= u /\ u < s.write_seq
    BY <1>2 DEF QueueOK, Whole, n
  <2>2. t.wq = q /\ Len(t.wq) = n - 1 /\ t.write_seq = s.write_seq /\ t.snd_una = s.snd_una
        /\ t.snd_nxt = s.snd_nxt
    BY <1>9, <1>10 DEF SameButQueue
  <2>3. t.send_head # Null => t.wq[t.send_head].seq = t.snd_nxt
    <3>1. SUFFICES ASSUME s.send_head # Null PROVE q[t.send_head].seq = s.snd_nxt
      BY <2>2, <1>12
    <3>2. t.send_head = s.send_head - 1 /\ t.send_head >= i + 1 /\ t.send_head \in 1..(n - 1)
      BY <3>1, <1>2, <1>12
    <3>3. ~(t.send_head < i) /\ t.send_head # i /\ t.send_head + 1 = s.send_head
      BY <3>2, <1>2, <1>11
    <3>4. q[t.send_head] = s.wq[t.send_head + 1]
      BY <3>2, <3>3, <1>9
    <3> QED BY <3>1, <3>3, <3>4 DEF QueueOK, Whole
  <2> QED BY <2>1, <2>2, <2>3, <1>12, <1>15 DEF QueueOK, Whole
<1>17. Outputs(s, t, y)
  BY <1>10, OutputsQuiet DEF SameButQueue, Open
<1>18. Prepares(s, t, i, u, y)
  BY <1>10, <1>13, <1>14, <1>15, <1>16, <1>17 DEF Prepares, QueueOK, SameButQueue
<1>19. Prepares(s, s, i, u, y)
  BY PreparesRefl
<1> QED BY <1>1, <1>18, <1>19

(* Joining where it is worth it prepares it. *)
LEMMA JoinIfSmallPrepares ==
  ASSUME NEW s, NEW u, NEW y, Open(s, y), QueueOK(s, u, y), NEW i \in 1..Sent(s), NEW mss
  PROVE  Prepares(s, JoinIfSmall(s, i, mss), i, u, y)
<1>1. CASE ~s.wq[i].syn /\ i + 1 # s.send_head /\ i + 1 <= Len(s.wq)
  <2>1. i + 1 <= Sent(s)
    <3>1. /\ Len(s.wq) \in Nat /\ Sent(s) \in Nat
          /\ s.send_head # Null => s.send_head \in 1..Len(s.wq) /\ Sent(s) = s.send_head - 1
          /\ s.send_head = Null => Sent(s) = Len(s.wq)
      BY SentFacts DEF QueueOK
    <3> QED BY <3>1, <1>1
  <2> QED BY <2>1, <1>1, CollapsePrepares, PreparesRefl DEF JoinIfSmall
<1>2. CASE ~(~s.wq[i].syn /\ i + 1 # s.send_head /\ i + 1 <= Len(s.wq))
  BY <1>2, PreparesRefl DEF JoinIfSmall
<1> QED BY <1>1, <1>2

(* One buffer of those that were sent is replaced by one that ends where   *)
(* it does and begins no earlier, at an acknowledged byte.                 *)
LEMMA ReplacePrepares ==
  ASSUME NEW s, NEW u, NEW y, Open(s, y), QueueOK(s, u, y), NEW i \in 1..Sent(s),
         NEW b, SkbOK(b, u, y), b.end = s.wq[i].end,
         \/ b.seq = s.wq[i].seq /\ b.data = s.wq[i].data
         \/ s.wq[i].seq <= b.seq /\ b.seq <= u /\ b.data = <<>>,
         NEW t, SameButQueue(s, t), t.wq = [s.wq EXCEPT ![i] = b],
         t.send_head = s.send_head, t.retrans_head = s.retrans_head,
         t.packets_out = s.packets_out
  PROVE  Prepares(s, t, i, u, y) /\ t.wq[i] = b
<1> DEFINE n == Len(s.wq)
<1>1. /\ n \in Nat /\ Sent(s) \in 0..n /\ i \in 1..n /\ s.wq # <<>>
      /\ s.send_head # Null => s.send_head \in 1..n /\ s.send_head # i
  <2>1. /\ Len(s.wq) \in Nat /\ Sent(s) \in 0..Len(s.wq)
        /\ s.send_head # Null => s.send_head \in 1..Len(s.wq) /\ Sent(s) = s.send_head - 1
        /\ (s.wq = <<>> <=> Len(s.wq) = 0)
    BY SentFacts DEF QueueOK
  <2> QED BY <2>1
<1>2. ChainOK(s.wq, u, y) /\ s.wq[i].seq \in Int /\ b.seq \in Int /\ u \in Nat
  <2>1. ChainOK(s.wq, u, y) /\ u \in Nat /\ b.seq \in Int
    BY DEF QueueOK, QueueTypes, Whole, SkbOK, SkbTypes
  <2> QED BY <2>1, <1>1, ChainFacts
<1>3. i > 1 => Link(s.wq[i - 1], b, u)
  <2>1. SUFFICES ASSUME i > 1 PROVE Link(s.wq[i - 1], b, u)
    OBVIOUS
  <2>2. i - 1 \in 1..n /\ (i - 1) + 1 = i
    BY <2>1, <1>1
  <2>3. \A j \in 1..n : /\ s.wq[j].end \in Int
                        /\ j + 1 <= n => Link(s.wq[j], s.wq[j + 1], u)
    BY <1>2, ChainFacts
  <2> HIDE DEF n
  <2>4. Link(s.wq[i - 1], s.wq[(i - 1) + 1], u) /\ s.wq[i - 1].end \in Int
    BY <2>2, <2>3, <1>1
  <2>5. Link(s.wq[i - 1], s.wq[i], u)
    BY <2>2, <2>4
  <2> DEFINE e == s.wq[i - 1].end
             f == s.wq[i].seq
             g == b.seq
             d == s.wq[i].data
  <2>6. e = f \/ (e < f /\ f <= u /\ d = <<>>)
    BY <2>5 DEF Link
  <2>7. /\ e \in Int /\ f \in Int /\ g \in Int /\ u \in Int
        /\ (g = f /\ b.data = d) \/ (f <= g /\ g <= u /\ b.data = <<>>)
    BY <2>4, <1>2
  <2> HIDE DEF e, f, g, d
  <2>8. e = g \/ (e < g /\ g <= u /\ b.data = <<>>)
    BY <2>6, <2>7
  <2> QED BY <2>8 DEF Link, e, g
<1>4. /\ ChainOK(t.wq, u, y) /\ Len(t.wq) = n
      /\ \A j \in 1..n : t.wq[j] = IF j = i THEN b ELSE s.wq[j]
  BY SMTT(30), <1>1, <1>2, <1>3, ChainReplace
<1>5. Sent(t) = Sent(s)
  BY <1>4 DEF Sent
<1>6. QueueTypes(t, u, y)
  BY <1>4, <1>5 DEF SameButQueue, QueueOK, QueueTypes
<1>7. /\ t.wq # <<>> /\ t.wq[Len(t.wq)].end = s.wq[n].end /\ t.wq[1].seq <= u
      /\ s.send_head # Null => t.wq[t.send_head] = s.wq[s.send_head]
      /\ (i > 1 => t.wq[1] = s.wq[1]) /\ t.wq[i] = b
  <2>1. t.wq # <<>> /\ 1 \in 1..n /\ n \in 1..n
    BY <1>1, <1>4, ChainFacts
  <2>2. t.wq[Len(t.wq)].end = s.wq[n].end
    <3>1. CASE n = i
      BY <3>1, <2>1, <1>4
    <3>2. CASE n # i
      BY <3>2, <2>1, <1>4
    <3> QED BY <3>1, <3>2
  <2>3. t.wq[1].seq <= u /\ (i > 1 => t.wq[1] = s.wq[1])
    <3>1. s.wq[1].seq <= u
      BY <1>1 DEF QueueOK, Whole
    <3>2. CASE i = 1
      BY <3>1, <3>2, <2>1, <1>2, <1>4
    <3>3. CASE i # 1
      BY <3>1, <3>3, <2>1, <1>4
    <3> QED BY <3>2, <3>3
  <2> QED BY <2>1, <2>2, <2>3, <1>1, <1>4
<1>8. Whole(t, u)
  BY <1>1, <1>7 DEF SameButQueue, QueueOK, Whole
<1>9. Outputs(s, t, y)
  BY OutputsQuiet DEF SameButQueue, Open
<1> QED BY <1>5, <1>6, <1>7, <1>8, <1>9 DEF Prepares, QueueOK, SameButQueue

(* Stripping the data of a buffer of which only the FIN is not             *)
(* acknowledged prepares it.                                               *)
LEMMA StripPrepares ==
  ASSUME NEW s, NEW u, NEW y, Open(s, y), QueueOK(s, u, y), NEW i \in 1..Sent(s)
  PROVE  Prepares(s, StripForFin(s, i), i, u, y)
<1> DEFINE c == s.wq[i]
           b == [c EXCEPT !.seq = c.end - 1, !.data = <<>>]
           t == [s EXCEPT !.wq[i].seq = c.end - 1, !.wq[i].data = <<>>]
<1>1. CASE c.data # <<>> /\ c.fin /\ s.snd_una = c.end - 1
  <2>1. i \in 1..Len(s.wq) /\ i \in DOMAIN s.wq
    <3>1. Len(s.wq) \in Nat /\ Sent(s) \in 0..Len(s.wq)
      BY SentFacts DEF QueueOK
    <3>2. DOMAIN s.wq = 1..Len(s.wq)
      BY ChainFacts DEF QueueOK, QueueTypes
    <3> QED BY <3>1, <3>2
  <2>2. /\ SkbOK(c, u, y) /\ c.seq \in Int /\ c.end \in Int /\ Len(c.data) \in Nat
        /\ c.seq + Len(c.data) <= c.end
    BY <2>1, ChainFacts DEF QueueOK, QueueTypes
  <2>3. Len(c.data) # 0
    BY <1>1, <2>2, SeqFacts DEF SkbOK, SkbTypes
  <2>4. /\ SkbFields \subseteq DOMAIN b /\ b.seq = c.end - 1 /\ b.end = c.end /\ b.data = <<>>
        /\ b.cap = c.cap /\ b.syn = c.syn /\ b.fin = c.fin /\ b.ack = c.ack
    BY <2>2 DEF SkbOK, SkbTypes, SkbFields
  <2>5. t.wq = [s.wq EXCEPT ![i] = b]
    BY <2>1 DEF Open, Record, Fields
  <2>6. /\ SameButQueue(s, t) /\ t.send_head = s.send_head /\ t.retrans_head = s.retrans_head
        /\ t.packets_out = s.packets_out
    BY DEF Open, SameButQueue, Record, Fields, SameLife, SameQueues, SameWindow
  <2>7. StripForFin(s, i) = t
    BY <1>1 DEF StripForFin
  <2> HIDE DEF t, b
  <2>8. SkbOK(b, u, y)
    <3>1. IsSeq(<<>>) /\ Len(<<>>) = 0
      BY EmptyFacts
    <3>2. b.seq < b.end /\ b.seq + 0 <= b.end /\ b.seq \in Int
      BY <2>2, <2>4
    <3>3. SkbTypes(b)
      BY <3>1, <3>2, <2>2, <2>4 DEF SkbOK, SkbTypes
    <3>4. /\ ~c.syn /\ c.seq >= 1 /\ c.ack /\ y.up /\ y.last \in Nat /\ y.fin /\ c.end = y.last + 1
          /\ c.seq + Len(c.data) <= y.last
      BY <1>1, <2>2 DEF SkbOK, InStream
    <3>5. b.seq = y.last /\ b.seq >= 1 /\ b.seq + 0 = y.last
      BY <3>4, <2>2, <2>4
    <3>6. ~b.syn /\ b.ack /\ b.fin
      BY <3>4, <2>4, <1>1
    <3>7. InOrder(b.data, b.seq)
      BY <2>4, EmptyFacts DEF InOrder
    <3>9. /\ b.seq >= 0 /\ b.seq + Len(b.data) <= y.last /\ b.seq + Len(b.data) = y.last
          /\ b.end = y.last + 1
      <4>1. Len(b.data) = 0 /\ b.end = y.last + 1
        BY <3>1, <3>4, <2>4
      <4> QED BY <3>4, <3>5, <4>1
    <3>8. InStream(b, u, y)
      BY Zenon, <3>4, <3>5, <3>6, <3>7, <3>9 DEF InStream
    <3> QED BY <3>3, <3>8 DEF SkbOK
  <2>9. c.seq <= b.seq /\ b.seq <= u
    <3>1. s.snd_una <= u
      BY DEF QueueOK, Whole
    <3> HIDE DEF c
    <3>2. c.seq <= b.seq
      BY <2>2, <2>3, <2>4
    <3>3. b.seq = s.snd_una
      BY <1>1, <2>4
    <3> QED BY <3>1, <3>2, <3>3
  <2>10. b.end = s.wq[i].end /\ s.wq[i].seq <= b.seq /\ b.seq <= u /\ b.data = <<>>
    BY <2>4, <2>9
  <2>11. Prepares(s, t, i, u, y)
    BY <2>5, <2>6, <2>8, <2>10, ReplacePrepares
  <2> QED BY <2>7, <2>11
<1>2. CASE ~(c.data # <<>> /\ c.fin /\ s.snd_una = c.end - 1)
  BY <1>2, PreparesRefl DEF StripForFin
<1> QED BY <1>1, <1>2

(* The buffer goes out again. *)
Resent(s, t, i, u, y) ==
  /\ Keeps(s, t, u, y) /\ i \in 1..Sent(t) /\ t.packets_out > 0
  /\ i = 1 => HeadOK(t, u)
  /\ "RETRANS" \in t.timers <=> "RETRANS" \in s.timers
  /\ t.write_seq = s.write_seq

(* Sending the prepared buffer again marks it as retransmitted. *)
LEMMA ResendPrepares ==
  ASSUME NEW s, NEW u, NEW y, Open(s, y), QueueOK(s, u, y), NEW i \in 1..Sent(s)
  PROVE  LET t == Resend(s, i)
         IN /\ QueueOK(t, u, y) /\ Outputs(s, t, y) /\ t.write_seq = s.write_seq
            /\ i \in 1..Sent(t) /\ (i > 1 => t.wq[1] = s.wq[1])
            /\ t.timers = s.timers \ {"DACK"}
            /\ t.wq[i].retrans
<1> DEFINE c == s.wq[i]
           b == [c EXCEPT !.retrans = TRUE]
           m == [s EXCEPT !.wq[i].retrans = TRUE, !.retrans_out = @ + 1]
           t == Resend(s, i)
<1>1. i \in 1..Len(s.wq) /\ i \in DOMAIN s.wq
  <2>1. Len(s.wq) \in Nat /\ Sent(s) \in 0..Len(s.wq)
    BY SentFacts DEF QueueOK
  <2>2. DOMAIN s.wq = 1..Len(s.wq)
    BY ChainFacts DEF QueueOK, QueueTypes
  <2> QED BY <2>1, <2>2
<1>2. SkbOK(c, u, y)
  BY <1>1, ChainFacts DEF QueueOK, QueueTypes
<1>3. /\ SkbFields \subseteq DOMAIN b /\ b.seq = c.seq /\ b.end = c.end /\ b.data = c.data
      /\ b.cap = c.cap /\ b.syn = c.syn /\ b.retrans = TRUE /\ b.fin = c.fin /\ b.ack = c.ack
  BY <1>2 DEF SkbOK, SkbTypes, SkbFields
<1>4. m.wq = [s.wq EXCEPT ![i] = b]
  BY <1>1 DEF Open, Record, Fields
<1>5. /\ SameButQueue(s, m) /\ m.send_head = s.send_head /\ m.retrans_head = s.retrans_head
      /\ m.packets_out = s.packets_out
  BY DEF Open, SameButQueue, Record, Fields, SameLife, SameQueues, SameWindow
<1>6. t = atcp_transmit_skb(m, c)
  BY DEF Resend
<1> HIDE DEF m, b, t
<1>7. SkbOK(b, u, y) /\ b.end = s.wq[i].end /\ b.seq = s.wq[i].seq /\ b.data = s.wq[i].data
  BY <1>2, <1>3 DEF SkbOK, SkbTypes, InStream
<1>8. Prepares(s, m, i, u, y) /\ m.wq[i] = b
  <2>1. b.seq = s.wq[i].seq /\ b.data = s.wq[i].data
    BY <1>7
  <2> HIDE DEF c
  <2>2. Prepares(s, m, i, u, y)
    BY <1>4, <1>5, <1>7, <2>1, ReplacePrepares
  <2>3. m.wq[i] = b
    BY <1>1, <1>4
  <2> QED BY <2>2, <2>3
<1>9. Open(m, y) /\ QueueOK(m, u, y)
  BY <1>8 DEF Prepares, Outputs
<1>10. /\ Outputs(m, t, y) /\ SameQueue(m, t) /\ t.timers = m.timers \ {"DACK"}
  <2>1. u \in Int /\ u <= y.seen
    BY DEF QueueOK, QueueTypes, Whole
  <2> QED BY <2>1, <1>2, <1>6, <1>9, TransmitSkbFacts
<1>11. QueueOK(t, u, y)
  BY <1>9, <1>10, SameQueueOK
<1>12. Outputs(s, t, y)
  BY <1>8, <1>10, OutputsTrans DEF Prepares
<1>13. Sent(t) = Sent(m)
  BY <1>10 DEF SameQueue, Sent
<1>14. t.wq = m.wq /\ t.write_seq = m.write_seq
  BY <1>10 DEF SameQueue
<1> QED BY <1>3, <1>8, <1>10, <1>11, <1>12, <1>13, <1>14 DEF Prepares, t

(* atcp_retransmit_skb keeps the queue whole; the first buffer may be all  *)
(* acknowledged now, but then it is marked as retransmitted.               *)
LEMMA RetransmitKeeps ==
  ASSUME NEW s, NEW u, NEW y, Open(s, y), QueueOK(s, u, y), NEW i \in 1..Sent(s)
  PROVE  Resent(s, atcp_retransmit_skb(s, i), i, u, y)
<1> DEFINE mss == atcp_current_mss(s)
           a == SplitToFit(s, i, mss)
           b == JoinIfSmall(a, i, mss)
           c == StripForFin(b, i)
           t == Resend(c, i)
<1>1. mss \in Nat /\ mss >= 1
  BY MssFacts
<1>2. atcp_retransmit_skb(s, i) = t
  BY DEF atcp_retransmit_skb
<1> HIDE DEF mss
<1>3. Prepares(s, a, i, u, y)
  BY <1>1, SplitToFitPrepares
<1> HIDE DEF a
<1>4. Open(a, y) /\ QueueOK(a, u, y) /\ i \in 1..Sent(a)
  BY <1>3 DEF Prepares, Outputs
<1>5. Prepares(a, b, i, u, y)
  BY <1>4, JoinIfSmallPrepares
<1> HIDE DEF b
<1>6. Open(b, y) /\ QueueOK(b, u, y) /\ i \in 1..Sent(b)
  BY <1>5 DEF Prepares, Outputs
<1>7. Prepares(b, c, i, u, y)
  BY <1>6, StripPrepares
<1> HIDE DEF c
<1>8. Open(c, y) /\ QueueOK(c, u, y) /\ i \in 1..Sent(c)
  BY <1>7 DEF Prepares, Outputs
<1>9. Prepares(s, c, i, u, y)
  BY <1>3, <1>5, <1>7, PreparesTrans
<1>10. /\ QueueOK(t, u, y) /\ Outputs(c, t, y) /\ t.write_seq = c.write_seq
       /\ i \in 1..Sent(t) /\ (i > 1 => t.wq[1] = c.wq[1])
       /\ t.timers = c.timers \ {"DACK"}
       /\ t.wq[i].retrans
  BY <1>8, ResendPrepares
<1> HIDE DEF t
<1>11. Outputs(s, t, y)
  BY <1>9, <1>10, OutputsTrans DEF Prepares
<1>12. t.packets_out > 0 /\ s.packets_out > 0 /\ s.wq # <<>> /\ i \in Nat
  <2>1. t.packets_out = Sent(t) /\ Sent(t) \in Nat /\ s.packets_out = Sent(s) /\ Sent(s) \in 0..Len(s.wq)
        /\ (s.wq = <<>> <=> Len(s.wq) = 0) /\ Len(s.wq) \in Nat
    BY <1>10, SentFacts DEF QueueOK
  <2> QED BY <2>1, <1>10
<1>13. i = 1 => HeadOK(t, u)
  BY <1>10 DEF HeadOK
<1>14. HeadOK(s, u) => HeadOK(t, u)
  <2>1. CASE i = 1
    BY <1>13, <2>1
  <2>2. CASE i # 1
    <3>1. t.wq[1] = s.wq[1]
      BY <2>2, <1>9, <1>10, <1>12 DEF Prepares
    <3> QED BY <3>1, <1>12 DEF HeadOK
  <2> QED BY <2>1, <2>2
<1>15. t.timers = s.timers \ {"DACK"} /\ t.write_seq = s.write_seq
  BY <1>9, <1>10 DEF Prepares
<1>16. Timed(s) => Timed(t)
  BY <1>11, <1>12, <1>15 DEF Timed, Outputs, SameLife
<1> QED BY <1>2, <1>10, <1>11, <1>12, <1>13, <1>14, <1>15, <1>16 DEF Resent, Keeps, Grows

(***************************************************************************)
(* Resending after a timeout.                                              *)
(***************************************************************************)
(* Steps that move the retransmission head only. *)
HeadMoves(s, t) ==
  /\ Record(t) /\ SameLife(s, t) /\ SameQueues(s, t) /\ SameWindow(s, t) /\ t.out = s.out
  /\ t.wq = s.wq /\ t.send_head = s.send_head /\ t.snd_una = s.snd_una /\ t.snd_nxt = s.snd_nxt
  /\ t.snd_wnd = s.snd_wnd /\ t.max_window = s.max_window /\ t.write_seq = s.write_seq
  /\ t.packets_out = s.packets_out /\ t.fackets_out = s.fackets_out
  /\ t.high_seq = s.high_seq /\ t.timers = s.timers

(* Moving the retransmission head among the buffers that were sent keeps   *)
(* it.                                                                     *)
LEMMA HeadMovesKeeps ==
  ASSUME NEW s, NEW t, NEW u, NEW y, Open(s, y), QueueOK(s, u, y), HeadMoves(s, t),
         t.retrans_head \in (-1)..Sent(s)
  PROVE  Keeps(s, t, u, y)
<1>1. Sent(t) = Sent(s)
  BY DEF Sent, HeadMoves
<1>2. QueueOK(t, u, y)
  BY <1>1 DEF HeadMoves, QueueOK, QueueTypes, Whole
<1>3. Outputs(s, t, y)
  BY OutputsQuiet DEF HeadMoves, Open
<1> QED BY <1>2, <1>3 DEF Keeps, Grows, HeadMoves, Timed, HeadOK, SameLife

(* update_retrans_head keeps it. *)
LEMMA UpdateHeadKeeps ==
  ASSUME NEW s, NEW u, NEW y, Open(s, y), QueueOK(s, u, y)
  PROVE  Keeps(s, update_retrans_head(s), u, y)
<1> DEFINE t == update_retrans_head(s)
           next == s.retrans_head + 1
<1>1. /\ HeadMoves(s, t)
      /\ t.retrans_head = IF next = s.send_head \/ next > Len(s.wq) THEN Null ELSE next
  BY DEF update_retrans_head, HeadMoves, Open, Record, Fields, SameLife, SameQueues, SameWindow
<1> HIDE DEF t
<1>2. t.retrans_head \in (-1)..Sent(s)
  <2>1. /\ Len(s.wq) \in Nat /\ Sent(s) \in 0..Len(s.wq)
        /\ s.send_head # Null => s.send_head \in 1..Len(s.wq) /\ Sent(s) = s.send_head - 1
        /\ s.send_head = Null => Sent(s) = Len(s.wq)
    BY SentFacts DEF QueueOK
  <2>2. s.retrans_head \in (-1)..Sent(s)
    BY DEF QueueOK, QueueTypes
  <2>3. next \in 0..(Sent(s) + 1)
    BY <2>1, <2>2
  <2> HIDE DEF next
  <2>4. CASE next = s.send_head \/ next > Len(s.wq)
    BY <2>4, <2>1, <1>1 DEF Null
  <2>5. CASE ~(next = s.send_head \/ next > Len(s.wq))
    <3>1. next # Sent(s) + 1
      <4>1. CASE s.send_head = Null
        BY <4>1, <2>1, <2>3, <2>5
      <4>2. CASE s.send_head # Null
        BY <4>2, <2>1, <2>3, <2>5
      <4> QED BY <4>1, <4>2
    <3> QED BY <3>1, <2>1, <2>3, <2>5, <1>1
  <2> QED BY <2>4, <2>5
<1>3. Keeps(s, t, u, y)
  BY <1>1, <1>2, HeadMovesKeeps
<1> QED BY <1>3 DEF t

RequeueTurn(q, i, x) ==
  IF x.full \/ x.s.retrans_head <= 0 THEN x
  ELSE IF x.s.wq[x.s.retrans_head].sacked
       THEN [x EXCEPT !.s = update_retrans_head(x.s)]
       ELSE UntilFull(update_retrans_head(atcp_retransmit_skb(x.s, x.s.retrans_head)))
RequeueRel(p, i, x) == {"s", "full"} \subseteq DOMAIN x /\ Keeps(p.s, x.s, p.u, p.y)
Requeue == INSTANCE Iteration WITH Step <- RequeueTurn, Rel <- RequeueRel

(* One turn of the loop of atcp_xmit_retransmit_queue keeps it. *)
LEMMA RequeueTurnFacts ==
  ASSUME NEW p, Open(p.s, p.y), QueueOK(p.s, p.u, p.y), NEW q, NEW i, NEW j, NEW x,
         RequeueRel(p, i, x)
  PROVE  RequeueRel(p, j, RequeueTurn(q, j, x))
<1> DEFINE h == x.s.retrans_head
           a == update_retrans_head(x.s)
           b == atcp_retransmit_skb(x.s, h)
           c == update_retrans_head(b)
<1>1. Keeps(p.s, x.s, p.u, p.y) /\ {"s", "full"} \subseteq DOMAIN x
  BY DEF RequeueRel
<1>2. Open(x.s, p.y) /\ QueueOK(x.s, p.u, p.y)
  BY <1>1 DEF Keeps, Grows, Outputs
<1>3. Keeps(p.s, a, p.u, p.y)
  <2>1. Keeps(x.s, a, p.u, p.y)
    BY <1>2, UpdateHeadKeeps
  <2> QED BY <2>1, <1>1, KeepsTrans
<1>4. ASSUME ~(h <= 0) PROVE Keeps(p.s, c, p.u, p.y)
  <2>1. h \in (-1)..Sent(x.s) /\ Sent(x.s) \in Nat
    BY <1>2, SentFacts DEF QueueOK, QueueTypes
  <2>2. h \in 1..Sent(x.s)
    BY <1>4, <2>1
  <2> HIDE DEF h
  <2>3. Keeps(x.s, b, p.u, p.y)
    BY <1>2, <2>2, RetransmitKeeps DEF Resent
  <2> HIDE DEF b
  <2>4. Open(b, p.y) /\ QueueOK(b, p.u, p.y)
    BY <2>3 DEF Keeps, Grows, Outputs
  <2>5. Keeps(b, c, p.u, p.y)
    BY <2>4, UpdateHeadKeeps
  <2> HIDE DEF c
  <2>6. Keeps(p.s, b, p.u, p.y)
    BY <2>3, <1>1, KeepsTrans
  <2> QED BY <2>5, <2>6, KeepsTrans
<1> HIDE DEF a
<1>5. CASE x.full \/ h <= 0
  <2>1. RequeueTurn(q, j, x) = x
    BY <1>5 DEF RequeueTurn
  <2> QED BY <2>1, <1>1 DEF RequeueRel
<1>6. CASE ~(x.full \/ h <= 0) /\ x.s.wq[h].sacked
  <2> DEFINE z == [x EXCEPT !.s = a]
  <2>1. RequeueTurn(q, j, x) = z
    BY <1>6 DEF RequeueTurn, a
  <2>2. {"s", "full"} \subseteq DOMAIN z /\ z.s = a
    BY <1>1
  <2> HIDE DEF z
  <2> QED BY <2>1, <2>2, <1>3 DEF RequeueRel
<1>7. CASE ~(x.full \/ h <= 0) /\ ~x.s.wq[h].sacked
  <2> DEFINE z == UntilFull(c)
  <2>1. RequeueTurn(q, j, x) = z
    BY <1>7 DEF RequeueTurn
  <2> HIDE DEF c
  <2>2. {"s", "full"} \subseteq DOMAIN z /\ z.s = c
    BY DEF UntilFull
  <2> HIDE DEF z
  <2> QED BY <2>1, <2>2, <1>4, <1>7 DEF RequeueRel
<1> QED BY <1>5, <1>6, <1>7

(* atcp_xmit_retransmit_queue keeps it. *)
LEMMA RetransmitQueueKeeps ==
  ASSUME NEW s, NEW u, NEW y, Open(s, y), QueueOK(s, u, y)
  PROVE  Keeps(s, atcp_xmit_retransmit_queue(s), u, y)
<1> DEFINE start == IF s.retrans_head = Null /\ ~s.rexmt_done /\ s.wq # <<>>
                    THEN 1 ELSE s.retrans_head
           t == [s EXCEPT !.retrans_head = IF start = s.send_head THEN Null ELSE start]
           x == [s |-> t, full |-> FALSE]
           p == [s |-> s, u |-> u, y |-> y]
           n == s.snd_nxt - s.snd_una + 1
           r == Requeue!Result(0, x, n)
<1>1. p.s = s /\ p.u = u /\ p.y = y /\ x.s = t /\ {"s", "full"} \subseteq DOMAIN x
  OBVIOUS
<1>2. atcp_xmit_retransmit_queue(s) = r.s
  BY DEF atcp_xmit_retransmit_queue, Repeat, Requeue!Result, RequeueTurn
<1>3. HeadMoves(s, t) /\ t.retrans_head = IF start = s.send_head THEN Null ELSE start
  BY DEF HeadMoves, Open, Record, Fields, SameLife, SameQueues, SameWindow
<1> HIDE DEF t, p, x, r
<1>4. t.retrans_head \in (-1)..Sent(s)
  <2>1. /\ Len(s.wq) \in Nat /\ Sent(s) \in 0..Len(s.wq) /\ (s.wq = <<>> <=> Len(s.wq) = 0)
        /\ s.send_head # Null => s.send_head \in 1..Len(s.wq) /\ Sent(s) = s.send_head - 1
        /\ s.send_head = Null => Sent(s) = Len(s.wq)
    BY SentFacts DEF QueueOK
  <2>2. s.retrans_head \in (-1)..Sent(s)
    BY DEF QueueOK, QueueTypes
  <2>3. CASE start = s.send_head
    BY <2>1, <2>3, <1>3 DEF Null
  <2>4. CASE start # s.send_head /\ start = s.retrans_head
    BY <2>2, <2>4, <1>3
  <2>5. CASE start # s.send_head /\ start # s.retrans_head
    <3>1. start = 1 /\ s.wq # <<>>
      BY <2>5
    <3> HIDE DEF start
    <3>2. 1 \in 1..Sent(s)
      <4>1. CASE s.send_head = Null
        BY <4>1, <3>1, <2>1
      <4>2. CASE s.send_head # Null
        BY <4>2, <3>1, <2>1, <2>5
      <4> QED BY <4>1, <4>2
    <3> QED BY <3>1, <3>2, <2>1, <2>5, <1>3
  <2> QED BY <2>3, <2>4, <2>5
<1>5. Keeps(s, t, u, y)
  BY <1>3, <1>4, HeadMovesKeeps
<1>6. n \in Nat
  <2>1. s.snd_una \in Nat /\ s.snd_nxt \in Nat /\ u \in Nat /\ s.snd_una <= u /\ u <= s.snd_nxt
    BY DEF QueueOK, QueueTypes, Whole
  <2> QED BY <2>1
<1> HIDE DEF n
<1>7. RequeueRel(p, 0, x)
  BY <1>1, <1>5 DEF RequeueRel
<1>8. \A i \in 1..n : \A z : RequeueRel(p, i - 1, z) => RequeueRel(p, i, RequeueTurn(0, i, z))
  BY <1>1, RequeueTurnFacts
<1>9. RequeueRel(p, n, r)
  BY <1>6, <1>7, <1>8, Requeue!AfterTurns DEF r
<1> QED BY <1>1, <1>2, <1>9 DEF RequeueRel

(***************************************************************************)
(* Filling the holes.                                                      *)
(***************************************************************************)
FillTurn(q, i, x) ==
  IF x.i = Null THEN x
  ELSE IF x.s.wq[x.i].sacked \/ x.s.wq[x.i].retrans
       THEN FackNext(x.s, x.i, FALSE)
       ELSE FackNext(atcp_retransmit_skb(x.s, x.i), x.i, TRUE)
FillRel(p, i, x) == x.i \in 0..Sent(x.s) /\ Keeps(p.s, x.s, p.u, p.y)
Fill == INSTANCE Iteration WITH Step <- FillTurn, Rel <- FillRel

(* The next buffer the loop of atcp_fack_retransmit looks at is one that   *)
(* was sent.                                                               *)
LEMMA FackNextFacts ==
  ASSUME NEW s, NEW u, NEW y, QueueOK(s, u, y), NEW i \in 1..Sent(s), NEW resent
  PROVE  FackNext(s, i, resent).s = s /\ FackNext(s, i, resent).i \in 0..Sent(s)
<1>1. FackNext(s, i, resent).s = s
  BY DEF FackNext
<1>2. \/ FackNext(s, i, resent).i = 0
      \/ FackNext(s, i, resent).i = i + 1 /\ ~(i + 1 > Len(s.wq)) /\ i + 1 # s.send_head
  BY DEF FackNext, Null
<1>3. /\ Len(s.wq) \in Nat /\ Sent(s) \in 0..Len(s.wq) /\ i \in 1..Sent(s)
      /\ s.send_head # Null => s.send_head \in 1..Len(s.wq) /\ Sent(s) = s.send_head - 1
      /\ s.send_head = Null => Sent(s) = Len(s.wq)
  BY SentFacts DEF QueueOK
<1>4. ASSUME ~(i + 1 > Len(s.wq)) /\ i + 1 # s.send_head PROVE i + 1 \in 0..Sent(s)
  BY <1>3, <1>4
<1> QED BY <1>1, <1>2, <1>3, <1>4

(* One turn of the loop of atcp_fack_retransmit keeps it. *)
LEMMA FillTurnFacts ==
  ASSUME NEW p, Open(p.s, p.y), QueueOK(p.s, p.u, p.y), NEW q, NEW i, NEW j, NEW x,
         FillRel(p, i, x)
  PROVE  FillRel(p, j, FillTurn(q, j, x))
<1> DEFINE b == atcp_retransmit_skb(x.s, x.i)
           z == FillTurn(q, j, x)
<1>1. Keeps(p.s, x.s, p.u, p.y) /\ x.i \in 0..Sent(x.s)
  BY DEF FillRel
<1>2. Open(x.s, p.y) /\ QueueOK(x.s, p.u, p.y)
  BY <1>1 DEF Keeps, Grows, Outputs
<1>3. CASE x.i = Null
  BY <1>1, <1>3 DEF FillTurn, FillRel
<1>6. x.i # Null => x.i \in 1..Sent(x.s)
  <2>1. Sent(x.s) \in Nat
    BY <1>2, SentFacts DEF QueueOK
  <2> QED BY <1>1, <2>1 DEF Null
<1>4. CASE x.i # Null /\ (x.s.wq[x.i].sacked \/ x.s.wq[x.i].retrans)
  <2>1. z = FackNext(x.s, x.i, FALSE) /\ x.i \in 1..Sent(x.s)
    BY <1>4, <1>6 DEF FillTurn
  <2> HIDE DEF z
  <2>2. z.s = x.s /\ z.i \in 0..Sent(x.s)
    BY <2>1, <1>2, FackNextFacts
  <2>3. FillRel(p, j, z)
    BY <2>2, <1>1 DEF FillRel
  <2> QED BY <2>3 DEF z
<1>5. CASE x.i # Null /\ ~(x.s.wq[x.i].sacked \/ x.s.wq[x.i].retrans)
  <2>1. z = FackNext(b, x.i, TRUE) /\ x.i \in 1..Sent(x.s)
    BY <1>5, <1>6 DEF FillTurn
  <2>2. Keeps(x.s, b, p.u, p.y) /\ x.i \in 1..Sent(b)
    BY <1>2, <2>1, RetransmitKeeps DEF Resent
  <2> HIDE DEF z, b
  <2>3. QueueOK(b, p.u, p.y)
    BY <2>2 DEF Keeps, Grows
  <2>4. z.s = b /\ z.i \in 0..Sent(b)
    BY <2>1, <2>2, <2>3, FackNextFacts
  <2>5. Keeps(p.s, b, p.u, p.y)
    BY <1>1, <2>2, KeepsTrans
  <2>6. FillRel(p, j, z)
    BY <2>4, <2>5 DEF FillRel
  <2> QED BY <2>6 DEF z
<1> QED BY <1>3, <1>4, <1>5

(* atcp_fack_retransmit keeps it. *)
LEMMA FackRetransmitKeeps ==
  ASSUME NEW s, NEW u, NEW y, Open(s, y), QueueOK(s, u, y)
  PROVE  Keeps(s, atcp_fack_retransmit(s), u, y)
<1> DEFINE first == IF s.wq = <<>> \/ s.send_head = 1 THEN Null ELSE 1
           x == [s |-> s, i |-> first]
           p == [s |-> s, u |-> u, y |-> y]
           n == Larger(s.fackets_out, 1)
           r == Fill!Result(0, x, n)
<1>1. p.s = s /\ p.u = u /\ p.y = y /\ x.s = s /\ x.i = first
  OBVIOUS
<1>2. atcp_fack_retransmit(s) = r.s
  BY DEF atcp_fack_retransmit, Repeat, Fill!Result, FillTurn
<1> HIDE DEF p, x, r
<1>3. first \in 0..Sent(s)
  <2>1. /\ Len(s.wq) \in Nat /\ Sent(s) \in 0..Len(s.wq) /\ (s.wq = <<>> <=> Len(s.wq) = 0)
        /\ s.send_head # Null => s.send_head \in 1..Len(s.wq) /\ Sent(s) = s.send_head - 1
        /\ s.send_head = Null => Sent(s) = Len(s.wq)
    BY SentFacts DEF QueueOK
  <2>2. CASE s.wq = <<>> \/ s.send_head = 1
    BY <2>1, <2>2 DEF Null
  <2>3. CASE ~(s.wq = <<>> \/ s.send_head = 1)
    <3>1. 1 \in 0..Sent(s)
      <4>1. CASE s.send_head = Null
        BY <4>1, <2>1, <2>3
      <4>2. CASE s.send_head # Null
        BY <4>2, <2>1, <2>3
      <4> QED BY <4>1, <4>2
    <3> QED BY <3>1, <2>3
  <2> QED BY <2>2, <2>3
<1>4. n \in Nat
  BY DEF QueueOK, QueueTypes, Larger
<1> HIDE DEF n, first
<1>5. FillRel(p, 0, x)
  BY <1>1, <1>3, KeepsRefl DEF FillRel
<1>6. \A i \in 1..n : \A z : FillRel(p, i - 1, z) => FillRel(p, i, FillTurn(0, i, z))
  BY <1>1, FillTurnFacts
<1>7. FillRel(p, n, r)
  BY <1>4, <1>5, <1>6, Fill!AfterTurns DEF r
<1> QED BY <1>1, <1>2, <1>7 DEF FillRel

(***************************************************************************)
(* Probes and the acknowledgement policy.                                  *)
(***************************************************************************)
(* atcp_write_wakeup keeps it, whether it sends data, splits a buffer for  *)
(* it, or probes.                                                          *)
LEMMA WakeupKeeps ==
  ASSUME NEW s, NEW u, NEW y, Open(s, y), QueueOK(s, u, y)
  PROVE  Keeps(s, atcp_write_wakeup(s), u, y)
<1> DEFINE room == s.snd_wnd - (s.snd_nxt - s.snd_una)
           b == s.wq[s.send_head]
           t == IF room < b.end - b.seq THEN atcp_fragment(s, s.send_head, room) ELSE s
           z == atcp_transmit(s, s.snd_nxt - 1, <<>>, {"ACK"})
<1>1. \/ atcp_write_wakeup(s) = s
      \/ atcp_write_wakeup(s) = z /\ s.state # "SYN_SENT"
      \/ room > 0 /\ s.send_head # Null /\ atcp_write_wakeup(s) = EnsureRetrans(SendHead(t))
  BY Zenon DEF atcp_write_wakeup
<1>2. room \in Int /\ s.snd_nxt - 1 \in Int
  BY DEF QueueOK, QueueTypes
<1>3. Keeps(s, s, u, y) /\ (s.state # "SYN_SENT" => Keeps(s, z, u, y))
  <2>1. s.state # "SYN_SENT" => y.up
    BY DEF Open, Come
  <2>2. {"ACK"} = {"ACK"}
    OBVIOUS
  <2> QED BY <2>1, <2>2, <1>2, KeepsRefl, TransmitKeeps
<1>4. ASSUME room > 0, s.send_head # Null
      PROVE  Keeps(s, EnsureRetrans(SendHead(t)), u, y)
  <2>1. /\ QueueOK(t, u, y) /\ Outputs(s, t, y) /\ t.write_seq = s.write_seq
        /\ t.send_head # Null /\ (HeadOK(s, u) => HeadOK(t, u))
    <3>1. CASE room < b.end - b.seq
      <4>1. 1 <= room /\ t = atcp_fragment(s, s.send_head, room)
        BY <3>1, <1>2, <1>4
      <4> HIDE DEF room, t
      <4>2. /\ QueueOK(t, u, y) /\ Outputs(s, t, y) /\ SameButQueue(s, t)
            /\ t.send_head = s.send_head /\ (HeadOK(s, u) => HeadOK(t, u))
        BY <4>1, <3>1, <1>2, <1>4, FragmentHead
      <4> QED BY <4>2, <1>4 DEF SameButQueue
    <3>2. CASE ~(room < b.end - b.seq)
      <4>1. t = s
        BY <3>2
      <4> HIDE DEF t
      <4> QED BY <4>1, <1>4, OutputsRefl
    <3> QED BY <3>1, <3>2
  <2> HIDE DEF t
  <2>3. Ready(s, SendHead(t), u, y) /\ SendHead(t).write_seq = s.write_seq
    BY <2>1, SendHeadReady
  <2> QED BY <2>3, EnsureKeeps DEF Keeps
<1> QED BY <1>1, <1>3, <1>4

(* A step that touches the queue, and what is counted and received, not at *)
(* all.                                                                    *)
LEMMA ProbeKeeps ==
  ASSUME NEW s, NEW u, NEW y, Open(s, y), QueueOK(s, u, y)
  PROVE  Keeps(s, atcp_send_probe0(s), u, y)
<1> DEFINE w == atcp_write_wakeup(s)
           t == atcp_send_probe0(s)
<1>1. Keeps(s, w, u, y)
  BY WakeupKeeps
<1>2. t = atcp_reset_xmit_timer([w EXCEPT !.pending = "PROBE0", !.probes_out = @ + 1], "PROBE0")
  BY DEF atcp_send_probe0
<1> HIDE DEF w, t
<1>3. Open(w, y) /\ QueueOK(w, u, y)
  BY <1>1 DEF Keeps, Grows, Outputs
<1>4. StartFields(w, t) /\ ("RETRANS" \in t.timers <=> "RETRANS" \in w.timers)
  BY <1>2, <1>3 DEF Open, atcp_reset_xmit_timer, StartFields, Record, Fields, SameLife,
     SameQueue, SameQueues, SameWindow
<1>5. Keeps(w, t, u, y)
  BY <1>3, <1>4, FrameKeeps
<1>6. Keeps(s, t, u, y)
  BY <1>1, <1>5, KeepsTrans
<1> QED BY <1>6 DEF t

(* Delaying an acknowledgement, and predicting the next segment, keep it. *)
LEMMA DelayedAckKeeps ==
  ASSUME NEW s, NEW u, NEW y, Open(s, y), QueueOK(s, u, y)
  PROVE  /\ Keeps(s, atcp_send_delayed_ack(s), u, y) /\ Keeps(s, Predict(s), u, y)
         /\ Keeps(s, atcp_send_delayed_ack(Predict(s)), u, y)
<1>1. StartFields(s, Predict(s)) /\ Predict(s).timers = s.timers
  BY DEF Predict, Open, StartFields, Record, Fields, SameLife, SameQueue, SameQueues, SameWindow
<1>2. Keeps(s, Predict(s), u, y)
  BY <1>1, FrameKeeps
<1>3. ASSUME NEW w, Open(w, y), QueueOK(w, u, y)
      PROVE  Keeps(w, atcp_send_delayed_ack(w), u, y)
  <2> DEFINE t == atcp_send_delayed_ack(w)
  <2>1. StartFields(w, t) /\ ("RETRANS" \in t.timers <=> "RETRANS" \in w.timers)
    BY <1>3 DEF atcp_send_delayed_ack, Open, atcp_reset_xmit_timer, StartFields, Record, Fields,
       SameLife, SameQueue, SameQueues, SameWindow
  <2> HIDE DEF t
  <2>2. Keeps(w, t, u, y)
    BY <2>1, <1>3, FrameKeeps
  <2> QED BY <2>2 DEF t
<1>4. Open(Predict(s), y) /\ QueueOK(Predict(s), u, y)
  BY <1>2 DEF Keeps, Grows, Outputs
<1>5. Keeps(s, atcp_send_delayed_ack(Predict(s)), u, y)
  BY <1>2, <1>3, <1>4, KeepsTrans
<1> QED BY <1>2, <1>3, <1>5

(* atcp_ack_snd_check keeps it. *)
LEMMA AckSndCheckKeeps ==
  ASSUME NEW s, NEW u, NEW y, Open(s, y), QueueOK(s, u, y)
  PROVE  (y.up => Keeps(s, AckSndCheck(s), u, y)) /\ Keeps(s, atcp_ack_snd_check(s), u, y)
<1>1. y.up => Keeps(s, AckSndCheck(s), u, y)
  BY SendAckKeeps, DelayedAckKeeps DEF AckSndCheck
<1>2. s.delayed_acks # 0 => y.up
  BY DEF Open, Come
<1> QED BY <1>1, <1>2, KeepsRefl DEF atcp_ack_snd_check

(* The two checks that follow a segment keep it. *)
LEMMA SndChecksKeeps ==
  ASSUME NEW s, NEW u, NEW y, Open(s, y), QueueOK(s, u, y)
  PROVE  Keeps(s, SndChecks(s), u, y)
<1> DEFINE a == atcp_data_snd_check(s)
<1>1. Keeps(s, a, u, y)
  BY DataSndCheckKeeps
<1>2. SndChecks(s) = atcp_ack_snd_check(a)
  BY DEF SndChecks
<1> HIDE DEF a
<1>3. Open(a, y) /\ QueueOK(a, u, y)
  BY <1>1 DEF Keeps, Grows, Outputs
<1>4. Keeps(a, atcp_ack_snd_check(a), u, y)
  BY <1>3, AckSndCheckKeeps
<1> QED BY <1>1, <1>2, <1>4, KeepsTrans

(***************************************************************************)
(* A step that touches no more than the counts, the peer's window and the  *)
(* receiver's flags.                                                       *)
(***************************************************************************)
CountsMove(s, t) ==
  /\ Record(t) /\ SameLife(s, t) /\ SameQueues(s, t) /\ SameWindow(s, t) /\ t.out = s.out
  /\ t.wq = s.wq /\ t.send_head = s.send_head /\ t.snd_una = s.snd_una
  /\ t.snd_nxt = s.snd_nxt /\ t.write_seq = s.write_seq /\ t.packets_out = s.packets_out

(* Such a step keeps it, if the counts stay numbers. *)
LEMMA CountsMoveKeeps ==
  ASSUME NEW s, NEW t, NEW u, NEW y, Open(s, y), QueueOK(s, u, y), CountsMove(s, t),
         "RETRANS" \in t.timers <=> "RETRANS" \in s.timers,
         t.retrans_head \in (-1)..Sent(s), t.snd_wnd \in Int, t.max_window \in Nat,
         t.fackets_out \in Nat,
         t.high_seq = 0 \/ (t.high_seq \in Int /\ t.high_seq <= t.snd_nxt)
  PROVE  Keeps(s, t, u, y)
<1>1. Sent(t) = Sent(s)
  BY DEF Sent, CountsMove
<1>2. QueueOK(t, u, y)
  BY <1>1 DEF CountsMove, QueueOK, QueueTypes, Whole
<1>3. Outputs(s, t, y)
  BY OutputsQuiet DEF CountsMove, Open
<1> QED BY <1>2, <1>3 DEF Keeps, Grows, CountsMove, Timed, HeadOK, SameLife
=============================================================================
