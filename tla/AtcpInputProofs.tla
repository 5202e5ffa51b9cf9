-------------------------- MODULE AtcpInputProofs ---------------------------
(***************************************************************************)
(* Lemmas about the input of the Linux 2.2 TCP (AtcpInput, AtcpSack).      *)
(*                                                                         *)
(* While an acknowledgement is processed the queue belongs to the number   *)
(* it carries and no longer to snd_una, so the lemmas about it speak of u, *)
(* what has been acknowledged. Handled is what a segment does to a socket  *)
(* that goes on: its queue, its counts and its timers stay in order, the   *)
(* receiving half gets no further than the other end's stream, and what    *)
(* has not been read stays in line. After is what it does to one that may  *)
(* be reset. DoRcvAfter is the sum of it: whatever segment of the other    *)
(* end (Comes) arrives, and whatever state the socket is in.               *)
(***************************************************************************)
EXTENDS AtcpOutputProofs

(***************************************************************************)
(* Least and greatest.                                                     *)
(***************************************************************************)
(* The least of a set of numbers is in it. *)
LEMMA MinInSet ==
  ASSUME NEW S, S \subseteq Nat, S # {}
  PROVE  Min(S) \in S /\ \A k \in S : Min(S) <= k
<1>1. \E x \in S : \A k \in S : x <= k
  BY Xmit!LeastExists
<1> QED BY <1>1 DEF Min

(* The greatest of a bounded set of numbers is in it. *)
LEMMA MaxInSet ==
  ASSUME NEW n \in Nat, NEW S, S \subseteq 0..n, S # {}
  PROVE  Max(S) \in S /\ \A k \in S : Max(S) >= k
<1> DEFINE T == {n - k : k \in S}
<1>1. T \subseteq Nat /\ T # {}
  OBVIOUS
<1>2. PICK m \in T : \A k \in T : m <= k
  BY <1>1, Xmit!LeastExists
<1>3. PICK x \in S : m = n - x
  BY <1>2
<1>4. ASSUME NEW k \in S PROVE x >= k
  <2>1. n - k \in T /\ k \in 0..n /\ x \in 0..n
    OBVIOUS
  <2>2. m <= n - k
    BY <2>1, <1>2
  <2> QED BY <2>1, <2>2, <1>3
<1>5. \E x1 \in S : \A k \in S : x1 >= k
  BY <1>4
<1> QED BY <1>5 DEF Max

(***************************************************************************)
(* New tags for the buffers that were sent.                                *)
(***************************************************************************)
Retagged(s, g, u, y) ==
  /\ IsSeq(g) /\ Len(g) = Sent(s)
  /\ \A i \in 1..Sent(s) : /\ SkbOK(g[i], u, y) /\ g[i].seq = s.wq[i].seq
                          /\ g[i].end = s.wq[i].end /\ g[i].data = s.wq[i].data

RetagQueue(s, g, r) == r = g \o SubSeq(s.wq, Sent(s) + 1, Len(s.wq))

(* New tags leave the order of the queue alone. *)
LEMMA RetagFacts ==
  ASSUME NEW s, NEW u, NEW y, Open(s, y), QueueOK(s, u, y), NEW g, Retagged(s, g, u, y),
         NEW r, RetagQueue(s, g, r)
  PROVE  /\ ChainOK(r, u, y) /\ Len(r) = Len(s.wq)
         /\ \A i \in 1..Sent(s) : r[i] = g[i]
         /\ \A i \in 1..Len(s.wq) : i > Sent(s) => r[i] = s.wq[i]
         /\ \A i \in 1..Len(s.wq) : r[i].seq = s.wq[i].seq /\ r[i].end = s.wq[i].end
<1> DEFINE q == s.wq
           n == Len(q)
           m == Sent(s)
           h == SubSeq(q, m + 1, n)
<1>1. n \in Nat /\ m \in 0..n /\ ChainOK(q, u, y)
  BY SentFacts DEF QueueOK, QueueTypes
<1>2. /\ IsSeq(h) /\ Len(h) = IF m + 1 <= n THEN n - (m + 1) + 1 ELSE 0
      /\ \A i \in 1..(n - (m + 1) + 1) : h[i] = q[(m + 1) + i - 1]
  <2> HIDE DEF m, n, q
  <2> QED BY <1>1, SubSeqFacts
<1>3. IsSeq(g) /\ Len(g) = m
  BY DEF Retagged
<1>4. \A i \in 1..n : SkbOK(q[i], u, y)
  BY <1>1, ChainFacts
<1>5. \A i \in 1..m : /\ SkbOK(g[i], u, y) /\ g[i].seq = q[i].seq /\ g[i].end = q[i].end
                      /\ g[i].data = q[i].data
  BY DEF Retagged
<1> HIDE DEF m, n, h
<1>12. IsSeq(g) /\ IsSeq(h)
  BY <1>2, <1>3
<1>6. /\ IsSeq(r) /\ Len(r) = Len(g) + Len(h) /\ (\A i \in 1..Len(g) : r[i] = g[i])
      /\ \A i \in (Len(g) + 1)..(Len(g) + Len(h)) : r[i] = h[i - Len(g)]
  <2>1. r = g \o h
    BY DEF RetagQueue, m, n, h, q
  <2> HIDE DEF h
  <2> QED BY <2>1, <1>12, ConcatFacts
<1> HIDE DEF q
<1>7. Len(h) = n - m /\ Len(r) = n
  BY <1>1, <1>2, <1>3, <1>6
<1>8. \A i \in 1..m : r[i] = g[i]
  BY <1>3, <1>6
<1>9. ASSUME NEW i \in 1..n, i > m PROVE r[i] = q[i]
  <2>1. i \in (m + 1)..(m + (n - m)) /\ i - m \in 1..(n - (m + 1) + 1) /\ (m + 1) + (i - m) - 1 = i
    BY <1>1, <1>9
  <2>2. r[i] = h[i - m]
    BY <2>1, <1>3, <1>6, <1>7
  <2>3. h[i - m] = q[(m + 1) + (i - m) - 1]
    BY <2>1, <1>2
  <2> QED BY <2>1, <2>2, <2>3
<1>10. ASSUME NEW i \in 1..n
       PROVE  /\ SkbOK(r[i], u, y) /\ r[i].seq = q[i].seq /\ r[i].end = q[i].end
              /\ r[i].data = q[i].data
  <2>1. CASE i > m
    BY <2>1, <1>4, <1>9
  <2>2. CASE ~(i > m)
    <3>1. i \in 1..m
      BY <2>2, <1>1
    <3> QED BY <3>1, <1>5, <1>8
  <2> QED BY <2>1, <2>2
<1>11. ChainOK(r, u, y)
  BY <1>1, <1>6, <1>7, <1>10, ChainSame DEF n
<1> QED BY <1>7, <1>8, <1>9, <1>10, <1>11 DEF h, m, n, q

(* The socket with the new tags. *)
RetagMoves(s, t, g) ==
  /\ Record(t) /\ SameLife(s, t) /\ SameQueues(s, t) /\ SameWindow(s, t) /\ t.out = s.out
  /\ RetagQueue(s, g, t.wq)
  /\ t.send_head = s.send_head /\ t.retrans_head = s.retrans_head
  /\ t.snd_una = s.snd_una /\ t.snd_nxt = s.snd_nxt /\ t.snd_wnd = s.snd_wnd
  /\ t.max_window = s.max_window /\ t.write_seq = s.write_seq
  /\ t.packets_out = s.packets_out /\ t.high_seq = s.high_seq /\ t.timers = s.timers

(* New tags keep what is said about the sending half. *)
LEMMA RetagKeeps ==
  ASSUME NEW s, NEW u, NEW y, Open(s, y), QueueOK(s, u, y), NEW g, Retagged(s, g, u, y),
         NEW t, RetagMoves(s, t, g), t.fackets_out \in Nat
  PROVE  /\ QueueOK(t, u, y) /\ Outputs(s, t, y) /\ Sent(t) = Sent(s)
         /\ (\A i \in 1..Sent(s) : g[i].retrans = s.wq[i].retrans) => Keeps(s, t, u, y)
<1> DEFINE q == s.wq
           n == Len(q)
           m == Sent(s)
<1>1. /\ n \in Nat /\ m \in 0..n /\ (q = <<>> <=> n = 0)
      /\ s.send_head # Null => s.send_head \in 1..n
  BY SentFacts DEF QueueOK
<1>2. /\ ChainOK(t.wq, u, y) /\ Len(t.wq) = n
      /\ \A i \in 1..m : t.wq[i] = g[i]
      /\ \A i \in 1..n : i > m => t.wq[i] = q[i]
      /\ \A i \in 1..n : t.wq[i].seq = q[i].seq /\ t.wq[i].end = q[i].end
  BY RetagFacts DEF RetagMoves
<1>3. Sent(t) = Sent(s) /\ (t.wq = <<>> <=> s.wq = <<>>)
  <2>1. t.wq = <<>> <=> Len(t.wq) = 0
    BY <1>2, ChainFacts
  <2> QED BY <2>1, <1>1, <1>2 DEF RetagMoves, Sent
<1>4. QueueTypes(t, u, y)
  BY <1>2, <1>3 DEF RetagMoves, QueueOK, QueueTypes
<1>5. Whole(t, u)
  <2>1. s.wq # <<>> => 1 \in 1..n /\ n \in 1..n
    BY <1>1
  <2> QED BY <2>1, <1>1, <1>2, <1>3 DEF RetagMoves, QueueOK, Whole
<1>6. Outputs(s, t, y)
  BY OutputsQuiet DEF RetagMoves, Open
<1>7. t.write_seq = s.write_seq /\ t.packets_out = s.packets_out
  BY DEF RetagMoves
<1>8. Timed(s) => Timed(t)
  BY <1>7 DEF RetagMoves, SameLife, Timed
<1>9. ASSUME \A i \in 1..m : g[i].retrans = q[i].retrans, HeadOK(s, u) PROVE HeadOK(t, u)
  <2>1. SUFFICES ASSUME t.wq # <<>> PROVE u < t.wq[1].end \/ t.wq[1].retrans
    BY DEF HeadOK
  <2>2. 1 \in 1..n /\ (1 \in 1..m \/ 1 > m)
    BY <2>1, <1>1, <1>3
  <2>3. t.wq[1].end = q[1].end /\ t.wq[1].retrans = q[1].retrans
    BY <2>2, <1>2, <1>9
  <2>4. u < q[1].end \/ q[1].retrans
    BY <2>1, <1>3, <1>9 DEF HeadOK
  <2> QED BY <2>3, <2>4
<1> QED BY <1>3, <1>4, <1>5, <1>6, <1>7, <1>8, <1>9 DEF QueueOK, Keeps, Grows

(***************************************************************************)
(* SACK blocks.                                                            *)
(***************************************************************************)
(* atcp_sacktag_write_queue for one SACK block keeps it. *)
LEMMA SackTagKeeps ==
  ASSUME NEW s, NEW u, NEW y, Open(s, y), QueueOK(s, u, y), NEW b
  PROVE  Keeps(s, SackTag(s, b), u, y)
<1> DEFINE Below(i) == i <= Sent(s) /\ s.wq[i].seq <= b.end
           tagged == {i \in DOMAIN s.wq : /\ Below(i) /\ b.start <= s.wq[i].seq
                                          /\ s.wq[i].end <= b.end}
           again == Cardinality({i \in tagged : s.wq[i].retrans})
           foremost == Max({0} \cup tagged)
           g == [i \in 1..Sent(s) |-> [s.wq[i] EXCEPT !.sacked = @ \/ i \in tagged]]
           t == SackTag(s, b)
<1>1. Len(s.wq) \in Nat /\ Sent(s) \in 0..Len(s.wq) /\ DOMAIN s.wq = 1..Len(s.wq)
  BY SentFacts, ChainFacts DEF QueueOK, QueueTypes
<1>2. \A i \in 1..Sent(s) : SkbOK(s.wq[i], u, y)
  <2>1. ASSUME NEW i \in 1..Sent(s) PROVE i \in 1..Len(s.wq)
    BY <1>1
  <2> QED BY <2>1, ChainFacts DEF QueueOK, QueueTypes
<1>3. tagged \subseteq DOMAIN s.wq
  OBVIOUS
<1>4. /\ RetagMoves(s, t, g)
      /\ t.fackets_out = Larger(s.fackets_out, foremost)
  BY ZenonT(60) DEF SackTag, RetagMoves, RetagQueue, Open, Record, Fields, SameLife, SameQueues, SameWindow
<1> HIDE DEF tagged, t
<1>5. foremost \in Nat
  <2> DEFINE S == {0} \cup tagged
  <2>1. S \subseteq 0..Len(s.wq) /\ S # {}
    BY <1>1, <1>3
  <2> HIDE DEF S
  <2> DEFINE k == Max(S)
  <2>2. k \in S
    BY <2>1, <1>1, MaxInSet
  <2> HIDE DEF k
  <2>3. k \in Nat
    BY <2>1, <2>2, <1>1
  <2> QED BY <2>3 DEF S, k
<1> HIDE DEF foremost
<1>6. t.fackets_out \in Nat
  BY <1>4, <1>5 DEF Larger, QueueOK, QueueTypes
<1>7. IsSeq(g) /\ Len(g) = Sent(s)
  <2>1. DOMAIN g = 1..Sent(s) /\ g = [i \in DOMAIN g |-> g[i]] /\ Sent(s) \in Nat
    BY <1>1
  <2> HIDE DEF g
  <2> QED BY <2>1, FunctionIsSeq
<1>8. ASSUME NEW i \in 1..Sent(s)
      PROVE  /\ SkbOK(g[i], u, y) /\ g[i].seq = s.wq[i].seq /\ g[i].end = s.wq[i].end
             /\ g[i].retrans = s.wq[i].retrans /\ g[i].data = s.wq[i].data
  <2> DEFINE c == s.wq[i]
             d == [c EXCEPT !.sacked = @ \/ i \in tagged]
  <2>1. g[i] = d
    OBVIOUS
  <2>2. SkbOK(c, u, y)
    BY <1>2
  <2> HIDE DEF c
  <2>3. /\ SkbFields \subseteq DOMAIN d /\ d.seq = c.seq /\ d.end = c.end /\ d.data = c.data
        /\ d.cap = c.cap /\ d.syn = c.syn /\ d.fin = c.fin /\ d.ack = c.ack
        /\ d.retrans = c.retrans
    BY <2>2 DEF SkbOK, SkbTypes, SkbFields
  <2> HIDE DEF d
  <2>4. SkbTypes(d)
    BY <2>2, <2>3 DEF SkbOK, SkbTypes
  <2>5. InStream(d, u, y)
    BY Zenon, <2>2, <2>3 DEF SkbOK, InStream
  <2> QED BY <2>1, <2>3, <2>4, <2>5 DEF c, SkbOK
<1> HIDE DEF g
<1>9. Retagged(s, g, u, y)
  BY <1>7, <1>8 DEF Retagged
<1>10. \A i \in 1..Sent(s) : g[i].retrans = s.wq[i].retrans
  BY <1>8
<1>11. Keeps(s, t, u, y)
  BY <1>4, <1>6, <1>9, <1>10, RetagKeeps
<1> QED BY <1>11 DEF t

TagTurn(q, i, x) == SackTag(x, q[i])
KeepsRel(p, i, x) == Keeps(p.s, x, p.u, p.y)
TagAll == INSTANCE Iteration WITH Step <- TagTurn, Rel <- KeepsRel

(* One turn of the loop over the blocks keeps it. *)
LEMMA TagTurnFacts ==
  ASSUME NEW p, Open(p.s, p.y), QueueOK(p.s, p.u, p.y), NEW q, NEW i, NEW j, NEW x,
         KeepsRel(p, i, x)
  PROVE  KeepsRel(p, j, TagTurn(q, j, x))
<1> DEFINE z == SackTag(x, q[j])
<1>1. Keeps(p.s, x, p.u, p.y)
  BY DEF KeepsRel
<1>2. Open(x, p.y) /\ QueueOK(x, p.u, p.y)
  BY <1>1 DEF Keeps, Grows, Outputs
<1>3. Keeps(x, z, p.u, p.y)
  BY <1>2, SackTagKeeps
<1> HIDE DEF z
<1>4. Keeps(p.s, z, p.u, p.y)
  BY <1>1, <1>3, KeepsTrans
<1> QED BY <1>4 DEF KeepsRel, TagTurn, z

(* atcp_fast_parse_options keeps it. *)
LEMMA SackOptionsKeeps ==
  ASSUME NEW s, NEW u, NEW y, Open(s, y), QueueOK(s, u, y), NEW g, IsSeq(g.sacks)
  PROVE  Keeps(s, atcp_fast_parse_options(s, g), u, y)
<1> DEFINE q == g.sacks
           n == Len(q)
           r == TagAll!Result(q, s, n)
           p == [s |-> s, u |-> u, y |-> y]
<1>1. p.s = s /\ p.u = u /\ p.y = y
  OBVIOUS
<1>2. atcp_fast_parse_options(s, g) = IF SackOk /\ g.sacks # <<>> THEN r ELSE s
  BY DEF atcp_fast_parse_options, atcp_sacktag_write_queue, ForEach, TagAll!Result, TagTurn
<1>3. n \in Nat
  BY SeqFacts
<1> HIDE DEF p, q, n
<1>4. KeepsRel(p, 0, s)
  BY <1>1, KeepsRefl DEF KeepsRel
<1>5. \A i \in 1..n : \A z : KeepsRel(p, i - 1, z) => KeepsRel(p, i, TagTurn(q, i, z))
  BY <1>1, TagTurnFacts
<1>6. KeepsRel(p, n, r)
  BY <1>3, <1>4, <1>5, TagAll!AfterTurns
<1> HIDE DEF r
<1> QED BY <1>1, <1>2, <1>6, KeepsRefl DEF KeepsRel

(***************************************************************************)
(* Acknowledgement: what leaves the queue.                                 *)
(***************************************************************************)
(* More may be acknowledged. *)
LEMMA ChainMore ==
  ASSUME NEW q, NEW u \in Int, NEW v \in Int, u <= v, NEW y, ChainOK(q, u, y)
  PROVE  ChainOK(q, v, y)
<1>1. ASSUME NEW i \in 1..Len(q), i + 1 <= Len(q) PROVE Link(q[i], q[i + 1], v)
  <2>1. Link(q[i], q[i + 1], u) /\ i + 1 \in 1..Len(q)
    BY <1>1, ChainFacts
  <2>2. q[i + 1].seq \in Int
    BY <2>1, ChainFacts
  <2> QED BY <2>1, <2>2 DEF Link
<1>2. ASSUME NEW i \in 1..Len(q) PROVE SkbOK(q[i], v, y)
  <2> DEFINE b == q[i]
  <2>1. SkbOK(b, u, y)
    BY ChainFacts
  <2> HIDE DEF b
  <2>2. y.last \in Nat /\ (y.last <= u => y.last <= v)
    BY <2>1 DEF SkbOK, InStream
  <2>3. SkbTypes(b) /\ InStream(b, v, y)
    BY Zenon, <2>1, <2>2 DEF SkbOK, InStream
  <2> QED BY <2>3 DEF SkbOK, b
<1>3. IsSeq(q)
  BY ChainFacts
<1> QED BY <1>1, <1>2, <1>3, ChainIntro

(* The buffers that go are the first of those that were sent; they end at  *)
(* or below the number, and the next does not or was not sent.             *)
LEMMA AckedFacts ==
  ASSUME NEW s, NEW u, NEW y, QueueOK(s, u, y), NEW ack \in Int
  PROVE  LET n == Len(Acked(s, ack))
         IN /\ n \in 0..Sent(s)
            /\ \A i \in 1..n : s.wq[i].end <= ack
            /\ n + 1 <= Sent(s) => s.wq[n + 1].end > ack
<1> DEFINE len == Len(s.wq)
           Kept(i) == i > Sent(s) \/ s.wq[i].end > ack
           q == [i \in DOMAIN s.wq |-> i]
           I == {i \in 1..len : Kept(i)}
           k == SelectInSeq(q, Kept)
           n == Len(Acked(s, ack))
<1>1. len \in Nat /\ Sent(s) \in 0..len /\ DOMAIN s.wq = 1..len /\ IsSeq(s.wq)
  BY SentFacts, ChainFacts DEF QueueOK, QueueTypes
<1>2. Len(q) = len
  <2>1. DOMAIN q = 1..len /\ q = [i \in DOMAIN q |-> q[i]]
    BY <1>1
  <2> HIDE DEF q, len
  <2> QED BY <1>1, <2>1, FunctionIsSeq
<1>3. k = IF I # {} THEN Min(I) ELSE 0
  <2>1. \A i \in 1..len : q[i] = i
    BY <1>1
  <2>2. {i \in 1..Len(q) : Kept(q[i])} = I
    BY <1>2, <2>1
  <2>3. k = IF {i \in 1..Len(q) : Kept(q[i])} # {} THEN Min({i \in 1..Len(q) : Kept(q[i])}) ELSE 0
    BY DEF SelectInSeq
  <2> QED BY <2>2, <2>3
<1>4. Acked(s, ack) = IF k = 0 THEN s.wq ELSE SubSeq(s.wq, 1, k - 1)
  BY DEF Acked
<1> HIDE DEF k, q, len
<1>5. CASE I = {}
  <2>1. n = len /\ k = 0
    BY <1>3, <1>4, <1>5 DEF len
  <2>2. Sent(s) = len
    <3>1. Sent(s) + 1 \notin I
      BY <1>5
    <3> QED BY <3>1, <1>1
  <2>3. ASSUME NEW i \in 1..len PROVE s.wq[i].end <= ack
    <3>1. ~(s.wq[i].end > ack)
      BY <1>5
    <3>2. s.wq[i].end \in Int
      BY ChainFacts DEF QueueOK, QueueTypes, len
    <3> QED BY <3>1, <3>2
  <2> QED BY <2>1, <2>2, <2>3, <1>1
<1>6. CASE I # {}
  <2>1. I \subseteq Nat /\ I \subseteq 1..len
    BY <1>1
  <2>2. k = Min(I)
    BY <1>3, <1>6
  <2>3. k \in I /\ \A i \in I : k <= i
    <3> HIDE DEF I
    <3> QED BY <2>1, <2>2, <1>6, MinInSet
  <2>4. k \in 1..len /\ Kept(k)
    BY <2>3
  <2>5. n = k - 1
    <3>1. Acked(s, ack) = SubSeq(s.wq, 1, k - 1) /\ 1 \in Int /\ k - 1 \in Int
      BY <1>4, <2>4
    <3>2. Len(Acked(s, ack)) = IF 1 <= k - 1 THEN k - 1 - 1 + 1 ELSE 0
      BY <3>1, SubSeqFacts
    <3> QED BY <3>2, <2>4
  <2> HIDE DEF n
  <2>6. Sent(s) + 1 <= len => k <= Sent(s) + 1
    <3>1. Sent(s) + 1 <= len => Sent(s) + 1 \in I
      BY <1>1
    <3> QED BY <3>1, <2>3
  <2>7. n \in 0..Sent(s)
    BY <2>4, <2>5, <2>6, <1>1
  <2>8. ASSUME NEW i \in 1..n PROVE s.wq[i].end <= ack
    <3>1. i \in 1..len /\ i \notin I
      <4>1. i \in 1..len /\ i < k
        BY <2>4, <2>5, <1>1
      <4> HIDE DEF I
      <4> QED BY <4>1, <2>3, <2>4
    <3>2. ~(s.wq[i].end > ack)
      BY <3>1
    <3>3. s.wq[i].end \in Int
      BY <3>1, ChainFacts DEF QueueOK, QueueTypes, len
    <3> QED BY <3>2, <3>3
  <2>9. n + 1 <= Sent(s) => s.wq[n + 1].end > ack
    BY <2>4, <2>5, <1>1
  <2> QED BY <2>7, <2>8, <2>9 DEF n
<1> QED BY <1>5, <1>6

(* A set of positions has a number of elements. *)
LEMMA SubsetCount ==
  ASSUME NEW n \in Nat, NEW S, S \subseteq 1..n
  PROVE  Cardinality(S) \in Nat
<1>1. IsFiniteSet(1..n)
  BY FS_Interval
<1>2. IsFiniteSet(S)
  BY <1>1, FS_Subset
<1> QED BY <1>2, FS_CardinalityType

(* A step that leaves the receiving half alone, and the retransmission     *)
(* timer runs while something is not acknowledged.                         *)
HalfTimed(s) == s.state \notin {"CLOSE", "GONE"} /\ s.packets_out > 0 => "RETRANS" \in s.timers

Cleaned(s, t, ack) ==
  LET n == Len(Acked(s, ack))
      Shift(p) == IF p > n THEN p - n ELSE IF p > 0 THEN Dangling ELSE p
  IN /\ Record(t) /\ SameLife(s, t) /\ SameQueues(s, t) /\ SameWindow(s, t) /\ t.out = s.out
     /\ t.wq = SubSeq(s.wq, n + 1, Len(s.wq))
     /\ t.packets_out = s.packets_out - n
     /\ t.send_head = Shift(s.send_head)
     /\ t.retrans_head = Shift(KeptRetransHead(s, ack))
     /\ t.snd_una = s.snd_una /\ t.snd_nxt = s.snd_nxt /\ t.snd_wnd = s.snd_wnd
     /\ t.max_window = s.max_window /\ t.write_seq = s.write_seq
     /\ t.high_seq = s.high_seq /\ t.timers = s.timers

(* After the covered buffers left the queue the rest is in order, and the  *)
(* pointers have moved with it.                                            *)
LEMMA CleanedTypes ==
  ASSUME NEW s, NEW u, NEW y, Open(s, y), QueueOK(s, u, y), NEW ack \in Nat, u <= ack,
         ack <= y.seen, NEW t, Cleaned(s, t, ack), t.fackets_out \in Nat
  PROVE  /\ QueueTypes(t, ack, y) /\ Len(t.wq) = Len(s.wq) - Len(Acked(s, ack))
         /\ \A i \in 1..Len(t.wq) : t.wq[i] = s.wq[Len(Acked(s, ack)) + i]
         /\ t.send_head = IF s.send_head = Null THEN Null ELSE s.send_head - Len(Acked(s, ack))
         /\ t.packets_out <= s.packets_out
<1> DEFINE n == Len(Acked(s, ack))
           len == Len(s.wq)
<1>1. /\ len \in Nat /\ Sent(s) \in 0..len /\ s.packets_out = Sent(s)
      /\ s.send_head # Null => s.send_head \in 1..len /\ Sent(s) = s.send_head - 1
      /\ s.send_head = Null => Sent(s) = len
  BY SentFacts DEF QueueOK
<1>2. n \in 0..Sent(s)
  BY AckedFacts
<1>3. /\ t.wq = SubSeq(s.wq, n + 1, len) /\ t.packets_out = s.packets_out - n
      /\ t.send_head = IF s.send_head > n THEN s.send_head - n
                       ELSE IF s.send_head > 0 THEN Dangling ELSE s.send_head
      /\ LET p == KeptRetransHead(s, ack)
         IN t.retrans_head = IF p > n THEN p - n ELSE IF p > 0 THEN Dangling ELSE p
  BY DEF Cleaned
<1> HIDE DEF n
<1>4. ChainOK(s.wq, ack, y)
  BY ChainMore DEF QueueOK, QueueTypes, Whole
<1>5. /\ ChainOK(t.wq, ack, y) /\ Len(t.wq) = len - n
      /\ \A i \in 1..(len - n) : t.wq[i] = s.wq[n + i]
  <2>1. n \in 0..len
    BY <1>1, <1>2
  <2> QED BY <2>1, <1>3, <1>4, ChainDrop
<1> HIDE DEF len
<1>6. t.send_head = IF s.send_head = Null THEN Null ELSE s.send_head - n
  BY <1>1, <1>2, <1>3 DEF Null
<1>7. Sent(t) = Sent(s) - n
  <2>1. CASE s.send_head = Null
    BY <2>1, <1>1, <1>5, <1>6 DEF Sent
  <2>2. CASE s.send_head # Null
    <3>1. t.send_head = s.send_head - n /\ s.send_head - n # Null
      BY <2>2, <1>1, <1>2, <1>6 DEF Null
    <3> QED BY <2>2, <3>1, <1>1, <1>2 DEF Sent
  <2> QED BY <2>1, <2>2
<1>8. t.retrans_head \in (-1)..Sent(t)
  <2> DEFINE p == KeptRetransHead(s, ack)
  <2>1. p \in (-1)..Sent(s)
    <3>1. s.retrans_head \in (-1)..Sent(s)
      BY DEF QueueOK, QueueTypes
    <3> QED BY <3>1, <1>1 DEF KeptRetransHead, Null
  <2>2. t.retrans_head = IF p > n THEN p - n ELSE IF p > 0 THEN -1 ELSE p
    BY <1>3 DEF Dangling
  <2> HIDE DEF p
  <2> QED BY <2>1, <2>2, <1>1, <1>2, <1>7
<1>9. t.send_head \in 0..Len(t.wq) /\ t.packets_out = Sent(t) /\ t.packets_out <= s.packets_out
  BY SMTT(30), <1>1, <1>2, <1>3, <1>5, <1>6, <1>7 DEF Null
<1>10. QueueTypes(t, ack, y)
  <2>1. t.wq # <<>> => s.snd_nxt >= 1
    <3>1. t.wq # <<>> => Len(t.wq) # 0
      BY <1>5, ChainFacts
    <3>2. s.wq = <<>> => Len(s.wq) = 0
      BY EmptyFacts
    <3> QED BY <3>1, <3>2, <1>1, <1>2, <1>5 DEF len, QueueOK, QueueTypes
  <2> QED BY <2>1, <1>5, <1>8, <1>9 DEF Cleaned, QueueOK, QueueTypes
<1> QED BY <1>5, <1>6, <1>9, <1>10 DEF n, len

(* And it is the stream from the acknowledged byte on. *)
LEMMA CleanedWhole ==
  ASSUME NEW s, NEW u, NEW y, Open(s, y), QueueOK(s, u, y), NEW ack \in Nat, u <= ack,
         ack <= s.snd_nxt, ack <= y.seen, NEW t, Cleaned(s, t, ack), t.fackets_out \in Nat
  PROVE  Whole(t, ack) /\ HeadOK(t, ack)
<1> DEFINE n == Len(Acked(s, ack))
           len == Len(s.wq)
<1>1. /\ len \in Nat /\ Sent(s) \in 0..len
      /\ s.send_head # Null => s.send_head \in 1..len /\ Sent(s) = s.send_head - 1
      /\ s.send_head = Null => Sent(s) = len
      /\ (s.wq = <<>> <=> len = 0)
  BY SentFacts DEF QueueOK
<1>2. /\ n \in 0..Sent(s)
      /\ \A i \in 1..n : s.wq[i].end <= ack
      /\ n + 1 <= Sent(s) => s.wq[n + 1].end > ack
  BY AckedFacts
<1>3. /\ Len(t.wq) = len - n
      /\ \A i \in 1..Len(t.wq) : t.wq[i] = s.wq[n + i]
      /\ t.send_head = IF s.send_head = Null THEN Null ELSE s.send_head - n
  BY CleanedTypes
<1>13. t.wq = <<>> <=> Len(t.wq) = 0
  BY CleanedTypes, ChainFacts DEF QueueTypes
<1> HIDE DEF n
<1>4. /\ u \in Nat /\ s.snd_una <= u /\ u <= s.snd_nxt /\ s.snd_una \in Nat /\ s.snd_nxt \in Nat
      /\ s.write_seq \in Nat
      /\ s.wq # <<>> => s.wq[1].seq <= u /\ s.wq[len].end = s.write_seq
      /\ s.wq = <<>> => u = s.write_seq
      /\ s.send_head # Null => s.wq[s.send_head].seq = s.snd_nxt
      /\ s.send_head = Null => s.snd_nxt = s.write_seq
  BY DEF QueueOK, QueueTypes, Whole
<1>5. /\ \A i \in 1..len : /\ s.wq[i].seq \in Int /\ s.wq[i].end \in Int
                           /\ s.wq[i].seq < s.wq[i].end /\ s.wq[i].end <= s.write_seq
      /\ \A i \in 1..len : i + 1 <= len =>
            s.wq[i].end = s.wq[i + 1].seq \/ s.wq[i + 1].seq <= u
      /\ s.snd_nxt <= s.write_seq
  <2>1. ASSUME NEW i \in 1..len
        PROVE  /\ s.wq[i].seq \in Int /\ s.wq[i].end \in Int
               /\ s.wq[i].seq < s.wq[i].end /\ s.wq[i].end <= s.write_seq
               /\ i + 1 <= len => s.wq[i].end = s.wq[i + 1].seq \/ s.wq[i + 1].seq <= u
    BY ChainFacts, NextBelowEnd DEF QueueOK, QueueTypes, Link
  <2> QED BY <2>1, NextBelowEnd
<1> HIDE DEF len
<1>6. ASSUME n < len
      PROVE  /\ s.wq[n + 1].seq <= ack /\ ack < s.wq[n + 1].end
             /\ s.wq[n + 1].end <= s.write_seq
  <2>1. n + 1 \in 1..len /\ n \in Nat /\ s.wq # <<>>
    BY <1>1, <1>2, <1>6
  <2> DEFINE f == s.wq[n + 1].seq
             e == s.wq[n + 1].end
  <2>2. f \in Int /\ e \in Int /\ f < e /\ e <= s.write_seq
    BY <2>1, <1>5
  <2>3. f <= ack
    <3>1. CASE n = 0
      <4>1. s.wq[1].seq <= u /\ f = s.wq[1].seq
        BY <3>1, <2>1, <1>4
      <4> QED BY <4>1, <2>2, <1>4
    <3>2. CASE n # 0
      <4>1. n \in 1..len /\ n \in 1..n /\ n + 1 <= len
        BY <3>2, <2>1, <1>1, <1>6
      <4>2. s.wq[n].end <= ack /\ s.wq[n].end \in Int /\ (s.wq[n].end = f \/ f <= u)
        BY <4>1, <1>2, <1>5
      <4> HIDE DEF f
      <4> QED BY <4>2, <2>2, <1>4
    <3> QED BY <3>1, <3>2
  <2>4. ack < e
    <3>1. CASE n + 1 <= Sent(s)
      BY <3>1, <1>2, <2>2
    <3>2. CASE ~(n + 1 <= Sent(s))
      <4>1. n = Sent(s) /\ s.send_head # Null /\ s.send_head = n + 1
        BY <3>2, <1>1, <1>2, <1>6
      <4>2. f = s.snd_nxt
        BY <4>1, <1>4
      <4> HIDE DEF f, e
      <4> QED BY <4>2, <2>2, <1>4
    <3> QED BY <3>1, <3>2
  <2> QED BY <2>2, <2>3, <2>4
<1>7. /\ t.snd_una = s.snd_una /\ t.snd_nxt = s.snd_nxt /\ t.write_seq = s.write_seq
  BY DEF Cleaned
<1>8. t.snd_una <= ack /\ ack <= t.snd_nxt
  BY <1>4, <1>7
<1>9. ASSUME t.wq # <<>>
      PROVE  /\ t.wq[1].seq <= ack /\ ack < t.write_seq /\ t.wq[Len(t.wq)].end = t.write_seq
             /\ ack < t.wq[1].end
  <2>1. n < len /\ 1 \in 1..Len(t.wq) /\ Len(t.wq) \in 1..Len(t.wq) /\ n + Len(t.wq) = len
    BY <1>1, <1>2, <1>3, <1>9, <1>13
  <2>2. t.wq[1] = s.wq[n + 1] /\ t.wq[Len(t.wq)] = s.wq[len]
    BY <2>1, <1>3
  <2>3. s.wq # <<>> /\ n + 1 \in 1..len
    BY <2>1, <1>1, <1>2
  <2>4. ack < s.write_seq
    <3>1. s.wq[n + 1].end \in Int
      BY <2>3, <1>5
    <3> QED BY <3>1, <2>1, <1>4, <1>6
  <2> QED BY <2>1, <2>2, <2>3, <2>4, <1>4, <1>6, <1>7
<1>10. ASSUME t.wq = <<>> PROVE ack = t.write_seq
  <2>1. n = len
    BY <1>1, <1>2, <1>3, <1>10, <1>13
  <2>2. s.write_seq <= ack
    <3>1. CASE len = 0
      BY <3>1, <1>1, <1>4
    <3>2. CASE len # 0
      <4>1. len \in 1..n /\ s.wq # <<>>
        BY <3>2, <2>1, <1>1
      <4> QED BY <4>1, <1>2, <1>4
    <3> QED BY <3>1, <3>2
  <2> QED BY <2>2, <1>4, <1>5, <1>7
<1>11. t.send_head # Null => t.wq[t.send_head].seq = t.snd_nxt
  <2>1. SUFFICES ASSUME t.send_head # Null PROVE t.wq[t.send_head].seq = t.snd_nxt
    OBVIOUS
  <2>2. s.send_head # Null /\ t.send_head = s.send_head - n
    BY <2>1, <1>3
  <2>4. /\ s.send_head \in 1..len /\ n \in 0..Sent(s) /\ Sent(s) = s.send_head - 1
        /\ Len(t.wq) = len - n
    BY <2>2, <1>1, <1>2, <1>3
  <2>3. t.send_head \in 1..Len(t.wq) /\ n + t.send_head = s.send_head
    <3> DEFINE k == s.send_head
               j == t.send_head
               m == Len(t.wq)
    <3>1. k \in 1..len /\ n \in 0..(k - 1) /\ m = len - n /\ j = k - n /\ len \in Nat
      BY <2>2, <2>4, <1>1
    <3> HIDE DEF k, j, m
    <3>2. j \in 1..m /\ n + j = k
      BY <3>1
    <3> QED BY <3>2 DEF k, j, m
  <2> QED BY <2>2, <2>3, <1>3, <1>4, <1>7
<1>12. t.send_head = Null => t.snd_nxt = t.write_seq
  <2>1. SUFFICES ASSUME t.send_head = Null PROVE t.snd_nxt = t.write_seq
    OBVIOUS
  <2>2. s.send_head = Null
    BY <2>1, <1>1, <1>2, <1>3 DEF Null
  <2> QED BY <2>2, <1>4, <1>7
<1> QED BY <1>8, <1>9, <1>10, <1>11, <1>12 DEF Whole, HeadOK

(* atcp_clean_rtx_queue leaves the queue that belongs to the               *)
(* acknowledgement.                                                        *)
LEMMA CleanFacts ==
  ASSUME NEW s, NEW u, NEW y, Open(s, y), QueueOK(s, u, y), NEW ack \in Nat, u <= ack,
         ack <= s.snd_nxt, ack <= y.seen
  PROVE  LET t == atcp_clean_rtx_queue(s, ack)
         IN /\ QueueOK(t, ack, y) /\ HeadOK(t, ack) /\ Outputs(s, t, y)
            /\ t.write_seq = s.write_seq /\ (HalfTimed(s) => HalfTimed(t))
<1> DEFINE gone == Acked(s, ack)
           n == Len(gone)
           data == Cardinality({i \in 1..n : ~gone[i].syn})
           t == atcp_clean_rtx_queue(s, ack)
<1>1. Cleaned(s, t, ack) /\ t.fackets_out = Less(s.fackets_out, data)
  BY DEF atcp_clean_rtx_queue, Cleaned, Open, Record, Fields, SameLife, SameQueues, SameWindow
<1>2. data \in Nat
  <2>1. n \in Nat
    <3>1. n \in 0..Sent(s) /\ Sent(s) \in Nat
      BY AckedFacts, SentFacts DEF QueueOK
    <3> QED BY <3>1
  <2> DEFINE S == {i \in 1..n : ~gone[i].syn}
  <2>2. S \subseteq 1..n
    OBVIOUS
  <2> HIDE DEF n, S
  <2>3. Cardinality(S) \in Nat
    BY <2>1, <2>2, SubsetCount
  <2> QED BY <2>3 DEF S
<1> HIDE DEF data, t
<1>3. t.fackets_out \in Nat
  BY <1>1, <1>2 DEF Less, Larger, QueueOK, QueueTypes
<1>4. QueueTypes(t, ack, y) /\ t.packets_out <= s.packets_out
  BY <1>1, <1>3, CleanedTypes
<1>5. Whole(t, ack) /\ HeadOK(t, ack)
  BY <1>1, <1>3, CleanedWhole
<1>6. Outputs(s, t, y)
  BY <1>1, OutputsQuiet DEF Cleaned, Open
<1>7. t.write_seq = s.write_seq
  BY <1>1 DEF Cleaned
<1>8. HalfTimed(s) => HalfTimed(t)
  <2>1. t.packets_out \in Nat /\ s.packets_out \in Nat
    BY <1>4, SentFacts DEF QueueOK
  <2> QED BY <2>1, <1>1, <1>4 DEF HalfTimed, Cleaned, SameLife
<1> QED BY <1>4, <1>5, <1>6, <1>7, <1>8 DEF QueueOK, t

(***************************************************************************)
(* A sender in order, of which u is acknowledged.                          *)
(***************************************************************************)
GoodAt(s, u, y) == Open(s, y) /\ QueueOK(s, u, y) /\ HeadOK(s, u) /\ Timed(s)
Good(s, y) == GoodAt(s, s.snd_una, y)

Advance(s, t, u, y) == GoodAt(t, u, y) /\ Outputs(s, t, y) /\ t.write_seq = s.write_seq

(* What output keeps is a step of the sender at the same acknowledgement. *)
LEMMA KeepsAdvance ==
  ASSUME NEW s, NEW t, NEW u, NEW y, GoodAt(s, u, y), Keeps(s, t, u, y)
  PROVE  Advance(s, t, u, y)
  BY DEF GoodAt, Keeps, Grows, Advance, Outputs

(* Two steps are one. *)
LEMMA AdvanceTrans ==
  ASSUME NEW r, NEW s, NEW t, NEW u, NEW v, NEW y, GoodAt(r, v, y), NEW w, Advance(r, s, w, y),
         Advance(s, t, u, y)
  PROVE  Advance(r, t, u, y)
<1>1. t.write_seq = r.write_seq
  BY DEF Advance
<1>2. Outputs(r, t, y)
  BY OutputsTrans DEF Advance, GoodAt
<1> QED BY <1>1, <1>2 DEF Advance

(***************************************************************************)
(* What an acknowledgement does besides.                                   *)
(***************************************************************************)
(* Opening the congestion window touches no more than the counts. *)
LEMMA OpenWindowFacts ==
  ASSUME NEW s, NEW u, NEW y, Open(s, y), QueueOK(s, u, y), NEW data, NEW again
  PROVE  LET t == OpenWindow(s, data, again)
         IN Keeps(s, t, u, y) /\ (HalfTimed(s) => HalfTimed(t))
<1> DEFINE t == OpenWindow(s, data, again)
<1>1. StartFields(s, t) /\ t.timers = s.timers
  BY DEF OpenWindow, atcp_cong_avoid, Open, StartFields, Record, Fields, SameLife, SameQueue,
     SameQueues, SameWindow
<1> HIDE DEF t
<1>2. Keeps(s, t, u, y)
  BY <1>1, FrameKeeps
<1>3. HalfTimed(s) => HalfTimed(t)
  BY <1>1 DEF StartFields, SameLife, SameQueue, HalfTimed
<1> QED BY <1>2, <1>3 DEF t

(* Ending a retransmission touches no more than the counts. *)
LEMMA EndRetransmitsFacts ==
  ASSUME NEW s, NEW u, NEW y, Open(s, y), QueueOK(s, u, y), NEW data
  PROVE  LET t == EndRetransmits(s, data)
         IN Keeps(s, t, u, y) /\ (HalfTimed(s) => HalfTimed(t))
<1> DEFINE t == EndRetransmits(s, data)
<1>1. /\ CountsMove(s, t) /\ t.timers = s.timers /\ t.retrans_head = s.retrans_head
      /\ t.snd_wnd = s.snd_wnd /\ t.max_window = s.max_window /\ t.high_seq = s.high_seq
      /\ t.fackets_out \in {0, s.fackets_out}
  BY DEF EndRetransmits, Open, CountsMove, Record, Fields, SameLife, SameQueues, SameWindow
<1> HIDE DEF t
<1>2. /\ t.retrans_head \in (-1)..Sent(s) /\ t.snd_wnd \in Int /\ t.max_window \in Nat
      /\ t.fackets_out \in Nat
      /\ t.high_seq = 0 \/ (t.high_seq \in Int /\ t.high_seq <= t.snd_nxt)
  BY <1>1 DEF CountsMove, QueueOK, QueueTypes
<1>3. Keeps(s, t, u, y)
  BY <1>1, <1>2, CountsMoveKeeps
<1>4. HalfTimed(s) => HalfTimed(t)
  BY <1>1 DEF CountsMove, SameLife, HalfTimed
<1> QED BY <1>3, <1>4 DEF t

(* The timer stops when nothing is left that was not acknowledged.         *)
LEMMA AckTimerFacts ==
  ASSUME NEW s, NEW u, NEW y, Open(s, y), QueueOK(s, u, y), HalfTimed(s), HeadOK(s, u), NEW data
  PROVE  Advance(s, AckTimer(s, data), u, y)
<1>1. CASE s.packets_out = 0
  <2> DEFINE t == atcp_clear_xmit_timer(s, "RETRANS")
  <2>1. StartFields(s, t) /\ "RETRANS" \notin t.timers
    BY DEF atcp_clear_xmit_timer, Open, StartFields, Record, Fields, SameLife, SameQueue,
       SameQueues, SameWindow
  <2>2. AckTimer(s, data) = t
    BY <1>1 DEF AckTimer
  <2> HIDE DEF t
  <2>3. Outputs(s, t, y)
    BY <2>1, OutputsQuiet DEF StartFields, Open
  <2>4. /\ QueueOK(t, u, y) /\ t.packets_out = 0 /\ t.write_seq = s.write_seq /\ HeadOK(t, u)
    BY <2>1, <1>1, SameQueueOK DEF StartFields
  <2>5. Timed(t)
    BY <2>1, <2>4 DEF Timed
  <2> QED BY <2>2, <2>3, <2>4, <2>5 DEF Advance, GoodAt, Outputs
<1>2. CASE s.packets_out # 0
  <2>1. s.packets_out > 0 /\ Timed(s)
    <3>1. s.packets_out \in Nat
      BY SentFacts DEF QueueOK
    <3> QED BY <3>1, <1>2 DEF HalfTimed, Timed
  <2> DEFINE a == IF s.retransmits # 0 THEN atcp_xmit_retransmit_queue(s) ELSE s
  <2>2. AckTimer(s, data) = IF data THEN StartRetrans(a) ELSE s
    BY <1>2 DEF AckTimer, atcp_ack_packets_out
  <2>3. Keeps(s, a, u, y) /\ Keeps(s, s, u, y)
    BY KeepsRefl, RetransmitQueueKeeps
  <2> HIDE DEF a
  <2>4. Ready(s, a, u, y)
    BY <2>1, <2>3 DEF Keeps, Grows, Ready
  <2>5. Keeps(s, StartRetrans(a), u, y)
    BY <2>3, <2>4, StartKeeps DEF Keeps
  <2>6. Keeps(s, AckTimer(s, data), u, y)
    BY <2>2, <2>3, <2>5
  <2>7. GoodAt(s, u, y)
    BY <2>1 DEF GoodAt
  <2> QED BY <2>6, <2>7, KeepsAdvance
<1> QED BY <1>1, <1>2

(* An acknowledgement that advances: the queue is cleaned, the timer set,  *)
(* and the sender is in order at the new number.                           *)
LEMMA AckQueueFacts ==
  ASSUME NEW s, NEW u, NEW y, GoodAt(s, u, y), NEW ack \in Nat, u <= ack, ack <= s.snd_nxt,
         ack <= y.seen
  PROVE  Advance(s, AckQueue(s, ack), ack, y)
<1> DEFINE data == AckedData(s, ack)
           again == AckedRetrans(s, ack)
           c == atcp_clean_rtx_queue(s, ack)
           o == OpenWindow(c, data, again)
           e == EndRetransmits(o, data)
           t == AckTimer(e, data)
<1>1. AckQueue(s, ack) = t
  BY DEF AckQueue
<1>2. Open(s, y) /\ QueueOK(s, u, y) /\ HalfTimed(s)
  BY DEF GoodAt, Timed, HalfTimed
<1> HIDE DEF data, again
<1>3. /\ QueueOK(c, ack, y) /\ HeadOK(c, ack) /\ Outputs(s, c, y)
      /\ c.write_seq = s.write_seq /\ HalfTimed(c)
  BY <1>2, CleanFacts
<1> HIDE DEF c
<1>4. Open(c, y)
  BY <1>3 DEF Outputs
<1>5. Keeps(c, o, ack, y) /\ HalfTimed(o)
  BY <1>3, <1>4, OpenWindowFacts
<1> HIDE DEF o
<1>6. Open(o, y) /\ QueueOK(o, ack, y)
  BY <1>5 DEF Keeps, Grows, Outputs
<1>7. Keeps(o, e, ack, y) /\ HalfTimed(e)
  BY <1>5, <1>6, EndRetransmitsFacts
<1> HIDE DEF e
<1>8. Keeps(c, e, ack, y)
  BY <1>3, <1>4, <1>5, <1>7, KeepsTrans
<1>9. Open(e, y) /\ QueueOK(e, ack, y) /\ HeadOK(e, ack)
  BY <1>3, <1>8 DEF Keeps, Grows, Outputs
<1>10. Advance(e, t, ack, y)
  BY <1>7, <1>9, AckTimerFacts
<1> HIDE DEF t
<1>11. Outputs(c, t, y)
  BY <1>4, <1>8, <1>10, OutputsTrans DEF Keeps, Grows, Advance
<1>12. Outputs(s, t, y)
  BY <1>2, <1>3, <1>11, OutputsTrans
<1>13. t.write_seq = s.write_seq
  BY <1>3, <1>8, <1>10 DEF Keeps, Advance
<1> QED BY <1>1, <1>10, <1>12, <1>13 DEF Advance

(***************************************************************************)
(* Duplicate acknowledgements.                                             *)
(***************************************************************************)
(* The steps into and out of fast retransmission that touch no more than   *)
(* the counts.                                                             *)
LEMMA ClearFastKeeps ==
  ASSUME NEW s, NEW u, NEW y, Open(s, y), QueueOK(s, u, y), NEW t,
         \/ t = s
         \/ t = clear_fast_retransmit(s)
         \/ t = [clear_fast_retransmit(s) EXCEPT !.high_seq = 0, !.fackets_out = 0]
         \/ t = [s EXCEPT !.dup_acks = 0]
         \/ t = [s EXCEPT !.dup_acks = @ + 1]
         \/ t = [[s EXCEPT !.dup_acks = @ + 1] EXCEPT !.snd_cwnd = @ + 1]
         \/ t = [s EXCEPT !.snd_ssthresh = atcp_recalc_ssthresh(s),
                          !.snd_cwnd = atcp_recalc_ssthresh(s) + 3, !.high_seq = s.snd_nxt]
  PROVE  Keeps(s, t, u, y)
<1> DEFINE Moved == /\ CountsMove(s, t) /\ t.timers = s.timers /\ t.retrans_head = s.retrans_head
                    /\ t.snd_wnd = s.snd_wnd /\ t.max_window = s.max_window
                    /\ t.high_seq = 0 \/ t.high_seq = s.high_seq \/ t.high_seq = s.snd_nxt
                    /\ t.fackets_out = 0 \/ t.fackets_out = s.fackets_out
<1>1. Moved
  <2>1. CASE t = s
    BY <2>1 DEF Open, CountsMove, Record, Fields, SameLife, SameQueues, SameWindow
  <2>2. CASE t = clear_fast_retransmit(s)
    BY <2>2 DEF clear_fast_retransmit, Open, CountsMove, Record, Fields, SameLife, SameQueues,
       SameWindow
  <2>3. CASE t = [clear_fast_retransmit(s) EXCEPT !.high_seq = 0, !.fackets_out = 0]
    BY <2>3 DEF clear_fast_retransmit, Open, CountsMove, Record, Fields, SameLife, SameQueues,
       SameWindow
  <2>4. CASE t = [s EXCEPT !.dup_acks = 0]
    BY <2>4 DEF Open, CountsMove, Record, Fields, SameLife, SameQueues, SameWindow
  <2>5. CASE t = [s EXCEPT !.dup_acks = @ + 1]
    BY <2>5 DEF Open, CountsMove, Record, Fields, SameLife, SameQueues, SameWindow
  <2>6. CASE t = [[s EXCEPT !.dup_acks = @ + 1] EXCEPT !.snd_cwnd = @ + 1]
    BY <2>6 DEF Open, CountsMove, Record, Fields, SameLife, SameQueues, SameWindow
  <2>7. CASE t = [s EXCEPT !.snd_ssthresh = atcp_recalc_ssthresh(s),
                           !.snd_cwnd = atcp_recalc_ssthresh(s) + 3, !.high_seq = s.snd_nxt]
    BY <2>7 DEF Open, CountsMove, Record, Fields, SameLife, SameQueues, SameWindow
  <2> QED BY <2>1, <2>2, <2>3, <2>4, <2>5, <2>6, <2>7
<1>2. /\ t.retrans_head \in (-1)..Sent(s) /\ t.snd_wnd \in Int /\ t.max_window \in Nat
      /\ t.fackets_out \in Nat
      /\ t.high_seq = 0 \/ (t.high_seq \in Int /\ t.high_seq <= t.snd_nxt)
  BY <1>1 DEF CountsMove, QueueOK, QueueTypes
<1> QED BY <1>1, <1>2, CountsMoveKeeps

(* Resending the first buffer and starting the timer keeps it. *)
LEMMA ResendFirstKeeps ==
  ASSUME NEW s, NEW u, NEW y, Open(s, y), QueueOK(s, u, y), Sent(s) >= 1
  PROVE  Keeps(s, StartRetrans(atcp_retransmit_skb(s, 1)), u, y)
<1> DEFINE t == atcp_retransmit_skb(s, 1)
<1>1. 1 \in 1..Sent(s)
  BY SentFacts DEF QueueOK
<1>2. Resent(s, t, 1, u, y)
  BY <1>1, RetransmitKeeps
<1> HIDE DEF t
<1>3. Ready(s, t, u, y)
  BY <1>2 DEF Resent, Keeps, Grows, Ready
<1>4. Keeps(s, StartRetrans(t), u, y)
  BY <1>2, <1>3, StartKeeps DEF Resent, Keeps
<1> QED BY <1>4 DEF t

(* Fast retransmission keeps it. *)
LEMMA FastRetransmitKeeps ==
  ASSUME NEW s, NEW u, NEW y, Open(s, y), QueueOK(s, u, y), s.packets_out > 0
  PROVE  Keeps(s, FastRetransmit(s), u, y)
<1> DEFINE t == [s EXCEPT !.snd_ssthresh = atcp_recalc_ssthresh(s),
                          !.snd_cwnd = atcp_recalc_ssthresh(s) + 3, !.high_seq = s.snd_nxt]
           f == atcp_fack_retransmit(t)
<1>1. \/ FastRetransmit(s) = StartRetrans(atcp_retransmit_skb(t, 1))
      \/ FastRetransmit(s) = StartRetrans(f)
  BY DEF FastRetransmit
<1>2. Keeps(s, t, u, y)
  BY ClearFastKeeps
<1> HIDE DEF t
<1>3. Open(t, y) /\ QueueOK(t, u, y) /\ t.packets_out > 0
  BY <1>2 DEF Keeps, Grows, Outputs
<1>4. Sent(t) >= 1
  BY <1>3, SentFacts DEF QueueOK
<1>5. Keeps(t, StartRetrans(atcp_retransmit_skb(t, 1)), u, y)
  BY <1>3, <1>4, ResendFirstKeeps
<1>6. Keeps(t, f, u, y)
  BY <1>3, FackRetransmitKeeps
<1> HIDE DEF f
<1>7. Ready(t, f, u, y)
  BY <1>3, <1>6 DEF Keeps, Grows, Ready
<1>8. Keeps(t, StartRetrans(f), u, y)
  BY <1>3, <1>6, <1>7, StartKeeps DEF Keeps
<1> QED BY <1>1, <1>2, <1>5, <1>8, KeepsTrans

(* A duplicate acknowledgement keeps it. *)
LEMMA DuplicateKeeps ==
  ASSUME NEW s, NEW u, NEW y, Open(s, y), QueueOK(s, u, y), s.packets_out # 0
  PROVE  Keeps(s, Duplicate(s), u, y)
<1> DEFINE t == [s EXCEPT !.dup_acks = @ + 1]
           w == [t EXCEPT !.snd_cwnd = @ + 1]
<1>1. \/ Duplicate(s) = t
      \/ Duplicate(s) = w
      \/ Duplicate(s) = FastRetransmit(t)
      \/ Duplicate(s) = atcp_fack_retransmit(t)
  BY DEF Duplicate
<1>2. Keeps(s, t, u, y) /\ Keeps(s, w, u, y)
  BY ClearFastKeeps
<1>3. s.packets_out > 0
  BY SentFacts DEF QueueOK
<1> HIDE DEF t, w
<1>4. Open(t, y) /\ QueueOK(t, u, y) /\ t.packets_out > 0
  BY <1>2, <1>3 DEF Keeps, Grows, Outputs
<1>5. Keeps(t, FastRetransmit(t), u, y) /\ Keeps(t, atcp_fack_retransmit(t), u, y)
  BY <1>4, FastRetransmitKeeps, FackRetransmitKeeps
<1>6. Keeps(s, FastRetransmit(t), u, y) /\ Keeps(s, atcp_fack_retransmit(t), u, y)
  BY <1>2, <1>5, KeepsTrans
<1> QED BY <1>1, <1>2, <1>6

(* atcp_fast_retrans keeps it. *)
LEMMA FastRetransKeeps ==
  ASSUME NEW s, NEW u, NEW y, Open(s, y), QueueOK(s, u, y), NEW data, NEW winupd
  PROVE  Keeps(s, AckDuplicate(s, u, data, winupd), u, y)
<1> DEFINE c == clear_fast_retransmit(s)
           e == [c EXCEPT !.high_seq = 0, !.fackets_out = 0]
           z == [s EXCEPT !.dup_acks = 0]
           t == AckDuplicate(s, u, data, winupd)
<1>1. \/ t = s \/ t = c \/ t = e \/ t = z
      \/ s.packets_out # 0 /\ t = Duplicate(s)
      \/ t = atcp_fack_retransmit(s)
      \/ s.high_seq # 0 /\ ~(u >= s.high_seq) /\ t = StartRetrans(atcp_retransmit_skb(s, 1))
  BY Zenon DEF AckDuplicate, atcp_fast_retrans
<1>2. Keeps(s, s, u, y) /\ Keeps(s, c, u, y) /\ Keeps(s, e, u, y) /\ Keeps(s, z, u, y)
  BY ClearFastKeeps
<1> HIDE DEF c, e, z, t
<1>3. ASSUME s.high_seq # 0, ~(u >= s.high_seq) PROVE Sent(s) >= 1
  <2>1. u < s.snd_nxt
    BY <1>3 DEF QueueOK, QueueTypes, Whole
  <2> QED BY <2>1, InFlight
<1>4. Keeps(s, atcp_fack_retransmit(s), u, y)
  BY FackRetransmitKeeps
<1>5. s.packets_out # 0 => Keeps(s, Duplicate(s), u, y)
  BY DuplicateKeeps
<1>6. s.high_seq # 0 /\ ~(u >= s.high_seq) =>
        Keeps(s, StartRetrans(atcp_retransmit_skb(s, 1)), u, y)
  BY <1>3, ResendFirstKeeps
<1>7. Keeps(s, t, u, y)
  BY <1>1, <1>2, <1>4, <1>5, <1>6
<1> QED BY <1>7 DEF t


(***************************************************************************)
(* What handling a segment does to the socket.                             *)
(***************************************************************************)
Later == {"ESTABLISHED", "FIN_WAIT1", "FIN_WAIT2", "CLOSE_WAIT", "CLOSING", "LAST_ACK"}
Writing == {"SYN_SENT", "SYN_RECV", "ESTABLISHED", "CLOSE_WAIT"}
StateStep(s, t) ==
  /\ \/ t.state = s.state
     \/ t.state = "CLOSE"
     \/ s.state \notin {"CLOSE", "GONE"} /\ t.state \in Later
  /\ t.state \in Writing => s.state \in Writing

(* Of the socket and what it counts. *)
Stepped(s, t, y) ==
  /\ Good(t, y) /\ Edge(s, t) /\ t.write_seq = s.write_seq /\ t.rcv_nxt >= s.rcv_nxt
  /\ t.zapped = s.zapped /\ t.dead = s.dead /\ StateStep(s, t)

(* And of what has not been read: it stays in line, and reading goes on    *)
(* where it was, or begins with the first byte.                            *)
Line(s, t) ==
  InLine(s) => /\ InLine(t)
               /\ t.copied_seq = s.copied_seq \/ (s.state = "SYN_SENT" /\ t.copied_seq = 1)

Handled(s, t, y) == Stepped(s, t, y) /\ Line(s, t)

(* Two steps are one. *)
LEMMA SteppedTrans ==
  ASSUME NEW r, NEW s, NEW t, NEW y, Good(r, y), Stepped(r, s, y), Stepped(s, t, y)
  PROVE  Stepped(r, t, y)
<1>1. Edge(r, t) /\ t.rcv_nxt >= r.rcv_nxt
  <2>1. /\ r.rcv_wup \in Int /\ r.rcv_wnd \in Int /\ s.rcv_wup \in Int /\ s.rcv_wnd \in Int
        /\ t.rcv_wup \in Int /\ t.rcv_wnd \in Int
        /\ r.rcv_nxt \in Int /\ s.rcv_nxt \in Int /\ t.rcv_nxt \in Int
    BY DEF Stepped, Good, GoodAt, Open, ReceiverOK
  <2>2. /\ s.rcv_wup + s.rcv_wnd >= r.rcv_wup + r.rcv_wnd
        /\ t.rcv_wup + t.rcv_wnd >= s.rcv_wup + s.rcv_wnd
        /\ s.rcv_nxt >= r.rcv_nxt /\ t.rcv_nxt >= s.rcv_nxt
    BY DEF Stepped, Edge
  <2>3. t.rcv_wup + t.rcv_wnd >= r.rcv_wup + r.rcv_wnd /\ t.rcv_nxt >= r.rcv_nxt
    BY <2>1, <2>2
  <2> QED BY <2>3 DEF Edge
<1>2. StateStep(r, t)
  BY DEF Stepped, StateStep, Later
<1> QED BY <1>1, <1>2 DEF Stepped

(* Two segments handled are one step. *)
LEMMA HandledTrans ==
  ASSUME NEW r, NEW s, NEW t, NEW y, Good(r, y), Handled(r, s, y), Handled(s, t, y)
  PROVE  Handled(r, t, y)
<1>1. Stepped(r, t, y)
  BY SteppedTrans DEF Handled
<1>2. s.state = "SYN_SENT" => r.state = "SYN_SENT"
  BY DEF Handled, Stepped, StateStep, Later
<1>3. Line(r, t)
  BY <1>2 DEF Handled, Line
<1> QED BY <1>1, <1>3 DEF Handled

(* The same queues are in line as before. *)
LEMMA SameLine ==
  ASSUME NEW s, NEW t, SameQueues(s, t)
  PROVE  Line(s, t)
BY DEF SameQueues, Line, InLine

(* Doing nothing is one. *)
LEMMA HandledRefl ==
  ASSUME NEW s, NEW y, Good(s, y)
  PROVE  Handled(s, s, y)
<1>1. Edge(s, s) /\ s.rcv_nxt >= s.rcv_nxt
  BY SMTT(30) DEF Good, GoodAt, Edge, Open, ReceiverOK
<1>2. Line(s, s)
  BY DEF Line
<1> QED BY <1>1, <1>2 DEF Handled, Stepped, StateStep

(* Output is one, and changes neither state nor snd_una. *)
LEMMA KeepsHandled ==
  ASSUME NEW s, NEW t, NEW y, Good(s, y), Keeps(s, t, s.snd_una, y)
  PROVE  Handled(s, t, y) /\ t.state = s.state /\ t.snd_una = s.snd_una /\ SameQueues(s, t)
<1>1. Advance(s, t, s.snd_una, y)
  BY KeepsAdvance DEF Good
<1>2. SameLife(s, t) /\ Edge(s, t) /\ SameQueues(s, t)
  BY <1>1 DEF Advance, Outputs
<1>3. t.rcv_nxt >= s.rcv_nxt
  <2>1. t.rcv_nxt = s.rcv_nxt /\ s.rcv_nxt \in Int
    BY <1>2 DEF SameQueues, Good, GoodAt, Open, ReceiverOK
  <2> QED BY <2>1
<1>4. Line(s, t)
  BY <1>2, SameLine
<1> QED BY <1>1, <1>2, <1>3, <1>4 DEF Advance, Handled, Stepped, Good, SameLife, StateStep

(* The parts of Good that output needs. *)
LEMMA GoodFacts ==
  ASSUME NEW s, NEW y, Good(s, y)
  PROVE  Open(s, y) /\ QueueOK(s, s.snd_una, y)
  BY DEF Good, GoodAt

(***************************************************************************)
(* An acknowledgement.                                                     *)
(***************************************************************************)
(* Taking the peer's window keeps it. *)
LEMMA TakeWindowKeeps ==
  ASSUME NEW s, NEW u, NEW y, Open(s, y), QueueOK(s, u, y), NEW g, g.window \in Nat
  PROVE  Keeps(s, TakeWindow(s, g), u, y)
<1> DEFINE t == TakeWindow(s, g)
<1>1. /\ CountsMove(s, t) /\ t.timers = s.timers /\ t.retrans_head = s.retrans_head
      /\ t.high_seq = s.high_seq /\ t.fackets_out = s.fackets_out
      /\ t.snd_wnd = s.snd_wnd \/ t.snd_wnd = g.window
      /\ t.max_window = s.max_window \/ t.max_window = Larger(s.max_window, g.window)
  <2>1. CASE WindowUpdate(s, g)
    BY <2>1 DEF TakeWindow, Open, CountsMove, Record, Fields, SameLife, SameQueues, SameWindow
  <2>2. CASE ~WindowUpdate(s, g)
    BY <2>2 DEF TakeWindow, Open, CountsMove, Record, Fields, SameLife, SameQueues, SameWindow
  <2> QED BY <2>1, <2>2
<1> HIDE DEF t
<1>2. /\ t.retrans_head \in (-1)..Sent(s) /\ t.snd_wnd \in Int /\ t.max_window \in Nat
      /\ t.fackets_out \in Nat
      /\ t.high_seq = 0 \/ (t.high_seq \in Int /\ t.high_seq <= t.snd_nxt)
  BY <1>1 DEF CountsMove, QueueOK, QueueTypes, Larger
<1>3. Keeps(s, t, u, y)
  BY <1>1, <1>2, CountsMoveKeeps
<1> QED BY <1>3 DEF t

(* atcp_ack_probe keeps it. *)
LEMMA AckProbeKeeps ==
  ASSUME NEW s, NEW u, NEW y, Open(s, y), QueueOK(s, u, y), NEW ack
  PROVE  Keeps(s, AckProbe(s, ack), u, y)
<1> DEFINE t == AckProbe(s, ack)
<1>1. StartFields(s, t)
  BY DEF AckProbe, atcp_ack_probe, atcp_clear_xmit_timer, atcp_reset_xmit_timer, Open, StartFields,
     Record, Fields, SameLife, SameQueue, SameQueues, SameWindow
<1>2. "RETRANS" \in t.timers <=> "RETRANS" \in s.timers
  BY DEF AckProbe, atcp_ack_probe, atcp_clear_xmit_timer, atcp_reset_xmit_timer, Open, Record, Fields
<1> HIDE DEF t
<1>3. Keeps(s, t, u, y)
  BY <1>1, <1>2, FrameKeeps
<1> QED BY <1>3 DEF t

(* The acknowledgement is noted at the end. *)
LEMMA NoteAck ==
  ASSUME NEW s, NEW u, NEW y, GoodAt(s, u, y), NEW t, t = [s EXCEPT !.snd_una = u]
  PROVE  /\ GoodAt(t, u, y) /\ t.snd_una = u /\ SameQueues(s, t)
         /\ t.rcv_wup = s.rcv_wup /\ t.rcv_wnd = s.rcv_wnd
         /\ t.state = s.state /\ t.zapped = s.zapped /\ t.dead = s.dead
         /\ t.write_seq = s.write_seq
<1>1. Record(s) /\ u \in Nat
  BY DEF GoodAt, Open, QueueOK, Whole
<1>2. /\ Record(t) /\ t.snd_una = u /\ SameQueues(s, t) /\ t.out = s.out
      /\ t.rcv_wup = s.rcv_wup /\ t.rcv_wnd = s.rcv_wnd /\ t.tw = s.tw
      /\ t.delayed_acks = s.delayed_acks
      /\ t.state = s.state /\ t.zapped = s.zapped /\ t.dead = s.dead
      /\ t.wq = s.wq /\ t.send_head = s.send_head /\ t.retrans_head = s.retrans_head
      /\ t.snd_nxt = s.snd_nxt /\ t.snd_wnd = s.snd_wnd
      /\ t.max_window = s.max_window /\ t.write_seq = s.write_seq
      /\ t.packets_out = s.packets_out /\ t.fackets_out = s.fackets_out
      /\ t.high_seq = s.high_seq /\ t.timers = s.timers
  BY <1>1 DEF Record, Fields, SameQueues
<1>3. Sent(t) = Sent(s)
  BY <1>2 DEF Sent
<1>4. QueueTypes(t, u, y)
  BY <1>1, <1>2, <1>3 DEF GoodAt, QueueOK, QueueTypes
<1>5. Whole(t, u)
  BY <1>1, <1>2 DEF GoodAt, QueueOK, Whole
<1>6. HeadOK(t, u) /\ Timed(t)
  BY <1>2 DEF GoodAt, HeadOK, Timed
<1>7. ReceiverOK(t)
  BY <1>2 DEF GoodAt, Open, ReceiverOK, SameQueues
<1>8. Open(t, y)
  BY <1>2, <1>7 DEF GoodAt, Open, Come, SameQueues
<1> QED BY <1>2, <1>4, <1>5, <1>6, <1>8 DEF GoodAt, QueueOK

(* atcp_ack handles a segment: one whose acknowledgement is too old or not *)
(* yet sent changes nothing, and an acceptable one becomes snd_una.        *)
LEMMA AckFacts ==
  ASSUME NEW s, NEW y, Good(s, y), NEW g, g.window \in Nat, g.ack_seq \in Int,
         g.ack_seq <= y.seen
  PROVE  LET t == atcp_ack(s, g)
         IN /\ Handled(s, t, y) /\ t.state = s.state
            /\ SameQueues(s, t)
            /\ ~s.zapped /\ Acceptable(s, g) => t.snd_una = g.ack_seq
<1> DEFINE u == s.snd_una
           ack == g.ack_seq
           k == IF s.pending = "KEEPOPEN" THEN [s EXCEPT !.probes_out = 0] ELSE s
           d == IF HasData(g) THEN atcp_delack_estimator(k) ELSE k
           w == TakeWindow(d, g)
           p == AckProbe(w, ack)
           q == AckQueue(p, ack)
           f == AckDuplicate(q, ack, HasData(g), WindowUpdate(d, g))
           t == atcp_ack(s, g)
<1>1. t = IF s.zapped THEN s ELSE IF ~Acceptable(s, g) THEN k ELSE [f EXCEPT !.snd_una = ack]
  BY DEF atcp_ack
<1>2. Open(s, y) /\ QueueOK(s, u, y) /\ GoodAt(s, u, y)
  BY DEF Good, GoodAt
<1>3. Keeps(s, k, u, y) /\ SameQueues(s, k)
  <2>1. StartFields(s, k) /\ k.timers = s.timers
    BY <1>2 DEF Open, StartFields, Record, Fields, SameLife, SameQueue, SameQueues, SameWindow
  <2>2. SameQueues(s, k)
    BY <2>1 DEF StartFields
  <2> HIDE DEF k
  <2>3. Keeps(s, k, u, y)
    BY <2>1, <1>2, FrameKeeps
  <2> QED BY <2>2, <2>3
<1> HIDE DEF k
<1>4. Open(k, y) /\ QueueOK(k, u, y)
  BY <1>3 DEF Keeps, Grows, Outputs
<1>5. Keeps(k, d, u, y)
  <2>1. StartFields(k, d) /\ d.timers = k.timers
    BY <1>4 DEF atcp_delack_estimator, Open, StartFields, Record, Fields, SameLife, SameQueue,
       SameQueues, SameWindow
  <2> HIDE DEF d
  <2>2. Keeps(k, d, u, y)
    BY <2>1, <1>4, FrameKeeps
  <2> QED BY <2>2
<1>6. Keeps(s, d, u, y)
  BY <1>2, <1>3, <1>5, KeepsTrans
<1> HIDE DEF d
<1>7. Open(d, y) /\ QueueOK(d, u, y)
  BY <1>6 DEF Keeps, Grows, Outputs
<1>8. Keeps(d, w, u, y)
  BY <1>7, TakeWindowKeeps
<1>9. Keeps(s, w, u, y)
  BY <1>2, <1>6, <1>8, KeepsTrans
<1> HIDE DEF w
<1>10. Open(w, y) /\ QueueOK(w, u, y)
  BY <1>9 DEF Keeps, Grows, Outputs
<1>11. Keeps(w, p, u, y)
  BY <1>10, AckProbeKeeps
<1>12. Keeps(s, p, u, y)
  BY <1>2, <1>9, <1>11, KeepsTrans
<1> HIDE DEF p
<1>13. Advance(s, p, u, y)
  BY <1>2, <1>12, KeepsAdvance
<1>14. ASSUME ~s.zapped, Acceptable(s, g)
       PROVE  Handled(s, t, y) /\ t.state = s.state /\ SameQueues(s, t) /\ t.snd_una = ack
  <2>1. u \in Nat /\ u <= ack /\ ack <= s.snd_nxt /\ ack \in Nat /\ ack <= y.seen
    BY <1>2, <1>14 DEF Acceptable, QueueOK, QueueTypes
  <2>2. GoodAt(p, u, y)
    BY <1>13 DEF Advance
  <2>3. p.snd_nxt \in Nat /\ p.snd_una = u
    BY <1>13 DEF Advance, GoodAt, QueueOK, QueueTypes, Outputs, SameLife
  <2>4. ack <= p.snd_nxt
    <3>1. p.snd_nxt = s.snd_nxt
      <4>1. k.snd_nxt = s.snd_nxt
        BY <1>2 DEF k, Open, Record, Fields
      <4>2. d.snd_nxt = k.snd_nxt
        BY <1>4 DEF d, atcp_delack_estimator, Open, Record, Fields
      <4>3. w.snd_nxt = d.snd_nxt
        BY <1>7 DEF w, TakeWindow, Open, Record, Fields
      <4>4. p.snd_nxt = w.snd_nxt
        BY <1>10 DEF p, AckProbe, atcp_ack_probe, atcp_clear_xmit_timer, atcp_reset_xmit_timer, Open,
           Record, Fields
      <4> QED BY <4>1, <4>2, <4>3, <4>4
    <3> QED BY <3>1, <2>1
  <2> HIDE DEF u, ack
  <2>5. Advance(p, q, ack, y)
    BY <2>1, <2>2, <2>4, AckQueueFacts
  <2> HIDE DEF q
  <2>6. Advance(s, q, ack, y)
    BY <1>2, <1>13, <2>5, AdvanceTrans
  <2>7. Open(q, y) /\ QueueOK(q, ack, y) /\ GoodAt(q, ack, y)
    BY <2>6 DEF Advance, GoodAt
  <2>8. Keeps(q, f, ack, y)
    BY <2>7, FastRetransKeeps
  <2> HIDE DEF f
  <2>9. Advance(q, f, ack, y)
    BY <2>7, <2>8, KeepsAdvance
  <2>10. Advance(s, f, ack, y)
    BY <1>2, <2>6, <2>9, AdvanceTrans
  <2>11. GoodAt(f, ack, y)
    BY <2>10 DEF Advance
  <2>12. t = [f EXCEPT !.snd_una = ack]
    BY <1>1, <1>14
  <2> HIDE DEF t
  <2>13. /\ GoodAt(t, ack, y) /\ t.snd_una = ack /\ SameQueues(f, t)
         /\ t.rcv_wup = f.rcv_wup /\ t.rcv_wnd = f.rcv_wnd
         /\ t.state = f.state /\ t.zapped = f.zapped /\ t.dead = f.dead
         /\ t.write_seq = f.write_seq
    BY <2>11, <2>12, NoteAck
  <2>14. Edge(s, t) /\ SameQueues(s, t)
    BY <2>10, <2>13 DEF Advance, Outputs, Edge, SameQueues
  <2>15. t.state = s.state /\ t.zapped = s.zapped /\ t.dead = s.dead /\ t.write_seq = s.write_seq
    BY <2>10, <2>13 DEF Advance, Outputs, SameLife
  <2>16. t.rcv_nxt >= s.rcv_nxt
    <3>1. t.rcv_nxt = s.rcv_nxt /\ s.rcv_nxt \in Int
      BY <2>14, <1>2 DEF SameQueues, Open, ReceiverOK
    <3> QED BY <3>1
  <2>17. Line(s, t)
    BY <2>14, SameLine
  <2> QED BY <2>13, <2>14, <2>15, <2>16, <2>17 DEF Handled, Stepped, Good, StateStep
<1>15. CASE s.zapped
  <2>1. t = s
    BY <1>1, <1>15
  <2>2. Handled(s, s, y) /\ SameQueues(s, s)
    BY HandledRefl DEF SameQueues
  <2> QED BY <2>1, <2>2, <1>15
<1>16. CASE ~s.zapped /\ ~Acceptable(s, g)
  <2>1. t = k
    BY <1>1, <1>16
  <2> HIDE DEF t
  <2>2. Handled(s, k, y) /\ k.state = s.state
    BY <1>3, KeepsHandled
  <2>3. Handled(s, t, y) /\ t.state = s.state /\ SameQueues(s, t)
    BY <2>1, <2>2, <1>3
  <2> QED BY <2>3, <1>16 DEF t
<1> QED BY <1>14, <1>15, <1>16

(***************************************************************************)
(* The list of SACK blocks stays a sequence.                               *)
(***************************************************************************)
(* A sequence of one element. *)
LEMMA SingleFacts ==
  ASSUME NEW x
  PROVE  IsSeq(<<x>>) /\ Len(<<x>>) = 1 /\ <<x>>[1] = x
<1>1. <<x>> \in Seq({x})
  OBVIOUS
<1> QED BY <1>1 DEF IsSeq

(* Taking out an element leaves a sequence. *)
LEMMA RemoveIsSeq ==
  ASSUME NEW q, IsSeq(q), NEW i \in Int
  PROVE  IsSeq(RemoveAt(q, i))
<1> DEFINE a == SubSeq(q, 1, i - 1)
           b == SubSeq(q, i + 1, Len(q))
<1>1. i - 1 \in Int /\ i + 1 \in Int /\ Len(q) \in Int /\ 1 \in Int
  BY SeqFacts
<1>2. IsSeq(a) /\ IsSeq(b)
  BY <1>1, SubSeqFacts
<1>3. RemoveAt(q, i) = a \o b
  BY DEF RemoveAt
<1> HIDE DEF a, b
<1> QED BY <1>2, <1>3, ConcatFacts

(* atcp_sack_maybe_coalesce leaves a list of blocks. *)
LEMMA CoalesceSeq ==
  ASSUME NEW q, IsSeq(q), NEW k
  PROVE  IsSeq(atcp_sack_maybe_coalesce(q, k))
<1> DEFINE sp == q[k]
           Touches(j) == j # k /\ (Between(sp.start, q[j]) \/ Between(sp.end, q[j]))
           ids == [i \in DOMAIN q |-> i]
           I == {i \in 1..Len(ids) : Touches(ids[i])}
           j == First(ids, Touches)
           joined == IF Between(sp.start, q[j])
                     THEN [sp EXCEPT !.start = q[j].start]
                     ELSE [sp EXCEPT !.end = q[j].end]
           r == [q EXCEPT ![k] = joined]
<1>1. \/ atcp_sack_maybe_coalesce(q, k) = q
      \/ j # 0 /\ atcp_sack_maybe_coalesce(q, k) = RemoveAt(r, j)
  BY DEF atcp_sack_maybe_coalesce
<1>2. Len(ids) \in Nat
  <2>1. Len(q) \in Nat /\ DOMAIN ids = 1..Len(q) /\ ids = [i \in DOMAIN ids |-> ids[i]]
    BY SeqFacts
  <2> HIDE DEF ids
  <2> QED BY <2>1, FunctionIsSeq
<1>3. j = IF I # {} THEN Min(I) ELSE 0
  BY DEF First, SelectInSeq
<1> HIDE DEF j, ids
<1>4. j \in Int
  <2>1. I \subseteq Nat
    BY <1>2
  <2> HIDE DEF I
  <2>2. I # {} => Min(I) \in I
    BY <2>1, MinInSet
  <2>3. I # {} => Min(I) \in Nat
    BY <2>1, <2>2
  <2> QED BY <2>3, <1>3
<1> HIDE DEF joined
<1>5. IsSeq(r)
  BY ExceptFacts
<1> HIDE DEF r
<1> QED BY <1>1, <1>4, <1>5, RemoveIsSeq

(* atcp_sack_new_ofo_skb leaves a list of blocks. *)
LEMMA NewBlockSeq ==
  ASSUME NEW q, IsSeq(q), NEW b
  PROVE  IsSeq(atcp_sack_new_ofo_skb(q, b))
<1> DEFINE Adjacent(c) == c.end = b.seq \/ c.start = b.end
           k == First(q, Adjacent)
           grown == IF q[k].end = b.seq
                    THEN [q[k] EXCEPT !.end = b.end]
                    ELSE [q[k] EXCEPT !.start = b.seq]
           x == IF k = 1 THEN grown ELSE q[1]
           one == [q EXCEPT ![1] = grown]
           two == [one EXCEPT ![k] = x]
           h == <<Block(b)>>
           m == Smaller(Len(q), MaxSacks - 1)
           d == SubSeq(q, 1, m)
<1>1. \/ atcp_sack_new_ofo_skb(q, b) = h \o d
      \/ atcp_sack_new_ofo_skb(q, b) = atcp_sack_maybe_coalesce(two, 1)
  BY DEF atcp_sack_new_ofo_skb
<1>2. IsSeq(h)
  BY SingleFacts
<1>3. m \in Int /\ 1 \in Int
  BY SeqFacts, MaxSacksPositive DEF Smaller
<1> HIDE DEF m, grown, x, k
<1>4. IsSeq(d)
  BY <1>3, SubSeqFacts
<1>5. IsSeq(one)
  BY ExceptFacts
<1> HIDE DEF one
<1>6. IsSeq(two)
  BY <1>5, ExceptFacts
<1> HIDE DEF two, h, d
<1>7. IsSeq(h \o d)
  BY <1>2, <1>4, ConcatFacts
<1>8. IsSeq(atcp_sack_maybe_coalesce(two, 1))
  BY <1>6, CoalesceSeq
<1> QED BY <1>1, <1>7, <1>8

(* atcp_sack_remove_skb leaves a list of blocks. *)
LEMMA RemoveBlockSeq ==
  ASSUME NEW q, IsSeq(q), NEW b
  PROVE  IsSeq(atcp_sack_remove_skb(q, b))
<1> DEFINE Covered(c) == b.seq <= c.start /\ c.start < b.end
           I == {i \in 1..Len(q) : Covered(q[i])}
           k == First(q, Covered)
           x == [q[k] EXCEPT !.start = b.end]
           r == [q EXCEPT ![k].start = b.end]
<1>1. \/ atcp_sack_remove_skb(q, b) = q
      \/ atcp_sack_remove_skb(q, b) = RemoveAt(q, k)
      \/ atcp_sack_remove_skb(q, b) = r
  BY DEF atcp_sack_remove_skb
<1>2. k = IF I # {} THEN Min(I) ELSE 0
  BY DEF First, SelectInSeq
<1> HIDE DEF k
<1>3. k \in Int
  <2>1. I \subseteq Nat
    BY SeqFacts
  <2> HIDE DEF I
  <2>2. I # {} => Min(I) \in I
    BY <2>1, MinInSet
  <2>3. I # {} => Min(I) \in Nat
    BY <2>1, <2>2
  <2> QED BY <2>3, <1>2
<1>4. r = [q EXCEPT ![k] = x]
  OBVIOUS
<1> HIDE DEF x, r
<1>5. IsSeq(r)
  BY <1>4, ExceptFacts
<1>6. IsSeq(RemoveAt(q, k))
  BY <1>3, RemoveIsSeq
<1> QED BY <1>1, <1>5, <1>6

(* atcp_sack_extend leaves a list of blocks. *)
LEMMA ExtendBlockSeq ==
  ASSUME NEW q, IsSeq(q), NEW old, NEW new
  PROVE  IsSeq(atcp_sack_extend(q, old, new))
<1> DEFINE Ends(c) == c.end = old.end
           k == First(q, Ends)
           x == [q[k] EXCEPT !.end = new.end]
           r == [q EXCEPT ![k].end = new.end]
<1>1. atcp_sack_extend(q, old, new) = q \/ atcp_sack_extend(q, old, new) = r
  BY DEF atcp_sack_extend
<1> HIDE DEF k
<1>2. r = [q EXCEPT ![k] = x]
  OBVIOUS
<1> HIDE DEF x, r
<1>3. IsSeq(r)
  BY <1>2, ExceptFacts
<1> QED BY <1>1, <1>3

(***************************************************************************)
(* The receive queues hold buffers, and they are pieces of the stream.     *)
(***************************************************************************)
HoldsOK(q, y) == BuffersOK(q) /\ Pieces(q, y)

(* One buffer more. *)
LEMMA BuffersAppend ==
  ASSUME NEW q, NEW y, HoldsOK(q, y), NEW b, BufferOK(b), Piece(b, y)
  PROVE  HoldsOK(Append(q, b), y) /\ HoldsOK(<<b>>, y)
<1>1. IsSeq(q) /\ Len(q) \in Nat
  BY SeqFacts DEF HoldsOK, BuffersOK
<1>2. /\ IsSeq(Append(q, b)) /\ Len(Append(q, b)) = Len(q) + 1
      /\ \A i \in 1..Len(q) : Append(q, b)[i] = q[i]
      /\ Append(q, b)[Len(q) + 1] = b
  BY <1>1, AppendFacts
<1>3. ASSUME NEW i \in 1..(Len(q) + 1) PROVE BufferOK(Append(q, b)[i]) /\ Piece(Append(q, b)[i], y)
  <2>1. i \in 1..Len(q) \/ i = Len(q) + 1
    BY <1>1
  <2> QED BY <2>1, <1>2 DEF HoldsOK, BuffersOK, Pieces
<1>4. HoldsOK(Append(q, b), y)
  BY <1>2, <1>3 DEF HoldsOK, BuffersOK, Pieces
<1>5. HoldsOK(<<b>>, y)
  BY SingleFacts DEF HoldsOK, BuffersOK, Pieces
<1> QED BY <1>4, <1>5

(* No buffer. *)
LEMMA BuffersEmpty ==
  ASSUME NEW y
  PROVE  HoldsOK(<<>>, y)
<1>1. \A i \in 1..0 : FALSE
  OBVIOUS
<1> QED BY <1>1, EmptyFacts DEF HoldsOK, BuffersOK, Pieces

(* One buffer less. *)
LEMMA BuffersTail ==
  ASSUME NEW q, NEW y, HoldsOK(q, y), q # <<>>
  PROVE  HoldsOK(Tail(q), y) /\ BufferOK(Head(q)) /\ Piece(Head(q), y)
<1>1. IsSeq(q) /\ Len(q) \in Nat /\ Len(q) # 0
  BY SeqFacts DEF HoldsOK, BuffersOK
<1>2. /\ IsSeq(Tail(q)) /\ Len(Tail(q)) = Len(q) - 1 /\ Head(q) = q[1]
      /\ \A i \in 1..Len(Tail(q)) : Tail(q)[i] = q[i + 1]
  BY <1>1, TailFacts
<1>3. \A i \in 1..(Len(q) - 1) : i + 1 \in 1..Len(q)
  BY <1>1
<1>4. HoldsOK(Tail(q), y)
  BY <1>2, <1>3 DEF HoldsOK, BuffersOK, Pieces
<1>5. 1 \in 1..Len(q)
  BY <1>1
<1> QED BY <1>2, <1>4, <1>5 DEF HoldsOK, BuffersOK, Pieces

(* The buffers from one on. *)
LEMMA BuffersDrop ==
  ASSUME NEW q, NEW y, HoldsOK(q, y), NEW k \in Nat, k >= 1
  PROVE  HoldsOK(SubSeq(q, k, Len(q)), y)
<1> DEFINE n == Len(q)
           r == SubSeq(q, k, n)
<1>1. n \in Nat
  BY SeqFacts DEF HoldsOK, BuffersOK
<1>2. /\ IsSeq(r) /\ Len(r) = IF k <= n THEN n - k + 1 ELSE 0
      /\ \A i \in 1..(n - k + 1) : r[i] = q[k + i - 1]
  <2> HIDE DEF n
  <2> QED BY <1>1, SubSeqFacts
<1> HIDE DEF r
<1>3. ASSUME NEW i \in 1..Len(r) PROVE BufferOK(r[i]) /\ Piece(r[i], y)
  <2>1. i \in 1..(n - k + 1) /\ k + i - 1 \in 1..n
    BY <1>1, <1>2
  <2> QED BY <2>1, <1>2 DEF HoldsOK, BuffersOK, Pieces
<1> QED BY <1>2, <1>3 DEF HoldsOK, BuffersOK, Pieces, r

(* A buffer in between. *)
LEMMA BuffersInsert ==
  ASSUME NEW q, NEW y, HoldsOK(q, y), NEW b, BufferOK(b), Piece(b, y), NEW i \in 1..(Len(q) + 1)
  PROVE  HoldsOK(InsertAt(q, i, b), y)
<1>1. IsSeq(q) /\ Len(q) \in Nat
  BY SeqFacts DEF HoldsOK, BuffersOK
<1>2. /\ IsSeq(InsertAt(q, i, b)) /\ Len(InsertAt(q, i, b)) = Len(q) + 1
      /\ \A j \in 1..(Len(q) + 1) :
           InsertAt(q, i, b)[j] = IF j < i THEN q[j] ELSE IF j = i THEN b ELSE q[j - 1]
  BY <1>1, InsertAtFacts
<1>3. ASSUME NEW j \in 1..(Len(q) + 1)
      PROVE  BufferOK(InsertAt(q, i, b)[j]) /\ Piece(InsertAt(q, i, b)[j], y)
  <2>1. j < i => j \in 1..Len(q)
    BY <1>1
  <2>2. ~(j < i) /\ j # i => j - 1 \in 1..Len(q)
    BY <1>1
  <2> QED BY <2>1, <2>2, <1>2 DEF HoldsOK, BuffersOK, Pieces
<1> QED BY <1>2, <1>3 DEF HoldsOK, BuffersOK, Pieces

(* A buffer replaced. *)
LEMMA BuffersReplace ==
  ASSUME NEW q, NEW y, HoldsOK(q, y), NEW b, BufferOK(b), Piece(b, y), NEW k
  PROVE  HoldsOK([q EXCEPT ![k] = b], y)
<1> DEFINE r == [q EXCEPT ![k] = b]
<1>1. IsSeq(q)
  BY DEF HoldsOK, BuffersOK
<1>4. IsSeq(r) /\ Len(r) = Len(q)
  BY <1>1, ExceptFacts
<1>5. \A j \in 1..Len(q) : r[j] = IF j = k THEN b ELSE q[j]
  BY <1>1, ExceptFacts
<1> HIDE DEF r
<1>3. \A j \in 1..Len(q) : BufferOK(r[j]) /\ Piece(r[j], y)
  BY <1>5 DEF HoldsOK, BuffersOK, Pieces
<1> QED BY <1>4, <1>3 DEF HoldsOK, BuffersOK, Pieces, r

(***************************************************************************)
(* What a step that leaves the sending half alone does.                    *)
(***************************************************************************)
SameOffer(s, t) ==
  /\ t.rcv_wup = s.rcv_wup /\ t.rcv_wnd = s.rcv_wnd
  /\ t.tw = s.tw \/ (BucketOK(t.tw) /\ BucketAcks(t.tw, t.rcv_nxt))

Moves(s, t) ==
  /\ Record(t) /\ SameQueue(s, t) /\ SameOffer(s, t) /\ t.out = s.out
  /\ t.zapped = s.zapped /\ t.dead = s.dead
  /\ ("RETRANS" \in t.timers <=> "RETRANS" \in s.timers)

(* How far the receiving half gets. *)
Reaches(s, t, y) ==
  /\ t.rcv_nxt \in Int /\ t.rcv_nxt >= s.rcv_nxt /\ t.rcv_nxt <= y.theirs + Flag(y.ended)
  /\ HoldsOK(t.rq, y) /\ HoldsOK(t.ofo, y) /\ IsSeq(t.sacks) /\ t.in_hand \in Int

(* A state in which data can be taken, or after one. *)
Late(s) == s.state \notin {"SYN_SENT", "SYN_RECV"}

(* Everywhere but before the peer's SYN. *)
Goes(s, t, y) == Handled(s, t, y) /\ t.state # "SYN_SENT" /\ (Late(s) => Late(t))

(* What acknowledges no more than one number acknowledges no more than a   *)
(* greater one.                                                            *)
LEMMA AllAckMore ==
  ASSUME NEW q, IsSeq(q), NEW y, SegmentsOK(q, y), NEW m \in Int, NEW n \in Int, m <= n, AllAck(q, m)
  PROVE  AllAck(q, n)
<1>1. ASSUME NEW i \in 1..Len(q) PROVE Acks(q[i], n)
  <2>1. q[i].ack_seq \in Int /\ Acks(q[i], m)
    BY DEF SegmentsOK, SegmentOK, SegmentTypes, AllAck
  <2>2. q[i].ack_seq <= m => q[i].ack_seq <= n
    BY <2>1
  <2> QED BY <2>1, <2>2 DEF Acks
<1> QED BY <1>1 DEF AllAck

(* Nor does a TIME-WAIT bucket. *)
LEMMA BucketAcksMore ==
  ASSUME NEW w, BucketOK(w), NEW m \in Int, NEW n \in Int, m <= n, BucketAcks(w, m)
  PROVE  BucketAcks(w, n)
BY DEF BucketOK, BucketAcks

(* The receiving half of a sender in order. *)
LEMMA ReceiverFacts ==
  ASSUME NEW s, NEW y, Good(s, y)
  PROVE  /\ Record(s) /\ ReceiverOK(s) /\ Come(s, y) /\ ViewOK(y)
         /\ HoldsOK(s.rq, y) /\ HoldsOK(s.ofo, y) /\ s.rcv_nxt \in Int
         /\ IsSeq(s.sacks) /\ s.in_hand \in Int
BY DEF Good, GoodAt, Open, ReceiverOK, Come, HoldsOK

(* A step of the receiving half handles a segment, whatever becomes of     *)
(* what has not been read.                                                 *)
LEMMA MovesStepped ==
  ASSUME NEW s, NEW t, NEW y, Good(s, y), Moves(s, t), StateStep(s, t), Reaches(s, t, y),
         t.state = "SYN_SENT" => /\ s.state = "SYN_SENT" /\ t.rcv_nxt = s.rcv_nxt
                                 /\ t.delayed_acks = s.delayed_acks,
         s.state = "SYN_SENT" => t.state \in {"SYN_SENT", "CLOSE"},
         t.state \in {"SYN_SENT", "SYN_RECV"} => t.rq = <<>> /\ t.ofo = <<>>,
         t.state # "SYN_SENT" => y.up
  PROVE  Stepped(s, t, y)
<1>1. /\ QueueOK(t, s.snd_una, y) /\ t.packets_out = s.packets_out
      /\ t.write_seq = s.write_seq /\ HeadOK(t, s.snd_una)
  BY SameQueueOK DEF Good, GoodAt, Moves
<1>2. Timed(t)
  BY <1>1 DEF Timed, Good, GoodAt, Moves, StateStep
<1>3. ReceiverOK(t)
  BY DEF Good, GoodAt, Open, ReceiverOK, Moves, SameOffer, Reaches, HoldsOK
<1>4. /\ s.rcv_nxt \in Int /\ t.rcv_nxt \in Int /\ s.rcv_nxt <= t.rcv_nxt
      /\ SegmentsOK(s.out, y) /\ AllAck(s.out, s.rcv_nxt) /\ IsSeq(s.out)
      /\ BucketOK(s.tw) /\ BucketAcks(s.tw, s.rcv_nxt) /\ t.out = s.out
  BY DEF Good, GoodAt, Open, ReceiverOK, Come, Reaches, SegmentsOK, Moves
<1>5. AllAck(t.out, t.rcv_nxt)
  BY <1>4, AllAckMore
<1>6. BucketAcks(t.tw, t.rcv_nxt)
  <2>1. BucketAcks(s.tw, t.rcv_nxt)
    BY <1>4, BucketAcksMore
  <2> QED BY <2>1 DEF Moves, SameOffer
<1>7. t.state \notin {"SYN_SENT", "CLOSE", "GONE"} => t.rcv_nxt >= 1
  <2>1. t.state \notin {"SYN_SENT", "CLOSE", "GONE"} =>
          s.state \notin {"SYN_SENT", "CLOSE", "GONE"}
    BY DEF StateStep
  <2>2. t.state \notin {"SYN_SENT", "CLOSE", "GONE"} => s.rcv_nxt >= 1
    BY <2>1 DEF Good, GoodAt, Open, Come
  <2> QED BY <2>2, <1>4
<1>8. t.state = "SYN_SENT" => t.delayed_acks = 0
  BY DEF Good, GoodAt, Open, Come
<1>9. Come(t, y)
  BY <1>5, <1>6, <1>7, <1>8 DEF Good, GoodAt, Open, Come, Reaches, HoldsOK
<1>10. Open(t, y)
  BY <1>3, <1>9 DEF Good, GoodAt, Open, Moves
<1>11. Edge(s, t)
  BY DEF Good, GoodAt, Open, ReceiverOK, Edge, Moves, SameOffer
<1>12. t.snd_una = s.snd_una
  BY DEF Moves, SameQueue
<1> QED BY <1>1, <1>2, <1>10, <1>11, <1>12 DEF Stepped, Good, GoodAt, Moves, Reaches

(* Two such steps are one. *)
LEMMA GoesTrans ==
  ASSUME NEW r, NEW s, NEW t, NEW y, Good(r, y), Goes(r, s, y), Goes(s, t, y)
  PROVE  Goes(r, t, y)
BY HandledTrans DEF Goes

(* After one the next can follow. *)
LEMMA GoesFacts ==
  ASSUME NEW s, NEW t, NEW y, Goes(s, t, y)
  PROVE  Good(t, y) /\ t.state # "SYN_SENT" /\ (Late(s) => Late(t))
BY DEF Goes, Handled, Stepped

(* Output is one. *)
LEMMA KeepsGoes ==
  ASSUME NEW s, NEW t, NEW y, Good(s, y), s.state # "SYN_SENT", Keeps(s, t, s.snd_una, y)
  PROVE  Goes(s, t, y)
BY KeepsHandled DEF Goes, Late

(* A socket that has left SYN-SENT does not return to it. *)
LEMMA NotSynSent ==
  ASSUME NEW s, NEW t, NEW y, Handled(s, t, y), s.state # "SYN_SENT"
  PROVE  Goes(s, t, y)
BY DEF Handled, Stepped, Goes, StateStep, Later, Late

(* A receiving half that has taken no more, except out of order. *)
LEMMA ReachesBut ==
  ASSUME NEW s, NEW t, NEW y, Good(s, y), t.rq = s.rq, t.rcv_nxt = s.rcv_nxt,
         t.copied_seq = s.copied_seq, HoldsOK(t.ofo, y), IsSeq(t.sacks), t.in_hand \in Int
  PROVE  Reaches(s, t, y) /\ Line(s, t)
<1>1. Line(s, t)
  BY DEF Line, InLine
<1>2. s.rcv_nxt >= s.rcv_nxt
  BY ReceiverFacts
<1> QED BY <1>1, <1>2, ReceiverFacts DEF Reaches, Come

(* A step that leaves the receive queues alone gets no further. *)
LEMMA ReachesSame ==
  ASSUME NEW s, NEW t, NEW y, Good(s, y), SameQueues(s, t)
  PROVE  Reaches(s, t, y) /\ Line(s, t)
<1>1. HoldsOK(t.ofo, y) /\ IsSeq(t.sacks) /\ t.in_hand \in Int
  BY ReceiverFacts DEF SameQueues
<1> QED BY <1>1, ReachesBut DEF SameQueues

(* A buffer that continues the stream. *)
LEMMA AppendReaches ==
  ASSUME NEW s, NEW t, NEW y, Good(s, y), NEW b, BufferOK(b), Piece(b, y),
         b.seq <= s.rcv_nxt, s.rcv_nxt < b.end, t.rq = Append(s.rq, b), t.rcv_nxt = b.end,
         t.copied_seq = s.copied_seq, t.ofo = s.ofo, t.sacks = s.sacks, t.in_hand \in Int
  PROVE  Reaches(s, t, y) /\ Line(s, t)
<1> DEFINE q == s.rq
           r == t.rq
           n == Len(q)
           d == Len(b.data)
           x == s.rcv_nxt
<1>1. /\ x \in Int /\ b.end \in Int /\ b.seq \in Int /\ d \in Nat /\ y.theirs \in Nat
      /\ HoldsOK(q, y) /\ IsSeq(q) /\ n \in Nat
  BY ReceiverFacts, SeqFacts DEF Piece, BufferOK, ViewOK, HoldsOK, BuffersOK
<1>2. b.end <= y.theirs + Flag(y.ended) /\ b.end <= y.theirs + 1
  <2>1. b.end = b.seq + d + Flag(b.fin) /\ b.seq + d <= y.theirs
    BY DEF Piece
  <2>2. CASE b.fin
    <3>1. y.ended /\ b.end = y.theirs + 1
      BY <2>2 DEF Piece
    <3> QED BY <3>1, <1>1 DEF Flag
  <2>3. CASE ~b.fin
    <3>1. b.end <= y.theirs
      <4>1. Flag(b.fin) = 0
        BY <2>3 DEF Flag
      <4> HIDE DEF d
      <4> QED BY <4>1, <2>1, <1>1
    <3> QED BY <3>1, <1>1 DEF Flag
  <2> QED BY <2>2, <2>3
<1>3. HoldsOK(r, y)
  BY <1>1, BuffersAppend
<1>4. b.end >= x
  BY <1>1
<1>5. Reaches(s, t, y)
  BY <1>1, <1>2, <1>3, <1>4, ReceiverFacts DEF Reaches
<1>6. ASSUME InLine(s) PROVE InLine(t)
  <2> DEFINE c == s.copied_seq
  <2>1. /\ Len(r) = n + 1 /\ r[n + 1] = b /\ \A i \in 1..n : r[i] = q[i]
    BY <1>1, AppendFacts
  <2>2. c \in Int /\ c <= x
    BY <1>1, <1>6 DEF InLine
  <2>3. r # <<>>
    <3>1. Len(r) # 0
      BY <2>1, <1>1
    <3> HIDE DEF r
    <3> QED BY <3>1, EmptyFacts
  <2>4. r[1].seq <= c
    <3>1. CASE q = <<>>
      <4>1. n = 0 /\ c = x
        BY <3>1, <1>6, EmptyFacts DEF InLine
      <4>2. r[1] = b
        BY <4>1, <2>1
      <4> QED BY <4>1, <4>2
    <3>2. CASE q # <<>>
      <4>1. 1 \in 1..n
        BY <3>2, <1>1, SeqFacts
      <4>2. r[1] = q[1] /\ q[1].seq <= c
        BY <4>1, <2>1, <3>2, <1>6 DEF InLine
      <4> QED BY <4>2
    <3> QED BY <3>1, <3>2
  <2>5. c < b.end
    BY <2>2, <1>1
  <2>6. ASSUME NEW i \in 1..Len(r), i + 1 <= Len(r)
        PROVE  r[i + 1].seq <= r[i].end /\ r[i].end < b.end /\ ~r[i].fin
    <3> HIDE DEF r, q
    <3>1. i \in 1..n /\ (i + 1 <= n \/ i = n)
      BY <2>1, <2>6, <1>1
    <3>2. r[i] = q[i]
      BY <3>1, <2>1
    <3>3. CASE i + 1 <= n
      <4>1. i + 1 \in 1..n
        BY <3>1, <3>3, <1>1
      <4>2. r[i + 1] = q[i + 1]
        BY <4>1, <2>1
      <4>3. q[i + 1].seq <= q[i].end /\ q[i].end < x /\ ~q[i].fin
        BY <3>1, <3>3, <1>6 DEF InLine, q
      <4>4. q[i].end \in Int
        BY <3>1, <1>1 DEF HoldsOK, BuffersOK, BufferOK
      <4>5. q[i].end < b.end
        BY <4>3, <4>4, <1>1
      <4> QED BY <3>2, <4>2, <4>3, <4>5
    <3>4. CASE i = n
      <4>1. r[i + 1] = b /\ q[i].end = x
        <5>1. q # <<>> => q[n].end = x
          BY <1>6 DEF InLine, q
        <5>2. q # <<>>
          BY <3>1, EmptyFacts
        <5> QED BY <5>1, <5>2, <3>4, <2>1
      <4>2. ~q[i].fin
        <5>1. Piece(q[i], y)
          BY <3>1, <1>1 DEF HoldsOK, Pieces
        <5>2. q[i].fin => q[i].end = y.theirs + 1
          BY <5>1 DEF Piece
        <5>3. x # y.theirs + 1
          BY <1>1, <1>2
        <5> QED BY <5>2, <5>3, <4>1
      <4>3. r[i].end < b.end
        BY <4>1, <3>2, <3>4
      <4> QED BY <4>1, <4>2, <4>3, <3>2
    <3> QED BY <3>1, <3>3, <3>4
  <2> QED BY <2>1, <2>2, <2>3, <2>4, <2>5, <2>6 DEF InLine
<1> QED BY <1>5, <1>6 DEF Line

(* Steps of the receiving half that do not change the state. *)
LEMMA ReceiverGoes ==
  ASSUME NEW s, NEW t, NEW y, Good(s, y), Moves(s, t), t.state = s.state,
         s.state # "SYN_SENT", Reaches(s, t, y), Line(s, t),
         Late(s) \/ (t.rq = s.rq /\ t.ofo = s.ofo)
  PROVE  Goes(s, t, y)
<1>1. t.state \in {"SYN_SENT", "SYN_RECV"} => t.rq = <<>> /\ t.ofo = <<>>
  BY DEF Late, Good, GoodAt, Open, Come
<1>2. y.up
  BY DEF Good, GoodAt, Open, Come
<1>3. Stepped(s, t, y)
  BY <1>1, <1>2, MovesStepped DEF StateStep
<1> QED BY <1>3 DEF Goes, Handled, Late

(***************************************************************************)
(* The receiving half.                                                     *)
(***************************************************************************)
(* atcp_time_wait closes the socket and leaves a bucket with its numbers. *)
LEMMA TimeWaitFacts ==
  ASSUME NEW s, Record(s), s.rcv_nxt \in Int, s.snd_nxt \in Int, 1 <= s.rcv_nxt
  PROVE  LET t == atcp_time_wait(s)
         IN /\ Record(t) /\ SameQueue(s, t) /\ SameOffer(s, t) /\ SameQueues(s, t)
            /\ t.out = s.out /\ t.zapped = s.zapped /\ t.dead = s.dead
            /\ t.state = "CLOSE" /\ t.timers = s.timers
<1> DEFINE t == atcp_time_wait(s)
           b == [rcv_nxt |-> s.rcv_nxt, snd_nxt |-> s.snd_nxt]
           w == <<b>>
<1>1. w[1] = b /\ b.rcv_nxt = s.rcv_nxt /\ b.snd_nxt = s.snd_nxt
  OBVIOUS
<1>2. t.tw = w
  BY DEF atcp_time_wait, net_reset_timer, Record, Fields
<1> HIDE DEF w, b
<1>3. BucketOK(t.tw) /\ BucketAcks(t.tw, s.rcv_nxt)
  BY <1>1, <1>2 DEF BucketOK, BucketAcks
<1>4. /\ Record(t) /\ SameQueue(s, t) /\ SameQueues(s, t)
      /\ t.out = s.out /\ t.zapped = s.zapped /\ t.dead = s.dead
      /\ t.state = "CLOSE" /\ t.timers = s.timers
      /\ t.rcv_wup = s.rcv_wup /\ t.rcv_wnd = s.rcv_wnd
  BY DEF atcp_time_wait, net_reset_timer, Record, Fields, SameQueue, SameQueues
<1> HIDE DEF t
<1> QED BY <1>3, <1>4 DEF SameOffer, SameQueues, t

(* A change to a later state, or a close, that leaves the receiving half   *)
(* alone.                                                                  *)
LEMMA StateGoes ==
  ASSUME NEW s, NEW y, Good(s, y), s.state # "SYN_SENT", NEW t, Moves(s, t), SameQueues(s, t),
         StateStep(s, t), t.state \in Later \cup {"CLOSE"}
  PROVE  Goes(s, t, y)
<1>1. y.up
  BY DEF Good, GoodAt, Open, Come
<1>2. Reaches(s, t, y) /\ Line(s, t)
  BY ReachesSame
<1>3. t.state \notin {"SYN_SENT", "SYN_RECV"}
  BY DEF Later
<1>4. Stepped(s, t, y)
  BY <1>1, <1>2, <1>3, MovesStepped
<1> QED BY <1>2, <1>3, <1>4 DEF Goes, Handled, Late

(* The change of state a FIN makes is one. *)
LEMMA FinStateGoes ==
  ASSUME NEW s, NEW y, Good(s, y), Late(s)
  PROVE  Goes(s, FinState(s), y)
<1> DEFINE t == FinState(s)
<1>1. \/ s.state = "ESTABLISHED" /\ t = [s EXCEPT !.state = "CLOSE_WAIT"]
      \/ s.state = "FIN_WAIT1" /\ t = [s EXCEPT !.state = "CLOSING"]
      \/ s.state = "FIN_WAIT2" /\ t = atcp_time_wait(s)
      \/ t = s
  BY DEF FinState, atcp_set_state, Late
<1>2. Record(s) /\ ReceiverOK(s) /\ s.state # "SYN_SENT"
  BY DEF Good, GoodAt, Open, Late
<1>3. CASE t = s
  BY <1>2, <1>3, HandledRefl DEF Goes
<1>4. CASE s.state = "FIN_WAIT2" /\ t = atcp_time_wait(s)
  <2> DEFINE z == atcp_time_wait(s)
  <2>1. /\ Moves(s, z) /\ z.state = "CLOSE" /\ SameQueues(s, z)
    <3>1. s.rcv_nxt \in Int /\ s.snd_nxt \in Int
      BY DEF Good, GoodAt, Open, ReceiverOK, QueueOK, QueueTypes
    <3>2. 1 <= s.rcv_nxt
      BY <1>4, <3>1 DEF Good, GoodAt, Open, Come
    <3> QED BY <1>2, <3>1, <3>2, TimeWaitFacts DEF Moves
  <2> HIDE DEF z
  <2>2. StateStep(s, z)
    BY <2>1 DEF StateStep, Writing
  <2>3. Goes(s, z, y)
    BY <1>2, <2>1, <2>2, StateGoes
  <2> QED BY <1>4, <2>3 DEF z
<1>5. CASE s.state = "ESTABLISHED" /\ t = [s EXCEPT !.state = "CLOSE_WAIT"]
  <2>1. Moves(s, t) /\ t.state = "CLOSE_WAIT" /\ SameQueues(s, t)
    BY <1>2, <1>5 DEF Moves, Record, Fields, SameQueue, SameOffer, SameQueues
  <2> HIDE DEF t
  <2>2. StateStep(s, t) /\ t.state \in Later
    BY <1>5, <2>1 DEF StateStep, Later, Writing
  <2>3. Goes(s, t, y)
    BY <1>2, <2>1, <2>2, StateGoes
  <2> QED BY <2>3 DEF t
<1>6. CASE s.state = "FIN_WAIT1" /\ t = [s EXCEPT !.state = "CLOSING"]
  <2>1. Moves(s, t) /\ t.state = "CLOSING" /\ SameQueues(s, t)
    BY <1>2, <1>6 DEF Moves, Record, Fields, SameQueue, SameOffer, SameQueues
  <2> HIDE DEF t
  <2>2. StateStep(s, t) /\ t.state \in Later
    BY <1>6, <2>1 DEF StateStep, Later, Writing
  <2>3. Goes(s, t, y)
    BY <1>2, <2>1, <2>2, StateGoes
  <2> QED BY <2>3 DEF t
<1> QED BY <1>1, <1>3, <1>4, <1>5, <1>6

(* atcp_fin is one. *)
LEMMA FinGoes ==
  ASSUME NEW s, NEW y, Good(s, y), Late(s), NEW b
  PROVE  Goes(s, atcp_fin(s, b), y)
<1> DEFINE f == [s EXCEPT !.fin_seq = b.end]
           a == atcp_send_ack(f)
<1>1. Record(s) /\ ReceiverOK(s) /\ s.state # "SYN_SENT"
  BY DEF Good, GoodAt, Open, Late
<1>2. Moves(s, f) /\ SameQueues(s, f) /\ f.state = s.state
  BY <1>1 DEF Moves, Record, Fields, SameQueue, SameOffer, SameQueues
<1> HIDE DEF f
<1>3. Goes(s, f, y)
  <2>1. Reaches(s, f, y) /\ Line(s, f)
    BY <1>2, ReachesSame
  <2> QED BY <1>1, <1>2, <2>1, ReceiverGoes
<1>4. Good(f, y) /\ f.state # "SYN_SENT" /\ Late(f)
  BY <1>3, GoesFacts
<1>5. Keeps(f, a, f.snd_una, y)
  <2>1. y.up
    BY <1>4 DEF Good, GoodAt, Open, Come
  <2> QED BY <1>4, <2>1, GoodFacts, SendAckKeeps
<1> HIDE DEF a
<1>6. Goes(f, a, y)
  BY <1>4, <1>5, KeepsGoes
<1>7. Good(a, y) /\ Late(a)
  BY <1>4, <1>6, GoesFacts
<1>8. Goes(a, FinState(a), y)
  BY <1>7, FinStateGoes
<1>9. Goes(s, FinState(a), y)
  BY <1>3, <1>6, <1>8, GoesTrans, <1>4
<1> QED BY <1>9 DEF atcp_fin, a, f

(* A buffer in order, with its FIN, is one. *)
LEMMA ReceiveGoes ==
  ASSUME NEW s, NEW y, Good(s, y), Late(s), NEW b, BufferOK(b), Piece(b, y),
         b.seq <= s.rcv_nxt, s.rcv_nxt < b.end
  PROVE  Goes(s, Receive(s, b), y)
<1> DEFINE q == [s EXCEPT !.rq = Append(@, b), !.rcv_nxt = b.end]
<1>1. Record(s) /\ ReceiverOK(s) /\ s.state # "SYN_SENT"
  BY DEF Good, GoodAt, Open, Late
<1>2. /\ Moves(s, q) /\ q.state = s.state /\ q.rq = Append(s.rq, b) /\ q.rcv_nxt = b.end
      /\ q.ofo = s.ofo /\ q.sacks = s.sacks /\ q.in_hand = s.in_hand
      /\ q.copied_seq = s.copied_seq
  BY <1>1 DEF Moves, Record, Fields, SameQueue, SameOffer
<1>3. Receive(s, b) = IF b.fin THEN atcp_fin(q, b) ELSE q
  BY DEF Receive
<1> HIDE DEF q
<1>4. q.in_hand \in Int
  BY <1>1, <1>2 DEF ReceiverOK
<1>5. Reaches(s, q, y) /\ Line(s, q)
  BY <1>2, <1>4, AppendReaches
<1>6. Goes(s, q, y)
  BY <1>1, <1>2, <1>5, ReceiverGoes
<1>7. Good(q, y) /\ Late(q)
  BY <1>6, GoesFacts
<1>8. Goes(s, atcp_fin(q, b), y)
  BY <1>6, <1>7, FinGoes, GoesTrans
<1> QED BY <1>3, <1>6, <1>8

(* Forgetting the SACK block of a buffer is one. *)
LEMMA SackRemoveGoes ==
  ASSUME NEW s, NEW y, Good(s, y), s.state # "SYN_SENT", NEW b
  PROVE  Goes(s, SackRemove(s, b), y)
<1> DEFINE t == SackRemove(s, b)
<1>1. Record(s) /\ ReceiverOK(s)
  BY DEF Good, GoodAt, Open
<1>2. /\ Moves(s, t) /\ t.state = s.state /\ t.rq = s.rq /\ t.rcv_nxt = s.rcv_nxt
      /\ t.ofo = s.ofo /\ t.in_hand = s.in_hand /\ t.copied_seq = s.copied_seq
      /\ t.sacks = s.sacks \/ t.sacks = atcp_sack_remove_skb(s.sacks, b)
  <2>1. CASE SackOk
    BY <1>1, <2>1 DEF SackRemove, Moves, Record, Fields, SameQueue, SameOffer
  <2>2. CASE ~SackOk
    BY <1>1, <2>2 DEF SackRemove, Moves, Record, Fields, SameQueue, SameOffer
  <2> QED BY <2>1, <2>2
<1> HIDE DEF t
<1>3. IsSeq(t.sacks) /\ HoldsOK(t.ofo, y) /\ t.in_hand \in Int
  BY <1>1, <1>2, RemoveBlockSeq, ReceiverFacts DEF ReceiverOK
<1>4. Reaches(s, t, y) /\ Line(s, t)
  BY <1>2, <1>3, ReachesBut
<1>5. Goes(s, t, y)
  BY <1>1, <1>2, <1>4, ReceiverGoes
<1> QED BY <1>5 DEF t

(***************************************************************************)
(* The out-of-order queue.                                                 *)
(***************************************************************************)
OrderTurn(q, i, t) ==
  IF t.ofo = <<>> \/ Head(t.ofo).seq > t.rcv_nxt THEN t
  ELSE LET u == [t EXCEPT !.ofo = Tail(@)]
       IN IF Head(t.ofo).end <= t.rcv_nxt THEN u
          ELSE Receive(SackRemove(u, Head(t.ofo)), Head(t.ofo))
GoesRel(p, i, x) == Goes(p.s, x, p.y) /\ Late(x)
Order == INSTANCE Iteration WITH Step <- OrderTurn, Rel <- GoesRel

(* One turn of the loop of atcp_ofo_queue. *)
LEMMA OrderTurnFacts ==
  ASSUME NEW p, Good(p.s, p.y), NEW q, NEW i, NEW j, NEW x, GoesRel(p, i, x)
  PROVE  GoesRel(p, j, OrderTurn(q, j, x))
<1> DEFINE y == p.y
           u == [x EXCEPT !.ofo = Tail(@)]
           b == Head(x.ofo)
           v == SackRemove(u, b)
           t == OrderTurn(q, j, x)
<1>1. Good(x, y) /\ x.state # "SYN_SENT" /\ Goes(p.s, x, y) /\ Late(x)
  BY GoesFacts DEF GoesRel
<1>2. \/ t = x
      \/ x.ofo # <<>> /\ t = u
      \/ x.ofo # <<>> /\ ~(b.seq > x.rcv_nxt) /\ ~(b.end <= x.rcv_nxt) /\ t = Receive(v, b)
  BY DEF OrderTurn
<1>3. ASSUME x.ofo # <<>>
      PROVE  /\ Goes(x, u, y) /\ Late(u) /\ Goes(x, v, y) /\ Good(v, y) /\ Late(v)
             /\ BufferOK(b) /\ Piece(b, y) /\ v.rcv_nxt = x.rcv_nxt
  <2>1. Record(x) /\ ReceiverOK(x)
    BY <1>1 DEF Good, GoodAt, Open
  <2>2. HoldsOK(Tail(x.ofo), y) /\ BufferOK(b) /\ Piece(b, y)
    BY <1>1, <1>3, BuffersTail, ReceiverFacts
  <2>3. /\ Moves(x, u) /\ u.state = x.state /\ u.rq = x.rq /\ u.rcv_nxt = x.rcv_nxt
        /\ u.ofo = Tail(x.ofo) /\ u.sacks = x.sacks /\ u.in_hand = x.in_hand
        /\ u.copied_seq = x.copied_seq
    BY <2>1 DEF Moves, Record, Fields, SameQueue, SameOffer
  <2> HIDE DEF u, b
  <2>4. Goes(x, u, y)
    <3>1. Reaches(x, u, y) /\ Line(x, u)
      BY <1>1, <2>1, <2>2, <2>3, ReachesBut DEF ReceiverOK
    <3> QED BY <1>1, <2>3, <3>1, ReceiverGoes
  <2>5. Good(u, y) /\ u.state # "SYN_SENT" /\ Late(u)
    BY <1>1, <2>4, GoesFacts
  <2>6. Goes(u, v, y)
    BY <2>5, SackRemoveGoes
  <2>7. v.rcv_nxt = u.rcv_nxt
    <3>1. Record(u)
      BY <2>3 DEF Moves
    <3> QED BY <3>1 DEF SackRemove, Record, Fields
  <2> HIDE DEF v
  <2>8. Good(v, y) /\ Late(v)
    BY <2>5, <2>6, GoesFacts
  <2>9. Goes(x, v, y)
    BY <1>1, <2>4, <2>6, GoesTrans
  <2> QED BY <2>2, <2>3, <2>4, <2>5, <2>7, <2>8, <2>9
<1> HIDE DEF t, u, v, b
<1>4. ASSUME x.ofo # <<>>, ~(b.seq > x.rcv_nxt), ~(b.end <= x.rcv_nxt)
      PROVE  Goes(x, Receive(v, b), y)
  <2>1. b.seq \in Int /\ b.end \in Int /\ x.rcv_nxt \in Int
    BY <1>1, <1>3, <1>4, ReceiverFacts DEF BufferOK, Piece
  <2>2. b.seq <= v.rcv_nxt /\ v.rcv_nxt < b.end
    BY <2>1, <1>3, <1>4
  <2>3. Goes(v, Receive(v, b), y)
    BY <1>3, <1>4, <2>2, ReceiveGoes
  <2> QED BY <1>1, <1>3, <1>4, <2>3, GoesTrans
<1>5. Goes(x, t, y) \/ t = x
  BY <1>2, <1>3, <1>4
<1>6. Goes(p.s, t, y) /\ Late(t)
  BY <1>1, <1>5, GoesTrans, GoesFacts
<1> QED BY <1>6 DEF GoesRel, t

(* atcp_ofo_queue. *)
LEMMA OfoQueueGoes ==
  ASSUME NEW s, NEW y, Good(s, y), Late(s)
  PROVE  Goes(s, atcp_ofo_queue(s), y)
<1> DEFINE n == Len(s.ofo)
           q == 0
           r == Order!Result(q, s, n)
           p == [s |-> s, y |-> y]
<1>1. p.s = s /\ p.y = y
  OBVIOUS
<1>2. atcp_ofo_queue(s) = r
  BY DEF atcp_ofo_queue, Repeat, Order!Result, OrderTurn
<1>3. n \in Nat
  BY SeqFacts DEF Good, GoodAt, Open, ReceiverOK, BuffersOK
<1> HIDE DEF p, q, n
<1>4. GoesRel(p, 0, s)
  BY <1>1, HandledRefl DEF GoesRel, Goes, Late
<1>5. \A i \in 1..n : \A z : GoesRel(p, i - 1, z) => GoesRel(p, i, OrderTurn(q, i, z))
  BY <1>1, OrderTurnFacts
<1>6. GoesRel(p, n, r)
  BY <1>3, <1>4, <1>5, Order!AfterTurns
<1> HIDE DEF r
<1> QED BY <1>1, <1>2, <1>6 DEF GoesRel

(***************************************************************************)
(* A buffer in order.                                                      *)
(***************************************************************************)
(* Steps that touch none of what is said here, or only the buffer in hand. *)
LEMMA SmallGoes ==
  ASSUME NEW s, NEW y, Good(s, y), s.state # "SYN_SENT", NEW b, NEW t,
         \/ t = kfree_skb(s) \/ t = RememberData(s, b) \/ t = FastPathOn(s)
         \/ t = atcp_enter_quickack_mode(s)
         \/ t = atcp_remember_ack(s) \/ t = atcp_delack_estimator(s)
  PROVE  Goes(s, t, y) /\ t.rcv_nxt = s.rcv_nxt
<1>1. Record(s) /\ ReceiverOK(s)
  BY DEF Good, GoodAt, Open
<1> DEFINE Same == /\ Moves(s, t) /\ t.state = s.state /\ t.rq = s.rq /\ t.rcv_nxt = s.rcv_nxt
                   /\ t.ofo = s.ofo /\ t.sacks = s.sacks /\ t.copied_seq = s.copied_seq
                   /\ (t.in_hand = s.in_hand \/ t.in_hand = 0)
<1>2. t = kfree_skb(s) => Same
  BY <1>1 DEF kfree_skb, Moves, Record, Fields, SameQueue, SameOffer
<1>3. t = RememberData(s, b) => Same
  BY <1>1 DEF RememberData, atcp_remember_ack, Moves, Record, Fields, SameQueue, SameOffer
<1>4. t = FastPathOn(s) => Same
  BY <1>1 DEF FastPathOn, Moves, Record, Fields, SameQueue, SameOffer
<1>5. t = atcp_enter_quickack_mode(s) => Same
  BY <1>1 DEF atcp_enter_quickack_mode, Moves, Record, Fields, SameQueue, SameOffer
<1>6. t = atcp_remember_ack(s) => Same
  BY <1>1 DEF atcp_remember_ack, Moves, Record, Fields, SameQueue, SameOffer
<1>7. t = atcp_delack_estimator(s) => Same
  BY <1>1 DEF atcp_delack_estimator, Moves, Record, Fields, SameQueue, SameOffer
<1>8. Same
  BY <1>2, <1>3, <1>4, <1>5, <1>6, <1>7
<1>9. t.in_hand \in Int /\ HoldsOK(t.ofo, y) /\ IsSeq(t.sacks)
  BY <1>1, <1>8, ReceiverFacts DEF ReceiverOK
<1>10. Reaches(s, t, y) /\ Line(s, t)
  BY <1>8, <1>9, ReachesBut
<1> QED BY <1>8, <1>10, ReceiverGoes

(* A buffer in order, and those that wait for it. *)
LEMMA QueueAndOutGoes ==
  ASSUME NEW s, NEW y, Good(s, y), Late(s), NEW b, BufferOK(b), Piece(b, y),
         b.seq <= s.rcv_nxt, s.rcv_nxt < b.end
  PROVE  Goes(s, QueueAndOut(s, b), y)
<1> DEFINE t1 == kfree_skb(s)
           t2 == Receive(t1, b)
           t3 == RememberData(t2, b)
           t4 == SackRemove(t3, b)
           t5 == atcp_ofo_queue(t4)
           t6 == FastPathOn(t5)
<1>0. QueueAndOut(s, b) = t6
  BY DEF QueueAndOut
<1>1. Goes(s, t1, y) /\ t1.rcv_nxt = s.rcv_nxt
  BY SmallGoes DEF Late
<1>2. Good(t1, y) /\ t1.state # "SYN_SENT" /\ Late(t1)
  BY <1>1, GoesFacts
<1> HIDE DEF t1
<1>3. Goes(s, t2, y)
  BY <1>1, <1>2, ReceiveGoes, GoesTrans
<1>4. Good(t2, y) /\ t2.state # "SYN_SENT"
  BY <1>3, GoesFacts
<1> HIDE DEF t2
<1>5. Goes(t2, t3, y)
  BY <1>4, SmallGoes
<1> HIDE DEF t3
<1>6. Goes(s, t3, y)
  BY <1>3, <1>5, GoesTrans
<1>7. Good(t3, y) /\ t3.state # "SYN_SENT"
  BY <1>6, GoesFacts
<1>8. Goes(s, t4, y)
  BY <1>6, <1>7, SackRemoveGoes, GoesTrans
<1>9. Good(t4, y) /\ t4.state # "SYN_SENT" /\ Late(t4)
  BY <1>8, GoesFacts
<1> HIDE DEF t4
<1>10. Goes(s, t5, y)
  BY <1>8, <1>9, OfoQueueGoes, GoesTrans
<1>11. Good(t5, y) /\ t5.state # "SYN_SENT"
  BY <1>10, GoesFacts
<1> HIDE DEF t5
<1>12. Goes(t5, t6, y)
  BY <1>11, SmallGoes
<1> HIDE DEF t6
<1> QED BY <1>0, <1>10, <1>12, GoesTrans

(***************************************************************************)
(* A buffer out of order, or no room for one.                              *)
(***************************************************************************)
LastUpTo(q, b) == LET NotAfter(c) == c.seq <= b.seq IN SelectLastInSeq(q, NotAfter)

(* The place of a buffer in the out-of-order queue. *)
LEMMA SelectLastIn ==
  ASSUME NEW q, IsSeq(q), NEW b
  PROVE  LastUpTo(q, b) \in 0..Len(q)
<1> DEFINE NotAfter(c) == c.seq <= b.seq
           n == Len(q)
           I == {i \in 1..n : NotAfter(q[i])}
           k == LastUpTo(q, b)
<1>1. n \in Nat
  BY SeqFacts
<1>2. k = IF I # {} THEN Max(I) ELSE 0
  BY DEF LastUpTo, SelectLastInSeq
<1>3. I \subseteq 1..n /\ I \subseteq 0..n
  BY <1>1
<1> HIDE DEF I, n, k
<1>4. I # {} => Max(I) \in I
  BY <1>1, <1>3, MaxInSet
<1>5. I # {} => Max(I) \in 1..n
  BY <1>3, <1>4
<1> QED BY <1>1, <1>2, <1>5 DEF n, k

(* A buffer that is not in order. *)
LEMMA OutOfOrderGoes ==
  ASSUME NEW s, NEW y, Good(s, y), Late(s), NEW b, BufferOK(b), Piece(b, y)
  PROVE  Goes(s, OutOfOrder(s, b), y)
<1> DEFINE NotAfter(c) == c.seq <= b.seq
           e == [kfree_skb(s) EXCEPT !.delayed_acks = @ + 1, !.pred_flags = Null]
           t == atcp_enter_quickack_mode(e)
           k == SelectLastInSeq(s.ofo, NotAfter)
           o1 == <<b>>
           o2 == InsertAt(t.ofo, k + 1, b)
           o3 == [t.ofo EXCEPT ![k] = b]
           k1 == IF SackOk THEN <<Block(b)>> ELSE t.sacks
           k2 == IF SackOk THEN atcp_sack_new_ofo_skb(t.sacks, b) ELSE t.sacks
           k3 == IF SackOk THEN atcp_sack_extend(t.sacks, s.ofo[k], b) ELSE t.sacks
           z == OutOfOrder(s, b)
<1>1. Record(s) /\ ReceiverOK(s) /\ s.state # "SYN_SENT" /\ HoldsOK(s.ofo, y)
  BY ReceiverFacts DEF Late
<1>2. /\ Moves(s, t) /\ t.state = s.state /\ t.rq = s.rq /\ t.rcv_nxt = s.rcv_nxt
      /\ t.ofo = s.ofo /\ t.sacks = s.sacks /\ t.in_hand = 0 /\ t.copied_seq = s.copied_seq
  BY <1>1 DEF kfree_skb, atcp_enter_quickack_mode, Moves, Record, Fields, SameQueue, SameOffer
<1>3. \/ z = [t EXCEPT !.ofo = o1, !.sacks = k1]
      \/ z = [t EXCEPT !.ofo = o2, !.sacks = k2]
      \/ z = [t EXCEPT !.ofo = o3, !.sacks = k3]
      \/ z = t
  BY DEF OutOfOrder
<1>4. k \in 0..Len(s.ofo)
  <2>1. k = LastUpTo(s.ofo, b)
    BY DEF LastUpTo
  <2>2. IsSeq(s.ofo)
    BY <1>1 DEF ReceiverOK, BuffersOK
  <2> HIDE DEF k
  <2> QED BY <2>1, <2>2, SelectLastIn
<1> HIDE DEF z, t, k
<1>5. HoldsOK(t.ofo, y) /\ IsSeq(t.sacks)
  BY <1>1, <1>2 DEF ReceiverOK
<1>6. HoldsOK(o1, y) /\ HoldsOK(o3, y)
  BY <1>5, BuffersAppend, BuffersReplace
<1>7. HoldsOK(o2, y)
  <2>1. k + 1 \in 1..(Len(t.ofo) + 1)
    <3>1. Len(t.ofo) \in Nat /\ t.ofo = s.ofo
      BY <1>2, <1>5, SeqFacts DEF HoldsOK, BuffersOK
    <3> QED BY <3>1, <1>4
  <2> QED BY <1>5, <2>1, BuffersInsert
<1>8. IsSeq(k1) /\ IsSeq(k2) /\ IsSeq(k3)
  BY <1>5, SingleFacts, NewBlockSeq, ExtendBlockSeq
<1> HIDE DEF o1, o2, o3, k1, k2, k3
<1>9. ASSUME NEW o, NEW l, HoldsOK(o, y), IsSeq(l), z = [t EXCEPT !.ofo = o, !.sacks = l]
      PROVE  Goes(s, z, y)
  <2>1. Record(t)
    BY <1>2 DEF Moves
  <2>2. /\ Moves(s, z) /\ z.state = s.state /\ z.rq = s.rq /\ z.rcv_nxt = s.rcv_nxt
        /\ z.ofo = o /\ z.sacks = l /\ z.in_hand = 0 /\ z.copied_seq = s.copied_seq
    BY <1>2, <1>9, <2>1 DEF Moves, Record, Fields, SameQueue, SameOffer
  <2>3. Reaches(s, z, y) /\ Line(s, z)
    <3>1. HoldsOK(z.ofo, y) /\ IsSeq(z.sacks) /\ z.in_hand \in Int
      BY <1>9, <2>2
    <3> QED BY <2>2, <3>1, ReachesBut
  <2> QED BY <1>1, <2>2, <2>3, ReceiverGoes
<1>10. z = t => Goes(s, z, y)
  <2>1. Reaches(s, t, y) /\ Line(s, t)
    BY <1>2, <1>5, ReachesBut
  <2> QED BY <1>1, <1>2, <2>1, ReceiverGoes
<1> QED BY <1>3, <1>5, <1>6, <1>7, <1>8, <1>9, <1>10 DEF z

(* What arrives is a piece of the stream; a FIN that is not at its end     *)
(* comes after all of it was received.                                     *)
Arriving(b, n, y) ==
  /\ BufferOK(b) /\ b.seq \in Int /\ b.end = b.seq + Len(b.data) + Flag(b.fin) /\ ~b.syn
  /\ 1 <= b.seq /\ b.seq < b.end
  /\ InOrder(b.data, b.seq) /\ b.seq + Len(b.data) <= y.theirs
  /\ b.fin => y.ended /\ (b.end = y.theirs + 1 \/ (b.end <= y.theirs /\ y.theirs <= n))

(* What is new of it is a piece. *)
LEMMA ArrivingPiece ==
  ASSUME NEW b, NEW n \in Int, NEW y, ViewOK(y), Arriving(b, n, y), n < b.end
  PROVE  Piece(b, y)
<1>1. b.end \in Int /\ y.theirs \in Int
  BY DEF Arriving, BufferOK, ViewOK
<1>2. ~(b.end <= y.theirs /\ y.theirs <= n)
  BY <1>1
<1> QED BY <1>2 DEF Arriving, Piece

(* atcp_data_queue. *)
LEMMA DataQueueGoes ==
  ASSUME NEW s, NEW y, Good(s, y), Late(s), NEW b, Arriving(b, s.rcv_nxt, y)
  PROVE  Goes(s, atcp_data_queue(s, b), y)
<1> DEFINE q == atcp_enter_quickack_mode(s)
           t == atcp_data_queue(s, b)
<1>1. Goes(s, q, y)
  BY SmallGoes DEF Late
<1>2. Good(q, y) /\ q.state # "SYN_SENT"
  BY <1>1, GoesFacts
<1>3. \/ t = kfree_skb(q)
      \/ /\ ~(b.end <= s.rcv_nxt /\ b.seq # s.rcv_nxt)
         /\ (b.seq <= s.rcv_nxt /\ t = QueueAndOut(s, b)) \/ t = OutOfOrder(s, b)
  BY DEF atcp_data_queue
<1> HIDE DEF q, t
<1>4. Goes(q, kfree_skb(q), y)
  BY <1>2, SmallGoes
<1>5. Goes(s, kfree_skb(q), y)
  BY <1>1, <1>4, GoesTrans
<1>6. ASSUME ~(b.end <= s.rcv_nxt /\ b.seq # s.rcv_nxt)
      PROVE  BufferOK(b) /\ Piece(b, y) /\ s.rcv_nxt < b.end
  <2>1. b.end \in Int /\ b.seq \in Int /\ s.rcv_nxt \in Int /\ b.seq < b.end /\ ViewOK(y)
    BY ReceiverFacts DEF Arriving, BufferOK
  <2>2. s.rcv_nxt < b.end
    BY <2>1, <1>6
  <2>3. Piece(b, y)
    BY <2>1, <2>2, ArrivingPiece
  <2> QED BY <2>2, <2>3 DEF Arriving
<1>7. Goes(s, t, y)
  BY <1>3, <1>5, <1>6, QueueAndOutGoes, OutOfOrderGoes
<1> QED BY <1>7 DEF t

(* prune_queue. *)
LEMMA PruneGoes ==
  ASSUME NEW s, NEW y, Good(s, y), s.state # "SYN_SENT"
  PROVE  Goes(s, prune_queue(s).sk, y) /\ prune_queue(s).sk.rcv_nxt = s.rcv_nxt
<1> DEFINE none == <<>>
           k == IF s.ofo = <<>> THEN s.sacks ELSE none
           t == [s EXCEPT !.ofo = none, !.sacks = k]
<1>1. Record(s) /\ ReceiverOK(s)
  BY DEF Good, GoodAt, Open
<1>2. prune_queue(s).sk = t
  BY DEF prune_queue
<1>3. HoldsOK(none, y) /\ IsSeq(none)
  BY BuffersEmpty DEF BuffersOK, HoldsOK
<1>4. IsSeq(k)
  BY <1>1, <1>3 DEF ReceiverOK
<1> HIDE DEF none, k
<1>5. /\ Moves(s, t) /\ t.state = s.state /\ t.rq = s.rq /\ t.rcv_nxt = s.rcv_nxt
      /\ t.ofo = none /\ t.sacks = k /\ t.in_hand = s.in_hand /\ t.copied_seq = s.copied_seq
  BY <1>1 DEF Moves, Record, Fields, SameQueue, SameOffer
<1> HIDE DEF t
<1>6. t.in_hand \in Int
  BY <1>1, <1>5 DEF ReceiverOK
<1>7. Reaches(s, t, y) /\ Line(s, t)
  BY <1>3, <1>4, <1>5, <1>6, ReachesBut
<1>8. t.state \in {"SYN_SENT", "SYN_RECV"} => t.rq = <<>> /\ t.ofo = <<>>
  <2>1. s.state \in {"SYN_SENT", "SYN_RECV"} => s.rq = <<>> /\ s.ofo = <<>>
    BY ReceiverFacts DEF Come
  <2> QED BY <2>1, <1>5 DEF none
<1>9. y.up
  BY ReceiverFacts DEF Come
<1>10. Stepped(s, t, y)
  BY <1>5, <1>7, <1>8, <1>9, MovesStepped DEF StateStep
<1> QED BY <1>2, <1>5, <1>7, <1>10 DEF Goes, Handled, Late

(* A segment of the other end: where it belongs in its stream, and what it *)
(* acknowledges was sent.                                                  *)
Comes(g, n, y) ==
  /\ SegmentTypes(g)
  /\ g.syn => g.seq = 0 /\ g.data = <<>> /\ ~g.fin
  /\ g.syn \/ g.ack \/ g.rst
  /\ g.ack /\ ~g.rst => g.ack_seq <= y.seen
  /\ InOrder(g.data, g.seq) /\ (g.data # <<>> => 1 <= g.seq /\ g.seq + Len(g.data) <= y.theirs)
  /\ g.fin => /\ y.ended /\ 1 <= g.seq
              /\ \/ g.seq + Len(g.data) = y.theirs
                 \/ g.seq + Len(g.data) < y.theirs /\ y.theirs <= n

(* It still does when more was received. *)
LEMMA ComesMore ==
  ASSUME NEW g, NEW y, ViewOK(y), NEW m \in Int, NEW n \in Int, m <= n, Comes(g, m, y)
  PROVE  Comes(g, n, y)
<1>1. y.theirs <= m => y.theirs <= n
  BY DEF ViewOK
<1> QED BY <1>1 DEF Comes

(* The buffer of a segment. *)
LEMMA ReceivedOK ==
  ASSUME NEW g, NEW n \in Int, NEW y, ViewOK(y), Comes(g, n, y)
  PROVE  /\ BufferOK(Received(g)) /\ SegEnd(g) \in Int
         /\ HasData(g) \/ g.fin => Arriving(Received(g), n, y)
<1> DEFINE b == Received(g)
           d == Len(g.data)
<1>1. /\ d \in Nat /\ g.seq \in Int /\ y.theirs \in Int /\ IsSeq(g.data)
      /\ (HasData(g) <=> d # 0)
  BY SeqFacts DEF Comes, SegmentTypes, ViewOK, HasData
<1>2. SegEnd(g) = g.seq + Flag(g.syn) + Flag(g.fin) + d /\ Flag(g.syn) \in {0, 1}
      /\ Flag(g.fin) \in {0, 1}
  BY DEF SegEnd, Flag
<1>3. /\ b.seq = g.seq /\ b.data = g.data /\ b.fin = g.fin /\ b.syn = g.syn
      /\ b.end = SegEnd(g)
  BY DEF Received
<1> HIDE DEF b
<1>4. BufferOK(b) /\ SegEnd(g) \in Int
  <2> HIDE DEF d
  <2>1. SegEnd(g) \in Int
    BY <1>1, <1>2
  <2> QED BY <2>1, <1>1, <1>3 DEF BufferOK
<1>5. ASSUME HasData(g) \/ g.fin
      PROVE  Arriving(b, n, y)
  <2>1. ~g.syn
    BY <1>5 DEF Comes, HasData
  <2>2. /\ g.fin => Flag(g.fin) = 1
        /\ ~g.fin => Flag(g.fin) = 0
        /\ Flag(g.syn) = 0
    BY <2>1 DEF Flag
  <2>3. SegEnd(g) = g.seq + d + Flag(g.fin)
    <3> HIDE DEF d
    <3> QED BY <1>1, <1>2, <2>2
  <2>4. g.seq + d <= y.theirs
    <3>1. HasData(g) => g.seq + d <= y.theirs
      BY DEF Comes, HasData
    <3>2. g.fin => g.seq + d = y.theirs \/ g.seq + d < y.theirs
      BY DEF Comes
    <3> HIDE DEF d
    <3> QED BY <3>1, <3>2, <1>1, <1>5
  <2>5. g.seq < SegEnd(g)
    <3>1. d > 0 \/ Flag(g.fin) = 1
      BY <1>1, <1>5, <2>2
    <3> HIDE DEF d
    <3> QED BY <3>1, <2>3, <1>1, <1>2
  <2>6. ASSUME g.fin
        PROVE  y.ended /\ (SegEnd(g) = y.theirs + 1 \/ (SegEnd(g) <= y.theirs /\ y.theirs <= n))
    <3>1. y.ended /\ (g.seq + d = y.theirs \/ (g.seq + d < y.theirs /\ y.theirs <= n))
      BY <2>6 DEF Comes
    <3>2. SegEnd(g) = g.seq + d + 1
      BY <2>2, <2>3, <2>6
    <3> HIDE DEF d
    <3>3. \/ SegEnd(g) = y.theirs + 1
          \/ (SegEnd(g) <= y.theirs /\ y.theirs <= n)
      BY <3>1, <3>2, <1>1
    <3> QED BY <3>1, <3>3
  <2>7. InOrder(b.data, b.seq)
    BY <1>3 DEF Comes
  <2>8. b.end = b.seq + Len(b.data) + Flag(b.fin)
    BY <1>3, <2>3
  <2>9. b.seq + Len(b.data) <= y.theirs
    BY <1>3, <2>4
  <2>10. 1 <= b.seq
    BY <1>3, <1>5 DEF Comes, HasData
  <2> QED BY <1>1, <1>3, <1>4, <2>1, <2>5, <2>6, <2>7, <2>8, <2>9, <2>10 DEF Arriving
<1> QED BY <1>4, <1>5 DEF b

(* atcp_data. *)
LEMMA DataGoes ==
  ASSUME NEW s, NEW y, Good(s, y), Late(s), NEW g, Comes(g, s.rcv_nxt, y)
  PROVE  Goes(s, atcp_data(s, g), y)
<1> DEFINE p == prune_queue(s).sk
           b == Received(g)
           t == atcp_data(s, g)
<1>1. Goes(s, p, y) /\ p.rcv_nxt = s.rcv_nxt
  BY PruneGoes DEF Late
<1>2. Good(p, y) /\ Late(p)
  BY <1>1, GoesFacts
<1>3. HasData(g) \/ g.fin => Arriving(b, s.rcv_nxt, y)
  BY ReceivedOK, ReceiverFacts
<1>4. \/ t = s
      \/ t = p
      \/ (HasData(g) \/ g.fin) /\ (t = atcp_data_queue(s, b) \/ t = atcp_data_queue(p, b))
  BY DEF atcp_data
<1> HIDE DEF b, p, t
<1>5. Goes(s, s, y)
  BY HandledRefl DEF Goes, Late
<1>6. Arriving(b, s.rcv_nxt, y) => Goes(s, atcp_data_queue(s, b), y)
  BY DataQueueGoes
<1>7. Arriving(b, s.rcv_nxt, y) => Goes(s, atcp_data_queue(p, b), y)
  <2>1. Arriving(b, s.rcv_nxt, y) => Goes(p, atcp_data_queue(p, b), y)
    BY <1>1, <1>2, DataQueueGoes
  <2> QED BY <1>1, <2>1, GoesTrans
<1>8. Goes(s, t, y)
  BY <1>1, <1>3, <1>4, <1>5, <1>6, <1>7
<1> QED BY <1>8 DEF t

(***************************************************************************)
(* The window a segment offers when the connection opens.                  *)
(***************************************************************************)
Opens(s, t) ==
  /\ Record(t) /\ t.wq = s.wq /\ t.send_head = s.send_head /\ t.retrans_head = s.retrans_head
  /\ t.snd_una = s.snd_una /\ t.snd_nxt = s.snd_nxt /\ t.snd_wnd \in Int
  /\ t.max_window = s.max_window /\ t.write_seq = s.write_seq
  /\ t.packets_out = s.packets_out /\ t.fackets_out = s.fackets_out
  /\ t.high_seq = s.high_seq /\ t.out = s.out /\ t.timers = s.timers
  /\ t.zapped = s.zapped /\ t.dead = s.dead
  /\ t.rq = s.rq /\ t.ofo = s.ofo /\ t.sacks = s.sacks /\ t.in_hand = s.in_hand
  /\ t.rcv_nxt \in Int /\ t.rcv_wup \in Int /\ t.rcv_wup >= s.rcv_wup /\ t.rcv_wnd = s.rcv_wnd
  /\ t.tw = s.tw

(* Opening the connection with the window of a segment. *)
LEMMA OpensStepped ==
  ASSUME NEW s, NEW t, NEW y, Good(s, y), Opens(s, t), t.state = "ESTABLISHED",
         s.state \in {"SYN_SENT", "SYN_RECV"}, y.up,
         t.rcv_nxt >= s.rcv_nxt, 1 <= t.rcv_nxt, t.rcv_nxt <= y.theirs + Flag(y.ended)
  PROVE  Stepped(s, t, y)
<1> DEFINE u == s.snd_una
<1>1. Open(s, y) /\ QueueOK(s, u, y) /\ HeadOK(s, u) /\ Timed(s)
  BY DEF Good, GoodAt
<1>2. Sent(t) = Sent(s) /\ t.snd_una = u
  BY DEF Opens, Sent
<1> HIDE DEF u
<1>3. QueueTypes(t, u, y)
  BY <1>1, <1>2 DEF QueueOK, QueueTypes, Opens
<1>4. Whole(t, u)
  BY <1>1, <1>2 DEF QueueOK, Whole, Opens
<1>5. HeadOK(t, u)
  BY <1>1 DEF HeadOK, Opens
<1>6. Timed(t)
  BY <1>1 DEF Timed, Opens
<1>7. ReceiverOK(t)
  BY <1>1 DEF Open, ReceiverOK, Opens
<1>8. AllAck(t.out, t.rcv_nxt) /\ BucketAcks(t.tw, t.rcv_nxt)
  <2>1. /\ s.rcv_nxt \in Int /\ t.rcv_nxt \in Int /\ s.rcv_nxt <= t.rcv_nxt
        /\ SegmentsOK(s.out, y) /\ AllAck(s.out, s.rcv_nxt) /\ IsSeq(s.out)
        /\ BucketOK(s.tw) /\ BucketAcks(s.tw, s.rcv_nxt) /\ t.out = s.out /\ t.tw = s.tw
    BY <1>1 DEF Open, ReceiverOK, Come, SegmentsOK, Opens
  <2> QED BY <2>1, AllAckMore, BucketAcksMore
<1>9. Come(t, y)
  BY <1>1, <1>8 DEF Open, Come, Opens
<1>10. Open(t, y)
  BY <1>1, <1>7, <1>9 DEF Open, Opens
<1>11. Edge(s, t)
  BY <1>1 DEF Open, ReceiverOK, Edge, Opens
<1>12. StateStep(s, t)
  BY DEF StateStep, Later, Writing
<1>13. Good(t, y)
  BY <1>2, <1>3, <1>4, <1>5, <1>6, <1>10 DEF Good, GoodAt, QueueOK
<1> QED BY <1>11, <1>12, <1>13 DEF Stepped, Opens

(* The SYN-ACK establishes the connection: the window starts where the     *)
(* peer's numbers do, and so does reading.                                 *)
LEMMA EstablishedGoes ==
  ASSUME NEW s, NEW y, Good(s, y), s.state = "SYN_SENT", NEW g, Comes(g, s.rcv_nxt, y),
         g.seq = 0, g.ack, ~g.rst, y.up
  PROVE  /\ Handled(s, Established(s, g), y) /\ Established(s, g).state # "SYN_SENT"
         /\ Late(Established(s, g))
<1> DEFINE r == [s EXCEPT !.snd_wl1 = g.seq]
           a == atcp_ack(r, g)
           v == [TakeSyn(a, g) EXCEPT !.snd_wl2 = g.ack_seq, !.fin_seq = g.seq]
           w == atcp_set_state(v, "ESTABLISHED")
           z == atcp_send_ack(w)
           e == NothingCopied(z)
<1>0. Established(s, g) = e
  BY DEF Established
<1>1. /\ Record(s) /\ ReceiverOK(s) /\ s.rq = <<>> /\ s.ofo = <<>> /\ s.rcv_nxt = 0
      /\ s.rcv_wup = 0 /\ s.delayed_acks = 0
  BY DEF Good, GoodAt, Open, ReceiverOK, Come
<1>2. Stepped(s, r, y) /\ r.state = "SYN_SENT" /\ r.rq = <<>>
  <2>1. Moves(s, r) /\ r.state = s.state /\ SameQueues(s, r) /\ r.delayed_acks = s.delayed_acks
    BY <1>1 DEF Moves, Record, Fields, SameQueue, SameOffer, SameQueues
  <2> HIDE DEF r
  <2>2. Reaches(s, r, y)
    BY <2>1, ReachesSame
  <2>3. StateStep(s, r)
    BY <2>1 DEF StateStep
  <2>4. r.rq = <<>> /\ r.ofo = <<>> /\ r.rcv_nxt = s.rcv_nxt
    BY <1>1, <2>1 DEF SameQueues
  <2> QED BY <2>1, <2>2, <2>3, <2>4, MovesStepped
<1>3. Good(r, y)
  BY <1>2 DEF Stepped
<1>4. g.window \in Nat /\ g.ack_seq \in Int /\ g.ack_seq <= y.seen
  BY DEF Comes, SegmentTypes
<1> HIDE DEF r
<1>5. Handled(r, a, y) /\ a.state = "SYN_SENT" /\ a.rq = <<>>
  BY <1>2, <1>3, <1>4, AckFacts DEF SameQueues
<1>6. Stepped(s, a, y)
  BY <1>2, <1>5, SteppedTrans DEF Handled
<1>7. Good(a, y)
  BY <1>6 DEF Stepped
<1> HIDE DEF a
<1>8. Record(a) /\ a.rcv_wup = 0 /\ a.rcv_nxt = 0
  BY <1>5, <1>7 DEF Good, GoodAt, Open, ReceiverOK
<1>9. Opens(a, w) /\ w.state = "ESTABLISHED" /\ w.rcv_nxt = 1 /\ w.rq = <<>>
  BY <1>5, <1>8, <1>4 DEF TakeSyn, atcp_set_state, Opens, Record, Fields
<1> HIDE DEF w
<1>10. Stepped(a, w, y)
  <2>1. ViewOK(y)
    BY ReceiverFacts
  <2>2. Flag(y.ended) \in {0, 1} /\ y.theirs \in Nat \ {0}
    BY <2>1 DEF Flag, ViewOK
  <2>3. 1 <= y.theirs + Flag(y.ended)
    BY <2>2
  <2> QED BY <1>5, <1>7, <1>8, <1>9, <2>3, OpensStepped
<1>11. Good(w, y)
  BY <1>10 DEF Stepped
<1>12. Handled(w, z, y) /\ z.state = "ESTABLISHED" /\ z.rcv_nxt = 1 /\ z.rq = <<>>
  <2>1. Keeps(w, z, w.snd_una, y)
    BY <1>11, GoodFacts, SendAckKeeps
  <2>2. Handled(w, z, y) /\ z.state = w.state /\ SameQueues(w, z)
    BY <1>11, <2>1, KeepsHandled
  <2> QED BY <2>2, <1>9 DEF SameQueues
<1>13. Good(z, y)
  BY <1>12 DEF Handled, Stepped
<1> HIDE DEF z
<1>14. Stepped(z, e, y) /\ e.state = "ESTABLISHED" /\ e.rcv_nxt = 1 /\ e.rq = <<>> /\ e.copied_seq = 1
  <2>1. Record(z) /\ ReceiverOK(z)
    BY <1>13 DEF Good, GoodAt, Open
  <2>2. /\ Moves(z, e) /\ e.state = z.state /\ e.rcv_nxt = z.rcv_nxt /\ e.rq = z.rq /\ e.ofo = z.ofo
        /\ e.sacks = z.sacks /\ e.in_hand = z.in_hand /\ e.copied_seq = z.rcv_nxt
    BY <2>1 DEF NothingCopied, Moves, Record, Fields, SameQueue, SameOffer
  <2> HIDE DEF e
  <2>3. Reaches(z, e, y)
    <3>1. z.rcv_nxt \in Int /\ z.rcv_nxt >= z.rcv_nxt
      BY <2>1 DEF ReceiverOK
    <3> QED BY <1>13, <2>2, <3>1, ReceiverFacts DEF Reaches, Come
  <2>4. StateStep(z, e)
    BY <2>2 DEF StateStep
  <2>5. Stepped(z, e, y)
    BY <1>12, <1>13, <2>2, <2>3, <2>4, MovesStepped
  <2> QED BY <1>12, <2>2, <2>5
<1> HIDE DEF e
<1>15. Stepped(s, e, y)
  <2>1. Stepped(a, z, y)
    BY <1>7, <1>10, <1>12, SteppedTrans DEF Handled
  <2>2. Stepped(a, e, y)
    BY <1>7, <1>14, <2>1, SteppedTrans
  <2> QED BY <1>6, <2>2, SteppedTrans
<1>16. InLine(e)
  <2>1. Len(e.rq) = 0 /\ \A i \in 1..0 : FALSE
    BY <1>14, EmptyFacts
  <2> QED BY <1>14, <2>1 DEF InLine
<1>17. Handled(s, e, y)
  BY <1>14, <1>15, <1>16 DEF Handled, Line
<1> QED BY <1>0, <1>14, <1>17 DEF Late

(* What the acknowledgement of the FIN, or of the SYN-ACK, does to the     *)
(* state.                                                                  *)
LEMMA AckStateGoes ==
  ASSUME NEW s, NEW y, Good(s, y), s.state # "SYN_SENT", NEW g, SegmentTypes(g),
         NEW acceptable, acceptable => s.snd_una = g.ack_seq
  PROVE  /\ Goes(s, AckState(s, g, acceptable).sk, y)
         /\ AckState(s, g, acceptable).sk.rcv_nxt = s.rcv_nxt
<1> DEFINE z == AckState(s, g, acceptable).sk
           e == [atcp_set_state(s, "ESTABLISHED")
                   EXCEPT !.copied_seq = s.rcv_nxt, !.snd_una = g.ack_seq,
                          !.snd_wnd = g.window, !.snd_wl1 = g.seq,
                          !.snd_wl2 = g.ack_seq]
           f == [s EXCEPT !.state = "FIN_WAIT2", !.shutdown = @ \union {"SEND"}]
           h == net_reset_timer(f, "CLOSE")
           w == atcp_time_wait(s)
           c == [atcp_set_state(s, "CLOSE") EXCEPT !.shutdown = {"RCV", "SEND"}]
<1>1. \/ z = s
      \/ s.state = "SYN_RECV" /\ acceptable /\ z = e
      \/ s.state = "FIN_WAIT1" /\ (z = f \/ z = h)
      \/ s.state = "CLOSING" /\ z = w
      \/ z = c
  BY Zenon DEF AckState
<1>2. Record(s) /\ ReceiverOK(s)
  BY DEF Good, GoodAt, Open
<1> HIDE DEF z
<1>4. CASE z = s
  BY <1>4, HandledRefl DEF Goes, z
<1>5. CASE s.state = "SYN_RECV" /\ acceptable /\ z = e
  <2>1. /\ Opens(s, z) /\ z.state = "ESTABLISHED" /\ z.rcv_nxt = s.rcv_nxt
        /\ z.copied_seq = s.rcv_nxt
    BY <1>2, <1>5 DEF atcp_set_state, Opens, Record, Fields, SegmentTypes, ReceiverOK
  <2>2. /\ s.rq = <<>> /\ y.up /\ s.rcv_nxt \in Int /\ 1 <= s.rcv_nxt
        /\ s.rcv_nxt <= y.theirs + Flag(y.ended)
    BY <1>2, <1>5 DEF Good, GoodAt, Open, Come, ReceiverOK
  <2>3. z.rcv_nxt >= s.rcv_nxt
    BY <2>1, <2>2
  <2>4. Stepped(s, z, y)
    BY <1>5, <2>1, <2>2, <2>3, OpensStepped
  <2>5. Line(s, z)
    BY <2>1, <2>2 DEF Line, InLine, Opens
  <2> QED BY <2>1, <2>4, <2>5 DEF Goes, Handled, Late, z
<1>6. CASE s.state = "FIN_WAIT1" /\ (z = f \/ z = h)
  <2>1. Moves(s, f) /\ SameQueues(s, f) /\ f.state = "FIN_WAIT2"
    BY <1>2 DEF Moves, Record, Fields, SameQueue, SameOffer, SameQueues
  <2>2. Moves(s, h) /\ SameQueues(s, h) /\ h.state = "FIN_WAIT2"
    BY <1>2 DEF net_reset_timer, Moves, Record, Fields, SameQueue, SameOffer, SameQueues
  <2> HIDE DEF f, h
  <2>3. Moves(s, z) /\ SameQueues(s, z) /\ z.state = "FIN_WAIT2"
    BY <1>6, <2>1, <2>2
  <2>4. StateStep(s, z) /\ z.state \in Later
    BY <1>6, <2>3 DEF StateStep, Later, Writing
  <2> QED BY <2>3, <2>4, StateGoes DEF z, SameQueues
<1>7. CASE s.state = "CLOSING" /\ z = w
  <2>1. Moves(s, z) /\ SameQueues(s, z) /\ z.state = "CLOSE"
    <3>1. s.rcv_nxt \in Int /\ s.snd_nxt \in Int
      BY DEF Good, GoodAt, Open, ReceiverOK, QueueOK, QueueTypes
    <3>2. 1 <= s.rcv_nxt
      BY <1>7, <3>1 DEF Good, GoodAt, Open, Come
    <3> QED BY <1>2, <1>7, <3>1, <3>2, TimeWaitFacts DEF Moves
  <2>2. StateStep(s, z)
    BY <2>1 DEF StateStep, Writing
  <2> QED BY <2>1, <2>2, StateGoes DEF z, SameQueues
<1>8. CASE z = c
  <2>1. Moves(s, z) /\ SameQueues(s, z) /\ z.state = "CLOSE"
    BY <1>2, <1>8 DEF atcp_set_state, net_reset_timer, Moves, Record, Fields, SameQueue,
       SameOffer, SameQueues
  <2>2. StateStep(s, z)
    BY <2>1 DEF StateStep, Writing
  <2> QED BY <2>1, <2>2, StateGoes DEF z, SameQueues
<1> QED BY <1>1, <1>4, <1>5, <1>6, <1>7, <1>8

(***************************************************************************)
(* What a segment makes of a socket: one that goes on, or one that was     *)
(* reset.                                                                  *)
(***************************************************************************)
Ended(s, t, y) ==
  /\ Open(t, y) /\ t.zapped /\ t.state = "CLOSE" /\ t.dead = s.dead
  /\ t.write_seq \in Nat /\ t.write_seq = s.write_seq /\ t.rcv_nxt >= s.rcv_nxt /\ Line(s, t)
After(s, t, y) == Handled(s, t, y) \/ Ended(s, t, y)

(* A segment is handled, and then something more. *)
LEMMA AfterTrans ==
  ASSUME NEW r, NEW s, NEW t, NEW y, Good(r, y), Handled(r, s, y), After(s, t, y)
  PROVE  After(r, t, y)
<1>1. CASE Handled(s, t, y)
  BY <1>1, HandledTrans DEF After
<1>2. CASE Ended(s, t, y)
  <2>1. r.rcv_nxt \in Int /\ s.rcv_nxt \in Int /\ t.rcv_nxt \in Int
    BY <1>2 DEF Ended, Handled, Stepped, Good, GoodAt, Open, ReceiverOK
  <2>2. s.rcv_nxt >= r.rcv_nxt /\ t.rcv_nxt >= s.rcv_nxt
    BY <1>2 DEF Ended, Handled, Stepped
  <2>3. t.rcv_nxt >= r.rcv_nxt
    BY <2>1, <2>2
  <2>4. s.state = "SYN_SENT" => r.state = "SYN_SENT"
    BY DEF Handled, Stepped, StateStep, Later
  <2>5. Line(r, t)
    BY <1>2, <2>4 DEF Handled, Ended, Line
  <2> QED BY <1>2, <2>3, <2>5 DEF After, Ended, Handled, Stepped
<1> QED BY <1>1, <1>2 DEF After

(* The buffer goes; s may be in any state. *)
LEMMA DropHandled ==
  ASSUME NEW s, NEW y, Good(s, y), NEW g, SegmentTypes(g), NEW t,
         \/ t = kfree_skb(s) \/ t = skb_set_owner_r(s, g)
         \/ t = atcp_set_state(s, "CLOSE") /\ y.up
  PROVE  Handled(s, t, y) /\ (t.state = s.state \/ t.state = "CLOSE") /\ t.rcv_nxt = s.rcv_nxt
<1>1. Record(s) /\ ReceiverOK(s)
  BY DEF Good, GoodAt, Open
<1>2. Len(g.data) \in Nat /\ Overhead \in Nat
  BY SeqFacts, AtcpConstants DEF SegmentTypes
<1> DEFINE Same == /\ Moves(s, t) /\ (t.state = s.state \/ (t.state = "CLOSE" /\ y.up))
                   /\ t.rq = s.rq /\ t.rcv_nxt = s.rcv_nxt /\ t.copied_seq = s.copied_seq
                   /\ t.ofo = s.ofo /\ t.sacks = s.sacks /\ t.delayed_acks = s.delayed_acks
                   /\ (t.in_hand = s.in_hand \/ t.in_hand = 0 \/ t.in_hand = Overhead + Len(g.data))
<1>3. t = kfree_skb(s) => Same
  BY <1>1 DEF kfree_skb, Moves, Record, Fields, SameQueue, SameOffer
<1>4. t = skb_set_owner_r(s, g) => Same
  BY <1>1 DEF skb_set_owner_r, Moves, Record, Fields, SameQueue, SameOffer
<1>5. t = atcp_set_state(s, "CLOSE") /\ y.up => Same
  BY <1>1 DEF atcp_set_state, net_reset_timer, Moves, Record, Fields, SameQueue, SameOffer
<1>6. Same
  BY <1>3, <1>4, <1>5
<1>7. t.in_hand \in Int
  BY <1>1, <1>2, <1>6 DEF ReceiverOK
<1>8. StateStep(s, t)
  BY <1>6 DEF StateStep, Writing
<1>9. HoldsOK(t.ofo, y) /\ IsSeq(t.sacks)
  BY <1>1, <1>6, ReceiverFacts DEF ReceiverOK
<1>10. Reaches(s, t, y) /\ Line(s, t)
  BY <1>6, <1>7, <1>9, ReachesBut
<1>11. /\ s.state # "SYN_SENT" => y.up
       /\ s.state \in {"SYN_SENT", "SYN_RECV"} => s.rq = <<>> /\ s.ofo = <<>>
  BY DEF Good, GoodAt, Open, Come
<1>12. /\ t.state = "SYN_SENT" => /\ s.state = "SYN_SENT" /\ t.rcv_nxt = s.rcv_nxt
                                  /\ t.delayed_acks = s.delayed_acks
       /\ s.state = "SYN_SENT" => t.state \in {"SYN_SENT", "CLOSE"}
       /\ t.state \in {"SYN_SENT", "SYN_RECV"} => t.rq = <<>> /\ t.ofo = <<>>
       /\ t.state # "SYN_SENT" => y.up
  BY <1>6, <1>11
<1>13. Moves(s, t) /\ (t.state = s.state \/ t.state = "CLOSE") /\ t.rcv_nxt = s.rcv_nxt
  BY <1>6
<1> HIDE DEF Same
<1>14. Stepped(s, t, y)
  BY <1>8, <1>10, <1>12, <1>13, MovesStepped
<1> QED BY <1>10, <1>13, <1>14 DEF Handled

(* A segment that is discarded. *)
LEMMA DiscardAfter ==
  ASSUME NEW r, NEW s, NEW y, Good(r, y), Handled(r, s, y), NEW g, SegmentTypes(g)
  PROVE  /\ After(r, Discard(s).sk, y) /\ After(r, Refuse(s).sk, y)
         /\ s.state # "SYN_SENT" => Discard(s).sk.state # "SYN_SENT" /\ Refuse(s).sk.state # "SYN_SENT"
<1>1. Good(s, y)
  BY DEF Handled, Stepped
<1>2. Handled(s, kfree_skb(s), y) /\ (kfree_skb(s).state = s.state \/ kfree_skb(s).state = "CLOSE")
  BY <1>1, DropHandled
<1>3. Handled(r, kfree_skb(s), y)
  BY <1>1, <1>2, HandledTrans
<1> QED BY <1>2, <1>3 DEF After, Discard, Refuse

(* A segment that resets the connection. *)
LEMMA ResetAfter ==
  ASSUME NEW r, NEW s, NEW y, Good(r, y), Handled(r, s, y), y.up
  PROVE  /\ After(r, Discard(atcp_reset(s)).sk, y) /\ After(r, Refuse(atcp_reset(s)).sk, y)
         /\ Discard(atcp_reset(s)).sk.state = "CLOSE" /\ Refuse(atcp_reset(s)).sk.state = "CLOSE"
<1> DEFINE t == kfree_skb(atcp_reset(s))
<1>1. Good(s, y)
  BY DEF Handled, Stepped
<1>2. Record(s) /\ ReceiverOK(s) /\ SegmentsOK(s.out, y) /\ Come(s, y)
  BY <1>1 DEF Good, GoodAt, Open
<1>3. /\ Record(t) /\ t.zapped = TRUE /\ t.state = "CLOSE" /\ t.dead = s.dead
      /\ t.out = s.out /\ t.rcv_nxt = s.rcv_nxt /\ t.rq = s.rq /\ t.ofo = s.ofo
      /\ t.sacks = s.sacks /\ t.in_hand = 0 /\ t.rcv_wup = s.rcv_wup /\ t.rcv_wnd = s.rcv_wnd
      /\ t.write_seq = s.write_seq /\ t.tw = s.tw /\ t.copied_seq = s.copied_seq
  BY <1>2 DEF atcp_reset, kfree_skb, atcp_set_state, net_reset_timer, Record, Fields
<1> HIDE DEF t
<1>4. Open(t, y)
  <2>1. Come(t, y)
    BY <1>2, <1>3 DEF Come
  <2> QED BY <1>2, <1>3, <2>1 DEF Open, ReceiverOK
<1>5. t.write_seq \in Nat /\ t.write_seq = s.write_seq
  BY <1>1, <1>3 DEF Good, GoodAt, QueueOK, QueueTypes
<1>6. t.rcv_nxt >= s.rcv_nxt /\ Line(s, t)
  BY <1>2, <1>3 DEF ReceiverOK, Line, InLine
<1>7. After(s, t, y)
  BY <1>3, <1>4, <1>5, <1>6 DEF After, Ended
<1>8. After(r, t, y)
  BY <1>7, AfterTrans
<1> QED BY <1>3, <1>8 DEF Discard, Refuse, t

(***************************************************************************)
(* A segment for an established connection.                                *)
(***************************************************************************)
(* The checks after a segment. *)
LEMMA ChecksGoes ==
  ASSUME NEW s, NEW y, Good(s, y), s.state # "SYN_SENT"
  PROVE  /\ Goes(s, SndChecks(s), y) /\ Goes(s, ChecksUnlessClosed(s), y)
         /\ Goes(s, atcp_send_ack(s), y) /\ Goes(s, AckSndCheck(s), y)
         /\ Goes(s, atcp_data_snd_check(s), y)
<1> DEFINE u == s.snd_una
<1>1. Open(s, y) /\ QueueOK(s, u, y)
  BY DEF Good, GoodAt
<1>2. y.up
  BY ReceiverFacts DEF Come
<1>3. Keeps(s, SndChecks(s), u, y)
  BY <1>1, SndChecksKeeps
<1>4. Keeps(s, atcp_send_ack(s), u, y)
  BY <1>1, <1>2, SendAckKeeps
<1>5. Keeps(s, AckSndCheck(s), u, y)
  BY <1>1, <1>2, AckSndCheckKeeps
<1>6. Keeps(s, atcp_data_snd_check(s), u, y)
  BY <1>1, DataSndCheckKeeps
<1>7. Keeps(s, s, u, y)
  BY <1>1, KeepsRefl
<1>8. /\ Goes(s, SndChecks(s), y) /\ Goes(s, atcp_send_ack(s), y) /\ Goes(s, AckSndCheck(s), y)
      /\ Goes(s, atcp_data_snd_check(s), y) /\ Goes(s, s, y)
  BY <1>3, <1>4, <1>5, <1>6, <1>7, KeepsGoes
<1> QED BY <1>8 DEF ChecksUnlessClosed

(* The acknowledgement in a segment of the other end, if it is looked at:  *)
(* the data that follows it is still in its place.                         *)
LEMMA AckOrNotGoes ==
  ASSUME NEW s, NEW y, Good(s, y), s.state # "SYN_SENT", NEW g, Comes(g, s.rcv_nxt, y), ~g.rst
  PROVE  LET a == IF g.ack THEN atcp_ack(s, g) ELSE s
         IN Goes(s, a, y) /\ a.state = s.state /\ Comes(g, a.rcv_nxt, y)
<1> DEFINE a == IF g.ack THEN atcp_ack(s, g) ELSE s
<1>1. Goes(s, s, y)
  BY HandledRefl DEF Goes
<1>2. ASSUME g.ack
      PROVE  Handled(s, atcp_ack(s, g), y) /\ atcp_ack(s, g).state = s.state
             /\ SameQueues(s, atcp_ack(s, g))
  BY <1>2, AckFacts DEF Comes, SegmentTypes
<1>3. Goes(s, a, y) /\ a.state = s.state /\ a.rcv_nxt = s.rcv_nxt
  BY <1>1, <1>2 DEF Goes, Late, SameQueues
<1> QED BY <1>3

(* A segment of an established connection, on the slow path. *)
LEMMA SlowPathAfter ==
  ASSUME NEW s, NEW y, Good(s, y), Late(s), NEW g, Comes(g, s.rcv_nxt, y)
  PROVE  After(s, SlowPath(s, g).sk, y) /\ SlowPath(s, g).sk.state # "SYN_SENT"
<1> DEFINE k == IF g.rst THEN s ELSE atcp_send_ack(s)
           a == IF g.ack THEN atcp_ack(s, g) ELSE s
           d == atcp_data(a, g)
           c == ChecksUnlessClosed(d)
<1>1. s.state # "SYN_SENT" /\ SegmentTypes(g) /\ y.up
  BY ReceiverFacts DEF Late, Comes, Come
<1>2. Goes(s, s, y) /\ Goes(s, atcp_send_ack(s), y)
  BY <1>1, HandledRefl, ChecksGoes DEF Goes
<1>3. Goes(s, k, y)
  BY <1>2
<1>4. ~g.rst => Goes(s, a, y) /\ a.state = s.state /\ Comes(g, a.rcv_nxt, y)
  BY <1>1, AckOrNotGoes
<1>5. \/ SlowPath(s, g) = Discard(k)
      \/ SlowPath(s, g) = Refuse(atcp_reset(s))
      \/ SlowPath(s, g) = Discard(atcp_reset(s))
      \/ ~g.rst /\ SlowPath(s, g) = Discard(c)
  BY Zenon DEF SlowPath
<1> HIDE DEF k, a
<1>6. ASSUME ~g.rst
      PROVE  Goes(s, c, y)
  <2>1. Good(a, y) /\ Late(a) /\ Comes(g, a.rcv_nxt, y)
    BY <1>4, <1>6, GoesFacts
  <2>2. Goes(a, d, y)
    BY <2>1, DataGoes
  <2>3. Goes(s, d, y)
    BY <1>4, <1>6, <2>2, GoesTrans
  <2>4. Good(d, y) /\ d.state # "SYN_SENT"
    BY <2>3, GoesFacts
  <2> HIDE DEF d
  <2>5. Goes(d, c, y)
    BY <2>4, ChecksGoes
  <2> HIDE DEF c
  <2> QED BY <2>3, <2>5, GoesTrans
<1> HIDE DEF c, d
<1>7. After(s, Discard(k).sk, y) /\ Discard(k).sk.state # "SYN_SENT"
  BY <1>1, <1>3, DiscardAfter DEF Goes
<1>8. ~g.rst => After(s, Discard(c).sk, y) /\ Discard(c).sk.state # "SYN_SENT"
  BY <1>1, <1>6, DiscardAfter DEF Goes
<1>9. /\ After(s, Discard(atcp_reset(s)).sk, y) /\ Discard(atcp_reset(s)).sk.state # "SYN_SENT"
      /\ After(s, Refuse(atcp_reset(s)).sk, y) /\ Refuse(atcp_reset(s)).sk.state # "SYN_SENT"
  BY <1>1, <1>2, ResetAfter DEF Goes
<1> QED BY <1>5, <1>7, <1>8, <1>9

(* The predicted segment with data joins the receive queue at once. *)
LEMMA PredictedDataGoes ==
  ASSUME NEW s, NEW y, Good(s, y), Late(s), NEW g, Comes(g, s.rcv_nxt, y),
         HasData(g), g.seq = s.rcv_nxt
  PROVE  Goes(s, [kfree_skb(s) EXCEPT !.rq = Append(@, Received(g)), !.rcv_nxt = SegEnd(g)], y)
<1> DEFINE b == Received(g)
           t == [kfree_skb(s) EXCEPT !.rq = Append(@, b), !.rcv_nxt = SegEnd(g)]
<1>1. Record(s) /\ ReceiverOK(s) /\ ViewOK(y) /\ s.rcv_nxt \in Int
  BY ReceiverFacts
<1>2. Arriving(b, s.rcv_nxt, y)
  BY <1>1, ReceivedOK
<1>3. b.seq = g.seq /\ b.end = SegEnd(g)
  BY DEF Received
<1> HIDE DEF b
<1>4. BufferOK(b) /\ b.seq <= s.rcv_nxt /\ s.rcv_nxt < b.end
  BY <1>1, <1>2, <1>3 DEF Arriving
<1>5. Piece(b, y)
  BY <1>1, <1>2, <1>4, ArrivingPiece
<1>6. /\ Moves(s, t) /\ t.state = s.state /\ t.rq = Append(s.rq, b) /\ t.rcv_nxt = SegEnd(g)
      /\ t.copied_seq = s.copied_seq /\ t.ofo = s.ofo /\ t.sacks = s.sacks /\ t.in_hand = 0
  BY <1>1 DEF kfree_skb, Moves, Record, Fields, SameQueue, SameOffer
<1> HIDE DEF t
<1>7. t.in_hand \in Int
  BY <1>6
<1>8. Reaches(s, t, y) /\ Line(s, t)
  BY <1>3, <1>4, <1>5, <1>6, <1>7, AppendReaches
<1>9. Goes(s, t, y)
  BY <1>6, <1>8, ReceiverGoes DEF Late
<1> QED BY <1>9 DEF t, b

(* A segment of an established connection. *)
LEMMA FastOrSlowAfter ==
  ASSUME NEW s, NEW y, Good(s, y), Late(s), NEW g, Comes(g, s.rcv_nxt, y)
  PROVE  After(s, FastOrSlow(s, g).sk, y) /\ FastOrSlow(s, g).sk.state # "SYN_SENT"
<1> DEFINE n == [kfree_skb(s) EXCEPT !.rq = Append(@, Received(g)), !.rcv_nxt = SegEnd(g)]
           d == atcp_delack_estimator(n)
           q == atcp_remember_ack(d)
           k == AckSndCheck(q)
           a == atcp_ack(s, g)
           f == kfree_skb(a)
           c == atcp_data_snd_check(f)
<1>1. \/ Predicted(s, g) /\ FastOrSlow(s, g) = Discard(c)
      \/ Predicted(s, g) /\ HasData(g) /\ FastOrSlow(s, g) = Discard(k)
      \/ FastOrSlow(s, g) = SlowPath(s, g)
  BY Zenon DEF FastOrSlow
<1>2. s.state # "SYN_SENT" /\ SegmentTypes(g) /\ y.up
  BY ReceiverFacts DEF Late, Comes, Come
<1>3. ASSUME Predicted(s, g), HasData(g)
      PROVE  Goes(s, k, y)
  <2>1. Goes(s, n, y)
    BY <1>3, PredictedDataGoes DEF Predicted
  <2>2. Good(n, y) /\ n.state # "SYN_SENT"
    BY <2>1, GoesFacts
  <2> HIDE DEF n
  <2>3. Goes(n, d, y)
    BY <2>2, SmallGoes
  <2>4. Goes(s, d, y)
    BY <2>1, <2>3, GoesTrans
  <2>5. Good(d, y) /\ d.state # "SYN_SENT"
    BY <2>4, GoesFacts
  <2> HIDE DEF d
  <2>6. Goes(d, q, y)
    BY <2>5, SmallGoes
  <2>7. Goes(s, q, y)
    BY <2>4, <2>6, GoesTrans
  <2>8. Good(q, y) /\ q.state # "SYN_SENT"
    BY <2>7, GoesFacts
  <2> HIDE DEF q
  <2>9. Goes(q, k, y)
    BY <2>8, ChecksGoes
  <2> HIDE DEF k
  <2> QED BY <2>7, <2>9, GoesTrans
<1>4. ASSUME Predicted(s, g)
      PROVE  Goes(s, c, y)
  <2>1. Goes(s, a, y)
    BY <1>2, <1>4, AckOrNotGoes DEF Predicted
  <2>2. Good(a, y) /\ a.state # "SYN_SENT"
    BY <2>1, GoesFacts
  <2> HIDE DEF a
  <2>3. Goes(a, f, y)
    BY <2>2, SmallGoes
  <2>4. Goes(s, f, y)
    BY <2>1, <2>3, GoesTrans
  <2>5. Good(f, y) /\ f.state # "SYN_SENT"
    BY <2>4, GoesFacts
  <2> HIDE DEF f
  <2>6. Goes(f, c, y)
    BY <2>5, ChecksGoes
  <2> HIDE DEF c
  <2> QED BY <2>4, <2>6, GoesTrans
<1> HIDE DEF c, k
<1>5. Predicted(s, g) => After(s, Discard(c).sk, y) /\ Discard(c).sk.state # "SYN_SENT"
  BY <1>2, <1>4, DiscardAfter DEF Goes
<1>6. Predicted(s, g) /\ HasData(g) => After(s, Discard(k).sk, y) /\ Discard(k).sk.state # "SYN_SENT"
  BY <1>2, <1>3, DiscardAfter DEF Goes
<1> QED BY <1>1, <1>5, <1>6, SlowPathAfter

(***************************************************************************)
(* A segment in the other states.                                          *)
(***************************************************************************)
(* What the peer's listener and its queue send to the end that connects.   *)
Reply(g) == g.syn => g.ack /\ g.seq = 0

(* What ends SYN-SENT: an acknowledgement of the SYN, with the peer's SYN  *)
(* or a reset.                                                             *)
Answers(s, g) == g.ack /\ g.ack_seq = s.snd_nxt /\ (g.syn \/ g.rst)

(* A segment in SYN-SENT; it comes from the listener or its connection. *)
LEMMA SynSentAfter ==
  ASSUME NEW s, NEW y, Good(s, y), s.state = "SYN_SENT", ~s.zapped,
         NEW g, Comes(g, s.rcv_nxt, y), Reply(g), Answers(s, g) => y.up
  PROVE  /\ After(s, SynSent(s, g).sk, y)
         /\ Answers(s, g) => SynSent(s, g).sk.state # "SYN_SENT"
<1> DEFINE e == Established(s, g)
           d == atcp_data(e, g)
           c == SndChecks(d)
<1>1. \/ SynSent(s, g) = Refuse(s) /\ ~Answers(s, g)
      \/ SynSent(s, g) = Discard(atcp_reset(s)) /\ Answers(s, g)
      \/ SynSent(s, g) = Discard(s) /\ ~Answers(s, g)
      \/ Answers(s, g) /\ g.syn /\ ~g.rst /\ SynSent(s, g) = Discard(c)
  BY Zenon DEF SynSent, Reply, Comes, Answers
<1>2. Handled(s, s, y) /\ SegmentTypes(g)
  BY HandledRefl DEF Comes
<1>3. ASSUME Answers(s, g), g.syn, ~g.rst
      PROVE  Handled(s, c, y) /\ c.state # "SYN_SENT"
  <2>1. Handled(s, e, y) /\ e.state # "SYN_SENT" /\ Late(e)
    BY <1>3, EstablishedGoes DEF Reply, Answers
  <2>2. Good(e, y) /\ ViewOK(y)
    BY <2>1, ReceiverFacts DEF Handled, Stepped
  <2>3. s.rcv_nxt \in Int /\ e.rcv_nxt \in Int /\ s.rcv_nxt <= e.rcv_nxt
    BY <2>1, <2>2, ReceiverFacts DEF Handled, Stepped
  <2> HIDE DEF e
  <2>4. Comes(g, e.rcv_nxt, y)
    BY <2>2, <2>3, ComesMore
  <2>5. Goes(e, d, y)
    BY <2>1, <2>2, <2>4, DataGoes
  <2>6. Good(d, y) /\ d.state # "SYN_SENT"
    BY <2>5, GoesFacts
  <2> HIDE DEF d
  <2>7. Goes(d, c, y)
    BY <2>6, ChecksGoes
  <2> HIDE DEF c
  <2>8. Goes(e, c, y)
    BY <2>2, <2>5, <2>7, GoesTrans
  <2> QED BY <2>1, <2>8, HandledTrans DEF Goes
<1> HIDE DEF c
<1>4. After(s, Refuse(s).sk, y) /\ After(s, Discard(s).sk, y)
  BY <1>2, DiscardAfter
<1>5. Answers(s, g) => /\ After(s, Discard(atcp_reset(s)).sk, y)
                       /\ Discard(atcp_reset(s)).sk.state # "SYN_SENT"
  BY <1>2, ResetAfter
<1>6. Answers(s, g) /\ g.syn /\ ~g.rst => /\ After(s, Discard(c).sk, y)
                                          /\ Discard(c).sk.state # "SYN_SENT"
  BY <1>2, <1>3, DiscardAfter
<1> QED BY <1>1, <1>4, <1>5, <1>6

(* The last steps of atcp_rcv_state_process: URG, data, and what to send. *)
LEMMA Step7After ==
  ASSUME NEW s, NEW y, Good(s, y), s.state # "SYN_SENT", NEW g, Comes(g, s.rcv_nxt, y)
  PROVE  After(s, Step7(s, g).sk, y) /\ Step7(s, g).sk.state # "SYN_SENT"
<1> DEFINE d == atcp_data(s, g)
           c == SndChecks(d)
           k == SndChecks(s)
<1>1. \/ Step7(s, g) = Discard(k)
      \/ Step7(s, g) = Refuse(atcp_reset(s))
      \/ Late(s) /\ Step7(s, g) = Discard(c)
  <2> DEFINE half == s.state \in {"CLOSE_WAIT", "CLOSING", "FIN_WAIT1", "FIN_WAIT2"}
  <2>1. half \/ s.state = "ESTABLISHED" => Late(s)
    BY DEF Late
  <2> HIDE DEF Late
  <2> QED BY <2>1, Zenon DEF Step7
<1>2. SegmentTypes(g) /\ y.up
  BY ReceiverFacts DEF Comes, Come
<1>3. Goes(s, k, y) /\ Handled(s, s, y)
  BY ChecksGoes, HandledRefl
<1>4. ASSUME Late(s)
      PROVE  Goes(s, c, y)
  <2>1. Goes(s, d, y)
    BY <1>4, DataGoes
  <2>2. Good(d, y) /\ d.state # "SYN_SENT"
    BY <2>1, GoesFacts
  <2> HIDE DEF d
  <2>3. Goes(d, c, y)
    BY <2>2, ChecksGoes
  <2> HIDE DEF c
  <2> QED BY <2>1, <2>3, GoesTrans
<1> HIDE DEF c, k
<1>5. After(s, Discard(k).sk, y) /\ Discard(k).sk.state # "SYN_SENT"
  BY <1>2, <1>3, DiscardAfter DEF Goes
<1>6. Late(s) => After(s, Discard(c).sk, y) /\ Discard(c).sk.state # "SYN_SENT"
  BY <1>2, <1>4, DiscardAfter DEF Goes
<1>7. After(s, Refuse(atcp_reset(s)).sk, y) /\ Refuse(atcp_reset(s)).sk.state # "SYN_SENT"
  BY <1>2, <1>3, ResetAfter
<1> QED BY <1>1, <1>5, <1>6, <1>7

(* A segment in the states after SYN-SENT. *)
LEMMA SynchronizedAfter ==
  ASSUME NEW s, NEW y, Good(s, y), s.state # "SYN_SENT", ~s.zapped,
         NEW g, Comes(g, s.rcv_nxt, y)
  PROVE  After(s, Synchronized(s, g).sk, y) /\ Synchronized(s, g).sk.state # "SYN_SENT"
<1> DEFINE k == IF g.rst THEN s ELSE atcp_send_ack(s)
           a == atcp_ack(s, g)
           r == AckState(a, g, Acceptable(s, g))
           z == AfterAck(r, g)
<1>1. \/ Synchronized(s, g) = Discard(k)
      \/ Synchronized(s, g) = Discard(atcp_reset(s))
      \/ Synchronized(s, g) = Refuse(atcp_reset(s))
      \/ Synchronized(s, g) = Discard(s)
      \/ g.ack /\ ~g.rst /\ Synchronized(s, g) = z
  BY Zenon DEF Synchronized
<1>2. SegmentTypes(g) /\ y.up
  BY ReceiverFacts DEF Comes, Come
<1>3. Handled(s, s, y) /\ Handled(s, k, y) /\ k.state # "SYN_SENT"
  BY HandledRefl, ChecksGoes DEF Goes
<1> HIDE DEF k
<1>4. ASSUME g.ack, ~g.rst
      PROVE  After(s, z.sk, y) /\ z.sk.state # "SYN_SENT"
  <2>1. /\ Handled(s, a, y) /\ a.state = s.state /\ SameQueues(s, a)
        /\ (Acceptable(s, g) => a.snd_una = g.ack_seq)
    BY <1>4, AckFacts DEF Comes, SegmentTypes
  <2>2. Good(a, y) /\ a.state # "SYN_SENT" /\ a.rcv_nxt = s.rcv_nxt
    BY <2>1 DEF Handled, Stepped, SameQueues
  <2> HIDE DEF a
  <2>3. Goes(a, r.sk, y) /\ r.sk.rcv_nxt = a.rcv_nxt
    BY <1>2, <2>1, <2>2, AckStateGoes
  <2>4. z = Refuse(r.sk) \/ z = Discard(r.sk) \/ z = Step7(r.sk, g)
    BY DEF AfterAck
  <2> HIDE DEF r, z
  <2>5. Handled(s, r.sk, y) /\ Good(r.sk, y) /\ r.sk.state # "SYN_SENT"
    BY <2>1, <2>3, HandledTrans, GoesFacts DEF Goes
  <2>6. Comes(g, r.sk.rcv_nxt, y)
    BY <2>2, <2>3
  <2>7. After(r.sk, Step7(r.sk, g).sk, y) /\ Step7(r.sk, g).sk.state # "SYN_SENT"
    BY <2>5, <2>6, Step7After
  <2>8. After(s, Step7(r.sk, g).sk, y)
    BY <2>5, <2>7, AfterTrans
  <2>9. /\ After(s, Refuse(r.sk).sk, y) /\ After(s, Discard(r.sk).sk, y)
        /\ Refuse(r.sk).sk.state # "SYN_SENT" /\ Discard(r.sk).sk.state # "SYN_SENT"
    BY <1>2, <2>5, DiscardAfter
  <2> QED BY <2>4, <2>7, <2>8, <2>9
<1> HIDE DEF z
<1>5. /\ After(s, Discard(s).sk, y) /\ After(s, Discard(k).sk, y)
      /\ Discard(s).sk.state # "SYN_SENT" /\ Discard(k).sk.state # "SYN_SENT"
  BY <1>2, <1>3, DiscardAfter
<1>6. /\ After(s, Refuse(atcp_reset(s)).sk, y) /\ After(s, Discard(atcp_reset(s)).sk, y)
      /\ Refuse(atcp_reset(s)).sk.state # "SYN_SENT"
      /\ Discard(atcp_reset(s)).sk.state # "SYN_SENT"
  BY <1>2, <1>3, ResetAfter
<1> QED BY <1>1, <1>4, <1>5, <1>6

(* A socket that is not reset yet. *)
LEMMA ProcessAfter ==
  ASSUME NEW s, NEW y, Good(s, y), ~s.zapped, NEW g, Comes(g, s.rcv_nxt, y),
         s.state = "SYN_SENT" => Reply(g),
         s.state = "SYN_SENT" /\ Answers(s, g) => y.up
  PROVE  LET t == atcp_rcv_state_process(s, g).sk
         IN After(s, t, y) /\ (s.state # "SYN_SENT" \/ Answers(s, g) => t.state # "SYN_SENT")
<1> DEFINE p == atcp_fast_parse_options(s, g)
<1>1. Handled(s, p, y) /\ p.state = s.state /\ p.rcv_nxt = s.rcv_nxt
  <2>1. Keeps(s, p, s.snd_una, y)
    BY GoodFacts, SackOptionsKeeps DEF Comes, SegmentTypes
  <2> HIDE DEF p
  <2> QED BY <2>1, KeepsHandled DEF SameQueues
<1>2. Good(p, y) /\ p.zapped = s.zapped
  BY <1>1 DEF Handled, Stepped
<1> HIDE DEF p
<1>3. CASE s.state = "CLOSE"
  <2>1. SegmentTypes(g)
    BY DEF Comes
  <2>2. After(s, Refuse(s).sk, y) /\ Refuse(s).sk.state # "SYN_SENT"
    BY <1>3, <2>1, HandledRefl, DiscardAfter
  <2> QED BY <1>3, <2>2 DEF atcp_rcv_state_process
<1>4. CASE s.state = "SYN_SENT"
  BY <1>4, SynSentAfter DEF atcp_rcv_state_process
<1>5. CASE s.state # "CLOSE" /\ s.state # "SYN_SENT"
  <2>1. After(p, Synchronized(p, g).sk, y) /\ Synchronized(p, g).sk.state # "SYN_SENT"
    BY <1>1, <1>2, <1>5, SynchronizedAfter
  <2>2. After(s, Synchronized(p, g).sk, y)
    BY <1>1, <2>1, AfterTrans
  <2> QED BY <1>5, <2>1, <2>2 DEF atcp_rcv_state_process, p
<1> QED BY <1>3, <1>4, <1>5

(* atcp_v4_do_rcv: any segment, in any state, is handled or ends the       *)
(* connection; an answer to the SYN ends SYN-SENT.                         *)
LEMMA DoRcvAfter ==
  ASSUME NEW s, NEW y, Good(s, y), ~s.zapped, NEW g, Comes(g, s.rcv_nxt, y),
         s.state = "SYN_SENT" => Reply(g),
         s.state = "SYN_SENT" /\ Answers(s, g) => y.up
  PROVE  LET t == atcp_v4_do_rcv(s, g).sk
         IN After(s, t, y) /\ (s.state # "SYN_SENT" \/ Answers(s, g) => t.state # "SYN_SENT")
<1> DEFINE h == skb_set_owner_r(s, g)
           p == atcp_fast_parse_options(h, g)
<1>1. Handled(s, h, y) /\ h.state = s.state /\ h.rcv_nxt = s.rcv_nxt /\ h.snd_nxt = s.snd_nxt
  <2>1. h.state = s.state /\ h.snd_nxt = s.snd_nxt
    BY DEF skb_set_owner_r, Good, GoodAt, Open, Record, Fields
  <2>2. SegmentTypes(g)
    BY DEF Comes
  <2> QED BY <2>1, <2>2, DropHandled
<1>2. Good(h, y) /\ ~h.zapped
  BY <1>1 DEF Handled, Stepped
<1>3. Answers(h, g) <=> Answers(s, g)
  BY <1>1 DEF Answers
<1> HIDE DEF h
<1>4. CASE s.state = "ESTABLISHED"
  <2>1. Keeps(h, p, h.snd_una, y)
    BY <1>2, GoodFacts, SackOptionsKeeps DEF Comes, SegmentTypes
  <2>2. Handled(h, p, y) /\ p.state = h.state /\ p.rcv_nxt = h.rcv_nxt
    BY <1>2, <2>1, KeepsHandled DEF SameQueues
  <2> HIDE DEF p
  <2>3. Good(p, y) /\ Late(p) /\ Comes(g, p.rcv_nxt, y)
    BY <1>1, <1>4, <2>2 DEF Handled, Stepped, Late
  <2>4. After(p, FastOrSlow(p, g).sk, y) /\ FastOrSlow(p, g).sk.state # "SYN_SENT"
    BY <2>3, FastOrSlowAfter
  <2>5. After(h, FastOrSlow(p, g).sk, y)
    BY <1>2, <2>2, <2>4, AfterTrans
  <2>6. After(s, FastOrSlow(p, g).sk, y)
    BY <1>1, <2>5, AfterTrans
  <2> QED BY <1>4, <2>4, <2>6 DEF atcp_v4_do_rcv, atcp_rcv_established, h, p
<1>5. CASE s.state # "ESTABLISHED"
  <2> DEFINE t == atcp_rcv_state_process(h, g).sk
  <2>1. After(h, t, y) /\ (h.state # "SYN_SENT" \/ Answers(h, g) => t.state # "SYN_SENT")
    BY <1>1, <1>2, <1>3, ProcessAfter
  <2> HIDE DEF t
  <2>2. After(s, t, y)
    BY <1>1, <2>1, AfterTrans
  <2>3. atcp_v4_do_rcv(s, g).sk = t
    BY <1>5 DEF atcp_v4_do_rcv, h, t
  <2> QED BY <1>1, <1>3, <2>1, <2>2, <2>3
<1> QED BY <1>4, <1>5
=============================================================================
