--------------------------- MODULE AtcpSockProofs ---------------------------
(***************************************************************************)
(* Lemmas about a socket of the Linux 2.2 TCP (AtcpSock): sequences, the   *)
(* window and the write queue.                                             *)
(*                                                                         *)
(* The modules AtcpSockProofs, AtcpOutputProofs, AtcpInputProofs and       *)
(* AtcpConnectionProofs build one proof on each other, that of six         *)
(* properties of AtcpConnection. Loops of the code are folds, and what is  *)
(* true after one is proved by induction over its turns, through an        *)
(* instance of Iteration.                                                  *)
(*                                                                         *)
(* A socket is a record of which only the types that matter are stated     *)
(* (Record, ReceiverOK), and most lemmas are about what a step leaves      *)
(* alone: the life of the socket, the sending half, the receiving half, or *)
(* the window. The argument y of many of them is a view (ViewOK): what a   *)
(* step at one end may take for granted of the other end and of the two    *)
(* streams, which no field of the socket holds.                            *)
(***************************************************************************)
EXTENDS AtcpSock, SequenceTheorems, FiniteSetTheorems, TLAPS

(***************************************************************************)
(* Sequences of anything: what the operations on them return.              *)
(***************************************************************************)
IsSeq(q) == \E S : q \in Seq(S)

(* The indices of a sequence. *)
LEMMA SeqFacts ==
  ASSUME NEW q, IsSeq(q)
  PROVE  Len(q) \in Nat /\ DOMAIN q = 1..Len(q) /\ (q = <<>> <=> Len(q) = 0)
<1>1. PICK S : q \in Seq(S)
  BY DEF IsSeq
<1> QED BY <1>1, LenProperties, EmptySeq

(* A function on an interval that starts at 1. *)
LEMMA FunctionIsSeq ==
  ASSUME NEW n \in Nat, NEW q, DOMAIN q = 1..n, q = [i \in DOMAIN q |-> q[i]]
  PROVE  IsSeq(q) /\ Len(q) = n
<1> DEFINE S == {q[i] : i \in 1..n}
<1>1. q \in [1..n -> S]
  OBVIOUS
<1>2. q \in Seq(S)
  BY <1>1, SeqDef
<1>3. Len(q) \in Nat /\ DOMAIN q = 1..Len(q)
  BY <1>2, LenProperties
<1>4. Len(q) = n
  BY <1>3
<1> QED BY <1>2, <1>4 DEF IsSeq

(* A sequence is the function of its elements. *)
LEMMA SeqIsFunction ==
  ASSUME NEW q, IsSeq(q)
  PROVE  q = [i \in 1..Len(q) |-> q[i]]
<1>1. PICK S : q \in Seq(S)
  BY DEF IsSeq
<1>2. q \in [1..Len(q) -> S]
  BY <1>1, LenProperties
<1> QED BY <1>2

(* The empty sequence. *)
LEMMA EmptyFacts == IsSeq(<<>>) /\ Len(<<>>) = 0
  BY EmptySeq DEF IsSeq

(* Append adds one element behind the others. *)
LEMMA AppendFacts ==
  ASSUME NEW q, IsSeq(q), NEW x
  PROVE  /\ IsSeq(Append(q, x)) /\ Len(Append(q, x)) = Len(q) + 1
         /\ \A i \in 1..Len(q) : Append(q, x)[i] = q[i]
         /\ Append(q, x)[Len(q) + 1] = x
         /\ Append(q, x) # <<>> /\ Append(q, x) # q
<1>1. PICK S : q \in Seq(S)
  BY DEF IsSeq
<1> DEFINE T == S \cup {x}
<1>2. q \in Seq(T)
  BY <1>1, SeqMonotonic
<1> HIDE DEF T
<1>3. x \in T
  BY DEF T
<1>4. /\ Append(q, x) \in Seq(T) /\ Len(Append(q, x)) = Len(q) + 1
      /\ \A i \in 1..Len(q) : Append(q, x)[i] = q[i]
      /\ Append(q, x)[Len(q) + 1] = x
  BY <1>2, <1>3
<1>5. Len(q) \in Nat /\ Len(Append(q, x)) # Len(q) /\ Append(q, x) # <<>>
  BY <1>2, <1>4, LenProperties, EmptySeq
<1> QED BY <1>4, <1>5 DEF IsSeq

(* Concatenation: the elements of the first, then those of the second. *)
LEMMA ConcatFacts ==
  ASSUME NEW q, IsSeq(q), NEW r, IsSeq(r)
  PROVE  /\ IsSeq(q \o r) /\ Len(q \o r) = Len(q) + Len(r)
         /\ \A i \in 1..Len(q) : (q \o r)[i] = q[i]
         /\ \A i \in 1..Len(r) : (q \o r)[Len(q) + i] = r[i]
         /\ \A i \in (Len(q) + 1)..(Len(q) + Len(r)) : (q \o r)[i] = r[i - Len(q)]
<1>1. PICK S : q \in Seq(S)
  BY DEF IsSeq
<1>2. PICK T : r \in Seq(T)
  BY DEF IsSeq
<1> DEFINE U == S \cup T
<1>3. q \in Seq(U) /\ r \in Seq(U)
  BY <1>1, <1>2, SeqMonotonic
<1> HIDE DEF U
<1>4. Len(q) \in Nat /\ Len(r) \in Nat
  BY <1>3, LenProperties
<1>5. /\ q \o r \in Seq(U) /\ Len(q \o r) = Len(q) + Len(r)
      /\ \A i \in 1 .. Len(q) + Len(r) : (q \o r)[i] = IF i <= Len(q) THEN q[i] ELSE r[i - Len(q)]
  BY <1>3, ConcatProperties
<1>6. \A i \in 1..Len(r) : /\ Len(q) + i \in 1 .. Len(q) + Len(r)
                           /\ ~ (Len(q) + i <= Len(q)) /\ Len(q) + i - Len(q) = i
  BY <1>4
<1> QED BY <1>4, <1>5, <1>6 DEF IsSeq

(* Also when the bounds are outside the sequence. *)
LEMMA SubSeqFacts ==
  ASSUME NEW q, NEW m \in Int, NEW n \in Int
  PROVE  /\ IsSeq(SubSeq(q, m, n)) /\ Len(SubSeq(q, m, n)) = IF m <= n THEN n - m + 1 ELSE 0
         /\ \A i \in 1..(n - m + 1) : SubSeq(q, m, n)[i] = q[m + i - 1]
<1> DEFINE S == {q[i] : i \in m..n}
<1>1. \A i \in m..n : q[i] \in S
  OBVIOUS
<1> HIDE DEF S
<1>2. /\ SubSeq(q, m, n) \in Seq(S)
      /\ Len(SubSeq(q, m, n)) = IF m <= n THEN n - m + 1 ELSE 0
      /\ \A i \in 1..(n - m + 1) : SubSeq(q, m, n)[i] = q[m + i - 1]
  BY <1>1, SubSeqProperties
<1> QED BY <1>2 DEF IsSeq

(* Tail is the sequence without its first element. *)
LEMMA TailFacts ==
  ASSUME NEW q, IsSeq(q), q # <<>>
  PROVE  /\ IsSeq(Tail(q)) /\ Len(Tail(q)) = Len(q) - 1 /\ Head(q) = q[1]
         /\ \A i \in 1..Len(Tail(q)) : Tail(q)[i] = q[i + 1]
<1>1. PICK S : q \in Seq(S)
  BY DEF IsSeq
<1> QED BY <1>1, HeadTailProperties DEF IsSeq

(* One element replaced. *)
LEMMA ExceptFacts ==
  ASSUME NEW q, IsSeq(q), NEW i, NEW x
  PROVE  LET r == [q EXCEPT ![i] = x]
         IN /\ IsSeq(r) /\ Len(r) = Len(q)
            /\ \A j \in 1..Len(q) : r[j] = IF j = i THEN x ELSE q[j]
<1> DEFINE r == [q EXCEPT ![i] = x]
<1>1. Len(q) \in Nat /\ DOMAIN q = 1..Len(q)
  BY SeqFacts
<1>2. DOMAIN r = 1..Len(q) /\ r = [j \in DOMAIN r |-> r[j]]
  BY <1>1
<1>3. \A j \in 1..Len(q) : r[j] = IF j = i THEN x ELSE q[j]
  BY <1>1
<1> HIDE DEF r
<1>4. IsSeq(r) /\ Len(r) = Len(q)
  BY <1>1, <1>2, FunctionIsSeq
<1> QED BY <1>3, <1>4 DEF r

(* One element taken out: those behind it move up. *)
LEMMA RemoveAtFacts ==
  ASSUME NEW q, IsSeq(q), NEW i \in 1..Len(q)
  PROVE  /\ IsSeq(RemoveAt(q, i)) /\ Len(RemoveAt(q, i)) = Len(q) - 1
         /\ \A j \in 1..(Len(q) - 1) : RemoveAt(q, i)[j] = IF j < i THEN q[j] ELSE q[j + 1]
<1> DEFINE a == SubSeq(q, 1, i - 1)
           b == SubSeq(q, i + 1, Len(q))
<1>1. Len(q) \in Nat /\ i \in 1..Len(q)
  BY SeqFacts
<1>2. IsSeq(a) /\ Len(a) = i - 1 /\ \A j \in 1..(i - 1) : a[j] = q[j]
  <2>1. IsSeq(a) /\ Len(a) = i - 1 /\ \A j \in 1..(i - 1) : a[j] = q[1 + j - 1]
    BY <1>1, SubSeqFacts
  <2> QED BY <2>1
<1>3. IsSeq(b) /\ Len(b) = Len(q) - i /\ \A j \in 1..(Len(q) - i) : b[j] = q[j + i]
  <2>1. /\ IsSeq(b) /\ Len(b) = IF i + 1 <= Len(q) THEN Len(q) - (i + 1) + 1 ELSE 0
        /\ \A j \in 1..(Len(q) - (i + 1) + 1) : b[j] = q[(i + 1) + j - 1]
    BY <1>1, SubSeqFacts
  <2>2. /\ Len(q) - (i + 1) + 1 = Len(q) - i
        /\ Len(q) - i = IF i + 1 <= Len(q) THEN Len(q) - (i + 1) + 1 ELSE 0
        /\ \A j \in 1..(Len(q) - i) : (i + 1) + j - 1 = j + i
    BY <1>1
  <2> HIDE DEF b
  <2>3. Len(b) = Len(q) - i
    BY <2>1, <2>2
  <2>4. ASSUME NEW j \in 1..(Len(q) - i) PROVE b[j] = q[j + i]
    BY <2>1, <2>2
  <2> QED BY <2>1, <2>3, <2>4
<1>4. RemoveAt(q, i) = a \o b
  BY DEF RemoveAt
<1> HIDE DEF a, b
<1>5. IsSeq(a \o b) /\ Len(a \o b) = Len(q) - 1
  <2>1. IsSeq(a \o b) /\ Len(a \o b) = Len(a) + Len(b)
    BY <1>2, <1>3, ConcatFacts
  <2>2. (i - 1) + (Len(q) - i) = Len(q) - 1
    BY <1>1
  <2> QED BY <2>1, <2>2, <1>2, <1>3
<1>6. ASSUME NEW j \in 1..(Len(q) - 1)
      PROVE  (a \o b)[j] = IF j < i THEN q[j] ELSE q[j + 1]
  <2>1. CASE j < i
    BY <2>1, <1>1, <1>2, <1>3, ConcatFacts
  <2>2. CASE ~ (j < i)
    <3>1. j - (i - 1) \in 1..(Len(q) - i) /\ j - (i - 1) + i = j + 1
          /\ j \in (Len(a) + 1)..(Len(a) + Len(b))
      BY <2>2, <1>1, <1>2, <1>3
    <3>2. b[j - (i - 1)] = q[j + 1]
      BY <3>1, <1>3
    <3>3. IsSeq(a) /\ IsSeq(b)
      BY <1>2, <1>3
    <3>4. (a \o b)[j] = b[j - Len(a)]
      BY <3>1, <3>3, ConcatFacts
    <3> QED BY <2>2, <3>2, <3>4, <1>2
  <2> QED BY <2>1, <2>2
<1> QED BY <1>4, <1>5, <1>6

(* One element put in: those behind it move back. *)
LEMMA InsertAtFacts ==
  ASSUME NEW q, IsSeq(q), NEW i \in 1..(Len(q) + 1), NEW x
  PROVE  /\ IsSeq(InsertAt(q, i, x)) /\ Len(InsertAt(q, i, x)) = Len(q) + 1
         /\ \A j \in 1..(Len(q) + 1) :
              InsertAt(q, i, x)[j] = IF j < i THEN q[j] ELSE IF j = i THEN x ELSE q[j - 1]
<1> DEFINE a == SubSeq(q, 1, i - 1)
           c == <<x>>
           b == SubSeq(q, i, Len(q))
<1>1. Len(q) \in Nat /\ i \in 1..(Len(q) + 1)
  BY SeqFacts
<1>2. IsSeq(a) /\ Len(a) = i - 1 /\ \A j \in 1..(i - 1) : a[j] = q[j]
  <2>1. IsSeq(a) /\ Len(a) = i - 1 /\ \A j \in 1..(i - 1) : a[j] = q[1 + j - 1]
    BY <1>1, SubSeqFacts
  <2> QED BY <2>1
<1>3. IsSeq(b) /\ Len(b) = Len(q) + 1 - i /\ \A j \in 1..(Len(q) + 1 - i) : b[j] = q[i + j - 1]
  <2>1. /\ IsSeq(b) /\ Len(b) = IF i <= Len(q) THEN Len(q) - i + 1 ELSE 0
        /\ \A j \in 1..(Len(q) - i + 1) : b[j] = q[i + j - 1]
    BY <1>1, SubSeqFacts
  <2>2. Len(q) - i + 1 = Len(q) + 1 - i
    BY <1>1
  <2> QED BY <1>1, <2>1, <2>2
<1>4. IsSeq(c) /\ Len(c) = 1 /\ c[1] = x
  <2>1. c \in Seq({x}) /\ Len(c) = 1 /\ c[1] = x
    OBVIOUS
  <2> QED BY <2>1 DEF IsSeq
<1>5. InsertAt(q, i, x) = (a \o c) \o b
  BY DEF InsertAt
<1> HIDE DEF a, b, c
<1> DEFINE d == a \o c
<1>6. IsSeq(d) /\ Len(d) = i /\ (\A j \in 1..(i - 1) : d[j] = q[j]) /\ d[i] = x
  <2>1. IsSeq(d) /\ Len(d) = Len(a) + Len(c) /\ (\A j \in 1..Len(a) : d[j] = a[j])
        /\ \A j \in 1..Len(c) : d[Len(a) + j] = c[j]
    <3>1. /\ IsSeq(a \o c) /\ Len(a \o c) = Len(a) + Len(c)
          /\ \A j \in 1..Len(a) : (a \o c)[j] = a[j]
          /\ \A j \in 1..Len(c) : (a \o c)[Len(a) + j] = c[j]
      <4>1. IsSeq(a) /\ IsSeq(c)
        BY <1>2, <1>4
      <4> HIDE DEF d
      <4> QED BY <4>1, ConcatFacts
    <3> QED BY <3>1
  <2>2. d[Len(a) + 1] = c[1]
    BY <2>1, <1>4
  <2> HIDE DEF d
  <2> QED BY <1>1, <1>2, <1>4, <2>1, <2>2
<1> HIDE DEF d
<1>7. /\ IsSeq(d \o b) /\ Len(d \o b) = Len(d) + Len(b)
      /\ \A j \in 1..Len(d) : (d \o b)[j] = d[j]
      /\ \A j \in (Len(d) + 1)..(Len(d) + Len(b)) : (d \o b)[j] = b[j - Len(d)]
  <2>1. IsSeq(d) /\ IsSeq(b)
    BY <1>6, <1>3
  <2> QED BY <2>1, ConcatFacts
<1>8. ASSUME NEW j \in 1..(Len(q) + 1)
      PROVE  (d \o b)[j] = IF j < i THEN q[j] ELSE IF j = i THEN x ELSE q[j - 1]
  <2>1. CASE j <= i
    BY SMTT(30), <2>1, <1>1, <1>6, <1>7
  <2>2. CASE j > i
    <3>1. j \in (Len(d) + 1)..(Len(d) + Len(b)) /\ j - i \in 1..(Len(q) + 1 - i)
          /\ i + (j - i) - 1 = j - 1
      BY <2>2, <1>1, <1>3, <1>6
    <3>2. (d \o b)[j] = b[j - i] /\ b[j - i] = q[i + (j - i) - 1]
      BY <3>1, <1>3, <1>6, <1>7
    <3>3. ~ (j < i) /\ j # i /\ (d \o b)[j] = q[j - 1]
      BY SMTT(30), <2>2, <3>1, <3>2, <1>1
    <3> QED BY <3>3
  <2>3. j <= i \/ j > i
    BY <1>1
  <2> QED BY <2>1, <2>2, <2>3
<1>9. IsSeq(d \o b) /\ Len(d \o b) = Len(q) + 1
  BY <1>1, <1>3, <1>6, <1>7
<1>10. InsertAt(q, i, x) = d \o b
  BY <1>5 DEF d
<1> QED BY <1>8, <1>9, <1>10

(***************************************************************************)
(* The record.                                                             *)
(***************************************************************************)
Fields ==
  {"state", "zapped", "dead", "shutdown", "err", "snd_una", "snd_nxt", "snd_wnd",
   "snd_wl1", "snd_wl2", "max_window", "write_seq", "wq", "send_head",
   "retrans_head", "rexmt_done", "packets_out", "retrans_out", "fackets_out",
   "retransmits", "high_seq", "dup_acks", "snd_cwnd", "snd_cwnd_cnt",
   "snd_ssthresh", "pending", "probes_out", "nonagle", "rcv_nxt", "rcv_wup",
   "rcv_wnd", "copied_seq", "fin_seq", "syn_seq", "delayed_acks", "quick",
   "ato_set", "pred_flags", "rq", "ofo", "sacks", "in_hand", "timers", "msl",
   "tw", "out"}
Record(s) == Fields \subseteq DOMAIN s

(* A TIME-WAIT bucket, if there is one. *)
BucketOK(w) == w = <<>> \/ (w[1].rcv_nxt \in Int /\ w[1].snd_nxt \in Int)
BucketAcks(w, n) == w # <<>> => w[1].rcv_nxt <= n /\ 1 <= n

(* What output never changes. *)
SameLife(s, t) ==
  /\ t.state = s.state /\ t.zapped = s.zapped /\ t.dead = s.dead /\ t.snd_una = s.snd_una
SameQueue(s, t) ==
  /\ t.wq = s.wq /\ t.send_head = s.send_head /\ t.retrans_head = s.retrans_head
  /\ t.snd_una = s.snd_una /\ t.snd_nxt = s.snd_nxt /\ t.snd_wnd = s.snd_wnd
  /\ t.max_window = s.max_window /\ t.write_seq = s.write_seq
  /\ t.packets_out = s.packets_out /\ t.fackets_out = s.fackets_out
  /\ t.high_seq = s.high_seq
SameQueues(s, t) ==
  /\ t.rcv_nxt = s.rcv_nxt /\ t.rq = s.rq /\ t.ofo = s.ofo /\ t.sacks = s.sacks
  /\ t.in_hand = s.in_hand /\ t.copied_seq = s.copied_seq
SameWindow(s, t) ==
  /\ t.rcv_wup = s.rcv_wup /\ t.rcv_wnd = s.rcv_wnd
  /\ t.tw = s.tw \/ (BucketOK(t.tw) /\ BucketAcks(t.tw, t.rcv_nxt))
  /\ t.delayed_acks = s.delayed_acks \/ t.delayed_acks = 0

(***************************************************************************)
(* The receiving half.                                                     *)
(***************************************************************************)
(* A buffer of the receive queues. *)
BufferOK(b) == IsSeq(b.data) /\ b.end \in Int
BuffersOK(q) == IsSeq(q) /\ \A i \in 1..Len(q) : BufferOK(q[i])

(* The bytes of a stream from number n on: byte n has the value n. *)
InOrder(d, n) == \A i \in 1..Len(d) : d[i] = n + i - 1

(* What a step of one end knows of both: whether it is the end that        *)
(* connects, and is past SYN_SENT; the number after the last byte its user *)
(* has written, and whether a FIN has that number; what the other end has  *)
(* received; and the same two of the other end's stream.                   *)
ViewOK(y) == y.last \in Nat \ {0} /\ y.seen \in Nat /\ y.theirs \in Nat \ {0}

(* A segment.  Only the end that connects sends one with a SYN from its    *)
(* queue.  What it carries is where it belongs in the stream, a FIN is at  *)
(* the end, unless the other end has received all before it.               *)
SegmentTypes(g) ==
  /\ IsSeq(g.data) /\ g.seq \in Int /\ g.ack_seq \in Int /\ g.window \in Nat
  /\ IsSeq(g.sacks)
Carries(g, y) ==
  /\ g.syn => y.calls /\ g.seq = 0 /\ g.data = <<>> /\ ~g.fin
  /\ g.syn \/ g.ack \/ g.rst
  /\ g.ack => y.up \/ g.rst
  /\ InOrder(g.data, g.seq) /\ (g.data # <<>> => 1 <= g.seq /\ g.seq + Len(g.data) <= y.last)
  /\ g.fin => /\ y.fin /\ 1 <= g.seq
              /\ \/ g.seq + Len(g.data) = y.last
                 \/ g.seq + Len(g.data) < y.last /\ y.last <= y.seen
SegmentOK(g, y) == SegmentTypes(g) /\ Carries(g, y)
SegmentsOK(q, y) == IsSeq(q) /\ \A i \in 1..Len(q) : SegmentOK(q[i], y)

(* It acknowledges no more than was received. *)
Acks(g, n) == g.ack /\ ~g.rst => g.ack_seq <= 1 \/ g.ack_seq <= n
AllAck(q, n) == \A i \in 1..Len(q) : Acks(q[i], n)

ReceiverOK(s) ==
  /\ s.rcv_nxt \in Int /\ s.rcv_wup \in Int /\ s.rcv_wnd \in Nat
  /\ BuffersOK(s.rq) /\ BuffersOK(s.ofo) /\ IsSeq(s.sacks) /\ s.in_hand \in Int
  /\ BucketOK(s.tw)
  /\ s.state = "SYN_SENT" => s.rcv_nxt = 0 /\ s.rcv_wup = 0

(* A buffer of the receive queues is a piece of the other end's stream.    *)
Piece(b, y) ==
  /\ b.seq \in Int /\ b.end = b.seq + Len(b.data) + Flag(b.fin) /\ ~b.syn
  /\ InOrder(b.data, b.seq) /\ 1 <= b.seq /\ b.seq + Len(b.data) <= y.theirs
  /\ b.fin => y.ended /\ b.end = y.theirs + 1
Pieces(q, y) == \A i \in 1..Len(q) : Piece(q[i], y)

(* How far the receiving half has come. *)
Come(s, y) ==
  /\ ViewOK(y) /\ Pieces(s.rq, y) /\ Pieces(s.ofo, y)
  /\ AllAck(s.out, s.rcv_nxt) /\ BucketAcks(s.tw, s.rcv_nxt)
  /\ s.rcv_nxt <= y.theirs + Flag(y.ended)
  /\ s.state = "SYN_SENT" => s.delayed_acks = 0
  /\ s.state \in {"SYN_SENT", "SYN_RECV"} => s.rq = <<>> /\ s.ofo = <<>>
  /\ s.state # "SYN_SENT" => y.up
  /\ s.state \notin {"SYN_SENT", "CLOSE", "GONE"} => s.rcv_nxt >= 1

Open(s, y) == Record(s) /\ ReceiverOK(s) /\ SegmentsOK(s.out, y) /\ Come(s, y)

(* What has not been read is in line: it starts where reading goes on,     *)
(* leaves nothing out, and ends where the stream does so far.              *)
InLine(s) ==
  /\ s.copied_seq \in Int
  /\ s.rq = <<>> => s.copied_seq = s.rcv_nxt
  /\ s.rq # <<>> => /\ s.rq[1].seq <= s.copied_seq /\ s.copied_seq < s.rcv_nxt
                    /\ s.rq[Len(s.rq)].end = s.rcv_nxt
  /\ \A i \in 1..Len(s.rq) :
       i + 1 <= Len(s.rq) => /\ s.rq[i + 1].seq <= s.rq[i].end /\ s.rq[i].end < s.rcv_nxt
                             /\ ~s.rq[i].fin

(* The right edge of the window does not move back. *)
Edge(s, t) == t.rcv_wup + t.rcv_wnd >= s.rcv_wup + s.rcv_wnd

(* What output does to the receiving half. *)
Outputs(s, t, y) == Open(t, y) /\ SameLife(s, t) /\ SameQueues(s, t) /\ Edge(s, t)

(* Two steps of output are one. *)
LEMMA OutputsTrans ==
  ASSUME NEW r, NEW s, NEW t, NEW y, Open(r, y), Outputs(r, s, y), Outputs(s, t, y)
  PROVE  Outputs(r, t, y)
<1>1. Edge(r, t)
  BY DEF Outputs, Open, ReceiverOK, Edge
<1> QED BY <1>1 DEF Outputs, SameLife, SameQueues

(* No step is one. *)
LEMMA OutputsRefl ==
  ASSUME NEW s, NEW y, Open(s, y)
  PROVE  Outputs(s, s, y)
<1>1. Edge(s, s)
  BY DEF Open, ReceiverOK, Edge
<1> QED BY <1>1 DEF Outputs, SameLife, SameQueues

(* A step that leaves the receiving half alone. *)
LEMMA OutputsSame ==
  ASSUME NEW s, NEW t, NEW y, Open(s, y), Record(t), SameLife(s, t), SameQueues(s, t),
         SameWindow(s, t), SegmentsOK(t.out, y), AllAck(t.out, t.rcv_nxt)
  PROVE  Outputs(s, t, y)
<1>1. Edge(s, t)
  BY DEF Open, ReceiverOK, Edge, SameWindow
<1>2. ReceiverOK(t)
  BY DEF Open, ReceiverOK, SameLife, SameQueues, SameWindow
<1>3. Come(t, y)
  BY DEF Open, Come, SameLife, SameQueues, SameWindow
<1> QED BY <1>1, <1>2, <1>3 DEF Outputs, Open

(* A step that leaves the receiving half alone and sends nothing. *)
LEMMA OutputsQuiet ==
  ASSUME NEW s, NEW t, NEW y, Open(s, y), Record(t), SameLife(s, t), SameQueues(s, t),
         SameWindow(s, t), t.out = s.out
  PROVE  Outputs(s, t, y)
<1>1. SegmentsOK(t.out, y) /\ AllAck(t.out, t.rcv_nxt)
  BY DEF Open, Come, SameQueues
<1> QED BY <1>1, OutputsSame

(***************************************************************************)
(* The window.                                                             *)
(***************************************************************************)
(* Two queues of buffers, one behind the other. *)
LEMMA BuffersConcat ==
  ASSUME NEW a, NEW b, BuffersOK(a), BuffersOK(b)
  PROVE  BuffersOK(a \o b)
<1>1. IsSeq(a) /\ IsSeq(b)
  BY DEF BuffersOK
<1>2. Len(a) \in Nat /\ Len(b) \in Nat
  BY <1>1, SeqFacts
<1>3. /\ IsSeq(a \o b) /\ Len(a \o b) = Len(a) + Len(b)
      /\ \A i \in 1..Len(a) : (a \o b)[i] = a[i]
      /\ \A i \in (Len(a) + 1)..(Len(a) + Len(b)) : (a \o b)[i] = b[i - Len(a)]
  BY <1>1, ConcatFacts
<1>4. ASSUME NEW i \in 1..Len(a \o b)
      PROVE  BufferOK((a \o b)[i])
  <2>1. CASE i \in 1..Len(a)
    BY <2>1, <1>3 DEF BuffersOK
  <2>2. CASE i \notin 1..Len(a)
    <3>1. i \in (Len(a) + 1)..(Len(a) + Len(b)) /\ i - Len(a) \in 1..Len(b)
      BY <2>2, <1>2, <1>3
    <3> QED BY <3>1, <1>3 DEF BuffersOK
  <2> QED BY <2>1, <2>2
<1> QED BY <1>3, <1>4 DEF BuffersOK

AddTruesize(q, i, n) == n + Truesize(q[i])
IsInteger(p, i, n) == n \in Int
Mem == INSTANCE Iteration WITH Step <- AddTruesize, Rel <- IsInteger

(* rmem_alloc is a number: the sum over the queues, by induction over the  *)
(* loop.                                                                   *)
LEMMA MemoryType ==
  ASSUME NEW s, ReceiverOK(s)
  PROVE  rmem_alloc(s) \in Int
<1> DEFINE q == s.rq \o s.ofo
<1>1. BuffersOK(q)
  BY BuffersConcat DEF ReceiverOK
<1>2. rmem_alloc(s) = Mem!Result(q, s.in_hand, Len(q))
  BY DEF Mem!Result, rmem_alloc, ForEach, AddTruesize
<1> HIDE DEF q
<1>3. Len(q) \in Nat
  BY <1>1, SeqFacts DEF BuffersOK
<1>4. \A i \in 1..Len(q) : \A n : IsInteger(0, i - 1, n) => IsInteger(0, i, AddTruesize(q, i, n))
  <2>1. ASSUME NEW i \in 1..Len(q) PROVE Len(q[i].data) \in Nat
    BY <1>1, SeqFacts DEF BuffersOK, BufferOK
  <2> QED BY <2>1, AtcpConstants DEF IsInteger, AddTruesize, Truesize
<1>5. IsInteger(0, 0, s.in_hand)
  BY DEF IsInteger, ReceiverOK
<1>6. IsInteger(0, Len(q), Mem!Result(q, s.in_hand, Len(q)))
  BY <1>3, <1>4, <1>5, Mem!AfterTurns
<1> QED BY <1>2, <1>6 DEF IsInteger

(* Rounding down to a multiple gives a natural number. *)
LEMMA MultipleType ==
  ASSUME NEW n \in Nat, NEW m \in Nat \ {0}
  PROVE  (n \div m) * m \in Nat
<1>1. n \div m \in Nat
  OBVIOUS
<1> DEFINE k == n \div m
<1> HIDE DEF k
<1>2. \A j \in Nat : j * m \in Nat
  OBVIOUS
<1> QED BY <1>1, <1>2 DEF k

(* __tcp_select_window gives a number. *)
LEMMA RawWindowType ==
  ASSUME NEW s, ReceiverOK(s)
  PROVE  RawWindow(s) \in Int
<1>1. FreeSpace(s) \in Int
  BY MemoryType, AtcpConstants DEF FreeSpace
<1> DEFINE free == FreeSpace(s)
<1> HIDE DEF free
<1>2. free \div Mss \in Int
  BY <1>1, AtcpConstants DEF free
<1>3. \A j \in Int : j * Mss \in Int
  BY AtcpConstants
<1>4. (free \div Mss) * Mss \in Int
  BY <1>2, <1>3
<1>5. RawWindow(s) \in {0, (free \div Mss) * Mss, s.rcv_wnd}
  BY DEF RawWindow, WindowFor, free
<1> QED BY <1>4, <1>5 DEF ReceiverOK

(* atcp_select_initial_window gives a natural number. *)
LEMMA InitialWindowType == atcp_select_initial_window \in Nat
<1>1. RcvBuf \div 2 \in Nat /\ Mss \in Nat \ {0}
  BY AtcpConstants
<1>2. ((RcvBuf \div 2) \div Mss) * Mss \in Nat
  BY <1>1, MultipleType
<1> QED BY <1>1, <1>2 DEF atcp_select_initial_window

(* The window that is chosen does not shrink, and neither does the one in  *)
(* the segment.                                                            *)
LEMMA WindowMonotone ==
  ASSUME NEW s, Record(s), ReceiverOK(s)
  PROVE  LET t == atcp_select_window(s)
         IN /\ Record(t) /\ SameLife(s, t) /\ SameQueue(s, t) /\ SameQueues(s, t)
            /\ t.out = s.out /\ t.timers = s.timers /\ ReceiverOK(t) /\ Edge(s, t)
            /\ t.tw = s.tw /\ t.delayed_acks = s.delayed_acks
            /\ OfferedWindow(s) \in Nat
<1> DEFINE t == atcp_select_window(s)
           raw == RawWindow(s)
           old == atcp_receive_window(s)
<1>1. raw \in Int
  BY RawWindowType
<1>2. old \in Nat /\ old >= s.rcv_wup + s.rcv_wnd - s.rcv_nxt
  BY DEF ReceiverOK, atcp_receive_window, Larger
<1>3. /\ Record(t) /\ SameLife(s, t) /\ SameQueue(s, t) /\ SameQueues(s, t)
      /\ t.out = s.out /\ t.timers = s.timers
  BY DEF atcp_select_window, Predict, Record, Fields, SameLife, SameQueue, SameQueues
<1>9. t.tw = s.tw /\ t.delayed_acks = s.delayed_acks
  BY DEF atcp_select_window, Predict, Record, Fields
<1>4. \/ t.rcv_wup = s.rcv_wup /\ t.rcv_wnd = s.rcv_wnd
      \/ t.rcv_wup = s.rcv_nxt /\ t.rcv_wnd = raw /\ ~ (raw < old)
  BY DEF atcp_select_window, Predict, Record, Fields
<1>5. OfferedWindow(s) = Larger(raw, old)
  BY DEF OfferedWindow
<1> HIDE DEF t, raw, old
<1>6. OfferedWindow(s) \in Nat
  BY <1>1, <1>2, <1>5 DEF Larger
<1>7. t.rcv_wup \in Int /\ t.rcv_wnd \in Nat /\ Edge(s, t)
  BY <1>1, <1>2, <1>4 DEF Edge, ReceiverOK
<1>8. ReceiverOK(t)
  BY <1>3, <1>4, <1>7, <1>9 DEF ReceiverOK, SameLife, SameQueues
<1> QED BY <1>3, <1>6, <1>7, <1>8, <1>9 DEF t

(***************************************************************************)
(* A segment goes out.                                                     *)
(***************************************************************************)
(* One segment more to send. *)
LEMMA SegmentsAppend ==
  ASSUME NEW q, NEW y, SegmentsOK(q, y), NEW g, SegmentOK(g, y)
  PROVE  SegmentsOK(Append(q, g), y)
<1>1. IsSeq(q) /\ Len(q) \in Nat
  BY SeqFacts DEF SegmentsOK
<1>2. /\ IsSeq(Append(q, g)) /\ Len(Append(q, g)) = Len(q) + 1
      /\ \A i \in 1..Len(q) : Append(q, g)[i] = q[i]
      /\ Append(q, g)[Len(q) + 1] = g
  BY <1>1, AppendFacts
<1>3. ASSUME NEW i \in 1..(Len(q) + 1) PROVE SegmentOK(Append(q, g)[i], y)
  <2>1. i \in 1..Len(q) \/ i = Len(q) + 1
    BY <1>1
  <2> QED BY <2>1, <1>2 DEF SegmentsOK
<1> QED BY <1>2, <1>3 DEF SegmentsOK

(* What it acknowledges. *)
LEMMA AllAckAppend ==
  ASSUME NEW q, IsSeq(q), NEW n, AllAck(q, n), NEW g, Acks(g, n)
  PROVE  AllAck(Append(q, g), n)
<1>1. Len(q) \in Nat
  BY SeqFacts
<1>2. /\ Len(Append(q, g)) = Len(q) + 1
      /\ \A i \in 1..Len(q) : Append(q, g)[i] = q[i]
      /\ Append(q, g)[Len(q) + 1] = g
  BY AppendFacts
<1>3. ASSUME NEW i \in 1..(Len(q) + 1) PROVE i \in 1..Len(q) \/ i = Len(q) + 1
  BY <1>1
<1> QED BY <1>2, <1>3 DEF AllAck

(***************************************************************************)
(* The write queue.                                                        *)
(***************************************************************************)
SkbFields == {"seq", "data", "cap", "syn", "fin", "ack", "end", "retrans", "sacked"}
SkbTypes(b) ==
  /\ SkbFields \subseteq DOMAIN b
  /\ b.seq \in Int /\ b.end \in Int /\ b.cap \in Int /\ IsSeq(b.data)
  /\ b.seq < b.end /\ b.seq + Len(b.data) <= b.end
InStream(b, u, y) ==
  /\ y.last \in Nat /\ b.seq >= 0
  /\ b.syn => y.calls /\ b.seq = 0 /\ b.end = 1 /\ b.data = <<>> /\ ~b.fin
  /\ ~b.syn => b.seq >= 1 /\ b.ack
  /\ b.ack => y.up
  /\ ~b.syn /\ ~b.fin => b.end = b.seq + Len(b.data)
  /\ InOrder(b.data, b.seq) /\ b.seq + Len(b.data) <= y.last
  /\ b.fin => /\ y.fin /\ b.end = y.last + 1
              /\ b.seq + Len(b.data) = y.last \/ y.last <= u
SkbOK(b, u, y) == SkbTypes(b) /\ InStream(b, u, y)

(* A buffer and the next; a gap is of acknowledged bytes, before a FIN     *)
(* that is alone.                                                          *)
Link(b, c, u) == b.end = c.seq \/ (b.end < c.seq /\ c.seq <= u /\ c.data = <<>>)
ChainOK(q, u, y) ==
  /\ IsSeq(q) /\ \A i \in 1..Len(q) : SkbOK(q[i], u, y)
  /\ \A i \in 1..(Len(q) - 1) : Link(q[i], q[i + 1], u)

(* What a write queue in order gives about each of its buffers and about   *)
(* neighbours.                                                             *)
LEMMA ChainFacts ==
  ASSUME NEW q, NEW u, NEW y, ChainOK(q, u, y)
  PROVE  /\ IsSeq(q) /\ Len(q) \in Nat /\ DOMAIN q = 1..Len(q) /\ (q = <<>> <=> Len(q) = 0)
         /\ \A i \in 1..Len(q) : /\ SkbOK(q[i], u, y) /\ q[i].seq \in Int /\ q[i].end \in Int
                                 /\ q[i].seq < q[i].end /\ Len(q[i].data) \in Nat
                                 /\ q[i].seq + Len(q[i].data) <= q[i].end
         /\ \A i \in 1..Len(q) : i + 1 <= Len(q) => Link(q[i], q[i + 1], u)
<1>1. IsSeq(q) /\ Len(q) \in Nat /\ DOMAIN q = 1..Len(q) /\ (q = <<>> <=> Len(q) = 0)
  BY SeqFacts DEF ChainOK
<1>2. ASSUME NEW i \in 1..Len(q)
      PROVE  /\ SkbOK(q[i], u, y) /\ q[i].seq \in Int /\ q[i].end \in Int
             /\ q[i].seq < q[i].end /\ Len(q[i].data) \in Nat
             /\ q[i].seq + Len(q[i].data) <= q[i].end
  <2>1. SkbOK(q[i], u, y)
    BY DEF ChainOK
  <2> QED BY <2>1, SeqFacts DEF SkbOK, SkbTypes
<1>3. ASSUME NEW i \in 1..Len(q), i + 1 <= Len(q) PROVE Link(q[i], q[i + 1], u)
  <2>1. i \in 1..(Len(q) - 1)
    BY <1>1, <1>3
  <2> QED BY <2>1 DEF ChainOK
<1> QED BY <1>1, <1>2, <1>3

(* To show that a sequence is a chain. *)
LEMMA ChainIntro ==
  ASSUME NEW q, NEW u, NEW y, IsSeq(q),
         \A i \in 1..Len(q) : SkbOK(q[i], u, y),
         \A i \in 1..Len(q) : i + 1 <= Len(q) => Link(q[i], q[i + 1], u)
  PROVE  ChainOK(q, u, y)
<1>1. Len(q) \in Nat
  BY SeqFacts
<1>2. ASSUME NEW i \in 1..(Len(q) - 1) PROVE Link(q[i], q[i + 1], u)
  <2>1. i \in 1..Len(q) /\ i + 1 <= Len(q)
    BY <1>1
  <2> QED BY <2>1
<1> QED BY <1>2 DEF ChainOK

(* Along the queue the sequence numbers grow. *)
LinkTurn(p, i, x) == x
LinkRel(p, i, x) == i >= 1 /\ p.first + i <= Len(p.q) => p.q[p.first].end <= p.q[p.first + i].seq
Links == INSTANCE Iteration WITH Step <- LinkTurn, Rel <- LinkRel

(* In a write queue in order an earlier buffer ends where a later one      *)
(* begins, or before: by induction over the distance of the two.           *)
LEMMA ChainOrder ==
  ASSUME NEW q, NEW u, NEW y, ChainOK(q, u, y), NEW i \in 1..Len(q), NEW j \in 1..Len(q), i < j
  PROVE  q[i].end <= q[j].seq
<1> DEFINE p == [q |-> q, first |-> i]
<1>1. p.q = q /\ p.first = i
  OBVIOUS
<1> HIDE DEF p
<1>2. Len(q) \in Nat /\ i \in Nat /\ j \in Nat /\ j - i \in Nat
  BY ChainFacts
<1>3. LinkRel(p, 0, 0)
  BY DEF LinkRel
<1>4. ASSUME NEW k \in 1..(j - i), NEW x, LinkRel(p, k - 1, x)
      PROVE  LinkRel(p, k, LinkTurn(p, k, x))
  <2>1. i + k \in 1..Len(q) /\ i + (k - 1) \in 1..Len(q) /\ (i + (k - 1)) + 1 = i + k
    BY <1>2
  <2>0. Link(q[i + (k - 1)], q[i + k], u) /\ q[i + (k - 1)].end \in Int /\ q[i + k].seq \in Int
    <3>1. /\ Link(q[i + (k - 1)], q[(i + (k - 1)) + 1], u) /\ q[i + (k - 1)].end \in Int
          /\ q[(i + (k - 1)) + 1].seq \in Int
      BY <2>1, ChainFacts
    <3> QED BY <3>1, <2>1
  <2>2. q[i + (k - 1)].end <= q[i + k].seq
    BY <2>0 DEF Link
  <2>3. q[i].end \in Int /\ q[i + k].seq \in Int /\ q[i + (k - 1)].seq \in Int /\ q[i + (k - 1)].end \in Int
        /\ q[i + (k - 1)].seq < q[i + (k - 1)].end
    BY <2>1, ChainFacts
  <2>4. CASE k = 1
    BY <2>2, <2>3, <2>4, <1>1 DEF LinkRel
  <2>5. CASE k # 1
    <3>1. q[i].end <= q[i + (k - 1)].seq
      BY <2>1, <2>5, <1>1, <1>2, <1>4 DEF LinkRel
    <3> QED BY <3>1, <2>2, <2>3, <1>1 DEF LinkRel
  <2> QED BY <2>4, <2>5
<1>5. LinkRel(p, j - i, Links!Result(p, 0, j - i))
  <2>1. \A k \in 1..(j - i) : \A x : LinkRel(p, k - 1, x) => LinkRel(p, k, LinkTurn(p, k, x))
    BY <1>4
  <2> QED BY <1>2, <1>3, <2>1, Links!AfterTurns
<1>6. j - i >= 1 /\ i + (j - i) = j
  BY <1>2
<1> QED BY <1>1, <1>2, <1>5, <1>6 DEF LinkRel

(* A FIN is at the end of the queue, a SYN at its beginning, and where     *)
(* there is a gap the buffer behind it is a FIN.                           *)
LEMMA ChainEnds ==
  ASSUME NEW q, NEW u, NEW y, ChainOK(q, u, y), NEW i \in 1..Len(q)
  PROVE  /\ i + 1 <= Len(q) => ~q[i].fin
         /\ i > 1 => ~q[i].syn
         /\ i > 1 /\ q[i].data = <<>> => q[i].fin
<1>1. Len(q) \in Nat /\ SkbOK(q[i], u, y)
  BY ChainFacts
<1>2. ASSUME i + 1 <= Len(q) PROVE ~q[i].fin
  <2> DEFINE b == q[i]
             c == q[i + 1]
  <2>1. i + 1 \in 1..Len(q)
    BY <1>1, <1>2
  <2>2. /\ Link(b, c, u) /\ SkbOK(b, u, y) /\ SkbOK(c, u, y) /\ Len(c.data) \in Nat
        /\ b.end \in Int /\ c.seq \in Int
    BY <1>2, <2>1, ChainFacts
  <2> HIDE DEF b, c
  <2>3. b.end <= c.seq
    BY <2>2 DEF Link
  <2>4. c.seq + Len(c.data) <= y.last /\ y.last \in Nat /\ (b.fin => b.end = y.last + 1)
    BY <2>2 DEF SkbOK, InStream
  <2>5. ~b.fin
    BY <2>2, <2>3, <2>4
  <2> QED BY <2>5 DEF b
<1>3. ASSUME i > 1 PROVE ~q[i].syn
  <2>1. i - 1 \in 1..Len(q) /\ (i - 1) + 1 = i
    BY <1>1, <1>3
  <2>2. Link(q[i - 1], q[i], u) /\ SkbOK(q[i - 1], u, y)
    <3>1. Link(q[i - 1], q[(i - 1) + 1], u) /\ SkbOK(q[i - 1], u, y)
      BY <2>1, ChainFacts
    <3> QED BY <3>1, <2>1
  <2> DEFINE b == q[i - 1]
             c == q[i]
  <2>3. /\ Link(b, c, u) /\ b.seq \in Int /\ b.end \in Int /\ c.seq \in Int
        /\ b.seq < b.end /\ b.seq >= 0 /\ (c.syn => c.seq = 0)
    BY <2>2, <1>1 DEF SkbOK, SkbTypes, InStream
  <2> HIDE DEF b, c
  <2>4. ~c.syn
    BY <2>3 DEF Link
  <2> QED BY <2>4 DEF c
<1>4. ASSUME i > 1, q[i].data = <<>> PROVE q[i].fin
  <2>1. Len(q[i].data) = 0
    BY <1>4, EmptyFacts
  <2> QED BY <2>1, <1>1, <1>3, <1>4 DEF SkbOK, SkbTypes, InStream
<1> QED BY <1>2, <1>3, <1>4

(* New buffers that begin and end where the old ones do. *)
LEMMA ChainSame ==
  ASSUME NEW q, NEW u, NEW y, ChainOK(q, u, y), NEW r, IsSeq(r), Len(r) = Len(q),
         \A i \in 1..Len(q) : /\ SkbOK(r[i], u, y) /\ r[i].seq = q[i].seq /\ r[i].end = q[i].end
                             /\ r[i].data = q[i].data
  PROVE  ChainOK(r, u, y)
<1>1. ASSUME NEW i \in 1..Len(r), i + 1 <= Len(r) PROVE Link(r[i], r[i + 1], u)
  <2>1. i + 1 \in 1..Len(q) /\ i \in 1..Len(q) /\ Link(q[i], q[i + 1], u)
    BY <1>1, ChainFacts
  <2> QED BY <2>1 DEF Link
<1> QED BY <1>1, ChainIntro

(* A buffer more at the end. *)
LEMMA ChainAppend ==
  ASSUME NEW q, NEW u, NEW y, ChainOK(q, u, y), NEW b, SkbOK(b, u, y),
         q # <<>> => q[Len(q)].end = b.seq
  PROVE  ChainOK(Append(q, b), u, y)
<1> DEFINE r == Append(q, b)
<1>1. Len(q) \in Nat
  BY ChainFacts
<1>2. /\ IsSeq(r) /\ Len(r) = Len(q) + 1 /\ (\A i \in 1..Len(q) : r[i] = q[i])
      /\ r[Len(q) + 1] = b
  BY ChainFacts, AppendFacts
<1> HIDE DEF r
<1>3. ASSUME NEW i \in 1..Len(r) PROVE SkbOK(r[i], u, y)
  <2>1. i \in 1..Len(q) \/ i = Len(q) + 1
    BY <1>1, <1>2
  <2> QED BY <2>1, <1>2, ChainFacts
<1>4. ASSUME NEW i \in 1..Len(r), i + 1 <= Len(r) PROVE Link(r[i], r[i + 1], u)
  <2>1. i \in 1..Len(q) /\ r[i] = q[i]
    BY <1>1, <1>2, <1>4
  <2>2. CASE i = Len(q)
    <3>1. q # <<>> /\ r[i + 1] = b
      BY <2>1, <2>2, <1>2, <1>1, ChainFacts
    <3> QED BY <3>1, <2>1, <2>2 DEF Link
  <2>3. CASE i # Len(q)
    <3>1. i + 1 \in 1..Len(q)
      BY <2>1, <2>3, <1>1
    <3> QED BY <3>1, <2>1, <1>2, ChainFacts
  <2> QED BY <2>2, <2>3
<1> QED BY <1>2, <1>3, <1>4, ChainIntro DEF r

(* The first k buffers are gone. *)
LEMMA ChainDrop ==
  ASSUME NEW q, NEW u, NEW y, ChainOK(q, u, y), NEW k \in 0..Len(q)
  PROVE  LET r == SubSeq(q, k + 1, Len(q))
         IN /\ ChainOK(r, u, y) /\ Len(r) = Len(q) - k
            /\ \A i \in 1..(Len(q) - k) : r[i] = q[k + i]
<1> DEFINE r == SubSeq(q, k + 1, Len(q))
<1>1. Len(q) \in Nat /\ k \in Nat /\ k <= Len(q)
  BY ChainFacts
<1>2. /\ IsSeq(r) /\ Len(r) = IF k + 1 <= Len(q) THEN Len(q) - (k + 1) + 1 ELSE 0
      /\ \A i \in 1..(Len(q) - (k + 1) + 1) : r[i] = q[(k + 1) + i - 1]
  BY <1>1, SubSeqFacts
<1> HIDE DEF r
<1>3. Len(r) = Len(q) - k
  BY <1>1, <1>2
<1>4. ASSUME NEW i \in 1..(Len(q) - k) PROVE r[i] = q[k + i] /\ k + i \in 1..Len(q)
  <2>1. i \in 1..(Len(q) - (k + 1) + 1) /\ (k + 1) + i - 1 = k + i /\ k + i \in 1..Len(q)
    BY <1>1
  <2> QED BY <2>1, <1>2
<1>5. ASSUME NEW i \in 1..Len(r) PROVE SkbOK(r[i], u, y)
  BY <1>3, <1>4, ChainFacts
<1>6. ASSUME NEW i \in 1..Len(r), i + 1 <= Len(r) PROVE Link(r[i], r[i + 1], u)
  <2>1. i \in 1..(Len(q) - k) /\ i + 1 \in 1..(Len(q) - k) /\ k + (i + 1) = (k + i) + 1
    BY <1>1, <1>3, <1>6
  <2>2. r[i] = q[k + i] /\ r[i + 1] = q[(k + i) + 1] /\ k + i \in 1..Len(q) /\ (k + i) + 1 \in 1..Len(q)
    BY <2>1, <1>4
  <2> QED BY <2>2, <1>1, ChainFacts
<1>7. ChainOK(r, u, y)
  BY <1>2, <1>5, <1>6, ChainIntro
<1> QED BY <1>3, <1>4, <1>7 DEF r

(* Another buffer in the place of one: only the first may begin, and only  *)
(* the last may end, elsewhere.                                            *)
LEMMA ChainReplace ==
  ASSUME NEW q, NEW u, NEW y, ChainOK(q, u, y), NEW i \in 1..Len(q), NEW b, SkbOK(b, u, y),
         i > 1 => Link(q[i - 1], b, u), i < Len(q) => b.end = q[i].end
  PROVE  LET r == [q EXCEPT ![i] = b]
         IN /\ ChainOK(r, u, y) /\ Len(r) = Len(q)
            /\ \A j \in 1..Len(q) : r[j] = IF j = i THEN b ELSE q[j]
<1> DEFINE r == [q EXCEPT ![i] = b]
<1>1. Len(q) \in Nat
  BY ChainFacts
<1>2. IsSeq(r) /\ Len(r) = Len(q) /\ \A j \in 1..Len(q) : r[j] = IF j = i THEN b ELSE q[j]
  BY ChainFacts, ExceptFacts
<1> HIDE DEF r
<1>3. ASSUME NEW j \in 1..Len(r) PROVE SkbOK(r[j], u, y)
  BY <1>2, ChainFacts
<1>4. ASSUME NEW j \in 1..Len(r), j + 1 <= Len(r) PROVE Link(r[j], r[j + 1], u)
  <2>1. j \in 1..Len(q) /\ j + 1 \in 1..Len(q) /\ Link(q[j], q[j + 1], u)
    BY <1>1, <1>2, <1>4, ChainFacts
  <2>2. r[j].end = q[j].end
    BY <2>1, <1>1, <1>2
  <2>3. CASE j + 1 = i
    <3>1. r[j] = q[i - 1] /\ r[j + 1] = b /\ i > 1
      BY <2>1, <2>3, <1>1, <1>2
    <3> QED BY <3>1
  <2>4. CASE j + 1 # i
    <3>1. r[j + 1] = q[j + 1]
      BY <2>1, <2>4, <1>1, <1>2
    <3> QED BY <3>1, <2>1, <2>2 DEF Link
  <2> QED BY <2>3, <2>4
<1> QED BY <1>2, <1>3, <1>4, ChainIntro DEF r

(* Two buffers in the place of one. *)
Split(q, i, a, b) == SubSeq(q, 1, i - 1) \o <<a, b>> \o SubSeq(q, i + 1, Len(q))

(* Where the buffers are after one was split in two. *)
LEMMA SplitFacts ==
  ASSUME NEW q, IsSeq(q), NEW i \in 1..Len(q), NEW a, NEW b
  PROVE  LET r == Split(q, i, a, b)
         IN /\ IsSeq(r) /\ Len(r) = Len(q) + 1
            /\ \A j \in 1..(Len(q) + 1) :
                 r[j] = IF j < i THEN q[j] ELSE IF j = i THEN a
                        ELSE IF j = i + 1 THEN b ELSE q[j - 1]
<1> DEFINE h == SubSeq(q, 1, i - 1)
           c == <<a, b>>
           v == SubSeq(q, i + 1, Len(q))
<1>1. Len(q) \in Nat /\ i \in 1..Len(q)
  BY SeqFacts
<1>2. IsSeq(h) /\ Len(h) = i - 1 /\ \A j \in 1..(i - 1) : h[j] = q[j]
  <2>1. IsSeq(h) /\ Len(h) = i - 1 /\ \A j \in 1..(i - 1) : h[j] = q[1 + j - 1]
    BY <1>1, SubSeqFacts
  <2> QED BY <2>1
<1>3. IsSeq(v) /\ Len(v) = Len(q) - i /\ \A j \in 1..(Len(q) - i) : v[j] = q[j + i]
  <2>1. /\ IsSeq(v) /\ Len(v) = IF i + 1 <= Len(q) THEN Len(q) - (i + 1) + 1 ELSE 0
        /\ \A j \in 1..(Len(q) - (i + 1) + 1) : v[j] = q[(i + 1) + j - 1]
    BY <1>1, SubSeqFacts
  <2>2. /\ Len(q) - (i + 1) + 1 = Len(q) - i
        /\ Len(q) - i = IF i + 1 <= Len(q) THEN Len(q) - (i + 1) + 1 ELSE 0
        /\ \A j \in 1..(Len(q) - i) : (i + 1) + j - 1 = j + i
    BY <1>1
  <2> HIDE DEF v
  <2>3. Len(v) = Len(q) - i
    BY <2>1, <2>2
  <2>4. ASSUME NEW j \in 1..(Len(q) - i) PROVE v[j] = q[j + i]
    BY <2>1, <2>2
  <2> QED BY <2>1, <2>3, <2>4
<1>4. IsSeq(c) /\ Len(c) = 2 /\ c[1] = a /\ c[2] = b
  <2>1. c \in Seq({a, b}) /\ Len(c) = 2 /\ c[1] = a /\ c[2] = b
    OBVIOUS
  <2> QED BY <2>1 DEF IsSeq
<1>5. Split(q, i, a, b) = (h \o c) \o v
  BY DEF Split
<1> HIDE DEF h, c, v
<1> DEFINE d == h \o c
<1>6. /\ IsSeq(d) /\ Len(d) = i + 1 /\ (\A j \in 1..(i - 1) : d[j] = q[j])
      /\ d[i] = a /\ d[i + 1] = b
  <2>0. IsSeq(h) /\ IsSeq(c)
    BY <1>2, <1>4
  <2>1. /\ IsSeq(d) /\ Len(d) = Len(h) + Len(c) /\ (\A j \in 1..Len(h) : d[j] = h[j])
        /\ \A j \in 1..Len(c) : d[Len(h) + j] = c[j]
    <3>1. /\ IsSeq(h \o c) /\ Len(h \o c) = Len(h) + Len(c)
          /\ (\A j \in 1..Len(h) : (h \o c)[j] = h[j])
          /\ \A j \in 1..Len(c) : (h \o c)[Len(h) + j] = c[j]
      <4> HIDE DEF d
      <4> QED BY <2>0, ConcatFacts
    <3> QED BY <3>1
  <2> HIDE DEF d
  <2>2. d[Len(h) + 1] = c[1] /\ d[Len(h) + 2] = c[2]
    BY <2>1, <1>4
  <2>3. (i - 1) + 1 = i /\ (i - 1) + 2 = i + 1
    BY <1>1
  <2> QED BY <1>1, <1>2, <1>4, <2>1, <2>2, <2>3
<1> HIDE DEF d
<1>7. /\ IsSeq(d \o v) /\ Len(d \o v) = Len(d) + Len(v)
      /\ \A j \in 1..Len(d) : (d \o v)[j] = d[j]
      /\ \A j \in (Len(d) + 1)..(Len(d) + Len(v)) : (d \o v)[j] = v[j - Len(d)]
  <2>1. IsSeq(d) /\ IsSeq(v)
    BY <1>6, <1>3
  <2> QED BY <2>1, ConcatFacts
<1>8. ASSUME NEW j \in 1..(Len(q) + 1)
      PROVE  (d \o v)[j] = IF j < i THEN q[j] ELSE IF j = i THEN a
                           ELSE IF j = i + 1 THEN b ELSE q[j - 1]
  <2>1. CASE j <= i + 1
    BY <2>1, <1>1, <1>6, <1>7
  <2>2. CASE j > i + 1
    <3>1. j \in (Len(d) + 1)..(Len(d) + Len(v)) /\ j - (i + 1) \in 1..(Len(q) - i)
          /\ (j - (i + 1)) + i = j - 1
      BY <2>2, <1>1, <1>3, <1>6
    <3>2. (d \o v)[j] = v[j - (i + 1)] /\ v[j - (i + 1)] = q[(j - (i + 1)) + i]
      BY <3>1, <1>3, <1>6, <1>7
    <3>3. ~ (j < i) /\ j # i /\ j # i + 1 /\ (d \o v)[j] = q[j - 1]
      BY <2>2, <3>1, <3>2, <1>1
    <3> QED BY <3>3
  <2>3. j <= i + 1 \/ j > i + 1
    BY <1>1
  <2> QED BY <2>1, <2>2, <2>3
<1>9. IsSeq(d \o v) /\ Len(d \o v) = Len(q) + 1
  BY <1>1, <1>3, <1>6, <1>7
<1>10. Split(q, i, a, b) = d \o v
  BY <1>5 DEF d
<1> QED BY <1>8, <1>9, <1>10

(* Splitting a buffer keeps the order. *)
LEMMA ChainSplit ==
  ASSUME NEW q, NEW u, NEW y, ChainOK(q, u, y), NEW i \in 1..Len(q), NEW a, SkbOK(a, u, y), NEW b, SkbOK(b, u, y),
         a.seq = q[i].seq, a.end = b.seq, b.end = q[i].end,
         q[i].data = <<>> => a.data = <<>>
  PROVE  ChainOK(Split(q, i, a, b), u, y)
<1> DEFINE r == Split(q, i, a, b)
<1>1. Len(q) \in Nat
  BY ChainFacts
<1>2. /\ IsSeq(r) /\ Len(r) = Len(q) + 1
      /\ \A j \in 1..(Len(q) + 1) :
           r[j] = IF j < i THEN q[j] ELSE IF j = i THEN a
                  ELSE IF j = i + 1 THEN b ELSE q[j - 1]
  BY ChainFacts, SplitFacts
<1> HIDE DEF r
<1>3. ASSUME NEW j \in 1..Len(r) PROVE SkbOK(r[j], u, y)
  <2>1. CASE j < i \/ j > i + 1
    <3>1. (j < i /\ j \in 1..Len(q)) \/ (j > i + 1 /\ j - 1 \in 1..Len(q))
      BY <2>1, <1>1, <1>2
    <3>2. (r[j] = q[j] /\ j \in 1..Len(q)) \/ (r[j] = q[j - 1] /\ j - 1 \in 1..Len(q))
      <4>1. j \in 1..(Len(q) + 1)
        BY <1>2
      <4>2. (j > i + 1) => ~ (j < i) /\ j # i /\ j # i + 1
        BY <4>1, <1>1
      <4> QED BY <3>1, <4>1, <4>2, <1>2
    <3> QED BY <3>2, ChainFacts
  <2>2. CASE j = i \/ j = i + 1
    BY <2>2, <1>1, <1>2
  <2> QED BY <2>1, <2>2, <1>1
<1>4. ASSUME NEW j \in 1..Len(r), j + 1 <= Len(r) PROVE Link(r[j], r[j + 1], u)
  <2>0. j \in 1..(Len(q) + 1) /\ j + 1 \in 1..(Len(q) + 1)
    BY <1>1, <1>2, <1>4
  <2>1. CASE j + 1 < i
    <3>1. j \in 1..Len(q) /\ j + 1 <= Len(q) /\ r[j] = q[j] /\ r[j + 1] = q[j + 1]
      BY <2>0, <2>1, <1>1, <1>2
    <3> QED BY <3>1, ChainFacts
  <2>2. CASE j + 1 = i
    <3>1. j \in 1..Len(q) /\ j + 1 <= Len(q) /\ r[j] = q[j] /\ r[j + 1] = a
      BY <2>0, <2>2, <1>1, <1>2
    <3>2. Link(q[j], q[j + 1], u)
      BY <3>1, ChainFacts
    <3> QED BY <3>1, <3>2, <2>2 DEF Link
  <2>3. CASE j = i
    <3>1. r[j] = a /\ r[j + 1] = b
      BY <2>0, <2>3, <1>1, <1>2
    <3> QED BY <3>1 DEF Link
  <2>4. CASE j = i + 1
    <3>1. r[j] = b /\ r[j + 1] = q[(j + 1) - 1] /\ (j + 1) - 1 = i + 1
      BY <2>0, <2>4, <1>1, <1>2
    <3>2. i \in 1..Len(q) /\ i + 1 <= Len(q)
      BY <2>0, <2>4, <1>1
    <3>3. Link(q[i], q[i + 1], u)
      BY <3>2, ChainFacts
    <3> QED BY <3>1, <3>3 DEF Link
  <2>5. CASE j > i + 1
    <3>1. r[j] = q[j - 1] /\ r[j + 1] = q[(j + 1) - 1] /\ (j + 1) - 1 = (j - 1) + 1
      BY <2>0, <2>5, <1>1, <1>2
    <3>2. j - 1 \in 1..Len(q) /\ (j - 1) + 1 <= Len(q)
      BY <2>0, <2>5, <1>1
    <3>3. Link(q[j - 1], q[(j - 1) + 1], u)
      BY <3>2, ChainFacts
    <3> QED BY <3>1, <3>3 DEF Link
  <2> QED BY <2>0, <2>1, <2>2, <2>3, <2>4, <2>5, <1>1
<1> QED BY <1>2, <1>3, <1>4, ChainIntro DEF r

(* One buffer in the place of two. *)
Join(q, i, b) == [RemoveAt(q, i + 1) EXCEPT ![i] = b]

(* Joining a buffer with the next one keeps the order. *)
LEMMA ChainJoin ==
  ASSUME NEW q, NEW u, NEW y, ChainOK(q, u, y), NEW i \in 1..Len(q), i + 1 <= Len(q), NEW b, SkbOK(b, u, y),
         b.seq = q[i].seq, b.end = q[i + 1].end
  PROVE  LET r == Join(q, i, b)
         IN /\ ChainOK(r, u, y) /\ Len(r) = Len(q) - 1
            /\ \A j \in 1..(Len(q) - 1) :
                 r[j] = IF j < i THEN q[j] ELSE IF j = i THEN b ELSE q[j + 1]
<1> DEFINE m == RemoveAt(q, i + 1)
           r == Join(q, i, b)
<1>1. Len(q) \in Nat /\ i + 1 \in 1..Len(q)
  BY ChainFacts
<1>2. /\ IsSeq(m) /\ Len(m) = Len(q) - 1
      /\ \A j \in 1..(Len(q) - 1) : m[j] = IF j < i + 1 THEN q[j] ELSE q[j + 1]
  BY <1>1, ChainFacts, RemoveAtFacts
<1>3. r = [m EXCEPT ![i] = b]
  BY DEF Join
<1> HIDE DEF m, r
<1>4. IsSeq(r) /\ Len(r) = Len(m) /\ \A j \in 1..Len(m) : r[j] = IF j = i THEN b ELSE m[j]
  <2>1. IsSeq(m)
    BY <1>2
  <2>2. IsSeq(r) /\ Len(r) = Len(m)
    BY <2>1, <1>3, ExceptFacts
  <2>3. DOMAIN m = 1..Len(m)
    BY <2>1, SeqFacts
  <2>4. \A j \in 1..Len(m) : r[j] = IF j = i THEN b ELSE m[j]
    BY <2>3, <1>3
  <2> QED BY <2>2, <2>4
<1>5. \A j \in 1..(Len(q) - 1) : r[j] = IF j < i THEN q[j] ELSE IF j = i THEN b ELSE q[j + 1]
  <2>1. ASSUME NEW j \in 1..(Len(q) - 1)
        PROVE r[j] = IF j < i THEN q[j] ELSE IF j = i THEN b ELSE q[j + 1]
    <3>1. CASE j < i
      BY <3>1, <1>1, <1>2, <1>4
    <3>2. CASE j = i
      BY <3>2, <1>1, <1>2, <1>4
    <3>3. CASE j > i
      <4>1. ~ (j < i + 1) /\ j # i /\ ~ (j < i)
        BY <3>3, <1>1
      <4>2. r[j] = m[j] /\ m[j] = q[j + 1]
        BY <4>1, <1>2, <1>4
      <4> QED BY <4>1, <4>2
    <3> QED BY <3>1, <3>2, <3>3, <1>1
  <2> QED BY <2>1
<1>6. ASSUME NEW j \in 1..Len(r) PROVE SkbOK(r[j], u, y)
  <2>1. j \in 1..Len(q) /\ j + 1 \in 1..Len(q) /\ j \in 1..(Len(q) - 1)
    BY <1>1, <1>2, <1>4
  <2> QED BY <2>1, <1>5, ChainFacts
<1>7. ASSUME NEW j \in 1..Len(r), j + 1 <= Len(r) PROVE Link(r[j], r[j + 1], u)
  <2>1. /\ j \in 1..(Len(q) - 1) /\ j + 1 \in 1..(Len(q) - 1)
        /\ j \in 1..Len(q) /\ j + 1 \in 1..Len(q) /\ (j + 1) + 1 \in 1..Len(q)
    BY <1>1, <1>2, <1>4, <1>7
  <2>2. Link(q[j], q[j + 1], u) /\ Link(q[j + 1], q[(j + 1) + 1], u)
    BY <2>1, ChainFacts
  <2>3. CASE j + 1 < i
    <3>1. r[j] = q[j] /\ r[j + 1] = q[j + 1]
      BY <2>1, <2>3, <1>1, <1>5
    <3> QED BY <3>1, <2>2 DEF Link
  <2>4. CASE j + 1 = i
    <3>1. r[j] = q[j] /\ r[j + 1] = b
      BY <2>1, <2>4, <1>1, <1>5
    <3>2. q[i].data # <<>>
      <4>1. i > 1 /\ i \in 1..Len(q)
        BY <2>1, <2>4, <1>1
      <4> QED BY <4>1, ChainEnds
    <3> QED BY <3>1, <3>2, <2>2, <2>4 DEF Link
  <2>5. CASE j = i
    <3>1. r[j] = b /\ r[j + 1] = q[(j + 1) + 1]
      BY <2>1, <2>5, <1>1, <1>5
    <3> QED BY <3>1, <2>2, <2>5 DEF Link
  <2>6. CASE j > i
    <3>1. r[j] = q[j + 1] /\ r[j + 1] = q[(j + 1) + 1]
      BY <2>1, <2>6, <1>1, <1>5
    <3> QED BY <3>1, <2>2 DEF Link
  <2> QED BY <2>1, <2>3, <2>4, <2>5, <2>6, <1>1
<1> QED BY <1>2, <1>4, <1>5, <1>6, <1>7, ChainIntro DEF r
=============================================================================
