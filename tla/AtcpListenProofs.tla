--------------------------- MODULE AtcpListenProofs ---------------------------
(***************************************************************************)
(* Proofs about the listener, the death row and the slow timer they share  *)
(* (AtcpListen).                                                           *)
(*                                                                         *)
(* The inductive invariant HostInv has five parts: the types; the backlogs *)
(* against the queue of open requests; the slow timer against the numbers  *)
(* of what needs it; the buckets on the death row, each with a bound on    *)
(* its age that depends on how far ahead of the hand of the clock its slot *)
(* is and on the time since the hand last moved; and the register against  *)
(* the hash tables, with what waits in the listener's back log.            *)
(*                                                                         *)
(* One lemma per operation of the host says that it preserves HostInv,     *)
(* whatever state it starts from; the actions only combine them.           *)
(***************************************************************************)
EXTENDS AtcpListen, FiniteSetTheorems, WellFoundedInduction, TLAPS

(***************************************************************************)
(* The inductive invariant.                                                *)
(***************************************************************************)
Children == {"none", "ESTABLISHED", "CLOSE"}
Request  == [peer : Peers, child : Children, retrans : Nat, timeo : Nat, left : Int]
Segment  == [peer : Peers, kind : {"SYN", "OLDSYN", "ACK", "RST"}]
Rows     == 0..(Slots - 1)

HostFields == {"state", "holder", "back_log", "synq", "syn_backlog", "ack_backlog",
               "conn", "rhash", "row", "slot", "age", "count", "last", "timer", "run", "under"}

SocketTypes(s) == /\ s.state \in {"CLOSE", "LISTEN"} /\ s.holder \in {"none", "accept", "close"}
                  /\ s.back_log \in Seq(Segment)
QueueTypes(s)  == s.synq \in Seq(Request) /\ s.syn_backlog \in Int /\ s.ack_backlog \in Int
TableTypes(s)  == s.conn \in [Peers -> {"none", "ESTABLISHED"}] /\ s.rhash \in Peers \cup {NoOne}
RowTypes(s)    == /\ s.row \in [Rows -> SUBSET Peers] /\ s.slot \in Rows
                  /\ s.age \in [Peers -> Nat \cup {Off}]
TimerTypes(s)  == /\ s.count \in [Timers -> Int] /\ s.last \in [Timers -> Nat]
                  /\ \A t \in Timers : s.last[t] <= Period(t)
                  /\ s.timer \in Nat \cup {Off} /\ s.run \in {"none", "SYNACK", "TWKILL"}
                  /\ s.under \in Nat
HostOK(s) == /\ HostFields \subseteq DOMAIN s /\ SocketTypes(s) /\ QueueTypes(s)
             /\ TableTypes(s) /\ RowTypes(s) /\ TimerTypes(s)
SpentOK(u) == u \in [syn : [Peers -> Nat], fault : Nat, listen : Nat]

(* A listener counts its requests; what does not listen has none. *)
QueueOK(s) ==
  /\ s.state = "CLOSE" => s.synq = <<>>
  /\ s.state = "LISTEN" => s.syn_backlog = Embryonic(s) /\ s.ack_backlog = WithChild(s)

(* The slow timer runs for what it counts, and looks at each kind within a *)
(* period; the open requests it does not count are those whose count fell  *)
(* without cause; and nothing of the back log is left to handle while its  *)
(* handler runs.                                                           *)
TimerOK(s) ==
  /\ s.count["SYNACK"] + s.under >= Embryonic(s)
  /\ s.count["SYNACK"] > 0 => /\ s.timer # Off
                              /\ s.run = "none" => s.timer + s.last["SYNACK"] <= SynackPeriod
  /\ s.count["TWKILL"] # 0 => /\ s.timer # Off
                              /\ s.run = "none" => s.timer + s.last["TWKILL"] <= TwkillPeriod
  /\ s.run = "none" => s.timer # 0
  /\ s.run = "TWKILL" => ~Due(s, "SYNACK")
  /\ s.run # "none" => s.holder # "none" \/ s.back_log = <<>>

(* The rows hold each bucket once, and nothing else; the slow timer counts *)
(* them.  A bucket's age and the time until the hand of the clock has come *)
(* to its row and stayed there for a period differ by less than a period   *)
(* from the length of TIME-WAIT.                                           *)
Waiting(s)      == {p \in Peers : InTimeWait(s, p)}
Ahead(s, i)     == IF i >= s.slot THEN i - s.slot ELSE i - s.slot + Slots
Lifetime(s, p, i) ==
  s.age[p] + Ahead(s, i) * TwkillPeriod + (TwkillPeriod - s.last["TWKILL"])

RowsOK(s) ==
  /\ \A p \in Peers : InTimeWait(s, p) <=> \E i \in Rows : p \in s.row[i]
  /\ \A i, j \in Rows : \A p \in Peers : p \in s.row[i] /\ p \in s.row[j] => i = j
CountOK(s) == IsFiniteSet(Waiting(s)) /\ s.count["TWKILL"] = Cardinality(Waiting(s))
AgesOK(s)  ==
  \A i \in Rows : \A p \in s.row[i] :
    /\ (Slots - 1) * TwkillPeriod < Lifetime(s, p, i)
    /\ Lifetime(s, p, i) <= Slots * TwkillPeriod

(* The register's socket is hashed, and nobody in the back log is in the   *)
(* register; nor has anybody there a hashed socket while it is held back.  *)
RegisterOK(s) ==
  /\ s.rhash # NoOne => Hashed(s, s.rhash)
  /\ \A i \in DOMAIN s.back_log : /\ s.rhash # s.back_log[i].peer
                                  /\ s.holder # "none" => ~Hashed(s, s.back_log[i].peer)

(* No bucket is freed by a step that leads from s to t. *)
NoneEnds(s, t) == \A p \in Peers : InTimeWait(s, p) => InTimeWait(t, p)

HostInv(s) == /\ HostOK(s) /\ QueueOK(s) /\ TimerOK(s) /\ RowsOK(s) /\ CountOK(s)
              /\ AgesOK(s) /\ RegisterOK(s)
IInv == HostInv(h) /\ SpentOK(spent)

(***************************************************************************)
(* Sequences and numbers.                                                  *)
(***************************************************************************)
(* What is left of a sequence when one element is taken out. *)
LEMMA RemoveAtFacts ==
  ASSUME NEW S, NEW q \in Seq(S), NEW i \in DOMAIN q
  PROVE  /\ RemoveAt(q, i) \in Seq(S)
         /\ Len(RemoveAt(q, i)) = Len(q) - 1
         /\ \A j \in 1..(Len(q) - 1) :
              RemoveAt(q, i)[j] = IF j < i THEN q[j] ELSE q[j + 1]
<1> DEFINE a == SubSeq(q, 1, i - 1)
           b == SubSeq(q, i + 1, Len(q))
<1>1. a \in Seq(S) /\ Len(a) = i - 1 /\ \A j \in 1..(i - 1) : a[j] = q[j]
  OBVIOUS
<1>2. b \in Seq(S) /\ Len(b) = Len(q) - i /\ \A j \in 1..(Len(q) - i) : b[j] = q[j + i]
  OBVIOUS
<1>3. RemoveAt(q, i) = a \o b
  BY DEF RemoveAt
<1> HIDE DEF a, b
<1>4. i \in 1..Len(q) /\ Len(q) \in Nat
  OBVIOUS
<1>5. a \o b \in Seq(S) /\ Len(a \o b) = Len(q) - 1
  BY <1>1, <1>2, <1>4
<1>6. \A j \in 1..(Len(q) - 1) : (a \o b)[j] = IF j < i THEN q[j] ELSE q[j + 1]
  <2> TAKE j \in 1..(Len(q) - 1)
  <2>1. (a \o b)[j] = IF j <= Len(a) THEN a[j] ELSE b[j - Len(a)]
    BY <1>1, <1>2, <1>4, SMTT(30)
  <2>2. CASE j < i
    BY <2>1, <2>2, <1>1, <1>4
  <2>3. CASE ~(j < i)
    <3>1. j - (i - 1) \in 1..(Len(q) - i) /\ j - (i - 1) + i = j + 1
      BY <2>3, <1>4
    <3>2. b[j - (i - 1)] = q[j + 1]
      BY <3>1, <1>2
    <3> QED BY <2>1, <2>3, <3>2, <1>1, <1>4
  <2> QED BY <2>2, <2>3
<1> QED BY <1>3, <1>5, <1>6

(* A nonempty set of numbers has its Min. *)
LEMMA MinInSet ==
  ASSUME NEW S, S \subseteq Nat, S # {}
  PROVE  Min(S) \in S /\ \A y \in S : Min(S) <= y
<1>1. \E x \in S : \A y \in S : ~(<<y, x>> \in OpToRel(<, Nat))
  BY WFMin, NatLessThanWellFounded
<1>2. \E x \in S : \A y \in S : x =< y
  <2>1. PICK x \in S : \A y \in S : ~(<<y, x>> \in OpToRel(<, Nat))
    BY <1>1
  <2>2. ASSUME NEW y \in S PROVE x =< y
    <3>1. ~(y < x)
      BY <2>1 DEF OpToRel
    <3> QED BY <3>1
  <2> QED BY <2>2
<1> QED BY <1>2 DEF Min

(* A search finds a place where the test holds, or returns 0. *)
LEMMA RequestOfFinds ==
  ASSUME NEW s, s.synq \in Seq(Request), NEW p, RequestOf(s, p) # 0
  PROVE  RequestOf(s, p) \in DOMAIN s.synq /\ s.synq[RequestOf(s, p)].peer = p
<1> DEFINE I == {i \in 1..Len(s.synq) : s.synq[i].peer = p}
<1>1. RequestOf(s, p) = IF I # {} THEN Min(I) ELSE 0
  BY DEF RequestOf, SelectInSeq
<1>2. I \subseteq Nat /\ I \subseteq DOMAIN s.synq
  OBVIOUS
<1> QED BY <1>1, <1>2, MinInSet

(* So does the search for a request that waited too long. *)
LEMMA ExpiredOfFinds ==
  ASSUME NEW s, s.synq \in Seq(Request), ExpiredOf(s) # 0
  PROVE  ExpiredOf(s) \in DOMAIN s.synq /\ Expired(s.synq[ExpiredOf(s)])
<1> DEFINE I == {i \in 1..Len(s.synq) : Expired(s.synq[i])}
<1>1. ExpiredOf(s) = IF I # {} THEN Min(I) ELSE 0
  BY DEF ExpiredOf, SelectInSeq
<1>2. I \subseteq Nat /\ I \subseteq DOMAIN s.synq
  OBVIOUS
<1> QED BY <1>1, <1>2, MinInSet

(***************************************************************************)
(* How many requests of a queue have no socket.                            *)
(***************************************************************************)
(* A queue has finitely many requests. *)
LEMMA EmbryosFinite ==
  ASSUME NEW q \in Seq(Request)
  PROVE  IsFiniteSet(Embryos(q)) /\ Cardinality(Embryos(q)) \in 0..Len(q)
<1>0. Len(q) \in Nat
  OBVIOUS
<1>1. IsFiniteSet(1..Len(q)) /\ Cardinality(1..Len(q)) = Len(q)
  <2>1. IsFiniteSet(1..Len(q)) /\ Cardinality(1..Len(q)) = IF 1 > Len(q) THEN 0 ELSE Len(q) - 1 + 1
    BY <1>0, FS_Interval
  <2> QED BY <2>1, <1>0
<1>2. Embryos(q) \in SUBSET (1..Len(q))
  BY DEF Embryos
<1>3. IsFiniteSet(Embryos(q)) /\ Cardinality(Embryos(q)) <= Len(q)
  BY <1>1, <1>2, FS_Subset
<1>4. Cardinality(Embryos(q)) \in Nat
  BY <1>3, FS_CardinalityType
<1> QED BY <1>0, <1>3, <1>4

(* One request more. *)
LEMMA EmbryosAppend ==
  ASSUME NEW q \in Seq(Request), NEW r \in Request
  PROVE  Cardinality(Embryos(Append(q, r))) =
           Cardinality(Embryos(q)) + (IF r.child = "none" THEN 1 ELSE 0)
<1> DEFINE n == Len(q) + 1
<1>0. n \notin Embryos(q)
  BY DEF Embryos
<1>1. IsFiniteSet(Embryos(q)) /\ n \notin Embryos(q)
  BY <1>0, EmbryosFinite
<1>2. Embryos(Append(q, r)) = Embryos(q) \cup (IF r.child = "none" THEN {n} ELSE {})
  <2>1. Len(Append(q, r)) = n /\ Append(q, r)[n] = r
        /\ \A j \in 1..Len(q) : Append(q, r)[j] = q[j]
    OBVIOUS
  <2>2. DOMAIN Append(q, r) = 1..n /\ DOMAIN q = 1..Len(q) /\ 1..n = (1..Len(q)) \cup {n}
    BY <2>1
  <2> QED BY <2>1, <2>2 DEF Embryos
<1> HIDE DEF n
<1>3. Cardinality(Embryos(q)) \in Nat
  BY <1>1, FS_CardinalityType
<1>4. CASE r.child = "none"
  BY <1>1, <1>2, <1>3, <1>4, FS_AddElement
<1>5. CASE r.child # "none"
  BY <1>2, <1>3, <1>5
<1> QED BY <1>4, <1>5

(* One request less. *)
LEMMA EmbryosRemoveAt ==
  ASSUME NEW q \in Seq(Request), NEW i \in DOMAIN q
  PROVE  Cardinality(Embryos(RemoveAt(q, i))) =
           Cardinality(Embryos(q)) - (IF q[i].child = "none" THEN 1 ELSE 0)
<1> DEFINE E == Embryos(q) \ {i}
           F == Embryos(RemoveAt(q, i))
           f == [j \in E |-> IF j < i THEN j ELSE j - 1]
<1>1. IsFiniteSet(E) /\ Cardinality(E) = Cardinality(Embryos(q)) - (IF q[i].child = "none" THEN 1 ELSE 0)
  <2>1. IsFiniteSet(Embryos(q)) /\ Cardinality(Embryos(q)) \in Nat
    BY EmbryosFinite
  <2>2. i \in Embryos(q) <=> q[i].child = "none"
    BY DEF Embryos
  <2>3. Cardinality(E) = IF i \in Embryos(q) THEN Cardinality(Embryos(q)) - 1
                         ELSE Cardinality(Embryos(q))
    BY <2>1, FS_RemoveElement
  <2>4. IsFiniteSet(E)
    BY <2>1, FS_RemoveElement
  <2> QED BY <2>1, <2>2, <2>3, <2>4
<1>2. \A j : j \in F <=> j \in 1..(Len(q) - 1) /\ (IF j < i THEN q[j] ELSE q[j + 1]).child = "none"
  <2> DEFINE u == RemoveAt(q, i)
  <2>1. u \in Seq(Request) /\ Len(u) = Len(q) - 1 
        /\ \A j \in 1..(Len(q) - 1) : u[j] = IF j < i THEN q[j] ELSE q[j + 1]
    BY RemoveAtFacts
  <2>2. F = {j \in DOMAIN u : u[j].child = "none"}
    BY DEF Embryos
  <2> HIDE DEF u, F
  <2>3. DOMAIN u = 1..(Len(q) - 1)
    BY <2>1
  <2> QED BY <2>1, <2>2, <2>3
<1>3. \A j : j \in E <=> j \in 1..Len(q) /\ j # i /\ q[j].child = "none"
  BY DEF Embryos
<1>4. f \in Bijection(E, F)
  <2> i \in 1..Len(q) /\ Len(q) \in Nat
    OBVIOUS
  <2> HIDE DEF E, F
  <2>1. f \in [E -> F]
    <3>1. ASSUME NEW j \in E PROVE (IF j < i THEN j ELSE j - 1) \in F
      <4>1. j \in 1..Len(q) /\ j # i /\ q[j].child = "none"
        BY <1>3
      <4>2. CASE j < i
        BY <1>2, <4>1, <4>2
      <4>3. CASE ~(j < i)
        <5>1. j - 1 \in 1..(Len(q) - 1) /\ ~(j - 1 < i) /\ j - 1 + 1 = j
          BY <4>1, <4>3
        <5> QED BY <1>2, <4>1, <4>3, <5>1
      <4> QED BY <4>2, <4>3
    <3> QED BY <3>1
  <2>2. \A j, k \in E : f[j] = f[k] => j = k
    BY <1>3
  <2>3. \A k \in F : \E j \in E : f[j] = k
    <3> SUFFICES ASSUME NEW k \in F PROVE \E j \in E : f[j] = k
      OBVIOUS
    <3>1. CASE k < i
      <4>1. k \in E
        BY <1>2, <1>3, <3>1
      <4> QED BY <4>1, <3>1
    <3>2. CASE ~(k < i)
      <4>1. k \in Int /\ k + 1 \in E /\ ~(k + 1 < i) /\ k + 1 - 1 = k
        BY <1>2, <1>3, <3>2
      <4>2. f[k + 1] = k
        BY <4>1
      <4> QED BY <4>1, <4>2
    <3> QED BY <3>1, <3>2
  <2> QED BY <2>1, <2>2, <2>3 DEF Bijection, Injection, Surjection, IsInjective
<1> HIDE DEF E, F, f
<1>5. ExistsBijection(E, F)
  BY <1>4 DEF ExistsBijection
<1>6. Cardinality(F) = Cardinality(E)
  BY <1>1, <1>5, FS_Bijection
<1> QED BY <1>1, <1>6 DEF F

(* A queue whose requests change in other ways. *)
LEMMA EmbryosSame ==
  ASSUME NEW q \in Seq(Request), NEW u \in Seq(Request), Len(u) = Len(q),
         \A j \in 1..Len(q) : q[j].child = "none" <=> u[j].child = "none"
  PROVE  Cardinality(Embryos(u)) = Cardinality(Embryos(q))
<1>1. Embryos(u) = Embryos(q)
  BY DEF Embryos
<1> QED BY <1>1

(* A request that gets a socket. *)
LEMMA EmbryosHatch ==
  ASSUME NEW q \in Seq(Request), NEW u \in Seq(Request), Len(u) = Len(q),
         NEW i \in 1..Len(q), q[i].child = "none", u[i].child # "none",
         \A j \in 1..Len(q) : j # i => u[j] = q[j]
  PROVE  Cardinality(Embryos(u)) = Cardinality(Embryos(q)) - 1
<1>1. Embryos(u) = Embryos(q) \ {i} /\ i \in Embryos(q)
  BY DEF Embryos
<1> QED BY <1>1, EmbryosFinite, FS_RemoveElement

(***************************************************************************)
(* What an operation leaves alone it leaves in order.                      *)
(***************************************************************************)
SameSocket(s, t) == t.state = s.state /\ t.holder = s.holder /\ t.back_log = s.back_log
SameQueue(s, t)  == /\ t.synq = s.synq /\ t.syn_backlog = s.syn_backlog
                    /\ t.ack_backlog = s.ack_backlog
SameTables(s, t) == t.conn = s.conn /\ t.rhash = s.rhash
SameRow(s, t)    == t.row = s.row /\ t.slot = s.slot /\ t.age = s.age
SameTimer(s, t)  == /\ t.count = s.count /\ t.last = s.last /\ t.timer = s.timer
                    /\ t.run = s.run /\ t.under = s.under

(* What the proofs need of the constants. *)
LEMMA ConstantFacts ==
  /\ SynackPeriod \in Nat \ {0} /\ TwkillPeriod \in Nat \ {0} /\ Slots \in Nat \ {0}
  /\ Period("SYNACK") = SynackPeriod /\ Period("TWKILL") = TwkillPeriod
  /\ Timers = {"SYNACK", "TWKILL"} /\ Off = -1 /\ NoOne \notin Peers
  /\ SynTimeout \in Nat /\ SynTimeoutMax \in Nat
BY ListenConstants DEF Period, Timers, Off

(* What leaves the death row alone preserves what is said of it. *)
LEMMA DeathRowFrame ==
  ASSUME NEW s, NEW t, RowsOK(s), CountOK(s), AgesOK(s),
         t.row = s.row, t.slot = s.slot, t.age = s.age,
         t.count["TWKILL"] = s.count["TWKILL"], t.last["TWKILL"] = s.last["TWKILL"]
  PROVE  RowsOK(t) /\ CountOK(t) /\ AgesOK(t)
<1>1. \A p, i : Lifetime(t, p, i) = Lifetime(s, p, i)
  BY DEF Lifetime, Ahead
<1>2. Waiting(t) = Waiting(s) /\ \A p : InTimeWait(t, p) <=> InTimeWait(s, p)
  BY DEF Waiting, InTimeWait
<1> QED BY <1>1, <1>2 DEF RowsOK, CountOK, AgesOK

(* What leaves the hash tables alone preserves what is said of the register. *)
LEMMA RegisterFrame ==
  ASSUME NEW s, NEW t, RegisterOK(s), t.rhash = s.rhash, t.back_log = s.back_log,
         t.holder = s.holder, \A p : Hashed(t, p) <=> Hashed(s, p)
  PROVE  RegisterOK(t)
BY DEF RegisterOK

(* The sockets of the queue, after a request without one came or went. *)
LEMMA ChildrenAppend ==
  ASSUME NEW s, s.synq \in Seq(Request), NEW r \in Request, r.child = "none",
         NEW t, t.synq = Append(s.synq, r), NEW p
  PROVE  ChildHashed(t, p) <=> ChildHashed(s, p)
<1>1. /\ DOMAIN t.synq = 1..(Len(s.synq) + 1) /\ t.synq[Len(s.synq) + 1] = r
      /\ DOMAIN s.synq = 1..Len(s.synq) /\ \A j \in 1..Len(s.synq) : t.synq[j] = s.synq[j]
      /\ Len(s.synq) \in Nat
  OBVIOUS
<1> QED BY <1>1 DEF ChildHashed

(* What is taken out of the queue was its own socket's request only. *)
LEMMA ChildrenLeft ==
  ASSUME NEW s, s.synq \in Seq(Request), NEW i \in DOMAIN s.synq,
         NEW t, t.synq = RemoveAt(s.synq, i), NEW p
  PROVE  /\ ChildHashed(t, p) => ChildHashed(s, p)
         /\ ChildHashed(s, p) /\ (s.synq[i].child # "ESTABLISHED" \/ s.synq[i].peer # p)
              => ChildHashed(t, p)
<1>1. /\ t.synq \in Seq(Request) /\ Len(t.synq) = Len(s.synq) - 1 /\ Len(s.synq) \in Nat
      /\ \A j \in 1..(Len(s.synq) - 1) : t.synq[j] = IF j < i THEN s.synq[j] ELSE s.synq[j + 1]
  BY RemoveAtFacts
<1>2. DOMAIN t.synq = 1..(Len(s.synq) - 1) /\ DOMAIN s.synq = 1..Len(s.synq) /\ i \in 1..Len(s.synq)
  BY <1>1
<1>3. ASSUME ChildHashed(t, p) PROVE ChildHashed(s, p)
  <2>1. PICK j \in DOMAIN t.synq : t.synq[j].peer = p /\ t.synq[j].child = "ESTABLISHED"
    BY <1>3 DEF ChildHashed
  <2>2. (IF j < i THEN j ELSE j + 1) \in DOMAIN s.synq
        /\ t.synq[j] = s.synq[IF j < i THEN j ELSE j + 1]
    BY <1>1, <1>2
  <2> QED BY <2>1, <2>2 DEF ChildHashed
<1>4. ASSUME ChildHashed(s, p), s.synq[i].child # "ESTABLISHED" \/ s.synq[i].peer # p
      PROVE  ChildHashed(t, p)
  <2>1. PICK j \in DOMAIN s.synq : s.synq[j].peer = p /\ s.synq[j].child = "ESTABLISHED"
    BY <1>4 DEF ChildHashed
  <2>2. j # i
    BY <1>4, <2>1
  <2>3. CASE j < i
    <3>1. j \in DOMAIN t.synq /\ t.synq[j] = s.synq[j]
      BY <1>1, <1>2, <2>3
    <3> QED BY <2>1, <3>1 DEF ChildHashed
  <2>4. CASE j > i
    <3>1. j - 1 \in DOMAIN t.synq /\ ~(j - 1 < i) /\ j - 1 + 1 = j
      BY <1>1, <1>2, <2>4
    <3>2. t.synq[j - 1] = s.synq[j]
      BY <1>1, <1>2, <3>1
    <3> QED BY <2>1, <3>1, <3>2 DEF ChildHashed
  <2> QED BY <1>2, <2>2, <2>3, <2>4
<1> QED BY <1>3, <1>4

(* An event more for the slow timer. *)
LEMMA SlowTimerStarts ==
  ASSUME NEW s, HostOK(s), s.timer # 0, NEW k \in Timers
  PROVE  LET t == atcp_inc_slow_timer(s, k)
         IN /\ DOMAIN t = DOMAIN s
            /\ SameSocket(s, t) /\ SameQueue(s, t) /\ SameTables(s, t) /\ SameRow(s, t)
            /\ t.run = s.run /\ t.under = s.under
            /\ t.count = [s.count EXCEPT ![k] = @ + 1]
            /\ TimerTypes(t)
            /\ \A j \in Timers : j # k => t.last[j] = s.last[j]
            /\ s.count[k] # 0 => t.last = s.last /\ t.timer = s.timer
            /\ s.count[k] = 0 => /\ t.last[k] = 0 /\ t.timer > 0 /\ t.timer <= Period(k)
                                 /\ s.timer # Off => t.timer <= s.timer
<1> USE ConstantFacts
<1> DEFINE soon == IF s.timer = Off \/ s.timer >= Period(k) THEN Period(k) ELSE s.timer
           first == IF s.count[k] = 0 THEN [s EXCEPT !.last[k] = 0, !.timer = soon] ELSE s
           t == [first EXCEPT !.count[k] = @ + 1]
<1>1. t = atcp_inc_slow_timer(s, k)
  BY DEF atcp_inc_slow_timer
<1>2. HostFields \subseteq DOMAIN s /\ TimerTypes(s)
  BY DEF HostOK
<1>3. Period(k) \in Nat \ {0} /\ s.timer \in Nat \cup {Off}
  BY <1>2 DEF TimerTypes
<1>4. soon \in Nat /\ soon > 0 /\ soon <= Period(k) /\ (s.timer # Off => soon <= s.timer)
  BY <1>3
<1> HIDE DEF soon
<1>5. CASE s.count[k] = 0
  <2>1. first = [s EXCEPT !.last[k] = 0, !.timer = soon]
    BY <1>5
  <2> HIDE DEF first
  <2>2. first.last = [s.last EXCEPT ![k] = 0] /\ first.timer = soon /\ DOMAIN first = DOMAIN s
        /\ \A f \in HostFields \ {"last", "timer"} : first[f] = s[f]
    BY <2>1, <1>2 DEF HostFields
  <2>3. t.count = [s.count EXCEPT ![k] = @ + 1] /\ t.last = [s.last EXCEPT ![k] = 0]
        /\ t.timer = soon /\ DOMAIN t = DOMAIN s
        /\ \A f \in HostFields \ {"count", "last", "timer"} : t[f] = s[f]
    BY <2>2, <1>2 DEF HostFields
  <2> HIDE DEF t
  <2>4. SameSocket(s, t) /\ SameQueue(s, t) /\ SameTables(s, t) /\ SameRow(s, t)
        /\ t.run = s.run /\ t.under = s.under
    BY <2>3 DEF HostFields, SameSocket, SameQueue, SameTables, SameRow
  <2>5. \A j \in Timers : t.last[j] = IF j = k THEN 0 ELSE s.last[j]
    BY <1>2, <2>3 DEF TimerTypes
  <2>6. TimerTypes(t)
    BY <1>2, <1>3, <1>4, <2>3, <2>4, <2>5 DEF TimerTypes
  <2> QED BY <1>1, <1>4, <1>5, <2>3, <2>4, <2>5, <2>6
<1>6. CASE s.count[k] # 0
  <2>1. t = [s EXCEPT !.count[k] = @ + 1]
    BY <1>6
  <2> HIDE DEF t, first
  <2>2. t.count = [s.count EXCEPT ![k] = @ + 1] /\ DOMAIN t = DOMAIN s
        /\ \A f \in HostFields \ {"count"} : t[f] = s[f]
    BY <2>1, <1>2 DEF HostFields
  <2>3. SameSocket(s, t) /\ SameQueue(s, t) /\ SameTables(s, t) /\ SameRow(s, t)
        /\ t.run = s.run /\ t.under = s.under /\ t.last = s.last /\ t.timer = s.timer
    BY <2>2 DEF HostFields, SameSocket, SameQueue, SameTables, SameRow
  <2>4. TimerTypes(t)
    BY <1>2, <2>2, <2>3 DEF TimerTypes
  <2> QED BY <1>1, <1>6, <2>2, <2>3, <2>4
<1> QED BY <1>5, <1>6

(***************************************************************************)
(* Open requests.                                                          *)
(***************************************************************************)
(* A SYN opens a request, or does not. *)
LEMMA ConnRequestOK ==
  ASSUME NEW s, HostInv(s), NEW p \in Peers, s.state = "LISTEN", s.run = "none"
  PROVE  HostInv(atcp_v4_conn_request(s, p)) /\ NoneEnds(s, atcp_v4_conn_request(s, p))
<1> USE ConstantFacts
<1> DEFINE req == [peer |-> p, child |-> "none", retrans |-> 0,
                   timeo |-> SynTimeout, left |-> SynTimeout]
           u == atcp_inc_slow_timer(s, "SYNACK")
           t == [u EXCEPT !.synq = Append(@, req), !.syn_backlog = @ + 1]
<1>1. CASE s.syn_backlog > SynMax
  BY <1>1 DEF atcp_v4_conn_request, NoneEnds
<1>2. CASE ~(s.syn_backlog > SynMax)
  <2>1. atcp_v4_conn_request(s, p) = t
    BY <1>2 DEF atcp_v4_conn_request
  <2>2. HostOK(s) /\ QueueOK(s) /\ TimerOK(s) /\ RowsOK(s) /\ CountOK(s) /\ AgesOK(s) /\ RegisterOK(s)
    BY DEF HostInv
  <2>3. s.timer # 0
    BY <2>2 DEF TimerOK
  <2>4. req \in Request
    BY DEF Request, Children
  <2>5. /\ DOMAIN u = DOMAIN s
        /\ SameSocket(s, u) /\ SameQueue(s, u) /\ SameTables(s, u) /\ SameRow(s, u)
        /\ u.run = s.run /\ u.under = s.under
        /\ u.count = [s.count EXCEPT !["SYNACK"] = @ + 1]
        /\ TimerTypes(u) /\ u.last["TWKILL"] = s.last["TWKILL"]
        /\ s.count["SYNACK"] # 0 => u.last = s.last /\ u.timer = s.timer
        /\ s.count["SYNACK"] = 0 => /\ u.last["SYNACK"] = 0
                                    /\ u.timer > 0 /\ u.timer <= SynackPeriod
                                    /\ s.timer # Off => u.timer <= s.timer
    BY <2>2, <2>3, SlowTimerStarts
  <2> HIDE DEF u, req
  <2>6. HostFields \subseteq DOMAIN s
    BY <2>2 DEF HostOK
  <2>7. /\ DOMAIN t = DOMAIN s
        /\ t.synq = Append(u.synq, req) /\ t.syn_backlog = u.syn_backlog + 1
        /\ \A f \in HostFields \ {"synq", "syn_backlog"} : t[f] = u[f]
    BY <2>5, <2>6 DEF HostFields
  <2> HIDE DEF t
  <2>8. /\ SameSocket(s, t) /\ SameTables(s, t) /\ SameRow(s, t) /\ SameTimer(u, t)
        /\ t.ack_backlog = s.ack_backlog /\ t.synq = Append(s.synq, req)
        /\ t.syn_backlog = s.syn_backlog + 1
    BY <2>5, <2>7 DEF HostFields, SameSocket, SameQueue, SameTables, SameRow, SameTimer
  <2>9. s.synq \in Seq(Request) /\ s.syn_backlog \in Int /\ s.ack_backlog \in Int
    BY <2>2 DEF HostOK, QueueTypes
  <2>10. HostOK(t)
    <3>1. QueueTypes(t)
      BY <2>4, <2>8, <2>9 DEF QueueTypes
    <3>2. SocketTypes(t) /\ TableTypes(t) /\ RowTypes(t)
      BY <2>2, <2>8 DEF HostOK, SocketTypes, TableTypes, RowTypes, SameSocket, SameTables, SameRow
    <3>3. TimerTypes(t)
      BY <2>5, <2>8 DEF TimerTypes, SameTimer
    <3> QED BY <2>6, <2>7, <3>1, <3>2, <3>3 DEF HostOK
  <2>11. Embryonic(t) = Embryonic(s) + 1 /\ Len(t.synq) = Len(s.synq) + 1 /\ Embryonic(s) \in Nat
    BY <2>4, <2>8, <2>9, EmbryosAppend, EmbryosFinite DEF Embryonic, req
  <2>12. QueueOK(t)
    BY <2>2, <2>8, <2>9, <2>11 DEF QueueOK, WithChild, SameSocket
  <2>13. TimerOK(t)
    <3>1. /\ s.count["SYNACK"] \in Int /\ s.under \in Nat /\ s.timer \in Nat \cup {Off}
          /\ s.last["TWKILL"] \in Nat /\ s.last["SYNACK"] \in Nat
          /\ s.count \in [Timers -> Int] /\ t.timer \in Nat \cup {Off}
      BY <2>2, <2>10 DEF HostOK, TimerTypes
    <3>2. /\ t.count["SYNACK"] = s.count["SYNACK"] + 1 /\ t.count["TWKILL"] = s.count["TWKILL"]
      BY <2>5, <2>8, <3>1 DEF SameTimer
    <3>3. /\ t.under = s.under /\ t.run = "none" /\ t.last["TWKILL"] = s.last["TWKILL"]
          /\ s.count["SYNACK"] # 0 => t.timer = s.timer /\ t.last = s.last
          /\ s.count["SYNACK"] = 0 => /\ t.last["SYNACK"] = 0
                                      /\ t.timer > 0 /\ t.timer <= SynackPeriod
                                      /\ s.timer # Off => t.timer <= s.timer
      BY <2>5, <2>8 DEF SameTimer
    <3>4. t.count["SYNACK"] + t.under >= Embryonic(t)
      BY <2>2, <2>11, <3>1, <3>2, <3>3 DEF TimerOK
    <3>5. /\ t.timer # 0
          /\ t.count["SYNACK"] > 0 => /\ t.timer # Off
                                      /\ t.timer + t.last["SYNACK"] <= SynackPeriod
      <4>1. CASE s.count["SYNACK"] = 0
        BY <2>2, <3>1, <3>3, <4>1 DEF TimerOK
      <4>2. CASE s.count["SYNACK"] # 0
        <5>1. t.count["SYNACK"] > 0 => s.count["SYNACK"] > 0
          BY <3>1, <3>2, <4>2
        <5> QED BY <2>2, <3>1, <3>3, <4>2, <5>1 DEF TimerOK
      <4> QED BY <4>1, <4>2
    <3>6. t.count["TWKILL"] # 0 => t.timer # Off /\ t.timer + t.last["TWKILL"] <= TwkillPeriod
      BY <2>2, <3>1, <3>2, <3>3 DEF TimerOK
    <3> QED BY <3>3, <3>4, <3>5, <3>6 DEF TimerOK
  <2>14. RowsOK(t) /\ CountOK(t) /\ AgesOK(t)
    <3>1. s.count \in [Timers -> Int]
      BY <2>2 DEF HostOK, TimerTypes
    <3>2. t.count["TWKILL"] = s.count["TWKILL"] /\ t.last["TWKILL"] = s.last["TWKILL"]
      BY <2>5, <2>8, <3>1 DEF SameTimer
    <3> QED BY <2>2, <2>8, <3>2, DeathRowFrame DEF SameRow
  <2>15. RegisterOK(t)
    <3>1. req.child = "none"
      BY DEF req
    <3>2. \A x : ChildHashed(t, x) <=> ChildHashed(s, x)
      BY <2>4, <2>8, <2>9, <3>1, ChildrenAppend
    <3>3. \A x : Hashed(t, x) <=> Hashed(s, x)
      BY <2>8, <3>2 DEF Hashed, SameTables
    <3> QED BY <2>2, <2>8, <3>3, RegisterFrame DEF SameTables, SameSocket
  <2>16. NoneEnds(s, t)
    BY <2>8 DEF NoneEnds, InTimeWait, SameRow
  <2> QED BY <2>1, <2>10, <2>12, <2>13, <2>14, <2>15, <2>16 DEF HostInv
<1> QED BY <1>1, <1>2

(* A request less: the place it had in the queue, and the counts.  Where   *)
(* its socket was accepted it is hashed still.                             *)
LEMMA RequestLeaves ==
  ASSUME NEW s, HostInv(s), NEW i \in DOMAIN s.synq,
         NEW t, HostFields \subseteq DOMAIN t,
         SameSocket(s, t), SameRow(s, t), SameTimer(s, t), t.synq = RemoveAt(s.synq, i),
         TableTypes(t), t.rhash = s.rhash,
         \A x \in Peers : t.conn[x] = "ESTABLISHED" => Hashed(s, x),
         Hashed(s, s.rhash) => Hashed(t, s.rhash),
         t.syn_backlog = s.syn_backlog - (IF s.synq[i].child = "none" THEN 1 ELSE 0),
         t.ack_backlog = s.ack_backlog - (IF s.synq[i].child = "none" THEN 0 ELSE 1)
  PROVE  HostInv(t)
<1> USE ConstantFacts
<1>1. HostOK(s) /\ QueueOK(s) /\ TimerOK(s) /\ RowsOK(s) /\ CountOK(s) /\ AgesOK(s) /\ RegisterOK(s)
  BY DEF HostInv
<1>2. s.synq \in Seq(Request) /\ s.syn_backlog \in Int /\ s.ack_backlog \in Int
  BY <1>1 DEF HostOK, QueueTypes
<1>3. t.synq \in Seq(Request) /\ Len(t.synq) = Len(s.synq) - 1 /\ Len(s.synq) \in Nat
  BY <1>2, RemoveAtFacts
<1>4. HostOK(t)
  <2>1. QueueTypes(t)
    BY <1>2, <1>3 DEF QueueTypes
  <2>2. SocketTypes(t) /\ RowTypes(t)
    BY <1>1 DEF HostOK, SocketTypes, RowTypes, SameSocket, SameRow
  <2>3. TimerTypes(t)
    BY <1>1 DEF HostOK, TimerTypes, SameTimer
  <2> QED BY <2>1, <2>2, <2>3 DEF HostOK
<1>5. /\ Embryonic(t) = Embryonic(s) - (IF s.synq[i].child = "none" THEN 1 ELSE 0)
      /\ Embryonic(s) \in Nat
  BY <1>2, EmbryosRemoveAt, EmbryosFinite DEF Embryonic
<1>6. QueueOK(t)
  <2>1. s.synq # <<>>
    OBVIOUS
  <2>2. s.state = "LISTEN" /\ t.state = "LISTEN"
    BY <1>1, <2>1 DEF HostOK, SocketTypes, QueueOK, SameSocket
  <2> QED BY <1>1, <1>2, <1>3, <1>5, <2>2, SMTT(30) DEF QueueOK, WithChild
<1>7. TimerOK(t)
  <2>1. s.count["SYNACK"] \in Int /\ s.under \in Nat
    BY <1>1 DEF HostOK, TimerTypes
  <2>2. Due(t, "SYNACK") <=> Due(s, "SYNACK")
    BY DEF Due, SameTimer
  <2> QED BY <1>1, <1>5, <2>1, <2>2 DEF TimerOK, SameTimer, SameSocket
<1>8. RowsOK(t) /\ CountOK(t) /\ AgesOK(t)
  BY <1>1, DeathRowFrame DEF SameRow, SameTimer
<1>9. RegisterOK(t)
  <2>1. \A x : ChildHashed(t, x) => ChildHashed(s, x)
    BY <1>2, ChildrenLeft
  <2>2. \A x \in Peers : Hashed(t, x) => Hashed(s, x)
    BY <2>1 DEF Hashed
  <2>3. \A j \in DOMAIN s.back_log : s.back_log[j].peer \in Peers
    <3>1. \A j \in DOMAIN s.back_log : s.back_log[j] \in Segment
      BY <1>1 DEF HostOK, SocketTypes
    <3> QED BY <3>1 DEF Segment
  <2> QED BY <1>1, <2>2, <2>3 DEF RegisterOK, SameSocket
<1> QED BY <1>4, <1>6, <1>7, <1>8, <1>9 DEF HostInv

(* A request less whose socket, if it has one, is not in the register. *)
LEMMA RequestDropped ==
  ASSUME NEW s, HostInv(s), NEW i \in DOMAIN s.synq,
         NEW t, HostFields \subseteq DOMAIN t,
         SameSocket(s, t), SameTables(s, t), SameRow(s, t), SameTimer(s, t),
         t.synq = RemoveAt(s.synq, i), s.synq[i].peer # s.rhash \/ s.synq[i].child # "ESTABLISHED",
         t.syn_backlog = s.syn_backlog - (IF s.synq[i].child = "none" THEN 1 ELSE 0),
         t.ack_backlog = s.ack_backlog - (IF s.synq[i].child = "none" THEN 0 ELSE 1)
  PROVE  HostInv(t)
<1>1. s.synq \in Seq(Request) /\ TableTypes(s)
  BY DEF HostInv, HostOK, QueueTypes
<1>2. TableTypes(t) /\ t.rhash = s.rhash
  BY <1>1 DEF TableTypes, SameTables
<1>3. \A x \in Peers : t.conn[x] = "ESTABLISHED" => Hashed(s, x)
  BY DEF Hashed, SameTables
<1>4. ChildHashed(s, s.rhash) => ChildHashed(t, s.rhash)
  BY <1>1, ChildrenLeft
<1>5. Hashed(s, s.rhash) => Hashed(t, s.rhash)
  BY <1>4 DEF Hashed, SameTables
<1> QED BY <1>2, <1>3, <1>5, RequestLeaves

(* A RST for a request drops it. *)
LEMMA RstReqOK ==
  ASSUME NEW s, HostInv(s), NEW i \in DOMAIN s.synq, s.synq[i].peer # s.rhash
  PROVE  HostInv(atcp_v4_rst_req(s, i)) /\ NoneEnds(s, atcp_v4_rst_req(s, i))
<1> DEFINE a == StillHashed(s, s.synq[i])
           c == CountedOff(a, i)
           t == [c EXCEPT !.synq = RemoveAt(@, i)]
<1>1. t = atcp_v4_rst_req(s, i)
  BY DEF atcp_v4_rst_req
<1>2. HostFields \subseteq DOMAIN s /\ s.syn_backlog \in Int /\ s.ack_backlog \in Int
  BY DEF HostInv, HostOK, QueueTypes
<1>0. s.synq \in Seq(Request) /\ s.synq[i] \in Request /\ TableTypes(s)
  BY DEF HostInv, HostOK, QueueTypes
<1>3. /\ DOMAIN a = DOMAIN s
      /\ a.conn = IF s.synq[i].child = "ESTABLISHED"
                  THEN [s.conn EXCEPT ![s.synq[i].peer] = "ESTABLISHED"] ELSE s.conn
      /\ \A f \in HostFields \ {"conn"} : a[f] = s[f]
  BY <1>2 DEF StillHashed, HostFields
<1> HIDE DEF a
<1>4. /\ DOMAIN c = DOMAIN s /\ c.conn = a.conn
      /\ c.syn_backlog = s.syn_backlog - (IF s.synq[i].child = "none" THEN 1 ELSE 0)
      /\ c.ack_backlog = s.ack_backlog - (IF s.synq[i].child = "none" THEN 0 ELSE 1)
      /\ \A f \in HostFields \ {"conn", "syn_backlog", "ack_backlog"} : c[f] = s[f]
  BY <1>2, <1>3 DEF CountedOff, HostFields
<1> HIDE DEF c
<1>5. /\ DOMAIN t = DOMAIN s /\ t.synq = RemoveAt(s.synq, i) /\ t.conn = a.conn
      /\ t.syn_backlog = c.syn_backlog /\ t.ack_backlog = c.ack_backlog
      /\ \A f \in HostFields \ {"conn", "syn_backlog", "ack_backlog", "synq"} : t[f] = s[f]
  BY <1>2, <1>4 DEF HostFields
<1> HIDE DEF t
<1>6. SameSocket(s, t) /\ t.rhash = s.rhash /\ SameRow(s, t) /\ SameTimer(s, t)
  BY <1>5 DEF HostFields, SameSocket, SameRow, SameTimer
<1>7. NoneEnds(s, t)
  BY <1>6 DEF NoneEnds, InTimeWait, SameRow
<1>8. TableTypes(t) /\ \A x : s.conn[x] = "ESTABLISHED" => t.conn[x] = "ESTABLISHED"
  BY <1>0, <1>3, <1>5, <1>6 DEF TableTypes, Request
<1>9. \A x \in Peers : t.conn[x] = "ESTABLISHED" => Hashed(s, x)
  BY <1>0, <1>3, <1>5 DEF TableTypes, Hashed, ChildHashed
<1>10. Hashed(s, s.rhash) => Hashed(t, s.rhash)
  <2>1. ChildHashed(s, s.rhash) => ChildHashed(t, s.rhash)
    BY <1>0, <1>5, ChildrenLeft
  <2> QED BY <1>8, <2>1 DEF Hashed
<1>11. HostInv(t)
  BY <1>2, <1>4, <1>5, <1>6, <1>8, <1>9, <1>10, RequestLeaves
<1> QED BY <1>1, <1>7, <1>11

(* An acknowledgement gives its request a socket, where there is room. *)
LEMMA CheckReqOK ==
  ASSUME NEW s, HostInv(s), NEW i \in DOMAIN s.synq, s.state = "LISTEN",
         s.holder = "none", s.run = "none", s.synq[i].peer # s.rhash
  PROVE  HostInv(atcp_check_req(s, i)) /\ NoneEnds(s, atcp_check_req(s, i))
<1> USE ConstantFacts
<1> DEFINE u == atcp_dec_slow_timer(s, "SYNACK")
           r == [s.synq[i] EXCEPT !.child = "ESTABLISHED"]
<1>1. HostOK(s) /\ QueueOK(s) /\ TimerOK(s) /\ RowsOK(s) /\ CountOK(s) /\ AgesOK(s) /\ RegisterOK(s)
  BY DEF HostInv
<1>2. HostFields \subseteq DOMAIN s /\ s.count \in [Timers -> Int]
      /\ s.synq \in Seq(Request) /\ s.syn_backlog \in Int /\ s.ack_backlog \in Int
      /\ s.under \in Nat
  BY <1>1 DEF HostOK, QueueTypes, TimerTypes
<1>3. CASE s.synq[i].child # "none"
  BY <1>3 DEF atcp_check_req, NoneEnds
<1>4. /\ DOMAIN u = DOMAIN s /\ u.count = [s.count EXCEPT !["SYNACK"] = @ - 1]
      /\ \A f \in HostFields \ {"count"} : u[f] = s[f]
  BY <1>2 DEF HostFields, atcp_dec_slow_timer
<1> HIDE DEF u
<1>5. ASSUME s.synq[i].child = "none",
             NEW t, DOMAIN t = DOMAIN s,
             SameSocket(s, t), SameTables(s, t), SameRow(s, t),
             t.count = [s.count EXCEPT !["SYNACK"] = @ - 1],
             t.last = s.last, t.timer = s.timer, t.run = s.run,
             t.under \in Nat, t.under >= s.under, Embryonic(t) \in Nat,
             t.under - Embryonic(t) >= s.under - Embryonic(s) + 1,
             QueueTypes(t), QueueOK(t), RegisterOK(t)
      PROVE  HostInv(t) /\ NoneEnds(s, t)
  <2>1. HostOK(t)
    <3>1. SocketTypes(t) /\ TableTypes(t) /\ RowTypes(t)
      BY <1>1, <1>5 DEF HostOK, SocketTypes, TableTypes, RowTypes, SameSocket, SameTables, SameRow
    <3>2. TimerTypes(t)
      BY <1>1, <1>5 DEF HostOK, TimerTypes
    <3> QED BY <1>2, <1>5, <3>1, <3>2 DEF HostOK
  <2>2. t.count["SYNACK"] = s.count["SYNACK"] - 1 /\ t.count["TWKILL"] = s.count["TWKILL"]
        /\ s.count["SYNACK"] \in Int
    BY <1>2, <1>5
  <2>3. TimerOK(t)
    <3>1. Embryonic(s) \in Nat /\ s.timer \in Nat \cup {Off}
      BY <1>1, <1>2, EmbryosFinite DEF Embryonic, HostOK, TimerTypes
    <3>2. t.count["SYNACK"] + t.under >= Embryonic(t)
      <4>1. s.count["SYNACK"] + s.under >= Embryonic(s)
        BY <1>1 DEF TimerOK
      <4> QED BY <1>2, <1>5, <2>2, <3>1, <4>1, SMTT(30)
    <3>3. t.count["SYNACK"] > 0 => s.count["SYNACK"] > 0
      BY <2>2
    <3> QED BY <1>1, <1>5, <2>2, <3>2, <3>3 DEF TimerOK, SameSocket
  <2>4. RowsOK(t) /\ CountOK(t) /\ AgesOK(t)
    BY <1>1, <1>5, <2>2, DeathRowFrame DEF SameRow
  <2>5. NoneEnds(s, t)
    BY <1>5 DEF NoneEnds, InTimeWait, SameRow
  <2> QED BY <1>5, <2>1, <2>3, <2>4, <2>5 DEF HostInv
<1>6. CASE s.synq[i].child = "none" /\ ~MayQueue(s)
  <2> DEFINE t == [u EXCEPT !.under = @ + 1]
  <2>1. MayQueue(u) <=> MayQueue(s)
    BY <1>4 DEF MayQueue, HostFields
  <2>2. t = atcp_check_req(s, i)
    BY <1>6 DEF atcp_check_req, u
  <2>3. /\ DOMAIN t = DOMAIN s /\ t.under = s.under + 1
        /\ \A f \in HostFields \ {"under"} : t[f] = u[f]
    BY <1>2, <1>4 DEF HostFields
  <2> HIDE DEF t
  <2>4. /\ SameSocket(s, t) /\ SameTables(s, t) /\ SameRow(s, t) /\ SameQueue(s, t)
        /\ t.count = u.count /\ t.last = s.last /\ t.timer = s.timer /\ t.run = s.run
    BY <1>4, <2>3 DEF HostFields, SameSocket, SameTables, SameRow, SameQueue
  <2>5. Embryonic(t) = Embryonic(s) /\ Embryonic(s) \in Nat
    BY <1>2, <2>4, EmbryosFinite DEF Embryonic, SameQueue
  <2>6. QueueTypes(t) /\ QueueOK(t)
    BY <1>1, <2>4, <2>5 DEF HostOK, QueueTypes, QueueOK, SameQueue, SameSocket, WithChild
  <2>7. \A x : Hashed(t, x) <=> Hashed(s, x)
    BY <2>4 DEF Hashed, ChildHashed, SameTables, SameQueue
  <2>8. RegisterOK(t)
    BY <1>1, <2>4, <2>7, RegisterFrame DEF SameTables, SameSocket
  <2>9. t.under \in Nat /\ t.under >= s.under /\ Embryonic(t) \in Nat
        /\ t.under - Embryonic(t) >= s.under - Embryonic(s) + 1
    BY <1>2, <2>3, <2>5, SMTT(30)
  <2> QED BY <1>4, <1>5, <1>6, <2>2, <2>3, <2>4, <2>6, <2>8, <2>9
<1>7. CASE s.synq[i].child = "none" /\ MayQueue(s)
  <2> DEFINE t == [u EXCEPT !.synq[i].child = "ESTABLISHED", !.syn_backlog = @ - 1,
                            !.ack_backlog = @ + 1]
  <2>1. t = atcp_check_req(s, i)
    BY <1>7 DEF atcp_check_req, u
  <2>2. /\ DOMAIN t = DOMAIN s /\ t.synq = [s.synq EXCEPT ![i] = r]
        /\ t.syn_backlog = s.syn_backlog - 1 /\ t.ack_backlog = s.ack_backlog + 1
        /\ \A f \in HostFields \ {"synq", "syn_backlog", "ack_backlog"} : t[f] = u[f]
    BY <1>2, <1>4 DEF HostFields
  <2>3. /\ SameSocket(s, t) /\ SameTables(s, t) /\ SameRow(s, t)
        /\ t.count = u.count /\ t.last = s.last /\ t.timer = s.timer /\ t.run = s.run
        /\ t.under = s.under
    <3> HIDE DEF t
    <3> QED BY <1>4, <2>2 DEF HostFields, SameSocket, SameTables, SameRow
  <2> HIDE DEF t
  <2>4. s.synq[i] \in Request
    BY <1>2
  <2>5. r \in Request /\ r.child = "ESTABLISHED" /\ r.peer = s.synq[i].peer
    BY <2>4 DEF Request, Children
  <2> HIDE DEF r
  <2>6. /\ t.synq \in Seq(Request) /\ Len(t.synq) = Len(s.synq) /\ Len(s.synq) \in Nat
        /\ i \in 1..Len(s.synq) /\ t.synq[i] = r
        /\ \A j \in 1..Len(s.synq) : j # i => t.synq[j] = s.synq[j]
        /\ DOMAIN t.synq = DOMAIN s.synq
    BY <1>2, <2>2, <2>5, SMTT(30)
  <2>7. Embryonic(t) = Embryonic(s) - 1
    BY <1>2, <1>7, <2>5, <2>6, EmbryosHatch DEF Embryonic
  <2>8. Embryonic(s) \in Nat /\ Embryonic(t) \in Nat
    BY <1>2, <2>6, EmbryosFinite DEF Embryonic
  <2>9. QueueTypes(t)
    BY <1>2, <2>2, <2>6 DEF QueueTypes
  <2>10. QueueOK(t)
    BY <1>1, <1>2, <2>2, <2>3, <2>6, <2>7, <2>8, SMTT(30) DEF QueueOK, WithChild, SameSocket
  <2>11. \A x : ChildHashed(s, x) => ChildHashed(t, x)
    BY <1>7, <2>6 DEF ChildHashed
  <2>12. \A x : Hashed(s, x) => Hashed(t, x)
    BY <2>3, <2>11 DEF Hashed, SameTables
  <2>13. RegisterOK(t)
    BY <1>1, <2>3, <2>12 DEF RegisterOK, SameTables, SameSocket
  <2>14. t.under \in Nat /\ t.under >= s.under
         /\ t.under - Embryonic(t) >= s.under - Embryonic(s) + 1
    BY <1>2, <2>3, <2>7, <2>8, SMTT(30)
  <2> QED BY <1>4, <1>5, <1>7, <2>1, <2>2, <2>3, <2>8, <2>9, <2>10, <2>13, <2>14
<1> QED BY <1>3, <1>6, <1>7

(* A segment for the listener. *)
LEMMA DoRcvOK ==
  ASSUME NEW s, HostInv(s), s.holder = "none", s.run = "none",
         NEW g \in Segment, g.peer # s.rhash
  PROVE  HostInv(atcp_v4_do_rcv(s, g)) /\ NoneEnds(s, atcp_v4_do_rcv(s, g))
<1> DEFINE i == RequestOf(s, g.peer)
<1>1. g.peer \in Peers /\ g.kind \in {"SYN", "OLDSYN", "ACK", "RST"} /\ s.synq \in Seq(Request)
  BY DEF Segment, HostInv, HostOK, QueueTypes
<1>2. i # 0 => i \in DOMAIN s.synq /\ s.synq[i].peer = g.peer
  BY <1>1, RequestOfFinds
<1> HIDE DEF i
<1>3. LET t == atcp_v4_conn_request(s, g.peer)
      IN s.state = "LISTEN" => HostInv(t) /\ NoneEnds(s, t)
  BY <1>1, ConnRequestOK
<1>4. LET t == atcp_v4_rst_req(s, i) IN i # 0 => HostInv(t) /\ NoneEnds(s, t)
  BY <1>2, RstReqOK
<1>5. LET t == atcp_check_req(s, i)
      IN s.state = "LISTEN" /\ i # 0 => HostInv(t) /\ NoneEnds(s, t)
  BY <1>2, CheckReqOK
<1>6. CASE s.state # "LISTEN"
  BY <1>6 DEF atcp_v4_do_rcv, NoneEnds
<1>7. CASE s.state = "LISTEN" /\ g.kind = "RST"
  BY <1>4, <1>7 DEF atcp_v4_do_rcv, NoneEnds, i
<1>8. CASE s.state = "LISTEN" /\ g.kind = "SYN"
  BY <1>3, <1>8 DEF atcp_v4_do_rcv
<1>9. CASE s.state = "LISTEN" /\ g.kind = "OLDSYN"
  BY <1>3, <1>9 DEF atcp_v4_do_rcv, NoneEnds, i
<1>10. CASE s.state = "LISTEN" /\ g.kind = "ACK"
  BY <1>5, <1>10 DEF atcp_v4_do_rcv, NoneEnds, i
<1> QED BY <1>1, <1>6, <1>7, <1>8, <1>9, <1>10

(***************************************************************************)
(* TIME-WAIT.                                                              *)
(***************************************************************************)
(* The slot before the hand of the clock is the one it comes to last.  *)
LEMMA SlotFacts ==
  ASSUME NEW s, s.slot \in Rows
  PROVE  /\ DeathSlot(s) \in Rows /\ Ahead(s, DeathSlot(s)) = Slots - 1
         /\ \A i \in Rows : Ahead(s, i) \in Rows /\ (Ahead(s, i) = 0 <=> i = s.slot)
<1> USE ConstantFacts
<1>1. s.slot \in 0..(Slots - 1)
  BY DEF Rows
<1>2. CASE s.slot = 0
  <2>1. (s.slot + Slots - 1) % Slots = Slots - 1
    BY <1>2
  <2> QED BY <1>1, <1>2, <2>1 DEF DeathSlot, Ahead, Rows
<1>3. CASE s.slot > 0
  <2>1. s.slot + Slots - 1 = Slots + (s.slot - 1) /\ s.slot - 1 \in 0..(Slots - 1)
    BY <1>1, <1>3
  <2>2. (s.slot + Slots - 1) % Slots = s.slot - 1
    BY <2>1
  <2> QED BY <1>1, <1>3, <2>2 DEF DeathSlot, Ahead, Rows
<1> QED BY <1>1, <1>2, <1>3

(* A product with the length of TIME-WAIT. *)
LEMMA OnePeriodLess ==
  ASSUME NEW n \in Int
  PROVE  (n - 1) * TwkillPeriod = n * TwkillPeriod - TwkillPeriod
         /\ 0 * TwkillPeriod = 0 /\ n * TwkillPeriod \in Int
BY ConstantFacts

(* While its handler does not run, the slow timer has a bucket's period    *)
(* still ahead of it.                                                      *)
LEMMA PeriodNotOver ==
  ASSUME NEW s, HostOK(s), TimerOK(s), s.run = "none", s.count["TWKILL"] # 0
  PROVE  s.last["TWKILL"] \in 0..(TwkillPeriod - 1)
<1>1. s.timer \in Nat \cup {Off} /\ s.last["TWKILL"] \in Nat
  BY ConstantFacts DEF HostOK, TimerTypes
<1>2. s.timer # Off /\ s.timer # 0 /\ s.timer + s.last["TWKILL"] <= TwkillPeriod
  BY DEF TimerOK
<1> QED BY <1>1, <1>2, ConstantFacts

(* A bucket is put into its row. *)
LEMMA ScheduleOK ==
  ASSUME NEW s, HostInv(s), NEW p \in Peers, ~InTimeWait(s, p), s.run = "none"
  PROVE  HostInv(atcp_tw_schedule(s, p)) /\ NoneEnds(s, atcp_tw_schedule(s, p))
<1> USE ConstantFacts
<1> DEFINE d == DeathSlot(s)
           v == OnRow(s, p)
           t == atcp_inc_slow_timer(v, "TWKILL")
<1>1. t = atcp_tw_schedule(s, p)
  BY DEF atcp_tw_schedule
<1>2. HostOK(s) /\ QueueOK(s) /\ TimerOK(s) /\ RowsOK(s) /\ CountOK(s) /\ AgesOK(s) /\ RegisterOK(s)
  BY DEF HostInv
<1>3. HostFields \subseteq DOMAIN s /\ RowTypes(s) /\ TimerTypes(s)
  BY <1>2 DEF HostOK
<1>4. d \in Rows /\ Ahead(s, d) = Slots - 1
  BY <1>3, SlotFacts DEF RowTypes
<1> HIDE DEF d
<1>5. /\ DOMAIN v = DOMAIN s /\ v.row = [s.row EXCEPT ![d] = @ \cup {p}]
      /\ v.age = [s.age EXCEPT ![p] = 0]
      /\ \A f \in HostFields \ {"row", "age"} : v[f] = s[f]
  BY <1>3 DEF OnRow, HostFields, d
<1> HIDE DEF v
<1>6. /\ SameSocket(s, v) /\ SameQueue(s, v) /\ SameTables(s, v) /\ SameTimer(s, v)
      /\ v.slot = s.slot
  BY <1>5 DEF HostFields, SameSocket, SameQueue, SameTables, SameTimer
<1>7. RowTypes(v)
  BY <1>3, <1>4, <1>5, <1>6 DEF RowTypes
<1>8. HostOK(v) /\ v.timer # 0
  BY <1>2, <1>3, <1>5, <1>6, <1>7
     DEF HostOK, TimerOK, SocketTypes, QueueTypes, TableTypes, TimerTypes,
         SameSocket, SameQueue, SameTables, SameTimer
<1>9. /\ DOMAIN t = DOMAIN v
      /\ SameSocket(v, t) /\ SameQueue(v, t) /\ SameTables(v, t) /\ SameRow(v, t)
      /\ t.run = v.run /\ t.under = v.under /\ TimerTypes(t)
      /\ t.count = [v.count EXCEPT !["TWKILL"] = @ + 1]
      /\ t.last["SYNACK"] = v.last["SYNACK"]
      /\ v.count["TWKILL"] # 0 => t.last = v.last /\ t.timer = v.timer
      /\ v.count["TWKILL"] = 0 => /\ t.last["TWKILL"] = 0 /\ t.timer > 0
                                  /\ t.timer <= TwkillPeriod
                                  /\ v.timer # Off => t.timer <= v.timer
  BY <1>8, SlowTimerStarts
<1> HIDE DEF t
<1>10. HostOK(t)
  BY <1>7, <1>8, <1>9 DEF HostOK, SocketTypes, QueueTypes, TableTypes, RowTypes,
         SameSocket, SameQueue, SameTables, SameRow
<1>11. /\ SameSocket(s, t) /\ SameQueue(s, t) /\ SameTables(s, t)
       /\ t.row = v.row /\ t.age = v.age /\ t.slot = s.slot
       /\ t.run = "none" /\ t.under = s.under
       /\ t.count["SYNACK"] = s.count["SYNACK"] /\ t.count["TWKILL"] = s.count["TWKILL"] + 1
  BY <1>3, <1>6, <1>9 DEF SameSocket, SameQueue, SameTables, SameRow, SameTimer, TimerTypes
<1>12. /\ s.count["TWKILL"] # 0 => t.last = s.last /\ t.timer = s.timer
       /\ s.count["TWKILL"] = 0 => /\ t.last["TWKILL"] = 0 /\ t.timer > 0
                                   /\ t.timer <= TwkillPeriod
                                   /\ s.timer # Off => t.timer <= s.timer
  BY <1>6, <1>9 DEF SameTimer
<1>13. QueueOK(t)
  BY <1>2, <1>11 DEF QueueOK, Embryonic, WithChild, SameSocket, SameQueue
<1>14. TimerOK(t)
  <2>1. Embryonic(t) = Embryonic(s)
    BY <1>11 DEF Embryonic, SameQueue
  <2>2. /\ t.timer # 0 /\ t.timer # Off /\ t.timer \in Nat
        /\ t.timer + t.last["TWKILL"] <= TwkillPeriod
        /\ s.timer # Off => t.timer <= s.timer
    <3>1. CASE s.count["TWKILL"] # 0
      BY <1>2, <1>10, <1>12, <3>1 DEF HostOK, TimerOK, TimerTypes
    <3>2. CASE s.count["TWKILL"] = 0
      BY <1>10, <1>12, <3>2 DEF HostOK, TimerTypes
    <3> QED BY <3>1, <3>2
  <2>3. s.count["SYNACK"] > 0 => t.timer + t.last["SYNACK"] <= SynackPeriod
    <3>1. s.timer \in Nat \cup {Off} /\ s.last["SYNACK"] \in Nat
          /\ t.last["SYNACK"] = s.last["SYNACK"]
      BY <1>3, <1>6, <1>9 DEF SameTimer, TimerTypes
    <3> QED BY <1>2, <2>2, <3>1 DEF TimerOK
  <2> QED BY <1>2, <1>11, <2>1, <2>2, <2>3 DEF TimerOK
<1>15. \A x \in Peers : InTimeWait(t, x) <=> x = p \/ InTimeWait(s, x)
  BY <1>3, <1>5, <1>11 DEF InTimeWait, RowTypes
<1>16. \A i \in Rows : \A x : x \in t.row[i] <=> x \in s.row[i] \/ (i = d /\ x = p)
  BY <1>3, <1>4, <1>5, <1>11 DEF RowTypes
<1>17. RowsOK(t)
  <2>1. \A i \in Rows : p \notin s.row[i]
    BY <1>2 DEF RowsOK
  <2> QED BY <1>2, <1>4, <1>15, <1>16, <2>1 DEF RowsOK
<1>18. CountOK(t)
  <2>1. Waiting(t) = Waiting(s) \cup {p} /\ p \notin Waiting(s)
    BY <1>15 DEF Waiting
  <2>2. IsFiniteSet(Waiting(s)) /\ s.count["TWKILL"] = Cardinality(Waiting(s))
    BY <1>2 DEF CountOK
  <2> QED BY <1>11, <2>1, <2>2, FS_AddElement DEF CountOK
<1>19. AgesOK(t)
  <2> SUFFICES ASSUME NEW i \in Rows, NEW x \in t.row[i]
               PROVE  /\ (Slots - 1) * TwkillPeriod < Lifetime(t, x, i)
                      /\ Lifetime(t, x, i) <= Slots * TwkillPeriod
    BY DEF AgesOK
  <2>1. Ahead(t, i) = Ahead(s, i)
    BY <1>11 DEF Ahead
  <2>2. CASE i = d /\ x = p
    <3>1. t.age[x] = 0 /\ Ahead(t, i) = Slots - 1
      BY <1>3, <1>4, <1>5, <1>11, <2>1, <2>2 DEF RowTypes
    <3>2. t.last["TWKILL"] \in 0..(TwkillPeriod - 1)
      <4>1. t.count["TWKILL"] # 0
        <5>1. s.count["TWKILL"] \in Nat
          BY <1>2, FS_CardinalityType DEF CountOK
        <5> QED BY <1>11, <5>1
      <4> QED BY <1>10, <1>11, <1>14, <4>1, PeriodNotOver
    <3>3. (Slots - 1) * TwkillPeriod = Slots * TwkillPeriod - TwkillPeriod
          /\ Slots * TwkillPeriod \in Int
      BY OnePeriodLess
    <3>4. Lifetime(t, x, i) = 0 + (Slots - 1) * TwkillPeriod + (TwkillPeriod - t.last["TWKILL"])
      BY <3>1 DEF Lifetime
    <3> DEFINE W == Slots * TwkillPeriod
    <3>5. W \in Int /\ Lifetime(t, x, i) = W - TwkillPeriod + (TwkillPeriod - t.last["TWKILL"])
          /\ (Slots - 1) * TwkillPeriod = W - TwkillPeriod
      BY <3>3, <3>4
    <3> HIDE DEF W
    <3>6. W - TwkillPeriod < Lifetime(t, x, i) /\ Lifetime(t, x, i) <= W
      BY <3>2, <3>5
    <3> QED BY <3>5, <3>6 DEF W
  <2>3. CASE ~(i = d /\ x = p)
    <3>1. x \in s.row[i] /\ x \in Peers
      BY <1>3, <1>16, <2>3 DEF RowTypes
    <3>2. InTimeWait(s, x) /\ x # p
      BY <1>2, <3>1 DEF RowsOK
    <3>3. t.age[x] = s.age[x]
      BY <1>3, <1>5, <1>11, <3>1, <3>2 DEF RowTypes
    <3>4. s.count["TWKILL"] # 0
      <4>1. x \in Waiting(s)
        BY <3>1, <3>2 DEF Waiting
      <4> QED BY <1>2, <4>1, FS_EmptySet DEF CountOK
    <3>5. Lifetime(t, x, i) = Lifetime(s, x, i)
      BY <1>12, <2>1, <3>3, <3>4 DEF Lifetime
    <3> QED BY <1>2, <3>1, <3>5 DEF AgesOK
  <2> QED BY <2>2, <2>3
<1>20. RegisterOK(t)
  <2>1. \A x : Hashed(t, x) <=> Hashed(s, x)
    BY <1>11 DEF Hashed, ChildHashed, SameTables, SameQueue
  <2> QED BY <1>2, <1>11, <2>1, RegisterFrame DEF SameTables, SameSocket
<1> QED BY <1>1, <1>10, <1>13, <1>14, <1>15, <1>17, <1>18, <1>19, <1>20 DEF HostInv, NoneEnds

(* A bucket is taken off its row and freed. *)
LEMMA KilledOK ==
  ASSUME NEW s, HostInv(s), NEW p \in Peers, InTimeWait(s, p)
  PROVE  LET t == atcp_timewait_kill(atcp_tw_deschedule(s, p), p)
         IN HostInv(t) /\ SameSocket(s, t) /\ SameTables(s, t) /\ t.run = s.run
<1> USE ConstantFacts
<1> DEFINE u == atcp_tw_deschedule(s, p)
           t == atcp_timewait_kill(u, p)
<1>1. HostOK(s) /\ QueueOK(s) /\ TimerOK(s) /\ RowsOK(s) /\ CountOK(s) /\ AgesOK(s) /\ RegisterOK(s)
  BY DEF HostInv
<1>2. HostFields \subseteq DOMAIN s /\ RowTypes(s) /\ TimerTypes(s)
  BY <1>1 DEF HostOK
<1>3. /\ DOMAIN u = DOMAIN s /\ u.row = [i \in Rows |-> s.row[i] \ {p}]
      /\ u.count = [s.count EXCEPT !["TWKILL"] = @ - 1]
      /\ \A f \in HostFields \ {"row", "count"} : u[f] = s[f]
  BY <1>2 DEF atcp_tw_deschedule, atcp_dec_slow_timer, OffRow, HostFields, RowTypes
<1> HIDE DEF u
<1>4. /\ DOMAIN t = DOMAIN s /\ t.age = [s.age EXCEPT ![p] = Off]
      /\ \A f \in HostFields \ {"age"} : t[f] = u[f]
  BY <1>2, <1>3 DEF atcp_timewait_kill, HostFields
<1> HIDE DEF t
<1>5. /\ SameSocket(s, t) /\ SameQueue(s, t) /\ SameTables(s, t)
      /\ t.slot = s.slot /\ t.row = u.row /\ t.count = u.count
      /\ t.last = s.last /\ t.timer = s.timer /\ t.run = s.run /\ t.under = s.under
  BY <1>3, <1>4 DEF HostFields, SameSocket, SameQueue, SameTables
<1>6. t.count["SYNACK"] = s.count["SYNACK"] /\ t.count["TWKILL"] = s.count["TWKILL"] - 1
      /\ t.count \in [Timers -> Int]
  BY <1>2, <1>3, <1>5 DEF TimerTypes
<1>7. HostOK(t)
  <2>1. RowTypes(t)
    BY <1>2, <1>3, <1>4, <1>5 DEF RowTypes
  <2>2. TimerTypes(t)
    BY <1>2, <1>5, <1>6 DEF TimerTypes
  <2> QED BY <1>1, <1>2, <1>4, <1>5, <2>1, <2>2
          DEF HostOK, SocketTypes, QueueTypes, TableTypes, SameSocket, SameQueue, SameTables
<1>8. \A x \in Peers : InTimeWait(t, x) <=> x # p /\ InTimeWait(s, x)
  BY <1>2, <1>4 DEF InTimeWait, RowTypes
<1>9. \A i \in Rows : \A x : x \in t.row[i] <=> x # p /\ x \in s.row[i]
  BY <1>3, <1>5
<1>10. p \in Waiting(s) /\ Waiting(t) = Waiting(s) \ {p}
       /\ IsFiniteSet(Waiting(s)) /\ s.count["TWKILL"] = Cardinality(Waiting(s))
       /\ Cardinality(Waiting(s)) \in Nat
  <2>1. p \in Waiting(s) /\ Waiting(t) = Waiting(s) \ {p}
    BY <1>8 DEF Waiting
  <2>2. IsFiniteSet(Waiting(s)) /\ s.count["TWKILL"] = Cardinality(Waiting(s))
    BY <1>1 DEF CountOK
  <2> QED BY <2>1, <2>2, FS_CardinalityType
<1>11. CountOK(t)
  BY <1>6, <1>10, FS_RemoveElement DEF CountOK
<1>12. s.count["TWKILL"] # 0
  BY <1>10, FS_EmptySet
<1>13. RowsOK(t)
  BY <1>1, <1>8, <1>9 DEF RowsOK
<1>14. AgesOK(t)
  <2> SUFFICES ASSUME NEW i \in Rows, NEW x \in t.row[i]
               PROVE  /\ (Slots - 1) * TwkillPeriod < Lifetime(t, x, i)
                      /\ Lifetime(t, x, i) <= Slots * TwkillPeriod
    BY DEF AgesOK
  <2>1. x # p /\ x \in s.row[i] /\ x \in Peers
    BY <1>2, <1>9 DEF RowTypes
  <2>2. t.age[x] = s.age[x]
    BY <1>2, <1>4, <2>1 DEF RowTypes
  <2>3. Lifetime(t, x, i) = Lifetime(s, x, i)
    BY <1>5, <2>2 DEF Lifetime, Ahead
  <2> QED BY <1>1, <2>1, <2>3 DEF AgesOK
<1>15. QueueOK(t)
  BY <1>1, <1>5 DEF QueueOK, Embryonic, WithChild, SameSocket, SameQueue
<1>16. TimerOK(t)
  BY <1>1, <1>5, <1>6, <1>12 DEF TimerOK, Due, Embryonic, SameQueue, SameSocket
<1>17. RegisterOK(t)
  <2>1. \A x : Hashed(t, x) <=> Hashed(s, x)
    BY <1>5 DEF Hashed, ChildHashed, SameTables, SameQueue
  <2> QED BY <1>1, <1>5, <2>1, RegisterFrame DEF SameTables, SameSocket
<1> QED BY <1>5, <1>7, <1>11, <1>13, <1>14, <1>15, <1>16, <1>17 DEF HostInv, t, u

(* A bucket starts its TIME-WAIT anew. *)
LEMMA RescheduleOK ==
  ASSUME NEW s, HostInv(s), NEW p \in Peers, InTimeWait(s, p), s.run = "none"
  PROVE  HostInv(atcp_tw_reschedule(s, p)) /\ NoneEnds(s, atcp_tw_reschedule(s, p))
<1> USE ConstantFacts
<1> DEFINE d == DeathSlot(s)
           u == OffRow(s, p)
           t == OnRow(u, p)
<1>1. HostOK(s) /\ QueueOK(s) /\ TimerOK(s) /\ RowsOK(s) /\ CountOK(s) /\ AgesOK(s) /\ RegisterOK(s)
  BY DEF HostInv
<1>2. HostFields \subseteq DOMAIN s /\ RowTypes(s)
  BY <1>1 DEF HostOK
<1>3. d \in Rows /\ Ahead(s, d) = Slots - 1
  BY <1>2, SlotFacts DEF RowTypes
<1>4. /\ DOMAIN u = DOMAIN s /\ u.row = [i \in Rows |-> s.row[i] \ {p}]
      /\ \A f \in HostFields \ {"row"} : u[f] = s[f]
  BY <1>2 DEF OffRow, HostFields, RowTypes
<1>5. DeathSlot(u) = d
  BY <1>4 DEF DeathSlot, HostFields
<1> HIDE DEF d, u
<1>6. /\ DOMAIN t = DOMAIN s /\ t.age = [s.age EXCEPT ![p] = 0]
      /\ t.row = [u.row EXCEPT ![d] = @ \cup {p}]
      /\ \A f \in HostFields \ {"age", "row"} : t[f] = u[f]
  BY <1>2, <1>4, <1>5 DEF OnRow, HostFields
<1>7. t = atcp_tw_reschedule(s, p)
  BY DEF atcp_tw_reschedule, u
<1> HIDE DEF t
<1>8. /\ SameSocket(s, t) /\ SameQueue(s, t) /\ SameTables(s, t) /\ SameTimer(s, t)
      /\ t.slot = s.slot
  BY <1>4, <1>6 DEF HostFields, SameSocket, SameQueue, SameTables, SameTimer
<1>9. HostOK(t)
  <2>1. RowTypes(t)
    BY <1>2, <1>3, <1>4, <1>6, <1>8 DEF RowTypes
  <2> QED BY <1>1, <1>2, <1>6, <1>8, <2>1
          DEF HostOK, SocketTypes, QueueTypes, TableTypes, TimerTypes,
              SameSocket, SameQueue, SameTables, SameTimer
<1>10. \A x \in Peers : InTimeWait(t, x) <=> InTimeWait(s, x)
  BY <1>2, <1>6 DEF InTimeWait, RowTypes
<1>11. \A i \in Rows : \A x : x \in t.row[i] <=> (x # p /\ x \in s.row[i]) \/ (x = p /\ i = d)
  BY <1>3, <1>4, <1>6
<1>12. CountOK(t)
  <2>1. Waiting(t) = Waiting(s)
    BY <1>10 DEF Waiting
  <2> QED BY <1>1, <1>8, <2>1 DEF CountOK, SameTimer
<1>13. RowsOK(t)
  BY <1>1, <1>3, <1>10, <1>11 DEF RowsOK
<1>14. AgesOK(t)
  <2> SUFFICES ASSUME NEW i \in Rows, NEW x \in t.row[i]
               PROVE  /\ (Slots - 1) * TwkillPeriod < Lifetime(t, x, i)
                      /\ Lifetime(t, x, i) <= Slots * TwkillPeriod
    BY DEF AgesOK
  <2>1. CASE x = p
    <3>1. i = d /\ t.age[x] = 0 /\ Ahead(t, i) = Slots - 1
      BY <1>2, <1>3, <1>6, <1>8, <1>11, <2>1 DEF RowTypes, Ahead
    <3>2. t.last["TWKILL"] \in 0..(TwkillPeriod - 1)
      <4>1. s.count["TWKILL"] # 0
        <5>1. p \in Waiting(s)
          BY DEF Waiting
        <5> QED BY <1>1, <5>1, FS_EmptySet DEF CountOK
      <4> QED BY <1>1, <1>8, <4>1, PeriodNotOver DEF SameTimer
    <3>3. (Slots - 1) * TwkillPeriod = Slots * TwkillPeriod - TwkillPeriod
          /\ Slots * TwkillPeriod \in Int
      BY OnePeriodLess
    <3>4. Lifetime(t, x, i) = 0 + (Slots - 1) * TwkillPeriod + (TwkillPeriod - t.last["TWKILL"])
      BY <3>1 DEF Lifetime
    <3> DEFINE W == Slots * TwkillPeriod
    <3>5. W \in Int /\ Lifetime(t, x, i) = W - TwkillPeriod + (TwkillPeriod - t.last["TWKILL"])
          /\ (Slots - 1) * TwkillPeriod = W - TwkillPeriod
      BY <3>3, <3>4
    <3> HIDE DEF W
    <3>6. W - TwkillPeriod < Lifetime(t, x, i) /\ Lifetime(t, x, i) <= W
      BY <3>2, <3>5
    <3> QED BY <3>5, <3>6 DEF W
  <2>2. CASE x # p
    <3>1. x \in s.row[i] /\ x \in Peers
      BY <1>2, <1>11, <2>2 DEF RowTypes
    <3>2. t.age[x] = s.age[x]
      BY <1>2, <1>6, <2>2, <3>1 DEF RowTypes
    <3>3. Lifetime(t, x, i) = Lifetime(s, x, i)
      BY <1>8, <3>2 DEF Lifetime, Ahead, SameTimer
    <3> QED BY <1>1, <3>1, <3>3 DEF AgesOK
  <2> QED BY <2>1, <2>2
<1>15. QueueOK(t) /\ TimerOK(t)
  BY <1>1, <1>8 DEF QueueOK, TimerOK, Due, Embryonic, WithChild, SameSocket, SameQueue, SameTimer
<1>16. RegisterOK(t)
  <2>1. \A x : Hashed(t, x) <=> Hashed(s, x)
    BY <1>8 DEF Hashed, ChildHashed, SameTables, SameQueue
  <2> QED BY <1>1, <1>8, <2>1, RegisterFrame DEF SameTables, SameSocket
<1> QED BY <1>7, <1>9, <1>10, <1>12, <1>13, <1>14, <1>15, <1>16 DEF HostInv, NoneEnds

(***************************************************************************)
(* The tables.                                                             *)
(***************************************************************************)
(* A connection leaves the tables and the register. *)
LEMMA UnhashOK ==
  ASSUME NEW s, HostInv(s), NEW p \in Peers
  PROVE  LET t == atcp_v4_unhash(s, p)
         IN HostInv(t) /\ SameSocket(s, t) /\ SameRow(s, t) /\ SameTimer(s, t)
<1> USE ConstantFacts
<1> DEFINE gone(i) == s.synq[i].peer = p /\ s.synq[i].child = "ESTABLISHED"
           q == [i \in DOMAIN s.synq |-> IF gone(i) THEN [s.synq[i] EXCEPT !.child = "CLOSE"]
                                         ELSE s.synq[i]]
           z == atcp_reg_zap(s, p)
           t == atcp_v4_unhash(s, p)
<1>1. HostOK(s) /\ QueueOK(s) /\ TimerOK(s) /\ RowsOK(s) /\ CountOK(s) /\ AgesOK(s) /\ RegisterOK(s)
  BY DEF HostInv
<1>2. HostFields \subseteq DOMAIN s /\ QueueTypes(s) /\ TableTypes(s)
  BY <1>1 DEF HostOK
<1>3. /\ DOMAIN z = DOMAIN s /\ z.rhash = (IF s.rhash = p THEN NoOne ELSE s.rhash)
      /\ \A f \in HostFields \ {"rhash"} : z[f] = s[f]
  BY <1>2 DEF atcp_reg_zap, HostFields
<1>4. t = [z EXCEPT !.conn[p] = "none", !.synq = q]
  <2>1. z.synq = s.synq
    BY <1>3 DEF HostFields
  <2> QED BY <2>1 DEF atcp_v4_unhash
<1> HIDE DEF z, t
<1>5. /\ DOMAIN t = DOMAIN s /\ t.conn = [s.conn EXCEPT ![p] = "none"] /\ t.synq = q
      /\ \A f \in HostFields \ {"conn", "synq"} : t[f] = z[f]
  BY <1>2, <1>3, <1>4 DEF HostFields
<1>6. /\ SameSocket(s, t) /\ SameRow(s, t) /\ SameTimer(s, t) /\ t.rhash = z.rhash
      /\ t.syn_backlog = s.syn_backlog /\ t.ack_backlog = s.ack_backlog
  BY <1>3, <1>5 DEF HostFields, SameSocket, SameRow, SameTimer
<1>7. q \in Seq(Request) /\ Len(q) = Len(s.synq) /\ DOMAIN q = DOMAIN s.synq
  <2>1. \A i \in 1..Len(s.synq) : s.synq[i] \in Request
    BY <1>2 DEF QueueTypes
  <2>2. \A i \in 1..Len(s.synq) : q[i] \in Request
    BY <2>1, SMTT(30) DEF Request, Children
  <2>3. DOMAIN s.synq = 1..Len(s.synq) /\ Len(s.synq) \in Nat
    BY <1>2 DEF QueueTypes
  <2>4. q \in [1..Len(s.synq) -> Request]
    BY <2>2, <2>3
  <2> HIDE DEF q
  <2> QED BY <2>3, <2>4
<1>8. \A i \in DOMAIN q : /\ q[i].peer = s.synq[i].peer
                          /\ q[i].child = IF gone(i) THEN "CLOSE" ELSE s.synq[i].child
  <2>1. \A i \in DOMAIN s.synq : s.synq[i] \in Request
    BY <1>2 DEF QueueTypes
  <2> QED BY <2>1 DEF Request
<1> HIDE DEF q
<1>9. Embryonic(t) = Embryonic(s)
  <2>1. \A i \in 1..Len(s.synq) : s.synq[i].child = "none" <=> q[i].child = "none"
    BY <1>2, <1>7, <1>8 DEF QueueTypes
  <2> QED BY <1>2, <1>5, <1>7, <2>1, EmbryosSame DEF Embryonic, QueueTypes
<1>10. HostOK(t)
  <2>1. QueueTypes(t)
    BY <1>2, <1>5, <1>6, <1>7 DEF QueueTypes
  <2>2. TableTypes(t)
    BY <1>2, <1>3, <1>5, <1>6 DEF TableTypes
  <2> QED BY <1>1, <1>2, <1>5, <1>6, <2>1, <2>2
          DEF HostOK, SocketTypes, RowTypes, TimerTypes, SameSocket, SameRow, SameTimer
<1>11. QueueOK(t)
  <2>1. s.synq = <<>> => q = <<>>
    BY <1>7
  <2> QED BY <1>1, <1>5, <1>6, <1>7, <1>9, <2>1 DEF QueueOK, WithChild, SameSocket
<1>12. TimerOK(t)
  BY <1>1, <1>6, <1>9 DEF TimerOK, Due, SameSocket, SameTimer
<1>13. RowsOK(t) /\ CountOK(t) /\ AgesOK(t)
  BY <1>1, <1>6, DeathRowFrame DEF SameRow, SameTimer
<1>14. RegisterOK(t)
  <2>1. \A x : ChildHashed(t, x) <=> x # p /\ ChildHashed(s, x)
    BY <1>5, <1>7, <1>8 DEF ChildHashed
  <2>2. \A x \in Peers : Hashed(t, x) <=> x # p /\ Hashed(s, x)
    BY <1>2, <1>5, <2>1 DEF Hashed, TableTypes
  <2>3. s.back_log \in Seq(Segment)
    BY <1>1 DEF HostOK, SocketTypes
  <2>4. \A i \in DOMAIN s.back_log : s.back_log[i].peer \in Peers
    <3>1. \A i \in DOMAIN s.back_log : s.back_log[i] \in Segment
      BY <2>3
    <3> QED BY <3>1 DEF Segment
  <2>5. t.rhash = (IF s.rhash = p THEN NoOne ELSE s.rhash) /\ s.rhash \in Peers \cup {NoOne}
    BY <1>2, <1>3, <1>6 DEF TableTypes
  <2>6. t.back_log = s.back_log /\ t.holder = s.holder
    BY <1>6 DEF SameSocket
  <2> QED BY <1>1, <2>2, <2>4, <2>5, <2>6 DEF RegisterOK
<1> QED BY <1>6, <1>10, <1>11, <1>12, <1>13, <1>14 DEF HostInv, t

(* A connection ends in a bucket. *)
LEMMA TimeWaitOK ==
  ASSUME NEW s, HostInv(s), NEW p \in Peers, ~InTimeWait(s, p), s.run = "none"
  PROVE  HostInv(atcp_time_wait(s, p)) /\ NoneEnds(s, atcp_time_wait(s, p))
<1> DEFINE u == atcp_v4_unhash(s, p)
<1>1. HostInv(u) /\ u.run = "none" /\ ~InTimeWait(u, p)
  BY UnhashOK DEF SameRow, SameTimer, InTimeWait
<1>2. HostInv(atcp_tw_schedule(u, p)) /\ NoneEnds(u, atcp_tw_schedule(u, p))
  BY <1>1, ScheduleOK
<1>3. NoneEnds(s, u)
  BY UnhashOK DEF SameRow, InTimeWait, NoneEnds
<1> QED BY <1>2, <1>3 DEF atcp_time_wait, NoneEnds

(* What the search found goes into the register. *)
LEMMA CachedOK ==
  ASSUME NEW s, HostInv(s), NEW p \in Peers, s.holder # "none" \/ s.back_log = <<>>
  PROVE  HostInv(Cached(s, p)) /\ NoneEnds(s, Cached(s, p)) /\ Cached(s, p).run = s.run
<1> USE ConstantFacts
<1>1. CASE ~Hashed(s, p)
  BY <1>1 DEF Cached, NoneEnds
<1>2. CASE Hashed(s, p)
  <2> DEFINE t == [s EXCEPT !.rhash = p]
  <2>1. t = Cached(s, p)
    BY <1>2 DEF Cached
  <2>2. HostOK(s) /\ QueueOK(s) /\ TimerOK(s) /\ RowsOK(s) /\ CountOK(s) /\ AgesOK(s) /\ RegisterOK(s)
    BY DEF HostInv
  <2>3. HostFields \subseteq DOMAIN s
    BY <2>2 DEF HostOK
  <2>4. DOMAIN t = DOMAIN s /\ t.rhash = p /\ \A f \in HostFields \ {"rhash"} : t[f] = s[f]
    BY <2>3 DEF HostFields
  <2> HIDE DEF t
  <2>5. SameSocket(s, t) /\ SameQueue(s, t) /\ SameRow(s, t) /\ SameTimer(s, t) /\ t.conn = s.conn
    BY <2>4 DEF HostFields, SameSocket, SameQueue, SameRow, SameTimer
  <2>6. HostOK(t)
    BY <2>2, <2>3, <2>4, <2>5 DEF HostOK, SocketTypes, QueueTypes, TableTypes, RowTypes,
       TimerTypes, SameSocket, SameQueue, SameRow, SameTimer
  <2>7. QueueOK(t) /\ TimerOK(t)
    BY <2>2, <2>5 DEF QueueOK, TimerOK, Due, Embryonic, WithChild, SameSocket, SameQueue, SameTimer
  <2>8. RowsOK(t) /\ CountOK(t) /\ AgesOK(t)
    BY <2>2, <2>5, DeathRowFrame DEF SameRow, SameTimer
  <2>9. RegisterOK(t)
    <3>1. \A x : Hashed(t, x) <=> Hashed(s, x)
      BY <2>5 DEF Hashed, ChildHashed, SameQueue
    <3> QED BY <1>2, <2>2, <2>4, <2>5, <3>1 DEF RegisterOK, SameSocket
  <2>10. NoneEnds(s, t) /\ t.run = s.run
    BY <2>5 DEF NoneEnds, InTimeWait, SameRow, SameTimer
  <2> QED BY <2>1, <2>6, <2>7, <2>8, <2>9, <2>10 DEF HostInv
<1> QED BY <1>1, <1>2

(***************************************************************************)
(* A segment.                                                              *)
(***************************************************************************)
(* A segment for a bucket may start its TIME-WAIT anew or end it. *)
LEMMA TimewaitSegmentOK ==
  ASSUME NEW s, HostInv(s), s.run = "none", NEW g \in Segment, InTimeWait(s, g.peer)
  PROVE  LET t == atcp_timewait_state_process(s, g)
         IN HostInv(t) /\ (g.kind = "ACK" => NoneEnds(s, t))
<1> DEFINE p == g.peer
           killed == atcp_timewait_kill(atcp_tw_deschedule(s, p), p)
<1>1. p \in Peers /\ g.kind \in {"SYN", "OLDSYN", "ACK", "RST"}
  BY DEF Segment
<1>2. HostInv(killed) /\ killed.state = s.state /\ killed.run = "none"
  BY <1>1, KilledOK DEF SameSocket
<1>3. s.state = "LISTEN" => HostInv(atcp_v4_conn_request(killed, p))
  <2> HIDE DEF killed
  <2> QED BY <1>1, <1>2, ConnRequestOK
<1>4. LET t == atcp_tw_reschedule(s, p) IN HostInv(t) /\ NoneEnds(s, t)
  BY <1>1, RescheduleOK
<1>5. CASE g.kind = "SYN"
  BY <1>2, <1>3, <1>5 DEF atcp_timewait_state_process
<1>6. CASE g.kind = "ACK"
  BY <1>4, <1>6 DEF atcp_timewait_state_process
<1>7. CASE g.kind \in {"OLDSYN", "RST"}
  BY <1>2, <1>7 DEF atcp_timewait_state_process
<1> QED BY <1>1, <1>5, <1>6, <1>7

(* A segment for a listener somebody holds waits. *)
LEMMA BackLogOK ==
  ASSUME NEW s, HostInv(s), s.run = "none", s.holder # "none", NEW g \in Segment,
         g.peer # s.rhash, ~Hashed(s, g.peer)
  PROVE  LET t == [s EXCEPT !.back_log = Append(@, g)] IN HostInv(t) /\ NoneEnds(s, t)
<1> DEFINE t == [s EXCEPT !.back_log = Append(@, g)]
<1>1. HostOK(s) /\ QueueOK(s) /\ TimerOK(s) /\ RowsOK(s) /\ CountOK(s) /\ AgesOK(s) /\ RegisterOK(s)
  BY DEF HostInv
<1>2. HostFields \subseteq DOMAIN s /\ s.back_log \in Seq(Segment)
  BY <1>1 DEF HostOK, SocketTypes
<1>3. /\ DOMAIN t = DOMAIN s /\ t.back_log = Append(s.back_log, g)
      /\ \A f \in HostFields \ {"back_log"} : t[f] = s[f]
  BY <1>2 DEF HostFields
<1> HIDE DEF t
<1>4. /\ SameQueue(s, t) /\ SameTables(s, t) /\ SameRow(s, t) /\ SameTimer(s, t)
      /\ t.state = s.state /\ t.holder = s.holder
  BY <1>3 DEF HostFields, SameQueue, SameTables, SameRow, SameTimer
<1>5. HostOK(t)
  <2>1. SocketTypes(t)
    BY <1>1, <1>2, <1>3, <1>4 DEF HostOK, SocketTypes
  <2> QED BY <1>1, <1>2, <1>3, <1>4, <2>1
          DEF HostOK, QueueTypes, TableTypes, RowTypes, TimerTypes,
              SameQueue, SameTables, SameRow, SameTimer
<1>6. QueueOK(t) /\ TimerOK(t)
  BY <1>1, <1>4 DEF QueueOK, TimerOK, Due, Embryonic, WithChild, SameQueue, SameTimer
<1>7. RowsOK(t) /\ CountOK(t) /\ AgesOK(t)
  BY <1>1, <1>4, DeathRowFrame DEF SameRow, SameTimer
<1>8. RegisterOK(t)
  <2>1. \A x : Hashed(t, x) <=> Hashed(s, x)
    BY <1>4 DEF Hashed, ChildHashed, SameTables, SameQueue
  <2>2. \A i \in DOMAIN t.back_log : t.back_log[i] = g \/ 
          (i \in DOMAIN s.back_log /\ t.back_log[i] = s.back_log[i])
    BY <1>2, <1>3
  <2> QED BY <1>1, <1>4, <2>1, <2>2 DEF RegisterOK, SameTables
<1>9. NoneEnds(s, t)
  BY <1>4 DEF NoneEnds, InTimeWait, SameRow
<1> QED BY <1>5, <1>6, <1>7, <1>8, <1>9 DEF HostInv, t

(* The host after a segment that came when nothing else was to do. *)
LEMMA RcvOK ==
  ASSUME NEW s, HostInv(s), s.run = "none", s.holder # "none" \/ s.back_log = <<>>,
         NEW g \in Segment
  PROVE  LET t == atcp_v4_rcv(s, g)
         IN HostInv(t) /\ (g.kind = "ACK" => NoneEnds(s, t))
<1> DEFINE p == g.peer
           c == Cached(s, p)
           t == atcp_v4_rcv(s, g)
<1>1. p \in Peers
  BY DEF Segment
<1>2. HostInv(c) /\ NoneEnds(s, c)
  BY <1>1, CachedOK
<1>3. HostInv(atcp_v4_unhash(c, p))
  <2> HIDE DEF c
  <2> QED BY <1>1, <1>2, UnhashOK
<1>4. CASE Found(s, p) = "connection"
  <2>1. t = IF g.kind = "RST" THEN atcp_v4_unhash(c, p) ELSE c
    BY <1>4 DEF atcp_v4_rcv
  <2> QED BY <1>2, <1>3, <2>1
<1>5. CASE Found(s, p) = "bucket"
  <2>1. t = atcp_timewait_state_process(s, g)
    BY <1>5 DEF atcp_v4_rcv
  <2>2. InTimeWait(s, p)
    BY <1>5 DEF Found
  <2> QED BY <2>1, <2>2, TimewaitSegmentOK
<1>6. CASE Found(s, p) = "listener"
  <2>1. p # s.rhash /\ ~Hashed(s, p)
    BY <1>6 DEF Found
  <2>2. t = IF s.holder # "none" THEN [s EXCEPT !.back_log = Append(@, g)]
            ELSE atcp_v4_do_rcv(s, g)
    BY <1>6 DEF atcp_v4_rcv
  <2>3. CASE s.holder # "none"
    BY <2>1, <2>2, <2>3, BackLogOK
  <2>4. CASE s.holder = "none"
    BY <2>1, <2>2, <2>4, DoRcvOK
  <2> QED BY <2>3, <2>4
<1>7. CASE Found(s, p) = "nothing"
  <2>1. t = s
    BY <1>7 DEF atcp_v4_rcv
  <2> QED BY <2>1 DEF NoneEnds
<1>8. Found(s, p) \in {"connection", "bucket", "listener", "nothing"}
  BY DEF Found
<1> QED BY <1>4, <1>5, <1>6, <1>7, <1>8

(***************************************************************************)
(* The user.                                                               *)
(***************************************************************************)
(* Somebody holds the listener, or lets go of it.                          *)
LEMMA HolderOK ==
  ASSUME NEW s, HostInv(s), s.run = "none", NEW x \in {"none", "accept", "close"},
         x = "none" \/ s.back_log = <<>>
  PROVE  LET t == [s EXCEPT !.holder = x] IN HostInv(t) /\ NoneEnds(s, t)
<1> DEFINE t == [s EXCEPT !.holder = x]
<1>1. HostOK(s) /\ QueueOK(s) /\ TimerOK(s) /\ RowsOK(s) /\ CountOK(s) /\ AgesOK(s) /\ RegisterOK(s)
  BY DEF HostInv
<1>2. HostFields \subseteq DOMAIN s
  BY <1>1 DEF HostOK
<1>3. DOMAIN t = DOMAIN s /\ t.holder = x /\ \A f \in HostFields \ {"holder"} : t[f] = s[f]
  BY <1>2 DEF HostFields
<1> HIDE DEF t
<1>4. /\ SameQueue(s, t) /\ SameTables(s, t) /\ SameRow(s, t) /\ SameTimer(s, t)
      /\ t.state = s.state /\ t.back_log = s.back_log
  BY <1>3 DEF HostFields, SameQueue, SameTables, SameRow, SameTimer
<1>5. HostOK(t)
  BY <1>1, <1>2, <1>3, <1>4
     DEF HostOK, SocketTypes, QueueTypes, TableTypes, RowTypes, TimerTypes,
         SameQueue, SameTables, SameRow, SameTimer
<1>6. QueueOK(t) /\ TimerOK(t)
  BY <1>1, <1>4 DEF QueueOK, TimerOK, Due, Embryonic, WithChild, SameQueue, SameTimer
<1>7. RowsOK(t) /\ CountOK(t) /\ AgesOK(t)
  BY <1>1, <1>4, DeathRowFrame DEF SameRow, SameTimer
<1>8. RegisterOK(t)
  <2>1. \A y : Hashed(t, y) <=> Hashed(s, y)
    BY <1>4 DEF Hashed, ChildHashed, SameTables, SameQueue
  <2> QED BY <1>1, <1>3, <1>4, <2>1 DEF RegisterOK, SameTables
<1>9. NoneEnds(s, t)
  BY <1>4 DEF NoneEnds, InTimeWait, SameRow
<1> QED BY <1>5, <1>6, <1>7, <1>8, <1>9 DEF HostInv, t

(* The first request with a socket becomes the user's connection. *)
LEMMA AcceptOK ==
  ASSUME NEW s, HostInv(s)
  PROVE  LET t == atcp_accept(s)
         IN HostInv(t) /\ NoneEnds(s, t) /\ t.run = s.run /\ t.back_log = s.back_log
<1> DEFINE I == {j \in 1..Len(s.synq) : s.synq[j].child # "none"}
           i == IF I # {} THEN Min(I) ELSE 0
           q == s.synq[i].peer
           t == [s EXCEPT !.synq = RemoveAt(@, i), !.ack_backlog = @ - 1,
                          !.conn[q] = IF s.synq[i].child = "ESTABLISHED" THEN "ESTABLISHED" ELSE @]
<1>1. atcp_accept(s) = IF i = 0 THEN s ELSE t
  BY DEF atcp_accept, SelectInSeq
<1>2. HostFields \subseteq DOMAIN s /\ QueueTypes(s) /\ TableTypes(s)
  BY DEF HostInv, HostOK
<1>3. i # 0 => i \in DOMAIN s.synq /\ s.synq[i].child # "none"
  <2>1. I \subseteq Nat /\ I \subseteq DOMAIN s.synq
    BY <1>2 DEF QueueTypes
  <2> QED BY <2>1, MinInSet
<1> HIDE DEF i, I
<1>4. CASE i = 0
  BY <1>1, <1>4 DEF NoneEnds
<1>5. CASE i # 0
  <2>1. s.synq[i] \in Request /\ i \in DOMAIN s.synq /\ s.synq[i].child # "none"
    BY <1>2, <1>3, <1>5 DEF QueueTypes
  <2>2. q \in Peers
    BY <2>1 DEF Request
  <2> HIDE DEF q
  <2>3. /\ DOMAIN t = DOMAIN s /\ t.synq = RemoveAt(s.synq, i)
        /\ t.ack_backlog = s.ack_backlog - 1
        /\ t.conn = [s.conn EXCEPT ![q] = IF s.synq[i].child = "ESTABLISHED" THEN "ESTABLISHED" ELSE @]
        /\ \A f \in HostFields \ {"synq", "ack_backlog", "conn"} : t[f] = s[f]
    BY <1>2 DEF HostFields
  <2> HIDE DEF t
  <2>4. /\ SameSocket(s, t) /\ SameRow(s, t) /\ SameTimer(s, t) /\ t.rhash = s.rhash
        /\ t.syn_backlog = s.syn_backlog
    BY <2>3 DEF HostFields, SameSocket, SameRow, SameTimer
  <2>5. \A x \in Peers : t.conn[x] = IF x = q /\ s.synq[i].child = "ESTABLISHED"
                                     THEN "ESTABLISHED" ELSE s.conn[x]
    BY <1>2, <2>2, <2>3 DEF TableTypes
  <2>6. TableTypes(t)
    BY <1>2, <2>2, <2>3, <2>4 DEF TableTypes
  <2>7. \A x \in Peers : t.conn[x] = "ESTABLISHED" => Hashed(s, x)
    BY <2>1, <2>5 DEF Hashed, ChildHashed, q
  <2>8. Hashed(s, s.rhash) => Hashed(t, s.rhash)
    <3>1. SUFFICES ASSUME Hashed(s, s.rhash) PROVE Hashed(t, s.rhash)
      OBVIOUS
    <3>2. CASE s.rhash \in Peers
      <4>1. ChildHashed(s, s.rhash) /\ (s.synq[i].child # "ESTABLISHED" \/ q # s.rhash)
              => ChildHashed(t, s.rhash)
        BY <1>2, <2>1, <2>3, ChildrenLeft DEF QueueTypes, q
      <4> QED BY <2>5, <3>1, <3>2, <4>1 DEF Hashed
    <3>3. CASE s.rhash \notin Peers
      <4>1. t.conn[s.rhash] = s.conn[s.rhash]
        <5>1. s.rhash # q
          BY <2>2, <3>3
        <5> QED BY <1>2, <2>2, <2>3, <5>1 DEF TableTypes
      <4>2. ChildHashed(s, s.rhash) => ChildHashed(t, s.rhash)
        <5>1. s.rhash # q
          BY <2>2, <3>3
        <5> QED BY <1>2, <2>1, <2>3, <5>1, ChildrenLeft DEF QueueTypes, q
      <4> QED BY <3>1, <4>1, <4>2 DEF Hashed
    <3> QED BY <3>2, <3>3
  <2>9. HostFields \subseteq DOMAIN t
    BY <1>2, <2>3
  <2>10. /\ t.syn_backlog = s.syn_backlog - (IF s.synq[i].child = "none" THEN 1 ELSE 0)
         /\ t.ack_backlog = s.ack_backlog - (IF s.synq[i].child = "none" THEN 0 ELSE 1)
    BY <1>2, <2>1, <2>3, <2>4 DEF QueueTypes
  <2>11. HostInv(t)
    BY <2>1, <2>3, <2>4, <2>6, <2>7, <2>8, <2>9, <2>10, RequestLeaves
  <2>12. NoneEnds(s, t) /\ t.run = s.run /\ t.back_log = s.back_log
    BY <2>4 DEF NoneEnds, InTimeWait, SameRow, SameTimer, SameSocket
  <2> QED BY <1>1, <1>5, <2>11, <2>12 DEF t
<1> QED BY <1>4, <1>5

(* The listener closes. *)
LEMMA CloseOK ==
  ASSUME NEW s, HostInv(s), s.run = "none", s.back_log = <<>>
  PROVE  LET t == [atcp_close_pending([s EXCEPT !.state = "CLOSE"]) EXCEPT !.holder = "close"]
         IN HostInv(t) /\ NoneEnds(s, t)
<1> USE ConstantFacts
<1> DEFINE c == [s EXCEPT !.state = "CLOSE"]
           u == atcp_close_pending(c)
           t == [u EXCEPT !.holder = "close"]
<1>1. HostOK(s) /\ QueueOK(s) /\ TimerOK(s) /\ RowsOK(s) /\ CountOK(s) /\ AgesOK(s) /\ RegisterOK(s)
  BY DEF HostInv
<1>2. HostFields \subseteq DOMAIN s /\ QueueTypes(s) /\ TableTypes(s) /\ TimerTypes(s)
  BY <1>1 DEF HostOK
<1>3. DOMAIN c = DOMAIN s /\ c.state = "CLOSE" /\ \A f \in HostFields \ {"state"} : c[f] = s[f]
  BY <1>2 DEF HostFields
<1> HIDE DEF c
<1>4. /\ c.synq = s.synq /\ c.conn = s.conn /\ c.count = s.count /\ c.under = s.under
      /\ c.ack_backlog = s.ack_backlog
  BY <1>3 DEF HostFields
<1>5. WithChild(c) = WithChild(s) /\ \A p : ChildHashed(c, p) <=> ChildHashed(s, p)
  BY <1>4 DEF WithChild, Embryonic, ChildHashed
<1>6. /\ DOMAIN u = DOMAIN c
      /\ u.conn = [p \in Peers |-> IF ChildHashed(s, p) THEN "ESTABLISHED" ELSE s.conn[p]]
      /\ u.count = [s.count EXCEPT !["SYNACK"] = @ - Len(s.synq)]
      /\ u.ack_backlog = s.ack_backlog - Len(s.synq)
      /\ u.synq = <<>> /\ u.under = s.under + WithChild(s)
      /\ \A f \in HostFields \ {"conn", "count", "ack_backlog", "synq", "under"} : u[f] = c[f]
  BY <1>2, <1>3, <1>4, <1>5 DEF atcp_close_pending, HostFields
<1> HIDE DEF u
<1>7. /\ DOMAIN t = DOMAIN s /\ t.holder = "close"
      /\ \A f \in HostFields \ {"holder"} : t[f] = u[f]
  BY <1>2, <1>3, <1>6 DEF HostFields
<1> HIDE DEF t
<1>8. /\ t.state = "CLOSE" /\ t.back_log = <<>> /\ t.synq = <<>>
      /\ t.conn = u.conn /\ t.count = u.count /\ t.ack_backlog = u.ack_backlog /\ t.under = u.under
      /\ t.syn_backlog = s.syn_backlog /\ t.rhash = s.rhash /\ SameRow(s, t)
      /\ t.last = s.last /\ t.timer = s.timer /\ t.run = "none"
  BY <1>3, <1>6, <1>7 DEF HostFields, SameRow
<1>9. /\ Len(s.synq) \in Nat /\ Embryonic(s) \in 0..Len(s.synq)
      /\ WithChild(s) = Len(s.synq) - Embryonic(s)
  BY <1>2, EmbryosFinite DEF QueueTypes, Embryonic, WithChild
<1>10. /\ t.count["SYNACK"] = s.count["SYNACK"] - Len(s.synq)
       /\ t.count["TWKILL"] = s.count["TWKILL"] /\ t.count \in [Timers -> Int]
       /\ s.count["SYNACK"] \in Int /\ s.under \in Nat
       /\ t.under = s.under + (Len(s.synq) - Embryonic(s))
  <2>1. s.count \in [Timers -> Int] /\ s.under \in Nat
    BY <1>2 DEF TimerTypes
  <2>2. t.count = [s.count EXCEPT !["SYNACK"] = @ - Len(s.synq)]
    BY <1>6, <1>8
  <2>3. s.count["SYNACK"] \in Int /\ s.count["SYNACK"] - Len(s.synq) \in Int
    BY <1>9, <2>1
  <2>4. t.under = s.under + (Len(s.synq) - Embryonic(s))
    BY <1>6, <1>8, <1>9
  <2> QED BY <2>1, <2>2, <2>3, <2>4
<1>11. Embryonic(t) = 0
  <2>1. Embryos(t.synq) = {}
    BY <1>8 DEF Embryos
  <2> QED BY <2>1, FS_EmptySet DEF Embryonic
<1>12. HostOK(t)
  <2>1. SocketTypes(t)
    BY <1>7, <1>8 DEF SocketTypes
  <2>2. QueueTypes(t)
    BY <1>2, <1>6, <1>8, <1>9 DEF QueueTypes
  <2>3. TableTypes(t)
    BY <1>2, <1>6, <1>8 DEF TableTypes
  <2>4. TimerTypes(t)
    BY <1>2, <1>8, <1>9, <1>10 DEF TimerTypes
  <2> QED BY <1>1, <1>2, <1>7, <1>8, <2>1, <2>2, <2>3, <2>4 DEF HostOK, RowTypes, SameRow
<1>13. QueueOK(t)
  BY <1>8 DEF QueueOK
<1>14. TimerOK(t)
  <2> DEFINE n == Len(s.synq)
             e == Embryonic(s)
             c0 == s.count["SYNACK"]
  <2>0. /\ n \in Nat /\ e \in Nat /\ e <= n /\ c0 \in Int /\ s.under \in Nat
        /\ c0 + s.under >= e
        /\ t.count["SYNACK"] = c0 - n /\ t.under = s.under + (n - e)
    BY <1>1, <1>9, <1>10 DEF TimerOK
  <2> HIDE DEF n, e, c0
  <2>1. t.count["SYNACK"] + t.under >= 0
    BY <2>0
  <2>2. t.count["SYNACK"] > 0 => s.count["SYNACK"] > 0
    <3>1. c0 - n > 0 => c0 > 0
      BY <2>0
    <3> QED BY <2>0, <3>1 DEF c0
  <2> QED BY <1>1, <1>8, <1>10, <1>11, <2>1, <2>2 DEF TimerOK
<1>15. RowsOK(t) /\ CountOK(t) /\ AgesOK(t)
  BY <1>1, <1>8, <1>10, DeathRowFrame DEF SameRow
<1>16. RegisterOK(t)
  <2>1. \A x \in Peers : Hashed(s, x) => Hashed(t, x)
    BY <1>6, <1>8 DEF Hashed
  <2>2. s.rhash \in Peers \cup {NoOne}
    BY <1>2 DEF TableTypes
  <2>3. DOMAIN t.back_log = {}
    BY <1>8
  <2> QED BY <1>1, <1>8, <2>1, <2>2, <2>3 DEF RegisterOK
<1>17. NoneEnds(s, t)
  BY <1>8 DEF NoneEnds, InTimeWait, SameRow
<1> QED BY <1>12, <1>13, <1>14, <1>15, <1>16, <1>17 DEF HostInv, t, u, c

(* What was closed listens. *)
LEMMA ListenOK ==
  ASSUME NEW s, HostInv(s), s.state = "CLOSE", s.run = "none"
  PROVE  HostInv([s EXCEPT !.state = "LISTEN", !.synq = <<>>, !.syn_backlog = 0, !.ack_backlog = 0])
<1> DEFINE t == [s EXCEPT !.state = "LISTEN", !.synq = <<>>, !.syn_backlog = 0, !.ack_backlog = 0]
<1>1. HostOK(s) /\ QueueOK(s) /\ TimerOK(s) /\ RowsOK(s) /\ CountOK(s) /\ AgesOK(s) /\ RegisterOK(s)
  BY DEF HostInv
<1>2. HostFields \subseteq DOMAIN s
  BY <1>1 DEF HostOK
<1>3. s.synq = <<>>
  BY <1>1 DEF QueueOK
<1>4. /\ DOMAIN t = DOMAIN s /\ t.state = "LISTEN" /\ t.synq = <<>>
      /\ t.syn_backlog = 0 /\ t.ack_backlog = 0
      /\ \A f \in HostFields \ {"state", "synq", "syn_backlog", "ack_backlog"} : t[f] = s[f]
  BY <1>2 DEF HostFields
<1> HIDE DEF t
<1>5. /\ SameTables(s, t) /\ SameRow(s, t) /\ SameTimer(s, t)
      /\ t.holder = s.holder /\ t.back_log = s.back_log
  BY <1>4 DEF HostFields, SameTables, SameRow, SameTimer
<1>6. HostOK(t)
  <2>1. SocketTypes(t) /\ QueueTypes(t)
    BY <1>1, <1>4, <1>5 DEF HostOK, SocketTypes, QueueTypes
  <2> QED BY <1>1, <1>2, <1>4, <1>5, <2>1
          DEF HostOK, TableTypes, RowTypes, TimerTypes, SameTables, SameRow, SameTimer
<1>7. Embryonic(t) = 0 /\ Embryonic(s) = 0
  <2>1. Embryos(t.synq) = {} /\ Embryos(s.synq) = {}
    BY <1>3, <1>4 DEF Embryos
  <2> QED BY <2>1, FS_EmptySet DEF Embryonic
<1>8. QueueOK(t) /\ TimerOK(t)
  BY <1>1, <1>4, <1>5, <1>7 DEF QueueOK, TimerOK, Due, WithChild, SameTimer
<1>9. RowsOK(t) /\ CountOK(t) /\ AgesOK(t)
  BY <1>1, <1>5, DeathRowFrame DEF SameRow, SameTimer
<1>10. RegisterOK(t)
  <2>1. \A x : Hashed(t, x) <=> Hashed(s, x)
    BY <1>3, <1>4, <1>5 DEF Hashed, ChildHashed, SameTables
  <2> QED BY <1>1, <1>5, <2>1, RegisterFrame DEF SameTables
<1> QED BY <1>6, <1>8, <1>9, <1>10 DEF HostInv, t

(* The next segment of the back log is taken out. *)
LEMMA DrainOK ==
  ASSUME NEW s, HostInv(s), s.run = "none", s.holder = "none", s.back_log # <<>>
  PROVE  LET t == atcp_v4_do_rcv([s EXCEPT !.back_log = Tail(@)], Head(s.back_log))
         IN HostInv(t) /\ NoneEnds(s, t)
<1> DEFINE u == [s EXCEPT !.back_log = Tail(@)]
           g == Head(s.back_log)
           t == atcp_v4_do_rcv(u, g)
<1>1. HostOK(s) /\ QueueOK(s) /\ TimerOK(s) /\ RowsOK(s) /\ CountOK(s) /\ AgesOK(s) /\ RegisterOK(s)
  BY DEF HostInv
<1>2. HostFields \subseteq DOMAIN s /\ s.back_log \in Seq(Segment)
  BY <1>1 DEF HostOK, SocketTypes
<1>3. /\ DOMAIN u = DOMAIN s /\ u.back_log = Tail(s.back_log)
      /\ \A f \in HostFields \ {"back_log"} : u[f] = s[f]
  BY <1>2 DEF HostFields
<1> HIDE DEF u
<1>4. /\ SameQueue(s, u) /\ SameTables(s, u) /\ SameRow(s, u) /\ SameTimer(s, u)
      /\ u.state = s.state /\ u.holder = "none"
  BY <1>3 DEF HostFields, SameQueue, SameTables, SameRow, SameTimer
<1>5. /\ g \in Segment /\ g = s.back_log[1] /\ 1 \in DOMAIN s.back_log
      /\ Tail(s.back_log) \in Seq(Segment)
      /\ \A i \in DOMAIN Tail(s.back_log) : i + 1 \in DOMAIN s.back_log
                                            /\ Tail(s.back_log)[i] = s.back_log[i + 1]
  BY <1>2
<1> HIDE DEF g
<1>6. HostOK(u)
  <2>1. SocketTypes(u)
    BY <1>1, <1>3, <1>4, <1>5 DEF HostOK, SocketTypes
  <2> QED BY <1>1, <1>2, <1>3, <1>4, <2>1
          DEF HostOK, QueueTypes, TableTypes, RowTypes, TimerTypes,
              SameQueue, SameTables, SameRow, SameTimer
<1>7. QueueOK(u) /\ TimerOK(u)
  BY <1>1, <1>4 DEF QueueOK, TimerOK, Due, Embryonic, WithChild, SameQueue, SameTimer
<1>8. RowsOK(u) /\ CountOK(u) /\ AgesOK(u)
  BY <1>1, <1>4, DeathRowFrame DEF SameRow, SameTimer
<1>9. RegisterOK(u)
  <2>1. \A x : Hashed(u, x) <=> Hashed(s, x)
    BY <1>4 DEF Hashed, ChildHashed, SameTables, SameQueue
  <2> QED BY <1>1, <1>3, <1>4, <1>5, <2>1 DEF RegisterOK, SameTables
<1>10. HostInv(u) /\ u.run = "none" /\ g.peer # u.rhash
  BY <1>1, <1>4, <1>5, <1>6, <1>7, <1>8, <1>9 DEF HostInv, RegisterOK, SameTimer, SameTables
<1>11. HostInv(t) /\ NoneEnds(u, t)
  BY <1>4, <1>5, <1>10, DoRcvOK
<1>12. NoneEnds(s, t)
  BY <1>4, <1>11 DEF NoneEnds, InTimeWait, SameRow
<1> QED BY <1>11, <1>12 DEF t, u, g

(***************************************************************************)
(* The slow timer.                                                         *)
(***************************************************************************)
(* A request that waited too long is dropped, and the slow timer counts    *)
(* one less; or it goes to the end of the queue.                           *)
LEMMA SynRecvOK ==
  ASSUME NEW s, HostInv(s), s.run = "SYNACK", s.state = "LISTEN",
         NEW i \in DOMAIN s.synq, s.synq[i].child = "none"
  PROVE  HostInv(atcp_syn_recv_timer(s, i)) /\ NoneEnds(s, atcp_syn_recv_timer(s, i))
<1> USE ConstantFacts
<1> DEFINE r == s.synq[i]
           off == [s EXCEPT !.synq = RemoveAt(@, i)]
           w == [off EXCEPT !.syn_backlog = @ - 1]
           t == atcp_syn_recv_timer(s, i)
<1>1. HostOK(s) /\ QueueOK(s) /\ TimerOK(s) /\ RowsOK(s) /\ CountOK(s) /\ AgesOK(s) /\ RegisterOK(s)
  BY DEF HostInv
<1>2. HostFields \subseteq DOMAIN s /\ QueueTypes(s) /\ TimerTypes(s)
  BY <1>1 DEF HostOK
<1>3. DOMAIN off = DOMAIN s /\ off.synq = RemoveAt(s.synq, i)
      /\ \A f \in HostFields \ {"synq"} : off[f] = s[f]
  BY <1>2 DEF HostFields
<1>4. r \in Request /\ Len(s.synq) \in Nat /\ s.syn_backlog \in Int /\ s.ack_backlog \in Int
      /\ RemoveAt(s.synq, i) \in Seq(Request)
  BY <1>2, RemoveAtFacts DEF QueueTypes
<1>5. CASE TooOften(r)
  <2>1. t = [atcp_dec_slow_timer(off, "SYNACK") EXCEPT !.syn_backlog = @ - 1]
    BY <1>5 DEF atcp_syn_recv_timer
  <2> HIDE DEF off
  <2>2. /\ DOMAIN w = DOMAIN s /\ w.syn_backlog = s.syn_backlog - 1
        /\ \A f \in HostFields \ {"syn_backlog"} : w[f] = off[f]
    BY <1>2, <1>3 DEF HostFields
  <2> DEFINE v == atcp_dec_slow_timer(off, "SYNACK")
  <2>3. /\ DOMAIN v = DOMAIN s /\ v.count = [s.count EXCEPT !["SYNACK"] = @ - 1]
        /\ \A f \in HostFields \ {"count"} : v[f] = off[f]
    BY <1>2, <1>3 DEF HostFields, atcp_dec_slow_timer
  <2> HIDE DEF w, v
  <2>4. /\ DOMAIN t = DOMAIN s /\ t.syn_backlog = s.syn_backlog - 1
        /\ \A f \in HostFields \ {"syn_backlog"} : t[f] = v[f]
    BY <1>2, <1>3, <2>1, <2>3 DEF HostFields, v
  <2> HIDE DEF t
  <2>5. /\ SameSocket(s, w) /\ SameTables(s, w) /\ SameRow(s, w) /\ SameTimer(s, w)
        /\ w.synq = RemoveAt(s.synq, i) /\ w.ack_backlog = s.ack_backlog
    BY <1>3, <2>2 DEF HostFields, SameSocket, SameTables, SameRow, SameTimer
  <2>6. HostInv(w)
    <3>1. /\ w.syn_backlog = s.syn_backlog - (IF s.synq[i].child = "none" THEN 1 ELSE 0)
          /\ w.ack_backlog = s.ack_backlog - (IF s.synq[i].child = "none" THEN 0 ELSE 1)
      BY <1>4, <2>2, <2>5
    <3> QED BY <1>2, <2>2, <2>5, <3>1, RequestDropped
  <2>7. /\ SameSocket(w, t) /\ SameTables(w, t) /\ SameRow(w, t) /\ SameQueue(w, t)
        /\ t.count = v.count /\ t.last = s.last /\ t.timer = s.timer /\ t.run = s.run
        /\ t.under = s.under
    BY <1>3, <2>2, <2>3, <2>4, <2>5
       DEF HostFields, SameSocket, SameTables, SameRow, SameQueue, SameTimer
  <2>8. t.count["SYNACK"] = s.count["SYNACK"] - 1 /\ t.count["TWKILL"] = s.count["TWKILL"]
        /\ s.count["SYNACK"] \in Int /\ t.count \in [Timers -> Int] /\ s.under \in Nat
    BY <1>2, <2>3, <2>7 DEF TimerTypes
  <2>9. Embryonic(t) = Embryonic(s) - 1 /\ Embryonic(s) \in Nat /\ Embryonic(t) \in Nat
    BY <1>2, <1>4, <2>5, <2>7, EmbryosRemoveAt, EmbryosFinite DEF Embryonic, SameQueue, QueueTypes
  <2>10. HostOK(t)
    <3>1. TimerTypes(t)
      BY <1>2, <2>7, <2>8 DEF TimerTypes
    <3> QED BY <1>2, <2>4, <2>6, <2>7, <3>1
            DEF HostInv, HostOK, SocketTypes, QueueTypes, TableTypes, RowTypes,
                SameSocket, SameTables, SameRow, SameQueue
  <2>11. QueueOK(t)
    BY <2>6, <2>7 DEF HostInv, QueueOK, Embryonic, WithChild, SameSocket, SameQueue
  <2>12. TimerOK(t)
    <3>1. t.count["SYNACK"] + t.under >= Embryonic(t)
      <4>1. s.count["SYNACK"] + s.under >= Embryonic(s)
        BY <1>1 DEF TimerOK
      <4> QED BY <2>7, <2>8, <2>9, <4>1
    <3>2. t.count["SYNACK"] > 0 => s.count["SYNACK"] > 0
      BY <2>8
    <3> QED BY <1>1, <2>5, <2>7, <2>8, <3>1, <3>2 DEF TimerOK, SameSocket
  <2>13. RowsOK(t) /\ CountOK(t) /\ AgesOK(t)
    BY <1>1, <2>5, <2>7, <2>8, DeathRowFrame DEF SameRow
  <2>14. RegisterOK(t)
    <3>1. \A x : Hashed(t, x) <=> Hashed(w, x)
      BY <2>7 DEF Hashed, ChildHashed, SameTables, SameQueue
    <3> QED BY <2>6, <2>7, <3>1, RegisterFrame DEF HostInv, SameTables, SameSocket
  <2>15. NoneEnds(s, t)
    BY <2>5, <2>7 DEF NoneEnds, InTimeWait, SameRow
  <2> QED BY <2>10, <2>11, <2>12, <2>13, <2>14, <2>15 DEF HostInv, t
<1>6. CASE ~TooOften(r)
  <2>1. t = [off EXCEPT !.synq = Append(@, Again(r))]
    BY <1>6 DEF atcp_syn_recv_timer
  <2>2. Again(r) \in Request /\ Again(r).child = "none"
    <3>1. Smaller(2 * r.timeo, SynTimeoutMax) \in Int /\ 2 * r.timeo \in Nat /\ r.retrans + 1 \in Nat
      BY <1>4, SMTT(30) DEF Request, Smaller
    <3> QED BY <1>4, <3>1 DEF Again, Request, Children
  <2> HIDE DEF off, r
  <2>3. /\ DOMAIN t = DOMAIN s /\ t.synq = Append(off.synq, Again(r))
        /\ \A f \in HostFields \ {"synq"} : t[f] = off[f]
    BY <1>2, <1>3, <2>1 DEF HostFields
  <2> HIDE DEF t
  <2>4. /\ SameSocket(s, t) /\ SameTables(s, t) /\ SameRow(s, t) /\ SameTimer(s, t)
        /\ t.syn_backlog = s.syn_backlog /\ t.ack_backlog = s.ack_backlog
    BY <1>3, <2>3 DEF HostFields, SameSocket, SameTables, SameRow, SameTimer
  <2>5. t.synq \in Seq(Request) /\ Len(t.synq) = Len(s.synq)
    <3>1. Len(RemoveAt(s.synq, i)) = Len(s.synq) - 1
      BY <1>2, RemoveAtFacts DEF QueueTypes
    <3> QED BY <1>3, <1>4, <2>2, <2>3, <3>1
  <2>6. Embryonic(t) = Embryonic(s)
    <3>1. Cardinality(Embryos(RemoveAt(s.synq, i))) = Cardinality(Embryos(s.synq)) - 1
      BY <1>2, EmbryosRemoveAt DEF QueueTypes
    <3>2. Cardinality(Embryos(t.synq)) = Cardinality(Embryos(RemoveAt(s.synq, i))) + 1
      BY <1>3, <1>4, <2>2, <2>3, EmbryosAppend
    <3>3. Cardinality(Embryos(s.synq)) \in Int
      BY <1>2, EmbryosFinite DEF QueueTypes
    <3> QED BY <3>1, <3>2, <3>3 DEF Embryonic
  <2>7. HostOK(t)
    <3>1. QueueTypes(t)
      BY <1>2, <2>4, <2>5 DEF QueueTypes
    <3> QED BY <1>1, <1>2, <2>3, <2>4, <3>1
            DEF HostOK, SocketTypes, TableTypes, RowTypes, TimerTypes,
                SameSocket, SameTables, SameRow, SameTimer
  <2>8. QueueOK(t) /\ TimerOK(t)
    BY <1>1, <2>4, <2>5, <2>6 DEF QueueOK, TimerOK, Due, WithChild, SameSocket, SameTimer
  <2>9. RowsOK(t) /\ CountOK(t) /\ AgesOK(t)
    BY <1>1, <2>4, DeathRowFrame DEF SameRow, SameTimer
  <2>10. RegisterOK(t)
    <3>1. off.synq \in Seq(Request)
      BY <1>3, <1>4
    <3>2. \A x : ChildHashed(t, x) <=> ChildHashed(off, x)
      BY <2>2, <2>3, <3>1, ChildrenAppend
    <3>3. \A x : ChildHashed(off, x) <=> ChildHashed(s, x)
      <4>1. s.synq[i].child # "ESTABLISHED"
        OBVIOUS
      <4> QED BY <1>2, <1>3, <4>1, ChildrenLeft DEF QueueTypes
    <3>4. \A x : Hashed(t, x) <=> Hashed(s, x)
      BY <2>4, <3>2, <3>3 DEF Hashed, SameTables
    <3> QED BY <1>1, <2>4, <3>4, RegisterFrame DEF SameTables, SameSocket
  <2>11. NoneEnds(s, t)
    BY <2>4 DEF NoneEnds, InTimeWait, SameRow
  <2> QED BY <2>7, <2>8, <2>9, <2>10, <2>11 DEF HostInv, t
<1> QED BY <1>5, <1>6

(* A tick. *)
LEMMA TickOK ==
  ASSUME NEW s, HostInv(s), s.run = "none", s.timer # Off,
         s.holder # "none" \/ s.back_log = <<>>
  PROVE  LET a == Aged(s)
             t == [a EXCEPT !.run = IF a.timer # 0 THEN "none"
                                    ELSE IF Due(a, "SYNACK") THEN "SYNACK" ELSE "TWKILL"]
         IN HostInv(t) /\ NoneEnds(s, t)
<1> USE ConstantFacts
<1> DEFINE older(r) == [r EXCEPT !.left = IF @ < 0 THEN @ ELSE @ - 1]
           q == [i \in DOMAIN s.synq |-> older(s.synq[i])]
           a == Aged(s)
           run == IF a.timer # 0 THEN "none" ELSE IF Due(a, "SYNACK") THEN "SYNACK" ELSE "TWKILL"
           t == [a EXCEPT !.run = run]
<1>1. HostOK(s) /\ QueueOK(s) /\ TimerOK(s) /\ RowsOK(s) /\ CountOK(s) /\ AgesOK(s) /\ RegisterOK(s)
  BY DEF HostInv
<1>2. HostFields \subseteq DOMAIN s /\ QueueTypes(s) /\ TimerTypes(s) /\ RowTypes(s)
  BY <1>1 DEF HostOK
<1>3. /\ DOMAIN a = DOMAIN s /\ a.timer = s.timer - 1
      /\ a.last = [k \in Timers |-> Smaller(s.last[k] + 1, Period(k))]
      /\ a.age = [p \in Peers |-> IF InTimeWait(s, p) THEN s.age[p] + 1 ELSE Off]
      /\ a.synq = q
      /\ \A f \in HostFields \ {"timer", "last", "age", "synq"} : a[f] = s[f]
  BY <1>2 DEF Aged, HostFields
<1> HIDE DEF a
<1>4. DOMAIN t = DOMAIN s /\ t.run = run /\ \A f \in HostFields \ {"run"} : t[f] = a[f]
  BY <1>2, <1>3 DEF HostFields
<1> HIDE DEF t
<1>5. /\ SameSocket(s, t) /\ SameTables(s, t) /\ t.row = s.row /\ t.slot = s.slot
      /\ t.count = s.count /\ t.under = s.under
      /\ t.syn_backlog = s.syn_backlog /\ t.ack_backlog = s.ack_backlog
      /\ t.timer = s.timer - 1 /\ t.timer = a.timer /\ t.last = a.last /\ t.age = a.age
      /\ t.synq = q /\ a.count = s.count
  BY <1>3, <1>4 DEF HostFields, SameSocket, SameTables
<1>6. q \in Seq(Request) /\ Len(q) = Len(s.synq) /\ DOMAIN q = DOMAIN s.synq
      /\ \A i \in DOMAIN s.synq : q[i].peer = s.synq[i].peer /\ q[i].child = s.synq[i].child
  <2>1. DOMAIN s.synq = 1..Len(s.synq) /\ Len(s.synq) \in Nat
        /\ \A i \in 1..Len(s.synq) : s.synq[i] \in Request
    BY <1>2 DEF QueueTypes
  <2>2. ASSUME NEW r \in Request
        PROVE  older(r) \in Request /\ older(r).peer = r.peer /\ older(r).child = r.child
    BY DEF Request
  <2> HIDE DEF older
  <2>3. q \in [1..Len(s.synq) -> Request]
    BY <2>1, <2>2
  <2>4. \A i \in DOMAIN s.synq : q[i].peer = s.synq[i].peer /\ q[i].child = s.synq[i].child
    BY <2>1, <2>2
  <2> HIDE DEF q
  <2> QED BY <2>1, <2>3, <2>4
<1> HIDE DEF q
<1>7. Embryonic(t) = Embryonic(s) /\ Len(t.synq) = Len(s.synq)
  <2>1. DOMAIN s.synq = 1..Len(s.synq) /\ s.synq \in Seq(Request)
    BY <1>2 DEF QueueTypes
  <2>2. \A i \in 1..Len(s.synq) : s.synq[i].child = "none" <=> q[i].child = "none"
    BY <1>6, <2>1
  <2>3. Cardinality(Embryos(q)) = Cardinality(Embryos(s.synq))
    BY <1>6, <2>1, <2>2, EmbryosSame
  <2> QED BY <1>5, <1>6, <2>3 DEF Embryonic
<1>8. s.timer \in Nat \ {0} /\ \A k \in Timers : s.last[k] \in Nat /\ s.last[k] <= Period(k)
                                                 /\ Period(k) \in Nat
  BY <1>1, <1>2 DEF TimerTypes, TimerOK
<1>9. \A k \in Timers : t.last[k] \in Nat /\ t.last[k] <= Period(k) /\ t.last[k] <= s.last[k] + 1
                        /\ (s.last[k] < Period(k) => t.last[k] = s.last[k] + 1)
  <2> TAKE k \in Timers
  <2>1. t.last[k] = Smaller(s.last[k] + 1, Period(k))
    BY <1>3, <1>5
  <2>2. s.last[k] \in Nat /\ s.last[k] <= Period(k) /\ Period(k) \in Nat
    BY <1>8
  <2> QED BY <2>1, <2>2 DEF Smaller
<1>10. HostOK(t)
  <2>1. QueueTypes(t)
    BY <1>2, <1>5, <1>6 DEF QueueTypes
  <2>2. TimerTypes(t)
    <3>1. t.last \in [Timers -> Nat]
      <4>1. t.last = [k \in Timers |-> Smaller(s.last[k] + 1, Period(k))]
        BY <1>3, <1>5
      <4> QED BY <1>9, <4>1
    <3>2. t.run \in {"none", "SYNACK", "TWKILL"} /\ t.timer \in Nat
      BY <1>4, <1>5, <1>8
    <3> QED BY <1>2, <1>5, <1>9, <3>1, <3>2 DEF TimerTypes
  <2>3. RowTypes(t)
    BY <1>2, <1>3, <1>5 DEF RowTypes, InTimeWait
  <2> QED BY <1>1, <1>2, <1>4, <1>5, <2>1, <2>2, <2>3
          DEF HostOK, SocketTypes, TableTypes, SameSocket, SameTables
<1>11. QueueOK(t)
  <2>1. s.synq = <<>> => t.synq = <<>>
    BY <1>5, <1>6
  <2> QED BY <1>1, <1>5, <1>7, <2>1 DEF QueueOK, WithChild, SameSocket
<1>12. s.count["TWKILL"] # 0 => /\ s.last["TWKILL"] < TwkillPeriod
                                /\ t.last["TWKILL"] = s.last["TWKILL"] + 1
                                /\ s.timer + s.last["TWKILL"] <= TwkillPeriod
  BY <1>1, <1>8, <1>9, PeriodNotOver DEF TimerOK
<1>13. TimerOK(t)
  <2>0. s.count["SYNACK"] > 0 => /\ s.timer + s.last["SYNACK"] <= SynackPeriod
                                 /\ t.last["SYNACK"] = s.last["SYNACK"] + 1
    <3>1. s.count["SYNACK"] > 0 => s.timer + s.last["SYNACK"] <= SynackPeriod
      BY <1>1 DEF TimerOK
    <3> QED BY <1>8, <1>9, <3>1
  <2>1. t.timer \in Nat /\ (t.run = "none" => t.timer # 0)
    BY <1>4, <1>5, <1>8
  <2>2. t.run = "TWKILL" => ~Due(t, "SYNACK")
    <3>1. Due(t, "SYNACK") <=> Due(a, "SYNACK")
      BY <1>5 DEF Due
    <3> QED BY <1>4, <3>1
  <2>3. /\ t.count["TWKILL"] # 0 => t.timer + t.last["TWKILL"] <= TwkillPeriod
        /\ t.count["SYNACK"] > 0 => t.timer + t.last["SYNACK"] <= SynackPeriod
    <3>1. t.count = s.count /\ t.timer = s.timer - 1 /\ s.timer \in Nat
          /\ s.last["TWKILL"] \in Nat /\ s.last["SYNACK"] \in Nat
      BY <1>5, <1>8
    <3>2. t.count["TWKILL"] # 0 => t.timer + t.last["TWKILL"] <= TwkillPeriod
      BY <1>12, <3>1
    <3>3. t.count["SYNACK"] > 0 => t.timer + t.last["SYNACK"] <= SynackPeriod
      BY <2>0, <3>1
    <3> QED BY <3>2, <3>3
  <2> QED BY <1>1, <1>5, <1>7, <2>1, <2>2, <2>3 DEF TimerOK, SameSocket
<1>14. \A p \in Peers : /\ InTimeWait(t, p) <=> InTimeWait(s, p)
                        /\ InTimeWait(s, p) => t.age[p] = s.age[p] + 1
  BY <1>2, <1>3, <1>5 DEF InTimeWait, RowTypes
<1>15. CountOK(t)
  <2>1. Waiting(t) = Waiting(s)
    BY <1>14 DEF Waiting
  <2> QED BY <1>1, <1>5, <2>1 DEF CountOK
<1>16. RowsOK(t)
  BY <1>1, <1>5, <1>14 DEF RowsOK
<1>17. AgesOK(t)
  <2> SUFFICES ASSUME NEW i \in Rows, NEW x \in t.row[i]
               PROVE  /\ (Slots - 1) * TwkillPeriod < Lifetime(t, x, i)
                      /\ Lifetime(t, x, i) <= Slots * TwkillPeriod
    BY DEF AgesOK
  <2>1. x \in s.row[i] /\ x \in Peers
    BY <1>2, <1>5 DEF RowTypes
  <2>2. InTimeWait(s, x)
    BY <1>1, <2>1 DEF RowsOK
  <2>3. s.count["TWKILL"] # 0
    <3>1. x \in Waiting(s)
      BY <2>1, <2>2 DEF Waiting
    <3> QED BY <1>1, <3>1, FS_EmptySet DEF CountOK
  <2>4. t.age[x] = s.age[x] + 1 /\ t.last["TWKILL"] = s.last["TWKILL"] + 1
        /\ s.age[x] \in Int /\ s.last["TWKILL"] \in Int
    BY <1>2, <1>8, <1>12, <1>14, <2>1, <2>2, <2>3 DEF RowTypes
  <2>5. Ahead(t, i) = Ahead(s, i) /\ Ahead(s, i) \in Int
    BY <1>2, <1>5 DEF Ahead, RowTypes, Rows
  <2> DEFINE W == Ahead(s, i) * TwkillPeriod
  <2>6. W \in Int
    BY <2>5, OnePeriodLess
  <2> HIDE DEF W
  <2>7. (s.age[x] + 1) + W + (TwkillPeriod - (s.last["TWKILL"] + 1))
          = s.age[x] + W + (TwkillPeriod - s.last["TWKILL"])
    <3>1. \A u, v, w, k \in Int : (u + 1) + w + (k - (v + 1)) = u + w + (k - v)
      OBVIOUS
    <3>2. TwkillPeriod \in Int
      OBVIOUS
    <3> DEFINE A == s.age[x]
               B == s.last["TWKILL"]
    <3>3. A \in Int /\ B \in Int
      BY <2>4
    <3>4. (A + 1) + W + (TwkillPeriod - (B + 1)) = A + W + (TwkillPeriod - B)
      <4> HIDE DEF A, B
      <4> QED BY <2>6, <3>1, <3>2, <3>3
    <3> QED BY <3>4
  <2>8. Lifetime(t, x, i) = Lifetime(s, x, i)
    BY <2>4, <2>5, <2>7 DEF Lifetime, W
  <2> QED BY <1>1, <2>1, <2>8 DEF AgesOK
<1>18. RegisterOK(t)
  <2>1. \A x : ChildHashed(t, x) <=> ChildHashed(s, x)
    BY <1>5, <1>6 DEF ChildHashed
  <2>2. \A x : Hashed(t, x) <=> Hashed(s, x)
    BY <1>5, <2>1 DEF Hashed, SameTables
  <2> QED BY <1>1, <1>5, <2>2, RegisterFrame DEF SameTables, SameSocket
<1>19. NoneEnds(s, t)
  BY <1>14 DEF NoneEnds
<1> QED BY <1>10, <1>11, <1>13, <1>15, <1>16, <1>17, <1>18, <1>19 DEF HostInv, t, a

(* A set without a part of it. *)
LEMMA CountRest ==
  ASSUME NEW S, IsFiniteSet(S), NEW D, D \subseteq S
  PROVE  IsFiniteSet(S \ D) /\ Cardinality(S \ D) = Cardinality(S) - Cardinality(D)
<1>1. IsFiniteSet(D) /\ IsFiniteSet(S \ D)
  BY FS_Subset
<1>2. Cardinality(D \cup (S \ D)) = Cardinality(D) + Cardinality(S \ D) - Cardinality(D \cap (S \ D))
  BY <1>1, FS_Union
<1>3. D \cup (S \ D) = S /\ D \cap (S \ D) = {}
  OBVIOUS
<1>4. Cardinality(S) = Cardinality(D) + Cardinality(S \ D) - Cardinality({})
  BY <1>2, <1>3
<1>5. Cardinality({}) = 0 /\ Cardinality(D) \in Nat /\ Cardinality(S \ D) \in Nat
  BY <1>1, FS_EmptySet, FS_CardinalityType
<1> QED BY <1>1, <1>4, <1>5

(* The hand of the clock moves on: every other slot is one step nearer. *)
LEMMA HandMoves ==
  ASSUME NEW s, s.slot \in Rows, NEW t, t.slot = (s.slot + 1) % Slots
  PROVE  /\ t.slot \in Rows
         /\ \A i \in Rows : i # s.slot => Ahead(t, i) = Ahead(s, i) - 1
<1> USE ConstantFacts
<1>1. CASE s.slot = Slots - 1
  <2>1. s.slot + 1 = Slots
    BY <1>1 DEF Rows
  <2>2. t.slot = 0
    BY <2>1
  <2> QED BY <1>1, <2>2 DEF Ahead, Rows
<1>2. CASE s.slot # Slots - 1
  <2>1. s.slot + 1 \in 0..(Slots - 1)
    BY <1>2 DEF Rows
  <2>2. t.slot = s.slot + 1
    BY <2>1
  <2> QED BY <1>2, <2>1, <2>2 DEF Ahead, Rows
<1> QED BY <1>1, <1>2

(* The buckets of a row are as old as TIME-WAIT, less than a period, when  *)
(* the hand of the clock has been there for a period.                      *)
LEMMA DoomedAreOld ==
  ASSUME NEW s, HostInv(s), s.last["TWKILL"] = TwkillPeriod, NEW p \in s.row[s.slot]
  PROVE  /\ s.age[p] > (Slots - 1) * TwkillPeriod
         /\ s.age[p] <= Slots * TwkillPeriod
<1> USE ConstantFacts
<1>1. s.slot \in Rows /\ p \in Peers /\ InTimeWait(s, p) /\ s.age[p] \in Nat
  BY DEF HostInv, HostOK, RowTypes, RowsOK, InTimeWait
<1>2. (Slots - 1) * TwkillPeriod < Lifetime(s, p, s.slot)
      /\ Lifetime(s, p, s.slot) <= Slots * TwkillPeriod
  BY <1>1 DEF HostInv, AgesOK
<1>3. Ahead(s, s.slot) = 0
  BY <1>1, SlotFacts
<1>4. Ahead(s, s.slot) * TwkillPeriod = 0
  BY <1>3, OnePeriodLess
<1>5. Lifetime(s, p, s.slot) = s.age[p]
  BY <1>1, <1>4 DEF Lifetime
<1> QED BY <1>2, <1>5

(* A row is emptied. *)
LEMMA TwkillOK ==
  ASSUME NEW s, HostInv(s), s.run = "TWKILL", s.last["TWKILL"] = TwkillPeriod
  PROVE  LET t == [atcp_twkill(s) EXCEPT !.last["TWKILL"] = 0]
         IN /\ HostInv(t) /\ t.last["TWKILL"] = 0 /\ t.run = s.run
            /\ t.last["SYNACK"] = s.last["SYNACK"] /\ t.count["SYNACK"] = s.count["SYNACK"]
            /\ \A p \in Peers : InTimeWait(s, p) /\ ~InTimeWait(t, p) => p \in s.row[s.slot]
<1> USE ConstantFacts
<1> DEFINE doomed == s.row[s.slot]
           u == atcp_twkill(s)
           t == [u EXCEPT !.last["TWKILL"] = 0]
<1>1. HostOK(s) /\ QueueOK(s) /\ TimerOK(s) /\ RowsOK(s) /\ CountOK(s) /\ AgesOK(s) /\ RegisterOK(s)
  BY DEF HostInv
<1>2. HostFields \subseteq DOMAIN s /\ RowTypes(s) /\ TimerTypes(s) /\ s.slot \in Rows
  BY <1>1 DEF HostOK, RowTypes
<1>3. /\ DOMAIN u = DOMAIN s
      /\ u.age = [p \in Peers |-> IF p \in doomed THEN Off ELSE s.age[p]]
      /\ u.row = [s.row EXCEPT ![s.slot] = {}]
      /\ u.count = [s.count EXCEPT !["TWKILL"] = @ - Cardinality(doomed)]
      /\ u.slot = (s.slot + 1) % Slots
      /\ \A f \in HostFields \ {"age", "row", "count", "slot"} : u[f] = s[f]
  BY <1>2 DEF atcp_twkill, HostFields
<1> HIDE DEF u
<1>4. /\ DOMAIN t = DOMAIN s /\ t.last = [s.last EXCEPT !["TWKILL"] = 0]
      /\ \A f \in HostFields \ {"last"} : t[f] = u[f]
  BY <1>2, <1>3 DEF HostFields
<1> HIDE DEF t
<1>5. /\ SameSocket(s, t) /\ SameQueue(s, t) /\ SameTables(s, t)
      /\ t.timer = s.timer /\ t.run = s.run /\ t.under = s.under
      /\ t.age = u.age /\ t.row = u.row /\ t.count = u.count /\ t.slot = u.slot
  BY <1>3, <1>4 DEF HostFields, SameSocket, SameQueue, SameTables
<1>6. /\ t.slot \in Rows
      /\ \A i \in Rows : i # s.slot => Ahead(t, i) = Ahead(s, i) - 1
  BY <1>2, <1>3, <1>5, HandMoves
<1>7. /\ doomed \subseteq Waiting(s)
      /\ IsFiniteSet(Waiting(s)) /\ s.count["TWKILL"] = Cardinality(Waiting(s))
  <2>1. IsFiniteSet(Waiting(s)) /\ s.count["TWKILL"] = Cardinality(Waiting(s))
    BY <1>1 DEF CountOK
  <2>2. doomed \subseteq Peers
    BY <1>2 DEF RowTypes
  <2> QED BY <1>1, <1>2, <2>1, <2>2 DEF RowsOK, Waiting
<1>8. IsFiniteSet(doomed) /\ Cardinality(doomed) \in Nat
  BY <1>7, FS_Subset, FS_CardinalityType
<1>9. /\ t.count["TWKILL"] = s.count["TWKILL"] - Cardinality(doomed)
      /\ t.count["SYNACK"] = s.count["SYNACK"] /\ t.count \in [Timers -> Int]
      /\ t.last["TWKILL"] = 0 /\ t.last["SYNACK"] = s.last["SYNACK"]
  BY <1>2, <1>3, <1>4, <1>5, <1>8 DEF TimerTypes
<1>10. HostOK(t)
  <2>1. RowTypes(t)
    BY <1>2, <1>3, <1>5, <1>6 DEF RowTypes
  <2>2. TimerTypes(t)
    BY <1>2, <1>4, <1>5, <1>9 DEF TimerTypes
  <2> QED BY <1>1, <1>2, <1>4, <1>5, <2>1, <2>2
          DEF HostOK, SocketTypes, QueueTypes, TableTypes, SameSocket, SameQueue, SameTables
<1>11. \A p \in Peers : InTimeWait(t, p) <=> InTimeWait(s, p) /\ p \notin doomed
  BY <1>3, <1>5 DEF InTimeWait
<1>12. \A i \in Rows : t.row[i] = IF i = s.slot THEN {} ELSE s.row[i]
  BY <1>2, <1>3, <1>5 DEF RowTypes
<1>13. RowsOK(t)
  <2>1. \A p \in Peers : \A i \in Rows : p \in s.row[i] /\ p \in doomed => i = s.slot
    BY <1>1, <1>2 DEF RowsOK
  <2>2. \A p \in Peers : \A i \in Rows : p \in t.row[i] <=> p \in s.row[i] /\ p \notin doomed
    BY <1>12, <2>1
  <2> QED BY <1>1, <1>11, <2>2 DEF RowsOK
<1>14. Waiting(t) = Waiting(s) \ doomed
  BY <1>11 DEF Waiting
<1>15. CountOK(t)
  BY <1>7, <1>9, <1>14, CountRest DEF CountOK
<1>16. AgesOK(t)
  <2> SUFFICES ASSUME NEW i \in Rows, NEW x \in t.row[i]
               PROVE  /\ (Slots - 1) * TwkillPeriod < Lifetime(t, x, i)
                      /\ Lifetime(t, x, i) <= Slots * TwkillPeriod
    BY DEF AgesOK
  <2>1. i # s.slot /\ x \in s.row[i] /\ x \in Peers
    BY <1>2, <1>12 DEF RowTypes
  <2>2. x \notin doomed
    BY <1>1, <1>2, <2>1 DEF RowsOK
  <2>3. t.age[x] = s.age[x] /\ s.age[x] \in Int
    BY <1>2, <1>3, <1>5, <2>1, <2>2 DEF RowTypes
  <2> DEFINE n == Ahead(s, i)
             W == n * TwkillPeriod
  <2>4. n \in Int
    BY <1>2, SlotFacts DEF Rows
  <2>5. W \in Int /\ (n - 1) * TwkillPeriod = W - TwkillPeriod
    BY <2>4, OnePeriodLess
  <2>6. Ahead(t, i) = n - 1
    BY <1>6, <2>1
  <2> HIDE DEF W, n
  <2>7. Lifetime(t, x, i) = s.age[x] + (W - TwkillPeriod) + (TwkillPeriod - 0)
    BY <1>9, <2>3, <2>5, <2>6 DEF Lifetime
  <2>8. Lifetime(s, x, i) = s.age[x] + W + (TwkillPeriod - TwkillPeriod)
    BY DEF Lifetime, W, n
  <2>9. \A a, w, k \in Int : a + (w - k) + (k - 0) = a + w + (k - k)
    OBVIOUS
  <2>10. TwkillPeriod \in Int
    OBVIOUS
  <2>11. Lifetime(t, x, i) = Lifetime(s, x, i)
    BY <2>3, <2>5, <2>7, <2>8, <2>9, <2>10
  <2> QED BY <1>1, <2>1, <2>11 DEF AgesOK
<1>17. QueueOK(t)
  BY <1>1, <1>5 DEF QueueOK, Embryonic, WithChild, SameSocket, SameQueue
<1>18. TimerOK(t)
  <2>1. t.count["TWKILL"] # 0 => s.count["TWKILL"] # 0
    <3>1. SUFFICES ASSUME s.count["TWKILL"] = 0 PROVE t.count["TWKILL"] = 0
      OBVIOUS
    <3>2. Waiting(s) = {}
      BY <1>7, <3>1, FS_EmptySet
    <3>3. doomed = {}
      BY <1>7, <3>2
    <3>4. Cardinality(doomed) = 0
      BY <3>3, FS_EmptySet
    <3> QED BY <1>9, <3>1, <3>4
  <2>2. Due(t, "SYNACK") <=> Due(s, "SYNACK")
    BY <1>9 DEF Due
  <2> QED BY <1>1, <1>5, <1>9, <2>1, <2>2 DEF TimerOK, Embryonic, SameSocket, SameQueue
<1>19. RegisterOK(t)
  <2>1. \A x : Hashed(t, x) <=> Hashed(s, x)
    BY <1>5 DEF Hashed, ChildHashed, SameTables, SameQueue
  <2> QED BY <1>1, <1>5, <2>1, RegisterFrame DEF SameTables, SameSocket
<1> QED BY <1>5, <1>9, <1>10, <1>11, <1>13, <1>15, <1>16, <1>17, <1>18, <1>19 DEF HostInv, t, u

(* The next look at what the slow timer counts.                            *)
LEMMA NextLookOK ==
  ASSUME NEW s, HostInv(s), s.run = "TWKILL", ~Due(s, "TWKILL")
  PROVE  LET t == [s EXCEPT !.timer = NextLook(s), !.run = "none"]
         IN HostInv(t) /\ NoneEnds(s, t)
<1> USE ConstantFacts
<1> DEFINE waits == {Period(k) - s.last[k] : k \in {u \in Timers : s.count[u] # 0}}
           t == [s EXCEPT !.timer = NextLook(s), !.run = "none"]
<1>1. HostOK(s) /\ QueueOK(s) /\ TimerOK(s) /\ RowsOK(s) /\ CountOK(s) /\ AgesOK(s) /\ RegisterOK(s)
  BY DEF HostInv
<1>2. HostFields \subseteq DOMAIN s /\ TimerTypes(s)
  BY <1>1 DEF HostOK
<1>3. NextLook(s) = IF waits = {} THEN Off ELSE Min(waits)
  BY DEF NextLook
<1>4. \A k \in Timers : s.count[k] # 0 => Period(k) - s.last[k] \in Nat \ {0}
  <2>1. \A k \in Timers : ~Due(s, k)
    BY <1>1 DEF TimerOK
  <2>2. \A k \in Timers : s.last[k] \in Nat /\ Period(k) \in Nat
    BY <1>2 DEF TimerTypes
  <2> QED BY <2>1, <2>2 DEF Due
<1>5. waits \subseteq Nat \ {0}
  BY <1>4
<1>6. \A k \in Timers : s.count[k] # 0 => Period(k) - s.last[k] \in waits
  OBVIOUS
<1> HIDE DEF waits
<1>7. /\ NextLook(s) \in (Nat \ {0}) \cup {Off}
      /\ \A k \in Timers : s.count[k] # 0 => /\ NextLook(s) # Off
                                             /\ NextLook(s) <= Period(k) - s.last[k]
  <2>1. waits # {} => Min(waits) \in waits /\ \A y \in waits : Min(waits) <= y
    BY <1>5, MinInSet
  <2>2. CASE waits = {}
    BY <1>3, <1>6, <2>2
  <2>3. CASE waits # {}
    <3>1. NextLook(s) \in Nat \ {0} /\ \A y \in waits : NextLook(s) <= y
      BY <1>3, <1>5, <2>1, <2>3
    <3> QED BY <1>6, <3>1
  <2> QED BY <2>2, <2>3
<1>8. /\ DOMAIN t = DOMAIN s /\ t.timer = NextLook(s) /\ t.run = "none"
      /\ \A f \in HostFields \ {"timer", "run"} : t[f] = s[f]
  BY <1>2 DEF HostFields
<1> HIDE DEF t
<1>9. /\ SameSocket(s, t) /\ SameQueue(s, t) /\ SameTables(s, t) /\ SameRow(s, t)
      /\ t.count = s.count /\ t.last = s.last /\ t.under = s.under
  BY <1>8 DEF HostFields, SameSocket, SameQueue, SameTables, SameRow
<1>10. HostOK(t)
  <2>1. TimerTypes(t)
    BY <1>2, <1>7, <1>8, <1>9 DEF TimerTypes
  <2> QED BY <1>1, <1>2, <1>8, <1>9, <2>1
          DEF HostOK, SocketTypes, QueueTypes, TableTypes, RowTypes,
              SameSocket, SameQueue, SameTables, SameRow
<1>11. QueueOK(t)
  BY <1>1, <1>9 DEF QueueOK, Embryonic, WithChild, SameSocket, SameQueue
<1>12. TimerOK(t)
  <2>1. t.count["TWKILL"] # 0 => t.timer # Off /\ t.timer + t.last["TWKILL"] <= TwkillPeriod
    <3>1. s.last["TWKILL"] \in Nat
      BY <1>2 DEF TimerTypes
    <3> QED BY <1>7, <1>8, <1>9, <3>1
  <2>2. t.count["SYNACK"] # 0 => t.timer # Off /\ t.timer + t.last["SYNACK"] <= SynackPeriod
    <3>1. s.last["SYNACK"] \in Nat
      BY <1>2 DEF TimerTypes
    <3> QED BY <1>7, <1>8, <1>9, <3>1
  <2>3. t.timer # 0
    BY <1>7, <1>8
  <2> QED BY <1>1, <1>8, <1>9, <2>1, <2>2, <2>3 DEF TimerOK, Embryonic, SameQueue
<1>13. RowsOK(t) /\ CountOK(t) /\ AgesOK(t)
  BY <1>1, <1>9, DeathRowFrame DEF SameRow
<1>14. RegisterOK(t)
  <2>1. \A x : Hashed(t, x) <=> Hashed(s, x)
    BY <1>9 DEF Hashed, ChildHashed, SameTables, SameQueue
  <2> QED BY <1>1, <1>9, <2>1, RegisterFrame DEF SameTables, SameSocket
<1>15. NoneEnds(s, t)
  BY <1>9 DEF NoneEnds, InTimeWait, SameRow
<1> QED BY <1>10, <1>11, <1>12, <1>13, <1>14, <1>15 DEF HostInv, t

(* The requests have been looked at. *)
LEMMA RequestsSeenOK ==
  ASSUME NEW s, HostInv(s), s.run = "SYNACK"
  PROVE  LET t == [s EXCEPT !.last["SYNACK"] = 0, !.run = "TWKILL"]
         IN HostInv(t) /\ NoneEnds(s, t)
<1> USE ConstantFacts
<1> DEFINE t == [s EXCEPT !.last["SYNACK"] = 0, !.run = "TWKILL"]
<1>1. HostOK(s) /\ QueueOK(s) /\ TimerOK(s) /\ RowsOK(s) /\ CountOK(s) /\ AgesOK(s) /\ RegisterOK(s)
  BY DEF HostInv
<1>2. HostFields \subseteq DOMAIN s /\ TimerTypes(s)
  BY <1>1 DEF HostOK
<1>3. /\ DOMAIN t = DOMAIN s /\ t.run = "TWKILL" /\ t.last = [s.last EXCEPT !["SYNACK"] = 0]
      /\ \A f \in HostFields \ {"last", "run"} : t[f] = s[f]
  BY <1>2 DEF HostFields
<1> HIDE DEF t
<1>4. /\ SameSocket(s, t) /\ SameQueue(s, t) /\ SameTables(s, t) /\ SameRow(s, t)
      /\ t.count = s.count /\ t.timer = s.timer /\ t.under = s.under
  BY <1>3 DEF HostFields, SameSocket, SameQueue, SameTables, SameRow
<1>5. t.last["SYNACK"] = 0 /\ t.last["TWKILL"] = s.last["TWKILL"]
  BY <1>2, <1>3 DEF TimerTypes
<1>6. HostOK(t)
  <2>1. TimerTypes(t)
    BY <1>2, <1>3, <1>4, <1>5 DEF TimerTypes
  <2> QED BY <1>1, <1>2, <1>3, <1>4, <2>1
          DEF HostOK, SocketTypes, QueueTypes, TableTypes, RowTypes,
              SameSocket, SameQueue, SameTables, SameRow
<1>7. QueueOK(t)
  BY <1>1, <1>4 DEF QueueOK, Embryonic, WithChild, SameSocket, SameQueue
<1>8. TimerOK(t)
  <2>1. ~Due(t, "SYNACK")
    BY <1>5 DEF Due
  <2> QED BY <1>1, <1>3, <1>4, <1>5, <2>1 DEF TimerOK, Embryonic, SameSocket, SameQueue
<1>9. RowsOK(t) /\ CountOK(t) /\ AgesOK(t)
  BY <1>1, <1>4, <1>5, DeathRowFrame DEF SameRow
<1>10. RegisterOK(t)
  <2>1. \A x : Hashed(t, x) <=> Hashed(s, x)
    BY <1>4 DEF Hashed, ChildHashed, SameTables, SameQueue
  <2> QED BY <1>1, <1>4, <2>1, RegisterFrame DEF SameTables, SameSocket
<1>11. NoneEnds(s, t)
  BY <1>4 DEF NoneEnds, InTimeWait, SameRow
<1> QED BY <1>6, <1>7, <1>8, <1>9, <1>10, <1>11 DEF HostInv, t

(***************************************************************************)
(* The specification.                                                      *)
(***************************************************************************)
(* The invariant holds at the start. *)
LEMMA InitOK == Init => IInv
<1> SUFFICES ASSUME Init PROVE IInv
  OBVIOUS
<1> USE ConstantFacts
<1>1. /\ h.state = "CLOSE" /\ h.holder = "none" /\ h.back_log = <<>> /\ h.synq = <<>>
      /\ h.syn_backlog = 0 /\ h.ack_backlog = 0 /\ h.rhash = NoOne
      /\ h.conn = [p \in Peers |-> "none"] /\ h.row = [i \in Rows |-> {}] /\ h.slot = 0
      /\ h.age = [p \in Peers |-> Off]
      /\ h.count = [t \in Timers |-> 0] /\ h.last = [t \in Timers |-> 0]
      /\ h.timer = Off /\ h.run = "none" /\ h.under = 0 /\ HostFields \subseteq DOMAIN h
  BY DEF Init, HostFields, Rows
<1>2. SpentOK(spent)
  BY DEF Init, SpentOK
<1>3. HostOK(h)
  <2>1. SocketTypes(h) /\ QueueTypes(h) /\ TableTypes(h)
    BY <1>1 DEF SocketTypes, QueueTypes, TableTypes
  <2>2. RowTypes(h)
    BY <1>1 DEF RowTypes, Rows
  <2>3. TimerTypes(h)
    BY <1>1 DEF TimerTypes
  <2> QED BY <1>1, <2>1, <2>2, <2>3 DEF HostOK
<1>4. Embryonic(h) = 0
  <2>1. Embryos(h.synq) = {}
    BY <1>1 DEF Embryos
  <2> QED BY <2>1, FS_EmptySet DEF Embryonic
<1>5. QueueOK(h) /\ TimerOK(h)
  BY <1>1, <1>4 DEF QueueOK, TimerOK
<1>6. RowsOK(h) /\ AgesOK(h) /\ RegisterOK(h)
  BY <1>1 DEF RowsOK, AgesOK, RegisterOK, InTimeWait
<1>7. CountOK(h)
  <2>1. Waiting(h) = {}
    BY <1>1 DEF Waiting, InTimeWait
  <2> QED BY <1>1, <2>1, FS_EmptySet DEF CountOK
<1> QED BY <1>2, <1>3, <1>5, <1>6, <1>7 DEF IInv, HostInv

(* What a step does to the death row: the buckets that go while the peers, *)
(* the network and the user do nothing are those of the row the hand of    *)
(* the clock has stayed at for a period.                                   *)
OnTime ==
  \A p \in Peers : InTimeWait(h, p) /\ ~InTimeWait(h', p) /\ UNCHANGED spent
    => h.last["TWKILL"] = TwkillPeriod /\ p \in h.row[h.slot]

(* Every step preserves the invariant and empties rows on time only. *)
LEMMA StepOK ==
  ASSUME IInv, [Next]_vars
  PROVE  IInv' /\ OnTime
<1> USE ConstantFacts
<1>1. HostInv(h) /\ SpentOK(spent)
  BY DEF IInv
<1> DEFINE free == h.holder # "none" \/ h.back_log = <<>>
<1>2. ~Busy <=> free /\ h.run = "none"
  BY DEF Busy, Draining
<1>3. ASSUME HostInv(h'), NoneEnds(h, h'), UNCHANGED spent
      PROVE  IInv' /\ OnTime
  <2>1. SpentOK(spent)' /\ HostInv(h)'
    BY <1>1, <1>3
  <2> QED BY <1>3, <2>1 DEF IInv, OnTime, NoneEnds
<1>4. ASSUME HostInv(h'), SpentOK(spent'), spent' # spent
      PROVE  IInv' /\ OnTime
  BY <1>4 DEF IInv, OnTime
<1>5. ASSUME NEW p \in Peers, ~Busy, AskFor(p) PROVE IInv' /\ OnTime
  <2>1. PICK kind \in {"SYN", "OLDSYN"} : h' = atcp_v4_rcv(h, [peer |-> p, kind |-> kind])
    BY <1>5 DEF AskFor
  <2>2. [peer |-> p, kind |-> kind] \in Segment
    BY DEF Segment
  <2>3. HostInv(h')
    BY <1>1, <1>2, <1>5, <2>1, <2>2, RcvOK
  <2>4. spent' = [spent EXCEPT !.syn[p] = @ + 1]
    BY <1>5 DEF AskFor
  <2>5. spent.syn \in [Peers -> Nat] /\ "syn" \in DOMAIN spent
    BY <1>1 DEF SpentOK
  <2>6. SpentOK(spent')
    BY <1>1, <2>4 DEF SpentOK
  <2>7. spent'.syn[p] = spent.syn[p] + 1 /\ spent.syn[p] \in Nat
    BY <2>4, <2>5
  <2>8. spent' # spent
    BY <2>7
  <2> QED BY <1>4, <2>3, <2>6, <2>8
<1>6. ASSUME NEW p \in Peers, ~Busy, Acknowledge(p) PROVE IInv' /\ OnTime
  <2> DEFINE g == [peer |-> p, kind |-> "ACK"]
  <2>1. h' = atcp_v4_rcv(h, g) /\ UNCHANGED spent
    BY <1>6 DEF Acknowledge
  <2>2. g \in Segment /\ g.kind = "ACK"
    BY DEF Segment
  <2> HIDE DEF g
  <2>3. HostInv(h') /\ NoneEnds(h, h')
    BY <1>1, <1>2, <1>6, <2>1, <2>2, RcvOK
  <2> QED BY <1>3, <2>1, <2>3
<1>7. ASSUME NEW p \in Peers, ~Busy, Refuse(p) PROVE IInv' /\ OnTime
  <2>1. h' = atcp_v4_rcv(h, [peer |-> p, kind |-> "RST"])
        /\ spent' = [spent EXCEPT !.fault = @ + 1]
    BY <1>7 DEF Refuse
  <2>2. [peer |-> p, kind |-> "RST"] \in Segment
    BY DEF Segment
  <2>3. HostInv(h')
    BY <1>1, <1>2, <1>7, <2>1, <2>2, RcvOK
  <2>4. SpentOK(spent') /\ spent'.fault = spent.fault + 1 /\ spent.fault \in Nat
    BY <1>1, <2>1 DEF SpentOK
  <2>5. spent' # spent
    BY <2>4
  <2> QED BY <1>4, <2>3, <2>4, <2>5
<1>8. ASSUME NEW p \in Peers, ~Busy, Unreachable(p) PROVE IInv' /\ OnTime
  <2> DEFINE i == RequestOf(h, p)
  <2>1. /\ i # 0 /\ h.synq[i].child = "none"
        /\ h' = [h EXCEPT !.synq = RemoveAt(@, i), !.syn_backlog = @ - 1]
        /\ spent' = [spent EXCEPT !.fault = @ + 1]
    BY <1>8 DEF Unreachable
  <2>2. HostFields \subseteq DOMAIN h /\ QueueTypes(h)
    BY <1>1 DEF HostInv, HostOK
  <2>3. i \in DOMAIN h.synq
    BY <2>1, <2>2, RequestOfFinds DEF QueueTypes
  <2> HIDE DEF i
  <2>4. /\ DOMAIN h' = DOMAIN h /\ h'.synq = RemoveAt(h.synq, i)
        /\ h'.syn_backlog = h.syn_backlog - 1
        /\ \A f \in HostFields \ {"synq", "syn_backlog"} : h'[f] = h[f]
    BY <2>1, <2>2 DEF HostFields
  <2>5. /\ SameSocket(h, h') /\ SameTables(h, h') /\ SameRow(h, h') /\ SameTimer(h, h')
        /\ h'.ack_backlog = h.ack_backlog
    BY <2>4 DEF HostFields, SameSocket, SameTables, SameRow, SameTimer
  <2>6. /\ h'.syn_backlog = h.syn_backlog - (IF h.synq[i].child = "none" THEN 1 ELSE 0)
        /\ h'.ack_backlog = h.ack_backlog - (IF h.synq[i].child = "none" THEN 0 ELSE 1)
    BY <2>1, <2>2, <2>4, <2>5 DEF QueueTypes
  <2>7. HostInv(h')
    BY <1>1, <2>1, <2>2, <2>3, <2>4, <2>5, <2>6, RequestDropped
  <2>8. SpentOK(spent') /\ spent'.fault = spent.fault + 1 /\ spent.fault \in Nat
    BY <1>1, <2>1 DEF SpentOK
  <2>9. spent' # spent
    BY <2>8
  <2> QED BY <1>4, <2>7, <2>8, <2>9
<1>9. ASSUME NEW p \in Peers, ~Busy, EndConnection(p) PROVE IInv' /\ OnTime
  <2>1. ~InTimeWait(h, p) /\ h' = atcp_time_wait(h, p) /\ UNCHANGED spent
    BY <1>9 DEF EndConnection
  <2>2. HostInv(h') /\ NoneEnds(h, h')
    BY <1>1, <1>2, <1>9, <2>1, TimeWaitOK
  <2> QED BY <1>3, <2>1, <2>2
<1>10. ASSUME ~Busy, Listen PROVE IInv' /\ OnTime
  <2>1. /\ h.state = "CLOSE"
        /\ h' = [h EXCEPT !.state = "LISTEN", !.synq = <<>>, !.syn_backlog = 0, !.ack_backlog = 0]
        /\ spent' = [spent EXCEPT !.listen = @ + 1]
    BY <1>10 DEF Listen
  <2>2. HostInv(h')
    BY <1>1, <1>2, <1>10, <2>1, ListenOK
  <2>3. SpentOK(spent') /\ spent'.listen = spent.listen + 1 /\ spent.listen \in Nat
    BY <1>1, <2>1 DEF SpentOK
  <2>4. spent' # spent
    BY <2>3
  <2> QED BY <1>4, <2>2, <2>3, <2>4
<1>11. ASSUME ~Busy, Accept PROVE IInv' /\ OnTime
  <2> DEFINE a == atcp_accept(h)
  <2>1. h.holder = "none" /\ h' = [a EXCEPT !.holder = "accept"] /\ UNCHANGED spent
    BY <1>11 DEF Accept
  <2>2. HostInv(a) /\ NoneEnds(h, a) /\ a.run = "none" /\ a.back_log = <<>>
    BY <1>1, <1>2, <1>11, <2>1, AcceptOK
  <2> HIDE DEF a
  <2>3. HostInv(h') /\ NoneEnds(a, h')
    BY <2>1, <2>2, HolderOK
  <2>4. NoneEnds(h, h')
    BY <2>2, <2>3 DEF NoneEnds
  <2> QED BY <1>3, <2>1, <2>3, <2>4
<1>12. ASSUME ~Busy, Close PROVE IInv' /\ OnTime
  <2>1. /\ h.holder = "none" /\ UNCHANGED spent
        /\ h' = [atcp_close_pending([h EXCEPT !.state = "CLOSE"]) EXCEPT !.holder = "close"]
    BY <1>12 DEF Close
  <2>2. HostInv(h') /\ NoneEnds(h, h')
    BY <1>1, <1>2, <1>12, <2>1, CloseOK
  <2> QED BY <1>3, <2>1, <2>2
<1>13. ASSUME ~Busy, Release PROVE IInv' /\ OnTime
  <2>1. h' = [h EXCEPT !.holder = "none"] /\ UNCHANGED spent
    BY <1>13 DEF Release
  <2>2. HostInv(h') /\ NoneEnds(h, h')
    BY <1>1, <1>2, <1>13, <2>1, HolderOK
  <2> QED BY <1>3, <2>1, <2>2
<1>14. ASSUME ~Busy, Tick PROVE IInv' /\ OnTime
  <2>1. /\ h.timer # Off /\ UNCHANGED spent
        /\ h' = LET s == Aged(h)
                IN [s EXCEPT !.run = IF s.timer # 0 THEN "none"
                                     ELSE IF Due(s, "SYNACK") THEN "SYNACK" ELSE "TWKILL"]
    BY <1>14 DEF Tick
  <2>2. HostInv(h') /\ NoneEnds(h, h')
    BY <1>1, <1>2, <1>14, <2>1, TickOK
  <2> QED BY <1>3, <2>1, <2>2
<1>15. ASSUME Drain PROVE IInv' /\ OnTime
  <2>1. /\ h.holder = "none" /\ h.back_log # <<>> /\ UNCHANGED spent
        /\ h' = atcp_v4_do_rcv([h EXCEPT !.back_log = Tail(@)], Head(h.back_log))
    BY <1>15 DEF Drain, Draining
  <2>2. h.run = "none"
    BY <1>1, <2>1 DEF HostInv, TimerOK
  <2>3. HostInv(h') /\ NoneEnds(h, h')
    BY <1>1, <2>1, <2>2, DrainOK
  <2> QED BY <1>3, <2>1, <2>3
<1>16. ASSUME LookAtRequests PROVE IInv' /\ OnTime
  <2>1. h.run = "SYNACK" /\ UNCHANGED spent
        /\ h' = IF Expiring(h) THEN atcp_syn_recv_timer(h, ExpiredOf(h))
                ELSE [h EXCEPT !.last["SYNACK"] = 0, !.run = "TWKILL"]
    BY <1>16 DEF LookAtRequests
  <2>2. CASE Expiring(h)
    <3>1. h.state = "LISTEN" /\ ExpiredOf(h) # 0
      BY <2>2 DEF Expiring
    <3>2. ExpiredOf(h) \in DOMAIN h.synq /\ h.synq[ExpiredOf(h)].child = "none"
      BY <1>1, <3>1, ExpiredOfFinds DEF HostInv, HostOK, QueueTypes, Expired
    <3>3. HostInv(h') /\ NoneEnds(h, h')
      BY <1>1, <2>1, <2>2, <3>1, <3>2, SynRecvOK
    <3> QED BY <1>3, <2>1, <3>3
  <2>3. CASE ~Expiring(h)
    <3>1. HostInv(h') /\ NoneEnds(h, h')
      BY <1>1, <2>1, <2>3, RequestsSeenOK
    <3> QED BY <1>3, <2>1, <3>1
  <2> QED BY <2>2, <2>3
<1>17. ASSUME LookAtDeathRow PROVE IInv' /\ OnTime
  <2> DEFINE k == [atcp_twkill(h) EXCEPT !.last["TWKILL"] = 0]
             s == IF Due(h, "TWKILL") THEN k ELSE h
  <2>1. /\ h.run = "TWKILL" /\ UNCHANGED spent
        /\ h' = [s EXCEPT !.timer = NextLook(s), !.run = "none"]
    BY <1>17 DEF LookAtDeathRow
  <2>2. CASE Due(h, "TWKILL")
    <3>1. h.last["TWKILL"] = TwkillPeriod
      BY <1>1, <2>2 DEF Due, HostInv, HostOK, TimerTypes
    <3>2. /\ HostInv(k) /\ k.run = "TWKILL" /\ k.last["TWKILL"] = 0
          /\ \A p \in Peers : InTimeWait(h, p) /\ ~InTimeWait(k, p) => p \in h.row[h.slot]
      BY <1>1, <2>1, <3>1, TwkillOK
    <3>3. h' = [k EXCEPT !.timer = NextLook(k), !.run = "none"]
      BY <2>1, <2>2
    <3> HIDE DEF k, s
    <3>4. ~Due(k, "TWKILL")
      BY <3>2 DEF Due
    <3>5. HostInv(h') /\ NoneEnds(k, h')
      BY <3>2, <3>3, <3>4, NextLookOK
    <3>6. OnTime
      BY <3>1, <3>2, <3>5 DEF OnTime, NoneEnds
    <3>7. SpentOK(spent)' /\ HostInv(h)'
      BY <1>1, <2>1, <3>5
    <3> QED BY <3>6, <3>7 DEF IInv
  <2>3. CASE ~Due(h, "TWKILL")
    <3>1. h' = [h EXCEPT !.timer = NextLook(h), !.run = "none"]
      BY <2>1, <2>3
    <3>2. h.run = "TWKILL" /\ UNCHANGED spent
      BY <2>1
    <3> HIDE DEF k, s
    <3>3. HostInv(h') /\ NoneEnds(h, h')
      BY <1>1, <2>3, <3>1, <3>2, NextLookOK
    <3> QED BY <1>3, <3>2, <3>3
  <2> QED BY <2>2, <2>3
<1>18. CASE UNCHANGED vars
  <2>1. h' = h /\ UNCHANGED spent
    BY <1>18 DEF vars
  <2> QED BY <1>1, <1>3, <2>1 DEF NoneEnds
<1>19. ASSUME ~Busy, \E p \in Peers : \/ AskFor(p) \/ Acknowledge(p) \/ Refuse(p)
                                      \/ Unreachable(p) \/ EndConnection(p)
       PROVE  IInv' /\ OnTime
  BY <1>5, <1>6, <1>7, <1>8, <1>9, <1>19
<1> QED BY <1>10, <1>11, <1>12, <1>13, <1>14, <1>15, <1>16, <1>17, <1>18, <1>19 DEF Next

(* The invariant holds in every state. *)
THEOREM Invariance == Spec => []IInv
<1>1. Init => IInv
  BY InitOK
<1>2. IInv /\ [Next]_vars => IInv'
  BY StepOK
<1> QED BY <1>1, <1>2, PTL DEF Spec

(* BacklogsCounted: whatever the peers, the network and the user do, and   *)
(* with limits of any size, a listener's two backlogs count its requests,  *)
(* as the limits in atcp_v4_conn_request and atcp_v4_syn_recv_sock need.   *)
THEOREM BacklogsCountedHolds == Spec => []BacklogsCounted
<1>1. IInv => BacklogsCounted
  BY DEF IInv, HostInv, QueueOK, BacklogsCounted
<1> QED BY <1>1, Invariance, PTL

(* RequestTimed: atcp_syn_recv_timer comes to every open request within a  *)
(* period, whatever requests, buckets, resets and errors do to the slow    *)
(* timer, when fewer of them have lost their count without cause (to an    *)
(* acknowledgement that met a full accept queue, or to a close) than wait. *)
THEOREM RequestTimedHolds == Spec => []RequestTimed
<1>1. IInv => RequestTimed
  <2> SUFFICES ASSUME IInv, Embryonic(h) > h.under
               PROVE  /\ h.count["SYNACK"] > 0 /\ h.timer # Off
                      /\ h.run = "none" => h.timer + h.last["SYNACK"] <= SynackPeriod
    BY DEF RequestTimed
  <2>1. HostOK(h) /\ TimerOK(h)
    BY DEF IInv, HostInv
  <2>2. h.count["SYNACK"] \in Int /\ Embryonic(h) \in Nat /\ h.under \in Nat
    BY <2>1, ConstantFacts, EmbryosFinite DEF HostOK, TimerTypes, QueueTypes, Embryonic
  <2>3. h.count["SYNACK"] > 0
    BY <2>1, <2>2 DEF TimerOK
  <2> QED BY <2>1, <2>3 DEF TimerOK
<1> QED BY <1>1, Invariance, PTL

(* TimeWaitEnds: atcp_twkill frees a bucket after all of the slots, no     *)
(* matter how often open requests start, stop or shorten the slow timer    *)
(* they share with the death row.                                          *)
THEOREM TimeWaitEndsHolds == Spec => []TimeWaitEnds
<1>1. IInv => TimeWaitEnds
  <2> SUFFICES ASSUME IInv, NEW p \in Peers PROVE h.age[p] <= Slots * TwkillPeriod
    BY DEF TimeWaitEnds
  <2> USE ConstantFacts
  <2>1. HostOK(h) /\ RowsOK(h) /\ AgesOK(h)
    BY DEF IInv, HostInv
  <2>2. Slots * TwkillPeriod \in Nat
    OBVIOUS
  <2>3. CASE ~InTimeWait(h, p)
    BY <2>2, <2>3 DEF InTimeWait
  <2>4. CASE InTimeWait(h, p)
    <3>1. PICK i \in Rows : p \in h.row[i]
      BY <2>1, <2>4 DEF RowsOK
    <3>2. h.age[p] \in Nat /\ h.last["TWKILL"] \in Nat /\ h.last["TWKILL"] <= TwkillPeriod
      BY <2>1, <2>4 DEF HostOK, RowTypes, TimerTypes, InTimeWait
    <3> DEFINE n == Ahead(h, i)
               W == n * TwkillPeriod
    <3>3. n \in Nat
      BY <2>1, SlotFacts DEF HostOK, RowTypes, Rows
    <3>4. W \in Nat
      BY <3>3
    <3>5. Lifetime(h, p, i) <= Slots * TwkillPeriod
      BY <2>1, <3>1 DEF AgesOK
    <3>6. Lifetime(h, p, i) = h.age[p] + W + (TwkillPeriod - h.last["TWKILL"])
      BY DEF Lifetime
    <3> HIDE DEF W
    <3>7. h.age[p] <= Lifetime(h, p, i)
      BY <3>2, <3>4, <3>6
    <3>8. Lifetime(h, p, i) \in Int
      BY <3>2, <3>4, <3>6
    <3> QED BY <2>2, <3>2, <3>5, <3>7, <3>8
  <2> QED BY <2>3, <2>4
<1> QED BY <1>1, Invariance, PTL

(* RegisterIsHashed: what atcp_v4_lookup finds in the register is in the   *)
(* hash tables, even if the user accepted or closed, or a segment waited   *)
(* in the back log, in between.                                            *)
THEOREM RegisterIsHashedHolds == Spec => []RegisterIsHashed
<1>1. IInv => RegisterIsHashed
  BY DEF IInv, HostInv, RegisterOK, RegisterIsHashed
<1> QED BY <1>1, Invariance, PTL

(* TimeWaitLasts: a bucket that goes while nobody does anything has waited *)
(* for all of the slots but at most one, since it was last put on its row. *)
THEOREM TimeWaitLastsHolds == Spec => TimeWaitLasts
<1>1. IInv /\ [Next]_vars =>
        [\A p \in Peers : InTimeWait(h, p) /\ h'.age[p] = Off /\ UNCHANGED spent
           => h.age[p] > (Slots - 1) * TwkillPeriod]_vars
  <2> SUFFICES ASSUME IInv, [Next]_vars, NEW p \in Peers,
                      InTimeWait(h, p), h'.age[p] = Off, UNCHANGED spent
               PROVE  h.age[p] > (Slots - 1) * TwkillPeriod
    OBVIOUS
  <2>1. h.last["TWKILL"] = TwkillPeriod /\ p \in h.row[h.slot]
    BY StepOK DEF OnTime, InTimeWait
  <2> QED BY <2>1, DoomedAreOld DEF IInv
<1> QED BY <1>1, Invariance, PTL DEF Spec, TimeWaitLasts
===============================================================================
