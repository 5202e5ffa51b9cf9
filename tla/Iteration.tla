------------------------------ MODULE Iteration ------------------------------
(***************************************************************************)
(* Induction over the turns of a loop.  Step(q, i, x) is what turn i makes *)
(* of x, and Rel(p, i, x) what is said of x after i turns; q and p hold    *)
(* what the two depend on besides.  A proof about a loop takes this module *)
(* with INSTANCE, its turn for Step and its invariant for Rel, and cites   *)
(* the theorem of the instance.                                            *)
(***************************************************************************)
EXTENDS Integers, WellFoundedInduction, TLAPS

CONSTANTS Step(_, _, _), Rel(_, _, _)

Result(q, s, n) ==
  LET after[i \in 0..n] == IF i = 0 THEN s ELSE Step(q, i, after[i - 1])
  IN after[n]

(* f is the results of the first n turns. *)
Turns(q, s, n, f) ==
  f = [i \in 0..n |-> IF i = 0 THEN s ELSE Step(q, i, f[i - 1])]

(* A nonempty set of numbers has a least. *)
LEMMA LeastExists ==
  ASSUME NEW S, S \subseteq Nat, S # {}
  PROVE  \E x \in S : \A y \in S : x <= y
<1>1. PICK x \in S : \A y \in S : ~ (<<y, x>> \in OpToRel(<, Nat))
  BY WFMin, NatLessThanWellFounded
<1>2. ASSUME NEW y \in S PROVE x <= y
  <2>1. ~ (y < x)
    BY <1>1 DEF OpToRel
  <2> QED BY <2>1
<1> QED BY <1>2

(* There are results of any number of turns: of the first number without   *)
(* them there would be, by one more turn.                                  *)
LEMMA TurnsExist ==
  ASSUME NEW q, NEW s, NEW n \in Nat
  PROVE  \E f : Turns(q, s, n, f)
<1> DEFINE Bad == {k \in Nat : ~ \E f : Turns(q, s, k, f)}
<1>1. SUFFICES ASSUME Bad # {} PROVE FALSE
  OBVIOUS
<1>2. PICK k \in Bad : \A j \in Bad : k <= j
  BY <1>1, LeastExists
<1>3. k # 0
  <2>1. SUFFICES ASSUME k = 0 PROVE \E f : Turns(q, s, 0, f)
    BY DEF Bad
  <2> DEFINE f == [i \in 0..0 |-> s]
  <2>2. f = [i \in 0..0 |-> IF i = 0 THEN s ELSE Step(q, i, f[i - 1])]
    OBVIOUS
  <2> QED BY <2>2 DEF Turns
<1>4. k - 1 \in Nat /\ k - 1 \notin Bad
  BY <1>2, <1>3
<1>5. PICK g : Turns(q, s, k - 1, g)
  BY <1>4
<1> DEFINE f == [i \in 0..k |-> IF i = k THEN Step(q, k, g[k - 1]) ELSE g[i]]
<1>6. \A i \in 0..(k - 1) : g[i] = IF i = 0 THEN s ELSE Step(q, i, g[i - 1])
  BY <1>5, <1>4 DEF Turns
<1>7. ASSUME NEW i \in 0..k
      PROVE  f[i] = IF i = 0 THEN s ELSE Step(q, i, f[i - 1])
  <2>1. CASE i = k
    BY <2>1, <1>3, <1>4
  <2>2. CASE i # k
    <3>1. i \in 0..(k - 1) /\ f[i] = g[i]
      BY <2>2, <1>4
    <3>2. i # 0 => i - 1 \in 0..k /\ i - 1 # k /\ f[i - 1] = g[i - 1]
      BY <2>2, <1>4
    <3> QED BY <3>1, <3>2, <1>6
  <2> QED BY <2>1, <2>2
<1> HIDE DEF f
<1>8. f = [i \in 0..k |-> IF i = 0 THEN s ELSE Step(q, i, f[i - 1])]
  <2>1. f = [i \in 0..k |-> f[i]]
    BY DEF f
  <2> QED BY <2>1, <1>7
<1>9. Turns(q, s, k, f)
  BY <1>8 DEF Turns
<1> QED BY <1>9 DEF Bad

(* What holds before the first turn, and after a turn if it did before,    *)
(* holds of the result.                                                    *)
THEOREM AfterTurns ==
  ASSUME NEW p, NEW q, NEW s, NEW n \in Nat,
         Rel(p, 0, s),
         \A i \in 1..n : \A x : Rel(p, i - 1, x) => Rel(p, i, Step(q, i, x))
  PROVE  Rel(p, n, Result(q, s, n))
<1> DEFINE after == CHOOSE f : Turns(q, s, n, f)
<1>1. Turns(q, s, n, after)
  BY TurnsExist
<1>2. Result(q, s, n) = after[n]
  BY DEF Result, Turns
<1> HIDE DEF after
<1>3. \A i \in 0..n : after[i] = IF i = 0 THEN s ELSE Step(q, i, after[i - 1])
  BY <1>1 DEF Turns
<1> DEFINE Bad == {k \in Nat : k <= n /\ ~ Rel(p, k, after[k])}
<1>4. ASSUME Bad # {} PROVE FALSE
  <2>1. PICK k \in Bad : \A j \in Bad : k <= j
    BY <1>4, LeastExists
  <2>2. k # 0
    BY <1>3
  <2>3. k - 1 \in Nat /\ k - 1 \notin Bad
    BY <2>1, <2>2
  <2>4. Rel(p, k - 1, after[k - 1])
    BY <2>3, <2>1
  <2>5. after[k] = Step(q, k, after[k - 1]) /\ k \in 1..n
    BY <1>3, <2>1, <2>2
  <2>6. Rel(p, k, after[k])
    BY <2>4, <2>5
  <2> QED BY <2>6
<1>5. Rel(p, n, after[n])
  BY <1>4
<1> QED BY <1>2, <1>5
==============================================================================
