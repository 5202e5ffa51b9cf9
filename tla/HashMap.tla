------------------------------ MODULE HashMap ------------------------------
(***************************************************************************)
(* The open hash table of include/lcdf/hashmap.{hh,cc}: a table of a power *)
(* of two slots, probed from the low bits of the hash code in steps taken  *)
(* from its next bits.  Nothing is ever taken out of a table: a value is   *)
(* only replaced, so a "deleted" name of a namespace keeps its slot.       *)
(***************************************************************************)
EXTENDS Integers, SequencesExt

CONSTANTS
    HashCode        \* hashcode(k) of every key

NoKey == ""         \* K(): no key that converts to false is stored
DefaultValue == 0   \* the _default_value of the tables modelled here

Slots(cap) == 0 .. cap - 1
FreeSlots(cap) == CHOOSE e \in [Slots(cap) -> {[key |-> NoKey, value |-> DefaultValue]}] : TRUE

GrowWhenFull(cap) == cap        \* mutant
GrowLimit(cap) == (3 * cap) \div 4 - 1

(***************************************************************************)
(* The slots the probe of key k visits, in order.  The step is odd and the *)
(* capacity a power of two, so the probe visits every slot.                *)
(***************************************************************************)
ProbeStart(k, cap) == HashCode[k] % cap
ProbeStep(k, cap) == LET j == (HashCode[k] \div 64) % cap
                     IN  IF j % 2 = 0 THEN j + 1 ELSE j
Probe(k, cap, t) == (ProbeStart(k, cap) + t * ProbeStep(k, cap)) % cap

(* The first slot of the probe that is free or holds k: the loop of bucket *)
(* ends only because some slot is always free.                             *)
Bucket(m, k) ==
    LET stop(t) == m.e[Probe(k, m.cap, t)].key \in {NoKey, k}
        t0 == CHOOSE t \in Slots(m.cap) :
                  stop(t) /\ \A u \in 0 .. t - 1 : ~ stop(u)
    IN  Probe(k, m.cap, t0)

(* increase(-1): every pair is put into a table twice as large. *)
Increase(m) ==
    LET cap == IF m.cap < 8 THEN 8 ELSE 2 * m.cap
        place(n, i) == IF m.e[i].key = NoKey THEN n
                       ELSE [n EXCEPT !.e[Bucket(n, m.e[i].key)] = m.e[i]]
    IN  FoldLeft(place,
                 [cap |-> cap, n |-> m.n, e |-> FreeSlots(cap)],
                 [i \in 1 .. m.cap |-> i - 1])

EmptyMap == Increase([cap |-> 0, n |-> 0, e |-> << >>])

CheckCapacity(m) == IF m.n >= GrowLimit(m.cap) THEN Increase(m) ELSE m

Put(m, i, k, v) ==
    [m EXCEPT !.e[i] = [key |-> k, value |-> v],
              !.n = IF m.e[i].key = NoKey THEN @ + 1 ELSE @]
PutInBucket(m, k, v) == Put(m, Bucket(m, k), k, v)
Insert(m, k, v) == PutInBucket(CheckCapacity(m), k, v)

(* operator[]: the value of a key, and the default of one never inserted. *)
Find(m, k) == m.e[Bucket(m, k)].value

(* What the bucket loop needs to end for a key the table does not hold. *)
HasFreeSlot(m) == \E i \in Slots(m.cap) : m.e[i].key = NoKey

Keys(m) == { m.e[i].key : i \in Slots(m.cap) } \ {NoKey}
=============================================================================
