------------------------------- MODULE AtcpSack -------------------------------
(***************************************************************************)
(* The blocks a receiver of the Linux 2.2 TCP reports for its out-of-order *)
(* queue (atcp_input.c): most recent first, at most MaxSacks of them, each *)
(* a record of two sequence numbers.                                       *)
(***************************************************************************)
EXTENDS AtcpSock

CONSTANT MaxSacks   \* 4, or 3 with timestamps

ASSUME MaxSacksPositive == MaxSacks \in Nat \ {0}

BlockOneMore(skb) == [start |-> skb.seq, end |-> skb.end + 1]    \* mutant
Block(skb) == [start |-> skb.seq, end |-> skb.end]
Between(n, b) == b.start <= n /\ n <= b.end

First(s, P(_)) == SelectInSeq(s, P)   \* 0 when there is none

(* Join the block at position k with the first other that it runs into.    *)
atcp_sack_maybe_coalesce(sacks, k) ==
  LET sp == sacks[k]
      Touches(j) == j # k /\ (Between(sp.start, sacks[j]) \/ Between(sp.end, sacks[j]))
      j == First([i \in DOMAIN sacks |-> i], Touches)
  IN IF Len(sacks) = 1 \/ j = 0 THEN sacks
     ELSE LET joined == IF Between(sp.start, sacks[j])
                        THEN [sp EXCEPT !.start = sacks[j].start]
                        ELSE [sp EXCEPT !.end = sacks[j].end]
          IN RemoveAt([sacks EXCEPT ![k] = joined], j)

(* A buffer joined the out-of-order queue: grow a block it is adjacent to, *)
(* which comes first then, or start one and forget the oldest.             *)
atcp_sack_new_ofo_skb(sacks, skb) ==
  LET Adjacent(b) == b.end = skb.seq \/ b.start = skb.end
      k == First(sacks, Adjacent)
      grown == IF sacks[k].end = skb.seq
               THEN [sacks[k] EXCEPT !.end = skb.end]
               ELSE [sacks[k] EXCEPT !.start = skb.seq]
  IN IF k = 0
     THEN <<Block(skb)>> \o SubSeq(sacks, 1, Smaller(Len(sacks), MaxSacks - 1))
     ELSE atcp_sack_maybe_coalesce(
            [sacks EXCEPT ![1] = grown, ![k] = IF k = 1 THEN grown ELSE sacks[1]], 1)

(* A buffer joined the receive queue: it eats into the first block whose   *)
(* start it covers.                                                        *)
atcp_sack_remove_skb(sacks, skb) ==
  LET Covered(b) == skb.seq <= b.start /\ b.start < skb.end
      k == First(sacks, Covered)
  IN IF k = 0 THEN sacks
     ELSE IF skb.end >= sacks[k].end THEN RemoveAt(sacks, k)
          ELSE [sacks EXCEPT ![k].start = skb.end]

(* A buffer was replaced by a longer one with the same start. *)
atcp_sack_extend(sacks, old, new) ==
  LET Ends(b) == b.end = old.end
      k == First(sacks, Ends)
  IN IF k = 0 THEN sacks ELSE [sacks EXCEPT ![k].end = new.end]
==============================================================================
