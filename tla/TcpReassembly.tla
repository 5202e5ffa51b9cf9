---------------------------- MODULE TcpReassembly ----------------------------
(***************************************************************************)
(* The reassembly queue (reass.pc, with the overrides of delayack.pc and   *)
(* quickack.pc): data in order goes to the socket, other data waits in     *)
(* t.queue, linked by ascending sequence number.                           *)
(***************************************************************************)
EXTENDS Tcb, SequencesExt

(***************************************************************************)
(* The bytes a linked buffer holds, by stream position.  The contents of a *)
(* buffer that has been freed are unspecified: they count as position 0.   *)
(***************************************************************************)
Bytes(s) == [i \in 1..s.dlen |-> IF s.freed THEN 0 ELSE s.off + i]

CountFlagsToo(t, s) ==                                       \* seeded fault
  IF ReceivableLength(t) > 0
    THEN [t EXCEPT !.rcv_next = @ + SeqLen(s), !.rcv_len = @ + s.len,
                   !.stream = @ \o Bytes(s)]
    ELSE t
SegmentToUser(t, s) ==
  IF ReceivableLength(t) > 0
    THEN [t EXCEPT !.rcv_next = @ + s.len, !.rcv_len = @ + s.len,
                   !.stream = @ \o Bytes(s)]
    ELSE t                                                       \* free-read

(***************************************************************************)
(* trim-against(edge, seg): whether seg is a complete duplicate, and seg   *)
(* with its part before edge trimmed off.                                  *)
(***************************************************************************)
Duplicate(edge, s)   == edge > s.seq /\ edge >= Right(s)
TrimAgainst(edge, s) ==
  IF s.seq < edge /\ edge < Right(s) THEN TrimFront(s, edge - s.seq) ELSE s

(***************************************************************************)
(* insert-into-nonempty-queue.  find-overlapping gives the first queued    *)
(* segment that ends after the new one starts.  The front pass trims the   *)
(* new segment against each queued segment that starts no later than it;   *)
(* a complete duplicate is freed but goes on being linked, because seg     *)
(* stays non-null.  The back pass trims or deletes the segments it covers. *)
(***************************************************************************)
FirstOverlapping(q, seqno) ==
  LET hits == {i \in DOMAIN q : Right(q[i]) > seqno}
  IN  IF hits = {} THEN Len(q) + 1 ELSE CHOOSE i \in hits : \A j \in hits : i =< j

FrontPass(q, i0, seg) ==
  LET step(a, x) ==
        IF a.stop \/ x.seq > a.s.seq THEN [a EXCEPT !.stop = TRUE]
        ELSE IF Duplicate(Right(x), a.s)
          THEN [a EXCEPT !.stop = TRUE, !.s.freed = TRUE]
          ELSE [a EXCEPT !.s = TrimAgainst(Right(x), @), !.i = @ + 1]
  IN  FoldLeft(step, [s |-> seg, i |-> i0, stop |-> FALSE],
               SubSeq(q, i0, Len(q)))

BackPass(q, edge) ==
  LET step(a, x) ==
        IF ~a.stop /\ Duplicate(edge, x) THEN a
        ELSE [stop |-> TRUE,
              kept |-> Append(a.kept, IF a.stop THEN x ELSE TrimAgainst(edge, x))]
  IN  FoldLeft(step, [stop |-> FALSE, kept |-> <<>>], q).kept

InsertAfter(q, front) ==
  SubSeq(q, 1, front.i - 1) \o <<front.s>>
    \o BackPass(SubSeq(q, front.i, Len(q)), Right(front.s))
Insert(q, s) == InsertAfter(q, FrontPass(q, FirstOverlapping(q, s.seq), s))

(***************************************************************************)
(* reassemble-to-user: the queued segments that have become contiguous are *)
(* delivered; fin is that of the last one delivered.                       *)
(***************************************************************************)
TakenInOrder(t) ==
  LET step(a, x) ==
        IF a.go /\ x.seq = a.t.rcv_next
          THEN [a EXCEPT !.t = [SegmentToUser(a.t, x) EXCEPT !.queue = Tail(@)],
                         !.fin = x.fin]
          ELSE [a EXCEPT !.go = FALSE]
  IN  FoldLeft(step, [t |-> t, fin |-> FALSE, go |-> TRUE], t.queue)

Delivery(t, end) ==
  [t   |-> [t EXCEPT !.rcv_next = end.t.rcv_next, !.rcv_len = end.t.rcv_len,
                     !.stream = end.t.stream, !.queue = end.t.queue],
   fin |-> end.fin]
DeliverQueue(t) == Delivery(t, TakenInOrder(t))

(***************************************************************************)
(* do: the new TCB, and whether a FIN has come up in order.                *)
(***************************************************************************)
EasyReassemble(t, s) ==
  LET mark == IF s.psh THEN "quick-ack"
              ELSE IF Has(t, "delay-ack") THEN "pending-ack" ELSE "delay-ack"
  IN  [t |-> SegmentToUser(Set(t, mark), s), fin |-> s.fin]

Linked(t) == IF ~HaveReceivedSyn(t) \/ t.state = "syn-received"
               THEN [t |-> t, fin |-> FALSE] ELSE DeliverQueue(t)
DifficultReassemble(t, s) ==
  Linked([Set(t, "pending-ack") EXCEPT
            !.queue = IF @ = <<>> THEN <<s>> ELSE Insert(@, s)])

Reassemble(t, s) ==
  IF SeqLen(s) = 0 THEN [t |-> t, fin |-> FALSE]                 \* free-read
  ELSE IF t.queue = <<>> /\ s.seq = t.rcv_next /\ t.state = "established"
    THEN EasyReassemble(t, s)
    ELSE DifficultReassemble(t, s)
==============================================================================
