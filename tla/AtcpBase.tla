------------------------------- MODULE AtcpBase -------------------------------
(***************************************************************************)
(* The calls of a connection's user (atcp_base.c): what each does between  *)
(* lock_sock and release_sock.  Calls never sleep here: one that would is  *)
(* made later instead, and memory for what is sent never runs out.         *)
(***************************************************************************)
EXTENDS AtcpTimer

(* The byte with sequence number n is n. *)
Bytes(from, n) == [i \in 1..n |-> from + i - 1]

(***************************************************************************)
(* sendmsg                                                                 *)
(***************************************************************************)
MayWrite(s) == s.state \in {"ESTABLISHED", "CLOSE_WAIT"} /\ ~s.err
                 /\ "SEND" \notin s.shutdown

(* The last buffer, not sent yet, takes more bytes. *)
TackRoom(s) ==
  LET skb == s.wq[Len(s.wq)]
  IN IF s.send_head = Null \/ s.snd_nxt >= skb.end THEN 0
     ELSE Larger(0, Smaller(atcp_current_mss(s), skb.cap) - Len(skb.data))

(* Mutant: the buffer's end stays where it was. *)
TackOnData(s, n) ==
  LET k == Len(s.wq)
  IN [s EXCEPT !.wq[k].data = @ \o Bytes(s.write_seq, n), !.write_seq = @ + n]
TackOn(s, n) ==
  LET k == Len(s.wq)
  IN [s EXCEPT !.wq[k].data = @ \o Bytes(s.write_seq, n),
               !.wq[k].end = @ + n, !.write_seq = @ + n]

(* How much to put in a new buffer: all that the window takes if that is   *)
(* more than half of the largest window seen, else a whole segment.  The   *)
(* room is compared as an unsigned number: a negative one is large.        *)
CopySize(s, left) ==
  LET mss  == atcp_current_mss(s)
      room == s.snd_wnd - (s.snd_nxt - s.snd_una)
      copy == IF room >= 0 /\ room > s.max_window \div 2
              THEN Smaller(room, mss) ELSE mss
  IN Smaller(copy, left)

NewBuffer(s, n) ==
  LET mss == atcp_current_mss(s)
      queue_it == n < Smaller(mss, s.max_window \div 2)
      cap == IF queue_it THEN Smaller(mss, s.max_window) ELSE n
  IN atcp_send_skb(s, Skb(s.write_seq, Bytes(s.write_seq, n), cap, {"ACK"}),
                   queue_it)

atcp_do_sendmsg(s, len) ==
  LET Turn(x) ==
        LET tack == Smaller(TackRoom(x.s), x.left)
            copy == CopySize(x.s, x.left)
        IN IF x.left = 0 THEN x
           ELSE IF tack > 0 THEN [s |-> TackOn(x.s, tack), left |-> x.left - tack]
           ELSE [s |-> NewBuffer(x.s, copy), left |-> x.left - copy]
  IN atcp_push_pending_frames(Repeat([s |-> s, left |-> len], len, Turn).s)

(***************************************************************************)
(* recvmsg: gives [sk, got], the bytes copied.                             *)
(***************************************************************************)
(* Mutant: a buffer is read from its start. *)
OffsetOfStart(s, skb) == IF s.copied_seq < skb.end - Flag(skb.fin) THEN 0 ELSE Len(skb.data)
Offset(s, skb) == s.copied_seq - skb.seq - Flag(skb.syn)

(* The first buffer with something to copy, or with a FIN. *)
Readable(s) ==
  LET Has(skb) == Offset(s, skb) < Len(skb.data) \/ skb.fin
  IN SelectInSeq(s.rq, Has)

FoundFin(s, k) == [s EXCEPT !.copied_seq = @ + 1, !.rq = SubSeq(@, k + 1, Len(@)),
                            !.shutdown = @ \union {"RCV"}]

CopyTurn(x) ==
  LET k   == Readable(x.s)
      skb == x.s.rq[k]
      off == Offset(x.s, skb)
      n   == Smaller(x.left, Len(skb.data) - off)
      c   == [x.s EXCEPT !.copied_seq = @ + n]
      got == x.got \o SubSeq(skb.data, off + 1, off + n)
  IN IF x.left = 0 \/ k = 0 THEN [x EXCEPT !.left = 0]
     ELSE IF off >= Len(skb.data)
          THEN [x EXCEPT !.s = FoundFin(x.s, k), !.left = 0]
     ELSE IF off + n < Len(skb.data)
          THEN [s |-> [c EXCEPT !.rq = SubSeq(@, k, Len(@))], got |-> got, left |-> 0]
     ELSE IF skb.fin THEN [s |-> FoundFin(c, k), got |-> got, left |-> 0]
     ELSE [s |-> [c EXCEPT !.rq = SubSeq(@, k + 1, Len(@))], got |-> got,
           left |-> x.left - n]

(* Tell the peer if the window has at least doubled. *)
cleanup_rbuf(s, copied) ==
  IF /\ copied > 0 /\ RawWindow(s) # 0
     /\ RawWindow(s) >= 2 * atcp_receive_window(s) /\ s.state # "CLOSE"
  THEN atcp_send_ack(s)
  ELSE IF copied > 0 THEN Predict(s) ELSE s

atcp_recvmsg(s, len) ==
  LET r == Repeat([s |-> s, got |-> <<>>, left |-> len], Len(s.rq) + 1, CopyTurn)
  IN [sk |-> cleanup_rbuf(r.s, Len(r.got)), got |-> r.got]

(***************************************************************************)
(* shutdown and close                                                      *)
(***************************************************************************)
new_state ==
  [ESTABLISHED |-> "FIN_WAIT1", SYN_SENT |-> "CLOSE", SYN_RECV |-> "FIN_WAIT1",
   FIN_WAIT1 |-> "FIN_WAIT1", FIN_WAIT2 |-> "FIN_WAIT2", CLOSE |-> "CLOSE",
   CLOSE_WAIT |-> "LAST_ACK", LAST_ACK |-> "LAST_ACK", CLOSING |-> "CLOSING"]

SendsFin == {"ESTABLISHED", "SYN_RECV", "CLOSE_WAIT"}

(* A socket in FIN_WAIT2 whose user is gone does not wait for ever. *)
atcp_check_fin_timer(s) ==
  IF s.state = "FIN_WAIT2" /\ s.msl = "none" THEN net_reset_timer(s, "CLOSE") ELSE s

atcp_close_state(s, dead) ==
  LET t == atcp_set_state(s, new_state[s.state])
  IN IF dead THEN atcp_check_fin_timer(t) ELSE t

FinIfNeeded(s, dead) ==
  LET t == atcp_close_state(s, dead)
  IN IF s.state \in SendsFin THEN atcp_send_fin(t) ELSE t

(* The socket layer marks the socket first. *)
atcp_shutdown(s) ==
  LET t == [s EXCEPT !.shutdown = @ \union {"SEND"}]
  IN IF s.state \in {"ESTABLISHED", "SYN_SENT", "SYN_RECV", "CLOSE_WAIT"}
     THEN FinIfNeeded(t, FALSE) ELSE t

(* Up to release_sock; what the peer has not read makes it a reset. *)
atcp_close(s) ==
  LET unread == \E i \in DOMAIN s.rq : s.rq[i].end - s.rq[i].seq > Flag(s.rq[i].fin)
      t == [s EXCEPT !.shutdown = {"RCV", "SEND"}, !.rq = <<>>]
  IN atcp_check_fin_timer(
       IF unread THEN atcp_send_active_reset(atcp_set_state(t, "CLOSE"))
       ELSE FinIfNeeded(t, TRUE))

(***************************************************************************)
(* setsockopt                                                              *)
(***************************************************************************)
(* Un-corking sends what was held back. *)
NoDelay(s) == [s EXCEPT !.nonagle = 1]
Cork(s)   == [s EXCEPT !.nonagle = 2]
Uncork(s) == atcp_push_pending_frames([s EXCEPT !.nonagle = 0])
==============================================================================
