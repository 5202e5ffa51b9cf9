---------------------------- MODULE MCTcpEndpoint ----------------------------
(***************************************************************************)
(* An instance of TcpEndpoint for TLC: a peer that opens, acknowledges     *)
(* nothing, something or too much, sends data in and out of order, a FIN   *)
(* and a RST.                                                              *)
(***************************************************************************)
EXTENDS TcpEndpoint

Seg(seq, len, flags, ackno, wnd) ==
  [seq |-> seq, len |-> len, dlen |-> len, off |-> IF seq = 0 THEN 0 ELSE seq - 1,
   syn |-> "syn" \in flags, fin |-> "fin" \in flags, psh |-> "psh" \in flags,
   rst |-> "rst" \in flags, ack |-> "ack" \in flags, ackno |-> ackno,
   wnd |-> wnd, freed |-> FALSE]

MCSegments ==
  {Seg(0, 0, {"syn"}, 0, 2), Seg(0, 0, {"syn", "ack"}, 1, 2), Seg(1, 0, {"rst"}, 0, 0)}
    \cup {Seg(1, 0, {"ack"}, a, 2) : a \in {0, 1, 2, 4}}
    \cup {Seg(2, 1, {"ack"}, 1, 2), Seg(1, 1, {"ack", "psh"}, 2, 2),
          Seg(1, 1, {"ack", "fin"}, 2, 1), Seg(2, 0, {"ack", "fin"}, 3, 2)}

MCJunk == {[snd_wnd |-> 0, wnd_seqno |-> 0, wnd_ackno |-> 0, rcv_adv |-> 0]}
==============================================================================
