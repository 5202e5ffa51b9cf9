--------------------------- MODULE MCTcpConnection ---------------------------
(***************************************************************************)
(* Instances of TcpConnection for TLC.  A configuration file gives the     *)
(* numbers; this module makes functions and records of them.               *)
(***************************************************************************)
EXTENDS TcpConnection

CONSTANTS WritesActive, WritesPassive, TotalActive, TotalPassive

MCWriteSizes == [active |-> WritesActive, passive |-> WritesPassive]
MCMaxWrite   == [active |-> TotalActive, passive |-> TotalPassive]

(* A new TCB in zeroed memory, and one in memory that held something else: *)
(* its first SYN offers more than the receive buffer holds.                *)
Zeroed  == [snd_wnd |-> 0, wnd_seqno |-> 0, wnd_ackno |-> 0, rcv_adv |-> 0]
Used    == [snd_wnd |-> 3, wnd_seqno |-> 5, wnd_ackno |-> 2, rcv_adv |-> 12]
MCZeroed == {Zeroed}
MCJunk   == {Zeroed, Used}
==============================================================================
