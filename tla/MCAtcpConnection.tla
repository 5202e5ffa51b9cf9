--------------------------- MODULE MCAtcpConnection ---------------------------
(* AtcpConnection with the values TLC needs. *)
EXTENDS AtcpConnection
CONSTANTS TotalActive, TotalPassive
MCTotal == (Active :> TotalActive) @@ (Passive :> TotalPassive)
==============================================================================
