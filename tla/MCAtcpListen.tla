---------------------------- MODULE MCAtcpListen ----------------------------
(* AtcpListen with interchangeable peers. *)
EXTENDS AtcpListen
PeerSymmetry == Permutations(Peers)
==============================================================================
