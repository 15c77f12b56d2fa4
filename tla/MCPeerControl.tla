---------------------------- MODULE MCPeerControl ----------------------------
(* PeerControl with its fairness, for TLC. *)
EXTENDS PeerControl

MCSpec == PeerSpec /\ PeerFairness
=============================================================================
