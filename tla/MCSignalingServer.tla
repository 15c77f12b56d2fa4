----------------------------- MODULE MCSignalingServer -----------------------------
(* Small instances of SignalingServer. *)
EXTENDS SignalingServer, TLC

ConnSymmetry == Permutations(Conn)
====================================================================================
