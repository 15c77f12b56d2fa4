-------------------------- MODULE MCMediaResponder -------------------------
(***************************************************************************)
(* A small instance of MediaResponder for TLC.  A behaviour has two access *)
(* units and two feedback messages, or one access unit and the four        *)
(* messages that a flood takes.                                            *)
(***************************************************************************)
EXTENDS MediaResponder

CONSTANT MaxInputs  \* bound on the inputs, an access unit counting as two

PairOrTooLarge == {2, 3}

MCNext == RspNext /\ 2 * units' + messages' <= MaxInputs

MCSpec == RspInit /\ [][MCNext]_rspVars
=============================================================================
