---------------------------- MODULE MCShareLoop ----------------------------
(* Small instances of ShareLoop for TLC. *)
EXTENDS ShareLoop

SmallAndTooLarge == {1, 4}
OneSize == {1}
=============================================================================
