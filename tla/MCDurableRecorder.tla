-------------------------- MODULE MCDurableRecorder --------------------------
(***************************************************************************)
(* Model checking of DurableRecorder: see MCDurableRecorder.cfg.           *)
(***************************************************************************)
EXTENDS DurableRecorder
=============================================================================
