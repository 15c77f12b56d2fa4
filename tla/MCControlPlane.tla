--------------------------- MODULE MCControlPlane ---------------------------
(***************************************************************************)
(* The parts of the control plane side by side: a behaviour is one of the  *)
(* owner's signaling client, of the control session, of the protected-     *)
(* region controller or of the clock correlation.  They share no state.    *)
(***************************************************************************)
EXTENDS OwnerSignaling, ControlSession, RegionController, ClockCorrelation

VARIABLE part

mcVars == <<part, ownVars, ctlVars, regVars, clkVars>>

MCTop == [k \in KnobSet |-> IF k = "payload" THEN 2 ELSE 1]

MCInit ==
  /\ part \in {"owner", "control", "controller", "clock"}
  /\ OwnInit /\ CtlInit /\ RegInit /\ ClkInit
  /\ part = "clock" \/ lead = 0

MCNext ==
  /\ UNCHANGED part
  /\ \/ part = "owner" /\ OwnNext /\ UNCHANGED <<ctlVars, regVars, clkVars>>
     \/ part = "control" /\ CtlNext /\ UNCHANGED <<ownVars, regVars, clkVars>>
     \/ part = "controller" /\ RegNext /\ UNCHANGED <<ownVars, ctlVars, clkVars>>
     \/ part = "clock" /\ ClkNext /\ UNCHANGED <<ownVars, ctlVars, regVars>>

(* The other parts' actions are disabled for ever. *)
MCSpec ==
  /\ MCInit /\ [][MCNext]_mcVars
  /\ OwnFairness
  /\ WF_regVars(part = "controller" /\ RegTicks)
=============================================================================
