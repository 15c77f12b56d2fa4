------------------------------ MODULE EgressBoundary ------------------------------
(***************************************************************************)
(* What the final media gate promises to the rest of the sender, with no   *)
(* threads and no lock: a media datagram leaves the host in one step, and  *)
(* only in the epoch that is admitted in that very step.                   *)
(* MediaEgressGate is the detailed specification that implements this one. *)
(***************************************************************************)
EXTENDS Naturals

CONSTANT MaxEpoch      \* the largest representable epoch (UINT64_MAX in the code)

VARIABLES open,        \* media admission is open
          epoch,       \* the epoch that is, or will next be, admitted
          terminal,    \* a boundary other than a pause has been crossed
          wire         \* [epoch -> number of media datagrams handed to the network]

vars == <<open, epoch, terminal, wire>>

Init == /\ open = TRUE
        /\ epoch \in 1..MaxEpoch
        /\ terminal = FALSE
        /\ wire = [e \in 0..MaxEpoch |-> 0]

Emit == /\ open
        /\ wire' = [wire EXCEPT ![epoch] = @ + 1]
        /\ UNCHANGED <<open, epoch, terminal>>

(* A boundary retires the admitted epoch for good.                         *)
Close(final) ==
  /\ open' = FALSE
  /\ epoch' = IF open /\ epoch # MaxEpoch THEN epoch + 1 ELSE epoch
  /\ terminal' = (terminal \/ final)
  /\ UNCHANGED wire

Resume == /\ ~terminal
          /\ epoch # MaxEpoch
          /\ open' = TRUE
          /\ UNCHANGED <<epoch, terminal, wire>>

Next == \/ Emit
        \/ \E final \in BOOLEAN : Close(final)
        \/ Resume

Spec == Init /\ [][Next]_vars
====================================================================================
