----------------------------- MODULE MCMediaPath -----------------------------
(***************************************************************************)
(* The parts of the media path side by side: a behaviour is one of the     *)
(* encoded fanout, of the bounded responder with its pacer, or of the      *)
(* egress gate.  They share no state.  The responder's safety is checked   *)
(* on a larger instance, MCMediaResponder.                                 *)
(***************************************************************************)
EXTENDS MediaEgressGate, EncodedFanout

CONSTANTS
  Window, FloodTime, MaxFeedback, MaxNackIds, CacheAge, CachePackets,
  MaxRetransmissions, WireModulus, PacerCapacity, PacerAge,
  MaxAccessUnits, RspMaxEpoch, AccessUnitSizes, NackSize, MaxMessages

VARIABLES m, peer, nextSeq, units, sender, network, messages, worker, drained, resent

VARIABLE part

Responder == INSTANCE MediaResponder

rspVars == <<m, peer, nextSeq, units, sender, network, messages, worker, drained, resent>>
mcVars == <<part, vars, fanVars, rspVars>>

Datagram(class, path, family, provenance, protocol, payload) ==
  [classification |-> class, path |-> path, ip_family |-> family,
   provenance |-> provenance, protocol |-> protocol, ip_header |-> "plain",
   payload |-> payload]

(* One SRTP packet, one TURN-wrapped media packet, one DTLS datagram and   *)
(* an SRTP packet mislabelled as control.                                  *)
MCDatagrams ==
  {Datagram("media", "direct_udp", "ipv4", "libdatachannel_media", "srtp", 2),
   Datagram("media", "turn_udp", "ipv6", "libdatachannel_media", "turn_channel_data", 2),
   Datagram("control", "direct_udp", "ipv4", "libdatachannel_control", "dtls", 2),
   Datagram("control", "direct_udp", "ipv4", "libdatachannel_control", "srtp", 2)}

MCUnitSizes == {1, 2, 4}
MCAccessUnitSizes == {1}

MCInit ==
  /\ part \in {"gate", "fanout", "responder"}
  /\ Init /\ FanInit /\ Responder!RspInit
  /\ part = "gate" \/ active_epoch = 1
  /\ part = "fanout" \/ recorder

MCNext ==
  /\ UNCHANGED part
  /\ \/ part = "gate" /\ Next /\ UNCHANGED <<fanVars, rspVars>>
     \/ part = "fanout" /\ FanNext /\ UNCHANGED <<vars, rspVars>>
     \/ part = "responder" /\ Responder!RspNext /\ UNCHANGED <<vars, fanVars>>

(* The responder's threads run on, as in MediaResponder!RspFairSpec; the   *)
(* gate and the fanout are passive.                                        *)
MCSpec ==
  /\ MCInit /\ [][MCNext]_mcVars
  /\ WF_rspVars(part = "responder" /\ Responder!WorkerStep)
  /\ WF_rspVars(part = "responder" /\ Responder!RspTick)
  /\ WF_rspVars(part = "responder" /\ Responder!StopResponder)
  /\ WF_rspVars(part = "responder" /\ Responder!StopJoin)

(* A packet in the pacer leaves it, released or purged with its epoch when *)
(* it reaches the age bound, even if no token and no further access unit   *)
(* ever comes; and the join of the worker in stop comes to an end.         *)
ResponderProgress == Responder!QueueEmpties /\ Responder!StopCompletes
=============================================================================
