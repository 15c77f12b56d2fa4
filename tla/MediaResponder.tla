-------------------------- MODULE MediaResponder ---------------------------
(***************************************************************************)
(* The sending side of one peer between the encoder and the egress gate:   *)
(* PeerSender::send_access_unit (src/transport/peer_sender.cpp) driving    *)
(* the BoundedNackResponder (vendor/libdatachannel-v0.24.1/                *)
(* glyphrelay_media_handlers.cpp).  Three threads share the responder:     *)
(*   sender   the application's loop, which submits access units and is    *)
(*            also the thread that stops the peer;                         *)
(*   network  the library thread that delivers NACK and PLI;               *)
(*   worker   run_pacer, which drains the queue on a timer.                *)
(* Each takes packets out of the queue under the mutex and gives them to   *)
(* the transport after it has released it, so purges, new epochs and the   *)
(* stop fall between the two.                                              *)
(***************************************************************************)
EXTENDS MediaPacer

CONSTANTS MaxAccessUnits,   \* bound on the access units submitted
          RspMaxEpoch,         \* bound on the dependency epochs
          AccessUnitSizes,  \* packets per access unit
          NackSize,         \* bound on the identifiers of one NACK
          MaxMessages       \* bound on the feedback messages received

ASSUME ResponderAssumption ==
  /\ {MaxAccessUnits, RspMaxEpoch, NackSize, MaxMessages} \subseteq Nat \ {0}
  /\ AccessUnitSizes \subseteq Nat \ {0}
  /\ IsFiniteSet(AccessUnitSizes) /\ AccessUnitSizes # {}

VARIABLES
  m,        \* what the responder's mutex protects
  peer,     \* [epoch, failed, reason, stop]: what PeerSender's mutex protects
  nextSeq,  \* next extended sequence number of the packetizer
  units,    \* access units submitted so far
  sender,   \* [pc, epoch, idr, size, batch]
  network,  \* [pc, batch, terminate]
  messages, \* feedback messages received so far
  worker,   \* [pc, batch]
  drained,  \* history: [last, unbroken], the last packet released for the first
            \* time, and whether every one so far continued what was before it
  resent    \* history: times each packet passed the egress gate again

rspVars == <<m, peer, nextSeq, units, sender, network, messages, worker,
          drained, resent>>

Epochs == 0 .. RspMaxEpoch
Largest(S) == CHOOSE n \in S : \A k \in S : k <= n
Seqs == 1 .. MaxAccessUnits * Largest(AccessUnitSizes)

PacketType ==
  [seq : Seqs, epoch : Epochs, idr : BOOLEAN, start : BOOLEAN, rtx : BOOLEAN,
   age : 0 .. PacerAge]

FailureReasons == {"none", "PEER_RECOVERY_EPOCH_REJECTED", "PEER_TRACK_SEND_FAILED",
            "PEER_PACKETIZER_REJECTED", "PEER_PACER_REJECTED",
            "PEER_FEEDBACK_FLOOD"}

(* Type correctness of the shared state and of the three threads. *)
RspTypeOK ==
  /\ m.awaiting \in BOOLEAN /\ m.stopped \in BOOLEAN
  /\ m.active \in Epochs /\ m.abandoned \in Epochs
  /\ m.queue \in Seq(PacketType)
  /\ m.cacheEpoch \in Epochs /\ DOMAIN m.cache \subseteq Seqs
  /\ \A s \in DOMAIN m.cache :
       m.cache[s] \in [age : 0 .. CacheAge, resent : 0 .. MaxRetransmissions]
  /\ m.recEpoch \in Epochs /\ m.lastIdr \in 0 .. Window
  /\ m.feedback \in Seq(0 .. Window) /\ Len(m.feedback) <= MaxFeedback + 1
  /\ DOMAIN m.nacks \subseteq 0 .. WireModulus - 1
  /\ Cardinality(DOMAIN m.nacks) <= MaxNackIds
  /\ \A i \in DOMAIN m.nacks : m.nacks[i] \in 0 .. Window
  /\ m.overload \in {NoOverload} \cup 0 .. FloodTime
  /\ {m.recStopped, m.flooded, m.stopping, m.notified} \subseteq BOOLEAN
  /\ m.epoch \in Epochs /\ m.rejection \in Rejections
  /\ peer \in [epoch : Epochs, failed : BOOLEAN, reason : FailureReasons,
               stop : {"no", "closing", "joining", "stopped"}]
  /\ nextSeq \in Nat \ {0} /\ units \in 0 .. MaxAccessUnits
  /\ sender.pc \in {"idle", "begin", "outgoing", "sending", "settle", "done"}
  /\ network.pc \in {"idle", "sending"} /\ messages \in 0 .. MaxMessages
  /\ worker.pc \in {"waiting", "sending", "failed", "exited"}
  /\ \A t \in {sender, network, worker} : t.batch \in Seq([seq : Seqs, rtx : BOOLEAN])
  /\ drained.last \in [seq : Seqs \cup {0}, epoch : Epochs]
  /\ drained.unbroken \in BOOLEAN
  /\ resent \in [Seqs -> Nat]

(* The sender thread outside send_access_unit: "idle" may call it again,   *)
(* "done" was told to stop.                                                *)
Caller(pc) == [pc |-> pc, epoch |-> 0, idr |-> FALSE, size |-> 0,
               batch |-> << >>]

(* Before the first release: no packet has number 0 or epoch 0. *)
NothingReleased == [seq |-> 0, epoch |-> 0]

RspInit ==
  /\ m = Initial
  /\ peer = [epoch |-> 0, failed |-> FALSE, reason |-> "none", stop |-> "no"]
  /\ nextSeq = 1 /\ units = 0
  /\ sender = Caller("idle")
  /\ network = [pc |-> "idle", batch |-> << >>, terminate |-> FALSE]
  /\ messages = 0
  /\ worker = [pc |-> "waiting", batch |-> << >>]
  /\ drained = [last |-> NothingReleased, unbroken |-> TRUE]
  /\ resent = [s \in Seqs |-> 0]

-----------------------------------------------------------------------------
(* fail: the first failure closes the egress gate and reports the reason. *)
Failed(reason) ==
  IF peer.failed \/ peer.stop # "no" THEN peer
  ELSE [peer EXCEPT !.failed = TRUE, !.reason = reason]

(* The gate of MediaEgressGate: closed by fail and by stop. *)
GateOpen == ~peer.failed /\ peer.stop = "no"

FirstSent(out) == {i \in DOMAIN out : ~out[i].rtx}

(* What was released for the first time before packet i of a batch: the    *)
(* last such packet of the batch before it, or of the batches before.      *)
Preceding(last, out, i) ==
  LET earlier == {j \in FirstSent(out) : j < i}
  IN  IF earlier = {} THEN last ELSE out[Largest(earlier)]

(* A batch handed to the transport: the packets drained. *)
Batch(out) == [i \in DOMAIN out |-> [seq |-> out[i].seq, rtx |-> out[i].rtx]]

(* A packet continues the one released before it: it is the next of its    *)
(* dependency epoch, or it starts the IDR access unit of a later one.      *)
Continues(packet, last) ==
  \/ packet.seq = last.seq + 1 /\ packet.epoch = last.epoch
  \/ packet.start /\ packet.idr /\ packet.epoch > last.epoch

(* The packets a drain released are examined in the order of release. *)
RecordDrain(out) ==
  LET newest == Preceding(drained.last, out, Len(out) + 1)
  IN  drained' = [last |-> [seq |-> newest.seq, epoch |-> newest.epoch],
                  unbroken |-> /\ drained.unbroken
                               /\ \A i \in FirstSent(out) :
                                    Continues(out[i], Preceding(drained.last, out, i))]

Retransmissions(batch, k, s) ==
  Cardinality({i \in 1 .. k : batch[i] = [seq |-> s, rtx |-> TRUE]})

(* The first k packets of a batch reach the transport. *)
Transmit(batch, k) ==
  resent' = IF GateOpen THEN [s \in Seqs |-> resent[s] + Retransmissions(batch, k, s)]
            ELSE resent

-----------------------------------------------------------------------------
(* The sender thread: send_access_unit.                                    *)

(* Under the peer's mutex: a new dependency epoch must begin with an IDR.  *)
SendAccessUnit(epoch, idr, size) ==
  /\ sender.pc = "idle" /\ units < MaxAccessUnits
  /\ epoch \in {peer.epoch, peer.epoch + 1} \cap (1 .. RspMaxEpoch)
  /\ units' = units + 1
  /\ IF peer.failed \/ (epoch # peer.epoch /\ ~idr)
     THEN /\ sender' = Caller("done")
          /\ UNCHANGED peer
     ELSE /\ sender' = [sender EXCEPT
               !.pc = IF epoch # peer.epoch THEN "begin" ELSE "outgoing",
               !.epoch = epoch, !.idr = idr, !.size = size]
          /\ peer' = [peer EXCEPT !.epoch = epoch]
  /\ UNCHANGED <<m, nextSeq, network, messages, worker, drained, resent>>

(* BoundedNackResponder::begin_epoch. *)
Fenced(epoch) ==
  IF m.epoch # 0 /\ m.epoch # epoch THEN RequireRecovery(m) ELSE m

EnterEpoch(n, epoch) ==
  IF n.cacheEpoch = epoch
  THEN [n EXCEPT !.epoch = epoch, !.notified = FALSE] ELSE n

BeginEpoch ==
  /\ sender.pc = "begin"
  /\ m' = EnterEpoch(BeginRecoveryEpoch(Fenced(sender.epoch), sender.epoch),
                     sender.epoch)
  /\ IF BeginsEpoch(m, sender.epoch)
     THEN sender' = [sender EXCEPT !.pc = "outgoing"] /\ UNCHANGED peer
     ELSE /\ sender' = Caller("done")
          /\ peer' = Failed("PEER_RECOVERY_EPOCH_REJECTED")
  /\ UNCHANGED <<nextSeq, units, network, messages, worker, drained, resent>>

(* The packetizer numbers the packets, then BoundedNackResponder::outgoing *)
(* admits them and drains what the tokens allow.                           *)
Outgoing ==
  /\ sender.pc = "outgoing"
  /\ nextSeq' = nextSeq + sender.size
  /\ LET r == AdmitAccessUnit(m, Packets(nextSeq, sender.epoch, sender.idr,
                                         sender.size))
     IN  IF r.reason # NoRejection
         THEN /\ m' = [r.m EXCEPT !.rejection = r.reason]
              /\ sender' = [sender EXCEPT !.pc = "sending", !.batch = << >>]
              /\ UNCHANGED drained
         ELSE \E n \in Budgets(r.m) :
                /\ m' = Drain(r.m, n).m
                /\ sender' = [sender EXCEPT !.pc = "sending",
                                            !.batch = Batch(Drain(r.m, n).out)]
                /\ RecordDrain(Drain(r.m, n).out)
  /\ UNCHANGED <<peer, units, network, messages, worker, resent>>

(* The strict packetizer refuses the access unit (its NAL units, or a      *)
(* timestamp that did not increase): the responder gets an empty batch.    *)
PacketizerRejects ==
  /\ sender.pc = "outgoing"
  /\ m' = [ExpireIfNeeded(m) EXCEPT !.rejection = "PACER_ACCESS_UNIT_INVALID"]
  /\ sender' = Caller("done")
  /\ peer' = Failed("PEER_PACKETIZER_REJECTED")
  /\ UNCHANGED <<nextSeq, units, network, messages, worker, drained, resent>>

SenderTransmit ==
  /\ sender.pc = "sending"
  /\ Transmit(sender.batch, Len(sender.batch))
  /\ sender' = Caller("settle")
  /\ UNCHANGED <<m, peer, nextSeq, units, network, messages, worker, drained>>

(* The transport throws after k packets. *)
SenderTransmitFails ==
  /\ sender.pc = "sending"
  /\ \E k \in 0 .. Len(sender.batch) - 1 : Transmit(sender.batch, k)
  /\ sender' = Caller("done")
  /\ peer' = Failed("PEER_TRACK_SEND_FAILED")
  /\ UNCHANGED <<m, nextSeq, units, network, messages, worker, drained>>

(* take_last_pacer_rejection: any rejection recorded since the last access *)
(* unit, by whichever thread, fails the peer.                              *)
Settle ==
  /\ sender.pc = "settle"
  /\ m' = [m EXCEPT !.rejection = NoRejection]
  /\ IF m.rejection = NoRejection
     THEN sender' = Caller("idle") /\ UNCHANGED peer
     ELSE /\ sender' = Caller("done")
          /\ peer' = Failed("PEER_PACER_REJECTED")
  /\ UNCHANGED <<nextSeq, units, network, messages, worker, drained, resent>>

-----------------------------------------------------------------------------
(* The network thread: BoundedNackResponder::incoming with one PLI or one  *)
(* generic NACK.                                                           *)
Orders(S) ==
  {f \in [1 .. Cardinality(S) -> S] : \A s \in S : \E i \in DOMAIN f : f[i] = s}

Feedback(d) ==
  /\ network.pc = "idle" /\ peer.stop # "stopped"
  /\ messages < MaxMessages /\ messages' = messages + 1
  /\ \E order \in Orders(d.resend) :
       LET r == AdmitRetransmissions(d.m,
                  [i \in DOMAIN order |-> Retransmission(order[i], m.epoch)])
           n == [r.m EXCEPT
                   !.rejection = IF r.reason = NoRejection
                                 THEN r.m.rejection ELSE r.reason,
                   !.notified = r.m.notified \/ r.m.flooded]
       IN  \E k \in Budgets(n) :
             /\ m' = Drain(n, k).m
             /\ network' = [pc |-> "sending", batch |-> Batch(Drain(n, k).out),
                            terminate |-> r.m.flooded /\ ~r.m.notified]
             /\ RecordDrain(Drain(n, k).out)
  /\ UNCHANGED <<peer, nextSeq, units, sender, worker, resent>>

Nacks == {ids \in SUBSET (0 .. WireModulus - 1) :
            ids # {} /\ Cardinality(ids) <= NackSize}

IncomingNack ==
  \E ids \in Nacks : \E d \in HandleNack(m, m.epoch, ids) : Feedback(d)

IncomingPli == Feedback(HandlePli(m, m.epoch))

(* Retransmissions are sent without the mutex, then the callbacks run.     *)
NetworkTransmit ==
  /\ network.pc = "sending"
  /\ Transmit(network.batch, Len(network.batch))
  /\ network' = [pc |-> "idle", batch |-> << >>, terminate |-> FALSE]
  /\ peer' = IF network.terminate THEN Failed("PEER_FEEDBACK_FLOOD") ELSE peer
  /\ UNCHANGED <<m, nextSeq, units, sender, messages, worker, drained>>

(* The transport throws: the callbacks are skipped with the rest.          *)
NetworkTransmitFails ==
  /\ network.pc = "sending"
  /\ \E k \in 0 .. Len(network.batch) - 1 : Transmit(network.batch, k)
  /\ network' = [pc |-> "idle", batch |-> << >>, terminate |-> FALSE]
  /\ UNCHANGED <<m, peer, nextSeq, units, sender, messages, worker, drained>>

-----------------------------------------------------------------------------
(* The worker thread: run_pacer.                                           *)
WorkerDrain ==
  /\ worker.pc = "waiting" /\ ~m.stopping /\ m.queue # << >>
  /\ \E k \in Budgets(m) :
       /\ m' = Drain(m, k).m
       /\ worker' = [pc |-> "sending", batch |-> Batch(Drain(m, k).out)]
       /\ RecordDrain(Drain(m, k).out)
  /\ UNCHANGED <<peer, nextSeq, units, sender, network, messages, resent>>

WorkerTransmit ==
  /\ worker.pc = "sending"
  /\ Transmit(worker.batch, Len(worker.batch))
  /\ worker' = [pc |-> "waiting", batch |-> << >>]
  /\ UNCHANGED <<m, peer, nextSeq, units, sender, network, messages, drained>>

WorkerTransmitFails ==
  /\ worker.pc = "sending"
  /\ \E k \in 0 .. Len(worker.batch) - 1 : Transmit(worker.batch, k)
  /\ worker' = [pc |-> "failed", batch |-> << >>]
  /\ UNCHANGED <<m, peer, nextSeq, units, sender, network, messages, drained>>

WorkerRecover ==
  /\ worker.pc = "failed"
  /\ m' = [RequireRecovery(m) EXCEPT
             !.rejection = "PACER_ASYNC_TRANSPORT_SEND_FAILED"]
  /\ worker' = [worker EXCEPT !.pc = "waiting"]
  /\ UNCHANGED <<peer, nextSeq, units, sender, network, messages, drained,
                 resent>>

WorkerExit ==
  /\ worker.pc = "waiting" /\ m.stopping
  /\ worker' = [worker EXCEPT !.pc = "exited"]
  /\ UNCHANGED <<m, peer, nextSeq, units, sender, network, messages, drained,
                 resent>>

-----------------------------------------------------------------------------
(* PeerSender::stop on the application's thread: it closes the gate, stops *)
(* the responder and joins the worker.                                     *)
StopBegin ==
  /\ sender.pc \in {"idle", "done"} /\ peer.stop = "no"
  /\ peer' = [peer EXCEPT !.stop = "closing"]
  /\ sender' = Caller("done")
  /\ UNCHANGED <<m, nextSeq, units, network, messages, worker, drained, resent>>

StopResponder ==
  /\ peer.stop = "closing"
  /\ m' = [StopRecovery(StopPacer(m)) EXCEPT !.stopping = TRUE, !.epoch = 0]
  /\ peer' = [peer EXCEPT !.stop = "joining"]
  /\ UNCHANGED <<nextSeq, units, sender, network, messages, worker, drained,
                 resent>>

StopJoin ==
  /\ peer.stop = "joining" /\ worker.pc = "exited"
  /\ peer' = [peer EXCEPT !.stop = "stopped"]
  /\ UNCHANGED <<m, nextSeq, units, sender, network, messages, worker,
                 drained, resent>>

RspTick ==
  /\ m' = Aged(m)
  /\ UNCHANGED <<peer, nextSeq, units, sender, network, messages, worker,
                 drained, resent>>

SenderStep ==
  \/ \E epoch \in 1 .. RspMaxEpoch, idr \in BOOLEAN, size \in AccessUnitSizes :
       SendAccessUnit(epoch, idr, size)
  \/ BeginEpoch \/ Outgoing \/ PacketizerRejects
  \/ SenderTransmit \/ SenderTransmitFails \/ Settle

NetworkStep ==
  IncomingNack \/ IncomingPli \/ NetworkTransmit \/ NetworkTransmitFails

WorkerStep ==
  WorkerDrain \/ WorkerTransmit \/ WorkerTransmitFails \/ WorkerRecover
  \/ WorkerExit

StopStep == StopBegin \/ StopResponder \/ StopJoin

RspNext == SenderStep \/ NetworkStep \/ WorkerStep \/ StopStep \/ RspTick

RspSpec == RspInit /\ [][RspNext]_rspVars

(* The worker wakes at least every kPacerWakeInterval, the steady clock    *)
(* advances, and a thread inside stop runs on.                             *)
RspFairSpec ==
  /\ RspSpec
  /\ WF_rspVars(WorkerStep) /\ WF_rspVars(RspTick)
  /\ WF_rspVars(StopResponder) /\ WF_rspVars(StopJoin)

-----------------------------------------------------------------------------
(* Whatever the interleaving of the threads, the pacer queue never mixes   *)
(* dependency epochs and never outgrows its bound, and the retransmission  *)
(* cache never keeps a packet of an epoch that was purged: a purge by any  *)
(* thread empties both (docs/controller.md, "An epoch purge clears both    *)
(* the pacer and retransmission cache").                                   *)
OneEpochInFlight ==
  /\ m.queue # << >> => ~m.awaiting /\ ~m.stopped
  /\ \A i \in DOMAIN m.queue : m.queue[i].epoch = m.active
  /\ Len(m.queue) <= PacerCapacity
  /\ DOMAIN m.cache # {} => ~m.awaiting /\ m.cacheEpoch = m.active

(* The packets released for the first time form unbroken runs: a gap in    *)
(* the sequence numbers is followed only by the start of an IDR access     *)
(* unit of a later dependency epoch.  This is BUILD_PLAN.md, "No pacer     *)
(* capacity action may evict one fragment, one arbitrary access unit, or   *)
(* one P picture and then continue the same dependency epoch", over purges *)
(* by age, capacity, cache refusal and failed sends of all three threads.  *)
ChainUnbroken == drained.unbroken

(* No packet is retransmitted through the gate more often than its limit,  *)
(* although the limit is counted when a NACK is resolved, the packet is    *)
(* queued, and it is sent by another thread, perhaps after a purge.        *)
RetransmissionsBounded == \A s \in Seqs : resent[s] <= MaxRetransmissions

(* A NACK names a packet by its wire sequence number, which wraps: the     *)
(* cache bounds keep the number unambiguous, so NackResolution::ambiguous  *)
(* never happens and a retransmission is of the packet the receiver lost.  *)
WireSequenceUnambiguous ==
  \A id \in 0 .. WireModulus - 1 : Cardinality(Matches(m, id)) <= 1

(* Every retransmission is of the packet that was lost, and there are no   *)
(* more of it than the limit, whichever threads resolve, queue and send.   *)
RetransmissionsSound == RspTypeOK /\ RetransmissionsBounded /\ WireSequenceUnambiguous

(* A packet in the pacer leaves it: it is released, or its whole epoch is  *)
(* purged when it reaches the age bound, even if no token ever comes and   *)
(* no further access unit is submitted.                                    *)
QueueEmpties == m.queue # << >> ~> m.queue = << >>

(* PeerSender::stop returns: the join of the worker never waits for ever.  *)
StopCompletes == peer.stop = "closing" ~> peer.stop = "stopped"
=============================================================================
