---------------------------- MODULE MediaPacer -----------------------------
(***************************************************************************)
(* MediaPacerQueue of src/transport/media_pacer.cpp, and the locked parts  *)
(* of the BoundedNackResponder that owns it, as operators on the state m   *)
(* that the responder's mutex protects.                                    *)
(*                                                                         *)
(* A queued packet is                                                      *)
(*   [seq, epoch, idr, start, rtx, age]                                    *)
(* its extended sequence number, dependency epoch, whether its access unit *)
(* is an IDR with SPS and PPS, whether it is the first packet of its unit, *)
(* whether it is a retransmission, and its age in the queue.  Bytes are    *)
(* counted in packets.  The token bucket is abstracted to the number of    *)
(* packets it lets go at one moment, which may be any.                     *)
(***************************************************************************)
EXTENDS RtpRecovery

CONSTANTS PacerCapacity,  \* MediaPacerConfig::maximum_bytes, in packets
          PacerAge        \* MediaPacerConfig::maximum_age_milliseconds

ASSUME PacerAssumption == {PacerCapacity, PacerAge} \subseteq Nat \ {0}

NoRejection == "none"

Rejections ==
  {NoRejection, "PACER_STOPPED", "PACER_ACCESS_UNIT_INVALID",
   "PACER_AWAITING_RECOVERY_IDR",
   "PACER_ABANDONED_DEPENDENCY_EPOCH", "PACER_NEW_EPOCH_REQUIRES_RECOVERY_IDR",
   "PACER_RECOVERY_ACCESS_UNIT_TOO_LARGE",
   "PACER_CAPACITY_PURGED_DEPENDENCY_EPOCH",
   "PACER_AGE_PURGED_DEPENDENCY_EPOCH",
   "PACER_RETRANSMISSION_EPOCH_REJECTED",
   "PACER_RETRANSMISSION_CAPACITY_PURGED_DEPENDENCY_EPOCH",
   "PACER_RETRANSMISSION_CACHE_REJECTED", "PACER_ASYNC_TRANSPORT_SEND_FAILED"}

Initial ==
  [awaiting |-> TRUE, stopped |-> FALSE, active |-> 0, abandoned |-> 0,
   queue |-> << >>,
   cacheEpoch |-> 0, cache |-> << >>,
   recEpoch |-> 0, lastIdr |-> Window, feedback |-> << >>, nacks |-> << >>,
   overload |-> NoOverload, recStopped |-> FALSE, flooded |-> FALSE,
   epoch |-> 0, stopping |-> FALSE, rejection |-> NoRejection,
   notified |-> FALSE]

(* One tick of the clock. *)
Aged(m) ==
  [m EXCEPT
     !.queue = [i \in DOMAIN m.queue |->
        [m.queue[i] EXCEPT !.age = Older(m.queue[i].age, PacerAge)]],
     !.cache = [s \in DOMAIN m.cache |->
        [m.cache[s] EXCEPT !.age = Older(m.cache[s].age, CacheAge)]],
     !.lastIdr = Older(m.lastIdr, Window),
     !.feedback = [i \in DOMAIN m.feedback |-> Older(m.feedback[i], Window)],
     !.nacks = [i \in DOMAIN m.nacks |-> Older(m.nacks[i], Window)],
     !.overload = IF m.overload = NoOverload THEN NoOverload
                  ELSE Older(m.overload, FloodTime)]

-----------------------------------------------------------------------------
(* The access unit of number n packets that the packetizer numbers from    *)
(* seq on.                                                                 *)
Packets(seq, epoch, idr, n) ==
  [i \in 1 .. n |->
     [seq |-> seq + i - 1, epoch |-> epoch, idr |-> idr, start |-> i = 1,
      rtx |-> FALSE, age |-> 0]]

(* Mutant: a purge that forgets the retransmission cache. *)
PurgeKeepingCache(m, awaiting) ==
  [m EXCEPT
     !.abandoned = IF m.active # 0 THEN m.active ELSE m.abandoned,
     !.queue = << >>,
     !.awaiting = awaiting]

Purge(m, awaiting) ==
  [Clear(m) EXCEPT
     !.abandoned = IF m.active # 0 THEN m.active ELSE m.abandoned,
     !.queue = << >>,
     !.awaiting = awaiting]

(* Mutant: packets do not age. *)
ExpiredNever(m) == FALSE

Expired(m) == m.queue # << >> /\ m.queue[1].age >= PacerAge

ExpireIfNeeded(m) == IF Expired(m) THEN Purge(m, TRUE) ELSE m

RequireRecovery(m) ==
  IF m.stopped \/ (m.awaiting /\ m.queue = << >>) THEN m ELSE Purge(m, TRUE)

(* The outcome of an admission: the new state, why it was refused, and     *)
(* whether the refusal asks for an IDR.                                    *)
Accepted(m) == [m |-> m, reason |-> NoRejection, idr |-> FALSE]

Rejected(m, reason, idr) == [m |-> m, reason |-> reason, idr |-> idr]

(* Mutant: the abandoned epoch itself is taken again. *)
AbandonedOffByOne(m, epoch) == m.abandoned # 0 /\ epoch < m.abandoned

Abandoned(m, epoch) == m.abandoned # 0 /\ epoch <= m.abandoned

Enqueue(m, packets) ==
  IF m.awaiting
  THEN [ResetEpoch(m, packets[1].epoch) EXCEPT
          !.active = packets[1].epoch, !.awaiting = FALSE, !.abandoned = 0,
          !.queue = m.queue \o packets]
  ELSE [m EXCEPT !.queue = m.queue \o packets]

AdmitFitting(m, packets) ==
  IF Len(packets) > PacerCapacity
  THEN Rejected(m, "PACER_RECOVERY_ACCESS_UNIT_TOO_LARGE", TRUE)
  ELSE IF Len(packets) > PacerCapacity - Len(m.queue)
  THEN Rejected(Purge(m, TRUE), "PACER_CAPACITY_PURGED_DEPENDENCY_EPOCH", TRUE)
  ELSE Accepted(Enqueue(m, packets))

(* The whole of one access unit is admitted, or nothing of it. *)
AdmitAccessUnit(m0, packets) ==
  LET m     == ExpireIfNeeded(m0)
      epoch == packets[1].epoch
      idr   == packets[1].idr
      other == Purge(m, TRUE)
  IN  IF m.stopped THEN Rejected(m, "PACER_STOPPED", FALSE)
      ELSE IF m.awaiting /\ ~idr
      THEN Rejected(m, "PACER_AWAITING_RECOVERY_IDR", TRUE)
      ELSE IF Abandoned(m, epoch)
      THEN Rejected(m, "PACER_ABANDONED_DEPENDENCY_EPOCH", TRUE)
      ELSE IF m.awaiting \/ epoch = m.active
      THEN AdmitFitting(m, packets)
      ELSE IF ~idr \/ Abandoned(other, epoch)
      THEN Rejected(other, "PACER_NEW_EPOCH_REQUIRES_RECOVERY_IDR", TRUE)
      ELSE AdmitFitting(other, packets)

(* The retransmissions of one NACK are admitted one by one, in the order   *)
(* of the NACK: a purge by one refuses the ones after it, because they are *)
(* then of no active epoch.                                                *)
Retransmission(seq, epoch) ==
  [seq |-> seq, epoch |-> epoch, idr |-> FALSE, start |-> FALSE,
   rtx |-> TRUE, age |-> 0]

AdmitRetransmissions(m0, packets) ==
  LET m == IF packets = << >> THEN m0 ELSE ExpireIfNeeded(m0)
  IN  IF packets = << >> THEN Accepted(m)
      ELSE IF m.stopped \/ m.awaiting \/ packets[1].epoch # m.active
      THEN Rejected(m, "PACER_RETRANSMISSION_EPOCH_REJECTED", m.awaiting)
      ELSE IF Len(packets) > PacerCapacity - Len(m.queue)
      THEN LET purged == Purge(m, TRUE) IN
           Rejected(purged,
             IF Len(packets) > PacerCapacity - Len(m.queue) + 1
             THEN "PACER_RETRANSMISSION_EPOCH_REJECTED"
             ELSE "PACER_RETRANSMISSION_CAPACITY_PURGED_DEPENDENCY_EPOCH",
             TRUE)
      ELSE Accepted([m EXCEPT !.queue = m.queue \o packets])

StopPacer(m) ==
  IF m.stopped THEN m
  ELSE [Purge(m, FALSE) EXCEPT !.stopped = TRUE]

-----------------------------------------------------------------------------
(* drain_locked with the tokens for n packets: the state it leaves and the *)
(* packets it hands to the transport.  A packet that the cache refuses     *)
(* ends the drain and is itself dropped.                                   *)
Refused(m, n) ==
  {i \in 1 .. n : ~m.queue[i].rtx /\ ~Storable(m, m.queue[i])}

FirstTransmissions(packets) ==
  {packets[i].seq : i \in {j \in DOMAIN packets : ~packets[j].rtx}}

Released(m, n) ==
  IF Refused(m, n) = {} THEN SubSeq(m.queue, 1, n)
  ELSE SubSeq(m.queue, 1, (CHOOSE i \in Refused(m, n) :
                             \A j \in Refused(m, n) : i <= j) - 1)

Drain(m, n) ==
  IF Expired(m)
  THEN [m |-> [Purge(m, TRUE) EXCEPT
                 !.rejection = "PACER_AGE_PURGED_DEPENDENCY_EPOCH"],
        out |-> << >>]
  ELSE LET out    == Released(m, n)
           stored == StoreAll(m, FirstTransmissions(out))
           rest   == [stored EXCEPT !.queue = SubSeq(m.queue, n + 1, Len(m.queue))]
       IN  IF Refused(m, n) = {} THEN [m |-> rest, out |-> out]
           ELSE [m |-> [RequireRecovery(stored) EXCEPT
                          !.rejection = "PACER_RETRANSMISSION_CACHE_REJECTED"],
                 out |-> out]

(* The token bucket lets any number of the queued packets go. *)
Budgets(m) == 0 .. Len(m.queue)
=============================================================================
