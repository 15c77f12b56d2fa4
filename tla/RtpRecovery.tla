---------------------------- MODULE RtpRecovery ----------------------------
(***************************************************************************)
(* The retransmission cache and the recovery controller of                 *)
(* src/transport/rtp_transport.cpp as operators on a state m.  Both are    *)
(* plain objects without a lock: every caller holds the mutex of the       *)
(* BoundedNackResponder, so each operator is one atomic step.              *)
(*                                                                         *)
(* A time stored by the code (admitted, stored, last request) is kept as   *)
(* its age, which the clock tick advances up to the bound the code         *)
(* compares it with: the code only ever asks whether now - t has reached   *)
(* that bound.  The clock is steady_clock read under the mutex, so it      *)
(* never regresses and the validate_time exceptions cannot be reached.     *)
(* The media epoch is the constant 1 of share_command.cpp; "epoch" is the  *)
(* dependency epoch.                                                       *)
(***************************************************************************)
EXTENDS Integers, Sequences, FiniteSets

CONSTANTS Window,             \* kFeedbackWindowMilliseconds, in ticks
          FloodTime,          \* kFeedbackFloodTerminationMilliseconds
          MaxFeedback,        \* kMaximumFeedbackMessagesPerSecond
          MaxNackIds,         \* kMaximumDistinctNackIdentifiersPerSecond
          CacheAge,           \* RetransmissionCache::kMaximumAgeMilliseconds
          CachePackets,       \* RetransmissionCache::kMaximumPackets
          MaxRetransmissions, \* RetransmissionCache::kMaximumRetransmissions
          WireModulus         \* number of wire sequence values, 2^16 in RTP

ASSUME RecoveryAssumption ==
  /\ {Window, FloodTime, MaxFeedback, MaxNackIds, CacheAge, CachePackets,
      MaxRetransmissions, WireModulus} \subseteq Nat \ {0}
  /\ CachePackets < WireModulus

NoOverload == -1

Older(age, bound) == IF age < bound THEN age + 1 ELSE age

-----------------------------------------------------------------------------
(* RetransmissionCache.  m.cache maps the extended sequence number of each *)
(* entry to its age and the times it was retransmitted; entries are stored *)
(* in sequence order, so the oldest one has the smallest number.           *)

Clear(m) == [m EXCEPT !.cacheEpoch = 0, !.cache = << >>]

ResetEpoch(m, epoch) == [m EXCEPT !.cacheEpoch = epoch, !.cache = << >>]

LiveEntries(m) == {s \in DOMAIN m.cache : m.cache[s].age < CacheAge}

EvictExpired(m) ==
  [m EXCEPT !.cache = [s \in LiveEntries(m) |-> m.cache[s]]]

(* store returns false on a wrong epoch or a duplicate. *)
Storable(m, packet) ==
  /\ m.cacheEpoch # 0
  /\ packet.epoch = m.cacheEpoch
  /\ packet.seq \notin LiveEntries(m)

Newest(S) == {s \in S : Cardinality({t \in S : t > s}) < CachePackets}

(* store, for every packet with a number in seqs, in order. *)
StoreAll(m, seqs) ==
  [m EXCEPT !.cache = [s \in Newest(LiveEntries(m) \cup seqs) |->
     IF s \in seqs THEN [age |-> 0, resent |-> 0] ELSE m.cache[s]]]

Matches(m, id) == {s \in LiveEntries(m) : s % WireModulus = id}

(* resolve answers NackResolution::retransmit for these identifiers. *)
Resolvable(m, id) ==
  /\ Cardinality(Matches(m, id)) = 1
  /\ \A s \in Matches(m, id) : m.cache[s].resent < MaxRetransmissions

-----------------------------------------------------------------------------
(* RtpRecoveryController. *)

Terminated(m) == m.recStopped \/ m.flooded

MayRequestIdr(m) == ~Terminated(m) /\ m.recEpoch # 0 /\ m.lastIdr = Window

(* request_forced_idr, when MayRequestIdr; otherwise it leaves m alone. *)
RequestForcedIdr(m) ==
  IF MayRequestIdr(m) THEN [m EXCEPT !.lastIdr = 0] ELSE m

(* begin_epoch.  It answers true for every new epoch, and for the current  *)
(* one when a forced IDR may be requested.                                 *)
BeginsEpoch(m, epoch) ==
  ~Terminated(m) /\ epoch # 0 /\ (epoch # m.recEpoch \/ MayRequestIdr(m))

BeginRecoveryEpoch(m, epoch) ==
  IF Terminated(m) \/ epoch = 0 THEN m
  ELSE IF epoch = m.recEpoch THEN RequestForcedIdr(m)
  ELSE [ResetEpoch(m, epoch) EXCEPT
          !.recEpoch = epoch, !.feedback = << >>, !.nacks = << >>,
          !.overload = NoOverload, !.lastIdr = 0]

(* update_flood_state(true) and update_flood_state(false). *)
FloodExceeded(m) ==
  IF m.overload # NoOverload /\ m.overload >= FloodTime
  THEN [Clear(m) EXCEPT !.flooded = TRUE, !.recStopped = TRUE]
  ELSE IF m.overload = NoOverload THEN [m EXCEPT !.overload = 0] ELSE m

FloodRelaxed(m) ==
  IF Len(m.feedback) < MaxFeedback /\ Cardinality(DOMAIN m.nacks) < MaxNackIds
  THEN [m EXCEPT !.overload = NoOverload]
  ELSE m

(* admit_feedback_message: the rolling list holds one message more than    *)
(* the limit at most, so a refused message still counts against the next.  *)
RecentFeedback(m) ==
  LET expired == {i \in DOMAIN m.feedback : m.feedback[i] >= Window}
      recent  == SubSeq(m.feedback, Cardinality(expired) + 1, Len(m.feedback))
      times   == Append(recent, 0)
  IN  IF Len(times) > MaxFeedback + 1 THEN Tail(times) ELSE times

CountFeedback(m) == [m EXCEPT !.feedback = RecentFeedback(m)]

AdmitsFeedback(m) == Len(RecentFeedback(m)) <= MaxFeedback

AdmitFeedback(m) ==
  IF AdmitsFeedback(m) THEN FloodRelaxed(CountFeedback(m))
  ELSE FloodExceeded(CountFeedback(m))

(* admit_nack_identifier over the identifiers of one NACK: those seen in   *)
(* the window are admitted again, new ones while there is room.  The order *)
(* of the list decides which new ones are refused.                         *)
RecentNacks(m) == {i \in DOMAIN m.nacks : m.nacks[i] < Window}

NackRoom(m) == MaxNackIds - Cardinality(RecentNacks(m))

NackAdmissions(m, ids) ==
  LET new == ids \ RecentNacks(m)
      fit == IF NackRoom(m) <= 0 THEN 0
             ELSE IF Cardinality(new) <= NackRoom(m) THEN Cardinality(new)
             ELSE NackRoom(m)
  IN  {(ids \ new) \cup A : A \in {B \in SUBSET new : Cardinality(B) = fit}}

CountNacks(m, admitted) ==
  [m EXCEPT !.nacks = [i \in RecentNacks(m) \cup admitted |->
     IF i \in admitted THEN 0 ELSE m.nacks[i]]]

(* Every admitted identifier is resolved against the cache. *)
Retransmitted(m, epoch, admitted) ==
  IF epoch # m.cacheEpoch THEN {}
  ELSE UNION {Matches(m, i) : i \in {j \in admitted : Resolvable(m, j)}}

NeedsRecovery(m, epoch, admitted) ==
  epoch = m.cacheEpoch /\ \E i \in admitted : ~Resolvable(m, i)

(* Mutant: a retransmission is not counted. *)
CountNoRetransmissions(m, seqs) == EvictExpired(m)

CountRetransmissions(m, seqs) ==
  [EvictExpired(m) EXCEPT !.cache = [s \in LiveEntries(m) |->
     IF s \in seqs THEN [m.cache[s] EXCEPT !.resent = @ + 1]
     ELSE m.cache[s]]]

(* The outcome of handle_pli and handle_nack: the new state, the numbers   *)
(* of the packets to retransmit, and whether an IDR is requested.          *)
Decision(m, resend, idr) == [m |-> m, resend |-> resend, idr |-> idr]

HandlePli(m, epoch) ==
  IF Terminated(m) THEN Decision(m, {}, FALSE)
  ELSE LET f == AdmitFeedback(m) IN
    IF ~AdmitsFeedback(m) \/ epoch # m.recEpoch THEN Decision(f, {}, FALSE)
    ELSE Decision(RequestForcedIdr(f), {}, MayRequestIdr(f))

(* A refused identifier can end the session in the middle of the list: the *)
(* cache is then empty for the identifiers after it, and lost stands for   *)
(* those already known in the window that come after the refusal.          *)
ResolveNack(f, epoch, ids, admitted, lost) ==
  LET resolved == admitted \ lost
      resend   == Retransmitted(f, epoch, resolved)
      counted  == CountNacks(CountRetransmissions(f, resend), admitted)
      after    == IF admitted # ids THEN FloodExceeded(counted) ELSE counted
      needed   == NeedsRecovery(f, epoch, resolved)
  IN  IF needed
      THEN Decision(RequestForcedIdr(after), resend, MayRequestIdr(after))
      ELSE Decision(after, resend, FALSE)

HandleNack(m, epoch, ids) ==
  IF Terminated(m) THEN {Decision(m, {}, FALSE)}
  ELSE LET f == AdmitFeedback(m) IN
    IF ~AdmitsFeedback(m) \/ epoch # m.recEpoch THEN {Decision(f, {}, FALSE)}
    ELSE UNION
      {{ResolveNack(f, epoch, ids, admitted, lost) :
          lost \in IF admitted # ids /\ f.overload >= FloodTime
                   THEN SUBSET (admitted \cap RecentNacks(f)) ELSE {{}}} :
       admitted \in NackAdmissions(f, ids)}

StopRecovery(m) ==
  [Clear(m) EXCEPT !.recStopped = TRUE, !.feedback = << >>, !.nacks = << >>]
=============================================================================
