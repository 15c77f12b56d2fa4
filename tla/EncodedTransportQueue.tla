----------------------- MODULE EncodedTransportQueue -----------------------
(***************************************************************************)
(* EncodedTransportQueue of src/transport/encoded_fanout.cpp, the bounded  *)
(* queue between the encoder and the peer, as operators on its state q:    *)
(*   [open, unusable, awaiting, queue, floor]                              *)
(* Every method takes the queue's mutex for its whole body, so each        *)
(* operator is one atomic step.  An access unit is [id, epoch, idr, size]; *)
(* a queued one also has its age.  Units are valid in the sense of         *)
(* validate_access_unit (an IDR carries SPS and PPS, a predicted picture   *)
(* does not).  floor is the epoch floor, 0 before the first unit.          *)
(***************************************************************************)
EXTENDS Integers, Sequences

CONSTANTS MaxUnits,  \* maximum_access_units
          MaxBytes,  \* maximum_bytes
          MaxAge     \* maximum_age_ns, in ticks

ASSUME QueueAssumption == {MaxUnits, MaxBytes, MaxAge} \subseteq Nat \ {0}

EmptyQueue == [open |-> TRUE, unusable |-> FALSE, awaiting |-> TRUE,
               queue |-> << >>, floor |-> 0]

(* The bytes queued.  The queue holds at most MaxUnits units, so the sum   *)
(* over the positions is a recursive function on them.                     *)
Bytes(queue) ==
  LET sum[n \in 0 .. Len(queue)] ==
        IF n = 0 THEN 0 ELSE sum[n - 1] + queue[n].size
  IN  sum[Len(queue)]

QueuePurge(q) == [q EXCEPT !.queue = << >>, !.awaiting = TRUE]

QueueExpired(q) == q.queue # << >> /\ q.queue[1].age >= MaxAge

QueueExpire(q) == IF QueueExpired(q) THEN QueuePurge(q) ELSE q

(* validate_time on a clock that went backward, and a recovery unit that   *)
(* can never fit, close the queue for good.                                *)
Unusable(q) ==
  [QueuePurge(q) EXCEPT !.open = FALSE, !.unusable = TRUE]

Refusal(q, recovery) == [q |-> q, accepted |-> FALSE, recovery |-> recovery]

(* enqueue at a time that has regressed. *)
EnqueueRegressed(q) ==
  IF q.open THEN Refusal(Unusable(q), TRUE) ELSE Refusal(q, q.awaiting)

(* A newer epoch purges what is left of the older one and raises the floor *)
(* even when its own unit is then refused.                                 *)
RaiseFloor(q, unit) ==
  IF q.floor # 0 /\ unit.epoch > q.floor
  THEN [QueuePurge(q) EXCEPT !.floor = unit.epoch] ELSE q

Push(q, unit) ==
  [q EXCEPT
     !.awaiting = FALSE,
     !.floor = IF q.awaiting THEN unit.epoch ELSE q.floor,
     !.queue = Append(q.queue, [id |-> unit.id, epoch |-> unit.epoch,
                                idr |-> unit.idr, size |-> unit.size,
                                age |-> 0])]

(* Mutant: a capacity check that is one unit late. *)
HasRoomOffByOne(q, unit) ==
  Len(q.queue) <= MaxUnits /\ unit.size <= MaxBytes - Bytes(q.queue)

HasRoom(q, unit) ==
  Len(q.queue) < MaxUnits /\ unit.size <= MaxBytes - Bytes(q.queue)

(* Mutant: a full queue that drops the unit and keeps the rest. *)
PushIfRoomDropping(q, unit) ==
  IF unit.size > MaxBytes
  THEN IF unit.idr THEN Refusal(Unusable(q), TRUE)
       ELSE Refusal(QueuePurge(q), TRUE)
  ELSE IF ~HasRoom(q, unit) THEN Refusal(q, TRUE)
  ELSE [q |-> Push(q, unit), accepted |-> TRUE, recovery |-> FALSE]

PushIfRoom(q, unit) ==
  IF unit.size > MaxBytes
  THEN IF unit.idr THEN Refusal(Unusable(q), TRUE)
       ELSE Refusal(QueuePurge(q), TRUE)
  ELSE IF ~HasRoom(q, unit) THEN Refusal(QueuePurge(q), TRUE)
  ELSE [q |-> Push(q, unit), accepted |-> TRUE, recovery |-> FALSE]

EnqueueUnit(q0, unit) ==
  LET q == QueueExpire(q0)
      r == RaiseFloor(q, unit)
  IN  IF ~q0.open THEN Refusal(q0, q0.awaiting)
      ELSE IF q.floor # 0 /\ unit.epoch < q.floor THEN Refusal(q, q.awaiting)
      ELSE IF r.awaiting /\ ~unit.idr THEN Refusal(r, TRUE)
      ELSE PushIfRoom(r, unit)

(* dequeue answers a unit exactly in these states. *)
CanDequeue(q) == q.open /\ ~QueueExpired(q) /\ q.queue # << >>

DequeueUnit(q) ==
  IF ~q.open THEN q
  ELSE IF QueueExpired(q) THEN QueuePurge(q)
  ELSE IF q.queue = << >> THEN q
  ELSE [q EXCEPT !.queue = Tail(q.queue)]

DequeueRegressed(q) == IF q.open THEN Unusable(q) ELSE q

QueueRequireRecovery(q) ==
  IF ~q.open \/ (q.awaiting /\ q.queue = << >>) THEN q ELSE QueuePurge(q)

QueueStop(q) == IF q.open THEN [QueuePurge(q) EXCEPT !.open = FALSE] ELSE q

QueueAged(q) ==
  [q EXCEPT !.queue = [i \in DOMAIN q.queue |->
     [q.queue[i] EXCEPT !.age = IF @ < MaxAge THEN @ + 1 ELSE @]]]
=============================================================================
