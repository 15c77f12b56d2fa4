--------------------------- MODULE EncodedFanout ---------------------------
(***************************************************************************)
(* EncodedAccessUnitFanout of src/transport/encoded_fanout.cpp: one        *)
(* encoded stream published to two branches, the transport queue and the   *)
(* recorder, neither of which may disturb the other.  publish holds the    *)
(* fanout's mutex, and inside it the queue's; the consumer and             *)
(* require_recovery take the queue's only.                                 *)
(*                                                                         *)
(* The publisher is the application's loop: it numbers the units in        *)
(* encoding order, a predicted unit refers to the one before it, and the   *)
(* dependency epoch never decreases.                                       *)
(***************************************************************************)
EXTENDS EncodedTransportQueue

CONSTANTS MaxPublished,  \* bound on the units published
          MaxUnitEpoch,  \* bound on the dependency epochs
          UnitSizes      \* sizes of access units

ASSUME FanoutAssumption ==
  /\ MaxPublished \in Nat \ {0} /\ MaxUnitEpoch \in Nat \ {0}
  /\ UnitSizes \subseteq Nat \ {0}

VARIABLES
  q,          \* the transport queue
  transport,  \* diagnostics_.transport_active
  recorder,   \* diagnostics_.recorder_active
  published,  \* the last unit published: [id, epoch, idr, size]
  taken,      \* the last unit the consumer took from the queue
  recorded    \* number of units the recorder accepted

fanVars == <<q, transport, recorder, published, taken, recorded>>

NoUnit == [id |-> 0, epoch |-> 0, idr |-> FALSE, size |-> 0]

UnitType == [id : 0 .. MaxPublished, epoch : 0 .. MaxUnitEpoch,
             idr : BOOLEAN, size : Nat]

EntryType == [id : 1 .. MaxPublished, epoch : 1 .. MaxUnitEpoch,
              idr : BOOLEAN, size : Nat, age : 0 .. MaxAge]

QueueType == [open : BOOLEAN, unusable : BOOLEAN, awaiting : BOOLEAN,
              queue : Seq(EntryType), floor : 0 .. MaxUnitEpoch]

(* Type correctness of the queue and of the two branches; the epoch floor  *)
(* is an epoch some unit had.                                              *)
FanTypeOK ==
  /\ q \in QueueType
  /\ transport \in BOOLEAN /\ recorder \in BOOLEAN
  /\ published \in UnitType /\ taken \in UnitType
  /\ recorded \in Nat

(* The recorder branch is there or not; the transport always is. *)
FanInit ==
  /\ q = EmptyQueue
  /\ transport = TRUE
  /\ recorder \in BOOLEAN
  /\ published = NoUnit /\ taken = NoUnit /\ recorded = 0

(* The recorder answers: accepted, refused, or failed (also by exception). *)
RecordBranch ==
  \/ ~recorder /\ UNCHANGED <<recorder, recorded>>
  \/ recorder /\ recorded' = recorded + 1 /\ UNCHANGED recorder
  \/ recorder /\ UNCHANGED <<recorder, recorded>>
  \/ recorder /\ recorder' = FALSE /\ UNCHANGED recorded

TransportBranch(outcome) ==
  IF transport
  THEN q' = outcome.q /\ transport' = ~outcome.q.unusable
  ELSE UNCHANGED <<q, transport>>

Publish(epoch, idr, size) ==
  LET unit == [id |-> published.id + 1, epoch |-> epoch, idr |-> idr,
               size |-> size]
  IN  /\ published.id < MaxPublished
      /\ epoch >= published.epoch
      /\ published' = unit
      /\ TransportBranch(EnqueueUnit(q, unit))
      /\ RecordBranch
      /\ UNCHANGED taken

(* publish with a clock that went backward. *)
PublishRegressed(epoch, idr, size) ==
  /\ published.id < MaxPublished
  /\ epoch >= published.epoch
  /\ published' = [id |-> published.id + 1, epoch |-> epoch, idr |-> idr,
                   size |-> size]
  /\ TransportBranch(EnqueueRegressed(q))
  /\ RecordBranch
  /\ UNCHANGED taken

Unaged(entry) == [id |-> entry.id, epoch |-> entry.epoch, idr |-> entry.idr,
                  size |-> entry.size]

Dequeue ==
  /\ q' = DequeueUnit(q)
  /\ taken' = IF CanDequeue(q) THEN Unaged(q.queue[1]) ELSE taken
  /\ UNCHANGED <<transport, recorder, published, recorded>>

DequeueBackward ==
  /\ q' = DequeueRegressed(q)
  /\ UNCHANGED <<transport, recorder, published, taken, recorded>>

RequireQueueRecovery ==
  /\ q' = QueueRequireRecovery(q)
  /\ UNCHANGED <<transport, recorder, published, taken, recorded>>

DisableTransport ==
  /\ q' = IF transport THEN QueueStop(q) ELSE q
  /\ transport' = FALSE
  /\ UNCHANGED <<recorder, published, taken, recorded>>

DisableRecorder ==
  /\ recorder' = FALSE
  /\ UNCHANGED <<q, transport, published, taken, recorded>>

Tick ==
  /\ q' = QueueAged(q)
  /\ UNCHANGED <<transport, recorder, published, taken, recorded>>

FanNext ==
  \/ \E epoch \in 1 .. MaxUnitEpoch, idr \in BOOLEAN, size \in UnitSizes :
       Publish(epoch, idr, size) \/ PublishRegressed(epoch, idr, size)
  \/ Dequeue \/ DequeueBackward \/ RequireQueueRecovery
  \/ DisableTransport \/ DisableRecorder \/ Tick

FanSpec == FanInit /\ [][FanNext]_fanVars

-----------------------------------------------------------------------------
(* The units the peer takes form unbroken chains in encoding order: a     *)
(* predicted unit is taken only directly after the unit it refers to, in   *)
(* the same epoch, and an epoch once left is never returned to, whatever   *)
(* purges by age, capacity, new epoch or explicit recovery came between    *)
(* publish and dequeue.                                                    *)
TakenChain ==
  [][taken' # taken =>
       /\ taken'.id > taken.id /\ taken'.epoch >= taken.epoch
       /\ \/ taken'.idr
          \/ taken'.id = taken.id + 1 /\ taken'.epoch = taken.epoch]_fanVars

(* The queue never exceeds its capacity in units or in bytes. *)
QueueBounded == Len(q.queue) <= MaxUnits /\ Bytes(q.queue) <= MaxBytes

(* The queue holds one dependency epoch, the one of the floor, and a queue *)
(* that awaits recovery or was closed holds nothing.                       *)
QueueFenced ==
  /\ \A i \in DOMAIN q.queue : q.queue[i].epoch = q.floor
  /\ q.awaiting \/ ~q.open => q.queue = << >>

(* The queue and the two branches hold values of the code's types, and the *)
(* queue stays within its limits and behind its fences, whatever purges,   *)
(* refusals and dequeues came before.                                      *)
QueueSound == FanTypeOK /\ QueueBounded /\ QueueFenced

(* The fanout gives up its transport branch only for good and only with    *)
(* the queue closed, so that nothing more reaches the peer: an inactive    *)
(* branch over an open queue would strand units in it.                     *)
InactiveIsFinal ==
  [][~transport => ~transport' /\ ~q'.open /\ taken' = taken]_fanVars
=============================================================================
