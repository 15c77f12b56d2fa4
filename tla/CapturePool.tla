----------------------------- MODULE CapturePool -----------------------------
(***************************************************************************)
(* SharedMemoryCapturePool (capture/capture.cpp): frame slots shared by    *)
(* the PipeWire loop thread, which copies buffers into them, and the       *)
(* command's thread, which leases the latest frame.  ingest takes the lock *)
(* twice and copies in between; the buffer goes back to PipeWire before    *)
(* the second time.                                                        *)
(***************************************************************************)
EXTENDS Integers, FiniteSets, FiniteSetsExt

CONSTANTS CapSlots,      \* capacity of the pool
          CapMaxFrames,  \* bound: frames reserved
          CapMaxEpochs   \* bound: geometries seen

ASSUME PoolAssumption == {CapSlots, CapMaxFrames, CapMaxEpochs} \subseteq Nat

VARIABLES pool,   \* the Implementation behind the mutex
          job,    \* the ingest the loop thread is in, with its buffer
          lease   \* the CapturedFrameLease the command holds

poolVars == <<pool, job, lease>>

TerminalStates == {"cancelled", "closed", "revoked", "disconnected"}

NoFrame == [id |-> 0, epoch |-> 0, time |-> 0]
FreeSlot == [state |-> "free", id |-> 0, frame |-> NoFrame]
NoLease == [index |-> 0, frame |-> NoFrame]
NoJob == [at |-> "idle", id |-> 0, index |-> 0, epoch |-> 0, time |-> 0,
          whole |-> FALSE]

PoolInit ==
  /\ pool = [slot |-> [i \in 1..CapSlots |-> FreeSlot], epoch |-> 0,
             next |-> 1, open |-> TRUE, terminal |-> "idle"]
  /\ job = NoJob
  /\ lease = NoLease

In(p, state) == {i \in DOMAIN p.slot : p.slot[i].state = state}

DropReady(p) ==
  [p EXCEPT !.slot = [i \in DOMAIN p.slot |->
                        IF p.slot[i].state = "ready" THEN FreeSlot ELSE p.slot[i]]]

(* A buffer announces the size, crop and orientation of the one before, or *)
(* not: a new geometry starts a new epoch, and the frames waiting in the   *)
(* old one are dropped.                                                    *)
WithGeometry(p, same) ==
  IF p.epoch # 0 /\ same THEN p ELSE [DropReady(p) EXCEPT !.epoch = p.epoch + 1]

(* The first free slot, else the one whose waiting frame is oldest. *)
Available(p) ==
  IF In(p, "free") # {} THEN {Min(In(p, "free"))}
  ELSE {i \in In(p, "ready") : \A k \in In(p, "ready") : p.slot[i].id <= p.slot[k].id}

Reserve(p, same, t) ==
  LET q == WithGeometry(p, same)
      i == Min(Available(q))
  IN  IF ~p.open \/ Available(q) = {}
        THEN [pool |-> IF p.open THEN q ELSE p, job |-> [NoJob EXCEPT !.at = "reject"]]
        ELSE [pool |-> [q EXCEPT !.slot[i] = [state |-> "copying", id |-> q.next, frame |-> NoFrame],
                                 !.next = @ + 1],
              job |-> [NoJob EXCEPT !.at = "copy", !.id = q.next, !.index = i,
                                    !.epoch = q.epoch, !.time = t]]

(* The buffer is taken from PipeWire; an invalid one, or one whose         *)
(* metadata cannot be read, is refused before the pool is looked at.       *)
IngestReserve(same, t) ==
  /\ job.at = "idle" /\ pool.next <= CapMaxFrames
  /\ WithGeometry(pool, same).epoch <= CapMaxEpochs
  /\ pool' = Reserve(pool, same, t).pool
  /\ job' = Reserve(pool, same, t).job
  /\ UNCHANGED lease

IngestInvalid ==
  /\ job.at = "idle"
  /\ job' = [NoJob EXCEPT !.at = "reject"]
  /\ UNCHANGED <<pool, lease>>

(* The copy, which may run out of memory, and the return of the buffer,    *)
(* which PipeWire may refuse: the frame is whole only if both succeed.     *)
IngestCopy(whole) ==
  /\ job.at = "copy"
  /\ job' = [job EXCEPT !.at = "complete", !.whole = whole]
  /\ UNCHANGED <<pool, lease>>

IngestRejected ==
  /\ job.at = "reject"
  /\ job' = NoJob
  /\ UNCHANGED <<pool, lease>>

JobFrame == [id |-> job.id, epoch |-> job.epoch, time |-> job.time]

Completed(p) ==
  IF p.slot[job.index].state # "copying" \/ p.slot[job.index].id # job.id THEN p
  ELSE IF ~job.whole \/ ~p.open \/ p.epoch # job.epoch
    THEN [p EXCEPT !.slot[job.index] = FreeSlot]
    ELSE [p EXCEPT !.slot[job.index] = [state |-> "ready", id |-> job.id, frame |-> JobFrame]]

IngestComplete ==
  /\ job.at = "complete"
  /\ pool' = Completed(pool)
  /\ job' = NoJob
  /\ UNCHANGED lease

-----------------------------------------------------------------------------
(* The command's thread. *)
Latest(p) == {i \in In(p, "ready") : \A k \in In(p, "ready") : p.slot[k].id <= p.slot[i].id}

TakeLatest ==
  \E i \in Latest(pool) :
    /\ pool' = [DropReady(pool) EXCEPT !.slot[i] = [pool.slot[i] EXCEPT !.state = "leased"]]
    /\ lease' = [index |-> i, frame |-> pool.slot[i].frame]
    /\ UNCHANGED job

Released(p) ==
  IF lease # NoLease /\ p.slot[lease.index].state = "leased"
       /\ p.slot[lease.index].id = lease.frame.id
    THEN [p EXCEPT !.slot[lease.index] = FreeSlot]
    ELSE p

Stopped(p, state) ==
  IF p.open THEN [DropReady(p) EXCEPT !.open = FALSE, !.terminal = state] ELSE p

-----------------------------------------------------------------------------
FrameType == [id : 0..CapMaxFrames, epoch : 0..CapMaxEpochs, time : Nat]

PoolTypeOK ==
  /\ pool.slot \in [1..CapSlots -> [state : {"free", "copying", "ready", "leased"},
                                    id : 0..CapMaxFrames, frame : FrameType]]
  /\ pool.next \in 1..(CapMaxFrames + 1) /\ pool.epoch \in 0..CapMaxEpochs
  /\ pool.open \in BOOLEAN /\ pool.terminal \in TerminalStates \cup {"idle"}
  /\ job.at \in {"idle", "copy", "complete", "reject"}
  /\ lease.index \in 0..CapSlots /\ lease.frame \in FrameType

(* The frame the command reads is its own until it lets go of it: neither  *)
(* a full pool, a new geometry nor the end of the capture gives its slot   *)
(* away; and a frame waiting to be taken always shows the current geometry *)
(* in full, newer than every frame already taken.                          *)
LeaseHolds ==
  /\ lease # NoLease =>
       pool.slot[lease.index] = [state |-> "leased", id |-> lease.frame.id, frame |-> lease.frame]
  /\ \A i \in In(pool, "ready") :
       /\ pool.slot[i].frame.epoch = pool.epoch
       /\ pool.slot[i].frame.id = pool.slot[i].id
       /\ pool.slot[i].id > lease.frame.id
       /\ pool.open
  /\ job.at \in {"copy", "complete"} => pool.slot[job.index].id = job.id
  /\ Cardinality(In(pool, "copying")) = (IF job.at \in {"copy", "complete"} THEN 1 ELSE 0)
=============================================================================
