---------------------------- MODULE NvencEncoder ----------------------------
(***************************************************************************)
(* NvencEncoder (gpu/nvenc_encoder.cpp) with its                           *)
(* NvencSubmissionCoordinator (gpu/gpu_contracts.cpp) and the preprocessor *)
(* whose surfaces it encodes.  The encode owner enqueues, waits, submits,  *)
(* flushes and closes; the output worker locks the bitstream of the FIFO   *)
(* head, gives its surface back and calls the output callback.  A submit   *)
(* that finds the driver busy sleeps with the mutex released.              *)
(***************************************************************************)
EXTENDS PreprocessRing, Sequences, SequencesExt

CONSTANTS EncMaxFrames,    \* bound: frames enqueued
          EncMaxRetries    \* maximum_busy_retries

ASSUME EncoderAssumption == EncMaxFrames \in Nat /\ EncMaxRetries \in Nat

VARIABLES gpu,      \* the CudaPreprocessor
          enc,      \* the encoder behind its mutex, coordinator included
          driver,   \* encoder # nullptr: the driver has a session to tear down
          owner,    \* the thread that submits, flushes and closes
          worker,   \* the output thread
          accepted, \* history: frames accepted, in order
          emitted   \* history: frames handed to the output callback

encVars == <<gpu, enc, driver, owner, worker, accepted, emitted>>

SubmissionStates == {"free", "submit_retry_pending", "submitted_pending_output",
                     "bitstream_lockable", "bitstream_locked", "abort_pending"}

FreeSubmission == [state |-> "free", frame |-> 0, ready |-> FALSE, retries |-> 0]
IdleWorker == [at |-> "wait", ticket |-> NoTicket]

(* initialize: the session, its configuration and the bitstream buffers    *)
(* are made, or a call fails.                                              *)
Initialized(e, works) == [e EXCEPT !.open = works, !.fatal = ~works]

(* A submission slot for every surface: surface_slot is the slot id. *)
NewEncoder ==
  [slot |-> [i \in 1..RingSurfaces |-> FreeSubmission], fifo |-> <<>>, last |-> 0,
   input |-> [i \in 1..RingSurfaces |-> NoTicket],
   mapped |-> [i \in 1..RingSurfaces |-> FALSE],
   open |-> FALSE, eos |-> FALSE, fatal |-> FALSE]

(* An encoder that failed to initialize has no output worker.  The driver  *)
(* was cleaned up at once, if there was a session and a context to do it.  *)
EncInit ==
  /\ gpu = NewGpu
  /\ enc \in {Initialized(NewEncoder, works) : works \in BOOLEAN}
  /\ driver \in BOOLEAN /\ (enc.open => driver)
  /\ owner = [at |-> "run", ticket |-> NoTicket, next |-> 1, fresh |-> {}, done |-> {}, then |-> "run"]
  /\ worker = [IdleWorker EXCEPT !.at = IF enc.fatal THEN "done" ELSE "wait"]
  /\ accepted = <<>>
  /\ emitted = <<>>

-----------------------------------------------------------------------------
(* The coordinator *)

ActiveSlots(e) == {i \in DOMAIN e.slot : e.slot[i].state # "free"}

MakeHeadLockable(e) ==
  IF e.fifo = <<>> THEN e
  ELSE LET h == e.slot[Head(e.fifo)]
       IN  IF h.state = "submitted_pending_output" /\ (h.ready \/ e.eos)
             THEN [e EXCEPT !.slot[Head(e.fifo)].state = "bitstream_lockable"] ELSE e

WithFifoReady(e) ==
  [e EXCEPT !.slot = [i \in DOMAIN @ |->
                        IF i \in ToSet(e.fifo) THEN [@[i] EXCEPT !.ready = TRUE] ELSE @[i]]]

(* Everything live is to be aborted, but a bitstream that the worker has   *)
(* locked stays with it.                                                   *)
EnterFatal(e) ==
  LET held == e.fifo # <<>> /\ e.slot[Head(e.fifo)].state = "bitstream_locked"
      kept(i) == held /\ Head(e.fifo) = i
  IN  [e EXCEPT !.fatal = TRUE, !.open = FALSE,
                !.fifo = IF held THEN <<Head(e.fifo)>> ELSE <<>>,
                !.slot = [i \in DOMAIN @ |-> IF kept(i) \/ @[i].state = "free" THEN @[i]
                                             ELSE [@[i] EXCEPT !.state = "abort_pending"]]]

(* What the coordinator makes of the driver's answer to slot i's frame f. *)
Reservable(e, i, f) ==
  /\ ~e.fatal /\ ~e.eos
  /\ \/ e.slot[i].state = "free" /\ f > e.last
     \/ e.slot[i].state = "submit_retry_pending" /\ e.slot[i].frame = f

Answered(e, i, f, status) ==
  LET tries == e.slot[i].retries + 1
      put(ready) == [e EXCEPT !.slot[i] = [@ EXCEPT !.state = "submitted_pending_output", !.frame = f,
                                                    !.ready = ready],
                              !.last = f, !.fifo = Append(@, i)]
  IN  CASE status = "encoder_busy" /\ tries <= EncMaxRetries ->
             [e EXCEPT !.slot[i] = [state |-> "submit_retry_pending", frame |-> f, ready |-> FALSE,
                                    retries |-> tries],
                       !.last = f]
        [] status = "need_more_input" -> MakeHeadLockable(put(FALSE))
        [] status = "success" -> MakeHeadLockable(WithFifoReady(put(TRUE)))
        [] OTHER -> EnterFatal([e EXCEPT !.slot[i].state = "submit_retry_pending", !.slot[i].frame = f])

BeginEndOfStream(e) == MakeHeadLockable(WithFifoReady([e EXCEPT !.eos = TRUE, !.open = FALSE]))

Lockable(e) == e.fifo # <<>> /\ e.slot[Head(e.fifo)].state = "bitstream_lockable"

Locked(e) == [e EXCEPT !.slot[Head(e.fifo)].state = "bitstream_locked"]

CompletedHead(e) ==
  LET d == [e EXCEPT !.slot[Head(e.fifo)] = FreeSubmission, !.fifo = Tail(@)]
  IN  IF e.fatal THEN d ELSE MakeHeadLockable(d)

-----------------------------------------------------------------------------
(* The encode owner.  Its result of a failed call is not looked at: it may *)
(* go on or close, as the callers do.                                      *)

Enqueue1 ==
  /\ owner.at = "run" /\ owner.next <= EncMaxFrames
  /\ \E t \in {EnqueueTicket(gpu, owner.next)}, works \in BOOLEAN :
       /\ gpu' = IF t = NoTicket THEN gpu ELSE Enqueued(gpu, t, works)
       /\ owner' = [owner EXCEPT !.next = @ + 1,
                                 !.fresh = IF t = NoTicket \/ ~works THEN @ ELSE @ \cup {t}]
  /\ UNCHANGED <<enc, driver, worker, accepted, emitted>>

Oldest(tickets) == {t \in tickets : \A u \in tickets : t.frame <= u.frame}

AwaitFrame ==
  /\ owner.at = "run"
  /\ \E t \in Oldest(owner.fresh), outcome \in WaitOutcomes :
       /\ gpu' = IF WaitAdmits(gpu, t) THEN Waited(gpu, t, outcome) ELSE gpu
       /\ owner' = [owner EXCEPT !.fresh = @ \ {t},
                                 !.done = IF WaitAdmits(gpu, t) /\ outcome = "ready" THEN @ \cup {t} ELSE @]
  /\ UNCHANGED <<enc, driver, worker, accepted, emitted>>

FailLocked(e) == IF e.fatal THEN e ELSE EnterFatal(e)

(* A submit to a closed encoder, or to a slot whose last frame has not     *)
(* been completed, changes nothing: the ticket stays with the caller.      *)
SubmitAdmits(t) == enc.open /\ ~enc.fatal /\ ~enc.eos /\ enc.input[t.sur] = NoTicket

(* validate_nvenc_submission fails: the ticket is aborted. *)
SubmitInvalid ==
  /\ owner.at = "run"
  /\ \E t \in Oldest(owner.done) :
       /\ SubmitAdmits(t)
       /\ gpu' = AbortTicket(gpu, t)
       /\ owner' = [owner EXCEPT !.done = @ \ {t}]
  /\ UNCHANGED <<enc, driver, worker, accepted, emitted>>

(* The context guard or the registration of the surface throws. *)
SubmitThrows ==
  /\ owner.at = "run"
  /\ \E t \in Oldest(owner.done) :
       /\ SubmitAdmits(t)
       /\ enc' = FailLocked([enc EXCEPT !.input[t.sur] = t])
       /\ owner' = [owner EXCEPT !.done = @ \ {t}]
  /\ gpu' = CloseAdmission(gpu)
  /\ UNCHANGED <<driver, worker, accepted, emitted>>

(* What nvEncEncodePicture answers, or that the surface cannot be mapped. *)
SubmitStatuses == {"success", "need_more_input", "encoder_busy", "fatal", "map_throws"}

(* One round of the submit loop for a ticket the slot holds. *)
SubmitRound(e, t, status) ==
  LET reserved == Reservable(e, t.sur, t.frame)
      mapped == [e EXCEPT !.mapped[t.sur] = @ \/ status # "map_throws"]
      f == IF reserved THEN Answered(mapped, t.sur, t.frame, status) ELSE FailLocked(e)
      taken == reserved /\ status \in {"success", "need_more_input"}
      marked == taken /\ CanMarkSubmitted(gpu, t)
  IN  /\ status = "map_throws" => ~e.mapped[t.sur]
      /\ enc' = IF taken /\ ~marked THEN FailLocked(f) ELSE f
      /\ gpu' = LET g == IF marked THEN MarkSubmitted(gpu, t) ELSE gpu
                IN  IF enc'.fatal /\ ~e.fatal THEN CloseAdmission(g) ELSE g
      /\ accepted' = IF marked THEN Append(accepted, t.frame) ELSE accepted
      /\ owner' = [owner EXCEPT !.done = @ \ {t},
                     !.at = IF f.slot[t.sur].state = "submit_retry_pending" /\ ~f.fatal THEN "retry" ELSE "run",
                     !.ticket = t]
      /\ UNCHANGED <<driver, worker, emitted>>

Submit ==
  /\ owner.at = "run"
  /\ \E t \in Oldest(owner.done), status \in SubmitStatuses :
       SubmitAdmits(t) /\ SubmitRound([enc EXCEPT !.input[t.sur] = t], t, status)

SubmitAgain ==
  /\ owner.at = "retry"
  /\ \E status \in SubmitStatuses : SubmitRound(enc, owner.ticket, status)

(* flush: end of stream is sent to the driver, which may fail, and the     *)
(* owner waits until no submission is active.                              *)
Flushing(then, works) ==
  /\ enc' = IF works THEN BeginEndOfStream(enc) ELSE FailLocked(enc)
  /\ gpu' = CloseAdmission(gpu)
  /\ owner' = [owner EXCEPT !.at = IF works THEN "drain" ELSE then, !.then = then]
  /\ UNCHANGED <<driver, worker, accepted, emitted>>

Flush ==
  /\ owner.at = "run" /\ ~enc.fatal /\ ~enc.eos
  /\ \E works \in BOOLEAN : Flushing("run", works)

(* Mutant: the wait asks only for the submissions. *)
DrainedQuiet == ActiveSlots(enc) = {}

Drained == enc.fatal \/ ActiveSlots(enc) = {}

FlushReturns ==
  /\ owner.at = "drain" /\ Drained
  /\ owner' = [owner EXCEPT !.at = owner.then]
  /\ UNCHANGED <<gpu, enc, driver, worker, accepted, emitted>>

Close ==
  /\ owner.at = "run"
  /\ IF ~enc.fatal /\ ~enc.eos
       THEN \E works \in BOOLEAN : Flushing("join", works)
       ELSE owner' = [owner EXCEPT !.at = "join"] /\ UNCHANGED <<gpu, enc, driver, worker, accepted, emitted>>

(* Mutant: only the driver's resources are released. *)
InputsForgotten(g) == g

(* What becomes of the inputs still in a slot. *)
InputsAborted(g) == AllAborted(g, {enc.input[i] : i \in DOMAIN enc.input} \ {NoTicket})

(* close, when the worker is joined.  cleanup_driver has nothing to do     *)
(* without a session; with one it tears the driver down and aborts the     *)
(* inputs still in the slots, unless it gets no context: then it leaves    *)
(* all as it is and fails the encoder.  Either way the encoder is closed.  *)
CloseReturns ==
  /\ owner.at = "join" /\ worker.at = "done"
  /\ \/ /\ ~driver
        /\ enc' = [enc EXCEPT !.open = FALSE]
        /\ UNCHANGED <<gpu, driver>>
     \/ /\ driver
        /\ gpu' = InputsAborted(gpu)
        /\ enc' = [enc EXCEPT !.input = [i \in DOMAIN @ |-> NoTicket],
                              !.mapped = [i \in DOMAIN @ |-> FALSE], !.open = FALSE]
        /\ driver' = FALSE
     \/ /\ driver
        /\ enc' = [enc EXCEPT !.fatal = TRUE, !.open = FALSE]
        /\ UNCHANGED <<gpu, driver>>
  /\ owner' = [owner EXCEPT !.at = "closed"]
  /\ UNCHANGED <<worker, accepted, emitted>>

(* The preprocessor outlives the encoder and is destroyed last; without a  *)
(* context it only admits nothing more.                                    *)
DestroyPreprocessor ==
  /\ owner.at = "closed"
  /\ gpu' \in {CleanedUp(gpu), CloseAdmission(gpu)}
  /\ owner' = [owner EXCEPT !.at = "gone", !.fresh = {}, !.done = {}]
  /\ UNCHANGED <<enc, driver, worker, accepted, emitted>>

-----------------------------------------------------------------------------
(* The output worker *)

WorkerStops == enc.fatal \/ (enc.eos /\ ActiveSlots(enc) = {})

WorkerExits ==
  /\ worker.at = "wait" /\ WorkerStops
  /\ worker' = [worker EXCEPT !.at = "done"]
  /\ UNCHANGED <<gpu, enc, driver, owner, accepted, emitted>>

WorkerLocks ==
  /\ worker.at = "wait" /\ ~WorkerStops /\ Lockable(enc)
  /\ enc' = Locked(enc)
  /\ worker' = [at |-> "locked", ticket |-> enc.input[Head(enc.fifo)]]
  /\ UNCHANGED <<gpu, driver, owner, accepted, emitted>>

(* Without the mutex: the bitstream is locked, copied, parsed and          *)
(* unlocked and the input unmapped; any of it may fail.                    *)
WorkerCopies ==
  /\ worker.at = "locked"
  /\ \/ /\ worker' = [worker EXCEPT !.at = "copied"]
        /\ enc' = [enc EXCEPT !.mapped[worker.ticket.sur] = FALSE]
     \/ worker' = [worker EXCEPT !.at = "failed"] /\ UNCHANGED enc
  /\ UNCHANGED <<gpu, driver, owner, accepted, emitted>>

WorkerMarks ==
  /\ worker.at = "copied"
  /\ IF CanMarkInputReleased(gpu, worker.ticket)
       THEN gpu' = MarkInputReleased(gpu, worker.ticket) /\ worker' = [worker EXCEPT !.at = "marked"]
       ELSE worker' = [worker EXCEPT !.at = "failed"] /\ UNCHANGED gpu
  /\ UNCHANGED <<enc, driver, owner, accepted, emitted>>

WorkerReleases ==
  /\ worker.at = "marked"
  /\ IF CanRelease(gpu, worker.ticket)
       THEN gpu' = ReleaseTicket(gpu, worker.ticket) /\ worker' = [worker EXCEPT !.at = "released"]
       ELSE worker' = [worker EXCEPT !.at = "failed"] /\ UNCHANGED gpu
  /\ UNCHANGED <<enc, driver, owner, accepted, emitted>>

WorkerFails ==
  /\ worker.at = "failed"
  /\ enc' = FailLocked(enc)
  /\ gpu' = CloseAdmission(gpu)
  /\ worker' = [worker EXCEPT !.at = "done"]
  /\ UNCHANGED <<driver, owner, accepted, emitted>>

WorkerCompletes ==
  /\ worker.at = "released"
  /\ IF enc.fifo # <<>> /\ Head(enc.fifo) = worker.ticket.sur
       THEN /\ enc' = [CompletedHead(enc) EXCEPT !.input[worker.ticket.sur] = NoTicket]
            /\ worker' = [worker EXCEPT !.at = "output"]
            /\ UNCHANGED gpu
       ELSE enc' = FailLocked(enc) /\ gpu' = CloseAdmission(gpu)
            /\ worker' = [worker EXCEPT !.at = "done"]
  /\ UNCHANGED <<driver, owner, accepted, emitted>>

(* The callback takes the frame; if it throws the encoder fails. *)
WorkerOutputs ==
  /\ worker.at = "output"
  /\ emitted' = Append(emitted, worker.ticket.frame)
  /\ \/ worker' = IdleWorker /\ UNCHANGED <<enc, gpu>>
     \/ enc' = FailLocked(enc) /\ gpu' = CloseAdmission(gpu)
        /\ worker' = [worker EXCEPT !.at = "done"]
  /\ UNCHANGED <<driver, owner, accepted>>

-----------------------------------------------------------------------------
WorkerNext ==
  WorkerExits \/ WorkerLocks \/ WorkerCopies \/ WorkerMarks \/ WorkerReleases \/ WorkerFails
  \/ WorkerCompletes \/ WorkerOutputs

OwnerEnds == SubmitAgain \/ FlushReturns \/ CloseReturns

EncNext ==
  \/ WorkerNext \/ OwnerEnds
  \/ Enqueue1 \/ AwaitFrame \/ SubmitInvalid \/ SubmitThrows \/ Submit
  \/ Flush \/ Close \/ DestroyPreprocessor

EncSpec == EncInit /\ [][EncNext]_encVars

(* The threads run, the driver's calls return, and a sleep ends. *)
EncFairness == WF_encVars(WorkerNext) /\ WF_encVars(OwnerEnds)

-----------------------------------------------------------------------------
EncTypeOK ==
  /\ GpuType(gpu, 1..EncMaxFrames)
  /\ \A i \in 1..RingSurfaces : enc.slot[i].state \in SubmissionStates /\ enc.slot[i].retries <= EncMaxRetries
  /\ owner.at \in {"run", "retry", "drain", "join", "closed", "gone"}
  /\ worker.at \in {"wait", "locked", "copied", "marked", "released", "failed", "output", "done"}

(* The driver reads a mapped surface until the worker has unmapped it: all *)
(* that time the preprocessor leaves it with the submitted frame, in the   *)
(* slot of the same number in all four tables (ring, preprocessor,         *)
(* coordinator, encoder), and never writes the next frame into it.  Only a *)
(* driver that could not be torn down keeps a mapping for longer.          *)
SurfacesStayPut ==
  /\ EncTypeOK
  /\ owner.at # "gone" => RingAgrees(gpu)
  /\ \A i \in DOMAIN enc.input :
       /\ enc.mapped[i] =>
            \/ owner.at = "gone" /\ driver
            \/ /\ enc.input[i].sur = i
               /\ Owns(gpu.ring.surfaces[i], enc.input[i])
               /\ gpu.ring.surfaces[i].state \in {"ready_to_submit", "submitted"}
       /\ owner.at \notin {"closed", "gone"} /\ enc.slot[i].state # "free" =>
            enc.slot[i].frame = enc.input[i].frame

(* The callback sees exactly the accepted frames in submission order, with *)
(* none twice, none out of order and no gap, through delayed outputs,      *)
(* retries and failures; a close without a failure leaves none behind, and *)
(* a surface stays with the closed encoder only if its driver could not be *)
(* torn down, which the encoder reports as its failure.                    *)
OutputFollowsSubmission ==
  /\ IsPrefix(emitted, accepted)
  /\ owner.at = "closed" =>
       /\ ~enc.fatal => emitted = accepted
       /\ driver => enc.fatal
       /\ \A i \in DOMAIN gpu.sur : gpu.sur[i].used =>
            \/ \E t \in owner.fresh \cup owner.done : t.frame = gpu.sur[i].frame
            \/ driver /\ enc.input[i].frame = gpu.sur[i].frame

(* A close that has begun returns, whatever the driver and the callback    *)
(* did: nobody waits for a submission nobody completes.                    *)
EncoderCloses ==
  owner.at = "join" \/ (owner.at = "drain" /\ owner.then = "join") ~> owner.at = "closed"
=============================================================================
