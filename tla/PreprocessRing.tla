--------------------------- MODULE PreprocessRing ---------------------------
(***************************************************************************)
(* PreprocessOwnershipRing (gpu/preprocess_pool.cpp) and the               *)
(* CudaPreprocessor that drives it (gpu/cuda_preprocess.cu).  The ring     *)
(* says who owns each source and surface; the preprocessor has slots of    *)
(* its own with an in_use flag, and indexes them with the slots of a ring  *)
(* token, so the two must agree although each picks a slot by itself.      *)
(* Every operation runs under state_mutex and is a function of the state.  *)
(* A frame stands for the (frame_id, geometry_epoch) pair of its token:    *)
(* enqueue takes only increasing frame ids.                                *)
(***************************************************************************)
EXTENDS Integers, FiniteSets, FiniteSetsExt

CONSTANTS RingSources,   \* source_capacity
          RingSurfaces   \* surface_capacity

ASSUME RingAssumption == RingSources \in Nat /\ RingSurfaces \in Nat

SourceStates == {"free", "host_to_device_pending", "cuda_source_read_pending"}
SurfaceStates == {"free", "cuda_writing", "map_copy_pending", "ready_to_submit",
                  "submitted", "encoder_input_released"}

NoRange == [begin |-> 0, size |-> 0]
FreeSlotIn == [state |-> "free", range |-> NoRange, frame |-> 0]
NoTicket == [frame |-> 0, src |-> 0, sur |-> 0]

(* The device allocations, one after the other: sources, then surfaces. *)
SourceRange(i) == [begin |-> 2 * i, size |-> 2]
SurfaceRange(i) == [begin |-> 2 * (RingSources + i), size |-> 2]

Registered(slots) == {i \in DOMAIN slots : slots[i].range # NoRange}

Overlap(a, b) == a.begin < b.begin + b.size /\ b.begin < a.begin + a.size

Aliases(slots, except, range) ==
  \E i \in Registered(slots) \ except : Overlap(slots[i].range, range)

(* A free slot that is unregistered or has this allocation; a slot keeps   *)
(* the allocation it was first used with.                                  *)
CompatibleFree(slots, range) ==
  {i \in DOMAIN slots : /\ slots[i].state = "free"
                        /\ slots[i].range \in {NoRange, range}}

NewRing == [sources |-> [i \in 1..RingSources |-> FreeSlotIn],
            surfaces |-> [i \in 1..RingSurfaces |-> FreeSlotIn],
            open |-> TRUE]

(* The token of the slots that would be reserved, or NoTicket. *)
Reservation(r, f, source, surface) ==
  LET free == CompatibleFree(r.sources, source)
      room == CompatibleFree(r.surfaces, surface)
  IN  IF \/ ~r.open \/ Overlap(source, surface)
         \/ Aliases(r.sources, {}, surface) \/ Aliases(r.surfaces, {}, source)
         \/ free = {} \/ room = {}
        THEN NoTicket
        ELSE IF \/ Aliases(r.sources, {Min(free)}, source)
                \/ Aliases(r.surfaces, {Min(room)}, surface)
               THEN NoTicket
               ELSE [frame |-> f, src |-> Min(free), sur |-> Min(room)]

Reserved(r, t, source, surface) ==
  [r EXCEPT !.sources[t.src] = [state |-> "host_to_device_pending", range |-> source, frame |-> t.frame],
            !.surfaces[t.sur] = [state |-> "cuda_writing", range |-> surface, frame |-> t.frame]]

SourceIs(r, t, state) == r.sources[t.src].frame = t.frame /\ r.sources[t.src].state = state
SurfaceIs(r, t, state) == r.surfaces[t.sur].frame = t.frame /\ r.surfaces[t.sur].state = state

Freed(slots, i) == [slots EXCEPT ![i].state = "free", ![i].frame = 0]

Owns(slot, t) == slot.state # "free" /\ slot.frame = t.frame

AbortOwned(r, t) ==
  [r EXCEPT !.sources = IF Owns(r.sources[t.src], t) THEN Freed(r.sources, t.src) ELSE r.sources,
            !.surfaces = IF Owns(r.surfaces[t.sur], t) THEN Freed(r.surfaces, t.sur) ELSE r.surfaces]

-----------------------------------------------------------------------------
(* CudaPreprocessor *)

IdleSurface == [used |-> FALSE, waited |-> FALSE, frame |-> 0]

NewGpu == [ring |-> NewRing,
           src |-> [i \in 1..RingSources |-> FALSE],
           sur |-> [i \in 1..RingSurfaces |-> IdleSurface],
           ready |-> TRUE, last |-> 0]

IdleSources(g) == {i \in DOMAIN g.src : ~g.src[i]}
IdleSurfaces(g) == {i \in DOMAIN g.sur : ~g.sur[i].used}

(* What enqueue reserves: the first idle source and surface, if the ring   *)
(* agrees.                                                                 *)
EnqueueTicket(g, f) ==
  IF ~g.ready \/ f <= g.last \/ IdleSources(g) = {} \/ IdleSurfaces(g) = {}
    THEN NoTicket
    ELSE Reservation(g.ring, f, SourceRange(Min(IdleSources(g))), SurfaceRange(Min(IdleSurfaces(g))))

(* A CUDA call failed: the stream is drained, the slots are given back and *)
(* the preprocessor takes no more frames.                                  *)
AfterCudaFailure(g, t, source, surface) ==
  [g EXCEPT !.ring = AbortOwned(@, t), !.src[source] = FALSE,
            !.sur[surface].used = FALSE, !.sur[surface].waited = FALSE, !.ready = FALSE]

(* The frame is uploaded and its kernels are launched, or one call fails. *)
Enqueued(g, t, works) ==
  LET i == Min(IdleSources(g))
      k == Min(IdleSurfaces(g))
      h == [g EXCEPT !.ring = Reserved(@, t, SourceRange(i), SurfaceRange(k)), !.src[i] = TRUE,
                     !.sur[k] = [used |-> TRUE, waited |-> FALSE, frame |-> t.frame]]
  IN  IF works THEN [h EXCEPT !.last = t.frame] ELSE AfterCudaFailure(h, t, i, k)

WaitAdmits(g, t) ==
  /\ g.src[t.src] /\ g.sur[t.sur].used /\ ~g.sur[t.sur].waited
  /\ g.sur[t.sur].frame = t.frame

OwnershipCompletes(r, t) ==
  SourceIs(r, t, "host_to_device_pending") /\ SurfaceIs(r, t, "cuda_writing")

(* The four ring transitions of a finished frame in a row: upload and read *)
(* of the source, copy of the map, ready to submit.                        *)
Completed4(r, t) ==
  [r EXCEPT !.sources = Freed(@, t.src), !.surfaces[t.sur].state = "ready_to_submit"]

(* The outcomes of wait: the frame is ready, a CUDA call fails before the  *)
(* source is released, or the copy of the debug output fails after it.     *)
WaitOutcomes == {"ready", "cuda_fails", "debug_fails"}

Waited(g, t, outcome) ==
  IF outcome = "cuda_fails" \/ ~OwnershipCompletes(g.ring, t)
    THEN AfterCudaFailure(g, t, t.src, t.sur)
    ELSE LET h == [g EXCEPT !.ring = Completed4(@, t), !.src[t.src] = FALSE, !.sur[t.sur].waited = TRUE]
         IN  IF outcome = "ready" THEN h
             ELSE [h EXCEPT !.ring = AbortOwned(@, t), !.sur[t.sur].used = FALSE, !.ready = FALSE]

MarkSubmitted(g, t) == [g EXCEPT !.ring.surfaces[t.sur].state = "submitted"]
CanMarkSubmitted(g, t) == g.sur[t.sur].waited /\ SurfaceIs(g.ring, t, "ready_to_submit")

MarkInputReleased(g, t) == [g EXCEPT !.ring.surfaces[t.sur].state = "encoder_input_released"]
CanMarkInputReleased(g, t) == SurfaceIs(g.ring, t, "submitted")

ReleaseTicket(g, t) ==
  [g EXCEPT !.ring.surfaces = Freed(@, t.sur), !.sur[t.sur] = IdleSurface]
CanRelease(g, t) == SurfaceIs(g.ring, t, "encoder_input_released")

(* Mutant: the ring forgets the ticket, the preprocessor does not. *)
AbortRingOnly(g, t) == [g EXCEPT !.ring = AbortOwned(@, t)]

AbortTicket(g, t) ==
  IF Owns(g.ring.sources[t.src], t) \/ Owns(g.ring.surfaces[t.sur], t)
    THEN [g EXCEPT !.ring = AbortOwned(@, t), !.sur[t.sur] = IdleSurface]
    ELSE g

(* abort, for every ticket of a set: of no two frames, so in any order. *)
AllAborted(g, tickets) ==
  LET sources(t) == Owns(g.ring.sources[t.src], t)
      surfaces(t) == Owns(g.ring.surfaces[t.sur], t)
      mine(i) == \E t \in tickets : t.src = i /\ sources(t)
      done(k) == \E t \in tickets : t.sur = k /\ surfaces(t)
      idle(k) == \E t \in tickets : t.sur = k /\ (sources(t) \/ surfaces(t))
  IN  [g EXCEPT !.ring.sources = [i \in DOMAIN @ |-> IF mine(i) THEN Freed(@, i)[i] ELSE @[i]],
                !.ring.surfaces = [k \in DOMAIN @ |-> IF done(k) THEN Freed(@, k)[k] ELSE @[k]],
                !.sur = [k \in DOMAIN @ |-> IF idle(k) THEN IdleSurface ELSE @[k]]]

CloseAdmission(g) == [g EXCEPT !.ring.open = FALSE]

(* The preprocessor's cleanup: what is still in use is aborted. *)
CleanedUp(g) ==
  LET held == {i \in DOMAIN g.sur : g.sur[i].used}
      theirs(slots) == {i \in DOMAIN slots :
                          \E k \in held : slots[i].state # "free" /\ slots[i].frame = g.sur[k].frame}
      swept(slots) == [i \in DOMAIN slots |->
                         IF i \in theirs(slots) THEN Freed(slots, i)[i] ELSE slots[i]]
  IN  [NewGpu EXCEPT !.ready = FALSE,
                     !.ring = [sources |-> swept(g.ring.sources), surfaces |-> swept(g.ring.surfaces),
                               open |-> FALSE],
                     !.last = g.last]

(* The ring and the preprocessor's own slots tell the same story, slot by  *)
(* slot: wait, mark_submitted and release index one with the other's       *)
(* token.                                                                  *)
RingAgrees(g) ==
  /\ \A i \in DOMAIN g.src : g.src[i] <=> g.ring.sources[i].state # "free"
  /\ \A i \in DOMAIN g.sur : /\ g.sur[i].used <=> g.ring.surfaces[i].state # "free"
                             /\ g.sur[i].used => g.sur[i].frame = g.ring.surfaces[i].frame
  /\ \A i \in Registered(g.ring.sources) : g.ring.sources[i].range = SourceRange(i)
  /\ \A i \in Registered(g.ring.surfaces) : g.ring.surfaces[i].range = SurfaceRange(i)

GpuType(g, frames) ==
  /\ \A i \in 1..RingSources : g.ring.sources[i].state \in SourceStates
  /\ \A i \in 1..RingSurfaces : /\ g.ring.surfaces[i].state \in SurfaceStates
                                /\ g.sur[i].frame \in frames \cup {0}
  /\ g.last \in frames \cup {0}
  /\ {g.ready, g.ring.open} \subseteq BOOLEAN
=============================================================================
