------------------------ MODULE CaptureEncodeProofs ------------------------
(***************************************************************************)
(* What holds of the encoder and of the surfaces it shares with the        *)
(* preprocessor, for any number of sources, surfaces and frames; and of    *)
(* the record command with the capture pool and the portal's session, for  *)
(* any number of slots, frames and geometries.                             *)
(***************************************************************************)
EXTENDS RecordCommand, NvencEncoder, FiniteSetTheorems, SequenceTheorems, WellFoundedInduction, TLAPS

Sources == 1 .. RingSources
Surfaces == 1 .. RingSurfaces

TicketSet == [frame : 1 .. EncMaxFrames, src : Sources, sur : Surfaces]

RangeSet == [begin : Nat, size : Nat]
SourceSet == [state : SourceStates, range : RangeSet, frame : Nat]
SurfaceSet == [state : SurfaceStates, range : RangeSet, frame : Nat]
UsedSet == [used : BOOLEAN, waited : BOOLEAN, frame : 0 .. EncMaxFrames]

RingSet == [sources : [Sources -> SourceSet], surfaces : [Surfaces -> SurfaceSet], open : BOOLEAN]

GpuShape(g) ==
  g \in [ring : RingSet, src : [Sources -> BOOLEAN], sur : [Surfaces -> UsedSet],
         ready : BOOLEAN, last : 0 .. EncMaxFrames]

SubmissionSet == [state : SubmissionStates, frame : Nat, ready : BOOLEAN, retries : 0 .. EncMaxRetries]

EncShape(e) ==
  e \in [slot : [Surfaces -> SubmissionSet], fifo : Seq(Surfaces), last : Nat,
         input : [Surfaces -> TicketSet \cup {NoTicket}], mapped : [Surfaces -> BOOLEAN],
         open : BOOLEAN, eos : BOOLEAN, fatal : BOOLEAN]

OwnerSteps == {"run", "retry", "drain", "join", "closed", "gone"}
OwnerShape(o) ==
  o \in [at : OwnerSteps, ticket : TicketSet \cup {NoTicket}, next : 1 .. EncMaxFrames + 1,
         fresh : SUBSET TicketSet, done : SUBSET TicketSet, then : {"run", "join"}]

Working == {"locked", "copied", "marked", "released", "failed"}
WorkerShape(w) ==
  w \in [at : Working \cup {"wait", "output", "done"}, ticket : TicketSet \cup {NoTicket}]

-----------------------------------------------------------------------------
(* Slot by slot, the ring and the preprocessor agree. *)
SourceAgrees(g, i) ==
  /\ g.src[i] <=> g.ring.sources[i].state # "free"
  /\ g.ring.sources[i].range \in {NoRange, SourceRange(i)}

SurfaceAgrees(g, k) ==
  /\ g.sur[k].used <=> g.ring.surfaces[k].state # "free"
  /\ g.sur[k].used => g.sur[k].frame = g.ring.surfaces[k].frame
  /\ g.ring.surfaces[k].range \in {NoRange, SurfaceRange(k)}

Uploading(g, t) ==
  /\ SurfaceIs(g.ring, t, "cuda_writing") /\ SourceIs(g.ring, t, "host_to_device_pending")
  /\ ~g.sur[t.sur].waited

Written(g, t) == SurfaceIs(g.ring, t, "ready_to_submit") /\ g.sur[t.sur].waited

(* A frame is one ticket's, of the owner or of the encoder. *)
Ids(fresh, done, input, next) ==
  /\ \A t \in fresh \cup done : t.frame < next
  /\ \A t, u \in fresh \cup done : t.frame = u.frame => t = u
  /\ fresh \cap done = {}
  /\ \A k \in Surfaces : /\ input[k] # NoTicket => input[k].sur = k
                         /\ input[k].frame < next
                         /\ \A t \in fresh \cup done : t.frame # input[k].frame

(* A slot in use is some ticket's. *)
SurfaceHeld(g, fresh, done, input, k) ==
  g.ring.surfaces[k].state # "free" =>
    \/ \E t \in fresh \cup done : t.sur = k /\ t.frame = g.ring.surfaces[k].frame
    \/ input[k] # NoTicket /\ input[k].frame = g.ring.surfaces[k].frame

SourceHeld(g, fresh, i) ==
  g.ring.sources[i].state # "free" =>
    \E t \in fresh : t.src = i /\ t.frame = g.ring.sources[i].frame

GpuInv(g, fresh, done, input) ==
  /\ \A i \in Sources : SourceAgrees(g, i) /\ SourceHeld(g, fresh, i)
  /\ \A k \in Surfaces : SurfaceAgrees(g, k) /\ SurfaceHeld(g, fresh, done, input, k)
  /\ \A t \in fresh : Uploading(g, t)
  /\ \A t \in done : Written(g, t)

-----------------------------------------------------------------------------
Live == {"submitted_pending_output", "bitstream_lockable", "bitstream_locked"}

(* The FIFO lists the submissions the driver has, once each; only its head *)
(* can be locked.                                                          *)
Queued(e) ==
  /\ \A a, b \in 1 .. Len(e.fifo) : e.fifo[a] = e.fifo[b] => a = b
  /\ \A a \in 1 .. Len(e.fifo) :
       /\ e.slot[e.fifo[a]].state \in Live
       /\ e.slot[e.fifo[a]].state = "bitstream_locked" => a = 1
  /\ \A k \in Surfaces : e.slot[k].state \in Live => \E a \in 1 .. Len(e.fifo) : e.fifo[a] = k
  /\ e.fatal => \A k \in Surfaces : e.slot[k].state \in {"free", "bitstream_locked", "abort_pending"}

(* A locked submission is the one the worker works on, until it fails. *)
WorkInv(e, w) ==
  /\ w.at \in Working => /\ w.ticket \in TicketSet /\ e.input[w.ticket.sur] = w.ticket
                         /\ e.slot[w.ticket.sur].state = "bitstream_locked"
  /\ \A k \in Surfaces : e.slot[k].state = "bitstream_locked" =>
       (w.at \in Working /\ w.ticket.sur = k) \/ (w.at = "done" /\ e.fatal)
  /\ w.at \in {"copied", "marked", "released"} => ~e.mapped[w.ticket.sur]
  /\ w.at = "done" /\ ~e.fatal => e.eos /\ \A k \in Surfaces : e.slot[k].state = "free"

(* A submission is of the input in its slot. *)
InputInv(e) ==
  \A k \in Surfaces :
    /\ e.slot[k].state # "free" => e.input[k] # NoTicket /\ e.slot[k].frame = e.input[k].frame
    /\ e.mapped[k] => e.slot[k].state # "free"
    /\ e.input[k] # NoTicket => e.input[k].sur = k

OwnerInv(e, o) ==
  o.at = "retry" => /\ o.ticket # NoTicket /\ e.input[o.ticket.sur] = o.ticket
                    /\ e.slot[o.ticket.sur].state \in {"submit_retry_pending", "abort_pending"}
                    /\ ~e.fatal => e.slot[o.ticket.sur].state = "submit_retry_pending"

(* Where the preprocessor has the surface of an input. *)
Place(g, e, w, k) ==
  IF w.at = "released" /\ w.ticket.sur = k THEN ~Owns(g.ring.surfaces[k], e.input[k])
  ELSE IF w.at = "marked" /\ w.ticket.sur = k THEN SurfaceIs(g.ring, e.input[k], "encoder_input_released")
  ELSE IF e.slot[k].state \in Live THEN SurfaceIs(g.ring, e.input[k], "submitted")
  ELSE IF e.slot[k].state = "abort_pending"
         THEN SurfaceIs(g.ring, e.input[k], "submitted") \/ Written(g, e.input[k])
  ELSE Written(g, e.input[k])

Link(g, e, w) == \A k \in Surfaces : e.input[k] # NoTicket => Place(g, e, w, k)

Busy(g, e, w) == Queued(e) /\ WorkInv(e, w) /\ InputInv(e) /\ Link(g, e, w)

(* What was accepted is what is emitted, then what is handed to the        *)
(* callback, then what is queued.                                          *)
Handed(w) == IF w.at = "output" THEN 1 ELSE 0

OrderInv(e, w, acc, out) ==
  /\ acc \in Seq(Nat) /\ out \in Seq(Nat)
  /\ Len(out) + Handed(w) + Len(e.fifo) <= Len(acc)
  /\ ~e.fatal => Len(out) + Handed(w) + Len(e.fifo) = Len(acc)
  /\ \A a \in 1 .. Len(out) : out[a] = acc[a]
  /\ w.at = "output" => w.ticket.frame = acc[Len(out) + 1]
  /\ \A a \in 1 .. Len(e.fifo) : e.slot[e.fifo[a]].frame = acc[Len(out) + Handed(w) + a]

Emptied(e) == \A k \in Surfaces : e.input[k] = NoTicket /\ ~e.mapped[k]

(* After a close: a driver that still has its session was left as it was. *)
Torn(e, w, d) ==
  /\ w.at = "done" /\ (~e.fatal => e.fifo = << >>)
  /\ IF d THEN e.fatal ELSE Emptied(e)

EncInv ==
  /\ GpuShape(gpu) /\ EncShape(enc) /\ OwnerShape(owner) /\ WorkerShape(worker)
  /\ owner.at # "gone" => /\ Ids(owner.fresh, owner.done, enc.input, owner.next)
                          /\ GpuInv(gpu, owner.fresh, owner.done, enc.input)
  /\ IF owner.at \in {"closed", "gone"}
       THEN /\ Torn(enc, worker, driver)
            /\ owner.at = "closed" /\ driver => Busy(gpu, enc, worker)
       ELSE Busy(gpu, enc, worker) /\ OwnerInv(enc, owner)
  /\ OrderInv(enc, worker, accepted, emitted)

(* An encoder without a session has failed and never takes an input. *)
DriverInv ==
  owner.at \notin {"closed", "gone"} /\ ~driver => enc.fatal /\ worker.at = "done" /\ Emptied(enc)

-----------------------------------------------------------------------------
(* The ring and the preprocessor's slots. *)

LEMMA Bounds ==
  /\ RingSources \in Nat /\ RingSurfaces \in Nat /\ EncMaxFrames \in Nat /\ EncMaxRetries \in Nat
BY RingAssumption, EncoderAssumption

LEMMA LeastOfSome ==
  ASSUME NEW S \in SUBSET Nat, S # {}
  PROVE  Min(S) \in S /\ \A x \in S : Min(S) <= x
<1> DEFINE R == {p \in Nat \X Nat : p[1] < p[2]}
<1>1. IsWellFoundedOn(R, Nat)
  BY NatLessThanWellFounded DEF OpToRel
<1> HIDE DEF R
<1>2. PICK x \in S : \A y \in S : ~(<<y, x>> \in R)
  BY <1>1, WFMin
<1>3. \A y \in S : ~(y < x)
  BY <1>2 DEF R
<1>4. \A y \in S : x <= y
  BY <1>3
<1> QED  BY <1>4 DEF Min

(* The least idle slot is the one the ring reserves. *)
LEMMA LeastIsReserved ==
  ASSUME NEW S \in SUBSET Nat, NEW T \in SUBSET S, S # {}, Min(S) \in T
  PROVE  Min(T) = Min(S)
<1>1. Min(S) \in S /\ \A x \in S : Min(S) <= x
  BY LeastOfSome
<1>2. Min(T) \in T /\ \A x \in T : Min(T) <= x
  BY LeastOfSome
<1>3. Min(T) <= Min(S) /\ Min(S) <= Min(T) /\ Min(S) \in Nat /\ Min(T) \in Nat
  BY <1>1, <1>2
<1> QED  BY <1>3

LEMMA TicketFields ==
  ASSUME NEW t \in TicketSet
  PROVE  /\ t.frame \in Nat /\ t.frame >= 1 /\ t.frame <= EncMaxFrames
         /\ t.src \in Sources /\ t.sur \in Surfaces /\ t # NoTicket
BY Bounds DEF TicketSet, NoTicket

LEMMA GpuFields ==
  ASSUME NEW g, GpuShape(g)
  PROVE  /\ g.ring.sources \in [Sources -> SourceSet] /\ g.ring.surfaces \in [Surfaces -> SurfaceSet]
         /\ g.src \in [Sources -> BOOLEAN] /\ g.sur \in [Surfaces -> UsedSet]
         /\ g.last \in 0 .. EncMaxFrames
         /\ DOMAIN g.src = Sources /\ DOMAIN g.sur = Surfaces
         /\ DOMAIN g.ring.sources = Sources /\ DOMAIN g.ring.surfaces = Surfaces
BY DEF GpuShape, RingSet

LEMMA AgreementIsRingAgrees ==
  ASSUME NEW g, GpuShape(g),
         \A i \in Sources : SourceAgrees(g, i), \A k \in Surfaces : SurfaceAgrees(g, k)
  PROVE  RingAgrees(g)
<1>1. /\ DOMAIN g.src = Sources /\ DOMAIN g.sur = Surfaces
      /\ DOMAIN g.ring.sources = Sources /\ DOMAIN g.ring.surfaces = Surfaces
  BY GpuFields
<1>2. \A i \in Sources : g.src[i] <=> g.ring.sources[i].state # "free"
  BY DEF SourceAgrees
<1>3. \A k \in Surfaces : /\ g.sur[k].used <=> g.ring.surfaces[k].state # "free"
                          /\ g.sur[k].used => g.sur[k].frame = g.ring.surfaces[k].frame
  BY DEF SurfaceAgrees
<1>4. \A i \in Registered(g.ring.sources) : g.ring.sources[i].range = SourceRange(i)
  BY <1>1 DEF SourceAgrees, Registered
<1>5. \A k \in Registered(g.ring.surfaces) : g.ring.surfaces[k].range = SurfaceRange(k)
  BY <1>1 DEF SurfaceAgrees, Registered
<1> QED  BY <1>1, <1>2, <1>3, <1>4, <1>5 DEF RingAgrees

(* All but these slots are as they were. *)
SameBut(g, h, I, K) ==
  /\ \A i \in Sources \ I : h.ring.sources[i] = g.ring.sources[i] /\ h.src[i] = g.src[i]
  /\ \A k \in Surfaces \ K : h.ring.surfaces[k] = g.ring.surfaces[k] /\ h.sur[k] = g.sur[k]

LEMMA SameSlots ==
  ASSUME NEW g, NEW h, NEW I, NEW K, SameBut(g, h, I, K)
  PROVE  /\ \A i \in Sources \ I : SourceAgrees(g, i) => SourceAgrees(h, i)
         /\ \A k \in Surfaces \ K : SurfaceAgrees(g, k) => SurfaceAgrees(h, k)
BY DEF SameBut, SourceAgrees, SurfaceAgrees

LEMMA SameTickets ==
  ASSUME NEW g, NEW h, NEW I, NEW K, SameBut(g, h, I, K), NEW t \in TicketSet, t.sur \notin K
  PROVE  /\ Written(g, t) => Written(h, t)
         /\ t.src \notin I /\ Uploading(g, t) => Uploading(h, t)
         /\ \A s : SurfaceIs(g.ring, t, s) => SurfaceIs(h.ring, t, s)
BY TicketFields DEF SameBut, Written, Uploading, SurfaceIs, SourceIs

LEMMA RangesAreSets ==
  /\ \A i \in Sources : SourceRange(i) \in RangeSet
  /\ \A k \in Surfaces : SurfaceRange(k) \in RangeSet
  /\ NoRange \in RangeSet
BY Bounds DEF Sources, Surfaces, SourceRange, SurfaceRange, RangeSet, NoRange

-----------------------------------------------------------------------------
(* enqueue *)

(* What the preprocessor reserves is what the ring reserves. *)
LEMMA EnqueueReserves ==
  ASSUME NEW g, GpuShape(g),
         \A i \in Sources : SourceAgrees(g, i), \A k \in Surfaces : SurfaceAgrees(g, k),
         NEW f \in 1 .. EncMaxFrames, EnqueueTicket(g, f) # NoTicket
  PROVE  LET t == EnqueueTicket(g, f)
         IN  /\ t \in TicketSet /\ t.frame = f
             /\ t.src = Min(IdleSources(g)) /\ t.sur = Min(IdleSurfaces(g))
             /\ g.ring.sources[t.src].state = "free" /\ g.ring.surfaces[t.sur].state = "free"
<1> DEFINE i == Min(IdleSources(g))
           k == Min(IdleSurfaces(g))
           free == CompatibleFree(g.ring.sources, SourceRange(i))
           room == CompatibleFree(g.ring.surfaces, SurfaceRange(k))
<1>1. /\ DOMAIN g.src = Sources /\ DOMAIN g.sur = Surfaces
      /\ DOMAIN g.ring.sources = Sources /\ DOMAIN g.ring.surfaces = Surfaces
  BY GpuFields
<1>2. IdleSources(g) # {} /\ IdleSurfaces(g) # {}
  BY DEF EnqueueTicket
<1>3. IdleSources(g) \in SUBSET Nat /\ IdleSurfaces(g) \in SUBSET Nat
  BY <1>1, Bounds DEF IdleSources, IdleSurfaces, Sources, Surfaces
<1>4. i \in IdleSources(g) /\ k \in IdleSurfaces(g)
  BY <1>2, <1>3, LeastOfSome
<1>5. i \in Sources /\ k \in Surfaces
  BY <1>1, <1>4 DEF IdleSources, IdleSurfaces
<1>6. \A j \in Sources : g.ring.sources[j].state = "free" <=> j \in IdleSources(g)
  BY <1>1 DEF IdleSources, SourceAgrees
<1>7. \A j \in Surfaces : g.ring.surfaces[j].state = "free" <=> j \in IdleSurfaces(g)
  BY <1>1 DEF IdleSurfaces, SurfaceAgrees
<1>8. free \in SUBSET IdleSources(g) /\ i \in free
  BY <1>1, <1>4, <1>5, <1>6 DEF CompatibleFree, SourceAgrees
<1>9. room \in SUBSET IdleSurfaces(g) /\ k \in room
  BY <1>1, <1>4, <1>5, <1>7 DEF CompatibleFree, SurfaceAgrees
<1>10. Min(free) = i /\ Min(room) = k
  BY <1>2, <1>3, <1>8, <1>9, LeastIsReserved
<1>11. EnqueueTicket(g, f) = [frame |-> f, src |-> Min(free), sur |-> Min(room)]
  BY DEF EnqueueTicket, Reservation
<1> HIDE DEF free, room
<1>12. EnqueueTicket(g, f) = [frame |-> f, src |-> i, sur |-> k]
  BY <1>10, <1>11
<1>13. [frame |-> f, src |-> i, sur |-> k] \in TicketSet
  BY <1>5 DEF TicketSet
<1> QED  BY <1>4, <1>5, <1>6, <1>7, <1>12, <1>13

(* The reserved slots, in the ring and in the preprocessor. *)
Begun(g, t) ==
  [g EXCEPT !.ring = Reserved(@, t, SourceRange(t.src), SurfaceRange(t.sur)), !.src[t.src] = TRUE,
            !.sur[t.sur] = [used |-> TRUE, waited |-> FALSE, frame |-> t.frame]]

LEMMA BegunSlots ==
  ASSUME NEW g, GpuShape(g), NEW t \in TicketSet
  PROVE  LET h == Begun(g, t)
         IN  /\ GpuShape(h) /\ SameBut(g, h, {t.src}, {t.sur}) /\ Uploading(h, t)
             /\ SourceAgrees(h, t.src) /\ SurfaceAgrees(h, t.sur)
<1> DEFINE h == Begun(g, t)
           a == [state |-> "host_to_device_pending", range |-> SourceRange(t.src), frame |-> t.frame]
           b == [state |-> "cuda_writing", range |-> SurfaceRange(t.sur), frame |-> t.frame]
           c == [used |-> TRUE, waited |-> FALSE, frame |-> t.frame]
<1>1. t.src \in Sources /\ t.sur \in Surfaces /\ t.frame \in Nat /\ t.frame \in 0 .. EncMaxFrames
  BY TicketFields, Bounds
<1>2. a \in SourceSet /\ b \in SurfaceSet
  BY <1>1, RangesAreSets DEF SourceSet, SurfaceSet, SourceStates, SurfaceStates
<1>3. c \in UsedSet
  BY <1>1 DEF UsedSet
<1>0. /\ g.ring.sources \in [Sources -> SourceSet] /\ g.ring.surfaces \in [Surfaces -> SurfaceSet]
      /\ g.src \in [Sources -> BOOLEAN] /\ g.sur \in [Surfaces -> UsedSet]
  BY GpuFields
<1> HIDE DEF a, b
<1>4. /\ h.ring = Reserved(g.ring, t, SourceRange(t.src), SurfaceRange(t.sur))
      /\ h.src = [g.src EXCEPT ![t.src] = TRUE]
      /\ h.sur = [g.sur EXCEPT ![t.sur] = c]
      /\ h.ready = g.ready /\ h.last = g.last
  BY DEF Begun, GpuShape
<1>6. ASSUME Reserved(g.ring, t, SourceRange(t.src), SurfaceRange(t.sur)) \in RingSet, c \in UsedSet
      PROVE  GpuShape(h)
  BY <1>0, <1>1, <1>6 DEF Begun, GpuShape
<1> HIDE DEF h, c
<1>5. /\ h.ring.sources = [g.ring.sources EXCEPT ![t.src] = a]
      /\ h.ring.surfaces = [g.ring.surfaces EXCEPT ![t.sur] = b]
      /\ h.ring.open = g.ring.open
      /\ h.ring = [sources |-> h.ring.sources, surfaces |-> h.ring.surfaces, open |-> h.ring.open]
  BY <1>4 DEF GpuShape, RingSet, Reserved, a, b
<1>10. h.ring \in RingSet
  <2>1. h.ring.sources \in [Sources -> SourceSet] /\ h.ring.surfaces \in [Surfaces -> SurfaceSet]
    BY <1>0, <1>1, <1>2, <1>5
  <2>2. h.ring.open \in BOOLEAN
    BY <1>5 DEF GpuShape, RingSet
  <2> QED  BY <2>1, <2>2, <1>5 DEF RingSet
<1>11. GpuShape(h)
  BY <1>3, <1>4, <1>6, <1>10
<1>7. SameBut(g, h, {t.src}, {t.sur})
  BY <1>0, <1>4, <1>5 DEF SameBut
<1>8. /\ h.ring.sources[t.src] = a /\ h.ring.surfaces[t.sur] = b /\ h.src[t.src] = TRUE /\ h.sur[t.sur] = c
  BY <1>0, <1>1, <1>4, <1>5
<1>9. Uploading(h, t)
  BY <1>8 DEF Uploading, SourceIs, SurfaceIs, a, b, c
<1>12. SourceAgrees(h, t.src) /\ SurfaceAgrees(h, t.sur)
  BY <1>8 DEF SourceAgrees, SurfaceAgrees, a, b, c
<1> QED  BY <1>7, <1>9, <1>11, <1>12 DEF h

-----------------------------------------------------------------------------
(* Slots given back. *)

LEMMA FreedSource ==
  ASSUME NEW slots \in [Sources -> SourceSet], NEW i \in Sources
  PROVE  /\ Freed(slots, i) \in [Sources -> SourceSet]
         /\ \A j \in Sources \ {i} : Freed(slots, i)[j] = slots[j]
         /\ Freed(slots, i)[i].state = "free" /\ Freed(slots, i)[i].range = slots[i].range
BY DEF Freed, SourceSet, SourceStates

LEMMA FreedSurface ==
  ASSUME NEW slots \in [Surfaces -> SurfaceSet], NEW k \in Surfaces
  PROVE  /\ Freed(slots, k) \in [Surfaces -> SurfaceSet]
         /\ \A j \in Surfaces \ {k} : Freed(slots, k)[j] = slots[j]
         /\ Freed(slots, k)[k].state = "free" /\ Freed(slots, k)[k].range = slots[k].range
BY DEF Freed, SurfaceSet, SurfaceStates

LEMMA AbortOwnedSlots ==
  ASSUME NEW r \in RingSet, NEW t \in TicketSet
  PROVE  LET q == AbortOwned(r, t)
         IN  /\ q \in RingSet
             /\ \A i \in Sources \ {t.src} : q.sources[i] = r.sources[i]
             /\ \A k \in Surfaces \ {t.sur} : q.surfaces[k] = r.surfaces[k]
             /\ IF Owns(r.sources[t.src], t)
                  THEN q.sources[t.src].state = "free" /\ q.sources[t.src].range = r.sources[t.src].range
                  ELSE q.sources = r.sources
             /\ IF Owns(r.surfaces[t.sur], t)
                  THEN q.surfaces[t.sur].state = "free" /\ q.surfaces[t.sur].range = r.surfaces[t.sur].range
                  ELSE q.surfaces = r.surfaces
<1> DEFINE q == AbortOwned(r, t)
           A == IF Owns(r.sources[t.src], t) THEN Freed(r.sources, t.src) ELSE r.sources
           B == IF Owns(r.surfaces[t.sur], t) THEN Freed(r.surfaces, t.sur) ELSE r.surfaces
<1>1. t.src \in Sources /\ t.sur \in Surfaces
  BY TicketFields
<1>2. r.sources \in [Sources -> SourceSet] /\ r.surfaces \in [Surfaces -> SurfaceSet]
  BY DEF RingSet
<1>3. /\ A \in [Sources -> SourceSet]
      /\ \A i \in Sources \ {t.src} : A[i] = r.sources[i]
      /\ IF Owns(r.sources[t.src], t)
           THEN A[t.src].state = "free" /\ A[t.src].range = r.sources[t.src].range ELSE A = r.sources
  BY <1>1, <1>2, FreedSource
<1>4. /\ B \in [Surfaces -> SurfaceSet]
      /\ \A k \in Surfaces \ {t.sur} : B[k] = r.surfaces[k]
      /\ IF Owns(r.surfaces[t.sur], t)
           THEN B[t.sur].state = "free" /\ B[t.sur].range = r.surfaces[t.sur].range ELSE B = r.surfaces
  BY <1>1, <1>2, FreedSurface
<1>5. q = [r EXCEPT !.sources = A, !.surfaces = B]
  BY DEF AbortOwned
<1> HIDE DEF A, B, q
<1>6. q \in RingSet /\ q.sources = A /\ q.surfaces = B
  BY <1>3, <1>4, <1>5 DEF RingSet
<1> QED  BY <1>3, <1>4, <1>6 DEF q

(* A CUDA call failed for a frame that is being uploaded. *)
LEMMA FailureFrees ==
  ASSUME NEW g, GpuShape(g), NEW t \in TicketSet, Uploading(g, t),
         SourceAgrees(g, t.src), SurfaceAgrees(g, t.sur)
  PROVE  LET h == AfterCudaFailure(g, t, t.src, t.sur)
         IN  /\ GpuShape(h) /\ SameBut(g, h, {t.src}, {t.sur})
             /\ SourceAgrees(h, t.src) /\ SurfaceAgrees(h, t.sur)
             /\ h.ring.sources[t.src].state = "free" /\ h.ring.surfaces[t.sur].state = "free"
<1> DEFINE h == AfterCudaFailure(g, t, t.src, t.sur)
           q == AbortOwned(g.ring, t)
           c == [g.sur[t.sur] EXCEPT !.used = FALSE, !.waited = FALSE]
<1>1. t.src \in Sources /\ t.sur \in Surfaces
  BY TicketFields
<1>2. /\ g.ring \in RingSet
      /\ g.ring.sources \in [Sources -> SourceSet] /\ g.ring.surfaces \in [Surfaces -> SurfaceSet]
      /\ g.src \in [Sources -> BOOLEAN] /\ g.sur \in [Surfaces -> UsedSet]
  BY GpuFields DEF GpuShape
<1>3. Owns(g.ring.sources[t.src], t) /\ Owns(g.ring.surfaces[t.sur], t)
  BY DEF Owns, Uploading, SourceIs, SurfaceIs
<1>4. /\ q \in RingSet
      /\ \A i \in Sources \ {t.src} : q.sources[i] = g.ring.sources[i]
      /\ \A k \in Surfaces \ {t.sur} : q.surfaces[k] = g.ring.surfaces[k]
      /\ q.sources[t.src].state = "free" /\ q.sources[t.src].range = g.ring.sources[t.src].range
      /\ q.surfaces[t.sur].state = "free" /\ q.surfaces[t.sur].range = g.ring.surfaces[t.sur].range
  BY <1>2, <1>3, AbortOwnedSlots
<1>5. c \in UsedSet /\ c.used = FALSE
  BY <1>1, <1>2 DEF UsedSet
<1> HIDE DEF q
<1>6. /\ h.ring = q
      /\ h.src = [g.src EXCEPT ![t.src] = FALSE]
      /\ h.sur = [g.sur EXCEPT ![t.sur] = c]
  BY <1>1, <1>2 DEF AfterCudaFailure, GpuShape, q
<1>7. GpuShape(h)
  BY <1>1, <1>2, <1>4, <1>5 DEF AfterCudaFailure, GpuShape, q
<1> HIDE DEF h, c
<1>8. SameBut(g, h, {t.src}, {t.sur})
  BY <1>2, <1>4, <1>6 DEF SameBut
<1>9. h.src[t.src] = FALSE /\ h.sur[t.sur] = c
  BY <1>1, <1>2, <1>6
<1>10. SourceAgrees(h, t.src) /\ SurfaceAgrees(h, t.sur)
  BY <1>4, <1>5, <1>6, <1>9 DEF SourceAgrees, SurfaceAgrees
<1> QED  BY <1>4, <1>6, <1>7, <1>8, <1>10 DEF h

-----------------------------------------------------------------------------
(* wait, mark_submitted, mark_input_released, release and abort. *)

(* The frame of an upload is ready: its source is given back. *)
Readied(g, t) ==
  [g EXCEPT !.ring = Completed4(@, t), !.src[t.src] = FALSE, !.sur[t.sur].waited = TRUE]

LEMMA ReadiedSlots ==
  ASSUME NEW g, GpuShape(g), NEW t \in TicketSet, Uploading(g, t),
         SourceAgrees(g, t.src), SurfaceAgrees(g, t.sur)
  PROVE  LET h == Readied(g, t)
         IN  /\ GpuShape(h) /\ SameBut(g, h, {t.src}, {t.sur})
             /\ SourceAgrees(h, t.src) /\ SurfaceAgrees(h, t.sur)
             /\ h.ring.sources[t.src].state = "free" /\ Written(h, t)
             /\ Freed(g.ring.sources, t.src) = h.ring.sources
<1> DEFINE h == Readied(g, t)
           A == Freed(g.ring.sources, t.src)
           b == [g.ring.surfaces[t.sur] EXCEPT !.state = "ready_to_submit"]
           q == Completed4(g.ring, t)
           c == [g.sur[t.sur] EXCEPT !.waited = TRUE]
<1>1. t.src \in Sources /\ t.sur \in Surfaces
  BY TicketFields
<1>2. /\ g.ring \in RingSet
      /\ g.ring.sources \in [Sources -> SourceSet] /\ g.ring.surfaces \in [Surfaces -> SurfaceSet]
      /\ g.src \in [Sources -> BOOLEAN] /\ g.sur \in [Surfaces -> UsedSet]
  BY GpuFields DEF GpuShape
<1>3. /\ A \in [Sources -> SourceSet] /\ \A i \in Sources \ {t.src} : A[i] = g.ring.sources[i]
      /\ A[t.src].state = "free" /\ A[t.src].range = g.ring.sources[t.src].range
  BY <1>1, <1>2, FreedSource
<1>4. /\ b \in SurfaceSet /\ b.state = "ready_to_submit"
      /\ b.frame = g.ring.surfaces[t.sur].frame /\ b.range = g.ring.surfaces[t.sur].range
  BY <1>1, <1>2 DEF SurfaceSet, SurfaceStates
<1>5. c \in UsedSet /\ c.used = g.sur[t.sur].used /\ c.waited = TRUE /\ c.frame = g.sur[t.sur].frame
  BY <1>1, <1>2 DEF UsedSet
<1>6. /\ q.sources = A /\ q.surfaces = [g.ring.surfaces EXCEPT ![t.sur] = b] /\ q.open = g.ring.open
  BY <1>2 DEF Completed4, RingSet
<1>7. q \in RingSet
  <2> HIDE DEF A, b
  <2>1. [g.ring.surfaces EXCEPT ![t.sur] = b] \in [Surfaces -> SurfaceSet]
    BY <1>1, <1>2, <1>4
  <2>2. q = [g.ring EXCEPT !.sources = A, !.surfaces = [g.ring.surfaces EXCEPT ![t.sur] = b]]
    BY DEF Completed4, A, b
  <2> QED  BY <1>2, <1>3, <2>1, <2>2 DEF RingSet
<1> HIDE DEF q, A, b
<1>8. /\ h.ring = q /\ h.src = [g.src EXCEPT ![t.src] = FALSE] /\ h.sur = [g.sur EXCEPT ![t.sur] = c]
  BY <1>1, <1>2 DEF Readied, GpuShape, q
<1>9. GpuShape(h)
  BY <1>1, <1>2, <1>5, <1>7 DEF Readied, GpuShape, q
<1> HIDE DEF h, c
<1>10. SameBut(g, h, {t.src}, {t.sur})
  BY <1>2, <1>3, <1>6, <1>8 DEF SameBut
<1>11. h.src[t.src] = FALSE /\ h.sur[t.sur] = c /\ h.ring.surfaces[t.sur] = b /\ h.ring.sources = A
  BY <1>1, <1>2, <1>6, <1>8
<1>12. SourceAgrees(h, t.src)
  BY <1>3, <1>11 DEF SourceAgrees
<1>13. SurfaceAgrees(h, t.sur)
  BY <1>4, <1>5, <1>11 DEF SurfaceAgrees, Uploading, SurfaceIs
<1>14. Written(h, t)
  BY <1>4, <1>5, <1>11 DEF Written, Uploading, SurfaceIs
<1> QED  BY <1>3, <1>9, <1>10, <1>11, <1>12, <1>13, <1>14 DEF h, A

(* The state of a surface in use changes, to another in use. *)
LEMMA MarkedSurface ==
  ASSUME NEW g, GpuShape(g), NEW k \in Surfaces, NEW s \in SurfaceStates, s # "free",
         SurfaceAgrees(g, k), g.ring.surfaces[k].state # "free"
  PROVE  LET h == [g EXCEPT !.ring.surfaces[k].state = s]
         IN  /\ GpuShape(h) /\ SameBut(g, h, {}, {k}) /\ SurfaceAgrees(h, k)
             /\ h.ring.surfaces[k].state = s /\ h.ring.surfaces[k].frame = g.ring.surfaces[k].frame
             /\ h.sur[k] = g.sur[k]
<1> DEFINE h == [g EXCEPT !.ring.surfaces[k].state = s]
           b == [g.ring.surfaces[k] EXCEPT !.state = s]
           q == [g.ring EXCEPT !.surfaces = [@ EXCEPT ![k] = b]]
<1>1. /\ g.ring \in RingSet
      /\ g.ring.sources \in [Sources -> SourceSet] /\ g.ring.surfaces \in [Surfaces -> SurfaceSet]
  BY GpuFields DEF GpuShape
<1>2. /\ b \in SurfaceSet /\ b.state = s
      /\ b.frame = g.ring.surfaces[k].frame /\ b.range = g.ring.surfaces[k].range
  BY <1>1 DEF SurfaceSet
<1> HIDE DEF b
<1>3. q \in RingSet /\ q.sources = g.ring.sources /\ q.surfaces = [g.ring.surfaces EXCEPT ![k] = b]
  BY <1>1, <1>2 DEF RingSet
<1>4. h = [g EXCEPT !.ring = q]
  BY DEF b
<1> HIDE DEF q, h
<1>5. GpuShape(h) /\ h.ring = q /\ h.src = g.src /\ h.sur = g.sur
  BY <1>3, <1>4 DEF GpuShape
<1>6. SameBut(g, h, {}, {k}) /\ h.ring.surfaces[k] = b
  BY <1>1, <1>3, <1>5 DEF SameBut
<1>7. SurfaceAgrees(h, k)
  BY <1>2, <1>5, <1>6 DEF SurfaceAgrees
<1> QED  BY <1>2, <1>5, <1>6, <1>7 DEF h

IdleAt(h, k) == h.ring.surfaces[k].state = "free" /\ SurfaceAgrees(h, k)

LEMMA IdleIsUsedSet == IdleSurface \in UsedSet /\ IdleSurface.used = FALSE
BY Bounds DEF IdleSurface, UsedSet

LEMMA ReleasedSurface ==
  ASSUME NEW g, GpuShape(g), NEW t \in TicketSet, SurfaceAgrees(g, t.sur)
  PROVE  LET h == ReleaseTicket(g, t)
         IN  GpuShape(h) /\ SameBut(g, h, {}, {t.sur}) /\ IdleAt(h, t.sur)
<1> DEFINE h == ReleaseTicket(g, t)
           B == Freed(g.ring.surfaces, t.sur)
           q == [g.ring EXCEPT !.surfaces = B]
<1>1. /\ g.ring \in RingSet /\ g.sur \in [Surfaces -> UsedSet]
      /\ g.ring.sources \in [Sources -> SourceSet] /\ g.ring.surfaces \in [Surfaces -> SurfaceSet]
      /\ t.sur \in Surfaces
  BY GpuFields, TicketFields DEF GpuShape
<1>2. /\ B \in [Surfaces -> SurfaceSet] /\ \A k \in Surfaces \ {t.sur} : B[k] = g.ring.surfaces[k]
      /\ B[t.sur].state = "free" /\ B[t.sur].range = g.ring.surfaces[t.sur].range
  BY <1>1, FreedSurface
<1> HIDE DEF B
<1>3. q \in RingSet /\ q.sources = g.ring.sources /\ q.surfaces = B
  BY <1>1, <1>2 DEF RingSet
<1>4. h = [g EXCEPT !.ring = q, !.sur = [@ EXCEPT ![t.sur] = IdleSurface]]
  BY DEF ReleaseTicket, B
<1> HIDE DEF q, h
<1>5. GpuShape(h) /\ h.ring = q /\ h.src = g.src /\ h.sur = [g.sur EXCEPT ![t.sur] = IdleSurface]
  BY <1>1, <1>3, <1>4, IdleIsUsedSet DEF GpuShape
<1>6. SameBut(g, h, {}, {t.sur}) /\ h.sur[t.sur] = IdleSurface
  BY <1>1, <1>2, <1>3, <1>5 DEF SameBut
<1>7. IdleAt(h, t.sur)
  BY <1>2, <1>3, <1>5, <1>6, IdleIsUsedSet DEF SurfaceAgrees, IdleAt
<1> QED  BY <1>5, <1>6, <1>7 DEF h

(* abort of a ticket that owns its surface, but no source any more. *)
LEMMA AbortedTicket ==
  ASSUME NEW g, GpuShape(g), NEW t \in TicketSet, SurfaceAgrees(g, t.sur),
         Owns(g.ring.surfaces[t.sur], t), ~Owns(g.ring.sources[t.src], t)
  PROVE  LET h == AbortTicket(g, t)
         IN  GpuShape(h) /\ SameBut(g, h, {}, {t.sur}) /\ IdleAt(h, t.sur)
<1> DEFINE h == AbortTicket(g, t)
           q == AbortOwned(g.ring, t)
<1>1. /\ g.ring \in RingSet /\ g.sur \in [Surfaces -> UsedSet] /\ t.sur \in Surfaces
  BY GpuFields, TicketFields DEF GpuShape
<1>2. /\ q \in RingSet /\ q.sources = g.ring.sources
      /\ \A k \in Surfaces \ {t.sur} : q.surfaces[k] = g.ring.surfaces[k]
      /\ q.surfaces[t.sur].state = "free" /\ q.surfaces[t.sur].range = g.ring.surfaces[t.sur].range
  BY <1>1, AbortOwnedSlots
<1>3. h = [g EXCEPT !.ring = q, !.sur = [@ EXCEPT ![t.sur] = IdleSurface]]
  BY DEF AbortTicket
<1> HIDE DEF q, h
<1>5. GpuShape(h) /\ h.ring = q /\ h.src = g.src /\ h.sur = [g.sur EXCEPT ![t.sur] = IdleSurface]
  BY <1>1, <1>2, <1>3, IdleIsUsedSet DEF GpuShape
<1>6. SameBut(g, h, {}, {t.sur}) /\ h.sur[t.sur] = IdleSurface
  BY <1>1, <1>2, <1>5 DEF SameBut
<1>7. IdleAt(h, t.sur)
  BY <1>2, <1>5, <1>6, IdleIsUsedSet DEF SurfaceAgrees, IdleAt
<1> QED  BY <1>5, <1>6, <1>7 DEF h

LEMMA ClosedAdmission ==
  ASSUME NEW g, GpuShape(g)
  PROVE  LET h == CloseAdmission(g) IN GpuShape(h) /\ SameBut(g, h, {}, {})
BY DEF CloseAdmission, GpuShape, RingSet, SameBut

(* wait fails: both slots are given back, whichever call failed. *)
LEMMA FailedWait ==
  ASSUME NEW g, GpuShape(g), NEW t \in TicketSet, Uploading(g, t),
         SourceAgrees(g, t.src), SurfaceAgrees(g, t.sur), NEW outcome \in {"cuda_fails", "debug_fails"}
  PROVE  LET h == Waited(g, t, outcome)
         IN  /\ GpuShape(h) /\ SameBut(g, h, {t.src}, {t.sur})
             /\ SourceAgrees(h, t.src) /\ SurfaceAgrees(h, t.sur)
             /\ h.ring.sources[t.src].state = "free" /\ h.ring.surfaces[t.sur].state = "free"
<1>1. CASE outcome = "cuda_fails"
  <2>1. Waited(g, t, outcome) = AfterCudaFailure(g, t, t.src, t.sur)
    BY <1>1 DEF Waited
  <2> QED  BY <2>1, FailureFrees
<1>2. CASE outcome = "debug_fails"
  <2> DEFINE m == Readied(g, t)
             q == AbortOwned(m.ring, t)
             c == [m.sur[t.sur] EXCEPT !.used = FALSE]
             h == [m EXCEPT !.ring = AbortOwned(@, t), !.sur[t.sur].used = FALSE, !.ready = FALSE]
  <2>1. OwnershipCompletes(g.ring, t)
    BY DEF OwnershipCompletes, Uploading
  <2>2. Waited(g, t, outcome) = h
    BY <1>2, <2>1 DEF Waited, Readied
  <2>3. /\ GpuShape(m) /\ SameBut(g, m, {t.src}, {t.sur})
        /\ SourceAgrees(m, t.src) /\ SurfaceAgrees(m, t.sur)
        /\ m.ring.sources[t.src].state = "free" /\ Written(m, t)
    BY ReadiedSlots
  <2> HIDE DEF m
  <2>4. /\ m.ring \in RingSet /\ m.sur \in [Surfaces -> UsedSet] /\ m.src \in [Sources -> BOOLEAN]
        /\ t.sur \in Surfaces /\ t.src \in Sources
    BY <2>3, GpuFields, TicketFields DEF GpuShape
  <2>5. ~Owns(m.ring.sources[t.src], t) /\ Owns(m.ring.surfaces[t.sur], t)
    BY <2>3 DEF Owns, Written, SurfaceIs
  <2>6. /\ q \in RingSet /\ q.sources = m.ring.sources
        /\ \A k \in Surfaces \ {t.sur} : q.surfaces[k] = m.ring.surfaces[k]
        /\ q.surfaces[t.sur].state = "free" /\ q.surfaces[t.sur].range = m.ring.surfaces[t.sur].range
    BY <2>4, <2>5, AbortOwnedSlots
  <2>7. c \in UsedSet /\ c.used = FALSE
    BY <2>4 DEF UsedSet
  <2> HIDE DEF q
  <2>8. h.ring = q /\ h.src = m.src /\ h.sur = [m.sur EXCEPT ![t.sur] = c]
    BY <2>3, <2>4 DEF GpuShape, q
  <2>9. GpuShape(h)
    BY <2>3, <2>4, <2>6, <2>7 DEF GpuShape, q
  <2> HIDE DEF h, c
  <2>10. SameBut(g, h, {t.src}, {t.sur})
    BY <2>3, <2>4, <2>6, <2>8 DEF SameBut
  <2>11. h.sur[t.sur] = c
    BY <2>4, <2>8
  <2>12. SourceAgrees(h, t.src)
    BY <2>3, <2>6, <2>8 DEF SourceAgrees
  <2>13. SurfaceAgrees(h, t.sur)
    BY <2>3, <2>6, <2>7, <2>8, <2>11 DEF SurfaceAgrees
  <2> QED  BY <2>2, <2>3, <2>6, <2>8, <2>9, <2>10, <2>12, <2>13
<1> QED  BY <1>1, <1>2

(* abort of every input: a surface goes back exactly if its input owns it. *)
LEMMA AbortedTickets ==
  ASSUME NEW g, GpuShape(g), NEW T \in SUBSET TicketSet,
         \A k \in Surfaces : SurfaceAgrees(g, k),
         \A t \in T : ~Owns(g.ring.sources[t.src], t)
  PROVE  LET h == AllAborted(g, T)
             K == {k \in Surfaces : \E t \in T : t.sur = k /\ Owns(g.ring.surfaces[k], t)}
         IN  GpuShape(h) /\ SameBut(g, h, {}, K) /\ \A k \in K : IdleAt(h, k)
<1> DEFINE h == AllAborted(g, T)
           K == {k \in Surfaces : \E t \in T : t.sur = k /\ Owns(g.ring.surfaces[k], t)}
           A == g.ring.sources
           B == [k \in Surfaces |-> IF k \in K THEN Freed(g.ring.surfaces, k)[k] ELSE g.ring.surfaces[k]]
           C == [k \in Surfaces |-> IF k \in K THEN IdleSurface ELSE g.sur[k]]
           q == [g.ring EXCEPT !.sources = A, !.surfaces = B]
<1>1. /\ g.ring \in RingSet /\ g.sur \in [Surfaces -> UsedSet]
      /\ g.ring.sources \in [Sources -> SourceSet] /\ g.ring.surfaces \in [Surfaces -> SurfaceSet]
      /\ DOMAIN g.ring.sources = Sources /\ DOMAIN g.ring.surfaces = Surfaces /\ DOMAIN g.sur = Surfaces
  BY GpuFields DEF GpuShape
<1>2. B \in [Surfaces -> SurfaceSet] /\ C \in [Surfaces -> UsedSet]
  BY <1>1, FreedSurface, IdleIsUsedSet
<1>3. /\ \A k \in Surfaces \ K : B[k] = g.ring.surfaces[k] /\ C[k] = g.sur[k]
      /\ \A k \in K : /\ B[k].state = "free" /\ B[k].range = g.ring.surfaces[k].range
                      /\ C[k] = IdleSurface
  BY <1>1, FreedSurface
<1>4. AllAborted(g, T) = [g EXCEPT !.ring = q, !.sur = C]
  <2>1. \A i \in Sources : ~ \E t \in T : t.src = i /\ Owns(g.ring.sources[t.src], t)
    OBVIOUS
  <2>2. \A k \in Surfaces : (\E t \in T : t.sur = k /\ Owns(g.ring.surfaces[t.sur], t)) <=> k \in K
    OBVIOUS
  <2>3. \A k \in Surfaces :
          (\E t \in T : t.sur = k /\ (Owns(g.ring.sources[t.src], t) \/ Owns(g.ring.surfaces[t.sur], t)))
            <=> k \in K
    OBVIOUS
  <2>4. A = [i \in Sources |-> IF \E t \in T : t.src = i /\ Owns(g.ring.sources[t.src], t)
                                 THEN Freed(g.ring.sources, i)[i] ELSE g.ring.sources[i]]
    BY <1>1, <2>1
  <2>5. B = [k \in Surfaces |-> IF \E t \in T : t.sur = k /\ Owns(g.ring.surfaces[t.sur], t)
                                  THEN Freed(g.ring.surfaces, k)[k] ELSE g.ring.surfaces[k]]
    BY <2>2
  <2>6. C = [k \in Surfaces |->
               IF \E t \in T : t.sur = k /\ (Owns(g.ring.sources[t.src], t) \/ Owns(g.ring.surfaces[t.sur], t))
                 THEN IdleSurface ELSE g.sur[k]]
    BY <2>3
  <2> HIDE DEF A, B, C, K
  <2> QED  BY <1>1, <2>4, <2>5, <2>6 DEF AllAborted
<1> HIDE DEF A, B, C, h
<1>5. q \in RingSet /\ q.sources = A /\ q.surfaces = B
  BY <1>1, <1>2 DEF RingSet, A
<1> HIDE DEF q
<1>6. GpuShape(h) /\ h.ring = q /\ h.src = g.src /\ h.sur = C
  BY <1>2, <1>4, <1>5 DEF GpuShape, h
<1>7. SameBut(g, h, {}, K)
  BY <1>3, <1>5, <1>6 DEF SameBut, A
<1>8. \A k \in K : IdleAt(h, k)
  BY <1>3, <1>5, <1>6, IdleIsUsedSet DEF IdleAt, SurfaceAgrees
<1> QED  BY <1>6, <1>7, <1>8 DEF h

LEMMA CleanedUpShape ==
  ASSUME NEW g, GpuShape(g)
  PROVE  GpuShape(CleanedUp(g))
<1> DEFINE gone(slots) == {i \in DOMAIN slots : \E k \in {j \in DOMAIN g.sur : g.sur[j].used} :
                             slots[i].state # "free" /\ slots[i].frame = g.sur[k].frame}
           swept(slots) == [i \in DOMAIN slots |-> IF i \in gone(slots) THEN Freed(slots, i)[i] ELSE slots[i]]
           A == swept(g.ring.sources)
           B == swept(g.ring.surfaces)
<1>1. /\ g.ring.sources \in [Sources -> SourceSet] /\ g.ring.surfaces \in [Surfaces -> SurfaceSet]
      /\ g.last \in 0 .. EncMaxFrames
  BY GpuFields
<1>2. A \in [Sources -> SourceSet] /\ B \in [Surfaces -> SurfaceSet]
  <2>1. DOMAIN g.ring.sources = Sources /\ DOMAIN g.ring.surfaces = Surfaces
    BY GpuFields
  <2>2. \A i \in Sources : Freed(g.ring.sources, i)[i] \in SourceSet /\ g.ring.sources[i] \in SourceSet
    BY <1>1, FreedSource
  <2>3. \A k \in Surfaces : Freed(g.ring.surfaces, k)[k] \in SurfaceSet /\ g.ring.surfaces[k] \in SurfaceSet
    BY <1>1, FreedSurface
  <2> HIDE DEF gone
  <2> QED  BY <2>1, <2>2, <2>3
<1>3. CleanedUp(g) = [NewGpu EXCEPT !.ready = FALSE,
                        !.ring = [sources |-> A, surfaces |-> B, open |-> FALSE], !.last = g.last]
  BY DEF CleanedUp
<1> HIDE DEF A, B
<1>4. [sources |-> A, surfaces |-> B, open |-> FALSE] \in RingSet
  BY <1>2 DEF RingSet
<1> DEFINE q == [sources |-> A, surfaces |-> B, open |-> FALSE]
           src == [i \in Sources |-> FALSE]
           sur == [k \in Surfaces |-> IdleSurface]
<1>5. CleanedUp(g) = [ring |-> q, src |-> src, sur |-> sur, ready |-> FALSE, last |-> g.last]
  BY <1>3 DEF NewGpu, Sources, Surfaces
<1>6. src \in [Sources -> BOOLEAN] /\ sur \in [Surfaces -> UsedSet]
  BY IdleIsUsedSet
<1> HIDE DEF q, src, sur
<1> QED  BY <1>1, <1>4, <1>5, <1>6 DEF GpuShape, q

-----------------------------------------------------------------------------
(* The owner's tickets and the inputs against the slots. *)

(* What a step leaves of the agreement, when it disturbs sources I and     *)
(* surfaces K only.                                                        *)
LEMMA Survives ==
  ASSUME NEW g, NEW h, NEW I, NEW K, SameBut(g, h, I, K),
         NEW F \in SUBSET TicketSet, NEW D \in SUBSET TicketSet, NEW inp, GpuInv(g, F, D, inp),
         NEW F2 \in SUBSET TicketSet, NEW D2 \in SUBSET TicketSet, NEW inp2,
         \A i \in Sources : i \in I => SourceAgrees(h, i) /\ SourceHeld(h, F2, i),
         \A k \in Surfaces : k \in K => SurfaceAgrees(h, k) /\ SurfaceHeld(h, F2, D2, inp2, k),
         \A t \in F2 : (t \in F /\ t.sur \notin K /\ t.src \notin I) \/ Uploading(h, t),
         \A t \in D2 : (t \in D /\ t.sur \notin K) \/ Written(h, t),
         \A t \in F : t \in F2 \/ (t.sur \in K /\ t.src \in I),
         \A t \in D : t \in D2 \/ t.sur \in K,
         \A k \in Surfaces : k \notin K => inp2[k] = inp[k]
  PROVE  GpuInv(h, F2, D2, inp2)
<1>1. \A i \in Sources : SourceAgrees(h, i)
  BY SameSlots DEF GpuInv
<1>2. \A k \in Surfaces : SurfaceAgrees(h, k)
  BY SameSlots DEF GpuInv
<1>3. \A i \in Sources : SourceHeld(h, F2, i)
  <2> SUFFICES ASSUME NEW i \in Sources, i \notin I PROVE SourceHeld(h, F2, i)
    OBVIOUS
  <2>1. h.ring.sources[i] = g.ring.sources[i] /\ SourceHeld(g, F, i)
    BY DEF SameBut, GpuInv
  <2> QED  BY <2>1 DEF SourceHeld
<1>4. \A k \in Surfaces : SurfaceHeld(h, F2, D2, inp2, k)
  <2> SUFFICES ASSUME NEW k \in Surfaces, k \notin K PROVE SurfaceHeld(h, F2, D2, inp2, k)
    OBVIOUS
  <2>1. h.ring.surfaces[k] = g.ring.surfaces[k] /\ SurfaceHeld(g, F, D, inp, k) /\ inp2[k] = inp[k]
    BY DEF SameBut, GpuInv
  <2> QED  BY <2>1 DEF SurfaceHeld
<1>5. \A t \in F2 : Uploading(h, t)
  BY SameTickets DEF GpuInv
<1>6. \A t \in D2 : Written(h, t)
  BY SameTickets DEF GpuInv
<1> QED  BY <1>1, <1>2, <1>3, <1>4, <1>5, <1>6 DEF GpuInv

(* No two tickets have a slot in common. *)
LEMMA Apart ==
  ASSUME NEW g, GpuShape(g), NEW F \in SUBSET TicketSet, NEW D \in SUBSET TicketSet, NEW inp, NEW next,
         GpuInv(g, F, D, inp), Ids(F, D, inp, next)
  PROVE  /\ \A t, u \in F \cup D : t.sur = u.sur => t = u
         /\ \A t, u \in F : t.src = u.src => t = u
         /\ \A t \in F \cup D : /\ g.ring.surfaces[t.sur].state # "free"
                                /\ g.ring.surfaces[t.sur].frame = t.frame
         /\ \A t \in D : ~Owns(g.ring.sources[t.src], t)
<1>1. \A t \in F \cup D : /\ g.ring.surfaces[t.sur].state # "free"
                          /\ g.ring.surfaces[t.sur].frame = t.frame
  BY DEF GpuInv, Uploading, Written, SurfaceIs
<1>2. \A t \in F : g.ring.sources[t.src].frame = t.frame
  BY DEF GpuInv, Uploading, SourceIs
<1>3. \A t, u \in F \cup D : t.frame = u.frame => t = u
  BY DEF Ids
<1>4. \A t \in D : ~Owns(g.ring.sources[t.src], t)
  <2> SUFFICES ASSUME NEW t \in D, Owns(g.ring.sources[t.src], t) PROVE FALSE
    OBVIOUS
  <2>1. SourceHeld(g, F, t.src)
    BY TicketFields DEF GpuInv
  <2>2. PICK u \in F : u.frame = t.frame
    BY <2>1 DEF SourceHeld, Owns
  <2> QED  BY <1>3, <2>2 DEF Ids
<1> QED  BY <1>1, <1>2, <1>3, <1>4

(* The surface of a ticket holds nothing but its frame. *)
Only(g, t) == g.ring.surfaces[t.sur].state = "free" \/ g.ring.surfaces[t.sur].frame = t.frame

LEMMA EnqueueKeeps ==
  ASSUME NEW g, GpuShape(g), NEW F \in SUBSET TicketSet, NEW D \in SUBSET TicketSet, NEW inp,
         NEW f \in 1 .. EncMaxFrames, GpuInv(g, F, D, inp), Ids(F, D, inp, f),
         NEW works \in BOOLEAN, EnqueueTicket(g, f) # NoTicket
  PROVE  LET t == EnqueueTicket(g, f)
             h == Enqueued(g, t, works)
         IN  /\ t \in TicketSet /\ t.frame = f /\ GpuShape(h)
             /\ SameBut(g, h, {t.src}, {t.sur})
             /\ g.ring.surfaces[t.sur].state = "free" /\ Only(h, t)
             /\ works => GpuInv(h, F \cup {t}, D, inp)
             /\ ~works => GpuInv(h, F, D, inp)
<1> DEFINE t == EnqueueTicket(g, f)
           m == Begun(g, t)
           h == Enqueued(g, t, works)
<1>1. (\A i \in Sources : SourceAgrees(g, i)) /\ \A k \in Surfaces : SurfaceAgrees(g, k)
  BY DEF GpuInv
<1>2. /\ t \in TicketSet /\ t.frame = f
      /\ t.src = Min(IdleSources(g)) /\ t.sur = Min(IdleSurfaces(g))
      /\ g.ring.sources[t.src].state = "free" /\ g.ring.surfaces[t.sur].state = "free"
  BY <1>1, EnqueueReserves
<1> HIDE DEF t
<1>3. /\ GpuShape(m) /\ SameBut(g, m, {t.src}, {t.sur}) /\ Uploading(m, t)
      /\ SourceAgrees(m, t.src) /\ SurfaceAgrees(m, t.sur)
  BY <1>2, BegunSlots
<1>4. h = IF works THEN [m EXCEPT !.last = t.frame] ELSE AfterCudaFailure(m, t, t.src, t.sur)
  BY <1>2 DEF Enqueued, Begun
<1> HIDE DEF m, h
<1>5. \A u \in F : u.sur # t.sur /\ u.src # t.src
  BY <1>2 DEF GpuInv, Uploading, SurfaceIs, SourceIs
<1>6. \A u \in D : u.sur # t.sur
  BY <1>2 DEF GpuInv, Written, SurfaceIs
<1>7. CASE works
  <2>1. GpuShape(h) /\ h.ring = m.ring /\ h.src = m.src /\ h.sur = m.sur
    BY <1>2, <1>3, <1>4, <1>7, TicketFields, Bounds DEF GpuShape
  <2>2. /\ SameBut(g, h, {t.src}, {t.sur}) /\ Uploading(h, t)
        /\ SourceAgrees(h, t.src) /\ SurfaceAgrees(h, t.sur)
    BY <1>3, <2>1 DEF SameBut, Uploading, SourceAgrees, SurfaceAgrees
  <2>3. SourceHeld(h, F \cup {t}, t.src) /\ SurfaceHeld(h, F \cup {t}, D, inp, t.sur)
    BY <2>2 DEF SourceHeld, SurfaceHeld, Uploading, SourceIs, SurfaceIs
  <2>4. GpuInv(h, F \cup {t}, D, inp)
    BY <1>2, <1>5, <1>6, <2>2, <2>3, Survives
  <2> QED  BY <1>2, <1>7, <2>1, <2>2, <2>4 DEF t, h, Only, Uploading, SurfaceIs
<1>8. CASE ~works
  <2>1. /\ GpuShape(h) /\ SameBut(m, h, {t.src}, {t.sur})
        /\ SourceAgrees(h, t.src) /\ SurfaceAgrees(h, t.sur)
        /\ h.ring.sources[t.src].state = "free" /\ h.ring.surfaces[t.sur].state = "free"
    BY <1>2, <1>3, <1>4, <1>8, FailureFrees
  <2>2. SameBut(g, h, {t.src}, {t.sur})
    BY <1>3, <2>1 DEF SameBut
  <2>3. SourceHeld(h, F, t.src) /\ SurfaceHeld(h, F, D, inp, t.sur)
    BY <2>1 DEF SourceHeld, SurfaceHeld
  <2>4. GpuInv(h, F, D, inp)
    BY <1>5, <1>6, <2>1, <2>2, <2>3, Survives
  <2> QED  BY <1>2, <1>8, <2>1, <2>2, <2>4 DEF t, h, Only
<1> QED  BY <1>7, <1>8

(* A frame being uploaded is always one that wait admits. *)
LEMMA WaitIsAdmitted ==
  ASSUME NEW g, NEW F, NEW D, NEW inp, GpuInv(g, F, D, inp), NEW t \in F, t \in TicketSet
  PROVE  WaitAdmits(g, t)
<1>1. Uploading(g, t) /\ SourceAgrees(g, t.src) /\ SurfaceAgrees(g, t.sur)
  BY TicketFields DEF GpuInv
<1>2. g.ring.sources[t.src].state # "free" /\ g.ring.surfaces[t.sur].state # "free"
  BY <1>1 DEF Uploading, SourceIs, SurfaceIs
<1> QED  BY <1>1, <1>2 DEF WaitAdmits, SourceAgrees, SurfaceAgrees, Uploading, SurfaceIs

LEMMA AwaitKeeps ==
  ASSUME NEW g, GpuShape(g), NEW F \in SUBSET TicketSet, NEW D \in SUBSET TicketSet, NEW inp,
         NEW next, GpuInv(g, F, D, inp), Ids(F, D, inp, next),
         NEW t \in F, NEW outcome \in WaitOutcomes
  PROVE  LET h == Waited(g, t, outcome)
         IN  /\ GpuShape(h) /\ SameBut(g, h, {t.src}, {t.sur}) /\ Only(h, t)
             /\ outcome = "ready" => GpuInv(h, F \ {t}, D \cup {t}, inp)
             /\ outcome # "ready" => GpuInv(h, F \ {t}, D, inp)
<1> DEFINE h == Waited(g, t, outcome)
<1>1. Uploading(g, t) /\ SourceAgrees(g, t.src) /\ SurfaceAgrees(g, t.sur)
  BY TicketFields DEF GpuInv
<1>a. /\ \A v, u \in F \cup D : v.sur = u.sur => v = u
      /\ \A v, u \in F : v.src = u.src => v = u
      /\ \A v \in F \cup D : /\ g.ring.surfaces[v.sur].state # "free"
                             /\ g.ring.surfaces[v.sur].frame = v.frame
      /\ \A v \in D : ~Owns(g.ring.sources[v.src], v)
  BY Apart
<1>2. /\ \A u \in F \ {t} : u.sur # t.sur /\ u.src # t.src
      /\ \A u \in D : u # t => u.sur # t.sur
  BY <1>a
<1>3. t \notin D
  BY DEF Ids
<1>4. CASE outcome = "ready"
  <2>1. OwnershipCompletes(g.ring, t)
    BY <1>1 DEF OwnershipCompletes, Uploading
  <2>2. h = Readied(g, t)
    BY <1>4, <2>1 DEF Waited, Readied
  <2>3. /\ GpuShape(h) /\ SameBut(g, h, {t.src}, {t.sur})
        /\ SourceAgrees(h, t.src) /\ SurfaceAgrees(h, t.sur)
        /\ h.ring.sources[t.src].state = "free" /\ Written(h, t)
    BY <1>1, <2>2, ReadiedSlots
  <2> HIDE DEF h
  <2>4. SourceHeld(h, F \ {t}, t.src) /\ SurfaceHeld(h, F \ {t}, D \cup {t}, inp, t.sur)
    BY <2>3 DEF SourceHeld, SurfaceHeld, Written, SurfaceIs
  <2>5. GpuInv(h, F \ {t}, D \cup {t}, inp)
    BY <1>2, <1>3, <2>3, <2>4, Survives
  <2> QED  BY <1>4, <2>3, <2>5 DEF h, Only, Written, SurfaceIs
<1>5. CASE outcome \in {"cuda_fails", "debug_fails"}
  <2>1. /\ GpuShape(h) /\ SameBut(g, h, {t.src}, {t.sur})
        /\ SourceAgrees(h, t.src) /\ SurfaceAgrees(h, t.sur)
        /\ h.ring.sources[t.src].state = "free" /\ h.ring.surfaces[t.sur].state = "free"
    BY <1>1, <1>5, FailedWait
  <2> HIDE DEF h
  <2>2. SourceHeld(h, F \ {t}, t.src) /\ SurfaceHeld(h, F \ {t}, D, inp, t.sur)
    BY <2>1 DEF SourceHeld, SurfaceHeld
  <2>3. GpuInv(h, F \ {t}, D, inp)
    BY <1>2, <1>3, <2>1, <2>2, Survives
  <2> QED  BY <1>5, <2>1, <2>3 DEF h, Only
<1> QED  BY <1>4, <1>5 DEF WaitOutcomes

LEMMA DropKeeps ==
  ASSUME NEW g, GpuShape(g), NEW F \in SUBSET TicketSet, NEW D \in SUBSET TicketSet, NEW inp,
         NEW next, GpuInv(g, F, D, inp), Ids(F, D, inp, next), NEW t \in D
  PROVE  LET h == AbortTicket(g, t)
         IN  GpuShape(h) /\ SameBut(g, h, {}, {t.sur}) /\ GpuInv(h, F, D \ {t}, inp)
<1> DEFINE h == AbortTicket(g, t)
<1>a. /\ \A v, u \in F \cup D : v.sur = u.sur => v = u
      /\ \A v, u \in F : v.src = u.src => v = u
      /\ \A v \in F \cup D : /\ g.ring.surfaces[v.sur].state # "free"
                             /\ g.ring.surfaces[v.sur].frame = v.frame
      /\ \A v \in D : ~Owns(g.ring.sources[v.src], v)
  BY Apart
<1>b. F \cap D = {}
  BY DEF Ids
<1>1. /\ \A u \in D \ {t} : u.sur # t.sur
      /\ \A u \in F : u.sur # t.sur
      /\ ~Owns(g.ring.sources[t.src], t)
      /\ Owns(g.ring.surfaces[t.sur], t)
  BY <1>a, <1>b DEF Owns
<1>2. SurfaceAgrees(g, t.sur)
  BY TicketFields DEF GpuInv
<1>3. GpuShape(h) /\ SameBut(g, h, {}, {t.sur}) /\ IdleAt(h, t.sur)
  BY <1>1, <1>2, AbortedTicket
<1> HIDE DEF h
<1>4. SurfaceAgrees(h, t.sur) /\ SurfaceHeld(h, F, D \ {t}, inp, t.sur)
  BY <1>3 DEF IdleAt, SurfaceHeld
<1>5. GpuInv(h, F, D \ {t}, inp)
  BY <1>1, <1>3, <1>4, Survives
<1> QED  BY <1>3, <1>5 DEF h

(* A ticket becomes the input of its slot, marked as submitted or not. *)
LEMMA TakeKeeps ==
  ASSUME NEW g, GpuShape(g), NEW F \in SUBSET TicketSet, NEW D \in SUBSET TicketSet,
         NEW inp \in [Surfaces -> TicketSet \cup {NoTicket}],
         NEW next, GpuInv(g, F, D, inp), Ids(F, D, inp, next), NEW t \in D, t.frame < next
  PROVE  LET inp2 == [inp EXCEPT ![t.sur] = t]
         IN  GpuInv(g, F, D \ {t}, inp2) /\ Ids(F, D \ {t}, inp2, next)
<1> DEFINE inp2 == [inp EXCEPT ![t.sur] = t]
<1>0. t.sur \in Surfaces /\ t # NoTicket
  BY TicketFields
<1>a. /\ \A v, u \in F \cup D : v.sur = u.sur => v = u
      /\ \A v, u \in F : v.src = u.src => v = u
      /\ \A v \in F \cup D : /\ g.ring.surfaces[v.sur].state # "free"
                             /\ g.ring.surfaces[v.sur].frame = v.frame
      /\ \A v \in D : ~Owns(g.ring.sources[v.src], v)
  BY Apart
<1>b. F \cap D = {}
  BY DEF Ids
<1>1. /\ \A u \in D \ {t} : u.sur # t.sur
      /\ \A u \in F : u.sur # t.sur
      /\ g.ring.surfaces[t.sur].frame = t.frame
  BY <1>a, <1>b
<1>2. inp2[t.sur] = t /\ \A k \in Surfaces \ {t.sur} : inp2[k] = inp[k]
  BY <1>0
<1> HIDE DEF inp2
<1>3. SameBut(g, g, {}, {t.sur})
  BY DEF SameBut
<1>4. SurfaceAgrees(g, t.sur) /\ SurfaceHeld(g, F, D \ {t}, inp2, t.sur)
  BY <1>0, <1>1, <1>2 DEF GpuInv, SurfaceHeld
<1>5. GpuInv(g, F, D \ {t}, inp2)
  BY <1>1, <1>2, <1>3, <1>4, Survives
<1>6. Ids(F, D \ {t}, inp2, next)
  BY <1>0, <1>2 DEF Ids
<1> QED  BY <1>5, <1>6 DEF inp2

(* The surface of an input changes its state. *)
Marked(g, k, s) == [g EXCEPT !.ring.surfaces[k].state = s]

LEMMA MarkKeeps ==
  ASSUME NEW g, GpuShape(g), NEW F \in SUBSET TicketSet, NEW D \in SUBSET TicketSet,
         NEW inp, NEW next, GpuInv(g, F, D, inp), Ids(F, D, inp, next),
         NEW k \in Surfaces, inp[k] # NoTicket, Owns(g.ring.surfaces[k], inp[k]),
         NEW s \in SurfaceStates, s # "free"
  PROVE  LET h == Marked(g, k, s)
         IN  /\ GpuShape(h) /\ SameBut(g, h, {}, {k}) /\ GpuInv(h, F, D, inp)
             /\ h.ring.surfaces[k].state = s /\ h.ring.surfaces[k].frame = g.ring.surfaces[k].frame
             /\ h.sur[k] = g.sur[k]
<1> DEFINE h == [g EXCEPT !.ring.surfaces[k].state = s]
<1>a. /\ \A v, u \in F \cup D : v.sur = u.sur => v = u
      /\ \A v, u \in F : v.src = u.src => v = u
      /\ \A v \in F \cup D : /\ g.ring.surfaces[v.sur].state # "free"
                             /\ g.ring.surfaces[v.sur].frame = v.frame
      /\ \A v \in D : ~Owns(g.ring.sources[v.src], v)
  BY Apart
<1>c. \A u \in F \cup D : \A j \in Surfaces : u.frame # inp[j].frame
  BY DEF Ids
<1>1. \A t \in F \cup D : t.sur # k
  BY <1>a, <1>c DEF Owns
<1>2. /\ GpuShape(h) /\ SameBut(g, h, {}, {k}) /\ SurfaceAgrees(h, k)
      /\ h.ring.surfaces[k].state = s /\ h.ring.surfaces[k].frame = g.ring.surfaces[k].frame
      /\ h.sur[k] = g.sur[k]
  BY MarkedSurface DEF Owns, GpuInv
<1> HIDE DEF h
<1>3. SurfaceHeld(h, F, D, inp, k)
  BY <1>2 DEF SurfaceHeld, Owns
<1>4. GpuInv(h, F, D, inp)
  BY <1>1, <1>2, <1>3, Survives
<1> QED  BY <1>2, <1>4 DEF h, Marked

LEMMA ReleaseKeeps ==
  ASSUME NEW g, GpuShape(g), NEW F \in SUBSET TicketSet, NEW D \in SUBSET TicketSet,
         NEW inp, NEW next, GpuInv(g, F, D, inp), Ids(F, D, inp, next),
         NEW t \in TicketSet, inp[t.sur] = t, Owns(g.ring.surfaces[t.sur], t)
  PROVE  LET h == ReleaseTicket(g, t)
         IN  GpuShape(h) /\ SameBut(g, h, {}, {t.sur}) /\ GpuInv(h, F, D, inp) /\ IdleAt(h, t.sur)
<1> DEFINE h == ReleaseTicket(g, t)
<1>0. t.sur \in Surfaces
  BY TicketFields
<1>a. /\ \A v, u \in F \cup D : v.sur = u.sur => v = u
      /\ \A v, u \in F : v.src = u.src => v = u
      /\ \A v \in F \cup D : /\ g.ring.surfaces[v.sur].state # "free"
                             /\ g.ring.surfaces[v.sur].frame = v.frame
      /\ \A v \in D : ~Owns(g.ring.sources[v.src], v)
  BY Apart
<1>c. \A u \in F \cup D : \A j \in Surfaces : u.frame # inp[j].frame
  BY DEF Ids
<1>1. \A u \in F \cup D : u.sur # t.sur
  BY <1>0, <1>a, <1>c DEF Owns
<1>2. GpuShape(h) /\ SameBut(g, h, {}, {t.sur}) /\ IdleAt(h, t.sur)
  BY <1>0, ReleasedSurface DEF GpuInv
<1> HIDE DEF h
<1>3. SurfaceAgrees(h, t.sur) /\ SurfaceHeld(h, F, D, inp, t.sur)
  BY <1>2 DEF IdleAt, SurfaceHeld
<1>4. GpuInv(h, F, D, inp)
  BY <1>1, <1>2, <1>3, Survives
<1> QED  BY <1>2, <1>4 DEF h, Marked

(* An input whose surface is not its any more is forgotten. *)
LEMMA ClearKeeps ==
  ASSUME NEW g, GpuShape(g), NEW F \in SUBSET TicketSet, NEW D \in SUBSET TicketSet,
         NEW inp \in [Surfaces -> TicketSet \cup {NoTicket}], NEW next \in Nat \ {0},
         GpuInv(g, F, D, inp), Ids(F, D, inp, next),
         NEW k \in Surfaces, ~Owns(g.ring.surfaces[k], inp[k])
  PROVE  LET inp2 == [inp EXCEPT ![k] = NoTicket]
         IN  GpuInv(g, F, D, inp2) /\ Ids(F, D, inp2, next)
<1> DEFINE inp2 == [inp EXCEPT ![k] = NoTicket]
<1>1. inp2[k] = NoTicket /\ \A j \in Surfaces \ {k} : inp2[j] = inp[j]
  OBVIOUS
<1> HIDE DEF inp2
<1>2. SameBut(g, g, {}, {})
  BY DEF SameBut
<1>3. \A j \in Surfaces : SurfaceHeld(g, F, D, inp2, j)
  BY <1>1 DEF SurfaceHeld, GpuInv, Owns
<1>4. GpuInv(g, F, D, inp2)
  BY <1>3 DEF GpuInv
<1>5. NoTicket.frame = 0
  BY DEF NoTicket
<1>6. \A t \in F \cup D : t.frame >= 1 /\ t.frame \in Nat
  BY TicketFields
<1>7. Ids(F, D, inp2, next)
  BY <1>1, <1>5, <1>6 DEF Ids
<1> QED  BY <1>4, <1>7 DEF inp2

(* Every input is aborted and forgotten. *)
LEMMA AbortKeeps ==
  ASSUME NEW g, GpuShape(g), NEW F \in SUBSET TicketSet, NEW D \in SUBSET TicketSet,
         NEW inp \in [Surfaces -> TicketSet \cup {NoTicket}], NEW next \in Nat \ {0},
         GpuInv(g, F, D, inp), Ids(F, D, inp, next)
  PROVE  LET h == AllAborted(g, {inp[k] : k \in Surfaces} \ {NoTicket})
             inp2 == [k \in Surfaces |-> NoTicket]
         IN  GpuShape(h) /\ GpuInv(h, F, D, inp2) /\ Ids(F, D, inp2, next)
<1> DEFINE T == {inp[k] : k \in Surfaces} \ {NoTicket}
           h == AllAborted(g, T)
           K == {k \in Surfaces : \E t \in T : t.sur = k /\ Owns(g.ring.surfaces[k], t)}
           inp2 == [k \in Surfaces |-> NoTicket]
<1>1. T \in SUBSET TicketSet
  OBVIOUS
<1>2. \A t \in T : \E k \in Surfaces : t = inp[k] /\ k = t.sur
  BY DEF Ids
<1>3. \A u \in F \cup D : \A j \in Surfaces : u.frame # inp[j].frame
  BY DEF Ids
<1> HIDE DEF T
<1>4. \A t \in T : ~Owns(g.ring.sources[t.src], t)
  <2> SUFFICES ASSUME NEW t \in T, Owns(g.ring.sources[t.src], t) PROVE FALSE
    OBVIOUS
  <2>1. SourceHeld(g, F, t.src)
    BY <1>1, TicketFields DEF GpuInv
  <2>2. PICK u \in F : u.frame = t.frame
    BY <2>1 DEF SourceHeld, Owns
  <2> QED  BY <1>2, <1>3, <2>2
<1>5. GpuShape(h) /\ SameBut(g, h, {}, K) /\ \A k \in K : IdleAt(h, k)
  BY <1>1, <1>4, AbortedTickets DEF GpuInv
<1>6. \A u \in F \cup D : /\ g.ring.surfaces[u.sur].state # "free"
                          /\ g.ring.surfaces[u.sur].frame = u.frame
  BY Apart
<1>7. \A u \in F \cup D : u.sur \notin K
  <2> SUFFICES ASSUME NEW u \in F \cup D, u.sur \in K PROVE FALSE
    OBVIOUS
  <2>1. PICK t \in T : t.sur = u.sur /\ Owns(g.ring.surfaces[u.sur], t)
    OBVIOUS
  <2> QED  BY <1>2, <1>3, <1>6, <2>1 DEF Owns
<1>8. \A k \in K : SurfaceAgrees(h, k) /\ SurfaceHeld(h, F, D, inp, k)
  BY <1>5 DEF IdleAt, SurfaceHeld
<1> HIDE DEF h
<1>9. GpuInv(h, F, D, inp)
  BY <1>5, <1>7, <1>8, Survives
<1>10. \A k \in Surfaces : SurfaceHeld(h, F, D, inp2, k)
  <2> SUFFICES ASSUME NEW k \in Surfaces, h.ring.surfaces[k].state # "free",
                      inp[k] # NoTicket, inp[k].frame = h.ring.surfaces[k].frame
               PROVE  FALSE
    BY <1>9 DEF SurfaceHeld, GpuInv
  <2>1. k \notin K
    BY <1>5 DEF IdleAt
  <2>2. h.ring.surfaces[k] = g.ring.surfaces[k]
    BY <1>5, <2>1 DEF SameBut
  <2>3. inp[k] \in T /\ inp[k].sur = k
    BY DEF T, Ids
  <2> QED  BY <2>1, <2>2, <2>3 DEF Owns
<1> HIDE DEF K
<1>11. GpuInv(h, F, D, inp2)
  BY <1>9, <1>10 DEF GpuInv
<1>12. \A t \in F \cup D : t.frame >= 1 /\ t.frame \in Nat
  BY TicketFields
<1>13. Ids(F, D, inp2, next)
  BY <1>12 DEF Ids, NoTicket
<1> QED  BY <1>5, <1>11, <1>13 DEF h, T

-----------------------------------------------------------------------------
(* The coordinator. *)

LEMMA EncFields ==
  ASSUME NEW e, EncShape(e)
  PROVE  /\ e.slot \in [Surfaces -> SubmissionSet] /\ e.fifo \in Seq(Surfaces)
         /\ e.input \in [Surfaces -> TicketSet \cup {NoTicket}] /\ e.mapped \in [Surfaces -> BOOLEAN]
         /\ e.fatal \in BOOLEAN /\ e.eos \in BOOLEAN
         /\ DOMAIN e.slot = Surfaces /\ DOMAIN e.input = Surfaces /\ DOMAIN e.mapped = Surfaces
BY DEF EncShape

(* What EnterFatal makes of the slots. *)
FatalFrom(e, f) ==
  /\ f.fatal /\ f.input = e.input /\ f.mapped = e.mapped /\ f.eos = e.eos
  /\ \A k \in Surfaces :
       /\ f.slot[k].frame = e.slot[k].frame
       /\ e.slot[k].state \in {"free", "bitstream_locked"} => f.slot[k].state = e.slot[k].state
       /\ e.slot[k].state \notin {"free", "bitstream_locked"} => f.slot[k].state = "abort_pending"
  /\ \/ f.fifo = << >> /\ \A k \in Surfaces : e.slot[k].state # "bitstream_locked"
     \/ e.fifo # << >> /\ f.fifo = <<e.fifo[1]>> /\ e.slot[e.fifo[1]].state = "bitstream_locked"

LEMMA LockedIsHead ==
  ASSUME NEW e, EncShape(e), Queued(e), NEW k \in Surfaces, e.slot[k].state = "bitstream_locked"
  PROVE  e.fifo # << >> /\ Head(e.fifo) = k /\ e.fifo[1] = k
<1>1. PICK a \in 1 .. Len(e.fifo) : e.fifo[a] = k
  BY DEF Queued, Live
<1>2. a = 1
  BY <1>1 DEF Queued
<1>3. e.fifo \in Seq(Surfaces)
  BY EncFields
<1> QED  BY <1>1, <1>2, <1>3

LEMMA EnterFatalSlots ==
  ASSUME NEW e, EncShape(e), Queued(e)
  PROVE  EncShape(EnterFatal(e)) /\ FatalFrom(e, EnterFatal(e))
<1> DEFINE f == EnterFatal(e)
           held == e.fifo # << >> /\ e.slot[Head(e.fifo)].state = "bitstream_locked"
           fifo == IF held THEN <<Head(e.fifo)>> ELSE << >>
           slot == [k \in Surfaces |-> IF (held /\ Head(e.fifo) = k) \/ e.slot[k].state = "free" THEN e.slot[k]
                                       ELSE [e.slot[k] EXCEPT !.state = "abort_pending"]]
<1>1. /\ e.slot \in [Surfaces -> SubmissionSet] /\ e.fifo \in Seq(Surfaces) /\ DOMAIN e.slot = Surfaces
  BY EncFields
<1>2. slot \in [Surfaces -> SubmissionSet]
  BY <1>1 DEF SubmissionSet, SubmissionStates
<1>3. fifo \in Seq(Surfaces)
  BY <1>1
<1>4. f = [e EXCEPT !.fatal = TRUE, !.open = FALSE, !.fifo = fifo, !.slot = slot]
  BY <1>1 DEF EnterFatal
<1>5. \A k \in Surfaces : e.slot[k].state = "bitstream_locked" <=> held /\ Head(e.fifo) = k
  BY LockedIsHead
<1>6. \A k \in Surfaces :
       /\ slot[k].frame = e.slot[k].frame
       /\ e.slot[k].state \in {"free", "bitstream_locked"} => slot[k].state = e.slot[k].state
       /\ e.slot[k].state \notin {"free", "bitstream_locked"} => slot[k].state = "abort_pending"
  <2> HIDE DEF held
  <2> QED  BY <1>1, <1>5 DEF SubmissionSet
<1>7. \/ fifo = << >> /\ \A k \in Surfaces : e.slot[k].state # "bitstream_locked"
      \/ e.fifo # << >> /\ fifo = <<e.fifo[1]>> /\ e.slot[e.fifo[1]].state = "bitstream_locked"
  BY <1>1, <1>5
<1> HIDE DEF f, slot, fifo, held
<1>8. EncShape(f) /\ f.fatal = TRUE /\ f.slot = slot /\ f.fifo = fifo /\ f.input = e.input
      /\ f.mapped = e.mapped /\ f.eos = e.eos
  BY <1>2, <1>3, <1>4 DEF EncShape
<1> QED  BY <1>6, <1>7, <1>8 DEF f, FatalFrom

LEMMA FatalKeepsQueue ==
  ASSUME NEW e, EncShape(e), Queued(e), NEW f, EncShape(f), FatalFrom(e, f)
  PROVE  Queued(f)
<1>1. CASE f.fifo = << >> /\ \A k \in Surfaces : e.slot[k].state # "bitstream_locked"
  <2>1. Len(f.fifo) = 0
    BY <1>1
  <2>2. \A k \in Surfaces : f.slot[k].state \in {"free", "abort_pending"}
    BY <1>1 DEF FatalFrom
  <2> QED  BY <2>1, <2>2 DEF Queued, Live
<1>2. CASE /\ e.fifo # << >> /\ f.fifo = <<e.fifo[1]>>
           /\ e.slot[e.fifo[1]].state = "bitstream_locked"
  <2>0. e.fifo \in Seq(Surfaces) /\ e.fifo[1] \in Surfaces
    BY <1>2, EncFields
  <2>1. Len(f.fifo) = 1 /\ f.fifo[1] = e.fifo[1]
    BY <1>2
  <2>2. \A k \in Surfaces : f.slot[k].state \in {"free", "bitstream_locked", "abort_pending"}
    BY DEF FatalFrom
  <2>3. \A k \in Surfaces : f.slot[k].state = "bitstream_locked" <=> k = e.fifo[1]
    <3>1. \A k \in Surfaces : f.slot[k].state = "bitstream_locked" <=> e.slot[k].state = "bitstream_locked"
      BY DEF FatalFrom
    <3> QED  BY <1>2, <2>0, <3>1, LockedIsHead
  <2> QED  BY <2>0, <2>1, <2>2, <2>3 DEF Queued, Live
<1> QED  BY <1>1, <1>2 DEF FatalFrom

LEMMA FatalKeepsBusy ==
  ASSUME NEW e, EncShape(e), NEW f, EncShape(f), FatalFrom(e, f), NEW g, NEW w, Busy(g, e, w)
  PROVE  Busy(g, f, w)
<1>1. Queued(f)
  BY FatalKeepsQueue DEF Busy
<1>2. \A k \in Surfaces : f.slot[k].state = "bitstream_locked" <=> e.slot[k].state = "bitstream_locked"
  BY DEF FatalFrom
<1>3. f.input = e.input /\ f.mapped = e.mapped /\ f.eos = e.eos /\ f.fatal
  BY DEF FatalFrom
<1>4. WorkInv(f, w)
  <2>1. w.at \in Working => w.ticket.sur \in Surfaces
    BY TicketFields DEF Busy, WorkInv
  <2> QED  BY <1>2, <1>3, <2>1 DEF Busy, WorkInv
<1>5. InputInv(f)
  BY <1>3 DEF FatalFrom, InputInv, Busy
<1>6. Link(g, f, w)
  <2> SUFFICES ASSUME NEW k \in Surfaces, f.input[k] # NoTicket PROVE Place(g, f, w, k)
    BY DEF Link
  <2>1. Place(g, e, w, k)
    BY <1>3 DEF Busy, Link
  <2>2. e.slot[k].state \in SubmissionStates
    BY EncFields DEF SubmissionSet
  <2> QED  BY <1>3, <2>1, <2>2 DEF Place, FatalFrom, Live, SubmissionStates
<1> QED  BY <1>1, <1>4, <1>5, <1>6 DEF Busy

LEMMA FatalKeepsOwner ==
  ASSUME NEW e, EncShape(e), NEW f, FatalFrom(e, f), NEW o, OwnerShape(o), OwnerInv(e, o)
  PROVE  OwnerInv(f, o)
<1> SUFFICES ASSUME o.at = "retry"
             PROVE  /\ o.ticket # NoTicket /\ f.input[o.ticket.sur] = o.ticket
                    /\ f.slot[o.ticket.sur].state = "abort_pending"
  BY DEF OwnerInv, FatalFrom
<1>1. o.ticket # NoTicket /\ e.input[o.ticket.sur] = o.ticket
      /\ e.slot[o.ticket.sur].state \in {"submit_retry_pending", "abort_pending"}
  BY DEF OwnerInv
<1>2. o.ticket.sur \in Surfaces
  BY <1>1, TicketFields DEF OwnerShape
<1> QED  BY <1>1, <1>2 DEF FatalFrom

LEMMA FatalKeepsOrder ==
  ASSUME NEW e, EncShape(e), NEW f, EncShape(f), FatalFrom(e, f),
         NEW w, NEW acc, NEW out, OrderInv(e, w, acc, out)
  PROVE  OrderInv(f, w, acc, out)
<1>0. e.fifo \in Seq(Surfaces) /\ Len(e.fifo) \in Nat /\ Len(acc) \in Nat /\ Len(out) \in Nat
  BY EncFields DEF OrderInv
<1>1. Handed(w) \in Nat
  BY DEF Handed
<1>2. CASE f.fifo = << >>
  <2>1. Len(f.fifo) = 0
    BY <1>2
  <2>2. Len(out) + Handed(w) + 0 <= Len(acc)
    BY <1>0, <1>1 DEF OrderInv
  <2> QED  BY <1>0, <2>1, <2>2 DEF OrderInv, FatalFrom
<1>3. CASE e.fifo # << >> /\ f.fifo = <<e.fifo[1]>>
  <2>1. Len(f.fifo) = 1 /\ f.fifo[1] = e.fifo[1] /\ e.fifo[1] \in Surfaces /\ Len(e.fifo) >= 1
    BY <1>0, <1>3
  <2>2. Len(out) + Handed(w) + 1 <= Len(acc)
    BY <1>0, <1>1, <2>1 DEF OrderInv
  <2>3. f.slot[e.fifo[1]].frame = acc[Len(out) + Handed(w) + 1]
    BY <1>0, <2>1 DEF OrderInv, FatalFrom
  <2>4. f.fatal
    BY DEF FatalFrom
  <2> QED  BY <2>1, <2>2, <2>3, <2>4 DEF OrderInv
<1> QED  BY <1>2, <1>3 DEF FatalFrom

(* FailLocked, whether the encoder has failed already or not. *)
LEMMA FailureKeeps ==
  ASSUME NEW e, EncShape(e), NEW g, NEW w, Busy(g, e, w)
  PROVE  LET f == FailLocked(e)
         IN  /\ EncShape(f) /\ Busy(g, f, w) /\ f.fatal /\ f.input = e.input
             /\ \A o : OwnerShape(o) /\ OwnerInv(e, o) => OwnerInv(f, o)
             /\ \A acc, out : OrderInv(e, w, acc, out) => OrderInv(f, w, acc, out)
<1> DEFINE f == FailLocked(e)
<1>1. CASE e.fatal
  BY <1>1 DEF FailLocked
<1>2. CASE ~e.fatal
  <2>1. f = EnterFatal(e)
    BY <1>2 DEF FailLocked
  <2>2. EncShape(f) /\ FatalFrom(e, f)
    BY <2>1, EnterFatalSlots DEF Busy
  <2> HIDE DEF f
  <2>3. Busy(g, f, w)
    BY <2>2, FatalKeepsBusy
  <2>4. \A o : OwnerShape(o) /\ OwnerInv(e, o) => OwnerInv(f, o)
    BY <2>2, FatalKeepsOwner
  <2>5. \A acc, out : OrderInv(e, w, acc, out) => OrderInv(f, w, acc, out)
    BY <2>2, FatalKeepsOrder
  <2>6. f.fatal /\ f.input = e.input
    BY <2>2 DEF FatalFrom
  <2> QED  BY <2>2, <2>3, <2>4, <2>5, <2>6 DEF f
<1> QED  BY <1>1, <1>2

-----------------------------------------------------------------------------
(* MakeHeadLockable and WithFifoReady: nothing is submitted or completed.  *)
Refreshed(e, f) ==
  /\ f.fifo = e.fifo /\ f.input = e.input /\ f.mapped = e.mapped /\ f.fatal = e.fatal
  /\ e.eos => f.eos
  /\ \A k \in Surfaces :
       /\ f.slot[k].frame = e.slot[k].frame
       /\ \/ f.slot[k].state = e.slot[k].state
          \/ {f.slot[k].state, e.slot[k].state} \subseteq {"submitted_pending_output", "bitstream_lockable"}

LEMMA MadeLockable ==
  ASSUME NEW e, EncShape(e)
  PROVE  EncShape(MakeHeadLockable(e)) /\ Refreshed(e, MakeHeadLockable(e))
<1>1. e.slot \in [Surfaces -> SubmissionSet] /\ e.fifo \in Seq(Surfaces)
  BY EncFields
<1>2. CASE MakeHeadLockable(e) = e
  BY <1>2 DEF Refreshed
<1>3. CASE MakeHeadLockable(e) # e
  <2> DEFINE k == Head(e.fifo)
             b == [e.slot[k] EXCEPT !.state = "bitstream_lockable"]
             f == [e EXCEPT !.slot = [@ EXCEPT ![k] = b]]
  <2>1. /\ e.fifo # << >> /\ e.slot[k].state = "submitted_pending_output" /\ MakeHeadLockable(e) = f
    BY <1>3 DEF MakeHeadLockable
  <2>2. k \in Surfaces
    BY <1>1, <2>1
  <2>3. b \in SubmissionSet /\ b.frame = e.slot[k].frame /\ b.state = "bitstream_lockable"
    BY <1>1, <2>2 DEF SubmissionSet, SubmissionStates
  <2> HIDE DEF b, k
  <2>4. /\ EncShape(f) /\ f.slot = [e.slot EXCEPT ![k] = b]
        /\ f.fifo = e.fifo /\ f.input = e.input /\ f.mapped = e.mapped /\ f.fatal = e.fatal /\ f.eos = e.eos
    BY <1>1, <2>2, <2>3 DEF EncShape
  <2> HIDE DEF f
  <2>5. Refreshed(e, f)
    BY <1>1, <2>1, <2>2, <2>3, <2>4 DEF Refreshed
  <2> QED  BY <2>1, <2>4, <2>5
<1> QED  BY <1>2, <1>3

LEMMA MadeReady ==
  ASSUME NEW e, EncShape(e)
  PROVE  EncShape(WithFifoReady(e)) /\ Refreshed(e, WithFifoReady(e))
<1> DEFINE slot == [k \in Surfaces |-> IF k \in ToSet(e.fifo) THEN [e.slot[k] EXCEPT !.ready = TRUE]
                                       ELSE e.slot[k]]
           f == [e EXCEPT !.slot = slot]
<1>1. e.slot \in [Surfaces -> SubmissionSet] /\ DOMAIN e.slot = Surfaces
  BY EncFields
<1>2. WithFifoReady(e) = f
  BY <1>1 DEF WithFifoReady
<1>3. slot \in [Surfaces -> SubmissionSet]
  BY <1>1 DEF SubmissionSet
<1>4. \A k \in Surfaces : slot[k].frame = e.slot[k].frame /\ slot[k].state = e.slot[k].state
  BY <1>1 DEF SubmissionSet
<1> HIDE DEF slot
<1>5. /\ EncShape(f) /\ f.slot = slot
      /\ f.fifo = e.fifo /\ f.input = e.input /\ f.mapped = e.mapped /\ f.fatal = e.fatal /\ f.eos = e.eos
  BY <1>3 DEF EncShape
<1> HIDE DEF f
<1>6. Refreshed(e, f)
  BY <1>4, <1>5 DEF Refreshed
<1> QED  BY <1>2, <1>5, <1>6

LEMMA RefreshedTwice ==
  ASSUME NEW e, NEW f, NEW d, Refreshed(e, f), Refreshed(f, d)
  PROVE  Refreshed(e, d)
BY DEF Refreshed

LEMMA RefreshedKeepsBusy ==
  ASSUME NEW e, EncShape(e), NEW f, EncShape(f), Refreshed(e, f), NEW g, NEW w, Busy(g, e, w)
  PROVE  Busy(g, f, w)
<1>0. e.fifo \in Seq(Surfaces) /\ \A a \in 1 .. Len(e.fifo) : e.fifo[a] \in Surfaces
  BY EncFields
<1>1. /\ f.fifo = e.fifo /\ f.input = e.input /\ f.mapped = e.mapped /\ f.fatal = e.fatal
      /\ e.eos => f.eos
  BY DEF Refreshed
<1>2. \A k \in Surfaces : /\ f.slot[k].state \in Live <=> e.slot[k].state \in Live
                          /\ f.slot[k].state \notin Live => f.slot[k].state = e.slot[k].state
                          /\ f.slot[k].state = "bitstream_locked" <=> e.slot[k].state = "bitstream_locked"
                          /\ f.slot[k].frame = e.slot[k].frame
  BY DEF Refreshed, Live
<1>3. Queued(f)
  BY <1>0, <1>1, <1>2 DEF Queued, Busy, Live
<1>4. WorkInv(f, w)
  <2>1. w.at \in Working => w.ticket.sur \in Surfaces
    BY TicketFields DEF Busy, WorkInv
  <2>2. \A k \in Surfaces : f.slot[k].state = "free" <=> e.slot[k].state = "free"
    BY <1>2 DEF Live
  <2> HIDE DEF Live
  <2> QED  BY <1>1, <1>2, <2>1, <2>2 DEF WorkInv, Busy
<1>5. InputInv(f)
  BY <1>1, <1>2 DEF InputInv, Busy, Live
<1>6. Link(g, f, w)
  BY <1>1, <1>2 DEF Link, Place, Busy, Live
<1> QED  BY <1>3, <1>4, <1>5, <1>6 DEF Busy

LEMMA RefreshedKeepsOrder ==
  ASSUME NEW e, EncShape(e), NEW f, Refreshed(e, f),
         NEW w, NEW acc, NEW out, OrderInv(e, w, acc, out)
  PROVE  OrderInv(f, w, acc, out)
<1>1. \A a \in 1 .. Len(e.fifo) : e.fifo[a] \in Surfaces
  BY EncFields
<1>2. \A a \in 1 .. Len(e.fifo) : f.slot[e.fifo[a]].frame = e.slot[e.fifo[a]].frame
  BY <1>1 DEF Refreshed
<1>3. f.fifo = e.fifo /\ f.fatal = e.fatal
  BY DEF Refreshed
<1> QED  BY <1>2, <1>3 DEF OrderInv

LEMMA RefreshedKeepsOwner ==
  ASSUME NEW e, NEW f, Refreshed(e, f), NEW o, OwnerShape(o), OwnerInv(e, o)
  PROVE  OwnerInv(f, o)
<1> SUFFICES ASSUME o.at = "retry"
             PROVE  /\ o.ticket # NoTicket /\ f.input[o.ticket.sur] = o.ticket
                    /\ f.slot[o.ticket.sur].state = e.slot[o.ticket.sur].state
  BY DEF OwnerInv, Refreshed
<1>1. o.ticket # NoTicket /\ e.input[o.ticket.sur] = o.ticket
      /\ e.slot[o.ticket.sur].state \in {"submit_retry_pending", "abort_pending"}
  BY DEF OwnerInv
<1>2. o.ticket.sur \in Surfaces
  BY <1>1, TicketFields DEF OwnerShape
<1> QED  BY <1>1, <1>2 DEF Refreshed

-----------------------------------------------------------------------------
(* A submission. *)

LEMMA FreshInput ==
  ASSUME NEW e, EncShape(e), NEW g, NEW w, Busy(g, e, w),
         NEW t \in TicketSet, e.input[t.sur] = NoTicket, Written(g, t)
  PROVE  LET f == [e EXCEPT !.input[t.sur] = t]
         IN  /\ EncShape(f) /\ Busy(g, f, w) /\ f.input = [e.input EXCEPT ![t.sur] = t]
             /\ f.fatal = e.fatal /\ f.eos = e.eos /\ f.input[t.sur] = t /\ f.slot[t.sur].state = "free"
             /\ \A acc, out : OrderInv(e, w, acc, out) => OrderInv(f, w, acc, out)
<1> DEFINE f == [e EXCEPT !.input[t.sur] = t]
<1>1. t.sur \in Surfaces /\ t # NoTicket
  BY TicketFields
<1>2. e.slot[t.sur].state = "free"
  BY <1>1 DEF Busy, InputInv
<1>3. /\ EncShape(f) /\ f.input = [e.input EXCEPT ![t.sur] = t]
      /\ f.slot = e.slot /\ f.fifo = e.fifo /\ f.mapped = e.mapped /\ f.fatal = e.fatal /\ f.eos = e.eos
  BY <1>1 DEF EncShape
<1> HIDE DEF f
<1>4. f.input[t.sur] = t /\ \A k \in Surfaces \ {t.sur} : f.input[k] = e.input[k]
  BY <1>1, <1>3, EncFields
<1>5. Queued(f)
  BY <1>3 DEF Busy, Queued
<1>6. w.at \in Working => w.ticket \in TicketSet /\ w.ticket.sur \in Surfaces \ {t.sur}
  BY <1>2, TicketFields DEF Busy, WorkInv
<1>7. WorkInv(f, w)
  BY <1>3, <1>4, <1>6 DEF Busy, WorkInv
<1>8. InputInv(f)
  BY <1>2, <1>3, <1>4 DEF Busy, InputInv
<1>9. Link(g, f, w)
  <2>1. ASSUME NEW k \in Surfaces \ {t.sur}, f.input[k] # NoTicket PROVE Place(g, f, w, k)
    BY <1>3, <1>4, <2>1 DEF Busy, Link, Place
  <2>2. Place(g, f, w, t.sur)
    BY <1>2, <1>3, <1>4, <1>6 DEF Place, Live, Working
  <2> QED  BY <2>1, <2>2 DEF Link
<1>10. \A acc, out : OrderInv(e, w, acc, out) => OrderInv(f, w, acc, out)
  BY <1>3 DEF OrderInv
<1> QED  BY <1>2, <1>3, <1>4, <1>5, <1>7, <1>8, <1>9, <1>10 DEF Busy, f

LEMMA NotQueued ==
  ASSUME NEW e, EncShape(e), Queued(e), NEW k \in Surfaces, e.slot[k].state \notin Live
  PROVE  \A a \in 1 .. Len(e.fifo) : e.fifo[a] \in Surfaces \ {k}
BY EncFields DEF Queued

LEMMA PlaceStays ==
  ASSUME NEW g, NEW e, NEW w, NEW k, Place(g, e, w, k), e.input[k].sur = k,
         NEW h, h.ring.surfaces[k] = g.ring.surfaces[k], h.sur[k] = g.sur[k],
         NEW f, f.slot[k] = e.slot[k], f.input[k] = e.input[k]
  PROVE  Place(h, f, w, k)
BY DEF Place, SurfaceIs, Written

(* One slot of the encoder's has changed. *)
SlotSet(e, f, k, b) ==
  /\ f.slot = [e.slot EXCEPT ![k] = b] /\ f.input = e.input /\ f.fatal = e.fatal /\ f.eos = e.eos
  /\ \A j \in Surfaces \ {k} : f.mapped[j] = e.mapped[j]

LEMMA RetryKeeps ==
  ASSUME NEW e, EncShape(e), NEW g, NEW w, Busy(g, e, w), ~e.fatal, ~e.eos,
         NEW t \in TicketSet, e.input[t.sur] = t, Written(g, t),
         e.slot[t.sur].state \in {"free", "submit_retry_pending"},
         NEW b \in SubmissionSet, b.state = "submit_retry_pending", b.frame = t.frame,
         NEW f, SlotSet(e, f, t.sur, b), f.fifo = e.fifo
  PROVE  /\ Busy(g, f, w)
         /\ \A acc, out : OrderInv(e, w, acc, out) => OrderInv(f, w, acc, out)
<1>1. t.sur \in Surfaces /\ t # NoTicket
  BY TicketFields
<1>2. /\ f.slot[t.sur] = b /\ \A k \in Surfaces \ {t.sur} : f.slot[k] = e.slot[k]
      /\ f.input = e.input /\ f.fatal = e.fatal /\ f.eos = e.eos
      /\ \A j \in Surfaces \ {t.sur} : f.mapped[j] = e.mapped[j]
  BY <1>1, EncFields DEF SlotSet
<1>3. \A a \in 1 .. Len(e.fifo) : e.fifo[a] \in Surfaces \ {t.sur}
  BY <1>1, NotQueued DEF Busy, Live
<1>4. Queued(f)
  BY <1>2, <1>3 DEF Busy, Queued, Live
<1>5. w.at \in Working => w.ticket \in TicketSet /\ w.ticket.sur \in Surfaces \ {t.sur}
  BY TicketFields DEF Busy, WorkInv
<1>6. WorkInv(f, w)
  BY <1>2, <1>5 DEF Busy, WorkInv, Working
<1>7. InputInv(f)
  BY <1>1, <1>2 DEF Busy, InputInv
<1>8. Link(g, f, w)
  <2>1. ASSUME NEW k \in Surfaces \ {t.sur}, f.input[k] # NoTicket PROVE Place(g, f, w, k)
    BY <1>2, <2>1 DEF Busy, Link, Place
  <2>2. Place(g, f, w, t.sur)
    BY <1>2, <1>5 DEF Place, Live, Working
  <2> QED  BY <2>1, <2>2 DEF Link
<1>9. ASSUME NEW acc, NEW out, OrderInv(e, w, acc, out) PROVE OrderInv(f, w, acc, out)
  <2>1. \A a \in 1 .. Len(e.fifo) : f.slot[e.fifo[a]] = e.slot[e.fifo[a]]
    BY <1>2, <1>3
  <2>2. \A a \in 1 .. Len(e.fifo) : e.slot[e.fifo[a]].frame = acc[Len(out) + Handed(w) + a]
    BY <1>9 DEF OrderInv
  <2>3. \A a \in 1 .. Len(f.fifo) : f.slot[f.fifo[a]].frame = acc[Len(out) + Handed(w) + a]
    BY <2>1, <2>2
  <2>4. f.fatal = e.fatal /\ Len(f.fifo) = Len(e.fifo)
    BY <1>2
  <2> QED  BY <1>9, <2>3, <2>4 DEF OrderInv
<1> QED  BY <1>4, <1>6, <1>7, <1>8, <1>9 DEF Busy

LEMMA TakenIsQueued ==
  ASSUME NEW e, EncShape(e), NEW g, NEW w, Busy(g, e, w), ~e.fatal, ~e.eos,
         NEW t \in TicketSet, e.input[t.sur] = t,
         e.slot[t.sur].state \in {"free", "submit_retry_pending"},
         NEW b \in SubmissionSet, b.state = "submitted_pending_output", b.frame = t.frame,
         NEW f, SlotSet(e, f, t.sur, b), f.fifo = Append(e.fifo, t.sur),
         NEW h, SameBut(g, h, {}, {t.sur}), SurfaceIs(h.ring, t, "submitted")
  PROVE  Busy(h, f, w)
<1>1. t.sur \in Surfaces /\ t # NoTicket
  BY TicketFields
<1>2. /\ f.slot[t.sur] = b /\ \A k \in Surfaces \ {t.sur} : f.slot[k] = e.slot[k]
      /\ f.input = e.input /\ f.fatal = e.fatal /\ f.eos = e.eos
      /\ \A j \in Surfaces \ {t.sur} : f.mapped[j] = e.mapped[j]
  BY <1>1, EncFields DEF SlotSet
<1>3. \A a \in 1 .. Len(e.fifo) : e.fifo[a] \in Surfaces \ {t.sur}
  BY <1>1, NotQueued DEF Busy, Live
<1>4. /\ Len(f.fifo) = Len(e.fifo) + 1 /\ f.fifo[Len(e.fifo) + 1] = t.sur /\ Len(e.fifo) \in Nat
      /\ \A a \in 1 .. Len(e.fifo) : f.fifo[a] = e.fifo[a]
  BY <1>1, EncFields
<1>5. Queued(f)
  <2>1. \A a \in 1 .. Len(f.fifo) : a \in 1 .. Len(e.fifo) \/ a = Len(e.fifo) + 1
    BY <1>4
  <2>2. \A a, c \in 1 .. Len(f.fifo) : f.fifo[a] = f.fifo[c] => a = c
    BY <1>3, <1>4, <2>1 DEF Busy, Queued
  <2>3. \A a \in 1 .. Len(f.fifo) : /\ f.slot[f.fifo[a]].state \in Live
                                    /\ f.slot[f.fifo[a]].state = "bitstream_locked" => a = 1
    BY <1>2, <1>3, <1>4, <2>1 DEF Busy, Queued, Live
  <2>4. ASSUME NEW k \in Surfaces, f.slot[k].state \in Live PROVE \E a \in 1 .. Len(f.fifo) : f.fifo[a] = k
    <3>1. CASE k = t.sur
      BY <1>4, <3>1
    <3>2. CASE k # t.sur
      <4>1. PICK a \in 1 .. Len(e.fifo) : e.fifo[a] = k
        BY <1>2, <2>4, <3>2 DEF Busy, Queued
      <4>2. a \in 1 .. Len(f.fifo) /\ f.fifo[a] = k
        BY <1>4, <4>1
      <4> QED  BY <4>2
    <3> QED  BY <3>1, <3>2
  <2> QED  BY <1>2, <2>2, <2>3, <2>4 DEF Queued
<1>6. w.at \in Working => w.ticket \in TicketSet /\ w.ticket.sur \in Surfaces \ {t.sur}
  BY TicketFields DEF Busy, WorkInv
<1>7. WorkInv(f, w)
  BY <1>2, <1>6 DEF Busy, WorkInv, Working
<1>8. InputInv(f)
  BY <1>1, <1>2 DEF Busy, InputInv
<1>9. Link(h, f, w)
  <2>1. ASSUME NEW k \in Surfaces \ {t.sur}, f.input[k] # NoTicket PROVE Place(h, f, w, k)
    <3>1. h.ring.surfaces[k] = g.ring.surfaces[k] /\ h.sur[k] = g.sur[k]
      BY DEF SameBut
    <3>2. Place(g, e, w, k) /\ e.input[k].sur = k
      BY <1>2, <2>1 DEF Busy, Link, InputInv
    <3> QED  BY <1>2, <3>1, <3>2, PlaceStays
  <2>2. Place(h, f, w, t.sur)
    BY <1>2, <1>6 DEF Place, Live, Working
  <2> QED  BY <2>1, <2>2 DEF Link
<1> QED  BY <1>5, <1>7, <1>8, <1>9 DEF Busy

LEMMA TakenIsOrdered ==
  ASSUME NEW e, EncShape(e), NEW g, NEW w, Busy(g, e, w), ~e.fatal,
         NEW t \in TicketSet, e.slot[t.sur].state \in {"free", "submit_retry_pending"},
         NEW b \in SubmissionSet, b.frame = t.frame,
         NEW f, SlotSet(e, f, t.sur, b), f.fifo = Append(e.fifo, t.sur),
         NEW acc, NEW out, OrderInv(e, w, acc, out)
  PROVE  OrderInv(f, w, Append(acc, t.frame), out)
<1> DEFINE acc2 == Append(acc, t.frame)
<1>1. t.sur \in Surfaces /\ t.frame \in Nat
  BY TicketFields
<1>2. f.slot[t.sur] = b /\ (\A k \in Surfaces \ {t.sur} : f.slot[k] = e.slot[k]) /\ f.fatal = e.fatal
  BY <1>1, EncFields DEF SlotSet
<1>3. \A a \in 1 .. Len(e.fifo) : e.fifo[a] \in Surfaces \ {t.sur}
  BY <1>1, NotQueued DEF Busy, Live
<1>4. /\ Len(f.fifo) = Len(e.fifo) + 1 /\ f.fifo[Len(e.fifo) + 1] = t.sur /\ Len(e.fifo) \in Nat
      /\ \A a \in 1 .. Len(e.fifo) : f.fifo[a] = e.fifo[a]
  BY <1>1, EncFields
<1>5. /\ acc \in Seq(Nat) /\ out \in Seq(Nat) /\ Len(acc) \in Nat /\ Len(out) \in Nat
      /\ Len(out) + Handed(w) + Len(e.fifo) = Len(acc)
  BY DEF OrderInv
<1>a. Handed(w) \in Nat /\ (w.at = "output" => Handed(w) = 1)
  BY DEF Handed
<1>6. /\ acc2 \in Seq(Nat) /\ Len(acc2) = Len(acc) + 1 /\ acc2[Len(acc) + 1] = t.frame
      /\ \A a \in 1 .. Len(acc) : acc2[a] = acc[a]
  BY <1>1, <1>5
<1> HIDE DEF acc2
<1>7. Len(out) + Handed(w) + Len(f.fifo) = Len(acc2)
  BY <1>4, <1>5, <1>6, <1>a
<1>8. \A a \in 1 .. Len(out) : out[a] = acc2[a]
  <2>1. \A a \in 1 .. Len(out) : a \in 1 .. Len(acc)
    BY <1>4, <1>5, <1>a
  <2> QED  BY <1>6, <2>1 DEF OrderInv
<1>9. w.at = "output" => w.ticket.frame = acc2[Len(out) + 1]
  <2>1. ASSUME w.at = "output" PROVE Len(out) + 1 \in 1 .. Len(acc)
    <3>1. Len(out) + 1 + Len(e.fifo) = Len(acc)
      BY <1>5, <1>a, <2>1
    <3>2. \A x, y, z \in Nat : x + 1 + z = y => x + 1 \in 1 .. y
      OBVIOUS
    <3>3. Len(out) \in Nat /\ Len(acc) \in Nat /\ Len(e.fifo) \in Nat
      BY <1>4, <1>5
    <3> QED  BY <3>1, <3>2, <3>3
  <2> QED  BY <1>6, <2>1 DEF OrderInv
<1>10. \A a \in 1 .. Len(f.fifo) : f.slot[f.fifo[a]].frame = acc2[Len(out) + Handed(w) + a]
  <2>1. \A a \in 1 .. Len(f.fifo) : a \in 1 .. Len(e.fifo) \/ a = Len(e.fifo) + 1
    BY <1>4
  <2>2. ASSUME NEW a \in 1 .. Len(e.fifo)
        PROVE  f.slot[f.fifo[a]].frame = acc2[Len(out) + Handed(w) + a]
    <3>1. f.slot[f.fifo[a]] = e.slot[e.fifo[a]]
      BY <1>2, <1>3, <1>4
    <3>2. e.slot[e.fifo[a]].frame = acc[Len(out) + Handed(w) + a]
      BY DEF OrderInv
    <3>3. Len(out) + Handed(w) + a \in 1 .. Len(acc)
      BY <1>4, <1>5, <1>a
    <3> QED  BY <1>6, <3>1, <3>2, <3>3
  <2>3. f.slot[f.fifo[Len(e.fifo) + 1]].frame = acc2[Len(out) + Handed(w) + (Len(e.fifo) + 1)]
    <3>1. Len(out) + Handed(w) + (Len(e.fifo) + 1) = Len(acc) + 1
      BY <1>4, <1>5, <1>a
    <3> QED  BY <1>2, <1>4, <1>6, <3>1
  <2> QED  BY <2>1, <2>2, <2>3
<1>11. Len(out) + Handed(w) + Len(f.fifo) <= Len(acc2)
  BY <1>4, <1>5, <1>6, <1>7, <1>a
<1> QED  BY <1>5, <1>6, <1>7, <1>8, <1>9, <1>10, <1>11 DEF OrderInv, acc2

(* One round of submit: what it makes of the encoder, of the preprocessor, *)
(* and of the frames accepted.                                             *)
Mapped(e, t, status) == [e EXCEPT !.mapped[t.sur] = @ \/ status # "map_throws"]

LEMMA MappedShape ==
  ASSUME NEW e, EncShape(e), NEW t \in TicketSet, NEW status
  PROVE  LET m == Mapped(e, t, status)
         IN  /\ EncShape(m) /\ m.slot = e.slot /\ m.fifo = e.fifo /\ m.input = e.input
             /\ m.fatal = e.fatal /\ m.eos = e.eos
             /\ \A k \in Surfaces \ {t.sur} : m.mapped[k] = e.mapped[k]
<1> DEFINE m == Mapped(e, t, status)
           b == e.mapped[t.sur] \/ status # "map_throws"
<1>1. t.sur \in Surfaces
  BY TicketFields
<1>2. b \in BOOLEAN
  OBVIOUS
<1>3. m = [e EXCEPT !.mapped = [@ EXCEPT ![t.sur] = b]]
  BY DEF Mapped
<1> HIDE DEF m, b
<1>4. /\ EncShape(m) /\ m.slot = e.slot /\ m.fifo = e.fifo /\ m.input = e.input
      /\ m.fatal = e.fatal /\ m.eos = e.eos /\ m.mapped = [e.mapped EXCEPT ![t.sur] = b]
  BY <1>1, <1>2, <1>3 DEF EncShape
<1> QED  BY <1>1, <1>4, EncFields DEF m

(* The driver is busy, and the owner is to try again. *)
LEMMA BusyAnswer ==
  ASSUME NEW e, EncShape(e), NEW g, NEW w, Busy(g, e, w), ~e.fatal, ~e.eos,
         NEW t \in TicketSet, e.input[t.sur] = t, Written(g, t),
         e.slot[t.sur].state \in {"free", "submit_retry_pending"},
         e.slot[t.sur].retries + 1 <= EncMaxRetries
  PROVE  LET f == Answered(Mapped(e, t, "encoder_busy"), t.sur, t.frame, "encoder_busy")
         IN  /\ EncShape(f) /\ Busy(g, f, w) /\ f.input = e.input /\ ~f.fatal
             /\ f.slot[t.sur].state = "submit_retry_pending"
             /\ \A acc, out : OrderInv(e, w, acc, out) => OrderInv(f, w, acc, out)
<1> DEFINE m == Mapped(e, t, "encoder_busy")
           b == [state |-> "submit_retry_pending", frame |-> t.frame, ready |-> FALSE,
                 retries |-> e.slot[t.sur].retries + 1]
           f == [m EXCEPT !.slot = [@ EXCEPT ![t.sur] = b], !.last = t.frame]
<1>1. t.sur \in Surfaces /\ t.frame \in Nat
  BY TicketFields
<1>2. /\ EncShape(m) /\ m.slot = e.slot /\ m.fifo = e.fifo /\ m.input = e.input
      /\ m.fatal = e.fatal /\ m.eos = e.eos /\ \A k \in Surfaces \ {t.sur} : m.mapped[k] = e.mapped[k]
  BY MappedShape
<1> HIDE DEF m
<1>3. Answered(m, t.sur, t.frame, "encoder_busy") = f
  BY <1>2 DEF Answered
<1>4. e.slot[t.sur].retries \in 0 .. EncMaxRetries
  BY <1>1, EncFields DEF SubmissionSet
<1>5. e.slot[t.sur].retries + 1 \in 0 .. EncMaxRetries
  BY <1>4, Bounds
<1>6. b \in SubmissionSet /\ b.state = "submit_retry_pending" /\ b.frame = t.frame
  BY <1>1, <1>5 DEF SubmissionSet, SubmissionStates
<1> HIDE DEF b
<1>7. /\ EncShape(f) /\ f.slot = [m.slot EXCEPT ![t.sur] = b] /\ f.fifo = m.fifo /\ f.input = m.input
      /\ f.mapped = m.mapped /\ f.fatal = m.fatal /\ f.eos = m.eos
  BY <1>1, <1>2, <1>6 DEF EncShape
<1> HIDE DEF f
<1>8. SlotSet(e, f, t.sur, b)
  BY <1>2, <1>7 DEF SlotSet
<1>9. /\ Busy(g, f, w) /\ \A acc, out : OrderInv(e, w, acc, out) => OrderInv(f, w, acc, out)
  BY <1>2, <1>6, <1>7, <1>8, RetryKeeps
<1>10. f.slot[t.sur] = b
  BY <1>1, <1>2, <1>7, EncFields
<1> QED  BY <1>2, <1>3, <1>6, <1>7, <1>9, <1>10 DEF m

(* The driver refuses the frame, too late or for good: the encoder fails. *)
LEMMA RefusedAnswer ==
  ASSUME NEW e, EncShape(e), NEW g, NEW w, Busy(g, e, w), ~e.fatal, ~e.eos,
         NEW t \in TicketSet, e.input[t.sur] = t, Written(g, t),
         e.slot[t.sur].state \in {"free", "submit_retry_pending"},
         NEW status \in {"encoder_busy", "fatal", "map_throws"},
         status = "encoder_busy" => ~(e.slot[t.sur].retries + 1 <= EncMaxRetries)
  PROVE  LET f == Answered(Mapped(e, t, status), t.sur, t.frame, status)
         IN  /\ EncShape(f) /\ Busy(g, f, w) /\ f.input = e.input /\ f.fatal
             /\ \A acc, out : OrderInv(e, w, acc, out) => OrderInv(f, w, acc, out)
<1> DEFINE m == Mapped(e, t, status)
           b == [e.slot[t.sur] EXCEPT !.state = "submit_retry_pending", !.frame = t.frame]
           d == [m EXCEPT !.slot[t.sur].state = "submit_retry_pending", !.slot[t.sur].frame = t.frame]
           f == EnterFatal(d)
<1>1. t.sur \in Surfaces /\ t.frame \in Nat
  BY TicketFields
<1>2. /\ EncShape(m) /\ m.slot = e.slot /\ m.fifo = e.fifo /\ m.input = e.input
      /\ m.fatal = e.fatal /\ m.eos = e.eos /\ \A k \in Surfaces \ {t.sur} : m.mapped[k] = e.mapped[k]
  BY MappedShape
<1> HIDE DEF m
<1>3. Answered(m, t.sur, t.frame, status) = f
  BY <1>2 DEF Answered
<1>b. e.slot[t.sur] \in SubmissionSet
  BY <1>1, EncFields
<1>4. b \in SubmissionSet /\ b.state = "submit_retry_pending" /\ b.frame = t.frame
  BY <1>1, <1>b DEF SubmissionSet, SubmissionStates
<1>5. d.slot = [m.slot EXCEPT ![t.sur] = b]
  BY <1>1, <1>2, EncFields DEF EncShape, SubmissionSet
<1>6. f = EnterFatal(d)
  OBVIOUS
<1> HIDE DEF b, f
<1>7. [m.slot EXCEPT ![t.sur] = b] \in [Surfaces -> SubmissionSet]
  BY <1>1, <1>2, <1>4, EncFields
<1>8. EncShape(d) /\ d.fifo = m.fifo /\ d.input = m.input /\ d.mapped = m.mapped /\ d.fatal = m.fatal
      /\ d.eos = m.eos
  BY <1>2, <1>5, <1>7 DEF EncShape
<1> HIDE DEF d
<1>9. SlotSet(e, d, t.sur, b)
  BY <1>2, <1>5, <1>8 DEF SlotSet
<1>10. Busy(g, d, w) /\ \A acc, out : OrderInv(e, w, acc, out) => OrderInv(d, w, acc, out)
  BY <1>2, <1>4, <1>8, <1>9, RetryKeeps
<1>11. EncShape(f) /\ FatalFrom(d, f)
  BY <1>6, <1>8, <1>10, EnterFatalSlots DEF Busy
<1>12. Busy(g, f, w)
  BY <1>8, <1>10, <1>11, FatalKeepsBusy
<1>13. \A acc, out : OrderInv(e, w, acc, out) => OrderInv(f, w, acc, out)
  BY <1>8, <1>10, <1>11, FatalKeepsOrder
<1>14. f.input = e.input /\ f.fatal
  BY <1>2, <1>8, <1>11 DEF FatalFrom
<1> QED  BY <1>3, <1>11, <1>12, <1>13, <1>14 DEF m

(* The driver takes the frame. *)
LEMMA TakenAnswer ==
  ASSUME NEW e, EncShape(e), NEW g, NEW w, Busy(g, e, w), ~e.fatal, ~e.eos,
         NEW t \in TicketSet, e.input[t.sur] = t,
         e.slot[t.sur].state \in {"free", "submit_retry_pending"},
         NEW status \in {"success", "need_more_input"},
         NEW h, SameBut(g, h, {}, {t.sur}), SurfaceIs(h.ring, t, "submitted")
  PROVE  LET f == Answered(Mapped(e, t, status), t.sur, t.frame, status)
         IN  /\ EncShape(f) /\ Busy(h, f, w) /\ f.input = e.input /\ ~f.fatal
             /\ f.slot[t.sur].state # "submit_retry_pending"
             /\ \A acc, out : OrderInv(e, w, acc, out) => OrderInv(f, w, Append(acc, t.frame), out)
<1> DEFINE m == Mapped(e, t, status)
           ready == status = "success"
           b == [e.slot[t.sur] EXCEPT !.state = "submitted_pending_output", !.frame = t.frame, !.ready = ready]
           p == [m EXCEPT !.slot[t.sur] = [@ EXCEPT !.state = "submitted_pending_output", !.frame = t.frame,
                                                    !.ready = ready],
                          !.last = t.frame, !.fifo = Append(@, t.sur)]
           f == Answered(m, t.sur, t.frame, status)
<1>1. t.sur \in Surfaces /\ t.frame \in Nat
  BY TicketFields
<1>2. /\ EncShape(m) /\ m.slot = e.slot /\ m.fifo = e.fifo /\ m.input = e.input
      /\ m.fatal = e.fatal /\ m.eos = e.eos /\ \A k \in Surfaces \ {t.sur} : m.mapped[k] = e.mapped[k]
  BY MappedShape
<1> HIDE DEF m
<1>3. f = IF ready THEN MakeHeadLockable(WithFifoReady(p)) ELSE MakeHeadLockable(p)
  <2>1. CASE status = "success"
    BY <2>1 DEF Answered
  <2>2. CASE status = "need_more_input"
    BY <2>2 DEF Answered
  <2> QED  BY <2>1, <2>2
<1>a. ready \in BOOLEAN
  OBVIOUS
<1> HIDE DEF ready
<1>b. e.slot[t.sur] \in SubmissionSet
  BY <1>1, EncFields
<1>4. b \in SubmissionSet /\ b.state = "submitted_pending_output" /\ b.frame = t.frame
  BY <1>1, <1>a, <1>b DEF SubmissionSet, SubmissionStates
<1>5. p = [m EXCEPT !.slot = [@ EXCEPT ![t.sur] = b], !.last = t.frame, !.fifo = Append(@, t.sur)]
  BY <1>2
<1> HIDE DEF b, p, f
<1>6. [m.slot EXCEPT ![t.sur] = b] \in [Surfaces -> SubmissionSet] /\ Append(m.fifo, t.sur) \in Seq(Surfaces)
  BY <1>1, <1>2, <1>4, EncFields
<1>7. /\ EncShape(p) /\ p.slot = [m.slot EXCEPT ![t.sur] = b] /\ p.fifo = Append(m.fifo, t.sur)
      /\ p.input = m.input /\ p.mapped = m.mapped /\ p.fatal = m.fatal /\ p.eos = m.eos
  BY <1>1, <1>2, <1>5, <1>6 DEF EncShape
<1>8. SlotSet(e, p, t.sur, b)
  BY <1>2, <1>7 DEF SlotSet
<1>9. Busy(h, p, w)
  BY <1>2, <1>4, <1>7, <1>8, TakenIsQueued
<1>10. \A acc, out : OrderInv(e, w, acc, out) => OrderInv(p, w, Append(acc, t.frame), out)
  BY <1>2, <1>4, <1>7, <1>8, TakenIsOrdered
<1>11. EncShape(f) /\ Refreshed(p, f)
  <2>1. CASE ready
    <3>1. EncShape(WithFifoReady(p)) /\ Refreshed(p, WithFifoReady(p))
      BY <1>7, MadeReady
    <3>2. EncShape(f) /\ Refreshed(WithFifoReady(p), f)
      BY <1>3, <2>1, <3>1, MadeLockable
    <3> QED  BY <3>1, <3>2, RefreshedTwice
  <2>2. CASE ~ready
    BY <1>3, <1>7, <2>2, MadeLockable
  <2> QED  BY <2>1, <2>2
<1>12. Busy(h, f, w)
  BY <1>7, <1>9, <1>11, RefreshedKeepsBusy
<1>13. \A acc, out : OrderInv(e, w, acc, out) => OrderInv(f, w, Append(acc, t.frame), out)
  BY <1>7, <1>10, <1>11, RefreshedKeepsOrder
<1>14. p.slot[t.sur] = b
  BY <1>1, <1>2, <1>7, EncFields
<1>15. f.slot[t.sur].state # "submit_retry_pending"
  BY <1>1, <1>4, <1>11, <1>14 DEF Refreshed
<1>16. f.input = e.input /\ f.fatal = e.fatal
  BY <1>2, <1>7, <1>11 DEF Refreshed
<1> QED  BY <1>11, <1>12, <1>13, <1>15, <1>16 DEF f, m

LEMMA BusyElsewhere ==
  ASSUME NEW g, NEW e, NEW w, Busy(g, e, w), NEW h, NEW I, NEW K, SameBut(g, h, I, K),
         \A k \in Surfaces : k \in K /\ e.input[k] # NoTicket => Place(h, e, w, k)
  PROVE  Busy(h, e, w)
<1> SUFFICES ASSUME NEW k \in Surfaces, k \notin K, e.input[k] # NoTicket PROVE Place(h, e, w, k)
  BY DEF Busy, Link
<1>1. h.ring.surfaces[k] = g.ring.surfaces[k] /\ h.sur[k] = g.sur[k]
  BY DEF SameBut
<1>2. Place(g, e, w, k) /\ e.input[k].sur = k
  BY DEF Busy, Link, InputInv
<1> QED  BY <1>1, <1>2, PlaceStays

(* The surface of a ticket of another frame changes. *)
LEMMA BusyApart ==
  ASSUME NEW g, NEW e, NEW w, Busy(g, e, w), NEW t \in TicketSet, t.frame # e.input[t.sur].frame, Only(g, t),
         NEW h, NEW I, SameBut(g, h, I, {t.sur}), Only(h, t)
  PROVE  Busy(h, e, w)
<1> DEFINE k == t.sur
<1>1. SUFFICES ASSUME e.input[k] # NoTicket PROVE Place(h, e, w, k)
  BY BusyElsewhere
<1>2. k \in Surfaces
  BY TicketFields
<1>3. Place(g, e, w, k) /\ e.input[k].sur = k
  BY <1>1, <1>2 DEF Busy, Link, InputInv
<1>4. ~Owns(g.ring.surfaces[k], e.input[k]) /\ ~Owns(h.ring.surfaces[k], e.input[k])
  BY DEF Only, Owns
<1> QED  BY <1>3, <1>4 DEF Place, Owns, SurfaceIs, Written

LEMMA AdmissionCloses ==
  ASSUME NEW g, GpuShape(g), NEW F \in SUBSET TicketSet, NEW D \in SUBSET TicketSet, NEW inp,
         GpuInv(g, F, D, inp)
  PROVE  LET h == CloseAdmission(g)
         IN  /\ GpuShape(h) /\ GpuInv(h, F, D, inp)
             /\ \A e, w : Busy(g, e, w) => Busy(h, e, w)
<1> DEFINE h == CloseAdmission(g)
<1>1. GpuShape(h) /\ SameBut(g, h, {}, {})
  BY ClosedAdmission
<1> HIDE DEF h
<1>2. GpuInv(h, F, D, inp)
  BY <1>1, Survives
<1>3. \A e, w : Busy(g, e, w) => Busy(h, e, w)
  BY <1>1, BusyElsewhere
<1> QED  BY <1>1, <1>2, <1>3 DEF h

(* The state while the owner has the encoder open, part by part. *)
Open(g, e, w, F, D, next) ==
  /\ GpuShape(g) /\ EncShape(e) /\ Ids(F, D, e.input, next) /\ GpuInv(g, F, D, e.input) /\ Busy(g, e, w)

LEMMA OpenSplits ==
  ASSUME EncInv, owner.at \notin {"closed", "gone"}
  PROVE  /\ Open(gpu, enc, worker, owner.fresh, owner.done, owner.next)
         /\ OwnerShape(owner) /\ WorkerShape(worker) /\ OwnerInv(enc, owner)
         /\ OrderInv(enc, worker, accepted, emitted)
         /\ owner.fresh \in SUBSET TicketSet /\ owner.done \in SUBSET TicketSet
         /\ owner.next \in Nat \ {0}
BY Bounds DEF EncInv, Open, OwnerShape

LEMMA OpenJoins ==
  ASSUME Open(gpu', enc', worker', owner'.fresh, owner'.done, owner'.next),
         OwnerShape(owner'), WorkerShape(worker'), OwnerInv(enc', owner'),
         OrderInv(enc', worker', accepted', emitted'), owner'.at \notin {"closed", "gone"}
  PROVE  EncInv'
BY DEF EncInv, Open

(* The encoder fails and closes the preprocessor's admission, or has       *)
(* failed before.                                                          *)
LEMMA OpenFails ==
  ASSUME NEW g, NEW e, NEW w, NEW F \in SUBSET TicketSet, NEW D \in SUBSET TicketSet, NEW next,
         Open(g, e, w, F, D, next), NEW h \in {g, CloseAdmission(g)}
  PROVE  LET f == FailLocked(e)
         IN  /\ Open(h, f, w, F, D, next) /\ f.fatal /\ f.input = e.input
             /\ \A o : OwnerShape(o) /\ OwnerInv(e, o) => OwnerInv(f, o)
             /\ \A acc, out : OrderInv(e, w, acc, out) => OrderInv(f, w, acc, out)
<1> DEFINE f == FailLocked(e)
<1>1. /\ EncShape(f) /\ Busy(g, f, w) /\ f.fatal /\ f.input = e.input
      /\ \A o : OwnerShape(o) /\ OwnerInv(e, o) => OwnerInv(f, o)
      /\ \A acc, out : OrderInv(e, w, acc, out) => OrderInv(f, w, acc, out)
  BY FailureKeeps DEF Open
<1> HIDE DEF f
<1>2. GpuShape(h) /\ GpuInv(h, F, D, e.input) /\ Busy(h, f, w)
  <2>1. GpuShape(g) /\ GpuInv(g, F, D, e.input)
    BY DEF Open
  <2> QED  BY <1>1, <2>1, AdmissionCloses
<1> QED  BY <1>1, <1>2 DEF f, Open

(* The surface of an input is marked as submitted. *)
LEMMA OpenMarks ==
  ASSUME NEW g, NEW e, NEW w, NEW F \in SUBSET TicketSet, NEW D \in SUBSET TicketSet, NEW next,
         Open(g, e, w, F, D, next), NEW t \in TicketSet, e.input[t.sur] = t, Written(g, t)
  PROVE  LET h == MarkSubmitted(g, t)
         IN  /\ GpuShape(h) /\ SameBut(g, h, {}, {t.sur}) /\ GpuInv(h, F, D, e.input)
             /\ SurfaceIs(h.ring, t, "submitted")
<1> DEFINE inp == e.input
           k == t.sur
           s == "submitted"
           h == Marked(g, k, s)
<1>1. GpuShape(g) /\ GpuInv(g, F, D, inp) /\ Ids(F, D, inp, next)
  BY DEF Open
<1>2. k \in Surfaces /\ inp[k] # NoTicket /\ Owns(g.ring.surfaces[k], inp[k])
  BY TicketFields DEF Written, SurfaceIs, Owns
<1>3. s \in SurfaceStates /\ s # "free"
  BY DEF SurfaceStates
<1>4. MarkSubmitted(g, t) = h
  BY DEF MarkSubmitted, Marked
<1>5. g.ring.surfaces[k].frame = t.frame
  BY DEF Written, SurfaceIs
<1> HIDE DEF inp, k, s
<1>6. /\ GpuShape(h) /\ SameBut(g, h, {}, {k}) /\ GpuInv(h, F, D, inp)
      /\ h.ring.surfaces[k].state = s /\ h.ring.surfaces[k].frame = g.ring.surfaces[k].frame
  BY <1>1, <1>2, <1>3, MarkKeeps
<1> HIDE DEF h
<1> QED  BY <1>4, <1>5, <1>6 DEF inp, k, s, SurfaceIs

LEMMA RoundKeeps ==
  ASSUME NEW e, NEW t \in TicketSet, NEW status \in SubmitStatuses, NEW D, D = owner.done \ {t},
         owner.fresh \in SUBSET TicketSet, owner.done \in SUBSET TicketSet,
         Open(gpu, e, worker, owner.fresh, D, owner.next),
         OwnerShape(owner), WorkerShape(worker), OrderInv(e, worker, accepted, emitted),
         e.input[t.sur] = t,
         \/ e.slot[t.sur].state \in {"free", "submit_retry_pending"} /\ Written(gpu, t)
         \/ e.slot[t.sur].state = "abort_pending",
         SubmitRound(e, t, status)
  PROVE  EncInv'
<1> DEFINE reserved == Reservable(e, t.sur, t.frame)
           f == IF reserved THEN Answered(Mapped(e, t, status), t.sur, t.frame, status) ELSE FailLocked(e)
           taken == reserved /\ status \in {"success", "need_more_input"}
           marked == taken /\ CanMarkSubmitted(gpu, t)
<1>0. t.sur \in Surfaces /\ t # NoTicket /\ D \in SUBSET TicketSet
  BY TicketFields
<1>1. /\ enc' = IF taken /\ ~marked THEN FailLocked(f) ELSE f
      /\ gpu' = LET g == IF marked THEN MarkSubmitted(gpu, t) ELSE gpu
                IN  IF enc'.fatal /\ ~e.fatal THEN CloseAdmission(g) ELSE g
      /\ accepted' = IF marked THEN Append(accepted, t.frame) ELSE accepted
      /\ owner' = [owner EXCEPT !.done = @ \ {t},
                     !.at = IF f.slot[t.sur].state = "submit_retry_pending" /\ ~f.fatal THEN "retry" ELSE "run",
                     !.ticket = t]
      /\ worker' = worker /\ emitted' = emitted
  BY DEF SubmitRound, Mapped
<1> HIDE DEF reserved, f
<1>2. /\ OwnerShape(owner') /\ owner'.fresh = owner.fresh /\ owner'.done = D /\ owner'.next = owner.next
      /\ owner'.ticket = t
      /\ owner'.at = IF f.slot[t.sur].state = "submit_retry_pending" /\ ~f.fatal THEN "retry" ELSE "run"
  BY <1>1 DEF OwnerShape, OwnerSteps
<1>3. SUFFICES /\ Open(gpu', enc', worker, owner.fresh, D, owner.next) /\ OwnerInv(enc', owner')
               /\ OrderInv(enc', worker, accepted', emitted)
  BY <1>1, <1>2, OpenJoins
<1>4. CASE ~reserved
  <2>1. f = FailLocked(e) /\ ~taken /\ ~marked
    BY <1>4 DEF f
  <2>2. enc' = f /\ accepted' = accepted /\ gpu' \in {gpu, CloseAdmission(gpu)}
    BY <1>1, <2>1
  <2>3. /\ Open(gpu', f, worker, owner.fresh, D, owner.next) /\ f.fatal
        /\ \A acc, out : OrderInv(e, worker, acc, out) => OrderInv(f, worker, acc, out)
    <3> DEFINE g2 == gpu'
               F == owner.fresh
               next == owner.next
    <3>1. Open(gpu, e, worker, F, D, next) /\ g2 \in {gpu, CloseAdmission(gpu)}
      BY <2>2
    <3>2. F \in SUBSET TicketSet /\ D \in SUBSET TicketSet
      BY <1>0
    <3> HIDE DEF g2, F, next
    <3>3. /\ Open(g2, FailLocked(e), worker, F, D, next) /\ FailLocked(e).fatal
          /\ \A acc, out : OrderInv(e, worker, acc, out) => OrderInv(FailLocked(e), worker, acc, out)
      BY <3>1, <3>2, OpenFails
    <3> QED  BY <2>1, <3>3 DEF g2, F, next
  <2>4. owner'.at = "run"
    BY <1>2, <2>3
  <2> QED  BY <2>2, <2>3, <2>4 DEF OwnerInv
<1>5. CASE reserved
  <2>1. /\ ~e.fatal /\ ~e.eos /\ e.slot[t.sur].state \in {"free", "submit_retry_pending"}
        /\ f = Answered(Mapped(e, t, status), t.sur, t.frame, status)
    BY <1>5 DEF reserved, f, Reservable
  <2>2. Written(gpu, t)
    BY <2>1
  <2>3. EncShape(e) /\ Busy(gpu, e, worker) /\ GpuShape(gpu)
        /\ GpuInv(gpu, owner.fresh, D, e.input) /\ Ids(owner.fresh, D, e.input, owner.next)
    BY DEF Open
  <2>4. CASE status = "encoder_busy" /\ e.slot[t.sur].retries + 1 <= EncMaxRetries
    <3>1. /\ EncShape(f) /\ Busy(gpu, f, worker) /\ f.input = e.input /\ ~f.fatal
          /\ f.slot[t.sur].state = "submit_retry_pending"
          /\ \A acc, out : OrderInv(e, worker, acc, out) => OrderInv(f, worker, acc, out)
      BY <2>1, <2>2, <2>3, <2>4, BusyAnswer
    <3>2. enc' = f /\ accepted' = accepted /\ gpu' = gpu
      BY <1>1, <2>4, <3>1
    <3>3. OwnerInv(f, owner')
      BY <1>0, <1>2, <3>1 DEF OwnerInv
    <3> QED  BY <2>3, <3>1, <3>2, <3>3 DEF Open
  <2>5. CASE /\ status \in {"encoder_busy", "fatal", "map_throws"}
             /\ status = "encoder_busy" => ~(e.slot[t.sur].retries + 1 <= EncMaxRetries)
    <3>1. /\ EncShape(f) /\ Busy(gpu, f, worker) /\ f.input = e.input /\ f.fatal
          /\ \A acc, out : OrderInv(e, worker, acc, out) => OrderInv(f, worker, acc, out)
      BY <2>1, <2>2, <2>3, <2>5, RefusedAnswer
    <3>2. enc' = f /\ accepted' = accepted /\ gpu' = CloseAdmission(gpu)
      BY <1>1, <2>1, <2>5, <3>1
    <3>3. GpuShape(gpu') /\ GpuInv(gpu', owner.fresh, D, e.input) /\ Busy(gpu', f, worker)
      BY <1>0, <2>3, <3>1, <3>2, AdmissionCloses
    <3>4. OwnerInv(f, owner')
      BY <1>2, <3>1 DEF OwnerInv
    <3> QED  BY <2>3, <3>1, <3>2, <3>3, <3>4 DEF Open
  <2>6. CASE status \in {"success", "need_more_input"}
    <3> DEFINE h == MarkSubmitted(gpu, t)
    <3>4. /\ GpuShape(h) /\ SameBut(gpu, h, {}, {t.sur}) /\ GpuInv(h, owner.fresh, D, e.input)
          /\ SurfaceIs(h.ring, t, "submitted")
      BY <1>0, <2>2, OpenMarks
    <3> HIDE DEF h
    <3>6. /\ EncShape(f) /\ Busy(h, f, worker) /\ f.input = e.input /\ ~f.fatal
          /\ f.slot[t.sur].state # "submit_retry_pending"
          /\ \A acc, out : OrderInv(e, worker, acc, out)
                             => OrderInv(f, worker, Append(acc, t.frame), out)
      BY <2>1, <2>3, <2>6, <3>4, TakenAnswer
    <3>7. marked
      BY <1>5, <2>2, <2>6 DEF CanMarkSubmitted, Written
    <3>8. enc' = f /\ accepted' = Append(accepted, t.frame) /\ gpu' = h
      BY <1>1, <3>6, <3>7 DEF h
    <3>9. OwnerInv(f, owner')
      BY <1>2, <3>6 DEF OwnerInv
    <3> QED  BY <2>3, <3>4, <3>6, <3>8, <3>9 DEF Open
  <2> QED  BY <2>4, <2>5, <2>6 DEF SubmitStatuses
<1> QED  BY <1>4, <1>5

-----------------------------------------------------------------------------
(* The steps of the owner *)

LEMMA Enqueue1Keeps == EncInv /\ Enqueue1 => EncInv'
<1> SUFFICES ASSUME EncInv, Enqueue1 PROVE EncInv'
  OBVIOUS
<1> DEFINE F == owner.fresh
           D == owner.done
           f == owner.next
           t == EnqueueTicket(gpu, f)
<1>1. owner.at = "run" /\ f <= EncMaxFrames
  BY DEF Enqueue1
<1>2. PICK works \in BOOLEAN :
        /\ gpu' = IF t = NoTicket THEN gpu ELSE Enqueued(gpu, t, works)
        /\ owner' = [owner EXCEPT !.next = @ + 1, !.fresh = IF t = NoTicket \/ ~works THEN @ ELSE @ \cup {t}]
  BY DEF Enqueue1
<1>3. UNCHANGED <<enc, worker, accepted, emitted>>
  BY DEF Enqueue1
<1>4. /\ Open(gpu, enc, worker, F, D, f) /\ OwnerShape(owner) /\ WorkerShape(worker)
      /\ OrderInv(enc, worker, accepted, emitted)
      /\ F \in SUBSET TicketSet /\ D \in SUBSET TicketSet /\ f \in Nat \ {0}
  BY <1>1, OpenSplits
<1>5. f \in 1 .. EncMaxFrames
  BY <1>1, <1>4, Bounds
<1>6. /\ GpuShape(gpu) /\ EncShape(enc) /\ Ids(F, D, enc.input, f) /\ GpuInv(gpu, F, D, enc.input)
      /\ Busy(gpu, enc, worker)
  BY <1>4 DEF Open
<1> HIDE DEF t
<1> DEFINE F2 == IF t = NoTicket \/ ~works THEN F ELSE F \cup {t}
<1>7. t # NoTicket => /\ t \in TicketSet /\ t.frame = f /\ GpuShape(Enqueued(gpu, t, works))
                      /\ SameBut(gpu, Enqueued(gpu, t, works), {t.src}, {t.sur})
                      /\ gpu.ring.surfaces[t.sur].state = "free" /\ Only(Enqueued(gpu, t, works), t)
                      /\ works => GpuInv(Enqueued(gpu, t, works), F \cup {t}, D, enc.input)
                      /\ ~works => GpuInv(Enqueued(gpu, t, works), F, D, enc.input)
  <2> SUFFICES ASSUME t # NoTicket
               PROVE  LET h == Enqueued(gpu, t, works)
                      IN  /\ t \in TicketSet /\ t.frame = f /\ GpuShape(h)
                          /\ SameBut(gpu, h, {t.src}, {t.sur})
                          /\ gpu.ring.surfaces[t.sur].state = "free" /\ Only(h, t)
                          /\ works => GpuInv(h, F \cup {t}, D, enc.input)
                          /\ ~works => GpuInv(h, F, D, enc.input)
    OBVIOUS
  <2>1. F \in SUBSET TicketSet /\ D \in SUBSET TicketSet
    BY <1>4
  <2> HIDE DEF F, D, f
  <2> QED  BY <1>5, <1>6, <2>1, EnqueueKeeps DEF t
<1>8. F2 \in SUBSET TicketSet /\ \A u \in F2 \ F : u.frame = f
  BY <1>4, <1>7
<1>9. owner'.at = "run" /\ owner'.fresh = F2 /\ owner'.done = D /\ owner'.next = f + 1
  BY <1>1, <1>2, <1>4 DEF OwnerShape
<1>10. OwnerShape(owner')
  <2>1. f + 1 \in 1 .. EncMaxFrames + 1
    BY <1>5, Bounds
  <2>2. owner' = [owner EXCEPT !.next = f + 1, !.fresh = F2]
    BY <1>2
  <2> HIDE DEF F2
  <2> QED  BY <1>4, <1>8, <2>1, <2>2 DEF OwnerShape
<1>11. Ids(F2, D, enc.input, f + 1)
  <2>1. \A x \in Nat : x < f => x < f + 1 /\ x # f
    BY <1>5
  <2>2. \A u \in F2 \cup D : u.frame \in Nat
    BY <1>4, <1>8, TicketFields
  <2>3. \A k \in Surfaces : enc.input[k].frame \in Nat
    BY <1>6, EncFields, TicketFields DEF NoTicket
  <2>4. F2 \cup D = (F \cup D) \/ F2 \cup D = (F \cup D) \cup {t}
    OBVIOUS
  <2>5. \A u \in F \cup D : u.frame < f /\ u.frame # f
    BY <1>6, <2>1, <1>4, TicketFields DEF Ids
  <2>6. \A k \in Surfaces : enc.input[k].frame < f /\ enc.input[k].frame # f
    BY <1>6, <2>1, <2>3 DEF Ids
  <2>7. F2 = F \/ (F2 = F \cup {t} /\ t.frame = f)
    BY <1>7
  <2> HIDE DEF F2
  <2>8. f < f + 1
    BY <1>5
  <2>9. /\ \A u \in F2 \cup D : u.frame < f + 1
        /\ \A u, v \in F2 \cup D : u.frame = v.frame => u = v
        /\ F2 \cap D = {}
    BY <1>6, <2>1, <2>2, <2>5, <2>7, <2>8 DEF Ids
  <2>10. \A k \in Surfaces : /\ enc.input[k] # NoTicket => enc.input[k].sur = k
                             /\ enc.input[k].frame < f + 1
                             /\ \A u \in F2 \cup D : u.frame # enc.input[k].frame
    BY <1>6, <2>1, <2>3, <2>6, <2>7 DEF Ids
  <2> QED  BY <2>9, <2>10 DEF Ids
<1>12. GpuShape(gpu') /\ GpuInv(gpu', F2, D, enc.input)
  BY <1>2, <1>6, <1>7
<1>13. Busy(gpu', enc, worker)
  <2>1. CASE t = NoTicket
    BY <1>2, <1>6, <2>1
  <2>2. CASE t # NoTicket
    <3> DEFINE h == Enqueued(gpu, t, works)
    <3> HIDE DEF h
    <3>1. t \in TicketSet /\ Only(gpu, t) /\ Only(h, t) /\ SameBut(gpu, h, {t.src}, {t.sur})
      BY <1>7, <2>2 DEF Only, h
    <3>2. t.frame # enc.input[t.sur].frame
      BY <1>4, <1>6, <1>7, <2>2, <3>1, TicketFields, EncFields DEF Ids, NoTicket
    <3>3. Busy(h, enc, worker)
      BY <1>6, <3>1, <3>2, BusyApart
    <3> QED  BY <1>2, <2>2, <3>3 DEF h
  <2> QED  BY <2>1, <2>2
<1>14. Open(gpu', enc', worker', owner'.fresh, owner'.done, owner'.next)
  BY <1>3, <1>6, <1>9, <1>11, <1>12, <1>13 DEF Open
<1>15. WorkerShape(worker') /\ OwnerInv(enc', owner') /\ OrderInv(enc', worker', accepted', emitted')
  BY <1>3, <1>4, <1>9 DEF OwnerInv
<1> QED  BY <1>9, <1>10, <1>14, <1>15, OpenJoins

LEMMA AwaitFrameKeeps == EncInv /\ AwaitFrame => EncInv'
<1> SUFFICES ASSUME EncInv, AwaitFrame PROVE EncInv'
  OBVIOUS
<1> DEFINE F == owner.fresh
           D == owner.done
           next == owner.next
<1>1. owner.at = "run" /\ UNCHANGED <<enc, worker, accepted, emitted>>
  BY DEF AwaitFrame
<1>2. PICK t \in Oldest(F), outcome \in WaitOutcomes :
        /\ gpu' = IF WaitAdmits(gpu, t) THEN Waited(gpu, t, outcome) ELSE gpu
        /\ owner' = [owner EXCEPT !.fresh = @ \ {t},
                       !.done = IF WaitAdmits(gpu, t) /\ outcome = "ready" THEN @ \cup {t} ELSE @]
  BY DEF AwaitFrame
<1>3. /\ Open(gpu, enc, worker, F, D, next) /\ OwnerShape(owner) /\ WorkerShape(worker)
      /\ OrderInv(enc, worker, accepted, emitted)
      /\ F \in SUBSET TicketSet /\ D \in SUBSET TicketSet /\ next \in Nat \ {0}
  BY <1>1, OpenSplits
<1>4. /\ GpuShape(gpu) /\ EncShape(enc) /\ Ids(F, D, enc.input, next) /\ GpuInv(gpu, F, D, enc.input)
      /\ Busy(gpu, enc, worker)
  BY <1>3 DEF Open
<1>5. t \in F /\ t \in TicketSet
  BY <1>2, <1>3 DEF Oldest
<1>6. WaitAdmits(gpu, t)
  BY <1>4, <1>5, WaitIsAdmitted
<1> DEFINE h == Waited(gpu, t, outcome)
           D2 == IF outcome = "ready" THEN D \cup {t} ELSE D
<1>7. /\ GpuShape(h) /\ SameBut(gpu, h, {t.src}, {t.sur}) /\ Only(h, t)
      /\ outcome = "ready" => GpuInv(h, F \ {t}, D \cup {t}, enc.input)
      /\ outcome # "ready" => GpuInv(h, F \ {t}, D, enc.input)
  BY <1>2, <1>3, <1>4, <1>5, AwaitKeeps
<1>8. gpu' = h
  BY <1>2, <1>6
<1> HIDE DEF h
<1>9. /\ owner'.at = "run" /\ owner'.fresh = F \ {t} /\ owner'.done = D2 /\ owner'.next = next
      /\ OwnerShape(owner')
  BY <1>1, <1>2, <1>3, <1>5, <1>6 DEF OwnerShape
<1>10. GpuInv(h, F \ {t}, D2, enc.input)
  BY <1>7
<1>11. Ids(F \ {t}, D2, enc.input, next)
  <2>1. (F \ {t}) \cup D2 \subseteq F \cup D /\ (F \ {t}) \cap D2 = {}
    BY <1>4, <1>5 DEF Ids
  <2> QED  BY <1>4, <2>1 DEF Ids
<1>12. Busy(h, enc, worker)
  <2>1. t.frame # enc.input[t.sur].frame
    BY <1>4, <1>5, TicketFields DEF Ids
  <2>2. \A v \in F \cup D : gpu.ring.surfaces[v.sur].frame = v.frame
    BY <1>3, <1>4, Apart
  <2>3. Only(gpu, t)
    BY <1>5, <2>2 DEF Only
  <2> QED  BY <1>4, <1>5, <1>7, <2>1, <2>3, BusyApart
<1>13. Open(gpu', enc', worker', owner'.fresh, owner'.done, owner'.next)
  BY <1>1, <1>4, <1>7, <1>8, <1>9, <1>10, <1>11, <1>12 DEF Open
<1>14. WorkerShape(worker') /\ OwnerInv(enc', owner') /\ OrderInv(enc', worker', accepted', emitted')
  BY <1>1, <1>3, <1>9 DEF OwnerInv
<1> QED  BY <1>9, <1>13, <1>14, OpenJoins

LEMMA SubmitInvalidKeeps == EncInv /\ SubmitInvalid => EncInv'
<1> SUFFICES ASSUME EncInv, SubmitInvalid PROVE EncInv'
  OBVIOUS
<1> DEFINE F == owner.fresh
           D == owner.done
           next == owner.next
<1>1. owner.at = "run" /\ UNCHANGED <<enc, worker, accepted, emitted>>
  BY DEF SubmitInvalid
<1>2. PICK t \in Oldest(D) : /\ SubmitAdmits(t) /\ gpu' = AbortTicket(gpu, t)
                             /\ owner' = [owner EXCEPT !.done = @ \ {t}]
  BY DEF SubmitInvalid
<1>3. /\ Open(gpu, enc, worker, F, D, next) /\ OwnerShape(owner) /\ WorkerShape(worker)
      /\ OrderInv(enc, worker, accepted, emitted)
      /\ F \in SUBSET TicketSet /\ D \in SUBSET TicketSet /\ next \in Nat \ {0}
  BY <1>1, OpenSplits
<1>4. /\ GpuShape(gpu) /\ EncShape(enc) /\ Ids(F, D, enc.input, next) /\ GpuInv(gpu, F, D, enc.input)
      /\ Busy(gpu, enc, worker)
  BY <1>3 DEF Open
<1>5. t \in D /\ t \in TicketSet
  BY <1>2, <1>3 DEF Oldest
<1> DEFINE h == AbortTicket(gpu, t)
<1>6. GpuShape(h) /\ SameBut(gpu, h, {}, {t.sur}) /\ GpuInv(h, F, D \ {t}, enc.input)
  BY <1>3, <1>4, <1>5, DropKeeps
<1>7. gpu' = h
  BY <1>2
<1> HIDE DEF h
<1>8. /\ owner'.at = "run" /\ owner'.fresh = F /\ owner'.done = D \ {t} /\ owner'.next = next
      /\ OwnerShape(owner')
  BY <1>1, <1>2, <1>3 DEF OwnerShape
<1>9. Ids(F, D \ {t}, enc.input, next)
  BY <1>4 DEF Ids
<1>10. Busy(h, enc, worker)
  BY <1>2, <1>4, <1>6, BusyElsewhere DEF SubmitAdmits
<1>11. Open(gpu', enc', worker', owner'.fresh, owner'.done, owner'.next)
  BY <1>1, <1>4, <1>6, <1>7, <1>8, <1>9, <1>10 DEF Open
<1>12. WorkerShape(worker') /\ OwnerInv(enc', owner') /\ OrderInv(enc', worker', accepted', emitted')
  BY <1>1, <1>3, <1>8 DEF OwnerInv
<1> QED  BY <1>8, <1>11, <1>12, OpenJoins

(* A finished frame becomes the input of its slot. *)
WithInput(e, t) == [e EXCEPT !.input[t.sur] = t]

LEMMA OpenTakes ==
  ASSUME NEW g, NEW e, NEW w, NEW F \in SUBSET TicketSet, NEW D \in SUBSET TicketSet, NEW next,
         Open(g, e, w, F, D, next), NEW t \in D, e.input[t.sur] = NoTicket
  PROVE  LET f == WithInput(e, t)
         IN  /\ Open(g, f, w, F, D \ {t}, next)
             /\ f.fatal = e.fatal /\ f.eos = e.eos /\ f.input[t.sur] = t /\ f.slot[t.sur].state = "free"
             /\ Written(g, t)
             /\ \A acc, out : OrderInv(e, w, acc, out) => OrderInv(f, w, acc, out)
<1> DEFINE f == [e EXCEPT !.input[t.sur] = t]
           inp == e.input
<1>1. /\ GpuShape(g) /\ EncShape(e) /\ Ids(F, D, inp, next) /\ GpuInv(g, F, D, inp) /\ Busy(g, e, w)
  BY DEF Open
<1>2. t \in TicketSet /\ Written(g, t) /\ t.frame < next
  BY <1>1 DEF GpuInv, Ids
<1>3. inp \in [Surfaces -> TicketSet \cup {NoTicket}]
  BY <1>1, EncFields
<1>4. /\ EncShape(f) /\ Busy(g, f, w) /\ f.input = [inp EXCEPT ![t.sur] = t]
      /\ f.fatal = e.fatal /\ f.eos = e.eos /\ f.input[t.sur] = t /\ f.slot[t.sur].state = "free"
      /\ \A acc, out : OrderInv(e, w, acc, out) => OrderInv(f, w, acc, out)
  BY <1>1, <1>2, FreshInput
<1> HIDE DEF f, inp
<1>5. GpuInv(g, F, D \ {t}, [inp EXCEPT ![t.sur] = t]) /\ Ids(F, D \ {t}, [inp EXCEPT ![t.sur] = t], next)
  BY <1>1, <1>2, <1>3, TakeKeeps
<1> QED  BY <1>1, <1>2, <1>4, <1>5 DEF f, Open, WithInput

LEMMA SubmitThrowsKeeps == EncInv /\ SubmitThrows => EncInv'
<1> SUFFICES ASSUME EncInv, SubmitThrows PROVE EncInv'
  OBVIOUS
<1> DEFINE F == owner.fresh
           D == owner.done
           next == owner.next
<1>1. owner.at = "run" /\ UNCHANGED <<worker, accepted, emitted>> /\ gpu' = CloseAdmission(gpu)
  BY DEF SubmitThrows
<1>2. PICK t \in Oldest(D) : /\ SubmitAdmits(t) /\ enc' = FailLocked([enc EXCEPT !.input[t.sur] = t])
                             /\ owner' = [owner EXCEPT !.done = @ \ {t}]
  BY DEF SubmitThrows
<1>3. /\ Open(gpu, enc, worker, F, D, next) /\ OwnerShape(owner) /\ WorkerShape(worker)
      /\ OrderInv(enc, worker, accepted, emitted)
      /\ F \in SUBSET TicketSet /\ D \in SUBSET TicketSet /\ next \in Nat \ {0}
  BY <1>1, OpenSplits
<1>4. t \in D /\ enc.input[t.sur] = NoTicket
  BY <1>2 DEF Oldest, SubmitAdmits
<1> DEFINE e == WithInput(enc, t)
           h == CloseAdmission(gpu)
<1>5. /\ Open(gpu, e, worker, F, D \ {t}, next)
      /\ \A acc, out : OrderInv(enc, worker, acc, out) => OrderInv(e, worker, acc, out)
  BY <1>3, <1>4, OpenTakes
<1>6. /\ owner'.at = "run" /\ owner'.fresh = F /\ owner'.done = D \ {t} /\ owner'.next = next
      /\ OwnerShape(owner')
  BY <1>1, <1>2, <1>3 DEF OwnerShape
<1>7. enc' = FailLocked(e) /\ gpu' = h /\ h \in {gpu, CloseAdmission(gpu)}
  BY <1>1, <1>2 DEF WithInput
<1>8. F \in SUBSET TicketSet /\ D \ {t} \in SUBSET TicketSet
  BY <1>3
<1> HIDE DEF e, h, F, D, next
<1>9. /\ Open(h, FailLocked(e), worker, F, D \ {t}, next)
      /\ \A acc, out : OrderInv(e, worker, acc, out) => OrderInv(FailLocked(e), worker, acc, out)
  BY <1>5, <1>7, <1>8, OpenFails
<1>10. OwnerInv(enc', owner')
  BY <1>6 DEF OwnerInv
<1>11. Open(gpu', enc', worker', owner'.fresh, owner'.done, owner'.next)
  BY <1>1, <1>6, <1>7, <1>9
<1>12. WorkerShape(worker') /\ OrderInv(enc', worker', accepted', emitted')
  BY <1>1, <1>3, <1>5, <1>7, <1>9
<1> QED  BY <1>6, <1>10, <1>11, <1>12, OpenJoins

LEMMA SubmitKeeps == EncInv /\ Submit => EncInv'
<1> SUFFICES ASSUME EncInv, Submit PROVE EncInv'
  OBVIOUS
<1> DEFINE F == owner.fresh
           D == owner.done
           next == owner.next
<1>1. owner.at = "run"
  BY DEF Submit
<1>2. PICK t \in Oldest(D), status \in SubmitStatuses :
        SubmitAdmits(t) /\ SubmitRound([enc EXCEPT !.input[t.sur] = t], t, status)
  BY DEF Submit
<1>3. /\ Open(gpu, enc, worker, F, D, next) /\ OwnerShape(owner) /\ WorkerShape(worker)
      /\ OrderInv(enc, worker, accepted, emitted)
      /\ F \in SUBSET TicketSet /\ D \in SUBSET TicketSet
  BY <1>1, OpenSplits
<1>4. t \in D /\ t \in TicketSet /\ enc.input[t.sur] = NoTicket
  BY <1>2, <1>3 DEF Oldest, SubmitAdmits
<1> DEFINE e == WithInput(enc, t)
<1>5. /\ Open(gpu, e, worker, F, D \ {t}, next)
      /\ e.input[t.sur] = t /\ e.slot[t.sur].state = "free" /\ Written(gpu, t)
      /\ \A acc, out : OrderInv(enc, worker, acc, out) => OrderInv(e, worker, acc, out)
  BY <1>3, <1>4, OpenTakes
<1>6. SubmitRound(e, t, status)
  BY <1>2 DEF WithInput
<1> HIDE DEF e
<1> QED  BY <1>3, <1>4, <1>5, <1>6, RoundKeeps

LEMMA SubmitAgainKeeps == EncInv /\ SubmitAgain => EncInv'
<1> SUFFICES ASSUME EncInv, SubmitAgain PROVE EncInv'
  OBVIOUS
<1> DEFINE F == owner.fresh
           D == owner.done
           next == owner.next
           t == owner.ticket
<1>1. owner.at = "retry"
  BY DEF SubmitAgain
<1>2. PICK status \in SubmitStatuses : SubmitRound(enc, t, status)
  BY DEF SubmitAgain
<1>3. /\ Open(gpu, enc, worker, F, D, next) /\ OwnerShape(owner) /\ WorkerShape(worker)
      /\ OrderInv(enc, worker, accepted, emitted) /\ OwnerInv(enc, owner)
      /\ F \in SUBSET TicketSet /\ D \in SUBSET TicketSet
  BY <1>1, OpenSplits
<1>4. /\ t \in TicketSet /\ enc.input[t.sur] = t
      /\ enc.slot[t.sur].state \in {"submit_retry_pending", "abort_pending"}
  BY <1>1, <1>3 DEF OwnerInv, OwnerShape
<1>5. t.sur \in Surfaces /\ t # NoTicket
  BY <1>4, TicketFields
<1>6. /\ GpuShape(gpu) /\ EncShape(enc) /\ Ids(F, D, enc.input, next) /\ GpuInv(gpu, F, D, enc.input)
      /\ Busy(gpu, enc, worker)
  BY <1>3 DEF Open
<1>7. t \notin D
  BY <1>4, <1>5, <1>6 DEF Ids
<1>8. Place(gpu, enc, worker, t.sur)
  BY <1>4, <1>5, <1>6 DEF Busy, Link
<1>9. worker.at \in Working => worker.ticket.sur # t.sur
  BY <1>4, <1>6 DEF Busy, WorkInv
<1>10. enc.slot[t.sur].state = "submit_retry_pending" => Written(gpu, t)
  BY <1>4, <1>8, <1>9 DEF Place, Live, Working
<1>11. D = D \ {t}
  BY <1>7
<1> HIDE DEF t
<1> QED  BY <1>2, <1>3, <1>4, <1>10, <1>11, RoundKeeps DEF t

LEMMA StreamEnds ==
  ASSUME NEW e, EncShape(e)
  PROVE  EncShape(BeginEndOfStream(e)) /\ Refreshed(e, BeginEndOfStream(e))
<1> DEFINE d == [e EXCEPT !.eos = TRUE, !.open = FALSE]
<1>1. EncShape(d) /\ Refreshed(e, d)
  BY DEF EncShape, Refreshed
<1>2. BeginEndOfStream(e) = MakeHeadLockable(WithFifoReady(d))
  BY DEF BeginEndOfStream
<1> HIDE DEF d
<1> DEFINE f == WithFifoReady(d)
<1>3. EncShape(f) /\ Refreshed(d, f)
  BY <1>1, MadeReady
<1> HIDE DEF f
<1>4. EncShape(MakeHeadLockable(f)) /\ Refreshed(f, MakeHeadLockable(f))
  BY <1>3, MadeLockable
<1>5. Refreshed(e, MakeHeadLockable(f))
  BY <1>1, <1>3, <1>4, RefreshedTwice
<1> QED  BY <1>2, <1>4, <1>5 DEF f

LEMMA FlushingKeeps ==
  ASSUME EncInv, owner.at = "run", NEW then \in {"run", "join"}, NEW works \in BOOLEAN, Flushing(then, works)
  PROVE  EncInv'
<1> DEFINE F == owner.fresh
           D == owner.done
           next == owner.next
           h == CloseAdmission(gpu)
<1>1. /\ enc' = IF works THEN BeginEndOfStream(enc) ELSE FailLocked(enc)
      /\ gpu' = h
      /\ owner' = [owner EXCEPT !.at = IF works THEN "drain" ELSE then, !.then = then]
      /\ UNCHANGED <<worker, accepted, emitted>>
  BY DEF Flushing
<1>2. /\ Open(gpu, enc, worker, F, D, next) /\ OwnerShape(owner) /\ WorkerShape(worker)
      /\ OrderInv(enc, worker, accepted, emitted)
      /\ F \in SUBSET TicketSet /\ D \in SUBSET TicketSet
  BY OpenSplits
<1>3. /\ GpuShape(gpu) /\ EncShape(enc) /\ Ids(F, D, enc.input, next) /\ GpuInv(gpu, F, D, enc.input)
      /\ Busy(gpu, enc, worker)
  BY <1>2 DEF Open
<1>4. /\ owner'.at \in {"drain", "run", "join"} /\ owner'.fresh = F /\ owner'.done = D /\ owner'.next = next
      /\ OwnerShape(owner')
  BY <1>1, <1>2 DEF OwnerShape, OwnerSteps
<1>5. GpuShape(h) /\ GpuInv(h, F, D, enc.input) /\ \A e, w : Busy(gpu, e, w) => Busy(h, e, w)
  <2> HIDE DEF F, D
  <2> QED  BY <1>2, <1>3, AdmissionCloses
<1> HIDE DEF h
<1>6. /\ EncShape(enc') /\ enc'.input = enc.input /\ Busy(gpu, enc', worker)
      /\ OrderInv(enc', worker, accepted, emitted)
  <2>1. CASE works
    <3> DEFINE f == BeginEndOfStream(enc)
    <3>1. EncShape(f) /\ Refreshed(enc, f)
      BY <1>3, StreamEnds
    <3> HIDE DEF f
    <3>2. Busy(gpu, f, worker) /\ OrderInv(f, worker, accepted, emitted)
      BY <1>2, <1>3, <3>1, RefreshedKeepsBusy, RefreshedKeepsOrder
    <3> QED  BY <1>1, <2>1, <3>1, <3>2 DEF f, Refreshed
  <2>2. CASE ~works
    <3>1. /\ EncShape(FailLocked(enc)) /\ Busy(gpu, FailLocked(enc), worker) /\ FailLocked(enc).input = enc.input
          /\ \A acc, out : OrderInv(enc, worker, acc, out) => OrderInv(FailLocked(enc), worker, acc, out)
      BY <1>3, FailureKeeps
    <3> QED  BY <1>1, <1>2, <2>2, <3>1
  <2> QED  BY <2>1, <2>2
<1>7. Open(gpu', enc', worker', owner'.fresh, owner'.done, owner'.next)
  BY <1>1, <1>3, <1>4, <1>5, <1>6 DEF Open
<1>8. WorkerShape(worker') /\ OwnerInv(enc', owner') /\ OrderInv(enc', worker', accepted', emitted')
  BY <1>1, <1>2, <1>4, <1>6 DEF OwnerInv
<1> QED  BY <1>4, <1>7, <1>8, OpenJoins

(* The owner only moves on. *)
LEMMA OwnerMovesKeeps ==
  ASSUME EncInv, owner.at \in {"run", "drain"}, NEW at \in {"run", "join"},
         owner' = [owner EXCEPT !.at = at], UNCHANGED <<gpu, enc, worker, accepted, emitted>>
  PROVE  EncInv'
<1>1. /\ Open(gpu, enc, worker, owner.fresh, owner.done, owner.next) /\ OwnerShape(owner) /\ WorkerShape(worker)
      /\ OrderInv(enc, worker, accepted, emitted)
  BY OpenSplits
<1>2. /\ owner'.at = at /\ owner'.fresh = owner.fresh /\ owner'.done = owner.done /\ owner'.next = owner.next
      /\ OwnerShape(owner')
  BY <1>1 DEF OwnerShape, OwnerSteps
<1>3. OwnerInv(enc', owner')
  BY <1>2 DEF OwnerInv
<1> QED  BY <1>1, <1>2, <1>3, OpenJoins

LEMMA FlushKeeps == EncInv /\ Flush => EncInv'
BY FlushingKeeps DEF Flush

LEMMA CloseKeeps == EncInv /\ Close => EncInv'
<1> SUFFICES ASSUME EncInv, Close PROVE EncInv'
  OBVIOUS
<1>1. owner.at = "run"
  BY DEF Close
<1>2. CASE ~enc.fatal /\ ~enc.eos
  BY <1>1, <1>2, FlushingKeeps DEF Close
<1>3. CASE ~(~enc.fatal /\ ~enc.eos)
  BY <1>1, <1>3, OwnerMovesKeeps DEF Close
<1> QED  BY <1>2, <1>3

LEMMA FlushReturnsKeeps == EncInv /\ FlushReturns => EncInv'
<1> SUFFICES ASSUME EncInv, FlushReturns PROVE EncInv'
  OBVIOUS
<1>1. owner.at = "drain" /\ owner' = [owner EXCEPT !.at = owner.then]
      /\ UNCHANGED <<gpu, enc, worker, accepted, emitted>>
  BY DEF FlushReturns
<1>2. owner.then \in {"run", "join"}
  BY DEF EncInv, OwnerShape
<1> QED  BY <1>1, <1>2, OwnerMovesKeeps

(* When the worker is done nothing that did not fail is left queued. *)
LEMMA DoneIsEmpty ==
  ASSUME NEW g, NEW e, EncShape(e), NEW w, Busy(g, e, w), w.at = "done", ~e.fatal
  PROVE  e.fifo = << >>
<1>1. \A k \in Surfaces : e.slot[k].state = "free"
  BY DEF Busy, WorkInv
<1>2. e.fifo \in Seq(Surfaces)
  BY EncFields
<1>3. SUFFICES ASSUME Len(e.fifo) # 0 PROVE FALSE
  BY <1>2, EmptySeq
<1>4. 1 \in 1 .. Len(e.fifo) /\ e.fifo[1] \in Surfaces
  BY <1>2, <1>3
<1> QED  BY <1>1, <1>4 DEF Busy, Queued, Live

(* The driver is torn down, and its inputs are aborted. *)
LEMMA TornDownKeeps ==
  ASSUME EncInv, owner.at = "join", worker.at = "done", owner' = [owner EXCEPT !.at = "closed"],
         gpu' = InputsAborted(gpu), driver' = FALSE,
         enc' = [enc EXCEPT !.input = [i \in DOMAIN @ |-> NoTicket],
                            !.mapped = [i \in DOMAIN @ |-> FALSE], !.open = FALSE],
         UNCHANGED <<worker, accepted, emitted>>
  PROVE  EncInv'
<1> DEFINE F == owner.fresh
           D == owner.done
           next == owner.next
           inp == enc.input
           h == AllAborted(gpu, {inp[k] : k \in Surfaces} \ {NoTicket})
           none == [k \in Surfaces |-> NoTicket]
           bare == [k \in Surfaces |-> FALSE]
<1>1. /\ Open(gpu, enc, worker, F, D, next) /\ OwnerShape(owner) /\ WorkerShape(worker)
      /\ OrderInv(enc, worker, accepted, emitted)
      /\ F \in SUBSET TicketSet /\ D \in SUBSET TicketSet /\ next \in Nat \ {0}
  BY OpenSplits
<1>2. /\ GpuShape(gpu) /\ EncShape(enc) /\ Ids(F, D, inp, next) /\ GpuInv(gpu, F, D, inp)
      /\ Busy(gpu, enc, worker)
  BY <1>1 DEF Open
<1>3. inp \in [Surfaces -> TicketSet \cup {NoTicket}] /\ DOMAIN enc.input = Surfaces /\ DOMAIN enc.mapped = Surfaces
  BY <1>2, EncFields
<1>4. gpu' = h
  BY <1>3 DEF InputsAborted
<1>5. enc' = [enc EXCEPT !.input = none, !.mapped = bare, !.open = FALSE]
  BY <1>3
<1>6. GpuShape(h) /\ GpuInv(h, F, D, none) /\ Ids(F, D, none, next)
  <2> HIDE DEF F, D, next, inp
  <2> QED  BY <1>1, <1>2, <1>3, AbortKeeps
<1> HIDE DEF h
<1>7. none \in [Surfaces -> TicketSet \cup {NoTicket}] /\ bare \in [Surfaces -> BOOLEAN]
  OBVIOUS
<1>8. /\ EncShape(enc') /\ enc'.input = none /\ enc'.mapped = bare /\ enc'.fatal = enc.fatal
      /\ enc'.fifo = enc.fifo /\ enc'.slot = enc.slot
  <2> HIDE DEF none, bare
  <2> QED  BY <1>2, <1>5, <1>7 DEF EncShape
<1>9. Torn(enc', worker', driver')
  BY <1>2, <1>8, DoneIsEmpty DEF Torn, Emptied
<1>10. /\ owner'.at = "closed" /\ owner'.fresh = F /\ owner'.done = D /\ owner'.next = next
       /\ OwnerShape(owner')
  BY <1>1 DEF OwnerShape, OwnerSteps
<1>11. OrderInv(enc', worker', accepted', emitted')
  BY <1>1, <1>8 DEF OrderInv
<1> QED  BY <1>1, <1>4, <1>6, <1>8, <1>9, <1>10, <1>11 DEF EncInv

(* Nothing is torn down: there is no session, or no context to do it. *)
LEMMA LeftAsItIs ==
  ASSUME EncInv, DriverInv, owner.at = "join", worker.at = "done",
         owner' = [owner EXCEPT !.at = "closed"],
         \/ ~driver /\ enc' = [enc EXCEPT !.open = FALSE]
         \/ driver /\ enc' = [enc EXCEPT !.fatal = TRUE, !.open = FALSE],
         UNCHANGED <<gpu, driver, worker, accepted, emitted>>
  PROVE  EncInv'
<1>1. /\ GpuShape(gpu) /\ EncShape(enc) /\ Ids(owner.fresh, owner.done, enc.input, owner.next)
      /\ GpuInv(gpu, owner.fresh, owner.done, enc.input) /\ Busy(gpu, enc, worker)
      /\ OwnerShape(owner) /\ WorkerShape(worker) /\ OrderInv(enc, worker, accepted, emitted)
  BY OpenSplits DEF Open
<1>2. /\ EncShape(enc') /\ enc'.input = enc.input /\ enc'.mapped = enc.mapped
      /\ enc'.fifo = enc.fifo /\ enc'.slot = enc.slot /\ enc'.eos = enc.eos
      /\ enc'.fatal = (driver \/ enc.fatal)
  BY <1>1 DEF EncShape
<1>3. driver => Busy(gpu, enc', worker)
  <2> SUFFICES ASSUME driver PROVE Busy(gpu, enc', worker)
    OBVIOUS
  <2>1. enc'.fatal
    BY <1>2
  <2>2. Queued(enc) /\ WorkInv(enc, worker) /\ InputInv(enc) /\ Link(gpu, enc, worker)
    BY <1>1 DEF Busy
  <2>3. Queued(enc')
    <3>1. ~enc.fatal => \A k \in Surfaces : enc.slot[k].state = "free"
      BY <2>2 DEF WorkInv
    <3> QED  BY <1>2, <2>2, <3>1 DEF Queued
  <2>4. WorkInv(enc', worker)
    BY <1>2, <2>1, <2>2 DEF WorkInv, Working
  <2>5. InputInv(enc') /\ Link(gpu, enc', worker)
    BY <1>2, <2>2 DEF InputInv, Link, Place
  <2> QED  BY <2>3, <2>4, <2>5 DEF Busy
<1>4. Torn(enc', worker', driver')
  <2>1. ~enc'.fatal => enc'.fifo = << >>
    BY <1>1, <1>2, DoneIsEmpty
  <2>2. ~driver => Emptied(enc)
    BY DEF DriverInv
  <2> QED  BY <1>2, <2>1, <2>2 DEF Torn, Emptied
<1>5. /\ owner'.at = "closed" /\ owner'.fresh = owner.fresh /\ owner'.done = owner.done
      /\ owner'.next = owner.next /\ OwnerShape(owner')
  BY <1>1 DEF OwnerShape, OwnerSteps
<1>6. OrderInv(enc', worker', accepted', emitted')
  <2>1. /\ ~enc'.fatal => ~enc.fatal
        /\ worker' = worker /\ accepted' = accepted /\ emitted' = emitted
    BY <1>2
  <2>2. OrderInv(enc', worker, accepted, emitted)
    BY <1>1, <1>2, <2>1 DEF OrderInv
  <2> QED  BY <2>1, <2>2
<1> QED  BY <1>1, <1>2, <1>3, <1>4, <1>5, <1>6 DEF EncInv

LEMMA CloseReturnsKeeps == EncInv /\ DriverInv /\ CloseReturns => EncInv'
<1> SUFFICES ASSUME EncInv, DriverInv, CloseReturns PROVE EncInv'
  OBVIOUS
<1>1. /\ owner.at = "join" /\ worker.at = "done" /\ owner' = [owner EXCEPT !.at = "closed"]
      /\ UNCHANGED <<worker, accepted, emitted>>
  BY DEF CloseReturns
<1>2. CASE /\ gpu' = InputsAborted(gpu) /\ driver' = FALSE
           /\ enc' = [enc EXCEPT !.input = [i \in DOMAIN @ |-> NoTicket],
                                 !.mapped = [i \in DOMAIN @ |-> FALSE], !.open = FALSE]
  BY <1>1, <1>2, TornDownKeeps
<1>3. CASE /\ \/ ~driver /\ enc' = [enc EXCEPT !.open = FALSE]
              \/ driver /\ enc' = [enc EXCEPT !.fatal = TRUE, !.open = FALSE]
           /\ UNCHANGED <<gpu, driver>>
  BY <1>1, <1>3, LeftAsItIs
<1> QED  BY <1>2, <1>3 DEF CloseReturns

LEMMA DestroyPreprocessorKeeps == EncInv /\ DestroyPreprocessor => EncInv'
<1> SUFFICES ASSUME EncInv, DestroyPreprocessor PROVE EncInv'
  OBVIOUS
<1>1. /\ owner.at = "closed" /\ gpu' \in {CleanedUp(gpu), CloseAdmission(gpu)}
      /\ owner' = [owner EXCEPT !.at = "gone", !.fresh = {}, !.done = {}]
      /\ UNCHANGED <<enc, driver, worker, accepted, emitted>>
  BY DEF DestroyPreprocessor
<1>2. /\ GpuShape(gpu) /\ EncShape(enc) /\ OwnerShape(owner) /\ WorkerShape(worker)
      /\ Torn(enc, worker, driver) /\ OrderInv(enc, worker, accepted, emitted)
  BY <1>1 DEF EncInv
<1>3. GpuShape(gpu')
  BY <1>1, <1>2, CleanedUpShape, ClosedAdmission
<1>4. owner'.at = "gone" /\ OwnerShape(owner')
  BY <1>1, <1>2 DEF OwnerShape, OwnerSteps
<1> QED  BY <1>1, <1>2, <1>3, <1>4 DEF EncInv

-----------------------------------------------------------------------------
(* The steps of the worker *)

(* A worker that is not done has the encoder open. *)
LEMMA WorkerSplits ==
  ASSUME EncInv, worker.at # "done"
  PROVE  /\ owner.at \notin {"closed", "gone"}
         /\ GpuShape(gpu) /\ EncShape(enc) /\ Ids(owner.fresh, owner.done, enc.input, owner.next)
         /\ GpuInv(gpu, owner.fresh, owner.done, enc.input) /\ Busy(gpu, enc, worker)
         /\ OwnerShape(owner) /\ WorkerShape(worker) /\ OwnerInv(enc, owner)
         /\ OrderInv(enc, worker, accepted, emitted)
         /\ owner.fresh \in SUBSET TicketSet /\ owner.done \in SUBSET TicketSet
         /\ owner.next \in Nat \ {0}
<1>1. owner.at \notin {"closed", "gone"}
  BY DEF EncInv, Torn
<1> QED  BY <1>1, OpenSplits DEF Open

LEMMA WorkerJoins ==
  ASSUME owner.at \notin {"closed", "gone"}, owner' = owner, OwnerShape(owner),
         GpuShape(gpu'), EncShape(enc'), Ids(owner.fresh, owner.done, enc'.input, owner.next),
         GpuInv(gpu', owner.fresh, owner.done, enc'.input), Busy(gpu', enc', worker'),
         WorkerShape(worker'), OwnerInv(enc', owner), OrderInv(enc', worker', accepted', emitted')
  PROVE  EncInv'
BY OpenJoins DEF Open

(* What OrderInv reads of the worker. *)
LEMMA SameHanded ==
  ASSUME NEW e, NEW w, NEW acc, NEW out, OrderInv(e, w, acc, out), w.at # "output",
         NEW v, v.at # "output"
  PROVE  OrderInv(e, v, acc, out)
BY DEF OrderInv, Handed

LEMMA WorkerExitsKeeps == EncInv /\ WorkerExits => EncInv'
<1> SUFFICES ASSUME EncInv, WorkerExits PROVE EncInv'
  OBVIOUS
<1>1. /\ worker.at = "wait" /\ WorkerStops /\ worker' = [worker EXCEPT !.at = "done"]
      /\ UNCHANGED <<gpu, enc, owner, accepted, emitted>>
  BY DEF WorkerExits
<1>2. /\ owner.at \notin {"closed", "gone"}
      /\ GpuShape(gpu) /\ EncShape(enc) /\ Ids(owner.fresh, owner.done, enc.input, owner.next)
      /\ GpuInv(gpu, owner.fresh, owner.done, enc.input) /\ Busy(gpu, enc, worker)
      /\ OwnerShape(owner) /\ WorkerShape(worker) /\ OwnerInv(enc, owner)
      /\ OrderInv(enc, worker, accepted, emitted)
  BY <1>1, WorkerSplits
<1>3. worker'.at = "done" /\ WorkerShape(worker')
  BY <1>1, <1>2 DEF WorkerShape
<1>4. Queued(enc) /\ InputInv(enc) /\ WorkInv(enc, worker) /\ Link(gpu, enc, worker)
  BY <1>2 DEF Busy
<1>5. ~enc.fatal => enc.eos /\ \A k \in Surfaces : enc.slot[k].state = "free"
  BY <1>1, <1>2, EncFields DEF WorkerStops, ActiveSlots
<1>6. WorkInv(enc, worker')
  BY <1>1, <1>3, <1>4, <1>5 DEF WorkInv, Working
<1>7. Link(gpu, enc, worker')
  BY <1>1, <1>3, <1>4 DEF Link, Place
<1>8. Busy(gpu, enc, worker')
  BY <1>4, <1>6, <1>7 DEF Busy
<1>9. OrderInv(enc, worker', accepted, emitted)
  BY <1>1, <1>2, <1>3, SameHanded
<1> QED  BY <1>1, <1>2, <1>3, <1>8, <1>9, WorkerJoins

LEMMA LockedShape ==
  ASSUME NEW e, EncShape(e), e.fifo # << >>
  PROVE  LET f == Locked(e)
             k == Head(e.fifo)
         IN  /\ EncShape(f) /\ k \in Surfaces /\ k = e.fifo[1]
             /\ f.fifo = e.fifo /\ f.input = e.input /\ f.mapped = e.mapped /\ f.fatal = e.fatal /\ f.eos = e.eos
             /\ f.slot[k].state = "bitstream_locked" /\ f.slot[k].frame = e.slot[k].frame
             /\ \A j \in Surfaces \ {k} : f.slot[j] = e.slot[j]
<1> DEFINE k == Head(e.fifo)
           b == [e.slot[k] EXCEPT !.state = "bitstream_locked"]
           f == [e EXCEPT !.slot = [@ EXCEPT ![k] = b]]
<1>1. e.slot \in [Surfaces -> SubmissionSet] /\ e.fifo \in Seq(Surfaces)
  BY EncFields
<1>2. k \in Surfaces /\ k = e.fifo[1]
  BY <1>1
<1>3. Locked(e) = f
  BY DEF Locked
<1> HIDE DEF k
<1>4. e.slot[k] \in SubmissionSet
  BY <1>1, <1>2
<1>5. b \in SubmissionSet /\ b.state = "bitstream_locked" /\ b.frame = e.slot[k].frame
  BY <1>4 DEF SubmissionSet, SubmissionStates
<1> HIDE DEF b
<1>6. [e.slot EXCEPT ![k] = b] \in [Surfaces -> SubmissionSet]
  BY <1>1, <1>5
<1>7. EncShape(f)
  BY <1>6 DEF EncShape
<1>8. f.slot = [e.slot EXCEPT ![k] = b]
  BY DEF EncShape
<1>9. f.slot[k] = b /\ \A j \in Surfaces \ {k} : f.slot[j] = e.slot[j]
  BY <1>1, <1>2, <1>8
<1>10. /\ f.fifo = e.fifo /\ f.input = e.input /\ f.mapped = e.mapped /\ f.fatal = e.fatal /\ f.eos = e.eos
  BY DEF EncShape
<1> HIDE DEF f
<1> QED  BY <1>2, <1>3, <1>5, <1>7, <1>9, <1>10 DEF k

LEMMA WorkerLocksKeeps == EncInv /\ WorkerLocks => EncInv'
<1> SUFFICES ASSUME EncInv, WorkerLocks PROVE EncInv'
  OBVIOUS
<1> DEFINE k == Head(enc.fifo)
           f == Locked(enc)
<1>1. /\ worker.at = "wait" /\ ~WorkerStops /\ Lockable(enc) /\ enc' = f
      /\ worker' = [at |-> "locked", ticket |-> enc.input[k]]
      /\ UNCHANGED <<gpu, owner, accepted, emitted>>
  BY DEF WorkerLocks
<1>2. /\ owner.at \notin {"closed", "gone"}
      /\ GpuShape(gpu) /\ EncShape(enc) /\ Ids(owner.fresh, owner.done, enc.input, owner.next)
      /\ GpuInv(gpu, owner.fresh, owner.done, enc.input) /\ Busy(gpu, enc, worker)
      /\ OwnerShape(owner) /\ WorkerShape(worker) /\ OwnerInv(enc, owner)
      /\ OrderInv(enc, worker, accepted, emitted)
  BY <1>1, WorkerSplits
<1>3. ~enc.fatal /\ enc.fifo # << >> /\ enc.slot[k].state = "bitstream_lockable"
  BY <1>1 DEF WorkerStops, Lockable
<1>4. /\ EncShape(f) /\ k \in Surfaces /\ k = enc.fifo[1]
      /\ f.fifo = enc.fifo /\ f.input = enc.input /\ f.mapped = enc.mapped /\ f.fatal = enc.fatal
      /\ f.eos = enc.eos
      /\ f.slot[k].state = "bitstream_locked" /\ f.slot[k].frame = enc.slot[k].frame
      /\ \A j \in Surfaces \ {k} : f.slot[j] = enc.slot[j]
  BY <1>2, <1>3, LockedShape
<1> HIDE DEF k, f
<1>5. Queued(enc) /\ InputInv(enc) /\ WorkInv(enc, worker) /\ Link(gpu, enc, worker)
  BY <1>2 DEF Busy
<1>6. \A j \in Surfaces : enc.slot[j].state # "bitstream_locked"
  BY <1>1, <1>5 DEF WorkInv, Working
<1>7. enc.fifo \in Seq(Surfaces) /\ enc.input \in [Surfaces -> TicketSet \cup {NoTicket}]
  BY <1>2, EncFields
<1>8. Len(enc.fifo) \in Nat /\ Len(enc.fifo) >= 1 /\ \A a \in 1 .. Len(enc.fifo) : enc.fifo[a] \in Surfaces
  BY <1>3, <1>7
<1>9. \A j \in Surfaces : f.slot[j].state \in Live <=> enc.slot[j].state \in Live
  BY <1>3, <1>4 DEF Live
<1>10. Queued(f)
  BY <1>3, <1>4, <1>5, <1>6, <1>8, <1>9 DEF Queued
<1>11. enc.input[k] # NoTicket /\ enc.input[k] \in TicketSet /\ enc.input[k].sur = k
  BY <1>3, <1>4, <1>5, <1>7 DEF InputInv
<1>12. worker'.at = "locked" /\ worker'.ticket = enc.input[k] /\ WorkerShape(worker')
  BY <1>1, <1>11 DEF WorkerShape, Working
<1>13. InputInv(f)
  <2>1. ASSUME NEW j \in Surfaces
        PROVE  /\ f.slot[j].state # "free" => f.input[j] # NoTicket /\ f.slot[j].frame = f.input[j].frame
               /\ f.mapped[j] => f.slot[j].state # "free"
               /\ f.input[j] # NoTicket => f.input[j].sur = j
    BY <1>3, <1>4, <1>5, <2>1 DEF InputInv
  <2> QED  BY <2>1 DEF InputInv
<1>14. WorkInv(f, worker')
  BY <1>4, <1>6, <1>11, <1>12 DEF WorkInv, Working
<1>15. Link(gpu, f, worker')
  <2>1. SUFFICES ASSUME NEW j \in Surfaces, f.input[j] # NoTicket PROVE Place(gpu, f, worker', j)
    BY DEF Link
  <2>2. Place(gpu, enc, worker, j)
    BY <1>4, <1>5, <2>1 DEF Link
  <2>3. j # k => f.slot[j] = enc.slot[j]
    BY <1>4
  <2>4. CASE j = k
    BY <1>1, <1>3, <1>4, <1>12, <2>2, <2>4 DEF Place, Live
  <2>5. CASE j # k
    BY <1>1, <1>4, <1>12, <2>2, <2>3, <2>5 DEF Place
  <2> QED  BY <2>4, <2>5
<1>16. Busy(gpu, f, worker')
  BY <1>10, <1>13, <1>14, <1>15 DEF Busy
<1>17. OwnerInv(f, owner)
  <2>1. SUFFICES ASSUME owner.at = "retry"
                 PROVE  /\ owner.ticket # NoTicket /\ f.input[owner.ticket.sur] = owner.ticket
                        /\ f.slot[owner.ticket.sur].state = enc.slot[owner.ticket.sur].state
    BY <1>2, <1>4, <2>1 DEF OwnerInv
  <2>2. /\ owner.ticket # NoTicket /\ enc.input[owner.ticket.sur] = owner.ticket
        /\ enc.slot[owner.ticket.sur].state \in {"submit_retry_pending", "abort_pending"}
    BY <1>2, <2>1 DEF OwnerInv
  <2>3. owner.ticket.sur \in Surfaces
    BY <1>2, <2>2, TicketFields DEF OwnerShape
  <2> QED  BY <1>3, <1>4, <2>2, <2>3
<1>18. OrderInv(f, worker', accepted, emitted)
  <2>1. \A a \in 1 .. Len(enc.fifo) : f.slot[enc.fifo[a]].frame = enc.slot[enc.fifo[a]].frame
    BY <1>4, <1>8
  <2>2. OrderInv(f, worker, accepted, emitted)
    BY <1>2, <1>4, <2>1 DEF OrderInv
  <2> QED  BY <1>1, <1>12, <2>2, SameHanded
<1> QED  BY <1>1, <1>2, <1>4, <1>12, <1>16, <1>17, <1>18, WorkerJoins

(* A working worker that gives up. *)
LEMMA WorkerGivesUp ==
  ASSUME EncInv, worker.at \in Working, worker.at \notin {"marked", "released"},
         worker' = [worker EXCEPT !.at = "failed"], UNCHANGED <<gpu, enc, owner, accepted, emitted>>
  PROVE  EncInv'
<1>1. /\ owner.at \notin {"closed", "gone"}
      /\ GpuShape(gpu) /\ EncShape(enc) /\ Ids(owner.fresh, owner.done, enc.input, owner.next)
      /\ GpuInv(gpu, owner.fresh, owner.done, enc.input) /\ Busy(gpu, enc, worker)
      /\ OwnerShape(owner) /\ WorkerShape(worker) /\ OwnerInv(enc, owner)
      /\ OrderInv(enc, worker, accepted, emitted)
  BY WorkerSplits DEF Working
<1>2. worker'.at = "failed" /\ worker'.ticket = worker.ticket /\ WorkerShape(worker')
  BY <1>1 DEF WorkerShape, Working
<1>3. Queued(enc) /\ InputInv(enc) /\ WorkInv(enc, worker) /\ Link(gpu, enc, worker)
  BY <1>1 DEF Busy
<1>4. WorkInv(enc, worker')
  BY <1>2, <1>3 DEF WorkInv, Working
<1>5. Link(gpu, enc, worker')
  BY <1>2, <1>3 DEF Link, Place
<1>6. OrderInv(enc, worker', accepted, emitted)
  BY <1>1, <1>2, SameHanded DEF Working
<1> QED  BY <1>1, <1>2, <1>3, <1>4, <1>5, <1>6, WorkerJoins DEF Busy

LEMMA WorkerCopiesKeeps == EncInv /\ WorkerCopies => EncInv'
<1> SUFFICES ASSUME EncInv, WorkerCopies PROVE EncInv'
  OBVIOUS
<1>1. worker.at = "locked" /\ UNCHANGED <<gpu, owner, accepted, emitted>>
  BY DEF WorkerCopies
<1>2. CASE worker' = [worker EXCEPT !.at = "failed"] /\ UNCHANGED enc
  BY <1>1, <1>2, WorkerGivesUp DEF Working
<1>3. CASE /\ worker' = [worker EXCEPT !.at = "copied"]
           /\ enc' = [enc EXCEPT !.mapped[worker.ticket.sur] = FALSE]
  <2> DEFINE k == worker.ticket.sur
             f == [enc EXCEPT !.mapped[k] = FALSE]
  <2>1. /\ owner.at \notin {"closed", "gone"}
        /\ GpuShape(gpu) /\ EncShape(enc) /\ Ids(owner.fresh, owner.done, enc.input, owner.next)
        /\ GpuInv(gpu, owner.fresh, owner.done, enc.input) /\ Busy(gpu, enc, worker)
        /\ OwnerShape(owner) /\ WorkerShape(worker) /\ OwnerInv(enc, owner)
        /\ OrderInv(enc, worker, accepted, emitted)
    BY <1>1, WorkerSplits
  <2>2. Queued(enc) /\ InputInv(enc) /\ WorkInv(enc, worker) /\ Link(gpu, enc, worker)
    BY <2>1 DEF Busy
  <2>3. k \in Surfaces /\ worker.ticket \in TicketSet
    BY <1>1, <2>2, TicketFields DEF WorkInv, Working
  <2>4. enc.mapped \in [Surfaces -> BOOLEAN]
    BY <2>1, EncFields
  <2>5. /\ EncShape(f) /\ f.slot = enc.slot /\ f.fifo = enc.fifo /\ f.input = enc.input /\ f.fatal = enc.fatal
        /\ f.eos = enc.eos /\ f.mapped = [enc.mapped EXCEPT ![k] = FALSE]
    BY <2>1, <2>4 DEF EncShape
  <2>6. enc' = f
    BY <1>3
  <2>7. worker'.at = "copied" /\ worker'.ticket = worker.ticket /\ WorkerShape(worker')
    BY <1>3, <2>1 DEF WorkerShape, Working
  <2> HIDE DEF f
  <2>8. ~f.mapped[k] /\ \A j \in Surfaces : f.mapped[j] => enc.mapped[j]
    BY <2>3, <2>4, <2>5
  <2>9. Queued(f)
    BY <2>2, <2>5 DEF Queued
  <2>10. InputInv(f)
    BY <2>2, <2>5, <2>8 DEF InputInv
  <2>11. WorkInv(f, worker')
    BY <1>1, <2>2, <2>5, <2>7, <2>8 DEF WorkInv, Working
  <2>12. Link(gpu, f, worker')
    BY <1>1, <2>2, <2>5, <2>7 DEF Link, Place
  <2>13. OwnerInv(f, owner)
    BY <2>1, <2>5 DEF OwnerInv
  <2>14. OrderInv(f, worker, accepted, emitted)
    BY <2>1, <2>5 DEF OrderInv
  <2>15. OrderInv(f, worker', accepted, emitted)
    BY <1>1, <2>7, <2>14, SameHanded
  <2>16. Busy(gpu, f, worker')
    BY <2>9, <2>10, <2>11, <2>12 DEF Busy
  <2> QED  BY <1>1, <2>1, <2>5, <2>6, <2>7, <2>13, <2>15, <2>16, WorkerJoins
<1> QED  BY <1>2, <1>3 DEF WorkerCopies

(* The surface the worker works on is with the encoder. *)
LEMMA WorkedOn ==
  ASSUME NEW g, NEW e, NEW w, Busy(g, e, w), w.at \in Working
  PROVE  /\ w.ticket \in TicketSet /\ w.ticket.sur \in Surfaces /\ w.ticket # NoTicket
         /\ e.input[w.ticket.sur] = w.ticket /\ e.slot[w.ticket.sur].state = "bitstream_locked"
         /\ Place(g, e, w, w.ticket.sur)
<1>1. /\ w.ticket \in TicketSet /\ e.input[w.ticket.sur] = w.ticket
      /\ e.slot[w.ticket.sur].state = "bitstream_locked"
  BY DEF Busy, WorkInv
<1>2. w.ticket.sur \in Surfaces /\ w.ticket # NoTicket
  BY <1>1, TicketFields
<1> QED  BY <1>1, <1>2 DEF Busy, Link

(* The surface worked on changes with the worker. *)
LEMMA WorkGoesOn ==
  ASSUME NEW g, NEW e, NEW w, Busy(g, e, w), w.at \in {"copied", "marked"},
         NEW v, v.at \in {"marked", "released"}, v.ticket = w.ticket,
         NEW h, SameBut(g, h, {}, {w.ticket.sur}), Place(h, e, v, w.ticket.sur)
  PROVE  Busy(h, e, v)
<1> DEFINE k == w.ticket.sur
<1>1. Queued(e) /\ InputInv(e) /\ WorkInv(e, w) /\ Link(g, e, w)
  BY DEF Busy
<1>2. WorkInv(e, v)
  BY <1>1 DEF WorkInv, Working
<1>3. Link(h, e, v)
  <2>1. SUFFICES ASSUME NEW j \in Surfaces, e.input[j] # NoTicket, j # k PROVE Place(h, e, v, j)
    BY DEF Link
  <2>2. Place(g, e, w, j) /\ e.input[j].sur = j
    BY <1>1, <2>1 DEF Link, InputInv
  <2>3. h.ring.surfaces[j] = g.ring.surfaces[j] /\ h.sur[j] = g.sur[j]
    BY <2>1 DEF SameBut
  <2>4. Place(h, e, w, j)
    BY <2>2, <2>3, PlaceStays
  <2> QED  BY <2>1, <2>4 DEF Place
<1> QED  BY <1>1, <1>2, <1>3 DEF Busy

LEMMA InputReleasedKeeps ==
  ASSUME NEW g, GpuShape(g), NEW F \in SUBSET TicketSet, NEW D \in SUBSET TicketSet, NEW inp, NEW next,
         GpuInv(g, F, D, inp), Ids(F, D, inp, next),
         NEW t \in TicketSet, inp[t.sur] = t, SurfaceIs(g.ring, t, "submitted")
  PROVE  LET h == MarkInputReleased(g, t)
         IN  /\ GpuShape(h) /\ SameBut(g, h, {}, {t.sur}) /\ GpuInv(h, F, D, inp)
             /\ SurfaceIs(h.ring, t, "encoder_input_released")
<1> DEFINE k == t.sur
           s == "encoder_input_released"
           h == Marked(g, k, s)
<1>1. k \in Surfaces /\ inp[k] # NoTicket /\ Owns(g.ring.surfaces[k], inp[k])
  BY TicketFields DEF SurfaceIs, Owns
<1>2. s \in SurfaceStates /\ s # "free"
  BY DEF SurfaceStates
<1>3. MarkInputReleased(g, t) = h
  BY DEF MarkInputReleased, Marked
<1>4. g.ring.surfaces[k].frame = t.frame
  BY DEF SurfaceIs
<1> HIDE DEF k, s
<1>5. /\ GpuShape(h) /\ SameBut(g, h, {}, {k}) /\ GpuInv(h, F, D, inp)
      /\ h.ring.surfaces[k].state = s /\ h.ring.surfaces[k].frame = g.ring.surfaces[k].frame
  BY <1>1, <1>2, MarkKeeps
<1> HIDE DEF h
<1> QED  BY <1>3, <1>4, <1>5 DEF k, s, SurfaceIs

LEMMA WorkerMarksKeeps == EncInv /\ WorkerMarks => EncInv'
<1> SUFFICES ASSUME EncInv, WorkerMarks PROVE EncInv'
  OBVIOUS
<1> DEFINE F == owner.fresh
           D == owner.done
           next == owner.next
           inp == enc.input
           t == worker.ticket
           k == t.sur
           h == MarkInputReleased(gpu, t)
<1>1. worker.at = "copied" /\ UNCHANGED <<enc, owner, accepted, emitted>>
  BY DEF WorkerMarks
<1>2. /\ owner.at \notin {"closed", "gone"}
      /\ GpuShape(gpu) /\ EncShape(enc) /\ Ids(F, D, inp, next)
      /\ GpuInv(gpu, F, D, inp) /\ Busy(gpu, enc, worker)
      /\ OwnerShape(owner) /\ WorkerShape(worker) /\ OwnerInv(enc, owner)
      /\ OrderInv(enc, worker, accepted, emitted)
      /\ F \in SUBSET TicketSet /\ D \in SUBSET TicketSet
  BY <1>1, WorkerSplits
<1>3. /\ t \in TicketSet /\ k \in Surfaces /\ t # NoTicket /\ inp[k] = t /\ enc.slot[k].state = "bitstream_locked"
      /\ Place(gpu, enc, worker, k)
  BY <1>1, <1>2, WorkedOn DEF Working
<1>4. SurfaceIs(gpu.ring, t, "submitted")
  BY <1>1, <1>3 DEF Place, Live
<1>5. gpu' = h /\ worker' = [worker EXCEPT !.at = "marked"]
  BY <1>4 DEF WorkerMarks, CanMarkInputReleased
<1>8. /\ GpuShape(h) /\ SameBut(gpu, h, {}, {k}) /\ GpuInv(h, F, D, inp)
      /\ SurfaceIs(h.ring, t, "encoder_input_released")
  <2> HIDE DEF F, D, next, inp, t
  <2> QED  BY <1>2, <1>3, <1>4, InputReleasedKeeps
<1> HIDE DEF h
<1>9. worker'.at = "marked" /\ worker'.ticket = t /\ WorkerShape(worker')
  BY <1>2, <1>5 DEF WorkerShape, Working
<1>10. Place(h, enc, worker', k)
  BY <1>3, <1>8, <1>9 DEF Place
<1>11. Busy(h, enc, worker')
  BY <1>1, <1>2, <1>8, <1>9, <1>10, WorkGoesOn
<1>12. OrderInv(enc, worker', accepted, emitted)
  BY <1>1, <1>2, <1>9, SameHanded
<1> QED  BY <1>1, <1>2, <1>5, <1>8, <1>9, <1>11, <1>12, WorkerJoins

LEMMA WorkerReleasesKeeps == EncInv /\ WorkerReleases => EncInv'
<1> SUFFICES ASSUME EncInv, WorkerReleases PROVE EncInv'
  OBVIOUS
<1> DEFINE F == owner.fresh
           D == owner.done
           next == owner.next
           inp == enc.input
           t == worker.ticket
           k == t.sur
           h == ReleaseTicket(gpu, t)
<1>1. worker.at = "marked" /\ UNCHANGED <<enc, owner, accepted, emitted>>
  BY DEF WorkerReleases
<1>2. /\ owner.at \notin {"closed", "gone"}
      /\ GpuShape(gpu) /\ EncShape(enc) /\ Ids(F, D, inp, next)
      /\ GpuInv(gpu, F, D, inp) /\ Busy(gpu, enc, worker)
      /\ OwnerShape(owner) /\ WorkerShape(worker) /\ OwnerInv(enc, owner)
      /\ OrderInv(enc, worker, accepted, emitted)
      /\ F \in SUBSET TicketSet /\ D \in SUBSET TicketSet
  BY <1>1, WorkerSplits
<1>3. /\ t \in TicketSet /\ k \in Surfaces /\ t # NoTicket /\ inp[k] = t /\ enc.slot[k].state = "bitstream_locked"
      /\ Place(gpu, enc, worker, k)
  BY <1>1, <1>2, WorkedOn DEF Working
<1>4. SurfaceIs(gpu.ring, t, "encoder_input_released")
  BY <1>1, <1>3 DEF Place
<1>5. gpu' = h /\ worker' = [worker EXCEPT !.at = "released"]
  BY <1>4 DEF WorkerReleases, CanRelease
<1>6. Owns(gpu.ring.surfaces[k], t)
  BY <1>4 DEF Owns, SurfaceIs
<1>7. GpuShape(h) /\ SameBut(gpu, h, {}, {k}) /\ GpuInv(h, F, D, inp) /\ IdleAt(h, k)
  <2> HIDE DEF F, D, next, inp, t
  <2> QED  BY <1>2, <1>3, <1>6, ReleaseKeeps
<1> HIDE DEF h
<1>8. worker'.at = "released" /\ worker'.ticket = t /\ WorkerShape(worker')
  BY <1>2, <1>5 DEF WorkerShape, Working
<1>9. Place(h, enc, worker', k)
  BY <1>7, <1>8 DEF Place, IdleAt, Owns
<1>10. Busy(h, enc, worker')
  BY <1>1, <1>2, <1>7, <1>8, <1>9, WorkGoesOn
<1>11. OrderInv(enc, worker', accepted, emitted)
  BY <1>1, <1>2, <1>8, SameHanded
<1> QED  BY <1>1, <1>2, <1>5, <1>7, <1>8, <1>10, <1>11, WorkerJoins

(* The worker is done because the encoder has failed. *)
LEMMA WorkerEnds ==
  ASSUME EncInv, worker.at \in {"failed", "output"}, NEW out, OrderInv(enc, [worker EXCEPT !.at = "done"], accepted, out),
         enc' = FailLocked(enc), gpu' = CloseAdmission(gpu), worker' = [worker EXCEPT !.at = "done"],
         accepted' = accepted, emitted' = out, owner' = owner
  PROVE  EncInv'
<1> DEFINE F == owner.fresh
           D == owner.done
           next == owner.next
           inp == enc.input
           f == FailLocked(enc)
           h == CloseAdmission(gpu)
           v == [worker EXCEPT !.at = "done"]
<1>1. /\ owner.at \notin {"closed", "gone"}
      /\ GpuShape(gpu) /\ EncShape(enc) /\ Ids(F, D, inp, next)
      /\ GpuInv(gpu, F, D, inp) /\ Busy(gpu, enc, worker)
      /\ OwnerShape(owner) /\ WorkerShape(worker) /\ OwnerInv(enc, owner)
      /\ F \in SUBSET TicketSet /\ D \in SUBSET TicketSet
  BY WorkerSplits
<1>2. /\ EncShape(f) /\ Busy(gpu, f, worker) /\ f.fatal /\ f.input = inp
      /\ OwnerInv(f, owner)
      /\ \A acc, o : OrderInv(enc, v, acc, o) => OrderInv(f, v, acc, o)
  <2>1. /\ EncShape(f) /\ Busy(gpu, f, worker) /\ f.fatal /\ f.input = inp
        /\ \A o : OwnerShape(o) /\ OwnerInv(enc, o) => OwnerInv(f, o)
    BY <1>1, FailureKeeps
  <2>2. \A acc, o : OrderInv(enc, v, acc, o) => OrderInv(f, v, acc, o)
    <3>1. CASE enc.fatal
      BY <3>1 DEF FailLocked
    <3>2. CASE ~enc.fatal
      <4>1. f = EnterFatal(enc)
        BY <3>2 DEF FailLocked
      <4>2. EncShape(f) /\ FatalFrom(enc, f)
        BY <1>1, <4>1, EnterFatalSlots DEF Busy
      <4> HIDE DEF f, v
      <4> QED  BY <1>1, <4>2, FatalKeepsOrder
    <3> QED  BY <3>1, <3>2
  <2> QED  BY <1>1, <2>1, <2>2
<1>3. GpuShape(h) /\ GpuInv(h, F, D, inp) /\ \A e, w : Busy(gpu, e, w) => Busy(h, e, w)
  <2> HIDE DEF F, D, inp
  <2> QED  BY <1>1, AdmissionCloses
<1>4. Busy(h, f, worker)
  BY <1>2, <1>3
<1>5. v.at = "done" /\ WorkerShape(v)
  BY <1>1 DEF WorkerShape
<1> HIDE DEF f, h, v
<1>6. Busy(h, f, v)
  <2>1. Queued(f) /\ InputInv(f) /\ WorkInv(f, worker) /\ Link(h, f, worker)
    BY <1>4 DEF Busy
  <2>2. WorkInv(f, v)
    BY <1>2, <1>5, <2>1 DEF WorkInv, Working
  <2>3. Link(h, f, v)
    BY <1>5, <2>1 DEF Link, Place
  <2> QED  BY <2>1, <2>2, <2>3 DEF Busy
<1>7. OrderInv(f, v, accepted, out)
  BY <1>2 DEF v
<1>8. enc' = f /\ gpu' = h /\ worker' = v
  BY DEF f, h, v
<1> QED  BY <1>1, <1>2, <1>3, <1>5, <1>6, <1>7, <1>8, WorkerJoins

LEMMA WorkerFailsKeeps == EncInv /\ WorkerFails => EncInv'
<1> SUFFICES ASSUME EncInv, WorkerFails PROVE EncInv'
  OBVIOUS
<1>1. /\ worker.at = "failed" /\ enc' = FailLocked(enc) /\ gpu' = CloseAdmission(gpu)
      /\ worker' = [worker EXCEPT !.at = "done"] /\ UNCHANGED <<owner, accepted, emitted>>
  BY DEF WorkerFails
<1>2. OrderInv(enc, worker, accepted, emitted) /\ WorkerShape(worker)
  BY DEF EncInv
<1>3. [worker EXCEPT !.at = "done"].at = "done"
  BY <1>2 DEF WorkerShape
<1>4. OrderInv(enc, [worker EXCEPT !.at = "done"], accepted, emitted)
  BY <1>1, <1>2, <1>3, SameHanded
<1> QED  BY <1>1, <1>4, WorkerEnds

LEMMA EmitKeeps ==
  ASSUME NEW e, EncShape(e), NEW w, WorkerShape(w), w.at = "output", NEW acc, NEW out, OrderInv(e, w, acc, out),
         NEW v, v.at # "output"
  PROVE  OrderInv(e, v, acc, Append(out, w.ticket.frame))
<1> DEFINE x == w.ticket.frame
           out2 == Append(out, x)
           n == Len(out)
           m == Len(e.fifo)
<1>1. Handed(w) = 1 /\ Handed(v) = 0
  BY DEF Handed
<1>2. /\ acc \in Seq(Nat) /\ out \in Seq(Nat)
      /\ n + 1 + m <= Len(acc)
      /\ ~e.fatal => n + 1 + m = Len(acc)
      /\ \A a \in 1 .. n : out[a] = acc[a]
      /\ x = acc[n + 1]
      /\ \A a \in 1 .. m : e.slot[e.fifo[a]].frame = acc[n + 1 + a]
  BY <1>1 DEF OrderInv
<1>3. x \in Nat
  BY TicketFields DEF WorkerShape, NoTicket
<1>4. n \in Nat /\ m \in Nat
  BY <1>2, EncFields
<1>5. out2 \in Seq(Nat) /\ Len(out2) = n + 1 /\ \A a \in 1 .. n + 1 : out2[a] = IF a = n + 1 THEN x ELSE out[a]
  BY <1>2, <1>3
<1> HIDE DEF out2, x, n, m
<1>6. \A a \in 1 .. n + 1 : a = n + 1 \/ a \in 1 .. n
  BY <1>4
<1>7. \A a \in 1 .. n + 1 : out2[a] = acc[a]
  BY <1>2, <1>5, <1>6
<1>8. n + 1 + 0 + m = n + 1 + m /\ \A a \in 1 .. m : n + 1 + 0 + a = n + 1 + a
  BY <1>4
<1>9. /\ Len(out2) + Handed(v) + m = n + 1 + m
      /\ \A a \in 1 .. m : Len(out2) + Handed(v) + a = n + 1 + a
      /\ 1 .. Len(out2) = 1 .. n + 1
  BY <1>1, <1>5, <1>8
<1>10. /\ Len(out2) + Handed(v) + Len(e.fifo) <= Len(acc)
       /\ ~e.fatal => Len(out2) + Handed(v) + Len(e.fifo) = Len(acc)
  BY <1>2, <1>9 DEF m
<1>11. \A a \in 1 .. Len(e.fifo) : e.slot[e.fifo[a]].frame = acc[Len(out2) + Handed(v) + a]
  BY <1>2, <1>9 DEF m
<1>12. OrderInv(e, v, acc, out2)
  BY <1>2, <1>5, <1>7, <1>9, <1>10, <1>11 DEF OrderInv
<1> QED  BY <1>12 DEF out2, x

LEMMA WorkerOutputsKeeps == EncInv /\ WorkerOutputs => EncInv'
<1> SUFFICES ASSUME EncInv, WorkerOutputs PROVE EncInv'
  OBVIOUS
<1> DEFINE out == Append(emitted, worker.ticket.frame)
<1>1. worker.at = "output" /\ emitted' = out /\ UNCHANGED <<owner, accepted>>
  BY DEF WorkerOutputs
<1>2. /\ owner.at \notin {"closed", "gone"}
      /\ GpuShape(gpu) /\ EncShape(enc) /\ Ids(owner.fresh, owner.done, enc.input, owner.next)
      /\ GpuInv(gpu, owner.fresh, owner.done, enc.input) /\ Busy(gpu, enc, worker)
      /\ OwnerShape(owner) /\ WorkerShape(worker) /\ OwnerInv(enc, owner)
      /\ OrderInv(enc, worker, accepted, emitted)
  BY <1>1, WorkerSplits
<1>3. \A v : v.at # "output" => OrderInv(enc, v, accepted, out)
  BY <1>1, <1>2, EmitKeeps
<1> HIDE DEF out
<1>4. CASE worker' = IdleWorker /\ UNCHANGED <<enc, gpu>>
  <2>1. worker'.at = "wait" /\ WorkerShape(worker')
    BY <1>4 DEF IdleWorker, WorkerShape
  <2>2. Queued(enc) /\ InputInv(enc) /\ WorkInv(enc, worker) /\ Link(gpu, enc, worker)
    BY <1>2 DEF Busy
  <2>3. WorkInv(enc, worker')
    BY <1>1, <2>1, <2>2 DEF WorkInv, Working
  <2>4. Link(gpu, enc, worker')
    BY <1>1, <2>1, <2>2 DEF Link, Place
  <2>5. Busy(gpu, enc, worker')
    BY <2>2, <2>3, <2>4 DEF Busy
  <2> QED  BY <1>1, <1>2, <1>3, <1>4, <2>1, <2>5, WorkerJoins
<1>5. CASE /\ enc' = FailLocked(enc) /\ gpu' = CloseAdmission(gpu)
           /\ worker' = [worker EXCEPT !.at = "done"]
  <2>1. worker'.at = "done"
    BY <1>2, <1>5 DEF WorkerShape
  <2>2. OrderInv(enc, [worker EXCEPT !.at = "done"], accepted, out)
    BY <1>3, <1>5, <2>1
  <2> QED  BY <1>1, <1>5, <2>2, WorkerEnds
<1> QED  BY <1>4, <1>5 DEF WorkerOutputs

(* What completing the head, with its input cleared, makes of the encoder. *)
HeadGone(e, f, k) ==
  /\ f.fifo = Tail(e.fifo) /\ f.input = [e.input EXCEPT ![k] = NoTicket] /\ f.mapped = e.mapped
  /\ f.fatal = e.fatal /\ f.eos = e.eos
  /\ f.slot[k].state = "free"
  /\ \A j \in Surfaces \ {k} :
       /\ f.slot[j].frame = e.slot[j].frame
       /\ \/ f.slot[j].state = e.slot[j].state
          \/ {f.slot[j].state, e.slot[j].state} \subseteq {"submitted_pending_output", "bitstream_lockable"}

LEMMA HeadCompleted ==
  ASSUME NEW e, EncShape(e), e.fifo # << >>, NEW k \in Surfaces, k = Head(e.fifo)
  PROVE  LET f == [CompletedHead(e) EXCEPT !.input[k] = NoTicket]
         IN  EncShape(f) /\ HeadGone(e, f, k)
<1> DEFINE slot == [e.slot EXCEPT ![k] = FreeSubmission]
           fifo == Tail(e.fifo)
           d == [e EXCEPT !.slot = slot, !.fifo = fifo]
           m == CompletedHead(e)
           input == [m.input EXCEPT ![k] = NoTicket]
           f == [m EXCEPT !.input = input]
<1>1. /\ e.slot \in [Surfaces -> SubmissionSet] /\ e.fifo \in Seq(Surfaces)
      /\ e.input \in [Surfaces -> TicketSet \cup {NoTicket}]
  BY EncFields
<1>2. FreeSubmission \in SubmissionSet /\ FreeSubmission.state = "free"
  BY Bounds DEF FreeSubmission, SubmissionSet, SubmissionStates
<1>3. /\ slot \in [Surfaces -> SubmissionSet] /\ slot[k].state = "free"
      /\ \A j \in Surfaces \ {k} : slot[j] = e.slot[j]
  BY <1>1, <1>2
<1>4. fifo \in Seq(Surfaces)
  BY <1>1
<1>5. m = IF e.fatal THEN d ELSE MakeHeadLockable(d)
  BY DEF CompletedHead
<1> HIDE DEF slot, fifo
<1>6. /\ EncShape(d) /\ d.slot = slot /\ d.fifo = fifo /\ d.input = e.input /\ d.mapped = e.mapped
      /\ d.fatal = e.fatal /\ d.eos = e.eos
  BY <1>3, <1>4 DEF EncShape
<1> HIDE DEF d, m
<1>7. EncShape(m) /\ Refreshed(d, m) /\ m.eos = d.eos
  <2>1. CASE e.fatal
    BY <1>5, <1>6, <2>1 DEF Refreshed
  <2>2. CASE ~e.fatal
    <3>1. EncShape(MakeHeadLockable(d)) /\ Refreshed(d, MakeHeadLockable(d))
      BY <1>6, MadeLockable
    <3>2. MakeHeadLockable(d).eos = d.eos
      BY <1>6 DEF MakeHeadLockable, EncShape
    <3> QED  BY <1>5, <2>2, <3>1, <3>2
  <2> QED  BY <2>1, <2>2
<1>8. m.input = e.input
  BY <1>6, <1>7 DEF Refreshed
<1>9. input \in [Surfaces -> TicketSet \cup {NoTicket}]
  BY <1>1, <1>8
<1>10. input = [e.input EXCEPT ![k] = NoTicket]
  BY <1>8
<1> HIDE DEF input
<1>11. /\ EncShape(f) /\ f.slot = m.slot /\ f.fifo = m.fifo /\ f.input = input /\ f.mapped = m.mapped
       /\ f.fatal = m.fatal /\ f.eos = m.eos
  BY <1>7, <1>9 DEF EncShape
<1>12. [CompletedHead(e) EXCEPT !.input[k] = NoTicket] = f
  BY DEF m, input
<1> HIDE DEF f
<1>13. f.slot[k].state = "free"
  BY <1>3, <1>6, <1>7, <1>11 DEF Refreshed
<1>14. \A j \in Surfaces \ {k} :
         /\ f.slot[j].frame = e.slot[j].frame
         /\ \/ f.slot[j].state = e.slot[j].state
            \/ {f.slot[j].state, e.slot[j].state} \subseteq {"submitted_pending_output", "bitstream_lockable"}
  BY <1>3, <1>6, <1>7, <1>11 DEF Refreshed
<1>15. /\ f.fifo = Tail(e.fifo) /\ f.input = [e.input EXCEPT ![k] = NoTicket] /\ f.mapped = e.mapped
       /\ f.fatal = e.fatal /\ f.eos = e.eos
  BY <1>6, <1>7, <1>10, <1>11 DEF Refreshed, fifo
<1> QED  BY <1>11, <1>12, <1>13, <1>14, <1>15 DEF HeadGone

LEMMA HeadGoneKeepsQueue ==
  ASSUME NEW e, EncShape(e), Queued(e), NEW k \in Surfaces, e.fifo # << >>, e.fifo[1] = k,
         NEW f, HeadGone(e, f, k)
  PROVE  Queued(f)
<1> DEFINE n == Len(e.fifo)
<1>1. e.fifo \in Seq(Surfaces)
  BY EncFields
<1>2. n \in Nat /\ n >= 1 /\ \A a \in 1 .. n : e.fifo[a] \in Surfaces
  BY <1>1
<1>3. Len(f.fifo) = n - 1 /\ \A a \in 1 .. n - 1 : f.fifo[a] = e.fifo[a + 1] /\ a + 1 \in 1 .. n /\ a + 1 # 1
  BY <1>1, <1>2 DEF HeadGone
<1>4. \A a, b \in 1 .. n : e.fifo[a] = e.fifo[b] => a = b
  BY DEF Queued
<1>5. 1 \in 1 .. n /\ \A a, b \in 1 .. n - 1 : a + 1 = b + 1 => a = b
  BY <1>2
<1>6. \A a \in 1 .. n - 1 : f.fifo[a] \in Surfaces \ {k}
  BY <1>2, <1>3, <1>4, <1>5
<1> HIDE DEF n
<1>7. \A a, b \in 1 .. Len(f.fifo) : f.fifo[a] = f.fifo[b] => a = b
  BY <1>3, <1>4, <1>5
<1>8. \A j \in Surfaces \ {k} : /\ f.slot[j].state \in Live <=> e.slot[j].state \in Live
                                /\ f.slot[j].state = "bitstream_locked" <=> e.slot[j].state = "bitstream_locked"
  BY DEF HeadGone, Live
<1>9. \A a \in 1 .. n : /\ e.slot[e.fifo[a]].state \in Live
                        /\ e.slot[e.fifo[a]].state = "bitstream_locked" => a = 1
  BY DEF Queued, n
<1>10. \A a \in 1 .. Len(f.fifo) : /\ f.slot[f.fifo[a]].state \in Live
                                   /\ f.slot[f.fifo[a]].state = "bitstream_locked" => a = 1
  BY <1>3, <1>6, <1>8, <1>9
<1>11. \A a \in 1 .. n : a = 1 \/ (a - 1 \in 1 .. n - 1 /\ a - 1 + 1 = a)
  BY <1>2 DEF n
<1>12. ASSUME NEW j \in Surfaces, f.slot[j].state \in Live
       PROVE  \E a \in 1 .. Len(f.fifo) : f.fifo[a] = j
  <2>1. j # k
    BY <1>12 DEF HeadGone, Live
  <2>2. PICK a \in 1 .. n : e.fifo[a] = j
    BY <1>8, <1>12, <2>1 DEF Queued, n
  <2>3. a - 1 \in 1 .. n - 1 /\ a - 1 + 1 = a
    BY <1>11, <2>1, <2>2
  <2>4. f.fifo[a - 1] = j
    BY <1>3, <2>2, <2>3
  <2> QED  BY <1>3, <2>3, <2>4
<1>13. f.fatal => \A j \in Surfaces : f.slot[j].state \in {"free", "bitstream_locked", "abort_pending"}
  BY DEF HeadGone, Queued
<1> QED  BY <1>7, <1>10, <1>12, <1>13 DEF Queued

LEMMA HeadGoneKeepsOrder ==
  ASSUME NEW e, EncShape(e), Queued(e), NEW k \in Surfaces, e.fifo # << >>, e.fifo[1] = k,
         NEW f, HeadGone(e, f, k), NEW w, w.at # "output", NEW acc, NEW out, OrderInv(e, w, acc, out),
         NEW v, v.at = "output", v.ticket.frame = e.slot[k].frame
  PROVE  OrderInv(f, v, acc, out)
<1> DEFINE n == Len(out)
           m == Len(e.fifo)
<1>1. Handed(w) = 0 /\ Handed(v) = 1
  BY DEF Handed
<1>2. /\ acc \in Seq(Nat) /\ out \in Seq(Nat)
      /\ n + 0 + m <= Len(acc)
      /\ ~e.fatal => n + 0 + m = Len(acc)
      /\ \A a \in 1 .. n : out[a] = acc[a]
      /\ \A a \in 1 .. m : e.slot[e.fifo[a]].frame = acc[n + 0 + a]
  BY <1>1 DEF OrderInv
<1>3. e.fifo \in Seq(Surfaces)
  BY EncFields
<1>4. n \in Nat /\ m \in Nat /\ m >= 1 /\ \A a \in 1 .. m : e.fifo[a] \in Surfaces
  BY <1>2, <1>3
<1>5. Len(f.fifo) = m - 1 /\ \A a \in 1 .. m - 1 : f.fifo[a] = e.fifo[a + 1] /\ a + 1 \in 1 .. m /\ a + 1 # 1
  BY <1>3, <1>4 DEF HeadGone
<1>6. \A a, b \in 1 .. m : e.fifo[a] = e.fifo[b] => a = b
  BY DEF Queued
<1> HIDE DEF n, m
<1>7. 1 \in 1 .. m
  BY <1>4
<1>8. \A a \in 1 .. m - 1 : f.fifo[a] \in Surfaces \ {k}
  BY <1>4, <1>5, <1>6, <1>7
<1>9. \A j \in Surfaces \ {k} : f.slot[j].frame = e.slot[j].frame
  BY DEF HeadGone
<1>10. ASSUME NEW a \in 1 .. m - 1 PROVE f.slot[f.fifo[a]].frame = acc[n + 0 + (a + 1)]
  <2>1. f.fifo[a] \in Surfaces \ {k} /\ f.fifo[a] = e.fifo[a + 1] /\ a + 1 \in 1 .. m
    BY <1>5, <1>8
  <2>2. e.slot[e.fifo[a + 1]].frame = acc[n + 0 + (a + 1)]
    BY <1>2, <2>1
  <2>3. f.slot[f.fifo[a]].frame = e.slot[f.fifo[a]].frame
    BY <1>9, <2>1
  <2> QED  BY <2>1, <2>2, <2>3
<1>11. n + 1 + (m - 1) = n + 0 + m /\ \A a \in 1 .. m - 1 : n + 1 + a = n + 0 + (a + 1)
  BY <1>4
<1>12. \A a \in 1 .. Len(f.fifo) : f.slot[f.fifo[a]].frame = acc[n + Handed(v) + a]
  BY <1>1, <1>5, <1>10, <1>11
<1>13. v.ticket.frame = acc[n + 1]
  <2>1. n + 0 + 1 = n + 1
    BY <1>4
  <2> QED  BY <1>2, <1>7, <2>1
<1>14. /\ n + Handed(v) + Len(f.fifo) <= Len(acc)
       /\ ~f.fatal => n + Handed(v) + Len(f.fifo) = Len(acc)
  BY <1>1, <1>2, <1>5, <1>11 DEF HeadGone
<1> QED  BY <1>2, <1>12, <1>13, <1>14 DEF OrderInv, n

LEMMA WorkerCompletesKeeps == EncInv /\ WorkerCompletes => EncInv'
<1> SUFFICES ASSUME EncInv, WorkerCompletes PROVE EncInv'
  OBVIOUS
<1> DEFINE F == owner.fresh
           D == owner.done
           next == owner.next
           inp == enc.input
           t == worker.ticket
           k == t.sur
           f == [CompletedHead(enc) EXCEPT !.input[k] = NoTicket]
           inp2 == [inp EXCEPT ![k] = NoTicket]
<1>1. worker.at = "released" /\ UNCHANGED <<owner, accepted, emitted>>
  BY DEF WorkerCompletes
<1>2. /\ owner.at \notin {"closed", "gone"}
      /\ GpuShape(gpu) /\ EncShape(enc) /\ Ids(F, D, inp, next)
      /\ GpuInv(gpu, F, D, inp) /\ Busy(gpu, enc, worker)
      /\ OwnerShape(owner) /\ WorkerShape(worker) /\ OwnerInv(enc, owner)
      /\ OrderInv(enc, worker, accepted, emitted)
      /\ F \in SUBSET TicketSet /\ D \in SUBSET TicketSet /\ next \in Nat \ {0}
  BY <1>1, WorkerSplits
<1>3. /\ t \in TicketSet /\ k \in Surfaces /\ t # NoTicket /\ inp[k] = t /\ enc.slot[k].state = "bitstream_locked"
      /\ Place(gpu, enc, worker, k)
  BY <1>1, <1>2, WorkedOn DEF Working
<1>4. Queued(enc) /\ InputInv(enc) /\ WorkInv(enc, worker) /\ Link(gpu, enc, worker)
  BY <1>2 DEF Busy
<1>5. enc.fifo # << >> /\ Head(enc.fifo) = k /\ enc.fifo[1] = k
  BY <1>2, <1>3, <1>4, LockedIsHead
<1>6. enc' = f /\ worker' = [worker EXCEPT !.at = "output"] /\ gpu' = gpu
  BY <1>5 DEF WorkerCompletes
<1>7. EncShape(f) /\ HeadGone(enc, f, k)
  BY <1>2, <1>3, <1>5, HeadCompleted
<1> HIDE DEF f
<1>8. worker'.at = "output" /\ worker'.ticket = t /\ WorkerShape(worker')
  BY <1>2, <1>6 DEF WorkerShape
<1>9. ~Owns(gpu.ring.surfaces[k], inp[k])
  BY <1>1, <1>3 DEF Place
<1>10. inp \in [Surfaces -> TicketSet \cup {NoTicket}]
  BY <1>2, EncFields
<1>11. GpuInv(gpu, F, D, inp2) /\ Ids(F, D, inp2, next)
  <2> HIDE DEF F, D, next, inp, k
  <2> QED  BY <1>2, <1>3, <1>9, <1>10, ClearKeeps
<1>12. /\ f.input = inp2 /\ inp2[k] = NoTicket /\ (\A j \in Surfaces \ {k} : inp2[j] = inp[j])
       /\ f.mapped = enc.mapped /\ f.fatal = enc.fatal /\ f.eos = enc.eos /\ f.slot[k].state = "free"
  BY <1>3, <1>7, <1>10 DEF HeadGone
<1>13. \A j \in Surfaces \ {k} :
         /\ f.slot[j].frame = enc.slot[j].frame
         /\ \/ f.slot[j].state = enc.slot[j].state
            \/ {f.slot[j].state, enc.slot[j].state} \subseteq {"submitted_pending_output", "bitstream_lockable"}
  BY <1>7 DEF HeadGone
<1>14. Queued(f)
  BY <1>2, <1>3, <1>4, <1>5, <1>7, HeadGoneKeepsQueue
<1> HIDE DEF inp2
<1>15. ~enc.mapped[k]
  BY <1>1, <1>4 DEF WorkInv
<1>16. InputInv(f)
  <2>1. ASSUME NEW j \in Surfaces
        PROVE  /\ f.slot[j].state # "free" => f.input[j] # NoTicket /\ f.slot[j].frame = f.input[j].frame
               /\ f.mapped[j] => f.slot[j].state # "free"
               /\ f.input[j] # NoTicket => f.input[j].sur = j
    <3>1. CASE j = k
      BY <1>12, <1>15, <3>1
    <3>2. CASE j # k
      BY <1>4, <1>12, <1>13, <3>2 DEF InputInv
    <3> QED  BY <3>1, <3>2
  <2> QED  BY <2>1 DEF InputInv
<1>17. WorkInv(f, worker')
  <2>1. \A j \in Surfaces : f.slot[j].state # "bitstream_locked"
    BY <1>1, <1>4, <1>12, <1>13 DEF WorkInv
  <2> QED  BY <1>8, <2>1 DEF WorkInv, Working
<1>18. Link(gpu, f, worker')
  <2>1. SUFFICES ASSUME NEW j \in Surfaces, j # k, inp[j] # NoTicket PROVE Place(gpu, f, worker', j)
    BY <1>12 DEF Link
  <2>2. Place(gpu, enc, worker, j) /\ f.input[j] = inp[j]
    BY <1>4, <1>12, <2>1 DEF Link
  <2>3. /\ f.slot[j].state \in Live <=> enc.slot[j].state \in Live
        /\ f.slot[j].state = "abort_pending" <=> enc.slot[j].state = "abort_pending"
    BY <1>13, <2>1 DEF Live
  <2> QED  BY <1>1, <1>8, <2>1, <2>2, <2>3 DEF Place
<1>19. Busy(gpu, f, worker')
  BY <1>14, <1>16, <1>17, <1>18 DEF Busy
<1>20. OwnerInv(f, owner)
  <2>1. SUFFICES ASSUME owner.at = "retry"
                 PROVE  /\ owner.ticket # NoTicket /\ f.input[owner.ticket.sur] = owner.ticket
                        /\ f.slot[owner.ticket.sur].state = enc.slot[owner.ticket.sur].state
    BY <1>2, <1>12, <2>1 DEF OwnerInv
  <2>2. /\ owner.ticket # NoTicket /\ enc.input[owner.ticket.sur] = owner.ticket
        /\ enc.slot[owner.ticket.sur].state \in {"submit_retry_pending", "abort_pending"}
    BY <1>2, <2>1 DEF OwnerInv
  <2>3. owner.ticket.sur \in Surfaces
    BY <1>2, <2>2, TicketFields DEF OwnerShape
  <2>4. owner.ticket.sur # k
    BY <1>3, <2>2
  <2> QED  BY <1>12, <1>13, <2>2, <2>3, <2>4
<1>21. worker'.ticket.frame = enc.slot[k].frame
  BY <1>3, <1>4, <1>8 DEF InputInv
<1>22. OrderInv(f, worker', accepted, emitted)
  BY <1>1, <1>2, <1>3, <1>4, <1>5, <1>7, <1>8, <1>21, HeadGoneKeepsOrder
<1> QED  BY <1>1, <1>2, <1>6, <1>7, <1>8, <1>11, <1>12, <1>19, <1>20, <1>22, WorkerJoins

-----------------------------------------------------------------------------
(* The invariant and what it shows *)

LEMMA EncInitHolds == EncInit => EncInv
<1> SUFFICES ASSUME EncInit PROVE EncInv
  OBVIOUS
<1> DEFINE inp == [k \in Surfaces |-> NoTicket]
           slot == [k \in Surfaces |-> FreeSubmission]
           bare == [k \in Surfaces |-> FALSE]
<1>1. PICK works \in BOOLEAN : enc = Initialized(NewEncoder, works)
  BY DEF EncInit
<1>2. /\ gpu = NewGpu
      /\ owner = [at |-> "run", ticket |-> NoTicket, next |-> 1, fresh |-> {}, done |-> {}, then |-> "run"]
      /\ worker = [IdleWorker EXCEPT !.at = IF enc.fatal THEN "done" ELSE "wait"]
      /\ accepted = << >> /\ emitted = << >>
  BY DEF EncInit
<1>3. /\ inp \in [Surfaces -> TicketSet \cup {NoTicket}] /\ slot \in [Surfaces -> SubmissionSet]
      /\ bare \in [Surfaces -> BOOLEAN] /\ << >> \in Seq(Surfaces)
  BY Bounds DEF FreeSubmission, SubmissionSet, SubmissionStates
<1>4. enc = [slot |-> slot, fifo |-> << >>, last |-> 0, input |-> inp, mapped |-> bare,
             open |-> works, eos |-> FALSE, fatal |-> ~works]
  BY <1>1 DEF Initialized, NewEncoder, Surfaces
<1>5. /\ \A k \in Surfaces : inp[k] = NoTicket /\ ~bare[k] /\ slot[k].state = "free"
      /\ NoTicket.frame = 0
  BY DEF FreeSubmission, NoTicket
<1> HIDE DEF inp, slot, bare
<1>6. EncShape(enc)
  BY <1>3, <1>4 DEF EncShape
<1>7. GpuShape(gpu)
  <2>1. FreeSlotIn \in SourceSet /\ FreeSlotIn \in SurfaceSet /\ IdleSurface \in UsedSet
    BY Bounds DEF FreeSlotIn, SourceSet, SurfaceSet, SourceStates, SurfaceStates, NoRange, RangeSet,
                  IdleSurface, UsedSet
  <2>2. NewRing \in RingSet
    BY <2>1 DEF NewRing, RingSet, Sources, Surfaces
  <2> QED  BY <1>2, <2>1, <2>2, Bounds DEF NewGpu, GpuShape, Sources, Surfaces
<1>8. /\ \A i \in Sources : ~gpu.src[i] /\ gpu.ring.sources[i] = FreeSlotIn
      /\ \A k \in Surfaces : gpu.sur[k] = IdleSurface /\ gpu.ring.surfaces[k] = FreeSlotIn
  BY <1>2 DEF NewGpu, NewRing, Sources, Surfaces
<1>9. /\ owner.at = "run" /\ owner.fresh = {} /\ owner.done = {} /\ owner.next = 1
      /\ OwnerShape(owner)
  BY <1>2, Bounds DEF OwnerShape, OwnerSteps
<1>10. worker.at = (IF enc.fatal THEN "done" ELSE "wait") /\ WorkerShape(worker)
  BY <1>2 DEF WorkerShape, IdleWorker
<1>11. /\ enc.slot = slot /\ enc.input = inp /\ enc.mapped = bare /\ enc.fifo = << >>
  BY <1>4
<1>12. Ids({}, {}, enc.input, 1)
  BY <1>5, <1>11 DEF Ids
<1>13. GpuInv(gpu, {}, {}, enc.input)
  BY <1>8 DEF GpuInv, SourceAgrees, SourceHeld, SurfaceAgrees, SurfaceHeld, FreeSlotIn, IdleSurface
<1>14. Queued(enc) /\ InputInv(enc) /\ Link(gpu, enc, worker)
  BY <1>5, <1>11 DEF Queued, InputInv, Link, Live
<1>15. WorkInv(enc, worker)
  BY <1>5, <1>10, <1>11 DEF WorkInv, Working
<1>16. OwnerInv(enc, owner)
  BY <1>9 DEF OwnerInv
<1>17. OrderInv(enc, worker, accepted, emitted)
  <2>1. Handed(worker) = 0 /\ worker.at # "output"
    BY <1>10 DEF Handed
  <2> QED  BY <1>2, <1>11, <2>1 DEF OrderInv
<1> QED  BY <1>6, <1>7, <1>9, <1>10, <1>12, <1>13, <1>14, <1>15, <1>16, <1>17 DEF EncInv, Busy

LEMMA EncStepHolds == EncInv /\ DriverInv /\ [EncNext]_encVars => EncInv'
<1> SUFFICES ASSUME EncInv, DriverInv, [EncNext]_encVars PROVE EncInv'
  OBVIOUS
<1>1. CASE WorkerNext
  BY <1>1, WorkerExitsKeeps, WorkerLocksKeeps, WorkerCopiesKeeps, WorkerMarksKeeps, WorkerReleasesKeeps,
     WorkerFailsKeeps, WorkerCompletesKeeps, WorkerOutputsKeeps DEF WorkerNext
<1>2. CASE OwnerEnds
  BY <1>2, SubmitAgainKeeps, FlushReturnsKeeps, CloseReturnsKeeps DEF OwnerEnds
<1>3. CASE Enqueue1 \/ AwaitFrame \/ SubmitInvalid \/ SubmitThrows \/ Submit
  BY <1>3, Enqueue1Keeps, AwaitFrameKeeps, SubmitInvalidKeeps, SubmitThrowsKeeps, SubmitKeeps
<1>4. CASE Flush \/ Close \/ DestroyPreprocessor
  BY <1>4, FlushKeeps, CloseKeeps, DestroyPreprocessorKeeps
<1>5. CASE UNCHANGED encVars
  <2>1. /\ gpu' = gpu /\ enc' = enc /\ driver' = driver /\ owner' = owner /\ worker' = worker
        /\ accepted' = accepted /\ emitted' = emitted
    BY <1>5 DEF encVars
  <2> QED  BY <2>1 DEF EncInv
<1> QED  BY <1>1, <1>2, <1>3, <1>4, <1>5 DEF EncNext

LEMMA DriverInitHolds == EncInit => DriverInv
<1> SUFFICES ASSUME EncInit PROVE DriverInv
  OBVIOUS
<1>1. PICK works \in BOOLEAN : enc = Initialized(NewEncoder, works)
  BY DEF EncInit
<1>2. /\ enc.open = works /\ enc.fatal = ~works
      /\ enc.input = [k \in Surfaces |-> NoTicket] /\ enc.mapped = [k \in Surfaces |-> FALSE]
  BY <1>1 DEF Initialized, NewEncoder, Surfaces
<1>3. enc.fatal => worker.at = "done"
  BY DEF EncInit, IdleWorker
<1>4. enc.open => driver
  BY DEF EncInit
<1> QED  BY <1>2, <1>3, <1>4 DEF DriverInv, Emptied

(* Without a session every step but the destruction leaves the encoder and *)
(* its worker alone.                                                       *)
LEMMA DriverStepHolds == EncInv /\ DriverInv /\ [EncNext]_encVars => DriverInv'
<1> SUFFICES ASSUME EncInv, DriverInv, [EncNext]_encVars, owner'.at \notin {"closed", "gone"}, ~driver'
             PROVE  enc'.fatal /\ worker'.at = "done" /\ Emptied(enc')
  BY DEF DriverInv
<1>1. EncShape(enc) /\ OwnerShape(owner)
  BY DEF EncInv
<1>2. ~CloseReturns /\ ~DestroyPreprocessor
  BY <1>1 DEF CloseReturns, DestroyPreprocessor, OwnerShape
<1>3. owner.at \notin {"closed", "gone"}
  <2>1. CASE WorkerNext
    <3>1. owner' = owner
      BY <2>1 DEF WorkerNext, WorkerExits, WorkerLocks, WorkerCopies, WorkerMarks, WorkerReleases,
                  WorkerFails, WorkerCompletes, WorkerOutputs
    <3> QED  BY <3>1
  <2>2. CASE OwnerEnds
    BY <1>2, <2>2 DEF OwnerEnds, SubmitAgain, FlushReturns
  <2>3. CASE Enqueue1 \/ AwaitFrame \/ SubmitInvalid \/ SubmitThrows \/ Submit \/ Flush \/ Close
    BY <2>3 DEF Enqueue1, AwaitFrame, SubmitInvalid, SubmitThrows, Submit, Flush, Close
  <2>4. CASE UNCHANGED encVars
    BY <2>4 DEF encVars
  <2> QED  BY <1>2, <2>1, <2>2, <2>3, <2>4 DEF EncNext
<1>4. driver' = driver
  <2>1. CASE WorkerNext
    BY <2>1 DEF WorkerNext, WorkerExits, WorkerLocks, WorkerCopies, WorkerMarks, WorkerReleases,
                WorkerFails, WorkerCompletes, WorkerOutputs
  <2>2. CASE OwnerEnds
    BY <1>2, <2>2 DEF OwnerEnds, SubmitAgain, SubmitRound, FlushReturns
  <2>3. CASE Enqueue1 \/ AwaitFrame \/ SubmitInvalid \/ SubmitThrows \/ Submit \/ Flush \/ Close
    BY <2>3 DEF Enqueue1, AwaitFrame, SubmitInvalid, SubmitThrows, Submit, SubmitRound, Flush, Flushing, Close
  <2>4. CASE UNCHANGED encVars
    BY <2>4 DEF encVars
  <2> QED  BY <1>2, <2>1, <2>2, <2>3, <2>4 DEF EncNext
<1>5. enc.fatal /\ worker.at = "done" /\ Emptied(enc)
  BY <1>3, <1>4 DEF DriverInv
<1>6. owner.at # "retry"
  <2> SUFFICES ASSUME owner.at = "retry" PROVE FALSE
    OBVIOUS
  <2>1. owner.ticket # NoTicket /\ enc.input[owner.ticket.sur] = owner.ticket
    BY <1>3 DEF EncInv, OwnerInv
  <2>2. owner.ticket.sur \in Surfaces
    BY <1>1, <2>1 DEF OwnerShape, TicketSet
  <2> QED  BY <1>5, <2>1, <2>2 DEF Emptied
<1>7. enc' = enc /\ worker' = worker
  <2>1. ~WorkerNext
    BY <1>5 DEF WorkerNext, WorkerExits, WorkerLocks, WorkerCopies, WorkerMarks, WorkerReleases,
                WorkerFails, WorkerCompletes, WorkerOutputs
  <2>2. CASE OwnerEnds
    BY <1>2, <1>6, <2>2 DEF OwnerEnds, SubmitAgain, FlushReturns
  <2>3. ~SubmitInvalid /\ ~SubmitThrows /\ ~Submit /\ ~Flush
    BY <1>5 DEF SubmitInvalid, SubmitThrows, Submit, SubmitAdmits, Flush
  <2>4. CASE Enqueue1 \/ AwaitFrame \/ Close
    BY <1>5, <2>4 DEF Enqueue1, AwaitFrame, Close
  <2>5. CASE UNCHANGED encVars
    BY <2>5 DEF encVars
  <2> QED  BY <1>2, <2>1, <2>2, <2>3, <2>4, <2>5 DEF EncNext
<1> QED  BY <1>5, <1>7 DEF Emptied

LEMMA InvStaysPut == EncInv => SurfacesStayPut
<1> SUFFICES ASSUME EncInv PROVE SurfacesStayPut
  OBVIOUS
<1>1. GpuShape(gpu) /\ EncShape(enc) /\ OwnerShape(owner) /\ WorkerShape(worker)
  BY DEF EncInv
<1>2. EncTypeOK
  <2>1. GpuType(gpu, 1 .. EncMaxFrames)
    <3>1. /\ gpu.ring \in RingSet /\ gpu.sur \in [Surfaces -> UsedSet] /\ gpu.ready \in BOOLEAN
          /\ gpu.last \in 0 .. EncMaxFrames
      BY <1>1 DEF GpuShape
    <3>2. /\ \A i \in Sources : gpu.ring.sources[i] \in SourceSet
          /\ \A k \in Surfaces : gpu.ring.surfaces[k] \in SurfaceSet /\ gpu.sur[k] \in UsedSet
          /\ gpu.ring.open \in BOOLEAN
      BY <3>1 DEF RingSet
    <3>3. 0 .. EncMaxFrames \subseteq (1 .. EncMaxFrames) \cup {0}
      BY Bounds
    <3>4. \A i \in Sources : gpu.ring.sources[i].state \in SourceStates
      BY <3>2 DEF SourceSet
    <3>5. \A k \in Surfaces : gpu.ring.surfaces[k].state \in SurfaceStates /\ gpu.sur[k].frame \in 0 .. EncMaxFrames
      BY <3>2 DEF SurfaceSet, UsedSet
    <3> QED  BY <3>1, <3>2, <3>3, <3>4, <3>5 DEF GpuType, Sources, Surfaces
  <2>2. \A k \in Surfaces : enc.slot[k].state \in SubmissionStates /\ enc.slot[k].retries <= EncMaxRetries
    <3>1. \A k \in Surfaces : enc.slot[k] \in SubmissionSet
      BY <1>1, EncFields
    <3>2. \A b \in SubmissionSet : b.state \in SubmissionStates /\ b.retries <= EncMaxRetries
      BY Bounds DEF SubmissionSet
    <3> QED  BY <3>1, <3>2
  <2>3. /\ owner.at \in {"run", "retry", "drain", "join", "closed", "gone"}
        /\ worker.at \in {"wait", "locked", "copied", "marked", "released", "failed", "output", "done"}
    BY <1>1 DEF OwnerShape, OwnerSteps, WorkerShape, Working
  <2> QED  BY <2>1, <2>2, <2>3 DEF EncTypeOK, Surfaces
<1>3. owner.at # "gone" => RingAgrees(gpu)
  BY <1>1, AgreementIsRingAgrees DEF EncInv, GpuInv
<1>4. DOMAIN enc.input = Surfaces
  BY <1>1, EncFields
<1>5. CASE owner.at = "gone" \/ (owner.at = "closed" /\ ~driver)
  <2>1. driver \/ Emptied(enc)
    BY <1>5 DEF EncInv, Torn
  <2> QED  BY <1>2, <1>3, <1>4, <1>5, <2>1 DEF Emptied, SurfacesStayPut
<1>6. CASE ~(owner.at = "gone" \/ (owner.at = "closed" /\ ~driver))
  <2>1. Busy(gpu, enc, worker)
    BY <1>6 DEF EncInv
  <2>2. InputInv(enc) /\ WorkInv(enc, worker) /\ Link(gpu, enc, worker)
    BY <2>1 DEF Busy
  <2>3. ASSUME NEW k \in Surfaces, enc.mapped[k]
        PROVE  /\ enc.input[k].sur = k /\ Owns(gpu.ring.surfaces[k], enc.input[k])
               /\ gpu.ring.surfaces[k].state \in {"ready_to_submit", "submitted"}
    <3>1. enc.input[k] # NoTicket /\ enc.input[k].sur = k
      BY <2>2, <2>3 DEF InputInv
    <3>2. Place(gpu, enc, worker, k)
      BY <2>2, <3>1 DEF Link
    <3>3. ~(worker.at \in {"marked", "released"} /\ worker.ticket.sur = k)
      BY <2>2, <2>3 DEF WorkInv
    <3>4. SurfaceIs(gpu.ring, enc.input[k], "submitted") \/ Written(gpu, enc.input[k])
      BY <3>2, <3>3 DEF Place
    <3> QED  BY <3>1, <3>4 DEF SurfaceIs, Written, Owns
  <2>4. \A k \in Surfaces : enc.slot[k].state # "free" => enc.slot[k].frame = enc.input[k].frame
    BY <2>2 DEF InputInv
  <2> QED  BY <1>2, <1>3, <1>4, <2>3, <2>4 DEF SurfacesStayPut
<1> QED  BY <1>5, <1>6

LEMMA InvFollows == EncInv => OutputFollowsSubmission
<1> SUFFICES ASSUME EncInv PROVE OutputFollowsSubmission
  OBVIOUS
<1>1. /\ accepted \in Seq(Nat) /\ emitted \in Seq(Nat)
      /\ Len(emitted) + Handed(worker) + Len(enc.fifo) <= Len(accepted)
      /\ ~enc.fatal => Len(emitted) + Handed(worker) + Len(enc.fifo) = Len(accepted)
      /\ \A a \in 1 .. Len(emitted) : emitted[a] = accepted[a]
  BY DEF EncInv, OrderInv
<1>2. GpuShape(gpu) /\ EncShape(enc)
  BY DEF EncInv
<1>3. Handed(worker) \in Nat /\ Len(enc.fifo) \in Nat /\ Len(emitted) \in Nat /\ Len(accepted) \in Nat
  BY <1>1, <1>2, EncFields DEF Handed
<1>4. Len(emitted) <= Len(accepted)
  BY <1>1, <1>3
<1>5. IsPrefix(emitted, accepted)
  BY <1>1, <1>4 DEF IsPrefix
<1>6. ASSUME owner.at = "closed", ~enc.fatal PROVE emitted = accepted
  <2>1. Handed(worker) = 0 /\ Len(enc.fifo) = 0
    BY <1>6 DEF EncInv, Torn, Handed
  <2>2. Len(emitted) = Len(accepted)
    BY <1>1, <1>3, <1>6, <2>1
  <2> QED  BY <1>1, <2>2
<1>7. ASSUME owner.at = "closed", NEW k \in Surfaces, gpu.sur[k].used
      PROVE  \/ \E t \in owner.fresh \cup owner.done : t.frame = gpu.sur[k].frame
             \/ driver /\ enc.input[k].frame = gpu.sur[k].frame
  <2>1. SurfaceAgrees(gpu, k) /\ SurfaceHeld(gpu, owner.fresh, owner.done, enc.input, k)
    BY <1>7 DEF EncInv, GpuInv
  <2>2. driver \/ enc.input[k] = NoTicket
    BY <1>7 DEF EncInv, Torn, Emptied
  <2> QED  BY <1>7, <2>1, <2>2 DEF SurfaceAgrees, SurfaceHeld
<1>8. DOMAIN gpu.sur = Surfaces
  BY <1>2, GpuFields
<1>9. owner.at = "closed" /\ driver => enc.fatal
  BY DEF EncInv, Torn
<1> QED  BY <1>5, <1>6, <1>7, <1>8, <1>9 DEF OutputFollowsSubmission

THEOREM EncAlways == EncSpec => [](EncInv /\ DriverInv)
<1>1. EncInit => EncInv /\ DriverInv
  BY EncInitHolds, DriverInitHolds
<1>2. EncInv /\ DriverInv /\ [EncNext]_encVars => (EncInv /\ DriverInv)'
  BY EncStepHolds, DriverStepHolds
<1> QED  BY <1>1, <1>2, PTL DEF EncSpec

(* SurfacesStayPut: while the driver may read a mapped surface, the        *)
(* preprocessor keeps it with the submitted frame, at the same number in   *)
(* the ring, the preprocessor, the coordinator and the encoder, and never  *)
(* writes another frame into it; a mapping outlives the preprocessor only  *)
(* with a driver whose teardown had no context.                            *)
THEOREM SurfacesStay == EncSpec => []SurfacesStayPut
<1> QED  BY EncAlways, InvStaysPut, PTL

(* OutputFollowsSubmission: the callback sees the accepted frames in the   *)
(* order of their submission, with no gap and none twice; a close leaves   *)
(* no frame behind unless the encoder failed, and a surface only with a    *)
(* driver whose teardown had no context, which is reported as a failure.   *)
THEOREM OutputFollows == EncSpec => []OutputFollowsSubmission
<1> QED  BY EncAlways, InvFollows, PTL
-----------------------------------------------------------------------------
(* The record command: what is where. *)

CapFrames == [id : 0 .. CapMaxFrames, epoch : 0 .. CapMaxEpochs, time : 0 .. RecMaxTime + 1]
CapSlotSet == [state : {"free", "copying", "ready", "leased"}, id : 0 .. CapMaxFrames,
               frame : CapFrames]
PoolShape(p) ==
  p \in [slot : [1 .. CapSlots -> CapSlotSet], epoch : 0 .. CapMaxEpochs,
         next : 1 .. CapMaxFrames + 1, open : BOOLEAN, terminal : TerminalStates \cup {"idle"}]

JobShape(j) ==
  j \in [at : {"idle", "copy", "complete", "reject"}, id : 0 .. CapMaxFrames,
         index : 0 .. CapSlots, epoch : 0 .. CapMaxEpochs, time : 0 .. RecMaxTime + 1,
         whole : BOOLEAN]

LeaseShape(l) == l \in [index : 0 .. CapSlots, frame : CapFrames]

Lives == TerminalStates \cup {"idle", "streaming", "creating_session", "selecting_sources",
                              "starting"}
PortalShape(p) ==
  p \in [life : Lives, bus : BOOLEAN, session : BOOLEAN, subscribed : BOOLEAN,
         terminal : {"none", "revoked", "disconnected"}, grant : BOOLEAN]

DesktopShape(d) ==
  d \in [session : {"none", "open", "closed", "gone", "orphan"},
         signals : SUBSET {"revoked", "disconnected"}]

PwShape(w) ==
  w \in [loop : BOOLEAN, leaving : BOOLEAN, active : BOOLEAN, stopping : BOOLEAN,
         format : BOOLEAN, failing : BOOLEAN, fd : BOOLEAN]

Opening == {"bus", "create", "select", "start", "node", "recorder", "capture"}
Recording == {"wait", "loop", "take", "frame"}
Ending == {"stop", "flags", "leave", "join", "close", "finalize", "destroyed", "done"}

LocalSet == [first : Int, slot : Int, epoch : Nat, geometry : Nat, force : BOOLEAN]
CmdShape(c) ==
  c \in [at : Opening \cup Recording \cup Ending, started : BOOLEAN, state : TerminalStates,
         var : LocalSet]

FileShape(f) ==
  f \in [state : {"none", "recording", "finalized"},
         last : [epoch : Nat, idr : BOOLEAN, geometry : Nat, frame : Nat]]

(* Frame ids are given out in order: what was recorded is older than what  *)
(* is leased, that than what is ready, that than what is being copied.     *)
Active(j) == j.at \in {"copy", "complete"}

Ready(p, i) == p.slot[i].state = "ready"

PoolOrder(p, j, l, last) ==
  /\ ~p.open => p.terminal \in TerminalStates
  /\ l # NoLease => last < l.frame.id
  /\ last < p.next /\ l.frame.id < p.next
  /\ \A i \in 1 .. CapSlots : Ready(p, i) =>
       /\ p.open /\ p.slot[i].frame.epoch = p.epoch /\ p.epoch >= 1
       /\ p.slot[i].frame.id = p.slot[i].id /\ p.slot[i].id < p.next
       /\ p.slot[i].id > l.frame.id /\ p.slot[i].id > last

LeaseOwned(p, l) ==
  l # NoLease =>
    /\ l.index \in 1 .. CapSlots /\ l.frame.epoch >= 1
    /\ p.slot[l.index].state = "leased" /\ p.slot[l.index].id = l.frame.id
    /\ p.slot[l.index].frame = l.frame

JobOwned(p, j, l, last) ==
  /\ Active(j) =>
       /\ j.index \in 1 .. CapSlots /\ j.epoch >= 1
       /\ p.slot[j.index].state = "copying" /\ p.slot[j.index].id = j.id
       /\ j.id < p.next /\ j.id > l.frame.id /\ j.id > last
       /\ \A i \in 1 .. CapSlots : Ready(p, i) => p.slot[i].id < j.id
  /\ \A i \in 1 .. CapSlots : p.slot[i].state = "copying" => Active(j) /\ j.index = i
  /\ j.at = "idle" => j = NoJob

PoolInv(p, j, l, last) ==
  PoolOrder(p, j, l, last) /\ LeaseOwned(p, l) /\ JobOwned(p, j, l, last)

(* The portal's session is open only as long as the client knows it, and   *)
(* the loop thread works only while it runs.                               *)
SourceInv(c, j, po, d, w) ==
  /\ c.at \in Opening => ~w.loop
  /\ w.fd => w.loop
  /\ j.at # "idle" => w.loop
  /\ c.at \in Opening \ {"bus"} => po.bus
  /\ c.at \in {"bus", "create"} => ~po.session
  /\ po.session => po.bus
  /\ d.session = "open" => po.session
  /\ c.at = "done" => ~w.loop /\ ~po.grant /\ ~po.session

LocalsInv(c) ==
  \/ c.var.first = -1 /\ c.var.slot = -1
  \/ c.var.first >= 0 /\ c.var.slot >= 0 /\ c.var.first + c.var.slot <= RecMaxTime + 1

(* An epoch the recording has no unit of is still owed its IDR. *)
ChainInv(c, last) ==
  c.at \in Opening \cup Recording =>
    /\ last.epoch <= c.var.epoch
    /\ last.epoch < c.var.epoch => c.var.force
    /\ last.epoch = c.var.epoch => last.geometry = c.var.geometry /\ c.var.geometry # 0

RecShape ==
  /\ PoolShape(pool) /\ JobShape(job) /\ LeaseShape(lease) /\ PortalShape(portal)
  /\ DesktopShape(desktop) /\ PwShape(pw) /\ CmdShape(cmd) /\ FileShape(file)

RecInv ==
  /\ RecShape
  /\ PoolInv(pool, job, lease, file.last.frame)
  /\ (lease # NoLease <=> cmd.at = "frame")
  /\ SourceInv(cmd, job, portal, desktop, pw)
  /\ LocalsInv(cmd) /\ ChainInv(cmd, file.last)

-----------------------------------------------------------------------------
(* The bounds are numbers, and an empty slot is a slot. *)
LEMMA CapBounds ==
  /\ CapSlots \in Nat /\ CapMaxFrames \in Nat /\ CapMaxEpochs \in Nat /\ RecMaxTime \in Nat
  /\ NoFrame \in CapFrames /\ FreeSlot \in CapSlotSet
<1>1. CapSlots \in Nat /\ CapMaxFrames \in Nat /\ CapMaxEpochs \in Nat /\ RecMaxTime \in Nat
  BY PoolAssumption, CommandAssumption
<1>2. NoFrame \in CapFrames
  BY <1>1 DEF NoFrame, CapFrames
<1> QED  BY <1>1, <1>2 DEF FreeSlot, CapSlotSet

(* A bounded set of integers has a greatest element. *)
LEMMA MostOfSome ==
  ASSUME NEW S \in SUBSET Int, NEW b \in Int, \A x \in S : x <= b, S # {}
  PROVE  Max(S) \in S /\ \A x \in S : x <= Max(S)
<1> DEFINE T == {b - x : x \in S}
<1>1. T \in SUBSET Nat /\ T # {}
  <2>1. \A x \in S : b - x \in Nat
    OBVIOUS
  <2>2. PICK x \in S : TRUE
    OBVIOUS
  <2>3. b - x \in T
    OBVIOUS
  <2> QED  BY <2>1, <2>3
<1>2. Min(T) \in T /\ \A x \in T : Min(T) <= x
  BY <1>1, LeastOfSome
<1>3. PICK m \in S : Min(T) = b - m
  BY <1>2
<1>4. \A y \in S : m >= y
  <2> TAKE y \in S
  <2>1. b - y \in T
    OBVIOUS
  <2>2. b - m <= b - y
    BY <1>2, <1>3, <2>1
  <2> QED  BY <2>2
<1>5. \A x \in S : Max(S) >= x /\ Max(S) \in S
  BY <1>4 DEF Max
<1> QED  BY <1>4, <1>5 DEF Max

(* Waiting frames are dropped, or nothing: the order of ids and the owners *)
(* of leased and half copied slots stay.                                   *)
Thinned(p, q) ==
  /\ q.next = p.next /\ (~q.open => q.terminal \in TerminalStates)
  /\ \A i \in 1 .. CapSlots : q.slot[i] = p.slot[i] \/ (Ready(p, i) /\ q.slot[i] = FreeSlot)
  /\ \A i \in 1 .. CapSlots : Ready(q, i) => q.open = p.open /\ q.epoch = p.epoch

LEMMA ThinnedKeeps ==
  ASSUME NEW p, NEW q, NEW j, NEW l, NEW last, Thinned(p, q), PoolInv(p, j, l, last)
  PROVE  PoolInv(q, j, l, last)
<1>1. \A i \in 1 .. CapSlots : Ready(q, i) => Ready(p, i) /\ q.slot[i] = p.slot[i]
  BY DEF Thinned, Ready, FreeSlot
<1>2. PoolOrder(q, j, l, last)
  BY <1>1 DEF Thinned, PoolInv, PoolOrder
<1>3. LeaseOwned(q, l)
  BY DEF Thinned, PoolInv, LeaseOwned, Ready
<1>4. JobOwned(q, j, l, last)
  BY <1>1 DEF Thinned, PoolInv, JobOwned, Ready, FreeSlot
<1> QED  BY <1>2, <1>3, <1>4 DEF PoolInv

(* What DropReady leaves of the pool. *)
LEMMA DropFields ==
  ASSUME NEW p, PoolShape(p)
  PROVE  /\ PoolShape(DropReady(p))
         /\ DropReady(p).epoch = p.epoch /\ DropReady(p).next = p.next
         /\ DropReady(p).open = p.open /\ DropReady(p).terminal = p.terminal
         /\ \A i \in 1 .. CapSlots :
              DropReady(p).slot[i] = IF Ready(p, i) THEN FreeSlot ELSE p.slot[i]
<1>1. DOMAIN p.slot = 1 .. CapSlots
  BY DEF PoolShape
<1>2. [i \in DOMAIN p.slot |-> IF p.slot[i].state = "ready" THEN FreeSlot ELSE p.slot[i]]
        \in [1 .. CapSlots -> CapSlotSet]
  BY <1>1, CapBounds DEF PoolShape
<1> QED  BY <1>1, <1>2 DEF DropReady, PoolShape, Ready

LEMMA NoneReady ==
  ASSUME NEW p, PoolShape(p), NEW i \in 1 .. CapSlots
  PROVE  ~Ready(DropReady(p), i)
BY DropFields DEF Ready, FreeSlot

(* The pool ends. *)
LEMMA StoppedFields ==
  ASSUME NEW p, PoolShape(p), NEW s \in TerminalStates, NEW j, NEW l, NEW last,
         PoolInv(p, j, l, last)
  PROVE  PoolShape(Stopped(p, s)) /\ PoolInv(Stopped(p, s), j, l, last)
<1> DEFINE q == [DropReady(p) EXCEPT !.open = FALSE, !.terminal = s]
<1>1. CASE ~p.open
  BY <1>1 DEF Stopped
<1>2. CASE p.open
  <2>1. Stopped(p, s) = q
    BY <1>2 DEF Stopped
  <2>2. PoolShape(DropReady(p))
    BY DropFields
  <2>3. PoolShape(q) /\ q.slot = DropReady(p).slot /\ q.next = DropReady(p).next /\ q.terminal = s
    BY <2>2 DEF PoolShape
  <2>4. Thinned(p, q)
    <3>1. \A i \in 1 .. CapSlots : ~Ready(q, i)
      BY <2>3, NoneReady DEF Ready
    <3>2. \A i \in 1 .. CapSlots : q.slot[i] = p.slot[i] \/ (Ready(p, i) /\ q.slot[i] = FreeSlot)
      BY <2>3, DropFields
    <3>3. q.next = p.next
      BY <2>3, DropFields
    <3> HIDE DEF q
    <3> QED  BY <2>3, <3>1, <3>2, <3>3 DEF Thinned
  <2> HIDE DEF q
  <2> QED  BY <2>1, <2>3, <2>4, ThinnedKeeps
<1> QED  BY <1>1, <1>2 DEF PoolShape

(* A new geometry, or the old one. *)
LEMMA GeometryFields ==
  ASSUME NEW p, PoolShape(p), NEW same \in BOOLEAN, NEW j, NEW l, NEW last,
         PoolInv(p, j, l, last), WithGeometry(p, same).epoch <= CapMaxEpochs
  PROVE  /\ PoolShape(WithGeometry(p, same)) /\ PoolInv(WithGeometry(p, same), j, l, last)
         /\ WithGeometry(p, same).epoch >= 1
         /\ WithGeometry(p, same).next = p.next /\ WithGeometry(p, same).open = p.open
<1> DEFINE q == [DropReady(p) EXCEPT !.epoch = p.epoch + 1]
<1>1. CASE p.epoch # 0 /\ same
  BY <1>1 DEF WithGeometry, PoolShape
<1>2. CASE ~(p.epoch # 0 /\ same)
  <2>1. WithGeometry(p, same) = q
    BY <1>2 DEF WithGeometry
  <2>2. PoolShape(DropReady(p))
    BY DropFields
  <2>3. /\ q.slot = DropReady(p).slot /\ q.next = DropReady(p).next
        /\ q.terminal = DropReady(p).terminal /\ q.open = DropReady(p).open
        /\ q.epoch = p.epoch + 1
    BY <2>2 DEF PoolShape
  <2>4. p.epoch + 1 \in 0 .. CapMaxEpochs
    BY <2>1, <2>3, CapBounds DEF PoolShape
  <2>5. PoolShape(q)
    BY <2>2, <2>4 DEF PoolShape
  <2>6. Thinned(p, q)
    <3>1. \A i \in 1 .. CapSlots : ~Ready(q, i)
      BY <2>3, NoneReady DEF Ready
    <3>2. \A i \in 1 .. CapSlots : q.slot[i] = p.slot[i] \/ (Ready(p, i) /\ q.slot[i] = FreeSlot)
      BY <2>3, DropFields
    <3>3. q.next = p.next /\ q.open = p.open /\ q.terminal = p.terminal
      BY <2>3, DropFields
    <3> HIDE DEF q
    <3> QED  BY <3>1, <3>2, <3>3 DEF Thinned, PoolInv, PoolOrder
  <2>7. q.epoch >= 1
    BY <2>3 DEF PoolShape
  <2>8. q.next = p.next /\ q.open = p.open
    BY <2>3, DropFields
  <2> HIDE DEF q
  <2> QED  BY <2>1, <2>5, <2>6, <2>7, <2>8, ThinnedKeeps
<1> QED  BY <1>1, <1>2

(* The fields of a pool. *)
LEMMA SlotTypes ==
  ASSUME NEW p, PoolShape(p)
  PROVE  /\ \A k \in 1 .. CapSlots : p.slot[k] \in CapSlotSet /\ p.slot[k].id \in Nat
         /\ p.next \in Nat /\ p.next >= 1 /\ p.epoch \in Nat /\ p.open \in BOOLEAN
<1>1. \A k \in 1 .. CapSlots : p.slot[k] \in CapSlotSet
  BY DEF PoolShape
<1>2. \A d \in CapSlotSet : d.id \in Nat
  BY DEF CapSlotSet
<1> QED  BY <1>1, <1>2 DEF PoolShape

(* No ingest, and one that only hands its buffer back. *)
LEMMA NoJobTypes ==
  /\ JobShape(NoJob) /\ NoJob.at = "idle" /\ ~Active(NoJob)
  /\ JobShape([NoJob EXCEPT !.at = "reject"]) /\ [NoJob EXCEPT !.at = "reject"].at = "reject"
<1>1. 0 \in 0 .. CapMaxFrames /\ 0 \in 0 .. CapSlots /\ 0 \in 0 .. CapMaxEpochs
      /\ 0 \in 0 .. RecMaxTime + 1
  BY CapBounds
<1>2. JobShape(NoJob) /\ NoJob.at = "idle" /\ ~Active(NoJob)
  BY <1>1 DEF NoJob, JobShape, Active
<1> QED  BY <1>2 DEF JobShape

(* The slot a frame goes to is free, or its waiting frame is given up. *)
LEMMA ReserveKeeps ==
  ASSUME NEW p, PoolShape(p), NEW same \in BOOLEAN, NEW t \in 0 .. RecMaxTime + 1,
         NEW l, NEW last, LeaseShape(l), PoolInv(p, NoJob, l, last), p.next <= CapMaxFrames,
         WithGeometry(p, same).epoch <= CapMaxEpochs, last \in Nat
  PROVE  /\ PoolShape(Reserve(p, same, t).pool) /\ JobShape(Reserve(p, same, t).job)
         /\ PoolInv(Reserve(p, same, t).pool, Reserve(p, same, t).job, l, last)
<1> DEFINE q == WithGeometry(p, same)
           i == Min(Available(q))
           r == [q EXCEPT !.slot[i] = [state |-> "copying", id |-> q.next, frame |-> NoFrame],
                          !.next = @ + 1]
           j == [NoJob EXCEPT !.at = "copy", !.id = q.next, !.index = i,
                              !.epoch = q.epoch, !.time = t]
           j0 == [NoJob EXCEPT !.at = "reject"]
<1>1. /\ PoolShape(q) /\ PoolInv(q, NoJob, l, last) /\ q.epoch >= 1
      /\ q.next = p.next /\ q.open = p.open
  BY GeometryFields
<1>2. JobShape(j0) /\ j0.at = "reject"
  BY NoJobTypes
<1>3. ASSUME NEW o, PoolInv(o, NoJob, l, last)
      PROVE  PoolInv(o, j0, l, last)
  <2>1. ~Active(NoJob) /\ ~Active(j0) /\ j0.at # "idle"
    BY <1>2 DEF Active, NoJob
  <2> HIDE DEF j0
  <2> QED  BY <1>3, <2>1 DEF PoolInv, JobOwned, PoolOrder
<1>4. CASE ~p.open \/ Available(q) = {}
  <2>1. Reserve(p, same, t) = [pool |-> IF p.open THEN q ELSE p, job |-> j0]
    BY <1>4 DEF Reserve
  <2> HIDE DEF q, j0
  <2> QED  BY <1>1, <1>2, <1>3, <2>1
<1>5. CASE p.open /\ Available(q) # {}
  <2>1. Reserve(p, same, t) = [pool |-> r, job |-> j]
    BY <1>5 DEF Reserve
  <2>2. DOMAIN q.slot = 1 .. CapSlots
    BY <1>1 DEF PoolShape
  <2>3. Available(q) \in SUBSET (1 .. CapSlots)
        /\ \A k \in Available(q) : q.slot[k].state \in {"free", "ready"}
    <3>1. CASE In(q, "free") # {}
      <4>1. In(q, "free") \in SUBSET Nat
        BY <2>2, CapBounds DEF In
      <4>2. Min(In(q, "free")) \in In(q, "free")
        BY <3>1, <4>1, LeastOfSome
      <4> HIDE DEF q
      <4> QED  BY <2>2, <3>1, <4>2 DEF Available, In
    <3>2. CASE In(q, "free") = {}
      <4> HIDE DEF q
      <4> QED  BY <2>2, <3>2 DEF Available, In
    <3> QED  BY <3>1, <3>2
  <2>4. i \in 1 .. CapSlots /\ q.slot[i].state \in {"free", "ready"}
    <3>1. Available(q) \in SUBSET Nat
      BY <2>3, CapBounds
    <3>2. i \in Available(q)
      BY <1>5, <3>1, LeastOfSome
    <3> HIDE DEF q, i
    <3> QED  BY <2>3, <3>2
  <2>5. q.next \in 1 .. CapMaxFrames
    BY <1>1 DEF PoolShape
  <2> HIDE DEF q, i
  <2>6. [state |-> "copying", id |-> q.next, frame |-> NoFrame] \in CapSlotSet
    BY <2>5, CapBounds DEF CapSlotSet
  <2>7. /\ PoolShape(r) /\ r.next = q.next + 1 /\ r.epoch = q.epoch /\ r.open = q.open
        /\ r.terminal = q.terminal
        /\ r.slot[i].state = "copying" /\ r.slot[i].id = q.next
        /\ \A k \in 1 .. CapSlots : k # i => r.slot[k] = q.slot[k]
    <3> DEFINE c == [state |-> "copying", id |-> q.next, frame |-> NoFrame]
    <3>1. c \in CapSlotSet /\ c.state = "copying" /\ c.id = q.next
      BY <2>6
    <3> HIDE DEF c
    <3>2. [q.slot EXCEPT ![i] = c] \in [1 .. CapSlots -> CapSlotSet]
      BY <1>1, <3>1 DEF PoolShape
    <3>3. q.next + 1 \in 1 .. CapMaxFrames + 1
      BY <2>5, CapBounds
    <3>4. r = [q EXCEPT !.slot = [q.slot EXCEPT ![i] = c], !.next = q.next + 1]
      BY <1>1 DEF c, PoolShape
    <3>5. /\ PoolShape(r) /\ r.next = q.next + 1 /\ r.epoch = q.epoch /\ r.open = q.open
          /\ r.terminal = q.terminal /\ r.slot = [q.slot EXCEPT ![i] = c]
      BY <1>1, <3>2, <3>3, <3>4 DEF PoolShape
    <3>6. r.slot[i] = c /\ \A k \in 1 .. CapSlots : k # i => r.slot[k] = q.slot[k]
      BY <1>1, <2>4, <3>5 DEF PoolShape
    <3> QED  BY <3>1, <3>5, <3>6
  <2>8. j.at = "copy" /\ j.id = q.next /\ j.index = i /\ j.epoch = q.epoch
    BY DEF NoJob
  <2>9. JobShape(j)
    <3>1. /\ q.next \in 0 .. CapMaxFrames /\ i \in 0 .. CapSlots /\ q.epoch \in 0 .. CapMaxEpochs
      BY <1>1, <2>4, <2>5, CapBounds DEF PoolShape
    <3> QED  BY <3>1, NoJobTypes DEF JobShape
  <2> HIDE DEF r, j
  <2>10. \A k \in 1 .. CapSlots : Ready(r, k) => k # i /\ Ready(q, k) /\ r.slot[k] = q.slot[k]
    BY <2>7 DEF Ready
  <2>11. /\ q.next \in Nat /\ l.frame.id \in Nat
         /\ \A k \in 1 .. CapSlots : q.slot[k].id \in Nat /\ r.slot[k].id \in Nat
    <3>1. l.frame.id \in Nat
      BY DEF LeaseShape, CapFrames
    <3>2. \A k \in 1 .. CapSlots : q.slot[k].id \in Nat /\ r.slot[k].id \in Nat
      BY <1>1, <2>7, SlotTypes
    <3> QED  BY <2>5, <3>1, <3>2
  <2>12. PoolOrder(q, NoJob, l, last) /\ LeaseOwned(q, l) /\ JobOwned(q, NoJob, l, last)
    BY <1>1 DEF PoolInv
  <2>13. PoolOrder(r, j, l, last)
    BY <2>7, <2>10, <2>11, <2>12 DEF PoolOrder
  <2>14. LeaseOwned(r, l)
    BY <2>4, <2>7, <2>12 DEF LeaseOwned
  <2>15. Active(j) /\ ~Active(NoJob) /\ j.at # "idle"
    BY <2>8 DEF Active, NoJob
  <2>16. \A k \in 1 .. CapSlots : q.slot[k].state # "copying"
    BY <2>12, <2>15 DEF JobOwned
  <2>17. \A k \in 1 .. CapSlots : Ready(r, k) => r.slot[k].id < j.id
    BY <2>8, <2>10, <2>12 DEF PoolOrder
  <2>18. j.id < r.next /\ j.id > l.frame.id /\ j.id > last
    BY <2>7, <2>8, <2>11, <2>12 DEF PoolOrder
  <2>19. JobOwned(r, j, l, last)
    BY <1>1, <2>4, <2>7, <2>8, <2>15, <2>16, <2>17, <2>18 DEF JobOwned
  <2> QED  BY <2>1, <2>7, <2>9, <2>13, <2>14, <2>19 DEF PoolInv
<1> QED  BY <1>4, <1>5

(* The copy is a waiting frame of the present geometry, or its slot is     *)
(* free again.                                                             *)
LEMMA CompletedKeeps ==
  ASSUME PoolShape(pool), JobShape(job), LeaseShape(lease), job.at = "complete", NEW last \in Nat,
         PoolInv(pool, job, lease, last)
  PROVE  PoolShape(Completed(pool)) /\ PoolInv(Completed(pool), NoJob, lease, last)
<1> DEFINE i == job.index
           q == Completed(pool)
           d == [state |-> "ready", id |-> job.id, frame |-> JobFrame]
           r == [pool EXCEPT !.slot[job.index] = FreeSlot]
           s == [pool EXCEPT !.slot[job.index] = d]
<1>1. Active(job) /\ ~Active(NoJob) /\ NoJob.at = "idle"
  BY DEF Active, NoJob
<1>2. PoolOrder(pool, job, lease, last) /\ LeaseOwned(pool, lease) /\ JobOwned(pool, job, lease, last)
  BY DEF PoolInv
<1>3. /\ i \in 1 .. CapSlots /\ pool.slot[i].state = "copying" /\ pool.slot[i].id = job.id
      /\ job.epoch >= 1 /\ job.id < pool.next /\ job.id > lease.frame.id /\ job.id > last
  BY <1>1, <1>2 DEF JobOwned
<1>4. d \in CapSlotSet /\ JobFrame.id = job.id /\ JobFrame.epoch = job.epoch
  BY DEF JobFrame, JobShape, CapSlotSet, CapFrames
<1>5. q = r \/ (q = s /\ pool.open /\ pool.epoch = job.epoch)
  BY <1>3 DEF Completed
<1>6. /\ PoolShape(r) /\ r.next = pool.next /\ r.epoch = pool.epoch /\ r.open = pool.open
      /\ r.terminal = pool.terminal /\ r.slot[i] = FreeSlot
      /\ \A k \in 1 .. CapSlots : k # i => r.slot[k] = pool.slot[k]
  BY <1>3, CapBounds DEF PoolShape
<1> HIDE DEF d
<1>7. /\ PoolShape(s) /\ s.next = pool.next /\ s.epoch = pool.epoch /\ s.open = pool.open
      /\ s.terminal = pool.terminal /\ s.slot[i] = d
      /\ \A k \in 1 .. CapSlots : k # i => s.slot[k] = pool.slot[k]
  BY <1>3, <1>4 DEF PoolShape
<1>8. /\ PoolShape(q) /\ q.next = pool.next /\ q.epoch = pool.epoch /\ q.open = pool.open
      /\ q.terminal = pool.terminal
      /\ \A k \in 1 .. CapSlots : k # i => q.slot[k] = pool.slot[k]
      /\ \/ q.slot[i].state = "free"
         \/ q.slot[i] = d /\ pool.open /\ pool.epoch = job.epoch
  <2>1. CASE q = r
    <3> HIDE DEF q, r
    <3> QED  BY <1>6, <2>1 DEF FreeSlot
  <2>2. CASE q = s /\ pool.open /\ pool.epoch = job.epoch
    <3> HIDE DEF q, s
    <3> QED  BY <1>7, <2>2
  <2> QED  BY <1>5, <2>1, <2>2
<1>9. d.state = "ready" /\ d.id = job.id /\ d.frame = JobFrame
  BY DEF d
<1> HIDE DEF i, q, r, s
<1>10. \A k \in 1 .. CapSlots : Ready(q, k) =>
         \/ k # i /\ Ready(pool, k) /\ q.slot[k] = pool.slot[k]
         \/ k = i /\ q.slot[k] = d /\ pool.open /\ pool.epoch = job.epoch
  BY <1>8 DEF Ready
<1>11. PoolOrder(q, NoJob, lease, last)
  <2>1. ASSUME NEW k \in 1 .. CapSlots, Ready(q, k)
        PROVE  /\ q.open /\ q.slot[k].frame.epoch = q.epoch /\ q.epoch >= 1
               /\ q.slot[k].frame.id = q.slot[k].id /\ q.slot[k].id < q.next
               /\ q.slot[k].id > lease.frame.id /\ q.slot[k].id > last
    <3>1. CASE k # i /\ Ready(pool, k) /\ q.slot[k] = pool.slot[k]
      BY <1>2, <1>8, <3>1 DEF PoolOrder
    <3>2. CASE k = i /\ q.slot[k] = d /\ pool.open /\ pool.epoch = job.epoch
      BY <1>3, <1>4, <1>8, <1>9, <3>2
    <3> QED  BY <1>10, <2>1, <3>1, <3>2
  <2> QED  BY <1>2, <1>8, <2>1 DEF PoolOrder
<1>12. LeaseOwned(q, lease)
  BY <1>2, <1>3, <1>8 DEF LeaseOwned
<1>13. JobOwned(q, NoJob, lease, last)
  <2>1. \A k \in 1 .. CapSlots : q.slot[k].state # "copying"
    BY <1>1, <1>2, <1>3, <1>8, <1>9 DEF JobOwned
  <2> QED  BY <1>1, <2>1 DEF JobOwned
<1> QED  BY <1>8, <1>11, <1>12, <1>13 DEF PoolInv, q

(* The latest frame is taken and the others go. *)
LEMMA TakenKeeps ==
  ASSUME PoolShape(pool), JobShape(job), lease = NoLease, NEW last \in Nat,
         PoolInv(pool, job, lease, last), TakeLatest
  PROVE  /\ PoolShape(pool') /\ LeaseShape(lease') /\ lease' # NoLease
         /\ PoolInv(pool', job', lease', last)
<1>1. PICK i \in Latest(pool) :
        /\ pool' = [DropReady(pool) EXCEPT !.slot[i] = [pool.slot[i] EXCEPT !.state = "leased"]]
        /\ lease' = [index |-> i, frame |-> pool.slot[i].frame]
        /\ job' = job
  BY DEF TakeLatest
<1> DEFINE d == [pool.slot[i] EXCEPT !.state = "leased"]
<1>2. DOMAIN pool.slot = 1 .. CapSlots
  BY DEF PoolShape
<1>3. i \in 1 .. CapSlots /\ Ready(pool, i)
      /\ \A k \in 1 .. CapSlots : Ready(pool, k) => pool.slot[k].id <= pool.slot[i].id
  BY <1>1, <1>2 DEF Latest, In, Ready
<1>4. /\ d \in CapSlotSet /\ d.state = "leased" /\ d.id = pool.slot[i].id
      /\ d.frame = pool.slot[i].frame
  BY <1>3 DEF PoolShape, CapSlotSet
<1>5. PoolOrder(pool, job, lease, last) /\ JobOwned(pool, job, lease, last)
  BY DEF PoolInv
<1>6. /\ pool.slot[i].frame.epoch = pool.epoch /\ pool.epoch >= 1 /\ pool.open
      /\ pool.slot[i].frame.id = pool.slot[i].id /\ pool.slot[i].id < pool.next
      /\ pool.slot[i].id > last
  BY <1>3, <1>5 DEF PoolOrder
<1> HIDE DEF d
<1>7. /\ PoolShape(pool') /\ pool'.next = DropReady(pool).next /\ pool'.open = DropReady(pool).open
      /\ pool'.slot[i] = d /\ pool'.terminal = DropReady(pool).terminal
      /\ \A k \in 1 .. CapSlots : k # i => pool'.slot[k] = DropReady(pool).slot[k]
  <2>1. PoolShape(DropReady(pool))
    BY DropFields
  <2>2. pool' = [DropReady(pool) EXCEPT !.slot[i] = d]
    BY <1>1 DEF d
  <2> QED  BY <1>3, <1>4, <2>1, <2>2 DEF PoolShape
<1>8. /\ pool'.next = pool.next /\ pool'.open
      /\ \A k \in 1 .. CapSlots : k # i => ~Ready(pool', k) /\
                  (pool'.slot[k] = pool.slot[k] \/ (pool'.slot[k] = FreeSlot /\ Ready(pool, k)))
  <2>1. \A k \in 1 .. CapSlots : ~Ready(DropReady(pool), k)
    BY NoneReady
  <2>2. \A k \in 1 .. CapSlots : DropReady(pool).slot[k] = IF Ready(pool, k) THEN FreeSlot ELSE pool.slot[k]
    BY DropFields
  <2>3. pool'.next = pool.next /\ pool'.open
    BY <1>6, <1>7, DropFields
  <2>4. \A k \in 1 .. CapSlots : k # i => ~Ready(pool', k)
    BY <1>7, <2>1 DEF Ready
  <2>5. \A k \in 1 .. CapSlots : k # i =>
          (pool'.slot[k] = pool.slot[k] \/ (pool'.slot[k] = FreeSlot /\ Ready(pool, k)))
    BY <1>7, <2>2
  <2> QED  BY <2>3, <2>4, <2>5
<1>9. \A k \in 1 .. CapSlots : ~Ready(pool', k)
  BY <1>4, <1>7, <1>8 DEF Ready
<1>10. lease'.index = i /\ lease'.frame = pool.slot[i].frame /\ lease' # NoLease
  BY <1>1, <1>3, CapBounds DEF NoLease
<1>11. LeaseShape(lease')
  <2>1. pool.slot[i].frame \in CapFrames
    BY <1>3 DEF PoolShape, CapSlotSet
  <2> QED  BY <1>1, <1>3, <2>1, CapBounds DEF LeaseShape
<1>12. PoolOrder(pool', job', lease', last)
  BY <1>5, <1>6, <1>8, <1>9, <1>10 DEF PoolOrder
<1>13. LeaseOwned(pool', lease')
  BY <1>3, <1>4, <1>6, <1>7, <1>10 DEF LeaseOwned
<1>14. JobOwned(pool', job', lease', last)
  <2>1. ASSUME NEW k \in 1 .. CapSlots, pool'.slot[k].state = "copying"
        PROVE  k # i /\ pool'.slot[k] = pool.slot[k]
    BY <1>4, <1>7, <1>8, <2>1 DEF FreeSlot
  <2>2. ASSUME NEW k \in 1 .. CapSlots, pool.slot[k].state = "copying"
        PROVE  k # i /\ pool'.slot[k] = pool.slot[k]
    BY <1>3, <1>8, <2>2 DEF Ready
  <2>3. Active(job) => job.id > pool.slot[i].id
    BY <1>3, <1>5 DEF JobOwned
  <2>4. job' = job /\ lease'.frame.id = pool.slot[i].id
    BY <1>1, <1>6, <1>10
  <2> QED  BY <1>5, <1>8, <1>9, <2>1, <2>2, <2>3, <2>4 DEF JobOwned
<1> QED  BY <1>7, <1>10, <1>11, <1>12, <1>13, <1>14 DEF PoolInv

(* The lease ends, and its frame may have become the last of the recording. *)
LEMMA ReleasedKeeps ==
  ASSUME PoolShape(pool), JobShape(job), LeaseShape(lease), lease # NoLease, NEW last \in Nat,
         PoolInv(pool, job, lease, last), DropLease, NEW new \in {last, lease.frame.id}
  PROVE  PoolShape(pool') /\ LeaseShape(lease') /\ PoolInv(pool', job', lease', new)
<1> DEFINE i == lease.index
<1>1. PoolOrder(pool, job, lease, last) /\ LeaseOwned(pool, lease) /\ JobOwned(pool, job, lease, last)
  BY DEF PoolInv
<1>2. /\ i \in 1 .. CapSlots /\ pool.slot[i].state = "leased" /\ pool.slot[i].id = lease.frame.id
  BY <1>1 DEF LeaseOwned
<1>3. pool' = [pool EXCEPT !.slot[i] = FreeSlot] /\ lease' = NoLease /\ job' = job
  BY <1>2 DEF DropLease, Released
<1>4. /\ PoolShape(pool') /\ pool'.next = pool.next /\ pool'.epoch = pool.epoch
      /\ pool'.open = pool.open /\ pool'.terminal = pool.terminal /\ pool'.slot[i] = FreeSlot
      /\ \A k \in 1 .. CapSlots : k # i => pool'.slot[k] = pool.slot[k]
  BY <1>2, <1>3, CapBounds DEF PoolShape
<1>5. LeaseShape(lease') /\ lease'.frame.id = 0
  BY <1>3, CapBounds DEF LeaseShape, NoLease, NoFrame
<1>6. \A k \in 1 .. CapSlots : pool.slot[k].id \in Nat
  BY SlotTypes
<1>7. lease.frame.id \in Nat /\ new \in Nat /\ pool.next \in Nat /\ pool.next >= 1 /\ last < lease.frame.id
  BY <1>1 DEF LeaseShape, CapFrames, PoolShape, PoolOrder
<1> HIDE DEF i
<1>8. \A k \in 1 .. CapSlots : Ready(pool', k) => Ready(pool, k) /\ pool'.slot[k] = pool.slot[k]
  BY <1>4 DEF Ready, FreeSlot
<1>9. PoolOrder(pool', job', lease', new)
  BY <1>1, <1>3, <1>4, <1>5, <1>6, <1>7, <1>8 DEF PoolOrder
<1>10. LeaseOwned(pool', lease')
  BY <1>3 DEF LeaseOwned
<1>11. JobOwned(pool', job', lease', new)
  <2>1. job.id \in Nat
    BY DEF JobShape
  <2>2. \A k \in 1 .. CapSlots : pool'.slot[k].state = "copying" <=> pool.slot[k].state = "copying"
    BY <1>2, <1>4 DEF FreeSlot
  <2>3. \A k \in 1 .. CapSlots : pool.slot[k].state = "copying" => pool'.slot[k] = pool.slot[k]
    BY <1>2, <1>4
  <2> QED  BY <1>1, <1>3, <1>4, <1>5, <1>7, <1>8, <2>1, <2>2, <2>3 DEF JobOwned
<1> QED  BY <1>4, <1>5, <1>9, <1>10, <1>11 DEF PoolInv

-----------------------------------------------------------------------------
(* The portal's client and its session with the desktop. *)

Known(po, d) == (po.session => po.bus) /\ (d.session = "open" => po.session)

(* What the lifecycle does leaves the session alone. *)
SameSession(p, q) ==
  /\ PortalShape(q)
  /\ q.bus = p.bus /\ q.session = p.session /\ q.grant = p.grant /\ q.terminal = p.terminal

LEMMA LifeKeeps ==
  ASSUME NEW p, PortalShape(p), NEW stage \in {"create", "select", "start", "remote"},
         NEW s \in TerminalStates
  PROVE  /\ SameSession(p, Accepted(p, stage)) /\ SameSession(p, LifeCancel(p))
         /\ SameSession(p, LifeClose(p, s))
<1>1. \A life \in Lives : SameSession(p, [p EXCEPT !.life = life])
  BY DEF SameSession, PortalShape
<1>2. SameSession(p, p)
  BY DEF SameSession
<1>3. LifeStep[stage].to \in Lives
  BY DEF LifeStep, Lives
<1>4. SameSession(p, Accepted(p, stage))
  BY <1>1, <1>2, <1>3 DEF Accepted
<1>5. SameSession(p, LifeCancel(p))
  BY <1>1, <1>2 DEF LifeCancel, Lives, TerminalStates
<1>6. SameSession(p, LifeClose(p, s))
  BY <1>1, <1>2 DEF LifeClose, Lives
<1> QED  BY <1>4, <1>5, <1>6

(* close_session: the client forgets the session it had. *)
LEMMA SessionCloses ==
  ASSUME NEW p, PortalShape(p), p.session => p.bus
  PROVE  /\ PortalShape(CloseSession(p)) /\ ~CloseSession(p).session
         /\ CloseSession(p).bus = p.bus /\ CloseSession(p).grant = p.grant
         /\ CloseSession(p).terminal = p.terminal
BY DEF PortalShape, CloseSession

(* The desktop is told, if it had the session open. *)
LEMMA DesktopCloses ==
  ASSUME NEW p, DesktopShape(desktop), Known(p, desktop)
  PROVE  DesktopShape(DesktopClosed(p)) /\ DesktopClosed(p).session # "open"
<1>1. desktop.session = "open" => DesktopClosed(p) = [desktop EXCEPT !.session = "closed", !.signals = @ \ {"revoked"}]
  BY DEF DesktopClosed, Known
<1>2. desktop.session # "open" => DesktopClosed(p) = desktop
  BY DEF DesktopClosed
<1>3. DesktopShape([desktop EXCEPT !.session = "closed", !.signals = @ \ {"revoked"}])
  BY DEF DesktopShape
<1> QED  BY <1>1, <1>2, <1>3 DEF DesktopShape

(* Iterating the context changes only which end is remembered. *)
LEMMA Dispatching ==
  ASSUME PortalShape(portal), DesktopShape(desktop), NEW p \in Dispatched(portal, desktop)
  PROVE  /\ PortalShape(p) /\ p.bus = portal.bus /\ p.session = portal.session
         /\ p.grant = portal.grant
<1>1. p = portal \/ \E s \in desktop.signals : p = [portal EXCEPT !.terminal = s]
  BY DEF Dispatched
<1>2. \A s \in desktop.signals : s \in {"none", "revoked", "disconnected"}
  BY DEF DesktopShape
<1> QED  BY <1>1, <1>2 DEF PortalShape

(* poll_terminal: either nothing ended, or the session is closed. *)
LEMMA PollingKeeps ==
  ASSUME PortalShape(portal), DesktopShape(desktop), Known(portal, desktop),
         NEW p \in Dispatched(portal, desktop), PollPortal(p)
  PROVE  /\ PortalShape(portal') /\ DesktopShape(desktop') /\ Known(portal', desktop')
         /\ portal'.bus = portal.bus /\ pw' = pw
<1>1. /\ PortalShape(p) /\ p.bus = portal.bus /\ p.session = portal.session
      /\ p.grant = portal.grant
  BY Dispatching
<1>2. Known(p, desktop) /\ (p.session => p.bus)
  BY <1>1 DEF Known
<1>3. CASE p.terminal = "none"
  <2> DEFINE q == [p EXCEPT !.session = FALSE]
  <2>1. ~q.session
    BY <1>1 DEF PortalShape
  <2>2. DesktopClosed(q) = desktop
    BY <2>1 DEF DesktopClosed
  <2>3. desktop' = [desktop EXCEPT !.signals = {}] /\ portal' = p /\ pw' = pw
    BY <1>3, <2>2 DEF PollPortal, Polled
  <2>4. DesktopShape(desktop') /\ desktop'.session = desktop.session
    BY <2>3 DEF DesktopShape
  <2> QED  BY <1>1, <1>2, <2>3, <2>4 DEF Known
<1>4. CASE p.terminal # "none"
  <2> DEFINE o == [p EXCEPT !.terminal = "none"]
             q == LifeClose(o, p.terminal)
             d == DesktopClosed(p)
  <2>1. p.terminal \in TerminalStates
    BY <1>1, <1>4 DEF PortalShape, TerminalStates
  <2>2. PortalShape(o) /\ o.bus = p.bus /\ o.session = p.session
    BY <1>1 DEF PortalShape
  <2>3. portal' = CloseSession(q) /\ desktop' = [d EXCEPT !.signals = {}] /\ pw' = pw
    BY <1>4 DEF PollPortal, Polled
  <2> HIDE DEF o
  <2>4. PortalShape(q) /\ q.bus = p.bus /\ q.session = p.session
    BY <2>1, <2>2, LifeKeeps DEF SameSession
  <2> HIDE DEF q
  <2>5. PortalShape(portal') /\ ~portal'.session /\ portal'.bus = p.bus
    BY <1>2, <2>3, <2>4, SessionCloses
  <2>6. DesktopShape(d) /\ d.session # "open"
    BY <1>2, DesktopCloses
  <2> HIDE DEF d
  <2>7. DesktopShape(desktop') /\ desktop'.session # "open"
    BY <2>3, <2>6 DEF DesktopShape
  <2> QED  BY <1>1, <2>3, <2>5, <2>7 DEF Known
<1> QED  BY <1>3, <1>4

(* The selection of a window: its steps leave nothing open that the client *)
(* does not know of.                                                       *)
Selected ==
  /\ PortalShape(portal') /\ DesktopShape(desktop') /\ Known(portal', desktop') /\ pw' = pw
  /\ portal.bus => portal'.bus

(* A request that is not granted. *)
LEMMA FailKeeps ==
  ASSUME PortalShape(portal), DesktopShape(desktop), Known(portal, desktop),
         NEW stage \in {"create", "select", "start"}, NEW answer \in Answers,
         stage = "create" => ~portal.session,
         RequestFails(stage, answer)
  PROVE  Selected
<1>1. PICK p \in (IF answer = "silent" THEN Dispatched(portal, desktop) ELSE {portal}) :
        LET q == IF answer = "failed" THEN p ELSE Accepted(p, stage)
        IN  /\ portal' = Unanswered(q, stage, answer)
            /\ \/ desktop' = (IF stage = "create" THEN desktop ELSE DesktopClosed(q))
               \/ /\ stage = "create" /\ answer = "silent"
                  /\ desktop' = [desktop EXCEPT !.session = "orphan"]
  BY DEF RequestFails
<1> DEFINE q == IF answer = "failed" THEN p ELSE Accepted(p, stage)
           r == IF answer = "cancelled" THEN LifeCancel(q) ELSE q
<1>2. /\ PortalShape(p) /\ p.bus = portal.bus /\ p.session = portal.session
  BY <1>1, Dispatching
<1>3. /\ portal' = Unanswered(q, stage, answer)
      /\ \/ desktop' = (IF stage = "create" THEN desktop ELSE DesktopClosed(q))
         \/ /\ stage = "create" /\ answer = "silent"
            /\ desktop' = [desktop EXCEPT !.session = "orphan"]
  BY <1>1
<1>4. pw' = pw
  BY DEF RequestFails
<1>5. PortalShape(q) /\ q.bus = portal.bus /\ q.session = portal.session
  <2>1. "closed" \in TerminalStates
    BY DEF TerminalStates
  <2>2. SameSession(p, Accepted(p, stage))
    BY <1>2, <2>1, LifeKeeps
  <2> QED  BY <1>2, <2>2 DEF SameSession
<1> HIDE DEF q
<1>6. PortalShape(r) /\ r.bus = portal.bus /\ r.session = portal.session
  <2>1. "closed" \in TerminalStates
    BY DEF TerminalStates
  <2>2. SameSession(q, LifeCancel(q))
    BY <1>5, <2>1, LifeKeeps
  <2> QED  BY <1>5, <2>2 DEF SameSession
<1>7. portal' = IF stage = "create" THEN r ELSE CloseSession(r)
  BY <1>3 DEF Unanswered
<1> HIDE DEF r
<1>8. Known(q, desktop) /\ (r.session => r.bus)
  BY <1>5, <1>6 DEF Known
<1>9. CASE stage = "create"
  <2>1. desktop.session # "open"
    BY <1>9 DEF Known
  <2>2. DesktopShape(desktop') /\ desktop'.session # "open"
    BY <1>3, <1>9, <2>1 DEF DesktopShape
  <2>3. PortalShape(portal') /\ ~portal'.session /\ portal'.bus = portal.bus
    BY <1>6, <1>7, <1>9 DEF PortalShape
  <2> QED  BY <1>4, <2>2, <2>3 DEF Selected, Known
<1>10. CASE stage # "create"
  <2>1. DesktopShape(desktop') /\ desktop'.session # "open"
    BY <1>3, <1>8, <1>10, DesktopCloses
  <2>2. PortalShape(portal') /\ ~portal'.session /\ portal'.bus = portal.bus
    BY <1>6, <1>7, <1>8, <1>10, SessionCloses
  <2> QED  BY <1>4, <2>1, <2>2 DEF Selected, Known
<1> QED  BY <1>9, <1>10

(* A request that is granted, and a session without its handle. *)
LEMMA GrantKeeps ==
  ASSUME PortalShape(portal), DesktopShape(desktop), Known(portal, desktop), portal.bus,
         \/ CreateGranted
         \/ ~portal.session /\ CreateMalformed
         \/ RequestGranted("select")
         \/ RequestGranted("start")
         \/ RemoteOpens
  PROVE  Selected
<1>1. CASE CreateGranted
  <2> DEFINE q == Accepted(portal, "create")
  <2>1. PortalShape(q) /\ q.bus = portal.bus
    BY LifeKeeps DEF SameSession, TerminalStates
  <2> HIDE DEF q
  <2>2. portal' = [q EXCEPT !.session = TRUE, !.subscribed = TRUE]
        /\ desktop' = [desktop EXCEPT !.session = "open"] /\ pw' = pw
    BY <1>1 DEF CreateGranted, q
  <2>3. PortalShape(portal') /\ portal'.session /\ portal'.bus
    BY <2>1, <2>2 DEF PortalShape
  <2>4. DesktopShape(desktop')
    BY <2>2 DEF DesktopShape
  <2> QED  BY <2>2, <2>3, <2>4 DEF Selected, Known
<1>2. CASE ~portal.session /\ CreateMalformed
  <2> DEFINE q == Accepted(portal, "create")
  <2>1. PortalShape(q) /\ q.bus = portal.bus /\ q.session = portal.session
    BY LifeKeeps DEF SameSession, TerminalStates
  <2> HIDE DEF q
  <2>2. portal' = LifeClose(q, "closed") /\ desktop' = [desktop EXCEPT !.session = "orphan"] /\ pw' = pw
    BY <1>2 DEF CreateMalformed, q
  <2>3. "closed" \in TerminalStates
    BY DEF TerminalStates
  <2>4. PortalShape(portal') /\ portal'.session = portal.session /\ portal'.bus = portal.bus
    BY <2>1, <2>2, <2>3, LifeKeeps DEF SameSession
  <2>5. DesktopShape(desktop') /\ desktop'.session # "open"
    BY <2>2 DEF DesktopShape
  <2> QED  BY <1>2, <2>2, <2>4, <2>5 DEF Selected, Known
<1>3. ASSUME NEW stage \in {"create", "select", "start", "remote"}, RequestGranted(stage)
      PROVE  Selected
  <2>1. portal' = Accepted(portal, stage) /\ desktop' = desktop /\ pw' = pw
    BY <1>3 DEF RequestGranted
  <2>2. SameSession(portal, portal')
    BY <2>1, LifeKeeps DEF TerminalStates
  <2> QED  BY <2>1, <2>2 DEF SameSession, Selected, Known
<1>4. CASE RemoteOpens
  <2> DEFINE q == Accepted(portal, "remote")
  <2>1. SameSession(portal, q)
    BY LifeKeeps DEF TerminalStates
  <2> HIDE DEF q
  <2>2. portal' = [q EXCEPT !.grant = TRUE] /\ desktop' = desktop /\ pw' = pw
    BY <1>4 DEF RemoteOpens, q
  <2>3. PortalShape(portal') /\ portal'.session = portal.session /\ portal'.bus = portal.bus
    BY <2>1, <2>2 DEF SameSession, PortalShape
  <2> QED  BY <2>2, <2>3 DEF Selected, Known
<1> QED  BY <1>1, <1>2, <1>3, <1>4

(* A stream without a node, or a remote that does not open. *)
LEMMA StartFailureKeeps ==
  ASSUME PortalShape(portal), DesktopShape(desktop), Known(portal, desktop),
         StartMalformed \/ StartWithoutNode \/ RemoteFails
  PROVE  Selected
<1>1. "closed" \in TerminalStates
  BY DEF TerminalStates
<1>2. SameSession(portal, LifeClose(portal, "closed"))
  BY <1>1, LifeKeeps
<1>3. SameSession(portal, LifeClose(Accepted(portal, "remote"), "closed"))
  <2>1. SameSession(portal, Accepted(portal, "remote"))
    BY <1>1, LifeKeeps
  <2>2. PortalShape(Accepted(portal, "remote"))
    BY <2>1 DEF SameSession
  <2>3. SameSession(Accepted(portal, "remote"), LifeClose(Accepted(portal, "remote"), "closed"))
    BY <1>1, <2>2, LifeKeeps
  <2> QED  BY <2>1, <2>3 DEF SameSession
<1>4. SameSession(portal, portal)
  BY DEF SameSession
<1>5. \E q : SameSession(portal, q) /\ portal' = CloseSession(q)
  BY <1>2, <1>3, <1>4 DEF StartMalformed, StartWithoutNode, RemoteFails
<1>6. PICK q : SameSession(portal, q) /\ portal' = CloseSession(q)
  BY <1>5
<1>7. PortalShape(q) /\ q.bus = portal.bus /\ q.session = portal.session
  BY <1>6 DEF SameSession
<1>8. q.session => q.bus
  BY <1>7 DEF Known
<1>9. PortalShape(portal') /\ ~portal'.session /\ portal'.bus = portal.bus
  BY <1>6, <1>7, <1>8, SessionCloses
<1>10. desktop' = DesktopClosed(portal) /\ pw' = pw
  BY DEF StartMalformed, StartWithoutNode, RemoteFails
<1>11. DesktopShape(desktop') /\ desktop'.session # "open"
  BY <1>10, DesktopCloses
<1> QED  BY <1>9, <1>10, <1>11 DEF Selected, Known

-----------------------------------------------------------------------------
(* The command's thread. *)

(* The thread goes to its next step. *)
LEMMA Going ==
  ASSUME CmdShape(cmd), NEW s \in Opening \cup Recording \cup Ending, Goto(s)
  PROVE  /\ CmdShape(cmd') /\ cmd'.at = s /\ cmd'.var = cmd.var
         /\ cmd'.state = cmd.state /\ cmd'.started = cmd.started
BY DEF CmdShape, Goto

(* A step that leaves the pool, the lease and the locals alone. *)
LEMMA FramedStep ==
  ASSUME RecInv, pool' = pool, job' = job, lease' = lease,
         FileShape(file'), file'.last = file.last,
         PortalShape(portal'), DesktopShape(desktop'), PwShape(pw'),
         CmdShape(cmd'), cmd'.var = cmd.var,
         cmd'.at = "frame" <=> cmd.at = "frame",
         cmd'.at \in Opening \cup Recording => cmd.at \in Opening \cup Recording,
         SourceInv(cmd', job, portal', desktop', pw')
  PROVE  RecInv'
<1>1. RecShape'
  BY DEF RecInv, RecShape
<1>2. PoolInv(pool', job', lease', file'.last.frame)
  BY DEF RecInv
<1>3. lease' # NoLease <=> cmd'.at = "frame"
  BY DEF RecInv
<1>4. LocalsInv(cmd')
  BY DEF RecInv, LocalsInv
<1>5. ChainInv(cmd', file'.last)
  BY DEF RecInv, ChainInv
<1>6. SourceInv(cmd', job', portal', desktop', pw')
  OBVIOUS
<1> QED  BY <1>1, <1>2, <1>3, <1>4, <1>5, <1>6 DEF RecInv

(* The parts of the invariant the steps need. *)
LEMMA RecFacts ==
  ASSUME RecInv
  PROVE  /\ PoolShape(pool) /\ JobShape(job) /\ LeaseShape(lease) /\ PortalShape(portal)
         /\ DesktopShape(desktop) /\ PwShape(pw) /\ CmdShape(cmd) /\ FileShape(file)
         /\ Known(portal, desktop) /\ SourceInv(cmd, job, portal, desktop, pw)
         /\ file.last.frame \in Nat
<1>1. file.last.frame \in Nat
  BY DEF RecInv, RecShape, FileShape
<1> QED  BY <1>1 DEF RecInv, RecShape, SourceInv, Known

(* select_window, in every outcome. *)
LEMMA SelectWindowKeeps ==
  ASSUME RecInv, SelectWindow
  PROVE  RecInv'
<1>1. /\ PortalShape(portal) /\ DesktopShape(desktop) /\ PwShape(pw) /\ CmdShape(cmd)
      /\ FileShape(file) /\ Known(portal, desktop) /\ SourceInv(cmd, job, portal, desktop, pw)
  BY RecFacts
<1>2. cmd.at \in {"bus", "create", "select", "start", "node"} /\ pool' = pool /\ job' = job
      /\ lease' = lease /\ file' = file
  BY DEF SelectWindow, poolVars
<1>3. ASSUME Selected, NEW s \in {"destroyed", "create", "select", "start", "node", "recorder"},
             Goto(s), s # "destroyed" => portal'.bus, s = "create" => ~portal'.session
      PROVE  RecInv'
  <2>1. CmdShape(cmd') /\ cmd'.at = s /\ cmd'.var = cmd.var
    BY <1>1, <1>3, Going DEF Opening, Ending
  <2>2. SourceInv(cmd', job, portal', desktop', pw')
    BY <1>1, <1>2, <1>3, <2>1 DEF SourceInv, Opening, Selected, Known
  <2>3. cmd.at \in Opening
    BY <1>2 DEF Opening
  <2> QED  BY <1>1, <1>2, <1>3, <2>1, <2>2, <2>3, FramedStep DEF Selected
<1>4. CASE At("bus") /\ ConnectBus /\ (Goto("create") \/ Goto("destroyed"))
  <2>1. portal' = [portal EXCEPT !.bus = TRUE] /\ desktop' = desktop /\ pw' = pw
    BY <1>4 DEF ConnectBus
  <2>2. PortalShape(portal') /\ portal'.bus /\ portal'.session = portal.session
    BY <1>1, <2>1 DEF PortalShape
  <2>3. Selected
    BY <1>1, <2>1, <2>2 DEF Selected, Known
  <2>4. ~portal.session
    BY <1>1, <1>4 DEF SourceInv, At
  <2> QED  BY <1>3, <1>4, <2>2, <2>3, <2>4
<1>5. CASE At("bus") /\ UNCHANGED linuxVars /\ Goto("destroyed")
  <2>1. Selected
    BY <1>1, <1>5 DEF Selected, linuxVars
  <2> QED  BY <1>3, <1>5, <2>1
<1>6. ASSUME NEW stage \in {"create", "select", "start"}, NEW answer \in Answers,
             At(stage), RequestFails(stage, answer), Goto("destroyed")
      PROVE  RecInv'
  <2>1. stage = "create" => ~portal.session
    BY <1>1, <1>6 DEF SourceInv, At
  <2>2. Selected
    BY <1>1, <1>6, <2>1, FailKeeps
  <2> QED  BY <1>3, <1>6, <2>2
<1>7. ~At("bus") => portal.bus
  BY <1>1, <1>2 DEF SourceInv, At, Opening
<1>8. At("create") => ~portal.session
  BY <1>1 DEF SourceInv, At
<1>9. ASSUME Selected, NEW s \in {"destroyed", "select", "start", "node", "recorder"}, Goto(s),
             ~At("bus")
      PROVE  RecInv'
  BY <1>3, <1>7, <1>9 DEF Selected
<1>10. CASE At("create") /\ CreateGranted /\ Goto("select")
  <2>1. Selected
    BY <1>1, <1>7, <1>10, GrantKeeps DEF At
  <2> QED  BY <1>9, <1>10, <2>1 DEF At
<1>11. CASE At("create") /\ CreateMalformed /\ Goto("destroyed")
  <2>1. Selected
    BY <1>1, <1>7, <1>8, <1>11, GrantKeeps DEF At
  <2> QED  BY <1>9, <1>11, <2>1 DEF At
<1>12. CASE At("select") /\ RequestGranted("select") /\ Goto("start")
  <2>1. Selected
    BY <1>1, <1>7, <1>12, GrantKeeps DEF At
  <2> QED  BY <1>9, <1>12, <2>1 DEF At
<1>13. CASE At("start") /\ RequestGranted("start") /\ Goto("node")
  <2>1. Selected
    BY <1>1, <1>7, <1>13, GrantKeeps DEF At
  <2> QED  BY <1>9, <1>13, <2>1 DEF At
<1>14. CASE At("node") /\ (StartMalformed \/ StartWithoutNode \/ RemoteFails) /\ Goto("destroyed")
  <2>1. Selected
    BY <1>1, <1>14, StartFailureKeeps
  <2> QED  BY <1>9, <1>14, <2>1 DEF At
<1>15. CASE At("node") /\ RemoteOpens /\ Goto("recorder")
  <2>1. Selected
    BY <1>1, <1>7, <1>15, GrantKeeps DEF At
  <2> QED  BY <1>9, <1>15, <2>1 DEF At
<1> QED
  BY <1>4, <1>5, <1>6, <1>10, <1>11, <1>12, <1>13, <1>14, <1>15 DEF SelectWindow

(* The recording is opened, or not. *)
LEMMA OpenRecorderKeeps ==
  ASSUME RecInv, OpenRecorder
  PROVE  RecInv'
<1>1. /\ PortalShape(portal) /\ DesktopShape(desktop) /\ PwShape(pw) /\ CmdShape(cmd)
      /\ FileShape(file) /\ SourceInv(cmd, job, portal, desktop, pw)
  BY RecFacts
<1>2. /\ cmd.at = "recorder" /\ pool' = pool /\ job' = job /\ lease' = lease
      /\ portal' = portal /\ desktop' = desktop /\ pw' = pw
  BY DEF OpenRecorder, At, poolVars, linuxVars
<1>3. FileShape(file') /\ file'.last = file.last
  BY <1>1 DEF OpenRecorder, FileShape
<1>4. PICK s \in {"capture", "stop"} : Goto(s)
  BY DEF OpenRecorder
<1>5. CmdShape(cmd') /\ cmd'.at = s /\ cmd'.var = cmd.var
  BY <1>1, <1>4, Going DEF Opening, Ending
<1>6. SourceInv(cmd', job, portal', desktop', pw')
  BY <1>1, <1>2, <1>5 DEF SourceInv, Opening
<1>7. cmd.at \in Opening
  BY <1>2 DEF Opening
<1> QED  BY <1>1, <1>2, <1>3, <1>5, <1>6, <1>7, FramedStep

(* The stream starts, or what was built of it is destroyed. *)
LEMMA StartCaptureKeeps ==
  ASSUME RecInv, StartCapture
  PROVE  RecInv'
<1>1. /\ PortalShape(portal) /\ DesktopShape(desktop) /\ PwShape(pw) /\ CmdShape(cmd)
      /\ FileShape(file) /\ SourceInv(cmd, job, portal, desktop, pw)
  BY RecFacts
<1>2. /\ cmd.at = "capture" /\ pool' = pool /\ job' = job /\ lease' = lease /\ file' = file
      /\ desktop' = desktop
  BY DEF StartCapture, PwStart, At, poolVars
<1>3. /\ PwShape(pw') /\ (pw'.fd => pw'.loop)
  BY DEF StartCapture, PwStart, NoStream, PwShape
<1>4. PortalShape(portal') /\ portal'.session = portal.session /\ portal'.bus = portal.bus
  BY <1>1 DEF StartCapture, PwStart, PortalShape
<1>5. CmdShape(cmd') /\ cmd'.at \in {"wait", "stop"} /\ cmd'.var = cmd.var
  BY <1>1 DEF StartCapture, CmdShape, Opening, Recording, Ending, TerminalStates
<1>6. job.at = "idle"
  BY <1>1, <1>2 DEF SourceInv, Opening, PwShape
<1>7. SourceInv(cmd', job, portal', desktop', pw')
  BY <1>1, <1>2, <1>3, <1>4, <1>5, <1>6 DEF SourceInv, Opening
<1>8. cmd.at \in Opening
  BY <1>2 DEF Opening
<1> QED  BY <1>1, <1>2, <1>3, <1>4, <1>5, <1>7, <1>8, FramedStep

(* The steps that wait for or look at the source without a frame. *)
LEMMA WaitingKeeps ==
  ASSUME RecInv, WaitForStream \/ LoopStops \/ PollSource
  PROVE  RecInv'
<1>1. /\ PortalShape(portal) /\ DesktopShape(desktop) /\ PwShape(pw) /\ CmdShape(cmd)
      /\ FileShape(file) /\ SourceInv(cmd, job, portal, desktop, pw) /\ Known(portal, desktop)
  BY RecFacts
<1>2. /\ cmd.at \in {"wait", "loop"} /\ pool' = pool /\ job' = job /\ lease' = lease /\ file' = file
  BY DEF WaitForStream, LoopStops, PollSource, At, poolVars
<1>3. /\ PortalShape(portal') /\ DesktopShape(desktop') /\ Known(portal', desktop') /\ pw' = pw
  <2>1. CASE UNCHANGED linuxVars
    BY <1>1, <2>1 DEF linuxVars
  <2>2. ASSUME NEW p \in Dispatched(portal, desktop), PollPortal(p)
        PROVE  /\ PortalShape(portal') /\ DesktopShape(desktop') /\ Known(portal', desktop')
               /\ pw' = pw
    BY <1>1, <2>2, PollingKeeps
  <2> QED  BY <2>1, <2>2 DEF WaitForStream, LoopStops, PollSource
<1>4. \A s \in {"loop", "take", "stop"}, t \in TerminalStates \cup {cmd.state} :
        \A c : c \in {[cmd EXCEPT !.at = s], [cmd EXCEPT !.at = s, !.state = t]} =>
          CmdShape(c) /\ c.at = s /\ c.var = cmd.var
  BY <1>1 DEF CmdShape, Opening, Recording, Ending
<1>5. CmdShape(cmd') /\ cmd'.at \in {"wait", "loop", "take", "stop"} /\ cmd'.var = cmd.var
  <2>1. CASE UNCHANGED cmd
    BY <1>1, <1>2, <2>1
  <2>2. ASSUME NEW s \in {"loop", "stop"}, Goto(s)
        PROVE  CmdShape(cmd') /\ cmd'.at = s /\ cmd'.var = cmd.var
    BY <1>1, <2>2, Going DEF Recording, Ending
  <2>3. "disconnected" \in TerminalStates
    BY DEF TerminalStates
  <2>4. CASE cmd' = [cmd EXCEPT !.at = "stop", !.state = "disconnected"]
    BY <1>4, <2>3, <2>4
  <2>5. CASE WaitForStream
    <3>1. ASSUME NEW p \in Dispatched(portal, desktop),
                 p.terminal # "none" => cmd' = [cmd EXCEPT !.at = "stop", !.state = "disconnected"],
                 p.terminal = "none" => IF pool.terminal = "disconnected"
                    THEN cmd' = [cmd EXCEPT !.at = "stop", !.state = "disconnected"]
                    ELSE UNCHANGED cmd
          PROVE  UNCHANGED cmd \/ cmd' = [cmd EXCEPT !.at = "stop", !.state = "disconnected"]
      BY <3>1
    <3>2. Goto("loop") \/ UNCHANGED cmd \/ cmd' = [cmd EXCEPT !.at = "stop", !.state = "disconnected"]
      BY <2>5, <3>1 DEF WaitForStream
    <3> QED  BY <2>1, <2>2, <2>4, <3>2
  <2>6. CASE LoopStops
    BY <2>2, <2>6 DEF LoopStops
  <2>7. CASE PollSource
    <3>1. PICK p \in Dispatched(portal, desktop) :
            LET seen == IF p.terminal # "none" THEN p.terminal
                        ELSE IF ~pool.open THEN pool.terminal
                        ELSE IF cmd.started /\ ~pw.active THEN "disconnected"
                        ELSE "none"
            IN  cmd' = IF seen = "none" THEN [cmd EXCEPT !.at = "take"]
                       ELSE [cmd EXCEPT !.at = "stop", !.state = seen]
      BY <2>7 DEF PollSource
    <3> DEFINE seen == IF p.terminal # "none" THEN p.terminal
                       ELSE IF ~pool.open THEN pool.terminal
                       ELSE IF cmd.started /\ ~pw.active THEN "disconnected"
                       ELSE "none"
    <3>2. cmd' = IF seen = "none" THEN [cmd EXCEPT !.at = "take"]
                 ELSE [cmd EXCEPT !.at = "stop", !.state = seen]
      BY <3>1
    <3>3. ~pool.open => pool.terminal \in TerminalStates
      BY DEF RecInv, PoolInv, PoolOrder
    <3>4. p.terminal \in {"none"} \cup TerminalStates
      BY <1>1, Dispatching DEF PortalShape, TerminalStates
    <3>5. seen \in {"none"} \cup TerminalStates
      BY <2>3, <3>3, <3>4
    <3> HIDE DEF seen
    <3>6. CASE seen = "none"
      BY <1>4, <2>3, <3>2, <3>6
    <3>7. CASE seen # "none"
      BY <1>4, <3>2, <3>5, <3>7
    <3> QED  BY <3>6, <3>7
  <2> QED  BY <2>5, <2>6, <2>7
<1>6. SourceInv(cmd', job, portal', desktop', pw')
  BY <1>1, <1>2, <1>3, <1>5 DEF SourceInv, Opening, Known
<1>7. cmd.at \in Recording
  BY <1>2 DEF Recording
<1>8. cmd'.at = "frame" <=> cmd.at = "frame"
  BY <1>2, <1>5
<1> QED  BY <1>1, <1>2, <1>3, <1>5, <1>6, <1>7, <1>8, FramedStep

(* The latest frame is leased, if there is one. *)
LEMMA TakeFrameKeeps ==
  ASSUME RecInv, TakeFrame
  PROVE  RecInv'
<1>1. /\ PoolShape(pool) /\ JobShape(job) /\ LeaseShape(lease) /\ PortalShape(portal)
      /\ DesktopShape(desktop) /\ PwShape(pw) /\ CmdShape(cmd) /\ FileShape(file)
      /\ SourceInv(cmd, job, portal, desktop, pw) /\ file.last.frame \in Nat
  BY RecFacts
<1>2. /\ cmd.at = "take" /\ file' = file /\ portal' = portal /\ desktop' = desktop /\ pw' = pw
  BY DEF TakeFrame, At, linuxVars
<1>3. lease = NoLease
  BY <1>2 DEF RecInv
<1>4. CASE TakeLatest /\ Goto("frame")
  <2>1. CmdShape(cmd') /\ cmd'.at = "frame" /\ cmd'.var = cmd.var
    BY <1>1, <1>4, Going DEF Recording
  <2>2. job' = job
    BY <1>4 DEF TakeLatest
  <2>3. PoolInv(pool, job, lease, file.last.frame)
    BY DEF RecInv
  <2>4. /\ PoolShape(pool') /\ LeaseShape(lease') /\ lease' # NoLease
        /\ PoolInv(pool', job', lease', file.last.frame)
    BY <1>1, <1>3, <1>4, <2>3, TakenKeeps
  <2>5. RecShape'
    BY <1>1, <1>2, <2>1, <2>2, <2>4 DEF RecShape
  <2>6. SourceInv(cmd', job', portal', desktop', pw')
    BY <1>1, <1>2, <2>1, <2>2 DEF SourceInv, Opening
  <2>7. LocalsInv(cmd')
    BY <2>1 DEF RecInv, LocalsInv
  <2>8. ChainInv(cmd', file'.last)
    BY <1>2, <2>1 DEF RecInv, ChainInv, Recording
  <2> QED  BY <1>2, <2>1, <2>4, <2>5, <2>6, <2>7, <2>8 DEF RecInv
<1>5. CASE UNCHANGED poolVars /\ Goto("loop")
  <2>1. CmdShape(cmd') /\ cmd'.at = "loop" /\ cmd'.var = cmd.var
    BY <1>1, <1>5, Going DEF Recording
  <2>2. pool' = pool /\ job' = job /\ lease' = lease
    BY <1>5 DEF poolVars
  <2>3. SourceInv(cmd', job, portal', desktop', pw')
    BY <1>1, <1>2, <2>1 DEF SourceInv, Opening
  <2>4. cmd.at \in Recording
    BY <1>2 DEF Recording
  <2> QED  BY <1>1, <1>2, <2>1, <2>2, <2>3, <2>4, FramedStep
<1> QED  BY <1>4, <1>5 DEF TakeFrame

(* A step with a leased frame: it lets go of the frame, and its locals and *)
(* the recording keep the chain.                                           *)
LEMMA FrameStep ==
  ASSUME RecInv, At("frame"), DropLease, UNCHANGED linuxVars,
         CmdShape(cmd'), cmd'.at \in {"loop", "stop"}, LocalsInv(cmd'), FileShape(file'),
         file'.last.frame \in {file.last.frame, lease.frame.id}, ChainInv(cmd', file'.last)
  PROVE  RecInv'
<1>1. /\ PoolShape(pool) /\ JobShape(job) /\ LeaseShape(lease) /\ PortalShape(portal)
      /\ DesktopShape(desktop) /\ PwShape(pw) /\ CmdShape(cmd) /\ FileShape(file)
      /\ SourceInv(cmd, job, portal, desktop, pw) /\ file.last.frame \in Nat
  BY RecFacts
<1>2. lease # NoLease /\ PoolInv(pool, job, lease, file.last.frame)
  BY DEF RecInv, At
<1>3. /\ job' = job /\ lease' = NoLease /\ portal' = portal /\ desktop' = desktop /\ pw' = pw
  BY DEF DropLease, linuxVars
<1>4. PoolShape(pool') /\ LeaseShape(lease') /\ PoolInv(pool', job', lease', file'.last.frame)
  BY <1>1, <1>2, ReleasedKeeps
<1>5. RecShape'
  BY <1>1, <1>3, <1>4 DEF RecShape
<1>6. SourceInv(cmd', job', portal', desktop', pw')
  BY <1>1, <1>3 DEF SourceInv, Opening
<1> QED  BY <1>3, <1>4, <1>5, <1>6 DEF RecInv

(* What a leased frame is. *)
LEMMA LeasedFrame ==
  ASSUME RecInv, At("frame")
  PROVE  /\ lease.frame.time \in 0 .. RecMaxTime + 1 /\ lease.frame.epoch \in Nat \ {0}
         /\ lease.frame.id \in Nat /\ file.last.frame < lease.frame.id
         /\ file.last.frame \in Nat /\ RecMaxTime \in Nat
         /\ FileShape(file) /\ CmdShape(cmd) /\ cmd.var \in LocalSet /\ LocalsInv(cmd)
         /\ ChainInv(cmd, file.last)
<1>1. LeaseShape(lease) /\ FileShape(file) /\ CmdShape(cmd) /\ file.last.frame \in Nat
  BY RecFacts
<1>2. LocalsInv(cmd) /\ ChainInv(cmd, file.last) /\ lease # NoLease
  BY DEF RecInv, At
<1>3. lease.frame \in CapFrames
  BY <1>1 DEF LeaseShape
<1>4. lease.frame.epoch >= 1 /\ file.last.frame < lease.frame.id
  BY <1>2 DEF RecInv, PoolInv, PoolOrder, LeaseOwned
<1>5. /\ lease.frame.time \in 0 .. RecMaxTime + 1 /\ lease.frame.epoch \in 0 .. CapMaxEpochs
      /\ lease.frame.id \in 0 .. CapMaxFrames
  BY <1>3 DEF CapFrames
<1>6. cmd.var \in LocalSet
  BY <1>1 DEF CmdShape
<1> QED  BY <1>1, <1>2, <1>4, <1>5, <1>6, CapBounds

(* Its interval, counted from the first frame. *)
LEMMA FirstFacts ==
  ASSUME RecInv, At("frame"), FrameSlot \in 0 .. RecMaxTime
  PROVE  /\ First \in Nat /\ FrameSlot \in Nat /\ First + FrameSlot <= RecMaxTime + 1
         /\ cmd.var.slot >= FrameSlot => First = cmd.var.first
<1>1. /\ lease.frame.time \in 0 .. RecMaxTime + 1 /\ RecMaxTime \in Nat
      /\ cmd.var \in LocalSet /\ LocalsInv(cmd)
  BY LeasedFrame
<1>2. cmd.var.first \in Int /\ cmd.var.slot \in Int
  BY <1>1 DEF LocalSet
<1>3. First \in Nat
  BY <1>1, <1>2 DEF First
<1>4. FrameSlot \in Nat /\ First + FrameSlot = lease.frame.time
  BY <1>1, <1>3 DEF FrameSlot
<1>5. cmd.var.slot >= FrameSlot => First = cmd.var.first
  BY <1>1, <1>2, <1>4 DEF First, LocalsInv
<1> QED  BY <1>1, <1>3, <1>4, <1>5

(* A frame that is dropped, or that ends the recording. *)
LEMMA RefuseFrameKeeps ==
  ASSUME RecInv, RefuseFrame
  PROVE  RecInv'
<1>1. At("frame") /\ DropLease /\ UNCHANGED linuxVars /\ file' = file
  BY DEF RefuseFrame
<1>2. /\ FileShape(file) /\ CmdShape(cmd) /\ cmd.var \in LocalSet /\ LocalsInv(cmd)
      /\ ChainInv(cmd, file.last)
  BY <1>1, LeasedFrame
<1>3. CASE Goto("stop")
  <2>1. CmdShape(cmd') /\ cmd'.at = "stop" /\ cmd'.var = cmd.var
    BY <1>2, <1>3, Going DEF Ending
  <2>2. LocalsInv(cmd') /\ ChainInv(cmd', file'.last)
    BY <1>2, <2>1 DEF LocalsInv, ChainInv, Opening, Recording
  <2> QED  BY <1>1, <1>2, <2>1, <2>2, FrameStep
<1>4. CASE /\ FrameSlot \in 0 .. RecMaxTime /\ cmd.var.slot >= FrameSlot
           /\ cmd' = [cmd EXCEPT !.at = "loop", !.var.first = First]
  <2>1. First = cmd.var.first
    BY <1>1, <1>4, FirstFacts
  <2>2. [cmd.var EXCEPT !.first = First] = cmd.var
    BY <1>2, <2>1 DEF LocalSet
  <2>3. cmd' = [cmd EXCEPT !.at = "loop"]
    BY <1>2, <1>4, <2>2 DEF CmdShape
  <2>4. CmdShape(cmd') /\ cmd'.at = "loop" /\ cmd'.var = cmd.var
    BY <1>2, <2>3 DEF CmdShape, Recording
  <2>5. LocalsInv(cmd')
    BY <1>2, <2>4 DEF LocalsInv
  <2>6. ChainInv(cmd', file'.last)
    BY <1>1, <1>2, <2>4 DEF At, ChainInv, Recording
  <2> QED  BY <1>1, <1>2, <2>4, <2>5, <2>6, FrameStep
<1> QED  BY <1>3, <1>4 DEF RefuseFrame

(* The locals after a frame that was converted. *)
AdvancedLocals(c, step, force) ==
  /\ CmdShape(c) /\ c.at = step
  /\ c.var.first = First /\ c.var.slot = FrameSlot /\ c.var.geometry = lease.frame.epoch
  /\ c.var.epoch = (IF NewGeometry THEN cmd.var.epoch + 1 ELSE cmd.var.epoch)
  /\ c.var.force = force

NextLocals(w, f, n, g, e) == [w EXCEPT !.first = f, !.slot = n, !.geometry = g, !.epoch = e]

(* Four locals are assigned one after the other. *)
LEMMA FourLocals ==
  ASSUME NEW w \in LocalSet, NEW f \in Int, NEW n \in Int, NEW g \in Nat, NEW e \in Nat
  PROVE  /\ NextLocals(w, f, n, g, e) \in LocalSet
         /\ NextLocals(w, f, n, g, e).first = f /\ NextLocals(w, f, n, g, e).slot = n
         /\ NextLocals(w, f, n, g, e).geometry = g /\ NextLocals(w, f, n, g, e).epoch = e
<1> DEFINE a == [w EXCEPT !.first = f]
           b == [a EXCEPT !.slot = n]
           c == [b EXCEPT !.geometry = g]
           d == [c EXCEPT !.epoch = e]
<1>1. a \in LocalSet /\ a.first = f
  BY DEF LocalSet
<1> HIDE DEF a
<1>2. b \in LocalSet /\ b.first = f /\ b.slot = n
  BY <1>1 DEF LocalSet
<1> HIDE DEF b
<1>3. c \in LocalSet /\ c.first = f /\ c.slot = n /\ c.geometry = g
  BY <1>2 DEF LocalSet
<1> HIDE DEF c
<1>4. d \in LocalSet /\ d.first = f /\ d.slot = n /\ d.geometry = g /\ d.epoch = e
  BY <1>3 DEF LocalSet
<1>5. d = NextLocals(w, f, n, g, e)
  BY DEF a, b, c, LocalSet, NextLocals
<1> HIDE DEF d
<1> QED  BY <1>4, <1>5

(* What Advanced assigns. *)
LEMMA AdvancedFields ==
  ASSUME RecInv, At("frame"), FrameSlot \in 0 .. RecMaxTime, NEW step \in {"loop", "stop"}
  PROVE  /\ Advanced(step) \in [at : {step}, started : BOOLEAN, state : TerminalStates, var : LocalSet]
         /\ Advanced(step).var.epoch = (IF NewGeometry THEN cmd.var.epoch + 1 ELSE cmd.var.epoch)
         /\ Advanced(step).var.first = First /\ Advanced(step).var.slot = FrameSlot
         /\ Advanced(step).var.geometry = lease.frame.epoch
<1> DEFINE e == IF NewGeometry THEN cmd.var.epoch + 1 ELSE cmd.var.epoch
           g == lease.frame.epoch
<1>1. /\ First \in Nat /\ FrameSlot \in Nat /\ First + FrameSlot <= RecMaxTime + 1
  BY FirstFacts
<1>2. CmdShape(cmd) /\ cmd.var \in LocalSet /\ g \in Nat
  BY LeasedFrame
<1>3. e \in Nat
  BY <1>2 DEF LocalSet
<1>4. Advanced(step).var.epoch = e /\ Advanced(step) \in [at : {step}, started : BOOLEAN, state : TerminalStates, var : LocalSet]
      /\ Advanced(step).var.first = First /\ Advanced(step).var.slot = FrameSlot
      /\ Advanced(step).var.geometry = g
  <2> HIDE DEF g
  <2>1. Advanced(step) = [cmd EXCEPT !.at = step, !.var.first = First, !.var.slot = FrameSlot,
              !.var.geometry = g, !.var.epoch = IF NewGeometry THEN @ + 1 ELSE @]
    BY DEF Advanced, g
  <2> DEFINE v == NextLocals(cmd.var, First, FrameSlot, g, e)
  <2>2. /\ v \in LocalSet /\ v.first = First /\ v.slot = FrameSlot /\ v.geometry = g /\ v.epoch = e
    <3> DEFINE w == cmd.var
               f == First
               n == FrameSlot
    <3>1. w \in LocalSet /\ f \in Int /\ n \in Int /\ g \in Nat /\ e \in Nat
      BY <1>1, <1>2, <1>3
    <3>2. v = NextLocals(w, f, n, g, e)
      OBVIOUS
    <3> HIDE DEF e, w, f, n, v
    <3>3. /\ NextLocals(w, f, n, g, e) \in LocalSet
          /\ NextLocals(w, f, n, g, e).first = f /\ NextLocals(w, f, n, g, e).slot = n
          /\ NextLocals(w, f, n, g, e).geometry = g /\ NextLocals(w, f, n, g, e).epoch = e
      BY <3>1, FourLocals
    <3>4. v \in LocalSet /\ v.first = f /\ v.slot = n /\ v.geometry = g /\ v.epoch = e
      BY <3>2, <3>3
    <3> QED  BY <3>4 DEF f, n
  <2>3. Advanced(step) = [cmd EXCEPT !.at = step, !.var = v]
    BY <1>2, <2>1 DEF CmdShape, LocalSet, NextLocals
  <2> HIDE DEF v, e
  <2> QED  BY <1>2, <2>2, <2>3 DEF CmdShape
<1> QED  BY <1>4

LEMMA AdvanceFacts ==
  ASSUME RecInv, At("frame"), FrameSlot \in 0 .. RecMaxTime, NEW step \in {"loop", "stop"},
         NEW force \in BOOLEAN, NEW c, c = [Advanced(step) EXCEPT !.var.force = force]
  PROVE  /\ AdvancedLocals(c, step, force) /\ LocalsInv(c)
         /\ Advanced(step).var.epoch = c.var.epoch
<1> DEFINE e == IF NewGeometry THEN cmd.var.epoch + 1 ELSE cmd.var.epoch
           g == lease.frame.epoch
           a == Advanced(step)
<1>1. /\ First \in Nat /\ FrameSlot \in Nat /\ First + FrameSlot <= RecMaxTime + 1
  BY FirstFacts
<1>4. /\ a.var.epoch = e /\ a \in [at : {step}, started : BOOLEAN, state : TerminalStates, var : LocalSet]
      /\ a.var.first = First /\ a.var.slot = FrameSlot /\ a.var.geometry = g
  BY AdvancedFields
<1>5. /\ c = [a EXCEPT !.var.force = force] /\ a.var.epoch = e
      /\ a \in [at : {step}, started : BOOLEAN, state : TerminalStates, var : LocalSet]
      /\ a.var.first = First /\ a.var.slot = FrameSlot /\ a.var.geometry = g
  BY <1>4
<1> HIDE DEF a, e, g
<1>6. /\ c \in [at : {step}, started : BOOLEAN, state : TerminalStates, var : LocalSet]
      /\ c.var.first = First /\ c.var.slot = FrameSlot /\ c.var.geometry = g /\ c.var.epoch = e
      /\ c.var.force = force
  <2> DEFINE v == [a.var EXCEPT !.force = force]
  <2>1. a.var \in LocalSet
    BY <1>5
  <2>2. /\ v \in LocalSet /\ v.force = force /\ v.first = a.var.first /\ v.slot = a.var.slot
        /\ v.geometry = a.var.geometry /\ v.epoch = a.var.epoch
    BY <2>1 DEF LocalSet
  <2>3. c = [a EXCEPT !.var = v]
    BY <1>5
  <2> HIDE DEF v
  <2>4. c \in [at : {step}, started : BOOLEAN, state : TerminalStates, var : LocalSet] /\ c.var = v
    BY <1>5, <2>2, <2>3
  <2> QED  BY <1>5, <2>2, <2>4
<1>7. CmdShape(c) /\ c.at = step
  BY <1>6 DEF CmdShape, Recording, Ending
<1>8. AdvancedLocals(c, step, force)
  BY <1>6, <1>7 DEF AdvancedLocals, e, g
<1>9. LocalsInv(c)
  BY <1>1, <1>6 DEF LocalsInv
<1> QED  BY <1>5, <1>6, <1>8, <1>9 DEF a

(* A skipped frame keeps the IDR due, an appended one starts or continues  *)
(* its epoch.                                                              *)
LEMMA ChainGoesOn ==
  ASSUME RecInv, At("frame"), NEW c, NEW step \in {"loop", "stop"}, NEW force \in BOOLEAN,
         AdvancedLocals(c, step, force), NEW last,
         \/ last = file.last /\ (step = "loop" => force = Forced)
         \/ last.epoch = c.var.epoch /\ last.geometry = lease.frame.epoch
  PROVE  ChainInv(c, last)
<1>1. /\ lease.frame.epoch \in Nat \ {0} /\ FileShape(file) /\ cmd.var \in LocalSet
      /\ ChainInv(cmd, file.last)
  BY LeasedFrame
<1>2. /\ c.at = step /\ c.var.geometry = lease.frame.epoch /\ c.var.force = force
      /\ c.var.epoch = (IF NewGeometry THEN cmd.var.epoch + 1 ELSE cmd.var.epoch)
  BY DEF AdvancedLocals
<1>3. CASE step = "stop"
  BY <1>2, <1>3 DEF ChainInv, Opening, Recording
<1>4. CASE step = "loop"
  <2>1. /\ cmd.var.epoch \in Nat /\ cmd.var.geometry \in Nat /\ file.last.epoch \in Nat
        /\ cmd.var.force \in BOOLEAN
    BY <1>1 DEF LocalSet, FileShape
  <2>2. c.var.epoch \in Nat
    BY <1>2, <2>1
  <2>3. CASE last.epoch = c.var.epoch /\ last.geometry = lease.frame.epoch
    BY <1>1, <1>2, <2>2, <2>3 DEF ChainInv
  <2>4. CASE last = file.last /\ force = Forced
    <3>1. /\ file.last.epoch <= cmd.var.epoch
          /\ file.last.epoch < cmd.var.epoch => cmd.var.force
          /\ file.last.epoch = cmd.var.epoch =>
               file.last.geometry = cmd.var.geometry /\ cmd.var.geometry # 0
      BY <1>1 DEF ChainInv, At, Recording
    <3>2. CASE NewGeometry
      <4>1. c.var.epoch = cmd.var.epoch + 1 /\ c.var.force
        BY <1>2, <2>4, <3>2 DEF Forced
      <4> QED  BY <2>1, <2>4, <3>1, <4>1 DEF ChainInv
    <3>3. CASE ~NewGeometry
      <4>1. c.var.epoch = cmd.var.epoch /\ c.var.force = cmd.var.force
        BY <1>2, <2>1, <2>4, <3>3 DEF Forced
      <4>2. cmd.var.geometry # 0 => cmd.var.geometry = lease.frame.epoch
        BY <3>3 DEF NewGeometry
      <4> QED  BY <1>2, <2>1, <2>4, <3>1, <4>1, <4>2 DEF ChainInv
    <3> QED  BY <3>2, <3>3
  <2> QED  BY <1>4, <2>3, <2>4
<1> QED  BY <1>3, <1>4

(* What the recording gets, if it gets a unit. *)
Appended(c) ==
  /\ AdvancedLocals(c, "loop", FALSE)
  /\ FileShape(file') /\ file'.last.epoch = c.var.epoch
  /\ file'.last.geometry = lease.frame.epoch /\ file'.last.frame = lease.frame.id
  /\ Forced => file'.last.idr

(* convert, scale, encode and append: what each outcome leaves behind. *)
LEMMA EncodeCases ==
  ASSUME RecInv, EncodeFrame
  PROVE  \/ /\ file' = file
            /\ AdvancedLocals(cmd', "loop", Forced) \/ AdvancedLocals(cmd', "stop", FALSE)
            /\ LocalsInv(cmd')
         \/ Appended(cmd') /\ LocalsInv(cmd')
         \/ file' = file /\ Goto("stop")
<1>1. At("frame") /\ FrameSlot \in 0 .. RecMaxTime
  BY DEF EncodeFrame
<1>2. FileShape(file) /\ lease.frame.epoch \in Nat /\ lease.frame.id \in Nat
      /\ cmd.var \in LocalSet
  BY <1>1, LeasedFrame
<1>3. Forced \in BOOLEAN
  BY <1>2 DEF Forced, LocalSet, NewGeometry
<1>4. CASE cmd' = [Advanced("loop") EXCEPT !.var.force = Forced] /\ UNCHANGED file
  <2>1. AdvancedLocals(cmd', "loop", Forced) /\ LocalsInv(cmd')
    BY <1>1, <1>3, <1>4, AdvanceFacts
  <2> QED  BY <1>4, <2>1
<1>5. ASSUME NEW idr \in (IF Forced THEN {TRUE} ELSE BOOLEAN), NEW unit,
             unit = [epoch |-> Advanced("loop").var.epoch, idr |-> idr,
                     geometry |-> lease.frame.epoch, frame |-> lease.frame.id],
             cmd' = [Advanced("loop") EXCEPT !.var.force = FALSE],
             file' = [file EXCEPT !.last = unit]
      PROVE  Appended(cmd') /\ LocalsInv(cmd')
  <2>1. AdvancedLocals(cmd', "loop", FALSE) /\ LocalsInv(cmd')
        /\ Advanced("loop").var.epoch = cmd'.var.epoch
    BY <1>1, <1>5, AdvanceFacts
  <2>2. cmd'.var.epoch \in Nat
    BY <2>1 DEF AdvancedLocals, CmdShape, LocalSet
  <2>3. /\ unit \in [epoch : Nat, idr : BOOLEAN, geometry : Nat, frame : Nat]
        /\ unit.epoch = cmd'.var.epoch /\ unit.geometry = lease.frame.epoch
        /\ unit.frame = lease.frame.id /\ unit.idr = idr
    BY <1>2, <1>5, <2>1, <2>2
  <2>4. FileShape(file') /\ file'.last = unit
    BY <1>2, <1>5, <2>3 DEF FileShape
  <2> QED  BY <1>5, <2>1, <2>3, <2>4 DEF Appended
<1>6. CASE cmd' = [Advanced("stop") EXCEPT !.var.force = FALSE] /\ UNCHANGED file
  <2>1. AdvancedLocals(cmd', "stop", FALSE) /\ LocalsInv(cmd')
    BY <1>1, <1>6, AdvanceFacts
  <2> QED  BY <1>6, <2>1
<1>7. CASE Goto("stop") /\ UNCHANGED file
  BY <1>7
<1> QED  BY <1>4, <1>5, <1>6, <1>7 DEF EncodeFrame

(* Every outcome keeps the chain. *)
LEMMA EncodeFrameKeeps ==
  ASSUME RecInv, EncodeFrame
  PROVE  RecInv'
<1>1. At("frame") /\ DropLease /\ UNCHANGED linuxVars
  BY DEF EncodeFrame
<1>2. /\ FileShape(file) /\ CmdShape(cmd) /\ cmd.var \in LocalSet /\ LocalsInv(cmd)
      /\ ChainInv(cmd, file.last)
  BY <1>1, LeasedFrame
<1>3. Forced \in BOOLEAN
  BY <1>2 DEF Forced, LocalSet, NewGeometry
<1>4. CASE file' = file /\ AdvancedLocals(cmd', "loop", Forced) /\ LocalsInv(cmd')
  <2>1. ChainInv(cmd', file'.last)
    BY <1>1, <1>3, <1>4, ChainGoesOn
  <2>2. CmdShape(cmd') /\ cmd'.at = "loop"
    BY <1>4 DEF AdvancedLocals
  <2> QED  BY <1>1, <1>2, <1>4, <2>1, <2>2, FrameStep
<1>5. CASE file' = file /\ AdvancedLocals(cmd', "stop", FALSE) /\ LocalsInv(cmd')
  <2>1. ChainInv(cmd', file'.last)
    BY <1>1, <1>5, ChainGoesOn
  <2>2. CmdShape(cmd') /\ cmd'.at = "stop"
    BY <1>5 DEF AdvancedLocals
  <2> QED  BY <1>1, <1>2, <1>5, <2>1, <2>2, FrameStep
<1>6. CASE Appended(cmd') /\ LocalsInv(cmd')
  <2>1. ChainInv(cmd', file'.last)
    BY <1>1, <1>6, ChainGoesOn DEF Appended
  <2>2. CmdShape(cmd') /\ cmd'.at = "loop" /\ FileShape(file') /\ file'.last.frame = lease.frame.id
    BY <1>6 DEF Appended, AdvancedLocals
  <2> QED  BY <1>1, <1>2, <1>6, <2>1, <2>2, FrameStep
<1>7. CASE file' = file /\ Goto("stop")
  <2>1. CmdShape(cmd') /\ cmd'.at = "stop" /\ cmd'.var = cmd.var
    BY <1>2, <1>7, Going DEF Ending
  <2>2. LocalsInv(cmd') /\ ChainInv(cmd', file'.last)
    BY <1>2, <2>1 DEF LocalsInv, ChainInv, Opening, Recording
  <2> QED  BY <1>1, <1>2, <1>7, <2>1, <2>2, FrameStep
<1> QED  BY <1>4, <1>5, <1>6, <1>7, EncodeCases

-----------------------------------------------------------------------------
(* The end of the command. *)

(* source.stop ends the pool with the reason found. *)
LEMMA StopSourceKeeps ==
  ASSUME RecInv, StopSource
  PROVE  RecInv'
<1>1. /\ PoolShape(pool) /\ JobShape(job) /\ LeaseShape(lease) /\ PortalShape(portal)
      /\ DesktopShape(desktop) /\ PwShape(pw) /\ CmdShape(cmd) /\ FileShape(file)
      /\ SourceInv(cmd, job, portal, desktop, pw)
  BY RecFacts
<1>2. /\ cmd.at = "stop" /\ pool' = Stopped(pool, cmd.state) /\ job' = job /\ lease' = lease
      /\ file' = file /\ portal' = portal /\ desktop' = desktop /\ pw' = pw
  BY DEF StopSource, At, linuxVars
<1>3. cmd.state \in TerminalStates
  BY <1>1 DEF CmdShape
<1>4. PoolInv(pool, job, lease, file.last.frame)
  BY DEF RecInv
<1>5. PoolShape(pool') /\ PoolInv(pool', job', lease', file'.last.frame)
  BY <1>1, <1>2, <1>3, <1>4, StoppedFields
<1>6. NoLocals \in LocalSet /\ NoLocals.first = -1 /\ NoLocals.slot = -1
  BY DEF NoLocals, LocalSet
<1>7. CmdShape(cmd') /\ cmd'.at \in {"flags", "close"} /\ cmd'.var = NoLocals
  <2> HIDE DEF NoLocals
  <2> QED  BY <1>1, <1>6 DEF StopSource, CmdShape, Ending
<1>8. RecShape'
  BY <1>1, <1>2, <1>5, <1>7 DEF RecShape
<1>9. lease' = NoLease /\ cmd'.at # "frame"
  BY <1>2, <1>7 DEF RecInv
<1>10. SourceInv(cmd', job', portal', desktop', pw')
  BY <1>1, <1>2, <1>7 DEF SourceInv, Opening
<1>11. LocalsInv(cmd') /\ ChainInv(cmd', file'.last)
  BY <1>6, <1>7 DEF LocalsInv, ChainInv, Opening, Recording
<1> QED  BY <1>5, <1>8, <1>9, <1>10, <1>11 DEF RecInv

(* The stream is told to stop and its loop is joined. *)
LEMMA StopStreamKeeps ==
  ASSUME RecInv, StopStream
  PROVE  RecInv'
<1>1. /\ PortalShape(portal) /\ DesktopShape(desktop) /\ PwShape(pw) /\ CmdShape(cmd)
      /\ FileShape(file) /\ SourceInv(cmd, job, portal, desktop, pw)
  BY RecFacts
<1>2. /\ cmd.at \in {"flags", "leave", "join"} /\ pool' = pool /\ job' = job /\ lease' = lease
      /\ file' = file /\ portal' = portal /\ desktop' = desktop
  BY DEF StopStream, DestroyFlags, DestroyLeave, DestroyJoin, poolVars
<1>3. CmdShape(cmd') /\ cmd'.at \in {"leave", "join", "close"} /\ cmd'.var = cmd.var
  <2>1. CASE Goto("leave")
    BY <1>1, <2>1, Going DEF Ending
  <2>2. CASE Goto("join")
    BY <1>1, <2>2, Going DEF Ending
  <2>3. CASE cmd' = [cmd EXCEPT !.at = "close", !.started = FALSE]
    BY <1>1, <2>3 DEF CmdShape, Ending
  <2> QED  BY <2>1, <2>2, <2>3 DEF StopStream
<1>4. /\ PwShape(pw')
      /\ \/ pw'.loop = pw.loop /\ pw'.fd = pw.fd
         \/ ~pw'.loop /\ ~pw'.fd /\ job.at = "idle"
  <2>1. CASE DestroyFlags
    BY <1>1, <2>1 DEF DestroyFlags, PwShape
  <2>2. CASE DestroyLeave
    BY <1>1, <2>2 DEF DestroyLeave, PwShape
  <2>3. CASE DestroyJoin
    BY <1>1, <2>3 DEF DestroyJoin, PwShape
  <2> QED  BY <2>1, <2>2, <2>3 DEF StopStream
<1>5. SourceInv(cmd', job, portal', desktop', pw')
  BY <1>1, <1>2, <1>3, <1>4 DEF SourceInv, Opening
<1>6. cmd.at # "frame" /\ cmd'.at # "frame" /\ cmd'.at \notin Opening \cup Recording
  BY <1>2, <1>3 DEF Opening, Recording
<1> QED  BY <1>1, <1>2, <1>3, <1>4, <1>5, <1>6, FramedStep

(* Portal, recorder and source are closed. *)
LEMMA ClosingKeeps ==
  ASSUME RecInv, ClosePortal \/ Finalize \/ DestroySource
  PROVE  RecInv'
<1>1. /\ PortalShape(portal) /\ DesktopShape(desktop) /\ PwShape(pw) /\ CmdShape(cmd)
      /\ FileShape(file) /\ SourceInv(cmd, job, portal, desktop, pw) /\ Known(portal, desktop)
  BY RecFacts
<1>2. /\ cmd.at \in {"close", "finalize", "destroyed"} /\ pool' = pool /\ job' = job
      /\ lease' = lease /\ pw' = pw
  BY DEF ClosePortal, Finalize, DestroySource, At, poolVars, linuxVars
<1>3. FileShape(file') /\ file'.last = file.last
  BY <1>1 DEF ClosePortal, Finalize, DestroySource, FileShape
<1>4. PICK s \in {"finalize", "destroyed", "done"} :
        Goto(s) /\ (s = "finalize" => ClosePortal) /\ (s = "destroyed" => Finalize)
                /\ (s = "done" => DestroySource)
  BY DEF ClosePortal, Finalize, DestroySource
<1>5. CmdShape(cmd') /\ cmd'.at = s /\ cmd'.var = cmd.var
  BY <1>1, <1>4, Going DEF Ending
<1>6. DesktopShape(DesktopClosed(portal)) /\ DesktopClosed(portal).session # "open"
  BY <1>1, DesktopCloses
<1>7. DesktopShape([DesktopClosed(portal) EXCEPT !.signals = {}])
      /\ [DesktopClosed(portal) EXCEPT !.signals = {}].session # "open"
  BY <1>6 DEF DesktopShape
<1>8. /\ PortalShape(portal') /\ DesktopShape(desktop') /\ Known(portal', desktop')
      /\ s = "done" => ~pw.loop /\ ~portal'.grant /\ ~portal'.session
  <2>1. CASE ClosePortal
    <3> DEFINE q == IF portal.life = "idle" THEN portal ELSE LifeClose(portal, "closed")
               r == CloseSession(q)
    <3>1. "closed" \in TerminalStates
      BY DEF TerminalStates
    <3>2. SameSession(portal, q)
      BY <1>1, <3>1, LifeKeeps DEF SameSession
    <3> HIDE DEF q
    <3>3. PortalShape(r) /\ ~r.session
      BY <1>1, <3>2, SessionCloses DEF SameSession, Known
    <3>4. portal' = [r EXCEPT !.terminal = "none", !.grant = FALSE]
          /\ desktop' = [DesktopClosed(portal) EXCEPT !.signals = {}]
      BY <2>1 DEF ClosePortal, PortalClosed, q
    <3> HIDE DEF r
    <3>5. PortalShape(portal') /\ ~portal'.session
      BY <3>3, <3>4 DEF PortalShape
    <3>6. s # "done"
      BY <1>5, <2>1 DEF ClosePortal, Goto, CmdShape
    <3> QED  BY <1>7, <3>4, <3>5, <3>6 DEF Known
  <2>2. CASE Finalize
    <3>1. s # "done"
      BY <1>5, <1>1, <2>2, Going DEF Finalize, Ending
    <3> QED  BY <1>1, <2>2, <3>1 DEF Finalize, linuxVars
  <2>3. CASE DestroySource
    <3> DEFINE r == CloseSession(portal)
    <3>1. PortalShape(r) /\ ~r.session
      BY <1>1, SessionCloses DEF Known
    <3>2. portal' = [r EXCEPT !.grant = FALSE, !.bus = FALSE]
          /\ desktop' = [DesktopClosed(portal) EXCEPT !.signals = {}] /\ ~pw.loop
      BY <2>3 DEF DestroySource
    <3> HIDE DEF r
    <3>3. PortalShape(portal') /\ ~portal'.session /\ ~portal'.grant
      BY <3>1, <3>2 DEF PortalShape
    <3> QED  BY <1>7, <3>2, <3>3 DEF Known
  <2> QED  BY <2>1, <2>2, <2>3
<1>9. SourceInv(cmd', job, portal', desktop', pw')
  BY <1>1, <1>2, <1>4, <1>5, <1>8 DEF SourceInv, Opening, Known
<1>10. cmd.at # "frame" /\ cmd'.at # "frame" /\ cmd'.at \notin Opening \cup Recording
  BY <1>2, <1>5 DEF Opening, Recording
<1> QED  BY <1>1, <1>2, <1>3, <1>5, <1>8, <1>9, <1>10, FramedStep

-----------------------------------------------------------------------------
(* The loop's thread, the desktop, and the whole. *)

(* A time stamp is never past the bound. *)
LEMMA FrameTimesFit == RecInv => FrameTimes \subseteq 0 .. RecMaxTime + 1
<1> SUFFICES ASSUME RecInv PROVE FrameTimes \subseteq 0 .. RecMaxTime + 1
  OBVIOUS
<1> DEFINE S == {0, cmd.var.first + cmd.var.slot} \cup {pool.slot[i].frame.time : i \in 1..CapSlots}
<1>1. PoolShape(pool) /\ CmdShape(cmd) /\ LocalsInv(cmd) /\ RecMaxTime \in Nat
  BY RecFacts, CapBounds DEF RecInv
<1>2. cmd.var.first + cmd.var.slot \in Int /\ cmd.var.first + cmd.var.slot <= RecMaxTime + 1
  BY <1>1 DEF CmdShape, LocalSet, LocalsInv
<1>3. \A i \in 1 .. CapSlots : pool.slot[i].frame.time \in 0 .. RecMaxTime + 1
  <2>1. \A d \in CapSlotSet : d.frame.time \in 0 .. RecMaxTime + 1
    BY DEF CapSlotSet, CapFrames
  <2> QED  BY <1>1, <2>1, SlotTypes
<1>4. S \in SUBSET Int /\ 0 \in S /\ \A x \in S : x <= RecMaxTime + 1
  BY <1>1, <1>2, <1>3
<1> HIDE DEF S
<1>5. RecMaxTime + 1 \in Int /\ S # {}
  BY <1>1, <1>4
<1>6. Max(S) \in S /\ \A x \in S : x <= Max(S)
  BY <1>4, <1>5, MostOfSome
<1>7. Newest = Max(S)
  BY DEF Newest, S
<1>8. Newest \in 0 .. RecMaxTime + 1
  <2>1. Max(S) \in Int /\ Max(S) <= RecMaxTime + 1 /\ 0 <= Max(S)
    BY <1>4, <1>6
  <2> QED  BY <1>1, <1>7, <2>1
<1> QED  BY <1>1, <1>8 DEF FrameTimes

(* A callback runs only while the loop does. *)
LEMMA WorkingLoop ==
  ASSUME RecInv, PoolShape(pool'), JobShape(job'), PoolInv(pool', job', lease, file.last.frame),
         lease' = lease, UNCHANGED linuxVars, UNCHANGED <<cmd, file>>, pw.loop
  PROVE  RecInv'
<1>1. /\ portal' = portal /\ desktop' = desktop /\ pw' = pw /\ cmd' = cmd /\ file' = file
  BY DEF linuxVars
<1>2. RecShape'
  BY <1>1 DEF RecInv, RecShape
<1>3. SourceInv(cmd', job', portal', desktop', pw')
  BY <1>1 DEF RecInv, SourceInv
<1>4. LocalsInv(cmd') /\ ChainInv(cmd', file'.last)
  BY <1>1 DEF RecInv
<1>5. lease' # NoLease <=> cmd'.at = "frame"
  BY <1>1 DEF RecInv
<1> QED  BY <1>1, <1>2, <1>3, <1>4, <1>5 DEF RecInv

(* Jobs that hold no slot, and the same job with its copy done. *)
LEMMA JobChanges ==
  ASSUME PoolInv(pool, job, lease, file.last.frame), JobShape(job), NEW j, JobShape(j),
         \/ ~Active(job) /\ ~Active(j) /\ (j.at = "idle" => j = NoJob)
         \/ Active(job) /\ Active(j) /\ j.index = job.index /\ j.id = job.id /\ j.epoch = job.epoch
  PROVE  PoolInv(pool, j, lease, file.last.frame)
<1>1. Active(j) => j.at # "idle"
  BY DEF Active
<1> QED  BY <1>1 DEF PoolInv, PoolOrder, JobOwned

(* ingest, in its parts, on the loop thread. *)
LEMMA LoopStepKeeps ==
  ASSUME RecInv, LoopStep
  PROVE  RecInv'
<1>1. /\ PoolShape(pool) /\ JobShape(job) /\ LeaseShape(lease) /\ file.last.frame \in Nat
      /\ PoolInv(pool, job, lease, file.last.frame)
  BY RecFacts DEF RecInv
<1>2. pw.loop /\ UNCHANGED linuxVars /\ UNCHANGED <<cmd, file>>
  BY DEF LoopStep, Process
<1>3. job.at = "idle" => job = NoJob
  BY <1>1 DEF PoolInv, JobOwned
<1>4. ASSUME NEW same \in BOOLEAN, NEW t \in FrameTimes, IngestReserve(same, t)
      PROVE  RecInv'
  <2>1. /\ job = NoJob /\ pool.next <= CapMaxFrames /\ WithGeometry(pool, same).epoch <= CapMaxEpochs
        /\ pool' = Reserve(pool, same, t).pool /\ job' = Reserve(pool, same, t).job /\ lease' = lease
    BY <1>3, <1>4 DEF IngestReserve
  <2>2. t \in 0 .. RecMaxTime + 1
    BY FrameTimesFit
  <2>3. PoolInv(pool, NoJob, lease, file.last.frame)
    BY <1>1, <2>1
  <2>4. /\ PoolShape(pool') /\ JobShape(job') /\ PoolInv(pool', job', lease, file.last.frame)
    BY <1>1, <2>1, <2>2, <2>3, ReserveKeeps
  <2> QED  BY <1>2, <2>1, <2>4, WorkingLoop
<1>5. CASE LoopIdle /\ IngestInvalid
  <2>1. pool' = pool /\ lease' = lease /\ job' = [NoJob EXCEPT !.at = "reject"]
    BY <1>5 DEF IngestInvalid
  <2>2. JobShape(job') /\ job'.at = "reject"
    BY <2>1, NoJobTypes
  <2>3. ~Active(job) /\ ~Active(job') /\ job'.at # "idle"
    BY <1>5, <2>2 DEF LoopIdle, Active
  <2>4. PoolInv(pool, job', lease, file.last.frame)
    BY <1>1, <2>2, <2>3, JobChanges
  <2> QED  BY <1>1, <1>2, <2>1, <2>2, <2>4, WorkingLoop
<1>6. ASSUME NEW whole \in BOOLEAN, IngestCopy(whole)
      PROVE  RecInv'
  <2>1. /\ pool' = pool /\ lease' = lease /\ job.at = "copy"
        /\ job' = [job EXCEPT !.at = "complete", !.whole = whole]
    BY <1>6 DEF IngestCopy
  <2>2. JobShape(job') /\ job'.at = "complete" /\ job'.index = job.index /\ job'.id = job.id
        /\ job'.epoch = job.epoch
    BY <1>1, <2>1 DEF JobShape
  <2>3. Active(job) /\ Active(job')
    BY <2>1, <2>2 DEF Active
  <2>4. PoolInv(pool, job', lease, file.last.frame)
    BY <1>1, <2>2, <2>3, JobChanges
  <2> QED  BY <1>1, <1>2, <2>1, <2>2, <2>4, WorkingLoop
<1>7. CASE IngestRejected
  <2>1. pool' = pool /\ lease' = lease /\ job' = NoJob /\ job.at = "reject"
    BY <1>7 DEF IngestRejected
  <2>2. JobShape(job') /\ ~Active(job') /\ ~Active(job)
    BY <2>1, NoJobTypes DEF Active
  <2>3. PoolInv(pool, job', lease, file.last.frame)
    BY <1>1, <2>1, <2>2, JobChanges
  <2> QED  BY <1>1, <1>2, <2>1, <2>2, <2>3, WorkingLoop
<1>8. CASE IngestComplete
  <2>1. pool' = Completed(pool) /\ lease' = lease /\ job' = NoJob /\ job.at = "complete"
    BY <1>8 DEF IngestComplete
  <2>2. PoolShape(pool') /\ PoolInv(pool', NoJob, lease, file.last.frame)
    BY <1>1, <2>1, CompletedKeeps
  <2>3. JobShape(job') /\ PoolInv(pool', job', lease, file.last.frame)
    BY <2>1, <2>2, NoJobTypes
  <2> QED  BY <1>2, <2>1, <2>2, <2>3, WorkingLoop
<1> QED  BY <1>4, <1>5, <1>6, <1>7, <1>8 DEF LoopStep, Process

(* fail ends the pool unless the stop is under way. *)
LEMMA FailStepKeeps ==
  ASSUME RecInv, FailStep
  PROVE  RecInv'
<1>1. /\ PoolShape(pool) /\ PwShape(pw) /\ PoolInv(pool, job, lease, file.last.frame)
  BY RecFacts DEF RecInv
<1>2. /\ job' = job /\ lease' = lease /\ portal' = portal /\ desktop' = desktop
      /\ cmd' = cmd /\ file' = file
      /\ pool' = (IF pw.stopping THEN pool ELSE Stopped(pool, "disconnected"))
      /\ pw' = [pw EXCEPT !.failing = FALSE]
  BY DEF FailStep, FailStops
<1>3. "disconnected" \in TerminalStates
  BY DEF TerminalStates
<1>4. PoolShape(pool') /\ PoolInv(pool', job, lease, file.last.frame)
  BY <1>1, <1>2, <1>3, StoppedFields
<1>5. PwShape(pw') /\ pw'.loop = pw.loop /\ pw'.fd = pw.fd
  BY <1>1, <1>2 DEF PwShape
<1>6. RecShape'
  BY <1>2, <1>4, <1>5 DEF RecInv, RecShape
<1>7. SourceInv(cmd', job', portal', desktop', pw')
  BY <1>2, <1>5 DEF RecInv, SourceInv
<1> QED  BY <1>2, <1>4, <1>6, <1>7 DEF RecInv

(* The desktop, the bus and the stream change no frame and open no session. *)
LEMMA OutsideStepKeeps ==
  ASSUME RecInv, OutsideStep
  PROVE  RecInv'
<1>1. /\ PortalShape(portal) /\ DesktopShape(desktop) /\ PwShape(pw) /\ CmdShape(cmd)
      /\ FileShape(file) /\ SourceInv(cmd, job, portal, desktop, pw)
  BY RecFacts
<1>2. pool' = pool /\ job' = job /\ lease' = lease /\ cmd' = cmd /\ file' = file /\ portal' = portal
  BY DEF OutsideStep, StreamReports, ProcessUnformatted, DesktopRevokes, BusCloses, poolVars
<1>3. PwShape(pw') /\ pw'.loop = pw.loop /\ pw'.fd = pw.fd
  <2>1. CASE StreamReports
    BY <1>1, <2>1 DEF StreamReports, PwShape
  <2>2. CASE ProcessUnformatted
    BY <1>1, <2>2 DEF ProcessUnformatted, PwShape
  <2>3. CASE DesktopRevokes \/ BusCloses
    BY <1>1, <2>3 DEF DesktopRevokes, BusCloses
  <2> QED  BY <2>1, <2>2, <2>3 DEF OutsideStep
<1>4. DesktopShape(desktop') /\ (desktop'.session = "open" => desktop.session = "open")
  <2>1. CASE StreamReports \/ ProcessUnformatted
    BY <1>1, <2>1 DEF StreamReports, ProcessUnformatted
  <2>2. CASE DesktopRevokes
    BY <1>1, <2>2 DEF DesktopRevokes, DesktopShape
  <2>3. CASE BusCloses
    BY <1>1, <2>3 DEF BusCloses, DesktopShape
  <2> QED  BY <2>1, <2>2, <2>3 DEF OutsideStep
<1>5. SourceInv(cmd', job, portal', desktop', pw')
  BY <1>1, <1>2, <1>3, <1>4 DEF SourceInv
<1> QED  BY <1>1, <1>2, <1>3, <1>4, <1>5, FramedStep

(* The command starts with nothing. *)
LEMMA RecInitHolds == CommandInit => RecInv
<1> SUFFICES ASSUME CommandInit PROVE RecInv
  OBVIOUS
<1>1. /\ pool = [slot |-> [i \in 1..CapSlots |-> FreeSlot], epoch |-> 0,
                 next |-> 1, open |-> TRUE, terminal |-> "idle"]
      /\ job = NoJob /\ lease = NoLease
      /\ portal = [life |-> "idle", bus |-> FALSE, session |-> FALSE, subscribed |-> FALSE,
                   terminal |-> "none", grant |-> FALSE]
      /\ desktop = [session |-> "none", signals |-> {}] /\ pw = NoStream
      /\ cmd = [at |-> "bus", started |-> FALSE, state |-> "closed", var |-> NoLocals]
      /\ file = [state |-> "none", last |-> NoAccessUnit]
  BY DEF CommandInit, PoolInit, PortalInit, DesktopInit, PwInit
<1>2. PoolShape(pool)
  <2>1. 0 \in 0 .. CapMaxEpochs /\ 1 \in 1 .. CapMaxFrames + 1
    BY CapBounds
  <2> QED  BY <1>1, <2>1, CapBounds DEF PoolShape
<1>3. LeaseShape(lease) /\ JobShape(job)
  BY <1>1, CapBounds, NoJobTypes DEF LeaseShape, NoLease
<1>4. PortalShape(portal) /\ DesktopShape(desktop) /\ PwShape(pw)
  BY <1>1 DEF PortalShape, DesktopShape, PwShape, NoStream, Lives
<1>5. CmdShape(cmd) /\ FileShape(file)
  BY <1>1 DEF CmdShape, FileShape, NoLocals, NoAccessUnit, LocalSet, Opening, TerminalStates
<1>6. PoolInv(pool, job, lease, file.last.frame)
  <2>1. \A i \in 1 .. CapSlots : pool.slot[i].state = "free"
    BY <1>1 DEF FreeSlot
  <2>2. file.last.frame = 0 /\ lease.frame.id = 0 /\ pool.next = 1 /\ pool.open
    BY <1>1 DEF NoAccessUnit, NoLease, NoFrame
  <2> QED  BY <1>1, <2>1, <2>2, NoJobTypes DEF PoolInv, PoolOrder, LeaseOwned, JobOwned, Ready
<1>7. lease = NoLease /\ cmd.at # "frame"
  BY <1>1
<1>8. SourceInv(cmd, job, portal, desktop, pw)
  BY <1>1, NoJobTypes DEF SourceInv, NoStream
<1>9. LocalsInv(cmd) /\ ChainInv(cmd, file.last)
  BY <1>1 DEF LocalsInv, ChainInv, NoLocals, NoAccessUnit
<1> QED  BY <1>2, <1>3, <1>4, <1>5, <1>6, <1>7, <1>8, <1>9 DEF RecInv, RecShape

(* Every step of either thread keeps the invariant. *)
LEMMA RecStepHolds == RecInv /\ [RecNext]_recVars => RecInv'
<1> SUFFICES ASSUME RecInv, [RecNext]_recVars PROVE RecInv'
  OBVIOUS
<1>1. CASE UNCHANGED recVars
  BY <1>1 DEF recVars, poolVars, linuxVars, RecInv, RecShape
<1>2. CASE CommandStep
  BY <1>2, SelectWindowKeeps, OpenRecorderKeeps, StartCaptureKeeps, WaitingKeeps, TakeFrameKeeps,
     RefuseFrameKeeps, EncodeFrameKeeps, StopSourceKeeps, StopStreamKeeps, ClosingKeeps
  DEF CommandStep
<1>3. CASE LoopStep
  BY <1>3, LoopStepKeeps
<1>4. CASE FailStep
  BY <1>4, FailStepKeeps
<1>5. CASE OutsideStep
  BY <1>5, OutsideStepKeeps
<1> QED  BY <1>1, <1>2, <1>3, <1>4, <1>5 DEF RecNext

(* Whatever the two threads and the desktop do. *)
LEMMA RecAlways == RecSpec => []RecInv
<1> QED  BY RecInitHolds, RecStepHolds, PTL DEF RecSpec

(* The invariant types the state. *)
LEMMA InvTypes == RecInv => RecTypeOK
<1> SUFFICES ASSUME RecInv PROVE RecTypeOK
  OBVIOUS
<1>1. /\ PoolShape(pool) /\ JobShape(job) /\ LeaseShape(lease) /\ PortalShape(portal)
      /\ DesktopShape(desktop) /\ PwShape(pw) /\ CmdShape(cmd) /\ FileShape(file)
  BY RecFacts
<1>2. CapFrames \subseteq FrameType
  BY CapBounds DEF CapFrames, FrameType
<1>3. CapSlotSet \subseteq [state : {"free", "copying", "ready", "leased"},
                            id : 0 .. CapMaxFrames, frame : FrameType]
  BY <1>2 DEF CapSlotSet
<1>4. pool.slot \in [1 .. CapSlots -> [state : {"free", "copying", "ready", "leased"},
                                       id : 0 .. CapMaxFrames, frame : FrameType]]
  BY <1>1, <1>3 DEF PoolShape
<1>5. PoolTypeOK
  BY <1>1, <1>2, <1>4 DEF PoolShape, JobShape, LeaseShape, PoolTypeOK
<1>6. pw \in [DOMAIN NoStream -> BOOLEAN]
  BY <1>1 DEF PwShape, NoStream
<1>7. LinuxTypeOK
  BY <1>1, <1>5, <1>6 DEF PortalShape, DesktopShape, Lives, LinuxTypeOK
<1>8. cmd.var \in LocalSet /\ cmd.started \in BOOLEAN
  BY <1>1 DEF CmdShape
<1> QED  BY <1>1, <1>7, <1>8 DEF LocalSet, FileShape, RecTypeOK

(* It says who has which slot, *)
LEMMA InvLeases == RecInv => LeaseHolds
<1> SUFFICES ASSUME RecInv PROVE LeaseHolds
  OBVIOUS
<1>1. PoolShape(pool) /\ PoolOrder(pool, job, lease, file.last.frame) /\ LeaseOwned(pool, lease)
      /\ JobOwned(pool, job, lease, file.last.frame)
  BY RecFacts DEF RecInv, PoolInv
<1>2. DOMAIN pool.slot = 1 .. CapSlots
  BY <1>1 DEF PoolShape
<1>3. lease # NoLease =>
        pool.slot[lease.index] = [state |-> "leased", id |-> lease.frame.id, frame |-> lease.frame]
  <2>1. \A d \in CapSlotSet : d = [state |-> d.state, id |-> d.id, frame |-> d.frame]
    BY DEF CapSlotSet
  <2>2. lease # NoLease => pool.slot[lease.index] \in CapSlotSet
    BY <1>1, SlotTypes DEF LeaseOwned
  <2> QED  BY <1>1, <2>1, <2>2 DEF LeaseOwned
<1>4. \A i \in In(pool, "ready") :
        /\ pool.slot[i].frame.epoch = pool.epoch /\ pool.slot[i].frame.id = pool.slot[i].id
        /\ pool.slot[i].id > lease.frame.id /\ pool.open
  BY <1>1, <1>2 DEF PoolOrder, In, Ready
<1>5. job.at \in {"copy", "complete"} => pool.slot[job.index].id = job.id
  BY <1>1 DEF JobOwned, Active
<1>6. In(pool, "copying") = IF Active(job) THEN {job.index} ELSE {}
  BY <1>1, <1>2 DEF JobOwned, In
<1>7. Cardinality(In(pool, "copying")) = (IF job.at \in {"copy", "complete"} THEN 1 ELSE 0)
  BY <1>6, FS_EmptySet, FS_Singleton DEF Active
<1> QED  BY <1>3, <1>4, <1>5, <1>7 DEF LeaseHolds

(* and that a command that has returned has nothing. *)
LEMMA InvReleases == RecInv => NothingHeld
<1> SUFFICES ASSUME RecInv, At("done") PROVE NothingHeld
  BY DEF NothingHeld
<1>1. SourceInv(cmd, job, portal, desktop, pw)
  BY RecFacts
<1>2. cmd.at = "done" /\ lease = NoLease
  BY DEF RecInv, At
<1>3. job.at = "idle"
  BY <1>1, <1>2 DEF SourceInv
<1>4. job = NoJob
  BY <1>3 DEF RecInv, PoolInv, JobOwned
<1> QED  BY <1>1, <1>2, <1>4 DEF SourceInv, NothingHeld

(* CaptureSafe: a captured frame has one holder at a time, a waiting frame *)
(* shows the current geometry in full and is newer than what was taken,    *)
(* and a command that has returned, whichever way, has left no frame,      *)
(* thread, descriptor or portal session behind.                            *)
THEOREM CaptureIsSafe == RecSpec => []CaptureSafe
<1>1. RecInv => CaptureSafe
  BY InvTypes, InvLeases, InvReleases DEF CaptureSafe
<1> QED  BY <1>1, RecAlways, PTL

(* A unit appended to the recording continues it. *)
ChainStep(old, new) ==
  new # old =>
    /\ new.epoch # old.epoch => new.idr
    /\ new.epoch = old.epoch => new.geometry = old.geometry
    /\ new.frame > old.frame /\ new.epoch >= old.epoch

(* Only an encoded frame adds a unit. *)
LEMMA OnlyEncodeAppends ==
  ASSUME RecNext, file'.last # file.last, FileShape(file)
  PROVE  EncodeFrame
<1>1. ASSUME file' = file PROVE FALSE
  BY <1>1
<1>2. ASSUME OpenRecorder \/ Finalize PROVE file'.last = file.last
  BY <1>2 DEF OpenRecorder, Finalize, FileShape
<1>3. CASE CommandStep
  BY <1>1, <1>2, <1>3 DEF CommandStep, SelectWindow, StartCapture, WaitForStream, LoopStops, PollSource,
     TakeFrame, RefuseFrame, StopSource, StopStream, ClosePortal, DestroySource
<1>4. CASE LoopStep \/ FailStep \/ OutsideStep
  BY <1>1, <1>4 DEF LoopStep, FailStep, OutsideStep
<1> QED  BY <1>3, <1>4 DEF RecNext

(* And what it adds continues what is there. *)
LEMMA UnitContinues ==
  ASSUME RecInv, [RecNext]_recVars
  PROVE  ChainStep(file.last, file'.last)
<1>1. CASE file'.last = file.last
  BY <1>1 DEF ChainStep
<1>2. CASE file'.last # file.last
  <2>1. FileShape(file) /\ CmdShape(cmd)
    BY RecFacts
  <2>2. RecNext
    BY <1>2 DEF recVars
  <2>3. EncodeFrame
    BY <1>2, <2>1, <2>2, OnlyEncodeAppends
  <2>4. At("frame")
    BY <2>3 DEF EncodeFrame
  <2>5. Appended(cmd')
    BY <1>2, <2>3, EncodeCases
  <2>6. /\ file.last.frame < lease.frame.id /\ cmd.var \in LocalSet /\ ChainInv(cmd, file.last)
        /\ lease.frame.id \in Nat /\ file.last.frame \in Nat /\ lease.frame.epoch \in Nat \ {0}
    BY <2>4, LeasedFrame
  <2>7. /\ file'.last.epoch = (IF NewGeometry THEN cmd.var.epoch + 1 ELSE cmd.var.epoch)
        /\ file'.last.geometry = lease.frame.epoch /\ file'.last.frame = lease.frame.id
        /\ Forced => file'.last.idr
    BY <2>5 DEF Appended, AdvancedLocals
  <2>8. /\ file.last.epoch <= cmd.var.epoch
        /\ file.last.epoch < cmd.var.epoch => cmd.var.force
        /\ file.last.epoch = cmd.var.epoch =>
             file.last.geometry = cmd.var.geometry /\ cmd.var.geometry # 0
    BY <2>4, <2>6 DEF ChainInv, At, Recording
  <2>9. file.last.epoch \in Nat /\ cmd.var.epoch \in Nat
    BY <2>1, <2>6 DEF FileShape, LocalSet
  <2>10. CASE NewGeometry
    <3>1. Forced
      BY <2>10 DEF Forced
    <3> QED  BY <2>6, <2>7, <2>8, <2>9, <2>10, <3>1 DEF ChainStep
  <2>11. CASE ~NewGeometry
    <3>1. cmd.var.geometry # 0 => cmd.var.geometry = lease.frame.epoch
      BY <2>11 DEF NewGeometry
    <3>2. cmd.var.force => Forced
      BY DEF Forced
    <3> QED  BY <2>6, <2>7, <2>8, <2>9, <2>11, <3>1, <3>2 DEF ChainStep
  <2> QED  BY <2>10, <2>11
<1> QED  BY <1>1, <1>2

(* RecordedChain: the recording plays; within a dependency epoch one       *)
(* geometry, at its start an IDR even if the encoder skipped the frame the *)
(* epoch began with, and the frames in capture order.                      *)
THEOREM RecordedUnitsChain == RecSpec => RecordedChain
<1>1. RecInv /\ [RecNext]_recVars => [ChainStep(file.last, file'.last)]_file
  BY UnitContinues
<1>2. ChainStep(file.last, file'.last) =>
        LET old == file.last
            new == file'.last
        IN  new # old =>
              /\ new.epoch # old.epoch => new.idr
              /\ new.epoch = old.epoch => new.geometry = old.geometry
              /\ new.frame > old.frame /\ new.epoch >= old.epoch
  BY DEF ChainStep
<1> QED  BY <1>1, <1>2, RecAlways, PTL DEF RecSpec, RecordedChain
=============================================================================
