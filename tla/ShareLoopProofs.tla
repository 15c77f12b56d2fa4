-------------------------- MODULE ShareLoopProofs --------------------------
(***************************************************************************)
(* The share's loop for every bound on frames, events and disturbances: a  *)
(* healthy recorder misses nothing, an epoch starts with an IDR, and a     *)
(* revoked transport stays revoked.  The inductive invariant ties together *)
(* what the loop keeps in separate flags: the recorder and its branch of   *)
(* the fanout, the transport and its queue, the epoch and the forced IDR.  *)
(***************************************************************************)
EXTENDS ShareLoop, TLAPS

EntryType == [id : 0 .. MaxEncoded, epoch : Nat, idr : BOOLEAN, size : Nat, age : Nat]

QueueType == [open : BOOLEAN, unusable : BOOLEAN, awaiting : BOOLEAN,
              queue : Seq(EntryType), floor : Nat]

(* An unusable queue is closed. *)
Sound(t) == t.unusable => ~t.open

(* What every operation makes of a queue t: it never opens a closed one. *)
Follows(t, n) == n \in QueueType /\ Sound(n) /\ (n.open => t.open)

WebType == [ready : BOOLEAN, stopped : BOOLEAN, events : Seq(EventKinds)]

(* A transport whose event queue is within its capacity. *)
Bounded(w) == w \in WebType /\ Len(w.events) <= MaxShareEvents

PcType == {"prepare", "select", "record", "capture", "connect", "top", "events", "start",
           "control", "frame", "publish", "send", "shutdown", "stopped"}

EndType == {"", "stop", "peer", "link", "capture", "encoder", "recorder", "branches"}

FanType == [made : BOOLEAN, transport : BOOLEAN, recorder : BOOLEAN]

PeerType == [state : {"none", "live", "disconnected", "failed"}, epoch : Nat]

(* What the loop's thread keeps, without the queue. *)
LoopTypes ==
  /\ pc \in PcType /\ ended \in EndType
  /\ session \in [recording : BOOLEAN, window : BOOLEAN, file : BOOLEAN]
  /\ remote \in [active : BOOLEAN, ready : BOOLEAN]
  /\ recorder \in BOOLEAN /\ capture \in BOOLEAN
  /\ enc \in [force : BOOLEAN, epoch : Nat \ {0}]
  /\ unit \in UnitType /\ sent \in UnitType /\ offers \in 0 .. MaxEncoded
  /\ fan \in FanType

(* The types of everything, with the records TypeOK describes by field. *)
FullTypes ==
  /\ LoopTypes
  /\ q \in QueueType /\ Sound(q)
  /\ Bounded(webrtc)
  /\ peer \in PeerType
  /\ stopping \in BOOLEAN /\ budget \in 0 .. Disturbances

Preparing == {"prepare", "select", "record", "capture", "connect"}

(* The recorder has been offered what was encoded, and its branch of the   *)
(* fanout is there while the receiver is.                                  *)
RecorderInv ==
  /\ recorder => offers = IF pc = "publish" THEN unit.id - 1 ELSE unit.id
  /\ pc = "publish" => unit.id >= 1
  /\ pc \in Preparing => unit.id = 0 /\ offers = 0 /\ ~remote.ready
  /\ remote.ready /\ pc # "stopped" => (fan.recorder <=> recorder)

(* What the preparation holds at each step. *)
SessionInv ==
  pc \in {"prepare", "select", "stopped"} => ~session.window /\ ~session.file

(* A pending change of epoch has its IDR forced. *)
EpochInv == enc.epoch # unit.epoch => enc.force

(* A stopped transport is cut off from the loop, and a fanout without its  *)
(* transport branch has a closed queue.                                    *)
RevokedInv ==
  /\ webrtc.stopped => ~remote.active /\ webrtc.events = << >> /\ ~q.open
  /\ remote.ready /\ pc # "stopped" => remote.active
  /\ fan.made /\ ~fan.transport => ~q.open
  /\ pc \in Preparing => ~remote.active /\ ~webrtc.stopped

ShareInv == FullTypes /\ RecorderInv /\ SessionInv /\ EpochInv /\ RevokedInv

-----------------------------------------------------------------------------
(* The transport queue. *)

(* A purge leaves the queue open or closed as it was. *)
LEMMA PurgeFollows ==
  ASSUME NEW t \in QueueType, Sound(t)
  PROVE  /\ Follows(t, QueuePurge(t))
         /\ QueuePurge(t).open = t.open /\ QueuePurge(t).unusable = t.unusable
<1>1. << >> \in Seq(EntryType)
  OBVIOUS
<1>2. QueuePurge(t) = [t EXCEPT !.queue = << >>, !.awaiting = TRUE]
  BY DEF QueuePurge
<1> QED  BY <1>1, <1>2 DEF Follows, QueueType, Sound

LEMMA ExpireFollows ==
  ASSUME NEW t \in QueueType, Sound(t)
  PROVE  Follows(t, QueueExpire(t))
BY PurgeFollows DEF QueueExpire, Follows

LEMMA UnusableFollows ==
  ASSUME NEW t \in QueueType, Sound(t)
  PROVE  Follows(t, Unusable(t))
<1> DEFINE p == QueuePurge(t)
<1>1. p \in QueueType
  BY PurgeFollows DEF Follows
<1>2. Unusable(t) = [p EXCEPT !.open = FALSE, !.unusable = TRUE]
  BY DEF Unusable
<1> HIDE DEF p
<1> QED  BY <1>1, <1>2 DEF Follows, QueueType, Sound

LEMMA StopFollows ==
  ASSUME NEW t \in QueueType, Sound(t)
  PROVE  Follows(t, QueueStop(t)) /\ ~QueueStop(t).open
<1> DEFINE p == QueuePurge(t)
<1>1. p \in QueueType
  BY PurgeFollows DEF Follows
<1>2. QueueStop(t) = IF t.open THEN [p EXCEPT !.open = FALSE] ELSE t
  BY DEF QueueStop
<1> HIDE DEF p
<1>3. CASE t.open
  BY <1>1, <1>2, <1>3 DEF Follows, QueueType, Sound
<1>4. CASE ~t.open
  BY <1>2, <1>4 DEF Follows
<1> QED  BY <1>3, <1>4

LEMMA RaiseFollows ==
  ASSUME NEW t \in QueueType, Sound(t), NEW u \in UnitType
  PROVE  Follows(t, RaiseFloor(t, u))
<1> DEFINE p == QueuePurge(t)
<1>1. p \in QueueType /\ p.open = t.open /\ p.unusable = t.unusable
  BY PurgeFollows DEF Follows
<1>2. RaiseFloor(t, u) =
        IF t.floor # 0 /\ u.epoch > t.floor THEN [p EXCEPT !.floor = u.epoch] ELSE t
  BY DEF RaiseFloor
<1> HIDE DEF p
<1>3. CASE t.floor # 0 /\ u.epoch > t.floor
  BY <1>1, <1>2, <1>3 DEF Follows, QueueType, UnitType, Sound
<1>4. CASE ~(t.floor # 0 /\ u.epoch > t.floor)
  BY <1>2, <1>4 DEF Follows
<1> QED  BY <1>3, <1>4

LEMMA PushFollows ==
  ASSUME NEW t \in QueueType, Sound(t), NEW u \in UnitType
  PROVE  Follows(t, Push(t, u))
<1> DEFINE e == [id |-> u.id, epoch |-> u.epoch, idr |-> u.idr, size |-> u.size, age |-> 0]
<1>1. e \in EntryType
  BY DEF EntryType, UnitType
<1>2. Push(t, u) = [t EXCEPT !.awaiting = FALSE,
                             !.floor = IF t.awaiting THEN u.epoch ELSE t.floor,
                             !.queue = Append(t.queue, e)]
  BY DEF Push
<1> HIDE DEF e
<1>3. Append(t.queue, e) \in Seq(EntryType)
  BY <1>1 DEF QueueType
<1> QED  BY <1>2, <1>3 DEF Follows, QueueType, UnitType, Sound

LEMMA FollowsChain ==
  ASSUME NEW t, NEW m, NEW n, Follows(t, m), Follows(m, n)
  PROVE  Follows(t, n)
BY DEF Follows

(* Whatever enqueue decides about a unit, a closed queue stays closed. *)
LEMMA EnqueueFollows ==
  ASSUME NEW t \in QueueType, Sound(t), NEW u \in UnitType
  PROVE  Follows(t, EnqueueUnit(t, u).q)
<1> DEFINE x == QueueExpire(t)
           r == RaiseFloor(x, u)
           n == EnqueueUnit(t, u).q
<1>1. Follows(t, x) /\ x \in QueueType /\ Sound(x)
  BY ExpireFollows DEF Follows
<1>2. EnqueueUnit(t, u) =
        IF ~t.open THEN Refusal(t, t.awaiting)
        ELSE IF x.floor # 0 /\ u.epoch < x.floor THEN Refusal(x, x.awaiting)
        ELSE IF r.awaiting /\ ~u.idr THEN Refusal(r, TRUE)
        ELSE PushIfRoom(r, u)
  BY DEF EnqueueUnit
<1> HIDE DEF x
<1>3. Follows(t, r) /\ r \in QueueType /\ Sound(r)
  <2>1. Follows(x, r)
    BY <1>1, RaiseFollows
  <2> QED  BY <1>1, <2>1, FollowsChain DEF Follows
<1> HIDE DEF r
<1>4. n \in {t, x, r} \/ n = PushIfRoom(r, u).q
  BY <1>2 DEF Refusal
<1>5. PushIfRoom(r, u).q \in {Unusable(r), QueuePurge(r), Push(r, u)}
  BY DEF PushIfRoom, Refusal
<1>6. /\ Follows(r, Unusable(r)) /\ Follows(r, QueuePurge(r)) /\ Follows(r, Push(r, u))
      /\ Follows(t, t)
  BY <1>3, UnusableFollows, PurgeFollows, PushFollows DEF Follows
<1> HIDE DEF n
<1>7. Follows(t, n)
  BY <1>1, <1>3, <1>4, <1>5, <1>6, FollowsChain
<1> QED  BY <1>7 DEF n

LEMMA DequeueFollows ==
  ASSUME NEW t \in QueueType, Sound(t)
  PROVE  Follows(t, DequeueUnit(t))
<1>1. CASE DequeueUnit(t) = t \/ DequeueUnit(t) = QueuePurge(t)
  BY <1>1, PurgeFollows DEF Follows
<1>2. CASE t.queue # << >> /\ DequeueUnit(t) = [t EXCEPT !.queue = Tail(t.queue)]
  <2>1. Tail(t.queue) \in Seq(EntryType)
    BY <1>2 DEF QueueType
  <2> QED  BY <1>2, <2>1 DEF Follows, QueueType, Sound
<1> QED  BY <1>1, <1>2 DEF DequeueUnit

LEMMA RecoveryFollows ==
  ASSUME NEW t \in QueueType, Sound(t)
  PROVE  Follows(t, QueueRequireRecovery(t))
BY PurgeFollows DEF QueueRequireRecovery, Follows

LEMMA AgedFollows ==
  ASSUME NEW t \in QueueType, Sound(t)
  PROVE  Follows(t, QueueAged(t))
<1> DEFINE older(e) == [e EXCEPT !.age = IF e.age < MaxAge THEN e.age + 1 ELSE e.age]
           new == [i \in DOMAIN t.queue |-> older(t.queue[i])]
<1>1. \A e \in EntryType : older(e) \in EntryType
  BY QueueAssumption DEF EntryType
<1>2. t.queue \in Seq(EntryType)
  BY DEF QueueType
<1>3. QueueAged(t) = [t EXCEPT !.queue = new]
  BY DEF QueueAged
<1> HIDE DEF older
<1>4. new \in Seq(EntryType)
  BY <1>1, <1>2
<1> HIDE DEF new
<1> QED  BY <1>3, <1>4 DEF Follows, QueueType, Sound

-----------------------------------------------------------------------------
(* The transport's event queue. *)

(* What the peer's threads make of the transport w: a bounded event queue, *)
(* and nothing at all for the loop of a stopped transport.                 *)
Reports(w, n) ==
  /\ n \in WebType /\ Len(n.events) <= MaxShareEvents
  /\ n.stopped = w.stopped
  /\ w.stopped => n.events = w.events

LEMMA PushReports ==
  ASSUME NEW w, Bounded(w), NEW kind \in EventKinds
  PROVE  Reports(w, PushLocked(w, kind)) /\ Bounded(PushLocked(w, kind))
<1> DEFINE last == <<"terminal">>
<1>1. w.events \in Seq(EventKinds) /\ Len(w.events) \in Nat /\ MaxShareEvents \in Nat \ {0}
  BY ShareAssumption DEF Bounded, WebType
<1>2. Append(w.events, kind) \in Seq(EventKinds)
      /\ Len(Append(w.events, kind)) = Len(w.events) + 1
  BY <1>1
<1>3. last \in Seq(EventKinds) /\ Len(last) = 1
  BY DEF EventKinds
<1>4. CASE w.stopped
  BY <1>4 DEF PushLocked, Reports, Bounded
<1>5. CASE ~w.stopped /\ Len(w.events) >= MaxShareEvents
  <2>1. PushLocked(w, kind) = [w EXCEPT !.ready = FALSE, !.events = last]
    BY <1>5 DEF PushLocked
  <2> HIDE DEF last
  <2>2. /\ PushLocked(w, kind) \in WebType /\ PushLocked(w, kind).events = last
        /\ PushLocked(w, kind).stopped = w.stopped
    BY <1>3, <2>1 DEF Bounded, WebType
  <2>3. Len(last) <= MaxShareEvents
    BY <1>1, <1>3
  <2>4. Len(PushLocked(w, kind).events) <= MaxShareEvents
    BY <2>2, <2>3, Zenon
  <2> QED  BY <1>5, <2>2, <2>4 DEF Reports, Bounded
<1>6. CASE ~w.stopped /\ ~(Len(w.events) >= MaxShareEvents)
  <2>1. PushLocked(w, kind) = [w EXCEPT !.events = Append(w.events, kind)]
    BY <1>6 DEF PushLocked
  <2> QED  BY <1>1, <1>2, <1>6, <2>1 DEF Reports, Bounded, WebType
<1> QED  BY <1>4, <1>5, <1>6

LEMMA ReadyReports ==
  ASSUME NEW w, Bounded(w), NEW b \in BOOLEAN, NEW kind \in EventKinds
  PROVE  Reports(w, PushLocked([w EXCEPT !.ready = b], kind))
<1> DEFINE r == [w EXCEPT !.ready = b]
<1>1. Bounded(r) /\ r.stopped = w.stopped /\ r.events = w.events
  BY DEF Bounded, WebType
<1> HIDE DEF r
<1>2. Reports(r, PushLocked(r, kind))
  BY <1>1, PushReports
<1>3. Reports(w, PushLocked(r, kind))
  BY <1>1, <1>2 DEF Reports
<1> QED  BY <1>3 DEF r

LEMMA FailReports ==
  ASSUME NEW w, Bounded(w)
  PROVE  Reports(w, FailLocked(w))
BY ReadyReports DEF FailLocked, EventKinds

LEMMA RequestReports ==
  ASSUME NEW w, Bounded(w)
  PROVE  Reports(w, RequestIdr(w))
<1> DEFINE n == PushLocked(w, "recovery_requested")
<1>1. Reports(w, n) /\ Bounded(n)
  BY PushReports DEF EventKinds
<1> HIDE DEF n
<1>2. Reports(n, PushLocked(n, "recovery_requested"))
  BY <1>1, PushReports DEF EventKinds
<1>3. Reports(w, PushLocked(n, "recovery_requested"))
  BY <1>1, <1>2 DEF Reports
<1> QED  BY <1>3 DEF RequestIdr, n

LEMMA PopReports ==
  ASSUME Bounded(webrtc), webrtc.events # << >>, PopEvent
  PROVE  Bounded(webrtc') /\ webrtc'.stopped = webrtc.stopped
<1> DEFINE rest == Tail(webrtc.events)
<1>1. rest \in Seq(EventKinds) /\ Len(rest) <= MaxShareEvents
  BY ShareAssumption DEF Bounded, WebType
<1>2. webrtc' = [webrtc EXCEPT !.events = rest]
  BY DEF PopEvent
<1> HIDE DEF rest
<1>3. webrtc' \in WebType /\ webrtc'.events = rest /\ webrtc'.stopped = webrtc.stopped
  BY <1>1, <1>2 DEF Bounded, WebType
<1>4. Len(webrtc'.events) <= MaxShareEvents
  BY <1>1, <1>3, Zenon
<1> QED  BY <1>3, <1>4 DEF Bounded

LEMMA StopType ==
  ASSUME NEW w
  PROVE  Bounded(StopTransport(w)) /\ StopTransport(w).stopped
         /\ StopTransport(w).events = << >>
<1>1. << >> \in Seq(EventKinds) /\ Len(<< >>) = 0 /\ MaxShareEvents \in Nat
  BY ShareAssumption
<1> QED  BY <1>1 DEF StopTransport, Bounded, WebType

-----------------------------------------------------------------------------
LEMMA TypesImply ==
  FullTypes => TypeOK
<1> SUFFICES ASSUME FullTypes PROVE TypeOK
  OBVIOUS
<1>1. /\ webrtc.ready \in BOOLEAN /\ webrtc.stopped \in BOOLEAN
      /\ webrtc.events \in Seq(EventKinds) /\ Len(webrtc.events) <= MaxShareEvents
  BY DEF FullTypes, Bounded, WebType
<1>2. /\ peer.state \in {"none", "live", "disconnected", "failed"}
      /\ peer.epoch \in Nat
  BY DEF FullTypes, PeerType
<1> QED  BY <1>1, <1>2, Zenon DEF FullTypes, LoopTypes, TypeOK, PcType, EndType, FanType

(* What the peer's threads report leaves the loop's invariant alone. *)
LEMMA ReportStep ==
  ASSUME ShareInv, Reports(webrtc, webrtc'), UNCHANGED <<pc, app>>,
         peer' \in PeerType,
         stopping' \in BOOLEAN, budget' \in 0 .. Disturbances
  PROVE  ShareInv'
<1>1. FullTypes'
  <2>1. LoopTypes'
    BY DEF app, ShareInv, FullTypes, LoopTypes
  <2>2. Bounded(webrtc')
    BY DEF Reports, Bounded
  <2> QED  BY <2>1, <2>2 DEF ShareInv, FullTypes, app
<1>2. RecorderInv' /\ SessionInv' /\ EpochInv'
  BY DEF ShareInv, RecorderInv, SessionInv, EpochInv, app
<1>3. RevokedInv'
  BY DEF ShareInv, RevokedInv, Reports, app
<1> QED  BY <1>1, <1>2, <1>3 DEF ShareInv

(* disable_remote in the loop: the transport is cut off and its queue      *)
(* closed, whatever the same step did to the queue and the fanout before.  *)
LEMMA DisableShape ==
  ASSUME ShareInv, pc # "stopped",
         NEW t, Follows(q, t),
         NEW f \in FanType,
         f.made /\ ~f.transport => ~t.open,
         DisableRemote(t, f)
  PROVE  /\ Follows(q, q')
         /\ fan' \in FanType
         /\ fan'.made /\ ~fan'.transport => ~q'.open
         /\ remote' = [active |-> FALSE, ready |-> FALSE]
         /\ Bounded(webrtc')
         /\ webrtc.stopped => webrtc'.stopped
         /\ webrtc'.stopped => webrtc'.events = << >> /\ ~q'.open
<1>1. /\ remote \in [active : BOOLEAN, ready : BOOLEAN]
      /\ Bounded(webrtc) /\ t \in QueueType /\ Sound(t)
      /\ remote.ready => remote.active
      /\ webrtc.stopped => ~remote.active /\ webrtc.events = << >> /\ ~q.open
  BY DEF ShareInv, FullTypes, LoopTypes, RevokedInv, Follows
<1>2. CASE ~remote.active
  <2>1. remote = [active |-> FALSE, ready |-> FALSE]
    BY <1>1, <1>2
  <2>2. q' = t /\ fan' = f /\ remote' = remote /\ webrtc' = webrtc
    BY <1>2 DEF DisableRemote
  <2> QED  BY <1>1, <2>1, <2>2 DEF Follows
<1>3. CASE remote.active
  <2>1. /\ remote' = [active |-> FALSE, ready |-> FALSE]
        /\ q' = IF f.made /\ ~f.transport THEN t ELSE QueueStop(t)
        /\ fan' = [f EXCEPT !.transport = FALSE]
        /\ webrtc' = StopTransport(webrtc)
    BY <1>3 DEF DisableRemote
  <2>2. Follows(q, q') /\ ~q'.open
    <3>1. Follows(t, QueueStop(t)) /\ ~QueueStop(t).open
      BY <1>1, StopFollows
    <3> QED  BY <2>1, <3>1, FollowsChain
  <2>3. Bounded(webrtc') /\ webrtc'.stopped /\ webrtc'.events = << >>
    BY <2>1, StopType
  <2> QED  BY <2>1, <2>2, <2>3 DEF FanType
<1> QED  BY <1>1, <1>2, <1>3

(* Every step keeps the inductive invariant. *)
LEMMA ShareStep ==
  ASSUME ShareInv, [Next]_vars
  PROVE  ShareInv'
<1> USE ShareAssumption
<1>t. /\ Bounded(webrtc) /\ q \in QueueType /\ Sound(q)
      /\ remote \in [active : BOOLEAN, ready : BOOLEAN]
      /\ fan \in FanType
      /\ peer \in PeerType
      /\ unit \in UnitType /\ budget \in 0 .. Disturbances /\ Disturbances \in Nat
      /\ enc \in [force : BOOLEAN, epoch : Nat \ {0}]
      /\ stopping \in BOOLEAN
      /\ Follows(q, q)
  BY DEF ShareInv, FullTypes, LoopTypes, Follows
<1>b. Disturbed => budget' \in 0 .. Disturbances
  BY <1>t DEF Disturbed
<1>e. /\ "peer_ready" \in EventKinds /\ "peer_disconnected" \in EventKinds
      /\ "terminal" \in EventKinds /\ "feedback" \in EventKinds
  BY DEF EventKinds
<1>1. CASE PeerOpens
  <2>1. Reports(webrtc, webrtc')
    BY <1>1, <1>t, <1>e, ReadyReports DEF PeerOpens
  <2> QED  BY <1>1, <1>t, <2>1, ReportStep DEF PeerOpens, PeerType
<1>2. CASE PeerFails
  BY <1>2, <1>t, <1>b, FailReports, ReportStep DEF PeerFails, PeerType
<1>3. CASE PeerDisconnects
  BY <1>3, <1>t, <1>b, <1>e, PushReports, ReportStep DEF PeerDisconnects, PeerType
<1>4. CASE SignalingEnds
  <2>1. Reports(webrtc, webrtc')
    BY <1>4, <1>t, <1>e, PushReports, FailReports DEF SignalingEnds
  <2> QED  BY <1>4, <1>t, <1>b, <2>1, ReportStep DEF SignalingEnds
<1>5. CASE PeerFeedback
  <2>1. Reports(webrtc, webrtc')
    BY <1>5, <1>t, <1>e, PushReports, RequestReports DEF PeerFeedback
  <2> QED  BY <1>5, <1>t, <1>b, <2>1, ReportStep DEF PeerFeedback
<1>6. CASE RequestStop
  BY <1>6, <1>t, ReportStep DEF RequestStop, Reports, Bounded
<1>7. CASE UNCHANGED vars
  BY <1>7, <1>t, ReportStep DEF vars, Reports, Bounded
<1>8. CASE PrepareEncoder
  <2>p. pc' \in PcType
    BY <1>8 DEF PrepareEncoder, PcType
  <2>t. LoopTypes'
    BY <1>8, <1>t, <2>p DEF PrepareEncoder, Prepared, ShareInv, FullTypes, LoopTypes
  <2>1. FullTypes'
    BY <1>8, <1>t, <1>b, <2>t DEF PrepareEncoder, Prepared, FullTypes
  <2>2. RecorderInv'
    BY <1>8, <1>t
    DEF PrepareEncoder, Prepared, ShareInv, FullTypes, LoopTypes, RecorderInv, Preparing
  <2>3. SessionInv' /\ EpochInv'
    BY <1>8, <1>t
    DEF PrepareEncoder, Prepared, ShareInv, FullTypes, LoopTypes, SessionInv, EpochInv
  <2>4. RevokedInv'
    BY <1>8, <1>t
    DEF PrepareEncoder, Prepared, ShareInv, FullTypes, LoopTypes, RevokedInv, Preparing
  <2> QED  BY <2>1, <2>2, <2>3, <2>4 DEF ShareInv
<1>9. CASE SelectWindow
  <2>t. LoopTypes'
    BY <1>9, <1>t
    DEF SelectWindow, Prepared, ShareInv, FullTypes, LoopTypes, PcType, EndType
  <2>1. FullTypes'
    BY <1>9, <1>t, <1>b, <2>t DEF SelectWindow, Prepared, FullTypes
  <2>2. RecorderInv'
    BY <1>9, <1>t
    DEF SelectWindow, Prepared, ShareInv, FullTypes, LoopTypes, RecorderInv, Preparing
  <2>3. SessionInv' /\ EpochInv'
    BY <1>9, <1>t
    DEF SelectWindow, Prepared, ShareInv, FullTypes, LoopTypes, SessionInv, EpochInv
  <2>4. RevokedInv'
    BY <1>9, <1>t
    DEF SelectWindow, Prepared, ShareInv, FullTypes, LoopTypes, RevokedInv, Preparing
  <2> QED  BY <2>1, <2>2, <2>3, <2>4 DEF ShareInv
<1>10. CASE OpenRecorder
  <2>t. LoopTypes'
    BY <1>10, <1>t
    DEF OpenRecorder, Prepared, Released, ShareInv, FullTypes, LoopTypes, PcType, EndType
  <2>1. FullTypes'
    BY <1>10, <1>t, <1>b, <2>t DEF OpenRecorder, Prepared, Released, FullTypes
  <2>2. RecorderInv'
    BY <1>10, <1>t
    DEF OpenRecorder, Prepared, Released, ShareInv, FullTypes, LoopTypes, RecorderInv, Preparing
  <2>3. SessionInv' /\ EpochInv'
    BY <1>10, <1>t
    DEF OpenRecorder, Prepared, Released, ShareInv, FullTypes, LoopTypes, SessionInv, EpochInv
  <2>4. RevokedInv'
    BY <1>10, <1>t
    DEF OpenRecorder, Prepared, Released, ShareInv, FullTypes, LoopTypes, RevokedInv, Preparing
  <2> QED  BY <2>1, <2>2, <2>3, <2>4 DEF ShareInv
<1>11. CASE StartCapture
  <2>t. LoopTypes'
    BY <1>11, <1>t
    DEF StartCapture, Prepared, Released, ShareInv, FullTypes, LoopTypes, PcType, EndType
  <2>1. FullTypes'
    BY <1>11, <1>t, <1>b, <2>t DEF StartCapture, Prepared, Released, FullTypes
  <2>2. RecorderInv'
    BY <1>11, <1>t
    DEF StartCapture, Prepared, Released, ShareInv, FullTypes, LoopTypes, RecorderInv, Preparing
  <2>3. SessionInv' /\ EpochInv'
    BY <1>11, <1>t
    DEF StartCapture, Prepared, Released, ShareInv, FullTypes, LoopTypes, SessionInv, EpochInv
  <2>4. RevokedInv'
    BY <1>11, <1>t
    DEF StartCapture, Prepared, Released, ShareInv, FullTypes, LoopTypes, RevokedInv, Preparing
  <2> QED  BY <2>1, <2>2, <2>3, <2>4 DEF ShareInv
<1>12. CASE StartTransport
  <2>t. LoopTypes'
    BY <1>12, <1>t
    DEF StartTransport, Prepared, Released, ShareInv, FullTypes, LoopTypes, PcType, EndType
  <2>1. FullTypes'
    BY <1>12, <1>t, <1>b, <2>t DEF StartTransport, Prepared, Released, FullTypes
  <2>2. RecorderInv'
    BY <1>12, <1>t
    DEF StartTransport, Prepared, Released, ShareInv, FullTypes, LoopTypes, RecorderInv, Preparing
  <2>3. SessionInv' /\ EpochInv'
    BY <1>12, <1>t
    DEF StartTransport, Prepared, Released, ShareInv, FullTypes, LoopTypes, SessionInv, EpochInv
  <2>4. RevokedInv'
    BY <1>12, <1>t
    DEF StartTransport, Prepared, Released, ShareInv, FullTypes, LoopTypes, RevokedInv, Preparing
  <2> QED  BY <2>1, <2>2, <2>3, <2>4 DEF ShareInv
<1>13. CASE LoopTop
  <2>t. LoopTypes'
    BY <1>13, <1>t DEF LoopTop, End, GoTo, ShareInv, FullTypes, LoopTypes, PcType, EndType
  <2>1. FullTypes'
    BY <1>13, <1>t, <1>b, <2>t DEF LoopTop, End, GoTo, FullTypes
  <2>2. RecorderInv'
    BY <1>13, <1>t
    DEF LoopTop, End, GoTo, ShareInv, FullTypes, LoopTypes, RecorderInv, Preparing
  <2>3. SessionInv' /\ EpochInv'
    BY <1>13, <1>t
    DEF LoopTop, End, GoTo, ShareInv, FullTypes, LoopTypes, SessionInv, EpochInv
  <2>4. RevokedInv'
    BY <1>13, <1>t
    DEF LoopTop, End, GoTo, ShareInv, FullTypes, LoopTypes, RevokedInv, Preparing
  <2> QED  BY <2>1, <2>2, <2>3, <2>4 DEF ShareInv
<1>14. CASE EventsDone
  <2>t. LoopTypes'
    BY <1>14, <1>t DEF EventsDone, GoTo, ShareInv, FullTypes, LoopTypes, PcType, EndType
  <2>1. FullTypes'
    BY <1>14, <1>t, <1>b, <2>t DEF EventsDone, GoTo, FullTypes
  <2>2. RecorderInv'
    BY <1>14, <1>t
    DEF EventsDone, GoTo, ShareInv, FullTypes, LoopTypes, RecorderInv, Preparing
  <2>3. SessionInv' /\ EpochInv'
    BY <1>14, <1>t
    DEF EventsDone, GoTo, ShareInv, FullTypes, LoopTypes, SessionInv, EpochInv
  <2>4. RevokedInv'
    BY <1>14, <1>t
    DEF EventsDone, GoTo, ShareInv, FullTypes, LoopTypes, RevokedInv, Preparing
  <2> QED  BY <2>1, <2>2, <2>3, <2>4 DEF ShareInv
<1>15. CASE NoTick
  <2>t. LoopTypes'
    BY <1>15, <1>t DEF NoTick, GoTo, ShareInv, FullTypes, LoopTypes, PcType, EndType
  <2>1. FullTypes'
    BY <1>15, <1>t, <1>b, <2>t DEF NoTick, GoTo, FullTypes
  <2>2. RecorderInv'
    BY <1>15, <1>t DEF NoTick, GoTo, ShareInv, FullTypes, LoopTypes, RecorderInv, Preparing
  <2>3. SessionInv' /\ EpochInv'
    BY <1>15, <1>t
    DEF NoTick, GoTo, ShareInv, FullTypes, LoopTypes, SessionInv, EpochInv
  <2>4. RevokedInv'
    BY <1>15, <1>t DEF NoTick, GoTo, ShareInv, FullTypes, LoopTypes, RevokedInv, Preparing
  <2> QED  BY <2>1, <2>2, <2>3, <2>4 DEF ShareInv
<1>16. CASE NoFrame
  <2>t. LoopTypes'
    BY <1>16, <1>t DEF NoFrame, GoTo, End, ShareInv, FullTypes, LoopTypes, PcType, EndType
  <2>1. FullTypes'
    BY <1>16, <1>t, <1>b, <2>t DEF NoFrame, GoTo, End, FullTypes
  <2>2. RecorderInv'
    BY <1>16, <1>t
    DEF NoFrame, GoTo, End, ShareInv, FullTypes, LoopTypes, RecorderInv, Preparing
  <2>3. SessionInv' /\ EpochInv'
    BY <1>16, <1>t
    DEF NoFrame, GoTo, End, ShareInv, FullTypes, LoopTypes, SessionInv, EpochInv
  <2>4. RevokedInv'
    BY <1>16, <1>t
    DEF NoFrame, GoTo, End, ShareInv, FullTypes, LoopTypes, RevokedInv, Preparing
  <2> QED  BY <2>1, <2>2, <2>3, <2>4 DEF ShareInv
<1>17. CASE FrameFails
  <2>t. LoopTypes'
    BY <1>17, <1>t DEF FrameFails, End, ShareInv, FullTypes, LoopTypes, PcType, EndType
  <2>1. FullTypes'
    BY <1>17, <1>t, <1>b, <2>t DEF FrameFails, End, FullTypes
  <2>2. RecorderInv'
    BY <1>17, <1>t
    DEF FrameFails, End, ShareInv, FullTypes, LoopTypes, RecorderInv, Preparing
  <2>3. SessionInv' /\ EpochInv'
    BY <1>17, <1>t
    DEF FrameFails, End, ShareInv, FullTypes, LoopTypes, SessionInv, EpochInv
  <2>4. RevokedInv'
    BY <1>17, <1>t
    DEF FrameFails, End, ShareInv, FullTypes, LoopTypes, RevokedInv, Preparing
  <2> QED  BY <2>1, <2>2, <2>3, <2>4 DEF ShareInv
<1>18. CASE RecordDirectly
  <2> PICK taken \in BOOLEAN :
        /\ offers' = (IF recorder THEN offers + 1 ELSE offers)
        /\ recorder' = (recorder /\ (recorder => taken))
        /\ IF recorder /\ ~taken /\ ~remote.active THEN End("recorder") ELSE GoTo("top")
    BY <1>18 DEF RecordDirectly, Offered
  <2>1. recorder' \in BOOLEAN /\ (recorder' => recorder)
    OBVIOUS
  <2>2. /\ pc = "publish" /\ ~remote.ready /\ pc' \in {"top", "shutdown"} /\ ended' \in EndType
        /\ UNCHANGED <<session, remote, capture, enc, unit, q, fan, webrtc, peer, sent,
                       stopping, budget>>
    BY <1>18 DEF RecordDirectly, End, GoTo, ShareInv, FullTypes, LoopTypes, EndType
  <2>3. offers' \in 0 .. MaxEncoded /\ (recorder => offers' = unit.id)
    BY <1>t, <2>2 DEF ShareInv, FullTypes, LoopTypes, UnitType, RecorderInv
  <2>4. LoopTypes'
    BY <1>t, <2>1, <2>2, <2>3 DEF ShareInv, FullTypes, LoopTypes, PcType
  <2>5. FullTypes'
    BY <1>t, <2>2, <2>4 DEF FullTypes, ShareInv
  <2>6. RecorderInv' /\ SessionInv'
    BY <1>t, <2>1, <2>2, <2>3 DEF RecorderInv, Preparing, SessionInv
  <2>7. EpochInv' /\ RevokedInv'
    BY <2>2 DEF ShareInv, EpochInv, RevokedInv, Preparing
  <2> QED  BY <2>5, <2>6, <2>7 DEF ShareInv
<1>19. CASE Delay
  <2>1. Follows(q, q')
    BY <1>19, <1>t, AgedFollows DEF Delay
  <2>2. LoopTypes'
    BY <1>19 DEF Delay, ShareInv, FullTypes, LoopTypes
  <2>3. FullTypes'
    BY <1>19, <1>t, <1>b, <2>1, <2>2 DEF Delay, FullTypes, Follows
  <2>4. RecorderInv' /\ SessionInv' /\ EpochInv'
    BY <1>19 DEF Delay, ShareInv, RecorderInv, SessionInv, EpochInv
  <2>5. RevokedInv'
    BY <1>19, <2>1 DEF Delay, ShareInv, RevokedInv, Follows
  <2> QED  BY <2>3, <2>4, <2>5 DEF ShareInv
<1>20. CASE HandlePeerReady
  <2>1. /\ pc = "events" /\ pc' = pc /\ remote.active /\ webrtc.events # << >>
        /\ UNCHANGED <<session, recorder, capture, unit, peer, sent, offers, ended,
                       stopping, budget>>
    BY <1>20 DEF HandlePeerReady, NextEvent
  <2>2. Bounded(webrtc') /\ webrtc'.stopped = webrtc.stopped
    BY <1>20, <1>t, <2>1, PopReports DEF HandlePeerReady
  <2>3. /\ Follows(q, q')
        /\ enc' \in [force : BOOLEAN, epoch : Nat \ {0}]
        /\ enc' = enc \/ enc'.force
    <3>1. CASE remote.ready
      BY <1>20, <1>t, <3>1 DEF HandlePeerReady
    <3>2. CASE ~remote.ready
      <4>1. /\ enc' = IF capture THEN NewEpoch(enc) ELSE [enc EXCEPT !.force = TRUE]
            /\ q' = IF capture THEN QueueRequireRecovery(q) ELSE q
        BY <1>20, <3>2 DEF HandlePeerReady
      <4>2. Follows(q, q')
        BY <1>t, <4>1, RecoveryFollows
      <4>3. enc' \in [force : BOOLEAN, epoch : Nat \ {0}] /\ enc'.force
        <5>1. CASE enc' = NewEpoch(enc)
          BY <1>t, <5>1 DEF NewEpoch
        <5>2. CASE enc' = [enc EXCEPT !.force = TRUE]
          BY <1>t, <5>2
        <5> QED  BY <4>1, <5>1, <5>2
      <4> QED  BY <4>2, <4>3
    <3> QED  BY <3>1, <3>2
  <2>4. /\ remote' \in [active : BOOLEAN, ready : BOOLEAN] /\ remote'.active
        /\ fan' \in FanType /\ (fan'.recorder <=> recorder)
        /\ fan' = fan \/ fan'.transport
    <3>1. CASE remote.ready
      BY <1>20, <1>t, <2>1, <3>1 DEF HandlePeerReady, ShareInv, RecorderInv
    <3>2. CASE ~remote.ready
      <4>1. remote' = [remote EXCEPT !.ready = TRUE] /\ fan' = NewFanout
        BY <1>20, <3>2 DEF HandlePeerReady
      <4>2. recorder \in BOOLEAN
        BY DEF ShareInv, FullTypes, LoopTypes
      <4> QED  BY <1>t, <2>1, <4>1, <4>2 DEF NewFanout, FanType
    <3> QED  BY <3>1, <3>2
  <2>5. LoopTypes'
    BY <2>1, <2>3, <2>4 DEF ShareInv, FullTypes, LoopTypes
  <2>6. FullTypes'
    BY <1>t, <2>1, <2>2, <2>3, <2>5 DEF FullTypes, Follows
  <2>7. RecorderInv' /\ SessionInv' /\ EpochInv'
    BY <2>1, <2>3, <2>4 DEF ShareInv, RecorderInv, SessionInv, EpochInv, Preparing
  <2>8. RevokedInv'
    BY <2>1, <2>2, <2>3, <2>4 DEF ShareInv, RevokedInv, Follows, Preparing
  <2> QED  BY <2>6, <2>7, <2>8 DEF ShareInv
<1>21. CASE HandleRecoveryRequested
  <2>1. /\ pc = "events" /\ pc' = pc /\ remote.active /\ webrtc.events # << >>
        /\ UNCHANGED <<session, recorder, capture, unit, peer, sent, offers, ended,
                       stopping, budget, remote, fan>>
    BY <1>21 DEF HandleRecoveryRequested, NextEvent
  <2>2. Bounded(webrtc') /\ webrtc'.stopped = webrtc.stopped
    BY <1>21, <1>t, <2>1, PopReports DEF HandleRecoveryRequested
  <2>3. /\ Follows(q, q')
        /\ enc' \in [force : BOOLEAN, epoch : Nat \ {0}]
        /\ enc' = enc \/ enc'.force
    BY <1>21, <1>t, RecoveryFollows DEF HandleRecoveryRequested, NewEpoch
  <2>5. LoopTypes'
    BY <2>1, <2>3 DEF ShareInv, FullTypes, LoopTypes
  <2>6. FullTypes'
    BY <1>t, <2>1, <2>2, <2>3, <2>5 DEF FullTypes, Follows
  <2>7. RecorderInv' /\ SessionInv' /\ EpochInv'
    BY <2>1, <2>3 DEF ShareInv, RecorderInv, SessionInv, EpochInv, Preparing
  <2>8. RevokedInv'
    BY <2>1, <2>2, <2>3 DEF ShareInv, RevokedInv, Follows, Preparing
  <2> QED  BY <2>6, <2>7, <2>8 DEF ShareInv
<1>22. ASSUME pc \in {"events", "start", "control", "frame", "send"},
              DisableRemote(q, fan) \/ DisableRemote(DequeueUnit(q), fan),
              pc' \in {"events", "top", "shutdown"}, ended' \in EndType, peer' \in PeerType,
              budget' \in 0 .. Disturbances,
              UNCHANGED <<session, recorder, capture, enc, unit, sent, offers, stopping>>
       PROVE  ShareInv'
  <2>1. PICK t : Follows(q, t) /\ DisableRemote(t, fan)
    BY <1>22, <1>t, DequeueFollows
  <2>2. fan.made /\ ~fan.transport => ~t.open
    BY <2>1 DEF ShareInv, RevokedInv, Follows
  <2>3. /\ Follows(q, q') /\ fan' \in FanType
        /\ fan'.made /\ ~fan'.transport => ~q'.open
        /\ remote' = [active |-> FALSE, ready |-> FALSE]
        /\ Bounded(webrtc')
        /\ webrtc'.stopped => webrtc'.events = << >> /\ ~q'.open
    BY <1>22, <1>t, <2>1, <2>2, DisableShape
  <2>4. LoopTypes'
    BY <1>22, <2>3 DEF ShareInv, FullTypes, LoopTypes, PcType
  <2>5. FullTypes'
    BY <1>22, <1>t, <2>3, <2>4 DEF FullTypes, Follows
  <2>6. RecorderInv' /\ SessionInv' /\ EpochInv'
    BY <1>22, <2>3 DEF ShareInv, RecorderInv, SessionInv, EpochInv, Preparing
  <2>7. RevokedInv'
    BY <1>22, <2>3 DEF RevokedInv, Preparing
  <2> QED  BY <2>5, <2>6, <2>7 DEF ShareInv
<1>23. CASE HandleFeedback \/ HandleRemoteEnd
  <2>1. /\ pc = "events" /\ pc' = pc /\ remote.active /\ webrtc.events # << >>
        /\ UNCHANGED <<session, recorder, capture, unit, peer, sent, offers, ended,
                       stopping, budget, enc>>
    BY <1>23 DEF HandleFeedback, HandleRemoteEnd, NextEvent
  <2>2. CASE DisableRemote(q, fan)
    <3>1. ended' \in EndType
      BY <2>1 DEF ShareInv, FullTypes, LoopTypes
    <3> QED  BY <1>22, <1>t, <2>1, <2>2, <3>1
  <2>3. CASE PopEvent /\ UNCHANGED <<remote, q, fan>>
    <3>1. Bounded(webrtc') /\ webrtc'.stopped = webrtc.stopped
      BY <1>t, <2>1, <2>3, PopReports
    <3>2. LoopTypes'
      BY <2>1, <2>3 DEF ShareInv, FullTypes, LoopTypes
    <3>3. FullTypes'
      BY <1>t, <2>1, <2>3, <3>1, <3>2 DEF FullTypes
    <3>4. RecorderInv' /\ SessionInv' /\ EpochInv'
      BY <2>1, <2>3 DEF ShareInv, RecorderInv, SessionInv, EpochInv
    <3>5. RevokedInv'
      BY <2>1, <2>3, <3>1 DEF ShareInv, RevokedInv
    <3> QED  BY <3>3, <3>4, <3>5 DEF ShareInv
  <2> QED  BY <1>23, <2>2, <2>3 DEF HandleFeedback, HandleRemoteEnd
<1>24. CASE Start
  <2>1. CASE End("capture") /\ DisableRemote(q, fan) /\ UNCHANGED capture
    BY <1>22, <1>24, <1>t, <2>1 DEF Start, End, EndType
  <2>2. CASE GoTo("control") /\ capture' = (capture \/ remote.ready)
             /\ UNCHANGED <<remote, q, fan, webrtc>>
    <3>1. /\ pc = "start" /\ pc' = "control" /\ capture' \in BOOLEAN
          /\ UNCHANGED <<session, remote, recorder, enc, unit, q, fan, webrtc, peer, sent,
                         offers, ended, stopping, budget>>
      BY <1>24, <2>2 DEF Start, GoTo
    <3>2. LoopTypes'
      BY <3>1 DEF ShareInv, FullTypes, LoopTypes, PcType
    <3>3. FullTypes'
      BY <1>t, <3>1, <3>2 DEF FullTypes
    <3>4. RecorderInv' /\ SessionInv' /\ EpochInv'
      BY <3>1 DEF ShareInv, RecorderInv, SessionInv, EpochInv, Preparing
    <3>5. RevokedInv'
      BY <3>1 DEF ShareInv, RevokedInv, Preparing
    <3> QED  BY <3>3, <3>4, <3>5 DEF ShareInv
  <2> QED  BY <1>24, <2>1, <2>2 DEF Start
<1>25. CASE ControllerTick
  <2>1. CASE DisableRemote(q, fan) /\ UNCHANGED enc /\ (Disturbed \/ UNCHANGED budget)
             /\ (End("peer") \/ End("link") \/ End("encoder"))
    BY <1>22, <1>25, <1>t, <1>b, <2>1 DEF ControllerTick, End, EndType
  <2>2. CASE /\ Disturbed /\ GoTo("frame")
             /\ enc' = NewEpoch(enc) /\ q' = QueueRequireRecovery(q)
             /\ UNCHANGED <<remote, fan, webrtc>>
    <3>1. /\ pc = "control" /\ pc' = "frame" /\ budget' \in 0 .. Disturbances
          /\ UNCHANGED <<session, remote, recorder, capture, unit, fan, webrtc, peer, sent,
                         offers, ended, stopping>>
          /\ Follows(q, q')
          /\ enc' \in [force : BOOLEAN, epoch : Nat \ {0}] /\ enc'.force
      BY <1>25, <1>t, <1>b, <2>2, RecoveryFollows DEF ControllerTick, GoTo, NewEpoch
    <3>2. LoopTypes'
      BY <3>1 DEF ShareInv, FullTypes, LoopTypes, PcType
    <3>3. FullTypes'
      BY <1>t, <3>1, <3>2 DEF FullTypes, Follows
    <3>4. RecorderInv' /\ SessionInv' /\ EpochInv'
      BY <3>1 DEF ShareInv, RecorderInv, SessionInv, EpochInv, Preparing
    <3>5. RevokedInv'
      BY <3>1 DEF ShareInv, RevokedInv, Preparing, Follows
    <3> QED  BY <3>3, <3>4, <3>5 DEF ShareInv
  <2> QED  BY <1>25, <2>1, <2>2 DEF ControllerTick
<1>26. CASE CaptureEnds
  BY <1>22, <1>26, <1>t, <1>b DEF CaptureEnds, End, EndType
<1>27. CASE SendFails
  <2>1. peer' \in PeerType /\ budget' \in 0 .. Disturbances
    BY <1>27, <1>t, <1>b DEF SendFails, PeerType
  <2>2. ended' \in EndType
    BY <1>27 DEF SendFails, GoTo, ShareInv, FullTypes, LoopTypes
  <2> QED  BY <1>22, <1>27, <1>t, <2>1, <2>2 DEF SendFails, GoTo
<1>28. ASSUME NEW changed \in BOOLEAN, NEW skipped \in BOOLEAN, NEW idr \in BOOLEAN,
              NEW size \in UnitSizes, Encode(changed, skipped, idr, size)
       PROVE  ShareInv'
  <2> DEFINE e == AfterGeometry(changed)
  <2>1. /\ pc = "frame" /\ unit.id < MaxEncoded
        /\ IF changed THEN Disturbed ELSE UNCHANGED budget
        /\ q' = IF changed /\ remote.ready THEN QueueRequireRecovery(q) ELSE q
        /\ enc' = [e EXCEPT !.force = ForceAfter(e, skipped)]
        /\ IF skipped THEN GoTo("top") /\ UNCHANGED unit
           ELSE /\ unit' = [id |-> unit.id + 1, epoch |-> e.epoch, idr |-> idr, size |-> size]
                /\ GoTo("publish")
        /\ UNCHANGED <<session, remote, recorder, capture, fan, webrtc, peer, sent, offers,
                       stopping>>
    BY <1>28 DEF Encode
  <2>2. e \in [force : BOOLEAN, epoch : Nat \ {0}] /\ (e.epoch # unit.epoch => e.force)
    BY <1>t DEF AfterGeometry, NewEpoch, ShareInv, EpochInv
  <2> HIDE DEF e
  <2>3. /\ enc' \in [force : BOOLEAN, epoch : Nat \ {0}] /\ enc'.epoch = e.epoch
        /\ enc'.force = (e.force /\ skipped)
    BY <2>1, <2>2 DEF ForceAfter
  <2>4. Follows(q, q') /\ budget' \in 0 .. Disturbances
    BY <1>t, <1>b, <2>1, RecoveryFollows
  <2>5. ended' = ended
    BY <2>1 DEF GoTo
  <2>6. /\ unit' \in UnitType
        /\ \/ skipped /\ pc' = "top" /\ unit' = unit
           \/ ~skipped /\ pc' = "publish" /\ unit'.id = unit.id + 1 /\ unit'.epoch = e.epoch
    BY <1>t, <2>1, <2>2 DEF GoTo, UnitType
  <2>7. LoopTypes'
    BY <2>1, <2>3, <2>5, <2>6 DEF ShareInv, FullTypes, LoopTypes, PcType
  <2>8. FullTypes'
    BY <1>t, <2>1, <2>4, <2>7 DEF FullTypes, Follows
  <2>9. RecorderInv'
    BY <1>t, <2>1, <2>6 DEF ShareInv, RecorderInv, Preparing, UnitType
  <2>10. SessionInv' /\ EpochInv'
    BY <2>1, <2>2, <2>3, <2>6 DEF SessionInv, EpochInv
  <2>11. RevokedInv'
    BY <2>1, <2>4, <2>6 DEF ShareInv, RevokedInv, Preparing, Follows
  <2> QED  BY <2>8, <2>9, <2>10, <2>11 DEF ShareInv
<1>29. CASE PublishToFanout
  <2> DEFINE a == EnqueueUnit(q, unit)
             f(taken) == [fan EXCEPT !.transport = ~a.q.unusable,
                                     !.recorder = fan.recorder /\ taken]
  <2>1. PICK taken \in BOOLEAN :
          /\ Offered(fan.recorder, taken)
          /\ IF a.q.unusable
             THEN /\ DisableRemote(a.q, f(taken))
                  /\ IF recorder' THEN GoTo("top") ELSE End("branches")
                  /\ UNCHANGED enc
             ELSE /\ GoTo("send")
                  /\ q' = a.q /\ fan' = f(taken)
                  /\ enc' = IF a.recovery THEN NewEpoch(enc) ELSE enc
                  /\ UNCHANGED <<remote, webrtc>>
    BY <1>29 DEF PublishToFanout
  <2>2. /\ pc = "publish" /\ remote.ready
        /\ UNCHANGED <<session, capture, unit, peer, sent, stopping, budget>>
    BY <1>29 DEF PublishToFanout
  <2>3. Follows(q, a.q)
    BY <1>t, EnqueueFollows
  <2>4. /\ f(taken) \in FanType /\ (f(taken).transport <=> ~a.q.unusable)
        /\ (f(taken).recorder <=> recorder /\ taken)
    BY <1>t, <2>2 DEF FanType, ShareInv, RecorderInv
  <2>5. recorder' \in BOOLEAN /\ (recorder' <=> recorder /\ taken)
    BY <2>1, <2>2 DEF Offered, ShareInv, RecorderInv
  <2>6. offers' \in 0 .. MaxEncoded /\ (recorder => offers' = unit.id)
    <3>1. offers' = IF recorder THEN offers + 1 ELSE offers
      BY <2>1, <2>2 DEF Offered, ShareInv, RecorderInv
    <3> QED  BY <1>t, <2>2, <3>1 DEF ShareInv, FullTypes, LoopTypes, UnitType, RecorderInv
  <2> HIDE DEF a, f
  <2>7. CASE a.q.unusable
    <3>1. f(taken).made /\ ~f(taken).transport => ~a.q.open
      BY <2>3, <2>7 DEF Follows, Sound
    <3>2. /\ Follows(q, q') /\ fan' \in FanType
          /\ fan'.made /\ ~fan'.transport => ~q'.open
          /\ remote' = [active |-> FALSE, ready |-> FALSE]
          /\ Bounded(webrtc')
          /\ webrtc'.stopped => webrtc'.events = << >> /\ ~q'.open
      BY <2>1, <2>2, <2>3, <2>4, <2>7, <3>1, DisableShape
    <3>3. pc' \in {"top", "shutdown"} /\ ended' \in EndType /\ enc' = enc
      BY <2>1, <2>7 DEF GoTo, End, EndType, ShareInv, FullTypes, LoopTypes
    <3>4. LoopTypes'
      BY <2>2, <2>5, <2>6, <3>2, <3>3 DEF ShareInv, FullTypes, LoopTypes, PcType
    <3>5. FullTypes'
      BY <1>t, <2>2, <3>2, <3>4 DEF FullTypes, Follows
    <3>6. RecorderInv'
      BY <2>2, <2>5, <2>6, <3>2, <3>3 DEF RecorderInv, Preparing
    <3>7. SessionInv' /\ EpochInv'
      BY <2>2, <3>3 DEF ShareInv, SessionInv, EpochInv
    <3>8. RevokedInv'
      BY <3>2, <3>3 DEF RevokedInv, Preparing
    <3> QED  BY <3>5, <3>6, <3>7, <3>8 DEF ShareInv
  <2>8. CASE ~a.q.unusable
    <3>1. /\ pc' = "send" /\ ended' = ended /\ q' = a.q /\ fan' = f(taken)
          /\ UNCHANGED <<remote, webrtc>>
          /\ enc' = IF a.recovery THEN NewEpoch(enc) ELSE enc
      BY <2>1, <2>8 DEF GoTo
    <3>2. enc' \in [force : BOOLEAN, epoch : Nat \ {0}] /\ (enc' = enc \/ enc'.force)
      <4>1. CASE enc' = NewEpoch(enc)
        BY <1>t, <4>1 DEF NewEpoch
      <4> QED  BY <1>t, <3>1, <4>1
    <3>3. LoopTypes'
      BY <2>2, <2>4, <2>5, <2>6, <3>1, <3>2 DEF ShareInv, FullTypes, LoopTypes, PcType
    <3>4. FullTypes'
      BY <1>t, <2>2, <2>3, <3>1, <3>3 DEF FullTypes, Follows
    <3>5. RecorderInv'
      BY <2>2, <2>4, <2>5, <2>6, <3>1 DEF RecorderInv, Preparing
    <3>6. SessionInv' /\ EpochInv'
      BY <2>2, <3>1, <3>2 DEF ShareInv, SessionInv, EpochInv
    <3>7. RevokedInv'
      BY <2>2, <2>3, <2>4, <2>8, <3>1 DEF ShareInv, RevokedInv, Preparing, Follows
    <3> QED  BY <3>4, <3>5, <3>6, <3>7 DEF ShareInv
  <2> QED  BY <2>7, <2>8
<1>30. CASE Send
  <2> DEFINE next == q.queue[1]
  <2>1. next \in EntryType
    <3>1. q.queue \in Seq(EntryType) /\ q.queue # << >>
      BY <1>30, <1>t DEF Send, CanDequeue, QueueType
    <3> QED  BY <3>1
  <2>2. /\ pc = "send" /\ q' = DequeueUnit(q) /\ ~webrtc.stopped
        /\ sent' = [id |-> next.id, epoch |-> next.epoch, idr |-> next.idr, size |-> next.size]
        /\ peer' = [peer EXCEPT !.epoch = next.epoch]
        /\ webrtc' = IF next.epoch = peer.epoch THEN webrtc ELSE RequestIdr(webrtc)
        /\ UNCHANGED <<session, pc, remote, recorder, capture, enc, unit, fan, offers, ended,
                       stopping, budget>>
    BY <1>30 DEF Send, PeerTakes
  <2> HIDE DEF next
  <2>3. sent' \in UnitType /\ peer' \in PeerType
    BY <1>t, <2>1, <2>2 DEF EntryType, UnitType, PeerType
  <2>4. Follows(q, q') /\ Bounded(webrtc') /\ webrtc'.stopped = webrtc.stopped
    BY <1>t, <2>2, DequeueFollows, RequestReports DEF Reports, Bounded
  <2>5. LoopTypes'
    BY <2>2, <2>3 DEF ShareInv, FullTypes, LoopTypes
  <2>6. FullTypes'
    BY <1>t, <2>2, <2>3, <2>4, <2>5 DEF FullTypes, Follows
  <2>7. RecorderInv' /\ SessionInv' /\ EpochInv'
    BY <2>2 DEF ShareInv, RecorderInv, SessionInv, EpochInv
  <2>8. RevokedInv'
    BY <2>2, <2>4 DEF ShareInv, RevokedInv, Follows, Preparing
  <2> QED  BY <2>6, <2>7, <2>8 DEF ShareInv
<1>31. CASE SendDone
  <2>1. /\ pc = "send" /\ pc' = "top" /\ ended' = ended /\ q' = DequeueUnit(q)
        /\ enc' \in {enc, NewEpoch(enc)}
        /\ UNCHANGED <<session, remote, recorder, capture, unit, fan, webrtc, peer, sent,
                       offers, stopping, budget>>
    BY <1>31 DEF SendDone, GoTo
  <2>2. enc' \in [force : BOOLEAN, epoch : Nat \ {0}] /\ (enc' = enc \/ enc'.force)
    <3>1. CASE enc' = NewEpoch(enc)
      BY <1>t, <3>1 DEF NewEpoch
    <3> QED  BY <1>t, <2>1, <3>1
  <2>3. Follows(q, q')
    BY <1>t, <2>1, DequeueFollows
  <2>4. LoopTypes'
    BY <2>1, <2>2 DEF ShareInv, FullTypes, LoopTypes, PcType
  <2>5. FullTypes'
    BY <1>t, <2>1, <2>3, <2>4 DEF FullTypes, Follows
  <2>6. RecorderInv' /\ SessionInv' /\ EpochInv'
    BY <2>1, <2>2 DEF ShareInv, RecorderInv, SessionInv, EpochInv, Preparing
  <2>7. RevokedInv'
    BY <2>1, <2>3 DEF ShareInv, RevokedInv, Follows, Preparing
  <2> QED  BY <2>5, <2>6, <2>7 DEF ShareInv
<1>32. CASE Shutdown
  <2>1. /\ pc = "shutdown" /\ pc' = "stopped" /\ ended' = ended
        /\ q' = IF fan.made /\ ~fan.transport THEN q ELSE QueueStop(q)
        /\ fan' = [fan EXCEPT !.transport = FALSE, !.recorder = FALSE]
        /\ webrtc' = IF remote.active THEN StopTransport(webrtc) ELSE webrtc
        /\ remote' = [remote EXCEPT !.active = FALSE]
        /\ session' = [session EXCEPT !.window = FALSE, !.file = FALSE]
        /\ UNCHANGED <<recorder, capture, enc, unit, peer, sent, offers, stopping, budget>>
    BY <1>32 DEF Shutdown, GoTo, Released
  <2>2. Follows(q, q') /\ ~q'.open
    BY <1>t, <2>1, StopFollows DEF ShareInv, RevokedInv
  <2>3. /\ Bounded(webrtc')
        /\ webrtc'.stopped => webrtc'.events = << >>
    BY <1>t, <2>1, StopType DEF ShareInv, RevokedInv
  <2>4. fan' \in FanType
    BY <1>t, <2>1 DEF FanType
  <2>5. LoopTypes' /\ ~remote'.active /\ SessionInv'
    BY <1>t, <2>1, <2>4 DEF ShareInv, FullTypes, LoopTypes, PcType, SessionInv
  <2>6. FullTypes'
    BY <1>t, <2>1, <2>2, <2>3, <2>5 DEF FullTypes, Follows
  <2>7. RecorderInv' /\ EpochInv'
    BY <2>1 DEF ShareInv, RecorderInv, EpochInv, Preparing
  <2>8. RevokedInv'
    BY <2>1, <2>2, <2>3, <2>5 DEF RevokedInv, Preparing
  <2> QED  BY <2>5, <2>6, <2>7, <2>8 DEF ShareInv
<1> QED
  BY <1>1, <1>2, <1>3, <1>4, <1>5, <1>6, <1>7, <1>8, <1>9, <1>10, <1>11, <1>12, <1>13,
     <1>14, <1>15, <1>16, <1>17, <1>18, <1>19, <1>20, <1>21, <1>23, <1>24, <1>25, <1>26,
     <1>27, <1>28, <1>29, <1>30, <1>31, <1>32
  DEF Next, LoopStep, Stopped

LEMMA ShareInit ==
  Init => ShareInv
<1> SUFFICES ASSUME Init PROVE ShareInv
  OBVIOUS
<1>n. MaxShareEvents \in Nat /\ MaxEncoded \in Nat /\ Disturbances \in Nat
  BY ShareAssumption
<1>1. << >> \in Seq(EntryType) /\ << >> \in Seq(EventKinds) /\ Len(<< >>) = 0
  OBVIOUS
<1>2. q \in QueueType /\ Sound(q)
  BY <1>1 DEF Init, EmptyQueue, QueueType, Sound
<1>3. Bounded(webrtc)
  <2>1. webrtc = [ready |-> FALSE, stopped |-> FALSE, events |-> << >>]
    BY DEF Init
  <2>2. webrtc \in WebType /\ webrtc.events = << >>
    BY <1>1, <2>1 DEF WebType
  <2>3. 0 <= MaxShareEvents
    BY <1>n
  <2> QED  BY <1>1, <2>2, <2>3, Zenon DEF Bounded
<1>4. NoUnit \in UnitType
  BY <1>n DEF NoUnit, UnitType
<1>5. LoopTypes
  <2>1. enc \in [force : BOOLEAN, epoch : Nat \ {0}] /\ offers \in 0 .. MaxEncoded
    <3>1. enc = [force |-> TRUE, epoch |-> 1] /\ offers = 0
      BY DEF Init
    <3> QED  BY <1>n, <3>1
  <2>2. /\ session \in [recording : BOOLEAN, window : BOOLEAN, file : BOOLEAN]
        /\ remote \in [active : BOOLEAN, ready : BOOLEAN] /\ fan \in FanType
    BY DEF Init, FanType
  <2>3. unit \in UnitType /\ sent \in UnitType /\ recorder \in BOOLEAN /\ capture \in BOOLEAN
    BY <1>4 DEF Init
  <2>4. pc \in PcType /\ ended \in EndType
    BY DEF Init, PcType, EndType
  <2> QED  BY <2>1, <2>2, <2>3, <2>4 DEF LoopTypes
<1>6. FullTypes
  <2>1. peer \in PeerType /\ budget \in 0 .. Disturbances /\ stopping \in BOOLEAN
    <3>1. peer = [state |-> "none", epoch |-> 0] /\ budget = Disturbances /\ stopping = FALSE
      BY DEF Init
    <3>2. Disturbances \in 0 .. Disturbances
      BY <1>n
    <3>3. peer \in PeerType
      BY <3>1 DEF PeerType
    <3> QED  BY <3>1, <3>2, <3>3
  <2> QED  BY <1>2, <1>3, <1>5, <2>1 DEF FullTypes
<1>7. RecorderInv /\ SessionInv /\ EpochInv /\ RevokedInv
  BY DEF Init, NoUnit, RecorderInv, SessionInv, EpochInv, RevokedInv, Preparing
<1> QED  BY <1>6, <1>7 DEF ShareInv

LEMMA ShareInductive ==
  Spec => []ShareInv
BY ShareInit, ShareStep, PTL DEF Spec

(* A healthy recorder is offered every encoded unit exactly once, and a    *)
(* share that has ended holds neither the window nor an open recording,    *)
(* for every number of frames, events and disturbances.                    *)
THEOREM RecorderNeverMisses ==
  Spec => []RecorderMissesNothing
<1>1. ShareInv => RecorderMissesNothing
  BY TypesImply DEF ShareInv, RecorderInv, SessionInv, RecorderMissesNothing
<1> QED  BY <1>1, ShareInductive, PTL

-----------------------------------------------------------------------------
(* Only a frame that is encoded changes the unit, and it is an IDR unless  *)
(* it continues the epoch.                                                 *)
LEMMA EncodedUnit ==
  ASSUME ShareInv, [Next]_vars, unit' # unit, unit'.epoch # unit.epoch
  PROVE  unit'.idr
<1>1. PICK changed, skipped, idr \in BOOLEAN, size \in UnitSizes :
        Encode(changed, skipped, idr, size)
  BY DEF Next, LoopStep, Stopped, vars, app, PeerOpens, PeerFails, PeerDisconnects,
         SignalingEnds, PeerFeedback, RequestStop, Delay, PrepareEncoder, SelectWindow,
         OpenRecorder, StartCapture, StartTransport, Prepared, LoopTop, HandlePeerReady,
         HandleRecoveryRequested, HandleFeedback, HandleRemoteEnd, NextEvent, EventsDone,
         Start, ControllerTick, NoTick, NoFrame, CaptureEnds, FrameFails, PublishToFanout,
         RecordDirectly, Send, SendFails, SendDone, Shutdown
<1> DEFINE e == AfterGeometry(changed)
<1>2. /\ e.force => idr
      /\ unit' = [id |-> unit.id + 1, epoch |-> e.epoch, idr |-> idr, size |-> size]
  BY <1>1 DEF Encode
<1>3. e.epoch # unit.epoch => e.force
  BY DEF ShareInv, EpochInv, AfterGeometry, NewEpoch
<1> HIDE DEF e
<1> QED  BY <1>2, <1>3

(* The first unit of a dependency epoch is an IDR, whatever advanced the   *)
(* epoch and however many frames were skipped since.                       *)
THEOREM EpochsStartWithIdr ==
  Spec => EpochStartsWithIdr
<1>1. ShareInv /\ [Next]_vars
        => [unit' # unit /\ unit'.epoch # unit.epoch => unit'.idr]_vars
  BY EncodedUnit
<1> QED  BY <1>1, ShareInductive, PTL DEF Spec, EpochStartsWithIdr

(* Whatever the peer's threads and the loop still do, a stopped transport  *)
(* stays stopped and takes nothing more.                                   *)
LEMMA StoppedStays ==
  ASSUME ShareInv, [Next]_vars, webrtc.stopped
  PROVE  webrtc'.stopped /\ sent' = sent
<1>t. Bounded(webrtc) /\ webrtc \in WebType /\ ~remote.active
  BY DEF ShareInv, FullTypes, Bounded, RevokedInv
<1>e. /\ "peer_ready" \in EventKinds /\ "peer_disconnected" \in EventKinds
      /\ "terminal" \in EventKinds /\ "feedback" \in EventKinds
  BY DEF EventKinds
<1>d. \A t, f : DisableRemote(t, f) => webrtc' = webrtc
  BY <1>t DEF DisableRemote
<1>1. CASE PeerOpens \/ PeerFails \/ PeerDisconnects \/ PeerFeedback
  <2>1. Reports(webrtc, webrtc')
    BY <1>1, <1>t, <1>e, ReadyReports, FailReports, PushReports, RequestReports
    DEF PeerOpens, PeerFails, PeerDisconnects, PeerFeedback
  <2> QED  BY <1>1, <2>1
           DEF PeerOpens, PeerFails, PeerDisconnects, PeerFeedback, app, Reports
<1>2. CASE HandleRecoveryRequested \/ HandlePeerReady \/ HandleFeedback
           \/ HandleRemoteEnd \/ SignalingEnds
  BY <1>2, <1>t DEF HandleRecoveryRequested, HandlePeerReady, HandleFeedback,
                    HandleRemoteEnd, NextEvent, SignalingEnds
<1>3. CASE Start \/ ControllerTick \/ CaptureEnds \/ SendFails
  BY <1>3, <1>d DEF Start, ControllerTick, CaptureEnds, SendFails
<1>4. CASE Send
  BY <1>4 DEF Send, PeerTakes
<1>5. CASE PublishToFanout
  <2>1. webrtc' = webrtc /\ sent' = sent
    BY <1>5, <1>d DEF PublishToFanout
  <2> QED  BY <2>1
<1>6. CASE Shutdown
  BY <1>6, <1>t DEF Shutdown
<1>7. CASE \E changed, skipped, idr \in BOOLEAN, size \in UnitSizes :
             Encode(changed, skipped, idr, size)
  BY <1>7 DEF Encode
<1>8. CASE \/ RequestStop \/ Delay \/ PrepareEncoder \/ SelectWindow \/ OpenRecorder
           \/ StartCapture \/ StartTransport \/ LoopTop \/ EventsDone \/ NoTick
           \/ NoFrame \/ FrameFails \/ RecordDirectly \/ SendDone \/ UNCHANGED vars
  BY <1>8 DEF RequestStop, Delay, PrepareEncoder, SelectWindow, OpenRecorder, StartCapture,
              StartTransport, Prepared, LoopTop, EventsDone, NoTick, NoFrame, FrameFails,
              RecordDirectly, SendDone, vars, app
<1> QED
  BY <1>1, <1>2, <1>3, <1>4, <1>5, <1>6, <1>7, <1>8 DEF Next, LoopStep, Stopped

(* Revocation is final: after WebRtcShareTransport::stop no event reaches  *)
(* the loop, nothing is queued and nothing is sent, whatever the peer's    *)
(* threads still report.                                                   *)
THEOREM RevocationIsFinal ==
  Spec => RevokedIsFinal
<1>1. ShareInv /\ ShareInv' /\ [Next]_vars
        => [webrtc.stopped =>
              /\ webrtc'.stopped /\ webrtc'.events = << >>
              /\ ~remote'.active /\ ~q'.open /\ sent' = sent]_vars
  <2> SUFFICES ASSUME ShareInv, ShareInv', [Next]_vars, webrtc.stopped
               PROVE  /\ webrtc'.stopped /\ webrtc'.events = << >>
                      /\ ~remote'.active /\ ~q'.open /\ sent' = sent
    OBVIOUS
  <2>1. webrtc'.stopped /\ sent' = sent
    BY StoppedStays
  <2> QED  BY <2>1 DEF ShareInv, RevokedInv
<1> QED  BY <1>1, ShareInductive, PTL DEF Spec, RevokedIsFinal
=============================================================================
