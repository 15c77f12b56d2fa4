----------------------------- MODULE ShareLoop -----------------------------
(***************************************************************************)
(* run_share_pipeline of src/app/share_command.cpp, the application thread *)
(* of a share, with WebRtcShareTransport of src/app/share_command_webrtc   *)
(* .cpp, whose bounded event queue the peer's threads fill.                *)
(*                                                                         *)
(* One loop iteration polls the events, starts the capture, ticks the      *)
(* controller, encodes a frame and publishes, dequeues and sends it; pc    *)
(* says where it is, so that the peer's threads interleave between those   *)
(* points.  The transport queue, the fanout's flags and the encoder belong *)
(* to the loop's thread.  Before the loop a share prepares what it needs   *)
(* step by step and gives back what it has when a step fails: with a       *)
(* recording the encoder, the window, the recorder and the capture, and    *)
(* then the signaling, which may fail; without one the window and the      *)
(* signaling, which must not.                                              *)
(*                                                                         *)
(* Events that only report (session and join created) are left out, and so *)
(* are the checks for a steady clock that goes backward.  The encoder and  *)
(* the capture of a live-only share start together.                        *)
(***************************************************************************)
EXTENDS EncodedTransportQueue

CONSTANTS MaxShareEvents,  \* kMaximumShareEvents
          MaxEncoded,      \* bound on the access units encoded
          Disturbances,    \* bound on what befalls the share from outside
          UnitSizes        \* sizes of access units

ASSUME ShareAssumption ==
  /\ {MaxShareEvents, MaxEncoded} \subseteq Nat \ {0}
  /\ Disturbances \in Nat /\ UnitSizes \subseteq Nat \ {0}

VARIABLES
  pc,        \* where the share is
  session,   \* [recording, window, file]: a recording is wanted; the selected
             \* window and the recorder are held
  remote,    \* [active, ready]: transport_active and peer_ready
  recorder,  \* recorder_active
  capture,   \* capture_started
  enc,       \* [force, epoch]: force_idr and dependency_epoch
  unit,      \* the access unit encoded last
  q,         \* transport_queue
  fan,       \* [made, transport, recorder]: the fanout and its branches
  webrtc,    \* [ready, stopped, events] of WebRtcShareTransport
  peer,      \* [state, epoch] of its PeerSender
  sent,      \* the unit the peer took last
  offers,    \* number of units offered to the recorder
  ended,     \* why the loop ended, "" while it runs
  stopping,  \* stop_requested, also for the absolute expiry
  budget     \* disturbances left

app == <<session, remote, recorder, capture, enc, unit, q, fan, sent, offers, ended>>
vars == <<pc, app, webrtc, peer, stopping, budget>>

NoUnit == [id |-> 0, epoch |-> 0, idr |-> FALSE, size |-> 0]

EventKinds == {"peer_ready", "recovery_requested", "feedback",
               "peer_disconnected", "terminal"}

UnitType == [id : 0 .. MaxEncoded, epoch : Nat, idr : BOOLEAN, size : Nat]

(* Type correctness; the event queue is within its capacity. *)
TypeOK ==
  /\ pc \in {"prepare", "select", "record", "capture", "connect",
             "top", "events", "start", "control", "frame", "publish", "send",
             "shutdown", "stopped"}
  /\ session \in [recording : BOOLEAN, window : BOOLEAN, file : BOOLEAN]
  /\ remote \in [active : BOOLEAN, ready : BOOLEAN]
  /\ recorder \in BOOLEAN /\ capture \in BOOLEAN /\ stopping \in BOOLEAN
  /\ enc \in [force : BOOLEAN, epoch : Nat \ {0}]
  /\ unit \in UnitType /\ sent \in UnitType /\ offers \in 0 .. MaxEncoded
  /\ fan \in [made : BOOLEAN, transport : BOOLEAN, recorder : BOOLEAN]
  /\ webrtc.ready \in BOOLEAN /\ webrtc.stopped \in BOOLEAN
  /\ webrtc.events \in Seq(EventKinds) /\ Len(webrtc.events) <= MaxShareEvents
  /\ peer.state \in {"none", "live", "disconnected", "failed"}
  /\ peer.epoch \in Nat
  /\ ended \in {"", "stop", "peer", "link", "capture", "encoder", "recorder",
                "branches"}
  /\ budget \in 0 .. Disturbances

Init ==
  /\ pc = "prepare" /\ ended = "" /\ stopping = FALSE /\ budget = Disturbances
  /\ session \in [recording : BOOLEAN, window : {FALSE}, file : {FALSE}]
  /\ remote = [active |-> FALSE, ready |-> FALSE]
  /\ recorder = FALSE /\ capture = FALSE
  /\ enc = [force |-> TRUE, epoch |-> 1]
  /\ q = EmptyQueue
  /\ fan = [made |-> FALSE, transport |-> FALSE, recorder |-> FALSE]
  /\ webrtc = [ready |-> FALSE, stopped |-> FALSE, events |-> << >>]
  /\ peer = [state |-> "none", epoch |-> 0]
  /\ unit = NoUnit /\ sent = NoUnit /\ offers = 0

-----------------------------------------------------------------------------
(* Mutant: an event queue that drops an event when full. *)
PushLockedDropping(w, kind) ==
  IF w.stopped \/ Len(w.events) >= MaxShareEvents THEN w
  ELSE [w EXCEPT !.events = Append(w.events, kind)]

(* push_locked: a full event queue gives way to one terminal event. *)

PushLocked(w, kind) ==
  IF w.stopped THEN w
  ELSE IF Len(w.events) >= MaxShareEvents
  THEN [w EXCEPT !.ready = FALSE, !.events = <<"terminal">>]
  ELSE [w EXCEPT !.events = Append(w.events, kind)]

FailLocked(w) == PushLocked([w EXCEPT !.ready = FALSE], "terminal")

(* An IDR request of the responder reaches the application twice: as the   *)
(* event recovery_requested and through request_idr_with_parameter_sets.   *)
RequestIdr(w) ==
  PushLocked(PushLocked(w, "recovery_requested"), "recovery_requested")

StopTransport(w) == [ready |-> FALSE, stopped |-> TRUE, events |-> << >>]

(* The peer's and the signaling client's threads.  A peer accepted before  *)
(* the transport stopped may open after it.                                *)
PeerOpens ==
  /\ peer.state = "none" /\ (remote.active \/ webrtc.stopped)
  /\ peer' = [peer EXCEPT !.state = "live"]
  /\ webrtc' = PushLocked([webrtc EXCEPT !.ready = TRUE], "peer_ready")
  /\ UNCHANGED <<pc, app, stopping, budget>>

Disturbed == budget > 0 /\ budget' = budget - 1

PeerFails ==
  /\ Disturbed
  /\ peer.state \in {"live", "disconnected"}
  /\ peer' = [peer EXCEPT !.state = "failed"]
  /\ webrtc' = FailLocked(webrtc)
  /\ UNCHANGED <<pc, app, stopping>>

PeerDisconnects ==
  /\ Disturbed
  /\ peer.state = "live"
  /\ peer' = [peer EXCEPT !.state = "disconnected"]
  /\ webrtc' = PushLocked(webrtc, "peer_disconnected")
  /\ UNCHANGED <<pc, app, stopping>>

SignalingEnds ==
  /\ Disturbed
  /\ remote.active
  /\ webrtc' \in {PushLocked(webrtc, "terminal"), FailLocked(webrtc),
                  PushLocked(webrtc, "peer_disconnected")}
  /\ UNCHANGED <<pc, app, peer, stopping>>

PeerFeedback ==
  /\ Disturbed
  /\ peer.state = "live"
  /\ webrtc' \in {RequestIdr(webrtc), PushLocked(webrtc, "feedback")}
  /\ UNCHANGED <<pc, app, peer, stopping>>

RequestStop ==
  /\ ~stopping
  /\ stopping' = TRUE
  /\ UNCHANGED <<pc, app, webrtc, peer, budget>>

(* The loop is delayed while a unit waits in the queue. *)
Delay ==
  /\ Disturbed
  /\ q.queue # << >> /\ ~QueueExpired(q)
  /\ q' = QueueAged(q)
  /\ UNCHANGED <<session, pc, remote, recorder, capture, enc, unit, fan, webrtc, peer,
                 sent, offers, ended, stopping>>

-----------------------------------------------------------------------------
(* disable_remote, over a queue t and fanout flags f that the same step    *)
(* may have changed already.                                               *)
DisableRemote(t, f) ==
  IF ~remote.active THEN q' = t /\ fan' = f /\ UNCHANGED <<remote, webrtc>>
  ELSE /\ remote' = [active |-> FALSE, ready |-> FALSE]
       /\ q' = IF f.made /\ ~f.transport THEN t ELSE QueueStop(t)
       /\ fan' = [f EXCEPT !.transport = FALSE]
       /\ webrtc' = StopTransport(webrtc)

(* Every cause of a new dependency epoch also forces an IDR. *)
NewEpoch(e) == [force |-> TRUE, epoch |-> e.epoch + 1]

GoTo(where) == pc' = where /\ UNCHANGED ended
End(reason) == pc' = "shutdown" /\ ended' = reason

-----------------------------------------------------------------------------
(* Before the loop.  A return ends the share where it is. *)
Prepared(where) == pc = where /\ UNCHANGED <<enc, unit, q, fan, webrtc, peer, sent, offers, ended,
                                             stopping, budget>>

(* source.stop, and finalize of a recorder there is. *)
Released(s) == [s EXCEPT !.window = FALSE, !.file = FALSE]

(* The options are valid, and a recording has its encoder; or not. *)
PrepareEncoder ==
  /\ Prepared("prepare")
  /\ pc' \in {"select", "stopped"}
  /\ UNCHANGED <<session, remote, recorder, capture>>

SelectWindow ==
  /\ Prepared("select")
  /\ \/ pc' = "record" /\ session' = [session EXCEPT !.window = TRUE]
     \/ pc' = "stopped" /\ UNCHANGED session
  /\ UNCHANGED <<remote, recorder, capture>>

OpenRecorder ==
  /\ Prepared("record")
  /\ \/ /\ ~session.recording
        /\ pc' = "connect" /\ UNCHANGED <<session, recorder>>
     \/ /\ session.recording
        /\ \/ pc' = "capture" /\ recorder' = TRUE /\ session' = [session EXCEPT !.file = TRUE]
           \/ pc' = "stopped" /\ UNCHANGED recorder /\ session' = Released(session)
  /\ UNCHANGED <<remote, capture>>

StartCapture ==
  /\ Prepared("capture")
  /\ \/ pc' = "connect" /\ capture' = TRUE /\ UNCHANGED session
     \/ pc' = "stopped" /\ session' = Released(session) /\ UNCHANGED capture
  /\ UNCHANGED <<remote, recorder>>

(* Without a signaling server a recording goes on alone. *)
StartTransport ==
  /\ Prepared("connect")
  /\ \/ pc' = "top" /\ remote' = [remote EXCEPT !.active = TRUE] /\ UNCHANGED session
     \/ /\ UNCHANGED remote
        /\ IF recorder THEN pc' = "top" /\ UNCHANGED session
           ELSE pc' = "stopped" /\ session' = Released(session)
  /\ UNCHANGED <<recorder, capture>>

-----------------------------------------------------------------------------
LoopTop ==
  /\ pc = "top"
  /\ IF stopping THEN End("stop") ELSE GoTo("events")
  /\ UNCHANGED <<session, remote, recorder, capture, enc, unit, q, fan, webrtc, peer,
                 sent, offers, stopping, budget>>

NextEvent(kinds) ==
  /\ pc = "events" /\ remote.active /\ webrtc.events # << >>
  /\ Head(webrtc.events) \in kinds
  /\ UNCHANGED <<session, pc, recorder, capture, unit, peer, sent, offers, ended,
                 stopping, budget>>

PopEvent == webrtc' = [webrtc EXCEPT !.events = Tail(webrtc.events)]

(* Mutant: a fanout made without the recorder's branch. *)
NewFanoutAlone == [made |-> TRUE, transport |-> TRUE, recorder |-> FALSE]

NewFanout == [made |-> TRUE, transport |-> TRUE, recorder |-> recorder]

HandlePeerReady ==
  /\ NextEvent({"peer_ready"}) /\ PopEvent
  /\ IF remote.ready THEN UNCHANGED <<remote, enc, q, fan>>
     ELSE /\ remote' = [remote EXCEPT !.ready = TRUE]
          /\ enc' = IF capture THEN NewEpoch(enc) ELSE [enc EXCEPT !.force = TRUE]
          /\ q' = IF capture THEN QueueRequireRecovery(q) ELSE q
          /\ fan' = NewFanout

HandleRecoveryRequested ==
  /\ NextEvent({"recovery_requested"}) /\ PopEvent
  /\ enc' = IF remote.ready THEN NewEpoch(enc) ELSE enc
  /\ q' = IF remote.ready THEN QueueRequireRecovery(q) ELSE q
  /\ UNCHANGED <<remote, fan>>

(* The controller takes the feedback, or refuses it as invalid. *)
HandleFeedback ==
  /\ NextEvent({"feedback"})
  /\ \/ PopEvent /\ UNCHANGED <<remote, q, fan>>
     \/ DisableRemote(q, fan)
  /\ UNCHANGED enc

HandleRemoteEnd ==
  /\ NextEvent({"peer_disconnected", "terminal"})
  /\ DisableRemote(q, fan)
  /\ UNCHANGED enc

EventsDone ==
  /\ pc = "events" /\ (remote.active => webrtc.events = << >>)
  /\ GoTo("start")
  /\ UNCHANGED <<session, remote, recorder, capture, enc, unit, q, fan, webrtc, peer,
                 sent, offers, stopping, budget>>

Start ==
  /\ pc = "start"
  /\ \/ /\ GoTo("control")
        /\ capture' = (capture \/ remote.ready)
        /\ UNCHANGED <<remote, q, fan, webrtc>>
     \/ /\ remote.ready /\ ~capture
        /\ End("capture") /\ DisableRemote(q, fan) /\ UNCHANGED capture
  /\ UNCHANGED <<session, recorder, enc, unit, peer, sent, offers, stopping, budget>>

(* set_pacing_target_bits_per_second, part of every tick. *)
PacingAccepted == webrtc.ready /\ ~webrtc.stopped /\ peer.state # "failed"

(* The controller's decisions, as far as they reach the loop: none, a new  *)
(* epoch (an encoder restart or an IDR request), an unusable link or an    *)
(* invalid tick, or an encoder that does not restart.                      *)
ControllerTick ==
  /\ pc = "control" /\ remote.ready
  /\ \/ /\ ~PacingAccepted
        /\ End("peer") /\ DisableRemote(q, fan) /\ UNCHANGED <<enc, budget>>
     \/ /\ PacingAccepted /\ Disturbed
        /\ GoTo("frame")
        /\ enc' = NewEpoch(enc) /\ q' = QueueRequireRecovery(q)
        /\ UNCHANGED <<remote, fan, webrtc>>
     \/ /\ PacingAccepted /\ Disturbed
        /\ End("link") \/ End("encoder")
        /\ DisableRemote(q, fan) /\ UNCHANGED enc
  /\ UNCHANGED <<session, recorder, capture, unit, peer, sent, offers, stopping>>

(* No tick is due, or it decided nothing. *)
NoTick ==
  /\ pc = "control"
  /\ GoTo("frame")
  /\ UNCHANGED <<session, remote, recorder, capture, enc, unit, q, fan, webrtc, peer,
                 sent, offers, stopping, budget>>

(* Mutant: an idle loop that does not return to the check for a stop. *)
NoFrameSpinning ==
  /\ pc = "frame"
  /\ GoTo("events")
  /\ UNCHANGED <<session, remote, recorder, capture, enc, unit, q, fan, webrtc, peer,
                 sent, offers, stopping, budget>>

(* Nothing to encode: the capture has not started or has no new frame. *)
NoFrame ==
  /\ pc = "frame"
  /\ IF ~capture /\ ~remote.active /\ ~recorder THEN End("branches") ELSE GoTo("top")
  /\ UNCHANGED <<session, remote, recorder, capture, enc, unit, q, fan, webrtc, peer,
                 sent, offers, stopping, budget>>

CaptureEnds ==
  /\ pc = "frame" /\ capture
  /\ Disturbed
  /\ End("capture") /\ DisableRemote(q, fan)
  /\ UNCHANGED <<session, recorder, capture, enc, unit, peer, sent, offers, stopping>>

(* A conversion or the encoder fails: the remote side ends in Shutdown. *)
FrameFails ==
  /\ pc = "frame" /\ capture
  /\ Disturbed
  /\ End("encoder")
  /\ UNCHANGED <<session, remote, recorder, capture, enc, unit, q, fan, webrtc, peer,
                 sent, offers, stopping>>

AfterGeometry(changed) == IF changed THEN NewEpoch(enc) ELSE enc

(* Mutant: the forced IDR used up by a frame that the encoder skipped. *)
ForceAfterAnyFrame(e, skipped) == FALSE

(* A frame the encoder skips does not use up the forced IDR. *)
ForceAfter(e, skipped) == e.force /\ skipped

Encode(changed, skipped, idr, size) ==
  LET e == AfterGeometry(changed)
  IN  /\ pc = "frame" /\ capture /\ unit.id < MaxEncoded
      /\ IF changed THEN Disturbed ELSE UNCHANGED budget
      /\ q' = IF changed /\ remote.ready THEN QueueRequireRecovery(q) ELSE q
      /\ enc' = [e EXCEPT !.force = ForceAfter(e, skipped)]
      /\ IF skipped THEN GoTo("top") /\ UNCHANGED unit
         ELSE /\ e.force => idr
              /\ unit' = [id |-> unit.id + 1, epoch |-> e.epoch, idr |-> idr,
                          size |-> size]
              /\ GoTo("publish")
      /\ UNCHANGED <<session, remote, recorder, capture, fan, webrtc, peer, sent, offers,
                     stopping>>

(* The recorder answers an offer: it took the unit, or has failed. *)
Offered(branch, taken) ==
  /\ offers' = IF branch THEN offers + 1 ELSE offers
  /\ recorder' = (recorder /\ (branch => taken))

(* publish while the receiver is there: the queue first, then the recorder. *)
PublishToFanout ==
  LET admission == EnqueueUnit(q, unit)
  IN  /\ pc = "publish" /\ remote.ready
      /\ \E taken \in BOOLEAN :
           LET f == [fan EXCEPT !.transport = ~admission.q.unusable,
                                !.recorder = fan.recorder /\ taken]
           IN  /\ Offered(fan.recorder, taken)
               /\ IF admission.q.unusable
                  THEN /\ DisableRemote(admission.q, f)
                       /\ IF recorder' THEN GoTo("top") ELSE End("branches")
                       /\ UNCHANGED enc
                  ELSE /\ GoTo("send")
                       /\ q' = admission.q /\ fan' = f
                       /\ enc' = IF admission.recovery THEN NewEpoch(enc) ELSE enc
                       /\ UNCHANGED <<remote, webrtc>>
      /\ UNCHANGED <<session, capture, unit, peer, sent, stopping, budget>>

(* Without a receiver the unit goes to the recorder alone, or nowhere. *)
RecordDirectly ==
  /\ pc = "publish" /\ ~remote.ready
  /\ \E taken \in BOOLEAN :
       /\ Offered(recorder, taken)
       /\ IF recorder /\ ~taken /\ ~remote.active THEN End("recorder") ELSE GoTo("top")
  /\ UNCHANGED <<session, remote, capture, enc, unit, q, fan, webrtc, peer, sent, stopping,
                 budget>>

PeerTakes(next) ==
  /\ webrtc.ready /\ ~webrtc.stopped /\ peer.state = "live"
  /\ next.epoch = peer.epoch \/ next.idr

(* The first unit of an epoch begins it in the responder, whose recovery   *)
(* controller answers every change of epoch with an IDR request.           *)
Send ==
  LET next == q.queue[1]
  IN  /\ pc = "send" /\ CanDequeue(q) /\ PeerTakes(next)
      /\ q' = DequeueUnit(q)
      /\ sent' = [id |-> next.id, epoch |-> next.epoch, idr |-> next.idr,
                  size |-> next.size]
      /\ peer' = [peer EXCEPT !.epoch = next.epoch]
      /\ webrtc' = IF next.epoch = peer.epoch THEN webrtc ELSE RequestIdr(webrtc)
      /\ UNCHANGED <<session, pc, remote, recorder, capture, enc, unit, fan, offers, ended,
                     stopping, budget>>

(* The peer is gone, or its packetizer or pacer refuses the unit. *)
SendFails ==
  /\ pc = "send" /\ CanDequeue(q)
  /\ \/ ~PeerTakes(q.queue[1]) /\ UNCHANGED <<peer, budget>>
     \/ PeerTakes(q.queue[1]) /\ Disturbed /\ peer' = [peer EXCEPT !.state = "failed"]
  /\ GoTo("top")
  /\ DisableRemote(DequeueUnit(q), fan)
  /\ UNCHANGED <<session, recorder, capture, enc, unit, sent, offers, stopping>>

SendDone ==
  /\ pc = "send" /\ ~CanDequeue(q)
  /\ q' = DequeueUnit(q)
  /\ enc' = IF q.awaiting \/ QueueExpired(q) THEN NewEpoch(enc) ELSE enc
  /\ GoTo("top")
  /\ UNCHANGED <<session, remote, recorder, capture, unit, fan, webrtc, peer, sent, offers,
                 stopping, budget>>

Shutdown ==
  /\ pc = "shutdown"
  /\ GoTo("stopped")
  /\ q' = IF fan.made /\ ~fan.transport THEN q ELSE QueueStop(q)
  /\ fan' = [fan EXCEPT !.transport = FALSE, !.recorder = FALSE]
  /\ webrtc' = IF remote.active THEN StopTransport(webrtc) ELSE webrtc
  /\ remote' = [remote EXCEPT !.active = FALSE]
  /\ session' = Released(session)
  /\ UNCHANGED <<recorder, capture, enc, unit, peer, sent, offers, stopping, budget>>

Stopped == pc = "stopped" /\ UNCHANGED vars

LoopStep ==
  \/ PrepareEncoder \/ SelectWindow \/ OpenRecorder \/ StartCapture \/ StartTransport
  \/ LoopTop \/ HandlePeerReady \/ HandleRecoveryRequested \/ HandleFeedback
  \/ HandleRemoteEnd \/ EventsDone \/ Start \/ ControllerTick \/ NoTick
  \/ NoFrame \/ CaptureEnds \/ FrameFails
  \/ \E changed, skipped, idr \in BOOLEAN, size \in UnitSizes :
       Encode(changed, skipped, idr, size)
  \/ PublishToFanout \/ RecordDirectly \/ Send \/ SendFails \/ SendDone
  \/ Shutdown

Next ==
  \/ LoopStep \/ Stopped
  \/ PeerOpens \/ PeerFails \/ PeerDisconnects \/ SignalingEnds \/ PeerFeedback
  \/ RequestStop \/ Delay

Spec == Init /\ [][Next]_vars

(* The loop's thread keeps running; nothing is assumed of the others. *)
FairSpec == Spec /\ WF_vars(LoopStep)

-----------------------------------------------------------------------------
(* A unit whose dependency epoch differs from its predecessor's is an IDR, *)
(* whichever of the receiver's admission, feedback, a purge, the           *)
(* controller or a new geometry advanced the epoch, and however many       *)
(* frames the encoder skipped since.                                       *)
EpochStartsWithIdr ==
  [][unit' # unit /\ unit'.epoch # unit.epoch => unit'.idr]_vars

(* A healthy recorder is offered every encoded unit exactly once, by the   *)
(* fanout while the receiver is there and directly before and after; and   *)
(* wherever a share ends, before its loop or in it, the window has been    *)
(* given back and the recording finalized.                                 *)
RecorderMissesNothing ==
  /\ TypeOK
  /\ recorder /\ pc # "publish" => offers = unit.id
  /\ pc = "stopped" => ~session.window /\ ~session.file

(* Revocation is final: whatever the peer's threads still report, no event *)
(* reaches the loop, nothing is queued and nothing is sent.                *)
RevokedIsFinal ==
  [][webrtc.stopped =>
       /\ webrtc'.stopped /\ webrtc'.events = << >>
       /\ ~remote'.active /\ ~q'.open /\ sent' = sent]_vars

(* A peer that failed or disconnected is revoked, also when its own event  *)
(* was lost in an overflow of the event queue.                             *)
LostPeerIsRevoked ==
  peer.state \in {"failed", "disconnected"} ~> ~remote.active

(* A lost peer is revoked in the end, and revoked for good. *)
RevocationHolds == RevokedIsFinal /\ LostPeerIsRevoked

(* A requested stop ends the share. *)
StopEndsShare == stopping ~> pc = "stopped"

(* A healthy recording outlives the loss of the peer.                      *)
RecordingOutlivesPeer == ended = "peer" => ~recorder
=============================================================================
