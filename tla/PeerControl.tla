----------------------------- MODULE PeerControl -----------------------------
(***************************************************************************)
(* PeerSender of src/transport/peer_sender.cpp: the control protocol, the  *)
(* end of the media and the events of one peer, run by three threads: the  *)
(* callbacks of libdatachannel ("rtc"), the clock worker ("worker") and    *)
(* the share ("app"), which also stops the peer.                           *)
(*                                                                         *)
(* What a thread does under the mutex is one step; what it does after the  *)
(* unlock is a list of tasks it takes one at a time.  resetCallbacks, of   *)
(* the library, returns once no callback runs.  The media path itself is   *)
(* in MediaResponder and MediaEgressGate.                                  *)
(***************************************************************************)
EXTENDS ControlSession

VARIABLES
  peer,   \* the fields under the mutex, and the state of the channel
  todo,   \* what each thread has still to do
  heard   \* history of the events: [failed, ended, late]

peerVars == <<ctl, rcv, down, up, peer, todo, heard>>

PeerThreads == {"rtc", "worker", "app"}

(* The protocol's own state is typed by CtlTypeOK. *)
PeerTypeOK ==
  /\ DOMAIN todo = PeerThreads
  /\ {peer.offer, peer.connected, peer.controlOpen, peer.failed,
      peer.stopping, peer.stopped, peer.shutdown, peer.workerDone, peer.sealed,
      peer.detached} \subseteq BOOLEAN
  /\ peer.chan \in {"none", "new", "open", "closed"}
  /\ peer.track \in {"none", "new", "open"}
  /\ heard.failed \in Nat /\ {heard.ended, heard.late} \subseteq BOOLEAN

PeerInit ==
  /\ CtlInit
  /\ peer = [offer |-> FALSE, track |-> "none", connected |-> FALSE,
             controlOpen |-> FALSE, failed |-> FALSE, stopping |-> FALSE, stopped |-> FALSE,
             shutdown |-> FALSE, workerDone |-> FALSE, sealed |-> FALSE, detached |-> FALSE,
             chan |-> "none"]
  /\ todo = [t \in PeerThreads |-> << >>]
  /\ heard = [failed |-> 0, ended |-> FALSE, late |-> FALSE]

-----------------------------------------------------------------------------
(* Tasks.  An output is applied message by message.  Of the events those   *)
(* that are not the end or a failure are one, "progress".                  *)
Do(op) == <<[op |-> op]>>
Emit(e) == <<[op |-> "emit", event |-> e]>>
ApplyControl(r) ==
  <<[op |-> "apply", r |-> [messages |-> r.messages, event |-> r.event, valid |-> r.valid,
                            close |-> r.close]]>>

Clear(t) == todo[t] = << >>

Leaving == peer.failed \/ peer.stopping \/ peer.stopped

(* The tasks ts take the place of the first task of t. *)
Becomes(t, ts) == todo' = [todo EXCEPT ![t] = ts \o Tail(@)]

NextTask(t, op) == todo[t] # << >> /\ Head(todo[t]).op = op

PeerCalls(t, p, ts) ==
  /\ Clear(t)
  /\ peer' = p
  /\ todo' = [todo EXCEPT ![t] = ts]
  /\ UNCHANGED heard

(* Mutant: the failure is reported before the media are sealed. *)
TaskFailEarly(t) ==
  /\ NextTask(t, "fail")
  /\ peer' = IF Leaving THEN peer ELSE [peer EXCEPT !.failed = TRUE, !.connected = FALSE]
  /\ Becomes(t, IF Leaving THEN << >> ELSE Emit("failed") \o Do("seal"))
  /\ UNCHANGED <<ctl, rcv, down, up, heard>>

(* fail: the first failure of a peer that is not stopping seals the media, *)
(* then tells the share.                                                   *)
TaskFail(t) ==
  /\ NextTask(t, "fail")
  /\ peer' = IF Leaving THEN peer ELSE [peer EXCEPT !.failed = TRUE, !.connected = FALSE]
  /\ Becomes(t, IF Leaving THEN << >> ELSE Do("seal") \o Emit("failed"))
  /\ UNCHANGED <<ctl, rcv, down, up, heard>>

TaskSeal(t) ==
  /\ NextTask(t, "seal")
  /\ peer' = [peer EXCEPT !.sealed = TRUE]
  /\ Becomes(t, << >>)
  /\ UNCHANGED <<ctl, rcv, down, up, heard>>

TaskEmit(t) ==
  LET e == Head(todo[t]).event
  IN  /\ NextTask(t, "emit")
      /\ heard' = [failed |-> heard.failed + IF e = "failed" THEN 1 ELSE 0,
                   ended |-> heard.ended \/ e = "ended", late |-> heard.late \/ heard.ended]
      /\ Becomes(t, << >>)
      /\ UNCHANGED <<ctl, rcv, down, up, peer>>

(* apply_control: a message is sent, or is not and the peer fails.         *)
TaskSend(t) ==
  LET r == Head(todo[t]).r
  IN  /\ NextTask(t, "apply") /\ r.messages # << >>
      /\ \/ /\ peer.chan = "open"
            /\ down' = Append(down, Head(r.messages))
            /\ Becomes(t, ApplyControl([r EXCEPT !.messages = Tail(@)]))
         \/ /\ peer.chan # "open"
            /\ Becomes(t, Do("fail"))
            /\ UNCHANGED down
      /\ UNCHANGED <<ctl, rcv, up, peer, heard>>

(* Its events, and the close of the channel. *)
TaskApply(t) ==
  LET r == Head(todo[t]).r
      failing == r.event \in {"terminal", "protocol_error"} \/ ~r.valid
  IN  /\ NextTask(t, "apply") /\ r.messages = << >>
      /\ Becomes(t, (IF r.event = "receiver_stats" THEN Emit("progress") ELSE << >>)
                    \o (IF failing THEN Do("fail") ELSE << >>)
                    \o (IF r.valid /\ r.close THEN Do("close") ELSE << >>))
      /\ UNCHANGED <<ctl, rcv, down, up, peer, heard>>

TaskClose(t) ==
  /\ NextTask(t, "close")
  /\ peer' = [peer EXCEPT !.chan = "closed"]
  /\ Becomes(t, << >>)
  /\ UNCHANGED <<ctl, rcv, down, up, heard>>

-----------------------------------------------------------------------------
(* The share's calls. *)
AcceptOffer == \E good \in BOOLEAN :
  /\ ~peer.stopped
  /\ PeerCalls("app", peer,
               IF good /\ ~peer.offer /\ ~Leaving THEN Do("describe") \o Do("accept")
               ELSE Do("fail"))
  /\ UNCHANGED ctlVars

(* setRemoteDescription, which attaches the track of the offer if it has   *)
(* one and there is none yet.                                              *)
TaskDescribe == \E video \in BOOLEAN :
  /\ NextTask("app", "describe")
  /\ peer' = [peer EXCEPT !.track = IF video /\ @ = "none" THEN "new" ELSE @]
  /\ Becomes("app", IF video /\ peer.track # "none" THEN Do("fail") ELSE << >>)
  /\ UNCHANGED <<ctl, rcv, down, up, heard>>

TaskAccept ==
  /\ NextTask("app", "accept")
  /\ IF peer.failed \/ peer.track = "none"
     THEN Becomes("app", Do("fail")) /\ UNCHANGED peer
     ELSE peer' = [peer EXCEPT !.offer = TRUE] /\ Becomes("app", Emit("progress"))
  /\ UNCHANGED <<ctl, rcv, down, up, heard>>

AddRemoteCandidate == \E good \in BOOLEAN :
  /\ ~peer.stopped
  /\ PeerCalls("app", peer,
               IF good /\ peer.offer /\ ~Leaving THEN << >> ELSE Do("fail"))
  /\ UNCHANGED ctlVars

(* send_access_unit, for a unit of the epoch in progress or an IDR that    *)
(* starts one (see MediaResponder): the packetizer, the pacer or the track *)
(* refuses it, or it is sent.                                              *)
SendAccessUnit == \E taken \in BOOLEAN :
  /\ ~Leaving /\ peer.connected /\ peer.track = "open"
  /\ PeerCalls("app", peer, IF taken THEN << >> ELSE Do("fail"))
  /\ UNCHANGED ctlVars

-----------------------------------------------------------------------------
(* The callbacks of the library. *)
Callback(p, ts) == ~peer.detached /\ PeerCalls("rtc", p, ts)

Connected ==
  /\ peer.offer /\ ~peer.connected
  /\ Callback([peer EXCEPT !.connected = TRUE], Emit("progress"))
  /\ UNCHANGED ctlVars

Disconnected ==
  /\ peer.connected
  /\ Callback([peer EXCEPT !.connected = FALSE], Emit("progress"))
  /\ UNCHANGED ctlVars

(* The connection or ICE fails, the track closes, a binary message or an   *)
(* error on the channel, or the receiver's feedback floods.                *)
PeerFault ==
  /\ peer.offer
  /\ Callback(peer, Do("fail"))
  /\ UNCHANGED ctlVars

TrackOpens ==
  /\ peer.connected /\ peer.track = "new"
  /\ Callback([peer EXCEPT !.track = "open"], Emit("progress"))
  /\ UNCHANGED ctlVars

(* A receiver report, a REMB or a request for recovery. *)
Feedback ==
  /\ peer.track = "open"
  /\ Callback(peer, Emit("progress"))
  /\ UNCHANGED ctlVars

AttachControl == \E good \in BOOLEAN :
  LET fits == good /\ peer.chan = "none" /\ ~peer.stopped
  IN  /\ peer.offer
      /\ Callback([peer EXCEPT !.chan = IF fits THEN "new" ELSE @],
                  IF fits THEN << >> ELSE Do("fail"))
      /\ UNCHANGED ctlVars

(* The burst of clock requests joins the output while it is valid. *)
OpeningOutput(c) ==
  LET asks[k \in 0 .. CtlBurst] ==
        IF k = 0 THEN CtlBegin(c, 1)
        ELSE LET before == asks[k - 1]
                 ask == RequestClock(before.c, FALSE)
             IN  IF ~before.valid THEN before
                 ELSE [ask EXCEPT !.messages = before.messages \o @]
  IN  asks[CtlBurst]

ControlOpened ==
  LET r == OpeningOutput(ctl)
      on == ~peer.stopping /\ ~peer.stopped
  IN  /\ peer.chan = "new" /\ ctl.phase = "idle"
      /\ Callback([peer EXCEPT !.chan = "open", !.controlOpen = on],
                  IF on THEN ApplyControl(r) \o Emit("progress") ELSE << >>)
      /\ ctl' = IF on THEN r.c ELSE ctl
      /\ UNCHANGED <<rcv, down, up>>

ControlReceived ==
  LET r == CtlReceive(ctl, Head(up))
  IN  /\ peer.chan = "open" /\ up # << >>
      /\ Callback(peer, ApplyControl(r))
      /\ ctl' = r.c /\ up' = Tail(up)
      /\ UNCHANGED <<rcv, down>>

(* onClosed, of a channel the receiver leaves or this end has closed. *)
ControlClosed ==
  LET r == ChannelClosed(ctl)
      expected == peer.stopping \/ peer.stopped \/ ctl.phase \in {"ended", "failed"}
  IN  /\ peer.controlOpen /\ (rcv.ended \/ peer.chan = "closed")
      /\ Callback([peer EXCEPT !.controlOpen = FALSE, !.chan = "closed"],
                  IF expected THEN << >> ELSE ApplyControl(r))
      /\ ctl' = IF expected THEN ctl ELSE r.c
      /\ UNCHANGED <<rcv, down, up>>

-----------------------------------------------------------------------------
(* run_worker. *)
WorkerClock == \E due \in BOOLEAN :
  LET r == RequestClock(ctl, due)
  IN  /\ ~peer.shutdown /\ peer.controlOpen /\ ctl.phase = "connected"
      /\ ctl.send + 1 < CtlMaxSend
      /\ PeerCalls("worker", peer, IF r.messages # << >> \/ ~r.valid THEN ApplyControl(r)
                                   ELSE << >>)
      /\ ctl' = r.c
      /\ UNCHANGED <<rcv, down, up>>

WorkerExits ==
  /\ peer.shutdown /\ ~peer.workerDone
  /\ PeerCalls("worker", [peer EXCEPT !.workerDone = TRUE], << >>)
  /\ UNCHANGED ctlVars

-----------------------------------------------------------------------------
(* stop, whose wait for the acknowledgement of SESSION_ENDED may time out. *)
StopPeer ==
  /\ ~peer.stopping /\ ~peer.stopped
  /\ PeerCalls("app", [peer EXCEPT !.stopping = TRUE, !.connected = FALSE],
               Do("seal") \o (IF peer.chan = "none" THEN << >> ELSE Do("end"))
               \o Do("shutdown") \o Do("reset") \o Do("join") \o Do("finish")
               \o Emit("ended"))
  /\ UNCHANGED ctlVars

TaskEnd ==
  LET r == End(ctl)
      announce == /\ peer.chan = "open"
                  /\ ctl.phase \in {"connected", "paused", "pause_pending", "resume_pending"}
  IN  /\ NextTask("app", "end")
      /\ ctl' = IF announce THEN r.c ELSE ctl
      /\ Becomes("app", IF announce THEN ApplyControl(r) ELSE << >>)
      /\ UNCHANGED <<rcv, down, up, peer, heard>>

(* Mutant: stop joins the worker without having told it to end. *)
TaskShutdownQuiet ==
  /\ NextTask("app", "shutdown")
  /\ Becomes("app", << >>)
  /\ UNCHANGED <<ctl, rcv, down, up, peer, heard>>

TaskShutdown ==
  /\ NextTask("app", "shutdown")
  /\ peer' = [peer EXCEPT !.shutdown = TRUE]
  /\ Becomes("app", << >>)
  /\ UNCHANGED <<ctl, rcv, down, up, heard>>

TaskReset ==
  /\ NextTask("app", "reset") /\ Clear("rtc")
  /\ peer' = [peer EXCEPT !.detached = TRUE,
                          !.chan = IF @ = "none" THEN @ ELSE "closed"]
  /\ Becomes("app", << >>)
  /\ UNCHANGED <<ctl, rcv, down, up, heard>>

TaskJoin ==
  /\ NextTask("app", "join") /\ peer.workerDone
  /\ Becomes("app", << >>)
  /\ UNCHANGED <<ctl, rcv, down, up, peer, heard>>

TaskFinish ==
  /\ NextTask("app", "finish")
  /\ peer' = [peer EXCEPT !.track = "none", !.controlOpen = FALSE,
                          !.stopped = TRUE, !.stopping = FALSE]
  /\ Becomes("app", << >>)
  /\ UNCHANGED <<ctl, rcv, down, up, heard>>

-----------------------------------------------------------------------------
Step(t) ==
  \/ TaskFail(t) \/ TaskSeal(t) \/ TaskEmit(t) \/ TaskSend(t) \/ TaskApply(t) \/ TaskClose(t)

AppStep == TaskDescribe \/ TaskAccept \/ TaskEnd \/ TaskShutdown \/ TaskReset \/ TaskJoin \/ TaskFinish

PeerReceiver == (ReceiverHandles \/ ReceiverSends \/ ReceiverLeaves)
                /\ UNCHANGED <<peer, todo, heard>>

PeerNext ==
  \/ \E t \in PeerThreads : Step(t)
  \/ AppStep \/ AcceptOffer \/ AddRemoteCandidate \/ SendAccessUnit
  \/ Connected \/ Disconnected \/ PeerFault \/ TrackOpens \/ Feedback
  \/ AttachControl \/ ControlOpened \/ ControlReceived \/ ControlClosed
  \/ WorkerClock \/ WorkerExits \/ StopPeer \/ PeerReceiver

PeerSpec == PeerInit /\ [][PeerNext]_peerVars

(* A thread that has something to do does it, and the worker wakes every   *)
(* kWorkerInterval; resetCallbacks is not overtaken by callbacks for ever. *)
(* Nothing is assumed of the receiver or the network.                      *)
PeerFairness ==
  /\ WF_peerVars(Step("rtc")) /\ WF_peerVars(Step("worker") \/ WorkerExits)
  /\ WF_peerVars(Step("app") \/ AppStep) /\ SF_peerVars(TaskReset)

-----------------------------------------------------------------------------
(* The share hears of a peer's failure at most once and only with the      *)
(* media sealed, and hears nothing after its end: by then no thread is     *)
(* left in the peer, whose owner may destroy it.                           *)
PeerEndIsLast ==
  /\ PeerTypeOK
  /\ heard.failed <= 1
  /\ heard.failed = 1 => peer.sealed
  /\ heard.ended => ~heard.late /\ (\A t \in {"rtc", "worker"} : Clear(t))

(* A stop comes to its end, also when the receiver never acknowledges, the *)
(* channel has closed or the worker is in the middle of a send.            *)
PeerStopCompletes == peer.stopping ~> heard.ended

(* docs/signaling.md: the numbers of a direction strictly increase, so the *)
(* receiver never meets one out of order.                                  *)
ControlInOrder == ~rcv.confused
=============================================================================
